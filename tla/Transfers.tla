----------------------------- MODULE Transfers -----------------------------
(***************************************************************************)
(* Outbound bank transfers of one organisation: any number of concurrent   *)
(* calls of the Transfer handler (check the balance, post the debit, call  *)
(* Nomba, post a compensating credit when the call fails), each database   *)
(* statement and the two ends of the Nomba call being steps of their own,  *)
(* and Nomba, which pays out or refuses on its own time.                   *)
(***************************************************************************)
EXTENDS Integers, FiniteSets

CONSTANTS
    Requests,     \* transfer requests (HTTP calls)
    Accounts,     \* virtual accounts
    AccountOf,    \* AccountOf[r]: the account that r debits
    Amount,       \* Amount[r] in kobo; validateTransferRequest wants it positive
    Ref,          \* Ref[r]: the client's reference, merchantTxRef at Nomba
    Opening,      \* Opening[a]: balance before the first request
    MaxBalance,   \* bound on the deposits
    Serial,       \* TRUE: no two calls on one account overlap
    FaultKinds,   \* subset of AllFaults that may happen
    MaxFaults     \* bound on the number of faults

AllFaults == {"db",       \* a statement fails and has no effect
              "commit",   \* a commit takes effect but is reported as failed
              "timeout",  \* the Nomba call fails without an answer
              "cancel",   \* the client goes away: r.Context() is cancelled
              "crash"}    \* the process dies

ASSUME TransfersAssumption ==
    /\ AccountOf \in [Requests -> Accounts]
    /\ Amount \in [Requests -> Nat \ {0}]
    /\ Opening \in [Accounts -> Nat]
    /\ MaxBalance \in Nat /\ MaxFaults \in Nat
    /\ Serial \in BOOLEAN
    /\ FaultKinds \subseteq AllFaults

VARIABLES
    balance,      \* sum of the account's ledger_entries, credits minus debits
    debited,      \* requests with a transfer_out / pool_release pair
    reversed,     \* requests with a transfer_reversal / pool pair
    phase,        \* control state of each call
    cancelled,    \* calls whose request context is cancelled
    submitted,    \* calls whose transfer reached Nomba
    sent,         \* transfers Nomba paid out
    refused,      \* transfers Nomba declined
    up,           \* the API process is running
    hit,          \* history: calls that a fault struck where money hangs on it
    faults        \* faults so far

ledger == <<balance, debited, reversed>>
nomba  == <<submitted, sent, refused>>
vars   == <<ledger, phase, cancelled, nomba, up, hit, faults>>

Phases == {"new",                 \* not received yet
           "check",               \* next: GetBalance
           "debit",               \* balance seen sufficient; next: insert the debit
           "call",                \* next: Nomba Transfer
           "calling",             \* waiting for Nomba's answer
           "reverse",             \* next: reverseLedgerDebit
           "ok",                  \* 200 submitted
           "unfunded",            \* 422 insufficient funds
           "failed",              \* 500 failed to process transfer
           "rejected",            \* 502 transfer rejected by payment provider
           "gone"}                \* cut off by a crash

InFlight == {"check", "debit", "call", "calling", "reverse"}
Settled  == {"ok", "unfunded", "failed", "rejected", "gone"}

-----------------------------------------------------------------------------
Init ==
    /\ balance = Opening /\ debited = {} /\ reversed = {}
    /\ phase = [r \in Requests |-> "new"] /\ cancelled = {}
    /\ submitted = {} /\ sent = {} /\ refused = {}
    /\ up = TRUE /\ hit = {} /\ faults = 0

Fault(kind, struck) ==
    /\ kind \in FaultKinds /\ faults < MaxFaults
    /\ faults' = faults + 1 /\ hit' = hit \cup struck

NoFault == UNCHANGED <<faults, hit>>

Goto(r, p) == phase' = [phase EXCEPT ![r] = p]

\* What a call made with the request's context can meet: the context is alive
\* and it succeeds; or it fails, always when the context is cancelled.  Struck
\* is the call, if its failure leaves the customer's money in doubt.
Succeeds(r) == r \notin cancelled /\ NoFault

Fails(r, kind, struck) ==
    \/ r \in cancelled /\ hit' = hit \cup struck /\ UNCHANGED faults
    \/ Fault(kind, struck)

-----------------------------------------------------------------------------
(* The environment: credits to the account, Nomba, the client.             *)

Deposit(a) ==
    /\ up /\ balance[a] < MaxBalance
    /\ balance' = [balance EXCEPT ![a] = @ + 1]
    /\ UNCHANGED <<debited, reversed, phase, cancelled, nomba, up, hit, faults>>

\* Nomba pays a reference out once; it may do so long after the caller has
\* stopped waiting.
NombaPays(r) ==
    /\ r \in submitted \ (sent \cup refused)
    /\ \A q \in sent : Ref[q] # Ref[r]
    /\ sent' = sent \cup {r}
    /\ UNCHANGED <<ledger, phase, cancelled, submitted, refused, up, hit, faults>>

NombaRefuses(r) ==
    /\ r \in submitted \ (sent \cup refused)
    /\ refused' = refused \cup {r}
    /\ UNCHANGED <<ledger, phase, cancelled, submitted, sent, up, hit, faults>>

Cancel(r) ==
    /\ phase[r] \in InFlight /\ r \notin cancelled
    /\ Fault("cancel", {})
    /\ cancelled' = cancelled \cup {r}
    /\ UNCHANGED <<ledger, phase, nomba, up>>

-----------------------------------------------------------------------------
(* The Transfer handler.                                                   *)

\* Received, decoded and validated.  Serial is an assumption about the clients:
\* the code has nothing that enforces it.
Start(r) ==
    /\ up /\ phase[r] = "new"
    /\ Serial => \A q \in Requests :
                    AccountOf[q] = AccountOf[r] => phase[q] \notin InFlight
    /\ Goto(r, "check")
    /\ UNCHANGED <<ledger, cancelled, nomba, up, hit, faults>>

\* As CheckBalance, with the comparison off by one.
CheckBalance_OffByOne(r) ==
    /\ up /\ phase[r] = "check"
    /\ \/ balance[AccountOf[r]] >= Amount[r] - 1 /\ Goto(r, "debit") /\ Succeeds(r)
       \/ balance[AccountOf[r]] < Amount[r] - 1 /\ Goto(r, "unfunded") /\ Succeeds(r)
       \/ Goto(r, "failed") /\ Fails(r, "db", {})
    /\ UNCHANGED <<ledger, cancelled, nomba, up>>

\* Whether the account is closed is not looked at, here or later.
CheckBalance(r) ==
    /\ up /\ phase[r] = "check"
    /\ \/ balance[AccountOf[r]] >= Amount[r] /\ Goto(r, "debit") /\ Succeeds(r)
       \/ balance[AccountOf[r]] < Amount[r] /\ Goto(r, "unfunded") /\ Succeeds(r)
       \/ Goto(r, "failed") /\ Fails(r, "db", {})
    /\ UNCHANGED <<ledger, cancelled, nomba, up>>

Debit(r) ==
    /\ balance' = [balance EXCEPT ![AccountOf[r]] = @ - Amount[r]]
    /\ debited' = debited \cup {r}

\* As InsertDebit, with the error ignored as the one of the reversal is.
InsertDebit_IgnoreError(r) ==
    /\ up /\ phase[r] = "debit"
    /\ \/ Debit(r) /\ Goto(r, "call") /\ Succeeds(r)
       \/ Debit(r) /\ Goto(r, "call") /\ Fails(r, "commit", {r})
       \/ UNCHANGED <<balance, debited>> /\ Goto(r, "call") /\ Fails(r, "db", {})
    /\ UNCHANGED <<reversed, cancelled, nomba, up>>

\* Both legs of the debit, in one database transaction.
InsertDebit(r) ==
    /\ up /\ phase[r] = "debit"
    /\ \/ Debit(r) /\ Goto(r, "call") /\ Succeeds(r)
       \/ Debit(r) /\ Goto(r, "failed") /\ Fails(r, "commit", {r})
       \/ UNCHANGED <<balance, debited>> /\ Goto(r, "failed") /\ Fails(r, "db", {})
    /\ UNCHANGED <<reversed, cancelled, nomba, up>>

\* A call that fails before it is sent, for want of a token for instance, and
\* one that fails later, are the same to the handler.
CallNomba(r) ==
    /\ up /\ phase[r] = "call"
    /\ \/ submitted' = submitted \cup {r} /\ Goto(r, "calling") /\ Succeeds(r)
       \/ UNCHANGED submitted /\ Goto(r, "reverse") /\ Fails(r, "timeout", {})
    /\ UNCHANGED <<ledger, cancelled, sent, refused, up>>

\* As Answer, with a declined transfer reported and not reversed.
Answer_DeclineKept(r) ==
    /\ up /\ phase[r] = "calling"
    /\ \/ r \in sent /\ Goto(r, "ok") /\ Succeeds(r)
       \/ r \in refused /\ Goto(r, "rejected") /\ Succeeds(r)
       \/ Goto(r, "reverse") /\ Fails(r, "timeout", {r})
    /\ UNCHANGED <<ledger, cancelled, nomba, up>>

\* As Answer, with a duplicate reference taken for a success.
Answer_DeclineOk(r) ==
    /\ up /\ phase[r] = "calling"
    /\ \/ r \in sent \cup refused /\ Goto(r, "ok") /\ Succeeds(r)
       \/ Goto(r, "reverse") /\ Fails(r, "timeout", {r})
    /\ UNCHANGED <<ledger, cancelled, nomba, up>>

Answer(r) ==
    /\ up /\ phase[r] = "calling"
    /\ \/ r \in sent /\ Goto(r, "ok") /\ Succeeds(r)
       \/ r \in refused /\ Goto(r, "reverse") /\ Succeeds(r)
       \/ Goto(r, "reverse") /\ Fails(r, "timeout", {r})
    /\ UNCHANGED <<ledger, cancelled, nomba, up>>

Credit(r) ==
    /\ balance' = [balance EXCEPT ![AccountOf[r]] = @ + Amount[r]]
    /\ reversed' = reversed \cup {r}

\* The reversal uses the request's context too, and its error is only logged.
ReverseLedgerDebit(r) ==
    /\ up /\ phase[r] = "reverse"
    /\ \/ Credit(r) /\ Succeeds(r)
       \/ Credit(r) /\ Fails(r, "commit", {})
       \/ UNCHANGED <<balance, reversed>> /\ Fails(r, "db", {r})
    /\ Goto(r, "rejected")
    /\ UNCHANGED <<debited, cancelled, nomba, up>>

-----------------------------------------------------------------------------
Crash ==
    LET cut == {r \in Requests : phase[r] \in InFlight} IN
    /\ up /\ Fault("crash", cut \cap debited)
    /\ up' = FALSE
    /\ phase' = [r \in Requests |-> IF r \in cut THEN "gone" ELSE phase[r]]
    /\ UNCHANGED <<ledger, cancelled, nomba>>

\* Nothing resumes the transfers that the crash cut off.
Restart ==
    /\ ~up /\ up' = TRUE
    /\ UNCHANGED <<ledger, phase, cancelled, nomba, hit, faults>>

-----------------------------------------------------------------------------
HandlerStep(r) ==
    \/ CheckBalance(r)
    \/ InsertDebit(r)
    \/ CallNomba(r)
    \/ Answer(r)
    \/ ReverseLedgerDebit(r)

NombaStep(r) == NombaPays(r) \/ NombaRefuses(r)

Next ==
    \/ \E a \in Accounts : Deposit(a)
    \/ \E r \in Requests : Start(r) \/ HandlerStep(r) \/ NombaStep(r) \/ Cancel(r)
    \/ Crash
    \/ Restart

Spec == Init /\ [][Next]_vars

\* net/http runs every call to its end; Nomba decides every transfer it got.
Fairness ==
    /\ \A r \in Requests : WF_vars(HandlerStep(r)) /\ WF_vars(NombaStep(r))
    /\ WF_vars(Restart)

FairSpec == Spec /\ Fairness

-----------------------------------------------------------------------------
(* Properties.                                                             *)

\* Types, and the order of the ledger-first protocol: what the control state
\* of a call says about the rows it has written.
TypeOK ==
    /\ balance \in [Accounts -> Int]
    /\ phase \in [Requests -> Phases]
    /\ cancelled \subseteq Requests /\ hit \subseteq Requests
    /\ reversed \subseteq debited /\ debited \subseteq Requests
    /\ submitted \subseteq Requests
    /\ sent \subseteq submitted /\ refused \subseteq submitted
    /\ up \in BOOLEAN /\ faults \in 0 .. MaxFaults

\* "validates sufficient funds atomically": no account goes below zero.  Only
\* with Serial: the check and the debit are two statements with no lock.
NoOverdraft == \A a \in Accounts : balance[a] >= 0

On(a) == {r \in Requests : AccountOf[r] = a}

\* The calls that have seen the account funded and not debited it yet.
Passed(a) == {r \in On(a) : phase[r] = "debit"}

\* How far the race can take an account: the debit of every call but one may
\* be uncovered, and no more, whatever fails and however often money comes in,
\* goes out and is given back.
OverdraftBounded ==
    \A a \in Accounts : \A most \in {Amount[r] : r \in On(a)} :
        (\A r \in On(a) : Amount[r] <= most) => balance[a] >= -(most * (Cardinality(On(a)) - 1))

\* Ledger first: Nomba never pays out a transfer that is not debited, and a
\* debit is given back only after the call for it is over, whatever statement,
\* call or process fails.
PaidFromLedger ==
    /\ submitted \subseteq debited
    /\ \A r \in reversed : phase[r] = "rejected"

Kept(r) == r \in debited \ reversed

\* A call takes the customer's money exactly when Nomba pays it out.  Four
\* things break this and no others: a debit stored but reported as failed, an
\* answer that does not come, a reversal that fails, a crash after the debit.  A
\* client that goes away, a failed statement before the debit, a Nomba call that
\* cannot be made or a reversal reported as failed do not.
UnstruckIsExact ==
    \A r \in Requests \ hit : phase[r] \in Settled => (Kept(r) <=> r \in sent)

\* Re-sending a reference costs the customer nothing: of the calls that carry
\* one reference and that were not struck so, at most one keeps its debit.
RefChargedOnce ==
    \A r, q \in Requests \ hit :
        /\ Ref[r] = Ref[q] /\ Kept(r) /\ Kept(q)
        /\ phase[r] \in Settled /\ phase[q] \in Settled
        => r = q

\* The handler, Nomba and the crashes keep the promise of Payout.
Promise == INSTANCE Payout WITH
    taken <- debited,
    given <- reversed,
    paid <- sent,
    over <- {r \in Requests : phase[r] \in Settled},
    struck <- hit

PayoutKept == Promise!Spec

\* A debit does not stay in the air: the money goes out or comes back, when
\* the Nomba call is the only thing that can fail.
DebitResolved == \A r \in Requests : r \in debited ~> r \in sent \cup reversed

-----------------------------------------------------------------------------
(* What the documentation promises and the code does not keep.             *)

\* docs/transfers: 502 means that Nomba rejected the transfer.
RejectedNotSent == \A r \in Requests : phase[r] = "rejected" => r \notin sent

\* docs/transfers: a transfer that fails after the debit never leaves the
\* customer short.  A kept debit may be Nomba's to resolve only if Nomba has
\* the transfer and has not declined it.
NeverLeftShort ==
    \A r \in Requests :
        phase[r] = "rejected" /\ Kept(r) => r \in submitted \ refused
=============================================================================
