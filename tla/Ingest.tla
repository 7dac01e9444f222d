------------------------------- MODULE Ingest -------------------------------
(***************************************************************************)
(* Inbound payments of one organisation.  A payment recorded by Nomba can  *)
(* reach the ledger in two ways: through the webhook handler (HandleNomba, *)
(* any number of concurrent calls, one per delivery attempt of Nomba) and  *)
(* through the sweep worker, which lists Nomba's recent transactions and   *)
(* backfills the ones that are not in processed_events.  Both run in the   *)
(* same API process over the same database; each database call is a step.  *)
(* Nomba's delivery is modelled as at-least-once and unordered.            *)
(***************************************************************************)
EXTENDS Integers, FiniteSets

CONSTANTS
    Txns,         \* Nomba events, by transactionId
    Credits,      \* those that are inbound payments (payment_success / CREDIT)
    Accounts,     \* virtual accounts, by bank account number
    Dest,         \* Dest[t]: the alias account number that t carries
    Calls,        \* delivery attempts Nomba can make (bounds the retries)
    TxnOf,        \* TxnOf[c]: the event that attempt c carries
    None,         \* no transaction
    LookBack,     \* sweep intervals the backfill looks back over (2 in the code)
    PageLimit,    \* transactions per page; only page 1 is fetched (100)
    OnTime,       \* TRUE: a due sweep starts before the next tick of the ticker
    FaultKinds,   \* subset of AllFaults that may happen
    MaxFaults     \* bound on the number of faults

AllFaults == {"db",       \* a statement fails and has no effect
              "commit",   \* a commit takes effect but is reported as failed
              "reject",   \* the call is refused before it reaches the database
              "lost",     \* Nomba's delivery attempt does not arrive
              "crash"}    \* the process dies

SystemAccounts == {"pool", "suspense", "global_suspense"}

ASSUME IngestAssumption ==
    /\ Credits \subseteq Txns
    /\ Dest \in [Txns -> Accounts]
    /\ TxnOf \in [Calls -> Txns]
    /\ None \notin Txns
    /\ Accounts \cap SystemAccounts = {}
    /\ LookBack \in Nat /\ PageLimit \in Nat /\ MaxFaults \in Nat
    /\ OnTime \in BOOLEAN
    /\ FaultKinds \subseteq AllFaults

VARIABLES
    paid,         \* transactions Nomba has recorded
    age,          \* sweep intervals passed since a transaction was recorded
    status,       \* virtual account: "absent" (no row yet), "active", "closed"
    processed,    \* processed_events, by primary key transaction_id
    ledger,       \* ledger_entries posted by webhook calls
    backfilled,   \* number of backfill_credit ledger_entries per transaction
    outbox,       \* webhook_deliveries rows, by the call that created them
    up,           \* the API process is running
    hook,         \* control state of each webhook call
    tx,           \* uncommitted writes of each call's database transaction
    struck,       \* history: events whose call was hit by a fault between its
                  \* mark and its posting
    raced,        \* history: events claimed by a call while the sweep was at them
    due,          \* a tick is waiting in the sweep ticker's channel
    sweep,        \* control state of the sweep worker
    todo,         \* rest of the listed page
    cur,          \* transaction the sweep is working on
    faults        \* faults so far

env     == <<paid, age, status>>
db      == <<processed, ledger, backfilled, outbox>>
handler == <<hook, tx, struck, raced>>
sweeper == <<due, sweep, todo, cur>>
vars    == <<env, db, up, handler, sweeper, faults>>

HookStates == {"idle",             \* not attempted yet
               "received",         \* verified and decoded; next: MarkProcessed
               "resolve",          \* next: GetAccountByNumber
               "suspense",         \* next: PostSuspense for the account's org
               "global_suspense",  \* next: PostSuspense with no org
               "post",             \* next: open the transaction, PostCredit
               "enqueue",          \* next: CreateDelivery
               "commit",           \* next: commit
               "ok", "error",      \* answered 2xx, answered something else
               "gone"}             \* attempt lost, or cut off by a crash

Answered == {"idle", "ok", "error", "gone"}
InFlight == HookStates \ Answered

\* A ledger_entries row written by call `group` (one txn_group_id per call);
\* external_ref is TxnOf[group], the amount is the payment's.
Entry == [group : Calls, account : Accounts \cup SystemAccounts,
          dir : {"credit", "debit"}]

Leg(c, a, d) == [group |-> c, account |-> a, dir |-> d]
CustomerLeg(c) == Leg(c, Dest[TxnOf[c]], "credit")
CreditLegs(c) == {CustomerLeg(c), Leg(c, "pool", "debit")}
EmptyTx == [legs |-> {}, row |-> FALSE]

-----------------------------------------------------------------------------
Init ==
    /\ paid = {} /\ age = [t \in Txns |-> 0]
    /\ status \in [Accounts -> {"absent", "active"}]
    /\ processed = {} /\ ledger = {} /\ backfilled = [t \in Txns |-> 0]
    /\ outbox = {}
    /\ up = TRUE
    /\ hook = [c \in Calls |-> "idle"] /\ tx = [c \in Calls |-> EmptyTx]
    /\ struck = {} /\ raced = {}
    /\ due = TRUE /\ sweep = "idle" /\ todo = {} /\ cur = None
    /\ faults = 0

Fault(kind) == kind \in FaultKinds /\ faults < MaxFaults /\ faults' = faults + 1

Goto(c, s) == hook' = [hook EXCEPT ![c] = s]
SetTx(c, legs, row) == tx' = [tx EXCEPT ![c] = [legs |-> legs, row |-> row]]
ClearTx(c) == SetTx(c, {}, FALSE)

\* A fault meets a call that has claimed its event and not posted for it.
Strike(c, kind) == Fault(kind) /\ struck' = struck \cup {TxnOf[c]}

-----------------------------------------------------------------------------
(* The environment: senders, the accounts API, Nomba.                      *)

Pay(t) ==
    /\ t \notin paid
    /\ paid' = paid \cup {t}
    /\ UNCHANGED <<age, status, db, up, handler, sweeper, faults>>

Provision(a) ==
    /\ up /\ status[a] = "absent"
    /\ status' = [status EXCEPT ![a] = "active"]
    /\ UNCHANGED <<paid, age, db, up, handler, sweeper, faults>>

Close(a) ==
    /\ up /\ status[a] = "active"
    /\ status' = [status EXCEPT ![a] = "closed"]
    /\ UNCHANGED <<paid, age, db, up, handler, sweeper, faults>>

Deliver(c) ==
    /\ hook[c] = "idle" /\ TxnOf[c] \in paid
    /\ \/ up /\ Goto(c, "received") /\ UNCHANGED faults
       \/ ~up /\ Goto(c, "gone") /\ UNCHANGED faults
       \/ Goto(c, "gone") /\ Fault("lost")
    /\ UNCHANGED <<env, db, up, tx, struck, raced, sweeper>>

-----------------------------------------------------------------------------
(* HandleNomba and handleCredit: one action per database call.             *)

\* The body cannot be read, verified or decoded: 400 / 401.
Reject(c) ==
    /\ up /\ hook[c] = "received"
    /\ Fault("reject")
    /\ Goto(c, "error")
    /\ UNCHANGED <<env, db, up, tx, struck, raced, sweeper>>

\* As Route, with every event treated as a payment.
Route_NoSwitch(c) == "resolve"

\* What follows a first-time mark: events other than payments are ignored.
Route(c) == IF TxnOf[c] \in Credits THEN "resolve" ELSE "ok"

\* As MarkProcessed, but a duplicate is not turned away.
MarkProcessed_NoUnique(c) ==
    /\ up /\ hook[c] = "received"
    /\ processed' = processed \cup {TxnOf[c]} /\ Goto(c, Route(c))
    /\ UNCHANGED <<env, ledger, backfilled, outbox, up, tx, struck, raced, sweeper, faults>>

\* The sweep has seen the event unprocessed and not come to its end yet.
Race(c) == raced' = raced \cup ({cur} \cap {TxnOf[c]})

MarkProcessed(c) ==
    /\ up /\ hook[c] = "received"
    /\ \/ /\ TxnOf[c] \in processed
          /\ Goto(c, "ok")
          /\ UNCHANGED <<processed, struck, raced, faults>>
       \/ /\ TxnOf[c] \notin processed
          /\ processed' = processed \cup {TxnOf[c]} /\ Race(c)
          /\ \/ Goto(c, Route(c)) /\ UNCHANGED <<struck, faults>>
             \/ Goto(c, "error") /\ Strike(c, "commit")
       \/ /\ Goto(c, "error") /\ Fault("db")
          /\ UNCHANGED <<processed, struck, raced>>
    /\ UNCHANGED <<env, ledger, backfilled, outbox, up, tx, sweeper>>

\* As ResolveAccount, but a closed account ends the call.
ResolveAccount_DropClosed(c) ==
    LET a == Dest[TxnOf[c]] IN
    /\ up /\ hook[c] = "resolve"
    /\ \/ status[a] = "absent" /\ Goto(c, "global_suspense") /\ UNCHANGED faults
       \/ status[a] = "closed" /\ Goto(c, "ok") /\ UNCHANGED faults
       \/ status[a] = "active" /\ Goto(c, "post") /\ UNCHANGED faults
       \/ Goto(c, "global_suspense") /\ Fault("db")
    /\ UNCHANGED <<env, db, up, tx, struck, raced, sweeper>>

\* As ResolveAccount, with any account that has a row taken for an open one.
ResolveAccount_AnyStatus(c) ==
    LET a == Dest[TxnOf[c]] IN
    /\ up /\ hook[c] = "resolve"
    /\ \/ status[a] = "absent" /\ Goto(c, "global_suspense") /\ UNCHANGED faults
       \/ status[a] # "absent" /\ Goto(c, "post") /\ UNCHANGED faults
       \/ Goto(c, "global_suspense") /\ Fault("db")
    /\ UNCHANGED <<env, db, up, tx, struck, raced, sweeper>>

\* Any error of the look-up, a failed query included, counts as "unknown".
ResolveAccount(c) ==
    LET a == Dest[TxnOf[c]] IN
    /\ up /\ hook[c] = "resolve"
    /\ \/ status[a] = "absent" /\ Goto(c, "global_suspense") /\ UNCHANGED faults
       \/ status[a] = "closed" /\ Goto(c, "suspense") /\ UNCHANGED faults
       \/ status[a] = "active" /\ Goto(c, "post") /\ UNCHANGED faults
       \/ Goto(c, "global_suspense") /\ Fault("db")
    /\ UNCHANGED <<env, db, up, tx, struck, raced, sweeper>>

\* InsertEntries written past the open transaction, straight to the table.
InsertEntries_NoTx(c, legs, inTx) ==
    /\ ledger' = ledger \cup legs
    /\ UNCHANGED tx

\* InsertEntries joins the transaction carried by the context, or commits
\* its own.
InsertEntries(c, legs, inTx) ==
    IF inTx
    THEN SetTx(c, tx[c].legs \cup legs, tx[c].row) /\ UNCHANGED ledger
    ELSE ledger' = ledger \cup legs /\ UNCHANGED tx

\* The result of PostSuspense is discarded: the answer is 200 in any case.
PostSuspense(c) ==
    /\ up /\ hook[c] \in {"suspense", "global_suspense"}
    /\ \/ /\ InsertEntries(c, {Leg(c, hook[c], "credit")}, FALSE)
          /\ UNCHANGED <<struck, faults>>
       \/ Strike(c, "db") /\ UNCHANGED <<ledger, tx>>
    /\ Goto(c, "ok")
    /\ UNCHANGED <<env, processed, backfilled, outbox, up, raced, sweeper>>

\* An error inside RunInTx: the transaction is rolled back, the answer is 500.
Rollback(c) == ClearTx(c) /\ Goto(c, "error")

PostCredit(c) ==
    /\ up /\ hook[c] = "post"
    /\ \/ /\ InsertEntries(c, CreditLegs(c), TRUE)
          /\ Goto(c, "enqueue") /\ UNCHANGED <<struck, faults>>
       \/ Rollback(c) /\ Strike(c, "db") /\ UNCHANGED ledger
    /\ UNCHANGED <<env, processed, backfilled, outbox, up, raced, sweeper>>

CreateDelivery(c) ==
    /\ up /\ hook[c] = "enqueue"
    /\ \/ /\ SetTx(c, tx[c].legs, TRUE)
          /\ Goto(c, "commit") /\ UNCHANGED <<struck, faults>>
       \/ Rollback(c) /\ Strike(c, "db")
    /\ UNCHANGED <<env, db, up, raced, sweeper>>

\* The writes of the transaction reach the tables together.
Apply(c) ==
    /\ ledger' = ledger \cup tx[c].legs
    /\ outbox' = IF tx[c].row THEN outbox \cup {c} ELSE outbox

Commit(c) ==
    /\ up /\ hook[c] = "commit"
    /\ \/ Apply(c) /\ Goto(c, "ok") /\ UNCHANGED <<struck, faults>>
       \/ Apply(c) /\ Goto(c, "error") /\ Fault("commit") /\ UNCHANGED struck
       \/ UNCHANGED <<ledger, outbox>> /\ Goto(c, "error") /\ Strike(c, "db")
    /\ ClearTx(c)
    /\ UNCHANGED <<env, processed, backfilled, up, raced, sweeper>>

-----------------------------------------------------------------------------
(* The sweep worker and BackfillMissedCredits.                             *)

\* One sweep interval passes.
Tick ==
    /\ ~(up /\ due /\ OnTime)
    /\ age' = [t \in Txns |->
                 IF t \in paid /\ age[t] <= LookBack THEN age[t] + 1 ELSE age[t]]
    /\ due' = up
    /\ UNCHANGED <<paid, status, db, up, handler, sweep, todo, cur, faults>>

\* Successful credits that ListTransactions returns for since..now, with the
\* start of the period taken as the time of the sweep.
Window_Now == {t \in paid \cap Credits : age[t] < 1}

\* As Window, with the debits left in.
Window_AnyType == {t \in paid : age[t] <= LookBack}

\* Successful credits that ListTransactions returns for since..now.
Window == {t \in paid \cap Credits : age[t] <= LookBack}

StartSweep ==
    /\ up /\ due /\ sweep = "idle"
    /\ due' = FALSE
    /\ \/ \E page \in SUBSET Window :
            /\ page = Window \/ Cardinality(page) = PageLimit
            /\ Cardinality(page) <= PageLimit
            /\ todo' = page /\ sweep' = "check" /\ UNCHANGED faults
       \/ Fault("db") /\ UNCHANGED <<todo, sweep>>
    /\ UNCHANGED <<env, db, up, handler, cur>>

\* As CheckProcessed, without looking at processed_events.
CheckProcessed_Skip(t) ==
    /\ up /\ sweep = "check" /\ t \in todo
    /\ todo' = todo \ {t}
    /\ cur' = t /\ sweep' = "lookup"
    /\ UNCHANGED <<env, db, up, handler, due, faults>>

\* IsProcessed: a processed transaction, and a failed check, are skipped.
CheckProcessed(t) ==
    /\ up /\ sweep = "check" /\ t \in todo
    /\ todo' = todo \ {t}
    /\ \/ /\ t \notin processed
          /\ cur' = t /\ sweep' = "lookup" /\ UNCHANGED faults
       \/ t \in processed /\ UNCHANGED <<cur, sweep, faults>>
       \/ Fault("db") /\ UNCHANGED <<cur, sweep>>
    /\ UNCHANGED <<env, db, up, handler, due>>

SkipTxn == sweep' = "check" /\ cur' = None

\* The destination's status is not looked at: a closed account is credited too.
LookUpDest ==
    /\ up /\ sweep = "lookup"
    /\ \/ /\ status[Dest[cur]] # "absent"
          /\ sweep' = "insert" /\ UNCHANGED <<cur, faults>>
       \/ status[Dest[cur]] = "absent" /\ SkipTxn /\ UNCHANGED faults
       \/ SkipTxn /\ Fault("db")
    /\ UNCHANGED <<env, db, up, handler, due, todo>>

InsertBackfill ==
    LET posted == backfilled' = [backfilled EXCEPT ![cur] = @ + 1] IN
    /\ up /\ sweep = "insert"
    /\ \/ posted /\ sweep' = "mark" /\ UNCHANGED <<cur, faults>>
       \/ posted /\ SkipTxn /\ Fault("commit")
       \/ UNCHANGED backfilled /\ SkipTxn /\ Fault("db")
    /\ UNCHANGED <<env, processed, ledger, outbox, up, handler, due, todo>>

\* The error of MarkProcessed is discarded.
MarkBackfilled ==
    /\ up /\ sweep = "mark"
    /\ \/ processed' = processed \cup {cur} /\ UNCHANGED faults
       \/ UNCHANGED processed /\ Fault("db")
    /\ SkipTxn
    /\ UNCHANGED <<env, ledger, backfilled, outbox, up, handler, due, todo>>

EndSweep ==
    /\ up /\ sweep = "check" /\ todo = {}
    /\ sweep' = "idle"
    /\ UNCHANGED <<env, db, up, handler, due, todo, cur, faults>>

-----------------------------------------------------------------------------
(* Crash and restart: open transactions are rolled back by the database.   *)

Crash ==
    /\ up /\ Fault("crash")
    /\ up' = FALSE
    /\ hook' = [c \in Calls |-> IF hook[c] \in InFlight THEN "gone" ELSE hook[c]]
    /\ tx' = [c \in Calls |-> EmptyTx]
    /\ struck' = struck \cup {TxnOf[c] : c \in {d \in Calls : hook[d] \in InFlight \ {"received"}}}
    /\ due' = FALSE /\ sweep' = "idle" /\ todo' = {} /\ cur' = None
    /\ UNCHANGED <<env, db, raced>>

\* The worker sweeps once as soon as it starts.
Restart ==
    /\ ~up
    /\ up' = TRUE /\ due' = TRUE
    /\ UNCHANGED <<env, db, handler, sweep, todo, cur, faults>>

-----------------------------------------------------------------------------
HookStep(c) ==
    \/ Reject(c)
    \/ MarkProcessed(c)
    \/ ResolveAccount(c)
    \/ PostSuspense(c)
    \/ PostCredit(c)
    \/ CreateDelivery(c)
    \/ Commit(c)

SweepStep ==
    \/ StartSweep
    \/ \E t \in Txns : CheckProcessed(t)
    \/ LookUpDest
    \/ InsertBackfill
    \/ MarkBackfilled
    \/ EndSweep

Next ==
    \/ \E t \in Txns : Pay(t)
    \/ \E a \in Accounts : Provision(a) \/ Close(a)
    \/ \E c \in Calls : Deliver(c) \/ HookStep(c)
    \/ Tick
    \/ SweepStep
    \/ Crash
    \/ Restart

Spec == Init /\ [][Next]_vars

\* Nomba attempts every delivery it has; net/http runs every accepted request
\* and the worker goroutine its loop; the ticker fires; a dead process is
\* restarted by the platform.
Fairness ==
    /\ \A c \in Calls : WF_vars(Deliver(c)) /\ WF_vars(HookStep(c))
    /\ WF_vars(SweepStep)
    /\ WF_vars(Tick)
    /\ WF_vars(Restart)

FairSpec == Spec /\ Fairness

-----------------------------------------------------------------------------
(* Properties.                                                             *)

SweepStates == {"idle", "check", "lookup", "insert", "mark"}

EnvOK ==
    /\ paid \subseteq Txns
    /\ age \in [Txns -> 0 .. LookBack + 1]
    /\ status \in [Accounts -> {"absent", "active", "closed"}]

DbOK ==
    /\ processed \subseteq Txns
    /\ ledger \subseteq Entry
    /\ backfilled \in [Txns -> Nat]
    /\ outbox \subseteq Calls

HookOK ==
    /\ hook \in [Calls -> HookStates]
    /\ tx \in [Calls -> [legs : SUBSET Entry, row : BOOLEAN]]
    /\ \A c \in Calls : hook[c] \notin {"enqueue", "commit"} => tx[c] = EmptyTx

SweepOK ==
    /\ due \in BOOLEAN
    /\ sweep \in SweepStates
    /\ todo \subseteq Txns
    /\ cur \in Txns \cup {None}
    /\ cur = None <=> sweep \in {"idle", "check"}

\* Types, and the two facts that make the control state readable: a call has
\* uncommitted writes only inside RunInTx, and the sweep holds a transaction
\* exactly while it is between the check and the mark.
TypeOK ==
    /\ EnvOK /\ DbOK /\ HookOK /\ SweepOK
    /\ up \in BOOLEAN /\ faults \in 0 .. MaxFaults
    /\ struck \subseteq Txns /\ raced \subseteq Txns

CreditedBy(c)  == CustomerLeg(c) \in ledger
SuspendedBy(c) == \E a \in {"suspense", "global_suspense"} : Leg(c, a, "credit") \in ledger

\* Exact-once webhook processing (processed_events): however many deliveries
\* of one event overlap, fail or are repeated, at most one call posts for it.
HookBooksOnce ==
    \A e1, e2 \in ledger : TxnOf[e1.group] = TxnOf[e2.group] => e1.group = e2.group

\* The customer leg, the pool leg and the delivery row share one database
\* transaction: no crash and no failure leaves one of them without the others.
CreditQueued ==
    \A c \in Calls :
        /\ CreditedBy(c) <=> c \in outbox
        /\ c \in outbox => Leg(c, "pool", "debit") \in ledger

\* A webhook call has posted for t.
CallBooked(t) == \E c \in Calls : TxnOf[c] = t /\ (CreditedBy(c) \/ SuspendedBy(c))

Booked(t) == backfilled[t] > 0 \/ CallBooked(t)

Count(b) == IF b THEN 1 ELSE 0

\* A payment is in the ledger once, by whichever way it came, and every further
\* time has its own cause: a fault that kept the sweep from marking what it had
\* posted, or a call that claimed the payment after the sweep had found it
\* unprocessed - which can happen once.
BookingsBounded ==
    \A t \in Txns :
        backfilled[t] + Count(CallBooked(t)) <= 1 + faults + Count(t \in raced)

\* A call that has claimed t is still running.
Handled(t) == \E c \in Calls : TxnOf[c] = t /\ hook[c] \in InFlight \ {"received"}

\* A payment marked as processed is in the ledger, or in the hands of a webhook
\* call, or a fault met the call that had claimed it.  No interleaving of calls,
\* sweeps, account creation and closure loses money by itself, nor does a fault
\* of the sweep, of an earlier or a later call, or of the account's look-up.
LossNeedsStrike ==
    \A t \in Credits : t \in processed => Booked(t) \/ Handled(t) \/ t \in struck

\* The webhook endpoint keeps the promise of Inbox; a backfill that marks a
\* payment claims it.
Promise == INSTANCE Inbox WITH
    claimed <- processed,
    credited <- {c \in Calls : CreditedBy(c)},
    suspended <- {c \in Calls : SuspendedBy(c)},
    announced <- outbox

PromiseKept == Promise!Spec

\* What Books calls its entries: which payments are credited, pooled, in
\* suspense and backfilled.
PaymentsOf(C) == {TxnOf[c] : c \in C}
Pooled        == {c \in Calls : Leg(c, "pool", "debit") \in ledger}
Entries ==
    ({"inbound_credit"} \X PaymentsOf({c \in Calls : CreditedBy(c)}))
    \cup ({"pool_liability"} \X PaymentsOf(Pooled))
    \cup ({"suspense_credit"} \X PaymentsOf({c \in Calls : SuspendedBy(c)}))
    \cup ({"backfill_credit"} \X {t \in Txns : backfilled[t] > 0})

\* The books that webhooks and sweeps keep are the ones of Books, where every
\* posting is a single step: only arrived payments are booked, the webhook
\* chooses between customer and suspense once, and a credit has its pool leg.
\* A repeated backfill is no step there.
Booking == INSTANCE Books WITH
    Payments <- Credits, Transfers <- {}, Readers <- {}, KindOf <- [r \in {} |-> "run"],
    Limit <- [r \in {} |-> 0], Offset <- [r \in {} |-> 0], MaxLimit <- 1,
    DefaultLimit <- 1, MaxFaults <- 0, CreatedAt <-
        [e \in {"inbound_credit", "backfill_credit", "transfer_out", "transfer_reversal"}
               \X Credits |-> 0],
    received <- paid \cap Credits, sent <- {}, refused <- {}, checked <- {},
    ledger <- Entries, faults <- 0,
    pc <- [r \in {} |-> "new"], figures <- [r \in {} |-> [wallet |-> 0, pool |-> 0]],
    truth <- [r \in {} |-> [gap |-> 0, pool |-> {}, late |-> {}]],
    listing <- [r \in {} |-> <<>>], counted <- [r \in {} |-> {}]

BooksKept == Booking!Spec

\* A call that saw the account open and has not finished.
PastCheck(a) ==
    \E c \in Calls : Dest[TxnOf[c]] = a /\ hook[c] \in {"post", "enqueue", "commit"}

\* docs/virtual-accounts/close: payments after closure "will not credit the
\* customer".  The status is read before the transaction opens: a call that saw
\* the account open may still credit it after the closure.  When the last of
\* these has ended no webhook ever credits the account again.
ClosedGetsNoCredit ==
    [][\A a \in Accounts :
          status[a] = "closed" /\ ~PastCheck(a) =>
              /\ status'[a] = "closed" /\ ~PastCheck(a)'
              /\ \A c \in Calls : Dest[TxnOf[c]] = a /\ CreditedBy(c)' => CreditedBy(c)]_vars

\* Dual-source ingest: a payment to an account that has a row is eventually
\* in the ledger, whether its webhook arrives or not.
EventuallyBooked ==
    \A t \in Credits :
        (t \in paid /\ age[t] = 0 /\ status[Dest[t]] # "absent") ~> Booked(t)

-----------------------------------------------------------------------------
(* What the documentation promises and the code does not keep.             *)

\* README: missed credits are backfilled automatically.  A processed payment
\* that nobody works on any more is never looked at again, so it must be in
\* the ledger.
NoPaymentLost ==
    \A t \in Credits : t \in processed => Booked(t) \/ Handled(t) \/ cur = t

\* docs/webhooks: an event is never double-credited.
CreditedOnce ==
    \A t \in Credits :
        backfilled[t] + Cardinality({c \in Calls : TxnOf[c] = t /\ CreditedBy(c)}) <= 1
=============================================================================
