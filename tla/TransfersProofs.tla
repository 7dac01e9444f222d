-------------------------- MODULE TransfersProofs --------------------------
(* Theorems about Transfers for every value of its constants.              *)
EXTENDS Transfers, FiniteSetTheorems, TLAPS

(***************************************************************************)
(* The inductive invariant.  CallOK ties the control state of a call to    *)
(* the rows it has written; UnstruckOK says what more is known of a call   *)
(* that was not struck; NombaOK is what Nomba keeps.                       *)
(***************************************************************************)
CallOK(r) ==
    /\ phase[r] \in {"new", "check", "debit", "unfunded"} => r \notin debited
    /\ phase[r] \in {"call", "calling", "reverse", "ok", "rejected"} => r \in debited
    /\ r \in submitted => r \in debited
    /\ r \in reversed => phase[r] = "rejected"
    /\ phase[r] = "call" => r \notin submitted
    /\ phase[r] = "calling" => r \in submitted
    /\ phase[r] = "ok" => r \in sent

UnstruckOK(r) ==
    r \notin hit =>
        /\ phase[r] \in {"failed", "gone"} => r \notin debited
        /\ phase[r] \in {"reverse", "rejected"} => r \in refused \/ r \notin submitted
        /\ phase[r] = "rejected" => r \in reversed

NombaOK ==
    /\ sent \cap refused = {}
    /\ \A r, q \in sent : Ref[r] = Ref[q] => r = q

TransferInv ==
    /\ TypeOK
    /\ \A r \in Requests : CallOK(r) /\ UnstruckOK(r)
    /\ NombaOK

\* A step that touches no call but r keeps what is known of the others.
LEMMA OthersKept ==
    ASSUME TransferInv, NEW r \in Requests, NEW p \in Phases, Goto(r, p),
           debited' \in {debited, debited \cup {r}},
           reversed' \in {reversed, reversed \cup {r}},
           submitted' \in {submitted, submitted \cup {r}},
           UNCHANGED <<cancelled, sent, refused>>,
           hit' = hit \/ hit' = hit \cup {r}
    PROVE  \A q \in Requests \ {r} : CallOK(q)' /\ UnstruckOK(q)'
<1> SUFFICES ASSUME NEW q \in Requests \ {r} PROVE CallOK(q)' /\ UnstruckOK(q)'
  OBVIOUS
<1>1. phase'[q] = phase[q]
  BY DEF TransferInv, TypeOK, Goto
<1>2. /\ q \in debited' <=> q \in debited
      /\ q \in reversed' <=> q \in reversed
      /\ q \in submitted' <=> q \in submitted
      /\ q \in hit' <=> q \in hit
  OBVIOUS
<1>3. CallOK(q) /\ UnstruckOK(q)
  BY DEF TransferInv
<1> QED
  BY <1>1, <1>2, <1>3 DEF CallOK, UnstruckOK

\* A handler step disturbs one call only.
LEMMA HandlerKeepsInv ==
    ASSUME TransferInv, NEW r \in Requests, HandlerStep(r)
    PROVE  TransferInv'
<1> USE DEF ledger, nomba, NoFault, Fault
<1>1. /\ \E p \in Phases : Goto(r, p)
      /\ debited' \in {debited, debited \cup {r}}
      /\ reversed' \in {reversed, reversed \cup {r}}
      /\ submitted' \in {submitted, submitted \cup {r}}
      /\ UNCHANGED <<cancelled, sent, refused, up>>
      /\ hit' = hit \/ hit' = hit \cup {r}
  BY DEF HandlerStep, CheckBalance, InsertDebit, CallNomba, Answer, ReverseLedgerDebit,
     Debit, Credit, Succeeds, Fails, Phases
<1>2. \A q \in Requests \ {r} : CallOK(q)' /\ UnstruckOK(q)'
  BY <1>1, OthersKept
<1>3. phase' \in [Requests -> Phases]
  BY <1>1 DEF TransferInv, TypeOK, Goto
<1>4. balance' \in [Accounts -> Int]
  BY TransfersAssumption DEF TransferInv, TypeOK, HandlerStep, CheckBalance, InsertDebit,
     CallNomba, Answer, ReverseLedgerDebit, Debit, Credit
<1>5. faults' \in 0 .. MaxFaults
  BY TransfersAssumption DEF TransferInv, TypeOK, HandlerStep, CheckBalance, InsertDebit,
     CallNomba, Answer, ReverseLedgerDebit, Succeeds, Fails
<1>6. CallOK(r)' /\ UnstruckOK(r)'
  <2>1. CallOK(r) /\ UnstruckOK(r) /\ phase \in [Requests -> Phases]
    BY DEF TransferInv, TypeOK
  <2>2. CASE CheckBalance(r)
    BY <2>1, <2>2 DEF CheckBalance, CallOK, UnstruckOK, Goto, Succeeds, Fails
  <2>3. CASE InsertDebit(r)
    BY <2>1, <2>3 DEF InsertDebit, Debit, CallOK, UnstruckOK, Goto, Succeeds, Fails
  <2>4. CASE CallNomba(r)
    BY <2>1, <2>4 DEF CallNomba, CallOK, UnstruckOK, Goto, Succeeds, Fails
  <2>5. CASE Answer(r)
    BY <2>1, <2>5 DEF Answer, CallOK, UnstruckOK, Goto, Succeeds, Fails
  <2>6. CASE ReverseLedgerDebit(r)
    BY <2>1, <2>6 DEF ReverseLedgerDebit, Credit, CallOK, UnstruckOK, Goto, Succeeds, Fails
  <2> QED
    BY <2>2, <2>3, <2>4, <2>5, <2>6 DEF HandlerStep
<1>7. \A q \in Requests : CallOK(q)' /\ UnstruckOK(q)'
  BY <1>2, <1>6
<1>8. reversed' \subseteq debited'
  BY <1>1, <1>7 DEF CallOK, TransferInv, TypeOK
<1>9. TypeOK'
  BY <1>1, <1>3, <1>4, <1>5, <1>8 DEF TransferInv, TypeOK
<1> QED
  BY <1>1, <1>7, <1>9 DEF TransferInv, NombaOK

LEMMA InvHolds == Spec => []TransferInv
<1> USE DEF ledger, nomba, NoFault, Fault
<1>1. Init => TransferInv
  BY TransfersAssumption DEF Init, TransferInv, TypeOK, CallOK, UnstruckOK, NombaOK, Phases
<1>2. TransferInv /\ [Next]_vars => TransferInv'
  <2> SUFFICES ASSUME TransferInv, [Next]_vars PROVE TransferInv'
    OBVIOUS
  <2>1. ASSUME NEW a \in Accounts, Deposit(a) PROVE TransferInv'
    BY <2>1 DEF Deposit, TransferInv, TypeOK, CallOK, UnstruckOK, NombaOK
  <2>2. ASSUME NEW r \in Requests, Start(r) PROVE TransferInv'
    <3>1. Goto(r, "check") /\ UNCHANGED <<ledger, cancelled, nomba, up, hit, faults>>
          /\ phase[r] = "new"
      BY <2>2 DEF Start
    <3>2. \A q \in Requests \ {r} : CallOK(q)' /\ UnstruckOK(q)'
      BY <3>1, OthersKept DEF Phases
    <3>3. CallOK(r)' /\ UnstruckOK(r)'
      BY <3>1 DEF TransferInv, TypeOK, CallOK, UnstruckOK, Goto
    <3>4. TypeOK'
      BY <3>1 DEF TransferInv, TypeOK, Goto, Phases
    <3> QED
      BY <3>1, <3>2, <3>3, <3>4 DEF TransferInv, NombaOK
  <2>3. ASSUME NEW r \in Requests, NombaStep(r) PROVE TransferInv'
    BY <2>3 DEF NombaStep, NombaPays, NombaRefuses, TransferInv, TypeOK, CallOK, UnstruckOK,
       NombaOK
  <2>4. ASSUME NEW r \in Requests, Cancel(r) PROVE TransferInv'
    BY <2>4, TransfersAssumption
       DEF Cancel, TransferInv, TypeOK, CallOK, UnstruckOK, NombaOK
  <2>5. CASE Crash
    <3> DEFINE cut == {r \in Requests : phase[r] \in InFlight}
    <3>1. /\ phase' = [r \in Requests |-> IF r \in cut THEN "gone" ELSE phase[r]]
          /\ hit' = hit \cup (cut \cap debited) /\ faults < MaxFaults /\ faults' = faults + 1
          /\ up' = FALSE /\ UNCHANGED <<ledger, cancelled, nomba>>
      BY <2>5 DEF Crash
    <3>2. \A r \in Requests : CallOK(r)' /\ UnstruckOK(r)'
      <4> SUFFICES ASSUME NEW r \in Requests PROVE CallOK(r)' /\ UnstruckOK(r)'
        OBVIOUS
      <4>1. CallOK(r) /\ UnstruckOK(r)
        BY DEF TransferInv
      <4>2. CASE r \in cut
        BY <3>1, <4>1, <4>2 DEF CallOK, UnstruckOK, InFlight
      <4>3. CASE r \notin cut
        BY <3>1, <4>1, <4>3 DEF CallOK, UnstruckOK
      <4> QED
        BY <4>2, <4>3
    <3>3. phase' \in [Requests -> Phases] /\ hit' \subseteq Requests
      BY <3>1 DEF TransferInv, TypeOK, Phases
    <3>4. faults' \in 0 .. MaxFaults
      BY <3>1, TransfersAssumption DEF TransferInv, TypeOK
    <3>5. TypeOK'
      BY <3>1, <3>3, <3>4 DEF TransferInv, TypeOK
    <3> QED
      BY <3>1, <3>2, <3>5 DEF TransferInv, NombaOK
  <2>6. CASE Restart
    BY <2>6 DEF Restart, TransferInv, TypeOK, CallOK, UnstruckOK, NombaOK
  <2>7. CASE UNCHANGED vars
    BY <2>7 DEF vars, TransferInv, TypeOK, CallOK, UnstruckOK, NombaOK
  <2> QED
    BY <2>1, <2>2, <2>3, <2>4, <2>5, <2>6, <2>7, HandlerKeepsInv DEF Next
<1> QED
  BY <1>1, <1>2, PTL DEF Spec

\* The type invariant holds in every reachable state; in particular only a
\* debited request is ever reversed.
THEOREM TypeCorrect == Spec => []TypeOK
BY InvHolds, PTL DEF TransferInv

\* Nomba never pays out what the ledger has not debited, and a debit is given
\* back only when the call for it is over: for any faults and any overlap.
THEOREM LedgerFirst == Spec => []PaidFromLedger
<1>1. TransferInv => PaidFromLedger
  BY DEF TransferInv, TypeOK, CallOK, PaidFromLedger
<1> QED
  BY <1>1, InvHolds, PTL

\* A call charges the customer exactly when Nomba pays, unless one of the four
\* breaks of UnstruckIsExact struck it: no other fault and no overlap can.
THEOREM ExactUnlessStruck == Spec => []UnstruckIsExact
<1>1. TransferInv => UnstruckIsExact
  BY DEF TransferInv, TypeOK, CallOK, UnstruckOK, NombaOK, UnstruckIsExact, Settled, Kept
<1> QED
  BY <1>1, InvHolds, PTL

\* Among the unstruck calls with one reference, at most one keeps its debit.
THEOREM ReferenceChargedOnce == Spec => []RefChargedOnce
<1>1. TransferInv => UnstruckIsExact /\ NombaOK
  BY DEF TransferInv, TypeOK, CallOK, UnstruckOK, NombaOK, UnstruckIsExact, Settled, Kept
<1>2. UnstruckIsExact /\ NombaOK => RefChargedOnce
  BY DEF UnstruckIsExact, NombaOK, RefChargedOnce
<1> QED
  BY <1>1, <1>2, InvHolds, PTL

(***************************************************************************)
(* No overdraft.  What the balance check established must survive until    *)
(* the debit is inserted: it does because no other call on the account is  *)
(* in flight, which is exactly what Serial assumes.                        *)
(***************************************************************************)
FundsInv ==
    /\ NoOverdraft
    /\ \A r \in Requests : phase[r] = "debit" => balance[AccountOf[r]] >= Amount[r]
    /\ \A r, q \in Requests :
          AccountOf[r] = AccountOf[q] /\ {phase[r], phase[q]} \subseteq InFlight => r = q

\* If no two calls on one account overlap, no account is ever overdrawn,
\* whatever fails and whatever is credited or reversed in between.
THEOREM SerialIsFunded == ASSUME Serial PROVE Spec => []NoOverdraft
<1> USE DEF ledger, nomba, NoFault, Fault
<1>1. Init => FundsInv
  BY TransfersAssumption DEF Init, FundsInv, NoOverdraft, InFlight
<1>2. TypeOK /\ FundsInv /\ [Next]_vars => FundsInv'
  <2> SUFFICES ASSUME TypeOK, FundsInv, [Next]_vars PROVE FundsInv'
    OBVIOUS
  <2> USE TransfersAssumption DEF TypeOK
  \* A call's own step that is no start leaves it in flight or ends it.
  <2>1. ASSUME NEW r \in Requests, phase[r] \in InFlight, NEW p \in Phases \ {"debit"},
               Goto(r, p), NEW a \in Accounts, NEW k \in Nat,
               balance' = balance \/ balance' = [balance EXCEPT ![a] = @ + k]
        PROVE  FundsInv'
    <3>1. \A q \in Requests : phase'[q] = IF q = r THEN p ELSE phase[q]
      BY <2>1 DEF Goto
    <3>2. \A b \in Accounts : balance'[b] >= balance[b] /\ balance'[b] \in Int
      BY <2>1
    <3>3. NoOverdraft'
      BY <3>2 DEF FundsInv, NoOverdraft
    <3>4. \A q \in Requests : phase'[q] = "debit" => balance'[AccountOf[q]] >= Amount[q]
      BY <3>1, <3>2 DEF FundsInv
    <3>5. \A q \in Requests : phase'[q] \in InFlight => phase[q] \in InFlight
      BY <2>1, <3>1
    <3> QED
      BY <3>3, <3>4, <3>5 DEF FundsInv
  <2>2. ASSUME NEW r \in Requests, CheckBalance(r) PROVE FundsInv'
    <3>1. \E p \in Phases : Goto(r, p)
      BY <2>2 DEF CheckBalance, Phases
    <3>2. PICK p \in Phases : Goto(r, p)
      BY <3>1
    <3>3. p = "debit" => balance[AccountOf[r]] >= Amount[r]
      BY <2>2, <3>2 DEF CheckBalance, Goto
    <3>4. \A q \in Requests : phase'[q] = IF q = r THEN p ELSE phase[q]
      BY <3>2 DEF Goto
    <3>5. phase[r] \in InFlight /\ UNCHANGED balance
      BY <2>2 DEF CheckBalance, InFlight
    <3> QED
      BY <3>3, <3>4, <3>5 DEF FundsInv, NoOverdraft
  <2>3. ASSUME NEW r \in Requests, InsertDebit(r) PROVE FundsInv'
    <3>1. phase[r] = "debit" /\ (Goto(r, "call") \/ Goto(r, "failed"))
      BY <2>3 DEF InsertDebit
    <3>2. CASE UNCHANGED balance
      BY <2>1, <3>1, <3>2 DEF Phases, InFlight
    <3>3. CASE Debit(r)
      <4>1. \A b \in Accounts : balance'[b] = IF b = AccountOf[r]
                                              THEN balance[b] - Amount[r] ELSE balance[b]
        BY <3>3 DEF Debit
      <4>2. balance[AccountOf[r]] >= Amount[r]
        BY <3>1 DEF FundsInv
      <4>3. NoOverdraft'
        BY <4>1, <4>2 DEF FundsInv, NoOverdraft
      <4>4. \A q \in Requests \ {r} : phase'[q] = phase[q]
        BY <3>1 DEF Goto
      <4>5. phase'[r] # "debit"
        BY <3>1 DEF Goto
      <4>6. \A q \in Requests \ {r} : phase[q] = "debit" => AccountOf[q] # AccountOf[r]
        BY <3>1 DEF FundsInv, InFlight
      <4>7. \A q \in Requests : phase'[q] = "debit" => balance'[AccountOf[q]] >= Amount[q]
        BY <4>1, <4>4, <4>5, <4>6 DEF FundsInv
      <4>8. \A q \in Requests : phase'[q] \in InFlight => phase[q] \in InFlight
        BY <3>1, <4>4 DEF InFlight
      <4> QED
        BY <4>3, <4>7, <4>8 DEF FundsInv
    <3> QED
      BY <2>3, <3>2, <3>3 DEF InsertDebit
  <2>4. ASSUME NEW r \in Requests, CallNomba(r) \/ Answer(r) \/ ReverseLedgerDebit(r)
        PROVE  FundsInv'
    <3>1. \E p \in Phases \ {"debit"} : Goto(r, p)
      BY <2>4 DEF CallNomba, Answer, ReverseLedgerDebit, Phases
    <3>2. \E a \in Accounts, k \in Nat :
             balance' = balance \/ balance' = [balance EXCEPT ![a] = @ + k]
      BY <2>4 DEF CallNomba, Answer, ReverseLedgerDebit, Credit
    <3>3. phase[r] \in InFlight
      BY <2>4 DEF CallNomba, Answer, ReverseLedgerDebit, InFlight
    <3> QED
      BY <2>1, <3>1, <3>2, <3>3
  <2>5. ASSUME NEW a \in Accounts, Deposit(a) PROVE FundsInv'
    <3>1. \A b \in Accounts : balance'[b] >= balance[b] /\ balance'[b] \in Int
      BY <2>5 DEF Deposit
    <3> QED
      BY <2>5, <3>1 DEF Deposit, FundsInv, NoOverdraft
  <2>6. ASSUME NEW r \in Requests, Start(r) PROVE FundsInv'
    <3>1. \A q \in Requests : phase'[q] = IF q = r THEN "check" ELSE phase[q]
      BY <2>6 DEF Start, Goto
    <3>2. \A q \in Requests : AccountOf[q] = AccountOf[r] => phase[q] \notin InFlight
      BY <2>6 DEF Start
    <3> QED
      BY <2>6, <3>1, <3>2 DEF Start, FundsInv, NoOverdraft
  <2>7. CASE Crash
    <3>1. \A q \in Requests : phase'[q] \in {phase[q], "gone"}
      BY <2>7 DEF Crash
    <3> QED
      BY <2>7, <3>1 DEF Crash, FundsInv, NoOverdraft, InFlight
  <2>8. ASSUME UNCHANGED <<phase, balance>> PROVE FundsInv'
    BY <2>8 DEF FundsInv, NoOverdraft
  <2> QED
    BY <2>2, <2>3, <2>4, <2>5, <2>6, <2>7, <2>8
       DEF Next, HandlerStep, NombaStep, NombaPays, NombaRefuses, Cancel, Restart, vars
<1>3. FundsInv => NoOverdraft
  BY DEF FundsInv
<1> QED
  BY <1>1, <1>2, <1>3, TypeCorrect, PTL DEF Spec

-----------------------------------------------------------------------------
(* The handler implements Payout.                                          *)

Over == {r \in Requests : phase[r] \in Settled}

\* A step of a running call that ends it, unless it leaves it exact, has been
\* struck: then it is an end in Payout.
LEMMA EndOne ==
    ASSUME TypeOK, NEW r \in Requests, phase[r] \in InFlight, NEW p \in Settled, Goto(r, p),
           hit' \in {hit, hit \cup {r}},
           r \in hit' \/ (r \in debited' \ reversed' <=> r \in sent')
    PROVE  Promise!End({r})
<1>1. Over' = Over \cup {r} /\ r \notin Over
  <2>1. \A q \in Requests : phase'[q] = IF q = r THEN p ELSE phase[q]
    BY DEF Goto, TypeOK
  <2> QED
    BY <2>1 DEF Over, InFlight, Settled
<1>2. \E S \in SUBSET (Requests \ Over) : hit' = hit \cup S
  <2>1. {} \in SUBSET (Requests \ Over) /\ {r} \in SUBSET (Requests \ Over)
    BY <1>1
  <2>2. hit' = hit \cup {} \/ hit' = hit \cup {r}
    OBVIOUS
  <2> QED
    BY <2>1, <2>2
<1> QED
  BY <1>1, <1>2 DEF Promise!End, Promise!Exact, Over

\* A step that ends no call may strike one that has not ended.
LEMMA EndNone ==
    ASSUME UNCHANGED Over, NEW r \in Requests, r \notin Over, hit' \in {hit, hit \cup {r}}
    PROVE  Promise!End({})
<1>1. \E S \in SUBSET (Requests \ Over) : hit' = hit \cup S
  <2>1. {} \in SUBSET (Requests \ Over) /\ {r} \in SUBSET (Requests \ Over)
    OBVIOUS
  <2>2. hit' = hit \cup {} \/ hit' = hit \cup {r}
    OBVIOUS
  <2> QED
    BY <2>1, <2>2
<1> QED
  BY <1>1 DEF Promise!End, Over

\* A running call that goes on running leaves the ended ones as they are.
LEMMA GoesOn ==
    ASSUME TypeOK, NEW r \in Requests, phase[r] \notin Settled, NEW p, p \notin Settled, Goto(r, p)
    PROVE  UNCHANGED Over /\ r \notin Over
<1>1. \A q \in Requests : phase'[q] = IF q = r THEN p ELSE phase[q]
  BY DEF Goto, TypeOK
<1> QED
  BY <1>1 DEF Over

\* A failure strikes the calls it is said to strike, and no other.
LEMMA FailsStrikes ==
    ASSUME NEW r \in Requests, NEW k, NEW S \in {{}, {r}}, Fails(r, k, S)
    PROVE  hit' = hit \cup S /\ hit' \in {hit, hit \cup {r}}
BY DEF Fails, Fault

\* A step that only ends calls is one of Payout.
LEMMA EndsAreSteps ==
    ASSUME NEW R \in SUBSET Requests, UNCHANGED Promise!money, Promise!End(R)
    PROVE  Promise!Next
BY DEF Promise!Next

LEMMA PayoutHandlerStep ==
    ASSUME TransferInv, NEW r \in Requests, HandlerStep(r)
    PROVE  [Promise!Next]_(Promise!payoutVars)
<1> USE DEF ledger, nomba
<1>1. TypeOK /\ CallOK(r) /\ UnstruckOK(r)
  BY DEF TransferInv
<1>2. ASSUME NEW R \in SUBSET Requests, UNCHANGED <<debited, reversed, sent>>, Promise!End(R)
      PROVE  Promise!Next
  BY <1>2, EndsAreSteps DEF Promise!money
<1>3. {} \in SUBSET Requests /\ {r} \in SUBSET Requests
  OBVIOUS
<1>4. CASE CheckBalance(r)
  <2>1. phase[r] = "check" /\ UNCHANGED <<debited, reversed, sent>>
    BY <1>4 DEF CheckBalance
  <2>2. r \notin debited /\ r \notin sent
    BY <1>1, <2>1 DEF CallOK, TypeOK
  <2>3. CASE Goto(r, "debit") /\ Succeeds(r)
    <3>1. UNCHANGED Over /\ hit' = hit
      BY <1>1, <2>1, <2>3, GoesOn DEF Settled, Succeeds, NoFault
    <3> QED
      BY <2>1, <3>1 DEF Promise!payoutVars, Promise!money, Over
  <2>4. CASE Goto(r, "unfunded") /\ Succeeds(r)
    <3>1. Promise!End({r})
      BY <1>1, <2>1, <2>2, <2>4, EndOne DEF Settled, InFlight, Succeeds, NoFault
    <3> QED
      BY <1>2, <1>3, <2>1, <3>1
  <2>5. CASE Goto(r, "failed") /\ Fails(r, "db", {})
    <3>1. Promise!End({r})
      BY <1>1, <2>1, <2>2, <2>5, EndOne, FailsStrikes DEF Settled, InFlight
    <3> QED
      BY <1>2, <1>3, <2>1, <3>1
  <2> QED
    BY <1>4, <2>3, <2>4, <2>5 DEF CheckBalance
<1>5. CASE InsertDebit(r)
  <2>1. phase[r] = "debit" /\ UNCHANGED <<reversed, sent>> /\ r \notin debited
    BY <1>1, <1>5 DEF InsertDebit, CallOK
  <2>2. r \notin Over
    BY <2>1 DEF Over, Settled
  <2>3. ASSUME Debit(r), Promise!End({}) \/ Promise!End({r}) PROVE Promise!Next
    <3>1. Promise!Take(r)
      BY <2>1, <2>2, <2>3 DEF Debit, Promise!Take, Over
    <3> QED
      BY <3>1 DEF Promise!Next
  <2>4. CASE Debit(r) /\ Goto(r, "call") /\ Succeeds(r)
    <3>1. UNCHANGED Over
      BY <1>1, <2>1, <2>4, GoesOn DEF Settled
    <3>2. Promise!End({})
      BY <2>2, <2>4, <3>1, EndNone DEF Succeeds, NoFault
    <3> QED
      BY <2>3, <2>4, <3>2
  <2>5. CASE Debit(r) /\ Goto(r, "failed") /\ Fails(r, "commit", {r})
    <3>1. Promise!End({r})
      BY <1>1, <2>1, <2>5, EndOne, FailsStrikes DEF Settled, InFlight
    <3> QED
      BY <2>3, <2>5, <3>1
  <2>6. CASE UNCHANGED <<balance, debited>> /\ Goto(r, "failed") /\ Fails(r, "db", {})
    <3>1. r \notin debited' /\ r \notin sent'
      BY <1>1, <2>1, <2>6 DEF CallOK, TypeOK
    <3>2. Promise!End({r})
      BY <1>1, <2>1, <2>6, <3>1, EndOne, FailsStrikes DEF Settled, InFlight
    <3> QED
      BY <1>2, <1>3, <2>1, <2>6, <3>2
  <2> QED
    BY <1>5, <2>4, <2>5, <2>6 DEF InsertDebit
<1>6. CASE CallNomba(r)
  <2>1. phase[r] = "call" /\ UNCHANGED <<debited, reversed, sent>>
    BY <1>6 DEF CallNomba
  <2>2. UNCHANGED Over /\ r \notin Over
    BY <1>1, <1>6, <2>1, GoesOn DEF CallNomba, Settled
  <2>3. hit' \in {hit, hit \cup {r}}
    BY <1>6, FailsStrikes DEF CallNomba, Succeeds, NoFault
  <2> QED
    BY <1>2, <1>3, <2>1, <2>2, <2>3, EndNone
<1>7. CASE Answer(r)
  <2>1. phase[r] = "calling" /\ UNCHANGED <<debited, reversed, sent>>
    BY <1>7 DEF Answer
  <2>2. CASE r \in sent /\ Goto(r, "ok") /\ Succeeds(r)
    <3>1. r \in debited \ reversed
      BY <1>1, <2>1 DEF CallOK
    <3>2. Promise!End({r})
      BY <1>1, <2>1, <2>2, <3>1, EndOne DEF Settled, InFlight, Succeeds, NoFault
    <3> QED
      BY <1>2, <1>3, <2>1, <3>2
  <2>3. CASE Goto(r, "reverse") /\ (Succeeds(r) \/ Fails(r, "timeout", {r}))
    <3>1. UNCHANGED Over /\ r \notin Over
      BY <1>1, <2>1, <2>3, GoesOn DEF Settled
    <3>2. hit' \in {hit, hit \cup {r}}
      BY <2>3, FailsStrikes DEF Succeeds, NoFault
    <3> QED
      BY <1>2, <1>3, <2>1, <3>1, <3>2, EndNone
  <2> QED
    BY <1>7, <2>2, <2>3 DEF Answer
<1>8. CASE ReverseLedgerDebit(r)
  <2>1. phase[r] = "reverse" /\ UNCHANGED <<debited, sent>> /\ Goto(r, "rejected")
    BY <1>8 DEF ReverseLedgerDebit
  <2>2. r \in debited \ reversed /\ (r \notin hit => r \notin sent)
    BY <1>1, <2>1 DEF CallOK, TypeOK, UnstruckOK, TransferInv, NombaOK
  <2>3. r \notin Over
    BY <2>1 DEF Over, Settled
  <2>4. ASSUME Credit(r), Promise!End({r}) PROVE Promise!Next
    <3>1. Promise!Give(r)
      BY <2>1, <2>2, <2>3, <2>4 DEF Credit, Promise!Give, Over
    <3> QED
      BY <3>1 DEF Promise!Next
  <2>5. CASE Credit(r) /\ (Succeeds(r) \/ Fails(r, "commit", {}))
    <3>1. hit' = hit
      BY <2>5, FailsStrikes DEF Succeeds, NoFault
    <3>2. Promise!End({r})
      BY <1>1, <2>1, <2>2, <2>5, <3>1, EndOne DEF Credit, Settled, InFlight
    <3> QED
      BY <2>4, <2>5, <3>2
  <2>6. CASE UNCHANGED reversed /\ Fails(r, "db", {r})
    <3>1. Promise!End({r})
      BY <1>1, <2>1, <2>6, EndOne, FailsStrikes DEF Settled, InFlight
    <3> QED
      BY <1>2, <1>3, <2>1, <2>6, <3>1
  <2> QED
    BY <1>8, <2>5, <2>6 DEF ReverseLedgerDebit
<1> QED
  BY <1>4, <1>5, <1>6, <1>7, <1>8 DEF HandlerStep

LEMMA PayoutStep == TransferInv /\ [Next]_vars => [Promise!Next]_(Promise!payoutVars)
<1> SUFFICES ASSUME TransferInv, [Next]_vars PROVE [Promise!Next]_(Promise!payoutVars)
  OBVIOUS
<1> USE DEF ledger, nomba
<1>1. ASSUME UNCHANGED <<debited, reversed, sent, hit, Over>>
      PROVE  UNCHANGED Promise!payoutVars
  BY <1>1 DEF Promise!payoutVars, Promise!money, Over
<1>2. CASE \/ \E a \in Accounts : Deposit(a)
           \/ \E r \in Requests : NombaRefuses(r)
           \/ \E r \in Requests : Cancel(r)
           \/ Restart \/ UNCHANGED vars
  <2>1. UNCHANGED <<debited, reversed, sent, hit, phase>>
    BY <1>2 DEF Deposit, NombaRefuses, Cancel, Fault, Restart, vars
  <2> QED
    BY <1>1, <2>1 DEF Over
<1>3. ASSUME NEW r \in Requests, Start(r) PROVE UNCHANGED Promise!payoutVars
  <2>1. UNCHANGED Over
    BY <1>3, GoesOn DEF Start, TransferInv, Settled
  <2> QED
    BY <1>1, <1>3, <2>1 DEF Start
<1>4. ASSUME NEW r \in Requests, NombaPays(r) PROVE Promise!Pay(r)
  <2>1. r \in debited \ sent
    BY <1>4 DEF NombaPays, TransferInv, CallOK
  <2>2. r \in Over => r \in hit
    BY <1>4 DEF NombaPays, TransferInv, CallOK, UnstruckOK, Over, Settled
  <2>3. UNCHANGED <<debited, reversed, phase, hit>> /\ sent' = sent \cup {r}
    BY <1>4 DEF NombaPays
  <2> QED
    BY <1>4, <2>1, <2>2, <2>3 DEF NombaPays, Promise!Pay, Over
<1>5. CASE Crash
  <2>1. PICK cut \in SUBSET Requests : cut = {r \in Requests : phase[r] \in InFlight}
    OBVIOUS
  <2>2. /\ phase' = [r \in Requests |-> IF r \in cut THEN "gone" ELSE phase[r]]
        /\ hit' = hit \cup (cut \cap debited) /\ UNCHANGED <<debited, reversed, sent>>
    BY <1>5, <2>1 DEF Crash, Fault
  <2>3. Over' = Over \cup cut /\ Over \cap cut = {}
    BY <2>1, <2>2 DEF Over, InFlight, Settled
  <2>4. \A r \in cut : r \in hit' \/ (r \notin debited /\ r \notin sent)
    BY <2>2 DEF TransferInv, TypeOK, CallOK
  <2>5. cut \cap debited \in SUBSET (Requests \ Over)
    BY <2>1, <2>3
  <2>6. Promise!End(cut)
    BY <2>2, <2>3, <2>4, <2>5 DEF Promise!End, Promise!Exact, Over
  <2>7. UNCHANGED Promise!money
    BY <2>2 DEF Promise!money
  <2> QED
    BY <2>6, <2>7, EndsAreSteps
<1> QED
  BY <1>2, <1>3, <1>4, <1>5, PayoutHandlerStep DEF Next, NombaStep, Promise!Next

\* With any overlap of calls, answers, cancellations and crashes, the money
\* moves as Payout promises: no step of the code does anything else with it.
THEOREM ImplementsPayout == Spec => PayoutKept
<1>1. Init => Promise!Init
  BY DEF Init, Promise!Init, Settled
<1>2. TransferInv /\ [Next]_vars => [Promise!Next]_(Promise!payoutVars)
  BY PayoutStep
<1> QED
  BY <1>1, <1>2, InvHolds, PTL DEF Spec, PayoutKept, Promise!Spec

-----------------------------------------------------------------------------
(***************************************************************************)
(* How deep an overdraft can be.  Let at most k calls on account a be      *)
(* between their check and their debit, with amounts of at most m.  The    *)
(* amounts differ, so the invariant keeps the last call that was found     *)
(* funded: the balance covers its amount and, but for m * (k - 1), the     *)
(* amounts of the others that are waiting to debit.                        *)
(***************************************************************************)
Waiting(a)       == Cardinality(Passed(a))
Covered(a, k, m) ==
    \/ balance[a] - m * Waiting(a) >= -(m * (k - 1))
    \/ \E r \in Passed(a) : balance[a] - Amount[r] - m * (Waiting(a) - 1) >= -(m * (k - 1))

LEMMA Products ==
    ASSUME NEW m \in Nat, NEW d \in Int, NEW e \in Int
    PROVE  /\ m * d \in Int /\ m * (d + 1) = m * d + m /\ m * (d - 1) = m * d - m
           /\ d <= e => m * d <= m * e
<1>1. m * d \in Int /\ m * (d + 1) = m * d + m /\ m * (d - 1) = m * d - m
  OBVIOUS
<1>2. d <= e => m * d <= m * e
  OBVIOUS
<1> QED
  BY <1>1, <1>2

LEMMA PassedIsFinite ==
    ASSUME IsFiniteSet(Requests), NEW a
    PROVE  /\ IsFiniteSet(On(a)) /\ IsFiniteSet(Passed(a)) /\ Waiting(a) \in Nat
           /\ Cardinality(On(a)) \in Nat /\ Waiting(a) <= Cardinality(On(a))
<1>1. On(a) \in SUBSET Requests /\ Passed(a) \in SUBSET On(a)
  BY DEF On, Passed
<1>2. IsFiniteSet(On(a))
  BY <1>1, FS_Subset
<1>3. IsFiniteSet(Passed(a)) /\ Cardinality(Passed(a)) <= Cardinality(On(a))
  BY <1>1, <1>2, FS_Subset
<1> QED
  BY <1>2, <1>3, FS_CardinalityType DEF Waiting

\* Nobody passes the check and the balance does not fall.
LEMMA MoreIsCovered ==
    ASSUME TypeOK, TypeOK', IsFiniteSet(Requests),
           NEW a \in Accounts, NEW k \in Int, NEW m \in Nat, Covered(a, k, m),
           Passed(a)' \subseteq Passed(a), balance'[a] >= balance[a]
    PROVE  Covered(a, k, m)'
<1> DEFINE w == Waiting(a)
           u == Waiting(a)'
           floor == -(m * (k - 1))
<1>1. w \in Nat /\ u \in Nat /\ u <= w
  BY PassedIsFinite, FS_Subset, FS_CardinalityType DEF Waiting
<1>2. balance[a] \in Int /\ balance'[a] \in Int /\ floor \in Int
  BY DEF TypeOK
<1>3. CASE balance[a] - m * w >= floor
  <2>1. m * u <= m * w /\ m * u \in Int /\ m * w \in Int
    BY <1>1, Products
  <2> QED
    BY <1>2, <1>3, <2>1 DEF Covered
<1>4. ASSUME NEW r \in Passed(a), balance[a] - Amount[r] - m * (w - 1) >= floor
      PROVE  Covered(a, k, m)'
  <2>1. Amount[r] \in Nat
    BY TransfersAssumption DEF Passed, On
  <2>2. CASE r \in Passed(a)'
    <3>1. m * (u - 1) <= m * (w - 1) /\ m * (u - 1) \in Int /\ m * (w - 1) \in Int
      BY <1>1, Products
    <3>2. balance'[a] - Amount[r] - m * (u - 1) >= floor
      BY <1>2, <1>4, <2>1, <3>1
    <3> QED
      BY <2>2, <3>2 DEF Covered
  <2>3. CASE r \notin Passed(a)'
    <3>1. Passed(a)' \subseteq Passed(a) \ {r}
      BY <2>3
    <3>2. u <= w - 1
      <4>1. IsFiniteSet(Passed(a) \ {r}) /\ Cardinality(Passed(a) \ {r}) = w - 1
        BY <1>4, PassedIsFinite, FS_RemoveElement DEF Waiting
      <4> QED
        BY <3>1, <4>1, FS_Subset DEF Waiting
    <3>3. m * u <= m * (w - 1) /\ m * u \in Int /\ m * (w - 1) \in Int
      BY <1>1, <3>2, Products
    <3>4. balance'[a] - m * u >= floor
      BY <1>2, <1>4, <2>1, <3>3
    <3> QED
      BY <3>4 DEF Covered
  <2> QED
    BY <2>2, <2>3
<1> QED
  BY <1>3, <1>4 DEF Covered

\* One more passes the check: the balance covers its amount.
LEMMA PassIsCovered ==
    ASSUME TypeOK, TypeOK', IsFiniteSet(Requests),
           NEW a \in Accounts, NEW k \in Int, NEW m \in Nat, NEW r \in On(a),
           r \notin Passed(a), Passed(a)' = Passed(a) \cup {r},
           Waiting(a)' <= k, balance'[a] = balance[a], balance[a] >= Amount[r]
    PROVE  Covered(a, k, m)'
<1>1. Waiting(a) \in Nat /\ Waiting(a)' = Waiting(a) + 1
  BY PassedIsFinite, FS_AddElement DEF Waiting
<1>2. balance[a] \in Int /\ Amount[r] \in Nat
  BY TransfersAssumption DEF TypeOK, On
<1>3. m * (Waiting(a)' - 1) <= m * (k - 1) /\ m * (Waiting(a)' - 1) \in Int /\ m * (k - 1) \in Int
  BY <1>1, Products
<1>4. balance'[a] - Amount[r] - m * (Waiting(a)' - 1) >= -(m * (k - 1))
  BY <1>2, <1>3
<1> QED
  BY <1>4 DEF Covered

\* One that has passed debits.
LEMMA DebitIsCovered ==
    ASSUME TypeOK, TypeOK', IsFiniteSet(Requests),
           NEW a \in Accounts, NEW k \in Int, NEW m \in Nat, Covered(a, k, m),
           NEW r \in Passed(a), Amount[r] <= m,
           Passed(a)' = Passed(a) \ {r}, balance'[a] = balance[a] - Amount[r]
    PROVE  Covered(a, k, m)'
<1> DEFINE w == Waiting(a)
           u == Waiting(a)'
           floor == -(m * (k - 1))
<1>1. w \in Nat /\ u = w - 1
  BY PassedIsFinite, FS_RemoveElement DEF Waiting
<1>2. balance[a] \in Int /\ floor \in Int /\ \A q \in Passed(a) : Amount[q] \in Nat
  BY TransfersAssumption DEF TypeOK, Passed, On
<1>3. /\ m * w \in Int /\ m * (w - 1) = m * w - m
      /\ m * (u - 1) = m * (w - 1) - m
  BY <1>1, Products
<1>4. CASE balance[a] - m * w >= floor
  <2>1. balance'[a] - m * u >= floor
    BY <1>1, <1>2, <1>3, <1>4
  <2> QED
    BY <2>1 DEF Covered
<1>5. ASSUME NEW q \in Passed(a), balance[a] - Amount[q] - m * (w - 1) >= floor
      PROVE  Covered(a, k, m)'
  <2>1. CASE q = r
    <3>1. balance'[a] - m * u >= floor
      BY <1>1, <1>2, <1>3, <1>5, <2>1
    <3> QED
      BY <3>1 DEF Covered
  <2>2. CASE q # r
    <3>1. balance'[a] - Amount[q] - m * (u - 1) >= floor
      BY <1>1, <1>2, <1>3, <1>5
    <3> QED
      BY <2>2, <3>1 DEF Covered
  <2> QED
    BY <2>1, <2>2
<1> QED
  BY <1>4, <1>5 DEF Covered

LEMMA CoveredStep ==
    ASSUME TypeOK, TypeOK', [Next]_vars, IsFiniteSet(Requests),
           NEW a \in Accounts, NEW k \in Int, NEW m \in Nat, Covered(a, k, m),
           \A r \in On(a) : Amount[r] <= m, Waiting(a)' <= k
    PROVE  Covered(a, k, m)'
<1> USE DEF ledger, nomba, NoFault, Fault
<1>1. ASSUME NEW r \in Requests, NEW p \in Phases, Goto(r, p)
      PROVE  /\ p # "debit" => Passed(a)' = Passed(a) \ {r}
             /\ p = "debit" /\ r \in On(a) => Passed(a)' = Passed(a) \cup {r}
             /\ r \notin On(a) => Passed(a)' = Passed(a)
  <2>1. \A q \in Requests : phase'[q] = IF q = r THEN p ELSE phase[q]
    BY <1>1 DEF Goto, TypeOK
  <2> QED
    BY <2>1 DEF Passed, On
<1>2. ASSUME NEW r \in Requests, NEW p \in Phases \ {"debit"}, Goto(r, p),
             balance'[a] >= balance[a]
      PROVE  Covered(a, k, m)'
  BY <1>1, <1>2, MoreIsCovered
<1>3. ASSUME Passed(a)' = Passed(a), balance'[a] >= balance[a] PROVE Covered(a, k, m)'
  BY <1>3, MoreIsCovered
<1>4. ASSUME NEW r \in Requests, CheckBalance(r) PROVE Covered(a, k, m)'
  <2>1. phase[r] = "check" /\ UNCHANGED balance /\ r \notin Passed(a)
    BY <1>4 DEF CheckBalance, Passed
  <2>2. balance'[a] >= balance[a]
    BY <2>1 DEF TypeOK
  <2>3. CASE Goto(r, "debit") /\ balance[AccountOf[r]] >= Amount[r] /\ r \in On(a)
    <3>1. Passed(a)' = Passed(a) \cup {r} /\ balance[a] >= Amount[r]
      BY <1>1, <2>3 DEF Phases, On
    <3> QED
      BY <2>1, <2>3, <3>1, PassIsCovered
  <2>4. CASE Goto(r, "debit") /\ r \notin On(a)
    BY <1>1, <1>3, <2>2, <2>4 DEF Phases
  <2>5. CASE Goto(r, "unfunded") \/ Goto(r, "failed")
    BY <1>2, <2>2, <2>5 DEF Phases
  <2> QED
    BY <1>4, <2>3, <2>4, <2>5 DEF CheckBalance
<1>5. ASSUME NEW r \in Requests, InsertDebit(r) PROVE Covered(a, k, m)'
  <2>1. phase[r] = "debit" /\ (Goto(r, "call") \/ Goto(r, "failed"))
    BY <1>5 DEF InsertDebit
  <2>2. PICK p \in Phases \ {"debit"} : Goto(r, p)
    BY <2>1 DEF Phases
  <2>3. CASE UNCHANGED balance
    BY <1>2, <2>2, <2>3 DEF TypeOK
  <2>4. CASE Debit(r) /\ r \in On(a)
    <3>1. r \in Passed(a) /\ Passed(a)' = Passed(a) \ {r} /\ Amount[r] <= m
      BY <1>1, <2>1, <2>2, <2>4 DEF Passed
    <3>2. balance'[a] = balance[a] - Amount[r]
      BY <2>4 DEF Debit, On, TypeOK
    <3> QED
      BY <3>1, <3>2, DebitIsCovered
  <2>5. CASE Debit(r) /\ r \notin On(a)
    <3>1. balance'[a] = balance[a] /\ balance[a] \in Int
      BY <2>5 DEF Debit, On, TypeOK
    <3> QED
      BY <1>2, <2>2, <3>1
  <2> QED
    BY <1>5, <2>3, <2>4, <2>5 DEF InsertDebit
<1>6. ASSUME NEW r \in Requests, CallNomba(r) \/ Answer(r) \/ ReverseLedgerDebit(r) \/ Start(r)
      PROVE  Covered(a, k, m)'
  <2>1. PICK p \in Phases \ {"debit"} : Goto(r, p)
    BY <1>6 DEF CallNomba, Answer, ReverseLedgerDebit, Start, Phases
  <2>2. balance'[a] >= balance[a]
    BY <1>6, TransfersAssumption
       DEF CallNomba, Answer, ReverseLedgerDebit, Start, Credit, TypeOK
  <2> QED
    BY <1>2, <2>1, <2>2
<1>7. ASSUME NEW b \in Accounts, Deposit(b) PROVE Covered(a, k, m)'
  <2>1. balance'[a] >= balance[a] /\ UNCHANGED phase
    BY <1>7 DEF Deposit, TypeOK
  <2> QED
    BY <1>3, <2>1 DEF Passed
<1>8. CASE Crash
  <2>1. \A r \in Requests : phase'[r] \in {phase[r], "gone"}
    BY <1>8 DEF Crash
  <2>2. Passed(a)' \subseteq Passed(a) /\ balance'[a] >= balance[a]
    BY <1>8, <2>1 DEF Crash, Passed, On, TypeOK
  <2> QED
    BY <2>2, MoreIsCovered
<1>9. ASSUME UNCHANGED <<phase, balance>> PROVE Covered(a, k, m)'
  BY <1>3, <1>9 DEF Passed, TypeOK
<1> QED
  BY <1>4, <1>5, <1>6, <1>7, <1>8, <1>9
     DEF Next, HandlerStep, NombaStep, NombaPays, NombaRefuses, Cancel, Restart, vars

\* What is covered is not overdrawn beyond the floor, and all is in the beginning.
LEMMA CoveredBounds ==
    ASSUME TypeOK, IsFiniteSet(Requests), NEW a \in Accounts, NEW k \in Int, NEW m \in Nat,
           \A r \in On(a) : Amount[r] <= m
    PROVE  /\ Covered(a, k, m) => balance[a] >= -(m * (k - 1))
           /\ Init /\ k >= 1 => Covered(a, k, m)
<1>1. Waiting(a) \in Nat /\ balance[a] \in Int
  BY PassedIsFinite DEF TypeOK
<1>2. m * (k - 1) \in Int /\ m * Waiting(a) \in Int /\ m * Waiting(a) >= 0
  BY <1>1, Products
<1>3. ASSUME balance[a] - m * Waiting(a) >= -(m * (k - 1))
      PROVE  balance[a] >= -(m * (k - 1))
  BY <1>1, <1>2, <1>3
<1>4. ASSUME NEW r \in Passed(a), balance[a] - Amount[r] - m * (Waiting(a) - 1) >= -(m * (k - 1))
      PROVE  balance[a] >= -(m * (k - 1))
  <2>1. Waiting(a) >= 1
    BY <1>1, <1>4, PassedIsFinite, FS_EmptySet DEF Waiting
  <2>2. m * (Waiting(a) - 1) \in Int /\ m * (Waiting(a) - 1) >= 0 /\ Amount[r] \in Nat
    BY <1>1, <2>1, Products, TransfersAssumption DEF Passed, On
  <2> QED
    BY <1>1, <1>2, <1>4, <2>2
<1>5. Init /\ k >= 1 => Covered(a, k, m)
  <2> SUFFICES ASSUME Init, k >= 1 PROVE Covered(a, k, m)
    OBVIOUS
  <2>1. Waiting(a) = 0
    <3>1. Passed(a) = {}
      BY DEF Init, Passed, On
    <3> QED
      BY <3>1, FS_EmptySet DEF Waiting
  <2>2. balance[a] >= 0 /\ m * (k - 1) >= 0
    BY TransfersAssumption, Products DEF Init
  <2> QED
    BY <1>1, <1>2, <2>1, <2>2 DEF Covered
<1> QED
  BY <1>3, <1>4, <1>5 DEF Covered

\* If at no time more than k calls on an account are between their check and
\* their debit, and none of them is of more than m, the account is overdrawn
\* by m * (k - 1) at most: not at all if the two statements never overlap.
THEOREM OverlapBoundsOverdraft ==
    ASSUME IsFiniteSet(Requests), NEW a \in Accounts, NEW k \in Nat \ {0}, NEW m \in Nat,
           \A r \in On(a) : Amount[r] <= m
    PROVE  Spec /\ [](Cardinality(Passed(a)) <= k) => [](balance[a] >= -(m * (k - 1)))
<1> DEFINE Inv   == Covered(a, k, m)
           Few   == Cardinality(Passed(a)) <= k
           Floor == balance[a] >= -(m * (k - 1))
<1>1. TypeOK /\ Init => Inv
  BY CoveredBounds
<1>2. TypeOK /\ TypeOK' /\ Few' /\ Inv /\ [Next]_vars => Inv'
  BY CoveredStep DEF Waiting
<1>3. TypeOK /\ Inv => Floor
  BY CoveredBounds
<1>4. Spec /\ []Few => []Floor
  <2> HIDE DEF Inv, Few, Floor
  <2> QED
    BY <1>1, <1>2, <1>3, TypeCorrect, PTL DEF Spec
<1> QED
  BY <1>4

\* Whatever overlaps and fails, all calls on an account but one can overdraw it.
THEOREM OverdraftIsBounded == ASSUME IsFiniteSet(Requests) PROVE Spec => []OverdraftBounded
<1> DEFINE Most(a, m) == m \in {Amount[r] : r \in On(a)} /\ \A r \in On(a) : Amount[r] <= m
           Inv == \A a \in Accounts : \A m \in Nat : Most(a, m) => Covered(a, Cardinality(On(a)), m)
<1>1. ASSUME NEW a \in Accounts, NEW m, Most(a, m)
      PROVE  Cardinality(On(a)) \in Nat \ {0} /\ m \in Nat
  BY <1>1, PassedIsFinite, FS_EmptySet, TransfersAssumption DEF On
<1>2. TypeOK /\ Init => Inv
  <2> SUFFICES ASSUME TypeOK, Init, NEW a \in Accounts, NEW m \in Nat, Most(a, m)
               PROVE  Covered(a, Cardinality(On(a)), m)
    OBVIOUS
  <2>1. PICK k \in Nat \ {0} : k = Cardinality(On(a))
    BY <1>1
  <2> QED
    BY <2>1, CoveredBounds
<1>3. TypeOK /\ TypeOK' /\ Inv /\ [Next]_vars => Inv'
  <2> SUFFICES ASSUME TypeOK, TypeOK', Inv, [Next]_vars,
                      NEW a \in Accounts, NEW m \in Nat, Most(a, m)
               PROVE  Covered(a, Cardinality(On(a)), m)'
    BY DEF On
  <2>1. Waiting(a)' <= Cardinality(On(a))
    <3>1. Passed(a)' \subseteq On(a) /\ IsFiniteSet(On(a))
      BY PassedIsFinite DEF Passed, On
    <3> QED
      BY <3>1, FS_Subset DEF Waiting
  <2>2. PICK k \in Nat : k = Cardinality(On(a))
    BY <1>1
  <2> QED
    BY <2>1, <2>2, CoveredStep DEF On
<1>4. TypeOK /\ Inv => OverdraftBounded
  BY <1>1, CoveredBounds DEF OverdraftBounded
<1> QED
  BY <1>2, <1>3, <1>4, TypeCorrect, PTL DEF Spec
=============================================================================
