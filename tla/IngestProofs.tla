---------------------------- MODULE IngestProofs ----------------------------
(* Theorems about Ingest for every value of its constants.                 *)
EXTENDS Ingest, TLAPS

\* A call's step that moves it to state s and leaves its transaction alone
\* keeps HookOK, unless it leaves RunInTx with uncommitted writes.
LEMMA GotoKeepsHookOK ==
    ASSUME HookOK, NEW c \in Calls, NEW s \in HookStates, Goto(c, s),
           UNCHANGED tx, tx[c] = EmptyTx
    PROVE  HookOK'
<1>1. hook' \in [Calls -> HookStates] /\ \A d \in Calls : d # c => hook'[d] = hook[d]
  BY DEF HookOK, Goto
<1> QED
  BY <1>1 DEF HookOK

\* So does a step that replaces the uncommitted writes of c.
LEMMA TxKeepsHookOK ==
    ASSUME HookOK, NEW c \in Calls, NEW s \in HookStates, Goto(c, s),
           NEW legs \in SUBSET Entry, NEW row \in BOOLEAN, SetTx(c, legs, row),
           s \notin {"enqueue", "commit"} => legs = {} /\ row = FALSE
    PROVE  HookOK'
<1>1. /\ hook' \in [Calls -> HookStates] /\ hook'[c] = s
      /\ \A d \in Calls : d # c => hook'[d] = hook[d]
  BY DEF HookOK, Goto
<1>2. /\ tx' \in [Calls -> [legs : SUBSET Entry, row : BOOLEAN]] /\ tx'[c] = [legs |-> legs, row |-> row]
      /\ \A d \in Calls : d # c => tx'[d] = tx[d]
  BY DEF HookOK, SetTx
<1> QED
  BY <1>1, <1>2 DEF HookOK, EmptyTx

LEMMA LegsAreEntries ==
    ASSUME NEW c \in Calls
    PROVE  /\ CreditLegs(c) \subseteq Entry
           /\ \A a \in SystemAccounts : Leg(c, a, "credit") \in Entry
BY IngestAssumption DEF CreditLegs, CustomerLeg, Leg, Entry, SystemAccounts

\* Ending the transaction keeps HookOK whatever the next state of the call.
LEMMA ClearKeepsHookOK ==
    ASSUME HookOK, NEW c \in Calls, ClearTx(c), Goto(c, "ok") \/ Goto(c, "error")
    PROVE  HookOK'
<1>1. "ok" \in HookStates /\ "error" \in HookStates /\ {} \in SUBSET Entry
  BY DEF HookStates
<1> QED
  BY <1>1, TxKeepsHookOK DEF ClearTx

\* The history variables name events and forget none.
LEMMA HistoryStep ==
    ASSUME TypeOK, [Next]_vars
    PROVE  /\ struck \subseteq struck' /\ struck' \subseteq Txns
           /\ raced \subseteq raced' /\ raced' \subseteq Txns
<1> USE DEF TypeOK, handler
<1>1. ASSUME NEW c \in Calls, Deliver(c) \/ HookStep(c)
      PROVE  /\ struck' \in {struck, struck \cup {TxnOf[c]}}
             /\ raced' \in {raced, raced \cup ({cur} \cap {TxnOf[c]})}
  BY <1>1 DEF Deliver, HookStep, Reject, MarkProcessed, ResolveAccount, PostSuspense,
     PostCredit, CreateDelivery, Commit, Strike, Race
<1>2. CASE \E c \in Calls : Deliver(c) \/ HookStep(c)
  BY <1>1, <1>2, IngestAssumption
<1>3. CASE Crash
  BY <1>3, IngestAssumption DEF Crash
<1>4. CASE \/ \E t \in Txns : Pay(t)
           \/ \E a \in Accounts : Provision(a) \/ Close(a)
           \/ Tick \/ SweepStep \/ Restart \/ UNCHANGED vars
  BY <1>4 DEF Pay, Provision, Close, Tick, Restart, vars, SweepStep, StartSweep,
     CheckProcessed, LookUpDest, InsertBackfill, MarkBackfilled, EndSweep
<1> QED
  BY <1>2, <1>3, <1>4 DEF Next

\* The type invariant holds in every reachable state: in particular a call
\* has uncommitted writes only inside RunInTx, and the sweep holds a
\* transaction exactly between its check and its mark.
THEOREM TypeCorrect == Spec => []TypeOK
<1> USE IngestAssumption DEF TypeOK
<1>1. Init => TypeOK
  BY DEF Init, EnvOK, DbOK, HookOK, SweepOK, EmptyTx, HookStates, SweepStates
<1>2. TypeOK /\ [Next]_vars => TypeOK'
  <2> SUFFICES ASSUME TypeOK, [Next]_vars PROVE TypeOK'
    OBVIOUS
  <2>0. struck' \subseteq Txns /\ raced' \subseteq Txns
    BY HistoryStep
  <2> USE <2>0 DEF env, db, handler, sweeper, Fault, Strike
  <2>1. ASSUME NEW t \in Txns, Pay(t) PROVE TypeOK'
    BY <2>1 DEF Pay, EnvOK, DbOK, HookOK, SweepOK
  <2>2. ASSUME NEW a \in Accounts, Provision(a) \/ Close(a) PROVE TypeOK'
    BY <2>2 DEF Provision, Close, EnvOK, DbOK, HookOK, SweepOK
  <2>3. ASSUME NEW c \in Calls, Deliver(c) \/ Reject(c) \/ ResolveAccount(c)
        PROVE  TypeOK'
    <3>1. tx[c] = EmptyTx
      BY <2>3 DEF Deliver, Reject, ResolveAccount, HookOK
    <3>2. \E s \in HookStates : Goto(c, s)
      BY <2>3 DEF Deliver, Reject, ResolveAccount, HookStates
    <3>3. HookOK'
      BY <2>3, <3>1, <3>2, GotoKeepsHookOK DEF Deliver, Reject, ResolveAccount
    <3>4. EnvOK' /\ DbOK' /\ SweepOK'
      BY <2>3 DEF Deliver, Reject, ResolveAccount, EnvOK, DbOK, SweepOK
    <3> QED
      BY <2>3, <3>3, <3>4 DEF Deliver, Reject, ResolveAccount
  <2>4. ASSUME NEW c \in Calls, MarkProcessed(c) PROVE TypeOK'
    <3>1. tx[c] = EmptyTx
      BY <2>4 DEF MarkProcessed, HookOK
    <3>2. \E s \in HookStates : Goto(c, s)
      BY <2>4 DEF MarkProcessed, Route, HookStates
    <3>3. HookOK'
      BY <2>4, <3>1, <3>2, GotoKeepsHookOK DEF MarkProcessed
    <3>4. EnvOK' /\ DbOK' /\ SweepOK'
      BY <2>4 DEF MarkProcessed, EnvOK, DbOK, SweepOK
    <3> QED
      BY <2>4, <3>3, <3>4 DEF MarkProcessed
  <2>5. ASSUME NEW c \in Calls, PostSuspense(c) PROVE TypeOK'
    <3>1. tx[c] = EmptyTx /\ Goto(c, "ok") /\ UNCHANGED tx
      BY <2>5 DEF PostSuspense, HookOK, InsertEntries
    <3>2. HookOK'
      BY <3>1, GotoKeepsHookOK DEF HookStates
    <3>3. Leg(c, hook[c], "credit") \in Entry
      BY <2>5, LegsAreEntries DEF PostSuspense, SystemAccounts
    <3>4. EnvOK' /\ DbOK' /\ SweepOK'
      BY <2>5, <3>3 DEF PostSuspense, InsertEntries, EnvOK, DbOK, SweepOK
    <3> QED
      BY <2>5, <3>2, <3>4 DEF PostSuspense, InsertEntries
  <2>6. ASSUME NEW c \in Calls, PostCredit(c) PROVE TypeOK'
    <3>1. ASSUME InsertEntries(c, CreditLegs(c), TRUE), Goto(c, "enqueue")
          PROVE  HookOK'
      <4>1. tx[c] = EmptyTx /\ "enqueue" \in HookStates
        BY <2>6 DEF PostCredit, HookOK, HookStates
      <4>2. SetTx(c, CreditLegs(c), FALSE)
        <5>1. tx[c].legs \cup CreditLegs(c) = CreditLegs(c) /\ tx[c].row = FALSE
          BY <4>1 DEF EmptyTx
        <5> QED
          BY <3>1, <5>1 DEF InsertEntries
      <4> QED
        BY <3>1, <4>1, <4>2, LegsAreEntries, TxKeepsHookOK
    <3>2. ASSUME Rollback(c) PROVE HookOK'
      BY <3>2, ClearKeepsHookOK DEF Rollback
    <3>3. HookOK'
      BY <2>6, <3>1, <3>2 DEF PostCredit
    <3>4. EnvOK' /\ DbOK' /\ SweepOK'
      BY <2>6 DEF PostCredit, InsertEntries, EnvOK, DbOK, SweepOK
    <3> QED
      BY <2>6, <3>3, <3>4 DEF PostCredit, InsertEntries, Rollback
  <2>7. ASSUME NEW c \in Calls, CreateDelivery(c) PROVE TypeOK'
    <3>1. ASSUME SetTx(c, tx[c].legs, TRUE), Goto(c, "commit") PROVE HookOK'
      <4>1. tx[c].legs \in SUBSET Entry /\ "commit" \in HookStates
        BY DEF HookOK, HookStates
      <4> QED
        BY <3>1, <4>1, TxKeepsHookOK
    <3>2. ASSUME Rollback(c) PROVE HookOK'
      BY <3>2, ClearKeepsHookOK DEF Rollback
    <3>3. HookOK'
      BY <2>7, <3>1, <3>2 DEF CreateDelivery
    <3>4. EnvOK' /\ DbOK' /\ SweepOK'
      BY <2>7 DEF CreateDelivery, EnvOK, DbOK, SweepOK
    <3>5. up' = up
      BY <2>7 DEF CreateDelivery
    <3>6. faults' = faults \/ Fault("db")
      BY <2>7, Zenon DEF CreateDelivery
    <3>7. faults' \in 0 .. MaxFaults
      BY <3>6
    <3> QED
      BY <3>3, <3>4, <3>5, <3>7
  <2>8. ASSUME NEW c \in Calls, Commit(c) PROVE TypeOK'
    <3>1. HookOK'
      BY <2>8, ClearKeepsHookOK DEF Commit
    <3>2. EnvOK' /\ DbOK' /\ SweepOK'
      BY <2>8 DEF Commit, Apply, EnvOK, DbOK, SweepOK, HookOK
    <3> QED
      BY <2>8, <3>1, <3>2 DEF Commit
  <2>9. CASE Tick
    BY <2>9 DEF Tick, EnvOK, DbOK, HookOK, SweepOK
  <2>10. CASE StartSweep
    <3>1. todo' \subseteq Txns /\ sweep' \in {"idle", "check"}
      BY <2>10 DEF StartSweep, Window, SweepOK, EnvOK
    <3>2. SweepOK'
      BY <2>10, <3>1 DEF StartSweep, SweepOK, SweepStates
    <3>3. UNCHANGED <<env, db, up, handler>> /\ faults' \in 0 .. MaxFaults
      BY <2>10 DEF StartSweep
    <3> QED
      BY <3>2, <3>3 DEF EnvOK, DbOK, HookOK
  <2>11. ASSUME NEW t \in Txns, CheckProcessed(t) PROVE TypeOK'
    BY <2>11 DEF CheckProcessed, EnvOK, DbOK, HookOK, SweepOK, SweepStates
  <2>12. CASE LookUpDest
    BY <2>12 DEF LookUpDest, SkipTxn, EnvOK, DbOK, HookOK, SweepOK, SweepStates
  <2>13. CASE InsertBackfill
    BY <2>13 DEF InsertBackfill, SkipTxn, EnvOK, DbOK, HookOK, SweepOK, SweepStates
  <2>14. CASE MarkBackfilled
    BY <2>14 DEF MarkBackfilled, SkipTxn, EnvOK, DbOK, HookOK, SweepOK, SweepStates
  <2>15. CASE EndSweep
    BY <2>15 DEF EndSweep, EnvOK, DbOK, HookOK, SweepOK, SweepStates
  <2>16. CASE Crash
    <3>1. HookOK'
      BY <2>16 DEF Crash, HookOK, HookStates, EmptyTx
    <3>2. EnvOK' /\ DbOK' /\ SweepOK'
      BY <2>16 DEF Crash, EnvOK, DbOK, SweepOK, SweepStates
    <3>3. faults' = faults + 1 /\ faults < MaxFaults /\ up' = FALSE
      BY <2>16, Zenon DEF Crash
    <3>4. faults' \in 0 .. MaxFaults
      BY <3>3
    <3>5. up' \in BOOLEAN
      BY <3>3, Zenon
    <3> QED
      BY <3>1, <3>2, <3>4, <3>5, Zenon
  <2>17. CASE Restart
    BY <2>17 DEF Restart, EnvOK, DbOK, HookOK, SweepOK
  <2>18. CASE UNCHANGED vars
    BY <2>18 DEF vars, EnvOK, DbOK, HookOK, SweepOK
  <2> QED
    BY <2>1, <2>2, <2>3, <2>4, <2>5, <2>6, <2>7, <2>8, <2>9, <2>10, <2>11,
       <2>12, <2>13, <2>14, <2>15, <2>16, <2>17, <2>18
       DEF Next, HookStep, SweepStep
<1>3. QED
  BY <1>1, <1>2, PTL DEF Spec

-----------------------------------------------------------------------------
(* Webhook calls: the inductive invariant.                                 *)

\* Call c has claimed its event and is not done with it.
Holds(c) == hook[c] \in InFlight \ {"received"}

\* The uncommitted writes of a call are the ones its control state says.
TxInv ==
    \A c \in Calls :
        /\ hook[c] = "enqueue" => tx[c] = [legs |-> CreditLegs(c), row |-> FALSE]
        /\ hook[c] = "commit" => tx[c] = [legs |-> CreditLegs(c), row |-> TRUE]

\* At most one call holds an event, only of a claimed payment that nobody has
\* posted yet; what is posted has been claimed, and was posted by one call.
HookInv ==
    /\ \A c \in Calls : Holds(c) => TxnOf[c] \in processed \cap Credits
    /\ \A c, d \in Calls : Holds(c) /\ Holds(d) /\ TxnOf[c] = TxnOf[d] => c = d
    /\ \A c \in Calls : Holds(c) => \A e \in ledger : TxnOf[e.group] # TxnOf[c]
    /\ \A e \in ledger : TxnOf[e.group] \in processed
    /\ HookBooksOnce
    /\ CreditQueued

LEMMA GotoEffect ==
    ASSUME HookOK, NEW c \in Calls, NEW s, Goto(c, s)
    PROVE  hook'[c] = s /\ \A d \in Calls : d # c => hook'[d] = hook[d]
BY DEF HookOK, Goto

LEMMA SetTxEffect ==
    ASSUME HookOK, NEW c \in Calls, NEW legs, NEW row, SetTx(c, legs, row)
    PROVE  /\ tx'[c] = [legs |-> legs, row |-> row]
           /\ \A d \in Calls : d # c => tx'[d] = tx[d]
BY DEF HookOK, SetTx

\* A call that stays outside RunInTx, or leaves it, keeps TxInv.
LEMMA OutsideKeepsTxInv ==
    ASSUME HookOK, TxInv, NEW c \in Calls, NEW s, Goto(c, s),
           s \notin {"enqueue", "commit"}, UNCHANGED tx \/ ClearTx(c)
    PROVE  TxInv'
<1>1. hook'[c] = s /\ \A d \in Calls : d # c => hook'[d] = hook[d]
  BY GotoEffect
<1>2. \A d \in Calls : d # c => tx'[d] = tx[d]
  BY SetTxEffect DEF ClearTx
<1> QED
  BY <1>1, <1>2 DEF TxInv, CreditLegs, CustomerLeg, Leg

LEMMA TxStep == TypeOK /\ TxInv /\ [Next]_vars => TxInv'
<1> SUFFICES ASSUME TypeOK, TxInv, [Next]_vars PROVE TxInv'
  OBVIOUS
<1> USE DEF TypeOK, handler
<1>1. ASSUME UNCHANGED handler PROVE TxInv'
  BY <1>1 DEF TxInv, CreditLegs, CustomerLeg, Leg
<1>2. ASSUME NEW c \in Calls,
             Deliver(c) \/ Reject(c) \/ MarkProcessed(c) \/ ResolveAccount(c)
      PROVE  TxInv'
  <2>1. /\ UNCHANGED tx
        /\ \E s : s \notin {"enqueue", "commit"} /\ Goto(c, s)
    BY <1>2 DEF Deliver, Reject, MarkProcessed, ResolveAccount, Route
  <2> QED
    BY <2>1, OutsideKeepsTxInv
<1>3. ASSUME NEW c \in Calls, PostSuspense(c) PROVE TxInv'
  <2>1. UNCHANGED tx /\ Goto(c, "ok")
    BY <1>3 DEF PostSuspense, InsertEntries
  <2> QED
    BY <2>1, OutsideKeepsTxInv
<1>4. ASSUME NEW c \in Calls, Rollback(c) PROVE TxInv'
  BY <1>4, OutsideKeepsTxInv DEF Rollback
<1>5. ASSUME NEW c \in Calls, PostCredit(c) PROVE TxInv'
  <2>1. ASSUME InsertEntries(c, CreditLegs(c), TRUE), Goto(c, "enqueue")
        PROVE  TxInv'
    <3>1. tx[c].legs \cup CreditLegs(c) = CreditLegs(c) /\ tx[c].row = FALSE
      BY <1>5 DEF PostCredit, HookOK, EmptyTx
    <3>2. SetTx(c, CreditLegs(c), FALSE)
      BY <2>1, <3>1 DEF InsertEntries
    <3>3. hook'[c] = "enqueue" /\ \A d \in Calls : d # c => hook'[d] = hook[d]
      BY <2>1, GotoEffect
    <3>4. /\ tx'[c] = [legs |-> CreditLegs(c), row |-> FALSE]
          /\ \A d \in Calls : d # c => tx'[d] = tx[d]
      BY <3>2, SetTxEffect
    <3> QED
      BY <3>3, <3>4 DEF TxInv, CreditLegs, CustomerLeg, Leg
  <2> QED
    BY <1>4, <1>5, <2>1 DEF PostCredit
<1>6. ASSUME NEW c \in Calls, CreateDelivery(c) PROVE TxInv'
  <2>1. ASSUME SetTx(c, tx[c].legs, TRUE), Goto(c, "commit") PROVE TxInv'
    <3>1. tx[c].legs = CreditLegs(c)
      <4>1. hook[c] = "enqueue"
        BY <1>6, Zenon DEF CreateDelivery
      <4>2. tx[c] = [legs |-> CreditLegs(c), row |-> FALSE]
        BY <4>1 DEF TxInv
      <4> QED
        BY <4>2
    <3>2. SetTx(c, CreditLegs(c), TRUE)
      BY <2>1, <3>1
    <3>3. hook'[c] = "commit" /\ \A d \in Calls : d # c => hook'[d] = hook[d]
      BY <2>1, GotoEffect
    <3>4. /\ tx'[c] = [legs |-> CreditLegs(c), row |-> TRUE]
          /\ \A d \in Calls : d # c => tx'[d] = tx[d]
      BY <3>2, SetTxEffect
    <3> QED
      BY <3>3, <3>4 DEF TxInv, CreditLegs, CustomerLeg, Leg
  <2> QED
    BY <1>4, <1>6, <2>1 DEF CreateDelivery
<1>7. ASSUME NEW c \in Calls, Commit(c) PROVE TxInv'
  <2>1. ClearTx(c) /\ (Goto(c, "ok") \/ Goto(c, "error"))
    BY <1>7, Zenon DEF Commit
  <2> QED
    BY <2>1, OutsideKeepsTxInv
<1>8. CASE Crash
  <2>1. \A c \in Calls : hook'[c] \notin {"enqueue", "commit"}
    BY <1>8 DEF Crash, InFlight, Answered, HookOK, HookStates
  <2> QED
    BY <2>1 DEF TxInv
<1>9. CASE \E c \in Calls : Deliver(c) \/ HookStep(c)
  BY <1>9, <1>2, <1>3, <1>5, <1>6, <1>7 DEF HookStep
<1>10. CASE \/ \E t \in Txns : Pay(t)
            \/ \E a \in Accounts : Provision(a) \/ Close(a)
            \/ Tick \/ SweepStep \/ Restart \/ UNCHANGED vars
  <2>1. UNCHANGED handler
    BY <1>10 DEF Pay, Provision, Close, Tick, Restart, vars, SweepStep, StartSweep,
       CheckProcessed, LookUpDest, InsertBackfill, MarkBackfilled, EndSweep
  <2> QED
    BY <2>1, <1>1
<1> QED
  BY <1>8, <1>9, <1>10 DEF Next

\* A step that posts nothing and gives no call anything to hold keeps HookInv.
LEMMA QuietKeepsHookInv ==
    ASSUME HookInv, UNCHANGED <<ledger, outbox>>, processed \subseteq processed',
           \A c \in Calls : Holds(c)' => Holds(c)
    PROVE  HookInv'
BY DEF HookInv, HookBooksOnce, CreditQueued, CreditedBy, CustomerLeg, Leg

\* So does the step in which a call claims an event that nobody has claimed.
LEMMA ClaimKeepsHookInv ==
    ASSUME TypeOK, HookInv, NEW c \in Calls, TxnOf[c] \notin processed,
           processed' = processed \cup {TxnOf[c]}, UNCHANGED <<ledger, outbox>>,
           Holds(c)' => TxnOf[c] \in Credits,
           \A d \in Calls : d # c => (Holds(d)' <=> Holds(d))
    PROVE  HookInv'
<1>1. \A d \in Calls : d # c /\ Holds(d)' => TxnOf[d] # TxnOf[c]
  BY DEF HookInv
<1>2. \A e \in ledger : TxnOf[e.group] # TxnOf[c]
  BY DEF HookInv
<1>3. CreditQueued'
  BY DEF HookInv, CreditQueued, CreditedBy, CustomerLeg, Leg
<1>4. HookBooksOnce'
  BY DEF HookInv, HookBooksOnce
<1> QED
  BY <1>1, <1>2, <1>3, <1>4 DEF HookInv

\* And the step in which a call posts for the event it holds and lets it go.
LEMMA PostKeepsHookInv ==
    ASSUME TypeOK, HookInv, NEW c \in Calls, Holds(c), ~Holds(c)',
           NEW L, \A e \in L : e.group = c, ledger' = ledger \cup L,
           UNCHANGED processed, CreditQueued',
           \A d \in Calls : d # c => (Holds(d)' <=> Holds(d))
    PROVE  HookInv'
<1>1. \A d \in Calls : Holds(d)' => Holds(d) /\ TxnOf[d] # TxnOf[c]
  BY DEF HookInv
<1>2. \A e \in ledger : TxnOf[e.group] # TxnOf[c]
  BY DEF HookInv
<1>3. HookBooksOnce'
  BY <1>2 DEF HookInv, HookBooksOnce
<1> QED
  BY <1>1, <1>2, <1>3 DEF HookInv

LEMMA HookStepInv == TypeOK /\ TxInv /\ HookInv /\ [Next]_vars => HookInv'
<1> SUFFICES ASSUME TypeOK, TxInv, HookInv, [Next]_vars PROVE HookInv'
  OBVIOUS
<1> USE DEF TypeOK, db, handler
<1>1. ASSUME UNCHANGED <<ledger, outbox, hook>>, processed \subseteq processed'
      PROVE  HookInv'
  BY <1>1, QuietKeepsHookInv DEF Holds
<1>2. ASSUME NEW c \in Calls, NEW s, Goto(c, s), s \in Answered \cup {"received"},
             UNCHANGED <<ledger, outbox, processed>>
      PROVE  HookInv'
  <2>1. \A d \in Calls : Holds(d)' => Holds(d)
    BY <1>2, GotoEffect DEF Holds, InFlight
  <2> QED
    BY <1>2, <2>1, QuietKeepsHookInv
<1>3. ASSUME NEW c \in Calls, Holds(c), NEW s, Goto(c, s),
             UNCHANGED <<ledger, outbox, processed>>
      PROVE  HookInv'
  <2>1. \A d \in Calls : Holds(d)' => Holds(d)
    BY <1>3, GotoEffect DEF Holds
  <2> QED
    BY <1>3, <2>1, QuietKeepsHookInv
<1>4. ASSUME NEW c \in Calls, Deliver(c) \/ Reject(c) PROVE HookInv'
  BY <1>2, <1>4 DEF Deliver, Reject, Answered
<1>5. ASSUME NEW c \in Calls, MarkProcessed(c) PROVE HookInv'
  <2>1. CASE UNCHANGED processed
    <3>1. \E s : s \in Answered \cup {"received"} /\ Goto(c, s)
      BY <1>5, <2>1 DEF MarkProcessed, Answered
    <3> QED
      BY <1>2, <1>5, <2>1, <3>1 DEF MarkProcessed
  <2>2. CASE TxnOf[c] \notin processed /\ processed' = processed \cup {TxnOf[c]}
    <3>1. Goto(c, Route(c)) \/ Goto(c, "error")
      BY <1>5, <2>2 DEF MarkProcessed
    <3>2. Holds(c)' => TxnOf[c] \in Credits
      BY <3>1, GotoEffect DEF Holds, Route, InFlight, Answered
    <3>3. \A d \in Calls : d # c => (Holds(d)' <=> Holds(d))
      BY <3>1, GotoEffect DEF Holds
    <3> QED
      BY <1>5, <2>2, <3>2, <3>3, ClaimKeepsHookInv DEF MarkProcessed
  <2> QED
    BY <1>5, <2>1, <2>2 DEF MarkProcessed
<1>6. ASSUME NEW c \in Calls, ResolveAccount(c) PROVE HookInv'
  <2>1. Holds(c)
    BY <1>6 DEF ResolveAccount, Holds, InFlight, Answered, HookStates
  <2> QED
    BY <1>3, <1>6, <2>1 DEF ResolveAccount
<1>7. ASSUME NEW c \in Calls, PostSuspense(c) PROVE HookInv'
  <2>1. Holds(c) /\ ~Holds(c)' /\ \A d \in Calls : d # c => (Holds(d)' <=> Holds(d))
    BY <1>7, GotoEffect DEF PostSuspense, Holds, InFlight, Answered, HookStates
  <2> DEFINE l == Leg(c, hook[c], "credit")
  <2>2. CASE ledger' = ledger \cup {l}
    <3>1. l.group = c /\ \A d \in Calls : l # CustomerLeg(d)
      BY <1>7, IngestAssumption DEF PostSuspense, Leg, CustomerLeg, SystemAccounts
    <3>2. CreditQueued'
      BY <1>7, <2>2, <3>1 DEF PostSuspense, HookInv, CreditQueued, CreditedBy,
         CustomerLeg, Leg
    <3> QED
      BY <1>7, <2>1, <2>2, <3>1, <3>2, PostKeepsHookInv DEF PostSuspense
  <2>3. CASE UNCHANGED ledger
    BY <1>3, <1>7, <2>1, <2>3 DEF PostSuspense
  <2> QED
    BY <1>7, <2>2, <2>3 DEF PostSuspense, InsertEntries
<1>8. ASSUME NEW c \in Calls, PostCredit(c) \/ CreateDelivery(c) PROVE HookInv'
  <2>1. Holds(c)
    BY <1>8 DEF PostCredit, CreateDelivery, Holds, InFlight, Answered, HookStates
  <2>2. /\ UNCHANGED <<ledger, outbox, processed>>
        /\ \E s : Goto(c, s)
    BY <1>8 DEF PostCredit, CreateDelivery, InsertEntries, Rollback
  <2> QED
    BY <1>3, <2>1, <2>2
<1>9. ASSUME NEW c \in Calls, Commit(c) PROVE HookInv'
  <2>1. hook[c] = "commit" /\ (Goto(c, "ok") \/ Goto(c, "error"))
    BY <1>9, Zenon DEF Commit
  <2>2. Holds(c) /\ ~Holds(c)' /\ \A d \in Calls : d # c => (Holds(d)' <=> Holds(d))
    BY <2>1, GotoEffect DEF Holds, InFlight, Answered, HookStates
  <2>3. CASE UNCHANGED <<ledger, outbox>>
    BY <1>3, <1>9, <2>1, <2>2, <2>3 DEF Commit
  <2>4. CASE Apply(c)
    <3>1. tx[c] = [legs |-> CreditLegs(c), row |-> TRUE]
      BY <2>1 DEF TxInv
    <3>2. ledger' = ledger \cup CreditLegs(c) /\ outbox' = outbox \cup {c}
      BY <2>4, <3>1 DEF Apply
    <3>3. \A e \in CreditLegs(c) : e.group = c
      BY DEF CreditLegs, CustomerLeg, Leg
    <3>4. \A d \in Calls : CustomerLeg(d) \in CreditLegs(c) <=> d = c
      BY IngestAssumption DEF CreditLegs, CustomerLeg, Leg, SystemAccounts
    <3>5. Leg(c, "pool", "debit") \in CreditLegs(c)
      BY DEF CreditLegs
    <3>6. CreditQueued'
      BY <3>2, <3>4, <3>5 DEF HookInv, CreditQueued, CreditedBy, CustomerLeg, Leg
    <3> QED
      BY <1>9, <2>2, <3>2, <3>3, <3>6, PostKeepsHookInv DEF Commit
  <2> QED
    BY <1>9, <2>3, <2>4 DEF Commit
<1>10. CASE Crash
  <2>1. \A d \in Calls : Holds(d)' => Holds(d)
    BY <1>10 DEF Crash, Holds, InFlight, Answered, HookStates, HookOK
  <2> QED
    BY <1>10, <2>1, QuietKeepsHookInv DEF Crash
<1>11. CASE \E c \in Calls : Deliver(c) \/ HookStep(c)
  BY <1>11, <1>4, <1>5, <1>6, <1>7, <1>8, <1>9 DEF HookStep
<1>12. CASE \/ \E t \in Txns : Pay(t)
            \/ \E a \in Accounts : Provision(a) \/ Close(a)
            \/ Tick \/ SweepStep \/ Restart \/ UNCHANGED vars
  <2>1. UNCHANGED <<ledger, outbox, hook>> /\ processed \subseteq processed'
    BY <1>12 DEF Pay, Provision, Close, Tick, Restart, vars, SweepStep, StartSweep,
       CheckProcessed, LookUpDest, InsertBackfill, MarkBackfilled, EndSweep
  <2> QED
    BY <2>1, <1>1
<1> QED
  BY <1>10, <1>11, <1>12 DEF Next

LEMMA HookInvHolds == Spec => [](TxInv /\ HookInv)
<1>1. Init => TxInv /\ HookInv
  BY DEF Init, TxInv, HookInv, Holds, InFlight, Answered, HookBooksOnce, CreditQueued,
     CreditedBy
<1>2. TypeOK /\ TxInv /\ HookInv /\ [Next]_vars => TxInv' /\ HookInv'
  BY TxStep, HookStepInv
<1> QED
  BY <1>1, <1>2, TypeCorrect, PTL DEF Spec

\* Whatever overlaps, repeats or fails, at most one call posts for an event.
THEOREM BooksOnce == Spec => []HookBooksOnce
<1>1. HookInv => HookBooksOnce
  BY DEF HookInv
<1> QED
  BY <1>1, HookInvHolds, PTL

\* A webhook credit is in the ledger exactly when its delivery row exists, and
\* then with its pool leg, across every crash and failed commit.
THEOREM CreditsAreQueued == Spec => []CreditQueued
<1>1. HookInv => CreditQueued
  BY DEF HookInv
<1> QED
  BY <1>1, HookInvHolds, PTL

\* The only writes to the ledger: a suspense leg, and the legs of a credit.
LEMMA LedgerWrites ==
    ASSUME TypeOK, TxInv, [Next]_vars
    PROVE  \/ UNCHANGED ledger
           \/ \E c \in Calls : /\ PostSuspense(c)
                               /\ ledger' = ledger \cup {Leg(c, hook[c], "credit")}
           \/ \E c \in Calls : /\ Commit(c) /\ hook[c] = "commit"
                               /\ ledger' = ledger \cup CreditLegs(c)
<1> USE DEF db, handler
<1>1. ASSUME NEW c \in Calls, Commit(c)
      PROVE  UNCHANGED ledger \/ (hook[c] = "commit" /\ ledger' = ledger \cup CreditLegs(c))
  <2>1. hook[c] = "commit" /\ (UNCHANGED ledger \/ Apply(c))
    BY <1>1, Zenon DEF Commit
  <2>2. tx[c].legs = CreditLegs(c)
    <3>1. tx[c] = [legs |-> CreditLegs(c), row |-> TRUE]
      BY <2>1 DEF TxInv
    <3> QED
      BY <3>1
  <2> QED
    BY <2>1, <2>2 DEF Apply
<1>2. ASSUME NEW c \in Calls, PostSuspense(c)
      PROVE  UNCHANGED ledger \/ ledger' = ledger \cup {Leg(c, hook[c], "credit")}
  BY <1>2 DEF PostSuspense, InsertEntries
<1>3. ASSUME NEW c \in Calls, Deliver(c) \/ Reject(c) \/ MarkProcessed(c) \/ ResolveAccount(c)
                               \/ PostCredit(c) \/ CreateDelivery(c)
      PROVE  UNCHANGED ledger
  BY <1>3 DEF Deliver, Reject, MarkProcessed, ResolveAccount, PostCredit, CreateDelivery,
     InsertEntries, Rollback
<1>4. CASE \/ \E t \in Txns : Pay(t)
           \/ \E a \in Accounts : Provision(a) \/ Close(a)
           \/ Tick \/ SweepStep \/ Crash \/ Restart \/ UNCHANGED vars
  BY <1>4 DEF Pay, Provision, Close, Tick, Crash, Restart, vars, SweepStep, StartSweep,
     CheckProcessed, LookUpDest, InsertBackfill, MarkBackfilled, EndSweep
<1>5. CASE \E c \in Calls : Deliver(c) \/ HookStep(c)
  <2>1. PICK c \in Calls : Deliver(c) \/ HookStep(c)
    BY <1>5
  <2>2. CASE PostSuspense(c)
    BY <1>2, <2>2
  <2>3. CASE Commit(c)
    BY <1>1, <2>3
  <2> QED
    BY <1>3, <2>1, <2>2, <2>3 DEF HookStep
<1> QED
  BY <1>4, <1>5 DEF Next

\* A call comes to hold its event by claiming it, in no other way.
LEMMA HeldStep ==
    ASSUME TypeOK, [Next]_vars, NEW c \in Calls, Holds(c)'
    PROVE  Holds(c) \/ (MarkProcessed(c) /\ Race(c) /\ TxnOf[c] \notin processed)
<1> USE DEF TypeOK, handler
<1>1. ASSUME NEW d \in Calls, d # c, Deliver(d) \/ HookStep(d) PROVE Holds(c)
  <2>1. \E s : Goto(d, s)
    BY <1>1 DEF Deliver, HookStep, Reject, MarkProcessed, ResolveAccount, PostSuspense,
       PostCredit, CreateDelivery, Commit, Rollback
  <2> QED
    BY <1>1, <2>1, GotoEffect DEF Holds
<1>2. ~(Deliver(c) \/ Reject(c))
  BY GotoEffect DEF Deliver, Reject, Holds, InFlight, Answered
<1>3. MarkProcessed(c) => Race(c) /\ TxnOf[c] \notin processed
  BY GotoEffect DEF MarkProcessed, Holds, InFlight, Answered
<1>4. ResolveAccount(c) \/ PostSuspense(c) \/ PostCredit(c) \/ CreateDelivery(c) \/ Commit(c)
      => Holds(c)
  BY DEF ResolveAccount, PostSuspense, PostCredit, CreateDelivery, Commit, Holds,
     InFlight, Answered, HookOK
<1>5. CASE \E d \in Calls : Deliver(d) \/ HookStep(d)
  BY <1>1, <1>2, <1>3, <1>4, <1>5 DEF HookStep
<1>6. CASE Crash
  BY <1>6 DEF Crash, Holds, InFlight, Answered, HookOK
<1>7. CASE \/ \E t \in Txns : Pay(t)
           \/ \E a \in Accounts : Provision(a) \/ Close(a)
           \/ Tick \/ SweepStep \/ Restart \/ UNCHANGED vars
  BY <1>7 DEF Pay, Provision, Close, Tick, Restart, vars, SweepStep, StartSweep,
     CheckProcessed, LookUpDest, InsertBackfill, MarkBackfilled, EndSweep, Holds
<1> QED
  BY <1>5, <1>6, <1>7 DEF Next

\* What a call has posted or holds was posted or held before, or is claimed now.
LEMMA TakenStep ==
    ASSUME TypeOK, TxInv, [Next]_vars, NEW t, CallBooked(t)' \/ Handled(t)'
    PROVE  \/ CallBooked(t) \/ Handled(t)
           \/ \E c \in Calls : /\ MarkProcessed(c) /\ Race(c)
                               /\ TxnOf[c] = t /\ t \notin processed
<1>1. \A e \in ledger' : e \in ledger \/ (e.group \in Calls /\ Holds(e.group))
  <2>1. \A c \in Calls : hook[c] \in {"suspense", "global_suspense", "commit"} => Holds(c)
    BY DEF Holds, InFlight, Answered, HookStates
  <2>2. \A c \in Calls : /\ \A a, d : Leg(c, a, d).group = c
                         /\ \A e \in CreditLegs(c) : e.group = c
    BY DEF CreditLegs, CustomerLeg, Leg
  <2>3. CASE UNCHANGED ledger
    BY <2>3
  <2>4. ASSUME NEW c \in Calls, PostSuspense(c),
               ledger' = ledger \cup {Leg(c, hook[c], "credit")}
        PROVE  \A e \in ledger' : e \in ledger \/ (e.group \in Calls /\ Holds(e.group))
    BY <2>1, <2>2, <2>4 DEF PostSuspense
  <2>5. ASSUME NEW c \in Calls, hook[c] = "commit", ledger' = ledger \cup CreditLegs(c)
        PROVE  \A e \in ledger' : e \in ledger \/ (e.group \in Calls /\ Holds(e.group))
    BY <2>1, <2>2, <2>5
  <2> QED
    BY <2>3, <2>4, <2>5, LedgerWrites
<1>2. ASSUME CallBooked(t)' PROVE CallBooked(t) \/ Handled(t)
  <2>1. PICK c \in Calls : /\ TxnOf[c] = t
                           /\ \E e \in ledger' : /\ e.group = c
                                                 /\ \/ e = CustomerLeg(c)
                                                    \/ \E a \in {"suspense", "global_suspense"} :
                                                          e = Leg(c, a, "credit")
    BY <1>2 DEF CallBooked, CreditedBy, SuspendedBy, CustomerLeg, Leg
  <2> QED
    BY <1>1, <2>1 DEF CallBooked, CreditedBy, SuspendedBy, Handled, Holds
<1>3. ASSUME Handled(t)'
      PROVE  \/ Handled(t)
             \/ \E c \in Calls : /\ MarkProcessed(c) /\ Race(c)
                               /\ TxnOf[c] = t /\ t \notin processed
  <2>1. PICK c \in Calls : TxnOf[c] = t /\ Holds(c)'
    BY <1>3 DEF Handled, Holds
  <2> QED
    BY <2>1, HeldStep DEF Handled, Holds
<1> QED
  BY <1>2, <1>3

-----------------------------------------------------------------------------
(* The sweep: each repeated booking has a cause of its own.                *)

LEMMA FaultsGrow ==
    ASSUME TypeOK, [Next]_vars
    PROVE  faults' \in Nat /\ faults <= faults'
<1>1. faults' = faults \/ faults' = faults + 1
  BY DEF Next, vars, Fault, Strike, Pay, Provision, Close, Deliver, HookStep, Reject,
     MarkProcessed, ResolveAccount, PostSuspense, PostCredit, CreateDelivery, Commit,
     Tick, SweepStep, StartSweep, CheckProcessed, LookUpDest, InsertBackfill,
     MarkBackfilled, EndSweep, Crash, Restart, sweeper
<1> QED
  BY <1>1, IngestAssumption DEF TypeOK

\* The sweep posts what it is at, and turns only to what nobody has marked.
LEMMA SweepMoves ==
    ASSUME TypeOK, [Next]_vars, NEW t \in Txns, t \in processed, cur # t
    PROVE  backfilled'[t] = backfilled[t] /\ cur' # t
<1> USE DEF db, sweeper, TypeOK
<1>1. t # None
  BY IngestAssumption
<1>2. CASE \/ \E u \in Txns : Pay(u)
           \/ \E a \in Accounts : Provision(a) \/ Close(a)
           \/ \E c \in Calls : Deliver(c) \/ HookStep(c)
           \/ Tick \/ Restart \/ StartSweep \/ EndSweep \/ UNCHANGED vars
  <2>1. UNCHANGED <<backfilled, cur>>
    BY <1>2 DEF Pay, Provision, Close, Deliver, HookStep, Reject, MarkProcessed,
       ResolveAccount, PostSuspense, PostCredit, CreateDelivery, Commit, Tick, Restart,
       StartSweep, EndSweep, vars
  <2> QED
    BY <2>1
<1>3. CASE Crash
  BY <1>1, <1>3 DEF Crash
<1>4. CASE \E u \in Txns : CheckProcessed(u)
  BY <1>4 DEF CheckProcessed
<1>5. CASE LookUpDest \/ MarkBackfilled
  BY <1>1, <1>5 DEF LookUpDest, MarkBackfilled, SkipTxn
<1>6. CASE InsertBackfill
  <2>1. backfilled' = backfilled \/ backfilled' = [backfilled EXCEPT ![cur] = @ + 1]
    BY <1>6 DEF InsertBackfill
  <2>2. backfilled'[t] = backfilled[t]
    BY <2>1 DEF DbOK
  <2> QED
    BY <1>1, <1>6, <2>2 DEF InsertBackfill, SkipTxn
<1> QED
  BY <1>2, <1>3, <1>4, <1>5, <1>6 DEF Next, SweepStep

\* While the sweep is about to post t, or may come back to it because it is
\* not marked, the posts made so far have been paid for by faults.
SweepInv ==
    \A t \in Txns :
        /\ backfilled[t] <= 1 + faults
        /\ t \notin processed /\ ~(sweep = "mark" /\ cur = t) => backfilled[t] <= faults
        /\ sweep \in {"lookup", "insert"} /\ cur = t => backfilled[t] <= faults
        /\ sweep = "mark" /\ cur = t => backfilled[t] > 0

LEMMA SweepInvHolds == Spec => []SweepInv
<1>1. Init => SweepInv
  BY DEF Init, SweepInv
<1>2. TypeOK /\ SweepInv /\ [Next]_vars => SweepInv'
  <2> SUFFICES ASSUME TypeOK, SweepInv, [Next]_vars PROVE SweepInv'
    OBVIOUS
  <2> USE DEF db, sweeper, DbOK, SweepOK
  <2>1. backfilled \in [Txns -> Nat] /\ faults \in Nat /\ None \notin Txns
    BY IngestAssumption DEF TypeOK
  <2>2. ASSUME UNCHANGED <<backfilled, sweep, cur>>, processed \subseteq processed',
               faults' \in Nat, faults <= faults'
        PROVE  SweepInv'
    BY <2>1, <2>2 DEF SweepInv
  <2>3. faults' \in Nat /\ faults <= faults'
    BY FaultsGrow
  <2>4. CASE \/ \E t \in Txns : Pay(t)
             \/ \E a \in Accounts : Provision(a) \/ Close(a)
             \/ \E c \in Calls : Deliver(c) \/ HookStep(c)
             \/ Tick \/ Restart \/ UNCHANGED vars
    <3>1. UNCHANGED <<backfilled, sweep, cur>> /\ processed \subseteq processed'
      BY <2>4 DEF Pay, Provision, Close, Deliver, HookStep, Reject, MarkProcessed,
         ResolveAccount, PostSuspense, PostCredit, CreateDelivery, Commit, Tick,
         Restart, vars
    <3> QED
      BY <2>2, <2>3, <3>1
  <2>5. CASE StartSweep
    BY <2>1, <2>3, <2>5 DEF StartSweep, SweepInv, TypeOK
  <2>6. ASSUME NEW t \in Txns, CheckProcessed(t) PROVE SweepInv'
    BY <2>1, <2>3, <2>6 DEF CheckProcessed, SweepInv, TypeOK
  <2>7. CASE LookUpDest
    BY <2>1, <2>3, <2>7 DEF LookUpDest, SkipTxn, SweepInv, TypeOK
  <2>8. CASE InsertBackfill
    <3>1. CASE UNCHANGED backfilled
      BY <2>1, <2>3, <2>8, <3>1 DEF InsertBackfill, SkipTxn, SweepInv, TypeOK
    <3>2. CASE backfilled' = [backfilled EXCEPT ![cur] = @ + 1]
      <4>1. cur \in Txns /\ backfilled[cur] <= faults
        BY <2>8 DEF InsertBackfill, SweepInv, TypeOK
      <4>2. /\ backfilled'[cur] = backfilled[cur] + 1
            /\ \A t \in Txns : t # cur => backfilled'[t] = backfilled[t]
        BY <2>1, <3>2, <4>1
      <4>3. \/ sweep' = "mark" /\ cur' = cur
            \/ sweep' = "check" /\ cur' = None /\ faults' = faults + 1
        BY <2>8, <3>2, <4>1, <4>2, <2>1 DEF InsertBackfill, SkipTxn, Fault
      <4>4. sweep = "insert" /\ processed' = processed
        BY <2>8 DEF InsertBackfill
      <4> QED
        BY <2>1, <2>3, <4>1, <4>2, <4>3, <4>4 DEF SweepInv
    <3> QED
      BY <2>8, <3>1, <3>2 DEF InsertBackfill
  <2>9. CASE MarkBackfilled
    <3>1. UNCHANGED backfilled /\ sweep = "mark" /\ sweep' = "check" /\ cur' = None
      BY <2>9 DEF MarkBackfilled, SkipTxn
    <3>2. \/ processed' = processed \cup {cur}
          \/ processed' = processed /\ faults' = faults + 1
      BY <2>9 DEF MarkBackfilled, Fault
    <3> QED
      BY <2>1, <2>3, <3>1, <3>2 DEF SweepInv
  <2>10. CASE EndSweep
    BY <2>1, <2>3, <2>10 DEF EndSweep, SweepInv, TypeOK
  <2>11. CASE Crash
    <3>1. /\ UNCHANGED <<backfilled, processed>>
          /\ sweep' = "idle" /\ cur' = None /\ faults' = faults + 1
      BY <2>11 DEF Crash, Fault
    <3> QED
      BY <2>1, <3>1 DEF SweepInv
  <2> QED
    BY <2>4, <2>5, <2>6, <2>7, <2>8, <2>9, <2>10, <2>11 DEF Next, SweepStep
<1> QED
  BY <1>1, <1>2, TypeCorrect, PTL DEF Spec

\* A payment that a call has posted or holds is not with the sweep, and its
\* backfills have been paid for by faults - unless the claim raced the sweep.
RaceInv ==
    \A t \in Txns \ raced :
        CallBooked(t) \/ Handled(t) => backfilled[t] <= faults /\ cur # t

LEMMA TakenIsProcessed ==
    ASSUME HookInv, NEW t, CallBooked(t) \/ Handled(t)
    PROVE  t \in processed
BY DEF HookInv, CallBooked, Handled, Holds, CreditedBy, SuspendedBy, CustomerLeg, Leg

LEMMA RaceInvHolds == Spec => []RaceInv
<1>1. Init => RaceInv
  BY DEF Init, RaceInv, CallBooked, CreditedBy, SuspendedBy, Handled, InFlight, Answered
<1>2. TypeOK /\ TxInv /\ HookInv /\ SweepInv /\ RaceInv /\ [Next]_vars => RaceInv'
  <2> SUFFICES ASSUME TypeOK, TxInv, HookInv, SweepInv, RaceInv, [Next]_vars,
                      NEW t \in Txns \ raced', CallBooked(t)' \/ Handled(t)'
               PROVE  backfilled'[t] <= faults' /\ cur' # t
    BY DEF RaceInv
  <2>1. /\ backfilled \in [Txns -> Nat] /\ faults \in Nat
        /\ t \in Txns \ raced /\ None \notin Txns
    BY HistoryStep, IngestAssumption DEF TypeOK, DbOK
  <2>2. faults' \in Nat /\ faults <= faults'
    BY <2>1, FaultsGrow
  <2>3. CASE CallBooked(t) \/ Handled(t)
    <3>1. backfilled[t] <= faults /\ cur # t /\ t \in processed
      BY <2>1, <2>3, TakenIsProcessed DEF RaceInv
    <3>2. backfilled'[t] = backfilled[t] /\ cur' # t
      BY <2>1, <3>1, SweepMoves
    <3> QED
      BY <2>1, <2>2, <3>1, <3>2
  <2>4. ASSUME NEW c \in Calls, MarkProcessed(c), Race(c), TxnOf[c] = t, t \notin processed
        PROVE  backfilled'[t] <= faults' /\ cur' # t
    <3>1. UNCHANGED <<backfilled, cur>>
      BY <2>4 DEF MarkProcessed, sweeper
    <3>2. cur # t
      BY <2>1, <2>4 DEF Race
    <3>3. backfilled[t] <= faults
      BY <2>1, <2>4, <3>2 DEF SweepInv
    <3> QED
      BY <2>1, <2>2, <3>1, <3>2, <3>3
  <2> QED
    BY <2>3, <2>4, TakenStep
<1> QED
  BY <1>1, <1>2, TypeCorrect, HookInvHolds, SweepInvHolds, PTL DEF Spec

\* A payment is booked once, by a call or by the sweep; each further booking has
\* a fault of its own or is the one that a call claimed under the sweep's hands.
THEOREM BookingsAreBounded == Spec => []BookingsBounded
<1>1. TypeOK /\ SweepInv /\ RaceInv => BookingsBounded
  <2> SUFFICES ASSUME TypeOK, SweepInv, RaceInv, NEW t \in Txns
               PROVE  backfilled[t] + Count(CallBooked(t)) <= 1 + faults + Count(t \in raced)
    BY DEF BookingsBounded
  <2>1. backfilled[t] \in Nat /\ faults \in Nat /\ backfilled[t] <= 1 + faults
    BY IngestAssumption DEF TypeOK, DbOK, SweepInv
  <2>2. CallBooked(t) /\ t \notin raced => backfilled[t] <= faults
    BY DEF RaceInv
  <2>3. Count(CallBooked(t)) = IF CallBooked(t) THEN 1 ELSE 0
    BY DEF Count
  <2>4. Count(t \in raced) = IF t \in raced THEN 1 ELSE 0
    BY DEF Count
  <2>5. CASE ~CallBooked(t)
    BY <2>1, <2>3, <2>4, <2>5
  <2>6. CASE CallBooked(t)
    <3>1. Count(CallBooked(t)) = 1
      BY <2>3, <2>6
    <3>2. CASE t \in raced
      BY <2>1, <2>4, <3>1, <3>2
    <3>3. CASE t \notin raced
      <4>1. Count(t \in raced) = 0
        BY <2>4, <3>3
      <4>2. QED
        <5>1. backfilled[t] + 1 <= 1 + faults + 0
          BY <2>1, <2>2, <2>6, <3>3
        <5> QED
          BY <3>1, <4>1, <5>1
    <3> QED
      BY <3>2, <3>3
  <2> QED
    BY <2>5, <2>6
<1> QED
  BY <1>1, TypeCorrect, SweepInvHolds, RaceInvHolds, PTL

-----------------------------------------------------------------------------
(* Payments are lost by strikes only.                                      *)

LEMMA BookedIsStable ==
    ASSUME TypeOK, ledger \subseteq ledger',
           \A t \in Txns : backfilled'[t] >= backfilled[t],
           backfilled' \in [Txns -> Nat], NEW t \in Txns, Booked(t)
    PROVE  Booked(t)'
BY DEF TypeOK, DbOK, Booked, CallBooked, CreditedBy, SuspendedBy, CustomerLeg, Leg

LEMMA LossStep == TypeOK /\ TypeOK' /\ TxInv /\ SweepInv /\ LossNeedsStrike /\ [Next]_vars
                  => LossNeedsStrike'
<1> SUFFICES ASSUME TypeOK, TypeOK', TxInv, SweepInv, LossNeedsStrike, [Next]_vars,
                    NEW t \in Credits, t \in processed', t \notin struck'
             PROVE  Booked(t)' \/ Handled(t)'
  BY DEF LossNeedsStrike
<1> USE DEF db, handler, sweeper
<1>1. /\ t \in Txns /\ t \notin struck
      /\ \A c \in Calls : \A k : TxnOf[c] = t => ~Strike(c, k)
  BY IngestAssumption, HistoryStep DEF Strike
<1>a. t \in processed => Booked(t) \/ Handled(t)
  BY <1>1 DEF LossNeedsStrike
<1>2. ASSUME NEW c \in Calls, Holds(c), TxnOf[c] = t PROVE Handled(t)
  BY <1>2 DEF Holds, Handled
<1>3. ASSUME ledger \subseteq ledger', UNCHANGED <<backfilled, processed>>,
             \A c \in Calls : TxnOf[c] = t /\ Holds(c) => Holds(c)'
      PROVE  Booked(t)' \/ Handled(t)'
  <2>1. Booked(t) \/ Handled(t)
    BY <1>3, <1>a
  <2>2. Booked(t) => Booked(t)'
    BY <1>1, <1>3, BookedIsStable DEF TypeOK, DbOK
  <2> QED
    BY <1>3, <2>1, <2>2 DEF Handled, Holds
<1>4. ASSUME NEW c \in Calls, Deliver(c) \/ Reject(c) \/ ResolveAccount(c)
                               \/ PostCredit(c) \/ CreateDelivery(c)
      PROVE  Booked(t)' \/ Handled(t)'
  <2>1. TxnOf[c] = t /\ Holds(c) => Holds(c)'
    <3>1. \/ ~Holds(c) \/ TxnOf[c] # t
          \/ \E s \in {"suspense", "global_suspense", "post", "enqueue", "commit"} : Goto(c, s)
      BY <1>1, <1>4 DEF Deliver, Reject, ResolveAccount, PostCredit, CreateDelivery,
         Holds, InFlight, Answered
    <3> QED
      BY <3>1, GotoEffect DEF Holds, InFlight, Answered, HookStates, TypeOK
  <2>2. \A d \in Calls : d # c => (Holds(d)' <=> Holds(d))
    BY <1>1, <1>4, GotoEffect DEF Deliver, Reject, ResolveAccount, PostCredit,
       CreateDelivery, Rollback, Holds, TypeOK
  <2>3. UNCHANGED <<ledger, backfilled, processed>>
    BY <1>4 DEF Deliver, Reject, ResolveAccount, PostCredit, CreateDelivery,
       InsertEntries, Rollback
  <2> QED
    BY <1>3, <2>1, <2>2, <2>3
<1>5. ASSUME NEW c \in Calls, MarkProcessed(c) PROVE Booked(t)' \/ Handled(t)'
  <2>1. CASE UNCHANGED processed
    <3>1. ~Holds(c)
      BY <1>5 DEF MarkProcessed, Holds
    <3>2. \E s : Goto(c, s)
      BY <1>5 DEF MarkProcessed
    <3>3. \A d \in Calls : d # c => (Holds(d)' <=> Holds(d))
      BY <3>2, GotoEffect DEF Holds, TypeOK
    <3> QED
      BY <1>3, <1>5, <2>1, <3>1, <3>3 DEF MarkProcessed
  <2>2. CASE processed' = processed \cup {TxnOf[c]}
    <3>1. CASE t = TxnOf[c] /\ t \notin processed
      <4>1. hook'[c] = "resolve"
        BY <1>1, <1>5, <3>1, GotoEffect DEF MarkProcessed, Route, TypeOK
      <4> QED
        BY <3>1, <4>1 DEF Handled, InFlight, Answered, HookStates
    <3>2. CASE t # TxnOf[c] \/ t \in processed
      <4>1. Booked(t) \/ Handled(t)
        BY <1>a, <2>2, <3>2
      <4>2. Booked(t) => Booked(t)'
        BY <1>1, <1>5, BookedIsStable DEF TypeOK, DbOK, MarkProcessed
      <4>3. hook[c] = "received" /\ \E s : Goto(c, s)
        BY <1>5 DEF MarkProcessed
      <4>4. \A d \in Calls : d # c => hook'[d] = hook[d]
        BY <4>3, GotoEffect DEF TypeOK
      <4>5. Handled(t) => Handled(t)'
        BY <4>3, <4>4 DEF Handled
      <4> QED
        BY <4>1, <4>2, <4>5
    <3> QED
      BY <3>1, <3>2
  <2> QED
    BY <1>5, <2>1, <2>2 DEF MarkProcessed
<1>6. ASSUME NEW c \in Calls, PostSuspense(c) \/ Commit(c) PROVE Booked(t)' \/ Handled(t)'
  <2>1. /\ ledger \subseteq ledger' /\ UNCHANGED <<backfilled, processed>>
        /\ \E s : Goto(c, s)
    BY <1>6 DEF PostSuspense, Commit, InsertEntries, Apply
  <2>2. CASE TxnOf[c] # t
    <3>1. \A d \in Calls : TxnOf[d] = t /\ Holds(d) => Holds(d)'
      BY <2>1, <2>2, GotoEffect DEF Holds, TypeOK
    <3> QED
      BY <1>3, <2>1, <3>1
  <2>3. CASE TxnOf[c] = t /\ PostSuspense(c)
    <3>1. hook[c] \in {"suspense", "global_suspense"} /\ Leg(c, hook[c], "credit") \in ledger'
      BY <1>1, <2>3 DEF PostSuspense, InsertEntries
    <3> QED
      BY <2>3, <3>1 DEF Booked, CallBooked, SuspendedBy, Leg
  <2>4. CASE TxnOf[c] = t /\ Commit(c)
    <3>1. hook[c] = "commit" /\ Apply(c)
      BY <1>1, <2>4, Zenon DEF Commit
    <3>2. tx[c] = [legs |-> CreditLegs(c), row |-> TRUE]
      BY <3>1 DEF TxInv
    <3>3. CustomerLeg(c) \in ledger'
      BY <3>1, <3>2 DEF Apply, CreditLegs
    <3> QED
      BY <2>4, <3>3 DEF Booked, CallBooked, CreditedBy, CustomerLeg, Leg
  <2> QED
    BY <1>6, <2>2, <2>3, <2>4
<1>7. CASE InsertBackfill
  <2>1. UNCHANGED <<hook, ledger, processed>> /\ cur \in Txns
    BY <1>7 DEF InsertBackfill, TypeOK, SweepOK
  <2>2. \A u \in Txns : backfilled'[u] >= backfilled[u]
    BY <1>7, <2>1 DEF InsertBackfill, TypeOK, DbOK
  <2>3. Booked(t) => Booked(t)'
    BY <1>1, <2>1, <2>2, BookedIsStable DEF TypeOK, DbOK
  <2> QED
    BY <1>a, <2>1, <2>3 DEF Handled
<1>8. CASE MarkBackfilled
  <2>1. UNCHANGED <<hook, ledger, backfilled>> /\ sweep = "mark"
    BY <1>8 DEF MarkBackfilled
  <2>2. Booked(t) => Booked(t)'
    BY <1>1, <2>1, BookedIsStable DEF TypeOK, DbOK
  <2>3. CASE t = cur
    BY <1>1, <2>1, <2>3 DEF SweepInv, Booked
  <2>4. CASE t # cur
    <3>1. t \in processed
      BY <1>8, <2>4 DEF MarkBackfilled
    <3> QED
      BY <1>a, <2>1, <2>2, <3>1 DEF Handled
  <2> QED
    BY <2>3, <2>4
<1>9. CASE \/ \E u \in Txns : Pay(u)
           \/ \E a \in Accounts : Provision(a) \/ Close(a)
           \/ Tick \/ Restart \/ UNCHANGED vars
           \/ StartSweep \/ LookUpDest \/ EndSweep
           \/ \E u \in Txns : CheckProcessed(u)
  <2>1. UNCHANGED <<hook, ledger, backfilled, processed>>
    BY <1>9 DEF Pay, Provision, Close, Tick, Restart, vars, StartSweep, CheckProcessed,
       LookUpDest, EndSweep
  <2> QED
    BY <1>3, <2>1 DEF Holds
<1>10. CASE Crash
  <2>1. UNCHANGED <<ledger, backfilled, processed>>
    BY <1>10 DEF Crash
  <2>2. Booked(t) => Booked(t)'
    BY <1>1, <2>1, BookedIsStable DEF TypeOK, DbOK
  <2>3. ~Handled(t)
    BY <1>10 DEF Crash, Handled
  <2> QED
    BY <1>a, <2>1, <2>2, <2>3
<1> QED
  BY <1>4, <1>5, <1>6, <1>7, <1>8, <1>9, <1>10 DEF Next, HookStep, SweepStep

\* Whatever overlaps and whatever else fails, a processed payment that is in no
\* ledger is one whose claiming call was struck before it posted.
THEOREM LossIsByStrike == Spec => []LossNeedsStrike
<1>1. Init => LossNeedsStrike
  BY DEF Init, LossNeedsStrike
<1>2. TypeOK /\ TypeOK' /\ TxInv /\ SweepInv /\ LossNeedsStrike /\ [Next]_vars
      => LossNeedsStrike'
  BY LossStep
<1> QED
  BY <1>1, <1>2, TypeCorrect, HookInvHolds, SweepInvHolds, PTL DEF Spec

-----------------------------------------------------------------------------
(* The webhook endpoint implements Inbox.                                  *)

CreditedSet  == {c \in Calls : CreditedBy(c)}
SuspendedSet == {c \in Calls : SuspendedBy(c)}

LEMMA LegsDiffer ==
    ASSUME NEW c \in Calls, NEW d \in Calls, NEW a \in SystemAccounts
    PROVE  /\ CustomerLeg(c) # Leg(d, a, "credit")
           /\ CustomerLeg(c) = CustomerLeg(d) <=> c = d
BY IngestAssumption DEF CustomerLeg, Leg, SystemAccounts

\* What a call that holds its event may do is open to it in Inbox too.
LEMMA HeldIsOpen ==
    ASSUME HookInv, NEW c \in Calls, Holds(c)
    PROVE  Promise!Open(c)
<1>1. TxnOf[c] \in processed \cap Credits
  BY DEF HookInv
<1>2. \A d \in CreditedSet \cup SuspendedSet : TxnOf[d] # TxnOf[c]
  BY DEF HookInv, CreditedSet, SuspendedSet, CreditedBy, SuspendedBy, CustomerLeg, Leg
<1> QED
  BY <1>1, <1>2 DEF Promise!Open, CreditedSet, SuspendedSet

LEMMA RefinementStep ==
    TypeOK /\ TxInv /\ HookInv /\ [Next]_vars => [Promise!Next]_(Promise!inboxVars)
<1> SUFFICES ASSUME TypeOK, TxInv, HookInv, [Next]_vars
             PROVE  [Promise!Next]_(Promise!inboxVars)
  OBVIOUS
<1> USE DEF db, handler, sweeper
<1>1. ASSUME UNCHANGED <<ledger, outbox, processed>>
      PROVE  UNCHANGED Promise!inboxVars
  BY <1>1 DEF Promise!inboxVars, CreditedBy, SuspendedBy, CustomerLeg, Leg
<1>2. ASSUME NEW t \in Txns, processed' = processed \cup {t}, UNCHANGED <<ledger, outbox>>
      PROVE  [Promise!Next]_(Promise!inboxVars)
  <2>1. CASE t \in processed
    <3>1. UNCHANGED <<ledger, outbox, processed>>
      BY <1>2, <2>1
    <3> QED
      BY <3>1, <1>1
  <2>2. CASE t \notin processed
    <3>1. Promise!Claim(t)
      BY <1>2, <2>2 DEF Promise!Claim, CreditedBy, SuspendedBy, CustomerLeg, Leg
    <3> QED
      BY <3>1 DEF Promise!Next
  <2> QED
    BY <2>1, <2>2
<1>3. ASSUME NEW c \in Calls, MarkProcessed(c) PROVE [Promise!Next]_(Promise!inboxVars)
  <2>1. UNCHANGED <<ledger, outbox>> /\ processed' \in {processed, processed \cup {TxnOf[c]}}
    BY <1>3 DEF MarkProcessed
  <2>2. TxnOf[c] \in Txns
    BY IngestAssumption
  <2> QED
    BY <1>1, <1>2, <2>1, <2>2
<1>4. CASE MarkBackfilled
  <2>1. UNCHANGED <<ledger, outbox>> /\ processed' \in {processed, processed \cup {cur}}
    BY <1>4 DEF MarkBackfilled
  <2>2. cur \in Txns
    BY <1>4 DEF MarkBackfilled, TypeOK, SweepOK
  <2> QED
    BY <1>1, <1>2, <2>1, <2>2
<1>5. ASSUME NEW c \in Calls, PostSuspense(c) PROVE [Promise!Next]_(Promise!inboxVars)
  <2>1. Holds(c) /\ hook[c] \in {"suspense", "global_suspense"}
    BY <1>5 DEF PostSuspense, Holds, InFlight, Answered, HookStates
  <2>2. CASE ledger' = ledger \cup {Leg(c, hook[c], "credit")}
    <3>1. CreditedSet' = CreditedSet
      <4>1. \A d \in Calls : CustomerLeg(d) # Leg(c, hook[c], "credit")
        BY <2>1, IngestAssumption DEF CustomerLeg, Leg, SystemAccounts
      <4> QED
        BY <2>2, <4>1 DEF CreditedSet, CreditedBy
    <3>2. SuspendedSet' = SuspendedSet \cup {c}
      BY <2>1, <2>2 DEF SuspendedSet, SuspendedBy, Leg
    <3>3. Promise!Suspend(c)
      BY <1>5, <2>1, <3>1, <3>2, HeldIsOpen
         DEF PostSuspense, Promise!Suspend, CreditedSet, SuspendedSet
    <3> QED
      BY <3>3 DEF Promise!Next
  <2>3. CASE UNCHANGED ledger
    BY <1>1, <1>5, <2>3 DEF PostSuspense
  <2> QED
    BY <1>5, <2>2, <2>3 DEF PostSuspense, InsertEntries
<1>6. ASSUME NEW c \in Calls, Commit(c) PROVE [Promise!Next]_(Promise!inboxVars)
  <2>1. hook[c] = "commit" /\ UNCHANGED processed
    BY <1>6 DEF Commit
  <2>2. CASE UNCHANGED <<ledger, outbox>>
    BY <1>1, <2>1, <2>2
  <2>3. CASE Apply(c)
    <3>1. Holds(c)
      BY <2>1 DEF Holds, InFlight, Answered, HookStates
    <3>2. tx[c] = [legs |-> CreditLegs(c), row |-> TRUE]
      BY <2>1 DEF TxInv
    <3>3. ledger' = ledger \cup CreditLegs(c) /\ outbox' = outbox \cup {c}
      BY <2>3, <3>2 DEF Apply
    <3>4. CreditedSet' = CreditedSet \cup {c}
      BY <3>3, IngestAssumption DEF CreditedSet, CreditedBy, CreditLegs, CustomerLeg, Leg,
         SystemAccounts
    <3>5. SuspendedSet' = SuspendedSet
      <4>1. \A d \in Calls, a \in {"suspense", "global_suspense"} :
               Leg(d, a, "credit") \notin CreditLegs(c)
        BY LegsDiffer DEF CreditLegs, Leg, SystemAccounts
      <4> QED
        BY <3>3, <4>1 DEF SuspendedSet, SuspendedBy, Leg
    <3>6. Promise!Credit(c)
      BY <2>1, <3>1, <3>3, <3>4, <3>5, HeldIsOpen
         DEF Promise!Credit, CreditedSet, SuspendedSet
    <3> QED
      BY <3>6 DEF Promise!Next
  <2> QED
    BY <1>6, <2>2, <2>3 DEF Commit
<1>7. CASE \E c \in Calls : Deliver(c) \/ HookStep(c)
  <2>1. ASSUME NEW c \in Calls, Deliver(c) \/ Reject(c) \/ ResolveAccount(c)
                                 \/ PostCredit(c) \/ CreateDelivery(c)
        PROVE  UNCHANGED <<ledger, outbox, processed>>
    BY <2>1 DEF Deliver, Reject, ResolveAccount, PostCredit, CreateDelivery,
       InsertEntries, Rollback
  <2> QED
    BY <1>1, <1>3, <1>5, <1>6, <1>7, <2>1 DEF HookStep
<1>8. CASE \/ \E t \in Txns : Pay(t)
           \/ \E a \in Accounts : Provision(a) \/ Close(a)
           \/ Tick \/ Crash \/ Restart \/ UNCHANGED vars
           \/ StartSweep \/ LookUpDest \/ InsertBackfill \/ EndSweep
           \/ \E t \in Txns : CheckProcessed(t)
  <2>1. UNCHANGED <<ledger, outbox, processed>>
    BY <1>8 DEF Pay, Provision, Close, Tick, Crash, Restart, vars, StartSweep,
       CheckProcessed, LookUpDest, InsertBackfill, EndSweep
  <2> QED
    BY <1>1, <2>1
<1> QED
  BY <1>4, <1>7, <1>8 DEF Next, SweepStep

\* The webhook endpoint, with the sweep, the crashes and the failures around
\* it, keeps the promise of Inbox.
THEOREM ImplementsInbox == Spec => PromiseKept
<1>1. Init => Promise!Init
  BY DEF Init, Promise!Init, CreditedBy, SuspendedBy
<1>2. TypeOK /\ TxInv /\ HookInv /\ [Next]_vars => [Promise!Next]_(Promise!inboxVars)
  BY RefinementStep
<1> QED
  BY <1>1, <1>2, TypeCorrect, HookInvHolds, PTL DEF Spec, PromiseKept, Promise!Spec

-----------------------------------------------------------------------------
(* A closed account is not credited by webhooks any more.                  *)

\* Only a look-up that finds the account open takes a call past the check.
LEMMA PastCheckStep ==
    ASSUME TypeOK, [Next]_vars, NEW a \in Accounts, status[a] = "closed", ~PastCheck(a)
    PROVE  status'[a] = "closed" /\ ~PastCheck(a)'
<1> USE DEF env, handler, TypeOK
<1> DEFINE Within == {"post", "enqueue", "commit"}
<1>1. ASSUME UNCHANGED hook PROVE ~PastCheck(a)'
  BY <1>1 DEF PastCheck
<1>2. ASSUME NEW c \in Calls, NEW s, Goto(c, s), Dest[TxnOf[c]] = a => s \notin Within
      PROVE  ~PastCheck(a)'
  BY <1>2, GotoEffect DEF PastCheck
<1>3. ASSUME NEW c \in Calls, Deliver(c) \/ HookStep(c) PROVE ~PastCheck(a)'
  <2>1. CASE Deliver(c) \/ Reject(c)
    BY <1>2, <2>1 DEF Deliver, Reject
  <2>2. CASE MarkProcessed(c)
    BY <1>2, <2>2 DEF MarkProcessed, Route
  <2>3. CASE ResolveAccount(c)
    BY <1>2, <2>3 DEF ResolveAccount
  <2>4. CASE PostSuspense(c)
    BY <1>2, <2>4 DEF PostSuspense
  <2>5. CASE PostCredit(c) \/ CreateDelivery(c) \/ Commit(c)
    <3>1. hook[c] \in Within
      BY <2>5 DEF PostCredit, CreateDelivery, Commit
    <3>2. Dest[TxnOf[c]] # a
      BY <3>1 DEF PastCheck
    <3>3. \E s : Goto(c, s)
      BY <2>5 DEF PostCredit, CreateDelivery, Commit, Rollback
    <3> QED
      BY <1>2, <3>2, <3>3
  <2> QED
    BY <1>3, <2>1, <2>2, <2>3, <2>4, <2>5 DEF HookStep
<1>4. ASSUME Crash PROVE ~PastCheck(a)'
  <2>1. \A c \in Calls : hook'[c] \in {hook[c], "gone"}
    BY <1>4 DEF Crash
  <2> QED
    BY <2>1 DEF PastCheck
<1>5. ASSUME \/ \E t \in Txns : Pay(t)
             \/ \E b \in Accounts : Provision(b) \/ Close(b)
             \/ Tick \/ SweepStep \/ Restart \/ UNCHANGED vars
      PROVE  ~PastCheck(a)'
  <2>1. UNCHANGED hook
    BY <1>5 DEF Pay, Provision, Close, Tick, Restart, vars, SweepStep, StartSweep,
       CheckProcessed, LookUpDest, InsertBackfill, MarkBackfilled, EndSweep
  <2> QED
    BY <1>1, <2>1
<1>6. ~PastCheck(a)'
  BY <1>3, <1>4, <1>5 DEF Next
<1>7. ASSUME NEW b \in Accounts, Provision(b) \/ Close(b) PROVE status'[a] = status[a]
  BY <1>7 DEF Provision, Close, EnvOK
<1>8. status'[a] = "closed"
  BY <1>7 DEF Next, vars, Pay, Deliver, HookStep, Reject, MarkProcessed, ResolveAccount,
     PostSuspense, PostCredit, CreateDelivery, Commit, Tick, SweepStep, StartSweep,
     CheckProcessed, LookUpDest, InsertBackfill, MarkBackfilled, EndSweep, Crash, Restart
<1> QED
  BY <1>6, <1>8

\* When the calls that saw it open have ended, no webhook call ever credits a
\* closed account again, whatever overlaps or fails.
THEOREM ClosureHolds == Spec => ClosedGetsNoCredit
<1> DEFINE Step ==
      \A a \in Accounts :
          status[a] = "closed" /\ ~PastCheck(a) =>
              /\ status'[a] = "closed" /\ ~PastCheck(a)'
              /\ \A c \in Calls : Dest[TxnOf[c]] = a /\ CreditedBy(c)' => CreditedBy(c)
<1>1. TypeOK /\ TxInv /\ [Next]_vars => Step
  <2> SUFFICES ASSUME TypeOK, TxInv, [Next]_vars,
                      NEW a \in Accounts, status[a] = "closed", ~PastCheck(a)
               PROVE  /\ status'[a] = "closed" /\ ~PastCheck(a)'
                      /\ \A c \in Calls : Dest[TxnOf[c]] = a /\ CreditedBy(c)' => CreditedBy(c)
    OBVIOUS
  <2>1. status'[a] = "closed" /\ ~PastCheck(a)'
    BY PastCheckStep
  <2>2. ASSUME NEW c \in Calls, Dest[TxnOf[c]] = a, CreditedBy(c)' PROVE CreditedBy(c)
    <3>1. CASE UNCHANGED ledger
      BY <2>2, <3>1 DEF CreditedBy, CustomerLeg, Leg
    <3>2. ASSUME NEW d \in Calls, PostSuspense(d),
                 ledger' = ledger \cup {Leg(d, hook[d], "credit")}
          PROVE  CreditedBy(c)
      <4>1. hook[d] \in SystemAccounts
        BY <3>2 DEF PostSuspense, SystemAccounts
      <4>2. CustomerLeg(c) # Leg(d, hook[d], "credit")
        BY <4>1, LegsDiffer
      <4> QED
        BY <2>2, <3>2, <4>2 DEF CreditedBy, CustomerLeg, Leg
    <3>3. ASSUME NEW d \in Calls, hook[d] = "commit", ledger' = ledger \cup CreditLegs(d)
          PROVE  CreditedBy(c)
      <4>1. c # d
        BY <2>2, <3>3 DEF PastCheck
      <4>2. CustomerLeg(c) \notin CreditLegs(d)
        BY <4>1, IngestAssumption DEF CreditLegs, CustomerLeg, Leg, SystemAccounts
      <4> QED
        BY <2>2, <3>3, <4>2 DEF CreditedBy, CustomerLeg, Leg
    <3> QED
      BY <3>1, <3>2, <3>3, LedgerWrites
  <2> QED
    BY <2>1, <2>2
<1>2. TypeOK /\ TxInv /\ [Next]_vars => [Step]_vars
  BY <1>1
<1> QED
  BY <1>2, TypeCorrect, HookInvHolds, PTL DEF Spec, ClosedGetsNoCredit

-----------------------------------------------------------------------------
(* Webhooks and sweeps together keep the books of Books.                   *)

\* Only payments that have arrived are worked on.
ArrivedInv ==
    /\ \A c \in Calls : hook[c] # "idle" => TxnOf[c] \in paid
    /\ todo \subseteq paid \cap Credits
    /\ cur # None => cur \in paid \cap Credits

LEMMA ArrivedHolds == Spec => []ArrivedInv
<1>1. Init => ArrivedInv
  BY DEF Init, ArrivedInv
<1>2. TypeOK /\ ArrivedInv /\ [Next]_vars => ArrivedInv'
  <2> SUFFICES ASSUME TypeOK, ArrivedInv, [Next]_vars PROVE ArrivedInv'
    OBVIOUS
  <2> USE DEF TypeOK, ArrivedInv, env, handler, sweeper
  <2>1. ASSUME UNCHANGED <<paid, hook>>,
               todo' \subseteq todo \cup Window, cur' \in {cur, None} \cup todo
        PROVE  ArrivedInv'
    BY <2>1 DEF Window
  <2>2. ASSUME UNCHANGED <<todo, cur>>, paid \subseteq paid',
               \A c \in Calls : hook'[c] # "idle" => hook[c] # "idle" \/ TxnOf[c] \in paid
        PROVE  ArrivedInv'
    BY <2>2
  <2>3. ASSUME NEW c \in Calls, Deliver(c) PROVE ArrivedInv'
    <3>1. TxnOf[c] \in paid /\ \E s : Goto(c, s)
      BY <2>3 DEF Deliver
    <3>2. \A d \in Calls : d # c => hook'[d] = hook[d]
      BY <3>1, GotoEffect
    <3> QED
      BY <2>2, <2>3, <3>1, <3>2 DEF Deliver
  <2>4. ASSUME NEW c \in Calls, HookStep(c) PROVE ArrivedInv'
    <3>1. /\ hook[c] # "idle" /\ UNCHANGED <<paid, todo, cur>>
          /\ \E s : Goto(c, s)
      BY <2>4 DEF HookStep, Reject, MarkProcessed, ResolveAccount, PostSuspense,
         PostCredit, CreateDelivery, Commit, Rollback
    <3>2. \A d \in Calls : d # c => hook'[d] = hook[d]
      BY <3>1, GotoEffect
    <3> QED
      BY <2>2, <3>1, <3>2
  <2>5. CASE \/ \E t \in Txns : Pay(t)
             \/ \E a \in Accounts : Provision(a) \/ Close(a)
             \/ Tick \/ Restart \/ UNCHANGED vars
    <3>1. UNCHANGED <<hook, todo, cur>> /\ paid \subseteq paid'
      BY <2>5 DEF Pay, Provision, Close, Tick, Restart, vars
    <3> QED
      BY <2>2, <3>1
  <2>6. CASE SweepStep
    <3>1. /\ UNCHANGED <<paid, hook>>
          /\ todo' \subseteq todo \cup Window /\ cur' \in {cur, None} \cup todo
      BY <2>6 DEF SweepStep, StartSweep, CheckProcessed, LookUpDest, InsertBackfill,
         MarkBackfilled, EndSweep, SkipTxn
    <3> QED
      BY <2>1, <3>1
  <2>7. CASE Crash
    BY <2>7 DEF Crash, HookOK, InFlight, Answered
  <2> QED
    BY <2>3, <2>4, <2>5, <2>6, <2>7 DEF Next
<1> QED
  BY <1>1, <1>2, TypeCorrect, PTL DEF Spec

\* The payments that Entries shows as credited, pooled, in suspense, backfilled.
CreditedPays   == PaymentsOf(CreditedSet)
PooledPays     == PaymentsOf(Pooled)
SuspendedPays  == PaymentsOf(SuspendedSet)
BackfilledPays == {t \in Txns : backfilled[t] > 0}

LEMMA EntriesByType ==
    /\ Entries = ({"inbound_credit"} \X CreditedPays) \cup ({"pool_liability"} \X PooledPays)
                 \cup ({"suspense_credit"} \X SuspendedPays)
                 \cup ({"backfill_credit"} \X BackfilledPays)
    /\ Booking!With("inbound_credit") = Credits \cap CreditedPays
    /\ Booking!With("suspense_credit") = Credits \cap SuspendedPays
    /\ Booking!With("backfill_credit") = Credits \cap BackfilledPays
<1>1. Entries = ({"inbound_credit"} \X CreditedPays) \cup ({"pool_liability"} \X PooledPays)
                \cup ({"suspense_credit"} \X SuspendedPays)
                \cup ({"backfill_credit"} \X BackfilledPays)
  BY DEF Entries, CreditedPays, PooledPays, SuspendedPays, BackfilledPays, CreditedSet,
     SuspendedSet
<1>2. Booking!Movements = Credits
  BY DEF Booking!Movements
<1> QED
  BY <1>1, <1>2 DEF Booking!With

\* What a call that holds its event may do is open to it in Books too.
LEMMA HeldIsUnclaimed ==
    ASSUME HookInv, ArrivedInv, NEW c \in Calls, Holds(c)
    PROVE  TxnOf[c] \in Credits /\ Booking!Unclaimed(TxnOf[c])
<1>1. TxnOf[c] \in Credits /\ TxnOf[c] \in paid
  BY DEF HookInv, ArrivedInv, Holds, InFlight, Answered
<1>2. \A d \in CreditedSet \cup SuspendedSet : TxnOf[d] # TxnOf[c]
  BY DEF HookInv, CreditedSet, SuspendedSet, CreditedBy, SuspendedBy, CustomerLeg, Leg
<1>3. TxnOf[c] \notin CreditedPays \cup SuspendedPays
  BY <1>2 DEF CreditedPays, SuspendedPays, PaymentsOf
<1> QED
  BY <1>1, <1>3, EntriesByType DEF Booking!Unclaimed

\* What the books of Books are made of.
LEMMA BookingVars ==
    ASSUME UNCHANGED <<CreditedPays, PooledPays, SuspendedPays, BackfilledPays>>,
           UNCHANGED paid
    PROVE  UNCHANGED Booking!vars
<1>1. Entries' = Entries
  BY DEF Entries, CreditedPays, PooledPays, SuspendedPays, BackfilledPays, CreditedSet,
     SuspendedSet
<1> QED
  BY <1>1 DEF Booking!vars, Booking!nomba, Booking!books, Booking!readers

LEMMA BooksStep ==
    TypeOK /\ TxInv /\ HookInv /\ ArrivedInv /\ [Next]_vars
    => [Booking!Next]_(Booking!vars)
<1> SUFFICES ASSUME TypeOK, TxInv, HookInv, ArrivedInv, [Next]_vars
             PROVE  [Booking!Next]_(Booking!vars)
  OBVIOUS
<1> USE DEF env, db, handler, sweeper
<1>1. ASSUME UNCHANGED ledger
      PROVE  UNCHANGED <<CreditedPays, PooledPays, SuspendedPays>>
  BY <1>1 DEF CreditedPays, PooledPays, SuspendedPays, CreditedSet, SuspendedSet, Pooled,
     CreditedBy, SuspendedBy, CustomerLeg, Leg
<1>2. ASSUME UNCHANGED backfilled PROVE UNCHANGED BackfilledPays
  BY <1>2 DEF BackfilledPays
<1>3. ASSUME UNCHANGED <<ledger, backfilled, paid>> PROVE UNCHANGED Booking!vars
  BY <1>1, <1>2, <1>3, BookingVars
<1>4. ASSUME NEW t \in Txns, Pay(t) PROVE [Booking!Next]_(Booking!vars)
  <2>1. UNCHANGED <<ledger, backfilled>> /\ t \notin paid /\ paid' = paid \cup {t}
    BY <1>4 DEF Pay
  <2>2. Entries' = Entries
    BY <1>1, <1>2, <2>1 DEF Entries, CreditedPays, PooledPays, SuspendedPays,
       BackfilledPays, CreditedSet, SuspendedSet
  <2>3. CASE t \in Credits
    <3>1. Booking!Pay(t)
      BY <2>1, <2>2, <2>3 DEF Booking!Pay, Booking!books, Booking!readers
    <3> QED
      BY <2>3, <3>1 DEF Booking!Next
  <2>4. CASE t \notin Credits
    <3>1. UNCHANGED (paid \cap Credits)
      BY <2>1, <2>4
    <3> QED
      BY <2>2, <3>1 DEF Booking!vars, Booking!nomba, Booking!books, Booking!readers
  <2> QED
    BY <2>3, <2>4
<1>5. ASSUME NEW c \in Calls, PostSuspense(c),
             ledger' = ledger \cup {Leg(c, hook[c], "credit")}
      PROVE  [Booking!Next]_(Booking!vars)
  <2>1. Holds(c) /\ hook[c] \in {"suspense", "global_suspense"}
    BY <1>5 DEF PostSuspense, Holds, InFlight, Answered, HookStates
  <2>2. UNCHANGED <<paid, backfilled>>
    BY <1>5 DEF PostSuspense
  <2>3. CreditedSet' = CreditedSet /\ Pooled' = Pooled
    <3>1. \A d \in Calls : CustomerLeg(d) # Leg(c, hook[c], "credit")
      BY <2>1, IngestAssumption DEF CustomerLeg, Leg, SystemAccounts
    <3>2. \A d \in Calls : Leg(d, "pool", "debit") # Leg(c, hook[c], "credit")
      BY DEF Leg
    <3> QED
      BY <1>5, <3>1, <3>2 DEF CreditedSet, CreditedBy, Pooled
  <2>4. SuspendedSet' = SuspendedSet \cup {c}
    BY <1>5, <2>1 DEF SuspendedSet, SuspendedBy, Leg
  <2>5. SuspendedPays' = SuspendedPays \cup {TxnOf[c]}
    BY <2>4 DEF SuspendedPays, PaymentsOf
  <2>6. Entries' = Entries \cup ({"suspense_credit"} \X {TxnOf[c]})
    BY <1>2, <2>2, <2>3, <2>5 DEF Entries, CreditedPays, PooledPays, SuspendedPays,
       BackfilledPays, CreditedSet, SuspendedSet
  <2>7. Booking!PostSuspense(TxnOf[c])
    BY <2>1, <2>2, <2>6, HeldIsUnclaimed
       DEF Booking!PostSuspense, Booking!InsertEntries, Booking!nomba, Booking!readers
  <2> QED
    BY <2>1, <2>7, HeldIsUnclaimed DEF Booking!Next
<1>6. ASSUME NEW c \in Calls, Commit(c), hook[c] = "commit",
             ledger' = ledger \cup CreditLegs(c)
      PROVE  [Booking!Next]_(Booking!vars)
  <2>1. Holds(c)
    BY <1>6 DEF Holds, InFlight, Answered, HookStates
  <2>2. UNCHANGED <<paid, backfilled>>
    BY <1>6 DEF Commit
  <2>3. CreditedSet' = CreditedSet \cup {c}
    BY <1>6, IngestAssumption DEF CreditedSet, CreditedBy, CreditLegs, CustomerLeg, Leg,
       SystemAccounts
  <2>4. Pooled' = Pooled \cup {c}
    BY <1>6 DEF Pooled, CreditLegs, CustomerLeg, Leg
  <2>5. SuspendedSet' = SuspendedSet
    <3>1. \A d \in Calls, a \in {"suspense", "global_suspense"} :
             Leg(d, a, "credit") \notin CreditLegs(c)
      BY LegsDiffer DEF CreditLegs, Leg, SystemAccounts
    <3> QED
      BY <1>6, <3>1 DEF SuspendedSet, SuspendedBy, Leg
  <2>6. /\ CreditedPays' = CreditedPays \cup {TxnOf[c]}
        /\ PooledPays' = PooledPays \cup {TxnOf[c]}
    BY <2>3, <2>4 DEF CreditedPays, PooledPays, PaymentsOf
  <2>7. Entries' = Entries \cup ({"inbound_credit", "pool_liability"} \X {TxnOf[c]})
    BY <1>2, <2>2, <2>5, <2>6 DEF Entries, CreditedPays, PooledPays, SuspendedPays,
       BackfilledPays, CreditedSet, SuspendedSet
  <2>8. Booking!PostCredit(TxnOf[c])
    BY <2>1, <2>2, <2>7, HeldIsUnclaimed
       DEF Booking!PostCredit, Booking!InsertEntries, Booking!nomba, Booking!readers
  <2> QED
    BY <2>1, <2>8, HeldIsUnclaimed DEF Booking!Next
<1>7. CASE InsertBackfill
  <2>1. UNCHANGED <<ledger, paid>> /\ cur \in paid \cap Credits /\ cur \in Txns
    BY <1>7 DEF InsertBackfill, ArrivedInv, TypeOK, SweepOK
  <2>2. CASE UNCHANGED backfilled
    BY <1>3, <2>1, <2>2
  <2>3. CASE backfilled' = [backfilled EXCEPT ![cur] = @ + 1]
    <3>1. BackfilledPays' = BackfilledPays \cup {cur}
      BY <2>1, <2>3 DEF BackfilledPays, TypeOK, DbOK
    <3>2. CASE cur \in BackfilledPays
      BY <1>1, <2>1, <3>1, <3>2, BookingVars
    <3>3. CASE cur \notin BackfilledPays
      <4>1. Entries' = Entries \cup ({"backfill_credit"} \X {cur})
        BY <1>1, <2>1, <3>1 DEF Entries, CreditedPays, PooledPays, SuspendedPays,
           BackfilledPays, CreditedSet, SuspendedSet
      <4>2. Booking!Backfill(cur)
        BY <2>1, <3>3, <4>1, EntriesByType
           DEF Booking!Backfill, Booking!InsertEntries, Booking!nomba, Booking!readers
      <4>3. PICK p \in Credits : p = cur
        BY <2>1
      <4> QED
        BY <4>2, <4>3 DEF Booking!Next
    <3> QED
      BY <3>2, <3>3
  <2> QED
    BY <1>7, <2>2, <2>3 DEF InsertBackfill
<1>8. CASE \/ \E a \in Accounts : Provision(a) \/ Close(a)
           \/ Tick \/ Crash \/ Restart \/ UNCHANGED vars
           \/ StartSweep \/ LookUpDest \/ MarkBackfilled \/ EndSweep
           \/ \E t \in Txns : CheckProcessed(t)
  <2>1. UNCHANGED <<ledger, backfilled, paid>>
    BY <1>8 DEF Provision, Close, Tick, Crash, Restart, vars, StartSweep, CheckProcessed,
       LookUpDest, MarkBackfilled, EndSweep
  <2> QED
    BY <1>3, <2>1
<1>9. CASE \E c \in Calls : Deliver(c) \/ HookStep(c)
  <2>1. UNCHANGED <<backfilled, paid>>
    BY <1>9 DEF Deliver, HookStep, Reject, MarkProcessed, ResolveAccount, PostSuspense,
       PostCredit, CreateDelivery, Commit
  <2> QED
    BY <1>3, <1>5, <1>6, <2>1, LedgerWrites
<1> QED
  BY <1>4, <1>7, <1>8, <1>9 DEF Next, SweepStep

\* The webhook and the sweep, taken apart into their database calls, with
\* their crashes and failures, post as Books does, where a posting is one step
\* (and a payment that the sweep posts again is no step: BookingsAreBounded).
THEOREM ImplementsBooks == Spec => BooksKept
<1>1. Init => Booking!Init
  BY DEF Init, Booking!Init, Entries, PaymentsOf, Pooled, CreditedBy, SuspendedBy
<1>2. TypeOK /\ TxInv /\ HookInv /\ ArrivedInv /\ [Next]_vars
      => [Booking!Next]_(Booking!vars)
  BY BooksStep
<1> QED
  BY <1>1, <1>2, TypeCorrect, HookInvHolds, ArrivedHolds, PTL
     DEF Spec, BooksKept, Booking!Spec
=============================================================================
