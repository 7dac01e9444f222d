--------------------------- MODULE ConnPoolProofs ---------------------------
(* Theorems about ConnPool for every value of its constants.               *)
EXTENDS ConnPool, FiniteSetTheorems, TLAPS

LEMMA Apart == /\ Credits \cap Others = {} /\ None \notin Users
               /\ Credits \subseteq Users /\ Others \subseteq Users
BY ConnPoolAssumption DEF Users

LEMMA Moves ==
    ASSUME TypeOK, NEW u \in Users, NEW s, Goto(u, s)
    PROVE  DOMAIN pc' = Users /\ pc'[u] = s /\ \A v \in Users : v # u => pc'[v] = pc[v]
BY DEF Goto, TypeOK

LEMMA Returned ==
    ASSUME TypeOK, NEW u \in Users, GiveBack(u)
    PROVE  /\ owner' \in [Conns -> Users \cup {None}]
           /\ \A k \in Conns : owner'[k] = IF owner[k] = u THEN None ELSE owner[k]
BY DEF GiveBack, TypeOK

\* A user at a statement moves on to the next, or ends.
LEMMA StepTypes ==
    ASSUME TypeOK, NEW u \in Users, NEW s, Goto(u, s), UNCHANGED open,
           u \in Credits => s \in CreditStates, u \in Others => s \in OtherStates,
           owner' \in [Conns -> Users \cup {None}],
           \A k \in Conns : owner'[k] = owner[k] \/ owner'[k] = None,
           waiting' = waiting \ {u} \/ (waiting' = waiting \cup {u} /\ s \notin Settled)
    PROVE  TypeOK'
<1> USE Apart
<1>1. DOMAIN pc' = Users /\ pc'[u] = s /\ \A v \in Users : v # u => pc'[v] = pc[v]
  BY Moves
<1>2. pc' \in [Users -> CreditStates \cup OtherStates]
  <2>1. pc' = [v \in Users |-> pc'[v]]
    BY DEF Goto, TypeOK
  <2>2. \A v \in Users : pc'[v] \in CreditStates \cup OtherStates
    BY <1>1 DEF TypeOK, Users
  <2> QED
    BY <2>1, <2>2
<1>3. \A v \in waiting' : pc'[v] \notin Settled
  BY <1>1 DEF TypeOK
<1> QED
  BY <1>1, <1>2, <1>3 DEF TypeOK

\* The type invariant holds in every reachable state.
THEOREM TypeCorrect == Spec => []TypeOK
<1> USE Apart
<1>1. Init => TypeOK
  <2> SUFFICES ASSUME Init PROVE TypeOK
    OBVIOUS
  <2>1. /\ pc \in [Users -> CreditStates \cup OtherStates]
        /\ \A c \in Credits : pc[c] \in CreditStates
        /\ \A o \in Others : pc[o] \in OtherStates
    BY DEF Init, CreditStates, OtherStates
  <2> QED
    BY <2>1 DEF Init, TypeOK
<1>2. TypeOK /\ [Next]_vars => TypeOK'
  <2> SUFFICES ASSUME TypeOK, [Next]_vars PROVE TypeOK'
    OBVIOUS
  <2> USE DEF Settled
  <2>1. ASSUME NEW u \in Users, Grant(u) PROVE TypeOK'
    BY <2>1 DEF Grant, TypeOK
  <2>2. ASSUME NEW u \in Users, HangUp(u) PROVE TypeOK'
    <3>1. GivenUp(u) \in {"new", "idle", "lost"}
      BY DEF GivenUp
    <3>2. u \in Credits => GivenUp(u) \in CreditStates
      BY DEF GivenUp, TypeOK, CreditStates
    <3>3. u \in Others => GivenUp(u) \in OtherStates
      BY <2>2 DEF HangUp, GivenUp, TypeOK, OtherStates
    <3> QED
      BY <2>2, <3>2, <3>3, Returned, StepTypes DEF HangUp
  <2>3. ASSUME NEW o \in Others, Query(o) PROVE TypeOK'
    BY <2>3, StepTypes DEF Query, Await, OtherStates, TypeOK
  <2>4. ASSUME NEW o \in Others, Answer(o) PROVE TypeOK'
    BY <2>4, Returned, StepTypes DEF Answer, OtherStates, Running
  <2>5. ASSUME NEW c \in Credits, Deliver(c) PROVE TypeOK'
    BY <2>5, StepTypes DEF Deliver, Await, CreditStates, TypeOK
  <2>6. ASSUME NEW c \in Credits, MarkProcessed(c) PROVE TypeOK'
    BY <2>6, Returned, StepTypes DEF MarkProcessed, Await, CreditStates
  <2>7. ASSUME NEW c \in Credits, GetAccountByNumber(c) PROVE TypeOK'
    BY <2>7, Returned, StepTypes DEF GetAccountByNumber, Await, CreditStates
  <2>8. ASSUME NEW c \in Credits, Begin(c) PROVE TypeOK'
    BY <2>8, StepTypes DEF Begin, Await, CreditStates, TypeOK
  <2>9. ASSUME NEW c \in Credits, GetSystemAccount(c) PROVE TypeOK'
    <3>1. /\ owner' \in [Conns -> Users \cup {None}]
          /\ \A k \in Conns : owner'[k] = owner[k] \/ owner'[k] = None
      BY <2>9 DEF GetSystemAccount, TypeOK
    <3> QED
      BY <2>9, <3>1, StepTypes DEF GetSystemAccount, Running, CreditStates
  <2>10. ASSUME NEW c \in Credits, Commit(c) PROVE TypeOK'
    BY <2>10, Returned, StepTypes DEF Commit, Running, CreditStates
  <2>11. CASE UNCHANGED vars
    BY <2>11 DEF vars, TypeOK
  <2> QED
    BY <2>1, <2>2, <2>3, <2>4, <2>5, <2>6, <2>7, <2>8, <2>9, <2>10, <2>11
       DEF Next, CreditStep
<1> QED
  BY <1>1, <1>2, PTL DEF Spec

-----------------------------------------------------------------------------
\* What each user has, by where it is: nothing without a statement, nothing
\* while it waits for its first connection, one at a statement, and two at
\* most during the look-up within a transaction.
AtMostOne(u) == \A j, k \in Conns : owner[j] = u /\ owner[k] = u => j = k
AtMostTwo(u) == \A i, j, k \in Conns :
                  owner[i] = u /\ owner[j] = u /\ owner[k] = u => i = j \/ j = k \/ i = k
Nothing(u)   == \A k \in Conns : owner[k] # u

Accounts(u) ==
    /\ pc[u] \in Settled => Nothing(u)
    /\ u \in waiting /\ pc[u] # "pool" => Nothing(u)
    /\ u \in waiting \/ pc[u] # "pool" => AtMostOne(u)
    /\ AtMostTwo(u)
    /\ pc[u] = "write" => u \notin waiting

Accounted == \A u \in Users : Accounts(u)

\* A step of one user leaves the accounts of the others as they are.
LEMMA OthersAccounted ==
    ASSUME TypeOK, Accounted, NEW u \in Users,
           \A v \in Users : v # u => pc'[v] = pc[v] /\ (v \in waiting' <=> v \in waiting),
           \A k \in Conns : owner'[k] = owner[k] \/ owner'[k] \in {None, u},
           Accounts(u)'
    PROVE  Accounted'
<1>1. ASSUME NEW v \in Users, v # u PROVE Accounts(v)'
  <2>1. \A k \in Conns : owner'[k] = v => owner[k] = v
    BY <1>1, Apart
  <2> QED
    BY <1>1, <2>1 DEF Accounted, Accounts, AtMostOne, AtMostTwo, Nothing
<1> QED
  BY <1>1 DEF Accounted

\* Whoever gives back what it has has nothing, wherever it goes.
LEMMA ReturnAccounted ==
    ASSUME TypeOK, Accounted, NEW u \in Users, NEW s, s # "write", Goto(u, s), GiveBack(u),
           \A v \in Users : v # u => (v \in waiting' <=> v \in waiting)
    PROVE  Accounted'
<1>1. Nothing(u)'
  BY Returned, Apart DEF Nothing
<1>2. Accounts(u)'
  BY <1>1, Moves DEF Accounts, AtMostOne, AtMostTwo, Nothing
<1> QED
  BY <1>2, Moves, Returned, OthersAccounted

LEMMA AccountedHolds == Spec => []Accounted
<1> USE Apart
<1>1. Init => Accounted
  BY DEF Init, Accounted, Accounts, AtMostOne, AtMostTwo, Nothing
<1>2. TypeOK /\ Accounted /\ [Next]_vars => Accounted'
  <2> SUFFICES ASSUME TypeOK, Accounted, [Next]_vars PROVE Accounted'
    OBVIOUS
  <2>0. ASSUME NEW u \in Users PROVE Accounts(u)
    BY <2>0 DEF Accounted
  <2>1. ASSUME NEW u \in Users, Grant(u) PROVE Accounted'
    <3>1. PICK k \in open : owner[k] = None /\ owner' = [owner EXCEPT ![k] = u]
      BY <2>1 DEF Grant
    <3>2. /\ k \in Conns /\ owner'[k] = u
          /\ \A j \in Conns : j # k => owner'[j] = owner[j]
      BY <3>1 DEF TypeOK
    <3>3. /\ u \in waiting /\ u \notin waiting' /\ pc[u] \notin Settled
          /\ UNCHANGED pc /\ \A v \in Users : v # u => (v \in waiting' <=> v \in waiting)
      BY <2>1 DEF Grant, TypeOK
    <3>4. Accounts(u)'
      BY <2>0, <3>2, <3>3 DEF Accounts, AtMostOne, AtMostTwo, Nothing
    <3> QED
      BY <3>2, <3>3, <3>4, OthersAccounted
  <2>2. ASSUME NEW u \in Users, HangUp(u) PROVE Accounted'
    BY <2>2, ReturnAccounted DEF HangUp, GivenUp
  <2>3. ASSUME NEW o \in Others, Query(o) PROVE Accounted'
    <3>1. Accounts(o)'
      BY <2>0, <2>3, Moves DEF Query, Accounts, AtMostOne, AtMostTwo, Nothing, Settled
    <3> QED
      BY <2>3, <3>1, Moves, OthersAccounted DEF Query, Await
  <2>4. ASSUME NEW o \in Others, Answer(o) PROVE Accounted'
    BY <2>4, ReturnAccounted DEF Answer
  <2>5. ASSUME NEW c \in Credits, Deliver(c) PROVE Accounted'
    <3>1. Accounts(c)'
      BY <2>0, <2>5, Moves DEF Deliver, Accounts, AtMostOne, AtMostTwo, Nothing, Settled
    <3> QED
      BY <2>5, <3>1, Moves, OthersAccounted DEF Deliver, Await
  <2>6. ASSUME NEW c \in Credits, MarkProcessed(c) PROVE Accounted'
    BY <2>6, ReturnAccounted DEF MarkProcessed, Await
  <2>7. ASSUME NEW c \in Credits, GetAccountByNumber(c) PROVE Accounted'
    BY <2>7, ReturnAccounted DEF GetAccountByNumber, Await
  <2>8. ASSUME NEW c \in Credits, Begin(c) PROVE Accounted'
    <3>1. Accounts(c)'
      BY <2>0, <2>8, Moves
         DEF Begin, Running, Accounts, AtMostOne, AtMostTwo, Nothing, Settled
    <3> QED
      BY <2>8, <3>1, Moves, OthersAccounted DEF Begin, Await
  <2>9. ASSUME NEW c \in Credits, GetSystemAccount(c) PROVE Accounted'
    <3>1. PICK k \in Conns : owner[k] = c /\ owner' = [owner EXCEPT ![k] = None]
      BY <2>9 DEF GetSystemAccount, Holds, TypeOK
    <3>2. owner'[k] = None /\ \A j \in Conns : j # k => owner'[j] = owner[j]
      BY <3>1 DEF TypeOK
    <3>3. pc'[c] = "write" /\ c \notin waiting'
      BY <2>9, Moves DEF GetSystemAccount, Running
    <3>4. Accounts(c)'
      BY <2>0, <3>1, <3>2, <3>3 DEF Accounts, AtMostOne, AtMostTwo, Nothing, Settled
    <3> QED
      BY <2>9, <3>2, <3>4, Moves, OthersAccounted DEF GetSystemAccount
  <2>10. ASSUME NEW c \in Credits, Commit(c) PROVE Accounted'
    BY <2>10, ReturnAccounted DEF Commit
  <2>11. CASE UNCHANGED vars
    BY <2>11 DEF vars, Accounted, Accounts, AtMostOne, AtMostTwo, Nothing
  <2> QED
    BY <2>1, <2>2, <2>3, <2>4, <2>5, <2>6, <2>7, <2>8, <2>9, <2>10, <2>11
       DEF Next, CreditStep
<1> QED
  BY <1>1, <1>2, TypeCorrect, PTL DEF Spec

\* A waiting owner of a connection is a credit's transaction.
LEMMA WaitingOwners ==
    ASSUME TypeOK, Accounted, NEW k \in open, owner[k] \in waiting
    PROVE  owner[k] \in Credits /\ pc[owner[k]] = "pool" /\ AtMostOne(owner[k])
<1>1. owner[k] \in Users /\ k \in Conns
  BY DEF TypeOK
<1>2. pc[owner[k]] = "pool" /\ AtMostOne(owner[k])
  BY <1>1 DEF Accounted, Accounts, Nothing
<1> QED
  BY <1>1, <1>2 DEF TypeOK, OtherStates, Users

\* Connections do not leak.
THEOREM NothingLeaks == Spec => []OnlyCreditsBlock
<1>1. TypeOK /\ Accounted => OnlyCreditsBlock
  <2> SUFFICES ASSUME TypeOK, Accounted, NEW k \in open, owner[k] # None, ~Running(owner[k])
               PROVE  owner[k] \in Credits \cap waiting /\ pc[owner[k]] = "pool"
    BY DEF OnlyCreditsBlock
  <2>1. owner[k] \in Users /\ k \in Conns
    BY DEF TypeOK
  <2>2. pc[owner[k]] \notin Settled
    BY <2>1 DEF Accounted, Accounts, Nothing
  <2> QED
    BY <2>2, WaitingOwners DEF Running
<1> QED
  BY <1>1, TypeCorrect, AccountedHolds, PTL

\* By the pigeon-hole principle: were all connections owned by waiting credits,
\* owners would be an injection of connections into credits.
THEOREM OneMoreIsEnough == Spec => []RoomForAll
<1>1. TypeOK /\ Accounted => RoomForAll
  <2> SUFFICES ASSUME TypeOK, Accounted, Stuck
               PROVE  ~ (Cardinality(open) > Cardinality(Credits))
    BY DEF RoomForAll
  <2> DEFINE f == [k \in open |-> owner[k]]
  <2>1. \A k \in open : f[k] \in Credits
    BY WaitingOwners DEF Stuck
  <2>2. \A j, k \in open : f[j] = f[k] => j = k
    BY WaitingOwners DEF Stuck, AtMostOne, TypeOK
  <2>3. f \in Injection(open, Credits)
    BY <2>1, <2>2 DEF Injection, IsInjective
  <2>4. IsFiniteSet(Credits)
    BY ConnPoolAssumption
  <2>5. IsFiniteSet(open) /\ Cardinality(open) <= Cardinality(Credits)
    BY <2>3, <2>4, FS_Injection
  <2>6. Cardinality(open) \in Nat /\ Cardinality(Credits) \in Nat
    BY <2>4, <2>5, FS_CardinalityType
  <2> QED
    BY <2>5, <2>6
<1> QED
  BY <1>1, TypeCorrect, AccountedHolds, PTL

-----------------------------------------------------------------------------
\* While the pool is stuck nobody can be granted a connection, and whoever is
\* not waiting has none to give back.
LEMMA StuckOwners ==
    ASSUME TypeOK, Stuck, NEW u \in Users
    PROVE  /\ ~Grant(u)
           /\ u \notin waiting => Holds(u) = {}
           /\ u \notin waiting /\ GiveBack(u) => owner' = owner
<1>1. \A k \in open : owner[k] # None
  BY Apart DEF Stuck, TypeOK
<1>2. u \notin waiting => \A k \in Conns : owner[k] # u
  BY Apart DEF Stuck, TypeOK
<1>3. u \notin waiting /\ GiveBack(u) => owner' = owner
  <2> SUFFICES ASSUME u \notin waiting, GiveBack(u) PROVE owner' = owner
    OBVIOUS
  <2>1. owner' \in [Conns -> Users \cup {None}] /\ owner \in [Conns -> Users \cup {None}]
    BY Returned DEF TypeOK
  <2>2. \A k \in Conns : owner'[k] = owner[k]
    BY <1>2, Returned
  <2> QED
    BY <2>1, <2>2
<1> QED
  BY <1>1, <1>2, <1>3 DEF Grant, Holds, TypeOK

\* The self-deadlock of the credits does not dissolve: once every connection is
\* owned by a transaction that waits for its second one, no statement, delivery
\* or answer of anybody changes that.  Only a hang-up does.
THEOREM StuckUntilHangUp == Spec => [][Stuck => Stuck' \/ \E u \in Users : HangUp(u)]_vars
<1>1. TypeOK /\ [Next]_vars => (Stuck => Stuck' \/ \E u \in Users : HangUp(u))
  <2> SUFFICES ASSUME TypeOK, [Next]_vars, Stuck, \A u \in Users : ~HangUp(u)
               PROVE  Stuck'
    OBVIOUS
  <2> USE Apart
  <2>1. ASSUME UNCHANGED <<open, owner>>, waiting \subseteq waiting' PROVE Stuck'
    BY <2>1 DEF Stuck
  <2>2. ASSUME NEW u \in Users, Grant(u) PROVE Stuck'
    BY <2>2, StuckOwners
  <2>3. ASSUME NEW o \in Others, Query(o) PROVE Stuck'
    BY <2>1, <2>3 DEF Query, Await
  <2>4. ASSUME NEW o \in Others, Answer(o) PROVE Stuck'
    BY <2>1, <2>4, StuckOwners DEF Answer, Running
  <2>5. ASSUME NEW c \in Credits, Deliver(c) \/ Begin(c) PROVE Stuck'
    BY <2>1, <2>5 DEF Deliver, Begin, Await
  <2>6. ASSUME NEW c \in Credits, MarkProcessed(c) \/ GetAccountByNumber(c) \/ Commit(c)
        PROVE  Stuck'
    BY <2>1, <2>6, StuckOwners DEF MarkProcessed, GetAccountByNumber, Commit, Running, Await
  <2>7. ASSUME NEW c \in Credits, GetSystemAccount(c) PROVE Stuck'
    BY <2>7, StuckOwners DEF GetSystemAccount, Running
  <2>8. CASE UNCHANGED vars
    BY <2>1, <2>8 DEF vars
  <2> QED
    BY <2>2, <2>3, <2>4, <2>5, <2>6, <2>7, <2>8 DEF Next, CreditStep
<1> QED
  BY <1>1, TypeCorrect, PTL DEF Spec
=============================================================================
