-------------------------- MODULE CustomersProofs ---------------------------
(* Theorems about Customers for every value of its constants.              *)
EXTENDS Customers, TLAPS

\* What the proofs use of the assumptions on the constants.
LEMMA Requests ==
    /\ \A c \in Calls : CustomerOf[c] \in People /\ TierOf[c] \in Tiers
    /\ NoCall \notin Calls /\ MaxFaults \in Nat
BY CustomersAssumption

\* One more upgrade in a history.
LEMMA AppendIsSeq ==
    ASSUME NEW S, NEW h \in Seq(S), NEW e \in S
    PROVE  /\ Append(h, e) \in Seq(S)
           /\ Len(Append(h, e)) = Len(h) + 1 /\ Append(h, e)[Len(h) + 1] = e
           /\ \A i \in 1 .. Len(h) : Append(h, e)[i] = h[i]
OBVIOUS

-----------------------------------------------------------------------------
(* Types.                                                                  *)

\* The conjuncts of TypeOK that every step but a few leaves alone.
Tables ==
    /\ customers \subseteq People /\ nomba \subseteq People
    /\ tier \in [People -> Tiers] /\ from \in [Calls -> Tiers]
    /\ history \in [People -> Seq([from : Tiers, to : Tiers])]
    /\ open \subseteq versions /\ versions \subseteq Calls
    /\ closed \subseteq accounts /\ accounts \subseteq Calls

\* What a control state says of the call that is in it.
Reads(c) ==
    /\ pc[c] = "close" => target[c] \in Of(c, accounts)
    /\ pc[c] = "close_version" => target[c] \in Of(c, versions)
    /\ pc[c] \in InTx <=> lock[CustomerOf[c]] = c

\* A step of one call that opens and ends no transaction, with what it read.
LEMMA StepKeepsTypeOK ==
    ASSUME TypeOK, Tables', NEW c \in Calls, NEW s \in States, Goto(c, s),
           accounts \subseteq accounts', versions \subseteq versions',
           target' \in [Calls -> Calls \cup {NoCall}],
           \A d \in Calls \ {c} : target'[d] = target[d],
           s = "close" => target'[c] \in Of(c, accounts),
           s = "close_version" => target'[c] \in Of(c, versions),
           lock' = lock, pc[c] \notin InTx, s \notin InTx, up' = up,
           faults' = faults \/ (faults < MaxFaults /\ faults' = faults + 1)
    PROVE  TypeOK'
<1>1. pc' \in [Calls -> States] /\ pc'[c] = s /\ \A d \in Calls \ {c} : pc'[d] = pc[d]
  BY DEF TypeOK, Goto
<1>2. faults' \in 0 .. MaxFaults
  BY Requests DEF TypeOK
<1>3. ASSUME NEW d \in Calls PROVE Reads(d)'
  <2>1. CASE d = c
    BY <1>1, <2>1 DEF TypeOK, Reads, Of, InTx
  <2>2. CASE d # c
    BY <1>1, <2>2 DEF TypeOK, Reads, Of, InTx
  <2> QED
    BY <2>1, <2>2
<1> QED
  BY <1>1, <1>2, <1>3 DEF TypeOK, Tables, Reads

\* As StepKeepsTypeOK, for the steps of an upgrade.
LEMMA UpgradeKeepsTypeOK ==
    ASSUME TypeOK, Tables', NEW c \in Calls, NEW s \in States, Goto(c, s),
           UNCHANGED <<accounts, versions, target, up>>,
           s \notin {"close", "close_version"},
           lock[CustomerOf[c]] \in {NoCall, c},
           lock' = [lock EXCEPT ![CustomerOf[c]] = IF s \in InTx THEN c ELSE NoCall],
           faults' = faults \/ (faults < MaxFaults /\ faults' = faults + 1)
    PROVE  TypeOK'
<1>1. pc' \in [Calls -> States] /\ pc'[c] = s /\ \A d \in Calls \ {c} : pc'[d] = pc[d]
  BY DEF TypeOK, Goto
<1>2. faults' \in 0 .. MaxFaults
  BY Requests DEF TypeOK
<1>3. /\ lock' \in [People -> Calls \cup {NoCall}]
      /\ lock'[CustomerOf[c]] = IF s \in InTx THEN c ELSE NoCall
      /\ \A k \in People : k # CustomerOf[c] => lock'[k] = lock[k]
  BY Requests DEF TypeOK
<1>4. ASSUME NEW d \in Calls PROVE Reads(d)'
  <2>1. CASE d = c
    BY <1>1, <1>3, <2>1, Requests DEF Reads
  <2>2. CASE d # c
    <3>1. (lock'[CustomerOf[d]] = d) <=> (lock[CustomerOf[d]] = d)
      BY <1>3, <2>2, Requests
    <3> QED
      BY <1>1, <2>2, <3>1 DEF TypeOK, Reads, Of
  <2> QED
    BY <2>1, <2>2
<1> QED
  BY <1>1, <1>2, <1>3, <1>4 DEF TypeOK, Tables, Reads

\* The type invariant: a call acts on rows of its own customer, and a row lock
\* is held exactly as long as an upgrade's transaction is open.
THEOREM TypeCorrect == Spec => []TypeOK
<1>1. Init => TypeOK
  <2> SUFFICES ASSUME Init PROVE TypeOK
    OBVIOUS
  <2>1. history \in [People -> Seq([from : Tiers, to : Tiers])]
    BY DEF Init
  <2> QED
    BY <2>1, Requests DEF Init, TypeOK, States, Tiers, InTx
<1>2. TypeOK /\ [Next]_vars => TypeOK'
  <2> SUFFICES ASSUME TypeOK, [Next]_vars PROVE TypeOK'
    OBVIOUS
  <2> USE DEF kyc, identity, rows
  <2>0. Tables
    BY DEF TypeOK, Tables
  <2>1. ASSUME NEW c \in Calls, CreateCustomer(c) PROVE TypeOK'
    <3>1. Tables'
      BY <2>0, <2>1, Requests DEF CreateCustomer, Writes, Tables
    <3> QED
      BY <2>1, <3>1, StepKeepsTypeOK DEF CreateCustomer, Writes, Fault, Arrives, At, InTx, States, TypeOK
  <2>2. ASSUME NEW c \in Calls, CreateIdentityVersion(c) PROVE TypeOK'
    <3>1. Tables' /\ versions \subseteq versions'
      BY <2>0, <2>2 DEF CreateIdentityVersion, Writes, Tables
    <3> QED
      BY <2>2, <3>1, StepKeepsTypeOK DEF CreateIdentityVersion, Writes, Fault, At, InTx, States, TypeOK
  <2>3. ASSUME NEW c \in Calls, GetCustomer(c) PROVE TypeOK'
    <3>1. Tables'
      BY <2>0, <2>3 DEF GetCustomer, Tables
    <3> QED
      BY <2>3, <3>1, StepKeepsTypeOK DEF GetCustomer, Fault, Arrives, At, InTx, States, TypeOK
  <2>4. ASSUME NEW c \in Calls, ListAccountsByCustomer(c) PROVE TypeOK'
    <3>1. Tables'
      BY <2>0, <2>4 DEF ListAccountsByCustomer, Tables
    <3> QED
      BY <2>4, <3>1, StepKeepsTypeOK DEF ListAccountsByCustomer, Fault, At, InTx, States, TypeOK
  <2>5. ASSUME NEW c \in Calls, CreateVirtualAccount(c) PROVE TypeOK'
    <3>1. Tables'
      BY <2>0, <2>5, Requests DEF CreateVirtualAccount, Tables
    <3> QED
      BY <2>5, <3>1, StepKeepsTypeOK DEF CreateVirtualAccount, Fault, At, InTx, States, TypeOK
  <2>6. ASSUME NEW c \in Calls, CreateAccount(c) PROVE TypeOK'
    <3>1. Tables' /\ accounts \subseteq accounts'
      BY <2>0, <2>6 DEF CreateAccount, InsertAccount, Writes, Tables
    <3> QED
      BY <2>6, <3>1, StepKeepsTypeOK
         DEF CreateAccount, InsertAccount, Writes, Fault, At, InTx, States, TypeOK
  <2>7. ASSUME NEW c \in Calls, GetAccount(c) PROVE TypeOK'
    <3>1. Tables' /\ pc[c] = "new" /\ UNCHANGED <<accounts, versions, lock, up>>
      BY <2>0, <2>7 DEF GetAccount, Tables, Arrives, At
    <3>2. CASE \E a \in Of(c, accounts) :
                 /\ Read(c, a) /\ UNCHANGED faults
                 /\ Goto(c, CASE KindOf[c] = "rename" -> "current"
                              [] KindOf[c] = "close" /\ a \notin closed -> "close"
                              [] OTHER -> "error")
      <4>1. PICK a \in Of(c, accounts) :
               /\ Read(c, a) /\ UNCHANGED faults
               /\ Goto(c, CASE KindOf[c] = "rename" -> "current"
                            [] KindOf[c] = "close" /\ a \notin closed -> "close"
                            [] OTHER -> "error")
        BY <3>2
      <4>2. PICK s \in {"current", "close", "error"} : Goto(c, s)
        BY <4>1
      <4>3. /\ target' \in [Calls -> Calls \cup {NoCall}] /\ target'[c] = a
            /\ \A d \in Calls \ {c} : target'[d] = target[d]
        BY <4>1 DEF Read, TypeOK, Of
      <4> QED
        BY <3>1, <4>1, <4>2, <4>3, StepKeepsTypeOK DEF InTx, States
    <3>3. CASE Goto(c, "error") /\ UNCHANGED target
               /\ (faults' = faults \/ (faults < MaxFaults /\ faults' = faults + 1))
      BY <3>1, <3>3, StepKeepsTypeOK DEF InTx, States, TypeOK
    <3> QED
      BY <2>7, <3>2, <3>3 DEF GetAccount, Fault
  <2>8. ASSUME NEW c \in Calls, UpdateAccountStatus(c) PROVE TypeOK'
    <3>1. Tables'
      BY <2>0, <2>8 DEF UpdateAccountStatus, Writes, Tables, At, TypeOK, Of
    <3> QED
      BY <2>8, <3>1, StepKeepsTypeOK DEF UpdateAccountStatus, Writes, Fault, At, InTx, States, TypeOK
  <2>9. ASSUME NEW c \in Calls, GetCurrentIdentity(c) PROVE TypeOK'
    <3>1. Tables' /\ pc[c] = "current" /\ UNCHANGED <<accounts, versions, lock, up>>
      BY <2>0, <2>9 DEF GetCurrentIdentity, Tables, At
    <3>2. ASSUME NEW v \in Of(c, open),
                 Read(c, v), Goto(c, "close_version"), UNCHANGED faults
          PROVE  TypeOK'
      <4>1. v \in Of(c, versions)
        BY <2>0 DEF Of, Tables
      <4>2. /\ target' \in [Calls -> Calls \cup {NoCall}] /\ target'[c] = v
            /\ \A d \in Calls \ {c} : target'[d] = target[d]
        BY <2>0, <3>2, <4>1 DEF Read, TypeOK, Of, Tables
      <4> QED
        BY <3>1, <3>2, <4>1, <4>2, StepKeepsTypeOK DEF InTx, States
    <3>3. CASE Goto(c, "error") /\ UNCHANGED target
               /\ (faults' = faults \/ (faults < MaxFaults /\ faults' = faults + 1))
      BY <3>1, <3>3, StepKeepsTypeOK DEF InTx, States, TypeOK
    <3> QED
      BY <2>9, <3>2, <3>3 DEF GetCurrentIdentity, Fault
  <2>10. ASSUME NEW c \in Calls, CloseIdentityVersion(c) PROVE TypeOK'
    <3>1. Tables'
      BY <2>0, <2>10 DEF CloseIdentityVersion, Writes, Tables
    <3> QED
      BY <2>10, <3>1, StepKeepsTypeOK DEF CloseIdentityVersion, Writes, Fault, At, InTx, States, TypeOK
  <2>11. ASSUME NEW c \in Calls, LockCustomer(c) PROVE TypeOK'
    <3>1. Tables' /\ pc[c] = "new" /\ lock[CustomerOf[c]] = NoCall
      BY <2>0, <2>11, Requests DEF LockCustomer, Arrives, At, Tables
    <3>2. lock = [lock EXCEPT ![CustomerOf[c]] = NoCall]
      BY <3>1, Requests DEF TypeOK
    <3> QED
      BY <2>11, <3>1, <3>2, UpgradeKeepsTypeOK DEF LockCustomer, SetLock, Fault, InTx, States
  <2>12. ASSUME NEW c \in Calls, UpdateTier(c) \/ InsertHistory(c) PROVE TypeOK'
    <3>1. Tables' /\ lock[CustomerOf[c]] = c
      BY <2>0, <2>12 DEF UpdateTier, InsertHistory, InTransaction, At, Tables, TypeOK, InTx
    <3>2. lock = [lock EXCEPT ![CustomerOf[c]] = c]
      BY <3>1, Requests DEF TypeOK
    <3> QED
      BY <2>12, <3>1, <3>2, UpgradeKeepsTypeOK
         DEF UpdateTier, InsertHistory, InTransaction, SetLock, Fault, InTx, States
  <2>13. ASSUME NEW c \in Calls, CommitUpgrade(c) PROVE TypeOK'
    <3>1. [from |-> from[c], to |-> TierOf[c]] \in [from : Tiers, to : Tiers]
      BY <2>0, Requests DEF Tables
    <3>2. Append(history[CustomerOf[c]], [from |-> from[c], to |-> TierOf[c]])
             \in Seq([from : Tiers, to : Tiers])
      <4>1. history[CustomerOf[c]] \in Seq([from : Tiers, to : Tiers])
        BY <2>0, Requests DEF Tables
      <4> QED
        BY <3>1, <4>1, AppendIsSeq
    <3>3. Tables'
      <4>1. history' \in [People -> Seq([from : Tiers, to : Tiers])]
        BY <2>0, <2>13, <3>2 DEF CommitUpgrade, Writes, Tables
      <4>2. tier' \in [People -> Tiers]
        BY <2>0, <2>13, Requests DEF CommitUpgrade, Writes, Tables
      <4> QED
        BY <2>0, <2>13, <4>1, <4>2 DEF CommitUpgrade, Tables
    <3>4. lock[CustomerOf[c]] = c
      BY <2>13 DEF CommitUpgrade, At, TypeOK, InTx
    <3> QED
      BY <2>13, <3>3, <3>4, UpgradeKeepsTypeOK DEF CommitUpgrade, Writes, SetLock, Fault, InTx, States
  <2>14. CASE Crash
    <3>1. pc' \in [Calls -> States] /\ \A c \in Calls : pc'[c] \in Answered \cup {"new"}
      BY <2>14 DEF Crash, TypeOK, States, Answered
    <3>2. lock' = [k \in People |-> NoCall] /\ up' = FALSE /\ UNCHANGED target
      BY <2>14 DEF Crash
    <3>4. faults' \in 0 .. MaxFaults
      BY <2>14, Requests DEF Crash, Fault, TypeOK
    <3>5. Tables'
      BY <2>0, <2>14 DEF Crash, Tables
    <3>3. \A c \in Calls : Reads(c)'
      BY <3>1, <3>2, Requests DEF Reads, Answered, InTx
    <3> QED
      BY <3>1, <3>2, <3>3, <3>4, <3>5 DEF TypeOK, Tables, Reads
  <2>15. CASE Restart
    BY <2>15 DEF Restart, TypeOK, Of
  <2>16. CASE UNCHANGED vars
    BY <2>16 DEF vars, TypeOK, Of
  <2> QED
    BY <2>1, <2>2, <2>3, <2>4, <2>5, <2>6, <2>7, <2>8, <2>9, <2>10, <2>11, <2>12, <2>13,
       <2>14, <2>15, <2>16 DEF Next, Step
<1> QED
  BY <1>1, <1>2, PTL DEF Spec

-----------------------------------------------------------------------------
(* Accounts.                                                               *)

\* Only CreateAccount adds an account, and only the customer's first.
LEMMA NewAccountIsFirst ==
    ASSUME TypeOK, [Next]_vars, NEW b \in accounts' \ accounts
    PROVE  Of(b, accounts) = {} /\ accounts' = accounts \cup {b}
<1> USE DEF kyc, identity, rows
<1>1. PICK c \in Calls : CreateAccount(c)
  BY DEF Next, Step, vars, CreateCustomer, CreateIdentityVersion, GetCustomer,
         ListAccountsByCustomer, CreateVirtualAccount, GetAccount, UpdateAccountStatus,
         GetCurrentIdentity, CloseIdentityVersion, LockCustomer, UpdateTier, InsertHistory,
         InTransaction, CommitUpgrade, Crash, Restart
<1> QED
  BY <1>1 DEF CreateAccount, InsertAccount, Writes

\* Accounts and closures are never undone.
LEMMA AccountsGrow ==
    ASSUME [Next]_vars
    PROVE  accounts \subseteq accounts' /\ closed \subseteq closed'
<1> USE DEF kyc, identity, rows
<1>1. accounts \subseteq accounts'
  BY DEF Next, Step, vars, CreateCustomer, CreateIdentityVersion, GetCustomer,
         ListAccountsByCustomer, CreateVirtualAccount, CreateAccount, InsertAccount, Writes,
         GetAccount, UpdateAccountStatus, GetCurrentIdentity, CloseIdentityVersion, LockCustomer,
         UpdateTier, InsertHistory, InTransaction, CommitUpgrade, Crash, Restart
<1>2. closed \subseteq closed'
  BY DEF Next, Step, vars, CreateCustomer, CreateIdentityVersion, GetCustomer,
         ListAccountsByCustomer, CreateVirtualAccount, CreateAccount, Writes,
         GetAccount, UpdateAccountStatus, GetCurrentIdentity, CloseIdentityVersion, LockCustomer,
         UpdateTier, InsertHistory, InTransaction, CommitUpgrade, Crash, Restart
<1> QED
  BY <1>1, <1>2

\* However many provisions of one customer overlap, are repeated or fail
\* half-way, the customer has at most one account.
THEOREM AccountIsUnique == Spec => []OneAccount
<1>1. Init => OneAccount
  BY DEF Init, OneAccount
<1>2. TypeOK /\ OneAccount /\ [Next]_vars => OneAccount'
  <2> SUFFICES ASSUME TypeOK, OneAccount, [Next]_vars,
                      NEW a \in accounts', NEW b \in accounts', CustomerOf[a] = CustomerOf[b]
               PROVE  a = b
    BY DEF OneAccount
  <2>1. CASE a \in accounts /\ b \in accounts
    BY <2>1 DEF OneAccount
  <2>2. CASE a \notin accounts
    BY <2>2, NewAccountIsFirst DEF Of
  <2>3. CASE b \notin accounts
    BY <2>3, NewAccountIsFirst DEF Of
  <2> QED
    BY <2>1, <2>2, <2>3
<1> QED
  BY <1>1, <1>2, TypeCorrect, PTL DEF Spec

\* A closed account stays closed and its customer never gets another.
THEOREM ClosureIsFinal == Spec => ClosureFinal
<1>1. TypeOK /\ OneAccount /\ [Next]_vars =>
         [\A a \in closed :
             /\ a \in closed'
             /\ \A b \in accounts' \ closed' : CustomerOf[b] # CustomerOf[a]]_vars
  <2> SUFFICES ASSUME TypeOK, OneAccount, [Next]_vars, NEW a \in closed
               PROVE  /\ a \in closed'
                      /\ \A b \in accounts' \ closed' : CustomerOf[b] # CustomerOf[a]
    OBVIOUS
  <2>1. a \in closed' /\ a \in accounts
    BY AccountsGrow DEF TypeOK
  <2>2. ASSUME NEW b \in accounts' \ closed', CustomerOf[b] = CustomerOf[a] PROVE FALSE
    <3>1. b \in accounts
      BY <2>1, <2>2, NewAccountIsFirst DEF Of
    <3> QED
      BY <2>1, <2>2, <3>1 DEF OneAccount
  <2> QED
    BY <2>1, <2>2
<1> QED
  BY <1>1, TypeCorrect, AccountIsUnique, PTL DEF Spec, ClosureFinal

-----------------------------------------------------------------------------
(* Accounts at Nomba.                                                      *)

\* Only provisions get past the look-up, which has found the customer, so the
\* insert cannot fail on the foreign key once Nomba has the account.
FoundInv ==
    /\ OrphanNeedsTorn
    /\ \A c \in Calls : pc[c] \in {"list", "nomba", "persist"} =>
                           CustomerOf[c] \in customers /\ KindOf[c] = "provision"

\* A step that leaves Nomba alone, in which a provision leaves "persist" torn
\* only, and none goes past its look-up.
LEMMA OtherKeepsFound ==
    ASSUME TypeOK, FoundInv, [Next]_vars, nomba' = nomba, customers \subseteq customers',
           \A c \in Calls :
              \/ pc'[c] = pc[c]
              \/ pc[c] = "persist" /\ pc'[c] = "torn"
              \/ /\ pc[c] \notin {"persist", "torn"}
                 /\ pc'[c] \notin {"list", "nomba", "persist"}
    PROVE  FoundInv'
<1>1. accounts \subseteq accounts'
  BY AccountsGrow
<1> QED
  BY <1>1 DEF FoundInv, OrphanNeedsTorn

\* Nomba has no account unknown to the database, save those that are being
\* inserted and those of provisions that were torn before the insert.
THEOREM OrphansAreTorn == Spec => []OrphanNeedsTorn
<1>1. Init => FoundInv
  BY DEF Init, FoundInv, OrphanNeedsTorn
<1>2. TypeOK /\ FoundInv /\ [Next]_vars => FoundInv'
  <2> SUFFICES ASSUME TypeOK, FoundInv, [Next]_vars PROVE FoundInv'
    OBVIOUS
  <2> USE DEF kyc, identity, rows
  <2>0. pc \in [Calls -> States]
    BY DEF TypeOK
  <2>1. ASSUME NEW c \in Calls, GetCustomer(c) PROVE FoundInv'
    <3>1. \A d \in Calls \ {c} : pc'[d] = pc[d]
      BY <2>0, <2>1 DEF GetCustomer, Goto
    <3>2. /\ pc[c] = "new" /\ KindOf[c] = "provision"
          /\ pc'[c] = "error" \/ (pc'[c] = "list" /\ CustomerOf[c] \in customers)
      BY <2>0, <2>1 DEF GetCustomer, Goto, Arrives, At
    <3>3. UNCHANGED <<customers, nomba, accounts>>
      BY <2>1 DEF GetCustomer
    <3> QED
      BY <3>1, <3>2, <3>3 DEF FoundInv, OrphanNeedsTorn
  <2>2. ASSUME NEW c \in Calls, ListAccountsByCustomer(c) PROVE FoundInv'
    <3>1. \A d \in Calls \ {c} : pc'[d] = pc[d]
      BY <2>0, <2>2 DEF ListAccountsByCustomer, Goto
    <3>2. pc[c] = "list" /\ pc'[c] \in {"ok", "nomba"}
      BY <2>0, <2>2 DEF ListAccountsByCustomer, Goto, At
    <3>3. UNCHANGED <<customers, nomba, accounts>>
      BY <2>2 DEF ListAccountsByCustomer
    <3> QED
      BY <3>1, <3>2, <3>3 DEF FoundInv, OrphanNeedsTorn
  <2>3. ASSUME NEW c \in Calls, CreateVirtualAccount(c) PROVE FoundInv'
    <3>1. \A d \in Calls \ {c} : pc'[d] = pc[d]
      BY <2>0, <2>3 DEF CreateVirtualAccount, Goto
    <3>2. UNCHANGED <<customers, accounts>> /\ pc[c] = "nomba" /\ KindOf[c] = "provision"
      BY <2>3 DEF CreateVirtualAccount, At, FoundInv
    <3>3. \/ nomba' = nomba \cup {CustomerOf[c]} /\ pc'[c] \in {"persist", "torn"}
          \/ nomba' = nomba /\ pc'[c] = "error"
      BY <2>0, <2>3 DEF CreateVirtualAccount, Goto
    <3> QED
      BY <3>1, <3>2, <3>3 DEF FoundInv, OrphanNeedsTorn
  <2>4. ASSUME NEW c \in Calls, CreateAccount(c) PROVE FoundInv'
    <3>1. \A d \in Calls \ {c} : pc'[d] = pc[d]
      BY <2>0, <2>4 DEF CreateAccount, InsertAccount, Writes, Goto
    <3>2. /\ UNCHANGED <<customers, nomba>> /\ accounts \subseteq accounts'
          /\ pc[c] = "persist" /\ KindOf[c] = "provision" /\ CustomerOf[c] \in customers
      BY <2>4 DEF CreateAccount, InsertAccount, Writes, At, FoundInv
    <3>3. pc'[c] \in {"identity", "torn", "error"}
      BY <2>0, <2>4 DEF CreateAccount, InsertAccount, Writes, Goto
    <3>4. pc'[c] = "torn" \/ \E a \in accounts' : CustomerOf[a] = CustomerOf[c]
      <4>1. CASE Of(c, accounts) # {}
        BY <3>2, <4>1 DEF Of
      <4>2. CASE Of(c, accounts) = {}
        BY <2>0, <2>4, <3>2, <4>2 DEF CreateAccount, InsertAccount, Writes, Goto
      <4> QED
        BY <4>1, <4>2
    <3> QED
      BY <3>1, <3>2, <3>3, <3>4 DEF FoundInv, OrphanNeedsTorn
  <2>5. ASSUME NEW c \in Calls,
               \/ CreateCustomer(c) \/ CreateIdentityVersion(c) \/ GetAccount(c)
               \/ UpdateAccountStatus(c) \/ GetCurrentIdentity(c) \/ CloseIdentityVersion(c)
               \/ LockCustomer(c) \/ UpdateTier(c) \/ InsertHistory(c) \/ CommitUpgrade(c)
        PROVE FoundInv'
    <3>1. nomba' = nomba /\ customers \subseteq customers' /\ pc[c] \notin {"persist", "torn"}
      BY <2>5 DEF CreateCustomer, CreateIdentityVersion, GetAccount, UpdateAccountStatus,
             GetCurrentIdentity, CloseIdentityVersion, LockCustomer, UpdateTier, InsertHistory,
             InTransaction, CommitUpgrade, Writes, Arrives, At
    <3>2. PICK s \in States \ {"list", "nomba", "persist"} : Goto(c, s)
      BY <2>5 DEF CreateCustomer, CreateIdentityVersion, GetAccount, UpdateAccountStatus,
             GetCurrentIdentity, CloseIdentityVersion, LockCustomer, UpdateTier, InsertHistory,
             InTransaction, CommitUpgrade, Writes, States
    <3> QED
      BY <2>0, <3>1, <3>2, OtherKeepsFound DEF Goto
  <2>6. CASE Crash
    <3>1. \A c \in Calls : \/ pc'[c] = pc[c]
                           \/ pc[c] = "persist" /\ pc'[c] = "torn"
                           \/ pc[c] \notin {"persist", "torn"} /\ pc'[c] \in {"torn", "gone"}
      BY <2>6 DEF Crash, Answered
    <3> QED
      BY <2>6, <3>1, OtherKeepsFound DEF Crash
  <2>7. CASE Restart \/ UNCHANGED vars
    BY <2>7 DEF Restart, vars, FoundInv, OrphanNeedsTorn
  <2> QED
    BY <2>1, <2>2, <2>3, <2>4, <2>5, <2>6, <2>7 DEF Next, Step
<1>3. FoundInv => OrphanNeedsTorn
  BY DEF FoundInv
<1> QED
  BY <1>1, <1>2, <1>3, TypeCorrect, PTL DEF Spec

-----------------------------------------------------------------------------
(* Names.                                                                  *)

\* Accounts are inserted by provisions and versions closed by renames.
NamedInv ==
    /\ NamedUnlessTorn
    /\ \A c \in Calls : pc[c] \in {"list", "nomba", "persist", "current", "close_version"} =>
                           c \in Naming

\* The steps that touch neither accounts nor open versions.
LEMMA OtherKeepsNamed ==
    ASSUME NamedInv, UNCHANGED <<accounts, open>>,
           \A c \in Calls :
              /\ pc[c] \in {"identity", "torn"} => pc'[c] \in {"identity", "torn"}
              /\ \/ pc'[c] \notin {"list", "nomba", "persist", "current", "close_version"}
                 \/ c \in Naming
    PROVE  NamedInv'
BY DEF NamedInv, NamedUnlessTorn, Naming, Of

\* Every account has a current name or a request that is about to give it one,
\* however many renames overlap, unless such a request was torn.
THEOREM NameLossIsTorn == Spec => []NamedUnlessTorn
<1>1. Init => NamedInv
  BY DEF Init, NamedInv, NamedUnlessTorn
<1>2. TypeOK /\ NamedInv /\ [Next]_vars => NamedInv'
  <2> SUFFICES ASSUME TypeOK, NamedInv, [Next]_vars PROVE NamedInv'
    OBVIOUS
  <2> USE DEF kyc, identity, rows
  <2>0. pc \in [Calls -> States]
    BY DEF TypeOK
  <2>1. ASSUME NEW c \in Calls, CreateIdentityVersion(c) PROVE NamedInv'
    <3>1. UNCHANGED accounts /\ \A d \in Calls \ {c} : pc'[d] = pc[d]
      BY <2>0, <2>1 DEF CreateIdentityVersion, Writes, Goto
    <3>2. pc'[c] \in {"ok", "torn"} /\ open \subseteq open'
      BY <2>0, <2>1 DEF CreateIdentityVersion, Writes, Goto
    <3>3. CASE c \in open'
      <4>1. \A a \in accounts : CustomerOf[c] = CustomerOf[a] => Of(a, open') # {}
        BY <3>3 DEF Of
      <4>2. \A a \in accounts : Of(a, open) \subseteq Of(a, open')
        BY <3>2 DEF Of
      <4>3. \A a \in accounts : \A d \in Of(a, Naming) : d # c => pc'[d] = pc[d]
        BY <3>1 DEF Of, Naming
      <4> QED
        BY <3>1, <3>2, <4>1, <4>2, <4>3 DEF NamedInv, NamedUnlessTorn, Of
    <3>4. CASE UNCHANGED open /\ pc'[c] = "torn"
      BY <3>1, <3>4, OtherKeepsNamed DEF NamedInv
    <3> QED
      BY <2>0, <2>1, <3>3, <3>4 DEF CreateIdentityVersion, Writes, Goto
  <2>2. ASSUME NEW c \in Calls, CloseIdentityVersion(c) PROVE NamedInv'
    <3>1. /\ UNCHANGED accounts /\ pc[c] = "close_version" /\ c \in Naming
          /\ \A d \in Calls \ {c} : pc'[d] = pc[d]
      BY <2>0, <2>2 DEF CloseIdentityVersion, Writes, Goto, At, NamedInv
    <3>2. CASE open' = open \ {target[c]} /\ pc'[c] \in {"identity", "torn"}
      <4>1. CustomerOf[target[c]] = CustomerOf[c]
        BY <3>1 DEF TypeOK, Of
      <4>2. ASSUME NEW a \in accounts
            PROVE  Of(a, open') # {} \/ \E d \in Of(a, Naming) : pc'[d] \in {"identity", "torn"}
        <5>1. CASE CustomerOf[c] = CustomerOf[a]
          BY <3>1, <3>2, <5>1 DEF Of
        <5>2. CASE CustomerOf[c] # CustomerOf[a]
          <6>1. Of(a, open') = Of(a, open)
            BY <3>2, <4>1, <5>2 DEF Of
          <6> QED
            BY <3>1, <6>1, <5>2 DEF NamedInv, NamedUnlessTorn, Of, Naming
        <5> QED
          BY <5>1, <5>2
      <4> QED
        BY <3>1, <3>2, <4>2 DEF NamedInv, NamedUnlessTorn, Of
    <3>3. CASE UNCHANGED open /\ pc'[c] = "error"
      BY <3>1, <3>3, OtherKeepsNamed DEF NamedInv
    <3> QED
      BY <2>0, <2>2, <3>2, <3>3 DEF CloseIdentityVersion, Writes, Goto
  <2>3. ASSUME NEW c \in Calls, CreateAccount(c) PROVE NamedInv'
    <3>1. /\ UNCHANGED open /\ pc[c] = "persist" /\ c \in Naming
          /\ \A d \in Calls \ {c} : pc'[d] = pc[d]
      BY <2>0, <2>3 DEF CreateAccount, InsertAccount, Writes, Goto, At, NamedInv
    <3>2. CASE accounts' = accounts \cup {c} /\ pc'[c] \in {"identity", "torn"}
      BY <3>1, <3>2 DEF NamedInv, NamedUnlessTorn, Of, Naming
    <3>3. CASE UNCHANGED accounts /\ pc'[c] \in {"torn", "error"}
      BY <3>1, <3>3, OtherKeepsNamed DEF NamedInv
    <3> QED
      BY <2>0, <2>3, <3>2, <3>3 DEF CreateAccount, InsertAccount, Writes, Goto
  <2>4. ASSUME NEW c \in Calls,
               \/ CreateCustomer(c) \/ GetCustomer(c) \/ ListAccountsByCustomer(c)
               \/ CreateVirtualAccount(c) \/ GetAccount(c) \/ UpdateAccountStatus(c)
               \/ GetCurrentIdentity(c)
               \/ LockCustomer(c) \/ UpdateTier(c) \/ InsertHistory(c) \/ CommitUpgrade(c)
        PROVE NamedInv'
    <3>1. UNCHANGED <<accounts, open>> /\ pc[c] \notin {"identity", "torn"}
      BY <2>4 DEF CreateCustomer, GetCustomer, ListAccountsByCustomer, CreateVirtualAccount,
             GetAccount, UpdateAccountStatus, GetCurrentIdentity, LockCustomer, UpdateTier,
             InsertHistory, InTransaction, CommitUpgrade, Writes, Arrives, At
    <3>2. PICK s \in States : Goto(c, s)
      BY <2>4 DEF CreateCustomer, GetCustomer, ListAccountsByCustomer, CreateVirtualAccount,
             GetAccount, UpdateAccountStatus, GetCurrentIdentity, LockCustomer, UpdateTier,
             InsertHistory, InTransaction, CommitUpgrade, Writes, States
    <3>3. \/ c \in Naming
          \/ pc'[c] \notin {"list", "nomba", "persist", "current", "close_version"}
      BY <2>0, <2>4 DEF CreateCustomer, GetCustomer, ListAccountsByCustomer, CreateVirtualAccount,
             GetAccount, UpdateAccountStatus, GetCurrentIdentity, LockCustomer, UpdateTier,
             InsertHistory, InTransaction, CommitUpgrade, Writes, Arrives, At, Goto, NamedInv,
             Naming
    <3> QED
      BY <2>0, <3>1, <3>2, <3>3, OtherKeepsNamed DEF Goto, NamedInv
  <2>5. CASE Crash
    <3>1. \A c \in Calls : \/ pc'[c] = pc[c]
                           \/ pc[c] = "identity" /\ pc'[c] = "torn"
                           \/ pc[c] \notin {"identity", "torn"} /\ pc'[c] \in {"torn", "gone"}
      BY <2>5 DEF Crash, Answered
    <3> QED
      BY <2>5, <3>1, OtherKeepsNamed DEF Crash, NamedInv
  <2>6. CASE Restart \/ UNCHANGED vars
    BY <2>6, OtherKeepsNamed DEF Restart, vars, NamedInv
  <2> QED
    BY <2>1, <2>2, <2>3, <2>4, <2>5, <2>6 DEF Next, Step
<1>3. NamedInv => NamedUnlessTorn
  BY DEF NamedInv
<1> QED
  BY <1>1, <1>2, <1>3, TypeCorrect, PTL DEF Spec

(***************************************************************************)
(* Second names.  The versions of a customer are a tree: a rename hangs    *)
(* its version under the one it has read, which is closed by then.  Only   *)
(* leaves can be open, and while no version has been replaced twice there  *)
(* is one leaf.                                                            *)
(***************************************************************************)
GivenName(k) == \E n \in Named : CustomerOf[n] = k

Leaf(v) == \A r \in versions : KindOf[r] = "rename" => target[r] # v

\* Which endpoint a control state belongs to.
Kinded(c) ==
    /\ pc[c] \in {"list", "nomba", "persist"} => KindOf[c] = "provision"
    /\ pc[c] \in {"current", "close_version"} => KindOf[c] = "rename"
    /\ pc[c] = "identity" => KindOf[c] \in {"provision", "rename"} \/ c \in Named
    /\ c \in versions => pc[c] \in Answered

\* Where the version of a call hangs, or will.
Hung(c) ==
    /\ (c \in versions \/ pc[c] = "identity") /\ KindOf[c] = "rename"
          => target[c] \in Of(c, versions) \ open
    /\ pc[c] = "identity" /\ KindOf[c] = "provision" /\ ~GivenName(CustomerOf[c])
          => c \in accounts /\ Of(c, versions) = {}

OneLeaf(k) ==
    ~GivenName(k) /\ ~Forked(k) =>
        \A v, w \in versions :
            CustomerOf[v] = k /\ CustomerOf[w] = k /\ Leaf(v) /\ Leaf(w) => v = w

NameInv ==
    /\ \A c \in Calls : Kinded(c) /\ Hung(c)
    /\ \A v \in versions : GivenName(CustomerOf[v]) \/ Of(v, accounts) # {}
    /\ \A k \in People : OneLeaf(k)

\* Steps that neither add a version nor bring a call to adding one.
LEMMA OtherKeepsNames ==
    ASSUME TypeOK, NameInv, UNCHANGED versions, open' \subseteq open,
           accounts \subseteq accounts',
           \A c \in Calls :
              /\ Kinded(c)'
              /\ pc'[c] = "identity" => pc[c] = "identity"
              /\ c \in versions \/ pc'[c] = "identity" => target'[c] = target[c]
    PROVE  NameInv'
<1>1. ASSUME NEW c \in Calls PROVE Hung(c)'
  BY DEF NameInv, Hung, Of
<1>2. \A v \in versions' : GivenName(CustomerOf[v]) \/ Of(v, accounts') # {}
  BY DEF NameInv, Of
<1>3. \A v \in versions : target'[v] = target[v]
  BY DEF TypeOK
<1>4. ASSUME NEW k \in People PROVE OneLeaf(k)'
  BY <1>3 DEF NameInv, OneLeaf, Forked, Leaf
<1> QED
  BY <1>1, <1>2, <1>4 DEF NameInv, Of

\* A call gets ready to add a version: an account was inserted, a version was
\* closed, or a customer was registered by name.
LEMMA ReadyKeepsNames ==
    ASSUME TypeOK, NameInv, UNCHANGED <<versions, target>>, open' \subseteq open,
           accounts \subseteq accounts', NEW c \in Calls,
           pc[c] \in {"new", "persist", "close_version"}, Goto(c, "identity"),
           \/ c \in Named /\ KindOf[c] = "register"
           \/ KindOf[c] = "rename" /\ target[c] \in Of(c, versions) \ open'
           \/ KindOf[c] = "provision" /\ Of(c, accounts) = {} /\ c \in accounts'
    PROVE  NameInv'
<1>1. pc'[c] = "identity" /\ \A d \in Calls \ {c} : pc'[d] = pc[d]
  BY DEF Goto, TypeOK
<1>2. c \notin versions
  BY DEF NameInv, Kinded, Answered
<1>3. ASSUME NEW d \in Calls PROVE Kinded(d)'
  BY <1>1, <1>2 DEF NameInv, Kinded
<1>4. ASSUME NEW d \in Calls PROVE Hung(d)'
  <2>1. CASE d # c
    BY <1>1, <2>1 DEF NameInv, Hung, Of
  <2>2. CASE d = c
    <3>1. KindOf[c] = "provision" /\ ~GivenName(CustomerOf[c]) => Of(c, versions) = {}
      BY DEF NameInv, Of
    <3> QED
      BY <2>2, <3>1 DEF Hung, Of
  <2> QED
    BY <2>1, <2>2
<1>5. \A v \in versions' : GivenName(CustomerOf[v]) \/ Of(v, accounts') # {}
  BY DEF NameInv, Of
<1>6. ASSUME NEW k \in People PROVE OneLeaf(k)'
  BY DEF NameInv, OneLeaf, Forked, Leaf
<1> QED
  BY <1>3, <1>4, <1>5, <1>6 DEF NameInv, Of

\* A new version: the customer's first one, or a leaf in place of the one that
\* it replaces, or a fork.
LEMMA NewVersionKeepsNames ==
    ASSUME TypeOK, OneAccount, NameInv, NEW c \in Calls, pc[c] = "identity",
           versions' = versions \cup {c}, open' = open \cup {c},
           UNCHANGED <<accounts, target>>, NEW s \in Answered, Goto(c, s)
    PROVE  NameInv'
<1>1. pc'[c] \in Answered /\ \A d \in Calls \ {c} : pc'[d] = pc[d]
  BY DEF Goto, TypeOK
<1>2. c \notin versions /\ CustomerOf[c] \in People /\ versions \subseteq Calls
  BY Requests DEF NameInv, Kinded, Answered, TypeOK
<1>3. ASSUME NEW d \in Calls PROVE Kinded(d)'
  BY <1>1 DEF NameInv, Kinded, Answered
<1>4. \/ c \in Named
      \/ KindOf[c] = "rename" /\ target[c] \in Of(c, versions) \ open
      \/ /\ KindOf[c] = "provision"
         /\ ~GivenName(CustomerOf[c]) => c \in accounts /\ Of(c, versions) = {}
  BY DEF NameInv, Kinded, Hung
<1>5. c \in Named => GivenName(CustomerOf[c])
  BY DEF GivenName
<1>6. ASSUME NEW d \in Calls PROVE Hung(d)'
  <2>1. ASSUME d \in versions' \/ pc'[d] = "identity", KindOf[d] = "rename"
        PROVE  target[d] \in Of(d, versions) \ open /\ target[d] # c
    <3>1. d \in versions \/ pc[d] = "identity"
      BY <1>1, <2>1
    <3> QED
      BY <1>2, <2>1, <3>1 DEF NameInv, Hung, Of
  <2>2. ASSUME pc'[d] = "identity", KindOf[d] = "provision", ~GivenName(CustomerOf[d])
        PROVE  d \in accounts /\ Of(d, versions') = {}
    <3>1. /\ d # c /\ pc[d] = "identity"
      BY <1>1, <2>2 DEF Answered
    <3>2. d \in accounts /\ Of(d, versions) = {}
      BY <2>2, <3>1 DEF NameInv, Hung
    <3>3. CustomerOf[c] # CustomerOf[d]
      BY <1>4, <1>5, <2>2, <3>1, <3>2 DEF Of, OneAccount
    <3> QED
      BY <3>2, <3>3 DEF Of
  <2> QED
    BY <2>1, <2>2 DEF Hung, Of
<1>7. ASSUME NEW v \in versions' PROVE GivenName(CustomerOf[v]) \/ Of(v, accounts') # {}
  <2>1. CASE v # c
    BY <2>1 DEF NameInv, Of
  <2>2. CASE v = c
    <3>1. KindOf[c] = "rename" => GivenName(CustomerOf[c]) \/ Of(c, accounts) # {}
      BY <1>4, <1>5 DEF NameInv, Of
    <3> QED
      BY <1>4, <1>5, <2>2, <3>1 DEF Of
  <2> QED
    BY <2>1, <2>2
<1>8. ASSUME NEW k \in People, ~GivenName(k), ~Forked(k)', NEW v \in versions', NEW w \in versions',
             CustomerOf[v] = k, CustomerOf[w] = k, Leaf(v)', Leaf(w)'
      PROVE  v = w
  <2>1. ~Forked(k)
    BY <1>8 DEF Forked
  <2>2. \A u \in versions : Leaf(u)' => Leaf(u)
    BY DEF Leaf
  <2>3. CASE v # c /\ w # c
    BY <1>8, <2>1, <2>2, <2>3 DEF NameInv, OneLeaf
  <2>4. ASSUME NEW u \in versions, CustomerOf[u] = k, CustomerOf[c] = k, Leaf(u)'
        PROVE  FALSE
    <3>1. KindOf[c] = "rename" /\ target[c] \in Of(c, versions)
      BY <1>4, <1>5, <1>8, <2>4 DEF Of
    <3>2. target[c] # u
      BY <2>4, <3>1 DEF Leaf
    <3>3. ~Leaf(target[c])
      BY <1>8, <2>1, <2>2, <2>4, <3>1, <3>2 DEF NameInv, OneLeaf, Of
    <3>4. PICK r \in versions : KindOf[r] = "rename" /\ target[r] = target[c]
      BY <3>3 DEF Leaf
    <3>5. CustomerOf[r] = k /\ r # c
      BY <1>2, <2>4, <3>1, <3>4 DEF NameInv, Hung, Of
    <3> QED
      BY <1>8, <2>4, <3>1, <3>4, <3>5 DEF Forked
  <2> QED
    BY <1>8, <2>3, <2>4
<1> QED
  BY <1>3, <1>6, <1>7, <1>8 DEF NameInv, OneLeaf, Of

\* Two current names of one customer come from a name given at the
\* registration or from two renames of one version; nothing that fails, and
\* nothing else that overlaps, leaves a second one.
THEOREM ExtraNamesAreForks == Spec => []ExtraNameNeedsFork
<1>1. Init => NameInv
  <2> SUFFICES ASSUME Init PROVE NameInv
    OBVIOUS
  <2>1. versions = {} /\ \A c \in Calls : pc[c] = "new"
    BY DEF Init
  <2> QED
    BY <2>1 DEF NameInv, Kinded, Hung, OneLeaf
<1>2. TypeOK /\ OneAccount /\ NameInv /\ [Next]_vars => NameInv'
  <2> SUFFICES ASSUME TypeOK, OneAccount, NameInv, [Next]_vars PROVE NameInv'
    OBVIOUS
  <2> USE DEF kyc, identity, rows
  <2>0. pc \in [Calls -> States]
    BY DEF TypeOK
  <2>o. ASSUME NEW c \in Calls, NEW s \in States \ {"identity"}, Goto(c, s),
               UNCHANGED versions, open' \subseteq open, accounts \subseteq accounts',
               pc[c] \notin Answered, pc[c] = "identity" => s \in Answered,
               \A d \in Calls \ {c} : target'[d] = target[d],
               s \in {"list", "nomba", "persist"} => KindOf[c] = "provision",
               s \in {"current", "close_version"} => KindOf[c] = "rename"
        PROVE  NameInv'
    <3>1. pc'[c] = s /\ \A d \in Calls \ {c} : pc'[d] = pc[d]
      BY <2>0, <2>o DEF Goto
    <3>2. \A d \in Calls : Kinded(d)'
      BY <2>o, <3>1 DEF NameInv, Kinded
    <3>3. c \notin versions
      BY <2>o DEF NameInv, Kinded
    <3> QED
      BY <2>o, <3>1, <3>2, <3>3, OtherKeepsNames
  <2>1. ASSUME NEW c \in Calls, CreateCustomer(c) PROVE NameInv'
    <3>1. /\ pc[c] = "new" /\ KindOf[c] = "register"
          /\ UNCHANGED <<versions, open, accounts, target>>
      BY <2>1 DEF CreateCustomer, Arrives, At
    <3>2. CASE c \in Named /\ Goto(c, "identity")
      BY <3>1, <3>2, ReadyKeepsNames
    <3>3. CASE \E s \in {"ok", "torn", "error"} : Goto(c, s)
      BY <3>1, <3>3, <2>o DEF States, Answered
    <3> QED
      BY <2>1, <3>2, <3>3 DEF CreateCustomer, Writes
  <2>2. ASSUME NEW c \in Calls, CreateIdentityVersion(c) PROVE NameInv'
    <3>1. pc[c] = "identity" /\ UNCHANGED <<accounts, target>>
      BY <2>2 DEF CreateIdentityVersion, At
    <3>2. PICK s \in {"ok", "torn"} : Goto(c, s)
      BY <2>2 DEF CreateIdentityVersion, Writes
    <3>3. CASE versions' = versions \cup {c} /\ open' = open \cup {c}
      BY <3>1, <3>2, <3>3, NewVersionKeepsNames DEF Answered
    <3>4. CASE UNCHANGED <<versions, open>>
      BY <3>1, <3>2, <3>4, <2>o DEF States, Answered
    <3> QED
      BY <2>2, <3>3, <3>4 DEF CreateIdentityVersion, Writes
  <2>3. ASSUME NEW c \in Calls, GetCustomer(c) PROVE NameInv'
    BY <2>3, <2>o DEF GetCustomer, Arrives, At, States, Answered
  <2>4. ASSUME NEW c \in Calls, ListAccountsByCustomer(c) \/ CreateVirtualAccount(c) PROVE NameInv'
    <3>1. /\ pc[c] \in {"list", "nomba"} /\ KindOf[c] = "provision"
          /\ UNCHANGED <<versions, open, accounts, target>>
      BY <2>4 DEF ListAccountsByCustomer, CreateVirtualAccount, At, NameInv, Kinded
    <3>2. PICK s \in {"ok", "nomba", "persist", "torn", "error"} : Goto(c, s)
      BY <2>4 DEF ListAccountsByCustomer, CreateVirtualAccount
    <3> QED
      BY <3>1, <3>2, <2>o DEF States, Answered
  <2>5. ASSUME NEW c \in Calls, CreateAccount(c) PROVE NameInv'
    <3>1. /\ pc[c] = "persist" /\ KindOf[c] = "provision"
          /\ UNCHANGED <<versions, open, target>>
      BY <2>5 DEF CreateAccount, At, NameInv, Kinded
    <3>2. CASE Of(c, accounts) = {} /\ accounts' = accounts \cup {c} /\ Goto(c, "identity")
      BY <3>1, <3>2, ReadyKeepsNames
    <3>3. CASE accounts \subseteq accounts' /\ \E s \in {"torn", "error"} : Goto(c, s)
      BY <3>1, <3>3, <2>o DEF States, Answered
    <3> QED
      BY <2>5, <3>2, <3>3 DEF CreateAccount, InsertAccount, Writes
  <2>6. ASSUME NEW c \in Calls, GetAccount(c) PROVE NameInv'
    <3>1. pc[c] = "new" /\ UNCHANGED <<versions, open, accounts>>
      BY <2>6 DEF GetAccount, Arrives, At
    <3>2. \A d \in Calls \ {c} : target'[d] = target[d]
      BY <2>6 DEF GetAccount, Read, TypeOK
    <3>3. \/ KindOf[c] = "rename" /\ Goto(c, "current")
          \/ Goto(c, "close") \/ Goto(c, "error")
      BY <2>6 DEF GetAccount
    <3> QED
      BY <3>1, <3>2, <3>3, <2>o DEF States, Answered
  <2>7. ASSUME NEW c \in Calls, UpdateAccountStatus(c) PROVE NameInv'
    BY <2>7, <2>o DEF UpdateAccountStatus, Writes, At, States, Answered
  <2>8. ASSUME NEW c \in Calls, GetCurrentIdentity(c) PROVE NameInv'
    <3>1. /\ pc[c] = "current" /\ KindOf[c] = "rename" /\ UNCHANGED <<versions, open, accounts>>
      BY <2>8 DEF GetCurrentIdentity, At, NameInv, Kinded
    <3>2. \A d \in Calls \ {c} : target'[d] = target[d]
      BY <2>8 DEF GetCurrentIdentity, Read, TypeOK
    <3>3. Goto(c, "close_version") \/ Goto(c, "error")
      BY <2>8 DEF GetCurrentIdentity
    <3> QED
      BY <3>1, <3>2, <3>3, <2>o DEF States, Answered
  <2>9. ASSUME NEW c \in Calls, CloseIdentityVersion(c) PROVE NameInv'
    <3>1. /\ pc[c] = "close_version" /\ KindOf[c] = "rename"
          /\ UNCHANGED <<versions, accounts, target>> /\ target[c] \in Of(c, versions)
      BY <2>9 DEF CloseIdentityVersion, At, NameInv, Kinded, TypeOK
    <3>2. CASE open' = open \ {target[c]} /\ Goto(c, "identity")
      BY <3>1, <3>2, ReadyKeepsNames
    <3>3. CASE open' \subseteq open /\ \E s \in {"torn", "error"} : Goto(c, s)
      BY <3>1, <3>3, <2>o DEF States, Answered
    <3> QED
      BY <2>9, <3>2, <3>3 DEF CloseIdentityVersion, Writes
  <2>10. ASSUME NEW c \in Calls,
                LockCustomer(c) \/ UpdateTier(c) \/ InsertHistory(c) \/ CommitUpgrade(c)
         PROVE  NameInv'
    <3>1. /\ pc[c] \in InTx \cup {"new"} /\ UNCHANGED <<versions, open, accounts, target>>
      BY <2>10 DEF LockCustomer, UpdateTier, InsertHistory, InTransaction, CommitUpgrade,
                   Arrives, At, InTx
    <3>2. PICK s \in InTx \cup {"ok", "torn", "error"} : Goto(c, s)
      BY <2>10 DEF LockCustomer, UpdateTier, InsertHistory, InTransaction, CommitUpgrade,
                   Writes, InTx
    <3> QED
      BY <3>1, <3>2, <2>o DEF States, Answered, InTx
  <2>11. CASE Crash
    <3>1. UNCHANGED <<versions, open, accounts, target>>
      BY <2>11 DEF Crash
    <3>2. \A c \in Calls : \/ pc'[c] = pc[c] /\ pc[c] \in Answered \cup {"new"}
                           \/ pc[c] \notin Answered \cup {"new"} /\ pc'[c] \in {"torn", "gone"}
      BY <2>11 DEF Crash, Answered
    <3>3. \A c \in Calls : Kinded(c)' /\ pc'[c] # "identity"
      BY <3>1, <3>2 DEF NameInv, Kinded, Answered
    <3> QED
      BY <3>1, <3>3, OtherKeepsNames
  <2>12. CASE Restart \/ UNCHANGED vars
    <3>1. UNCHANGED <<pc, versions, open, accounts, target>>
      BY <2>12 DEF Restart, vars
    <3>2. \A c \in Calls : Kinded(c)'
      BY <3>1 DEF NameInv, Kinded
    <3> QED
      BY <3>1, <3>2, OtherKeepsNames
  <2> QED
    BY <2>1, <2>2, <2>3, <2>4, <2>5, <2>6, <2>7, <2>8, <2>9, <2>10, <2>11, <2>12
       DEF Next, Step
<1>3. TypeOK /\ NameInv => ExtraNameNeedsFork
  <2> SUFFICES ASSUME TypeOK, NameInv, NEW v \in open, NEW w \in open,
                      CustomerOf[v] = CustomerOf[w], ~GivenName(CustomerOf[v]),
                      ~Forked(CustomerOf[v])
               PROVE  v = w
    BY DEF ExtraNameNeedsFork, GivenName
  <2>1. \A u \in open : u \in versions /\ Leaf(u)
    BY DEF TypeOK, NameInv, Hung, Leaf
  <2> QED
    BY <2>1, Requests DEF TypeOK, NameInv, OneLeaf
<1> QED
  BY <1>1, <1>2, <1>3, TypeCorrect, AccountIsUnique, PTL DEF Spec

-----------------------------------------------------------------------------
(* KYC tiers.                                                              *)

\* An upgrade's transaction works with the tier that is in the row: the lock
\* keeps every other upgrade of the customer out, and registration is over.
TierInv ==
    /\ TierHistory
    /\ \A c \in Calls : pc[c] \in InTx =>
          /\ CustomerOf[c] \in customers
          /\ from[c] = tier[CustomerOf[c]] /\ from[c] < TierOf[c]
    /\ \A k \in People \ customers : history[k] = <<>>

\* The steps of the other endpoints, and those inside a transaction.
LEMMA OtherKeepsTiers ==
    ASSUME TierInv, UNCHANGED <<customers, tier, history, from>>,
           \A c \in Calls : pc'[c] \in InTx => pc[c] \in InTx
    PROVE  TierInv'
BY DEF TierInv, TierHistory

\* What an upgrade's transaction works with is what the lock protects.
LEMMA TiersAreLocked == Spec => []TierInv
<1>1. Init => TierInv
  BY DEF Init, TierInv, TierHistory, InTx
<1>2. TypeOK /\ TierInv /\ [Next]_vars => TierInv'
  <2> SUFFICES ASSUME TypeOK, TierInv, [Next]_vars PROVE TierInv'
    OBVIOUS
  <2> USE DEF kyc, identity, rows
  <2>0. pc \in [Calls -> States]
    BY DEF TypeOK
  <2>1. ASSUME NEW c \in Calls, CreateCustomer(c) PROVE TierInv'
    <3>1. CASE UNCHANGED <<customers, tier>>
      BY <2>0, <2>1, <3>1, OtherKeepsTiers DEF CreateCustomer, Writes, Goto, InTx
    <3>2. CASE customers' = customers \cup {CustomerOf[c]}
               /\ tier' = [tier EXCEPT ![CustomerOf[c]] = TierOf[c]]
      <4>1. UNCHANGED <<history, from>> /\ CustomerOf[c] \in People \ customers
        BY <2>1, Requests DEF CreateCustomer
      <4>2. history[CustomerOf[c]] = <<>>
        BY <4>1 DEF TierInv
      <4>3. \A k \in People : k # CustomerOf[c] => tier'[k] = tier[k]
        BY <3>2 DEF TypeOK
      <4>4. TierHistory'
        BY <4>1, <4>2, <4>3 DEF TierInv, TierHistory
      <4>5. \A d \in Calls : pc'[d] \in InTx => pc[d] \in InTx
        BY <2>0, <2>1 DEF CreateCustomer, Writes, Goto, InTx
      <4>6. ASSUME NEW d \in Calls, pc'[d] \in InTx
            PROVE  /\ CustomerOf[d] \in customers'
                   /\ from'[d] = tier'[CustomerOf[d]] /\ from'[d] < TierOf[d]
        <5>1. CustomerOf[d] \in customers /\ CustomerOf[d] # CustomerOf[c]
          BY <4>1, <4>5, <4>6 DEF TierInv
        <5> QED
          BY <3>2, <4>1, <4>3, <4>5, <4>6, <5>1, Requests DEF TierInv
      <4> QED
        BY <3>2, <4>1, <4>4, <4>6 DEF TierInv
    <3> QED
      BY <2>1, <3>1, <3>2 DEF CreateCustomer, Writes
  <2>2. ASSUME NEW c \in Calls, LockCustomer(c) PROVE TierInv'
    <3>1. CASE /\ CustomerOf[c] \in customers /\ TierOf[c] > tier[CustomerOf[c]]
               /\ from' = [from EXCEPT ![c] = tier[CustomerOf[c]]] /\ Goto(c, "update")
      <4>1. UNCHANGED <<customers, tier, history>>
        BY <2>2 DEF LockCustomer
      <4>2. tier[CustomerOf[c]] < TierOf[c]
        BY <3>1, Requests DEF TypeOK, Tiers
      <4>3. ASSUME NEW d \in Calls, pc'[d] \in InTx
            PROVE  /\ CustomerOf[d] \in customers'
                   /\ from'[d] = tier'[CustomerOf[d]] /\ from'[d] < TierOf[d]
        <5>1. CASE d = c
          BY <3>1, <4>1, <4>2, <5>1 DEF TypeOK
        <5>2. CASE d # c
          BY <2>0, <3>1, <4>1, <4>3, <5>2 DEF TypeOK, TierInv, Goto
        <5> QED
          BY <5>1, <5>2
      <4> QED
        BY <4>1, <4>3 DEF TierInv, TierHistory
    <3>2. CASE UNCHANGED from /\ Goto(c, "error")
      BY <2>0, <2>2, <3>2, OtherKeepsTiers DEF LockCustomer, Goto, InTx
    <3> QED
      BY <2>2, <3>1, <3>2 DEF LockCustomer
  <2>3. ASSUME NEW c \in Calls, UpdateTier(c) \/ InsertHistory(c) PROVE TierInv'
    BY <2>0, <2>3, OtherKeepsTiers DEF UpdateTier, InsertHistory, InTransaction, Goto, At, InTx
  <2>4. ASSUME NEW c \in Calls, CommitUpgrade(c) PROVE TierInv'
    <3>1. pc[c] = "commit" /\ UNCHANGED <<customers, from>>
          /\ \A d \in Calls : pc'[d] \in InTx => pc[d] \in InTx /\ d # c
      BY <2>0, <2>4 DEF CommitUpgrade, At, Writes, Goto, InTx
    <3>2. CASE UNCHANGED <<tier, history>>
      BY <3>1, <3>2, OtherKeepsTiers
    <3>3. CASE /\ tier' = [tier EXCEPT ![CustomerOf[c]] = TierOf[c]]
               /\ history' = [history EXCEPT ![CustomerOf[c]] =
                                Append(@, [from |-> from[c], to |-> TierOf[c]])]
      <4> DEFINE k == CustomerOf[c]
                 e == [from |-> from[c], to |-> TierOf[c]]
      <4>1. /\ k \in customers /\ k \in People
            /\ from[c] = tier[k] /\ from[c] < TierOf[c] /\ lock[k] = c
        BY <3>1, Requests DEF TierInv, TypeOK, InTx
      <4>2. /\ history[k] \in Seq([from : Tiers, to : Tiers]) /\ e \in [from : Tiers, to : Tiers]
            /\ history'[k] = Append(history[k], e) /\ tier'[k] = TierOf[c]
            /\ \A j \in People \ {k} : history'[j] = history[j] /\ tier'[j] = tier[j]
        BY <3>3, <4>1, Requests DEF TypeOK
      <4>3. ASSUME NEW j \in People
            PROVE  /\ \A i \in 1 .. Len(history'[j]) :
                         /\ history'[j][i].from < history'[j][i].to
                         /\ i > 1 => history'[j][i].from = history'[j][i - 1].to
                   /\ history'[j] # <<>> => history'[j][Len(history'[j])].to = tier'[j]
        <5>1. CASE j # k
          BY <4>2, <5>1 DEF TierInv, TierHistory
        <5>2. CASE j = k
          <6> DEFINE h == history[k]
                     g == history'[k]
                     n == Len(h)
          <6>1. /\ n \in Nat /\ Len(g) = n + 1 /\ g[n + 1] = e
                /\ \A i \in 1 .. n : g[i] = h[i]
            BY <4>2, AppendIsSeq
          <6>2. /\ \A i \in 1 .. n : h[i].from < h[i].to /\ (i > 1 => h[i].from = h[i - 1].to)
                /\ h # <<>> => h[n].to = tier[k]
            BY <4>1 DEF TierInv, TierHistory
          <6>3. n > 0 => h # <<>>
            OBVIOUS
          <6>4. e.from = tier[k] /\ e.from < e.to /\ e.to = TierOf[c]
            BY <4>1
          <6> HIDE DEF h, g, n, e, k
          <6>5. ASSUME NEW i \in 1 .. n + 1
                PROVE  g[i].from < g[i].to /\ (i > 1 => g[i].from = g[i - 1].to)
            <7>1. CASE i = n + 1
              BY <6>1, <6>2, <6>3, <6>4, <7>1
            <7>2. CASE i # n + 1
              <8>1. i \in 1 .. n /\ (i > 1 => i - 1 \in 1 .. n)
                BY <6>1, <7>2
              <8> QED
                BY <6>1, <6>2, <8>1
            <7> QED
              BY <7>1, <7>2
          <6>6. g[Len(g)].to = tier'[k]
            BY <4>2, <6>1, <6>4
          <6> QED
            BY <5>2, <6>1, <6>5, <6>6 DEF g
        <5> QED
          BY <5>1, <5>2
      <4>4. ASSUME NEW d \in Calls, pc'[d] \in InTx
            PROVE  /\ CustomerOf[d] \in customers'
                   /\ from'[d] = tier'[CustomerOf[d]] /\ from'[d] < TierOf[d]
        <5>1. lock[CustomerOf[d]] = d /\ d # c
          BY <3>1, <4>4 DEF TypeOK
        <5>2. CustomerOf[d] \in People \ {k}
          BY <4>1, <5>1, Requests
        <5> QED
          BY <3>1, <4>2, <4>4, <5>2 DEF TierInv
      <4> QED
        BY <3>1, <4>1, <4>2, <4>3, <4>4 DEF TierInv, TierHistory
    <3> QED
      BY <2>4, <3>2, <3>3 DEF CommitUpgrade, Writes
  <2>5. ASSUME NEW c \in Calls,
               \/ CreateIdentityVersion(c) \/ GetCustomer(c) \/ ListAccountsByCustomer(c)
               \/ CreateVirtualAccount(c) \/ CreateAccount(c) \/ GetAccount(c)
               \/ UpdateAccountStatus(c) \/ GetCurrentIdentity(c) \/ CloseIdentityVersion(c)
        PROVE TierInv'
    <3>1. UNCHANGED <<customers, tier, history, from>>
      BY <2>5 DEF CreateIdentityVersion, GetCustomer, ListAccountsByCustomer, CreateVirtualAccount,
             CreateAccount, GetAccount, UpdateAccountStatus, GetCurrentIdentity, CloseIdentityVersion
    <3>2. PICK s \in States \ InTx : Goto(c, s)
      BY <2>5 DEF CreateIdentityVersion, GetCustomer, ListAccountsByCustomer, CreateVirtualAccount,
             CreateAccount, InsertAccount, GetAccount, UpdateAccountStatus, GetCurrentIdentity,
             CloseIdentityVersion, Writes, States, InTx
    <3> QED
      BY <2>0, <3>1, <3>2, OtherKeepsTiers DEF Goto
  <2>6. CASE Crash
    <3>1. \A c \in Calls : pc'[c] \notin InTx
      BY <2>6 DEF Crash, Answered, InTx
    <3> QED
      BY <2>6, <3>1, OtherKeepsTiers DEF Crash
  <2>7. CASE Restart \/ UNCHANGED vars
    BY <2>7, OtherKeepsTiers DEF Restart, vars
  <2> QED
    BY <2>1, <2>2, <2>3, <2>4, <2>5, <2>6, <2>7 DEF Next, Step
<1> QED
  BY <1>1, <1>2, TypeCorrect, PTL DEF Spec

\* Tiers only rise, and the history of a customer is gap-free and ends at the
\* present tier, whatever upgrades overlap, fail or are cut off.
THEOREM TiersAreAccounted == Spec => []TierHistory
<1>1. TierInv => TierHistory
  BY DEF TierInv
<1> QED
  BY <1>1, TiersAreLocked, PTL

-----------------------------------------------------------------------------
(* The file of a customer.                                                 *)

\* Customers with an account, and those whose account is closed.
Opened == {CustomerOf[a] : a \in accounts}
Shut   == Opened \ {CustomerOf[a] : a \in accounts \ closed}

\* What Registry is shown of the state.
filed == <<customers, tier, history, accounts, closed>>

\* Five steps write what Registry sees.
LEMMA FileWrites ==
    ASSUME [Next]_vars
    PROVE  \/ UNCHANGED filed
           \/ \E c \in Calls : CreateCustomer(c) \/ CreateAccount(c)
                               \/ UpdateAccountStatus(c) \/ CommitUpgrade(c)
BY DEF filed, kyc, identity, rows, Next, Step, vars, CreateIdentityVersion, GetCustomer,
       ListAccountsByCustomer, CreateVirtualAccount, GetAccount, GetCurrentIdentity,
       CloseIdentityVersion, LockCustomer, UpdateTier, InsertHistory, InTransaction, Crash, Restart

\* Opening an account, for a customer who has none.
LEMMA OpenStep ==
    ASSUME TypeOK, NEW c \in Calls, Of(c, accounts) = {}, CustomerOf[c] \in customers,
           accounts' = accounts \cup {c}, UNCHANGED <<customers, tier, history, closed>>
    PROVE  Promise!OpenAccount(CustomerOf[c])
<1>1. CustomerOf[c] \notin Opened
  BY DEF Opened, Of
<1>2. Opened' = Opened \cup {CustomerOf[c]}
  BY DEF Opened
<1>3. c \notin closed /\ {CustomerOf[a] : a \in (accounts \ closed)'}
                          = {CustomerOf[a] : a \in accounts \ closed} \cup {CustomerOf[c]}
  BY <1>1 DEF TypeOK, Opened
<1>4. Shut' = Shut
  BY <1>1, <1>2, <1>3 DEF Shut
<1> QED
  BY <1>1, <1>2, <1>4 DEF Promise!OpenAccount, Promise!file, Opened, Shut

\* Closing an account, which is its customer's only one; closing it again, by a
\* call that read it earlier, changes nothing.
LEMMA ShutStep ==
    ASSUME TypeOK, OneAccount, NEW b \in accounts,
           closed' = closed \cup {b}, UNCHANGED <<customers, tier, history, accounts>>
    PROVE  Promise!Shut(CustomerOf[b]) \/ UNCHANGED closed
<1>1. CASE b \in closed
  BY <1>1
<1>2. CASE b \notin closed
  <2>1. /\ CustomerOf[b] \in Opened
        /\ CustomerOf[b] \in {CustomerOf[a] : a \in accounts \ closed}
    BY <1>2 DEF Opened
  <2>2. {CustomerOf[a] : a \in accounts \ closed'}
          = {CustomerOf[a] : a \in accounts \ closed} \ {CustomerOf[b]}
    BY DEF OneAccount
  <2>3. Opened' = Opened /\ Shut' = Shut \cup {CustomerOf[b]} /\ CustomerOf[b] \notin Shut
    BY <2>1, <2>2 DEF Opened, Shut
  <2> QED
    BY <2>1, <2>3 DEF Promise!Shut, Promise!file, Opened, Shut
<1> QED
  BY <1>1, <1>2

\* Registrations, provisions, closures and upgrades, with every failure and
\* crash, implement Registry: the account a customer has is its first and, once
\* closed, its last, and the history is what Registry's upgrades write.
THEOREM ImplementsRegistry == Spec => RegistryKept
<1>1. Init /\ TypeOK => Promise!Init
  <2> SUFFICES ASSUME Init, TypeOK PROVE Promise!Init
    OBVIOUS
  <2>1. tier = [k \in People |-> 1]
    BY DEF Init
  <2> QED
    BY <2>1 DEF Init, Promise!Init
<1>2. TypeOK /\ TierInv /\ OneAccount /\ [Next]_vars => [Promise!Next]_Promise!registryVars
  <2> SUFFICES ASSUME TypeOK, TierInv, OneAccount, [Next]_vars
               PROVE  Promise!Next \/ UNCHANGED <<filed, Opened, Shut>>
    BY DEF Promise!registryVars, Promise!file, filed, Opened, Shut
  <2>1. ASSUME UNCHANGED filed PROVE UNCHANGED <<filed, Opened, Shut>>
    BY <2>1 DEF filed, Opened, Shut
  <2>2. ASSUME NEW c \in Calls, CreateCustomer(c)
        PROVE  Promise!Next \/ UNCHANGED <<filed, Opened, Shut>>
    <3>1. /\ CustomerOf[c] \in People \ customers /\ TierOf[c] \in Tiers
          /\ UNCHANGED <<history, accounts, closed>>
      BY <2>2, Requests DEF CreateCustomer, rows
    <3>2. CASE UNCHANGED <<customers, tier>>
      BY <2>1, <3>1, <3>2 DEF filed
    <3>3. CASE customers' = customers \cup {CustomerOf[c]}
               /\ tier' = [tier EXCEPT ![CustomerOf[c]] = TierOf[c]]
      <4>1. Promise!Register(CustomerOf[c], TierOf[c])
        BY <3>1, <3>3 DEF Promise!Register
      <4> QED
        BY <3>1, <4>1 DEF Promise!Next
    <3> QED
      BY <2>2, <3>2, <3>3 DEF CreateCustomer, Writes
  <2>3. ASSUME NEW c \in Calls, CreateAccount(c)
        PROVE  Promise!Next \/ UNCHANGED <<filed, Opened, Shut>>
    <3>1. UNCHANGED <<customers, tier, history, closed>>
      BY <2>3 DEF CreateAccount, kyc
    <3>2. CASE UNCHANGED accounts
      BY <2>1, <3>1, <3>2 DEF filed
    <3>3. CASE accounts' = accounts \cup {c} /\ Of(c, accounts) = {} /\ CustomerOf[c] \in customers
      BY <3>1, <3>3, OpenStep, Requests DEF Promise!Next
    <3> QED
      BY <2>3, <3>2, <3>3 DEF CreateAccount, InsertAccount, Writes
  <2>4. ASSUME NEW c \in Calls, UpdateAccountStatus(c)
        PROVE  Promise!Next \/ UNCHANGED <<filed, Opened, Shut>>
    <3>1. UNCHANGED <<customers, tier, history, accounts>>
      BY <2>4 DEF UpdateAccountStatus, kyc
    <3>2. CASE UNCHANGED closed
      BY <2>1, <3>1, <3>2 DEF filed
    <3>3. CASE closed' = closed \cup {target[c]}
      <4>1. PICK b \in accounts : target[c] = b
        BY <2>4 DEF UpdateAccountStatus, At, TypeOK, Of
      <4>2. Promise!Shut(CustomerOf[b]) \/ UNCHANGED closed
        BY <3>1, <3>3, <4>1, ShutStep
      <4>3. CASE Promise!Shut(CustomerOf[b])
        BY <4>1, <4>3, Requests DEF Promise!Next, TypeOK
      <4>4. CASE UNCHANGED closed
        BY <2>1, <3>1, <4>4 DEF filed
      <4> QED
        BY <4>2, <4>3, <4>4
    <3> QED
      BY <2>4, <3>2, <3>3 DEF UpdateAccountStatus, Writes
  <2>5. ASSUME NEW c \in Calls, CommitUpgrade(c)
        PROVE  Promise!Next \/ UNCHANGED <<filed, Opened, Shut>>
    <3>1. /\ CustomerOf[c] \in People /\ TierOf[c] \in Tiers
          /\ UNCHANGED <<customers, accounts, closed>>
      BY <2>5, Requests DEF CommitUpgrade, rows
    <3>2. /\ CustomerOf[c] \in customers /\ from[c] = tier[CustomerOf[c]]
          /\ tier[CustomerOf[c]] < TierOf[c]
      BY <2>5 DEF CommitUpgrade, At, TierInv, InTx
    <3>3. CASE UNCHANGED <<tier, history>>
      BY <2>1, <3>1, <3>3 DEF filed
    <3>4. CASE /\ tier' = [tier EXCEPT ![CustomerOf[c]] = TierOf[c]]
               /\ history' = [history EXCEPT ![CustomerOf[c]] =
                                Append(@, [from |-> from[c], to |-> TierOf[c]])]
      <4>1. TierOf[c] > tier[CustomerOf[c]]
        BY <3>1, <3>2 DEF TypeOK, Tiers
      <4>2. Promise!Upgrade(CustomerOf[c], TierOf[c])
        BY <3>1, <3>2, <3>4, <4>1 DEF Promise!Upgrade
      <4> QED
        BY <3>1, <4>2 DEF Promise!Next
    <3> QED
      BY <2>5, <3>3, <3>4 DEF CommitUpgrade, Writes
  <2> QED
    BY <2>1, <2>2, <2>3, <2>4, <2>5, FileWrites
<1> QED
  BY <1>1, <1>2, TypeCorrect, TiersAreLocked, AccountIsUnique, PTL
     DEF Spec, RegistryKept, Promise!Spec
=============================================================================
