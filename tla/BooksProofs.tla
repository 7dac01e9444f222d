----------------------------- MODULE BooksProofs ----------------------------
(* Theorems about Books for every value of its constants.                  *)
EXTENDS Books, FiniteSetTheorems, TLAPS

(***************************************************************************)
(* Counting.                                                               *)
(***************************************************************************)

LEMMA CardOfUnion ==
    ASSUME NEW S, NEW T, IsFiniteSet(S), IsFiniteSet(T)
    PROVE  /\ IsFiniteSet(S \cup T) /\ IsFiniteSet(S \cap T)
           /\ Cardinality(S \cup T) \in Nat /\ Cardinality(S \cap T) \in Nat
           /\ Cardinality(S) \in Nat /\ Cardinality(T) \in Nat
           /\ Cardinality(S \cup T) = Cardinality(S) + Cardinality(T) - Cardinality(S \cap T)
<1>1. IsFiniteSet(S \cup T) /\ IsFiniteSet(S \cap T)
      /\ Cardinality(S \cup T) = Cardinality(S) + Cardinality(T) - Cardinality(S \cap T)
  BY FS_Union, FS_Intersection
<1> QED
  BY <1>1, FS_CardinalityType

LEMMA CardOfDisjoint ==
    ASSUME NEW S, NEW T, IsFiniteSet(S), IsFiniteSet(T), S \cap T = {}
    PROVE  /\ IsFiniteSet(S \cup T)
           /\ Cardinality(S) \in Nat /\ Cardinality(T) \in Nat
           /\ Cardinality(S \cup T) = Cardinality(S) + Cardinality(T)
<1>1. /\ IsFiniteSet(S \cup T)
      /\ Cardinality(S) \in Nat /\ Cardinality(T) \in Nat
      /\ Cardinality(S \cup T) = Cardinality(S) + Cardinality(T) - Cardinality({})
  BY CardOfUnion
<1>2. \A a, b \in Nat : a + b - 0 = a + b
  OBVIOUS
<1> QED
  BY <1>1, <1>2, FS_EmptySet

LEMMA CardOfDifference ==
    ASSUME NEW S, NEW T, IsFiniteSet(S), T \subseteq S
    PROVE  /\ IsFiniteSet(T) /\ IsFiniteSet(S \ T)
           /\ Cardinality(S) \in Nat /\ Cardinality(T) \in Nat
           /\ Cardinality(S \ T) = Cardinality(S) - Cardinality(T)
<1>1. IsFiniteSet(T) /\ IsFiniteSet(S \ T)
  BY FS_Subset, FS_Difference
<1>2. S \cap T = T
  OBVIOUS
<1> QED
  BY <1>1, <1>2, FS_Difference, FS_CardinalityType

\* The entries of one type are as many as the movements that have one.
LEMMA CardOfType ==
    ASSUME NEW type, NEW W, IsFiniteSet(W)
    PROVE  /\ IsFiniteSet({type} \X W)
           /\ Cardinality({type} \X W) = Cardinality(W)
<1> DEFINE f == [m \in W |-> <<type, m>>]
<1>1. f \in [W -> {type} \X W]
  OBVIOUS
<1>2. \A x, y \in W : f[x] = f[y] => x = y
  OBVIOUS
<1>3. \A e \in {type} \X W : \E m \in W : f[m] = e
  OBVIOUS
<1>4. f \in Bijection(W, {type} \X W)
  BY <1>1, <1>2, <1>3 DEF Bijection, Injection, Surjection, IsInjective
<1>5. ExistsBijection(W, {type} \X W)
  BY <1>4 DEF ExistsBijection
<1> QED
  BY <1>5, FS_Bijection

LEMMA MovementsFinite == IsFiniteSet(Payments) /\ IsFiniteSet(Transfers) /\ IsFiniteSet(Movements)
BY BooksAssumption, FS_Union DEF Movements

\* One entry type of the ledger, two, and three.
LEMMA OneType ==
    ASSUME TypeOK, NEW type
    PROVE  /\ IsFiniteSet(Of({type})) /\ Cardinality(With(type)) \in Nat
           /\ Cardinality(Of({type})) = Cardinality(With(type))
<1>1. Of({type}) = {type} \X With(type)
  <2>1. ASSUME NEW e \in ledger, e[1] = type PROVE e \in {type} \X With(type)
    <3>1. PICK a \in EntryTypes, m \in Movements : e = <<a, m>>
      BY DEF TypeOK
    <3> QED
      BY <2>1, <3>1 DEF With
  <2>2. ASSUME NEW m \in With(type) PROVE <<type, m>> \in Of({type})
    BY DEF With, Of
  <2> QED
    BY <2>1, <2>2 DEF Of
<1>2. With(type) \subseteq Movements
  BY DEF With
<1>3. IsFiniteSet(With(type))
  BY <1>2, MovementsFinite, FS_Subset
<1> QED
  BY <1>1, <1>3, CardOfType, FS_CardinalityType

LEMMA Joined ==
    ASSUME NEW S, NEW T, S \cap T = {}, IsFiniteSet(Of(S)), IsFiniteSet(Of(T))
    PROVE  /\ IsFiniteSet(Of(S \cup T))
           /\ Cardinality(Of(S)) \in Nat /\ Cardinality(Of(T)) \in Nat
           /\ Cardinality(Of(S \cup T)) = Cardinality(Of(S)) + Cardinality(Of(T))
<1>1. Of(S \cup T) = Of(S) \cup Of(T) /\ Of(S) \cap Of(T) = {}
  BY DEF Of
<1> QED
  BY <1>1, CardOfDisjoint

LEMMA ThreeTypes ==
    ASSUME TypeOK, NEW a, NEW b, NEW c, a # b, c \notin {a, b}
    PROVE  /\ IsFiniteSet(Of({a, b, c}))
           /\ Cardinality(Of({a, b, c})) =
                Cardinality(With(a)) + Cardinality(With(b)) + Cardinality(With(c))
<1>1. /\ IsFiniteSet(Of({a})) /\ Cardinality(Of({a})) = Cardinality(With(a))
      /\ IsFiniteSet(Of({b})) /\ Cardinality(Of({b})) = Cardinality(With(b))
      /\ IsFiniteSet(Of({c})) /\ Cardinality(Of({c})) = Cardinality(With(c))
  BY OneType
<1>2. {a} \cap {b} = {} /\ {a} \cup {b} = {a, b} /\ {a, b} \cap {c} = {} /\ {a, b} \cup {c} = {a, b, c}
  OBVIOUS
<1>3. IsFiniteSet(Of({a, b})) /\ Cardinality(Of({a, b})) = Cardinality(With(a)) + Cardinality(With(b))
  BY <1>1, <1>2, Joined
<1> QED
  BY <1>1, <1>2, <1>3, Joined

\* Net, by the credits and the debits among the entries.
LEMMA NetBy ==
    ASSUME NEW S, NEW credits, NEW debits, S = credits \cup debits,
           \A e \in credits : e[1] \notin DebitTypes, \A e \in debits : e[1] \in DebitTypes
    PROVE  Net(S) = Cardinality(credits) - Cardinality(debits)
<1>1. {e \in S : e[1] \notin DebitTypes} = credits
  OBVIOUS
<1>2. {e \in S : e[1] \in DebitTypes} = debits
  OBVIOUS
<1> QED
  BY <1>1, <1>2, Zenon DEF Net

\* The three balances, by movements.
LEMMA NetOfPool ==
    ASSUME TypeOK
    PROVE  Net(Pool) = Cardinality(With("pool_release")) - Cardinality(With("pool_liability"))
<1>1. /\ Pool = Of({"pool_release"}) \cup Of({"pool_liability"})
      /\ \A e \in Of({"pool_release"}) : e[1] \notin DebitTypes
      /\ \A e \in Of({"pool_liability"}) : e[1] \in DebitTypes
  BY DEF Pool, Of, PoolTypes, DebitTypes
<1> QED
  BY <1>1, NetBy, OneType

LEMMA NetOfSuspense ==
    ASSUME TypeOK
    PROVE  Net(Suspense) = Cardinality(With("suspense_credit"))
<1>1. /\ Suspense = Of({"suspense_credit"}) \cup {}
      /\ \A e \in Of({"suspense_credit"}) : e[1] \notin DebitTypes
  BY DEF Suspense, Of, DebitTypes
<1>2. Net(Suspense) = Cardinality(Of({"suspense_credit"})) - Cardinality({})
  BY <1>1, NetBy
<1> QED
  BY <1>2, OneType, FS_EmptySet

LEMMA NetOfCustomer ==
    ASSUME TypeOK
    PROVE  Net(Customer) = Cardinality(With("inbound_credit"))
                         + Cardinality(With("backfill_credit"))
                         + Cardinality(With("transfer_reversal"))
                         - Cardinality(With("transfer_out"))
<1> DEFINE credits == {"inbound_credit", "backfill_credit", "transfer_reversal"}
<1>1. /\ Customer = Of(credits) \cup Of({"transfer_out"})
      /\ \A e \in Of(credits) : e[1] \notin DebitTypes
      /\ \A e \in Of({"transfer_out"}) : e[1] \in DebitTypes
  BY DEF Customer, Of, CustomerTypes, DebitTypes
<1>2. Cardinality(Of(credits)) = Cardinality(With("inbound_credit"))
        + Cardinality(With("backfill_credit")) + Cardinality(With("transfer_reversal"))
  BY ThreeTypes
<1> HIDE DEF credits
<1>3. Net(Customer) = Cardinality(Of(credits)) - Cardinality(Of({"transfer_out"}))
  BY <1>1, NetBy
<1>4. Cardinality(Of({"transfer_out"})) = Cardinality(With("transfer_out"))
  BY OneType
<1>5. \A type : Cardinality(With(type)) \in Nat
  BY OneType
<1> QED
  BY <1>2, <1>3, <1>4, <1>5

(***************************************************************************)
(* The two equations follow from the type invariant alone: whatever is     *)
(* done in whatever order keeps the shape of the ledger, and a ledger of   *)
(* that shape balances.                                                    *)
(***************************************************************************)
LEMMA Shapes ==
    ASSUME TypeOK
    PROVE  /\ IsFiniteSet(received) /\ IsFiniteSet(sent) /\ IsFiniteSet(With("transfer_out"))
           /\ IsFiniteSet(With("inbound_credit")) /\ IsFiniteSet(With("backfill_credit"))
           /\ IsFiniteSet(With("suspense_credit")) /\ IsFiniteSet(With("transfer_reversal"))
           /\ received \cap With("transfer_reversal") = {}
<1>1. received \cap Transfers = {}
  BY BooksAssumption DEF TypeOK
<1>2. /\ With("transfer_out") \subseteq Transfers /\ sent \subseteq Transfers
      /\ With("transfer_reversal") \subseteq Transfers /\ received \subseteq Payments
      /\ With("inbound_credit") \subseteq Payments /\ With("backfill_credit") \subseteq Payments
      /\ With("suspense_credit") \subseteq Payments
  BY DEF TypeOK
<1>3. \A S \in SUBSET Payments : IsFiniteSet(S)
  BY MovementsFinite, FS_Subset
<1>4. \A S \in SUBSET Transfers : IsFiniteSet(S)
  BY MovementsFinite, FS_Subset
<1> QED
  BY <1>1, <1>2, <1>3, <1>4

LEMMA PoolBalances == TypeOK => PoolEquation
<1> SUFFICES ASSUME TypeOK PROVE PoolEquation
  OBVIOUS
<1> DEFINE I == With("inbound_credit")
           O == With("transfer_out")
           V == With("transfer_reversal")
           L == With("pool_liability")
           R == With("pool_release")
<1>1. /\ I \subseteq received /\ V \subseteq O /\ sent \subseteq O /\ R = O /\ L = I \cup V
      /\ IsFiniteSet(received) /\ IsFiniteSet(I) /\ IsFiniteSet(V) /\ IsFiniteSet(O)
      /\ IsFiniteSet(sent) /\ received \cap V = {}
  BY Shapes DEF TypeOK
<1>2. /\ Unpooled = received \ L /\ Undecided = R \ (sent \cup V) /\ PaidTwice = sent \cap V
      /\ Net(Pool) = Cardinality(R) - Cardinality(L)
  BY NetOfPool DEF Unpooled, Undecided, PaidTwice
<1> HIDE DEF I, O, V, L, R
<1>3. Cardinality(L) = Cardinality(I) + Cardinality(V)
  <2>1. I \cap V = {}
    BY <1>1
  <2> QED
    BY <1>1, <2>1, CardOfDisjoint
<1>4. Cardinality(Unpooled) = Cardinality(received) - Cardinality(I)
  <2>1. received \ L = received \ I
    BY <1>1
  <2> QED
    BY <1>1, <1>2, <2>1, CardOfDifference
<1>5. Cardinality(Undecided) = Cardinality(O) - Cardinality(sent \cup V)
  <2>1. sent \cup V \subseteq O
    BY <1>1
  <2> QED
    BY <1>1, <1>2, <2>1, CardOfDifference
<1>6. Cardinality(sent \cup V) = Cardinality(sent) + Cardinality(V) - Cardinality(PaidTwice)
  BY <1>1, <1>2, CardOfUnion
<1>7. /\ Cardinality(received) \in Nat /\ Cardinality(I) \in Nat /\ Cardinality(O) \in Nat
      /\ Cardinality(sent) \in Nat /\ Cardinality(V) \in Nat /\ Cardinality(PaidTwice) \in Nat
  BY <1>1, <1>2, FS_CardinalityType, CardOfUnion
<1>8. Net(Pool) = Cardinality(O) - Cardinality(L)
  BY <1>1, <1>2
<1> QED
  BY <1>3, <1>4, <1>5, <1>6, <1>7, <1>8 DEF PoolEquation, Wallet, Gap

LEMMA CustomersAreCovered == TypeOK => CustomersCovered
<1> SUFFICES ASSUME TypeOK PROVE CustomersCovered
  OBVIOUS
<1> DEFINE I == With("inbound_credit")
           B == With("backfill_credit")
           S == With("suspense_credit")
           O == With("transfer_out")
           V == With("transfer_reversal")
<1>1. /\ I \subseteq received /\ B \subseteq received /\ S \subseteq received /\ I \cap S = {}
      /\ V \subseteq O /\ sent \subseteq O
      /\ IsFiniteSet(received) /\ IsFiniteSet(I) /\ IsFiniteSet(B) /\ IsFiniteSet(S)
      /\ IsFiniteSet(V) /\ IsFiniteSet(O) /\ IsFiniteSet(sent)
  BY Shapes DEF TypeOK
<1>2. /\ Net(Customer) = Cardinality(I) + Cardinality(B) + Cardinality(V) - Cardinality(O)
      /\ Net(Suspense) = Cardinality(S)
      /\ PaidTwice = sent \cap V
  BY NetOfCustomer, NetOfSuspense DEF PaidTwice
<1> HIDE DEF I, B, S, O, V
<1>3. Cardinality(I \cup S) = Cardinality(I) + Cardinality(S)
  BY <1>1, CardOfDisjoint
<1>4. Cardinality((I \cup S) \cap B) = Cardinality(I \cap B) + Cardinality(S \cap B)
  <2>1. (I \cup S) \cap B = (I \cap B) \cup (S \cap B) /\ (I \cap B) \cap (S \cap B) = {}
    BY <1>1
  <2>2. IsFiniteSet(I \cap B) /\ IsFiniteSet(S \cap B)
    BY <1>1, CardOfUnion
  <2> QED
    BY <2>1, <2>2, CardOfDisjoint
<1>5. Cardinality((I \cup S) \cup B) =
        Cardinality(I \cup S) + Cardinality(B) - Cardinality((I \cup S) \cap B)
  BY <1>1, CardOfUnion
<1>6. Cardinality((I \cup S) \cup B) <= Cardinality(received)
  <2>1. (I \cup S) \cup B \in SUBSET received
    BY <1>1
  <2> QED
    BY <1>1, <2>1, FS_Subset
<1>7. Cardinality(sent \cup V) = Cardinality(sent) + Cardinality(V) - Cardinality(PaidTwice)
  BY <1>1, <1>2, CardOfUnion
<1>8. Cardinality(sent \cup V) <= Cardinality(O)
  <2>1. sent \cup V \in SUBSET O
    BY <1>1
  <2> QED
    BY <1>1, <2>1, FS_Subset
<1>9. /\ Cardinality(received) \in Nat /\ Cardinality(I) \in Nat /\ Cardinality(B) \in Nat
      /\ Cardinality(S) \in Nat /\ Cardinality(O) \in Nat /\ Cardinality(V) \in Nat
      /\ Cardinality(sent) \in Nat /\ Cardinality(PaidTwice) \in Nat
      /\ Cardinality(I \cap B) \in Nat /\ Cardinality(S \cap B) \in Nat
      /\ Cardinality(sent \cup V) \in Nat
  BY <1>1, <1>2, FS_CardinalityType, CardOfUnion
<1>10. Net(Customer) + Net(Suspense)
         <= Wallet + Cardinality(I \cap B) + Cardinality(S \cap B) + Cardinality(PaidTwice)
  BY <1>2, <1>3, <1>4, <1>5, <1>6, <1>7, <1>8, <1>9 DEF Wallet
<1> QED
  BY <1>10 DEF CustomersCovered, I, B, S

(***************************************************************************)
(* The type invariant.                                                     *)
(***************************************************************************)
LEMMA Inserted ==
    ASSUME NEW types \in SUBSET EntryTypes, NEW m \in Movements, InsertEntries(types, m), TypeOK
    PROVE  /\ ledger' \subseteq EntryTypes \X Movements
           /\ \A type \in types : With(type)' = With(type) \cup {m}
           /\ \A type : type \notin types => With(type)' = With(type)
BY DEF InsertEntries, With, TypeOK

LEMMA CustomerFinite ==
    ASSUME TypeOK
    PROVE  /\ IsFiniteSet(Customer) /\ Cardinality(Customer) \in Nat
           /\ Customer \subseteq CustomerTypes \X Movements
<1> DEFINE credits == {"inbound_credit", "backfill_credit", "transfer_reversal"}
<1>1. CustomerTypes = credits \cup {"transfer_out"}
  BY DEF CustomerTypes
<1>2. credits \cap {"transfer_out"} = {}
  OBVIOUS
<1>3. IsFiniteSet(Of(credits)) /\ IsFiniteSet(Of({"transfer_out"}))
  BY ThreeTypes, OneType
<1> HIDE DEF credits
<1>4. IsFiniteSet(Customer)
  BY <1>1, <1>2, <1>3, Joined DEF Customer
<1>5. Customer \subseteq CustomerTypes \X Movements
  BY DEF Customer, Of, TypeOK
<1> QED
  BY <1>4, <1>5, FS_CardinalityType

\* What is said of the books in the type invariant, and of the readers.
BooksOK ==
    /\ received \subseteq Payments /\ checked \subseteq Transfers
    /\ ledger \subseteq EntryTypes \X Movements
    /\ sent \subseteq With("transfer_out") /\ refused \subseteq With("transfer_out")
    /\ With("inbound_credit") \cup With("backfill_credit") \cup With("suspense_credit")
          \subseteq received
    /\ With("inbound_credit") \cap With("suspense_credit") = {}
    /\ With("transfer_reversal") \subseteq With("transfer_out")
    /\ With("transfer_out") \subseteq Transfers
    /\ With("pool_release") = With("transfer_out")
    /\ With("pool_liability") = With("inbound_credit") \cup With("transfer_reversal")
    /\ sent \cap refused = {}

ReadersOK ==
    /\ pc \in [Readers -> States]
    /\ figures \in [Readers -> [wallet : Int, pool : Int]]
    /\ truth \in [Readers -> [gap : Int, pool : SUBSET (PoolTypes \X Movements),
                              late : SUBSET (PoolTypes \X Movements)]]
    /\ listing \in [Readers -> Seq(CustomerTypes \X Movements)]
    /\ counted \in [Readers -> SUBSET (CustomerTypes \X Movements)]
    /\ faults \in 0 .. MaxFaults

LEMMA TypeParts == TypeOK <=> BooksOK /\ ReadersOK
BY DEF TypeOK, BooksOK, ReadersOK

LEMMA ReaderKeepsBooks ==
    ASSUME BooksOK, UNCHANGED <<nomba, books>>
    PROVE  BooksOK'
BY DEF BooksOK, With, nomba, books

LEMMA MovementKeepsReaders ==
    ASSUME ReadersOK, UNCHANGED readers, UNCHANGED faults \/ Fault
    PROVE  ReadersOK'
BY BooksAssumption DEF ReadersOK, readers, Fault

\* The wallet, the pool and the gap are integers.
LEMMA FiguresAreInts ==
    ASSUME TypeOK
    PROVE  Wallet \in Int /\ Net(Pool) \in Int /\ Gap \in Int /\ Pool \subseteq PoolTypes \X Movements
<1>1. /\ IsFiniteSet(Unpooled) /\ IsFiniteSet(Undecided) /\ IsFiniteSet(PaidTwice)
      /\ IsFiniteSet(received) /\ IsFiniteSet(sent)
  <2>1. With("pool_release") = With("transfer_out")
    BY DEF TypeOK
  <2> QED
    BY <2>1, Shapes, FS_Difference, FS_Intersection DEF Unpooled, Undecided, PaidTwice
<1>2. /\ Cardinality(Unpooled) \in Nat /\ Cardinality(Undecided) \in Nat
      /\ Cardinality(PaidTwice) \in Nat /\ Cardinality(received) \in Nat
      /\ Cardinality(sent) \in Nat
  BY <1>1, FS_CardinalityType
<1>3. Net(Pool) \in Int
  <2>1. Cardinality(With("pool_release")) \in Nat /\ Cardinality(With("pool_liability")) \in Nat
    BY OneType
  <2> QED
    BY <2>1, NetOfPool
<1>4. Pool \subseteq PoolTypes \X Movements
  BY DEF Pool, Of, TypeOK
<1> QED
  BY <1>2, <1>3, <1>4 DEF Wallet, Gap

\* Types, and the shape of the ledger.
THEOREM TypeCorrect == Spec => []TypeOK
<1>1. Init => TypeOK
  BY BooksAssumption DEF Init, TypeOK, With, States
<1>2. TypeOK /\ [Next]_vars => TypeOK'
  <2> SUFFICES ASSUME TypeOK, [Next]_vars PROVE BooksOK' /\ ReadersOK'
    BY TypeParts DEF BooksOK, ReadersOK, TypeOK
  <2>0. BooksOK /\ ReadersOK
    BY TypeParts
  <2>1. ASSUME NEW p \in Payments, Pay(p) PROVE BooksOK' /\ ReadersOK'
    BY <2>0, <2>1, MovementKeepsReaders DEF Pay, BooksOK, With, books
  <2>2. ASSUME NEW p \in Payments, PostCredit(p) PROVE BooksOK' /\ ReadersOK'
    <3>1. p \in Movements /\ p \notin Transfers /\ Unclaimed(p)
          /\ InsertEntries({"inbound_credit", "pool_liability"}, p)
          /\ UNCHANGED <<received, sent, refused, checked, readers, faults>>
      BY <2>2, BooksAssumption DEF PostCredit, Movements, nomba
    <3>2. {"inbound_credit", "pool_liability"} \subseteq EntryTypes
      BY DEF EntryTypes, CustomerTypes, PoolTypes
    <3>3. /\ ledger' \subseteq EntryTypes \X Movements
          /\ \A type \in {"inbound_credit", "pool_liability"} : With(type)' = With(type) \cup {p}
          /\ \A type : type \notin {"inbound_credit", "pool_liability"} => With(type)' = With(type)
      BY <3>1, <3>2, Inserted
    <3>4. /\ With("inbound_credit")' = With("inbound_credit") \cup {p}
          /\ With("pool_liability")' = With("pool_liability") \cup {p}
          /\ With("backfill_credit")' = With("backfill_credit")
          /\ With("suspense_credit")' = With("suspense_credit")
          /\ With("transfer_out")' = With("transfer_out")
          /\ With("transfer_reversal")' = With("transfer_reversal")
          /\ With("pool_release")' = With("pool_release")
      BY <3>3
    <3> QED
      BY <2>0, <3>1, <3>3, <3>4, MovementKeepsReaders DEF BooksOK, Unclaimed
  <2>3. ASSUME NEW p \in Payments, PostSuspense(p) PROVE BooksOK' /\ ReadersOK'
    <3>1. p \in Movements /\ Unclaimed(p) /\ InsertEntries({"suspense_credit"}, p)
          /\ UNCHANGED <<received, sent, refused, checked, readers, faults>>
      BY <2>3 DEF PostSuspense, Movements, nomba
    <3>2. {"suspense_credit"} \subseteq EntryTypes
      BY DEF EntryTypes
    <3>3. /\ ledger' \subseteq EntryTypes \X Movements
          /\ \A type \in {"suspense_credit"} : With(type)' = With(type) \cup {p}
          /\ \A type : type \notin {"suspense_credit"} => With(type)' = With(type)
      BY <3>1, <3>2, Inserted
    <3>4. /\ With("suspense_credit")' = With("suspense_credit") \cup {p}
          /\ With("inbound_credit")' = With("inbound_credit")
          /\ With("pool_liability")' = With("pool_liability")
          /\ With("backfill_credit")' = With("backfill_credit")
          /\ With("transfer_out")' = With("transfer_out")
          /\ With("transfer_reversal")' = With("transfer_reversal")
          /\ With("pool_release")' = With("pool_release")
      BY <3>3
    <3> QED
      BY <2>0, <3>1, <3>3, <3>4, MovementKeepsReaders DEF BooksOK, Unclaimed
  <2>4. ASSUME NEW p \in Payments, Backfill(p) PROVE BooksOK' /\ ReadersOK'
    <3>1. p \in Movements /\ p \in received /\ InsertEntries({"backfill_credit"}, p)
          /\ UNCHANGED <<received, sent, refused, checked, readers, faults>>
      BY <2>4 DEF Backfill, Movements, nomba
    <3>2. {"backfill_credit"} \subseteq EntryTypes
      BY DEF EntryTypes, CustomerTypes
    <3>3. /\ ledger' \subseteq EntryTypes \X Movements
          /\ \A type \in {"backfill_credit"} : With(type)' = With(type) \cup {p}
          /\ \A type : type \notin {"backfill_credit"} => With(type)' = With(type)
      BY <3>1, <3>2, Inserted
    <3>4. /\ With("backfill_credit")' = With("backfill_credit") \cup {p}
          /\ With("suspense_credit")' = With("suspense_credit")
          /\ With("inbound_credit")' = With("inbound_credit")
          /\ With("pool_liability")' = With("pool_liability")
          /\ With("transfer_out")' = With("transfer_out")
          /\ With("transfer_reversal")' = With("transfer_reversal")
          /\ With("pool_release")' = With("pool_release")
      BY <3>3
    <3> QED
      BY <2>0, <3>1, <3>3, <3>4, MovementKeepsReaders DEF BooksOK
  <2>5. ASSUME NEW t \in Transfers, CheckBalance(t) PROVE BooksOK' /\ ReadersOK'
    BY <2>0, <2>5, MovementKeepsReaders DEF CheckBalance, BooksOK, With, nomba
  <2>6. ASSUME NEW t \in Transfers, PostDebit(t) PROVE BooksOK' /\ ReadersOK'
    <3>1. t \in Movements /\ InsertEntries({"transfer_out", "pool_release"}, t)
          /\ UNCHANGED <<received, sent, refused, checked, readers, faults>>
      BY <2>6 DEF PostDebit, Movements, nomba
    <3>2. {"transfer_out", "pool_release"} \subseteq EntryTypes
      BY DEF EntryTypes, CustomerTypes, PoolTypes
    <3>3. /\ ledger' \subseteq EntryTypes \X Movements
          /\ \A type \in {"transfer_out", "pool_release"} : With(type)' = With(type) \cup {t}
          /\ \A type : type \notin {"transfer_out", "pool_release"} => With(type)' = With(type)
      BY <3>1, <3>2, Inserted
    <3>4. /\ With("transfer_out")' = With("transfer_out") \cup {t}
          /\ With("pool_release")' = With("pool_release") \cup {t}
          /\ With("backfill_credit")' = With("backfill_credit")
          /\ With("suspense_credit")' = With("suspense_credit")
          /\ With("inbound_credit")' = With("inbound_credit")
          /\ With("pool_liability")' = With("pool_liability")
          /\ With("transfer_reversal")' = With("transfer_reversal")
      BY <3>3
    <3> QED
      BY <2>0, <3>1, <3>3, <3>4, MovementKeepsReaders DEF BooksOK
  <2>7. ASSUME NEW t \in Transfers, ReverseLedgerDebit(t) PROVE BooksOK' /\ ReadersOK'
    <3>1. t \in Movements /\ t \in With("transfer_out")
          /\ InsertEntries({"transfer_reversal", "pool_liability"}, t)
          /\ UNCHANGED <<received, sent, refused, checked, readers>>
          /\ (UNCHANGED faults \/ Fault)
      BY <2>7 DEF ReverseLedgerDebit, Movements, nomba
    <3>2. {"transfer_reversal", "pool_liability"} \subseteq EntryTypes
      BY DEF EntryTypes, CustomerTypes, PoolTypes
    <3>3. /\ ledger' \subseteq EntryTypes \X Movements
          /\ \A type \in {"transfer_reversal", "pool_liability"} : With(type)' = With(type) \cup {t}
          /\ \A type : type \notin {"transfer_reversal", "pool_liability"} => With(type)' = With(type)
      BY <3>1, <3>2, Inserted
    <3>4. /\ With("transfer_reversal")' = With("transfer_reversal") \cup {t}
          /\ With("pool_liability")' = With("pool_liability") \cup {t}
          /\ With("transfer_out")' = With("transfer_out")
          /\ With("pool_release")' = With("pool_release")
          /\ With("backfill_credit")' = With("backfill_credit")
          /\ With("suspense_credit")' = With("suspense_credit")
          /\ With("inbound_credit")' = With("inbound_credit")
      BY <3>3
    <3> QED
      BY <2>0, <3>1, <3>3, <3>4, MovementKeepsReaders DEF BooksOK
  <2>8. ASSUME NEW t \in Transfers, NombaPays(t) PROVE BooksOK' /\ ReadersOK'
    BY <2>0, <2>8, MovementKeepsReaders DEF NombaPays, BooksOK, With, books
  <2>9. ASSUME NEW t \in Transfers, NombaRefuses(t) PROVE BooksOK' /\ ReadersOK'
    BY <2>0, <2>9, MovementKeepsReaders DEF NombaRefuses, BooksOK, With, books
  <2>10. ASSUME NEW r \in Readers, GetWalletBalance(r) PROVE BooksOK' /\ ReadersOK'
    BY <2>0, <2>10, ReaderKeepsBooks, FiguresAreInts
       DEF GetWalletBalance, ReadersOK, Goto, States
  <2>11. ASSUME NEW r \in Readers, GetPoolBalance(r) PROVE BooksOK' /\ ReadersOK'
    <3>1. Net(Pool) \in Int /\ Pool \ truth[r].pool \in SUBSET (PoolTypes \X Movements)
      BY FiguresAreInts
    <3>2. figures' \in [Readers -> [wallet : Int, pool : Int]]
      BY <2>0, <2>11, <3>1 DEF GetPoolBalance, ReadersOK
    <3>3. truth' \in [Readers -> [gap : Int, pool : SUBSET (PoolTypes \X Movements),
                                   late : SUBSET (PoolTypes \X Movements)]]
      <4> DEFINE new == Pool \ truth[r].pool
      <4>1. new \in SUBSET (PoolTypes \X Movements)
        BY <3>1
      <4>2. truth' = [truth EXCEPT ![r].late = new]
        BY <2>11 DEF GetPoolBalance
      <4> HIDE DEF new
      <4> QED
        BY <2>0, <4>1, <4>2 DEF ReadersOK
    <3> QED
      BY <2>0, <2>11, <3>2, <3>3, ReaderKeepsBooks
         DEF GetPoolBalance, ReadersOK, Goto, States
  <2>12. ASSUME NEW r \in Readers, InsertRun(r) PROVE BooksOK' /\ ReadersOK'
    BY <2>0, <2>12, ReaderKeepsBooks DEF InsertRun, ReadersOK, Goto, States
  <2>13. ASSUME NEW r \in Readers, ListEntries(r) PROVE BooksOK' /\ ReadersOK'
    <3>1. PICK s \in Listings(Customer) : listing' = [listing EXCEPT ![r] = s]
              /\ Goto(r, IF Len(s) > Offset[r] THEN "closing" ELSE "ok")
      BY <2>13 DEF ListEntries
    <3>2. s \in [1 .. Cardinality(Customer) -> CustomerTypes \X Movements]
      BY CustomerFinite DEF Listings
    <3>3. s \in Seq(CustomerTypes \X Movements)
      BY <3>2, CustomerFinite
    <3> QED
      BY <2>0, <2>13, <3>1, <3>3, ReaderKeepsBooks DEF ListEntries, ReadersOK, Goto, States
  <2>14. ASSUME NEW r \in Readers, GetBalanceAsOf(r) PROVE BooksOK' /\ ReadersOK'
    BY <2>0, <2>14, ReaderKeepsBooks, CustomerFinite DEF GetBalanceAsOf, ReadersOK, Goto, States
  <2>15. ASSUME NEW r \in Readers, Fail(r) PROVE BooksOK' /\ ReadersOK'
    BY <2>0, <2>15, ReaderKeepsBooks, BooksAssumption DEF Fail, Fault, ReadersOK, Goto, States
  <2>16. CASE UNCHANGED vars
    BY <2>0, <2>16, ReaderKeepsBooks, MovementKeepsReaders DEF vars
  <2> QED
    BY <2>1, <2>2, <2>3, <2>4, <2>5, <2>6, <2>7, <2>8, <2>9, <2>10, <2>11, <2>12, <2>13,
       <2>14, <2>15, <2>16 DEF Next
<1> QED
  BY <1>1, <1>2, PTL DEF Spec

\* Reconciliation can account for every difference between wallet and pool.
THEOREM PoolAlwaysBalances == Spec => []PoolEquation
BY TypeCorrect, PoolBalances, PTL

\* Nobody is credited what the wallet has not received, but for double bookings.
THEOREM CustomersAlwaysCovered == Spec => []CustomersCovered
BY TypeCorrect, CustomersAreCovered, PTL

\* Undoing entries, one by one, is subtracting their balance.
LEMMA NetOfDifference ==
    ASSUME NEW S, NEW T, IsFiniteSet(S), T \subseteq S
    PROVE  Net(S \ T) = Net(S) - Net(T)
<1> DEFINE credits(A) == {e \in A : e[1] \notin DebitTypes}
           debits(A) == {e \in A : e[1] \in DebitTypes}
<1>1. /\ credits(S \ T) = credits(S) \ credits(T) /\ credits(T) \subseteq credits(S)
      /\ debits(S \ T) = debits(S) \ debits(T) /\ debits(T) \subseteq debits(S)
      /\ credits(S) \in SUBSET S /\ debits(S) \in SUBSET S
  OBVIOUS
<1>2. \A A : Net(A) = Cardinality(credits(A)) - Cardinality(debits(A))
  BY DEF Net
<1> HIDE DEF credits, debits
<1>3. IsFiniteSet(credits(S)) /\ IsFiniteSet(debits(S))
  BY <1>1, FS_Subset
<1>4. /\ Cardinality(credits(S)) \in Nat /\ Cardinality(credits(T)) \in Nat
      /\ Cardinality(credits(S \ T)) = Cardinality(credits(S)) - Cardinality(credits(T))
  BY <1>1, <1>3, CardOfDifference
<1>5. /\ Cardinality(debits(S)) \in Nat /\ Cardinality(debits(T)) \in Nat
      /\ Cardinality(debits(S \ T)) = Cardinality(debits(S)) - Cardinality(debits(T))
  BY <1>1, <1>3, CardOfDifference
<1> QED
  BY <1>2, <1>4, <1>5

\* No entry is ever removed.
LEMMA LedgerGrows ==
    ASSUME [Next]_vars
    PROVE  ledger \subseteq ledger'
BY DEF Next, vars, books, readers, nomba, Pay, PostCredit, PostSuspense, Backfill, CheckBalance, PostDebit,
       ReverseLedgerDebit, NombaPays, NombaRefuses, GetWalletBalance, GetPoolBalance, InsertRun,
       ListEntries, GetBalanceAsOf, Fail, InsertEntries

(***************************************************************************)
(* Runs.  The equation holds at the moment the wallet is read; the pool    *)
(* keeps the entries it had then, so what it has more when it is read is   *)
(* what came in between.                                                   *)
(***************************************************************************)
RunInv ==
    \A r \in Readers :
        KindOf[r] = "run" =>
            /\ pc[r] = "pool" =>
                  /\ truth[r].pool \subseteq Pool
                  /\ figures[r].wallet + Net(truth[r].pool) = truth[r].gap
            /\ pc[r] \in {"persist", "ok"} =>
                  figures[r].wallet + figures[r].pool = truth[r].gap + Net(truth[r].late)

LEMMA OtherKeepsRunInv ==
    ASSUME RunInv, UNCHANGED <<pc, figures, truth>>, ledger \subseteq ledger'
    PROVE  RunInv'
BY DEF RunInv, Net, Pool, Of

LEMMA PoolFinite == TypeOK => IsFiniteSet(Pool)
<1> SUFFICES ASSUME TypeOK PROVE IsFiniteSet(Pool)
  OBVIOUS
<1>1. IsFiniteSet(PoolTypes)
  <2>1. PoolTypes = ({} \cup {"pool_liability"}) \cup {"pool_release"}
    BY DEF PoolTypes
  <2> QED
    BY <2>1, FS_EmptySet, FS_AddElement
<1>2. IsFiniteSet(PoolTypes \X Movements)
  BY <1>1, MovementsFinite, FS_Product
<1> QED
  BY <1>2, FiguresAreInts, FS_Subset

LEMMA NetIsInt == ASSUME NEW S, IsFiniteSet(S) PROVE Net(S) \in Int
<1>1. {e \in S : e[1] \notin DebitTypes} \in SUBSET S /\ {e \in S : e[1] \in DebitTypes} \in SUBSET S
  OBVIOUS
<1> QED
  BY <1>1, FS_Subset, FS_CardinalityType DEF Net

LEMMA RunInvHolds == Spec => []RunInv
<1>1. Init => RunInv
  BY DEF Init, RunInv
<1>2. TypeOK /\ RunInv /\ [Next]_vars => RunInv'
  <2> SUFFICES ASSUME TypeOK, RunInv, [Next]_vars PROVE RunInv'
    OBVIOUS
  <2> ledger \subseteq ledger'
    BY LedgerGrows
  <2>1. ASSUME NEW p \in Payments, Pay(p) \/ PostCredit(p) \/ PostSuspense(p) \/ Backfill(p)
        PROVE  RunInv'
    BY <2>1, OtherKeepsRunInv DEF Pay, PostCredit, PostSuspense, Backfill, readers
  <2>2. ASSUME NEW t \in Transfers,
               CheckBalance(t) \/ PostDebit(t) \/ ReverseLedgerDebit(t)
               \/ NombaPays(t) \/ NombaRefuses(t)
        PROVE  RunInv'
    BY <2>2, OtherKeepsRunInv
       DEF CheckBalance, PostDebit, ReverseLedgerDebit, NombaPays, NombaRefuses, readers
  <2>3. ASSUME NEW r \in Readers, GetWalletBalance(r) PROVE RunInv'
    <3>1. Wallet + Net(Pool) = Gap
      BY PoolBalances DEF PoolEquation
    <3>2. /\ pc'[r] = "pool" /\ figures'[r].wallet = Wallet
          /\ truth'[r].gap = Gap /\ truth'[r].pool = Pool
      BY <2>3 DEF GetWalletBalance, Goto, TypeOK
    <3>3. \A q \in Readers \ {r} :
             pc'[q] = pc[q] /\ figures'[q] = figures[q] /\ truth'[q] = truth[q]
      BY <2>3 DEF GetWalletBalance, Goto, TypeOK
    <3>4. figures'[r].wallet + Net(truth'[r].pool) = truth'[r].gap
      BY <3>1, <3>2
    <3>5. Pool' = Pool
      BY <2>3 DEF GetWalletBalance, books, Pool, Of
    <3> QED
      BY <3>2, <3>3, <3>4, <3>5 DEF RunInv, Net
  <2>4. ASSUME NEW r \in Readers, GetPoolBalance(r) PROVE RunInv'
    <3>1. /\ KindOf[r] = "run" /\ pc[r] = "pool" /\ pc'[r] = "persist"
          /\ figures'[r].pool = Net(Pool) /\ figures'[r].wallet = figures[r].wallet
          /\ truth'[r].gap = truth[r].gap
          /\ truth'[r].late = Pool \ truth[r].pool
      BY <2>4 DEF GetPoolBalance, Goto, At, TypeOK
    <3>2. \A q \in Readers \ {r} :
             pc'[q] = pc[q] /\ figures'[q] = figures[q] /\ truth'[q] = truth[q]
      BY <2>4 DEF GetPoolBalance, Goto, TypeOK
    <3>3. /\ truth[r].pool \subseteq Pool
          /\ figures[r].wallet + Net(truth[r].pool) = truth[r].gap
      BY <3>1 DEF RunInv
    <3>4. Net(truth'[r].late) = Net(Pool) - Net(truth[r].pool)
      BY <3>1, <3>3, PoolFinite, NetOfDifference
    <3>5. /\ figures[r].wallet \in Int /\ Net(Pool) \in Int /\ truth[r].gap \in Int
          /\ Net(truth[r].pool) \in Int
      <4>1. IsFiniteSet(truth[r].pool)
        BY <3>3, PoolFinite, FS_Subset
      <4> QED
        BY <4>1, FiguresAreInts, NetIsInt DEF TypeOK
    <3>6. figures'[r].wallet + figures'[r].pool = truth'[r].gap + Net(truth'[r].late)
      BY <3>1, <3>3, <3>4, <3>5
    <3>7. Pool' = Pool
      BY <2>4 DEF GetPoolBalance, books, Pool, Of
    <3> QED
      BY <3>1, <3>2, <3>6, <3>7 DEF RunInv, Net
  <2>5. ASSUME NEW r \in Readers, InsertRun(r) PROVE RunInv'
    BY <2>5 DEF InsertRun, At, Goto, RunInv, TypeOK, Net, Pool, Of
  <2>6. ASSUME NEW r \in Readers, ListEntries(r) \/ GetBalanceAsOf(r) PROVE RunInv'
    <3>1. /\ KindOf[r] # "run" /\ UNCHANGED <<figures, truth>>
          /\ \A q \in Readers \ {r} : pc'[q] = pc[q]
      BY <2>6 DEF ListEntries, GetBalanceAsOf, At, Goto, TypeOK
    <3> QED
      BY <3>1 DEF RunInv, Net, Pool, Of
  <2>7. ASSUME NEW r \in Readers, Fail(r) PROVE RunInv'
    BY <2>7 DEF Fail, Goto, RunInv, TypeOK, Net, Pool, Of
  <2>8. CASE UNCHANGED vars
    BY <2>8, OtherKeepsRunInv DEF vars, readers
  <2> QED
    BY <2>1, <2>2, <2>3, <2>4, <2>5, <2>6, <2>7, <2>8 DEF Next
<1> QED
  BY <1>1, <1>2, TypeCorrect, PTL DEF Spec

\* Every run tells the gap but for what the pool got between its two reads.
THEOREM RunsTellTheGap == Spec => []RunTellsGap
<1>1. RunInv => RunTellsGap
  BY DEF RunInv, RunTellsGap, At
<1> QED
  BY <1>1, RunInvHolds, PTL

(***************************************************************************)
(* Statements.  Entries are never removed, so what a statement has listed  *)
(* is still there when it asks for the closing balance; an entry in that   *)
(* balance which is not on the list is late.                               *)
(***************************************************************************)
Asked(r) == CreatedAt[First(r)]

Sorted(r) ==
    /\ \A i \in DOMAIN listing[r] : listing[r][i] \in Customer
    /\ \A i, j \in DOMAIN listing[r] :
          i < j => /\ listing[r][i] # listing[r][j]
                   /\ CreatedAt[listing[r][i]] >= CreatedAt[listing[r][j]]

Closed(r) ==
    /\ IsFiniteSet(counted[r])
    /\ \A e \in counted[r] : CreatedAt[e] <= Asked(r)
    /\ \A i \in DOMAIN listing[r] :
          CreatedAt[listing[r][i]] <= Asked(r) => listing[r][i] \in counted[r]

StatementInv ==
    \A r \in Readers :
        KindOf[r] = "statement" =>
            /\ Sorted(r)
            /\ pc[r] = "ok" /\ Len(listing[r]) > Offset[r] => Closed(r)

LEMMA CustomerGrows ==
    ASSUME [Next]_vars
    PROVE  Customer \subseteq Customer'
BY LedgerGrows DEF Customer, Of

LEMMA OtherKeepsStatement ==
    ASSUME NEW r \in Readers, Sorted(r), Customer \subseteq Customer',
           listing'[r] = listing[r], counted'[r] = counted[r]
    PROVE  Sorted(r)' /\ (Closed(r) => Closed(r)')
BY DEF Sorted, Closed, Asked, First

LEMMA StatementInvHolds == Spec => []StatementInv
<1>1. Init => StatementInv
  BY DEF Init, StatementInv, Sorted
<1>2. TypeOK /\ StatementInv /\ [Next]_vars => StatementInv'
  <2> SUFFICES ASSUME TypeOK, StatementInv, [Next]_vars PROVE StatementInv'
    OBVIOUS
  <2>0. ASSUME UNCHANGED <<pc, listing, counted>> PROVE StatementInv'
    BY <2>0, CustomerGrows, OtherKeepsStatement DEF StatementInv
  <2>1. ASSUME NEW p \in Payments, Pay(p) \/ PostCredit(p) \/ PostSuspense(p) \/ Backfill(p)
        PROVE  StatementInv'
    BY <2>0, <2>1 DEF Pay, PostCredit, PostSuspense, Backfill, readers
  <2>2. ASSUME NEW t \in Transfers,
               CheckBalance(t) \/ PostDebit(t) \/ ReverseLedgerDebit(t)
               \/ NombaPays(t) \/ NombaRefuses(t)
        PROVE  StatementInv'
    BY <2>0, <2>2 DEF CheckBalance, PostDebit, ReverseLedgerDebit, NombaPays, NombaRefuses, readers
  <2>3. ASSUME NEW r \in Readers, GetWalletBalance(r) \/ GetPoolBalance(r) \/ InsertRun(r)
        PROVE  StatementInv'
    <3>1. /\ KindOf[r] # "statement" /\ UNCHANGED <<listing, counted>>
          /\ \A q \in Readers \ {r} : pc'[q] = pc[q]
      BY <2>3 DEF GetWalletBalance, GetPoolBalance, InsertRun, At, Goto, TypeOK
    <3> QED
      BY <3>1, CustomerGrows, OtherKeepsStatement DEF StatementInv
  <2>4. ASSUME NEW r \in Readers, ListEntries(r) PROVE StatementInv'
    <3>1. PICK s \in Listings(Customer) : listing' = [listing EXCEPT ![r] = s]
              /\ Goto(r, IF Len(s) > Offset[r] THEN "closing" ELSE "ok")
      BY <2>4 DEF ListEntries
    <3>2. s \in [1 .. Cardinality(Customer) -> Customer]
          /\ \A i, j \in DOMAIN s : i < j => s[i] # s[j] /\ CreatedAt[s[i]] >= CreatedAt[s[j]]
      BY DEF Listings
    <3>3. /\ listing'[r] = s /\ UNCHANGED counted
          /\ pc'[r] = IF Len(s) > Offset[r] THEN "closing" ELSE "ok"
          /\ \A q \in Readers \ {r} : listing'[q] = listing[q] /\ pc'[q] = pc[q]
      BY <2>4, <3>1 DEF ListEntries, Goto, TypeOK
    <3>4. Sorted(r)'
      BY <3>2, <3>3, CustomerGrows DEF Sorted
    <3>5. ~ (pc'[r] = "ok" /\ Len(listing'[r]) > Offset[r])
      BY <3>3
    <3> QED
      BY <3>3, <3>4, <3>5, CustomerGrows, OtherKeepsStatement DEF StatementInv
  <2>5. ASSUME NEW r \in Readers, GetBalanceAsOf(r) PROVE StatementInv'
    <3>1. /\ UNCHANGED listing /\ KindOf[r] = "statement"
          /\ counted'[r] = {e \in Customer : CreatedAt[e] <= Asked(r)}
          /\ \A q \in Readers \ {r} : counted'[q] = counted[q] /\ pc'[q] = pc[q]
      BY <2>5 DEF GetBalanceAsOf, At, Goto, TypeOK, Asked
    <3>2. Sorted(r) /\ Sorted(r)'
      BY <3>1, CustomerGrows DEF StatementInv, Sorted
    <3>3. Asked(r)' = Asked(r)
      BY <3>1 DEF Asked, First
    <3>4. IsFiniteSet(counted'[r])
      <4>1. counted'[r] \in SUBSET Customer
        BY <3>1
      <4> QED
        BY <4>1, CustomerFinite, FS_Subset
    <3>5. Closed(r)'
      BY <3>1, <3>2, <3>3, <3>4 DEF Closed, Sorted
    <3> QED
      BY <3>1, <3>2, <3>5, CustomerGrows, OtherKeepsStatement DEF StatementInv
  <2>6. ASSUME NEW r \in Readers, Fail(r) PROVE StatementInv'
    <3>1. /\ UNCHANGED <<listing, counted>> /\ pc'[r] = "error"
          /\ \A q \in Readers \ {r} : pc'[q] = pc[q]
      BY <2>6 DEF Fail, Goto, TypeOK
    <3> QED
      BY <3>1, CustomerGrows, OtherKeepsStatement DEF StatementInv
  <2>7. CASE UNCHANGED vars
    BY <2>0, <2>7 DEF vars, readers
  <2> QED
    BY <2>1, <2>2, <2>3, <2>4, <2>5, <2>6, <2>7 DEF Next
<1> QED
  BY <1>1, <1>2, TypeCorrect, PTL DEF Spec

\* Every line of a statement is right unless an entry came late or ties.
THEOREM StatementsAreRight == Spec => []StatementRight
<1>1. TypeOK /\ StatementInv => StatementRight
  <2> SUFFICES ASSUME TypeOK, StatementInv, NEW r \in Readers, At(r, "statement", "ok"),
                      ~ Late(r), ~ Tie(r), NEW i \in Page(r)
               PROVE  Right(r, i)
    BY DEF StatementRight
  <2> DEFINE s == listing[r]
             n == Offset[r]
             newer == {s[j] : j \in {k \in Page(r) : k < i}}
             rest == {s[j] : j \in i .. Len(s)}
  <2>1. s \in Seq(CustomerTypes \X Movements) /\ n \in Nat /\ i \in Nat /\ i > n /\ i <= Len(s)
        /\ Len(s) \in Nat /\ DOMAIN s = 1 .. Len(s)
    BY BooksAssumption DEF TypeOK, Page
  <2>2. Sorted(r) /\ Closed(r)
    BY <2>1 DEF StatementInv, At
  <2>3. \A j \in 1 .. Len(s) : CreatedAt[s[j]] \in Nat
    BY <2>1, BooksAssumption
  <2>4. Asked(r) = CreatedAt[s[n + 1]] /\ n + 1 \in 1 .. Len(s)
    BY <2>1 DEF Asked, First
  <2>5. \A j, k \in 1 .. Len(s) :
           j < k => s[j] # s[k] /\ CreatedAt[s[j]] >= CreatedAt[s[k]]
    BY <2>1, <2>2 DEF Sorted
  <2>6. \A j \in 1 .. Len(s) : s[j] \in counted[r] <=> j > n
    <3>1. ASSUME NEW j \in 1 .. Len(s), j > n PROVE CreatedAt[s[j]] <= Asked(r)
      <4>1. CASE j = n + 1
        BY <2>3, <2>4, <4>1
      <4>2. CASE n + 1 < j
        BY <2>3, <2>4, <2>5, <4>2
      <4> QED
        BY <2>1, <3>1, <4>1, <4>2
    <3>2. ASSUME NEW j \in 1 .. Len(s), j <= n PROVE ~ (CreatedAt[s[j]] <= Asked(r))
      <4>1. CreatedAt[s[j]] # Asked(r)
        BY <2>1, <3>2 DEF Tie, Asked
      <4>2. CreatedAt[s[j]] >= CreatedAt[s[n + 1]]
        BY <2>1, <2>4, <2>5, <3>2
      <4> QED
        BY <2>3, <2>4, <4>1, <4>2
    <3>3. \A j \in 1 .. Len(s) : s[j] \in counted[r] <=> CreatedAt[s[j]] <= Asked(r)
      BY <2>1, <2>2 DEF Closed
    <3> QED
      <4> TAKE j \in 1 .. Len(s)
      <4>1. j > n \/ j <= n
        BY <2>1
      <4>2. CASE j > n
        BY <3>1, <3>3, <4>2
      <4>3. CASE j <= n
        BY <2>1, <3>2, <3>3, <4>3
      <4> QED
        BY <4>1, <4>2, <4>3
  <2>7. counted[r] = {s[j] : j \in n + 1 .. Len(s)}
    <3>1. \A e \in counted[r] : \E j \in 1 .. Len(s) : s[j] = e
      BY <2>1 DEF Late
    <3> QED
      BY <2>1, <2>6, <3>1
  <2>8. \A j \in Nat : j \in Page(r) /\ j < i <=> j \in n + 1 .. i - 1
    <3>1. i <= n + PageSize(r) /\ PageSize(r) \in Nat
      BY BooksAssumption DEF Page, PageSize
    <3> QED
      BY <2>1, <3>1 DEF Page
  <2>9. newer \subseteq counted[r] /\ counted[r] \ newer = rest
    <3>1. Page(r) \subseteq Nat
      BY <2>1 DEF Page
    <3>2. newer = {s[j] : j \in n + 1 .. i - 1}
      BY <2>1, <2>8, <3>1
    <3>3. ASSUME NEW j \in n + 1 .. i - 1, NEW k \in i .. Len(s) PROVE s[j] # s[k]
      BY <2>1, <2>5
    <3>4. \A j \in n + 1 .. Len(s) : j \in n + 1 .. i - 1 \/ j \in i .. Len(s)
      BY <2>1
    <3>5. n + 1 .. i - 1 \subseteq n + 1 .. Len(s) /\ i .. Len(s) \subseteq n + 1 .. Len(s)
      BY <2>1
    <3> HIDE DEF newer, s, n
    <3> QED
      BY <2>7, <3>2, <3>3, <3>4, <3>5
  <2>10. Net(counted[r] \ newer) = Net(counted[r]) - Net(newer)
    BY <2>2, <2>9, NetOfDifference DEF Closed
  <2>11. RunningBalance(r, i) = Net(counted[r]) - Net(newer)
    BY DEF RunningBalance
  <2> QED
    BY <2>9, <2>10, <2>11 DEF Right
<1> QED
  BY <1>1, TypeCorrect, StatementInvHolds, PTL

=============================================================================
