---------------------------- MODULE CachesProofs ----------------------------
(* Theorems about Caches for every value of its constants.                 *)
EXTENDS Caches, TLAPS

LEMMA Bounds ==
    /\ TTL \in Nat /\ TTL > 0 /\ MaxGap \in Nat /\ MaxAge = TTL + MaxGap
    /\ MaxFaults \in Nat /\ Fallback \in BOOLEAN
    /\ \A r \in Readers, w \in Writers : r # w
BY CachesAssumption DEF MaxAge

LEMMA FaultCounts ==
    ASSUME faults \in 0 .. MaxFaults, NEW f, UNCHANGED faults \/ Fault(f)
    PROVE  faults' \in 0 .. MaxFaults
BY Bounds DEF Fault

LEMMA LessFacts ==
    ASSUME NEW n \in 0 .. TTL
    PROVE  /\ Less(n) \in 0 .. TTL
           /\ n > 0 => Less(n) = n - 1
           /\ n = 0 => Less(n) = 0
BY Bounds DEF Less

\* What a reader's or a writer's step does to the control state.
LEMMA ReaderStep ==
    ASSUME TypeOK, NEW r \in Readers, NEW s, Goto(r, s), s \in ReaderStates
    PROVE  /\ pc'[r] = s /\ DOMAIN pc' = Readers \cup Writers
           /\ \A q \in Readers : q # r => pc'[q] = pc[q]
           /\ \A q \in Readers : pc'[q] \in ReaderStates
           /\ \A w \in Writers : pc'[w] = pc[w]
BY Bounds DEF Goto, TypeOK

LEMMA WriterStep ==
    ASSUME TypeOK, NEW w \in Writers, NEW s, Goto(w, s), s \in WriterStates
    PROVE  /\ pc'[w] = s /\ DOMAIN pc' = Readers \cup Writers
           /\ \A q \in Writers : pc'[q] \in WriterStates
           /\ \A r \in Readers : pc'[r] = pc[r]
BY Bounds DEF Goto, TypeOK

LEMMA UnstampedIs ==
    ASSUME NEW v PROVE Unstamped(v) = [version |-> v, left |-> 0, gap |-> 0]
BY DEF Unstamped, Absent

\* The rows and records of a reader's request.
LEMMA LookupEffect ==
    ASSUME TypeOK, NEW r \in Readers, Lookup(r)
    PROVE  /\ UNCHANGED <<kind, row, age, entry, wrote, acked, straddled, faults>>
           /\ since' = [since EXCEPT ![r] = acked]
           /\ \/ entry.left > 0 /\ Serve(r, entry)
              \/ \E s \in {"delete", "load"} : Goto(r, s) /\ UNCHANGED got
BY DEF Lookup, Hit

LEMMA LoadEffect ==
    ASSUME TypeOK, NEW r \in Readers, Load(r)
    PROVE  /\ UNCHANGED <<kind, row, age, entry, since, wrote, acked, straddled>>
           /\ UNCHANGED faults \/ Fault("db")
           /\ \/ /\ Goto(r, "build") /\ Usable
                 /\ got' = [got EXCEPT ![r] = Unstamped(row)]
              \/ Goto(r, "refused") /\ UNCHANGED got
BY DEF Load

LEMMA BuildEffect ==
    ASSUME TypeOK, NEW r \in Readers, Build(r)
    PROVE  /\ pc[r] = "build"
           /\ UNCHANGED <<kind, row, age, entry, since, wrote, acked, straddled>>
           /\ UNCHANGED faults \/ Fault("decrypt")
           /\ \A q \in Readers : got'[q].version = got[q].version /\ got'[q].gap = got[q].gap
           /\ \A q \in Readers : q # r => got'[q] = got[q]
           /\ \/ Goto(r, "store") /\ got' = [got EXCEPT ![r].left = TTL]
              \/ Goto(r, "refused") /\ UNCHANGED got
<1>1. ASSUME got' = [got EXCEPT ![r].left = TTL]
      PROVE  \A q \in Readers : got'[q].version = got[q].version /\ got'[q].gap = got[q].gap
  BY <1>1 DEF TypeOK
<1> QED
  BY <1>1 DEF Build, TypeOK

\* What serving does to the record of a request.
LEMMA ServeEffect ==
    ASSUME TypeOK, NEW r \in Readers, NEW e, Serve(r, e)
    PROVE  /\ Goto(r, "served")
           /\ got'[r].version = e.version /\ \A q \in Readers : q # r => got'[q] = got[q]
BY UnstampedIs DEF Serve, TypeOK

LEMMA WriteEffect ==
    ASSUME TypeOK, NEW w \in Writers, Write(w)
    PROVE  /\ UNCHANGED <<kind, entry, got, since, acked, straddled>>
           /\ UNCHANGED faults \/ Fault("commit") \/ Fault("db")
           /\ \E s \in {"evict", "error"} : Goto(w, s)
           /\ \/ /\ row' \in Nat /\ row' >= row /\ age' = 0 /\ wrote' = [wrote EXCEPT ![w] = row']
                 /\ kind = "key" => row' = Revoked
              \/ UNCHANGED <<row, age, wrote>>
BY DEF Write, TypeOK, RevokeKey, UpsertNombaConfig, Revoked

\* The type invariant holds in every reachable state.
THEOREM TypeCorrect == Spec => []TypeOK
<1> USE Bounds
<1>1. Init => TypeOK
  <2> SUFFICES ASSUME Init PROVE TypeOK
    OBVIOUS
  <2>1. /\ \A r \in Readers : pc[r] = "idle"
        /\ \A w \in Writers : pc[w] = "new"
        /\ DOMAIN pc = Readers \cup Writers
    BY DEF Init
  <2>2. Absent \in [version : 0 .. row, left : 0 .. TTL, gap : 0 .. MaxGap] /\ row = 0
    BY DEF Init, Absent
  <2>3. /\ got \in [Readers -> [version : 0 .. row, left : 0 .. TTL, gap : 0 .. MaxGap]]
        /\ since \in [Readers -> 0 .. acked] /\ wrote \in [Writers -> 0 .. row]
    BY <2>2 DEF Init
  <2>4. kind \in {"key", "config"} /\ age \in 0 .. MaxAge /\ acked \in 0 .. row
        /\ faults \in 0 .. MaxFaults
    <3>1. age = 0 /\ acked = 0 /\ row = 0 /\ faults = 0 /\ kind \in {"key", "config"}
      BY DEF Init
    <3> QED
      BY <3>1
  <2>6. straddled \in BOOLEAN
    BY DEF Init
  <2>5. row \in Nat /\ row \in 0 .. Revoked /\ entry = Absent
    BY DEF Init, Revoked
  <2> QED
    BY <2>1, <2>2, <2>3, <2>4, <2>5, <2>6 DEF TypeOK, ReaderStates, WriterStates
<1>2. TypeOK /\ [Next]_vars => TypeOK'
  <2> SUFFICES ASSUME TypeOK, [Next]_vars PROVE TypeOK'
    OBVIOUS
  <2> DEFINE Entries == [version : 0 .. row, left : 0 .. TTL, gap : 0 .. MaxGap]
  <2>0. row \in Nat /\ acked \in Nat
    BY DEF TypeOK
  <2>1. ASSUME NEW r \in Readers, Lookup(r) PROVE TypeOK'
    <3>1. entry.version \in 0 .. row /\ Unstamped(entry.version) \in Entries
      BY <2>0, UnstampedIs DEF TypeOK
    <3>2. since' \in [Readers -> 0 .. acked] /\ got' \in [Readers -> Entries]
      BY <2>0, <2>1, <3>1, LookupEffect DEF TypeOK, Serve
    <3>3. PICK s \in ReaderStates : Goto(r, s)
      BY <2>1, LookupEffect DEF ReaderStates, Serve
    <3> QED
      BY <2>1, <3>2, <3>3, LookupEffect, ReaderStep DEF TypeOK
  <2>2. ASSUME NEW r \in Readers, Delete(r) PROVE TypeOK'
    <3>1. Absent \in Entries
      BY <2>0 DEF Absent
    <3> QED
      BY <2>2, <3>1, ReaderStep DEF Delete, TypeOK, ReaderStates
  <2>3. ASSUME NEW r \in Readers, Load(r) PROVE TypeOK'
    <3>1. Unstamped(row) \in Entries
      BY <2>0, UnstampedIs
    <3>2. got' \in [Readers -> Entries]
      BY <2>3, <3>1, LoadEffect DEF TypeOK
    <3>3. PICK s \in ReaderStates : Goto(r, s)
      BY <2>3, LoadEffect DEF ReaderStates
    <3>4. faults' \in 0 .. MaxFaults
      BY <2>3, LoadEffect, FaultCounts DEF TypeOK
    <3> QED
      BY <2>3, <3>2, <3>3, <3>4, LoadEffect, ReaderStep DEF TypeOK
  <2>11. ASSUME NEW r \in Readers, Build(r) PROVE TypeOK'
    <3>1. got' \in [Readers -> Entries]
      BY <2>11, BuildEffect DEF TypeOK
    <3>2. PICK s \in ReaderStates : Goto(r, s)
      BY <2>11, BuildEffect DEF ReaderStates
    <3>3. faults' \in 0 .. MaxFaults
      BY <2>11, BuildEffect, FaultCounts DEF TypeOK
    <3> QED
      BY <2>11, <3>1, <3>2, <3>3, BuildEffect, ReaderStep DEF TypeOK
  <2>4. ASSUME NEW r \in Readers, Store(r) PROVE TypeOK'
    <3>1. entry' \in Entries
      BY <2>0, <2>4 DEF Store, TypeOK
    <3>2. got[r].version \in 0 .. row /\ Unstamped(got[r].version) \in Entries
      BY <2>0, UnstampedIs DEF TypeOK
    <3>3. got' \in [Readers -> Entries]
      BY <2>4, <3>2 DEF Store, Serve, TypeOK
    <3> QED
      BY <2>4, <3>1, <3>3, ReaderStep DEF Store, Serve, TypeOK, ReaderStates
  <2>5. CASE CreateKey
    BY <2>5 DEF CreateKey, TypeOK, Active, Revoked
  <2>6. ASSUME NEW w \in Writers, Write(w) PROVE TypeOK'
    <3>1. /\ UNCHANGED <<kind, entry, got, since, acked, straddled>>
          /\ faults' \in 0 .. MaxFaults
          /\ row' \in Nat /\ row' >= row
      BY <2>0, <2>6, WriteEffect, FaultCounts DEF TypeOK
    <3>2. age' \in 0 .. MaxAge /\ (kind' = "key" => row' \in 0 .. Revoked)
      BY <2>6, WriteEffect DEF TypeOK, Revoked
    <3>3. wrote' \in [Writers -> 0 .. row']
      BY <2>0, <2>6, <3>1, WriteEffect DEF TypeOK
    <3>4. PICK s \in WriterStates : Goto(w, s)
      BY <2>6, WriteEffect DEF WriterStates
    <3>5. /\ acked' \in 0 .. row' /\ entry' \in [version : 0 .. row', left : 0 .. TTL, gap : 0 .. MaxGap]
          /\ got' \in [Readers -> [version : 0 .. row', left : 0 .. TTL, gap : 0 .. MaxGap]]
      BY <2>0, <3>1 DEF TypeOK
    <3> QED
      BY <3>1, <3>2, <3>3, <3>4, <3>5, WriterStep DEF TypeOK
  <2>7. ASSUME NEW w \in Writers, Evict(w) PROVE TypeOK'
    <3>1. /\ UNCHANGED <<kind, row, age, got, since, wrote, faults>> /\ Goto(w, "ok")
          /\ entry' = Absent
      BY <2>7 DEF Evict
    <3>2. acked' \in 0 .. row /\ acked' >= acked
      BY <2>0, <2>7 DEF Evict, TypeOK
    <3>3. Absent \in Entries
      BY <2>0 DEF Absent
    <3>4. straddled' \in BOOLEAN
      BY <2>7 DEF Evict, TypeOK, Straddles
    <3>5. since' \in [Readers -> 0 .. acked']
      BY <2>0, <3>1, <3>2 DEF TypeOK
    <3> QED
      BY <3>1, <3>2, <3>3, <3>4, <3>5, WriterStep DEF TypeOK, WriterStates
  <2>8. CASE Tick
    <3>1. entry' \in Entries
      BY <2>8, LessFacts DEF Tick, TypeOK
    <3>2. ASSUME NEW r \in Readers PROVE got'[r] \in Entries
      <4>1. got[r] \in Entries
        BY DEF TypeOK
      <4>2. CASE pc[r] = "build"
        BY <2>8, <4>1, <4>2 DEF Tick
      <4>3. CASE pc[r] # "build"
        BY <2>8, <4>1, <4>3, LessFacts DEF Tick
      <4> QED
        BY <4>2, <4>3
    <3>4. got' \in [Readers -> Entries]
      BY <2>8, <3>2 DEF Tick
    <3>3. age' \in 0 .. MaxAge
      BY <2>8 DEF Tick, TypeOK
    <3> QED
      BY <2>8, <3>1, <3>3, <3>4 DEF Tick, TypeOK
  <2>9. CASE Crash
    <3>1. Absent \in Entries
      BY <2>0 DEF Absent
    <3>2. faults' \in 0 .. MaxFaults
      BY <2>9, FaultCounts DEF Crash, TypeOK
    <3>3. /\ DOMAIN pc' = Readers \cup Writers
          /\ \A r \in Readers : pc'[r] \in ReaderStates
          /\ \A w \in Writers : pc'[w] \in WriterStates
      BY <2>9 DEF Crash, TypeOK, ReaderStates, WriterStates
    <3> QED
      BY <2>9, <3>1, <3>2, <3>3 DEF Crash, TypeOK
  <2>10. CASE UNCHANGED vars
    BY <2>10 DEF vars, TypeOK
  <2> QED
    BY <2>1, <2>2, <2>3, <2>4, <2>5, <2>6, <2>7, <2>8, <2>9, <2>10, <2>11 DEF Next, Continue
<1> QED
  BY <1>1, <1>2, PTL DEF Spec

(***************************************************************************)
(* Whoever holds an old version - the cache, or a request with one in hand *)
(* - holds it since before it was replaced, or got it from one who did.    *)
(***************************************************************************)
Live(e) == e.left > 0

OldInv ==
    /\ Live(entry) /\ entry.version < acked => straddled
    /\ \A r \in Readers :
          /\ InHand(r) /\ got[r].version < acked => straddled
          /\ pc[r] = "served" /\ got[r].version < since[r] => straddled

LEMMA OldInvHolds == Spec => []OldInv
<1> USE Bounds
<1>1. Init => OldInv
  BY DEF Init, OldInv, Absent, Live
<1>2. TypeOK /\ OldInv /\ [Next]_vars => OldInv'
  <2> SUFFICES ASSUME TypeOK, OldInv, [Next]_vars PROVE OldInv'
    OBVIOUS
  <2>0. row \in Nat /\ acked \in Nat /\ acked <= row
    BY DEF TypeOK
  <2>1. ASSUME NEW r \in Readers, Lookup(r) PROVE OldInv'
    <3>1. since'[r] = acked /\ \A q \in Readers : q # r => since'[q] = since[q]
      BY <2>1 DEF Lookup, TypeOK
    <3>2. CASE Live(entry) /\ Serve(r, entry)
      <4>1. pc'[r] = "served" /\ \A q \in Readers : q # r => pc'[q] = pc[q]
        BY <3>2, ServeEffect, ReaderStep DEF ReaderStates
      <4>2. got'[r].version = entry.version /\ \A q \in Readers : q # r => got'[q] = got[q]
        BY <3>2, ServeEffect
      <4> QED
        BY <2>1, <3>1, <3>2, <4>1, <4>2, LookupEffect DEF OldInv, Live, InHand
    <3>3. ASSUME NEW s \in {"delete", "load"}, Goto(r, s), UNCHANGED got PROVE OldInv'
      <4>1. pc'[r] \notin {"build", "store", "served"} /\ \A q \in Readers : q # r => pc'[q] = pc[q]
        BY <3>3, ReaderStep DEF ReaderStates
      <4> QED
        BY <2>1, <3>1, <3>3, <4>1, LookupEffect DEF OldInv, Live, InHand
    <3> QED
      BY <2>1, <3>2, <3>3, LookupEffect DEF Live
  <2>2. ASSUME NEW r \in Readers, Delete(r) PROVE OldInv'
    <3>1. pc'[r] = "load" /\ \A q \in Readers : q # r => pc'[q] = pc[q]
      BY <2>2, ReaderStep DEF Delete, ReaderStates
    <3> QED
      BY <2>2, <3>1 DEF Delete, OldInv, Live, Absent, InHand
  <2>3. ASSUME NEW r \in Readers, Load(r) PROVE OldInv'
    <3>1. CASE Goto(r, "build") /\ got' = [got EXCEPT ![r] = Unstamped(row)]
      <4>1. got'[r].version = row /\ \A q \in Readers : q # r => got'[q] = got[q]
        BY <3>1, UnstampedIs DEF TypeOK
      <4>2. pc'[r] = "build" /\ \A q \in Readers : q # r => pc'[q] = pc[q]
        BY <3>1, ReaderStep DEF ReaderStates
      <4> QED
        BY <2>0, <2>3, <4>1, <4>2, LoadEffect DEF OldInv, Live, InHand
    <3>2. CASE Goto(r, "refused") /\ UNCHANGED got
      <4>1. pc'[r] = "refused" /\ \A q \in Readers : q # r => pc'[q] = pc[q]
        BY <3>2, ReaderStep DEF ReaderStates
      <4> QED
        BY <2>3, <3>2, <4>1, LoadEffect DEF OldInv, Live, InHand
    <3> QED
      BY <2>3, <3>1, <3>2, LoadEffect
  <2>11. ASSUME NEW r \in Readers, Build(r) PROVE OldInv'
    <3>1. InHand(r) /\ pc'[r] \in {"store", "refused"} /\ \A q \in Readers : q # r => pc'[q] = pc[q]
      BY <2>11, BuildEffect, ReaderStep DEF ReaderStates, InHand
    <3> QED
      BY <2>11, <3>1, BuildEffect DEF OldInv, Live, InHand
  <2>4. ASSUME NEW r \in Readers, Store(r) PROVE OldInv'
    <3>1. /\ InHand(r) /\ entry' = got[r] /\ Serve(r, got[r])
          /\ UNCHANGED <<since, acked, straddled>>
      BY <2>4 DEF Store, InHand
    <3>2. pc'[r] = "served" /\ \A q \in Readers : q # r => pc'[q] = pc[q]
      BY <3>1, ServeEffect, ReaderStep DEF ReaderStates
    <3>3. got[r].version < since[r] => got[r].version < acked
      BY <2>0 DEF TypeOK
    <3>4. got'[r].version = got[r].version /\ \A q \in Readers : q # r => got'[q] = got[q]
      BY <3>1, ServeEffect
    <3> QED
      BY <3>1, <3>2, <3>3, <3>4 DEF OldInv, Live, InHand
  <2>5. CASE CreateKey
    BY <2>5 DEF CreateKey, OldInv, Live, InHand
  <2>6. ASSUME NEW w \in Writers, Write(w) PROVE OldInv'
    <3>1. \A r \in Readers : pc'[r] = pc[r]
      BY <2>6, WriteEffect, WriterStep DEF WriterStates
    <3> QED
      BY <2>6, <3>1, WriteEffect DEF OldInv, Live, InHand
  <2>7. ASSUME NEW w \in Writers, Evict(w) PROVE OldInv'
    <3>1. \A r \in Readers : pc'[r] = pc[r]
      BY <2>7, WriterStep DEF Evict, WriterStates
    <3>2. /\ ~ Live(entry') /\ UNCHANGED <<got, since>>
          /\ acked' \in {acked, wrote[w]}
      BY <2>7 DEF Evict, Live, Absent
    <3>4. straddled \/ Straddles(w) => straddled'
      BY <2>7, Zenon DEF Evict
    <3>3. ASSUME NEW r \in Readers, InHand(r), got[r].version < acked' PROVE straddled'
      BY <3>2, <3>3, <3>4 DEF OldInv, Straddles
    <3> QED
      BY <3>1, <3>2, <3>3, <3>4 DEF OldInv, InHand
  <2>8. CASE Tick
    <3>1. entry'.version = entry.version /\ (Live(entry') => Live(entry))
      BY <2>8, LessFacts DEF Tick, TypeOK, Live
    <3>2. \A r \in Readers : got'[r].version = got[r].version
      BY <2>8 DEF Tick, TypeOK
    <3> QED
      BY <2>8, <3>1, <3>2 DEF Tick, OldInv, InHand
  <2>9. CASE Crash
    <3>1. ~ Live(entry') /\ \A r \in Readers : pc'[r] = "idle"
      BY <2>9 DEF Crash, Live, Absent
    <3> QED
      BY <3>1 DEF OldInv, InHand
  <2>10. CASE UNCHANGED vars
    BY <2>10 DEF vars, OldInv, Live, InHand
  <2> QED
    BY <2>1, <2>2, <2>3, <2>4, <2>5, <2>6, <2>7, <2>8, <2>9, <2>10, <2>11 DEF Next, Continue
<1> QED
  BY <1>1, <1>2, TypeCorrect, PTL DEF Spec

\* What was written is served once its writer has been told, or a request
\* straddled the eviction.
THEOREM StaleOnlyByStraddle == Spec => []StaleNeedsStraddle
<1>1. OldInv => StaleNeedsStraddle
  BY DEF OldInv, StaleNeedsStraddle
<1> QED
  BY <1>1, OldInvHolds, PTL

(***************************************************************************)
(* While an entry is in the making its gap counts the ticks from reading   *)
(* the row on, so a later write is no older than that; from its stamp on   *)
(* the ticks it loses are the ticks the last write grows older.            *)
(***************************************************************************)
InTime(e) == Live(e) /\ e.version < row => e.left + age <= TTL + e.gap

ExpiryInv ==
    /\ InTime(entry)
    /\ \A r \in Readers :
          /\ pc[r] = "build" /\ got[r].version < row => age <= got[r].gap
          /\ pc[r] = "store" => InTime(got[r])

LEMMA ExpiryInvHolds == Spec => []ExpiryInv
<1> USE Bounds
<1>1. Init => ExpiryInv
  BY DEF Init, ExpiryInv, InTime, Live, Absent
<1>2. TypeOK /\ ExpiryInv /\ [Next]_vars => ExpiryInv'
  <2> SUFFICES ASSUME TypeOK, ExpiryInv, [Next]_vars PROVE ExpiryInv'
    OBVIOUS
  <2>0. /\ row \in Nat /\ age \in 0 .. MaxAge
        /\ entry.left \in 0 .. TTL /\ entry.gap \in 0 .. MaxGap /\ entry.version \in 0 .. row
        /\ \A r \in Readers : /\ got[r].left \in 0 .. TTL /\ got[r].gap \in 0 .. MaxGap
                              /\ got[r].version \in 0 .. row
    BY DEF TypeOK
  <2>1. ASSUME NEW r \in Readers, Lookup(r) PROVE ExpiryInv'
    <3>1. PICK s \in ReaderStates \ {"build", "store"} : Goto(r, s)
      BY <2>1, LookupEffect DEF ReaderStates, Serve
    <3>2. pc'[r] \notin {"build", "store"} /\ \A q \in Readers : q # r => pc'[q] = pc[q]
      BY <3>1, ReaderStep
    <3>3. \A q \in Readers : q # r => got'[q] = got[q]
      BY <2>1, LookupEffect, ServeEffect
    <3> QED
      BY <2>1, <3>2, <3>3, LookupEffect DEF ExpiryInv, InTime, Live
  <2>2. ASSUME NEW r \in Readers, Delete(r) PROVE ExpiryInv'
    <3>1. pc'[r] = "load" /\ \A q \in Readers : q # r => pc'[q] = pc[q]
      BY <2>2, ReaderStep DEF Delete, ReaderStates
    <3> QED
      BY <2>0, <2>2, <3>1 DEF Delete, ExpiryInv, InTime, Live, Absent
  <2>3. ASSUME NEW r \in Readers, Load(r) PROVE ExpiryInv'
    <3>1. pc'[r] \in {"build", "refused"} /\ \A q \in Readers : q # r => pc'[q] = pc[q]
      BY <2>3, LoadEffect, ReaderStep DEF ReaderStates
    <3>2. pc'[r] = "build" => got'[r].version = row
      BY <2>3, LoadEffect, ReaderStep, UnstampedIs DEF ReaderStates, TypeOK
    <3>3. \A q \in Readers : q # r => got'[q] = got[q]
      BY <2>3, LoadEffect DEF TypeOK
    <3> QED
      BY <2>0, <2>3, <3>1, <3>2, <3>3, LoadEffect DEF ExpiryInv, InTime, Live
  <2>11. ASSUME NEW r \in Readers, Build(r) PROVE ExpiryInv'
    <3>1. pc'[r] \in {"store", "refused"} /\ \A q \in Readers : q # r => pc'[q] = pc[q]
      BY <2>11, BuildEffect, ReaderStep DEF ReaderStates
    <3>2. pc'[r] = "store" => got'[r].left = TTL
      BY <2>11, BuildEffect, ReaderStep DEF ReaderStates, TypeOK
    <3>3. pc'[r] = "store" => InTime(got[r])'
      BY <2>0, <2>11, <3>2, BuildEffect DEF ExpiryInv, InTime, Live
    <3> QED
      BY <2>11, <3>1, <3>3, BuildEffect DEF ExpiryInv, InTime, Live
  <2>4. ASSUME NEW r \in Readers, Store(r) PROVE ExpiryInv'
    <3>1. /\ pc[r] = "store" /\ entry' = got[r] /\ Serve(r, got[r]) /\ UNCHANGED <<row, age>>
      BY <2>4 DEF Store
    <3>2. pc'[r] = "served" /\ \A q \in Readers : q # r => pc'[q] = pc[q] /\ got'[q] = got[q]
      BY <3>1, ServeEffect, ReaderStep DEF ReaderStates
    <3> QED
      BY <3>1, <3>2 DEF ExpiryInv, InTime, Live
  <2>5. CASE CreateKey
    BY <2>0, <2>5 DEF CreateKey, ExpiryInv, InTime, Live
  <2>6. ASSUME NEW w \in Writers, Write(w) PROVE ExpiryInv'
    <3>1. \A r \in Readers : pc'[r] = pc[r]
      BY <2>6, WriteEffect, WriterStep DEF WriterStates
    <3>2. CASE age' = 0
      BY <2>0, <2>6, <3>2, WriteEffect DEF ExpiryInv, InTime, Live
    <3>3. CASE UNCHANGED <<row, age>>
      BY <2>6, <3>1, <3>3, WriteEffect DEF ExpiryInv, InTime, Live
    <3> QED
      BY <2>6, <3>2, <3>3, WriteEffect
  <2>7. ASSUME NEW w \in Writers, Evict(w) PROVE ExpiryInv'
    <3>1. \A r \in Readers : pc'[r] = pc[r]
      BY <2>7, WriterStep DEF Evict, WriterStates
    <3> QED
      BY <2>0, <2>7, <3>1 DEF Evict, ExpiryInv, InTime, Live, Absent
  <2>8. CASE Tick
    <3>1. /\ entry'.version = entry.version /\ entry'.left = Less(entry.left)
          /\ entry'.gap = entry.gap /\ UNCHANGED <<row, pc>>
      BY <2>8 DEF Tick, TypeOK
    <3>2. ASSUME NEW n \in 0 .. TTL, NEW g \in 0 .. MaxGap, n > 0 => n + age <= TTL + g, Less(n) > 0
          PROVE  Less(n) + age' <= TTL + g
      BY <2>0, <2>8, <3>2 DEF Tick, Less
    <3>3. InTime(entry)'
      BY <2>0, <3>1, <3>2, LessFacts DEF ExpiryInv, InTime, Live
    <3>4. ASSUME NEW r \in Readers, pc[r] = "build", got'[r].version < row PROVE age' <= got'[r].gap
      <4>1. got'[r].version = got[r].version /\ got'[r].gap = got[r].gap + 1
        BY <2>8, <3>4 DEF Tick, TypeOK
      <4> QED
        BY <2>0, <2>8, <3>4, <4>1 DEF Tick, ExpiryInv
    <3>5. ASSUME NEW r \in Readers, pc[r] = "store" PROVE InTime(got[r])'
      <4>1. /\ got'[r].version = got[r].version /\ got'[r].left = Less(got[r].left)
            /\ got'[r].gap = got[r].gap
        BY <2>8, <3>5 DEF Tick, TypeOK
      <4> QED
        BY <2>0, <3>1, <3>2, <3>5, <4>1, LessFacts DEF ExpiryInv, InTime, Live
    <3> QED
      BY <3>1, <3>3, <3>4, <3>5 DEF ExpiryInv
  <2>9. CASE Crash
    <3>1. \A r \in Readers : pc'[r] = "idle"
      BY <2>9 DEF Crash
    <3> QED
      BY <2>0, <2>9, <3>1 DEF Crash, ExpiryInv, InTime, Live, Absent
  <2>10. CASE UNCHANGED vars
    BY <2>10 DEF vars, ExpiryInv, InTime, Live
  <2> QED
    BY <2>1, <2>2, <2>3, <2>4, <2>5, <2>6, <2>7, <2>8, <2>9, <2>10, <2>11 DEF Next, Continue
<1> QED
  BY <1>1, <1>2, TypeCorrect, PTL DEF Spec

\* Nothing is served from an entry whose row has been written longer ago than
\* the lifetime and the time the entry was in the making.
THEOREM StaleEntriesExpire == Spec => []StaleExpires
<1>1. ExpiryInv => StaleExpires
  BY DEF ExpiryInv, InTime, Live, StaleExpires, Hit
<1> QED
  BY <1>1, ExpiryInvHolds, PTL

\* A dead key stays dead.
THEOREM KeysDieForGood == Spec => KeyDiesForGood
<1> USE Bounds
<1>1. TypeOK /\ [Next]_vars => (Dead => Dead')
  <2> SUFFICES ASSUME TypeOK, [Next]_vars, Dead PROVE Dead'
    OBVIOUS
  <2>0. /\ kind = "key" /\ row = Revoked /\ entry.left = 0
        /\ \A r \in Readers : pc[r] \notin {"build", "store"}
    BY DEF Dead, Hit, InHand, TypeOK
  <2>1. ASSUME NEW r \in Readers, Lookup(r) PROVE Dead'
    <3>1. pc'[r] \notin {"build", "store"} /\ \A q \in Readers : q # r => pc'[q] = pc[q]
      BY <2>0, <2>1, LookupEffect, ReaderStep DEF ReaderStates
    <3> QED
      BY <2>0, <2>1, <3>1, LookupEffect DEF Dead, Hit, InHand
  <2>2. ASSUME NEW r \in Readers, Delete(r) PROVE Dead'
    <3>1. pc'[r] = "load" /\ \A q \in Readers : q # r => pc'[q] = pc[q]
      BY <2>2, ReaderStep DEF Delete, ReaderStates
    <3> QED
      BY <2>0, <2>2, <3>1 DEF Delete, Dead, Hit, InHand, Absent
  <2>3. ASSUME NEW r \in Readers, Load(r) PROVE Dead'
    <3>1. ~ Usable
      BY <2>0 DEF Usable, GetByHash, Active, Revoked
    <3>2. pc'[r] = "refused" /\ \A q \in Readers : q # r => pc'[q] = pc[q]
      BY <2>3, <3>1, LoadEffect, ReaderStep DEF ReaderStates
    <3> QED
      BY <2>0, <2>3, <3>2, LoadEffect DEF Dead, Hit, InHand
  <2>11. ASSUME NEW r \in Readers, Build(r) PROVE Dead'
    BY <2>0, <2>11 DEF Build
  <2>4. ASSUME NEW r \in Readers, Store(r) PROVE Dead'
    BY <2>0, <2>4 DEF Store
  <2>5. CASE CreateKey
    BY <2>0, <2>5 DEF CreateKey, Revoked
  <2>6. ASSUME NEW w \in Writers, Write(w) PROVE Dead'
    <3>1. \A r \in Readers : pc'[r] = pc[r]
      BY <2>6, WriteEffect, WriterStep DEF WriterStates
    <3> QED
      BY <2>0, <2>6, <3>1, WriteEffect DEF Dead, Hit, InHand
  <2>7. ASSUME NEW w \in Writers, Evict(w) PROVE Dead'
    <3>1. \A r \in Readers : pc'[r] = pc[r]
      BY <2>7, WriterStep DEF Evict, WriterStates
    <3> QED
      BY <2>0, <2>7, <3>1 DEF Evict, Dead, Hit, InHand, Absent
  <2>8. CASE Tick
    BY <2>0, <2>8 DEF Tick, Dead, Hit, InHand, Less, TypeOK
  <2>9. CASE Crash
    BY <2>0, <2>9 DEF Crash, Dead, Hit, InHand, Absent
  <2>10. CASE UNCHANGED vars
    BY <2>10 DEF vars, Dead, Hit, InHand
  <2> QED
    BY <2>1, <2>2, <2>3, <2>4, <2>5, <2>6, <2>7, <2>8, <2>9, <2>10, <2>11 DEF Next, Continue
<1> QED
  BY <1>1, TypeCorrect, PTL DEF Spec, KeyDiesForGood
=============================================================================
