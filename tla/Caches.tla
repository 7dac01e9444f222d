------------------------------- MODULE Caches -------------------------------
(***************************************************************************)
(* The two in-process caches: API keys in the authentication middleware    *)
(* (60 s), and Nomba clients in the client factory (5 min).  Requests look *)
(* a row up in the cache, then in the database, and cache what they find;  *)
(* handlers write the row and then evict it from the cache.  Both caches   *)
(* are maps whose entries do not affect one another: this is one row and   *)
(* its entry, and `kind' says of which table.                              *)
(***************************************************************************)
EXTENDS Integers

CONSTANTS
    Readers,      \* threads of requests, each one request after the other
    Writers,      \* requests that replace a configuration or revoke a key
    Fallback,     \* a global Nomba client serves organisations without one
    TTL,          \* cacheTTL, in ticks of the clock
    MaxGap,       \* bound on the ticks between reading a row and stamping the
                  \* entry made of it
    FaultKinds,   \* subset of AllFaults that may happen
    MaxFaults     \* bound on the number of faults

AllFaults == {"db",        \* a statement fails and changes nothing
              "commit",    \* it takes effect, and is reported as failed
              "decrypt",   \* a stored secret cannot be decrypted
              "crash"}     \* the process dies and is started again

ASSUME CachesAssumption ==
    /\ Readers \cap Writers = {}
    /\ Fallback \in BOOLEAN /\ TTL \in Nat \ {0} /\ MaxGap \in Nat
    /\ FaultKinds \subseteq AllFaults /\ MaxFaults \in Nat

VARIABLES
    kind,         \* "key" or "config"
    row,          \* version of the row, 0 while there is none; a key is in
                  \* its first version until it is revoked, its second
    age,          \* ticks since the last write, at most MaxAge
    entry,        \* the cache's entry: a version, the ticks left to it, and for
                  \* the properties the ticks between its reading and its stamp
    pc,           \* control state of each reader and writer
    got,          \* reader: the entry it is making; of one it was served from,
                  \* the version
    since,        \* reader: `acked' when it began
    wrote,        \* writer: the version it has written
    acked,        \* history: newest version that a writer was told is in force
    straddled,    \* history: an older version was read but not yet stored
                  \* while an entry was evicted
    faults        \* faults so far

vars == <<kind, row, age, entry, pc, got, since, wrote, acked, straddled, faults>>

MaxAge == TTL + MaxGap

Absent == [version |-> 0, left |-> 0, gap |-> 0]

ReaderStates == {"idle",      \* no request, or one that has not begun
                 "delete",    \* next: drop the expired entry (keys)
                 "load",      \* next: read the row
                 "build",     \* next: stamp the entry with its expiry
                 "store",     \* next: store it
                 "served", "refused"}

WriterStates == {"new", "evict", "ok", "error"}

Active  == 1   \* versions of a key
Revoked == 2

Init ==
    /\ kind \in {"key", "config"}
    /\ row = 0 /\ age = 0 /\ entry = Absent
    /\ pc = [c \in Readers \cup Writers |-> IF c \in Readers THEN "idle" ELSE "new"]
    /\ got = [r \in Readers |-> Absent] /\ since = [r \in Readers |-> 0]
    /\ wrote = [w \in Writers |-> 0]
    /\ acked = 0 /\ straddled = FALSE /\ faults = 0

Fault(f) == f \in FaultKinds /\ faults < MaxFaults /\ faults' = faults + 1

Goto(c, s) == pc' = [pc EXCEPT ![c] = s]

\* The row's version as read, with no expiry yet.
Unstamped(v) == [Absent EXCEPT !.version = v]

\* A request goes on with the client or the key of an entry.
Serve(r, e) == Goto(r, "served") /\ got' = [got EXCEPT ![r] = Unstamped(e.version)]

-----------------------------------------------------------------------------
(* Requests.                                                               *)

\* fromCache, and keyCache.Load: an entry that has not expired.
Hit == entry.left > 0

\* As Lookup, with an expiry that every use puts off.
Lookup_Sliding(r) ==
    /\ pc[r] \in {"idle", "served", "refused"}
    /\ since' = [since EXCEPT ![r] = acked]
    /\ IF Hit
         THEN Serve(r, entry) /\ entry' = [entry EXCEPT !.left = TTL]
         ELSE /\ Goto(r, IF kind = "key" /\ entry # Absent THEN "delete" ELSE "load")
              /\ UNCHANGED <<got, entry>>
    /\ UNCHANGED <<kind, row, age, wrote, acked, straddled, faults>>

\* A request is served from the cache if it can be.
Lookup(r) ==
    /\ pc[r] \in {"idle", "served", "refused"}
    /\ since' = [since EXCEPT ![r] = acked]
    /\ IF Hit
         THEN Serve(r, entry)
         ELSE /\ Goto(r, IF kind = "key" /\ entry # Absent THEN "delete" ELSE "load")
              /\ UNCHANGED got
    /\ UNCHANGED <<kind, row, age, entry, wrote, acked, straddled, faults>>

\* By then it may be another request's fresh entry that is dropped.
Delete(r) ==
    /\ pc[r] = "delete" /\ Goto(r, "load")
    /\ entry' = Absent
    /\ UNCHANGED <<kind, row, age, got, since, wrote, acked, straddled, faults>>

\* What the two look-ups in the database find.
GetByHash      == row = Active
GetNombaConfig == row > 0 \/ Fallback

Usable == IF kind = "key" THEN GetByHash ELSE GetNombaConfig

\* As Load, finding revoked keys too.
Load_Revoked(r) ==
    /\ pc[r] = "load"
    /\ \/ /\ row > 0 \/ (kind = "config" /\ Fallback)
          /\ Goto(r, "build") /\ UNCHANGED faults
          /\ got' = [got EXCEPT ![r] = Unstamped(row)]
       \/ ~Usable /\ Goto(r, "refused") /\ UNCHANGED <<got, faults>>
       \/ Goto(r, "refused") /\ Fault("db") /\ UNCHANGED got
    /\ UNCHANGED <<kind, row, age, entry, since, wrote, acked, straddled>>

\* The SELECT.  Nothing is cached for a row that is not there, except the
\* global client in its place.
Load(r) ==
    /\ pc[r] = "load"
    /\ \/ /\ Usable /\ Goto(r, "build") /\ UNCHANGED faults
          /\ got' = [got EXCEPT ![r] = Unstamped(row)]
       \/ ~Usable /\ Goto(r, "refused") /\ UNCHANGED <<got, faults>>
       \/ Goto(r, "refused") /\ Fault("db") /\ UNCHANGED got
    /\ UNCHANGED <<kind, row, age, entry, since, wrote, acked, straddled>>

\* The answer has come and the secrets are decrypted: only now is the expiry
\* reckoned, however long ago the row was read.
Build(r) ==
    /\ pc[r] = "build"
    /\ \/ /\ Goto(r, "store") /\ UNCHANGED faults
          /\ got' = [got EXCEPT ![r].left = TTL]
       \/ /\ kind = "config" /\ got[r].version > 0
          /\ Goto(r, "refused") /\ Fault("decrypt") /\ UNCHANGED got
    /\ UNCHANGED <<kind, row, age, entry, since, wrote, acked, straddled>>

\* As Store, with the expiry reckoned from here.
Store_Now(r) ==
    /\ pc[r] = "store" /\ Serve(r, got[r])
    /\ entry' = [got[r] EXCEPT !.left = TTL]
    /\ UNCHANGED <<kind, row, age, since, wrote, acked, straddled, faults>>

\* Whatever has become of the row or of the cache's entry meanwhile.
Store(r) ==
    /\ pc[r] = "store" /\ Serve(r, got[r])
    /\ entry' = got[r]
    /\ UNCHANGED <<kind, row, age, since, wrote, acked, straddled, faults>>

-----------------------------------------------------------------------------
(* Handlers that write.                                                    *)

\* A new key is in no cache.
CreateKey ==
    /\ kind = "key" /\ row = 0 /\ row' = Active /\ age' = 0
    /\ UNCHANGED <<kind, entry, pc, got, since, wrote, acked, straddled, faults>>

\* The row, after the two statements.
RevokeKey         == Revoked
UpsertNombaConfig == row + 1

\* A key that GetByID has found is revoked; a configuration is replaced.
Write(w) ==
    /\ pc[w] = "new" /\ (kind = "key" => row > 0)
    /\ \/ /\ row' = IF kind = "key" THEN RevokeKey ELSE UpsertNombaConfig
          /\ age' = 0
          /\ \/ Goto(w, "evict") /\ UNCHANGED faults
             \/ Goto(w, "error") /\ Fault("commit")
          /\ wrote' = [wrote EXCEPT ![w] = row']
       \/ Goto(w, "error") /\ Fault("db") /\ UNCHANGED <<row, age, wrote>>
    /\ UNCHANGED <<kind, entry, got, since, acked, straddled>>

\* A request that has read the row and not stored it yet.
InHand(r) == pc[r] \in {"build", "store"}

Straddles(w) == \E r \in Readers : InHand(r) /\ got[r].version < wrote[w]

\* As Evict, with the answer alone.
Evict_Missing(w) ==
    /\ pc[w] = "evict" /\ Goto(w, "ok")
    /\ acked' = IF wrote[w] > acked THEN wrote[w] ELSE acked
    /\ straddled' = (straddled \/ Straddles(w))
    /\ UNCHANGED <<kind, row, age, entry, got, since, wrote, faults>>

\* InvalidateKey and InvalidateOrg, and the handler's answer.
Evict(w) ==
    /\ pc[w] = "evict" /\ Goto(w, "ok")
    /\ entry' = Absent
    /\ acked' = IF wrote[w] > acked THEN wrote[w] ELSE acked
    /\ straddled' = (straddled \/ Straddles(w))
    /\ UNCHANGED <<kind, row, age, got, since, wrote, faults>>

-----------------------------------------------------------------------------
Less(n) == IF n > 0 THEN n - 1 ELSE 0

\* Time passes, but no more than MaxGap while an entry is being made.
Tick ==
    /\ \A r \in Readers : pc[r] = "build" => got[r].gap < MaxGap
    /\ entry' = [entry EXCEPT !.left = Less(@)]
    /\ got' = [r \in Readers |->
                IF pc[r] = "build" THEN [got[r] EXCEPT !.gap = @ + 1]
                                   ELSE [got[r] EXCEPT !.left = Less(@)]]
    /\ age' = IF age < MaxAge THEN age + 1 ELSE age
    /\ UNCHANGED <<kind, row, pc, since, wrote, acked, straddled, faults>>

\* The caches are lost, and the requests in progress.
Crash ==
    /\ Fault("crash")
    /\ entry' = Absent
    /\ pc' = [c \in Readers \cup Writers |->
                IF c \in Readers THEN "idle"
                ELSE IF pc[c] = "evict" THEN "error" ELSE pc[c]]
    /\ UNCHANGED <<kind, row, age, got, since, wrote, acked, straddled>>

Continue(r) == Delete(r) \/ Load(r) \/ Build(r) \/ Store(r)

Next ==
    \/ \E r \in Readers : Lookup(r) \/ Continue(r)
    \/ CreateKey
    \/ \E w \in Writers : Write(w) \/ Evict(w)
    \/ Tick \/ Crash

Spec == Init /\ [][Next]_vars

\* Time passes, and a request that has begun goes on.
FairSpec == Spec /\ WF_vars(Tick) /\ \A r \in Readers : WF_vars(Continue(r))

-----------------------------------------------------------------------------
(* Properties.                                                             *)

\* Types, and no version is in force, cached or in hand before it is written.
TypeOK ==
    /\ kind \in {"key", "config"}
    /\ row \in Nat /\ (kind = "key" => row \in 0 .. Revoked)
    /\ age \in 0 .. MaxAge /\ acked \in 0 .. row
    /\ entry \in [version : 0 .. row, left : 0 .. TTL, gap : 0 .. MaxGap]
    /\ \A r \in Readers : pc[r] \in ReaderStates
    /\ \A w \in Writers : pc[w] \in WriterStates
    /\ DOMAIN pc = Readers \cup Writers
    /\ got \in [Readers -> [version : 0 .. row, left : 0 .. TTL, gap : 0 .. MaxGap]]
    /\ since \in [Readers -> 0 .. acked]
    /\ wrote \in [Writers -> 0 .. row]
    /\ straddled \in BOOLEAN /\ faults \in 0 .. MaxFaults

\* "Immediately evict from cache so the key stops working right away", and
\* "the next request uses the updated credentials": a request that began after
\* a handler said so is served what was written, or something newer - unless
\* a request had read the row before and stored it after.
StaleNeedsStraddle ==
    \A r \in Readers : pc[r] = "served" /\ got[r].version < since[r] => straddled

\* "Results are cached for cacheTTL": however late a request stores an entry made
\* of a row that has been replaced or revoked since, no other is served from it
\* longer after the last write than cacheTTL and the time the entry was in the
\* making, between the reading of the row and the reckoning of its expiry.
StaleExpires ==
    Hit /\ entry.version < row => entry.left + age <= TTL + entry.gap

\* A revoked key that nobody holds in hand and no live entry holds is dead for
\* good, crashes and failed statements notwithstanding.
Dead == /\ kind = "key" /\ row = Revoked /\ ~Hit
        /\ \A r \in Readers : ~InHand(r)

KeyDiesForGood == [][Dead => Dead']_vars

\* When the last write is done, nothing else is served sooner or later, though
\* its handler was told that it failed and did not evict.
EventuallyCurrent == <>[](Hit => entry.version = row)
=============================================================================
