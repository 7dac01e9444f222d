------------------------------ MODULE ConnPool ------------------------------
(***************************************************************************)
(* The pool of database connections.  Every statement takes a connection   *)
(* and gives it back, and waits while there is none.  A credit of the      *)
(* webhook is a transaction, which keeps one - and within it the look-up   *)
(* of the pool account, which knows nothing of the transaction, takes a    *)
(* second one.                                                             *)
(***************************************************************************)
EXTENDS Integers, FiniteSets

CONSTANTS
    Credits,      \* webhook deliveries of payments
    Others,       \* requests and workers: one statement at a time
    Conns,        \* connections
    None          \* the owner of an idle one

Users == Credits \cup Others

ASSUME ConnPoolAssumption ==
    /\ IsFiniteSet(Credits) /\ IsFiniteSet(Conns)
    /\ Credits \cap Others = {} /\ None \notin Users

VARIABLES
    open,         \* the connections that this pool may have
    owner,        \* owner of each connection
    waiting,      \* those who wait for one
    pc            \* the statement that each is at, or about to be

vars == <<open, owner, waiting, pc>>

CreditStates == {"new",        \* not delivered, or to be delivered again
                 "mark",       \* at MarkProcessed
                 "resolve",    \* at GetAccountByNumber
                 "begin",      \* at BEGIN
                 "pool",       \* in the transaction, at GetSystemAccount
                 "write",      \* in the transaction, at the rest of it
                 "booked",
                 "lost"}       \* given up: the event is marked and not credited
OtherStates  == {"idle", "query"}
Settled      == {"new", "booked", "lost", "idle"}

\* Connect: the size of the pool is a setting of the DSN.
Init ==
    /\ open \in (SUBSET Conns) \ {{}}
    /\ owner = [k \in Conns |-> None]
    /\ waiting = {}
    /\ pc = [u \in Users |-> IF u \in Credits THEN "new" ELSE "idle"]

Holds(u)   == {k \in open : owner[k] = u}
Running(u) == u \notin waiting /\ pc[u] \notin Settled
Goto(u, s) == pc' = [pc EXCEPT ![u] = s]
Await(u)   == waiting' = waiting \cup {u}

GiveBack(u) == owner' = [k \in Conns |-> IF owner[k] = u THEN None ELSE owner[k]]

-----------------------------------------------------------------------------
\* Acquire, for the one whose turn it is.
Grant(u) ==
    /\ u \in waiting /\ waiting' = waiting \ {u}
    /\ \E k \in open : owner[k] = None /\ owner' = [owner EXCEPT ![k] = u]
    /\ UNCHANGED <<open, pc>>

\* A statement on its own, of anything but a credit.
Query(o) ==
    /\ pc[o] = "idle" /\ Goto(o, "query") /\ Await(o)
    /\ UNCHANGED <<open, owner>>

Answer(o) ==
    /\ pc[o] = "query" /\ Running(o) /\ Goto(o, "idle") /\ GiveBack(o)
    /\ UNCHANGED <<open, waiting>>

-----------------------------------------------------------------------------
(* A credit.                                                               *)

Deliver(c) ==
    /\ pc[c] = "new" /\ Goto(c, "mark") /\ Await(c)
    /\ UNCHANGED <<open, owner>>

MarkProcessed(c) ==
    /\ pc[c] = "mark" /\ Running(c) /\ Goto(c, "resolve")
    /\ GiveBack(c) /\ Await(c) /\ UNCHANGED open

\* As GetAccountByNumber, without closing its row.
GetAccountByNumber_Open(c) ==
    /\ pc[c] = "resolve" /\ Running(c) /\ Goto(c, "begin")
    /\ Await(c) /\ UNCHANGED <<open, owner>>

GetAccountByNumber(c) ==
    /\ pc[c] = "resolve" /\ Running(c) /\ Goto(c, "begin")
    /\ GiveBack(c) /\ Await(c) /\ UNCHANGED open

\* RunInTx and PostCredit: the transaction keeps its connection, and the
\* look-up of the pool account waits for another.
Begin(c) ==
    /\ pc[c] = "begin" /\ Running(c) /\ Goto(c, "pool")
    /\ Await(c) /\ UNCHANGED <<open, owner>>

GetSystemAccount(c) ==
    /\ pc[c] = "pool" /\ Running(c) /\ Goto(c, "write")
    /\ \E k \in Holds(c) : owner' = [owner EXCEPT ![k] = None]
    /\ UNCHANGED <<open, waiting>>

\* InsertEntries and CreateDelivery use the transaction's own connection.
Commit(c) ==
    /\ pc[c] = "write" /\ Running(c) /\ Goto(c, "booked") /\ GiveBack(c)
    /\ UNCHANGED <<open, waiting>>

-----------------------------------------------------------------------------
GivenUp(u) == CASE pc[u] = "mark"  -> "new"
                [] pc[u] = "query" -> "idle"
                [] OTHER           -> "lost"

\* As HangUp, without the deferred rollback.
HangUp_NoRollback(u) ==
    /\ pc[u] \notin Settled /\ Goto(u, GivenUp(u))
    /\ waiting' = waiting \ {u}
    /\ IF pc[u] \in {"pool", "write"} THEN UNCHANGED owner ELSE GiveBack(u)
    /\ UNCHANGED open

\* The other side closes the connection: the wait or the statement ends with
\* an error, and a transaction is rolled back.
HangUp(u) ==
    /\ pc[u] \notin Settled /\ Goto(u, GivenUp(u))
    /\ waiting' = waiting \ {u} /\ GiveBack(u)
    /\ UNCHANGED open

-----------------------------------------------------------------------------
CreditStep(c) == \/ MarkProcessed(c) \/ GetAccountByNumber(c) \/ Begin(c)
                 \/ GetSystemAccount(c) \/ Commit(c)

Next ==
    \/ \E u \in Users : Grant(u) \/ HangUp(u)
    \/ \E o \in Others : Query(o) \/ Answer(o)
    \/ \E c \in Credits : Deliver(c) \/ CreditStep(c)

Spec == Init /\ [][Next]_vars

\* Statements end, and waiters have their turn: the pool's semaphore is a
\* queue.  Nobody needs to hang up.
FairSpec == /\ Spec
            /\ \A u \in Users : SF_vars(Grant(u))
            /\ \A o \in Others : WF_vars(Answer(o))
            /\ \A c \in Credits : WF_vars(CreditStep(c))

-----------------------------------------------------------------------------
(* Properties.                                                             *)

\* Types; only connections of this pool have owners, and only those who are at
\* a statement wait.
TypeOK ==
    /\ open \subseteq Conns /\ open # {}
    /\ owner \in [Conns -> Users \cup {None}]
    /\ \A k \in Conns \ open : owner[k] = None
    /\ waiting \subseteq Users
    /\ pc \in [Users -> CreditStates \cup OtherStates]
    /\ \A c \in Credits : pc[c] \in CreditStates
    /\ \A o \in Others : pc[o] \in OtherStates
    /\ \A u \in waiting : pc[u] \notin Settled

\* No connection leaks, whoever gives up wherever: if none is idle and nobody
\* who has one can go on, then each is a credit's, whose transaction waits for
\* its second one.
OnlyCreditsBlock ==
    (\A k \in open : owner[k] # None /\ ~Running(owner[k])) =>
        \A k \in open : owner[k] \in Credits \cap waiting /\ pc[owner[k]] = "pool"

\* Everyone waits for everyone.
Stuck == \A k \in open : owner[k] \in waiting

\* That takes as many credits at once as there are connections: with one
\* connection more than credits, there is always one that can be used.
RoomForAll == Cardinality(open) > Cardinality(Credits) => ~Stuck

\* Unless the pool is stuck for good, whoever asks for a connection, credit,
\* request or worker, ends what it asked it for.
EventuallyAnswered ==
    \A u \in Users : []<>(~Stuck) => [](pc[u] \notin Settled => <>(pc[u] \in Settled))
=============================================================================
