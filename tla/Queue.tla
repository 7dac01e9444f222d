-------------------------------- MODULE Queue -------------------------------
(***************************************************************************)
(* What the outbound worker promises of each delivery, whatever it polls,  *)
(* lists, waits for, forgets in a crash or fails to store.  Deliveries are *)
(* tried one at a time, each try is recorded once and by what came of it,  *)
(* no record changes a settled delivery, and what was tried without being  *)
(* recorded has cost a lapse: nothing else sends a request again.          *)
(***************************************************************************)
EXTENDS Integers

CONSTANTS Deliveries, MaxAttempts

VARIABLES
    status,      \* "absent", "pending", "delivered", "failed"
    attempts,    \* tries on record
    good,        \* the delivery whose try went well and is not on record yet
    bad,         \* the delivery whose try went wrong and is not on record yet
    posts,       \* requests that reached the endpoint
    acks,        \* of these, the ones it accepted
    lapses       \* failures of the program, its database or the network

hand      == <<good, bad>>
queueVars == <<status, attempts, hand, posts, acks, lapses>>

Init ==
    /\ status = [d \in Deliveries |-> "absent"]
    /\ attempts = [d \in Deliveries |-> 0]
    /\ good = {} /\ bad = {}
    /\ posts = [d \in Deliveries |-> 0] /\ acks = [d \in Deliveries |-> 0]
    /\ lapses = 0

Enqueue(d) ==
    /\ status[d] = "absent"
    /\ status' = [status EXCEPT ![d] = "pending"]
    /\ UNCHANGED <<attempts, hand, posts, acks, lapses>>

Sent(d, n, m) ==
    /\ posts' = [posts EXCEPT ![d] = @ + n]
    /\ acks' = [acks EXCEPT ![d] = @ + m]

Lapse == lapses' = lapses + 1

\* Accepted; refused; not reached; accepted, and the answer lost.
Post(d) ==
    \/ Sent(d, 1, 1) /\ good' = {d} /\ UNCHANGED <<bad, lapses>>
    \/ Sent(d, 1, 0) /\ bad' = {d} /\ UNCHANGED <<good, lapses>>
    \/ Sent(d, 0, 0) /\ bad' = {d} /\ UNCHANGED <<good, lapses>>
    \/ Sent(d, 1, 1) /\ bad' = {d} /\ UNCHANGED good /\ Lapse

\* Nowhere to send it: the try counts as a good one.
Skip(d) == good' = {d} /\ UNCHANGED <<bad, posts, acks>> /\ (Lapse \/ UNCHANGED lapses)

Try(d) ==
    /\ status[d] = "pending" /\ good = {} /\ bad = {}
    /\ Post(d) \/ Skip(d)
    /\ UNCHANGED <<status, attempts>>

Verdict(d) ==
    IF d \in good THEN "delivered"
    ELSE IF attempts[d] + 1 = MaxAttempts THEN "failed" ELSE "pending"

Record(d) ==
    /\ d \in good \cup bad
    /\ status' = [status EXCEPT ![d] = Verdict(d)]
    /\ attempts' = [attempts EXCEPT ![d] = @ + 1]
    /\ good' = {} /\ bad' = {}
    /\ UNCHANGED <<posts, acks, lapses>>

\* Something fails; what is in hand is forgotten.
Forget ==
    /\ Lapse /\ good' = {} /\ bad' = {}
    /\ UNCHANGED <<status, attempts, posts, acks>>

Next == Forget \/ \E d \in Deliveries : Enqueue(d) \/ Try(d) \/ Record(d)

Spec == Init /\ [][Next]_queueVars
=============================================================================
