--------------------------- MODULE OutboundProofs ---------------------------
(* Theorems about Outbound for every value of its constants.               *)
EXTENDS Outbound, TLAPS

\* What the proofs use of the assumptions on the constants.
LEMMA Limits ==
    /\ MaxAttempts \in Nat /\ MaxAttempts > 0 /\ MaxFaults \in Nat
    /\ \A n \in 1 .. MaxAttempts : Backoff[n] \in Nat
BY OutboundAssumption

\* The worker's only write to a row: a pending row with an attempt left.
LEMMA UpdateKeepsTypeOK ==
    ASSUME TypeOK, UpdateDelivery
    PROVE  TypeOK'
<1> USE Limits DEF rows, endpoint
<1>1. cur \in Deliveries /\ status[cur] = "pending" /\ attempts[cur] < MaxAttempts
  BY DEF TypeOK, UpdateDelivery
<1>2. /\ batch' = batch \ {cur} /\ worker' = "next"
      /\ UNCHANGED <<configured, up, tick, posts, acks, dropped, missed>>
  BY DEF UpdateDelivery
<1>3. CASE UpdateRow /\ UNCHANGED faults
  <2>1. Outcome \in {"delivered", "failed", "pending"}
        /\ (Outcome = "pending" => attempts[cur] + 1 < MaxAttempts)
    BY <1>1 DEF Outcome, TypeOK
  <2>2. status' \in [Deliveries -> Statuses] /\ status'[cur] = Outcome
        /\ \A d \in Deliveries \ {cur} : status'[d] = status[d]
    BY <1>1, <1>3, <2>1 DEF UpdateRow, TypeOK, Statuses
  <2>3. attempts' \in [Deliveries -> 0 .. MaxAttempts] /\ attempts'[cur] = attempts[cur] + 1
        /\ \A d \in Deliveries \ {cur} : attempts'[d] = attempts[d]
    BY <1>1, <1>3 DEF UpdateRow, TypeOK
  <2>4. wait' \in [Deliveries -> Nat]
    <3>1. attempts[cur] + 1 \in 1 .. MaxAttempts
      BY <1>1 DEF TypeOK
    <3>2. Backoff[attempts[cur] + 1] \in Nat
      BY <3>1
    <3> QED
      BY <1>3, <3>2 DEF UpdateRow, TypeOK
  <2>5. batch' \subseteq Deliveries /\ \A d \in batch' : status'[d] = "pending"
    BY <1>2, <2>2 DEF TypeOK
  <2>6. \A d \in Deliveries :
           /\ status'[d] \in {"absent", "pending"} => attempts'[d] < MaxAttempts
           /\ status'[d] = "absent" => attempts'[d] = 0
    BY <1>1, <2>1, <2>2, <2>3 DEF TypeOK
  <2> QED
    BY <1>2, <1>3, <2>2, <2>3, <2>4, <2>5, <2>6 DEF TypeOK, WorkerStates
<1>4. CASE UNCHANGED rows /\ Fault("update")
  BY <1>2, <1>4 DEF TypeOK, WorkerStates, Fault
<1> QED
  BY <1>3, <1>4 DEF UpdateDelivery

\* The type invariant holds in every reachable state: the worker only ever
\* works on pending rows, and those have an attempt left.
THEOREM TypeCorrect == Spec => []TypeOK
<1> USE Limits DEF rows, control, endpoint, Fault
<1>1. Init => TypeOK
  <2> SUFFICES ASSUME Init PROVE TypeOK
    OBVIOUS
  <2>1. status \in [Deliveries -> Statuses] /\ \A d \in Deliveries : status[d] = "absent"
    BY DEF Init, Statuses
  <2>2. attempts \in [Deliveries -> 0 .. MaxAttempts] /\ \A d \in Deliveries : attempts[d] = 0
    BY DEF Init
  <2>3. wait \in [Deliveries -> Nat] /\ posts \in [Deliveries -> Nat] /\ acks \in [Deliveries -> Nat]
    BY DEF Init
  <2>4. batch = {} /\ dropped = {} /\ missed = {} /\ faults \in 0 .. MaxFaults /\ worker = "idle"
    BY DEF Init
  <2>5. configured \subseteq Orgs /\ up \in BOOLEAN /\ tick \in BOOLEAN
    BY DEF Init
  <2> QED
    BY <2>1, <2>2, <2>3, <2>4, <2>5 DEF TypeOK, WorkerStates
<1>2. TypeOK /\ [Next]_vars => TypeOK'
  <2> SUFFICES ASSUME TypeOK, [Next]_vars PROVE TypeOK'
    OBVIOUS
  <2>1. ASSUME NEW d \in Deliveries, CreateDelivery(d) PROVE TypeOK'
    BY <2>1 DEF CreateDelivery, TypeOK, Statuses
  <2>2. ASSUME NEW o \in Orgs, UpsertWebhookConfig(o) PROVE TypeOK'
    BY <2>2 DEF UpsertWebhookConfig, TypeOK
  <2>3. CASE Tick
    BY <2>3 DEF Tick, TypeOK
  <2>4. CASE ListPending
    <3>1. UNCHANGED <<status, attempts, wait, configured, up, cur, posts, acks, dropped, missed>>
      BY <2>4 DEF ListPending
    <3>2. batch' \subseteq batch \cup Due
      BY <2>4 DEF ListPending
    <3>3. worker' \in {"idle", "next"} /\ tick' = FALSE /\ faults' \in 0 .. MaxFaults
      BY <2>4 DEF ListPending, TypeOK
    <3> QED
      BY <3>1, <3>2, <3>3 DEF Due, TypeOK, WorkerStates
  <2>5. CASE EndBatch
    BY <2>5 DEF EndBatch, TypeOK, WorkerStates
  <2>6. ASSUME NEW d \in Deliveries, GetWebhookConfig(d) PROVE TypeOK'
    BY <2>6 DEF GetWebhookConfig, TypeOK, WorkerStates
  <2>7. CASE Post
    <3>1. cur \in Deliveries
      BY <2>7 DEF Post, TypeOK
    <3>2. posts' \in [Deliveries -> Nat] /\ acks' \in [Deliveries -> Nat]
      BY <2>7, <3>1 DEF Post, Reach, TypeOK
    <3>3. worker' \in {"succeeded", "retry"} /\ faults' \in 0 .. MaxFaults
      BY <2>7 DEF Post, TypeOK
    <3> QED
      BY <2>7, <3>2, <3>3 DEF Post, TypeOK, WorkerStates
  <2>8. CASE UpdateDelivery
    BY <2>8, UpdateKeepsTypeOK
  <2>9. CASE Crash
    <3>1. UNCHANGED <<status, attempts, wait, configured, posts, acks, dropped, missed>>
          /\ batch' = {} /\ worker' = "idle" /\ up' = FALSE /\ tick' = FALSE
      BY <2>9 DEF Crash
    <3>2. faults' \in 0 .. MaxFaults
      BY <2>9 DEF Crash, TypeOK
    <3> QED
      BY <3>1, <3>2 DEF TypeOK, WorkerStates
  <2>10. CASE Restart
    BY <2>10 DEF Restart, TypeOK
  <2>11. CASE UNCHANGED vars
    BY <2>11 DEF vars, TypeOK
  <2> QED
    BY <2>1, <2>2, <2>3, <2>4, <2>5, <2>6, <2>7, <2>8, <2>9, <2>10, <2>11 DEF Next, Dispatch
<1> QED
  BY <1>1, <1>2, PTL DEF Spec

(***************************************************************************)
(* The counting invariants.  Between post and UpdateDelivery the delivery  *)
(* in hand is ahead of its row; a row that is never brought up to date     *)
(* costs one fault.                                                        *)
(***************************************************************************)
InHand(d) == worker \in {"succeeded", "retry"} /\ d = cur

PostsInv ==
    \A d \in Deliveries :
        posts[d] <= attempts[d] + faults + (IF InHand(d) THEN 1 ELSE 0)

Accepted(d) == status[d] = "delivered" \/ (worker = "succeeded" /\ d = cur)

AcksInv ==
    \A d \in Deliveries : acks[d] <= faults + (IF Accepted(d) THEN 1 ELSE 0)

TruthInv ==
    \A d \in Deliveries :
        Accepted(d) => acks[d] > 0 \/ d \in dropped \cup missed

CountInv == PostsInv /\ AcksInv /\ TruthInv

\* New rows have not been posted; the rest of what is counted is as it was.
LEMMA QuietKeepsCounts ==
    ASSUME TypeOK, CountInv,
           UNCHANGED <<attempts, posts, acks, dropped, missed, worker, cur, faults>>,
           \A d \in Deliveries :
               status'[d] # status[d] => status[d] = "absent" /\ status'[d] = "pending"
    PROVE  CountInv'
<1>1. PostsInv'
  BY DEF CountInv, PostsInv, InHand
<1>2. AcksInv'
  BY DEF CountInv, AcksInv, Accepted
<1>3. TruthInv'
  BY DEF CountInv, TruthInv, Accepted
<1> QED
  BY <1>1, <1>2, <1>3 DEF CountInv

\* A worker that puts the delivery in hand away without updating its row pays
\* for it with a fault.
LEMMA PuttingAwayKeepsCounts ==
    ASSUME TypeOK, CountInv, UNCHANGED <<status, attempts, posts, acks, dropped, missed>>,
           worker' \notin {"succeeded", "retry"},
           faults' = faults \/ faults' = faults + 1,
           worker \in {"succeeded", "retry"} => faults' = faults + 1
    PROVE  CountInv'
<1>1. faults \in Nat
  BY Limits DEF TypeOK
<1>2. PostsInv'
  BY <1>1 DEF TypeOK, CountInv, PostsInv, InHand
<1>3. AcksInv'
  BY <1>1 DEF TypeOK, CountInv, AcksInv, Accepted
<1>4. TruthInv'
  BY <1>1 DEF TypeOK, CountInv, TruthInv, Accepted
<1> QED
  BY <1>2, <1>3, <1>4 DEF CountInv

LEMMA CountsHold == Spec => []CountInv
<1> USE Limits DEF rows, control, endpoint, Fault
<1>1. Init => CountInv
  BY DEF Init, CountInv, PostsInv, AcksInv, TruthInv, InHand, Accepted
<1>2. TypeOK /\ CountInv /\ [Next]_vars => CountInv'
  <2> SUFFICES ASSUME TypeOK, CountInv, [Next]_vars PROVE CountInv'
    OBVIOUS
  <2>1. ASSUME NEW d \in Deliveries, CreateDelivery(d) PROVE CountInv'
    <3>1. \A e \in Deliveries :
             status'[e] # status[e] => status[e] = "absent" /\ status'[e] = "pending"
      <4>1. status \in [Deliveries -> Statuses]
        BY DEF TypeOK
      <4> QED
        BY <2>1, <4>1 DEF CreateDelivery
    <3>2. UNCHANGED <<attempts, posts, acks, dropped, missed, worker, cur, faults>>
      BY <2>1 DEF CreateDelivery
    <3> QED
      BY <3>1, <3>2, QuietKeepsCounts
  <2>2. CASE \/ \E o \in Orgs : UpsertWebhookConfig(o)
             \/ Tick \/ Restart \/ UNCHANGED vars
    <3>1. UNCHANGED <<status, attempts, posts, acks, dropped, missed, worker, cur, faults>>
      BY <2>2 DEF UpsertWebhookConfig, Tick, Restart, vars
    <3>2. \A e \in Deliveries :
             status'[e] # status[e] => status[e] = "absent" /\ status'[e] = "pending"
      BY <3>1
    <3> QED
      BY <3>1, <3>2, QuietKeepsCounts
  <2>4. CASE ListPending \/ EndBatch \/ Crash
    <3>1. worker' \notin {"succeeded", "retry"}
      BY <2>4 DEF ListPending, EndBatch, Crash
    <3>2. faults' = faults \/ faults' = faults + 1
      BY <2>4 DEF ListPending, EndBatch, Crash
    <3>3. worker \in {"succeeded", "retry"} => faults' = faults + 1
      BY <2>4 DEF ListPending, EndBatch, Crash
    <3>4. UNCHANGED <<status, attempts, posts, acks, dropped, missed>>
      BY <2>4 DEF ListPending, EndBatch, Crash
    <3> QED
      BY <3>1, <3>2, <3>3, <3>4, PuttingAwayKeepsCounts
  <2>6. ASSUME NEW d \in Deliveries, GetWebhookConfig(d) PROVE CountInv'
    <3>1. /\ cur' = d /\ worker = "next" /\ d \in batch /\ UNCHANGED <<rows, endpoint>>
          /\ worker' \in {"post", "succeeded"}
      BY <2>6 DEF GetWebhookConfig
    <3>2. status[d] = "pending" /\ faults \in Nat
      BY <3>1 DEF TypeOK
    <3>3. CASE worker' = "post"
      <4>1. UNCHANGED <<status, attempts, posts, acks, dropped, missed, faults>>
            /\ worker \notin {"succeeded", "retry"}
        BY <2>6, <3>3 DEF GetWebhookConfig
      <4> QED
        BY <3>3, <4>1, PuttingAwayKeepsCounts
    <3>4. CASE worker' = "succeeded" /\ dropped' = dropped \cup {d} /\ UNCHANGED <<missed, faults>>
      BY <3>1, <3>2, <3>4 DEF CountInv, PostsInv, AcksInv, TruthInv, InHand, Accepted, TypeOK
    <3>5. CASE /\ worker' = "succeeded" /\ missed' = missed \cup {d} /\ UNCHANGED dropped
               /\ faults' = faults + 1
      BY <3>1, <3>2, <3>5 DEF CountInv, PostsInv, AcksInv, TruthInv, InHand, Accepted, TypeOK
    <3> QED
      BY <2>6, <3>3, <3>4, <3>5 DEF GetWebhookConfig
  <2>7. CASE Post
    <3>1. cur \in Deliveries /\ status[cur] = "pending" /\ faults \in Nat
      BY <2>7 DEF Post, TypeOK
    <3>2. /\ worker = "post" /\ UNCHANGED <<rows, cur, dropped, missed>>
          /\ \A d \in Deliveries \ {cur} : posts'[d] = posts[d] /\ acks'[d] = acks[d]
      BY <2>7 DEF Post, Reach, TypeOK
    <3>3. /\ posts'[cur] \in {posts[cur], posts[cur] + 1}
          /\ \/ worker' = "succeeded" /\ acks'[cur] = acks[cur] + 1 /\ UNCHANGED faults
             \/ worker' = "retry" /\ acks'[cur] = acks[cur] /\ UNCHANGED faults
             \/ worker' = "retry" /\ acks'[cur] = acks[cur] + 1 /\ faults' = faults + 1
      BY <2>7, <3>1 DEF Post, Reach, TypeOK
    <3>4. PostsInv'
      BY <3>1, <3>2, <3>3 DEF CountInv, PostsInv, InHand, TypeOK
    <3>5. AcksInv'
      BY <3>1, <3>2, <3>3 DEF CountInv, AcksInv, Accepted, TypeOK
    <3>6. TruthInv'
      BY <3>1, <3>2, <3>3 DEF CountInv, TruthInv, Accepted, TypeOK
    <3> QED
      BY <3>4, <3>5, <3>6 DEF CountInv
  <2>8. CASE UpdateDelivery
    <3>1. cur \in Deliveries /\ status[cur] = "pending" /\ faults \in Nat
      BY <2>8 DEF UpdateDelivery, TypeOK
    <3>2. /\ worker \in {"succeeded", "retry"} /\ worker' = "next"
          /\ UNCHANGED <<posts, acks, dropped, missed>>
      BY <2>8 DEF UpdateDelivery
    <3>3. CASE UpdateRow /\ UNCHANGED faults
      <4>1. \A d \in Deliveries \ {cur} : status'[d] = status[d] /\ attempts'[d] = attempts[d]
        BY <3>3 DEF UpdateRow, TypeOK
      <4>2. attempts'[cur] = attempts[cur] + 1 /\ status'[cur] = Outcome
        BY <3>1, <3>3 DEF UpdateRow, TypeOK
      <4>3. IF worker = "succeeded" THEN Outcome = "delivered"
                                    ELSE Outcome \in {"failed", "pending"}
        BY DEF Outcome
      <4>4. PostsInv'
        BY <3>1, <3>2, <3>3, <4>1, <4>2 DEF CountInv, PostsInv, InHand, TypeOK
      <4>5. AcksInv'
        BY <3>1, <3>2, <3>3, <4>1, <4>2, <4>3 DEF CountInv, AcksInv, Accepted, TypeOK
      <4>6. TruthInv'
        BY <3>1, <3>2, <3>3, <4>1, <4>2, <4>3 DEF CountInv, TruthInv, Accepted, TypeOK
      <4> QED
        BY <4>4, <4>5, <4>6 DEF CountInv
    <3>4. CASE UNCHANGED rows /\ faults' = faults + 1
      BY <3>1, <3>2, <3>4, PuttingAwayKeepsCounts
    <3> QED
      BY <2>8, <3>3, <3>4 DEF UpdateDelivery
  <2> QED
    BY <2>1, <2>2, <2>4, <2>6, <2>7, <2>8 DEF Next, Dispatch
<1> QED
  BY <1>1, <1>2, TypeCorrect, PTL DEF Spec

\* An endpoint sees a delivery at most MaxAttempts times, and once more for
\* every crash and every failed update.
THEOREM AttemptsBounded == Spec => []PostsBounded
<1>1. TypeOK /\ CountInv => PostsBounded
  BY Limits DEF TypeOK, CountInv, PostsInv, PostsBounded, InHand
<1> QED
  BY <1>1, TypeCorrect, CountsHold, PTL

\* An endpoint accepts a delivery at most once, and once more for every fault.
THEOREM AcceptedOnce == Spec => []AcksBounded
<1>1. TypeOK /\ CountInv => AcksBounded
  BY Limits DEF TypeOK, CountInv, AcksInv, AcksBounded, Accepted
<1> QED
  BY <1>1, TypeCorrect, CountsHold, PTL

\* Whatever fails, "delivered" means accepted, unless the look-up of the endpoint
\* found none or failed, and every acceptance of a "failed" one cost a fault.
THEOREM FinalStatusTrue == Spec => []StatusTruthful
<1>1. TypeOK /\ CountInv => StatusTruthful
  BY Limits DEF TypeOK, CountInv, AcksInv, TruthInv, Accepted, StatusTruthful
<1> QED
  BY <1>1, TypeCorrect, CountsHold, PTL

\* No step, whatever fails, takes a delivered or failed row back into the queue.
THEOREM SettledForGood == Spec => SettledStays
<1>1. TypeOK /\ [Next]_vars =>
        [\A d \in Deliveries :
            status[d] \in {"delivered", "failed"} => status'[d] = status[d]]_vars
  <2> SUFFICES ASSUME TypeOK, [Next]_vars, NEW d \in Deliveries,
                      status[d] \in {"delivered", "failed"}
               PROVE  status'[d] = status[d]
    OBVIOUS
  <2>1. CASE UpdateDelivery
    <3>1. cur \in batch /\ d \notin batch
      BY <2>1 DEF UpdateDelivery, TypeOK
    <3> QED
      BY <2>1, <3>1 DEF UpdateDelivery, UpdateRow, TypeOK, rows
  <2>2. ASSUME NEW e \in Deliveries, CreateDelivery(e) PROVE status'[d] = status[d]
    BY <2>2 DEF CreateDelivery, TypeOK
  <2>3. CASE UNCHANGED status
    BY <2>3
  <2> QED
    BY <2>1, <2>2, <2>3 DEF Next, Dispatch, UpsertWebhookConfig, Tick, ListPending, EndBatch,
       GetWebhookConfig, Post, Crash, Restart, rows, vars
<1> QED
  BY <1>1, TypeCorrect, PTL DEF Spec, SettledStays

-----------------------------------------------------------------------------
(* The worker implements Queue.                                            *)

\* A step that touches neither rows nor endpoints nor what is in hand is a
\* stutter there, or a failure there if it is one here.
LEMMA QuietIsQueueStep ==
    ASSUME UNCHANGED <<status, attempts, posts, acks>>,
           worker \notin {"succeeded", "retry"}, worker' \notin {"succeeded", "retry"},
           faults' = faults \/ faults' = faults + 1
    PROVE  [Promise!Next]_(Promise!queueVars)
<1>1. CASE faults' = faults
  BY <1>1 DEF Promise!queueVars, Promise!hand
<1>2. CASE faults' = faults + 1
  <2>1. Promise!Forget
    BY <1>2 DEF Promise!Forget, Promise!Lapse
  <2> QED
    BY <2>1 DEF Promise!Next
<1> QED
  BY <1>1, <1>2

LEMMA QueueStep == TypeOK /\ [Next]_vars => [Promise!Next]_(Promise!queueVars)
<1> SUFFICES ASSUME TypeOK, [Next]_vars PROVE [Promise!Next]_(Promise!queueVars)
  OBVIOUS
<1> USE DEF rows, endpoint, control
<1>1. ASSUME NEW d \in Deliveries, CreateDelivery(d) PROVE Promise!Enqueue(d)
  BY <1>1 DEF CreateDelivery, Promise!Enqueue, Promise!hand
<1>2. CASE \/ \E o \in Orgs : UpsertWebhookConfig(o)
           \/ Tick \/ Restart \/ UNCHANGED vars
  <2>1. UNCHANGED Promise!queueVars
    BY <1>2 DEF UpsertWebhookConfig, Tick, Restart, vars, Promise!queueVars, Promise!hand
  <2> QED
    BY <2>1
<1>3. CASE ListPending \/ EndBatch
  BY <1>3, QuietIsQueueStep DEF ListPending, EndBatch, Fault
<1>4. ASSUME NEW d \in Deliveries, GetWebhookConfig(d)
      PROVE  [Promise!Next]_(Promise!queueVars)
  <2>1. /\ worker = "next" /\ cur' = d /\ d \in batch
        /\ UNCHANGED <<status, attempts, posts, acks>>
    BY <1>4 DEF GetWebhookConfig
  <2>2. CASE worker' = "post"
    BY <1>4, <2>1, <2>2, QuietIsQueueStep DEF GetWebhookConfig
  <2>3. CASE worker' = "succeeded"
    <3>1. faults' = faults \/ faults' = faults + 1
      BY <1>4 DEF GetWebhookConfig, Fault
    <3>2. Promise!Skip(d)
      BY <2>1, <2>3, <3>1 DEF Promise!Skip, Promise!Lapse
    <3>3. Promise!Try(d)
      BY <2>1, <3>2 DEF Promise!Try, TypeOK
    <3> QED
      BY <3>3 DEF Promise!Next
  <2> QED
    BY <1>4, <2>2, <2>3 DEF GetWebhookConfig
<1>5. ASSUME Post PROVE Promise!Try(cur) /\ cur \in Deliveries
  <2>1. worker = "post" /\ cur' = cur /\ cur \in Deliveries /\ status[cur] = "pending"
    BY <1>5 DEF Post, TypeOK
  <2>2. Promise!Post(cur)
    BY <1>5, <2>1 DEF Post, Reach, Fault, Promise!Post, Promise!Sent, Promise!Lapse
  <2> QED
    BY <1>5, <2>1, <2>2 DEF Post, Promise!Try
<1>6. CASE UpdateDelivery
  <2>1. /\ worker \in {"succeeded", "retry"} /\ worker' = "next" /\ UNCHANGED <<posts, acks>>
        /\ cur \in Deliveries /\ attempts[cur] < MaxAttempts /\ attempts[cur] \in Nat
    BY <1>6, Limits DEF UpdateDelivery, TypeOK
  <2>2. CASE UpdateRow /\ UNCHANGED faults
    <3>1. attempts[cur] + 1 >= MaxAttempts <=> attempts[cur] + 1 = MaxAttempts
      BY <2>1, Limits
    <3>2. Outcome = Promise!Verdict(cur)
      BY <2>1, <3>1 DEF Outcome, Promise!Verdict
    <3>3. Promise!Record(cur)
      BY <2>1, <2>2, <3>2 DEF UpdateRow, Promise!Record
    <3> QED
      BY <2>1, <3>3 DEF Promise!Next
  <2>3. CASE UNCHANGED rows /\ Fault("update")
    <3>1. Promise!Forget
      BY <2>1, <2>3 DEF Fault, Promise!Forget, Promise!Lapse
    <3> QED
      BY <3>1 DEF Promise!Next
  <2> QED
    BY <1>6, <2>2, <2>3 DEF UpdateDelivery
<1>7. CASE Crash
  <2>1. Promise!Forget
    BY <1>7 DEF Crash, Fault, Promise!Forget, Promise!Lapse
  <2> QED
    BY <2>1 DEF Promise!Next
<1> QED
  BY <1>1, <1>2, <1>3, <1>4, <1>5, <1>6, <1>7 DEF Next, Dispatch, Promise!Next

\* Whatever the worker polls, forgets or fails to store, it handles each
\* delivery as Queue does: no polling, batch, back-off or restart shows.
THEOREM ImplementsQueue == Spec => QueueKept
<1>1. Init => Promise!Init
  BY DEF Init, Promise!Init
<1>2. TypeOK /\ [Next]_vars => [Promise!Next]_(Promise!queueVars)
  BY QueueStep
<1> QED
  BY <1>1, <1>2, TypeCorrect, PTL DEF Spec, QueueKept, Promise!Spec
=============================================================================
