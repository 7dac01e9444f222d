------------------------------ MODULE Outbound ------------------------------
(***************************************************************************)
(* Notification of developers: the webhook_deliveries queue, filled by the *)
(* webhook handler, and the single OutboundWorker that main starts, which  *)
(* polls it, posts each due delivery to its org's endpoint and records the *)
(* outcome with a status, an attempt count and an exponential back-off.    *)
(***************************************************************************)
EXTENDS Integers, FiniteSets

CONSTANTS
    Deliveries,   \* webhook_deliveries rows, numbered in the order of created_at
    Orgs, OrgOf,  \* OrgOf[d]: the organisation that d notifies
    MaxAttempts,  \* maxAttempts (5 in the code)
    Backoff,      \* Backoff[n]: polls to wait after the n-th attempt (2^n)
    BatchLimit,   \* rows per ListPending (50)
    FaultKinds,   \* subset of AllFaults that may happen
    MaxFaults     \* bound on the number of faults

AllFaults == {"list",       \* ListPending fails
              "config",     \* a configured endpoint cannot be read
              "update",     \* UpdateDelivery fails
              "lost_ack",   \* the endpoint accepts, its answer does not arrive
              "crash"}      \* the process dies or is shut down

ASSUME OutboundAssumption ==
    /\ Deliveries \subseteq Nat /\ IsFiniteSet(Deliveries)
    /\ OrgOf \in [Deliveries -> Orgs]
    /\ MaxAttempts \in Nat \ {0}
    /\ Backoff \in [1 .. MaxAttempts -> Nat]
    /\ BatchLimit \in Nat \ {0} /\ MaxFaults \in Nat
    /\ FaultKinds \subseteq AllFaults

VARIABLES
    status,       \* "absent" (not created), "pending", "delivered", "failed"
    attempts,     \* attempts recorded in the row
    wait,         \* polls until next_retry_at has passed (0: due)
    configured,   \* orgs with a row in org_webhook_configs
    up,           \* the API process is running
    tick,         \* a tick is waiting in the poll ticker's channel
    worker,       \* control state of the worker
    batch,        \* deliveries listed and not yet finished, `cur' included
    cur,          \* delivery being handled
    posts,        \* requests that reached the endpoint, per delivery
    acks,         \* of these, the ones the endpoint accepted (2xx)
    dropped,      \* deliveries handled while their org had no endpoint
    missed,       \* history: deliveries whose endpoint could not be looked up
    faults        \* faults so far

rows     == <<status, attempts, wait>>
control  == <<tick, worker, batch, cur>>
endpoint == <<posts, acks>>
vars     == <<rows, configured, up, control, endpoint, dropped, missed, faults>>

NoDelivery == -1

WorkerStates == {"idle",        \* waiting for a tick
                 "next",        \* next: the oldest of the batch
                 "post",        \* next: post to the endpoint
                 "succeeded",   \* next: UpdateDelivery after post returned nil
                 "retry"}       \* next: UpdateDelivery after post returned an error

-----------------------------------------------------------------------------
Init ==
    /\ status = [d \in Deliveries |-> "absent"]
    /\ attempts = [d \in Deliveries |-> 0] /\ wait = [d \in Deliveries |-> 0]
    /\ configured \in SUBSET Orgs
    /\ up = TRUE /\ tick = FALSE
    /\ worker = "idle" /\ batch = {} /\ cur = NoDelivery
    /\ posts = [d \in Deliveries |-> 0] /\ acks = [d \in Deliveries |-> 0]
    /\ dropped = {} /\ missed = {} /\ faults = 0

Fault(kind) == kind \in FaultKinds /\ faults < MaxFaults /\ faults' = faults + 1

\* The webhook handler commits a row.  created_at is taken before the commit:
\* rows may become visible out of order.
CreateDelivery(d) ==
    /\ up /\ status[d] = "absent"
    /\ status' = [status EXCEPT ![d] = "pending"]
    /\ UNCHANGED <<attempts, wait, configured, up, control, endpoint, dropped, missed, faults>>

\* PUT /settings/webhook.  A configuration is replaced, never removed.
UpsertWebhookConfig(o) ==
    /\ up /\ o \notin configured
    /\ configured' = configured \cup {o}
    /\ UNCHANGED <<rows, up, control, endpoint, dropped, missed, faults>>

\* One poll interval passes.
Tick ==
    /\ tick' = up
    /\ wait' = [d \in Deliveries |-> IF wait[d] > 0 THEN wait[d] - 1 ELSE 0]
    /\ UNCHANGED <<status, attempts, configured, up, worker, batch, cur, endpoint,
                   dropped, missed, faults>>

\* As Due, without the rows that wait for a retry.
Due_FirstOnly == {d \in Deliveries : status[d] = "pending" /\ attempts[d] = 0}

Due == {d \in Deliveries : status[d] = "pending" /\ wait[d] = 0}

\* As ListPending, reading every row whose time has come.
ListPending_AnyStatus ==
    /\ up /\ worker = "idle" /\ tick
    /\ tick' = FALSE
    /\ \/ /\ batch' = {d \in Deliveries : status[d] # "absent" /\ wait[d] = 0}
          /\ worker' = "next" /\ UNCHANGED faults
       \/ Fault("list") /\ UNCHANGED <<batch, worker>>
    /\ UNCHANGED <<rows, configured, up, cur, endpoint, dropped, missed>>

\* The oldest due rows.  The batch is a snapshot, but only this worker writes
\* the rows, so each is still as it was listed when its turn comes.
ListPending ==
    /\ up /\ worker = "idle" /\ tick
    /\ tick' = FALSE
    /\ \/ /\ batch' = {d \in Due : Cardinality({e \in Due : e < d}) < BatchLimit}
          /\ worker' = "next" /\ UNCHANGED faults
       \/ Fault("list") /\ UNCHANGED <<batch, worker>>
    /\ UNCHANGED <<rows, configured, up, cur, endpoint, dropped, missed>>

EndBatch ==
    /\ up /\ worker = "next" /\ batch = {}
    /\ worker' = "idle"
    /\ UNCHANGED <<rows, configured, up, tick, batch, cur, endpoint, dropped, missed, faults>>

\* The first half of post: any error of the look-up, a failed query included,
\* counts as "no endpoint" and ends in success.
GetWebhookConfig(d) ==
    /\ up /\ worker = "next" /\ d \in batch /\ \A e \in batch : d <= e
    /\ cur' = d
    /\ \/ /\ OrgOf[d] \in configured /\ worker' = "post"
          /\ UNCHANGED <<dropped, missed, faults>>
       \/ /\ OrgOf[d] \notin configured /\ worker' = "succeeded"
          /\ dropped' = dropped \cup {d} /\ UNCHANGED <<missed, faults>>
       \/ /\ OrgOf[d] \in configured /\ worker' = "succeeded"
          /\ missed' = missed \cup {d} /\ Fault("config") /\ UNCHANGED dropped
    /\ UNCHANGED <<rows, configured, up, tick, batch, endpoint>>

Reach(n, m) ==
    /\ posts' = [posts EXCEPT ![cur] = @ + n]
    /\ acks' = [acks EXCEPT ![cur] = @ + m]

\* The endpoint accepts or refuses, cannot be reached, or accepts and the
\* answer is lost.  Whether it works is not the program's business: only the
\* last is a fault.
Post ==
    /\ up /\ worker = "post"
    /\ \/ Reach(1, 1) /\ worker' = "succeeded" /\ UNCHANGED faults
       \/ Reach(1, 0) /\ worker' = "retry" /\ UNCHANGED faults
       \/ Reach(0, 0) /\ worker' = "retry" /\ UNCHANGED faults
       \/ Reach(1, 1) /\ worker' = "retry" /\ Fault("lost_ack")
    /\ UNCHANGED <<rows, configured, up, tick, batch, cur, dropped, missed>>

\* As Outcome, with the attempts counted from the first retry.
Outcome_OneMore ==
    IF worker = "succeeded" THEN "delivered"
    ELSE IF attempts[cur] >= MaxAttempts THEN "failed" ELSE "pending"

\* As Outcome, with the attempts looked at before the result.
Outcome_GiveUpFirst ==
    IF attempts[cur] + 1 >= MaxAttempts THEN "failed"
    ELSE IF worker = "succeeded" THEN "delivered" ELSE "pending"

\* The status after this attempt (d.Attempts++ came first).
Outcome ==
    IF worker = "succeeded" THEN "delivered"
    ELSE IF attempts[cur] + 1 >= MaxAttempts THEN "failed" ELSE "pending"

\* As UpdateRow, which forgets to store the status.
UpdateRow_NoStatus ==
    /\ attempts' = [attempts EXCEPT ![cur] = @ + 1]
    /\ UNCHANGED <<status, wait>>

UpdateRow ==
    /\ status' = [status EXCEPT ![cur] = Outcome]
    /\ attempts' = [attempts EXCEPT ![cur] = @ + 1]
    /\ wait' = [wait EXCEPT ![cur] = IF Outcome = "pending" THEN Backoff[attempts[cur] + 1]
                                     ELSE 0]

\* An update that fails is only logged: the row stays due as it was.
UpdateDelivery ==
    /\ up /\ worker \in {"succeeded", "retry"}
    /\ \/ UpdateRow /\ UNCHANGED faults
       \/ UNCHANGED rows /\ Fault("update")
    /\ worker' = "next" /\ batch' = batch \ {cur} /\ cur' = NoDelivery
    /\ UNCHANGED <<configured, up, tick, endpoint, dropped, missed>>

Crash ==
    /\ up /\ Fault("crash")
    /\ up' = FALSE /\ tick' = FALSE
    /\ worker' = "idle" /\ batch' = {} /\ cur' = NoDelivery
    /\ UNCHANGED <<rows, configured, endpoint, dropped, missed>>

Restart ==
    /\ ~up /\ up' = TRUE
    /\ UNCHANGED <<rows, configured, control, endpoint, dropped, missed, faults>>

-----------------------------------------------------------------------------
Dispatch ==
    \/ ListPending
    \/ EndBatch
    \/ \E d \in Deliveries : GetWebhookConfig(d)
    \/ Post
    \/ UpdateDelivery

Next ==
    \/ \E d \in Deliveries : CreateDelivery(d)
    \/ \E o \in Orgs : UpsertWebhookConfig(o)
    \/ Tick
    \/ Dispatch
    \/ Crash
    \/ Restart

Spec == Init /\ [][Next]_vars

\* The ticker fires, the worker goroutine runs (a post ends within the HTTP
\* client's 10 s timeout), and a dead process is restarted by the platform.
Fairness == WF_vars(Dispatch) /\ WF_vars(Tick) /\ WF_vars(Restart)

FairSpec == Spec /\ Fairness

-----------------------------------------------------------------------------
(* Properties.                                                             *)

Statuses == {"absent", "pending", "delivered", "failed"}

\* Types, and what the worker holds: it only ever works on pending rows, and
\* a pending row has an attempt left.
TypeOK ==
    /\ status \in [Deliveries -> Statuses]
    /\ attempts \in [Deliveries -> 0 .. MaxAttempts]
    /\ wait \in [Deliveries -> Nat]
    /\ configured \subseteq Orgs
    /\ up \in BOOLEAN /\ tick \in BOOLEAN
    /\ worker \in WorkerStates
    /\ batch \subseteq Deliveries /\ \A d \in batch : status[d] = "pending"
    /\ worker \in {"post", "succeeded", "retry"} => cur \in batch
    /\ \A d \in Deliveries :
          /\ status[d] \in {"absent", "pending"} => attempts[d] < MaxAttempts
          /\ status[d] = "absent" => attempts[d] = 0
    /\ posts \in [Deliveries -> Nat] /\ acks \in [Deliveries -> Nat]
    /\ dropped \cup missed \subseteq Deliveries /\ faults \in 0 .. MaxFaults

\* "Up to 5 attempts": an endpoint sees a delivery more often only when the
\* record of an attempt was lost, once for each loss.
PostsBounded == \A d \in Deliveries : posts[d] <= MaxAttempts + faults

\* At-least-once, and no more than that costs: an endpoint that accepted a
\* delivery gets it again only when its answer or the record of it was lost.
AcksBounded == \A d \in Deliveries : acks[d] <= 1 + faults

\* What a settled row says is true, whatever else fails.  The endpoint has
\* accepted every delivery that is "delivered", but for those whose look-up of
\* the endpoint found none or failed: no other failure is taken for a success.
\* It has accepted one that is "failed" only as often as an answer or the record
\* of one was lost.
StatusTruthful ==
    \A d \in Deliveries :
        /\ status[d] = "delivered" => acks[d] > 0 \/ d \in dropped \cup missed
        /\ status[d] = "failed" => acks[d] <= faults

\* A delivery that was settled stays settled: a crash or a lost update never
\* brings it back into the queue.
SettledStays ==
    [][\A d \in Deliveries :
          status[d] \in {"delivered", "failed"} => status'[d] = status[d]]_vars

\* The worker keeps the promise of Queue, where there are no polls, batches,
\* waits and restarts: every try of a delivery is recorded by what came of it,
\* or a fault has cost it, and a settled delivery is never tried again.
Promise == INSTANCE Queue WITH
    good <- IF worker = "succeeded" THEN {cur} ELSE {},
    bad <- IF worker = "retry" THEN {cur} ELSE {},
    lapses <- faults

QueueKept == Promise!Spec

\* Every delivery is settled in the end, whatever the endpoint does.
EventuallySettled ==
    \A d \in Deliveries :
        status[d] = "pending" ~> status[d] \in {"delivered", "failed"}
=============================================================================
