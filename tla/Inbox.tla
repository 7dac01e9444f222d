-------------------------------- MODULE Inbox -------------------------------
(***************************************************************************)
(* What the webhook endpoint promises of each Nomba event, whatever the    *)
(* order, the number and the overlap of its deliveries, and whatever fails *)
(* on the way: it is claimed at most once; a claimed payment is posted at  *)
(* most once, to its customer or to suspense; and a payment is credited    *)
(* and announced to the developer in one indivisible step.  Nothing is     *)
(* promised about a claimed payment being posted at all.                   *)
(***************************************************************************)
CONSTANTS Txns, Credits, Calls, TxnOf

VARIABLES
    claimed,     \* events that no later delivery may handle
    credited,    \* calls that credited a customer
    suspended,   \* calls that posted to suspense
    announced    \* calls that queued a delivery to the developer

inboxVars == <<claimed, credited, suspended, announced>>

Init == claimed = {} /\ credited = {} /\ suspended = {} /\ announced = {}

Open(c) ==
    /\ TxnOf[c] \in claimed \cap Credits
    /\ \A d \in credited \cup suspended : TxnOf[d] # TxnOf[c]

Claim(t) ==
    /\ t \notin claimed
    /\ claimed' = claimed \cup {t}
    /\ UNCHANGED <<credited, suspended, announced>>

Credit(c) ==
    /\ Open(c)
    /\ credited' = credited \cup {c}
    /\ announced' = announced \cup {c}
    /\ UNCHANGED <<claimed, suspended>>

Suspend(c) ==
    /\ Open(c)
    /\ suspended' = suspended \cup {c}
    /\ UNCHANGED <<claimed, credited, announced>>

Next ==
    \/ \E t \in Txns : Claim(t)
    \/ \E c \in Calls : Credit(c) \/ Suspend(c)

Spec == Init /\ [][Next]_inboxVars
=============================================================================
