------------------------------ MODULE Registry ------------------------------
(***************************************************************************)
(* What the customer endpoints promise of a customer's file, with no       *)
(* requests, rows, locks or provider in sight.  A customer is registered   *)
(* once, at some tier; each upgrade raises the tier and is entered in the  *)
(* history with the tier it left; an account is opened for a registered    *)
(* customer once, shut once, and never opened again.                       *)
(***************************************************************************)
EXTENDS Integers, Sequences

CONSTANTS People, Tiers

VARIABLES
    registered,  \* customers on file
    tier,        \* tier of each customer, 1 before registration
    history,     \* upgrades of each customer, in order
    opened,      \* customers who were given an account
    shut         \* of these, the ones whose account was closed

file         == <<registered, tier, history>>
registryVars == <<file, opened, shut>>

Init ==
    /\ registered = {} /\ opened = {} /\ shut = {}
    /\ tier = [k \in People |-> 1] /\ history = [k \in People |-> <<>>]

Register(k, t) ==
    /\ k \notin registered
    /\ registered' = registered \cup {k}
    /\ tier' = [tier EXCEPT ![k] = t]
    /\ UNCHANGED <<history, opened, shut>>

Upgrade(k, t) ==
    /\ k \in registered /\ t > tier[k]
    /\ tier' = [tier EXCEPT ![k] = t]
    /\ history' = [history EXCEPT ![k] = Append(@, [from |-> tier[k], to |-> t])]
    /\ UNCHANGED <<registered, opened, shut>>

OpenAccount(k) ==
    /\ k \in registered \ opened
    /\ opened' = opened \cup {k}
    /\ UNCHANGED <<file, shut>>

Shut(k) ==
    /\ k \in opened \ shut
    /\ shut' = shut \cup {k}
    /\ UNCHANGED <<file, opened>>

Next ==
    \E k \in People :
        \/ \E t \in Tiers : Register(k, t) \/ Upgrade(k, t)
        \/ OpenAccount(k)
        \/ Shut(k)

Spec == Init /\ [][Next]_registryVars
=============================================================================
