----------------------------- MODULE MCOutbound -----------------------------
(* Small instances of Outbound.                                            *)
EXTENDS Outbound

CONSTANTS o1, o2

\* Deliveries 1 and 2 notify o1, delivery 3 notifies o2.
TwoOrgs == [d \in Deliveries |-> IF d = 3 THEN o2 ELSE o1]
\* 30 s * 2^(n-1) in polls of 15 s.
Doubling == [n \in 1 .. MaxAttempts |-> 2^n]
=============================================================================
