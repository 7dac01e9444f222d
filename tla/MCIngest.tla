------------------------------ MODULE MCIngest ------------------------------
(* Small instances of Ingest.                                              *)
EXTENDS Ingest

CONSTANTS t1, t2, a1, a2, c1, c2, c3

\* One payment with two delivery attempts, and an event that is no payment.
TwoTries == [c \in Calls |-> IF c = c3 THEN t2 ELSE t1]
\* Two payments; the webhook of t2 never arrives.
NoWebhookForT2 == [c \in Calls |-> t1]
SameDest == [t \in Txns |-> a1]
OwnDest  == [t \in Txns |-> IF t = t1 THEN a1 ELSE a2]
=============================================================================
