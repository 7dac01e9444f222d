------------------------------- MODULE MCBooks ------------------------------
(* A small instance of Books: one run, and a statement from the second     *)
(* entry on, of the default size.                                          *)
EXTENDS Books

CONSTANTS p1, p2, t1, r1, s1

Kinds   == [r \in Readers |-> IF r = r1 THEN "run" ELSE "statement"]
Limits  == [r \in Readers |-> 0]
Offsets == [r \in Readers |-> 1]

\* Backfilled entries have the time of the payment, before all the others; a
\* transfer and a payment may be booked at the same time.
Times == [e \in CustomerTypes \X Movements |->
             CASE e[1] = "backfill_credit"   -> 1
               [] e = <<"inbound_credit", p1>> -> 2
               [] e[1] = "transfer_reversal" -> 4
               [] OTHER -> 3]
=============================================================================
