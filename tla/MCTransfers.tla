---------------------------- MODULE MCTransfers ----------------------------
(* Small instances of Transfers.                                           *)
EXTENDS Transfers

CONSTANTS a1, a2, r1, r2, r3, x, y

\* r1 and r2 debit a1, r3 debits a2.
TwoOnOne == [r \in Requests |-> IF r = r3 THEN a2 ELSE a1]
AllOnOne == [r \in Requests |-> a1]
\* r2 re-sends the reference of r1.
Resent   == [r \in Requests |-> IF r = r3 THEN y ELSE x]
OwnRef   == [r \in Requests |-> r]
Twos     == [r \in Requests |-> 2]
Ones     == [a \in Accounts |-> 1]
Threes   == [a \in Accounts |-> 3]
=============================================================================
