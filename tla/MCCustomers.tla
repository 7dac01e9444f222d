----------------------------- MODULE MCCustomers ----------------------------
(* A small instance of Customers: one customer, every endpoint called once *)
(* or twice.                                                               *)
EXTENDS Customers

CONSTANTS k1, n1, p1, p2, r1, r2, x1, u1, u2

Endpoint == [c \in Calls |->
    CASE c = n1 -> "register"
      [] c \in {p1, p2} -> "provision"
      [] c \in {r1, r2} -> "rename"
      [] c = x1 -> "close"
      [] OTHER -> "upgrade"]
AllOnK1 == [c \in Calls |-> k1]
\* Registered with tier 1; u1 asks for 2 and u2 for 3.
Bodies  == [c \in Calls |-> CASE c = u1 -> 2 [] c = u2 -> 3 [] OTHER -> 1]
=============================================================================
