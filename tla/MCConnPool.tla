----------------------------- MODULE MCConnPool -----------------------------
(* A small instance of ConnPool: two credits and two requests, with one to *)
(* three connections - fewer than, as many as, and more than credits.      *)
EXTENDS ConnPool

CONSTANTS c1, c2, o1, o2, k1, k2, k3
=============================================================================
