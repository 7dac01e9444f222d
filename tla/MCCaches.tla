------------------------------ MODULE MCCaches ------------------------------
(* A small instance of Caches: two threads of requests and two writers,    *)
(* for a key and for a configuration.                                      *)
EXTENDS Caches

CONSTANTS r1, r2, w1, w2
=============================================================================
