----------------------------- MODULE MCSessions -----------------------------
(* A small instance of Sessions: two sign-ups, which may ask for one slug  *)
(* and may be one address in two spellings, a login, and two clients.      *)
EXTENDS Sessions

CONSTANTS s1, s2, l1, c1, c2, n1, n2

Lower == [e \in {"Ada", "ada"} |-> "ada"]
=============================================================================
