--------------------------- MODULE MCKeyGenStore ---------------------------
(* KeyGenStore on a small instance: two shares and two intermediates so that *)
(* a retried or repeated call can tell an old value from a new one.          *)
EXTENDS KeyGenStore, TLC

Symmetry == Permutations(Share) \cup Permutations(Intermediate)
=============================================================================
