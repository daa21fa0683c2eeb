----------------------------- MODULE MCOprfNode -----------------------------
(* OprfNode on small instances: two connections that share session ids, one  *)
(* or two keys, timers of one or two ticks.                                  *)
EXTENDS OprfNode, TLC

Symmetry == Permutations(Conn) \cup Permutations(SessionId) \cup Permutations(Key)
=============================================================================
