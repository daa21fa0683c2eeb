-------------------------- MODULE MCKeyGenProtocol --------------------------
(* KeyGenProtocol on small instances; the configurations choose what the     *)
(* administrator, the crashes and the checkpoint task may do.                *)
EXTENDS KeyGenProtocol, TLC

Symmetry == Permutations(Node)
=============================================================================
