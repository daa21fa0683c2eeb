---------------------------- MODULE MCOprfClient ----------------------------
(* OprfClient against three services. *)
EXTENDS OprfClient

Symmetry == Permutations(Service)
=============================================================================
