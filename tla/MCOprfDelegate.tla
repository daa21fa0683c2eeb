--------------------------- MODULE MCOprfDelegate ---------------------------
(* OprfDelegate with three services, one of them faulty. *)
EXTENDS OprfDelegate
=============================================================================
