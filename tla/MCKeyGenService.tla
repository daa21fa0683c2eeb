-------------------------- MODULE MCKeyGenService ---------------------------
(* KeyGenService with two blocks and two failures. *)
EXTENDS KeyGenService
=============================================================================
