------------------------------ MODULE MCSetup ------------------------------
(* Small instances of Setup for TLC; the values are in the .cfg files. *)
EXTENDS Setup
=============================================================================
