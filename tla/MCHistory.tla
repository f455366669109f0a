------------------------------ MODULE MCHistory ------------------------------
(***************************************************************************)
(* The instances of MCService, checked with the history variables.         *)
(***************************************************************************)
EXTENDS DocumentedClaims, MCService
=============================================================================
