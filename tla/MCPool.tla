------------------------------- MODULE MCPool -------------------------------
(***************************************************************************)
(* The instances of MCService, with a pool smaller than the handlers that  *)
(* compete for it.                                                         *)
(***************************************************************************)
EXTENDS ConnectionPool, MCService
=============================================================================
