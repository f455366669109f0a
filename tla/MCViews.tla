------------------------------ MODULE MCViews ------------------------------
(***************************************************************************)
(* The instances of MCService, checked with the pages of the back office.  *)
(***************************************************************************)
EXTENDS LicenseViews, MCService

MCDays == {-1, 2}   \* -1 is refused
=============================================================================
