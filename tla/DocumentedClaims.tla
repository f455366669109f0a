--------------------------- MODULE DocumentedClaims ---------------------------
(***************************************************************************)
(* What the repository's documentation, comments and messages say of the   *)
(* licence server and its code does not keep.  Each is checked by a run of *)
(* its own that shows how it fails.  FirstActivationSticks of              *)
(* LicenseService belongs here too: it holds in the instances of the       *)
(* passing runs and fails once an administrator lifts a ban at the wrong   *)
(* moment.  SubAgentsHaveAgents is in Accounts.                            *)
(***************************************************************************)
EXTENDS LicenseHistory

\* unbind_license refuses a banned licence: a banned licence keeps the
\* machine it is bound to.  Fails: the ban can come between its read of the
\* status and its unconditional UPDATE.
BannedKeepsMachine ==
  [][\A l \in Licenses :
       licenses[l].status = "banned" /\ licenses[l].machine_code # None
         => licenses'[l].machine_code = licenses[l].machine_code]_vars

\* The dashboard says the expiry is counted from the first verification, so
\* a valid reply about a timed licence tells its activation plus its type's
\* days.  Fails: the loser of a race between two requests of one machine
\* answers the expiry it computed itself and never stored.
ReplyTellsTheExpiry ==
  \A r \in Requests :
    Answered(r, "valid") /\ Duration[req[r].license_key] # 0 =>
      req[r].expires_at = licenses[req[r].license_key].activated_at
                            + Duration[req[r].license_key]
=============================================================================
