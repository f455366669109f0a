-------------------------------- MODULE Auth --------------------------------
(***************************************************************************)
(* The authorisation rules of the back office: who may act on an account   *)
(* and on the licences it owns.  An account is a record [id, role,         *)
(* parent_id], the SessionUser the handlers work with.                     *)
(***************************************************************************)

\* users.role is constrained to these three values by the schema.
Roles == {"admin", "agent", "sub_agent"}

\* A manager may touch everything, an agent itself and its direct
\* sub-agents, a sub-agent only itself.
can_manage_owner(current_user, owner_id, owner_parent_id) ==
  \/ current_user.role = "admin"
  \/ /\ current_user.role = "agent"
     /\ owner_id = current_user.id \/ owner_parent_id = current_user.id
  \/ /\ current_user.role = "sub_agent"
     /\ owner_id = current_user.id
=============================================================================
