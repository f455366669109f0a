------------------------------ MODULE MCService ------------------------------
(***************************************************************************)
(* Small instances of the licence server for TLC: the values that the      *)
(* configurations give to the constants.                                   *)
(***************************************************************************)
EXTENDS LicenseService, TLC

CONSTANTS Timed, Permanent   \* a key of a limited type, one of a permanent

MCDuration == [l \in Licenses |-> IF l = Permanent THEN 0 ELSE 2]
MCShort    == [l \in Licenses |-> IF l = Permanent THEN 0 ELSE 1]

\* A sub-agent owns the keys; its agent and the administrator manage them
\* too, another agent does not.
Admin    == [id |-> 1, role |-> "admin", parent_id |-> None]
Agent    == [id |-> 2, role |-> "agent", parent_id |-> 1]
SubAgent == [id |-> 3, role |-> "sub_agent", parent_id |-> 2]
Stranger == [id |-> 4, role |-> "agent", parent_id |-> 1]
MCUsers  == {Admin, Agent, SubAgent, Stranger}
MCAgents == {Agent, SubAgent, Stranger}
MCOwner  == [l \in Licenses |-> SubAgent]

NoInputs == {}
MCHours  == {-1, 0, 1, 2}   \* with MaxHours = 1, 0 and 2 are refused
MCLimits == {-1, 0, 2, 3}   \* with MaxSetting = 2, -1 and 3 are refused
MCBeforeStart == -1

\* Requests, handlers and machines are interchangeable (safety runs only).
Symmetry == Permutations(Requests) \cup Permutations(Handlers)
              \cup Permutations(Machines)
=============================================================================
