----------------------------- MODULE MCAccounts -----------------------------
(***************************************************************************)
(* A small instance of the accounts for TLC: what the tables hold at first *)
(* and which server runs which handler.                                    *)
(***************************************************************************)
EXTENDS Accounts, TLC

CONSTANTS root, ann, bob   \* names
CONSTANTS pw1, pw2             \* passwords
CONSTANTS h1, h2, s1, s2   \* handlers and servers

User(role, parent_id, name) ==
  [role |-> role, parent_id |-> parent_id, username |-> name, password |-> pw1]

\* An empty database, one with an agent under the administrator, and one
\* where the agent has a sub-agent as well.
Nobody == [users |-> [i \in Ids |-> Absent], last_id |-> 0]
Agency == [users   |-> [Nobody.users EXCEPT ![1] = User("admin", None, root),
                                            ![2] = User("agent", 1, ann)],
           last_id |-> 2]
Family == [users   |-> [Agency.users EXCEPT ![3] = User("sub_agent", 2, bob)],
           last_id |-> 3]

MCTables   == {Nobody, Agency, Family}
MCServerOf == [h \in Handlers |-> IF h = h1 THEN s1 ELSE s2]
Symmetry   == Permutations(Passwords) \cup Permutations(Tokens)
=============================================================================
