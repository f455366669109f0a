------------------------------- MODULE Accounts -------------------------------
(***************************************************************************)
(* The back-office accounts, their sessions and whose keys they own, with  *)
(* the start-up of the server processes that creates the first account.    *)
(* A handler's statements commit one by one, so each is a step, and what   *)
(* it has read may be gone when it writes: the tables' constraints (UNIQUE *)
(* names, foreign keys with their ON DELETE rules) judge it then.          *)
(***************************************************************************)
EXTENDS Integers, FiniteSets, Auth

CONSTANTS
  MaxId,           \* bound: the sequence users.id stops here
  Names,           \* usernames
  Passwords,       \* passwords; a hash stands for the password it verifies
  Tokens,          \* session ids
  Keys,            \* licence keys that create_license may generate
  Servers,         \* server processes over the one database
  Handlers,        \* concurrent back-office handlers
  ServerOf,        \* [Handlers -> Servers]: the process that runs each
  ADMIN_USER,      \* configuration of the processes
  ADMIN_PASSWORD,
  InitialTables,   \* what earlier runs may have left: [users, last_id]
  MaxBatch,        \* largest count create_license accepts (100 in the code)
  Crashing,        \* bound: the servers that may die
  None             \* SQL NULL

Ids == 1 .. MaxId

VARIABLES
  users,           \* [Ids -> row], Absent where the table has no row
  last_id,         \* the sequence behind users.id: no id is used twice
  sessions,        \* [Tokens -> users.id], None where the table has no row
  owner_id,        \* [Keys -> owner], None where licenses has no row
  server,          \* [Servers -> what the process is doing]
  job              \* [Handlers -> what the handler is about to do]

tables == <<users, last_id, sessions, owner_id>>
vars   == <<tables, server, job>>

UserRow == [role : Roles, parent_id : Ids \cup {None},
            username : Names, password : Passwords]
Absent == [role |-> None, parent_id |-> None, username |-> None,
           password |-> None]

InTable(us, i) == i \in Ids /\ us[i] # Absent

\* The place of an account in the tree: only an administrator has none, an
\* agent's parent is an administrator, a sub-agent's an agent, or gone.
ParentFits(us, i) ==
  LET p == us[i].parent_id IN
  /\ us[i].role = "admin" => p = None
  /\ us[i].role = "agent" => InTable(us, p) /\ us[p].role = "admin"
  /\ us[i].role = "sub_agent" /\ p # None =>
       InTable(us, p) /\ us[p].role = "agent"

ASSUME AccountsAssumption ==
  /\ MaxId \in Nat /\ MaxBatch \in Nat
  /\ ADMIN_USER \in Names /\ ADMIN_PASSWORD \in Passwords
  /\ ServerOf \in [Handlers -> Servers] /\ Crashing \subseteq Servers
  /\ None \notin Nat /\ None \notin Roles

\* Earlier runs left tables in which the accounts have their places, with
\* one administrator at most.
ASSUME TablesAssumption ==
  \A t \in InitialTables :
    /\ t.users \in [Ids -> UserRow \cup {Absent}] /\ t.last_id \in Ids \cup {0}
    /\ \A i \in Ids : i > t.last_id => t.users[i] = Absent
    /\ \A i \in Ids : InTable(t.users, i) => ParentFits(t.users, i)
    /\ \A i, j \in Ids :
         t.users[i].role = "admin" /\ t.users[j].role = "admin" => i = j

\* models::SessionUser, what a handler keeps of an account it has read.
SessionUser == [id : Ids, role : Roles, parent_id : Ids \cup {None}]
session_user(i) ==
  [id |-> i, role |-> users[i].role, parent_id |-> users[i].parent_id]

Exists(i) == InTable(users, i)
Accounts  == {i \in Ids : Exists(i)}
NameFree(name) == \A i \in Accounts : users[i].username # name

Resting == [pc |-> "idle"]
Job == {Resting}
  \cup [pc : {"session"}, id : Ids]
  \cup [pc : {"authed"}, user : SessionUser]
  \cup [pc : {"insert_user"}, user : SessionUser,
        role : Roles \ {"admin"}, parent_id : Ids]
  \cup [pc : {"password", "children", "keys", "delete"},
        user : SessionUser, id : Ids]
  \cup [pc : {"type"}, user : SessionUser, owner : Ids]
  \cup [pc : {"insert_keys"}, user : SessionUser, owner : Ids,
        left : 1 .. MaxBatch]

TypeOK ==
  /\ users \in [Ids -> UserRow \cup {Absent}]
  /\ last_id \in Ids \cup {0}
  /\ \A i \in Ids : i > last_id => users[i] = Absent
  /\ sessions \in [Tokens -> Ids \cup {None}]
  /\ owner_id \in [Keys -> Ids \cup {None}]
  /\ server \in [Servers -> {"down", "count", "insert", "up"}]
  /\ job \in [Handlers -> Job]

Init ==
  /\ \E t \in InitialTables : users = t.users /\ last_id = t.last_id
  /\ sessions = [t \in Tokens |-> None]
  /\ owner_id = [k \in Keys |-> None]
  /\ server = [s \in Servers |-> "down"]
  /\ job = [h \in Handlers |-> Resting]

Free(h) == server[ServerOf[h]] = "up" /\ job[h] = Resting
Take(h, j) == job' = [job EXCEPT ![h] = j]
Rest(h)    == job' = [job EXCEPT ![h] = Resting]

-----------------------------------------------------------------------------
(* Start-up: init_database, bootstrap_admin, then the listener.            *)

\* Mutant: the query names a role that no row has.
Administrators_misspelt == {i \in Accounts : users[i].role = "administrator"}
Administrators == {i \in Accounts : users[i].role = "admin"}

init_database(s) ==
  /\ server[s] = "down"
  /\ server' = [server EXCEPT ![s] = "count"]
  /\ UNCHANGED <<tables, job>>

\* SELECT COUNT(*) FROM users WHERE role = 'admin'.
CountAdmins(s) ==
  /\ server[s] = "count"
  /\ server' = [server EXCEPT ![s] =
                  IF Administrators = {} THEN "insert" ELSE "up"]
  /\ UNCHANGED <<tables, job>>

\* Mutant: users.username is not UNIQUE.
AddUser_any_name(row) ==
  /\ last_id < MaxId
  /\ last_id' = last_id + 1
  /\ users' = [users EXCEPT ![last_id + 1] = row]
\* Mutant: the id is the first one free, not the next of the sequence.
AddUser_reusing(row) ==
  LET i == CHOOSE i \in Ids : ~Exists(i) /\ \A j \in 1 .. i - 1 : Exists(j) IN
  /\ Accounts # Ids /\ NameFree(row.username)
  /\ row.parent_id # None => Exists(row.parent_id)
  /\ users' = [users EXCEPT ![i] = row]
  /\ UNCHANGED last_id
\* INSERT INTO users: the name must be free and the parent must be there.
AddUser(row) ==
  /\ last_id < MaxId
  /\ NameFree(row.username)
  /\ row.parent_id # None => Exists(row.parent_id)
  /\ last_id' = last_id + 1
  /\ users' = [users EXCEPT ![last_id + 1] = row]

InsertAdmin(s) ==
  /\ server[s] = "insert"
  /\ AddUser([role |-> "admin", parent_id |-> None,
              username |-> ADMIN_USER, password |-> ADMIN_PASSWORD])
  /\ server' = [server EXCEPT ![s] = "up"]
  /\ UNCHANGED <<sessions, owner_id, job>>

\* The name is taken: main returns the error, and docker starts it again.
InsertAdminFails(s) ==
  /\ server[s] = "insert" /\ ~NameFree(ADMIN_USER)
  /\ server' = [server EXCEPT ![s] = "down"]
  /\ UNCHANGED <<tables, job>>

Crash(s) ==
  /\ s \in Crashing /\ server[s] # "down"
  /\ server' = [server EXCEPT ![s] = "down"]
  /\ job' = [h \in Handlers |-> IF ServerOf[h] = s THEN Resting ELSE job[h]]
  /\ UNCHANGED tables

-----------------------------------------------------------------------------
(* Sessions.                                                               *)

\* login_submit: SELECT by name, verify_password.
login_submit(h, i, password) ==
  /\ Free(h) /\ Exists(i) /\ users[i].password = password
  /\ Take(h, [pc |-> "session", id |-> i])
  /\ UNCHANGED <<tables, server>>

\* INSERT INTO sessions under a fresh id; its foreign key wants the account.
create_session(h, t) ==
  /\ job[h].pc = "session" /\ sessions[t] = None
  /\ Exists(job[h].id)
  /\ sessions' = [sessions EXCEPT ![t] = job[h].id]

LoggedIn(h, t) ==
  /\ create_session(h, t)
  /\ Rest(h)
  /\ UNCHANGED <<users, last_id, owner_id, server>>

logout(h, t) ==
  /\ Free(h)
  /\ sessions' = [sessions EXCEPT ![t] = None]
  /\ UNCHANGED <<users, last_id, owner_id, server, job>>

\* Seven days have passed since the login.  The row stays, but no statement
\* selects it again, so it is as good as gone.
Expire(t) ==
  /\ sessions[t] # None
  /\ sessions' = [sessions EXCEPT ![t] = None]
  /\ UNCHANGED <<users, last_id, owner_id, server, job>>

\* AuthUser: from here on the handler acts for the account it has read.
from_request_parts(h, t) ==
  /\ Free(h) /\ Exists(sessions[t])
  /\ Take(h, [pc |-> "authed", user |-> session_user(sessions[t])])
  /\ UNCHANGED <<tables, server>>

-----------------------------------------------------------------------------
(* create_user.                                                            *)

require_admin_or_agent(user) == user.role \in {"admin", "agent"}

parent_fits(role, parent_role) ==
  /\ role = "agent"     => parent_role = "admin"
  /\ role = "sub_agent" => parent_role = "agent"

\* The checks of create_user on a role and a parent that it has just read.
may_create_under(user, role, p) ==
  /\ require_admin_or_agent(user)
  /\ user.role = "agent" => role = "sub_agent" /\ p = user.id
  /\ Exists(p) /\ parent_fits(role, users[p].role)
  /\ can_manage_owner(user, p, users[p].parent_id) \/ p = user.id

CheckParent(h, role, p) ==
  /\ job[h].pc = "authed" /\ role \in {"agent", "sub_agent"}
  /\ may_create_under(job[h].user, role, p)
  /\ Take(h, [pc |-> "insert_user", user |-> job[h].user,
              role |-> role, parent_id |-> p])
  /\ UNCHANGED <<tables, server>>

InsertUser(h, name, password) ==
  /\ job[h].pc = "insert_user"
  /\ AddUser([role |-> job[h].role, parent_id |-> job[h].parent_id,
              username |-> name, password |-> password])
  /\ Rest(h)
  /\ UNCHANGED <<sessions, owner_id, server>>

-----------------------------------------------------------------------------
(* update_user_password and delete_user.                                   *)

\* The checks both handlers make on the account get_user returns.
may_change(user, i) ==
  /\ require_admin_or_agent(user)
  /\ Exists(i) /\ users[i].role # "admin"
  /\ can_manage_owner(user, i, users[i].parent_id)

Check(h, i, pc) ==
  /\ job[h].pc = "authed"
  /\ may_change(job[h].user, i)
  /\ Take(h, [pc |-> pc, user |-> job[h].user, id |-> i])
  /\ UNCHANGED <<tables, server>>

CheckPassword(h, i) == Check(h, i, "password")
CheckDelete(h, i) ==
  /\ job[h].pc = "authed" /\ i # job[h].user.id
  /\ Check(h, i, "children")

\* UPDATE users SET password_hash; no row, no effect.
WritePassword(h, password) ==
  LET i == job[h].id IN
  /\ job[h].pc = "password"
  /\ users' = IF Exists(i) THEN [users EXCEPT ![i].password = password]
              ELSE users
  /\ Rest(h)
  /\ UNCHANGED <<last_id, sessions, owner_id, server>>

Children(i) == {c \in Accounts : users[c].parent_id = i}
KeysOf(i)   == {k \in Keys : owner_id[k] = i}

CountChildren(h) ==
  /\ job[h].pc = "children"
  /\ IF Children(job[h].id) = {}
     THEN job' = [job EXCEPT ![h].pc = "keys"] ELSE Rest(h)
  /\ UNCHANGED <<tables, server>>

CountKeys(h) ==
  /\ job[h].pc = "keys"
  /\ IF KeysOf(job[h].id) = {}
     THEN job' = [job EXCEPT ![h].pc = "delete"] ELSE Rest(h)
  /\ UNCHANGED <<tables, server>>

\* Mutant: sub-accounts keep naming the deleted account.
Deleted_dangling(i) == [users EXCEPT ![i] = Absent]
\* users.parent_id: ON DELETE SET NULL.
Deleted(i) ==
  [c \in Ids |-> IF c = i THEN Absent
                 ELSE IF users[c].parent_id = i
                      THEN [users[c] EXCEPT !.parent_id = None]
                      ELSE users[c]]
\* Mutant: licenses.owner_id without ON DELETE RESTRICT.
Restricted_never(i) == FALSE
\* licenses.owner_id: ON DELETE RESTRICT.
Restricted(i) == KeysOf(i) # {}
\* sessions.user_id: ON DELETE CASCADE.
Cascaded(i) ==
  [t \in Tokens |->
     IF sessions[t] = i THEN None ELSE sessions[t]]

\* DELETE FROM users: an error while the account owns keys.
DeleteUser(h) ==
  LET i == job[h].id IN
  /\ job[h].pc = "delete" /\ ~Restricted(i)
  /\ users' = Deleted(i) /\ sessions' = Cascaded(i)
  /\ Rest(h)
  /\ UNCHANGED <<last_id, owner_id, server>>

-----------------------------------------------------------------------------
(* create_license.                                                         *)

\* get_user(owner_id) and its check.
CheckOwner(h, i) ==
  /\ job[h].pc = "authed"
  /\ Exists(i) /\ can_manage_owner(job[h].user, i, users[i].parent_id)
  /\ Take(h, [pc |-> "type", user |-> job[h].user, owner |-> i])
  /\ UNCHANGED <<tables, server>>

\* SELECT prefix FROM license_types: types are never deleted, so a type
\* that is found stays.
ReadType(h, count) ==
  /\ job[h].pc = "type" /\ count \in 1 .. MaxBatch
  /\ Take(h, [pc |-> "insert_keys", user |-> job[h].user,
              owner |-> job[h].owner, left |-> count])
  /\ UNCHANGED <<tables, server>>

\* One INSERT of the loop; the finite Keys bound what the UUIDs do not.
InsertKey(h, k) ==
  LET j == job[h] IN
  /\ j.pc = "insert_keys" /\ owner_id[k] = None /\ Exists(j.owner)
  /\ owner_id' = [owner_id EXCEPT ![k] = j.owner]
  /\ IF j.left = 1 THEN Rest(h) ELSE job' = [job EXCEPT ![h].left = @ - 1]
  /\ UNCHANGED <<users, last_id, sessions, server>>

-----------------------------------------------------------------------------
\* A page is served, a check or a constraint refuses, a statement fails, or
\* the browser goes away: the handler ends and writes no more.
Ends(h) ==
  /\ job[h] # Resting
  /\ Rest(h)
  /\ UNCHANGED <<tables, server>>

StartUp(s) == \/ init_database(s) \/ CountAdmins(s)
              \/ InsertAdmin(s) \/ InsertAdminFails(s)

Handle(h) ==
  \/ \E i \in Ids, password \in Passwords : login_submit(h, i, password)
  \/ \E t \in Tokens :
       LoggedIn(h, t) \/ logout(h, t) \/ from_request_parts(h, t)
  \/ \E i \in Ids :
       \/ \E role \in Roles : CheckParent(h, role, i)
       \/ CheckPassword(h, i) \/ CheckDelete(h, i) \/ CheckOwner(h, i)
  \/ \E password \in Passwords :
       \/ WritePassword(h, password)
       \/ \E name \in Names : InsertUser(h, name, password)
  \/ CountChildren(h) \/ CountKeys(h) \/ DeleteUser(h)
  \/ \E count \in 1 .. MaxBatch : ReadType(h, count)
  \/ \E k \in Keys : InsertKey(h, k)
  \/ Ends(h)

Next ==
  \/ \E s \in Servers : StartUp(s) \/ Crash(s)
  \/ \E h \in Handlers : Handle(h)
  \/ \E t \in Tokens : Expire(t)

Spec == Init /\ [][Next]_vars

\* A process that was started goes on, and docker restarts one that ended.
FairSpec == Spec /\ \A s \in Servers : WF_vars(StartUp(s))

-----------------------------------------------------------------------------
(* What each account is shown.                                             *)

\* Mutant: an agent's page forgets the agent itself.
visible_users_children(user) ==
  {i \in Accounts :
     CASE user.role = "admin" -> TRUE
       [] user.role = "agent" -> users[i].parent_id = user.id
       [] OTHER               -> i = user.id}
\* The accounts visible_users returns, by role.
visible_users(user) ==
  {i \in Accounts :
     CASE user.role = "admin" -> TRUE
       [] user.role = "agent" -> i = user.id \/ users[i].parent_id = user.id
       [] OTHER               -> i = user.id}

\* The dashboard's count, by queries of its own.
count_visible_users(user) ==
  CASE user.role = "admin" -> Cardinality(Accounts)
    [] user.role = "agent" ->
         Cardinality({i \in Accounts : i = user.id \/ users[i].parent_id = user.id})
    [] OTHER -> 1

\* users_page offers "new password" and "delete" on these accounts.
offered_actions(user) ==
  {i \in visible_users(user) : i # user.id /\ users[i].role # "admin"}

\* The parents that the form for a new account offers.
parent_options(user) ==
  {i \in visible_users(user) :
     /\ user.role = "agent" => i = user.id
     /\ users[i].role \in {"admin", "agent"}}

-----------------------------------------------------------------------------
(* Safety.                                                                 *)

\* However the checks of create_user, the deletions and the start-ups of
\* several servers interleave, every account keeps its place in the tree.
ParentsFitRoles == \A i \in Accounts : ParentFits(users, i)

\* bootstrap_admin: no server listens before there is an administrator, no
\* race of start-ups makes two, and no handler deletes the one there is.
OneAdministrator ==
  /\ Cardinality(Administrators) <= 1
  /\ (\E s \in Servers : server[s] = "up") => Administrators # {}

\* Deleting an account leaves nothing of it behind: no session lets anyone
\* in as it, not even a login that had checked the password before, and no
\* key is without its owner although keys are inserted one by one.
NothingOutlivesItsAccount ==
  /\ \A t \in Tokens :
       sessions[t] # None => Exists(sessions[t])
  /\ \A k \in Keys : owner_id[k] # None => Exists(owner_id[k])

\* The pages and the handlers agree, although SQL decides one and Rust the
\* other: an account sees exactly the accounts can_manage_owner lets it
\* manage, the dashboard counts them, and the form offers the parents that
\* create_user accepts with one of the roles.  The "new password" that
\* users_page offers is accepted when submitted at once.  The "delete" next
\* to it need not be: delete_user refuses accounts that have sub-accounts or
\* keys, which the page does not ask about.  The page shows its viewer the
\* sub-accounts that are in the way, and none are in an agent's way.
PagesMatchRules ==
  \A u \in Accounts :
    LET user == session_user(u) IN
    /\ visible_users(user) =
         {i \in Accounts : can_manage_owner(user, i, users[i].parent_id)}
    /\ count_visible_users(user) = Cardinality(visible_users(user))
    /\ require_admin_or_agent(user) =>
         /\ \A i \in offered_actions(user) :
              /\ may_change(user, i)
              /\ Children(i) \subseteq visible_users(user)
              /\ user.role = "agent" => Children(i) = {}
         /\ parent_options(user) =
              {p \in Ids : \E role \in {"agent", "sub_agent"} :
                             may_create_under(user, role, p)}

\* No account changes or disappears, and none gets a key, except by a
\* handler whose account is there at that very moment and may manage the
\* one it writes to: what was checked statements ago has not gone stale.
\* The exceptions: the deletion of its parent makes an orphan of a
\* sub-agent, and an agent deleted in the middle of its own handler still
\* reaches the sub-agents that its deletion has orphaned.
Authorised(user, i) ==
  \/ Exists(user.id) /\ can_manage_owner(user, i, users[i].parent_id)
  \/ /\ user.role = "agent" /\ ~Exists(user.id)
     /\ users[i].role = "sub_agent" /\ users[i].parent_id = None
Orphaned(i) ==
  /\ users'[i] = [users[i] EXCEPT !.parent_id = None]
  /\ users'[users[i].parent_id] = Absent
WritesAreAuthorised ==
  [][/\ \A i \in Accounts : users'[i] # users[i] =>
          \/ Orphaned(i)
          \/ /\ users[i].role # "admin"
             /\ \E h \in Handlers :
                  /\ job[h].pc \in {"password", "delete"} /\ job[h].id = i
                  /\ job'[h] = Resting /\ Authorised(job[h].user, i)
     /\ \A k \in Keys : owner_id'[k] # owner_id[k] =>
          /\ owner_id[k] = None
          /\ \E h \in Handlers :
               /\ job[h].pc = "insert_keys" /\ job'[h] # job[h]
               /\ Authorised(job[h].user, owner_id'[k])]_vars

\* db.rs says of parent_id that a sub-agent's is an agent, and delete_user
\* refuses an account that has sub-accounts.  Fails: a sub-account inserted
\* between delete_user's count and its DELETE loses its parent.
SubAgentsHaveAgents ==
  \A i \in Accounts : users[i].role = "sub_agent" => users[i].parent_id # None

-----------------------------------------------------------------------------
(* Liveness.                                                               *)

\* Every server that does not crash again and again comes up, the one that
\* loses the race to create the first administrator included.
EveryServerStarts ==
  \A s \in Servers : []<>(server[s] = "up") \/ []<><<Crash(s)>>_vars
=============================================================================
