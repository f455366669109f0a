---------------------------- MODULE AccountProofs ----------------------------
(***************************************************************************)
(* Theorems about Accounts for every value of its constants: any number of *)
(* servers, handlers, accounts, sessions and keys, any tables at first.    *)
(***************************************************************************)
EXTENDS Accounts, FiniteSetTheorems, TLAPS

-----------------------------------------------------------------------------
(* Type correctness.                                                       *)

\* A row of the table is never the absent one, and NULL names no account.
LEMMA AbsentIsNoRow == Absent \notin UserRow /\ None \notin Ids
BY AccountsAssumption DEF Absent, UserRow, Ids

\* A handler that ends leaves well-typed jobs.
LEMMA RestType ==
  ASSUME TypeOK, NEW h \in Handlers, Rest(h)
  PROVE  job' \in [Handlers -> Job]
BY DEF TypeOK, Rest, Job

\* A handler that goes on to a well-typed job leaves well-typed jobs.
LEMMA TakeType ==
  ASSUME TypeOK, NEW h \in Handlers, NEW j \in Job, Take(h, j)
  PROVE  job' \in [Handlers -> Job]
BY DEF TypeOK, Take

\* What an account that is read looks like.
LEMMA ReadUser ==
  ASSUME TypeOK, NEW i, Exists(i)
  PROVE  i \in Ids /\ users[i] \in UserRow /\ session_user(i) \in SessionUser
<1>1. i \in Ids /\ users[i] \in UserRow
  BY DEF TypeOK, Exists, InTable
<1> QED BY <1>1 DEF session_user, SessionUser, UserRow

\* A new row in the table.
LEMMA AddUserType ==
  ASSUME TypeOK, NEW row \in UserRow, AddUser(row)
  PROVE  /\ users' \in [Ids -> UserRow \cup {Absent}]
         /\ last_id' \in Ids /\ last_id' = last_id + 1
         /\ last_id + 1 \in Ids
         /\ \A i \in Ids : i > last_id' => users'[i] = Absent
<1>1. last_id \in Nat /\ last_id + 1 \in Ids
  BY AccountsAssumption DEF TypeOK, AddUser, Ids
<1>2. users' \in [Ids -> UserRow \cup {Absent}]
  BY <1>1 DEF TypeOK, AddUser
<1>3. \A i \in Ids : i > last_id' => users'[i] = Absent
  BY <1>1 DEF TypeOK, AddUser, Ids
<1> QED BY <1>1, <1>2, <1>3 DEF AddUser

\* Whatever tables earlier runs left are well typed.
LEMMA InitType == Init => TypeOK
BY TablesAssumption DEF Init, TypeOK, Job

\* The steps of a server's start-up keep the types; bootstrap_admin's row is one.
LEMMA StartUpType ==
  ASSUME TypeOK, NEW s \in Servers, StartUp(s)
  PROVE  TypeOK'
<1>1. CASE init_database(s) \/ CountAdmins(s) \/ InsertAdminFails(s)
  BY <1>1 DEF TypeOK, init_database, CountAdmins, InsertAdminFails, tables
<1>2. CASE InsertAdmin(s)
  <2> DEFINE row == [role |-> "admin", parent_id |-> None,
                     username |-> ADMIN_USER, password |-> ADMIN_PASSWORD]
  <2>1. row \in UserRow
    BY AccountsAssumption DEF UserRow, Roles
  <2>2. AddUser(row)
    BY <1>2 DEF InsertAdmin
  <2> HIDE DEF row
  <2>3. QED BY <1>2, <2>1, <2>2, AddUserType DEF TypeOK, InsertAdmin
<1> QED BY <1>1, <1>2 DEF StartUp

\* The handlers' steps that leave the tables alone.
LEMMA CheckType ==
  ASSUME TypeOK, NEW h \in Handlers,
         \/ \E i \in Ids, password \in Passwords : login_submit(h, i, password)
         \/ \E t \in Tokens : from_request_parts(h, t)
         \/ \E i \in Ids :
              \/ \E role \in Roles : CheckParent(h, role, i)
              \/ CheckPassword(h, i) \/ CheckDelete(h, i) \/ CheckOwner(h, i)
         \/ CountChildren(h) \/ CountKeys(h)
         \/ \E count \in 1 .. MaxBatch : ReadType(h, count)
         \/ Ends(h)
  PROVE  job' \in [Handlers -> Job] /\ UNCHANGED <<tables, server>>
<1>0. job[h] \in Job
  BY DEF TypeOK
<1>1. ASSUME NEW i \in Ids, NEW password \in Passwords, login_submit(h, i, password)
      PROVE  job' \in [Handlers -> Job] /\ UNCHANGED <<tables, server>>
  <2>1. [pc |-> "session", id |-> i] \in Job
    BY DEF Job
  <2> QED BY <1>1, <2>1, TakeType DEF login_submit
<1>2. ASSUME NEW t \in Tokens, from_request_parts(h, t)
      PROVE  job' \in [Handlers -> Job] /\ UNCHANGED <<tables, server>>
  <2>1. [pc |-> "authed", user |-> session_user(sessions[t])] \in Job
    BY <1>2, ReadUser DEF from_request_parts, Job
  <2> QED BY <1>2, <2>1, TakeType DEF from_request_parts
<1>3. ASSUME NEW i \in Ids, NEW role \in Roles, CheckParent(h, role, i)
      PROVE  job' \in [Handlers -> Job] /\ UNCHANGED <<tables, server>>
  <2>1. [pc |-> "insert_user", user |-> job[h].user, role |-> role,
         parent_id |-> i] \in Job
    BY <1>0, <1>3 DEF CheckParent, Job, Resting
  <2> QED BY <1>3, <2>1, TakeType DEF CheckParent
<1>4. ASSUME NEW i \in Ids, NEW pc \in {"password", "children"}, Check(h, i, pc)
      PROVE  job' \in [Handlers -> Job] /\ UNCHANGED <<tables, server>>
  <2>1. [pc |-> pc, user |-> job[h].user, id |-> i] \in Job
    BY <1>0, <1>4 DEF Check, Job, Resting
  <2> QED BY <1>4, <2>1, TakeType DEF Check
<1>5. ASSUME NEW i \in Ids, CheckOwner(h, i)
      PROVE  job' \in [Handlers -> Job] /\ UNCHANGED <<tables, server>>
  <2>1. [pc |-> "type", user |-> job[h].user, owner |-> i] \in Job
    BY <1>0, <1>5 DEF CheckOwner, Job, Resting
  <2> QED BY <1>5, <2>1, TakeType DEF CheckOwner
<1>6. ASSUME CountChildren(h) \/ CountKeys(h)
      PROVE  job' \in [Handlers -> Job] /\ UNCHANGED <<tables, server>>
  <2>1. job[h].pc \in {"children", "keys"}
    BY <1>6 DEF CountChildren, CountKeys
  <2>2. job[h] \in [pc : {"password", "children", "keys", "delete"},
                    user : SessionUser, id : Ids]
    BY <1>0, <2>1 DEF Job, Resting
  <2>3. \A pc \in {"keys", "delete"} : [job[h] EXCEPT !.pc = pc] \in Job
    BY <2>2 DEF Job
  <2>4. \/ Rest(h)
        \/ \E pc \in {"keys", "delete"} : job' = [job EXCEPT ![h].pc = pc]
    BY <1>6 DEF CountChildren, CountKeys
  <2>5. ASSUME NEW pc \in {"keys", "delete"}, job' = [job EXCEPT ![h].pc = pc]
        PROVE  job' \in [Handlers -> Job]
    <3>1. job' = [job EXCEPT ![h] = [job[h] EXCEPT !.pc = pc]]
      BY <2>5
    <3> QED BY <2>3, <3>1 DEF TypeOK
  <2> QED BY <1>6, <2>4, <2>5, RestType DEF CountChildren, CountKeys
<1>7. ASSUME NEW count \in 1 .. MaxBatch, ReadType(h, count)
      PROVE  job' \in [Handlers -> Job] /\ UNCHANGED <<tables, server>>
  <2>1. [pc |-> "insert_keys", user |-> job[h].user, owner |-> job[h].owner,
         left |-> count] \in Job
    BY <1>0, <1>7 DEF ReadType, Job, Resting
  <2> QED BY <1>7, <2>1, TakeType DEF ReadType
<1>8. CASE Ends(h)
  BY <1>8, RestType DEF Ends
<1> QED BY <1>1, <1>2, <1>3, <1>4, <1>5, <1>6, <1>7, <1>8
        DEF CheckPassword, CheckDelete

\* The handlers' steps that write.
LEMMA WriteType ==
  ASSUME TypeOK, NEW h \in Handlers,
         \/ \E t \in Tokens : LoggedIn(h, t) \/ logout(h, t)
         \/ \E password \in Passwords :
              \/ WritePassword(h, password)
              \/ \E name \in Names : InsertUser(h, name, password)
         \/ DeleteUser(h)
         \/ \E k \in Keys : InsertKey(h, k)
  PROVE  TypeOK'
<1>0. job[h] \in Job
  BY DEF TypeOK
<1>1. ASSUME NEW t \in Tokens, LoggedIn(h, t) PROVE TypeOK'
  <2>1. job[h].id \in Ids
    BY <1>0, <1>1 DEF LoggedIn, create_session, Exists, InTable
  <2> QED BY <1>1, <2>1, RestType DEF LoggedIn, create_session, TypeOK
<1>2. ASSUME NEW t \in Tokens, logout(h, t) PROVE TypeOK'
  BY <1>2 DEF logout, TypeOK
<1>3. ASSUME NEW password \in Passwords, WritePassword(h, password)
      PROVE  TypeOK'
  <2>1. users' \in [Ids -> UserRow \cup {Absent}]
    BY <1>3 DEF WritePassword, TypeOK, Exists, InTable, UserRow
  <2>2. \A i \in Ids : i > last_id' => users'[i] = Absent
    BY <1>3 DEF WritePassword, TypeOK, Exists, InTable
  <2> QED BY <1>3, <2>1, <2>2, RestType DEF WritePassword, TypeOK
<1>4. ASSUME NEW password \in Passwords, NEW name \in Names,
             InsertUser(h, name, password)
      PROVE  TypeOK'
  <2> DEFINE row == [role |-> job[h].role, parent_id |-> job[h].parent_id,
                     username |-> name, password |-> password]
  <2>1. row \in UserRow
    BY <1>0, <1>4 DEF InsertUser, Job, Resting, UserRow, Roles
  <2>2. AddUser(row)
    BY <1>4 DEF InsertUser
  <2> HIDE DEF row
  <2>3. QED BY <1>4, <2>1, <2>2, AddUserType, RestType DEF TypeOK, InsertUser
<1>5. CASE DeleteUser(h)
  <2>1. users' \in [Ids -> UserRow \cup {Absent}]
    BY <1>5 DEF DeleteUser, Deleted, TypeOK, UserRow, Absent
  <2>2. \A i \in Ids : i > last_id' => users'[i] = Absent
    BY <1>5, AbsentIsNoRow DEF DeleteUser, Deleted, TypeOK, Absent
  <2>3. sessions' \in [Tokens -> Ids \cup {None}]
    BY <1>5 DEF DeleteUser, Cascaded, TypeOK
  <2> QED BY <1>5, <2>1, <2>2, <2>3, RestType DEF DeleteUser, TypeOK
<1>6. ASSUME NEW k \in Keys, InsertKey(h, k) PROVE TypeOK'
  <2>1. job[h] \in [pc : {"insert_keys"}, user : SessionUser, owner : Ids,
                    left : 1 .. MaxBatch]
    BY <1>0, <1>6 DEF InsertKey, Job, Resting
  <2>2. job' \in [Handlers -> Job]
    <3>1. CASE job[h].left = 1
      BY <1>6, <3>1, RestType DEF InsertKey
    <3>2. CASE job[h].left # 1
      <4>1. job[h].left - 1 \in 1 .. MaxBatch
        BY <2>1, <3>2, AccountsAssumption
      <4>2. [job[h] EXCEPT !.left = job[h].left - 1] \in Job
        BY <2>1, <4>1 DEF Job
      <4>3. job' = [job EXCEPT ![h] = [job[h] EXCEPT !.left = job[h].left - 1]]
        BY <1>6, <3>2 DEF InsertKey
      <4> QED BY <4>2, <4>3 DEF TypeOK
    <3> QED BY <3>1, <3>2
  <2> QED BY <1>6, <2>1, <2>2 DEF InsertKey, TypeOK
<1> QED BY <1>1, <1>2, <1>3, <1>4, <1>5, <1>6

\* Types are kept by every step.
LEMMA NextType == TypeOK /\ [Next]_vars => TypeOK'
<1> SUFFICES ASSUME TypeOK, [Next]_vars PROVE TypeOK'
  OBVIOUS
<1>1. ASSUME NEW s \in Servers, StartUp(s) \/ Crash(s) PROVE TypeOK'
  <2>1. CASE Crash(s)
    BY <2>1 DEF Crash, TypeOK, Job, tables
  <2> QED BY <1>1, <2>1, StartUpType
<1>2. ASSUME NEW h \in Handlers, Handle(h) PROVE TypeOK'
  <2>1. ASSUME job' \in [Handlers -> Job], UNCHANGED <<tables, server>>
        PROVE  TypeOK'
    BY <2>1 DEF TypeOK, tables
  <2> QED BY <1>2, <2>1, CheckType, WriteType DEF Handle
<1>3. ASSUME NEW t \in Tokens, Expire(t) PROVE TypeOK'
  BY <1>3 DEF Expire, TypeOK
<1>4. CASE UNCHANGED vars
  BY <1>4 DEF vars, tables, TypeOK
<1> QED BY <1>1, <1>2, <1>3, <1>4 DEF Next

\* The tables and what the handlers keep have their types in every reachable
\* state, and no id beyond the sequence is in use.
THEOREM AccountsTypeCorrect == Spec => []TypeOK
BY InitType, NextType, PTL DEF Spec

-----------------------------------------------------------------------------
(* The inductive invariant.  Ids are not used twice, roles never change and *)
(* administrators are never deleted: so what a handler has read of an       *)
(* account stays true for as long as the account exists.  The predicates    *)
(* take the tables as arguments, to speak of those before and after a step. *)

\* user was read from the table us, whose sequence has come to last since.
Known(us, last, user) ==
  /\ user.id <= last
  /\ InTable(us, user.id) => us[user.id].role = user.role
  /\ user.role = "admin" => InTable(us, user.id)

\* user may act on account i, unless i is gone, or is a sub-agent that has
\* lost its parent and user an agent that is gone as well.
MayReach(us, user, i) ==
  InTable(us, i) =>
    \/ InTable(us, user.id) /\ can_manage_owner(user, i, us[i].parent_id)
    \/ /\ user.role = "agent" /\ ~InTable(us, user.id)
       /\ us[i].role = "sub_agent" /\ us[i].parent_id = None

\* What the checks a handler has made are still worth.
JobFits(us, last, j) ==
  /\ j.pc \notin {"idle", "session"} => Known(us, last, j.user)
  /\ j.pc = "insert_user" =>
       /\ j.parent_id <= last
       /\ InTable(us, j.parent_id) => parent_fits(j.role, us[j.parent_id].role)
  /\ j.pc \in {"password", "children", "keys", "delete"} =>
       /\ j.id <= last
       /\ InTable(us, j.id) => us[j.id].role # "admin"
       /\ MayReach(us, j.user, j.id)
  /\ j.pc \in {"type", "insert_keys"} =>
       j.owner <= last /\ MayReach(us, j.user, j.owner)

JobsFit == \A h \in Handlers : JobFits(users, last_id, job[h])

\* Every account that is left keeps its role and its parent, or loses its
\* parent because that is gone; administrators stay.
Persists ==
  /\ last_id <= last_id'
  /\ \A i \in Ids : i <= last_id /\ InTable(users', i) =>
       /\ InTable(users, i) /\ users'[i].role = users[i].role
       /\ \/ users'[i].parent_id = users[i].parent_id
          \/ users'[i].parent_id = None /\ ~InTable(users', users[i].parent_id)
  /\ \A i \in Ids : InTable(users, i) /\ users[i].role = "admin" =>
       InTable(users', i)

\* The parent that a new row names is in the table, and of the right role.
RowFits(row) ==
  /\ row.role = "admin" => row.parent_id = None
  /\ row.role = "agent" =>
       InTable(users, row.parent_id) /\ users[row.parent_id].role = "admin"
  /\ row.role = "sub_agent" /\ row.parent_id # None =>
       InTable(users, row.parent_id) /\ users[row.parent_id].role = "agent"

\* How users can change.
Inserts == \E row \in UserRow :
  /\ AddUser(row) /\ RowFits(row)
  /\ row.role = "admin" => \E s \in Servers : InsertAdmin(s)
Changes == \E i \in Ids, password \in Passwords :
  /\ InTable(users, i)
  /\ users' = [users EXCEPT ![i].password = password]
  /\ UNCHANGED last_id
Deletes == \E i \in Ids :
  /\ InTable(users, i) => users[i].role # "admin"
  /\ users' = Deleted(i)
  /\ UNCHANGED last_id

\* Every step leaves the users table alone, inserts a row in its place, changes
\* a row but not its place, or deletes one that is no administrator.
LEMMA UsersSteps ==
  ASSUME TypeOK, JobsFit, [Next]_vars
  PROVE  UNCHANGED <<users, last_id>> \/ Inserts \/ Changes \/ Deletes
<1>1. ASSUME NEW s \in Servers, StartUp(s) \/ Crash(s)
      PROVE  UNCHANGED <<users, last_id>> \/ Inserts
  <2>1. CASE InsertAdmin(s)
    <3> DEFINE row == [role |-> "admin", parent_id |-> None,
                       username |-> ADMIN_USER, password |-> ADMIN_PASSWORD]
    <3>1. row \in UserRow /\ RowFits(row)
      BY AccountsAssumption DEF UserRow, Roles, RowFits
    <3>2. AddUser(row)
      BY <2>1 DEF InsertAdmin
    <3> QED BY <2>1, <3>1, <3>2 DEF Inserts
  <2> QED BY <1>1, <2>1 DEF StartUp, init_database, CountAdmins,
             InsertAdminFails, Crash, tables
<1>2. ASSUME NEW h \in Handlers, Handle(h)
      PROVE  UNCHANGED <<users, last_id>> \/ Inserts \/ Changes \/ Deletes
  <2>0. job[h] \in Job /\ JobFits(users, last_id, job[h])
    BY DEF TypeOK, JobsFit
  <2>1. ASSUME NEW password \in Passwords, NEW name \in Names,
               InsertUser(h, name, password)
        PROVE  Inserts
    <3> DEFINE row == [role |-> job[h].role, parent_id |-> job[h].parent_id,
                       username |-> name, password |-> password]
    <3>1. row \in UserRow /\ row.role # "admin"
      BY <2>0, <2>1 DEF InsertUser, Job, Resting, UserRow, Roles
    <3>2. AddUser(row) /\ job[h].pc = "insert_user"
      BY <2>1 DEF InsertUser
    <3>3. job[h].parent_id \in Ids
      BY <2>0, <3>2 DEF Job, Resting
    <3>4. InTable(users, row.parent_id)
      BY <3>2, <3>3, AbsentIsNoRow DEF AddUser, Exists
    <3>5. parent_fits(row.role, users[row.parent_id].role)
      BY <2>0, <3>2, <3>4 DEF JobFits
    <3>6. RowFits(row)
      BY <3>1, <3>4, <3>5 DEF RowFits, parent_fits
    <3> QED BY <3>1, <3>2, <3>6 DEF Inserts
  <2>2. ASSUME NEW password \in Passwords, WritePassword(h, password)
        PROVE  UNCHANGED <<users, last_id>> \/ Changes
    BY <2>2 DEF WritePassword, Changes, Exists, InTable
  <2>3. CASE DeleteUser(h)
    <3>1. job[h].pc = "delete" /\ job[h].id \in Ids
      BY <2>0, <2>3 DEF DeleteUser, Job, Resting
    <3> QED BY <2>0, <2>3, <3>1 DEF DeleteUser, Deletes, JobFits
  <2>4. ASSUME NEW t \in Tokens, LoggedIn(h, t) \/ logout(h, t)
        PROVE  UNCHANGED <<users, last_id>>
    BY <2>4 DEF LoggedIn, logout
  <2>5. ASSUME NEW k \in Keys, InsertKey(h, k)
        PROVE  UNCHANGED <<users, last_id>>
    BY <2>5 DEF InsertKey
  <2> QED BY <1>2, <2>1, <2>2, <2>3, <2>4, <2>5, CheckType DEF Handle, tables
<1>3. ASSUME NEW t \in Tokens, Expire(t) PROVE UNCHANGED <<users, last_id>>
  BY <1>3 DEF Expire
<1> QED BY <1>1, <1>2, <1>3 DEF Next, vars, tables

\* Roles never change, parents only to NULL, and ids are never used again.
LEMMA UsersPersist ==
  ASSUME TypeOK, TypeOK', JobsFit, [Next]_vars
  PROVE  Persists
<1>0. last_id \in Nat /\ Ids \subseteq Nat
  BY AccountsAssumption DEF TypeOK, Ids
<1>1. CASE UNCHANGED <<users, last_id>>
  BY <1>0, <1>1 DEF Persists
<1>2. CASE Inserts
  <2>1. PICK row \in UserRow : AddUser(row) /\ RowFits(row)
    BY <1>2 DEF Inserts
  <2>2. last_id' = last_id + 1
    BY <2>1 DEF AddUser
  <2>3. \A i \in Ids : i # last_id + 1 => users'[i] = users[i]
    BY <2>1 DEF AddUser, TypeOK
  <2>4. ~InTable(users, last_id + 1)
    BY <1>0 DEF TypeOK, InTable
  <2>5. ASSUME NEW i \in Ids, i <= last_id \/ InTable(users, i)
        PROVE  users'[i] = users[i]
    BY <1>0, <2>3, <2>4, <2>5
  <2>6. last_id <= last_id'
    BY <1>0, <2>2
  <2>7. ASSUME NEW i \in Ids, i <= last_id, InTable(users', i)
        PROVE  /\ InTable(users, i) /\ users'[i].role = users[i].role
               /\ users'[i].parent_id = users[i].parent_id
    <3>1. users'[i] = users[i]
      BY <2>5, <2>7
    <3> QED BY <2>7, <3>1 DEF InTable
  <2>8. ASSUME NEW i \in Ids, InTable(users, i) PROVE InTable(users', i)
    <3>1. users'[i] = users[i]
      BY <2>5, <2>8
    <3> QED BY <2>8, <3>1 DEF InTable
  <2> QED BY <2>6, <2>7, <2>8 DEF Persists
<1>3. CASE Changes
  BY <1>0, <1>3, AbsentIsNoRow DEF Changes, Persists, InTable, TypeOK, UserRow, Absent
<1>4. CASE Deletes
  <2>1. PICK d \in Ids : /\ InTable(users, d) => users[d].role # "admin"
                         /\ users' = Deleted(d) /\ last_id' = last_id
    BY <1>4 DEF Deletes
  <2>2. ASSUME NEW i \in Ids, InTable(users', i)
        PROVE  /\ InTable(users, i) /\ users'[i].role = users[i].role
               /\ \/ users'[i].parent_id = users[i].parent_id
                  \/ /\ users'[i].parent_id = None
                     /\ ~InTable(users', users[i].parent_id)
    <3>1. i # d /\ users'[i] = IF users[i].parent_id = d
                               THEN [users[i] EXCEPT !.parent_id = None]
                               ELSE users[i]
      BY <2>1, <2>2 DEF Deleted, InTable
    <3>2. users[i] \in UserRow
      BY <2>2, <3>1 DEF TypeOK, InTable, Absent
    <3>3. ~InTable(users', d)
      BY <2>1 DEF Deleted, InTable
    <3> QED BY <3>1, <3>2, <3>3, AbsentIsNoRow DEF InTable, UserRow
  <2>3. \A i \in Ids : InTable(users, i) /\ users[i].role = "admin" =>
          InTable(users', i)
    BY <2>1, AbsentIsNoRow DEF Deleted, InTable, TypeOK, UserRow, Absent
  <2> QED BY <1>0, <2>1, <2>2, <2>3 DEF Persists
<1> QED BY <1>1, <1>2, <1>3, <1>4, UsersSteps

\* The tree keeps its shape: a new row fits, a password has no place in it,
\* and who loses a parent was a sub-agent, for administrators stay.
LEMMA TreeStep ==
  ASSUME TypeOK, TypeOK', JobsFit, ParentsFitRoles, [Next]_vars
  PROVE  ParentsFitRoles'
<1> DEFINE Fit(us) == \A i \in Ids : InTable(us, i) => ParentFits(us, i)
<1>0. Fit(users) /\ (Fit(users') => ParentsFitRoles')
  BY DEF ParentsFitRoles, Accounts, Exists
<1>1. CASE UNCHANGED <<users, last_id>>
  BY <1>0, <1>1
<1>2. CASE Inserts
  <2>1. PICK row \in UserRow : AddUser(row) /\ RowFits(row)
    BY <1>2 DEF Inserts
  <2>2. /\ last_id \in Nat /\ last_id + 1 \in Ids
        /\ users' = [users EXCEPT ![last_id + 1] = row]
    BY <2>1, AddUserType, AccountsAssumption DEF AddUser, TypeOK, Ids
  <2>3. ~InTable(users, last_id + 1)
    BY <2>2 DEF TypeOK, InTable
  <2>4. \A i \in Ids : InTable(users, i) => users'[i] = users[i] /\ InTable(users', i)
    BY <2>2, <2>3 DEF TypeOK, InTable
  <2>5. users'[last_id + 1] = row
    BY <2>2 DEF TypeOK
  <2>6. \A p : InTable(users, p) => p \in Ids
    BY DEF InTable
  <2>7. ParentFits(users', last_id + 1)
    BY <2>1, <2>4, <2>5, <2>6 DEF RowFits, ParentFits
  <2>8. ASSUME NEW i \in Ids, InTable(users', i), i # last_id + 1
        PROVE  ParentFits(users', i)
    <3>1. InTable(users, i) /\ users'[i] = users[i]
      BY <2>2, <2>8 DEF TypeOK, InTable
    <3>2. ParentFits(users, i)
      BY <1>0, <3>1
    <3> QED BY <2>4, <2>6, <3>1, <3>2 DEF ParentFits
  <2> QED BY <1>0, <2>7, <2>8
<1>3. CASE Changes
  <2>1. PICK c \in Ids, password \in Passwords :
          /\ InTable(users, c)
          /\ users' = [users EXCEPT ![c].password = password]
    BY <1>3 DEF Changes
  <2>2. \A i : InTable(users, i) <=> InTable(users', i)
    BY <2>1, AbsentIsNoRow DEF TypeOK, InTable, UserRow
  <2>3. \A i \in Ids : InTable(users, i) =>
          /\ users'[i].role = users[i].role
          /\ users'[i].parent_id = users[i].parent_id
    BY <2>1 DEF TypeOK, InTable, UserRow
  <2>4. ASSUME NEW i \in Ids, InTable(users', i) PROVE ParentFits(users', i)
    <3>1. InTable(users, i) /\ ParentFits(users, i)
      BY <1>0, <2>2, <2>4
    <3>2. \A p : InTable(users, p) => p \in Ids
      BY DEF InTable
    <3> QED BY <2>2, <2>3, <3>1, <3>2 DEF ParentFits
  <2> QED BY <1>0, <2>4
<1>4. CASE Deletes
  <2>1. PICK d \in Ids : /\ InTable(users, d) => users[d].role # "admin"
                         /\ users' = Deleted(d)
    BY <1>4 DEF Deletes
  <2>2. \A i \in Ids : InTable(users', i) =>
          /\ i # d /\ InTable(users, i)
          /\ users'[i].role = users[i].role
          /\ users'[i].parent_id =
               IF users[i].parent_id = d THEN None ELSE users[i].parent_id
    <3> SUFFICES ASSUME NEW i \in Ids, users'[i] # Absent
                 PROVE  /\ i # d /\ users[i] # Absent
                        /\ users'[i].role = users[i].role
                        /\ users'[i].parent_id =
                             IF users[i].parent_id = d THEN None
                             ELSE users[i].parent_id
      BY DEF InTable
    <3>1. i # d
      BY <2>1 DEF Deleted
    <3>2. users'[i] = IF users[i].parent_id = d
                      THEN [users[i] EXCEPT !.parent_id = None] ELSE users[i]
      BY <2>1, <3>1 DEF Deleted
    <3>3. users[i] # Absent
      BY <3>2, AbsentIsNoRow DEF Absent
    <3>4. users[i] \in UserRow
      BY <3>3 DEF TypeOK
    <3> QED BY <3>1, <3>2, <3>3, <3>4 DEF UserRow
  <2>3. \A i \in Ids : InTable(users, i) /\ i # d => InTable(users', i)
    BY <2>1, AbsentIsNoRow DEF Deleted, TypeOK, InTable, UserRow, Absent
  <2>4. ASSUME NEW i \in Ids, InTable(users', i) PROVE ParentFits(users', i)
    <3> DEFINE p == users[i].parent_id
    <3>1. ParentFits(users, i) /\ users[i].role \in Roles
      BY <1>0, <2>2, <2>4 DEF TypeOK, InTable, UserRow
    <3>2. CASE p = d
      <4>1. InTable(users, d) => users[d].role # "admin"
        BY <2>1
      <4>2. d # None
        BY AbsentIsNoRow
      <4>3. users[i].role = "sub_agent"
        BY <3>1, <3>2, <4>1, <4>2 DEF ParentFits, Roles
      <4> QED BY <2>2, <2>4, <3>2, <4>3 DEF ParentFits
    <3>3. CASE p # d
      <4>1. users'[i].parent_id = p /\ users'[i].role = users[i].role
        BY <2>2, <2>4, <3>3
      <4>2. InTable(users, p) => InTable(users', p) /\ users'[p].role = users[p].role
        BY <2>2, <2>3, <3>3 DEF InTable
      <4> HIDE DEF p
      <4>3. QED BY <3>1, <4>1, <4>2 DEF ParentFits, p
    <3> QED BY <3>2, <3>3
  <2> QED BY <1>0, <2>4
<1> QED BY <1>1, <1>2, <1>3, <1>4, UsersSteps

\* What a handler has checked survives the steps of the others.
LEMMA ChecksKeep ==
  ASSUME TypeOK, TypeOK', ParentsFitRoles, ParentsFitRoles', Persists,
         NEW j \in Job, JobFits(users, last_id, j)
  PROVE  JobFits(users', last_id', j)
<1>0. \A i \in Ids : i <= last_id => i <= last_id'
  BY AccountsAssumption DEF TypeOK, Persists, Ids
<1>1. ASSUME NEW user \in SessionUser, Known(users, last_id, user)
      PROVE  Known(users', last_id', user)
  <2>1. user.id \in Ids /\ user.id <= last_id
    BY <1>1 DEF Known, SessionUser
  <2>2. user.id <= last_id'
    BY <1>0, <2>1
  <2>3. InTable(users', user.id) =>
          InTable(users, user.id) /\ users'[user.id].role = users[user.id].role
    BY <2>1 DEF Persists
  <2>4. InTable(users, user.id) /\ users[user.id].role = "admin" =>
          InTable(users', user.id)
    BY <2>1 DEF Persists
  <2> QED BY <1>1, <2>2, <2>3, <2>4 DEF Known
<1>2. ASSUME NEW user \in SessionUser, Known(users, last_id, user),
             NEW i \in Ids, i <= last_id, MayReach(users, user, i)
      PROVE  MayReach(users', user, i)
  <2> SUFFICES ASSUME InTable(users', i)
               PROVE  \/ /\ InTable(users', user.id)
                         /\ can_manage_owner(user, i, users'[i].parent_id)
                      \/ /\ user.role = "agent" /\ ~InTable(users', user.id)
                         /\ users'[i].role = "sub_agent"
                         /\ users'[i].parent_id = None
    BY DEF MayReach
  <2> DEFINE p == users[i].parent_id   q == users'[i].parent_id
  <2>1. /\ InTable(users, i) /\ users'[i].role = users[i].role
        /\ q = p \/ (q = None /\ ~InTable(users', p))
    BY <1>2 DEF Persists
  <2>2. /\ ParentFits(users, i) /\ ParentFits(users', i)
        /\ users[i].role \in Roles
    BY <2>1 DEF ParentsFitRoles, Accounts, Exists, TypeOK, InTable, UserRow
  <2>3. /\ user.id \in Ids /\ user.id <= last_id /\ user.role \in Roles
        /\ InTable(users, user.id) => users[user.id].role = user.role
    BY <1>2 DEF Known, SessionUser
  <2>4. user.id # None
    BY <2>3, AbsentIsNoRow
  <2>5. CASE user.role = "admin"
    <3>1. InTable(users', user.id)
      BY <1>1, <1>2, <2>5 DEF Known
    <3> QED BY <2>5, <3>1 DEF can_manage_owner
  <2>6. CASE user.role # "admin" /\ i = user.id
    BY <2>3, <2>6 DEF can_manage_owner, Roles
  <2>7. CASE /\ user.role = "agent" /\ i # user.id
             /\ InTable(users, user.id) /\ p = user.id
    <3>1. users[i].role = "sub_agent"
      BY <2>2, <2>3, <2>4, <2>7 DEF ParentFits, Roles
    <3>2. CASE q = p
      <4>1. InTable(users', user.id)
        BY <2>1, <2>2, <2>4, <2>7, <3>1, <3>2 DEF ParentFits
      <4> QED BY <2>7, <3>2, <4>1 DEF can_manage_owner
    <3>3. CASE q = None /\ ~InTable(users', p)
      BY <2>1, <2>7, <3>1, <3>3
    <3> QED BY <2>1, <3>2, <3>3
  <2>8. CASE /\ user.role = "agent" /\ ~InTable(users, user.id)
             /\ users[i].role = "sub_agent" /\ p = None
    <3>1. ~InTable(users', user.id)
      BY <2>3, <2>8 DEF Persists
    <3> QED BY <2>1, <2>8, <3>1
  <2>9. \/ InTable(users, user.id) /\ can_manage_owner(user, i, p)
        \/ /\ user.role = "agent" /\ ~InTable(users, user.id)
           /\ users[i].role = "sub_agent" /\ p = None
    BY <1>2, <2>1 DEF MayReach
  <2> QED BY <2>3, <2>5, <2>6, <2>7, <2>8, <2>9 DEF can_manage_owner, Roles
<1>3. CASE j.pc \in {"idle", "session"}
  BY <1>3 DEF JobFits
<1>4. CASE j.pc = "authed"
  BY <1>1, <1>4 DEF JobFits, Job, Resting
<1>5. CASE j.pc = "insert_user"
  <2>1. j.user \in SessionUser /\ j.parent_id \in Ids
    BY <1>5 DEF Job, Resting
  <2>2. InTable(users', j.parent_id) =>
          parent_fits(j.role, users'[j.parent_id].role)
    <3>1. j.parent_id <= last_id
      BY <1>5 DEF JobFits
    <3> QED BY <1>5, <2>1, <3>1 DEF JobFits, Persists
  <2>3. j.parent_id <= last_id /\ Known(users, last_id, j.user)
    BY <1>5 DEF JobFits
  <2>4. j.parent_id <= last_id' /\ Known(users', last_id', j.user)
    BY <1>0, <1>1, <2>1, <2>3
  <2> QED BY <1>5, <2>2, <2>4 DEF JobFits
<1>6. CASE j.pc \in {"password", "children", "keys", "delete"}
  <2>1. j.user \in SessionUser /\ j.id \in Ids
    BY <1>6 DEF Job, Resting
  <2>2. InTable(users', j.id) => users'[j.id].role # "admin"
    BY <1>6, <2>1 DEF JobFits, Persists
  <2>3. /\ j.id <= last_id /\ Known(users, last_id, j.user)
        /\ MayReach(users, j.user, j.id)
    BY <1>6 DEF JobFits
  <2>4. /\ j.id <= last_id' /\ Known(users', last_id', j.user)
        /\ MayReach(users', j.user, j.id)
    BY <1>0, <1>1, <1>2, <2>1, <2>3
  <2> QED BY <1>6, <2>2, <2>4 DEF JobFits
<1>7. CASE j.pc \in {"type", "insert_keys"}
  <2>1. j.user \in SessionUser /\ j.owner \in Ids
    BY <1>7 DEF Job, Resting
  <2>2. /\ j.owner <= last_id /\ Known(users, last_id, j.user)
        /\ MayReach(users, j.user, j.owner)
    BY <1>7 DEF JobFits
  <2>3. /\ j.owner <= last_id' /\ Known(users', last_id', j.user)
        /\ MayReach(users', j.user, j.owner)
    BY <1>0, <1>1, <1>2, <2>1, <2>2
  <2> QED BY <1>7, <2>3 DEF JobFits
<1> QED BY <1>3, <1>4, <1>5, <1>6, <1>7 DEF Job, Resting

\* A row that has just been read and may be managed is within reach.
LEMMA ReachNow ==
  ASSUME TypeOK, ParentsFitRoles, NEW user \in SessionUser,
         Known(users, last_id, user), NEW i \in Ids, Exists(i),
         can_manage_owner(user, i, users[i].parent_id)
  PROVE  i <= last_id /\ MayReach(users, user, i)
<1>1. i <= last_id /\ users[i] \in UserRow /\ ParentFits(users, i)
  BY AccountsAssumption DEF TypeOK, Exists, InTable, ParentsFitRoles, Accounts, Ids
<1>2. users[i].parent_id # None => InTable(users, users[i].parent_id)
  BY <1>1 DEF ParentFits, UserRow, Roles
<1>3. user.id # None
  BY AbsentIsNoRow DEF SessionUser
<1>4. InTable(users, user.id)
  BY <1>2, <1>3 DEF can_manage_owner, Known, Exists
<1> QED BY <1>1, <1>4 DEF MayReach

\* A handler's new job rests on what it has just read, or on its last job.
LEMMA NewJobs ==
  ASSUME TypeOK, ParentsFitRoles, JobsFit, [Next]_vars, NEW g \in Handlers
  PROVE  \/ job'[g] = job[g] \/ job'[g] = Resting
         \/ UNCHANGED <<users, last_id>> /\ JobFits(users, last_id, job'[g])
<1> DEFINE Goal == \/ job'[g] = job[g] \/ job'[g] = Resting
                   \/ /\ UNCHANGED <<users, last_id>>
                      /\ JobFits(users, last_id, job'[g])
<1> SUFFICES Goal
  OBVIOUS
<1>1. ASSUME NEW s \in Servers, StartUp(s) \/ Crash(s) PROVE Goal
  BY <1>1 DEF StartUp, init_database, CountAdmins, InsertAdmin,
     InsertAdminFails, Crash
<1>2. ASSUME NEW h \in Handlers, Handle(h) PROVE Goal
  <2>0. /\ job[h] \in Job /\ JobFits(users, last_id, job[h])
        /\ job \in [Handlers -> Job]
    BY DEF TypeOK, JobsFit
  <2>a. ASSUME Rest(h) PROVE Goal
    BY <2>0, <2>a DEF Rest
  <2>b. ASSUME NEW j, Take(h, j), JobFits(users, last_id, j),
               UNCHANGED <<tables, server>>
        PROVE  Goal
    BY <2>0, <2>b DEF Take, tables
  <2>1. ASSUME NEW i \in Ids, NEW password \in Passwords,
               login_submit(h, i, password)
        PROVE  Goal
    BY <2>1, <2>b DEF login_submit, JobFits
  <2>2. ASSUME NEW t \in Tokens, LoggedIn(h, t) \/ logout(h, t) PROVE Goal
    BY <2>2, <2>a DEF LoggedIn, logout
  <2>3. ASSUME NEW t \in Tokens, from_request_parts(h, t) PROVE Goal
    <3> DEFINE user == session_user(sessions[t])
    <3>1. Exists(sessions[t]) /\ sessions[t] \in Ids /\ user.id = sessions[t]
          /\ user.role = users[sessions[t]].role
      BY <2>3 DEF from_request_parts, Exists, InTable, session_user
    <3>2. sessions[t] <= last_id
      BY <3>1, AccountsAssumption DEF TypeOK, Exists, InTable, Ids
    <3> HIDE DEF user
    <3>3. Known(users, last_id, user)
      BY <3>1, <3>2 DEF Known, Exists
    <3>4. JobFits(users, last_id, [pc |-> "authed", user |-> user])
      BY <3>3 DEF JobFits
    <3> QED BY <2>3, <2>b, <3>4 DEF from_request_parts, user
  <2>4. ASSUME NEW i \in Ids, NEW role \in Roles, CheckParent(h, role, i)
        PROVE  Goal
    <3> DEFINE j == [pc |-> "insert_user", user |-> job[h].user,
                     role |-> role, parent_id |-> i]
    <3>1. Known(users, last_id, job[h].user) /\ Take(h, j)
      BY <2>0, <2>4 DEF CheckParent, JobFits
    <3>2. i <= last_id /\ parent_fits(role, users[i].role)
      BY <2>4, AccountsAssumption
         DEF CheckParent, may_create_under, TypeOK, Exists, InTable, Ids
    <3>3. JobFits(users, last_id, j)
      BY <3>1, <3>2 DEF JobFits
    <3> HIDE DEF j
    <3>4. QED BY <2>4, <2>b, <3>1, <3>3 DEF CheckParent
  <2>5. ASSUME NEW i \in Ids, NEW pc \in {"password", "children"}, Check(h, i, pc)
        PROVE  Goal
    <3> DEFINE j == [pc |-> pc, user |-> job[h].user, id |-> i]
    <3>1. Known(users, last_id, job[h].user) /\ job[h].user \in SessionUser
      BY <2>0, <2>5 DEF Check, JobFits, Job, Resting
    <3>2. /\ Exists(i) /\ users[i].role # "admin"
          /\ can_manage_owner(job[h].user, i, users[i].parent_id)
      BY <2>5 DEF Check, may_change
    <3>3. i <= last_id /\ MayReach(users, job[h].user, i)
      BY <3>1, <3>2, ReachNow
    <3>4. JobFits(users, last_id, j)
      BY <3>1, <3>2, <3>3 DEF JobFits
    <3>5. Take(h, j) /\ UNCHANGED <<tables, server>>
      BY <2>5 DEF Check
    <3> HIDE DEF j
    <3>6. QED BY <2>b, <3>4, <3>5
  <2>6. ASSUME NEW i \in Ids, CheckOwner(h, i) PROVE Goal
    <3> DEFINE j == [pc |-> "type", user |-> job[h].user, owner |-> i]
    <3>1. Known(users, last_id, job[h].user) /\ job[h].user \in SessionUser
      BY <2>0, <2>6 DEF CheckOwner, JobFits, Job, Resting
    <3>2. i <= last_id /\ MayReach(users, job[h].user, i)
      BY <2>6, <3>1, ReachNow DEF CheckOwner
    <3>3. JobFits(users, last_id, j)
      BY <3>1, <3>2 DEF JobFits
    <3>4. Take(h, j) /\ UNCHANGED <<tables, server>>
      BY <2>6 DEF CheckOwner
    <3> HIDE DEF j
    <3>5. QED BY <2>b, <3>3, <3>4
  <2>7. ASSUME CountChildren(h) \/ CountKeys(h) PROVE Goal
    <3>1. job[h].pc \in {"children", "keys"}
      BY <2>7 DEF CountChildren, CountKeys
    <3>2. job[h] \in [pc : {"password", "children", "keys", "delete"},
                      user : SessionUser, id : Ids]
      BY <2>0, <3>1 DEF Job, Resting
    <3>3. \A pc \in {"keys", "delete"} :
            JobFits(users, last_id, [job[h] EXCEPT !.pc = pc])
      BY <2>0, <3>1, <3>2 DEF JobFits
    <3>4. \/ Rest(h)
          \/ \E pc \in {"keys", "delete"} : Take(h, [job[h] EXCEPT !.pc = pc])
      BY <2>7 DEF CountChildren, CountKeys, Take
    <3>5. UNCHANGED <<tables, server>>
      BY <2>7 DEF CountChildren, CountKeys
    <3> QED BY <2>a, <2>b, <3>3, <3>4, <3>5
  <2>8. ASSUME NEW count \in 1 .. MaxBatch, ReadType(h, count) PROVE Goal
    <3> DEFINE j == [pc |-> "insert_keys", user |-> job[h].user,
                     owner |-> job[h].owner, left |-> count]
    <3>1. job[h].pc = "type" /\ Take(h, j) /\ UNCHANGED <<tables, server>>
      BY <2>8 DEF ReadType
    <3>2. JobFits(users, last_id, j)
      BY <2>0, <3>1 DEF JobFits
    <3> HIDE DEF j
    <3>3. QED BY <2>b, <3>1, <3>2
  <2>9. ASSUME NEW k \in Keys, InsertKey(h, k) PROVE Goal
    <3>1. CASE job[h].left = 1
      BY <2>9, <2>a, <3>1 DEF InsertKey
    <3>2. CASE job[h].left # 1
      <4> DEFINE j == [job[h] EXCEPT !.left = job[h].left - 1]
      <4>1. job[h] \in [pc : {"insert_keys"}, user : SessionUser, owner : Ids,
                        left : 1 .. MaxBatch]
        BY <2>0, <2>9 DEF InsertKey, Job, Resting
      <4>2. JobFits(users, last_id, j)
        BY <2>0, <4>1 DEF JobFits
      <4>3. job'[h] = j /\ (g # h => job'[g] = job[g])
            /\ UNCHANGED <<users, last_id>>
        BY <2>0, <2>9, <3>2 DEF InsertKey
      <4> HIDE DEF j
      <4>4. QED BY <4>2, <4>3
    <3> QED BY <3>1, <3>2
  <2>10. ASSUME NEW password \in Passwords,
                \/ WritePassword(h, password)
                \/ \E name \in Names : InsertUser(h, name, password)
         PROVE  Goal
    BY <2>10, <2>a DEF WritePassword, InsertUser
  <2>11. CASE DeleteUser(h) \/ Ends(h)
    BY <2>11, <2>a DEF DeleteUser, Ends
  <2> QED BY <1>2, <2>1, <2>2, <2>3, <2>4, <2>5, <2>6, <2>7, <2>8, <2>9, <2>10,
             <2>11 DEF Handle, CheckPassword, CheckDelete
<1>3. ASSUME NEW t \in Tokens, Expire(t) PROVE Goal
  BY <1>3 DEF Expire
<1>4. CASE UNCHANGED vars
  BY <1>4 DEF vars
<1> QED BY <1>1, <1>2, <1>3, <1>4 DEF Next

\* What each handler's checks are still worth survives every step, of its own
\* and of others.
LEMMA JobsStep ==
  ASSUME TypeOK, TypeOK', ParentsFitRoles, ParentsFitRoles', JobsFit,
         Persists, [Next]_vars
  PROVE  JobsFit'
<1> SUFFICES ASSUME NEW g \in Handlers
             PROVE  JobFits(users', last_id', job'[g])
  BY DEF JobsFit
<1>1. job[g] \in Job /\ JobFits(users, last_id, job[g])
  BY DEF TypeOK, JobsFit
<1>2. CASE job'[g] = job[g]
  BY <1>1, <1>2, ChecksKeep
<1>3. CASE job'[g] = Resting
  BY <1>3 DEF JobFits, Resting
<1>4. CASE UNCHANGED <<users, last_id>> /\ JobFits(users, last_id, job'[g])
  BY <1>4
<1> QED BY <1>2, <1>3, <1>4, NewJobs

\* One administrator at most, whom a server that lost the race of start-ups
\* will find in its way, and one as soon as a server is up.
AdminInv ==
  /\ \A i, j \in Ids :
       InTable(users, i) /\ users[i].role = "admin" /\ InTable(users, j)
         /\ users[j].role = "admin" => i = j
  /\ \A s \in Servers : server[s] = "insert" =>
       \A i \in Ids : InTable(users, i) /\ users[i].role = "admin"
                        => users[i].username = ADMIN_USER
  /\ \A s \in Servers : server[s] = "up" =>
       \E i \in Ids : InTable(users, i) /\ users[i].role = "admin"

AccountsInv == TypeOK /\ ParentsFitRoles /\ JobsFit /\ AdminInv

\* How servers and administrators change together.
LEMMA AdminStep ==
  ASSUME AccountsInv, TypeOK', Persists, [Next]_vars
  PROVE  AdminInv'
<1> USE DEF AccountsInv
<1> DEFINE IsAdmin(us, i) == InTable(us, i) /\ us[i].role = "admin"
<1>0. last_id \in Nat /\ \A i \in Ids : InTable(users, i) => i <= last_id
  BY AccountsAssumption DEF TypeOK, InTable, Ids
<1>1. ASSUME NEW s \in Servers, InsertAdmin(s) PROVE AdminInv'
  <2> DEFINE row == [role |-> "admin", parent_id |-> None,
                     username |-> ADMIN_USER, password |-> ADMIN_PASSWORD]
  <2>1. /\ AddUser(row) /\ server[s] = "insert"
        /\ server' = [server EXCEPT ![s] = "up"]
    BY <1>1 DEF InsertAdmin
  <2>2. row \in UserRow /\ last_id + 1 \in Ids
    BY <2>1, AddUserType, AccountsAssumption DEF UserRow, Roles
  <2>3. \A i \in Ids : ~IsAdmin(users, i)
    BY <2>1 DEF AdminInv, AddUser, NameFree, Accounts, Exists, InTable
  <2>4. /\ users'[last_id + 1] = row
        /\ \A i \in Ids : i # last_id + 1 => users'[i] = users[i]
    BY <2>1, <2>2 DEF AddUser, TypeOK
  <2>5. \A i \in Ids : IsAdmin(users', i) <=> i = last_id + 1
    BY <2>2, <2>3, <2>4, AbsentIsNoRow DEF InTable
  <2>6. users'[last_id + 1].username = ADMIN_USER
    BY <2>4
  <2> HIDE DEF row
  <2>7. QED BY <2>2, <2>5, <2>6 DEF AdminInv
<1>2. ASSUME \A i \in Ids : IsAdmin(users', i) <=> IsAdmin(users, i),
             \A i \in Ids : IsAdmin(users', i) =>
               users'[i].username = users[i].username,
             UNCHANGED server
      PROVE  AdminInv'
  BY <1>2 DEF AdminInv
<1>3. ASSUME NEW s \in Servers, UNCHANGED users,
             \E what \in {"down", "count", "insert", "up"} :
               /\ server' = [server EXCEPT ![s] = what]
               /\ what = "insert" => \A i \in Ids : ~IsAdmin(users, i)
               /\ what = "up" => \E i \in Ids : IsAdmin(users, i)
      PROVE  AdminInv'
  BY <1>3 DEF AdminInv, TypeOK
<1>4. ASSUME NEW s \in Servers, StartUp(s) \/ Crash(s) PROVE AdminInv'
  <2>1. CASE init_database(s) \/ InsertAdminFails(s) \/ Crash(s)
    BY <1>3, <2>1 DEF init_database, InsertAdminFails, Crash, tables
  <2>2. CASE CountAdmins(s)
    <3>1. Administrators = {} <=> \A i \in Ids : ~IsAdmin(users, i)
      BY DEF Administrators, Accounts, Exists
    <3> QED BY <1>3, <2>2, <3>1 DEF CountAdmins, tables
  <2> QED BY <1>1, <1>4, <2>1, <2>2 DEF StartUp
<1>5. ASSUME UNCHANGED server PROVE AdminInv'
  <2>1. CASE UNCHANGED <<users, last_id>>
    BY <1>2, <1>5, <2>1
  <2>2. ASSUME NEW row \in UserRow, AddUser(row), row.role # "admin"
        PROVE  AdminInv'
    <3>1. last_id + 1 \in Ids /\ users'[last_id + 1] = row
          /\ \A i \in Ids : i # last_id + 1 => users'[i] = users[i]
      BY <2>2, AddUserType DEF AddUser, TypeOK
    <3>2. ~InTable(users, last_id + 1)
      BY <1>0, <3>1
    <3>3. \A i \in Ids : IsAdmin(users', i) <=> IsAdmin(users, i)
      BY <2>2, <3>1, <3>2 DEF InTable
    <3>4. \A i \in Ids : IsAdmin(users', i) => users'[i] = users[i]
      BY <3>1, <3>2, <3>3
    <3> QED BY <1>2, <1>5, <3>3, <3>4
  <2>3. CASE Changes
    <3>1. PICK c \in Ids, password \in Passwords :
            /\ InTable(users, c)
            /\ users' = [users EXCEPT ![c].password = password]
      BY <2>3 DEF Changes
    <3>2. \A i \in Ids : InTable(users, i) => users[i] \in UserRow
      BY DEF TypeOK, InTable
    <3>3. \A i \in Ids : InTable(users', i) <=> InTable(users, i)
      BY <3>1, AbsentIsNoRow DEF TypeOK, InTable, UserRow
    <3>4. \A i \in Ids : InTable(users, i) =>
            /\ users'[i].role = users[i].role
            /\ users'[i].username = users[i].username
      BY <3>1, <3>2 DEF TypeOK, UserRow
    <3> QED BY <1>2, <1>5, <3>3, <3>4
  <2>4. CASE Deletes
    <3>1. PICK d \in Ids : /\ InTable(users, d) => users[d].role # "admin"
                           /\ users' = Deleted(d)
      BY <2>4 DEF Deletes
    <3>2. ASSUME NEW i \in Ids, IsAdmin(users', i)
          PROVE  IsAdmin(users, i) /\ users'[i].username = users[i].username
      <4>1. i # d
        BY <3>1, <3>2 DEF Deleted, InTable
      <4>2. users'[i] = IF users[i].parent_id = d
                        THEN [users[i] EXCEPT !.parent_id = None] ELSE users[i]
        BY <3>1, <4>1 DEF Deleted
      <4>3. users[i] # Absent
        BY <3>2, <4>2, AbsentIsNoRow DEF InTable, Absent
      <4>4. users[i] \in UserRow
        BY <4>3 DEF TypeOK
      <4> QED BY <3>2, <4>2, <4>3, <4>4 DEF InTable, UserRow
    <3>3. ASSUME NEW i \in Ids, IsAdmin(users, i) PROVE IsAdmin(users', i)
      <4>1. InTable(users', i) /\ i <= last_id
        BY <1>0, <3>3 DEF Persists
      <4> QED BY <3>3, <4>1 DEF Persists
    <3> QED BY <1>2, <1>5, <3>2, <3>3
  <2>5. CASE Inserts
    BY <1>1, <2>2, <2>5 DEF Inserts
  <2> QED BY <2>1, <2>3, <2>4, <2>5, UsersSteps
<1>6. ASSUME NEW h \in Handlers, Handle(h) PROVE UNCHANGED server
  BY <1>6, CheckType DEF Handle, LoggedIn, logout, WritePassword, InsertUser,
     DeleteUser, InsertKey
<1>7. ASSUME NEW t \in Tokens, Expire(t) PROVE UNCHANGED server
  BY <1>7 DEF Expire
<1> QED BY <1>4, <1>5, <1>6, <1>7 DEF Next, vars

\* The invariant holds of the tables that earlier runs left.
LEMMA InvInit == Init => AccountsInv
<1> SUFFICES ASSUME Init PROVE AccountsInv
  OBVIOUS
<1>1. PICK t \in InitialTables : users = t.users /\ last_id = t.last_id
  BY DEF Init
<1>2. ParentsFitRoles
  BY <1>1, TablesAssumption DEF ParentsFitRoles, Accounts, Exists
<1>3. JobsFit
  BY DEF Init, JobsFit, JobFits, Resting
<1>4. AdminInv
  BY <1>1, TablesAssumption DEF Init, AdminInv
<1> QED BY <1>2, <1>3, <1>4, InitType DEF AccountsInv

\* Every step keeps the invariant, and what handlers remember of accounts.
LEMMA InvStep == AccountsInv /\ [Next]_vars => AccountsInv' /\ Persists
<1> SUFFICES ASSUME AccountsInv, [Next]_vars PROVE AccountsInv' /\ Persists
  OBVIOUS
<1>1. TypeOK'
  BY NextType DEF AccountsInv
<1>2. Persists
  BY <1>1, UsersPersist DEF AccountsInv
<1>3. ParentsFitRoles'
  BY <1>1, TreeStep DEF AccountsInv
<1>4. JobsFit'
  BY <1>1, <1>2, <1>3, JobsStep DEF AccountsInv
<1>5. AdminInv'
  BY <1>1, <1>2, AdminStep
<1> QED BY <1>1, <1>2, <1>3, <1>4, <1>5 DEF AccountsInv

\* The inductive invariant behind the theorems on accounts: the types, the tree,
\* the worth of what create_user's, delete_user's and create_license's checks
\* read, and the administrator.
THEOREM AccountsInvariance == Spec => []AccountsInv
BY InvInit, InvStep, PTL DEF Spec

-----------------------------------------------------------------------------
(* The theorems.                                                           *)

\* However the checks of create_user, delete_user and bootstrap_admin
\* interleave, an agent's parent is an administrator, and a sub-agent's is an
\* agent, or gone.
THEOREM TreeKeepsItsShape == Spec => []ParentsFitRoles
<1>1. AccountsInv => ParentsFitRoles
  BY DEF AccountsInv
<1> QED BY <1>1, AccountsInvariance, PTL

\* No race of start-ups makes two administrators, and no server is up
\* without one.
THEOREM AdministratorIsUnique == Spec => []OneAdministrator
<1>1. ASSUME AccountsInv PROVE OneAdministrator
  <2>1. \A i, j \in Administrators : i = j
    BY <1>1 DEF AccountsInv, AdminInv, Administrators, Accounts, Exists
  <2>2. Cardinality(Administrators) <= 1
    <3>1. CASE Administrators = {}
      BY <3>1, FS_EmptySet
    <3>2. CASE Administrators # {}
      <4>1. PICK a \in Administrators : TRUE
        BY <3>2
      <4>2. Administrators = {a}
        BY <2>1, <4>1
      <4>3. Cardinality({a}) = 1
        BY FS_Singleton
      <4> QED BY <4>2, <4>3
    <3> QED BY <3>1, <3>2
  <2>3. (\E s \in Servers : server[s] = "up") => Administrators # {}
    BY <1>1 DEF AccountsInv, AdminInv, Administrators, Accounts, Exists
  <2> QED BY <2>2, <2>3 DEF OneAdministrator
<1> QED BY <1>1, AccountsInvariance, PTL

\* Only a deletion takes an account away.
LEMMA OthersRemain ==
  ASSUME TypeOK, UNCHANGED <<users, last_id>> \/ Inserts \/ Changes
  PROVE  \A i : InTable(users, i) => InTable(users', i)
<1>1. CASE Inserts
  <2>1. PICK row \in UserRow : AddUser(row)
    BY <1>1 DEF Inserts
  <2>2. row # Absent
    BY AbsentIsNoRow
  <2> QED BY <2>1, <2>2 DEF AddUser, TypeOK, InTable
<1>2. CASE Changes
  BY <1>2, AbsentIsNoRow DEF Changes, TypeOK, InTable, UserRow
<1> QED BY <1>1, <1>2

\* Every statement keeps the foreign keys: create_session and InsertKey want the
\* account, DeleteUser cascades to the sessions and is refused for the keys.
LEMMA NothingOutlivesStep ==
  ASSUME AccountsInv, NothingOutlivesItsAccount, [Next]_vars
  PROVE  NothingOutlivesItsAccount'
<1> DEFINE Kept(us, refs) == \A x \in DOMAIN refs :
                               refs[x] # None => InTable(us, refs[x])
<1>0. /\ TypeOK /\ Kept(users, sessions) /\ Kept(users, owner_id)
      /\ DOMAIN sessions = Tokens /\ DOMAIN owner_id = Keys
  BY DEF AccountsInv, NothingOutlivesItsAccount, TypeOK, Exists
<1>1. ASSUME NEW h \in Handlers, DeleteUser(h)
      PROVE  NothingOutlivesItsAccount'
  <2> DEFINE d == job[h].id
  <2>1. \A i : InTable(users, i) /\ i # d => InTable(users', i)
    BY <1>0, <1>1, AbsentIsNoRow
       DEF DeleteUser, Deleted, TypeOK, InTable, UserRow, Absent
  <2>2. \A k \in Keys : owner_id'[k] = owner_id[k] /\ owner_id[k] # d
    BY <1>1 DEF DeleteUser, Restricted, KeysOf
  <2>3. \A t \in Tokens : sessions'[t] # None =>
          sessions'[t] = sessions[t] /\ sessions[t] # d
    BY <1>1 DEF DeleteUser, Cascaded
  <2> HIDE DEF d
  <2>4. QED BY <1>0, <2>1, <2>2, <2>3 DEF NothingOutlivesItsAccount, Exists
<1>2. ASSUME \A i : InTable(users, i) => InTable(users', i),
             \A t \in Tokens : sessions'[t] \in {sessions[t], None}
                                 \/ InTable(users, sessions'[t]),
             \A k \in Keys : owner_id'[k] = owner_id[k]
                               \/ InTable(users, owner_id'[k])
      PROVE  NothingOutlivesItsAccount'
  BY <1>0, <1>2 DEF NothingOutlivesItsAccount, Exists
<1>3. ASSUME NEW h \in Handlers,
             \/ \E t \in Tokens : LoggedIn(h, t) \/ logout(h, t)
             \/ \E k \in Keys : InsertKey(h, k)
      PROVE  NothingOutlivesItsAccount'
  BY <1>0, <1>2, <1>3 DEF LoggedIn, create_session, logout, InsertKey, TypeOK,
     Exists
<1>4. ASSUME NEW t \in Tokens, Expire(t) PROVE NothingOutlivesItsAccount'
  BY <1>0, <1>2, <1>4 DEF Expire, TypeOK
<1>5. ASSUME UNCHANGED <<sessions, owner_id>>,
             UNCHANGED <<users, last_id>> \/ Inserts \/ Changes
      PROVE  NothingOutlivesItsAccount'
  BY <1>0, <1>2, <1>5, OthersRemain
<1>6. ASSUME NEW s \in Servers, StartUp(s) \/ Crash(s)
      PROVE  NothingOutlivesItsAccount'
  <2>1. UNCHANGED <<sessions, owner_id>>
    BY <1>6 DEF StartUp, init_database, CountAdmins, InsertAdmin,
       InsertAdminFails, Crash, tables
  <2>2. CASE InsertAdmin(s)
    <3> DEFINE row == [role |-> "admin", parent_id |-> None,
                       username |-> ADMIN_USER, password |-> ADMIN_PASSWORD]
    <3>1. row \in UserRow /\ RowFits(row) /\ AddUser(row)
      BY <2>2, AccountsAssumption DEF UserRow, Roles, RowFits, InsertAdmin
    <3> HIDE DEF row
    <3>2. Inserts
      BY <2>2, <3>1 DEF Inserts
    <3> QED BY <1>5, <2>1, <3>2
  <2>3. CASE ~InsertAdmin(s)
    BY <1>5, <1>6, <2>1, <2>3 DEF StartUp, init_database, CountAdmins,
       InsertAdminFails, Crash, tables
  <2> QED BY <2>2, <2>3
<1>7. ASSUME NEW h \in Handlers, NEW password \in Passwords,
             \/ WritePassword(h, password)
             \/ \E name \in Names : InsertUser(h, name, password)
      PROVE  NothingOutlivesItsAccount'
  <2>1. UNCHANGED <<sessions, owner_id>>
    BY <1>7 DEF WritePassword, InsertUser
  <2>2. \A i : InTable(users, i) => InTable(users', i)
    <3>1. CASE WritePassword(h, password)
      <4>1. UNCHANGED <<users, last_id>> \/ Changes
        BY <3>1 DEF WritePassword, Changes, Exists, InTable
      <4> QED BY <1>0, <4>1, OthersRemain
    <3>2. ASSUME NEW name \in Names, InsertUser(h, name, password)
          PROVE  \A i : InTable(users, i) => InTable(users', i)
      <4> DEFINE row == [role |-> job[h].role, parent_id |-> job[h].parent_id,
                         username |-> name, password |-> password]
      <4>1. job[h] \in Job
        BY <1>0 DEF TypeOK
      <4>2. row \in UserRow /\ AddUser(row)
        BY <3>2, <4>1 DEF InsertUser, Job, Resting, UserRow, Roles
      <4> HIDE DEF row
      <4>3. row # Absent
        BY <4>2, AbsentIsNoRow
      <4> QED BY <1>0, <4>2, <4>3 DEF AddUser, TypeOK, InTable
    <3> QED BY <1>7, <3>1, <3>2
  <2> QED BY <1>2, <2>1, <2>2
<1>8. CASE UNCHANGED vars
  BY <1>5, <1>8 DEF vars, tables
<1>9. ASSUME NEW h \in Handlers, Handle(h) PROVE NothingOutlivesItsAccount'
  BY <1>0, <1>1, <1>3, <1>5, <1>7, <1>9, CheckType DEF Handle, tables
<1> QED BY <1>4, <1>6, <1>8, <1>9 DEF Next

\* A deleted account leaves no session and no key behind, whatever was
\* checked before the deletion.
THEOREM NothingOutlives == Spec => []NothingOutlivesItsAccount
<1>1. Init => NothingOutlivesItsAccount
  BY DEF Init, NothingOutlivesItsAccount
<1> QED BY <1>1, AccountsInvariance, NothingOutlivesStep, PTL DEF Spec

\* Every change of an account and every new key is made by a handler whose
\* account exists at that moment and may manage the one it writes to; but
\* for the orphans a deletion makes, and for what an agent deleted in the
\* middle of its handler still does to them.
THEOREM WritesStayAuthorised == Spec => WritesAreAuthorised
<1> DEFINE UsersWrite(i) ==
             \/ Orphaned(i)
             \/ /\ users[i].role # "admin"
                /\ \E h \in Handlers :
                     /\ job[h].pc \in {"password", "delete"} /\ job[h].id = i
                     /\ job'[h] = Resting /\ Authorised(job[h].user, i)
           KeyWrite(k) ==
             /\ owner_id[k] = None
             /\ \E h \in Handlers :
                  /\ job[h].pc = "insert_keys" /\ job'[h] # job[h]
                  /\ Authorised(job[h].user, owner_id'[k])
<1>1. ASSUME AccountsInv, Next, NEW i \in Accounts, users'[i] # users[i]
      PROVE  UsersWrite(i)
  <2>0. /\ TypeOK /\ InTable(users, i) /\ i \in Ids
        /\ last_id \in Nat /\ i <= last_id
    BY <1>1, AccountsAssumption DEF AccountsInv, Accounts, Exists, InTable, TypeOK, Ids
  <2>1. ASSUME NEW row, AddUser(row) PROVE FALSE
    BY <1>1, <2>0, <2>1 DEF AddUser, TypeOK
  <2>2. ASSUME NEW h \in Handlers, NEW password \in Passwords,
               WritePassword(h, password)
        PROVE  UsersWrite(i)
    <3>1. job[h].id = i /\ job[h].pc = "password" /\ job'[h] = Resting
      BY <1>1, <2>0, <2>2 DEF WritePassword, Rest, TypeOK
    <3>2. JobFits(users, last_id, job[h])
      BY <1>1 DEF AccountsInv, JobsFit
    <3> QED BY <2>0, <3>1, <3>2 DEF JobFits, MayReach, Authorised, Exists
  <2>3. ASSUME NEW h \in Handlers, DeleteUser(h) PROVE UsersWrite(i)
    <3>1. job[h].pc = "delete" /\ users' = Deleted(job[h].id) /\ job'[h] = Resting
      BY <2>0, <2>3 DEF DeleteUser, Rest, TypeOK
    <3>2. JobFits(users, last_id, job[h])
      BY <1>1 DEF AccountsInv, JobsFit
    <3>3. CASE job[h].id = i
      BY <2>0, <3>1, <3>2, <3>3 DEF JobFits, MayReach, Authorised, Exists
    <3>4. CASE job[h].id # i
      <4>1. users[i].parent_id = job[h].id
            /\ users'[i] = [users[i] EXCEPT !.parent_id = None]
        BY <1>1, <2>0, <3>1, <3>4 DEF Deleted
      <4>2. job[h].id \in Ids
        BY <2>0, <3>1 DEF TypeOK, Job, Resting
      <4>3. users'[users[i].parent_id] = Absent
        BY <3>1, <4>1, <4>2 DEF Deleted
      <4> QED BY <4>1, <4>3 DEF Orphaned
    <3> QED BY <3>3, <3>4
  <2>4. ASSUME NEW s \in Servers, StartUp(s) \/ Crash(s) PROVE FALSE
    BY <1>1, <2>1, <2>4 DEF StartUp, init_database, CountAdmins, InsertAdmin,
       InsertAdminFails, Crash, tables
  <2>5. ASSUME NEW t \in Tokens, Expire(t) PROVE FALSE
    BY <1>1, <2>5 DEF Expire
  <2>6. ASSUME NEW h \in Handlers, Handle(h) PROVE UsersWrite(i)
    <3>1. CASE UNCHANGED users
      BY <1>1, <3>1
    <3>2. CASE ~UNCHANGED users
      BY <2>0, <2>1, <2>2, <2>3, <2>6, <3>2, CheckType DEF Handle, InsertUser,
         LoggedIn, logout, InsertKey, tables
    <3> QED BY <3>1, <3>2
  <2> QED BY <1>1, <2>4, <2>5, <2>6 DEF Next
<1>2. ASSUME AccountsInv, Next, NEW k \in Keys, owner_id'[k] # owner_id[k]
      PROVE  KeyWrite(k)
  <2>0. TypeOK
    BY <1>2 DEF AccountsInv
  <2>1. ASSUME NEW h \in Handlers, NEW l \in Keys, InsertKey(h, l)
        PROVE  KeyWrite(k)
    <3>1. /\ k = l /\ owner_id[k] = None /\ owner_id'[k] = job[h].owner
          /\ job[h].pc = "insert_keys" /\ Exists(job[h].owner)
      BY <1>2, <2>0, <2>1 DEF InsertKey, TypeOK
    <3>2. job[h] \in [pc : {"insert_keys"}, user : SessionUser, owner : Ids,
                      left : 1 .. MaxBatch]
      BY <2>0, <3>1 DEF TypeOK, Job, Resting
    <3>3. JobFits(users, last_id, job[h])
      BY <1>2 DEF AccountsInv, JobsFit
    <3>4. Authorised(job[h].user, job[h].owner)
      BY <3>1, <3>3 DEF JobFits, MayReach, Authorised, Exists
    <3>5. job'[h] # job[h]
      <4>1. CASE job[h].left = 1
        BY <2>0, <2>1, <3>1, <4>1 DEF InsertKey, Rest, Resting, TypeOK
      <4>2. CASE job[h].left # 1
        <5>1. job'[h] = [job[h] EXCEPT !.left = job[h].left - 1]
          BY <2>0, <2>1, <4>2 DEF InsertKey, TypeOK
        <5>2. job'[h].left = job[h].left - 1
          BY <3>2, <5>1
        <5>3. job[h].left \in Int
          BY <3>2
        <5> QED BY <5>2, <5>3
      <4> QED BY <4>1, <4>2
    <3> QED BY <3>1, <3>4, <3>5
  <2>2. ASSUME NEW h \in Handlers, Handle(h) PROVE KeyWrite(k)
    <3>1. owner_id' # owner_id
      BY <1>2
    <3> HIDE DEF KeyWrite
    <3>2. QED BY <2>0, <2>1, <2>2, <3>1, CheckType DEF Handle, LoggedIn, logout,
              WritePassword, InsertUser, DeleteUser, tables
  <2>3. ASSUME NEW s \in Servers, StartUp(s) \/ Crash(s) PROVE FALSE
    BY <1>2, <2>3 DEF StartUp, init_database, CountAdmins, InsertAdmin,
       InsertAdminFails, Crash, tables
  <2>4. ASSUME NEW t \in Tokens, Expire(t) PROVE FALSE
    BY <1>2, <2>4 DEF Expire
  <2> QED BY <1>2, <2>2, <2>3, <2>4 DEF Next
<1>3. AccountsInv /\ [Next]_vars =>
        [/\ \A i \in Accounts : users'[i] # users[i] => UsersWrite(i)
         /\ \A k \in Keys : owner_id'[k] # owner_id[k] => KeyWrite(k)]_vars
  BY <1>1, <1>2
<1>4. Spec => [][/\ \A i \in Accounts : users'[i] # users[i] => UsersWrite(i)
                 /\ \A k \in Keys : owner_id'[k] # owner_id[k] => KeyWrite(k)]_vars
  BY <1>3, AccountsInvariance, PTL DEF Spec
<1> QED BY <1>4 DEF WritesAreAuthorised

-----------------------------------------------------------------------------
(* The pages.                                                              *)

\* The accounts a page lists are those its reader may manage, whatever SQL
\* and Rust call the roles.
LEMMA VisibleIsManaged ==
  ASSUME TypeOK, NEW u \in Accounts
  PROVE  /\ visible_users(session_user(u)) =
              {i \in Accounts : can_manage_owner(session_user(u), i,
                                                users[i].parent_id)}
         /\ count_visible_users(session_user(u)) =
              Cardinality(visible_users(session_user(u)))
<1>1. /\ session_user(u).id = u /\ session_user(u).role = users[u].role
      /\ users[u].role \in Roles
  BY ReadUser DEF Accounts, session_user, SessionUser
<1>2. CASE users[u].role = "admin"
  BY <1>1, <1>2 DEF visible_users, count_visible_users, can_manage_owner
<1>3. CASE users[u].role = "agent"
  BY <1>1, <1>3 DEF visible_users, count_visible_users, can_manage_owner
<1>4. CASE users[u].role = "sub_agent"
  <2>1. visible_users(session_user(u)) = {u}
    BY <1>1, <1>4 DEF visible_users
  <2>2. {i \in Accounts : can_manage_owner(session_user(u), i, users[i].parent_id)}
          = {u}
    BY <1>1, <1>4 DEF can_manage_owner
  <2>3. count_visible_users(session_user(u)) = 1
    BY <1>1, <1>4 DEF count_visible_users
  <2> QED BY <2>1, <2>2, <2>3, FS_Singleton
<1> QED BY <1>1, <1>2, <1>3, <1>4 DEF Roles

\* Every action and every parent that a page offers is one the handler takes.
LEMMA OfferedIsAccepted ==
  ASSUME TypeOK, NEW u \in Accounts, require_admin_or_agent(session_user(u))
  PROVE  /\ \A i \in offered_actions(session_user(u)) :
               may_change(session_user(u), i)
         /\ parent_options(session_user(u)) =
              {p \in Ids : \E role \in {"agent", "sub_agent"} :
                             may_create_under(session_user(u), role, p)}
<1> DEFINE user == session_user(u)
<1>1. /\ user.id = u /\ user.role = users[u].role
      /\ users[u].role \in {"admin", "agent"} /\ u \in Ids /\ Exists(u)
  BY ReadUser DEF Accounts, session_user, SessionUser, require_admin_or_agent
<1>2. \A i \in visible_users(user) :
        Exists(i) /\ can_manage_owner(user, i, users[i].parent_id)
  BY VisibleIsManaged DEF Accounts
<1>3. \A p \in Ids : Exists(p) <=> p \in Accounts
  BY DEF Accounts
<1>4. ASSUME NEW p \in parent_options(user)
      PROVE  \E role \in {"agent", "sub_agent"} : may_create_under(user, role, p)
  <2>1. /\ p \in visible_users(user) /\ Exists(p)
        /\ user.role = "agent" => p = user.id
        /\ users[p].role \in {"admin", "agent"}
    BY <1>2, <1>4 DEF parent_options
  <2>2. CASE users[p].role = "admin"
    <3>1. user.role = "admin"
      BY <1>1, <2>1, <2>2
    <3> HIDE DEF user
    <3>2. may_create_under(user, "agent", p)
      BY <2>1, <2>2, <3>1, <1>2 DEF may_create_under, parent_fits,
         require_admin_or_agent
    <3> QED BY <3>2
  <2>3. CASE users[p].role = "agent"
    <3>1. user.role \in {"admin", "agent"}
      BY <1>1
    <3> HIDE DEF user
    <3>2. may_create_under(user, "sub_agent", p)
      BY <2>1, <2>3, <3>1, <1>2 DEF may_create_under, parent_fits,
         require_admin_or_agent
    <3> QED BY <3>2
  <2> QED BY <2>1, <2>2, <2>3
<1>5. ASSUME NEW p \in Ids, NEW role \in {"agent", "sub_agent"},
             may_create_under(user, role, p)
      PROVE  p \in parent_options(user)
  <2>1. /\ Exists(p) /\ parent_fits(role, users[p].role)
        /\ user.role = "agent" => p = user.id
    BY <1>5 DEF may_create_under
  <2>2. p \in visible_users(user)
    BY <1>1, <1>3, <2>1 DEF visible_users
  <2>3. users[p].role \in {"admin", "agent"}
    BY <1>5, <2>1 DEF parent_fits
  <2> QED BY <2>1, <2>2, <2>3 DEF parent_options
<1>6. parent_options(user) \subseteq Ids
  BY DEF parent_options, visible_users, Accounts
<1>7. \A i \in offered_actions(user) : may_change(user, i)
  <2>1. require_admin_or_agent(user)
    OBVIOUS
  <2> QED BY <1>2, <2>1 DEF offered_actions, may_change
<1> HIDE DEF user
<1>8. parent_options(user) =
        {p \in Ids : \E role \in {"agent", "sub_agent"} :
                       may_create_under(user, role, p)}
  BY <1>4, <1>5, <1>6
<1> QED BY <1>7, <1>8 DEF user

\* No sub-account is out of sight of an account that is offered to delete
\* its parent, and no account that an agent may delete has any.
LEMMA NothingHiddenBelow ==
  ASSUME TypeOK, ParentsFitRoles, NEW u \in Accounts,
         NEW i \in offered_actions(session_user(u)),
         require_admin_or_agent(session_user(u))
  PROVE  /\ Children(i) \subseteq visible_users(session_user(u))
         /\ session_user(u).role = "agent" => Children(i) = {}
<1> DEFINE user == session_user(u)
<1>1. /\ user.id = u /\ user.role = users[u].role
      /\ users[u].role \in {"admin", "agent"} /\ u \in Ids /\ InTable(users, u)
  BY ReadUser DEF Accounts, Exists, session_user, SessionUser, require_admin_or_agent
<1>2. CASE users[u].role = "admin"
  BY <1>1, <1>2 DEF visible_users, Children
<1>3. CASE users[u].role = "agent"
  <2>1. /\ i \in Ids /\ InTable(users, i)
        /\ i # u /\ users[i].parent_id = u /\ users[i].role # "admin"
    BY <1>1, <1>3 DEF offered_actions, visible_users, Accounts, Exists
  <2>2. ParentFits(users, i) /\ users[i].role \in Roles
    BY <2>1 DEF ParentsFitRoles, Accounts, Exists, TypeOK, InTable, UserRow
  <2>3. users[i].role = "sub_agent"
    BY <1>3, <2>1, <2>2 DEF ParentFits, Roles
  <2>4. ASSUME NEW c \in Children(i) PROVE FALSE
    <3>1. /\ c \in Ids /\ InTable(users, c) /\ users[c].parent_id = i
      BY <2>4 DEF Children, Accounts, Exists
    <3>2. ParentFits(users, c) /\ users[c].role \in Roles
      BY <3>1 DEF ParentsFitRoles, Accounts, Exists, TypeOK, InTable, UserRow
    <3>3. i # None
      BY <2>1, AbsentIsNoRow
    <3> QED BY <2>3, <3>1, <3>2, <3>3 DEF ParentFits, Roles
  <2> QED BY <2>4
<1> QED BY <1>1, <1>2, <1>3

\* Whatever was created and deleted so far: every account sees the accounts
\* it may manage, and is told how many they are; the new password and the
\* parents it is offered will be accepted, and it sees the sub-accounts that
\* keep a deletion from being accepted.
THEOREM PagesMatch == Spec => []PagesMatchRules
<1>1. TypeOK /\ ParentsFitRoles => PagesMatchRules
  BY VisibleIsManaged, OfferedIsAccepted, NothingHiddenBelow DEF PagesMatchRules
<1>2. AccountsInv => TypeOK /\ ParentsFitRoles
  BY DEF AccountsInv
<1> QED BY <1>1, <1>2, AccountsInvariance, PTL
=============================================================================
