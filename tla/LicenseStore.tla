---------------------------- MODULE LicenseStore ----------------------------
(***************************************************************************)
(* The PostgreSQL tables that the licence handlers share, the row lock of  *)
(* SELECT ... FOR UPDATE, the clock both sides read, and the server        *)
(* process that owns the handlers.  Every handler statement that runs      *)
(* outside a transaction commits by itself, so one statement is one step.  *)
(***************************************************************************)
EXTENDS Integers, Sequences, FiniteSets, Auth

CONSTANTS
  Licenses,        \* keys that create_license may generate
  Machines,        \* non-blank machine codes clients send
  Requests,        \* concurrent POST /api/verify handlers
  Handlers,        \* concurrent back-office handlers
  Users,           \* back-office accounts [id, role, parent_id], fixed here
  Created,         \* the keys an earlier run of the server generated
  Owner,           \* [Licenses -> Users]: whom owner_id names, never updated
  Duration,        \* [Licenses -> Nat]: duration_days of the key's type, in
                   \* ticks; 0 is a permanent licence
  Day,             \* the 24 hours of the rebind window, in ticks
  MaxSetting,      \* largest limit update_settings accepts (100 in the code)
  MinInstant,      \* first and last instants a timestamp can hold; a sum
  MaxInstant,      \* beyond them is an error in SQL and a panic in chrono
  MaxTime,         \* bound: the clock stops here
  Faults,          \* subset of FaultKinds that may strike
  None             \* SQL NULL and Rust's Option::None

FaultKinds == {"query", "ack", "cancel", "crash"}

ASSUME StoreAssumption ==
  /\ Day \in Nat \ {0} /\ MaxSetting \in Nat /\ MaxInstant \in Nat
  /\ MinInstant \in Int /\ MinInstant <= 0
  /\ MaxTime \in 0 .. MaxInstant
  /\ Duration \in [Licenses -> Nat]
  /\ Owner \in [Licenses -> Users] /\ Created \subseteq Licenses
  /\ Faults \subseteq FaultKinds
  /\ None \notin Machines \cup Int \cup Requests \cup Licenses

VARIABLES
  licenses,                   \* the licenses table, one row per key
  machine_rebind_logs,        \* per key, its rebind rows in id order
  auto_rebind_limit_per_24h,  \* app_settings row, None before it is inserted
  rowLock,                    \* per key, the request holding FOR UPDATE
  now,                        \* the clock (Utc::now() and NOW())
  up                          \* the server process is accepting requests

storeVars == <<licenses, machine_rebind_logs, auto_rebind_limit_per_24h,
               rowLock, now, up>>

Instant == MinInstant .. MaxInstant
Status  == {"unused", "active", "banned"}
\* A row; status "absent" stands for a key that is not in the table.
Row == [status       : Status \cup {"absent"},
        machine_code : Machines \cup {None},
        activated_at : Instant \cup {None},
        expires_at   : Instant \cup {None}]
Rebind == [created_at : Instant, old : Machines, new : Machines]

NoRow  == [status |-> "absent", machine_code |-> None,
           activated_at |-> None, expires_at |-> None]
NewRow == [NoRow EXCEPT !.status = "unused"]

StoreTypeOK ==
  /\ licenses \in [Licenses -> Row]
  /\ machine_rebind_logs \in [Licenses -> Seq(Rebind)]
  /\ auto_rebind_limit_per_24h \in (0 .. MaxSetting) \cup {None, 1}
  /\ rowLock \in [Licenses -> Requests \cup {None}]
  /\ now \in 0 .. MaxTime
  /\ up \in BOOLEAN

\* The server is down.  Before its first start the database is empty;
\* later it holds the seeded setting and the keys created meanwhile.
StoreInit ==
  /\ licenses = [l \in Licenses |-> IF l \in Created THEN NewRow ELSE NoRow]
  /\ machine_rebind_logs = [l \in Licenses |-> << >>]
  /\ auto_rebind_limit_per_24h = IF Created = {} THEN None ELSE 1
  /\ rowLock = [l \in Licenses |-> None]
  /\ now = 0
  /\ up = FALSE

-----------------------------------------------------------------------------
\* Mutant: SELECT without FOR UPDATE.
Unlocked_plain_select(l) == TRUE
\* An UPDATE of a row waits while a transaction holds it FOR UPDATE, and so
\* does an INSERT whose foreign key points at it.
Unlocked(l) == rowLock[l] = None

\* Mutant: the licence expires one tick early.
Expired_early(row) == row.expires_at # None /\ row.expires_at <= now + 1
Expired(row) == row.expires_at # None /\ row.expires_at <= now

\* Mutant: created_at > NOW() - INTERVAL '24 hours'.
RecentRebinds_strict(l, began_at) ==
  {i \in DOMAIN machine_rebind_logs[l] :
     machine_rebind_logs[l][i].created_at > began_at - Day}
\* SELECT COUNT(*) ... created_at >= NOW() - INTERVAL '24 hours', where
\* NOW() is the instant the transaction began.
RecentRebinds(l, began_at) ==
  {i \in DOMAIN machine_rebind_logs[l] :
     machine_rebind_logs[l][i].created_at >= began_at - Day}

\* Both readers of the setting fall back to 1 when the row is missing.
auto_rebind_limit ==
  IF auto_rebind_limit_per_24h = None THEN 1 ELSE auto_rebind_limit_per_24h

\* Mutant: ON CONFLICT (key) DO UPDATE.
SeedSetting_overwrite == 1
\* init_database's seed row: ON CONFLICT (key) DO NOTHING.
SeedSetting ==
  IF auto_rebind_limit_per_24h = None THEN 1 ELSE auto_rebind_limit_per_24h

Tick ==
  /\ now < MaxTime
  /\ now' = now + 1
  /\ UNCHANGED <<licenses, machine_rebind_logs, auto_rebind_limit_per_24h,
                 rowLock, up>>
=============================================================================
