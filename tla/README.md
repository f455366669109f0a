# A verification project for license-server

license-server is a Rust program (axum, sqlx, PostgreSQL) that sells software
licences: administrators and their agents generate licence keys, clients send a
key and a machine code to `POST /api/verify` and are told whether the key is
valid for that machine. This directory holds TLA+ models of it, translated from
the source, TLC configurations that check them on small instances, and theorems
checked by TLAPS for instances of every size. File names below are relative to
the repository; the Rust modules are in `src/`.

## 1. Inventory of the system

| Component | Code | State | Operations | Here |
|---|---|---|---|---|
| Verify API | `api.rs` | a handler's local variables between two awaits; the row lock its transaction holds | `verify_license(_payload)`, `try_auto_rebind`, `auto_rebind_limit`, `log_verify` | `VerifyApi`, `LicenseHistory` |
| Licence administration | `admin.rs` | what a handler read and is about to write | `ban_license` (ban, unban), `unbind_license`, `adjust_license_time`, `adjust_licenses_time`, `update_settings`, `create_license`, `create_license_type` | `LicenseAdmin`, `LicenseViews` |
| Licence store | `db.rs`, PostgreSQL | `licenses`, `license_types`, `machine_rebind_logs`, `verify_logs`, `app_settings`, row locks, clock | autocommitted statements, one transaction with `FOR UPDATE` | `LicenseStore`, `LicenseViews` |
| Server lifecycle | `main.rs` | running or not; the connection pool | start (`init_database`, `bootstrap_admin`), crash | `LicenseService`, `ConnectionPool`, `Accounts` |
| Authorisation rule | `auth.rs` | none | `can_manage_owner` | `Auth` |
| Accounts | `admin.rs`, `auth.rs` | `users`; what a handler has checked | `create_user`, `update_user_password`, `delete_user`, `visible_users`, `count_visible_users`, `bootstrap_admin` | `Accounts` |
| Sessions and login | `auth.rs`, `admin.rs` | `sessions` | `login_submit`, `create_session`, `logout`, `AuthUser` | `Accounts` |
| Back-office views | `admin.rs` | none (queries) | dashboard counts, online page, filters, status rendering, offered actions | `LicenseViews`, `Accounts` (partly) |
| Envelope | `crypto.rs`, `config.rs`, `api.rs` | keys | `from_env`, `encrypt_json`, `decrypt_json`, API key check, `encrypted_response` | `Envelope` |
| Example client | `examples/encrypted_client.rs` | none | one run | `Envelope` |
| HTML, row types, container files | `html.rs`, `models.rs`, Docker files | none | formatting | left out |

The components meet only in the database. No handler keeps anything in memory
from one request to the next, there is no lock in the process, and every
statement outside `try_auto_rebind` commits by itself. So nearly all the
difficulty is in what happens between two statements of a handler: another
client, an administrator, the clock, a disconnect or the end of the process.
What makes each component correct:

* Verify API: "valid" only for a licence that was usable and bound to this
  machine during the request; no activation, binding or rebind on a licence
  that is banned or was taken by another machine in the meantime; at most as
  many rebinds per 24 hours as the limit allows; every request answered, although
  handlers wait for rows with a connection in hand.
* Licence administration: an operation works on the licence it checked; no
  adjustment is lost; a row's fields stay consistent with each other whatever
  the order of operations.
* Store and lifecycle: the row lock makes what the rebind transaction read
  stable; restarts keep the settings; however the handlers interleave, the
  tables change as if each operation were one step.
* Accounts and sessions: the tree of administrator, agents and sub-agents keeps
  its shape; every write is made for an account that still exists and may make
  it; nothing outlives a deleted account; every server that starts finds or
  makes exactly one administrator.
* Views: the list, its filters, the global adjustment and the replies to clients
  agree on who is banned and who has expired; what a page offers the handlers
  accept, or the page shows what is in the way.
* Envelope: whatever happens on the way, a verdict that is printed is one that
  a server sealed, and only installations that were given the keys take the licence.

The list `hazards` of `PROJECT.json` places each hard behaviour at its line and
names the properties aimed at it.

## 2. Modules

| Module | What it is |
|---|---|
| `Auth` | `can_manage_owner` and the roles |
| `LicenseStore` | tables, row lock, clock, process flag; the constants and their assumptions |
| `VerifyApi` | the verify handler, one action per database statement |
| `LicenseAdmin` | the back-office operations on licences |
| `LicenseService` | the composition with clock, start, crash (`Spec`); safety and action properties over the program's own state |
| `LicenseHistory` | the composition with history variables (`HSpec`), the properties that speak of the past, and the refinement `ImplementsRegistry` |
| `LicenseRegistry` | the abstract specification: licences whose operations are atomic |
| `LicenseViews` | on top of `LicenseHistory` (`WSpec`): verify logs, licence types, what the pages of the back office show |
| `ConnectionPool` | `LicenseService` over a pool of connections (`PFairSpec`); the liveness properties |
| `Accounts` | users, sessions, owners of keys, start-up of several servers |
| `Envelope` | both ends of `POST /api/verify`: client, connection, sealing, configuration |
| `DocumentedClaims` | statements of the documentation that the code does not keep |
| `MCService`, `MCHistory`, `MCViews`, `MCPool`, `MCAccounts`, `MCEnvelope` | values of the constants for TLC |
| `LicenseProofs` | theorems about `LicenseService`: types, lock, dating, bans, logged moves |
| `RegistryProofs` | the life of a licence; the server implements `LicenseRegistry` |
| `HistoryProofs` | setting, rebind window, adjustments |
| `VerdictProofs` | what clients are told |
| `PoolProofs` | theorems about `ConnectionPool` |
| `ViewProofs` | theorems about `LicenseViews` |
| `AccountProofs` | theorems about `Accounts` |
| `EnvelopeProofs` | theorems about `Envelope` |

Composition: `LicenseService` puts `LicenseStore`, `VerifyApi` and `LicenseAdmin`
together; `LicenseHistory`, `LicenseViews` and `ConnectionPool` extend it and change no
behaviour of its tables (the pool only delays steps, the views only watch, and
`create_license` finds the type it asks for). `Accounts` and `Envelope` stand beside
it: they meet the rest through an account's id in `licenses.owner_id`, and through
the verdict of `verify_license_payload`. `Auth` is shared.

### Licences: state and steps

`licenses` maps each possible key to its row; a key that is not in the table has
status `"absent"`. `machine_rebind_logs` keeps, per key, the rows in the order of
insertion. Keys, machine codes, requests and handlers are model values, times
are integers. `Created` are the keys that an earlier run of the server generated:
the initial table holds them unused.

A verify request is a record in `req`: `pc` names the statement it issues next,
and the other fields are the local variables alive at that point (`row` is what
the first SELECT read, `at` is `Utc::now()` or the instant of `BEGIN`). The
actions follow the source in order:

    Receive -> Fetch -> Refuse ------------------------------> LogVerify -> Finish
                     -> Accept ------------------------------>    "
                     -> StartActivation -> Claim ------------>    "
                     -> StartBind       -> ClaimMisses -> Reread  "
                     -> StartRebind -> Begin -> Lock -> ReadLimit -> CountRecent -> Commit

`Claim` is the conditional UPDATE of the activation or of the binding: the WHERE
clause is `activation_selects` or `binding_selects`, evaluated on the row of that
moment. `Lock` is `SELECT ... FOR UPDATE`: it waits for the holder, and only a
row that matches `status = 'active'` is locked or waited for. The writes of the
transaction become visible at COMMIT only, and no other statement may change a
locked row, so UPDATE, INSERT and COMMIT are the one step `Commit`; the two
early returns right after the lock release it in the same step. UPDATEs of the
row and INSERTs whose foreign key points at it wait for the lock (`Unlocked`);
the log row of an unknown key has a NULL there and does not wait.
Failures: `QueryFails` (a statement fails without effect; the reply is "error",
without a log row, except that a failing `log_verify` is ignored), `AckLost` (the
write commits and the connection is lost before the answer), `Cancel` (the client
disconnects and the handler's future is dropped: its transaction rolls back).
A statement that takes effect after its handler was dropped is the same as its
effect followed by `Cancel`.

A back-office handler is a job in `adm`. `ban_license`, `unbind_license` and
`adjust_license_time` read the licence, check, and then update by id whatever the
row has become: two steps, with everything else in between. The status that
"unban" will write is computed at the read. `adjust_licenses_time` is one UPDATE:
the first step takes its snapshot (rows and `NOW()`), the second applies it, the
WHERE clause evaluated again on the rows found. `update_settings` is one upsert.
`create_license` inserts one key per step. Here accounts are fixed and whoever may
do an operation according to `can_manage_owner` may do it; how accounts come and go
is in `Accounts`.

`Boot` is `main` up to `axum::serve`, with the seeding of the setting; `Crash`
drops every handler and lock and keeps the tables.

### The abstract registry

`LicenseRegistry` has no handlers, locks or crashes: create, activate once, bind,
move within the quota, unbind, ban, shift the expiry, each one atomic step that is
allowed by the row of that very moment. `ImplementsRegistry` maps the tables to themselves
and the registry's `quota` to the history variable `peak`, the largest limit so far,
and says that every step of the server, reads, waits, crashes and lost
acknowledgements included, is such an operation or changes nothing.
There is no "unban" in the registry: that operation does not refine to an atomic one
(finding `second_activation`).

### Views

`verify_logs` holds the rows of result "valid", the only ones any page reads, as a set
of (machine, instant) per licence; `license_types` holds the durations that exist. A log
row's `created_at` is `DEFAULT NOW()`, the start of its INSERT, which may then wait for the
licence's row: `decided_at` keeps when a request had its verdict, and the row may bear any
instant from there to the moment it gets through. SQL
decides the filters and counts, Rust the status a row is shown with and the verdict a
client gets; each is an operator of its own, translated from its own lines, and
`PagesAgree` compares them in every reachable state.

### The pool

`conn` is the set of handlers that hold a connection. `Acquire` takes one for the next
statement, `Returned` gives it back after it, except between BEGIN and COMMIT; a statement
that waits for a row waits with its connection. A back-office handler's first
statement takes and returns its connection in one step (it never waits for a row).
`WaitsForRow` and `CanGoOn` say who of them is stopped by a row lock and who is not.

### Accounts

`users` maps ids to rows, `last_id` is the sequence behind them, `sessions` maps tokens
to accounts, `owner_id` keys to accounts. A handler in `job` keeps the account it acts
for (`SessionUser`, read once by `AuthUser`) and what its checks established; each
statement is a step, and the constraints of the schema are part of the
statements: `AddUser` wants a free name and an existing parent, `Deleted` sets the children's
`parent_id` to NULL, `Restricted` refuses while keys point at the account, `Cascaded` drops
its sessions. Several server processes share the database, each with `init_database`,
the count and the INSERT of `bootstrap_admin` as steps. `Ends` is every reply, refusal,
failure or disconnect that writes nothing more.

### Envelope

An HTTP exchange goes from `Run` (seal, header, send) through `RefuseRequest` or `Verify`
and `encrypted_response` to `Receive`; `Break`, `Crash` and a restart with another
configuration may come anywhere. `Damage` leaves a payload that does not open under any key;
`Mistake` delivers an earlier genuine reply, of another run or another client, in the
place of this one. Cryptography is symbolic: a packing whose tag fits is its key and its plaintext
(the nonce is random and distinguishes nothing that is checked). Verification itself is any verdict,
in one step: "valid" binds the licence or finds it bound, an error may come
after the write, and which verdict it is and why is the subject of `VerifyApi`.

### Deliberate abstractions

* In `VerifyApi`, `verify_logs` is the flag `logged` of the request that would write the row.
* `MinInstant` and `MaxInstant` stand for the ends of both chrono's and
  PostgreSQL's ranges: a sum beyond them panics in the handler and is an error
  in SQL. The program's two ranges differ, but both are far from any real date.
* `Day` is the 24 hours of the rebind window in ticks (and, in `LicenseViews`, the
  calendar day, UTC), `Hour` the hour of the online page, `MaxSetting` the 100 of
  `update_settings`, `MaxHours` the 87600 of `validate_adjust_hours`, `MaxBatch` the 100 keys
  of `create_license`. The limit is an integer: what `update_settings` stores always parses.
* Blank inputs are `ReceiveBlank`; other machine codes and keys are compared as
  they come, so model values are enough.
* A password hash is the password it verifies; a session expires at any moment
  (`Expire`), after which no statement selects its row, so it counts as gone.
* IP address, remark, wording of messages, type names and HTML are left out.

## 3. Checks

Each run asks one question. All passing runs check deadlock freedom as well.

| Run | Instance | What it shows |
|---|---|---|
| `clients` | 3 requests, 2 machines, 1 timed key; failing queries, lost acknowledgements, disconnects | `HistoryTypeOK`; `LockedRowIsFresh`; `ValidWasEntitled`; `MismatchHadRival`; `RefusalHadCause`; `BindingMovesAreLogged`; `FirstActivationSticks`; `ImplementsRegistry` |
| `moderation` | 2 requests, 1 agent's handler: ban, unban, unbind; lost acknowledgements, disconnects; the clock stands still | `ActivatedRowsAreDated`; `ValidWasEntitled`; `ClientsLeaveBannedAlone` |
| `adjustments` | 1 request, 2 administrators: single and global adjustment by -1, 1 (0 and 2 are refused), unbind; the end of the calendar in reach | `NoAdjustmentIsLost`; `UnusedIsUntouched`; `FirstActivationSticks`; `ImplementsRegistry` |
| `rebinds` | 2 requests, 3 machines, window of 1 tick in 4 instants, limit moving between 0, 1 and 2 (-1 and 3 are refused) | `RebindWindow` |
| `restarts` | empty database; types of 1 and 2 days (-1 is refused), a key created, bans, settings, 1 request, crashes, failing queries, dropped handlers; 4 instants, days of 2 and hours of 1 | `ViewsTypeOK`; `PagesAgree`; `OnlineWereHolders`; `SettingIsTheLastSubmitted`; `RefusalHadCause`; `ImplementsRegistry` |
| `pooled` | 2 requests and 1 back-office handler over 2 connections; failing queries, disconnects, crashes and restarts, under `PFairSpec` | `NoCircularWait`; `EveryRequestAnswered`; `EveryWriteLands` |
| `accounts` | 2 servers, one of which crashes, one handler on each; 3 account ids, 3 names, 1 session, 1 key; from an empty database, one with an agent, one with a sub-agent as well; under `FairSpec` | `TypeOK`; `ParentsFitRoles`; `OneAdministrator`; `NothingOutlivesItsAccount`; `PagesMatchRules`; `WritesAreAuthorised`; `EveryServerStarts` |
| `envelope` | 4 installations (one that is served, a blank machine code, another API key, a short AES key), 5 configurations (the original, one with the other API key and another client key, a rotated server key, two that `from_env` refuses) | `EnvelopeTypeOK`; `PrintedWasSealed`; `HoldersAreKnown`; `RepliesCanBeSealed` |

Bounds. Two requests are enough for every race between a read and a write of
one licence; the third request of `clients` makes a transaction, the machine it
displaces and a newcomer meet. Rows of different keys interact only through the
global adjustment and the setting, so one key serves. Three machines let a licence
move away and to a third one. The keys belong to a
sub-agent; its agent and the administrator manage them, and in `moderation` there is no
administrator. Except in `moderation` and `pooled`, time can move between any two
steps, and `rebinds` has instants strictly inside, at the edge of and outside the window.
`restarts` reaches instants at which a licence expires exactly now, online pages across
midnight, and licences that are banned or rebound while they are shown. In `pooled`, two
connections for three handlers is the smallest pool in which a rebind can hold the row
while another handler waits for it with the last connection. In `accounts` three ids are
an administrator, an agent and a sub-agent; the sequence stops there, so a deleted
account cannot be replaced without end, but from two accounts one is deleted and another
made. In `envelope` the client with the other API key knows a client key of the first
configuration, so that only both keys together keep it out, and replies sealed with the old and
with the rotated server key exist for all served clients. `MaxTime` stops the clock, handler
slots are reused, so requests follow each other without a bound on their number.

Properties that hold only without some operation say so, and the excluded case
is a finding: "unban" can turn an activated licence back to unused (below), so
`UnusedIsUntouched`, `FirstActivationSticks`, `NoAdjustmentIsLost` and
`ImplementsRegistry` are checked without it. `RefusalHadCause` is checked without "unban" and
without adjustments because a handler compares a fetched expiry with a later clock, so
"expired" may be said of a licence that was extended, or activated a second time, before it
expired; `restarts` is the run in which a key may not exist yet, a ban may come and the clock moves.
`MismatchHadRival` is checked without administrators: when a licence is banned in the
middle of a first verification, no row is updated, the machine found is NULL, and the
client is told "machine_mismatch" of a licence that no machine holds (`api.rs:346`).
`WritesAreAuthorised` excepts the orphaning itself, the subject of the finding `orphan`, and
one more case: an agent that is deleted in the middle of its own handler still writes to
a sub-agent that its deletion left without a parent. No other account, and no administrator, falls
under that exception.

`NoAdjustmentIsLost` compares the expiry with `credit`, the sum of the hours that were
submitted and accepted, each at the moment its UPDATE selected the row: it says nothing of what
the row changed by, so a write that swallowed another administrator's hours would show.

Fairness. `pooled`: a handler that can go on without waiting is polled by Tokio: weak
fairness of its next step. The pool's semaphore and PostgreSQL's lock queue serve in order
of arrival, and connections and rows are free again and again as their holders finish:
strong fairness of `Acquire` and of the statements that wait for a row (`Lock`, `LogVerify`, the
back-office writes). Requests, administrators, faults and the clock owe nothing, and
the claim is about single rows: nothing is said of the global UPDATE, which needs several rows
at once. `accounts`: a process that was started goes on, and the container's restart policy
(`docker-compose.yml`) starts one that ended: weak fairness of `StartUp(s)`; a server
that crashes again and again is excepted in the property itself.

### Findings

Four runs expect a violation; each checks one statement of the repository.

| Run | Statement | What the code does |
|---|---|---|
| `stale_unbind` | `admin.rs:903` a banned licence cannot be unbound | check and UPDATE are separate; a ban in between is ignored |
| `second_activation` | `admin.rs:122` the expiry counts from the first verification | an "unban" decided before the first activation makes the activated licence unused again; after an unbinding it is activated anew |
| `reply_expiry` | `admin.rs:122` again | the loser of a race of one machine answers an expiry that was never stored |
| `orphan` | `admin.rs:459` an account with sub-agents cannot be deleted; `db.rs:4` a sub-agent's parent is an agent | a sub-agent inserted between the count and the DELETE is left without a parent |

Other things the models showed, where no document settles who is right or the text of
the code alone settles it; they have no run:

* A ban in the middle of a first verification is answered as a mismatch (above).
* `create_license_type` refuses only negative days, and `Utc::now() + Duration::days(n)`
  (`api.rs:298`) panics for an `n` beyond chrono's range: the handler ends without a reply
  (`Overflows`, pc "panicked").
* The comment at `api.rs:301` says that after the activation only the same machine can
  go on verifying; automatic rebinding lets another one pass.
* `README.md:10` says that every verification is recorded; one that ends in a
  database error returns before `log_verify` (`api.rs:100`), and `log_verify` ignores its
  own failure (`api.rs:408`).
* The dashboard's "有效卡密" (valid keys, `admin.rs:113`) counts status 'active', expired
  licences included, which the list shows as "已到期" (`admin.rs:1378`). `PagesAgree`
  leaves this number out, and compares the list, the filters, the global adjustment and the reply.
* Nothing in a reply names the request it answers, and the example client compares nothing
  (`encrypted_client.rs:59`): what it prints was sealed by a server with the right key,
  but possibly for an earlier run or for another client. `PrintedWasSealed` claims no more.
* `users_page` offers the deletion of every managed account (`admin.rs:265`), and
  `delete_user` refuses those with sub-accounts or keys (`admin.rs:458`). `PagesMatchRules` says that
  the sub-accounts in the way are on the same page; the keys are on another.
* `types_page` shows the form for a new type to every role, though
  `create_license_type` accepts only administrators.

## 4. Proofs

Every safety property that a passing run checks is also a theorem, for every value of
the constants that satisfies the named assumptions: any number of requests, handlers,
machines, keys, accounts, clients, connections, every clock bound, all faults. What a
property needs to be left out of the operations ("unban", ...) is a hypothesis of its
theorem and stated below; everything else holds with all of them.

Assumptions (TLC evaluates each on the instances): `StoreAssumption`,
`VerifyAssumption`, `AdminAssumption`, `AccountsAssumption`, `TablesAssumption`, and three
that say what the code has anyway: `PoolAssumption` (a request's handler and a
back-office handler are not the same task), `ViewsAssumption` (days of types and the
hour are integers), `EnvelopeAssumption` (environments are made of keys with a length; None is no
configuration, client, machine or verdict). None of them needs a set of requests,
keys, machines or accounts to be finite.

    LicenseProofs <- RegistryProofs <- HistoryProofs <- VerdictProofs <- ViewProofs
    LicenseProofs <- PoolProofs        AccountProofs        EnvelopeProofs

The lemmas `HistoryIsAuxiliary` (`HSpec => Spec`), `PoolOnlyDelays` (`PSpec => Spec`) and
`PagesOnlyRead` (`WSpec => HSpec`) hold by the way these specifications are put together; they carry what is proved of the server to
the compositions around it.

### The server (`LicenseProofs`)

1. `TypeCorrect`: `Spec => []TypeOK`. `TypeOK` includes `WellFormed`, what a handler
   has at hand at each step; without it the types of a verdict or of a rebind row
   would not follow.
2. `LockedRowsAreFresh`: `LockedRowIsFresh` is inductive relative to `TypeOK`. Its
   first part ties the lock to the one transaction that works on the row, so every
   other action either does not touch the row or is stopped by `Unlocked`; its
   second part is then preserved step by step. The count found below the limit
   stays below it because only the lock's holder appends to the row's log and the
   transaction's `NOW()` does not move.
3. `ClientsNeverTouchBanned`: each client write is guarded by its WHERE clause,
   except the rebind's, which updates by id alone; there the theorem rests on 2.
4. `MovesAreLogged`: activation and binding need `machine_code IS NULL`,
   administrators only clear it, and by 2 the rebind's log row names the machine
   the row really holds.
5. `ActivationsAreDated`: `ActivatedRowsAreDated` alone is not inductive, because a
   handler may write what it computed from an old row. `DatingInv` (`DatingCorrect`)
   adds `DatesAhead`: what a request has fetched, computed or prepared, and the status
   an "unban" is about to restore, agree with the dating rules. The lemma `Kept` says
   that a licence once activated stays so in every step, which makes old reads harmless.

### The registry (`RegistryProofs`, without "unban")

1. `LifeCorrect`: `LifeInv` ties the status of a row to its other fields (`RowLife`),
   and with it what handlers hold: an administrator's job only bans, works on a licence
   that exists and shifts by an amount that was accepted; an expiry about to be written
   is its type's days after a moment that is past. `UnusedIsUntouched` is a part of
   it and would not be inductive without the rest.
2. `UnusedStaysUntouched`, `ActivationIsFinal`: from `LifeInv`. An activation finds a row that is
   unused, therefore without a date; no other write sets one.
3. `ServerImplementsRegistry`: the refinement, step by step. A step that
   changes a row is the claim of an activation or binding, the commit of a rebind, or one
   of the administrators' writes; each is shown to be the registry's operation on the row of that moment:
   the activation by `LifeInv`, the rebind by `LockedRowIsFresh` (its machine and
   count are still the row's) and `QuotaInv` (`QuotaCorrect`: the limit it read is not above
   the largest so far), the rest by their WHERE clauses. All other steps stutter.

### What the past decides (`HistoryProofs`)

1. `SettingsSurvive`: `SettingInv` is stronger than the property: the limit is the
   submitted one while the server is down as well, so a crash between anything and
   the seeding of `init_database` does no harm.
2. `RebindsAreLimited`: `RebindWindow` is inductive relative to `QuotaInv` and
   `LockedRowIsFresh`. Instants in the log need not be in order. A window that
   holds the new entry reaches back at most a day before it, so its other entries
   were among those the transaction counted; a window that does not is as before.
3. `AdjustmentsAreKept` (without "unban"): `CreditInv` adds that a licence never
   activated has no adjustments, because those touch only rows with an expiry (`LifeInv`).
   `AdjustedRow` says that an UPDATE that selects a row moves it by the accepted hours,
   `ExpiryMoves` that no other step of anyone moves an expiry once it is set, so
   no write from an old read takes an adjustment back.
4. `HistoryTypeCorrect`: the sums are integers because the hours of a job are (`HoursAreWhole`).

### Verdicts (`VerdictProofs`)

1. `StepsAreWitnessed`: `WitnessInv` says of every program counter what the handler has
   met: what it fetched it has seen, past the decision it has seen the licence
   usable, before a rebind it has seen the rival. The part that is hard to get right is
   the row that becomes the handler's own while it waits, through another request of
   the same machine: whoever makes it so makes it so on a licence that is not banned.
   `ValidIsEntitled` follows, with all operations, and so does `BansAndAbsencesAreTrue`,
   the part of `RefusalHadCause` about "invalid" and "banned".
2. `RefusalsHaveCauses` (without "unban", "adjust", "adjust_all"): `RefusalInv`
   adds that the expiry that a handler fetched is still the row's, which needs
   `LifeInv` and `JobsInUse` (`JobsAreInUse`: a handler works only on operations in
   use). The runs `clients` and `restarts` check it with a moving clock. The hypothesis is
   needed: with "unban", a moving clock and two administrators' handlers, TLC finds a licence
   activated a second time whose expiry is later than the one that a waiting handler
   compares with the clock.
3. `MismatchesHaveRivals` (without "ban" and "unbind", with all else): `BoundInv`,
   an activated licence is always bound, and `RivalInv`, so the loser of a race finds
   another machine in the row when it reads it again.

### Pool and pages

1. `NobodyWaitsInACircle`: `PoolInv` says that a transaction has its connection from
   BEGIN on, not only once it holds the row, and that `conn` is finite. If the last
   connection is taken and its holder waits for a row, that row has a holder
   (`WaitsForHolder`), a transaction that by `LockedRowIsFresh` is past its lock and waits for nothing
   more, and by `PoolInv` it has its connection already (`HolderGoesOn`).
2. `ViewsTypeCorrect`, with what "valid" in a log row implies of its request.
3. `PagesTellTheTruth`: `WordsAgree` takes the Rust and the SQL of one row side by side, the
   CHECK on `licenses.status` and the NULL of a permanent licence included.
4. `OnlineUsersWereHolders` (without "unban"): `HolderInv` adds to the log's rows the
   requests that are about to write one (`Held`), and that an activation is never later
   than a verdict that followed it (`DecidedLater`), although the row is written after both.

### Accounts (`AccountProofs`)

The proofs hold for all initial tables that satisfy `TablesAssumption`: the accounts
have their places in the tree and there is one administrator at most, as earlier
runs of the same program leave them (the theorems themselves say that it does).

1. `AccountsTypeCorrect`: `Spec => []TypeOK`, with no row beyond the sequence.
2. `AccountsInvariance`: the inductive invariant is
   `AccountsInv == TypeOK /\ ParentsFitRoles /\ JobsFit /\ AdminInv`.
   `ParentsFitRoles` alone is not inductive, because `create_user` inserts
   under a parent it read statements ago. `JobsFit` says what the checks of a
   handler are still worth: the account it acts for, and the one it works on,
   either are what they were or are gone. That survives the steps of the others
   by `Persists`: ids are not used again, a role never changes, a parent only to NULL,
   and administrators are not deleted. `AdminInv` adds that a server that lost
   the race of start-ups finds the administrator's name taken.
3. `TreeKeepsItsShape`, `AdministratorIsUnique`, `WritesStayAuthorised`: from the
   invariant. A row that a handler still reaches has the parent it had when it
   was checked, or none. `MayReach` tells these apart: as long as the handler's own account is there,
   `can_manage_owner` still holds (an administrator needs no parent, an agent's sub-agents
   lose theirs only with the agent); once it is gone, it was an agent, and what it reaches an orphan.
4. `NothingOutlives`: inductive with 2. A login or a key that was checked
   before the deletion is stopped by its foreign key, a deletion by the keys
   that came after its count.
5. `PagesMatch`: the two ways to decide agree on every typed table; that nobody
   has sub-accounts that its manager does not see (`NothingHiddenBelow`) needs `ParentsFitRoles`.

### Envelope (`EnvelopeProofs`)

`EnvelopeCorrect`: the inductive invariant is `TypeInv /\ EnvelopeInv`. `Honest` says that a
request that is not damaged is its client's own, and a reply that is not damaged is one of
`replies`, even if another was meant to arrive. A configuration in force has passed
`keys_valid`, so no reply fails to be sealed. `PrintedIsSealed`, `HoldersAreInstalled`,
`RepliesAreSealed` and `EnvelopeTypeCorrect` follow. That nobody makes a packing without
its key is the assumption of the symbolic model, not a result.

### Only model-checked

TLC checked every invariant above on small instances before it was proved. What
stays with TLC: liveness (`EveryRequestAnswered`, `EveryWriteLands`, `EveryServerStarts`),
because the prover handles neither liveness under fairness nor ENABLED, and the four
counterexamples of the findings. Nothing here needed induction over data.

## 5. What is not modelled

* Formatting: `html.rs`, page layout, message texts, cookie
  syntax, the logging of the server.
* Row types (`models.rs`) beyond the four that travel between components
  (`SessionUser`, `VerifyRequest`, `VerifyResponse`, `EncryptedPayload`), the Docker files (only
  their restart policy is used), `Cargo.toml`, and the
  repository's only tests (three in `crypto.rs`: the round trip, the wrong key and the
  short key that `Envelope` has as cases).
* Of the licence list: the text search `q`, the order of rows and
  `LIMIT 300`, which shorten the page but do not decide the status shown or the
  filters compared here. `LIMIT 300` also cuts the online page.
* IP addresses and remarks, which are stored and shown but never decide anything.
* Argon2 and AES-GCM themselves: a password matches or does not, a
  ciphertext opens under its key or does not.
* PostgreSQL's and Tokio's internals beyond what section 2 states: statements
  commit atomically, READ COMMITTED with re-evaluated WHERE clauses, row locks,
  foreign keys and unique constraints.
* A snapshot over the several queries of the dashboard: the code takes none.

## 6. Plan

Done: every component that keeps state, the compositions, the abstract registry
and the refinement, the pool with its liveness, and the theorems of section 4, one for each safety
property that a run checks. What is worth adding:

1. `ServerImplementsRegistry` with "unban": a registry in which an unbanning is allowed what
   the finding `second_activation` shows, so that the rest is proved of it.
2. Sharper hypotheses: `RefusalsHaveCauses` with adjustments that only shorten;
   `MismatchesHaveRivals` with "unbind" for the losers of a rebind.
3. Corollaries over the compositions: the verdicts over a pool of connections, with
   history, in one specification.
