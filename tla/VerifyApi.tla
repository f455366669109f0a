------------------------------ MODULE VerifyApi ------------------------------
(***************************************************************************)
(* POST /api/verify: verify_license_payload and try_auto_rebind.  A        *)
(* request is a handler whose steps are its database statements; between   *)
(* two of them any other handler may run.  pc names the statement the      *)
(* handler is about to issue; the other fields are its local variables.    *)
(***************************************************************************)
EXTENDS LicenseStore

VARIABLE req        \* [Requests -> Request], one handler per slot

\* Steps of an open transaction that holds the row FOR UPDATE.
InTransaction == {"limit", "count", "commit"}
\* Steps that issue a statement whose failure is reported to the client.
Statements == {"fetch", "bind", "activate", "reread", "begin", "lock"}
                \cup InTransaction
PC == Statements \cup {"idle", "decide", "log", "done", "panicked"}

Results == {"bad_request", "error", "invalid", "banned", "expired",
            "machine_mismatch", "valid"}

ASSUME VerifyAssumption == None \notin Results

Request == [pc           : PC,
            license_key  : Licenses \cup {None},
            machine_code : Machines \cup {None},
            row          : Row,                    \* what "fetch" read
            at           : Instant,                \* Utc::now() or BEGIN
            limit        : 0 .. (MaxSetting + 1),  \* auto_rebind_limit's value
            result       : Results \cup {None},    \* the reply, once known
            expires_at   : Instant \cup {None},    \* reply or pending UPDATE
            logged       : BOOLEAN]                \* a verify_logs row exists

Idle == [pc |-> "idle", license_key |-> None, machine_code |-> None,
         row |-> NoRow, at |-> 0, limit |-> 0, result |-> None,
         expires_at |-> None, logged |-> FALSE]

\* What a handler has at hand at each of its steps.
WellFormed(q) ==
  /\ q.pc \in Statements \cup {"decide", "log"}
       => q.license_key # None /\ q.machine_code # None
  /\ q.pc \in {"log", "done"} => q.result # None
  /\ q.pc \in {"begin", "lock"} \cup InTransaction
       => q.row.machine_code # None

VerifyTypeOK ==
  /\ req \in [Requests -> Request]
  /\ \A r \in Requests : WellFormed(req[r])

VerifyInit == req = [r \in Requests |-> Idle]

-----------------------------------------------------------------------------
\* Mutants: the activation overwrites whoever came first; the binding and
\* the rebind forget that the row must be active.
activation_selects_any(row)  == row.status # "banned"
binding_selects_unbound(row) == row.machine_code = None
rebind_selects_any(row)      == TRUE
\* What each conditional UPDATE's WHERE clause selects.
activation_selects(row) == row.status = "unused" /\ row.machine_code = None
binding_selects(row)    == row.status = "active" /\ row.machine_code = None
\* The row that SELECT ... WHERE status = 'active' FOR UPDATE returns.
rebind_selects(row)     == row.status = "active"

\* Mutants: the loser of a race trusts that the winner was its own machine,
\* or compares with the row it read before the race.
reread_matches_always(row, q) == TRUE
reread_matches_stale(row, q)  == q.row.machine_code = q.machine_code
\* After an UPDATE of no row: is the machine now bound the one that asks?
reread_matches(row, q) == row.machine_code = q.machine_code

\* The machine the transaction sees bound: NULL without a matching row.
current_machine_code(l) ==
  IF rebind_selects(licenses[l]) THEN licenses[l].machine_code ELSE None

\* Mutant: a type of zero days is not special.
new_expires_at_timed(l, row, at) ==
  IF row.expires_at # None THEN row.expires_at ELSE at + Duration[l]
\* First activation counts the type's days from the handler's clock, keeps
\* an expiry that is already there, and leaves permanent keys without one.
new_expires_at(l, row, at) ==
  IF row.expires_at # None THEN row.expires_at
  ELSE IF Duration[l] = 0 THEN None
  ELSE at + Duration[l]

\* Utc::now() + Duration::days(n) panics past the last representable date.
Overflows(l, row, at) ==
  row.expires_at = None /\ Duration[l] # 0 /\ at + Duration[l] > MaxInstant

\* Locals after the verdict; the statements that follow do not read them.
Verdict(q, pc, result, expires_at) ==
  [q EXCEPT !.pc = pc, !.row = NoRow, !.at = 0, !.limit = 0,
            !.result = result, !.expires_at = expires_at]

Goto(r, pc) == req' = [req EXCEPT ![r].pc = pc]
\* The verdict is known: verify_logs comes next, then the reply.
Conclude(r, result, expires_at) ==
  req' = [req EXCEPT ![r] = Verdict(@, "log", result, expires_at)]
\* `return VerifyResponse { status: "error" }` skips verify_logs.
Fail(r) == req' = [req EXCEPT ![r] = Verdict(@, "done", "error", None)]

\* Mutants: COMMIT, or the drop of a failed transaction, is forgotten.
Release_forgotten(l)  == UNCHANGED rowLock
Rollback_forgotten(r) == UNCHANGED rowLock
Release(l) == rowLock' = [rowLock EXCEPT ![l] = None]
\* Drops r's transaction, if it has one: the row lock goes with it.
Rollback(r) ==
  rowLock' = [l \in Licenses |-> IF rowLock[l] = r THEN None ELSE rowLock[l]]

-----------------------------------------------------------------------------
\* A decrypted payload reaches a free handler.
Receive(r, l, m) ==
  /\ up /\ req[r].pc = "idle"
  /\ req' = [req EXCEPT ![r] = [Idle EXCEPT !.pc = "fetch",
                                  !.license_key = l, !.machine_code = m]]
  /\ UNCHANGED storeVars

\* A blank license key or machine code is answered without a log row.
ReceiveBlank(r) ==
  /\ up /\ req[r].pc = "idle"
  /\ req' = [req EXCEPT ![r] = [Idle EXCEPT !.pc = "done",
                                            !.result = "bad_request"]]
  /\ UNCHANGED storeVars

\* SELECT ... FROM licenses JOIN license_types WHERE license_key = $1.
Fetch(r) ==
  /\ req[r].pc = "fetch"
  /\ req' = [req EXCEPT ![r].pc = "decide",
                        ![r].row = licenses[req[r].license_key]]
  /\ UNCHANGED storeVars

-----------------------------------------------------------------------------
(* The verdicts and branches taken on the fetched row, in source order.    *)

Usable(row) == row.status \in {"unused", "active"} /\ ~Expired(row)
\* Mutant: NULL counts as another machine.
BoundElsewhere_or_null(r) == req[r].row.machine_code # req[r].machine_code
BoundElsewhere(r) ==
  req[r].row.machine_code \notin {None, req[r].machine_code}

Refuse(r) ==
  LET row == req[r].row IN
  /\ req[r].pc = "decide"
  /\ \/ row.status = "absent" /\ Conclude(r, "invalid", None)
     \/ row.status = "banned" /\ Conclude(r, "banned", row.expires_at)
     \/ /\ row.status \in {"unused", "active"} /\ Expired(row)
        /\ Conclude(r, "expired", row.expires_at)
  /\ UNCHANGED storeVars

\* Bound to another machine: try_auto_rebind.
StartRebind(r) ==
  /\ req[r].pc = "decide" /\ Usable(req[r].row) /\ BoundElsewhere(r)
  /\ Goto(r, "begin")
  /\ UNCHANGED storeVars

\* Active and unbound (an administrator unbound it): bind it.
StartBind(r) ==
  /\ req[r].pc = "decide" /\ Usable(req[r].row)
  /\ req[r].row.status = "active" /\ req[r].row.machine_code = None
  /\ req' = [req EXCEPT ![r].pc = "bind",
                        ![r].expires_at = req[r].row.expires_at]
  /\ UNCHANGED storeVars

\* Unused: prepare the activation, or die computing its expiry.
StartActivation(r) ==
  LET l == req[r].license_key  row == req[r].row IN
  /\ req[r].pc = "decide" /\ Usable(row) /\ ~BoundElsewhere(r)
  /\ row.status = "unused"
  /\ IF Overflows(l, row, now)
     THEN req' = [req EXCEPT ![r] = Verdict(@, "panicked", None, None)]
     ELSE req' = [req EXCEPT ![r].pc = "activate", ![r].at = now,
                             ![r].expires_at = new_expires_at(l, row, now)]
  /\ UNCHANGED storeVars

\* Active on this very machine.
Accept(r) ==
  LET row == req[r].row IN
  /\ req[r].pc = "decide" /\ Usable(row)
  /\ row.status = "active" /\ row.machine_code = req[r].machine_code
  /\ Conclude(r, "valid", row.expires_at)
  /\ UNCHANGED storeVars

-----------------------------------------------------------------------------
ActivatedRow(r) ==
  [licenses[req[r].license_key] EXCEPT !.status = "active",
     !.machine_code = req[r].machine_code, !.activated_at = req[r].at,
     !.expires_at = req[r].expires_at]
\* Mutants: the binding also sets activated_at, or the expiry it has read.
BoundRow_dated(r) ==
  [licenses[req[r].license_key] EXCEPT !.machine_code = req[r].machine_code,
                                       !.activated_at = now]
BoundRow_stale_expiry(r) ==
  [licenses[req[r].license_key] EXCEPT !.machine_code = req[r].machine_code,
                                       !.expires_at = req[r].row.expires_at]
BoundRow(r) ==
  [licenses[req[r].license_key] EXCEPT !.machine_code = req[r].machine_code]

\* The conditional UPDATE of pc "activate" or "bind" takes effect.
ClaimRow(r) ==
  LET l == req[r].license_key IN
  /\ req[r].pc \in {"activate", "bind"} /\ Unlocked(l)
  /\ \/ /\ req[r].pc = "activate" /\ activation_selects(licenses[l])
        /\ licenses' = [licenses EXCEPT ![l] = ActivatedRow(r)]
     \/ /\ req[r].pc = "bind" /\ binding_selects(licenses[l])
        /\ licenses' = [licenses EXCEPT ![l] = BoundRow(r)]
  /\ UNCHANGED <<machine_rebind_logs, auto_rebind_limit_per_24h, rowLock,
                 now, up>>

Claim(r) == ClaimRow(r) /\ Conclude(r, "valid", req[r].expires_at)

\* rows_affected() = 0: another statement got there first.
ClaimMisses(r) ==
  LET row == licenses[req[r].license_key] IN
  /\ \/ req[r].pc = "activate" /\ ~activation_selects(row)
     \/ req[r].pc = "bind" /\ ~binding_selects(row)
  /\ Goto(r, "reread")
  /\ UNCHANGED storeVars

\* SELECT machine_code: whoever won, was it for this machine?  A match is
\* answered as if the handler had won itself; a mismatch without an expiry
\* by the activation branch, with the fetched one by the binding branch.
Reread(r) ==
  LET q == req[r] IN
  /\ q.pc = "reread"
  /\ \/ /\ reread_matches(licenses[q.license_key], q)
        /\ Conclude(r, "valid", q.expires_at)
     \/ /\ ~reread_matches(licenses[q.license_key], q)
        /\ Conclude(r, "machine_mismatch",
                    IF q.row.status = "unused" THEN None ELSE q.expires_at)
  /\ UNCHANGED storeVars

-----------------------------------------------------------------------------
(* try_auto_rebind: one transaction.  Its writes stay invisible until      *)
(* COMMIT, so UPDATE, INSERT and COMMIT are the single step Commit.        *)

\* BEGIN fixes the instant that NOW() returns throughout.
Begin(r) ==
  /\ req[r].pc = "begin"
  /\ req' = [req EXCEPT ![r].pc = "lock", ![r].at = now]
  /\ UNCHANGED storeVars

\* SELECT machine_code ... FOR UPDATE and the two early returns after it.
Lock(r) ==
  LET q == req[r]  l == q.license_key  current == current_machine_code(l) IN
  /\ q.pc = "lock"
  /\ rebind_selects(licenses[l]) => Unlocked(l)
  /\ \/ /\ current = q.machine_code
        /\ Conclude(r, "valid", q.row.expires_at)
        /\ UNCHANGED rowLock
     \/ /\ current \notin {q.machine_code, q.row.machine_code}
        /\ Conclude(r, "machine_mismatch", q.row.expires_at)
        /\ UNCHANGED rowLock
     \/ /\ current = q.row.machine_code /\ current # q.machine_code
        /\ rowLock' = [rowLock EXCEPT ![l] = r]
        /\ Goto(r, "limit")
  /\ UNCHANGED <<licenses, machine_rebind_logs, auto_rebind_limit_per_24h,
                 now, up>>

\* COMMIT of a transaction that decided not to rebind.
Decline(r) ==
  /\ Conclude(r, "machine_mismatch", req[r].row.expires_at)
  /\ Release(req[r].license_key)

\* auto_rebind_limit(&mut tx); zero switches rebinding off.
ReadLimit(r) ==
  /\ req[r].pc = "limit"
  /\ \/ /\ auto_rebind_limit > 0
        /\ req' = [req EXCEPT ![r].pc = "count",
                              ![r].limit = auto_rebind_limit]
        /\ UNCHANGED rowLock
     \/ auto_rebind_limit <= 0 /\ Decline(r)
  /\ UNCHANGED <<licenses, machine_rebind_logs, auto_rebind_limit_per_24h,
                 now, up>>

LimitReached(r) ==
  Cardinality(RecentRebinds(req[r].license_key, req[r].at)) >= req[r].limit

CountRecent(r) ==
  /\ req[r].pc = "count"
  /\ \/ ~LimitReached(r) /\ Goto(r, "commit") /\ UNCHANGED rowLock
     \/ LimitReached(r) /\ Decline(r)
  /\ UNCHANGED <<licenses, machine_rebind_logs, auto_rebind_limit_per_24h,
                 now, up>>

\* UPDATE licenses, INSERT INTO machine_rebind_logs, COMMIT.
CommitRebind(r) ==
  LET q == req[r]  l == q.license_key IN
  /\ q.pc = "commit"
  /\ licenses' = [licenses EXCEPT ![l] = BoundRow(r)]
  /\ machine_rebind_logs' =
       [machine_rebind_logs EXCEPT ![l] = Append(@,
          [created_at |-> q.at, old |-> q.row.machine_code,
           new |-> q.machine_code])]
  /\ Release(l)
  /\ UNCHANGED <<auto_rebind_limit_per_24h, now, up>>

Commit(r) == CommitRebind(r) /\ Conclude(r, "valid", req[r].row.expires_at)

-----------------------------------------------------------------------------
\* log_verify: the row's foreign key waits for a FOR UPDATE holder; the row
\* about an unknown key has none.
LogVerify(r) ==
  /\ req[r].pc = "log"
  /\ req[r].result = "invalid" \/ Unlocked(req[r].license_key)
  /\ req' = [req EXCEPT ![r].pc = "done", ![r].logged = TRUE]
  /\ UNCHANGED storeVars

\* The encrypted reply leaves, or the panicked task drops the connection.
Finish(r) ==
  /\ req[r].pc \in {"done", "panicked"}
  /\ req' = [req EXCEPT ![r] = Idle]
  /\ UNCHANGED storeVars

\* A statement fails before it has an effect.  log_verify ignores it.
QueryFails(r) ==
  /\ "query" \in Faults
  /\ \/ req[r].pc \in Statements /\ Fail(r)
     \/ req[r].pc = "log" /\ Goto(r, "done")
  /\ Rollback(r)
  /\ UNCHANGED <<licenses, machine_rebind_logs, auto_rebind_limit_per_24h,
                 now, up>>

\* The write commits but its acknowledgement is lost with the connection.
AckLost(r) ==
  /\ "ack" \in Faults
  /\ ClaimRow(r) \/ CommitRebind(r)
  /\ Fail(r)

\* The client hangs up: the handler's future is dropped where it stands.
Cancel(r) ==
  /\ "cancel" \in Faults /\ req[r].pc # "idle"
  /\ req' = [req EXCEPT ![r] = Idle]
  /\ Rollback(r)
  /\ UNCHANGED <<licenses, machine_rebind_logs, auto_rebind_limit_per_24h,
                 now, up>>

Progress(r) ==
  \/ Fetch(r) \/ Refuse(r) \/ StartRebind(r) \/ StartBind(r)
  \/ StartActivation(r) \/ Accept(r) \/ Claim(r) \/ ClaimMisses(r)
  \/ Reread(r) \/ Begin(r) \/ Lock(r) \/ ReadLimit(r) \/ CountRecent(r)
  \/ Commit(r) \/ LogVerify(r) \/ Finish(r)

VerifyNext ==
  \E r \in Requests :
    \/ \E l \in Licenses, m \in Machines : Receive(r, l, m)
    \/ ReceiveBlank(r)
    \/ Progress(r)
    \/ QueryFails(r) \/ AckLost(r) \/ Cancel(r)
=============================================================================
