----------------------------- MODULE LicenseAdmin -----------------------------
(***************************************************************************)
(* The back-office operations on licences.  Most are a read, the checks on *)
(* what was read, and an unconditional write: two autocommitted statements *)
(* with no lock and no version between them, so a job may act on a row     *)
(* that has changed since it looked.  A job holds what it will write.      *)
(***************************************************************************)
EXTENDS LicenseStore

CONSTANTS
  AdminOps,        \* the operations administrators use in an instance
  HourInputs,      \* hours submitted to the two adjust operations, in ticks
  MaxHours,        \* the largest they accept either way (87600 in the code)
  LimitInputs,     \* limits submitted to update_settings
  MaxBatch         \* largest count create_license accepts (100 in the code)

AdminOpKinds == {"ban", "unban", "unbind", "adjust", "adjust_all",
                 "settings", "create"}

ASSUME AdminAssumption ==
  /\ AdminOps \subseteq AdminOpKinds
  /\ HourInputs \subseteq Int /\ LimitInputs \subseteq Int
  /\ MaxHours \in Nat /\ MaxBatch \in Nat
  /\ \A u \in Users : u.role \in Roles

VARIABLE adm        \* [Handlers -> Job]

Scopes == {"active_only", "all_with_expired"}

Resting == [pc |-> "idle"]
Job == {Resting}
  \cup [pc : {"status"}, lic : Licenses, status : Status]
  \cup [pc : {"unbind"}, lic : Licenses]
  \cup [pc : {"shift"},  lic : Licenses, hours : Int]
  \cup [pc : {"sweep"},  targets : SUBSET Licenses, scope : Scopes,
        hours : Int, at : Instant]
  \cup [pc : {"insert"}, owner : Users, days : Nat, left : 1 .. MaxBatch]

AdminTypeOK == adm \in [Handlers -> Job]
AdminInit   == adm = [h \in Handlers |-> Resting]

-----------------------------------------------------------------------------
Free(h) == up /\ adm[h].pc = "idle"
Take(h, job) == adm' = [adm EXCEPT ![h] = job] /\ UNCHANGED storeVars
Rest(h) == adm' = [adm EXCEPT ![h] = Resting]

\* license_by_id finds the row and can_manage_owner lets the caller pass.
Manages(user, l) ==
  /\ licenses[l].status # "absent"
  /\ can_manage_owner(user, Owner[l].id, Owner[l].parent_id)

\* Mutant: whatever is unbanned becomes active.
unban_status_active(row) == "active"
\* The status "unban" restores, judged from the row that was read.
unban_status(row) ==
  IF row.activated_at # None \/ row.machine_code # None
  THEN "active" ELSE "unused"

ReadForBan(h, l) ==
  /\ Free(h) /\ "ban" \in AdminOps
  /\ \E user \in Users : Manages(user, l)
  /\ Take(h, [pc |-> "status", lic |-> l, status |-> "banned"])

\* Nothing asks whether the licence is banned at all.
ReadForUnban(h, l) ==
  /\ Free(h) /\ "unban" \in AdminOps
  /\ \E user \in Users : Manages(user, l)
  /\ Take(h, [pc |-> "status", lic |-> l,
              status |-> unban_status(licenses[l])])

unbind_allowed(row) == row.status # "banned"

ReadForUnbind(h, l) ==
  /\ Free(h) /\ "unbind" \in AdminOps
  /\ \E user \in Users : Manages(user, l)
  /\ unbind_allowed(licenses[l])
  /\ Take(h, [pc |-> "unbind", lic |-> l])

validate_adjust_hours(hours) == hours # 0 /\ hours \in -MaxHours .. MaxHours

ReadForAdjust(h, l, hours) ==
  /\ Free(h) /\ "adjust" \in AdminOps /\ validate_adjust_hours(hours)
  /\ \E user \in Users : Manages(user, l)
  /\ Take(h, [pc |-> "shift", lic |-> l, hours |-> hours])

-----------------------------------------------------------------------------
\* UPDATE licenses SET ... WHERE id = $2, whatever the row is by now.
Write(l, row) ==
  /\ Unlocked(l)
  /\ licenses' = [licenses EXCEPT ![l] = row]
  /\ UNCHANGED <<machine_rebind_logs, auto_rebind_limit_per_24h, rowLock,
                 now, up>>

WriteStatus(h) ==
  /\ adm[h].pc = "status"
  /\ Write(adm[h].lic,
           [licenses[adm[h].lic] EXCEPT !.status = adm[h].status])
  /\ Rest(h)

\* Mutant: unbinding also resets the status.
Unbound_reset(row) == [row EXCEPT !.machine_code = None, !.status = "unused"]
Unbound(row) == [row EXCEPT !.machine_code = None]

WriteUnbind(h) ==
  /\ adm[h].pc = "unbind"
  /\ Write(adm[h].lic, Unbound(licenses[adm[h].lic]))
  /\ Rest(h)

\* Mutant: an extension of an expired licence counts from now.
Shifted_from_now(row, hours) ==
  IF row.expires_at = None THEN row
  ELSE [row EXCEPT !.expires_at =
          IF @ <= now /\ hours > 0 THEN now + hours ELSE @ + hours]
\* expires_at + hours; WHERE expires_at IS NOT NULL leaves the others.
Shifted(row, hours) ==
  IF row.expires_at = None THEN row
  ELSE [row EXCEPT !.expires_at = @ + hours]
\* Beyond the range of a timestamp the UPDATE fails and changes nothing.
InRange(row, hours) ==
  row.expires_at # None => row.expires_at + hours \in Instant

WriteShift(h) ==
  LET row == licenses[adm[h].lic] IN
  /\ adm[h].pc = "shift"
  /\ Write(adm[h].lic, IF InRange(row, adm[h].hours)
                       THEN Shifted(row, adm[h].hours) ELSE row)
  /\ Rest(h)

-----------------------------------------------------------------------------
(* adjust_licenses_time: one UPDATE over many rows.  Its snapshot picks    *)
(* the rows and fixes NOW(); it waits for each that is locked and checks   *)
(* the WHERE clause again on what it then finds.                           *)

InScope(row, scope, at) ==
  /\ row.expires_at # None
  /\ scope = "active_only" => row.expires_at > at /\ row.status # "banned"

StartAdjustAll(h, scope, hours) ==
  /\ Free(h) /\ "adjust_all" \in AdminOps /\ validate_adjust_hours(hours)
  /\ \E user \in Users : user.role = "admin"
  /\ Take(h, [pc |-> "sweep", scope |-> scope, hours |-> hours, at |-> now,
              targets |-> {l \in Licenses : InScope(licenses[l], scope, now)}])

WriteAll(h) ==
  LET job  == adm[h]
      hit  == {l \in job.targets : InScope(licenses[l], job.scope, job.at)}
  IN
  /\ job.pc = "sweep"
  /\ \A l \in job.targets : Unlocked(l)
  /\ licenses' = IF \A l \in hit : InRange(licenses[l], job.hours)
                 THEN [l \in Licenses |-> IF l \in hit
                         THEN Shifted(licenses[l], job.hours)
                         ELSE licenses[l]]
                 ELSE licenses
  /\ Rest(h)
  /\ UNCHANGED <<machine_rebind_logs, auto_rebind_limit_per_24h, rowLock,
                 now, up>>

-----------------------------------------------------------------------------
\* update_settings: one upsert, after the role and the range were checked.
UpdateSettings(h, limit) ==
  /\ Free(h) /\ "settings" \in AdminOps
  /\ \E user \in Users : user.role = "admin"
  /\ limit \in 0 .. MaxSetting
  /\ auto_rebind_limit_per_24h' = limit
  /\ UNCHANGED <<licenses, machine_rebind_logs, rowLock, now, up, adm>>

Fresh(owner, days) ==
  {l \in Licenses : /\ licenses[l].status = "absent"
                    /\ Owner[l] = owner /\ Duration[l] = days}

\* create_license for an owner the caller manages: count INSERTs, each
\* committed by itself, all of one type (keys of one duration here).  The
\* finite Licenses bound the count; the code's UUIDs never run out.
StartCreate(h, owner, days, count) ==
  /\ Free(h) /\ "create" \in AdminOps
  /\ count \in 1 .. MaxBatch /\ count <= Cardinality(Fresh(owner, days))
  /\ \E user \in Users : can_manage_owner(user, owner.id, owner.parent_id)
  /\ Take(h, [pc |-> "insert", owner |-> owner, days |-> days,
              left |-> count])

CreateOne(h, l) ==
  LET job == adm[h] IN
  /\ job.pc = "insert"
  /\ l \in Fresh(job.owner, job.days)
  /\ licenses' = [licenses EXCEPT ![l] = NewRow]
  /\ IF job.left = 1 THEN Rest(h)
     ELSE adm' = [adm EXCEPT ![h].left = @ - 1]
  /\ UNCHANGED <<machine_rebind_logs, auto_rebind_limit_per_24h, rowLock,
                 now, up>>

\* A statement fails, or the browser disconnects, before the effect.
HandlerDropped(h) ==
  /\ "cancel" \in Faults \/ "query" \in Faults
  /\ adm[h].pc # "idle"
  /\ Rest(h)
  /\ UNCHANGED storeVars

AdminProgress(h) ==
  \/ WriteStatus(h) \/ WriteUnbind(h) \/ WriteShift(h) \/ WriteAll(h)
  \/ \E l \in Licenses : CreateOne(h, l)

\* The first statement of an operation; for update_settings, all of it.
AdminStart(h) ==
  \/ \E l \in Licenses :
       \/ ReadForBan(h, l) \/ ReadForUnban(h, l) \/ ReadForUnbind(h, l)
       \/ \E hours \in HourInputs : ReadForAdjust(h, l, hours)
  \/ \E scope \in Scopes, hours \in HourInputs :
       StartAdjustAll(h, scope, hours)
  \/ \E limit \in LimitInputs : UpdateSettings(h, limit)
  \/ \E owner \in Users, l \in Licenses, count \in 1 .. MaxBatch :
       StartCreate(h, owner, Duration[l], count)

AdminNext ==
  \E h \in Handlers : AdminStart(h) \/ AdminProgress(h) \/ HandlerDropped(h)
=============================================================================
