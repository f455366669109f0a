---------------------------- MODULE LicenseService ----------------------------
(***************************************************************************)
(* The licence server: the verify handlers and the back-office handlers of *)
(* one process over one database, the clock, and the process's starts and  *)
(* crashes.                                                                *)
(***************************************************************************)
EXTENDS VerifyApi, LicenseAdmin

vars == <<storeVars, req, adm>>

TypeOK == StoreTypeOK /\ VerifyTypeOK /\ AdminTypeOK

Init == StoreInit /\ VerifyInit /\ AdminInit

\* main: init_database, then the listener accepts requests.
Boot ==
  /\ ~up /\ up' = TRUE
  /\ auto_rebind_limit_per_24h' = SeedSetting
  /\ UNCHANGED <<licenses, machine_rebind_logs, rowLock, now, req, adm>>

\* The process dies; PostgreSQL rolls its open transactions back.
Crash ==
  /\ "crash" \in Faults /\ up /\ up' = FALSE
  /\ req' = [r \in Requests |-> Idle]
  /\ adm' = [h \in Handlers |-> Resting]
  /\ rowLock' = [l \in Licenses |-> None]
  /\ UNCHANGED <<licenses, machine_rebind_logs, auto_rebind_limit_per_24h,
                 now>>

Next ==
  \/ Boot
  \/ Crash
  \/ Tick /\ UNCHANGED <<req, adm>>
  \/ VerifyNext /\ UNCHANGED adm
  \/ AdminNext /\ UNCHANGED req

Spec == Init /\ [][Next]_vars

-----------------------------------------------------------------------------
(* Safety.                                                                 *)

\* While try_auto_rebind holds a row FOR UPDATE, what it learnt of the row
\* stays true until it commits: the licence is active and bound to the
\* machine the handler fetched before the transaction, and once the recent
\* rebinds were found below the limit they are still below it.  A lock is
\* held exactly by the one transaction that works on the row.
WorksOn(r, l) == req[r].license_key = l /\ req[r].pc \in InTransaction
FreshFor(r) ==
  LET q == req[r]  l == q.license_key IN
  /\ licenses[l].status = "active"
  /\ licenses[l].machine_code = q.row.machine_code
  /\ q.row.machine_code # q.machine_code
  /\ q.pc = "commit" => ~LimitReached(r)
LockedRowIsFresh ==
  /\ \A l \in Licenses, r \in Requests : rowLock[l] = r <=> WorksOn(r, l)
  /\ \A r \in Requests : req[r].pc \in InTransaction => FreshFor(r)

\* Whoever changes a row, in whatever order: a licence that was ever bound
\* or activated has its activation date; it has an expiry then exactly when
\* its type is limited; and a licence never activated has no expiry.
Dated(l, row) ==
  /\ row.machine_code # None \/ row.status = "active" => row.activated_at # None
  /\ row.activated_at # None => (row.expires_at = None <=> Duration[l] = 0)
  /\ row.activated_at = None => row.expires_at = None
  /\ row.status = "absent" => row.activated_at = None
ActivatedRowsAreDated == \A l \in Licenses : Dated(l, licenses[l])

\* A licence shown as not activated has never been used: no date, no
\* machine, no expiry.  (Only without "unban": see the README.)
UnusedIsUntouched ==
  \A l \in Licenses : licenses[l].status = "unused" => licenses[l] = NewRow

\* The first activation decides once and for all when the licence began:
\* no race of clients, unbinding, ban or adjustment activates it again.
FirstActivationSticks ==
  [][\A l \in Licenses : licenses[l].activated_at # None =>
       licenses'[l].activated_at = licenses[l].activated_at]_vars

\* A machine is replaced by another only by a rebind that leaves a row in
\* machine_rebind_logs naming both, and no row is written otherwise: what
\* the 24-hour limit counts is exactly the moves that happened.
BindingMovesAreLogged ==
  [][\A l \in Licenses :
       LET old == licenses[l].machine_code  new == licenses'[l].machine_code
       IN  IF None \notin {old, new} /\ old # new
           THEN \E at \in Instant : machine_rebind_logs'[l] =
                  Append(machine_rebind_logs[l],
                         [created_at |-> at, old |-> old, new |-> new])
           ELSE machine_rebind_logs'[l] = machine_rebind_logs[l]]_vars

\* A banned licence is out of the clients' reach: whatever a request read
\* before the ban, none of its writes lands on the banned row.
ClientsLeaveBannedAlone ==
  [][\A l \in Licenses :
       licenses[l].status = "banned" /\ licenses'[l] # licenses[l]
         => UNCHANGED req]_vars
=============================================================================
