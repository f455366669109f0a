---------------------------- MODULE RegistryProofs ----------------------------
(***************************************************************************)
(* While nobody lifts a ban, the life of a licence is a line: created,     *)
(* activated once, perhaps banned for good.  From this, for every value of *)
(* the constants: the server implements LicenseRegistry, the abstract      *)
(* registry of atomic operations.                                          *)
(***************************************************************************)
EXTENDS LicenseHistory, LicenseProofs, FiniteSetTheorems

-----------------------------------------------------------------------------
(* The life of a licence without "unban".                                  *)

\* What UnusedIsUntouched rests on.  A row that is not in use is empty; a
\* back-office job only bans, only works on a licence that exists, and
\* shifts by what validate_adjust_hours let pass; a verify handler that is
\* to activate read an empty row, and holds an expiry of its type counted
\* from a moment that is not in the future.
RowLife(row) ==
  /\ row.status = "unused" => row = NewRow
  /\ row.status = "absent" => row = NoRow

JobLife(job) ==
  /\ job.pc = "status" => job.status = "banned"
  /\ job.pc \in {"status", "unbind", "shift"}
       => licenses[job.lic].status # "absent"
  /\ job.pc \in {"shift", "sweep"} => job.hours \in -MaxHours .. MaxHours

RequestLife(q) ==
  /\ q.pc = "decide" => RowLife(q.row)
  /\ q.pc = "activate" =>
       q.expires_at = IF Duration[q.license_key] = 0 THEN None
                      ELSE q.at + Duration[q.license_key]
  /\ q.pc \in {"activate", "lock"} \cup InTransaction => q.at \in 0 .. now

LifeInv ==
  /\ \A l \in Licenses : RowLife(licenses[l])
  /\ \A h \in Handlers : JobLife(adm[h])
  /\ \A r \in Requests : RequestLife(req[r])

\* No step removes a licence from the table.
Stays == \A l \in Licenses : licenses[l].status # "absent"
                               => licenses'[l].status # "absent"

\* What clients write keeps unused rows untouched, and removes none.
LEMMA ClientLife ==
  ASSUME TypeOK, LockedRowIsFresh, LifeInv, NEW r \in Requests, VerifyStep(r)
  PROVE  (\A l \in Licenses : RowLife(licenses[l]))' /\ Stays
<1>0. /\ req[r] \in Request /\ WellFormed(req[r])
      /\ licenses \in [Licenses -> Row]
      /\ None \notin Machines
      /\ \A l \in Licenses : RowLife(licenses[l])
  BY StoreAssumption DEF TypeOK, VerifyTypeOK, StoreTypeOK, LifeInv
<1>1. CASE UNCHANGED licenses
  BY <1>0, <1>1 DEF Stays, RowLife
<1>2. CASE ClaimRow(r) \/ (CommitRebind(r) /\ FreshFor(r))
  <2> DEFINE l == req[r].license_key
  <2>1. l \in Licenses /\ req[r].machine_code \in Machines
    BY <1>0, <1>2 DEF ClaimRow, CommitRebind, WellFormed, Statements,
                      InTransaction, Request
  <2>2. CASE licenses' = [licenses EXCEPT ![l] = ActivatedRow(r)]
    <3>1. ActivatedRow(r).status = "active"
      BY <1>0, <2>1 DEF ActivatedRow, Row
    <3> QED BY <1>0, <2>1, <2>2, <3>1 DEF RowLife, Stays
  <2>3. CASE licenses[l].status = "active" /\ licenses' = [licenses EXCEPT ![l] = BoundRow(r)]
    <3>1. BoundRow(r).status = "active"
      BY <1>0, <2>1, <2>3 DEF BoundRow, Row
    <3> QED BY <1>0, <2>1, <2>3, <3>1 DEF RowLife, Stays
  <2> QED BY <1>2, <2>2, <2>3 DEF ClaimRow, CommitRebind, FreshFor, binding_selects
<1> QED BY <1>1, <1>2, ClientWrites

\* So does what administrators write, who do not unban.
LEMMA AdminLife ==
  ASSUME "unban" \notin AdminOps, TypeOK, LifeInv, AdminNext
  PROVE  (\A l \in Licenses : RowLife(licenses[l]))' /\ Stays
<1>0. /\ licenses \in [Licenses -> Row] /\ adm \in [Handlers -> Job]
      /\ None \notin Int
      /\ \A l \in Licenses : RowLife(licenses[l])
      /\ NewRow.expires_at = None /\ NoRow.expires_at = None
      /\ NewRow.status = "unused" /\ NoRow.status = "absent"
  BY StoreAssumption DEF TypeOK, StoreTypeOK, AdminTypeOK, LifeInv, NewRow, NoRow
<1>1. CASE UNCHANGED licenses
  BY <1>0, <1>1 DEF RowLife, Stays
<1>2. ASSUME NEW h \in Handlers, AdminProgress(h)
      PROVE  (\A l \in Licenses : RowLife(licenses[l]))' /\ Stays
  <2>1. ASSUME NEW l \in Licenses, NEW row, Write(l, row), RowLife(row),
               licenses[l].status # "absent" => row.status # "absent"
        PROVE  (\A k \in Licenses : RowLife(licenses[k]))' /\ Stays
    BY <1>0, <2>1 DEF Write, RowLife, Stays
  <2>2. ASSUME NEW l \in Licenses, NEW hours \in Int
        PROVE  /\ RowLife(Shifted(licenses[l], hours))
               /\ Shifted(licenses[l], hours).status = licenses[l].status
    BY <1>0 DEF Shifted, RowLife, Row
  <2>3. CASE WriteStatus(h)
    <3> DEFINE l == adm[h].lic  row == [licenses[l] EXCEPT !.status = adm[h].status]
    <3>1. l \in Licenses /\ adm[h].status = "banned"
      BY <1>0, <2>3 DEF WriteStatus, Job, Resting, LifeInv, JobLife
    <3>2. row.status = "banned"
      BY <1>0, <3>1 DEF Row
    <3>3. Write(l, row)
      BY <2>3 DEF WriteStatus
    <3> HIDE DEF l, row
    <3> QED BY <2>1, <3>1, <3>2, <3>3 DEF RowLife
  <2>4. CASE WriteUnbind(h)
    <3> DEFINE l == adm[h].lic  row == Unbound(licenses[l])
    <3>1. l \in Licenses
      BY <1>0, <2>4 DEF WriteUnbind, Job, Resting
    <3>2. RowLife(row) /\ row.status = licenses[l].status
      BY <1>0, <3>1 DEF Unbound, RowLife, Row, NewRow, NoRow
    <3>3. Write(l, row)
      BY <2>4 DEF WriteUnbind
    <3> HIDE DEF l, row
    <3> QED BY <2>1, <3>1, <3>2, <3>3
  <2>5. CASE WriteShift(h)
    <3>1. adm[h].lic \in Licenses /\ adm[h].hours \in Int
      BY <1>0, <2>5 DEF WriteShift, Job, Resting
    <3> QED BY <1>0, <2>1, <2>2, <2>5, <3>1 DEF WriteShift
  <2>6. CASE WriteAll(h)
    <3>1. adm[h].hours \in Int
      BY <1>0, <2>6 DEF WriteAll, Job, Resting
    <3>2. ASSUME NEW k \in Licenses
          PROVE  RowLife(licenses'[k]) /\ licenses'[k].status = licenses[k].status
      BY <1>0, <2>2, <2>6, <3>1 DEF WriteAll
    <3> QED BY <3>2 DEF RowLife, Stays
  <2>7. ASSUME NEW l \in Licenses, CreateOne(h, l)
        PROVE  (\A k \in Licenses : RowLife(licenses[k]))' /\ Stays
    BY <1>0, <2>7 DEF CreateOne, RowLife, Stays
  <2> QED BY <1>2, <2>3, <2>4, <2>5, <2>6, <2>7 DEF AdminProgress
<1> QED
  BY <1>1, <1>2 DEF AdminNext, AdminStart, ReadForBan, ReadForUnban, ReadForUnbind,
     ReadForAdjust, StartAdjustAll, UpdateSettings, StartCreate, HandlerDropped,
     Take, storeVars

\* What handlers have read or prepared is from such a life as well.
LEMMA ClientLifeAhead ==
  ASSUME TypeOK, LifeInv, NEW r \in Requests, VerifyStep(r)
  PROVE  RequestLife(req[r])'
<1>0. /\ req \in [Requests -> Request] /\ req[r] \in Request /\ WellFormed(req[r])
      /\ now \in Nat /\ None \notin Int
      /\ \A l \in Licenses : RowLife(licenses[l])
      /\ RequestLife(req[r])
  BY StoreAssumption DEF TypeOK, VerifyTypeOK, StoreTypeOK, LifeInv
<1>1. CASE Fetch(r)
  <2>1. /\ req'[r].pc = "decide" /\ req'[r].row = licenses[req[r].license_key]
        /\ req[r].license_key \in Licenses
    BY <1>0, <1>1 DEF Fetch, Request, WellFormed, Statements
  <2> QED BY <1>0, <2>1 DEF RequestLife, RowLife, InTransaction
<1>2. CASE StartActivation(r)
  <2> DEFINE l == req[r].license_key  row == req[r].row
  <2>1. CASE Overflows(l, row, now)
    <3>1. req'[r].pc = "panicked"
      BY <1>0, <1>2, <2>1, VerdictFields DEF StartActivation
    <3> QED BY <3>1 DEF RequestLife, InTransaction
  <2>2. CASE ~Overflows(l, row, now)
    <3>1. /\ req'[r].pc = "activate" /\ req'[r].license_key = l
          /\ req'[r].expires_at = new_expires_at(l, row, now)
          /\ req'[r].at = now /\ UNCHANGED now
      BY <1>0, <1>2, <2>2 DEF StartActivation, Request, storeVars
    <3>2. row = NewRow
      BY <1>0, <1>2 DEF StartActivation, RequestLife, RowLife
    <3> QED BY <1>0, <3>1, <3>2
            DEF new_expires_at, RequestLife, InTransaction, NewRow, NoRow
  <2> QED BY <2>1, <2>2
<1>3. CASE Begin(r)
  <2>1. req'[r].pc = "lock" /\ req'[r].at = now /\ UNCHANGED now
    BY <1>0, <1>3 DEF Begin, Request, storeVars
  <2> QED BY <1>0, <2>1 DEF RequestLife, InTransaction
<1>4. CASE Lock(r) \/ ReadLimit(r) \/ CountRecent(r)
  <2>1. /\ req[r].pc \in {"lock"} \cup InTransaction /\ UNCHANGED now
        /\ req'[r].pc = "log" \/ (req'[r].pc \in InTransaction /\ req'[r].at = req[r].at)
    BY <1>0, <1>4, EndFields DEF Lock, ReadLimit, CountRecent, Decline, Goto,
                                 InTransaction, Request
  <2> QED BY <1>0, <2>1 DEF RequestLife, InTransaction
<1>5. CASE ~Fetch(r) /\ ~StartActivation(r) /\ ~Begin(r)
           /\ ~(Lock(r) \/ ReadLimit(r) \/ CountRecent(r))
  <2>1. ASSUME NEW l \in Licenses, NEW m \in Machines, Receive(r, l, m)
        PROVE  req'[r].pc = "fetch"
    BY <1>0, <2>1 DEF Receive, Idle
  <2>2. ASSUME ReceiveBlank(r) PROVE req'[r].pc = "done"
    BY <1>0, <2>2 DEF ReceiveBlank, Idle
  <2>3. ASSUME Refuse(r) \/ Accept(r) \/ Reread(r) \/ Claim(r) \/ Commit(r)
        PROVE  req'[r].pc = "log"
    BY <1>0, <2>3, EndFields DEF Refuse, Accept, Reread, Claim, Commit
  <2>4. ASSUME StartRebind(r) \/ ClaimMisses(r) \/ QueryFails(r) \/ AckLost(r)
               \/ Finish(r) \/ Cancel(r)
        PROVE  req'[r].pc \in {"begin", "reread", "done", "idle"}
    BY <1>0, <2>4, EndFields DEF StartRebind, ClaimMisses, QueryFails, AckLost,
       Finish, Cancel
  <2>5. ASSUME StartBind(r) \/ LogVerify(r)
        PROVE  req'[r].pc \in {"bind", "done"}
    BY <1>0, <2>5 DEF StartBind, LogVerify, Request
  <2>6. req'[r].pc \in {"fetch", "done", "log", "begin", "reread", "idle", "bind"}
    BY <1>5, <2>1, <2>2, <2>3, <2>4, <2>5 DEF VerifyStep, Progress
  <2> QED BY <2>6 DEF RequestLife, InTransaction
<1> QED BY <1>1, <1>2, <1>3, <1>4, <1>5

\* What back-office handlers are about to write does so, too.
LEMMA AdminLifeAhead ==
  ASSUME "unban" \notin AdminOps, TypeOK, LifeInv, AdminNext, Stays,
         NEW g \in Handlers
  PROVE  JobLife(adm[g])'
<1>0. /\ adm \in [Handlers -> Job] /\ adm[g] \in Job /\ JobLife(adm[g])
      /\ JobLife(Resting)'
  BY DEF TypeOK, AdminTypeOK, LifeInv, JobLife, Resting
<1>1. CASE adm'[g] = adm[g]
  <2>1. adm[g].pc \in {"status", "unbind", "shift"} => adm[g].lic \in Licenses
    BY <1>0 DEF Job, Resting
  <2> QED BY <1>0, <1>1, <2>1 DEF JobLife, Stays
<1>2. CASE adm'[g] = Resting
  BY <1>0, <1>2
<1>3. ASSUME NEW h \in Handlers, NEW l \in Licenses,
             \/ ReadForBan(h, l) \/ ReadForUnban(h, l) \/ ReadForUnbind(h, l)
             \/ \E hours \in HourInputs : ReadForAdjust(h, l, hours)
      PROVE  JobLife(adm[g])'
  <2>1. ASSUME NEW job, Take(h, job), JobLife(job)' PROVE JobLife(adm[g])'
    BY <1>0, <1>1, <2>1 DEF Take
  <2>2. licenses'[l].status # "absent"
    BY <1>3 DEF ReadForBan, ReadForUnban, ReadForUnbind, ReadForAdjust, Manages,
                Take, storeVars
  <2>3. CASE ReadForBan(h, l)
    BY <2>1, <2>2, <2>3 DEF ReadForBan, JobLife
  <2>4. CASE ReadForUnbind(h, l)
    BY <2>1, <2>2, <2>4 DEF ReadForUnbind, JobLife
  <2>5. ASSUME NEW hours \in HourInputs, ReadForAdjust(h, l, hours)
        PROVE  JobLife(adm[g])'
    BY <2>1, <2>2, <2>5 DEF ReadForAdjust, validate_adjust_hours, JobLife
  <2> QED BY <1>3, <2>3, <2>4, <2>5 DEF ReadForUnban
<1>4. ASSUME NEW h \in Handlers, NEW scope \in Scopes, NEW hours \in HourInputs,
             StartAdjustAll(h, scope, hours)
      PROVE  JobLife(adm[g])'
  BY <1>0, <1>1, <1>4 DEF StartAdjustAll, validate_adjust_hours, Take, JobLife
<1>5. ASSUME NEW h \in Handlers, NEW owner \in Users, NEW l \in Licenses,
             NEW count \in 1 .. MaxBatch,
             StartCreate(h, owner, Duration[l], count)
      PROVE  JobLife(adm[g])'
  BY <1>0, <1>1, <1>5 DEF StartCreate, Take, JobLife
<1>6. ASSUME NEW h \in Handlers, AdminProgress(h) \/ HandlerDropped(h)
      PROVE  JobLife(adm[g])'
  <2>1. CASE Rest(h)
    BY <1>0, <1>1, <1>2, <2>1 DEF Rest
  <2>2. ASSUME NEW l \in Licenses, CreateOne(h, l), ~Rest(h)
        PROVE  JobLife(adm[g])'
    <3>1. adm[h].pc = "insert" /\ adm' = [adm EXCEPT ![h].left = @ - 1]
      BY <2>2 DEF CreateOne
    <3>2. adm[h] \in [pc : {"insert"}, owner : Users, days : Nat, left : 1 .. MaxBatch]
      BY <1>0, <3>1 DEF Job, Resting
    <3>3. g = h => adm'[g].pc = "insert"
      BY <1>0, <3>1, <3>2
    <3> QED BY <1>0, <1>1, <3>1, <3>3 DEF JobLife
  <2> QED BY <1>6, <2>1, <2>2 DEF AdminProgress, HandlerDropped, WriteStatus,
                                  WriteUnbind, WriteShift, WriteAll
<1>7. ASSUME NEW h \in Handlers, NEW limit \in LimitInputs,
             UpdateSettings(h, limit)
      PROVE  JobLife(adm[g])'
  BY <1>1, <1>7 DEF UpdateSettings
<1> QED BY <1>3, <1>4, <1>5, <1>6, <1>7 DEF AdminNext, AdminStart

\* Without "unban", every step keeps unused rows untouched, with what handlers
\* have read of them and computed from them.
LEMMA LifeInvariance ==
  ASSUME "unban" \notin AdminOps
  PROVE  TypeOK /\ LockedRowIsFresh /\ LifeInv /\ [Next]_vars => LifeInv'
<1> SUFFICES ASSUME TypeOK, LockedRowIsFresh, LifeInv, [Next]_vars
             PROVE  LifeInv'
  OBVIOUS
<1>0. /\ adm \in [Handlers -> Job] /\ req \in [Requests -> Request]
      /\ now \in Nat
  BY StoreAssumption DEF TypeOK, AdminTypeOK, VerifyTypeOK, StoreTypeOK
<1>1. CASE VerifyNext /\ UNCHANGED adm
  <2>1. PICK r \in Requests : VerifyStep(r)
    BY <1>1 DEF VerifyNext, VerifyStep
  <2>2. (\A l \in Licenses : RowLife(licenses[l]))' /\ Stays
    BY <2>1, ClientLife
  <2>3. UNCHANGED now
    BY <2>1, ClientsOnlyWriteRows
  <2>4. ASSUME NEW q \in Requests PROVE RequestLife(req[q])'
    <3>1. CASE q = r
      BY <2>1, <3>1, ClientLifeAhead
    <3>2. CASE q # r
      BY <2>1, <2>3, <3>2, OthersKeepTheirRows DEF LifeInv, RequestLife, RowLife
    <3> QED BY <3>1, <3>2
  <2>5. ASSUME NEW h \in Handlers PROVE JobLife(adm[h])'
    <3>1. adm[h].pc \in {"status", "unbind", "shift"} => adm[h].lic \in Licenses
      BY <1>0 DEF Job, Resting
    <3> QED BY <1>1, <2>2, <3>1 DEF LifeInv, JobLife, Stays
  <2> QED BY <2>2, <2>4, <2>5 DEF LifeInv
<1>2. CASE AdminNext /\ UNCHANGED req
  <2>1. (\A l \in Licenses : RowLife(licenses[l]))' /\ Stays
    BY <1>2, AdminLife
  <2>2. (\A h \in Handlers : JobLife(adm[h]))'
    BY <1>2, <2>1, AdminLifeAhead
  <2>3. UNCHANGED now
    BY <1>2 DEF AdminNext, AdminStart, AdminProgress, ReadForBan, ReadForUnban,
       ReadForUnbind, ReadForAdjust, StartAdjustAll, UpdateSettings, StartCreate,
       HandlerDropped, Take, storeVars, WriteStatus, WriteUnbind, WriteShift,
       Write, WriteAll, CreateOne
  <2>4. (\A q \in Requests : RequestLife(req[q]))'
    BY <1>2, <2>3 DEF LifeInv, RequestLife, RowLife
  <2> QED BY <2>1, <2>2, <2>4 DEF LifeInv
<1>3. CASE Crash
  <2>1. /\ \A r \in Requests : req'[r].pc = "idle"
        /\ \A h \in Handlers : adm'[h].pc = "idle"
        /\ UNCHANGED licenses
    BY <1>3 DEF Crash, Idle, Resting
  <2> QED BY <2>1 DEF LifeInv, RowLife, JobLife, RequestLife, InTransaction
<1>4. CASE Boot \/ (Tick /\ UNCHANGED <<req, adm>>) \/ UNCHANGED vars
  <2>1. UNCHANGED <<licenses, req, adm>> /\ now' \in {now, now + 1}
    BY <1>4 DEF Boot, Tick, vars, storeVars
  <2>2. \A q \in Requests : RequestLife(req[q])'
    BY <1>0, <2>1 DEF LifeInv, RequestLife, RowLife
  <2> QED BY <2>1, <2>2 DEF LifeInv, RowLife, JobLife
<1> QED BY <1>1, <1>2, <1>3, <1>4 DEF Next

\* Without "unban": in every reachable state unused rows are untouched, and what
\* handlers hold is still fit to be written.
THEOREM LifeCorrect ==
  ASSUME "unban" \notin AdminOps PROVE Spec => []LifeInv
<1>1. Init => LifeInv
  BY DEF Init, StoreInit, VerifyInit, AdminInit, Idle, Resting, NewRow, NoRow,
         LifeInv, RowLife, JobLife, RequestLife, InTransaction
<1> QED
  BY <1>1, TypeCorrect, LockedRowsAreFresh, LifeInvariance, PTL DEF Spec

\* However clients, bans, unbindings and adjustments interleave: a licence
\* that is shown as not activated has never been bound, dated or limited.
THEOREM UnusedStaysUntouched ==
  ASSUME "unban" \notin AdminOps PROVE Spec => []UnusedIsUntouched
<1>1. LifeInv => UnusedIsUntouched
  BY DEF LifeInv, RowLife, UnusedIsUntouched
<1> QED BY <1>1, LifeCorrect, PTL

\* For any number of racing clients and administrators who do not unban, the
\* activation date of a licence is set once and never changes.
THEOREM ActivationIsFinal ==
  ASSUME "unban" \notin AdminOps PROVE Spec => FirstActivationSticks
<1>1. ASSUME TypeOK, LockedRowIsFresh, LifeInv, [Next]_vars,
             NEW l \in Licenses, licenses[l].activated_at # None
      PROVE  licenses'[l].activated_at = licenses[l].activated_at
  <2>0. /\ licenses \in [Licenses -> Row] /\ adm \in [Handlers -> Job]
        /\ RowLife(licenses[l])
        /\ NewRow.activated_at = None /\ NoRow.activated_at = None
    BY <1>1 DEF TypeOK, StoreTypeOK, AdminTypeOK, LifeInv, NewRow, NoRow
  <2>1. licenses[l].status \notin {"unused", "absent"}
    BY <1>1, <2>0 DEF RowLife
  <2>2. ASSUME NEW r \in Requests, VerifyStep(r)
        PROVE  licenses'[l].activated_at = licenses[l].activated_at
    <3>1. CASE ClaimRow(r)
      BY <2>0, <2>1, <3>1 DEF ClaimRow, activation_selects, BoundRow, Row
    <3>2. CASE CommitRebind(r)
      BY <2>0, <3>2 DEF CommitRebind, BoundRow, Row
    <3> QED BY <1>1, <2>2, <3>1, <3>2, ClientWrites
  <2>3. ASSUME NEW h \in Handlers, AdminProgress(h)
        PROVE  licenses'[l].activated_at = licenses[l].activated_at
    <3>1. \A hours : Shifted(licenses[l], hours).activated_at
                       = licenses[l].activated_at
      BY <2>0 DEF Shifted, Row
    <3>2. CASE WriteStatus(h) \/ WriteUnbind(h)
      BY <2>0, <3>2 DEF WriteStatus, WriteUnbind, Write, Unbound, Row
    <3>3. CASE WriteShift(h) \/ WriteAll(h)
      BY <2>0, <3>1, <3>3 DEF WriteShift, Write, WriteAll
    <3>4. ASSUME NEW k \in Licenses, CreateOne(h, k)
          PROVE  licenses'[l].activated_at = licenses[l].activated_at
      BY <2>0, <2>1, <3>4 DEF CreateOne, Fresh
    <3> QED BY <2>3, <3>2, <3>3, <3>4 DEF AdminProgress
  <2> QED
    BY <1>1, <2>2, <2>3 DEF Next, Boot, Crash, Tick, VerifyNext, VerifyStep,
       AdminNext, AdminStart, ReadForBan, ReadForUnban, ReadForUnbind,
       ReadForAdjust, StartAdjustAll, UpdateSettings, StartCreate,
       HandlerDropped, Take, vars, storeVars
<1>2. TypeOK /\ LockedRowIsFresh /\ LifeInv /\ [Next]_vars =>
        [\A l \in Licenses : licenses[l].activated_at # None =>
           licenses'[l].activated_at = licenses[l].activated_at]_vars
  BY <1>1
<1> QED
  BY <1>2, TypeCorrect, LockedRowsAreFresh, LifeCorrect, PTL
     DEF Spec, FirstActivationSticks

-----------------------------------------------------------------------------
(* The history variables only watch.                                       *)

\* Nothing that is recorded stops or changes a step of the server: whatever
\* holds of Spec holds of HSpec.
LEMMA HistoryIsAuxiliary == HSpec => Spec
<1>1. HInit => Init
  BY DEF HInit
<1>2. [HNext]_hvars => [Next]_vars
  BY DEF HNext, hvars
<1> QED BY <1>1, <1>2, PTL DEF HSpec, Spec

-----------------------------------------------------------------------------
(* The refinement.                                                         *)

\* What the registry's quota needs besides: peak covers the limit in force,
\* and the limit that a rebind transaction has read.
QuotaInv ==
  /\ peak \in Int /\ auto_rebind_limit <= peak
  /\ \A r \in Requests :
       req[r].pc \in {"count", "commit"} => req[r].limit <= peak

\* The limit in force is a number.
LEMMA LimitType ==
  TypeOK => auto_rebind_limit \in Int
BY StoreAssumption DEF TypeOK, StoreTypeOK, auto_rebind_limit

\* The peak never falls below the limit in force, and moves only with it.
LEMMA PeakStep ==
  ASSUME TypeOK, TypeOK', QuotaInv, Record
  PROVE  /\ peak' \in Int /\ peak <= peak' /\ auto_rebind_limit' <= peak'
         /\ UNCHANGED auto_rebind_limit => UNCHANGED peak
<1>1. /\ auto_rebind_limit \in Int
      /\ peak \in Int /\ auto_rebind_limit <= peak
      /\ peak' = IF auto_rebind_limit' > peak THEN auto_rebind_limit' ELSE peak
  BY LimitType DEF QuotaInv, Record
<1>2. auto_rebind_limit' \in Int
  BY StoreAssumption DEF TypeOK, StoreTypeOK, auto_rebind_limit
<1> QED BY <1>1, <1>2

\* Only ReadLimit takes a handler to the count, and only from there it gets
\* to its COMMIT.
LEMMA LimitIsReadOnce ==
  ASSUME TypeOK, NEW r \in Requests, VerifyStep(r),
         req'[r].pc \in {"count", "commit"}
  PROVE  \/ req'[r].limit = auto_rebind_limit
         \/ req[r].pc \in {"count", "commit"} /\ req'[r].limit = req[r].limit
<1>0. req \in [Requests -> Request] /\ req[r] \in Request
  BY DEF TypeOK, VerifyTypeOK
<1>1. CASE ReadLimit(r)
  BY <1>0, <1>1, EndFields DEF ReadLimit, Decline, Request
<1>2. CASE CountRecent(r)
  BY <1>0, <1>2, EndFields DEF CountRecent, Decline, Goto, Request
<1>3. CASE Lock(r)
  <2>1. req'[r].pc \in {"log", "limit"}
    BY <1>0, <1>3, EndFields DEF Lock
  <2> QED BY <2>1
<1>4. ASSUME NEW l \in Licenses, NEW m \in Machines, Receive(r, l, m)
      PROVE  req'[r].pc = "fetch"
  BY <1>0, <1>4 DEF Receive, Idle
<1>5. ASSUME ReceiveBlank(r) PROVE req'[r].pc = "done"
  BY <1>0, <1>5 DEF ReceiveBlank, Idle
<1>6. ASSUME Refuse(r) \/ Accept(r) \/ Reread(r) \/ Claim(r) \/ Commit(r)
      PROVE  req'[r].pc = "log"
  BY <1>0, <1>6, EndFields DEF Refuse, Accept, Reread, Claim, Commit
<1>7. ASSUME StartRebind(r) \/ ClaimMisses(r) \/ QueryFails(r) \/ AckLost(r)
             \/ Finish(r) \/ Cancel(r)
      PROVE  req'[r].pc \in {"begin", "reread", "done", "idle"}
  BY <1>0, <1>7, EndFields DEF StartRebind, ClaimMisses, QueryFails, AckLost,
     Finish, Cancel
<1>8. ASSUME Fetch(r) \/ StartBind(r) \/ Begin(r) \/ LogVerify(r)
      PROVE  req'[r].pc \in {"decide", "bind", "lock", "done"}
  BY <1>0, <1>8 DEF Fetch, StartBind, Begin, LogVerify, Request
<1>9. ASSUME StartActivation(r) PROVE req'[r].pc \in {"activate", "panicked"}
  BY <1>0, <1>9, VerdictFields DEF StartActivation, Request
<1> QED BY <1>1, <1>2, <1>3, <1>4, <1>5, <1>6, <1>7, <1>8, <1>9
        DEF VerifyStep, Progress

\* Every step keeps each limit that is in use within the peak.
LEMMA QuotaInvariance ==
  ASSUME TypeOK, TypeOK', LockedRowIsFresh, QuotaInv, [HNext]_hvars
  PROVE  QuotaInv'
<1>1. CASE HNext
  <2>1. peak' \in Int /\ peak <= peak' /\ auto_rebind_limit' <= peak'
    BY <1>1, PeakStep DEF HNext
  <2>2. ASSUME NEW q \in Requests, req'[q].pc \in {"count", "commit"}
        PROVE  req'[q].limit <= peak'
    <3>0. req[q].limit \in Int /\ auto_rebind_limit \in Int
          /\ peak \in Int /\ auto_rebind_limit <= peak
      BY StoreAssumption, LimitType DEF TypeOK, VerifyTypeOK, Request, QuotaInv
    <3>1. CASE req'[q] = req[q]
      BY <2>1, <2>2, <3>0, <3>1 DEF QuotaInv
    <3>2. ASSUME NEW r \in Requests, VerifyStep(r), q = r
          PROVE  req'[q].limit <= peak'
      <4>1. \/ req'[q].limit = auto_rebind_limit
            \/ req[q].pc \in {"count", "commit"} /\ req'[q].limit = req[q].limit
        BY <2>2, <3>2, LimitIsReadOnce
      <4>2. req[q].pc \in {"count", "commit"} => req[q].limit <= peak
        BY DEF QuotaInv
      <4> QED BY <2>1, <3>0, <4>1, <4>2
    <3>3. CASE VerifyNext
      <4>1. PICK r \in Requests : VerifyStep(r)
        BY <3>3 DEF VerifyNext, VerifyStep
      <4> QED BY <3>1, <3>2, <4>1, OthersKeepTheirRows
    <3>4. CASE Crash
      BY <2>2, <3>4 DEF Crash, Idle
    <3> QED BY <1>1, <3>1, <3>3, <3>4 DEF HNext, Next, Boot, Tick
  <2> QED BY <2>1, <2>2 DEF QuotaInv
<1>2. CASE UNCHANGED hvars
  BY <1>2 DEF hvars, vars, storeVars, historyVars, QuotaInv, auto_rebind_limit
<1> QED BY <1>1, <1>2

\* Every limit that a rebind transaction goes by was in force once.
THEOREM QuotaCorrect == HSpec => []QuotaInv
<1>1. HInit => QuotaInv
  BY DEF HInit, HistoryInit, Init, StoreInit, VerifyInit, Idle, QuotaInv,
         auto_rebind_limit
<1>2. TypeOK /\ TypeOK' /\ LockedRowIsFresh /\ QuotaInv /\ [HNext]_hvars
        => QuotaInv'
  BY QuotaInvariance
<1> QED
  BY <1>1, <1>2, HistoryIsAuxiliary, TypeCorrect, LockedRowsAreFresh, PTL
     DEF HSpec

\* The rebinds of a window are finitely many rows of the log.
LEMMA RecentIsFinite ==
  ASSUME StoreTypeOK, NEW l \in Licenses, NEW at
  PROVE  /\ IsFiniteSet(DOMAIN machine_rebind_logs[l])
         /\ IsFiniteSet(RecentRebinds(l, at))
         /\ Cardinality(RecentRebinds(l, at)) \in Nat
<1>1. machine_rebind_logs[l] \in Seq(Rebind)
  BY DEF StoreTypeOK
<1>2. /\ Len(machine_rebind_logs[l]) \in Nat
      /\ DOMAIN machine_rebind_logs[l] = 1 .. Len(machine_rebind_logs[l])
  BY <1>1
<1>3. IsFiniteSet(DOMAIN machine_rebind_logs[l])
  BY <1>2, FS_Interval
<1>4. RecentRebinds(l, at) \in SUBSET DOMAIN machine_rebind_logs[l]
  BY DEF RecentRebinds
<1>5. IsFiniteSet(RecentRebinds(l, at))
  BY <1>3, <1>4, FS_Subset
<1> QED BY <1>3, <1>5, FS_CardinalityType

\* A row is its four columns.
LEMMA SameRow ==
  ASSUME NEW a \in Row, NEW b \in Row,
         a.status = b.status, a.machine_code = b.machine_code,
         a.activated_at = b.activated_at, a.expires_at = b.expires_at
  PROVE  a = b
BY DEF Row

\* The two conditional UPDATEs are the registry's Activate and Bind, although
\* what they write was computed from a row read earlier.
LEMMA ClaimRefines ==
  ASSUME TypeOK, LifeInv, NEW r \in Requests, ClaimRow(r), UNCHANGED peak
  PROVE  Registry!RNext
<1> DEFINE l == req[r].license_key  m == req[r].machine_code
<1>0. /\ req[r] \in Request /\ WellFormed(req[r])
      /\ licenses \in [Licenses -> Row]
      /\ RowLife(licenses[l]) \/ l \notin Licenses
      /\ RequestLife(req[r])
  BY DEF TypeOK, VerifyTypeOK, StoreTypeOK, LifeInv
<1>1. l \in Licenses /\ m \in Machines
  BY <1>0 DEF ClaimRow, WellFormed, Statements, Request
<1>2. CASE /\ req[r].pc = "activate" /\ activation_selects(licenses[l])
           /\ licenses' = [licenses EXCEPT ![l] = ActivatedRow(r)]
  <2>1. licenses[l] = NewRow
    BY <1>0, <1>1, <1>2 DEF activation_selects, RowLife
  <2>2. req[r].at \in 0 .. now
    BY <1>0, <1>2 DEF RequestLife
  <2>3. ActivatedRow(r) = [status |-> "active", machine_code |-> m,
          activated_at |-> req[r].at,
          expires_at |-> IF Duration[l] = 0 THEN None
                         ELSE req[r].at + Duration[l]]
    <3>1. req[r].expires_at = IF Duration[l] = 0 THEN None
                              ELSE req[r].at + Duration[l]
      BY <1>0, <1>2 DEF RequestLife
    <3>2. ActivatedRow(r) =
            [status |-> "active", machine_code |-> m,
             activated_at |-> req[r].at, expires_at |-> req[r].expires_at]
      <4> DEFINE row == [status |-> "active", machine_code |-> m,
                         activated_at |-> req[r].at,
                         expires_at |-> req[r].expires_at]
      <4>1. licenses[l] \in Row /\ req[r].at \in Instant
            /\ req[r].expires_at \in Instant \cup {None}
        BY <1>0, <1>1 DEF Request
      <4>2. row \in Row
        BY <1>1, <4>1 DEF Row, Status
      <4>3. ActivatedRow(r) \in Row
        BY <1>1, <4>1 DEF ActivatedRow, Row, Status
      <4>4. /\ ActivatedRow(r).status = "active"
            /\ ActivatedRow(r).machine_code = m
            /\ ActivatedRow(r).activated_at = req[r].at
            /\ ActivatedRow(r).expires_at = req[r].expires_at
        BY <4>1 DEF ActivatedRow, Row
      <4> QED BY <4>2, <4>3, <4>4, SameRow
    <3> QED BY <3>1, <3>2
  <2>4. Registry!Fresh = NewRow
    BY DEF Registry!Fresh, Registry!Missing, NewRow, NoRow
  <2>5. Registry!Activate(l, m, req[r].at)
    BY <1>2, <2>1, <2>3, <2>4 DEF Registry!Activate, Registry!Becomes, ClaimRow
  <2> QED BY <1>1, <2>2, <2>5 DEF Registry!RNext
<1>3. CASE /\ req[r].pc = "bind" /\ binding_selects(licenses[l])
           /\ licenses' = [licenses EXCEPT ![l] = BoundRow(r)]
  <2>1. Registry!Bind(l, m)
    BY <1>3 DEF Registry!Bind, Registry!Becomes, ClaimRow, BoundRow,
                binding_selects
  <2> QED BY <1>1, <2>1 DEF Registry!RNext
<1> QED BY <1>2, <1>3 DEF ClaimRow

\* The rebind transaction, seen through the lock it holds, is one Rebind: the
\* machine it takes the licence from is still bound, and the quota has room.
LEMMA CommitRefines ==
  ASSUME TypeOK, LockedRowIsFresh, LifeInv, QuotaInv, NEW r \in Requests,
         CommitRebind(r), UNCHANGED peak
  PROVE  Registry!RNext
<1> DEFINE l == req[r].license_key  m == req[r].machine_code  at == req[r].at
           recent == RecentRebinds(l, at)
<1>0. /\ req[r] \in Request /\ WellFormed(req[r]) /\ StoreTypeOK
      /\ licenses \in [Licenses -> Row]
      /\ req[r].pc = "commit" /\ FreshFor(r) /\ RequestLife(req[r])
      /\ req[r].limit \in Int /\ peak \in Int /\ req[r].limit <= peak
  BY StoreAssumption DEF TypeOK, VerifyTypeOK, StoreTypeOK, LifeInv, QuotaInv,
     CommitRebind, LockedRowIsFresh, InTransaction, Request
<1>1. /\ l \in Licenses /\ m \in Machines /\ req[r].row.machine_code # None
      /\ at \in 0 .. now
  BY <1>0 DEF WellFormed, Statements, InTransaction, Request, RequestLife
<1>2. /\ licenses[l].status = "active"
      /\ licenses[l].machine_code = req[r].row.machine_code
      /\ licenses[l].machine_code \notin {None, m}
      /\ ~(Cardinality(recent) >= req[r].limit)
  BY <1>0, <1>1 DEF FreshFor, LimitReached
<1>3. Cardinality(recent) < peak
  <2>1. Cardinality(recent) \in Nat
    BY <1>0, <1>1, RecentIsFinite
  <2> HIDE DEF recent
  <2> QED BY <1>0, <1>2, <2>1
<1>4. Registry!Rebind(l, m, at)
  <2>1. recent = {i \in DOMAIN machine_rebind_logs[l] :
                    machine_rebind_logs[l][i].created_at >= at - Day}
    BY DEF RecentRebinds
  <2>2. Registry!Becomes(l, [licenses[l] EXCEPT !.machine_code = m])
    BY <1>0 DEF CommitRebind, BoundRow, Registry!Becomes
  <2>3. machine_rebind_logs' =
          [machine_rebind_logs EXCEPT ![l] = Append(machine_rebind_logs[l],
             [created_at |-> at, old |-> licenses[l].machine_code, new |-> m])]
    BY <1>2 DEF CommitRebind
  <2>4. \A S : Registry!Cardinality(S) = Cardinality(S)
    BY DEF Registry!Cardinality, Cardinality
  <2> HIDE DEF l, m, at, recent
  <2> QED BY <1>2, <1>3, <2>1, <2>2, <2>3, <2>4 DEF Registry!Rebind
<1> QED BY <1>1, <1>4 DEF Registry!RNext

\* The unconditional back-office writes are Ban, Unbind, Shift and Create.
LEMMA AdminWriteRefines ==
  ASSUME TypeOK, LockedRowIsFresh, LifeInv, NEW h \in Handlers,
         AdminProgress(h), UNCHANGED peak
  PROVE  [Registry!RNext]_Registry!rvars
<1>0. /\ licenses \in [Licenses -> Row] /\ adm \in [Handlers -> Job]
      /\ JobLife(adm[h]) /\ \A l \in Licenses : RowLife(licenses[l])
  BY DEF TypeOK, StoreTypeOK, AdminTypeOK, LifeInv
<1>1. CASE WriteStatus(h)
  <2> DEFINE l == adm[h].lic
  <2>1. /\ l \in Licenses /\ adm[h].status = "banned"
        /\ licenses[l].status # "absent"
    BY <1>0, <1>1 DEF WriteStatus, Job, Resting, JobLife
  <2>2. Registry!Ban(l)
    BY <1>1, <2>1 DEF WriteStatus, Write, Registry!Ban, Registry!Becomes
  <2> QED BY <2>1, <2>2 DEF Registry!RNext
<1>2. CASE WriteUnbind(h)
  <2> DEFINE l == adm[h].lic
  <2>1. l \in Licenses /\ licenses[l].status # "absent"
    BY <1>0, <1>2 DEF WriteUnbind, Job, Resting, JobLife
  <2>2. Registry!Unbind(l)
    BY <1>2, <2>1 DEF WriteUnbind, Write, Unbound, Registry!Unbind,
                      Registry!Becomes
  <2> QED BY <2>1, <2>2 DEF Registry!RNext
<1>3. CASE WriteShift(h)
  <2> DEFINE l == adm[h].lic  hours == adm[h].hours
  <2>1. l \in Licenses /\ hours \in -MaxHours .. MaxHours
    BY <1>0, <1>3 DEF WriteShift, Job, Resting, JobLife
  <2>2. CASE licenses[l].expires_at # None /\ InRange(licenses[l], hours)
    <3>1. licenses' = [licenses EXCEPT ![l] =
                         [licenses[l] EXCEPT !.expires_at = @ + hours]]
      BY <1>3, <2>2 DEF WriteShift, Write, Shifted
    <3>2. licenses' = [k \in Licenses |-> IF k \in {l}
                         THEN [licenses[k] EXCEPT !.expires_at = @ + hours]
                         ELSE licenses[k]]
      BY <1>0, <2>1, <3>1
    <3>3. Registry!Shift({l}, hours)
      BY <1>3, <2>2, <3>2 DEF WriteShift, Write, Registry!Shift
    <3> QED BY <2>1, <3>3 DEF Registry!RNext
  <2>3. CASE ~(licenses[l].expires_at # None /\ InRange(licenses[l], hours))
    <3>1. licenses' = [licenses EXCEPT ![l] = licenses[l]]
      BY <1>3, <2>3 DEF WriteShift, Write, Shifted
    <3>2. licenses' = licenses
      BY <1>0, <3>1
    <3> QED BY <1>3, <3>2 DEF WriteShift, Write, Registry!rvars
  <2> QED BY <2>2, <2>3
<1>4. CASE WriteAll(h)
  <2> DEFINE hours == adm[h].hours
             hit   == {l \in adm[h].targets :
                         InScope(licenses[l], adm[h].scope, adm[h].at)}
  <2>1. /\ hours \in -MaxHours .. MaxHours /\ hit \in SUBSET Licenses
    BY <1>0, <1>4 DEF WriteAll, Job, Resting, JobLife
  <2>2. \A l \in hit : licenses[l].expires_at # None
    BY DEF InScope
  <2>3. CASE \A l \in hit : InRange(licenses[l], hours)
    <3>1. licenses' = [l \in Licenses |-> IF l \in hit
                         THEN [licenses[l] EXCEPT !.expires_at = @ + hours]
                         ELSE licenses[l]]
      <4>1. licenses' = [l \in Licenses |-> IF l \in hit
                           THEN Shifted(licenses[l], hours) ELSE licenses[l]]
        BY <1>4, <2>3 DEF WriteAll
      <4> HIDE DEF hit
      <4> QED BY <2>2, <4>1 DEF Shifted
    <3>2. Registry!Shift(hit, hours)
      BY <1>4, <2>2, <3>1 DEF WriteAll, Registry!Shift
    <3> HIDE DEF hit
    <3> QED BY <2>1, <3>2 DEF Registry!RNext
  <2>4. CASE ~ \A l \in hit : InRange(licenses[l], hours)
    BY <1>4, <2>4 DEF WriteAll, Registry!rvars
  <2> QED BY <2>3, <2>4
<1>5. ASSUME NEW l \in Licenses, CreateOne(h, l)
      PROVE  Registry!RNext
  <2>1. licenses[l] = NoRow
    BY <1>0, <1>5 DEF CreateOne, Fresh, RowLife
  <2>2. Registry!Create(l)
    BY <1>5, <2>1 DEF CreateOne, Registry!Create, Registry!Becomes,
       Registry!Fresh, Registry!Missing, NewRow, NoRow
  <2> QED BY <2>2 DEF Registry!RNext
<1> QED BY <1>1, <1>2, <1>3, <1>4, <1>5 DEF AdminProgress

\* Every step of a verify handler is a step of the registry, or none.
LEMMA ClientRefines ==
  ASSUME TypeOK, TypeOK', LockedRowIsFresh, LifeInv, QuotaInv, Record,
         NEW r \in Requests, VerifyStep(r)
  PROVE  [Registry!RNext]_Registry!rvars
<1>1. UNCHANGED <<auto_rebind_limit_per_24h, now>>
  BY ClientsOnlyWriteRows
<1>2. UNCHANGED peak
  BY <1>1, PeakStep DEF auto_rebind_limit
<1>3. CASE UNCHANGED <<licenses, machine_rebind_logs>>
  BY <1>1, <1>2, <1>3 DEF Registry!rvars
<1> QED BY <1>2, <1>3, ClientWrites, ClaimRefines, CommitRefines

\* Every step of a back-office handler is a step of the registry, or none.
LEMMA AdminRefines ==
  ASSUME TypeOK, TypeOK', LockedRowIsFresh, LifeInv, QuotaInv, Record,
         AdminNext
  PROVE  [Registry!RNext]_Registry!rvars
<1>0. PICK h \in Handlers : AdminStart(h) \/ AdminProgress(h) \/ HandlerDropped(h)
  BY DEF AdminNext
<1>1. ASSUME NEW limit \in LimitInputs, UpdateSettings(h, limit)
      PROVE  [Registry!RNext]_Registry!rvars
  <2>1. peak' \in Int /\ peak <= peak' /\ peak \in Int
    BY PeakStep DEF QuotaInv
  <2>2. CASE peak' = peak
    BY <1>1, <2>2 DEF UpdateSettings, Registry!rvars
  <2>3. CASE peak' > peak
    BY <1>1, <2>3 DEF UpdateSettings, Registry!RNext, Registry!RaiseQuota
  <2> QED BY <2>1, <2>2, <2>3
<1>2. CASE AdminProgress(h)
  <2>1. UNCHANGED auto_rebind_limit_per_24h
    BY <1>2 DEF AdminProgress, WriteStatus, WriteUnbind, WriteShift, Write,
                WriteAll, CreateOne
  <2>2. UNCHANGED peak
    BY <2>1, PeakStep DEF auto_rebind_limit
  <2> QED BY <1>2, <2>2, AdminWriteRefines
<1>3. CASE UNCHANGED storeVars
  <2>1. UNCHANGED peak
    BY <1>3, PeakStep DEF auto_rebind_limit, storeVars
  <2> QED BY <1>3, <2>1 DEF storeVars, Registry!rvars
<1> QED
  BY <1>0, <1>1, <1>2, <1>3 DEF AdminStart, ReadForBan, ReadForUnban,
     ReadForUnbind, ReadForAdjust, StartAdjustAll, StartCreate, HandlerDropped,
     Take

\* For any number of licences, clients, administrators and restarts, with
\* every fault, as long as nobody lifts a ban: each step of the server is an
\* atomic operation of the registry, allowed at that moment, or changes
\* nothing that a table shows.
THEOREM ServerImplementsRegistry ==
  ASSUME "unban" \notin AdminOps PROVE HSpec => ImplementsRegistry
<1>1. HInit => Registry!RInit
  <2> SUFFICES ASSUME HInit PROVE Registry!RInit
    OBVIOUS
  <2>1. Registry!Missing = NoRow /\ Registry!Fresh = NewRow
    BY DEF Registry!Missing, Registry!Fresh, NoRow, NewRow
  <2> QED BY <2>1 DEF HInit, HistoryInit, Init, StoreInit, Registry!RInit
<1>2. ASSUME TypeOK, TypeOK', LockedRowIsFresh, LifeInv, QuotaInv,
             [HNext]_hvars
      PROVE  [Registry!RNext]_Registry!rvars
  <2>1. CASE HNext /\ VerifyNext
    <3>1. PICK r \in Requests : VerifyStep(r)
      BY <2>1 DEF VerifyNext, VerifyStep
    <3> QED BY <1>2, <2>1, <3>1, ClientRefines DEF HNext
  <2>2. CASE HNext /\ AdminNext
    BY <1>2, <2>2, AdminRefines DEF HNext
  <2>3. CASE HNext /\ (Boot \/ Crash)
    <3>1. /\ UNCHANGED auto_rebind_limit
          /\ UNCHANGED <<licenses, machine_rebind_logs, now>>
      BY <2>3 DEF Boot, Crash, SeedSetting, auto_rebind_limit
    <3>2. UNCHANGED peak
      BY <1>2, <2>3, <3>1, PeakStep DEF HNext
    <3> QED BY <3>1, <3>2 DEF Registry!rvars
  <2>4. CASE HNext /\ Tick
    <3>1. UNCHANGED auto_rebind_limit
      BY <2>4 DEF Tick, auto_rebind_limit
    <3>2. UNCHANGED peak
      BY <1>2, <2>4, <3>1, PeakStep DEF HNext
    <3> QED BY <2>4, <3>2 DEF Tick, Registry!RNext, Registry!Pass
  <2>5. CASE UNCHANGED hvars
    BY <2>5 DEF hvars, vars, storeVars, historyVars, Registry!rvars
  <2> QED BY <1>2, <2>1, <2>2, <2>3, <2>4, <2>5 DEF HNext, Next
<1>3. TypeOK /\ TypeOK' /\ LockedRowIsFresh /\ LifeInv /\ QuotaInv /\ [HNext]_hvars
        => [Registry!RNext]_Registry!rvars
  BY <1>2
<1> QED
  BY <1>1, <1>3, HistoryIsAuxiliary, TypeCorrect, LockedRowsAreFresh,
     LifeCorrect, QuotaCorrect, PTL
     DEF HSpec, ImplementsRegistry, Registry!RSpec
=============================================================================
