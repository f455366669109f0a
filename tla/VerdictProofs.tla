---------------------------- MODULE VerdictProofs ----------------------------
(***************************************************************************)
(* Theorems about what clients are told, for every value of the constants: *)
(* each verdict was true of the licence at a moment of its request.        *)
(***************************************************************************)
EXTENDS HistoryProofs

-----------------------------------------------------------------------------
(* What the memory holds.                                                  *)

\* The row of r's licence as it is now, whatever r's handler has read of it.
Current(r) == licenses[req[r].license_key]

\* What holds after a step is remembered from then on.
LEMMA Noticed ==
  ASSUME TypeOK', Record, NEW r \in Requests, req'[r].license_key # None
  PROVE  /\ Current(r)'.status = "absent" => "absent" \in seen'[r]
         /\ Current(r)'.status = "banned" => "banned" \in seen'[r]
         /\ Current(r)'.expires_at # None /\ Current(r)'.expires_at <= now'
              => "expired" \in seen'[r]
         /\ Usable(Current(r))' => "usable" \in seen'[r]
         /\ Current(r)'.status # "banned"
              /\ Current(r)'.machine_code = req'[r].machine_code
              => "mine" \in seen'[r]
         /\ Current(r)'.machine_code \notin {None, req'[r].machine_code}
              => "rival" \in seen'[r]
<1>1. Holding(req[r])' \subseteq seen'[r]
  BY DEF Record, Remember
<1>2. now' \in Int /\ Current(r)' \in Row
  BY StoreAssumption DEF TypeOK, StoreTypeOK, VerifyTypeOK, Request, Current
<1>3. Current(r)'.expires_at \in Int \cup {None}
  BY <1>2, StoreAssumption DEF Row, Instant
<1>4. /\ Current(r)'.status = "absent" => "absent" \in Holding(req[r])'
      /\ Current(r)'.status = "banned" => "banned" \in Holding(req[r])'
      /\ Current(r)'.expires_at # None /\ Current(r)'.expires_at <= now'
           => "expired" \in Holding(req[r])'
  BY DEF Holding, Facts, Current
<1>5. Usable(Current(r))' => "usable" \in Holding(req[r])'
  BY <1>2, <1>3 DEF Holding, Facts, Current, Usable, Expired
<1>6. /\ Current(r)'.status # "banned"
           /\ Current(r)'.machine_code = req'[r].machine_code
           => "mine" \in Holding(req[r])'
      /\ Current(r)'.machine_code \notin {None, req'[r].machine_code}
           => "rival" \in Holding(req[r])'
  BY DEF Holding, Facts, Current
<1> QED BY <1>1, <1>4, <1>5, <1>6

\* Nothing is forgotten before the reply has left.
LEMMA NothingForgotten ==
  ASSUME Record, NEW r \in Requests, req[r].pc # "idle",
         req'[r].license_key # None
  PROVE  seen[r] \subseteq seen'[r]
BY DEF Record, Remember

\* Only clients bind machines, and only on a licence that is then active.
LEMMA MachineMoves ==
  ASSUME TypeOK, LockedRowIsFresh, [Next]_vars, NEW l \in Licenses
  PROVE  \/ licenses'[l].machine_code \in {None, licenses[l].machine_code}
         \/ licenses'[l].status = "active"
<1>0. licenses \in [Licenses -> Row]
  BY DEF TypeOK, StoreTypeOK
<1>1. CASE VerifyNext
  <2>1. PICK r \in Requests : VerifyStep(r)
    BY <1>1 DEF VerifyNext, VerifyStep
  <2>2. CASE ClaimRow(r)
    <3>1. CASE l = req[r].license_key
      <4>1. ActivatedRow(r).status = "active" /\ BoundRow(r).status = licenses[l].status
        BY <1>0, <3>1 DEF ActivatedRow, BoundRow, Row
      <4> QED BY <1>0, <2>2, <3>1, <4>1 DEF ClaimRow, binding_selects
    <3>2. CASE l # req[r].license_key
      BY <1>0, <2>2, <3>2 DEF ClaimRow
    <3> QED BY <3>1, <3>2
  <2>3. CASE CommitRebind(r) /\ FreshFor(r)
    BY <1>0, <2>3 DEF CommitRebind, BoundRow, FreshFor, Row
  <2> QED BY <2>1, <2>2, <2>3, ClientWrites
<1>2. CASE AdminNext
  BY <1>2, AdminBindings
<1> QED BY <1>1, <1>2 DEF Next, Boot, Crash, Tick, vars, storeVars

\* The clock only moves forward, and no handler moves it.
LEMMA TimePasses ==
  ASSUME now \in Int, Next PROVE now' \in {now, now + 1}
<1>1. CASE VerifyNext
  BY <1>1, ClientsOnlyWriteRows DEF VerifyNext, VerifyStep
<1>2. CASE AdminNext
  BY <1>2 DEF AdminNext, AdminStart, AdminProgress, ReadForBan, ReadForUnban,
     ReadForUnbind, ReadForAdjust, StartAdjustAll, UpdateSettings, StartCreate,
     HandlerDropped, Take, storeVars, WriteStatus, WriteUnbind, WriteShift,
     Write, WriteAll, CreateOne
<1>3. CASE Boot \/ Crash \/ Tick
  BY <1>3 DEF Boot, Crash, Tick
<1> QED BY <1>1, <1>2, <1>3 DEF Next

-----------------------------------------------------------------------------
(* Every job belongs to an operation that is in use.                       *)

JobInUse(job) ==
  /\ job.pc = "status" /\ job.status = "banned" => "ban" \in AdminOps
  /\ job.pc = "unbind" => "unbind" \in AdminOps
  /\ job.pc = "shift"  => "adjust" \in AdminOps
  /\ job.pc = "sweep"  => "adjust_all" \in AdminOps
JobsInUse == \A h \in Handlers : JobInUse(adm[h])

\* Every step keeps the jobs to the operations in use.
LEMMA JobsInUseInvariance == TypeOK /\ JobsInUse /\ [Next]_vars => JobsInUse'
<1> SUFFICES ASSUME TypeOK, JobsInUse, [Next]_vars, NEW g \in Handlers
             PROVE  JobInUse(adm'[g])
  BY DEF JobsInUse
<1>0. /\ adm \in [Handlers -> Job] /\ JobInUse(adm[g]) /\ JobInUse(Resting)
  BY DEF TypeOK, AdminTypeOK, JobsInUse, JobInUse, Resting
<1>1. ASSUME NEW h \in Handlers, NEW job, Take(h, job), JobInUse(job)
      PROVE  JobInUse(adm'[g])
  BY <1>0, <1>1 DEF Take
<1>2. ASSUME NEW h \in Handlers, AdminStart(h) PROVE JobInUse(adm'[g])
  <2>1. ASSUME NEW l \in Licenses, ReadForBan(h, l) PROVE JobInUse(adm'[g])
    BY <1>1, <2>1 DEF ReadForBan, JobInUse
  <2>2. ASSUME NEW l \in Licenses, ReadForUnban(h, l) PROVE JobInUse(adm'[g])
    BY <1>1, <2>2 DEF ReadForUnban, unban_status, JobInUse
  <2>3. ASSUME NEW l \in Licenses, ReadForUnbind(h, l) PROVE JobInUse(adm'[g])
    BY <1>1, <2>3 DEF ReadForUnbind, JobInUse
  <2>4. ASSUME NEW l \in Licenses, NEW hours \in HourInputs,
               ReadForAdjust(h, l, hours)
        PROVE  JobInUse(adm'[g])
    BY <1>1, <2>4 DEF ReadForAdjust, JobInUse
  <2>5. ASSUME NEW scope \in Scopes, NEW hours \in HourInputs,
               StartAdjustAll(h, scope, hours)
        PROVE  JobInUse(adm'[g])
    BY <1>1, <2>5 DEF StartAdjustAll, JobInUse
  <2>6. ASSUME NEW limit \in LimitInputs, UpdateSettings(h, limit)
        PROVE  JobInUse(adm'[g])
    BY <1>0, <2>6 DEF UpdateSettings
  <2>7. ASSUME NEW owner \in Users, NEW l \in Licenses,
               NEW count \in 1 .. MaxBatch,
               StartCreate(h, owner, Duration[l], count)
        PROVE  JobInUse(adm'[g])
    BY <1>1, <2>7 DEF StartCreate, JobInUse
  <2> QED BY <1>2, <2>1, <2>2, <2>3, <2>4, <2>5, <2>6, <2>7 DEF AdminStart
<1>3. ASSUME NEW h \in Handlers, AdminProgress(h) \/ HandlerDropped(h)
      PROVE  JobInUse(adm'[g])
  <2>1. CASE Rest(h)
    BY <1>0, <2>1 DEF Rest
  <2>2. ASSUME NEW l \in Licenses, CreateOne(h, l), ~Rest(h)
        PROVE  JobInUse(adm'[g])
    <3>1. adm[h].pc = "insert" /\ adm' = [adm EXCEPT ![h].left = @ - 1]
      BY <2>2 DEF CreateOne
    <3>2. adm[h] \in [pc : {"insert"}, owner : Users, days : Nat, left : 1 .. MaxBatch]
      BY <1>0, <3>1 DEF Job, Resting
    <3>3. g = h => adm'[g].pc = "insert"
      BY <1>0, <3>1, <3>2
    <3> QED BY <1>0, <3>1, <3>3 DEF JobInUse
  <2> QED BY <1>3, <2>1, <2>2 DEF AdminProgress, HandlerDropped, WriteStatus,
                                  WriteUnbind, WriteShift, WriteAll
<1>4. CASE AdminNext
  BY <1>2, <1>3, <1>4 DEF AdminNext
<1>5. CASE Crash
  BY <1>0, <1>5 DEF Crash
<1>6. CASE UNCHANGED adm
  BY <1>0, <1>6
<1> QED BY <1>4, <1>5, <1>6 DEF Next, Boot, Tick, vars

\* A handler only ever works on an operation that administrators use.
THEOREM JobsAreInUse == Spec => []JobsInUse
<1>1. Init => JobsInUse
  BY DEF Init, AdminInit, Resting, JobsInUse, JobInUse
<1> QED BY <1>1, TypeCorrect, JobsInUseInvariance, PTL DEF Spec

-----------------------------------------------------------------------------
(* Verdicts and what was true of the licence.                              *)

\* The handler has found its licence usable and has not answered yet.
AfterDecision == {"bind", "activate", "reread", "begin", "lock"} \cup InTransaction

\* What r's handler has read, it has seen; and whoever makes the current row
\* r's, while r's handler waits, makes it so on a licence not banned.
Witnessed(r) ==
  LET q == req[r] IN
  /\ q.pc = "idle" => q.result = None
  /\ q.license_key = None => q.result \in {None, "bad_request"}
  /\ q.pc = "decide" =>
       /\ Usable(q.row) => "usable" \in seen[r]
       /\ q.row.status = "absent" => "absent" \in seen[r]
       /\ q.row.status = "banned" => "banned" \in seen[r]
       /\ BoundElsewhere(r) => "rival" \in seen[r]
       /\ q.row.status # "banned" /\ (\/ q.row.machine_code = q.machine_code
                                      \/ Current(r).machine_code = q.machine_code)
            => "mine" \in seen[r]
  /\ q.pc \in AfterDecision =>
       /\ "usable" \in seen[r]
       /\ Current(r).machine_code = q.machine_code => "mine" \in seen[r]
  /\ q.pc \in {"begin", "lock"} \cup InTransaction => "rival" \in seen[r]
  /\ q.result = "valid"   => {"usable", "mine"} \subseteq seen[r]
  /\ q.result = "invalid" => "absent" \in seen[r]
  /\ q.result = "banned"  => "banned" \in seen[r]
WitnessInv == \A r \in Requests : Witnessed(r)

\* Who only waits keeps its witnesses, whatever others do to the row.
LEMMA WitnessWaiting ==
  ASSUME TypeOK, TypeOK', LockedRowIsFresh, WitnessInv, HNext,
         NEW r \in Requests, req'[r] = req[r]
  PROVE  Witnessed(r)'
<1> DEFINE q == req[r]
<1>0. /\ q \in Request /\ WellFormed(q) /\ Witnessed(r)
      /\ licenses \in [Licenses -> Row] /\ None \notin Int
      /\ now \in Int /\ now' \in Int
  BY StoreAssumption DEF TypeOK, VerifyTypeOK, StoreTypeOK, WitnessInv
<1>1. CASE q.license_key = None
  <2>1. q.pc \notin {"decide"} \cup AfterDecision /\ q.result \in {None, "bad_request"}
    BY <1>0, <1>1 DEF WellFormed, Statements, InTransaction, AfterDecision, Witnessed
  <2> QED BY <1>0, <1>1, <2>1, VerifyAssumption
          DEF Witnessed, AfterDecision, InTransaction, Results
<1>2. CASE q.license_key # None /\ q.pc = "idle"
  BY <1>0, <1>2, VerifyAssumption
     DEF Witnessed, AfterDecision, InTransaction, Results
<1>3. CASE q.license_key # None /\ q.pc # "idle"
  <2>1. seen[r] \subseteq seen'[r]
    BY <1>3, NothingForgotten DEF HNext
  <2>2. Current(r)'.machine_code = q.machine_code /\ q.machine_code # None =>
          \/ Current(r).machine_code = q.machine_code
          \/ "mine" \in seen'[r]
    <3>1. q.license_key \in Licenses
      BY <1>0, <1>3 DEF Request
    <3>2. \/ Current(r)'.machine_code \in {None, Current(r).machine_code}
          \/ Current(r)'.status = "active"
      BY <3>1, MachineMoves DEF Current, HNext
    <3>3. Current(r)'.status # "banned"
              /\ Current(r)'.machine_code = req'[r].machine_code
              => "mine" \in seen'[r]
      BY <1>3, Noticed DEF HNext
    <3> QED BY <3>2, <3>3
  <2>3. q.pc \in {"decide"} \cup AfterDecision => q.machine_code # None
    BY <1>0 DEF WellFormed, Statements, AfterDecision
  <2>4. now <= now'
    BY <1>0, TimePasses DEF HNext
  <2>5. Usable(q.row)' => Usable(q.row)
    <3>1. q.row.expires_at \in Int \cup {None}
      BY <1>0, StoreAssumption DEF Request, Row, Instant
    <3> QED BY <1>0, <2>4, <3>1 DEF Usable, Expired
  <2>6. CASE q.pc = "decide"
    BY <1>0, <2>1, <2>2, <2>3, <2>5, <2>6
       DEF Witnessed, AfterDecision, InTransaction, BoundElsewhere
  <2>7. CASE q.pc # "decide"
    BY <1>0, <2>1, <2>2, <2>3, <2>7
       DEF Witnessed, AfterDecision, InTransaction, BoundElsewhere
  <2> QED BY <2>6, <2>7
<1> QED BY <1>1, <1>2, <1>3

\* The working handler's own step: each branch has seen what it concludes.
LEMMA WitnessStep ==
  ASSUME TypeOK, TypeOK', LockedRowIsFresh, WitnessInv, HNext,
         NEW r \in Requests, VerifyStep(r)
  PROVE  Witnessed(r)'
<1> DEFINE q == req[r]   n == req'[r]
<1>0. /\ q \in Request /\ WellFormed(q) /\ Witnessed(r) /\ n \in Request
      /\ req \in [Requests -> Request]
      /\ licenses \in [Licenses -> Row] /\ Record
  BY DEF TypeOK, VerifyTypeOK, StoreTypeOK, WitnessInv, HNext
<1>1. ASSUME NEW l \in Licenses, NEW m \in Machines, Receive(r, l, m)
      PROVE  Witnessed(r)'
  <2>1. n.pc = "fetch" /\ n.result = None /\ n.license_key = l
    BY <1>0, <1>1 DEF Receive, Idle
  <2> QED BY <2>1, StoreAssumption, VerifyAssumption
          DEF Witnessed, AfterDecision, InTransaction, Results
<1>2. ASSUME \/ ReceiveBlank(r) \/ Finish(r) \/ Cancel(r)
      PROVE  Witnessed(r)'
  <2>1. n.pc \in {"idle", "done"} /\ n.result \in {None, "bad_request"}
        /\ (n.pc = "idle" => n.result = None)
    <3>1. CASE ReceiveBlank(r)
      BY <1>0, <3>1 DEF ReceiveBlank, Idle
    <3>2. CASE Finish(r) \/ Cancel(r)
      <4>1. n = Idle
        BY <1>0, <3>2 DEF Finish, Cancel
      <4> QED BY <4>1 DEF Idle
    <3> QED BY <1>2, <3>1, <3>2
  <2> QED BY <2>1, VerifyAssumption
          DEF Witnessed, AfterDecision, InTransaction, Results
<1>3. ASSUME \/ AckLost(r) \/ (QueryFails(r) /\ q.pc # "log")
      PROVE  Witnessed(r)'
  <2>1. n.pc = "done" /\ n.result = "error" /\ n.license_key = q.license_key
        /\ q.license_key # None
    BY <1>0, <1>3, VerdictFields DEF AckLost, QueryFails, Fail, ClaimRow,
       CommitRebind, WellFormed, Statements, InTransaction
  <2> QED BY <2>1, VerifyAssumption
          DEF Witnessed, AfterDecision, InTransaction, Results
<1> SUFFICES ASSUME \/ Progress(r) /\ ~Finish(r)
                    \/ QueryFails(r) /\ q.pc = "log"
             PROVE  Witnessed(r)'
  BY <1>1, <1>2, <1>3 DEF VerifyStep
<1>4. /\ q.pc \in Statements \cup {"decide", "log"}
      /\ n.license_key = q.license_key /\ n.machine_code = q.machine_code
      /\ q.license_key \in Licenses /\ q.machine_code \in Machines
  <2>1. /\ n.license_key = q.license_key /\ n.machine_code = q.machine_code
    BY <1>0, VerdictFields DEF Progress, QueryFails, Fetch, Refuse, StartRebind,
       StartBind, StartActivation, Accept, Claim, ClaimMisses, Reread, Begin,
       Lock, ReadLimit, CountRecent, Decline, Commit, LogVerify, Conclude, Fail,
       Goto, Request
  <2>2. q.pc \in Statements \cup {"decide", "log"}
    BY DEF Progress, Fetch, Refuse, StartRebind, StartBind, StartActivation,
       Accept, Claim, ClaimRow, ClaimMisses, Reread, Begin, Lock, ReadLimit,
       CountRecent, Commit, CommitRebind, LogVerify, Statements, InTransaction
  <2> QED BY <1>0, <2>1, <2>2 DEF WellFormed, Request
<1>5. seen[r] \subseteq seen'[r]
  BY <1>0, <1>4, NothingForgotten, StoreAssumption DEF Statements, InTransaction
<1>6. /\ Current(r)'.status = "absent" => "absent" \in seen'[r]
      /\ Current(r)'.status = "banned" => "banned" \in seen'[r]
      /\ Usable(Current(r))' => "usable" \in seen'[r]
      /\ Current(r)'.status # "banned" /\ Current(r)'.machine_code = q.machine_code
           => "mine" \in seen'[r]
      /\ Current(r)'.machine_code \notin {None, q.machine_code}
           => "rival" \in seen'[r]
  BY <1>0, <1>4, Noticed, StoreAssumption
<1>7. \* Results that were known stay witnessed.
      /\ q.result = "valid"   => {"usable", "mine"} \subseteq seen'[r]
      /\ q.result = "invalid" => "absent" \in seen'[r]
      /\ q.result = "banned"  => "banned" \in seen'[r]
  BY <1>0, <1>5 DEF Witnessed
<1> DEFINE Told(result) ==
             /\ result = "valid"   => {"usable", "mine"} \subseteq seen'[r]
             /\ result = "invalid" => "absent" \in seen'[r]
             /\ result = "banned"  => "banned" \in seen'[r]
<1>8. ASSUME n.pc \in {"log", "done", "panicked"}, Told(n.result)
      PROVE  Witnessed(r)'
  BY <1>4, <1>8, StoreAssumption DEF Witnessed, AfterDecision, InTransaction
<1>9. ASSUME n.pc \in AfterDecision, n.result = q.result, "usable" \in seen'[r],
             Current(r)'.machine_code = q.machine_code => "mine" \in seen'[r],
             n.pc \in {"begin", "lock"} \cup InTransaction => "rival" \in seen'[r]
      PROVE  Witnessed(r)'
  BY <1>4, <1>7, <1>9, StoreAssumption DEF Witnessed, AfterDecision, InTransaction
<1>10. ASSUME NEW result \in Results, NEW expires_at, Told(result),
              Conclude(r, result, expires_at)
       PROVE  Witnessed(r)'
  <2>1. n.pc = "log" /\ n.result = result
    BY <1>0, <1>10, EndFields
  <2> QED BY <1>8, <1>10, <2>1
<1> HIDE DEF Told
<1>11. CASE Fetch(r)
  <2>1. /\ n.pc = "decide" /\ n.row = Current(r)' /\ n.result = q.result
        /\ Current(r)'.machine_code = n.row.machine_code
    BY <1>0, <1>4, <1>11 DEF Fetch, Request, Current, storeVars
  <2> QED BY <1>4, <1>6, <1>7, <2>1, StoreAssumption
          DEF Witnessed, AfterDecision, InTransaction, BoundElsewhere, Usable, Expired
<1>12. CASE Refuse(r)
  <2>1. PICK result \in {"invalid", "banned", "expired"} :
          /\ \E expires_at : Conclude(r, result, expires_at)
          /\ result = "invalid" => q.row.status = "absent"
          /\ result = "banned" => q.row.status = "banned"
    BY <1>12 DEF Refuse
  <2>2. Told(result)
    BY <1>0, <1>5, <1>12, <2>1 DEF Told, Witnessed, Refuse
  <2> QED BY <1>10, <2>1, <2>2 DEF Results
<1>13. CASE StartRebind(r) \/ StartBind(r)
            \/ (StartActivation(r) /\ ~Overflows(q.license_key, q.row, now))
  <2>1. /\ q.pc = "decide" /\ Usable(q.row) /\ q.row.status # "banned"
        /\ Current(r)' = Current(r) /\ n.result = q.result
        /\ \/ n.pc = "begin" /\ BoundElsewhere(r)
           \/ n.pc \in {"bind", "activate"}
    BY <1>0, <1>4, <1>13 DEF StartRebind, StartBind, StartActivation, Goto,
       Usable, Request, Current, storeVars
  <2> QED BY <1>0, <1>5, <1>9, <2>1 DEF Witnessed, AfterDecision, InTransaction
<1>14. CASE StartActivation(r) /\ Overflows(q.license_key, q.row, now)
  <2>1. n.pc = "panicked" /\ n.result = None
    BY <1>0, <1>14, VerdictFields DEF StartActivation
  <2> QED BY <1>8, <2>1, VerifyAssumption DEF Told, Results
<1>15. CASE Accept(r)
  <2>1. {"usable", "mine"} \subseteq seen'[r]
    BY <1>0, <1>5, <1>15 DEF Accept, Witnessed
  <2> QED BY <1>10, <1>15, <2>1 DEF Accept, Results, Told
<1>16. CASE Claim(r) \/ Commit(r)
  <2>1. "usable" \in seen'[r]
    BY <1>0, <1>5, <1>16 DEF Claim, ClaimRow, Commit, CommitRebind, Witnessed,
       AfterDecision, InTransaction
  <2>2. Current(r)'.status = "active" /\ Current(r)'.machine_code = q.machine_code
    <3>1. CASE Claim(r)
      <4>1. licenses[q.license_key] \in Row
        BY <1>0, <1>4
      <4>2. /\ ActivatedRow(r).status = "active"
            /\ ActivatedRow(r).machine_code = q.machine_code
            /\ BoundRow(r).status = licenses[q.license_key].status
            /\ BoundRow(r).machine_code = q.machine_code
        BY <4>1 DEF ActivatedRow, BoundRow, Row
      <4> QED BY <1>0, <1>4, <3>1, <4>2 DEF Claim, ClaimRow, binding_selects,
                                            Current
    <3>2. CASE Commit(r)
      <4>1. licenses[q.license_key].status = "active"
        BY <1>4, <3>2 DEF Commit, CommitRebind, LockedRowIsFresh, FreshFor,
                          InTransaction
      <4> QED BY <1>0, <1>4, <3>2, <4>1 DEF Commit, CommitRebind, BoundRow, Row,
                                            Current
    <3> QED BY <1>16, <3>1, <3>2
  <2>3. Told("valid")
    BY <1>6, <2>1, <2>2 DEF Told
  <2> QED BY <1>10, <1>16, <2>3 DEF Claim, Commit, Results
<1>17. CASE ClaimMisses(r) \/ Begin(r)
  <2>1. /\ q.pc \in AfterDecision /\ n.result = q.result
        /\ Current(r)' = Current(r)
        /\ n.pc = "reread" \/ (n.pc = "lock" /\ q.pc = "begin")
    BY <1>0, <1>4, <1>17 DEF ClaimMisses, Begin, Goto, Request, AfterDecision,
       Current, storeVars
  <2> QED BY <1>0, <1>5, <1>9, <2>1 DEF Witnessed, AfterDecision, InTransaction
<1>18. CASE Reread(r)
  <2>1. "usable" \in seen[r]
        /\ (Current(r).machine_code = q.machine_code => "mine" \in seen[r])
    BY <1>0, <1>18 DEF Reread, Witnessed, AfterDecision
  <2>2. CASE reread_matches(licenses[q.license_key], q)
    <3>1. Told("valid")
      BY <1>5, <2>1, <2>2 DEF Told, reread_matches, Current
    <3> QED BY <1>10, <1>18, <2>2, <3>1 DEF Reread, Results
  <2>3. CASE ~reread_matches(licenses[q.license_key], q)
    BY <1>10, <1>18, <2>3 DEF Reread, Told, Results
  <2> QED BY <2>2, <2>3
<1>19. CASE Lock(r) \/ ReadLimit(r) \/ CountRecent(r)
  <2>1. /\ q.pc \in {"lock"} \cup InTransaction
        /\ Current(r)' = Current(r)
    BY <1>4, <1>19 DEF Lock, ReadLimit, CountRecent, InTransaction, Current
  <2>2. "usable" \in seen'[r] /\ "rival" \in seen'[r]
        /\ (Current(r)'.machine_code = q.machine_code => "mine" \in seen'[r])
    BY <1>0, <1>5, <2>1 DEF Witnessed, AfterDecision
  <2>3. CASE n.pc \in InTransaction /\ n.result = q.result
    BY <1>9, <2>2, <2>3 DEF AfterDecision
  <2>4. CASE \E expires_at : Conclude(r, "machine_mismatch", expires_at)
    BY <1>10, <2>4 DEF Told, Results
  <2>5. CASE /\ \E expires_at : Conclude(r, "valid", expires_at)
             /\ current_machine_code(q.license_key) = q.machine_code
    <3>1. Current(r)'.machine_code = q.machine_code
      BY <1>4, <2>1, <2>5, StoreAssumption DEF current_machine_code, Current
    <3> QED BY <1>10, <2>2, <2>5, <3>1 DEF Told, Results
  <2>6. \A pc : Goto(r, pc) => n.pc = pc /\ n.result = q.result
    BY <1>0 DEF Goto, Request
  <2> QED
    BY <1>0, <1>19, <2>3, <2>4, <2>5, <2>6 DEF Lock, ReadLimit, CountRecent,
       Decline, InTransaction, Request
<1>20. CASE LogVerify(r) \/ (QueryFails(r) /\ q.pc = "log")
  <2>1. n.pc = "done" /\ n.result = q.result
    BY <1>0, <1>20 DEF LogVerify, QueryFails, Goto, Request, Statements, InTransaction
  <2> QED BY <1>7, <1>8, <2>1 DEF Told
<1> QED
  BY <1>11, <1>12, <1>13, <1>14, <1>15, <1>16, <1>17, <1>18, <1>19, <1>20
     DEF Progress

\* Every step keeps the witnesses, of the handler that works and of those that
\* wait.
LEMMA WitnessInvariance ==
  TypeOK /\ TypeOK' /\ LockedRowIsFresh /\ WitnessInv /\ [HNext]_hvars
    => WitnessInv'
<1> SUFFICES ASSUME TypeOK, TypeOK', LockedRowIsFresh, WitnessInv, [HNext]_hvars,
                    NEW r \in Requests
             PROVE  Witnessed(r)'
  BY DEF WitnessInv
<1>1. CASE HNext /\ req'[r] = req[r]
  BY <1>1, WitnessWaiting
<1>2. CASE HNext /\ VerifyNext /\ req'[r] # req[r]
  <2>1. PICK s \in Requests : VerifyStep(s)
    BY <1>2 DEF VerifyNext, VerifyStep
  <2>2. s = r
    BY <1>2, <2>1, OthersKeepTheirRows
  <2> QED BY <1>2, <2>1, <2>2, WitnessStep
<1>3. CASE HNext /\ Crash
  <2>1. req'[r] = Idle
    BY <1>3 DEF Crash
  <2> QED BY <2>1, VerifyAssumption
          DEF Idle, Witnessed, AfterDecision, InTransaction, Results
<1>4. CASE UNCHANGED hvars
  BY <1>4 DEF hvars, vars, storeVars, historyVars, WitnessInv, Witnessed, Current,
     Usable, Expired, BoundElsewhere
<1> QED BY <1>1, <1>2, <1>3, <1>4 DEF HNext, Next, Boot, Tick

\* Each step of a request has seen what it goes on from.
THEOREM StepsAreWitnessed == HSpec => []WitnessInv
<1>1. HInit => WitnessInv
  BY VerifyAssumption DEF HInit, Init, VerifyInit, Idle, WitnessInv, Witnessed,
     AfterDecision, InTransaction, Results
<1> QED
  BY <1>1, WitnessInvariance, HistoryIsAuxiliary, TypeCorrect,
     LockedRowsAreFresh, PTL DEF HSpec

\* Whatever clients, administrators, faults and crashes do between the reads
\* and writes of a request: it is told "valid" only if its licence was usable
\* at one moment of the request, and its machine's and not banned at one.
THEOREM ValidIsEntitled == HSpec => []ValidWasEntitled
<1>1. WitnessInv => ValidWasEntitled
  BY DEF WitnessInv, Witnessed, ValidWasEntitled, Answered
<1> QED BY <1>1, StepsAreWitnessed, PTL

\* Two of the refusals name what was true with every operation in use: who is
\* told "invalid" met a moment without the licence, and who is told "banned" a
\* moment of the ban.
THEOREM BansAndAbsencesAreTrue ==
  HSpec => [](\A r \in Requests :
                /\ Answered(r, "invalid") => "absent" \in seen[r]
                /\ Answered(r, "banned")  => "banned" \in seen[r])
<1>1. WitnessInv => \A r \in Requests :
        /\ Answered(r, "invalid") => "absent" \in seen[r]
        /\ Answered(r, "banned")  => "banned" \in seen[r]
  BY DEF WitnessInv, Witnessed, Answered
<1> QED BY <1>1, StepsAreWitnessed, PTL

-----------------------------------------------------------------------------
(* Refusals, while nobody moves an expiry or lifts a ban.                  *)

NoShifts == AdminOps \cap {"unban", "adjust", "adjust_all"} = {}

\* An expiry that is there stays what it is.
LEMMA ExpiriesStand ==
  ASSUME NoShifts, TypeOK, TypeOK', LockedRowIsFresh, LifeInv, JobsInUse, Next,
         NEW l \in Licenses, licenses[l].expires_at # None
  PROVE  licenses'[l].expires_at = licenses[l].expires_at
<1>1. \A h \in Handlers : ~Adjusts(h)
  BY DEF Adjusts, NoShifts, JobsInUse, JobInUse, WriteShift, WriteAll
<1>2. Adjusted(l) = 0
  BY <1>1, AdjustedHours
<1>3. licenses[l].expires_at \in Int
  <2>1. licenses[l] \in Row
    BY DEF TypeOK, StoreTypeOK
  <2> QED BY <2>1 DEF Row, Instant
<1>4. licenses[l] # NewRow /\ "unban" \notin AdminOps
  BY DEF NewRow, NoRow, NoShifts
<1> QED BY <1>2, <1>3, <1>4, ExpiryMoves

\* A verdict still ahead is about the expiry the row still has.
Justified(r) ==
  /\ req[r].pc = "decide" /\ req[r].row.expires_at # None
       => Current(r).expires_at = req[r].row.expires_at
  /\ req[r].result = "expired" => "expired" \in seen[r]
RefusalInv == \A r \in Requests : Justified(r)

\* Every step keeps the expiries that handlers have read those of the rows.
LEMMA RefusalInvariance ==
  ASSUME NoShifts, TypeOK, TypeOK', LockedRowIsFresh, LifeInv, JobsInUse,
         WitnessInv, RefusalInv, [HNext]_hvars
  PROVE  RefusalInv'
<1> SUFFICES ASSUME NEW r \in Requests PROVE Justified(r)'
  BY DEF RefusalInv
<1> DEFINE q == req[r]   n == req'[r]
<1>0. /\ q \in Request /\ WellFormed(q) /\ Witnessed(r) /\ Justified(r)
      /\ req \in [Requests -> Request]
  BY DEF TypeOK, VerifyTypeOK, WitnessInv, RefusalInv
<1>1. CASE HNext /\ n = q
  <2>1. q.pc = "decide" => q.license_key \in Licenses
    BY <1>0 DEF WellFormed, Request
  <2>2. q.result = "expired" => q.pc # "idle" /\ q.license_key # None
    BY <1>0, VerifyAssumption DEF Witnessed, Results
  <2> QED BY <1>0, <1>1, <2>1, <2>2, ExpiriesStand, NothingForgotten
          DEF HNext, Justified, Current
<1>2. CASE HNext /\ VerifyStep(r)
  <2>1. CASE Fetch(r)
    <3>1. /\ n.pc = "decide" /\ n.row = Current(r)' /\ n.result = q.result
          /\ q.pc = "fetch" /\ n.license_key = q.license_key
          /\ Current(r)'.expires_at = n.row.expires_at
      BY <1>0, <2>1 DEF Fetch, Request, Current, storeVars
    <3>2. q.license_key # None
      BY <1>0, <3>1 DEF WellFormed, Statements
    <3> QED BY <1>0, <1>2, <3>1, <3>2, NothingForgotten DEF HNext, Justified
  <2>2. CASE Refuse(r)
    <3>1. /\ n.pc = "log" /\ q.pc = "decide"
          /\ n.license_key = q.license_key /\ Current(r)' = Current(r)
          /\ UNCHANGED now
          /\ n.result = "expired" => Expired(q.row)
      BY <1>0, <2>2, VerdictFields DEF Refuse, Conclude, Current, storeVars
    <3>2. q.license_key # None
      BY <1>0, <3>1 DEF WellFormed
    <3> QED BY <1>0, <1>2, <3>1, <3>2, Noticed DEF HNext, Justified, Expired
  <2>3. CASE ~Fetch(r) /\ ~Refuse(r)
    <3>1. ASSUME \/ \E l \in Licenses, m \in Machines : Receive(r, l, m)
                 \/ Finish(r) \/ Cancel(r)
          PROVE  n.pc # "decide" /\ n.result # "expired"
      <4>1. CASE \E l \in Licenses, m \in Machines : Receive(r, l, m)
        <5>1. n.pc = "fetch" /\ n.result = None
          BY <1>0, <4>1 DEF Receive, Idle
        <5> QED BY <5>1, VerifyAssumption DEF Results
      <4>2. CASE Finish(r) \/ Cancel(r)
        <5>1. n = Idle
          BY <1>0, <4>2 DEF Finish, Cancel
        <5> QED BY <5>1, VerifyAssumption DEF Idle, Results
      <4> QED BY <3>1, <4>1, <4>2
    <3>2. ASSUME ReceiveBlank(r)
          PROVE  n.pc # "decide" /\ n.result # "expired"
      BY <1>0, <3>2 DEF ReceiveBlank, Idle
    <3>3. ASSUME NEW pc, NEW result, NEW expires_at,
                 req' = [req EXCEPT ![r] = Verdict(@, pc, result, expires_at)]
          PROVE  n.pc = pc /\ n.result = result
      BY <1>0, <3>3, VerdictFields
    <3>4. ASSUME \/ Accept(r) \/ Claim(r) \/ Reread(r) \/ Commit(r) \/ AckLost(r)
                 \/ StartActivation(r) /\ Overflows(q.license_key, q.row, now)
                 \/ QueryFails(r) /\ q.pc # "log"
          PROVE  n.pc # "decide" /\ n.result # "expired"
      BY <3>3, <3>4, VerifyAssumption DEF Accept, Claim, Reread, Commit, AckLost,
         StartActivation, QueryFails, Fail, Conclude, Results
    <3>5. ASSUME \/ StartRebind(r) \/ StartBind(r) \/ ClaimMisses(r) \/ Begin(r)
                 \/ StartActivation(r) /\ ~Overflows(q.license_key, q.row, now)
                 \/ LogVerify(r)
                 \/ QueryFails(r) /\ q.pc = "log"
          PROVE  /\ n.pc # "decide" /\ n.result = q.result
                 /\ q.pc # "idle" /\ n.license_key = q.license_key
      BY <1>0, <3>5 DEF StartRebind, StartBind, ClaimMisses, Begin, StartActivation,
         LogVerify, QueryFails, Goto, Request, Statements, InTransaction
    <3>6. ASSUME Lock(r) \/ ReadLimit(r) \/ CountRecent(r)
          PROVE  /\ n.pc # "decide"
                 /\ \/ n.result # "expired"
                    \/ /\ n.result = q.result
                       /\ q.pc # "idle" /\ n.license_key = q.license_key
      <4> DEFINE Concluded ==
                   \E result \in {"valid", "machine_mismatch"} :
                     \E expires_at : Conclude(r, result, expires_at)
      <4>1. CASE Concluded
        BY <3>3, <4>1 DEF Conclude
      <4>2. CASE ~Concluded
        BY <1>0, <3>6, <4>2 DEF Lock, ReadLimit, CountRecent, Decline, Goto, Request
      <4> QED BY <4>1, <4>2
    <3>7. \/ n.pc # "decide" /\ n.result # "expired"
          \/ /\ n.pc # "decide" /\ n.result = q.result
             /\ q.pc # "idle" /\ n.license_key = q.license_key
      BY <1>2, <2>3, <3>1, <3>2, <3>4, <3>5, <3>6 DEF VerifyStep, Progress
    <3>8. q.result = "expired" => q.license_key # None
      BY <1>0, VerifyAssumption DEF Witnessed, Results
    <3> QED BY <1>0, <1>2, <3>7, <3>8, NothingForgotten DEF HNext, Justified
  <2> QED BY <2>1, <2>2, <2>3
<1>3. CASE HNext /\ VerifyNext /\ n # q
  <2>1. PICK s \in Requests : VerifyStep(s)
    BY <1>3 DEF VerifyNext, VerifyStep
  <2>2. s = r
    BY <1>3, <2>1, OthersKeepTheirRows
  <2> QED BY <1>2, <1>3, <2>1, <2>2
<1>4. CASE HNext /\ Crash
  <2>1. req'[r] = Idle
    BY <1>4 DEF Crash
  <2> QED BY <2>1, VerifyAssumption DEF Idle, Justified, Results
<1>5. CASE UNCHANGED hvars
  BY <1>0, <1>5 DEF hvars, vars, storeVars, historyVars, Justified, Current
<1> QED BY <1>1, <1>3, <1>4, <1>5 DEF HNext, Next, Boot, Tick

\* While nobody moves expiries or lifts bans: who is told "invalid", "banned"
\* or "expired" asked about a licence that was so at a moment of the request.
THEOREM RefusalsHaveCauses ==
  ASSUME AdminOps \cap {"unban", "adjust", "adjust_all"} = {}
  PROVE  HSpec => []RefusalHadCause
<1>1. NoShifts /\ "unban" \notin AdminOps
  BY DEF NoShifts
<1>2. HInit => RefusalInv
  BY VerifyAssumption DEF HInit, Init, VerifyInit, Idle, RefusalInv, Justified,
                          Results
<1>3. TypeOK /\ TypeOK' /\ LockedRowIsFresh /\ LifeInv /\ JobsInUse
        /\ WitnessInv /\ RefusalInv /\ [HNext]_hvars => RefusalInv'
  BY <1>1, RefusalInvariance
<1>4. WitnessInv /\ RefusalInv => RefusalHadCause
  BY DEF WitnessInv, Witnessed, RefusalInv, Justified, RefusalHadCause, Answered
<1>5. Spec => []LifeInv
  BY <1>1, LifeCorrect
<1> QED
  BY <1>2, <1>3, <1>4, <1>5, HistoryIsAuxiliary, TypeCorrect, JobsAreInUse,
     LockedRowsAreFresh, StepsAreWitnessed, PTL DEF HSpec

-----------------------------------------------------------------------------
(* Mismatches, while nobody bans or unbinds.                               *)

NoReleases == AdminOps \cap {"ban", "unbind"} = {}

\* Then an active licence is always bound, and a machine that lost a race
\* finds another one in the row.
Bound(row) ==
  /\ row.status # "banned"
  /\ row.status = "active" \/ row.activated_at # None => row.machine_code # None
JobBound(job) ==
  job.pc = "status" =>
    /\ job.status # "banned"
    /\ job.status = "active" => licenses[job.lic].machine_code # None
Awaits(r) ==
  LET q == req[r] IN
  /\ q.pc # "bind"
  /\ q.pc = "decide" => /\ Bound(q.row)
                        /\ q.row.status # "absent" => Current(r).status # "absent"
  /\ q.pc = "activate" => Current(r).status # "absent"
  /\ q.pc = "reread" => Current(r).machine_code # None
  /\ q.result = "machine_mismatch" => "rival" \in seen[r]
BoundInv ==
  /\ \A l \in Licenses : Bound(licenses[l])
  /\ \A h \in Handlers : JobBound(adm[h])
RivalInv == \A r \in Requests : Awaits(r)

\* A binding stays a binding, a licence in the table stays in it.
StaysBound ==
  \A l \in Licenses :
    /\ licenses[l].machine_code # None => licenses'[l].machine_code # None
    /\ licenses[l].status # "absent" => licenses'[l].status # "absent"

\* Without bans and unbindings, every step keeps the active rows bound.
LEMMA RowsStayBound ==
  ASSUME NoReleases, TypeOK, LockedRowIsFresh, DatingInv, JobsInUse, BoundInv, Next
  PROVE  (\A l \in Licenses : Bound(licenses[l]))' /\ StaysBound
<1>0. /\ licenses \in [Licenses -> Row] /\ adm \in [Handlers -> Job]
      /\ None \notin Machines
      /\ \A l \in Licenses : Bound(licenses[l]) /\ Dated(l, licenses[l])
  BY StoreAssumption DEF TypeOK, StoreTypeOK, AdminTypeOK, BoundInv, DatingInv,
                         ActivatedRowsAreDated
<1>1. CASE UNCHANGED licenses
  BY <1>0, <1>1 DEF Bound, StaysBound
<1>2. ASSUME NEW l \in Licenses, NEW row \in Row, Bound(row),
             licenses' = [licenses EXCEPT ![l] = row],
             licenses[l].machine_code # None => row.machine_code # None,
             licenses[l].status # "absent" => row.status # "absent"
      PROVE  (\A k \in Licenses : Bound(licenses[k]))' /\ StaysBound
  BY <1>0, <1>2 DEF Bound, StaysBound
<1>3. ASSUME NEW r \in Requests, VerifyStep(r)
      PROVE  (\A l \in Licenses : Bound(licenses[l]))' /\ StaysBound
  <2> DEFINE l == req[r].license_key
  <2>0. req[r] \in Request /\ WellFormed(req[r])
    BY DEF TypeOK, VerifyTypeOK
  <2>1. CASE ClaimRow(r) \/ CommitRebind(r)
    <3>1. /\ l \in Licenses /\ req[r].machine_code \in Machines
          /\ req[r].at \in Instant /\ req[r].expires_at \in Instant \cup {None}
      BY <2>0, <2>1 DEF ClaimRow, CommitRebind, WellFormed, Statements,
                        InTransaction, Request
    <3>2. /\ ActivatedRow(r) \in Row /\ BoundRow(r) \in Row
          /\ Bound(ActivatedRow(r)) /\ Bound(BoundRow(r))
          /\ ActivatedRow(r).machine_code # None /\ BoundRow(r).machine_code # None
          /\ ActivatedRow(r).status = "active"
          /\ BoundRow(r).status = licenses[l].status
      BY <1>0, <3>1 DEF ActivatedRow, BoundRow, Row, Bound, Status
    <3>3. \/ licenses' = [licenses EXCEPT ![l] = ActivatedRow(r)]
          \/ licenses' = [licenses EXCEPT ![l] = BoundRow(r)]
      BY <2>1 DEF ClaimRow, CommitRebind
    <3> HIDE DEF l
    <3> QED BY <1>2, <3>1, <3>2, <3>3
  <2> QED BY <1>1, <1>3, <2>1, ClientWrites
<1>4. ASSUME NEW h \in Handlers, AdminProgress(h)
      PROVE  (\A l \in Licenses : Bound(licenses[l]))' /\ StaysBound
  <2>1. ~WriteUnbind(h)
    BY DEF NoReleases, JobsInUse, JobInUse, WriteUnbind
  <2>2. ASSUME NEW l \in Licenses, NEW hours
        PROVE  /\ Bound(Shifted(licenses[l], hours))
               /\ Shifted(licenses[l], hours).status = licenses[l].status
               /\ Shifted(licenses[l], hours).machine_code = licenses[l].machine_code
    BY <1>0 DEF Shifted, Bound, Row
  <2>3. CASE WriteStatus(h)
    <3> DEFINE l == adm[h].lic  row == [licenses[l] EXCEPT !.status = adm[h].status]
    <3>1. l \in Licenses /\ adm[h].status \in Status
      BY <1>0, <2>3 DEF WriteStatus, Job, Resting
    <3>2. /\ row \in Row /\ Bound(row) /\ row.status # "absent"
          /\ row.machine_code = licenses[l].machine_code
      BY <1>0, <2>3, <3>1 DEF WriteStatus, BoundInv, JobBound, Bound, Row, Status
    <3>3. licenses' = [licenses EXCEPT ![l] = row]
      BY <2>3 DEF WriteStatus, Write
    <3> HIDE DEF l, row
    <3> QED BY <1>2, <3>1, <3>2, <3>3
  <2>4. CASE WriteShift(h) \/ WriteAll(h)
    <3>1. ASSUME NEW l \in Licenses
          PROVE  licenses'[l] \in {licenses[l], Shifted(licenses[l], adm[h].hours)}
      BY <1>0, <2>4 DEF WriteShift, Write, WriteAll
    <3> QED BY <1>0, <2>2, <3>1 DEF Bound, StaysBound
  <2>5. ASSUME NEW l \in Licenses, CreateOne(h, l)
        PROVE  (\A k \in Licenses : Bound(licenses[k]))' /\ StaysBound
    <3>1. licenses[l].machine_code = None
      BY <1>0, <2>5 DEF CreateOne, Fresh, Dated
    <3>2. Bound(NewRow) /\ NewRow.status = "unused"
      BY DEF Bound, NewRow, NoRow
    <3> QED BY <1>2, <2>5, <3>1, <3>2, ConstantRows DEF CreateOne
  <2> QED BY <1>4, <2>1, <2>3, <2>4, <2>5 DEF AdminProgress
<1>5. AdminNext => UNCHANGED licenses \/ \E h \in Handlers : AdminProgress(h)
  BY DEF AdminNext, AdminStart, ReadForBan, ReadForUnban, ReadForUnbind,
     ReadForAdjust, StartAdjustAll, UpdateSettings, StartCreate,
     HandlerDropped, Take, storeVars
<1>6. VerifyNext => \E r \in Requests : VerifyStep(r)
  BY DEF VerifyNext, VerifyStep
<1> QED BY <1>1, <1>3, <1>4, <1>5, <1>6 DEF Next, Boot, Crash, Tick

\* No job of the back office is to undo that.
LEMMA JobsStayBound ==
  ASSUME NoReleases, TypeOK, BoundInv, Next, StaysBound, NEW g \in Handlers
  PROVE  JobBound(adm[g])'
<1>0. /\ adm \in [Handlers -> Job] /\ JobBound(adm[g]) /\ JobBound(Resting)'
      /\ \A l \in Licenses : Bound(licenses[l])
  BY DEF TypeOK, AdminTypeOK, BoundInv, JobBound, Resting
<1>1. CASE adm'[g] = adm[g]
  <2>1. adm[g].pc = "status" => adm[g].lic \in Licenses
    BY <1>0 DEF Job, Resting
  <2> QED BY <1>0, <1>1, <2>1 DEF JobBound, StaysBound
<1>2. CASE adm'[g] = Resting
  BY <1>0, <1>2
<1>3. ASSUME NEW h \in Handlers, NEW job, Take(h, job), JobBound(job)'
      PROVE  JobBound(adm[g])'
  BY <1>0, <1>1, <1>3 DEF Take
<1>4. ASSUME NEW h \in Handlers, AdminStart(h) PROVE JobBound(adm[g])'
  <2>1. ASSUME NEW l \in Licenses PROVE ~ReadForBan(h, l) /\ ~ReadForUnbind(h, l)
    BY DEF NoReleases, ReadForBan, ReadForUnbind
  <2>2. ASSUME NEW l \in Licenses, ReadForUnban(h, l) PROVE JobBound(adm[g])'
    <3>1. licenses' = licenses
      BY <2>2 DEF ReadForUnban, Take, storeVars
    <3> QED BY <1>0, <1>3, <2>2, <3>1 DEF ReadForUnban, unban_status, JobBound, Bound
  <2>3. ASSUME NEW l \in Licenses, NEW hours \in HourInputs,
               ReadForAdjust(h, l, hours)
        PROVE  JobBound(adm[g])'
    BY <1>3, <2>3 DEF ReadForAdjust, JobBound
  <2>4. ASSUME NEW scope \in Scopes, NEW hours \in HourInputs,
               StartAdjustAll(h, scope, hours)
        PROVE  JobBound(adm[g])'
    BY <1>3, <2>4 DEF StartAdjustAll, JobBound
  <2>5. ASSUME NEW limit \in LimitInputs, UpdateSettings(h, limit)
        PROVE  JobBound(adm[g])'
    BY <1>1, <2>5 DEF UpdateSettings
  <2>6. ASSUME NEW owner \in Users, NEW l \in Licenses,
               NEW count \in 1 .. MaxBatch,
               StartCreate(h, owner, Duration[l], count)
        PROVE  JobBound(adm[g])'
    BY <1>3, <2>6 DEF StartCreate, JobBound
  <2> QED BY <1>4, <2>1, <2>2, <2>3, <2>4, <2>5, <2>6 DEF AdminStart
<1>5. ASSUME NEW h \in Handlers, AdminProgress(h) \/ HandlerDropped(h)
      PROVE  JobBound(adm[g])'
  <2>1. CASE Rest(h)
    BY <1>0, <1>1, <1>2, <2>1 DEF Rest
  <2>2. ASSUME NEW l \in Licenses, CreateOne(h, l), ~Rest(h)
        PROVE  JobBound(adm[g])'
    <3>1. adm[h].pc = "insert" /\ adm' = [adm EXCEPT ![h].left = @ - 1]
      BY <2>2 DEF CreateOne
    <3>2. adm[h] \in [pc : {"insert"}, owner : Users, days : Nat, left : 1 .. MaxBatch]
      BY <1>0, <3>1 DEF Job, Resting
    <3>3. g = h => adm'[g].pc = "insert"
      BY <1>0, <3>1, <3>2
    <3> QED BY <1>0, <1>1, <3>1, <3>3 DEF JobBound
  <2> QED BY <1>5, <2>1, <2>2 DEF AdminProgress, HandlerDropped, WriteStatus,
                                  WriteUnbind, WriteShift, WriteAll
<1>6. CASE AdminNext
  BY <1>4, <1>5, <1>6 DEF AdminNext
<1>7. CASE Crash
  BY <1>2, <1>7 DEF Crash
<1> QED BY <1>1, <1>6, <1>7 DEF Next, Boot, Tick

\* Without bans and unbindings, active rows stay bound, whatever is under way.
LEMMA BoundInvariance ==
  NoReleases /\ TypeOK /\ LockedRowIsFresh /\ DatingInv /\ JobsInUse /\ BoundInv
    /\ [Next]_vars => BoundInv'
<1> SUFFICES ASSUME NoReleases, TypeOK, LockedRowIsFresh, DatingInv, JobsInUse,
                    BoundInv, [Next]_vars
             PROVE  BoundInv'
  OBVIOUS
<1>1. CASE Next
  BY <1>1, RowsStayBound, JobsStayBound DEF BoundInv
<1>2. CASE UNCHANGED vars
  BY <1>2 DEF vars, storeVars, BoundInv, Bound, JobBound
<1> QED BY <1>1, <1>2

\* Each branch of the working handler that answers "machine_mismatch" has met a
\* rival.
LEMMA RivalStep ==
  ASSUME TypeOK, TypeOK', BoundInv, WitnessInv, RivalInv, HNext,
         NEW r \in Requests, VerifyStep(r)
  PROVE  Awaits(r)'
<1> DEFINE q == req[r]   n == req'[r]
<1>0. /\ q \in Request /\ WellFormed(q) /\ Witnessed(r) /\ Awaits(r)
      /\ req \in [Requests -> Request] /\ Record
      /\ licenses \in [Licenses -> Row]
      /\ \A l \in Licenses : Bound(licenses[l])
  BY DEF TypeOK, StoreTypeOK, VerifyTypeOK, WitnessInv, RivalInv, BoundInv, HNext
<1>1. q.pc \in Statements \cup {"decide", "log"} =>
        q.license_key \in Licenses /\ q.machine_code \in Machines
  BY <1>0 DEF WellFormed, Request
<1>2. ASSUME n.pc \notin {"bind", "decide", "activate", "reread"},
             n.result # "machine_mismatch"
      PROVE  Awaits(r)'
  BY <1>2 DEF Awaits
<1>3. ASSUME NEW pc, NEW result, NEW expires_at,
             req' = [req EXCEPT ![r] = Verdict(@, pc, result, expires_at)]
      PROVE  n.pc = pc /\ n.result = result /\ n.license_key = q.license_key
             /\ n.machine_code = q.machine_code
  BY <1>0, <1>3, VerdictFields
<1>4. ASSUME n.result = q.result, n.license_key = q.license_key, q.pc # "idle"
      PROVE  n.result = "machine_mismatch" => "rival" \in seen'[r]
  <2>1. q.result = "machine_mismatch" => q.license_key # None
    BY <1>0, VerifyAssumption DEF Witnessed, Results
  <2> QED BY <1>0, <1>4, <2>1, NothingForgotten DEF Awaits
<1>5. CASE \E l \in Licenses, m \in Machines : Receive(r, l, m)
  <2>1. n.pc = "fetch" /\ n.result = None
    BY <1>0, <1>5 DEF Receive, Idle
  <2> QED BY <1>2, <2>1, VerifyAssumption DEF Results
<1>6. CASE ReceiveBlank(r)
  <2>1. n.pc = "done" /\ n.result = "bad_request"
    BY <1>0, <1>6 DEF ReceiveBlank, Idle
  <2> QED BY <1>2, <2>1
<1>7. CASE Finish(r) \/ Cancel(r)
  <2>1. n = Idle
    BY <1>0, <1>7 DEF Finish, Cancel
  <2> QED BY <1>2, <2>1, VerifyAssumption DEF Idle, Results
<1>8. CASE \/ Refuse(r) \/ Accept(r) \/ Claim(r) \/ Commit(r) \/ AckLost(r)
           \/ StartActivation(r) /\ Overflows(q.license_key, q.row, now)
           \/ QueryFails(r) /\ q.pc # "log"
  <2>1. PICK pc \in {"log", "done", "panicked"},
             result \in {None, "invalid", "banned", "expired", "valid", "error"} :
          \E expires_at :
            req' = [req EXCEPT ![r] = Verdict(@, pc, result, expires_at)]
    BY <1>8 DEF Refuse, Accept, Claim, Commit, AckLost, StartActivation,
       QueryFails, Fail, Conclude
  <2>2. n.pc = pc /\ n.result = result
    <3>1. PICK expires_at :
            req' = [req EXCEPT ![r] = Verdict(@, pc, result, expires_at)]
      BY <2>1
    <3> QED BY <1>3, <3>1
  <2>3. n.pc \notin {"bind", "decide", "activate", "reread"}
    BY <2>2
  <2>4. n.result # "machine_mismatch"
    BY <2>2, VerifyAssumption DEF Results
  <2> QED BY <1>2, <2>3, <2>4
<1>9. CASE Fetch(r)
  <2>1. /\ n.pc = "decide" /\ n.row = Current(r) /\ n.result = q.result
        /\ q.pc = "fetch" /\ n.license_key = q.license_key
        /\ Current(r)' = Current(r)
    BY <1>0, <1>9 DEF Fetch, Request, Current, storeVars
  <2>2. Bound(Current(r))
    BY <1>0, <1>1, <2>1 DEF Statements, Current
  <2> QED BY <1>4, <2>1, <2>2 DEF Awaits, Bound
<1>10. CASE StartBind(r)
  BY <1>0, <1>10 DEF StartBind, Awaits, Bound
<1>11. CASE StartActivation(r) /\ ~Overflows(q.license_key, q.row, now)
  <2>1. /\ n.pc = "activate" /\ n.result = q.result /\ q.pc = "decide"
        /\ n.license_key = q.license_key /\ Current(r)' = Current(r)
        /\ q.row.status = "unused"
    BY <1>0, <1>11 DEF StartActivation, Request, Current, storeVars
  <2> QED BY <1>0, <1>4, <2>1 DEF Awaits
<1>12. CASE ClaimMisses(r)
  <2>1. /\ n.pc = "reread" /\ n.result = q.result /\ q.pc = "activate"
        /\ n.license_key = q.license_key /\ Current(r)' = Current(r)
        /\ ~activation_selects(Current(r))
    BY <1>0, <1>12 DEF ClaimMisses, Goto, Request, Current, storeVars, Awaits
  <2>2. Current(r) \in Row /\ Bound(Current(r)) /\ Current(r).status # "absent"
    BY <1>0, <1>1, <2>1 DEF Statements, Current, Awaits
  <2>3. Current(r).machine_code # None
    BY <2>1, <2>2 DEF activation_selects, Bound, Row, Status
  <2> QED BY <1>4, <2>1, <2>3 DEF Awaits
<1>13. CASE Reread(r)
  <2>1. /\ q.license_key \in Licenses /\ Current(r).machine_code # None
        /\ Current(r)' = Current(r) /\ n.license_key = q.license_key
        /\ n.machine_code = q.machine_code /\ n.pc = "log"
        /\ \/ n.result = "valid"
           \/ n.result = "machine_mismatch"
                /\ Current(r).machine_code # q.machine_code
    BY <1>0, <1>1, <1>3, <1>13 DEF Reread, Conclude, reread_matches, Current,
       Statements, Awaits, storeVars
  <2>2. Current(r)'.machine_code \notin {None, n.machine_code} => "rival" \in seen'[r]
    BY <1>0, <2>1, Noticed, StoreAssumption
  <2> QED BY <2>1, <2>2 DEF Awaits
<1>14. CASE Lock(r) \/ ReadLimit(r) \/ CountRecent(r)
  <2>1. /\ q.pc \in {"lock"} \cup InTransaction /\ n.license_key = q.license_key
        /\ n.pc \in {"log"} \cup InTransaction
    BY <1>0, <1>3, <1>14 DEF Lock, ReadLimit, CountRecent, Decline, Conclude,
       Goto, Request, InTransaction
  <2>2. "rival" \in seen'[r]
    BY <1>0, <1>1, <2>1, NothingForgotten, StoreAssumption
       DEF Witnessed, Statements, InTransaction
  <2> QED BY <2>1, <2>2 DEF Awaits, InTransaction
<1>15. CASE \/ StartRebind(r) \/ Begin(r) \/ LogVerify(r)
            \/ QueryFails(r) /\ q.pc = "log"
  <2>1. /\ n.pc \in {"begin", "lock", "done"} /\ n.result = q.result
        /\ q.pc # "idle" /\ n.license_key = q.license_key
    BY <1>0, <1>15 DEF StartRebind, Begin, LogVerify, QueryFails, Goto, Request,
       Statements, InTransaction
  <2> QED BY <1>4, <2>1 DEF Awaits
<1> HIDE DEF n
<1> QED
  BY <1>5, <1>6, <1>7, <1>8, <1>9, <1>10, <1>11, <1>12, <1>13, <1>14, <1>15
     DEF VerifyStep, Progress

\* Every step keeps the rivals that were met.
LEMMA RivalInvariance ==
  ASSUME NoReleases, TypeOK, TypeOK', LockedRowIsFresh, DatingInv, JobsInUse,
         BoundInv, WitnessInv, RivalInv, [HNext]_hvars
  PROVE  RivalInv'
<1> SUFFICES ASSUME NEW r \in Requests PROVE Awaits(r)'
  BY DEF RivalInv
<1>0. req[r] \in Request /\ WellFormed(req[r]) /\ Witnessed(r) /\ Awaits(r)
  BY DEF TypeOK, VerifyTypeOK, WitnessInv, RivalInv
<1>1. CASE HNext /\ req'[r] = req[r]
  <2>1. req[r].pc \in {"decide", "activate", "reread"} => req[r].license_key \in Licenses
    BY <1>0 DEF WellFormed, Request, Statements
  <2>2. req[r].result = "machine_mismatch" =>
          req[r].pc # "idle" /\ req[r].license_key # None
    BY <1>0, VerifyAssumption DEF Witnessed, Results
  <2>3. StaysBound
    BY <1>1, RowsStayBound DEF HNext
  <2>4. req[r].result = "machine_mismatch" => "rival" \in seen'[r]
    BY <1>0, <1>1, <2>2, NothingForgotten DEF HNext, Awaits
  <2> QED BY <1>0, <1>1, <2>1, <2>3, <2>4 DEF Awaits, StaysBound, Current
<1>2. CASE HNext /\ VerifyNext /\ req'[r] # req[r]
  <2>1. PICK s \in Requests : VerifyStep(s)
    BY <1>2 DEF VerifyNext, VerifyStep
  <2>2. s = r
    BY <1>2, <2>1, OthersKeepTheirRows
  <2> QED BY <1>2, <2>1, <2>2, RivalStep
<1>3. CASE HNext /\ Crash
  <2>1. req'[r] = Idle
    BY <1>3 DEF Crash
  <2> QED BY <2>1, VerifyAssumption DEF Idle, Awaits, Results
<1>4. CASE UNCHANGED hvars
  BY <1>0, <1>4 DEF hvars, vars, storeVars, historyVars, Awaits, Current
<1> QED BY <1>1, <1>2, <1>3, <1>4 DEF HNext, Next, Boot, Tick

\* While nobody bans or unbinds: whoever is told "machine_mismatch", also as
\* the loser of a race, has met another machine on the licence.
THEOREM MismatchesHaveRivals ==
  ASSUME AdminOps \cap {"ban", "unbind"} = {}
  PROVE  HSpec => []MismatchHadRival
<1>1. NoReleases
  BY DEF NoReleases
<1>2. HInit => BoundInv /\ RivalInv
  BY VerifyAssumption DEF HInit, Init, StoreInit, VerifyInit, AdminInit, Idle,
     Resting, NewRow, NoRow, BoundInv, Bound, JobBound, RivalInv, Awaits, Results
<1>3. TypeOK /\ LockedRowIsFresh /\ DatingInv /\ JobsInUse /\ BoundInv
        /\ [Next]_vars => BoundInv'
  BY <1>1, BoundInvariance
<1>4. TypeOK /\ TypeOK' /\ LockedRowIsFresh /\ DatingInv /\ JobsInUse /\ BoundInv
        /\ WitnessInv /\ RivalInv /\ [HNext]_hvars => RivalInv'
  BY <1>1, RivalInvariance
<1>5. RivalInv => MismatchHadRival
  BY DEF RivalInv, Awaits, MismatchHadRival, Answered
<1>6. [HNext]_hvars => [Next]_vars
  BY DEF HNext, hvars
<1> QED
  BY <1>2, <1>3, <1>4, <1>5, <1>6, HistoryIsAuxiliary, TypeCorrect, JobsAreInUse,
     LockedRowsAreFresh, DatingCorrect, StepsAreWitnessed, PTL DEF HSpec
=============================================================================
