---------------------------- MODULE LicenseProofs ----------------------------
(***************************************************************************)
(* Theorems about LicenseService for every value of its constants.         *)
(***************************************************************************)
EXTENDS LicenseService, TLAPS

-----------------------------------------------------------------------------
(* Type correctness.                                                       *)

\* The rows and instants that the code starts from are well typed.
LEMMA ConstantRows ==
  /\ NoRow \in Row /\ NewRow \in Row
  /\ 0 \in Instant /\ 0 \in 0 .. (MaxSetting + 1)
  /\ 0 .. MaxTime \subseteq Instant
BY StoreAssumption DEF NoRow, NewRow, Row, Status, Instant

\* Replacing one handler's record by a well-formed one keeps VerifyTypeOK.
LEMMA ReplaceRequest ==
  ASSUME VerifyTypeOK, NEW r \in Requests, NEW q \in Request, WellFormed(q),
         req' = [req EXCEPT ![r] = q]
  PROVE  VerifyTypeOK'
BY DEF VerifyTypeOK

\* What a verdict leaves of a request is a request.
LEMMA VerdictType ==
  ASSUME NEW q \in Request, NEW pc \in PC, NEW result \in Results \cup {None},
         NEW expires_at \in Instant \cup {None}
  PROVE  Verdict(q, pc, result, expires_at) \in Request
BY ConstantRows DEF Verdict, Request

\* What a verdict sets, and what it keeps.
LEMMA VerdictFields ==
  ASSUME NEW q \in Request, NEW pc, NEW result, NEW expires_at
  PROVE  LET v == Verdict(q, pc, result, expires_at) IN
         /\ v.pc = pc /\ v.result = result /\ v.expires_at = expires_at
         /\ v.license_key = q.license_key /\ v.machine_code = q.machine_code
BY DEF Verdict, Request

\* Where the ways of ending a handler's work leave it.
LEMMA EndFields ==
  ASSUME req \in [Requests -> Request], NEW r \in Requests
  PROVE  /\ \A result, expires_at : Conclude(r, result, expires_at) =>
              req'[r].pc = "log" /\ req'[r].result = result
         /\ Fail(r) => req'[r].pc = "done" /\ req'[r].result = "error"
         /\ req' = [req EXCEPT ![r] = Idle] => req'[r].pc = "idle"
         /\ \A pc : Goto(r, pc) => req'[r].pc = pc
<1>1. req[r] \in Request
  OBVIOUS
<1>3. ASSUME NEW pc, Goto(r, pc) PROVE req'[r].pc = pc
  <2>1. req'[r] = [req[r] EXCEPT !.pc = pc]
    BY <1>3 DEF Goto
  <2> QED BY <1>1, <2>1 DEF Request
<1> QED BY <1>1, <1>3, VerdictFields DEF Conclude, Fail, Idle

\* The verdict of a handler leaves a well-formed record for log_verify.
LEMMA ConcludeType ==
  ASSUME VerifyTypeOK, NEW r \in Requests, NEW result \in Results,
         NEW expires_at \in Instant \cup {None},
         req[r].license_key # None, req[r].machine_code # None,
         Conclude(r, result, expires_at)
  PROVE  VerifyTypeOK'
<1>1. req[r] \in Request /\ "log" \in PC
  BY DEF VerifyTypeOK, PC
<1>2. Verdict(req[r], "log", result, expires_at) \in Request
  BY <1>1, VerdictType
<1>3. WellFormed(Verdict(req[r], "log", result, expires_at))
  BY VerifyAssumption DEF WellFormed, Verdict, Statements, InTransaction
<1> QED BY <1>2, <1>3, ReplaceRequest DEF Conclude

\* A reply of status "error" leaves a well-formed request.
LEMMA FailType ==
  ASSUME VerifyTypeOK, NEW r \in Requests, Fail(r)
  PROVE  VerifyTypeOK'
<1>1. req[r] \in Request /\ "done" \in PC /\ "error" \in Results
  BY DEF VerifyTypeOK, PC, Results
<1>2. Verdict(req[r], "done", "error", None) \in Request
  BY <1>1, VerdictType
<1>3. WellFormed(Verdict(req[r], "done", "error", None))
  BY <1>1, VerifyAssumption DEF WellFormed, Verdict, Statements, InTransaction
<1> QED BY <1>2, <1>3, ReplaceRequest DEF Fail

\* Moving on keeps the record well formed if the next step has what it needs.
LEMMA GotoType ==
  ASSUME VerifyTypeOK, NEW r \in Requests, NEW pc \in PC,
         WellFormed([req[r] EXCEPT !.pc = pc]), Goto(r, pc)
  PROVE  VerifyTypeOK'
<1>1. [req[r] EXCEPT !.pc = pc] \in Request
  BY DEF VerifyTypeOK, Request
<1>2. req' = [req EXCEPT ![r] = [req[r] EXCEPT !.pc = pc]]
  BY DEF Goto
<1> QED BY <1>1, <1>2, ReplaceRequest

\* A free handler's record is well formed.
LEMMA IdleType == Idle \in Request /\ WellFormed(Idle)
BY ConstantRows DEF Idle, Request, PC, WellFormed, Statements, InTransaction

\* The server starts well typed.
LEMMA InitType == Init => TypeOK
<1> SUFFICES ASSUME Init PROVE TypeOK
  OBVIOUS
<1>1. StoreTypeOK
  <2>1. licenses \in [Licenses -> Row]
    BY ConstantRows DEF Init, StoreInit
  <2>2. machine_rebind_logs \in [Licenses -> Seq(Rebind)]
    BY DEF Init, StoreInit
  <2>3. rowLock \in [Licenses -> Requests \cup {None}]
    BY DEF Init, StoreInit
  <2>4. now \in 0 .. MaxTime
    BY StoreAssumption DEF Init, StoreInit, Instant
  <2>5. auto_rebind_limit_per_24h \in {None, 1} /\ up \in BOOLEAN
    BY DEF Init, StoreInit
  <2> QED
    BY <2>1, <2>2, <2>3, <2>4, <2>5 DEF StoreTypeOK
<1>2. VerifyTypeOK
  BY IdleType DEF Init, VerifyInit, VerifyTypeOK
<1>3. AdminTypeOK
  BY DEF Init, AdminInit, AdminTypeOK, Job
<1> QED BY <1>1, <1>2, <1>3 DEF TypeOK

-----------------------------------------------------------------------------
\* The steps that only move a handler along keep its record well formed.
LEMMA HandlerStepType ==
  ASSUME TypeOK, NEW r \in Requests,
         \/ \E l \in Licenses, m \in Machines : Receive(r, l, m)
         \/ ReceiveBlank(r) \/ Fetch(r) \/ StartRebind(r) \/ StartBind(r)
         \/ StartActivation(r) \/ ClaimMisses(r) \/ Begin(r) \/ LogVerify(r)
         \/ Finish(r)
  PROVE  VerifyTypeOK'
<1>0. /\ VerifyTypeOK /\ req[r] \in Request /\ WellFormed(req[r])
      /\ now \in Instant
  BY ConstantRows DEF TypeOK, VerifyTypeOK, StoreTypeOK
<1>1. ASSUME NEW l \in Licenses, NEW m \in Machines, Receive(r, l, m)
      PROVE  VerifyTypeOK'
  <2> DEFINE q == [Idle EXCEPT !.pc = "fetch", !.license_key = l,
                               !.machine_code = m]
  <2>1. q \in Request
    BY ConstantRows DEF Idle, Request, PC, Statements
  <2>2. WellFormed(q)
    BY StoreAssumption DEF WellFormed, Idle, Statements, InTransaction
  <2>3. req' = [req EXCEPT ![r] = q]
    BY <1>1 DEF Receive
  <2> HIDE DEF q
  <2> QED BY <1>0, <2>1, <2>2, <2>3, ReplaceRequest
<1>2. ASSUME ReceiveBlank(r) PROVE VerifyTypeOK'
  <2> DEFINE q == [Idle EXCEPT !.pc = "done", !.result = "bad_request"]
  <2>1. q \in Request
    BY ConstantRows DEF Idle, Request, PC, Results
  <2>2. WellFormed(q)
    BY VerifyAssumption DEF WellFormed, Idle, Statements, InTransaction, Results
  <2>3. req' = [req EXCEPT ![r] = q]
    BY <1>2 DEF ReceiveBlank
  <2> HIDE DEF q
  <2> QED BY <1>0, <2>1, <2>2, <2>3, ReplaceRequest
<1>3. ASSUME Fetch(r) PROVE VerifyTypeOK'
  <2> DEFINE q == [req[r] EXCEPT !.pc = "decide",
                                 !.row = licenses[req[r].license_key]]
  <2>0. req[r].license_key \in Licenses
    BY <1>0, <1>3 DEF Fetch, WellFormed, Statements, Request
  <2>1. q \in Request
    BY <1>0, <2>0 DEF Request, PC, TypeOK, StoreTypeOK
  <2>2. WellFormed(q)
    BY <1>0, <1>3 DEF Fetch, WellFormed, Statements, InTransaction, Request
  <2>3. req' = [req EXCEPT ![r] = q]
    BY <1>0, <1>3 DEF Fetch, VerifyTypeOK
  <2> HIDE DEF q
  <2> QED BY <1>0, <2>1, <2>2, <2>3, ReplaceRequest
<1>4. ASSUME StartRebind(r) PROVE VerifyTypeOK'
  <2>1. WellFormed([req[r] EXCEPT !.pc = "begin"])
    BY <1>0, <1>4 DEF StartRebind, BoundElsewhere, WellFormed, Statements,
                      InTransaction, Request
  <2> QED BY <1>0, <1>4, <2>1, GotoType DEF StartRebind, PC, Statements
<1>5. ASSUME StartBind(r) PROVE VerifyTypeOK'
  <2> DEFINE q == [req[r] EXCEPT !.pc = "bind",
                                 !.expires_at = req[r].row.expires_at]
  <2>1. q \in Request
    BY <1>0 DEF Request, PC, Statements, Row
  <2>2. WellFormed(q)
    BY <1>0, <1>5 DEF StartBind, WellFormed, Statements, InTransaction, Request
  <2>3. req' = [req EXCEPT ![r] = q]
    BY <1>0, <1>5 DEF StartBind, VerifyTypeOK
  <2> HIDE DEF q
  <2> QED BY <1>0, <2>1, <2>2, <2>3, ReplaceRequest
<1>6. ASSUME StartActivation(r) PROVE VerifyTypeOK'
  <2> DEFINE l == req[r].license_key
             row == req[r].row
             q == [req[r] EXCEPT !.pc = "activate", !.at = now,
                                 !.expires_at = new_expires_at(l, row, now)]
             p == Verdict(req[r], "panicked", None, None)
  <2>0. l \in Licenses /\ row \in Row
    BY <1>0, <1>6 DEF StartActivation, WellFormed, Request
  <2>1. ASSUME Overflows(l, row, now) PROVE VerifyTypeOK'
    <3>1. p \in Request
      BY <1>0, VerdictType DEF PC
    <3>2. WellFormed(p)
      BY DEF WellFormed, Verdict, Statements, InTransaction
    <3>3. req' = [req EXCEPT ![r] = p]
      BY <1>6, <2>1 DEF StartActivation
    <3> HIDE DEF p
    <3> QED BY <1>0, <3>1, <3>2, <3>3, ReplaceRequest
  <2>2. ASSUME ~Overflows(l, row, now) PROVE VerifyTypeOK'
    <3>0. row.expires_at \in Instant \cup {None} /\ Duration[l] \in Nat
      BY <2>0, StoreAssumption DEF Row
    <3>1. new_expires_at(l, row, now) \in Instant \cup {None}
      BY <1>0, <2>2, <3>0, StoreAssumption DEF new_expires_at, Overflows, Instant
    <3>2. q \in Request
      BY <1>0, <3>1 DEF Request, PC, Statements
    <3>3. WellFormed(q)
      BY <1>0, <1>6 DEF StartActivation, WellFormed, Statements, InTransaction,
                        Request
    <3>4. req' = [req EXCEPT ![r] = q]
      BY <1>0, <1>6, <2>2 DEF StartActivation, VerifyTypeOK
    <3> HIDE DEF q
    <3> QED BY <1>0, <3>2, <3>3, <3>4, ReplaceRequest
  <2> QED BY <2>1, <2>2
<1>7. ASSUME ClaimMisses(r) PROVE VerifyTypeOK'
  <2>1. WellFormed([req[r] EXCEPT !.pc = "reread"])
    BY <1>0, <1>7 DEF ClaimMisses, WellFormed, Statements, InTransaction, Request
  <2> QED BY <1>0, <1>7, <2>1, GotoType DEF ClaimMisses, PC, Statements
<1>8. ASSUME Begin(r) PROVE VerifyTypeOK'
  <2> DEFINE q == [req[r] EXCEPT !.pc = "lock", !.at = now]
  <2>1. q \in Request
    BY <1>0 DEF Request, PC, Statements
  <2>2. WellFormed(q)
    BY <1>0, <1>8 DEF Begin, WellFormed, Statements, InTransaction, Request
  <2>3. req' = [req EXCEPT ![r] = q]
    BY <1>0, <1>8 DEF Begin, VerifyTypeOK
  <2> HIDE DEF q
  <2> QED BY <1>0, <2>1, <2>2, <2>3, ReplaceRequest
<1>9. ASSUME LogVerify(r) PROVE VerifyTypeOK'
  <2> DEFINE q == [req[r] EXCEPT !.pc = "done", !.logged = TRUE]
  <2>1. q \in Request
    BY <1>0 DEF Request, PC
  <2>2. WellFormed(q)
    BY <1>0, <1>9 DEF LogVerify, WellFormed, Statements, InTransaction, Request
  <2>3. req' = [req EXCEPT ![r] = q]
    BY <1>0, <1>9 DEF LogVerify, VerifyTypeOK
  <2> HIDE DEF q
  <2> QED BY <1>0, <2>1, <2>2, <2>3, ReplaceRequest
<1>10. ASSUME Finish(r) PROVE VerifyTypeOK'
  BY <1>0, <1>10, IdleType, ReplaceRequest DEF Finish
<1> QED BY <1>1, <1>2, <1>3, <1>4, <1>5, <1>6, <1>7, <1>8, <1>9, <1>10

\* The steps that reach a verdict without writing to the row.
LEMMA VerdictStepType ==
  ASSUME TypeOK, NEW r \in Requests,
         \/ Refuse(r) \/ Accept(r) \/ Reread(r) \/ Lock(r) \/ ReadLimit(r)
         \/ CountRecent(r)
  PROVE  VerifyTypeOK'
<1>0. /\ VerifyTypeOK /\ req[r] \in Request /\ WellFormed(req[r])
      /\ req[r].row.expires_at \in Instant \cup {None}
      /\ req[r].expires_at \in Instant \cup {None}
      /\ {"invalid", "banned", "expired", "machine_mismatch", "valid"}
           \subseteq Results
  BY DEF TypeOK, VerifyTypeOK, Request, Row, Results
<1>1. req[r].license_key # None /\ req[r].machine_code # None
  BY <1>0 DEF Refuse, Accept, Reread, Lock, ReadLimit, CountRecent, WellFormed,
              Statements, InTransaction
<1>2. ASSUME NEW result \in Results, NEW expires_at \in Instant \cup {None},
             Conclude(r, result, expires_at)
      PROVE  VerifyTypeOK'
  BY <1>0, <1>1, <1>2, ConcludeType
<1>3. ASSUME Refuse(r) \/ Accept(r) \/ Reread(r) PROVE VerifyTypeOK'
  BY <1>0, <1>2, <1>3 DEF Refuse, Accept, Reread
<1>4. ASSUME Lock(r) PROVE VerifyTypeOK'
  <2>1. WellFormed([req[r] EXCEPT !.pc = "limit"])
    BY <1>0, <1>4 DEF Lock, WellFormed, Statements, InTransaction, Request
  <2>2. ASSUME Goto(r, "limit") PROVE VerifyTypeOK'
    BY <1>0, <2>1, <2>2, GotoType DEF PC, Statements, InTransaction
  <2> QED BY <1>0, <1>2, <1>4, <2>2 DEF Lock
<1>5. ASSUME ReadLimit(r) PROVE VerifyTypeOK'
  <2> DEFINE q == [req[r] EXCEPT !.pc = "count", !.limit = auto_rebind_limit]
  <2>1. auto_rebind_limit \in 0 .. (MaxSetting + 1)
    BY StoreAssumption DEF auto_rebind_limit, TypeOK, StoreTypeOK
  <2>2. q \in Request
    BY <1>0, <2>1 DEF Request, PC, Statements, InTransaction
  <2>3. WellFormed(q)
    BY <1>0, <1>5 DEF ReadLimit, WellFormed, Statements, InTransaction, Request
  <2>4. ASSUME req' = [req EXCEPT ![r].pc = "count",
                                  ![r].limit = auto_rebind_limit]
        PROVE  req' = [req EXCEPT ![r] = q]
    BY <1>0, <2>4 DEF VerifyTypeOK
  <2> HIDE DEF q
  <2>5. ASSUME req' = [req EXCEPT ![r] = q] PROVE VerifyTypeOK'
    BY <1>0, <2>2, <2>3, <2>5, ReplaceRequest
  <2> QED BY <1>0, <1>2, <1>5, <2>4, <2>5 DEF ReadLimit, Decline
<1>6. ASSUME CountRecent(r) PROVE VerifyTypeOK'
  <2>1. WellFormed([req[r] EXCEPT !.pc = "commit"])
    BY <1>0, <1>6 DEF CountRecent, WellFormed, Statements, InTransaction, Request
  <2>2. ASSUME Goto(r, "commit") PROVE VerifyTypeOK'
    BY <1>0, <2>1, <2>2, GotoType DEF PC, Statements, InTransaction
  <2> QED BY <1>0, <1>2, <1>6, <2>2 DEF CountRecent, Decline
<1> QED BY <1>3, <1>4, <1>5, <1>6

-----------------------------------------------------------------------------
\* What the two writes of a verify handler put into the tables.
LEMMA ClaimRowType ==
  ASSUME TypeOK, NEW r \in Requests, ClaimRow(r) \/ CommitRebind(r)
  PROVE  /\ StoreTypeOK'
         /\ req[r].license_key # None /\ req[r].machine_code # None
         /\ req[r].expires_at \in Instant \cup {None}
         /\ req[r].row.expires_at \in Instant \cup {None}
<1>0. req[r] \in Request /\ WellFormed(req[r]) /\ StoreTypeOK
  BY DEF TypeOK, VerifyTypeOK
<1> DEFINE l == req[r].license_key
<1>1. req[r].license_key # None /\ req[r].machine_code # None
  BY <1>0 DEF ClaimRow, CommitRebind, WellFormed, Statements, InTransaction
<1>2. /\ l \in Licenses /\ req[r].machine_code \in Machines
      /\ req[r].at \in Instant
      /\ req[r].expires_at \in Instant \cup {None}
      /\ req[r].row.expires_at \in Instant \cup {None}
  BY <1>0, <1>1 DEF Request, Row
<1>3. ActivatedRow(r) \in Row /\ BoundRow(r) \in Row
  <2>1. licenses[l] \in Row
    BY <1>0, <1>2 DEF StoreTypeOK
  <2>2. ActivatedRow(r) \in Row
    BY <1>2, <2>1 DEF ActivatedRow, Row, Status
  <2>3. BoundRow(r) \in Row
    BY <1>2, <2>1 DEF BoundRow, Row
  <2> QED BY <2>2, <2>3
<1>4. CASE ClaimRow(r)
  BY <1>0, <1>1, <1>2, <1>3, <1>4 DEF ClaimRow, StoreTypeOK
<1>5. CASE CommitRebind(r)
  <2> DEFINE entry == [created_at |-> req[r].at,
                       old |-> req[r].row.machine_code,
                       new |-> req[r].machine_code]
  <2>1. entry \in Rebind
    BY <1>0, <1>2, <1>5 DEF CommitRebind, WellFormed, InTransaction, Request,
                            Row, Rebind
  <2>2. machine_rebind_logs' = [machine_rebind_logs EXCEPT ![l] =
                                  Append(machine_rebind_logs[l], entry)]
    BY <1>5 DEF CommitRebind
  <2> HIDE DEF entry
  <2>3. machine_rebind_logs' \in [Licenses -> Seq(Rebind)]
    BY <1>0, <1>2, <2>1, <2>2 DEF StoreTypeOK
  <2>4. rowLock' \in [Licenses -> Requests \cup {None}]
    BY <1>0, <1>2, <1>5 DEF CommitRebind, Release, StoreTypeOK
  <2>5. licenses' \in [Licenses -> Row]
    BY <1>0, <1>2, <1>3, <1>5 DEF CommitRebind, StoreTypeOK
  <2> QED BY <1>0, <1>1, <1>2, <1>5, <2>3, <2>4, <2>5 DEF CommitRebind, StoreTypeOK
<1> QED BY <1>1, <1>4, <1>5, <1>2

\* Faults at any step: the reply is an error, the handler is gone, or its
\* write took effect and nobody will know.
LEMMA FaultStepType ==
  ASSUME TypeOK, NEW r \in Requests, QueryFails(r) \/ AckLost(r) \/ Cancel(r)
  PROVE  VerifyTypeOK'
<1>0. /\ VerifyTypeOK /\ req[r] \in Request /\ WellFormed(req[r])
  BY DEF TypeOK, VerifyTypeOK
<1>1. ASSUME Fail(r) PROVE VerifyTypeOK'
  BY <1>0, <1>1, FailType
<1>2. ASSUME Goto(r, "done"), req[r].pc = "log" PROVE VerifyTypeOK'
  <2>1. WellFormed([req[r] EXCEPT !.pc = "done"])
    BY <1>0, <1>2 DEF WellFormed, Statements, InTransaction, Request
  <2> QED BY <1>0, <1>2, <2>1, GotoType DEF PC
<1>3. ASSUME Cancel(r) PROVE VerifyTypeOK'
  BY <1>0, <1>3, IdleType, ReplaceRequest DEF Cancel
<1> QED BY <1>1, <1>2, <1>3 DEF QueryFails, AckLost

\* No step of a verify handler writes an ill-typed row.
LEMMA VerifyStoreType ==
  ASSUME TypeOK, NEW r \in Requests,
         \/ \E l \in Licenses, m \in Machines : Receive(r, l, m)
         \/ ReceiveBlank(r) \/ Progress(r)
         \/ QueryFails(r) \/ AckLost(r) \/ Cancel(r)
  PROVE  StoreTypeOK'
<1>0. StoreTypeOK /\ req[r] \in Request /\ WellFormed(req[r])
  BY DEF TypeOK, VerifyTypeOK
<1>1. ASSUME UNCHANGED storeVars PROVE StoreTypeOK'
  BY <1>0, <1>1 DEF StoreTypeOK, storeVars
<1>2. ASSUME ClaimRow(r) \/ CommitRebind(r) PROVE StoreTypeOK'
  BY <1>2, ClaimRowType
<1>3. ASSUME rowLock' \in [Licenses -> Requests \cup {None}],
             UNCHANGED <<licenses, machine_rebind_logs,
                         auto_rebind_limit_per_24h, now, up>>
      PROVE  StoreTypeOK'
  BY <1>0, <1>3 DEF StoreTypeOK
<1>4. ASSUME Rollback(r) \/ UNCHANGED rowLock
             \/ \E l \in Licenses : Release(l)
             \/ \E k \in Licenses : rowLock' = [rowLock EXCEPT ![k] = r]
      PROVE  rowLock' \in [Licenses -> Requests \cup {None}]
  BY <1>0, <1>4 DEF Rollback, Release, StoreTypeOK
<1>5. ASSUME Lock(r) \/ ReadLimit(r) \/ CountRecent(r) PROVE StoreTypeOK'
  <2>1. req[r].license_key \in Licenses
    BY <1>0, <1>5 DEF Lock, ReadLimit, CountRecent, WellFormed, Statements,
                      InTransaction, Request
  <2> QED BY <1>3, <1>4, <1>5, <2>1 DEF Lock, ReadLimit, CountRecent, Decline
<1>6. ASSUME QueryFails(r) \/ Cancel(r) PROVE StoreTypeOK'
  BY <1>3, <1>4, <1>6 DEF QueryFails, Cancel
<1>7. ASSUME Claim(r) \/ Commit(r) \/ AckLost(r) PROVE StoreTypeOK'
  BY <1>2, <1>7 DEF Claim, Commit, AckLost
<1>8. ASSUME \/ \E l \in Licenses, m \in Machines : Receive(r, l, m)
             \/ ReceiveBlank(r) \/ Fetch(r) \/ Refuse(r) \/ StartRebind(r)
             \/ StartBind(r) \/ StartActivation(r) \/ Accept(r)
             \/ ClaimMisses(r) \/ Reread(r) \/ Begin(r) \/ LogVerify(r)
             \/ Finish(r)
      PROVE  StoreTypeOK'
  BY <1>1, <1>8 DEF Receive, ReceiveBlank, Fetch, Refuse, StartRebind,
     StartBind, StartActivation, Accept, ClaimMisses, Reread, Begin, LogVerify,
     Finish
<1> QED BY <1>5, <1>6, <1>7, <1>8 DEF Progress

\* The steps of the verify handlers keep the types.
LEMMA VerifyNextType ==
  ASSUME TypeOK, VerifyNext PROVE StoreTypeOK' /\ VerifyTypeOK'
<1>1. PICK r \in Requests :
        \/ \E l \in Licenses, m \in Machines : Receive(r, l, m)
        \/ ReceiveBlank(r) \/ Progress(r)
        \/ QueryFails(r) \/ AckLost(r) \/ Cancel(r)
  BY DEF VerifyNext
<1>2. StoreTypeOK'
  BY <1>1, VerifyStoreType
<1>3. ASSUME Claim(r) \/ Commit(r) PROVE VerifyTypeOK'
  BY <1>3, ClaimRowType, ConcludeType DEF Claim, Commit, TypeOK, Results
<1>4. VerifyTypeOK'
  BY <1>1, <1>3, HandlerStepType, VerdictStepType, FaultStepType DEF Progress
<1> QED BY <1>2, <1>4

-----------------------------------------------------------------------------
\* A job is taken with the table untouched, and rests when it is done.
LEMMA TakeType ==
  ASSUME TypeOK, NEW h \in Handlers, NEW job \in Job, Take(h, job)
  PROVE  StoreTypeOK' /\ AdminTypeOK'
<1>1. StoreTypeOK'
  BY DEF TypeOK, Take, StoreTypeOK, storeVars
<1>2. AdminTypeOK'
  BY DEF TypeOK, Take, AdminTypeOK
<1> QED BY <1>1, <1>2

\* A back-office handler that ends leaves well-typed jobs.
LEMMA RestType ==
  ASSUME AdminTypeOK, NEW h \in Handlers, Rest(h) PROVE AdminTypeOK'
BY DEF AdminTypeOK, Rest, Job

\* The reads of ban, unban, unbind and adjust leave well-typed jobs.
LEMMA ReadType ==
  ASSUME TypeOK, NEW h \in Handlers, NEW l \in Licenses,
         \/ ReadForBan(h, l) \/ ReadForUnban(h, l) \/ ReadForUnbind(h, l)
         \/ \E hours \in HourInputs : ReadForAdjust(h, l, hours)
  PROVE  StoreTypeOK' /\ AdminTypeOK'
<1>1. [pc |-> "status", lic |-> l, status |-> "banned"] \in Job
  BY DEF Job, Status
<1>2. [pc |-> "status", lic |-> l, status |-> unban_status(licenses[l])] \in Job
  BY DEF Job, Status, unban_status
<1>3. [pc |-> "unbind", lic |-> l] \in Job
  BY DEF Job
<1>4. \A hours \in HourInputs : [pc |-> "shift", lic |-> l, hours |-> hours] \in Job
  BY AdminAssumption DEF Job
<1> QED
  BY <1>1, <1>2, <1>3, <1>4, TakeType
     DEF ReadForBan, ReadForUnban, ReadForUnbind, ReadForAdjust

\* So do the first statements of the other operations.
LEMMA StartType ==
  ASSUME TypeOK, NEW h \in Handlers,
         \/ \E scope \in Scopes, hours \in HourInputs :
              StartAdjustAll(h, scope, hours)
         \/ \E owner \in Users, l \in Licenses, count \in 1 .. MaxBatch :
              StartCreate(h, owner, Duration[l], count)
  PROVE  StoreTypeOK' /\ AdminTypeOK'
<1>1. ASSUME NEW scope \in Scopes, NEW hours \in HourInputs,
             StartAdjustAll(h, scope, hours)
      PROVE  StoreTypeOK' /\ AdminTypeOK'
  <2> DEFINE job == [pc |-> "sweep", scope |-> scope, hours |-> hours,
                     at |-> now, targets |-> {l \in Licenses :
                                   InScope(licenses[l], scope, now)}]
  <2>1. job \in Job
    BY AdminAssumption, ConstantRows DEF Job, TypeOK, StoreTypeOK
  <2>2. Take(h, job)
    BY <1>1 DEF StartAdjustAll
  <2> QED BY <2>1, <2>2, TakeType
<1>2. ASSUME NEW owner \in Users, NEW l \in Licenses, NEW count \in 1 .. MaxBatch,
             StartCreate(h, owner, Duration[l], count)
      PROVE  StoreTypeOK' /\ AdminTypeOK'
  <2> DEFINE job == [pc |-> "insert", owner |-> owner, days |-> Duration[l],
                     left |-> count]
  <2>1. job \in Job
    BY StoreAssumption DEF Job
  <2>2. Take(h, job)
    BY <1>2 DEF StartCreate
  <2> QED BY <2>1, <2>2, TakeType
<1> QED BY <1>1, <1>2

\* Writing a well-typed row keeps the tables well typed.
LEMMA RowWriteType ==
  ASSUME TypeOK, NEW l \in Licenses, NEW row \in Row, Write(l, row)
  PROVE  StoreTypeOK'
BY DEF TypeOK, StoreTypeOK, Write

\* The writes of the back office keep the types; a shift out of range is refused.
LEMMA AdminWriteType ==
  ASSUME TypeOK, NEW h \in Handlers, AdminProgress(h)
  PROVE  StoreTypeOK' /\ AdminTypeOK'
<1>0. adm[h] \in Job /\ AdminTypeOK /\ licenses \in [Licenses -> Row]
  BY DEF TypeOK, AdminTypeOK, StoreTypeOK
<1>1. ASSUME NEW row \in Row, NEW hours \in Int, InRange(row, hours)
      PROVE  Shifted(row, hours) \in Row
  BY <1>1 DEF InRange, Shifted, Row
<1>2. CASE WriteStatus(h)
  <2>1. adm[h].lic \in Licenses /\ adm[h].status \in Status
    BY <1>0, <1>2 DEF WriteStatus, Job, Resting
  <2>2. [licenses[adm[h].lic] EXCEPT !.status = adm[h].status] \in Row
    BY <1>0, <2>1 DEF Row
  <2> QED BY <1>0, <1>2, <2>1, <2>2, RowWriteType, RestType DEF WriteStatus
<1>3. CASE WriteUnbind(h)
  <2>1. adm[h].lic \in Licenses
    BY <1>0, <1>3 DEF WriteUnbind, Job, Resting
  <2>2. Unbound(licenses[adm[h].lic]) \in Row
    BY <1>0, <2>1 DEF Row, Unbound
  <2> QED BY <1>0, <1>3, <2>1, <2>2, RowWriteType, RestType DEF WriteUnbind
<1>4. CASE WriteShift(h)
  <2>1. adm[h].lic \in Licenses /\ adm[h].hours \in Int
    BY <1>0, <1>4 DEF WriteShift, Job, Resting
  <2> QED BY <1>0, <1>1, <1>4, <2>1, RowWriteType, RestType DEF WriteShift
<1>5. CASE WriteAll(h)
  <2>1. adm[h].hours \in Int
    BY <1>0, <1>5 DEF WriteAll, Job, Resting
  <2>2. licenses' \in [Licenses -> Row]
    BY <1>0, <1>1, <1>5, <2>1 DEF WriteAll
  <2> QED BY <1>0, <1>5, <2>2, RestType DEF WriteAll, TypeOK, StoreTypeOK
<1>6. ASSUME NEW l \in Licenses, CreateOne(h, l)
      PROVE  StoreTypeOK' /\ AdminTypeOK'
  <2>1. adm[h].left \in 1 .. MaxBatch
    BY <1>0, <1>6 DEF CreateOne, Job, Resting
  <2>2. StoreTypeOK'
    BY <1>6, ConstantRows DEF CreateOne, TypeOK, StoreTypeOK
  <2>3. ASSUME adm[h].left # 1 PROVE [adm[h] EXCEPT !.left = @ - 1] \in Job
    <3>1. adm[h] \in [pc : {"insert"}, owner : Users, days : Nat, left : 1 .. MaxBatch]
      BY <1>0, <1>6 DEF CreateOne, Job, Resting
    <3>2. adm[h].left - 1 \in 1 .. MaxBatch
      BY <2>1, <2>3, AdminAssumption
    <3> QED BY <3>1, <3>2 DEF Job
  <2>4. AdminTypeOK'
    BY <1>0, <1>6, <2>3, RestType DEF CreateOne, AdminTypeOK
  <2> QED BY <2>2, <2>4
<1> QED BY <1>2, <1>3, <1>4, <1>5, <1>6 DEF AdminProgress

\* The steps of the back office keep the types.
LEMMA AdminNextType ==
  ASSUME TypeOK, AdminNext PROVE StoreTypeOK' /\ AdminTypeOK'
<1>1. ASSUME NEW h \in Handlers, NEW limit \in LimitInputs,
             UpdateSettings(h, limit)
      PROVE  StoreTypeOK' /\ AdminTypeOK'
  BY <1>1 DEF UpdateSettings, TypeOK, StoreTypeOK, AdminTypeOK
<1>2. ASSUME NEW h \in Handlers, HandlerDropped(h)
      PROVE  StoreTypeOK' /\ AdminTypeOK'
  BY <1>2, RestType DEF HandlerDropped, TypeOK, StoreTypeOK, storeVars
<1> QED BY <1>1, <1>2, ReadType, StartType, AdminWriteType DEF AdminNext, AdminStart

-----------------------------------------------------------------------------
\* Every step of the server keeps every table and every handler well typed;
\* in particular no expiry the handlers compute or shift leaves the range of
\* a timestamp, and no handler reaches a statement without its parameters.
THEOREM TypeCorrect == Spec => []TypeOK
<1>1. TypeOK /\ [Next]_vars => TypeOK'
  <2> SUFFICES ASSUME TypeOK, [Next]_vars PROVE TypeOK'
    OBVIOUS
  <2>1. CASE Boot
    BY <2>1, StoreAssumption
       DEF Boot, SeedSetting, TypeOK, StoreTypeOK, VerifyTypeOK, AdminTypeOK
  <2>2. CASE Crash
    BY <2>2, IdleType
       DEF Crash, TypeOK, StoreTypeOK, VerifyTypeOK, AdminTypeOK, Job
  <2>3. CASE Tick /\ UNCHANGED <<req, adm>>
    <3>1. now' \in 0 .. MaxTime
      BY <2>3, StoreAssumption DEF Tick, TypeOK, StoreTypeOK
    <3> QED BY <2>3, <3>1
            DEF Tick, TypeOK, StoreTypeOK, VerifyTypeOK, AdminTypeOK
  <2>4. CASE VerifyNext /\ UNCHANGED adm
    BY <2>4, VerifyNextType DEF TypeOK, AdminTypeOK
  <2>5. CASE AdminNext /\ UNCHANGED req
    BY <2>5, AdminNextType DEF TypeOK, VerifyTypeOK
  <2>6. CASE UNCHANGED vars
    BY <2>6 DEF vars, storeVars, TypeOK, StoreTypeOK, VerifyTypeOK, AdminTypeOK
  <2> QED BY <2>1, <2>2, <2>3, <2>4, <2>5, <2>6 DEF Next
<1> QED BY InitType, <1>1, PTL DEF Spec

-----------------------------------------------------------------------------
(* The row lock protects what a transaction has learnt.                    *)

VerifyStep(r) ==
  \/ \E l \in Licenses, m \in Machines : Receive(r, l, m)
  \/ ReceiveBlank(r) \/ Progress(r) \/ QueryFails(r) \/ AckLost(r) \/ Cancel(r)

\* A handler writes to a row only if nobody else holds it.
LEMMA OthersKeepTheirRows ==
  ASSUME TypeOK, LockedRowIsFresh, NEW r \in Requests, VerifyStep(r),
         NEW q \in Requests, q # r
  PROVE  /\ req'[q] = req[q]
         /\ \A l \in Licenses :
              /\ rowLock'[l] = q <=> rowLock[l] = q
              /\ rowLock[l] = q =>
                   /\ licenses'[l] = licenses[l]
                   /\ machine_rebind_logs'[l] = machine_rebind_logs[l]
<1>0. /\ req \in [Requests -> Request] /\ req[r] \in Request /\ WellFormed(req[r])
      /\ licenses \in [Licenses -> Row]
      /\ machine_rebind_logs \in [Licenses -> Seq(Rebind)]
      /\ rowLock \in [Licenses -> Requests \cup {None}]
      /\ None \notin Requests
  BY StoreAssumption DEF TypeOK, VerifyTypeOK, StoreTypeOK
<1>1. req'[q] = req[q]
  BY <1>0 DEF VerifyStep, Progress, Receive, ReceiveBlank, Fetch, Refuse,
     StartRebind, StartBind, StartActivation, Accept, Claim, ClaimMisses, Reread,
     Begin, Lock, ReadLimit, CountRecent, Commit, LogVerify, Finish, QueryFails,
     AckLost, Cancel, Conclude, Goto, Fail, Decline
<1>2. CASE UNCHANGED storeVars
  BY <1>1, <1>2 DEF storeVars
<1>3. CASE ClaimRow(r)
  BY <1>0, <1>1, <1>3 DEF ClaimRow, Unlocked
<1>4. CASE CommitRebind(r)
  <2>1. req[r].license_key \in Licenses /\ rowLock[req[r].license_key] = r
    BY <1>0, <1>4 DEF CommitRebind, LockedRowIsFresh, WorksOn, WellFormed,
                      Statements, InTransaction, Request
  <2> QED BY <1>0, <1>1, <1>4, <2>1 DEF CommitRebind, Release
<1>5. CASE QueryFails(r) \/ Cancel(r)
  BY <1>0, <1>1, <1>5 DEF QueryFails, Cancel, Rollback
<1>6. CASE Lock(r) \/ ReadLimit(r) \/ CountRecent(r)
  <2>1. req[r].license_key \in Licenses
    BY <1>0, <1>6 DEF Lock, ReadLimit, CountRecent, WellFormed, Statements,
                      InTransaction, Request
  <2>2. CASE Lock(r)
    BY <1>0, <1>1, <2>1, <2>2
       DEF Lock, WellFormed, InTransaction, Unlocked, current_machine_code
  <2>3. CASE ReadLimit(r) \/ CountRecent(r)
    <3>1. rowLock[req[r].license_key] = r
      BY <2>1, <2>3
         DEF ReadLimit, CountRecent, LockedRowIsFresh, WorksOn, InTransaction
    <3> QED BY <1>0, <1>1, <2>1, <2>3, <3>1
            DEF ReadLimit, CountRecent, Decline, Release
  <2> QED BY <1>6, <2>2, <2>3
<1> QED
  BY <1>2, <1>3, <1>4, <1>5, <1>6 DEF VerifyStep, Progress, Receive,
     ReceiveBlank, Fetch, Refuse, StartRebind, StartBind, StartActivation,
     Accept, Claim, ClaimMisses, Reread, Begin, Commit, LogVerify, Finish,
     AckLost

\* The lock comes with a fresh row, stays with the transaction, and goes
\* with it, however the transaction ends.
LEMMA OwnRowIsFresh ==
  ASSUME TypeOK, LockedRowIsFresh, NEW r \in Requests, VerifyStep(r)
  PROVE  /\ \A l \in Licenses : (rowLock[l] = r)' <=> WorksOn(r, l)'
         /\ (req[r].pc \in InTransaction)' => FreshFor(r)'
<1>0. /\ req \in [Requests -> Request] /\ req[r] \in Request /\ WellFormed(req[r])
      /\ licenses \in [Licenses -> Row]
      /\ rowLock \in [Licenses -> Requests \cup {None}]
      /\ None \notin Requests
      /\ \A l \in Licenses : rowLock[l] = r <=> WorksOn(r, l)
      /\ req[r].pc \in InTransaction => FreshFor(r)
  BY StoreAssumption DEF TypeOK, VerifyTypeOK, StoreTypeOK, LockedRowIsFresh
\* Outside a transaction before and after, nothing is held.
<1>1. ASSUME req[r].pc \notin InTransaction, req'[r].pc \notin InTransaction,
             UNCHANGED rowLock
      PROVE  /\ \A l \in Licenses : (rowLock[l] = r)' <=> WorksOn(r, l)'
             /\ (req[r].pc \in InTransaction)' => FreshFor(r)'
  BY <1>0, <1>1 DEF WorksOn
\* A transaction that ends gives up its row.
<1>2. ASSUME req'[r].pc \notin InTransaction,
             \A l \in Licenses : rowLock'[l] # r
      PROVE  /\ \A l \in Licenses : (rowLock[l] = r)' <=> WorksOn(r, l)'
             /\ (req[r].pc \in InTransaction)' => FreshFor(r)'
  BY <1>2 DEF WorksOn
<1>3. ASSUME Release(req[r].license_key), req[r].pc \in InTransaction
      PROVE  \A l \in Licenses : rowLock'[l] # r
  BY <1>0, <1>3 DEF Release, WorksOn
<1>4. CASE \/ \E l \in Licenses, m \in Machines : Receive(r, l, m)
           \/ ReceiveBlank(r) \/ Fetch(r) \/ Refuse(r) \/ StartRebind(r)
           \/ StartBind(r) \/ StartActivation(r) \/ Accept(r)
           \/ ClaimMisses(r) \/ Reread(r) \/ Begin(r) \/ LogVerify(r)
           \/ Finish(r)
  <2>1. req[r].pc \notin InTransaction /\ UNCHANGED rowLock
    BY <1>4 DEF InTransaction, storeVars, Receive, ReceiveBlank, Fetch, Refuse,
       StartRebind, StartBind, StartActivation, Accept, ClaimMisses, Reread,
       Begin, LogVerify, Finish
  <2>2. ASSUME NEW l \in Licenses, NEW m \in Machines, Receive(r, l, m)
        PROVE  req'[r].pc = "fetch"
    BY <1>0, <2>2 DEF Receive, Idle
  <2>3. ASSUME ReceiveBlank(r) PROVE req'[r].pc = "done"
    BY <1>0, <2>3 DEF ReceiveBlank, Idle
  <2>4. ASSUME Refuse(r) \/ Accept(r) \/ Reread(r) PROVE req'[r].pc = "log"
    BY <1>0, <2>4, EndFields DEF Refuse, Accept, Reread
  <2>5. ASSUME StartRebind(r) \/ ClaimMisses(r)
        PROVE  req'[r].pc \in {"begin", "reread"}
    BY <1>0, <2>5, EndFields DEF StartRebind, ClaimMisses
  <2>6. ASSUME Fetch(r) \/ StartBind(r) \/ Begin(r) \/ LogVerify(r)
        PROVE  req'[r].pc \in {"decide", "bind", "lock", "done"}
    BY <1>0, <2>6 DEF Fetch, StartBind, Begin, LogVerify, Request
  <2>7. ASSUME StartActivation(r) PROVE req'[r].pc \in {"panicked", "activate"}
    BY <1>0, <2>7, VerdictFields DEF StartActivation, Request
  <2>8. ASSUME Finish(r) PROVE req'[r].pc = "idle"
    BY <1>0, <2>8, EndFields DEF Finish
  <2>9. req'[r].pc \notin InTransaction
    BY <1>4, <2>2, <2>3, <2>4, <2>5, <2>6, <2>7, <2>8 DEF InTransaction
  <2> QED BY <1>1, <2>1, <2>9
<1>5. CASE ClaimRow(r) /\ (Conclude(r, "valid", req[r].expires_at) \/ Fail(r))
  <2>1. req'[r].pc \notin InTransaction
    BY <1>0, <1>5, EndFields DEF InTransaction
  <2> QED BY <1>1, <1>5, <2>1 DEF ClaimRow, InTransaction
<1>6. CASE /\ CommitRebind(r)
           /\ Conclude(r, "valid", req[r].row.expires_at) \/ Fail(r)
  <2>1. req'[r].pc \notin InTransaction
    BY <1>0, <1>6, EndFields DEF InTransaction
  <2> QED BY <1>2, <1>3, <1>6, <2>1 DEF CommitRebind, InTransaction
<1>7. CASE QueryFails(r) \/ Cancel(r)
  <2>1. req'[r].pc \notin InTransaction
    BY <1>0, <1>7, EndFields DEF QueryFails, Cancel, InTransaction, Request
  <2>2. \A l \in Licenses : rowLock'[l] # r
    BY <1>0, <1>7 DEF QueryFails, Cancel, Rollback
  <2> QED BY <1>2, <2>1, <2>2
<1>8. CASE Lock(r)
  <2> DEFINE l == req[r].license_key
  <2>1. l \in Licenses /\ req[r].row.machine_code # None
    BY <1>0, <1>8 DEF Lock, WellFormed, Statements, InTransaction, Request
  <2>2. CASE UNCHANGED rowLock
    <3>1. req'[r].pc \notin InTransaction
      BY <1>0, <1>8, <2>2, <2>1, EndFields DEF Lock, InTransaction, WorksOn
    <3> QED BY <1>1, <1>8, <2>2, <3>1 DEF Lock, InTransaction
  <2>3. CASE rowLock' = [rowLock EXCEPT ![l] = r] /\ Goto(r, "limit")
             /\ current_machine_code(l) = req[r].row.machine_code
             /\ current_machine_code(l) # req[r].machine_code
    <3>1. licenses[l].status = "active"
          /\ licenses[l].machine_code = req[r].row.machine_code
      BY <2>1, <2>3 DEF current_machine_code, rebind_selects
    <3>2. req'[r] = [req[r] EXCEPT !.pc = "limit"]
      BY <1>0, <2>3 DEF Goto
    <3>3. FreshFor(r)'
      BY <1>0, <1>8, <2>1, <2>3, <3>1, <3>2 DEF Lock, FreshFor, Request
    <3>4. \A k \in Licenses : (rowLock[k] = r)' <=> WorksOn(r, k)'
      BY <1>0, <1>8, <2>1, <2>3, <3>2 DEF Lock, WorksOn, InTransaction, Request
    <3> QED BY <3>3, <3>4
  <2> QED BY <1>8, <2>2, <2>3 DEF Lock
<1>9. CASE ReadLimit(r) \/ CountRecent(r)
  <2>0. req[r].pc \in InTransaction /\ FreshFor(r)
        /\ req[r].license_key \in Licenses
    BY <1>0, <1>9 DEF ReadLimit, CountRecent, InTransaction, WellFormed,
                      Statements, Request
  <2>1. CASE Decline(r)
    <3>1. req'[r].pc \notin InTransaction
      BY <1>0, <2>1, EndFields DEF Decline, InTransaction
    <3> QED BY <1>2, <1>3, <2>0, <2>1, <3>1 DEF Decline
  <2>2. CASE ~Decline(r)
    <3>1. /\ req'[r].license_key = req[r].license_key
          /\ req'[r].machine_code = req[r].machine_code
          /\ req'[r].row = req[r].row /\ req'[r].at = req[r].at
          /\ req'[r].pc \in InTransaction
          /\ UNCHANGED <<rowLock, licenses, machine_rebind_logs>>
      BY <1>0, <1>9, <2>2
         DEF ReadLimit, CountRecent, Goto, InTransaction, Request
    <3>2. req'[r].pc = "commit" =>
            ~LimitReached(r) /\ req'[r].limit = req[r].limit
      BY <1>0, <1>9, <2>2 DEF ReadLimit, CountRecent, Goto, Request
    <3>3. (req[r].pc = "commit" => ~LimitReached(r))'
      BY <3>1, <3>2 DEF LimitReached, RecentRebinds
    <3>4. FreshFor(r)'
      BY <2>0, <3>1, <3>3 DEF FreshFor
    <3>5. \A k \in Licenses : (rowLock[k] = r)' <=> WorksOn(r, k)'
      BY <1>0, <2>0, <3>1 DEF WorksOn
    <3> QED BY <3>4, <3>5
  <2> QED BY <2>1, <2>2
<1> QED
  BY <1>4, <1>5, <1>6, <1>7, <1>8, <1>9
     DEF VerifyStep, Progress, Claim, Commit, AckLost

\* A back-office handler leaves every locked row and the rebind log alone.
LEMMA AdminRespectsLocks ==
  ASSUME TypeOK, LockedRowIsFresh, AdminNext
  PROVE  /\ UNCHANGED <<rowLock, machine_rebind_logs>>
         /\ \A l \in Licenses : rowLock[l] # None => licenses'[l] = licenses[l]
<1>0. licenses \in [Licenses -> Row] /\ adm \in [Handlers -> Job]
      /\ rowLock \in [Licenses -> Requests \cup {None}]
  BY DEF TypeOK, StoreTypeOK, AdminTypeOK
<1>1. PICK h \in Handlers :
        \/ \E l \in Licenses :
             \/ ReadForBan(h, l) \/ ReadForUnban(h, l) \/ ReadForUnbind(h, l)
             \/ \E hours \in HourInputs : ReadForAdjust(h, l, hours)
        \/ \E scope \in Scopes, hours \in HourInputs :
             StartAdjustAll(h, scope, hours)
        \/ \E limit \in LimitInputs : UpdateSettings(h, limit)
        \/ \E owner \in Users, l \in Licenses, count \in 1 .. MaxBatch :
             StartCreate(h, owner, Duration[l], count)
        \/ AdminProgress(h)
        \/ HandlerDropped(h)
  BY DEF AdminNext, AdminStart
<1>2. CASE UNCHANGED <<licenses, rowLock, machine_rebind_logs>>
  BY <1>2
<1>3. CASE WriteStatus(h) \/ WriteUnbind(h) \/ WriteShift(h)
  BY <1>0, <1>3 DEF WriteStatus, WriteUnbind, WriteShift, Write, Unlocked
<1>4. CASE WriteAll(h)
  BY <1>0, <1>4 DEF WriteAll, Unlocked
<1>5. ASSUME NEW l \in Licenses, CreateOne(h, l)
      PROVE  /\ UNCHANGED <<rowLock, machine_rebind_logs>>
             /\ \A k \in Licenses : rowLock[k] # None => licenses'[k] = licenses[k]
  <2>1. rowLock[l] = None
    BY <1>0, <1>5 DEF CreateOne, Fresh, LockedRowIsFresh, WorksOn, FreshFor
  <2> QED BY <1>0, <1>5, <2>1 DEF CreateOne
<1> QED
  BY <1>1, <1>2, <1>3, <1>4, <1>5
     DEF AdminProgress, ReadForBan, ReadForUnban, ReadForUnbind, ReadForAdjust,
         StartAdjustAll, UpdateSettings, StartCreate, HandlerDropped, Take,
         storeVars

\* Every step keeps locks and transactions together, and what each transaction
\* has learnt of its row true.
LEMMA LockInvariance ==
  TypeOK /\ LockedRowIsFresh /\ [Next]_vars => LockedRowIsFresh'
<1> SUFFICES ASSUME TypeOK, LockedRowIsFresh, [Next]_vars
             PROVE  LockedRowIsFresh'
  OBVIOUS
<1>1. CASE VerifyNext
  <2>1. PICK r \in Requests : VerifyStep(r)
    BY <1>1 DEF VerifyNext, VerifyStep
  <2>2. ASSUME NEW q \in Requests
        PROVE  /\ \A l \in Licenses : (rowLock[l] = q)' <=> WorksOn(q, l)'
               /\ (req[q].pc \in InTransaction)' => FreshFor(q)'
    <3>1. CASE q = r
      BY <2>1, <3>1, OwnRowIsFresh
    <3>2. CASE q # r
      <4>0. /\ req'[q] = req[q]
            /\ \A l \in Licenses :
                 /\ rowLock'[l] = q <=> rowLock[l] = q
                 /\ rowLock[l] = q =>
                      /\ licenses'[l] = licenses[l]
                      /\ machine_rebind_logs'[l] = machine_rebind_logs[l]
        BY <2>1, <3>2, OthersKeepTheirRows
      <4>1. \A l \in Licenses : (rowLock[l] = q)' <=> WorksOn(q, l)'
        BY <4>0 DEF LockedRowIsFresh, WorksOn
      <4>2. ASSUME req[q].pc \in InTransaction PROVE FreshFor(q)'
        <5>1. req[q].license_key \in Licenses
          BY <4>2 DEF TypeOK, VerifyTypeOK, WellFormed, Statements, InTransaction,
                      Request
        <5>2. rowLock[req[q].license_key] = q /\ FreshFor(q)
          BY <4>2, <5>1 DEF LockedRowIsFresh, WorksOn
        <5> QED BY <4>0, <5>1, <5>2 DEF FreshFor, LimitReached, RecentRebinds
      <4> QED BY <4>0, <4>1, <4>2
    <3> QED BY <3>1, <3>2
  <2> QED BY <2>2 DEF LockedRowIsFresh
<1>2. CASE AdminNext /\ UNCHANGED req
  <2>1. /\ UNCHANGED <<rowLock, machine_rebind_logs>>
        /\ \A l \in Licenses : rowLock[l] # None => licenses'[l] = licenses[l]
    BY <1>2, AdminRespectsLocks
  <2>2. ASSUME NEW q \in Requests, req[q].pc \in InTransaction
        PROVE  FreshFor(q)'
    <3>1. req[q].license_key \in Licenses
      BY <2>2 DEF TypeOK, VerifyTypeOK, WellFormed, Statements, InTransaction,
                  Request
    <3>2. rowLock[req[q].license_key] = q /\ FreshFor(q) /\ q # None
      BY <2>2, <3>1, StoreAssumption DEF LockedRowIsFresh, WorksOn
    <3> QED BY <1>2, <2>1, <3>1, <3>2 DEF FreshFor, LimitReached, RecentRebinds
  <2> QED BY <1>2, <2>1, <2>2 DEF LockedRowIsFresh, WorksOn
<1>3. CASE Crash
  <2>1. \A r \in Requests : req'[r].pc = "idle"
    BY <1>3 DEF Crash, Idle
  <2>2. \A l \in Licenses, r \in Requests : rowLock'[l] # r
    BY <1>3, StoreAssumption DEF Crash
  <2> QED BY <2>1, <2>2 DEF LockedRowIsFresh, WorksOn, InTransaction
<1>4. CASE Boot \/ (Tick /\ UNCHANGED <<req, adm>>) \/ UNCHANGED vars
  <2>1. UNCHANGED <<req, rowLock, licenses, machine_rebind_logs>>
    BY <1>4 DEF Boot, Tick, vars, storeVars
  <2>2. \A q \in Requests : FreshFor(q) => FreshFor(q)'
    BY <2>1 DEF FreshFor, LimitReached, RecentRebinds
  <2>3. \A l \in Licenses, q \in Requests : WorksOn(q, l)' <=> WorksOn(q, l)
    BY <2>1 DEF WorksOn
  <2>4. \A l \in Licenses, q \in Requests : (rowLock[l] = q)' <=> WorksOn(q, l)'
    BY <2>1, <2>3 DEF LockedRowIsFresh
  <2>5. \A q \in Requests : (req[q].pc \in InTransaction)' => FreshFor(q)'
    BY <2>1, <2>2 DEF LockedRowIsFresh
  <2> QED BY <2>4, <2>5 DEF LockedRowIsFresh
<1> QED BY <1>1, <1>2, <1>3, <1>4 DEF Next

\* For any number of requests, licences and administrators: a row held FOR
\* UPDATE is held by the one transaction that works on it, and the machine,
\* the status and the count it has read are still true when it commits.
THEOREM LockedRowsAreFresh == Spec => []LockedRowIsFresh
<1>1. Init => LockedRowIsFresh
  BY StoreAssumption DEF Init, StoreInit, VerifyInit, Idle, LockedRowIsFresh,
                         WorksOn, InTransaction
<1> QED BY <1>1, TypeCorrect, LockInvariance, PTL DEF Spec

-----------------------------------------------------------------------------
(* What a step may do to a binding.                                        *)

\* The only steps of clients that touch a licence are the two writes of the
\* handler, and each touches the handler's licence alone.
LEMMA ClientWrites ==
  ASSUME TypeOK, LockedRowIsFresh, NEW r \in Requests, VerifyStep(r)
  PROVE  \/ UNCHANGED <<licenses, machine_rebind_logs>>
         \/ ClaimRow(r)
         \/ CommitRebind(r) /\ FreshFor(r)
<1>1. CommitRebind(r) => FreshFor(r)
  BY DEF CommitRebind, LockedRowIsFresh, InTransaction
<1> QED
  BY <1>1 DEF VerifyStep, Progress, Receive, ReceiveBlank, Fetch, Refuse,
     StartRebind, StartBind, StartActivation, Accept, Claim, ClaimMisses, Reread,
     Begin, Lock, ReadLimit, CountRecent, Commit, LogVerify, Finish, QueryFails,
     AckLost, Cancel, storeVars

\* Clients write to licences, their logs and locks, and to nothing else.
LEMMA ClientsOnlyWriteRows ==
  ASSUME NEW r \in Requests, VerifyStep(r)
  PROVE  UNCHANGED <<auto_rebind_limit_per_24h, now, up>>
<1>1. CASE Progress(r)
  BY <1>1 DEF Progress, storeVars, Fetch, Refuse, StartRebind, StartBind,
     StartActivation, Accept, Claim, ClaimRow, ClaimMisses, Reread, Begin, Lock,
     ReadLimit, CountRecent, Commit, CommitRebind, LogVerify, Finish
<1>2. CASE ~Progress(r)
  BY <1>2 DEF VerifyStep, storeVars, Receive, ReceiveBlank, QueryFails, AckLost,
     ClaimRow, CommitRebind, Cancel
<1> QED BY <1>1, <1>2

\* Administrators remove bindings and never make one.
LEMMA AdminBindings ==
  ASSUME TypeOK, AdminNext, NEW l \in Licenses
  PROVE  licenses'[l].machine_code \in {None, licenses[l].machine_code}
<1>0. licenses \in [Licenses -> Row] /\ adm \in [Handlers -> Job]
  BY DEF TypeOK, StoreTypeOK, AdminTypeOK
<1>1. CASE UNCHANGED licenses
  BY <1>1
<1>2. ASSUME NEW h \in Handlers, AdminProgress(h)
      PROVE  licenses'[l].machine_code \in {None, licenses[l].machine_code}
  <2>1. CASE WriteStatus(h)
    BY <1>0, <2>1 DEF WriteStatus, Write, Row
  <2>2. CASE WriteUnbind(h)
    BY <1>0, <2>2 DEF WriteUnbind, Write, Unbound, Row
  <2>3. \A hours : Shifted(licenses[l], hours).machine_code
                     = licenses[l].machine_code
    BY <1>0 DEF Shifted, Row
  <2>4. CASE WriteShift(h)
    BY <1>0, <2>3, <2>4 DEF WriteShift, Write
  <2>5. CASE WriteAll(h)
    BY <1>0, <2>3, <2>5 DEF WriteAll
  <2>6. ASSUME NEW k \in Licenses, CreateOne(h, k)
        PROVE  licenses'[l].machine_code \in {None, licenses[l].machine_code}
    BY <1>0, <2>6 DEF CreateOne, NewRow, NoRow
  <2> QED BY <1>2, <2>1, <2>2, <2>4, <2>5, <2>6 DEF AdminProgress
<1> QED
  BY <1>1, <1>2 DEF AdminNext, AdminStart, ReadForBan, ReadForUnban, ReadForUnbind,
     ReadForAdjust, StartAdjustAll, UpdateSettings, StartCreate, HandlerDropped,
     Take, storeVars

\* No write of any client, however old the row it has read, lands on a
\* licence that is banned by then.
THEOREM ClientsNeverTouchBanned == Spec => ClientsLeaveBannedAlone
<1>1. ASSUME TypeOK, LockedRowIsFresh, [Next]_vars, NEW l \in Licenses,
             licenses[l].status = "banned", licenses'[l] # licenses[l]
      PROVE  UNCHANGED req
  <2>1. ASSUME NEW r \in Requests, VerifyStep(r) PROVE FALSE
    <3>1. CASE ClaimRow(r)
      BY <1>1, <3>1 DEF ClaimRow, activation_selects, binding_selects, TypeOK,
                        StoreTypeOK
    <3>2. CASE CommitRebind(r) /\ FreshFor(r)
      BY <1>1, <3>2 DEF CommitRebind, FreshFor, TypeOK, StoreTypeOK
    <3> QED BY <1>1, <2>1, <3>1, <3>2, ClientWrites
  <2> QED BY <1>1, <2>1 DEF Next, Boot, Crash, Tick, VerifyNext, VerifyStep,
                            vars, storeVars
<1>2. TypeOK /\ LockedRowIsFresh /\ [Next]_vars =>
        [\A l \in Licenses :
           licenses[l].status = "banned" /\ licenses'[l] # licenses[l]
             => UNCHANGED req]_vars
  BY <1>1
<1> QED
  BY <1>2, TypeCorrect, LockedRowsAreFresh, PTL
     DEF Spec, ClientsLeaveBannedAlone

\* Every change from one machine to another has its own entry in the log the
\* 24-hour limit counts, naming both, and no other step writes the log.
THEOREM MovesAreLogged == Spec => BindingMovesAreLogged
<1> DEFINE Logged(l) ==
      LET old == licenses[l].machine_code  new == licenses'[l].machine_code
      IN  IF None \notin {old, new} /\ old # new
          THEN \E at \in Instant : machine_rebind_logs'[l] =
                 Append(machine_rebind_logs[l],
                        [created_at |-> at, old |-> old, new |-> new])
          ELSE machine_rebind_logs'[l] = machine_rebind_logs[l]
<1>1. ASSUME TypeOK, LockedRowIsFresh, [Next]_vars, NEW l \in Licenses
      PROVE  Logged(l)
  <2>0. /\ licenses \in [Licenses -> Row]
        /\ machine_rebind_logs \in [Licenses -> Seq(Rebind)]
    BY <1>1 DEF TypeOK, StoreTypeOK
  <2>1. CASE UNCHANGED <<licenses, machine_rebind_logs>>
    BY <2>1
  <2>2. ASSUME NEW r \in Requests, ClaimRow(r) PROVE Logged(l)
    <3>1. licenses'[l].machine_code = licenses[l].machine_code
          \/ licenses[l].machine_code = None
      BY <2>0, <2>2 DEF ClaimRow, activation_selects, binding_selects
    <3> QED BY <2>2, <3>1 DEF ClaimRow
  <2>3. ASSUME NEW r \in Requests, CommitRebind(r), FreshFor(r) PROVE Logged(l)
    <3>0. req[r] \in Request /\ WellFormed(req[r])
      BY <1>1 DEF TypeOK, VerifyTypeOK
    <3>1. CASE l # req[r].license_key
      BY <2>0, <2>3, <3>1 DEF CommitRebind
    <3>2. CASE l = req[r].license_key
      <4>1. /\ licenses'[l].machine_code = req[r].machine_code
            /\ licenses[l].machine_code = req[r].row.machine_code
            /\ req[r].at \in Instant
        BY <2>0, <2>3, <3>0, <3>2
           DEF CommitRebind, FreshFor, BoundRow, Row, Request
      <4>2. /\ req[r].machine_code # None /\ req[r].row.machine_code # None
            /\ req[r].row.machine_code # req[r].machine_code
        BY <2>3, <3>0 DEF CommitRebind, FreshFor, WellFormed, Statements,
                          InTransaction
      <4>3. machine_rebind_logs'[l] = Append(machine_rebind_logs[l],
              [created_at |-> req[r].at, old |-> req[r].row.machine_code,
               new |-> req[r].machine_code])
        BY <2>0, <2>3, <3>2 DEF CommitRebind
      <4> QED BY <4>1, <4>2, <4>3
    <3> QED BY <3>1, <3>2
  <2>4. CASE AdminNext
    BY <1>1, <2>4, AdminBindings, AdminRespectsLocks
  <2>5. CASE VerifyNext
    <3>1. PICK r \in Requests : VerifyStep(r)
      BY <2>5 DEF VerifyNext, VerifyStep
    <3> QED BY <1>1, <2>1, <2>2, <2>3, <3>1, ClientWrites
  <2> QED BY <1>1, <2>1, <2>4, <2>5 DEF Next, Boot, Crash, Tick, vars, storeVars
<1>2. TypeOK /\ LockedRowIsFresh /\ [Next]_vars =>
        [\A l \in Licenses : Logged(l)]_vars
  BY <1>1
<1> QED
  BY <1>2, TypeCorrect, LockedRowsAreFresh, PTL DEF Spec, BindingMovesAreLogged

-----------------------------------------------------------------------------
(* Activation dates.                                                       *)

\* ActivatedRowsAreDated is not inductive: handlers write what they read
\* earlier.  What a verify handler has read was dated, what it is about to
\* store fits the type, and a licence about to be unbanned as active has
\* been activated before.
DatesAhead ==
  /\ \A r \in Requests :
       /\ req[r].pc = "decide" => Dated(req[r].license_key, req[r].row)
       /\ req[r].pc = "activate" =>
            (req[r].expires_at = None <=> Duration[req[r].license_key] = 0)
  /\ \A h \in Handlers :
       adm[h].pc = "status" /\ adm[h].status = "active"
         => licenses[adm[h].lic].activated_at # None

DatingInv == ActivatedRowsAreDated /\ DatesAhead

\* No step takes an activation date away.
Kept == \A l \in Licenses : licenses[l].activated_at # None
                              => licenses'[l].activated_at # None

\* What clients write is dated, and takes no date away.
LEMMA ClientDates ==
  ASSUME TypeOK, LockedRowIsFresh, DatingInv, NEW r \in Requests, VerifyStep(r)
  PROVE  ActivatedRowsAreDated' /\ Kept
<1>0. /\ req[r] \in Request /\ WellFormed(req[r])
      /\ licenses \in [Licenses -> Row]
      /\ None \notin Machines \cup Int
      /\ \A l \in Licenses : Dated(l, licenses[l])
  BY StoreAssumption DEF TypeOK, VerifyTypeOK, StoreTypeOK, DatingInv,
                         ActivatedRowsAreDated
<1>1. CASE UNCHANGED licenses
  BY <1>0, <1>1 DEF ActivatedRowsAreDated, Kept, Dated
<1>2. CASE ClaimRow(r) \/ (CommitRebind(r) /\ FreshFor(r))
  <2> DEFINE l == req[r].license_key
  <2>1. l \in Licenses /\ req[r].machine_code \in Machines
        /\ req[r].at # None
    BY <1>0, <1>2 DEF ClaimRow, CommitRebind, WellFormed, Statements,
                      InTransaction, Request, Instant
  <2>2. CASE req[r].pc = "activate" /\ licenses' = [licenses EXCEPT ![l] = ActivatedRow(r)]
    <3>1. Dated(l, ActivatedRow(r)) /\ ActivatedRow(r).activated_at # None
      BY <1>0, <2>1, <2>2 DEF Dated, ActivatedRow, Row, DatingInv, DatesAhead
    <3> QED BY <1>0, <2>1, <2>2, <3>1 DEF ActivatedRowsAreDated, Kept
  <2>3. CASE licenses[l].status = "active" /\ licenses' = [licenses EXCEPT ![l] = BoundRow(r)]
    <3>1. Dated(l, BoundRow(r)) /\ BoundRow(r).activated_at # None
      BY <1>0, <2>1, <2>3 DEF Dated, BoundRow, Row
    <3> QED BY <1>0, <2>1, <2>3, <3>1 DEF ActivatedRowsAreDated, Kept
  <2> QED BY <1>2, <2>2, <2>3 DEF ClaimRow, CommitRebind, FreshFor, binding_selects
<1> QED BY <1>1, <1>2, ClientWrites

\* What administrators write is dated, and takes no date away.
LEMMA AdminDates ==
  ASSUME TypeOK, DatingInv, AdminNext
  PROVE  ActivatedRowsAreDated' /\ Kept
<1>0. /\ licenses \in [Licenses -> Row] /\ adm \in [Handlers -> Job]
      /\ None \notin Int
      /\ \A l \in Licenses : Dated(l, licenses[l])
  BY StoreAssumption DEF TypeOK, StoreTypeOK, AdminTypeOK, DatingInv,
                         ActivatedRowsAreDated
<1>1. CASE UNCHANGED licenses
  BY <1>0, <1>1 DEF ActivatedRowsAreDated, Kept, Dated
<1>2. ASSUME NEW h \in Handlers, AdminProgress(h)
      PROVE  ActivatedRowsAreDated' /\ Kept
  <2>1. ASSUME NEW l \in Licenses, NEW row,
               Write(l, row), Dated(l, row),
               licenses[l].activated_at # None => row.activated_at # None
        PROVE  ActivatedRowsAreDated' /\ Kept
    BY <1>0, <2>1 DEF Write, ActivatedRowsAreDated, Kept
  <2>2. ASSUME NEW l \in Licenses, NEW hours \in Int
        PROVE  /\ Dated(l, Shifted(licenses[l], hours))
               /\ Shifted(licenses[l], hours).activated_at = licenses[l].activated_at
    BY <1>0 DEF Shifted, Dated, Row, Instant
  <2>3. CASE WriteStatus(h)
    <3> DEFINE l == adm[h].lic  row == [licenses[l] EXCEPT !.status = adm[h].status]
    <3>1. l \in Licenses /\ adm[h].status \in Status
      BY <1>0, <2>3 DEF WriteStatus, Job, Resting
    <3>2. Dated(l, row) /\ row.activated_at = licenses[l].activated_at
      BY <1>0, <2>3, <3>1 DEF WriteStatus, Dated, Row, DatingInv, DatesAhead, Status
    <3>3. Write(l, row)
      BY <2>3 DEF WriteStatus
    <3> HIDE DEF l, row
    <3> QED BY <2>1, <3>1, <3>2, <3>3
  <2>4. CASE WriteUnbind(h)
    <3> DEFINE l == adm[h].lic  row == Unbound(licenses[l])
    <3>1. l \in Licenses
      BY <1>0, <2>4 DEF WriteUnbind, Job, Resting
    <3>2. Dated(l, row) /\ row.activated_at = licenses[l].activated_at
      BY <1>0, <3>1 DEF Unbound, Dated, Row
    <3>3. Write(l, row)
      BY <2>4 DEF WriteUnbind
    <3> HIDE DEF l, row
    <3> QED BY <2>1, <3>1, <3>2, <3>3
  <2>5. CASE WriteShift(h)
    <3>1. adm[h].lic \in Licenses /\ adm[h].hours \in Int
      BY <1>0, <2>5 DEF WriteShift, Job, Resting
    <3> QED BY <1>0, <2>1, <2>2, <2>5, <3>1 DEF WriteShift
  <2>6. CASE WriteAll(h)
    <3>1. adm[h].hours \in Int
      BY <1>0, <2>6 DEF WriteAll, Job, Resting
    <3> QED BY <1>0, <1>1, <2>2, <2>6, <3>1 DEF WriteAll, ActivatedRowsAreDated, Kept
  <2>7. ASSUME NEW l \in Licenses, CreateOne(h, l)
        PROVE  ActivatedRowsAreDated' /\ Kept
    <3>1. Dated(l, NewRow)
      BY DEF Dated, NewRow, NoRow
    <3>2. licenses[l].activated_at = None
      BY <1>0, <2>7 DEF CreateOne, Fresh, Dated
    <3> QED BY <1>0, <2>7, <3>1, <3>2 DEF CreateOne, ActivatedRowsAreDated, Kept
  <2> QED BY <1>2, <2>3, <2>4, <2>5, <2>6, <2>7 DEF AdminProgress
<1> QED
  BY <1>1, <1>2 DEF AdminNext, AdminStart, ReadForBan, ReadForUnban, ReadForUnbind,
     ReadForAdjust, StartAdjustAll, UpdateSettings, StartCreate, HandlerDropped,
     Take, storeVars

\* What handlers have read or prepared stays in order as well.
LEMMA ClientDatesAhead ==
  ASSUME TypeOK, DatingInv, NEW r \in Requests, VerifyStep(r)
  PROVE  /\ req'[r].pc = "decide" => Dated(req[r].license_key, req[r].row)'
         /\ req'[r].pc = "activate" =>
              (req'[r].expires_at = None <=> Duration[req'[r].license_key] = 0)
<1>0. /\ req \in [Requests -> Request] /\ req[r] \in Request /\ WellFormed(req[r])
      /\ now \in Int /\ None \notin Int
      /\ \A l \in Licenses : Dated(l, licenses[l])
  BY StoreAssumption DEF TypeOK, VerifyTypeOK, StoreTypeOK, DatingInv,
                         ActivatedRowsAreDated
<1>1. CASE Fetch(r)
  <2>1. /\ req'[r].pc = "decide" /\ req'[r].row = licenses[req[r].license_key]
        /\ req'[r].license_key = req[r].license_key
        /\ req[r].license_key \in Licenses
    BY <1>0, <1>1 DEF Fetch, Request, WellFormed, Statements
  <2> QED BY <1>0, <2>1 DEF Dated
<1>2. CASE StartActivation(r)
  <2> DEFINE l == req[r].license_key  row == req[r].row
  <2>1. CASE Overflows(l, row, now)
    BY <1>0, <1>2, <2>1, VerdictFields DEF StartActivation
  <2>2. CASE ~Overflows(l, row, now)
    <3>1. /\ req'[r].pc = "activate" /\ req'[r].license_key = l
          /\ req'[r].expires_at = new_expires_at(l, row, now)
      BY <1>0, <1>2, <2>2 DEF StartActivation, Request
    <3>2. Dated(l, row) /\ l \in Licenses
      BY <1>0, <1>2 DEF StartActivation, DatingInv, DatesAhead, WellFormed, Request
    <3>3. Duration[l] \in Nat
      BY <3>2, StoreAssumption
    <3> QED BY <1>0, <3>1, <3>2, <3>3 DEF new_expires_at, Dated
  <2> QED BY <2>1, <2>2
<1>3. CASE ~Fetch(r) /\ ~StartActivation(r)
  <2>1. ASSUME NEW l \in Licenses, NEW m \in Machines, Receive(r, l, m)
        PROVE  req'[r].pc = "fetch"
    BY <1>0, <2>1 DEF Receive, Idle
  <2>2. ASSUME ReceiveBlank(r) PROVE req'[r].pc = "done"
    BY <1>0, <2>2 DEF ReceiveBlank, Idle
  <2>3. ASSUME \/ Refuse(r) \/ Accept(r) \/ Reread(r) \/ Claim(r) \/ Commit(r)
               \/ Lock(r) \/ ReadLimit(r) \/ CountRecent(r)
        PROVE  req'[r].pc \in {"log", "limit", "count", "commit"}
    BY <1>0, <2>3, EndFields DEF Refuse, Accept, Reread, Claim, Commit, Lock,
       ReadLimit, CountRecent, Decline, Request
  <2>4. ASSUME StartRebind(r) \/ ClaimMisses(r) \/ QueryFails(r) \/ AckLost(r)
               \/ Finish(r) \/ Cancel(r)
        PROVE  req'[r].pc \in {"begin", "reread", "done", "idle"}
    BY <1>0, <2>4, EndFields DEF StartRebind, ClaimMisses, QueryFails, AckLost,
       Finish, Cancel
  <2>5. ASSUME StartBind(r) \/ Begin(r) \/ LogVerify(r)
        PROVE  req'[r].pc \in {"bind", "lock", "done"}
    BY <1>0, <2>5 DEF StartBind, Begin, LogVerify, Request
  <2> QED BY <1>3, <2>1, <2>2, <2>3, <2>4, <2>5 DEF VerifyStep, Progress
<1> QED BY <1>1, <1>2, <1>3

\* Unbanning restores "active" only for a licence with an activation date.
LEMMA AdminDatesAhead ==
  ASSUME TypeOK, DatingInv, AdminNext, Kept, NEW h \in Handlers,
         adm'[h].pc = "status", adm'[h].status = "active"
  PROVE  licenses'[adm'[h].lic].activated_at # None
<1>0. /\ adm \in [Handlers -> Job]
      /\ \A l \in Licenses : Dated(l, licenses[l])
  BY DEF TypeOK, AdminTypeOK, DatingInv, ActivatedRowsAreDated
<1>1. CASE adm'[h] = adm[h]
  <2>1. adm[h].lic \in Licenses /\ licenses[adm[h].lic].activated_at # None
    BY <1>0, <1>1 DEF Job, Resting, DatingInv, DatesAhead
  <2> QED BY <1>1, <2>1 DEF Kept
<1>2. ASSUME NEW l \in Licenses, ReadForUnban(h, l)
      PROVE  licenses'[adm'[h].lic].activated_at # None
  <2>1. /\ adm'[h].lic = l /\ UNCHANGED licenses
        /\ unban_status(licenses[l]) = "active"
    BY <1>0, <1>2 DEF ReadForUnban, Take, storeVars
  <2> QED BY <1>0, <2>1 DEF unban_status, Dated
<1>3. ASSUME NEW g \in Handlers, NEW l \in Licenses, ReadForUnban(g, l), g # h
      PROVE  adm'[h] = adm[h]
  BY <1>0, <1>3 DEF ReadForUnban, Take
<1>4. ASSUME NEW g \in Handlers,
             \/ \E l \in Licenses :
                  \/ ReadForBan(g, l) \/ ReadForUnbind(g, l)
                  \/ \E hours \in HourInputs : ReadForAdjust(g, l, hours)
             \/ \E scope \in Scopes, hours \in HourInputs :
                  StartAdjustAll(g, scope, hours)
             \/ \E limit \in LimitInputs : UpdateSettings(g, limit)
             \/ \E owner \in Users, l \in Licenses, count \in 1 .. MaxBatch :
                  StartCreate(g, owner, Duration[l], count)
             \/ HandlerDropped(g)
      PROVE  adm'[h] = adm[h]
  BY <1>0, <1>4 DEF ReadForBan, ReadForUnbind, ReadForAdjust, StartAdjustAll,
     UpdateSettings, StartCreate, HandlerDropped, Take, Rest, Resting
<1>5. ASSUME NEW g \in Handlers, AdminProgress(g) PROVE adm'[h] = adm[h]
  <2>1. CASE Rest(g)
    BY <1>0, <2>1 DEF Rest, Resting
  <2>2. ASSUME adm' = [adm EXCEPT ![g].left = @ - 1],
               adm[g] \in [pc : {"insert"}, owner : Users, days : Nat,
                           left : 1 .. MaxBatch]
        PROVE  adm'[h] = adm[h]
    BY <1>0, <2>2
  <2>3. ASSUME NEW l \in Licenses, CreateOne(g, l)
        PROVE  adm[g] \in [pc : {"insert"}, owner : Users, days : Nat,
                           left : 1 .. MaxBatch]
    BY <1>0, <2>3 DEF CreateOne, Job, Resting
  <2> QED BY <1>5, <2>1, <2>2, <2>3 DEF AdminProgress, WriteStatus, WriteUnbind,
                                        WriteShift, WriteAll, CreateOne
<1> QED BY <1>1, <1>2, <1>3, <1>4, <1>5 DEF AdminNext, AdminStart

\* Every step keeps the rows dated, and those that handlers hold.
LEMMA DatingInvariance ==
  TypeOK /\ LockedRowIsFresh /\ DatingInv /\ [Next]_vars => DatingInv'
<1> SUFFICES ASSUME TypeOK, LockedRowIsFresh, DatingInv, [Next]_vars
             PROVE  DatingInv'
  OBVIOUS
<1>1. CASE VerifyNext /\ UNCHANGED adm
  <2>1. PICK r \in Requests : VerifyStep(r)
    BY <1>1 DEF VerifyNext, VerifyStep
  <2>2. ActivatedRowsAreDated' /\ Kept
    BY <2>1, ClientDates
  <2>3. ASSUME NEW q \in Requests
        PROVE  /\ req'[q].pc = "decide" => Dated(req[q].license_key, req[q].row)'
               /\ req'[q].pc = "activate" =>
                    (req'[q].expires_at = None
                       <=> Duration[req'[q].license_key] = 0)
    <3>1. CASE q = r
      BY <2>1, <3>1, ClientDatesAhead
    <3>2. CASE q # r
      <4>1. req'[q] = req[q]
        BY <2>1, <3>2, OthersKeepTheirRows
      <4> QED BY <4>1 DEF DatingInv, DatesAhead, Dated
    <3> QED BY <3>1, <3>2
  <2>4. ASSUME NEW h \in Handlers, adm'[h].pc = "status", adm'[h].status = "active"
        PROVE  licenses'[adm'[h].lic].activated_at # None
    <3>1. adm[h].lic \in Licenses
      BY <1>1, <2>4 DEF TypeOK, AdminTypeOK, Job, Resting
    <3> QED BY <1>1, <2>2, <2>4, <3>1 DEF DatingInv, DatesAhead, Kept
  <2> QED BY <2>2, <2>3, <2>4 DEF DatingInv, DatesAhead
<1>2. CASE AdminNext /\ UNCHANGED req
  <2>1. ActivatedRowsAreDated' /\ Kept
    BY <1>2, AdminDates
  <2>2. \A h \in Handlers : adm'[h].pc = "status" /\ adm'[h].status = "active"
          => licenses'[adm'[h].lic].activated_at # None
    BY <1>2, <2>1, AdminDatesAhead
  <2>3. \A q \in Requests :
          /\ req'[q].pc = "decide" => Dated(req[q].license_key, req[q].row)'
          /\ req'[q].pc = "activate" =>
               (req'[q].expires_at = None <=> Duration[req'[q].license_key] = 0)
    BY <1>2 DEF DatingInv, DatesAhead, Dated
  <2> QED BY <2>1, <2>2, <2>3 DEF DatingInv, DatesAhead
<1>3. CASE Crash
  <2>1. /\ \A r \in Requests : req'[r].pc = "idle"
        /\ \A h \in Handlers : adm'[h].pc = "idle"
        /\ UNCHANGED licenses
    BY <1>3 DEF Crash, Idle, Resting
  <2> QED BY <2>1 DEF DatingInv, DatesAhead, ActivatedRowsAreDated, Dated
<1>4. CASE Boot \/ (Tick /\ UNCHANGED <<req, adm>>) \/ UNCHANGED vars
  <2>1. UNCHANGED <<licenses, req, adm>>
    BY <1>4 DEF Boot, Tick, vars, storeVars
  <2> QED BY <2>1 DEF DatingInv, DatesAhead, ActivatedRowsAreDated, Dated
<1> QED BY <1>1, <1>2, <1>3, <1>4 DEF Next

\* The rows, and what handlers have read or prepared and not yet written, are
\* dated in every reachable state.
THEOREM DatingCorrect == Spec => []DatingInv
<1>1. Init => DatingInv
  BY DEF Init, StoreInit, VerifyInit, AdminInit, Idle, Resting, NewRow, NoRow,
         DatingInv, DatesAhead, ActivatedRowsAreDated, Dated
<1> QED
  BY <1>1, TypeCorrect, LockedRowsAreFresh, DatingInvariance, PTL DEF Spec

\* Whatever the order of activations, bindings, unbans, unbinds and shifts, a
\* licence in use has its activation date, and an expiry exactly when its
\* type is limited.
THEOREM ActivationsAreDated == Spec => []ActivatedRowsAreDated
<1>1. DatingInv => ActivatedRowsAreDated
  BY DEF DatingInv
<1> QED BY <1>1, DatingCorrect, PTL
=============================================================================
