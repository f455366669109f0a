------------------------------ MODULE ViewProofs ------------------------------
(***************************************************************************)
(* Theorems about what the back office shows of the licences, for every    *)
(* value of the constants.                                                 *)
(***************************************************************************)
EXTENDS LicenseViews, VerdictProofs

-----------------------------------------------------------------------------
(* The pages only read.                                                    *)

\* A step with pages is a step of the server with its memory, or none.
LEMMA PagesStep == [WNext]_wvars => [HNext]_hvars
BY DEF WNext, ServerStep, create_license_type, wvars

\* Whatever holds of the server with its memory holds of it with its pages.
LEMMA PagesOnlyRead == WSpec => HSpec
<1>1. WInit => HInit
  BY DEF WInit
<1> QED BY <1>1, PagesStep, PTL DEF WSpec, HSpec

-----------------------------------------------------------------------------
(* Types.                                                                  *)

\* Every step keeps the types of what the pages read.
LEMMA ViewsTypeInvariance ==
  ASSUME TypeOK, TypeOK', ViewsTypeOK, [WNext]_wvars
  PROVE  ViewsTypeOK'
<1>1. CASE ServerStep
  <2>1. ASSUME NEW r \in Requests, LogsValid(r), NEW row \in logged_rows(r)
        PROVE  row \in Log
    <3>1. req[r].machine_code \in Machines
      BY <2>1 DEF LogsValid, LogVerify, TypeOK, VerifyTypeOK, WellFormed, Request
    <3>2. decided_at[r] .. now \subseteq Nat
      BY StoreAssumption DEF ViewsTypeOK, TypeOK, StoreTypeOK
    <3> QED BY <3>1, <3>2 DEF logged_rows, Log
  <2>2. verify_logs' \in [Licenses -> SUBSET Log]
    BY <1>1, <2>1 DEF ServerStep, LogRows, ViewsTypeOK
  <2>6. decided_at' \in [Requests -> 0 .. MaxTime]
    <3>1. now \in 0 .. MaxTime /\ 0 \in 0 .. MaxTime
      BY StoreAssumption DEF TypeOK, StoreTypeOK
    <3> QED BY <1>1, <3>1 DEF ServerStep, TimeVerdicts, ViewsTypeOK
  <2>3. license_types' \subseteq Nat
    BY <1>1, ViewsAssumption DEF ServerStep, ViewsTypeOK
  <2>4. \A l \in Licenses : licenses'[l].machine_code \in Machines \cup {None}
    BY DEF TypeOK, StoreTypeOK, Row
  <2>5. holders' \in [Licenses -> SUBSET Machines]
    BY <1>1, <2>4 DEF ServerStep, ViewsTypeOK
  <2> QED BY <2>2, <2>3, <2>5, <2>6 DEF ViewsTypeOK
<1>2. ASSUME NEW h \in Handlers, NEW days \in TypeInputs,
             create_license_type(h, days)
      PROVE  ViewsTypeOK'
  <2>1. days \in Nat
    BY <1>2, ViewsAssumption DEF create_license_type, valid_days
  <2> QED BY <1>2, <2>1 DEF create_license_type, ViewsTypeOK
<1>3. CASE UNCHANGED wvars
  BY <1>3 DEF wvars, viewVars, ViewsTypeOK
<1> QED BY <1>1, <1>2, <1>3 DEF WNext

\* The pages' tables are well typed: only a request that has named a machine
\* leaves a row in verify_logs, and no type has a negative duration.
THEOREM ViewsTypeCorrect == WSpec => []ViewsTypeOK
<1>1. WInit => ViewsTypeOK
  BY StoreAssumption, ViewsAssumption DEF WInit, ViewsTypeOK
<1>2. TypeOK /\ TypeOK' /\ ViewsTypeOK /\ [WNext]_wvars => ViewsTypeOK'
  BY ViewsTypeInvariance
<1> QED
  BY <1>1, <1>2, PagesOnlyRead, HistoryIsAuxiliary, TypeCorrect, PTL DEF WSpec

-----------------------------------------------------------------------------
(* The pages agree with each other and with what clients are told.         *)

\* The status of a row that is in the table, and what its expiry can be.
LEMMA RowOfList ==
  ASSUME TypeOK, NEW user \in Users, NEW l \in OwnedBy(user)
  PROVE  /\ l \in Licenses /\ licenses[l].status \in Status
         /\ licenses[l].expires_at \in Int \cup {None}
         /\ now \in Int /\ None \notin Int
BY StoreAssumption
   DEF OwnedBy, InTable, TypeOK, StoreTypeOK, Row, Instant

\* SQL's and Rust's words for one row of the list.
LEMMA WordsAgree ==
  ASSUME TypeOK, NEW user \in Users, NEW l \in OwnedBy(user)
  PROVE  LET row == licenses[l]
             banned  == activation_matches(row, "banned")
             expired == expiry_matches(row, "expired") /\ ~banned
         IN  /\ render_license_status(row) = "banned" <=> banned
             /\ Refused(row) = "banned" <=> banned
             /\ render_license_status(row) = "expired" <=> expired
             /\ Refused(row) = "expired" <=> expired
             /\ InScope(row, "active_only", now) <=>
                  expiry_matches(row, "not_expired") /\ ~banned
             /\ render_license_status(row) = "active, unbound" <=>
                  activation_matches(row, "active_unbound") /\ ~expired
<1> DEFINE row == licenses[l]
<1>1. /\ row.status \in Status /\ now \in Int
      /\ row.expires_at \in Int \cup {None} /\ None \notin Int
  BY RowOfList
<1> HIDE DEF row
<1>2. activation_matches(row, "banned") <=> row.status = "banned"
  BY DEF activation_matches, Status
<1>3. expiry_matches(row, "expired") <=>
        row.expires_at # None /\ row.expires_at <= now
  BY DEF expiry_matches
<1>4. /\ expiry_matches(row, "not_expired") <=>
           row.expires_at # None /\ row.expires_at > now
      /\ activation_matches(row, "active_unbound") <=>
           row.status = "active" /\ row.machine_code = None
  BY DEF expiry_matches, activation_matches, Status
<1>5. /\ Refused(row) = "banned" <=> row.status = "banned"
      /\ Refused(row) = "expired" <=>
           /\ row.status # "banned"
           /\ row.expires_at # None /\ row.expires_at <= now
  BY DEF Refused, Expired
<1>6. /\ render_license_status(row) = "banned" <=> row.status = "banned"
      /\ render_license_status(row) = "expired" <=>
           /\ row.status # "banned"
           /\ row.expires_at # None /\ row.expires_at <= now
      /\ render_license_status(row) = "active, unbound" <=>
           /\ row.status \notin {"banned", "unused"}
           /\ ~(row.expires_at # None /\ row.expires_at <= now)
           /\ row.machine_code = None
  BY DEF render_license_status, shown_expired
<1>7. InScope(row, "active_only", now) <=>
        /\ row.expires_at # None /\ row.expires_at > now
        /\ row.status # "banned"
  BY DEF InScope
<1> QED BY <1>1, <1>2, <1>3, <1>4, <1>5, <1>6, <1>7 DEF row, Status

\* In every reachable state, for any licences, owners and instants: the status
\* that the list shows, the verdict that a client gets, the list's filters
\* and the reach of the global adjustment agree on who is banned and who has
\* expired, and what the list offers is allowed.
THEOREM PagesTellTheTruth == WSpec => []PagesAgree
<1>1. ASSUME TypeOK, NEW user \in Users
      PROVE  LET shown(status) == {l \in OwnedBy(user) :
                     render_license_status(licenses[l]) = status}
                 told(verdict) == {l \in OwnedBy(user) :
                     Refused(licenses[l]) = verdict}
                 adjusted == {l \in OwnedBy(user) :
                     InScope(licenses[l], "active_only", now)}
                 banned  == listed_by_activation(user, "banned")
                 expired == listed_by_expiry(user, "expired") \ banned
                 running == listed_by_expiry(user, "not_expired") \ banned
                 unbound == listed_by_activation(user, "active_unbound") \ expired
             IN /\ shown("banned") = banned /\ told("banned") = banned
                /\ shown("expired") = expired /\ told("expired") = expired
                /\ adjusted = running
                /\ shown("active, unbound") = unbound
  BY <1>1, WordsAgree DEF listed_by_activation, listed_by_expiry
<1>2. ASSUME TypeOK, NEW user \in Users
      PROVE  count_licenses_by_owners(user, "banned")
               = Cardinality(listed_by_activation(user, "banned"))
  <2>1. \A l \in OwnedBy(user) :
          activation_matches(licenses[l], "banned")
            <=> licenses[l].status = "banned"
    BY DEF activation_matches, Status
  <2>2. listed_by_activation(user, "banned")
          = {l \in OwnedBy(user) : licenses[l].status = "banned"}
    BY <2>1 DEF listed_by_activation
  <2> QED BY <2>2 DEF count_licenses_by_owners
<1>3. \A user \in Users : \A l \in offered_unbind(user) :
        unbind_allowed(licenses[l])
  BY DEF offered_unbind, unbind_allowed
<1>4. TypeOK => PagesAgree
  BY <1>1, <1>2, <1>3 DEF PagesAgree
<1> QED
  BY <1>4, PagesOnlyRead, HistoryIsAuxiliary, TypeCorrect, PTL

-----------------------------------------------------------------------------
(* The page of online users.                                               *)

\* A handler works for one key and one machine until its reply has left.
LEMMA RequestsKeepTheirNames ==
  ASSUME TypeOK, LockedRowIsFresh, Next, NEW r \in Requests,
         req[r].pc # "idle", req'[r].license_key # None
  PROVE  /\ req'[r].license_key  = req[r].license_key
         /\ req'[r].machine_code = req[r].machine_code
<1>0. req \in [Requests -> Request] /\ req[r] \in Request
  BY DEF TypeOK, VerifyTypeOK
<1>1. ASSUME VerifyStep(r)
      PROVE  /\ req'[r].license_key  = req[r].license_key
             /\ req'[r].machine_code = req[r].machine_code
  <2>1. ~ReceiveBlank(r) /\ ~ \E l \in Licenses, m \in Machines : Receive(r, l, m)
    BY DEF ReceiveBlank, Receive
  <2>2. ~Finish(r) /\ ~Cancel(r)
    BY <1>0 DEF Finish, Cancel, Idle
  <2>3. Progress(r) \/ QueryFails(r) \/ AckLost(r)
    BY <1>1, <2>1, <2>2 DEF VerifyStep
  <2> QED
    BY <1>0, <2>2, <2>3, VerdictFields DEF Progress, QueryFails, AckLost, Fetch,
       Refuse, StartRebind, StartBind, StartActivation, Accept, Claim,
       ClaimMisses, Reread, Begin, Lock, ReadLimit, CountRecent, Decline, Commit,
       LogVerify, Conclude, Fail, Goto, Request
<1>2. CASE req'[r] = req[r]
  BY <1>2
<1>3. CASE VerifyNext
  <2>1. PICK s \in Requests : VerifyStep(s)
    BY <1>3 DEF VerifyNext, VerifyStep
  <2> QED BY <1>1, <1>2, <2>1, OthersKeepTheirRows
<1>4. CASE Crash
  BY <1>4 DEF Crash, Idle
<1> QED BY <1>2, <1>3, <1>4 DEF Next, Boot, Tick

\* Who has met its own machine on the licence is among its holders.
Held(r) ==
  LET q == req[r] IN
  q.license_key # None /\ q.machine_code # None /\ "mine" \in seen[r] =>
    /\ q.machine_code \in holders[q.license_key]
    /\ licenses[q.license_key].activated_at # None

\* A row of the log is no older than the licence's activation, which is past.
LoggedLater(l) ==
  /\ licenses[l].activated_at # None => licenses[l].activated_at <= now
  /\ \A log \in verify_logs[l] :
       /\ log.machine_code \in holders[l]
       /\ licenses[l].activated_at # None
       /\ log.created_at >= licenses[l].activated_at

\* The verdict that a request is about to log came after the activation.
DecidedLater(r) ==
  req[r].pc = "log" /\ req[r].result = "valid" =>
    licenses[req[r].license_key].activated_at <= decided_at[r]

HolderInv ==
  /\ \A r \in Requests : Held(r) /\ DecidedLater(r)
  /\ \A l \in Licenses : LoggedLater(l)

\* No step of a client, an administrator or the process takes an activation
\* date away.
LEMMA DatesAreKept ==
  ASSUME TypeOK, LockedRowIsFresh, DatingInv, [Next]_vars PROVE Kept
<1>1. CASE VerifyNext
  <2>1. PICK r \in Requests : VerifyStep(r)
    BY <1>1 DEF VerifyNext, VerifyStep
  <2> QED BY <2>1, ClientDates
<1>2. CASE AdminNext
  BY <1>2, AdminDates
<1>3. CASE UNCHANGED licenses
  BY <1>3 DEF Kept
<1> QED BY <1>1, <1>2, <1>3 DEF Next, Boot, Crash, Tick, vars, storeVars

\* Every step of the server records who holds the licence when a request meets
\* its own machine there.
LEMMA HeldStep ==
  ASSUME TypeOK, TypeOK', LockedRowIsFresh, DatingInv, DatingInv', ViewsTypeOK,
         HolderInv, ServerStep, NEW r \in Requests
  PROVE  Held(r)'
<1> DEFINE q == req[r]   n == req'[r]
<1> SUFFICES ASSUME n.license_key # None, n.machine_code # None,
                    "mine" \in seen'[r]
             PROVE  /\ n.machine_code \in holders'[n.license_key]
                    /\ licenses'[n.license_key].activated_at # None
  BY DEF Held
<1>0. /\ n.license_key \in Licenses
      /\ HNext /\ Next
      /\ \A l \in Licenses :
           /\ holders[l] \subseteq holders'[l]
           /\ licenses'[l].machine_code # None
                => licenses'[l].machine_code \in holders'[l]
  <2>1. n \in Request
    BY DEF TypeOK, VerifyTypeOK
  <2>2. n.license_key \in Licenses
    BY <2>1 DEF Request
  <2> HIDE DEF n
  <2> QED BY <2>2 DEF ServerStep, HNext, ViewsTypeOK
<1>1. CASE "mine" \in Holding(q)'
  <2>1. licenses'[n.license_key].machine_code = n.machine_code
    BY <1>1 DEF Holding
  <2>2. licenses'[n.license_key].activated_at # None
    BY <1>0, <2>1 DEF DatingInv, ActivatedRowsAreDated, Dated
  <2> HIDE DEF n
  <2> QED BY <1>0, <2>1, <2>2
<1>2. CASE "mine" \notin Holding(q)'
  <2>1. q.pc # "idle" /\ "mine" \in seen[r]
    BY <1>0, <1>2 DEF HNext, Record, Remember
  <2>2. n.license_key = q.license_key /\ n.machine_code = q.machine_code
    BY <1>0, <2>1, RequestsKeepTheirNames
  <2>3. /\ q.machine_code \in holders[q.license_key]
        /\ licenses[q.license_key].activated_at # None
    BY <2>1, <2>2 DEF HolderInv, Held
  <2>4. Kept
    BY <1>0, DatesAreKept
  <2> HIDE DEF n
  <2> QED BY <1>0, <2>2, <2>3, <2>4 DEF Kept
<1> QED BY <1>1, <1>2

\* A row that is added is the verdict "valid" of a request that was entitled
\* to it, and its date lies between the verdict and now.
LEMMA NewRowsAreTrue ==
  ASSUME TypeOK, WitnessInv, ViewsTypeOK, HolderInv, NEW r \in Requests,
         LogsValid(r), NEW row \in logged_rows(r)
  PROVE  LET l == req[r].license_key IN
         /\ row.machine_code \in holders[l]
         /\ licenses[l].activated_at # None
         /\ row.created_at >= licenses[l].activated_at
<1> DEFINE l == req[r].license_key
<1>1. req[r].pc = "log" /\ req[r].result = "valid"
  BY DEF LogsValid, LogVerify
<1>2. l # None /\ req[r].machine_code # None
  BY <1>1 DEF TypeOK, VerifyTypeOK, WellFormed
<1>3. "mine" \in seen[r]
  BY <1>1 DEF WitnessInv, Witnessed
<1>4. /\ req[r].machine_code \in holders[l]
      /\ licenses[l].activated_at # None
  BY <1>2, <1>3 DEF HolderInv, Held
<1>5. licenses[l].activated_at <= decided_at[r]
  BY <1>1 DEF HolderInv, DecidedLater
<1>6. /\ licenses[l].activated_at \in Int
      /\ decided_at[r] \in Int /\ now \in Int
  BY <1>2, <1>4, StoreAssumption
     DEF TypeOK, StoreTypeOK, VerifyTypeOK, ViewsTypeOK, Request, Row, Instant
<1>7. /\ row.machine_code = req[r].machine_code
      /\ row.created_at \in decided_at[r] .. now
  BY DEF logged_rows
<1> QED BY <1>4, <1>5, <1>6, <1>7

\* Every step of the server keeps the log's rows those of holders.
LEMMA LoggedLaterStep ==
  ASSUME "unban" \notin AdminOps, TypeOK, TypeOK', LockedRowIsFresh, LifeInv,
         WitnessInv, ViewsTypeOK, HolderInv, ServerStep, NEW l \in Licenses
  PROVE  LoggedLater(l)'
<1> DEFINE a == licenses[l].activated_at   b == licenses'[l].activated_at
<1>0. /\ HNext /\ Next
      /\ holders[l] \subseteq holders'[l]
      /\ a \in Int \cup {None} /\ b \in Int \cup {None} /\ None \notin Int
      /\ now \in Int /\ now' \in {now, now + 1}
  <2>1. HNext /\ Next /\ holders[l] \subseteq holders'[l]
    BY DEF ServerStep, HNext, ViewsTypeOK
  <2>2. /\ a \in Int \cup {None} /\ b \in Int \cup {None} /\ None \notin Int
        /\ now \in Int
    BY StoreAssumption DEF TypeOK, StoreTypeOK, Row, Instant
  <2> QED BY <2>1, <2>2, TimePasses
<1>1. \/ b = a
      \/ a = None /\ b \in 0 .. now
  BY <1>0, ExpiryMoves DEF NewRow, NoRow
<1>2. a # None => a <= now
  BY DEF HolderInv, LoggedLater
<1>3. ASSUME NEW log \in verify_logs'[l]
      PROVE  /\ log.machine_code \in holders[l]
             /\ a # None
             /\ log.created_at >= a
  <2>1. CASE log \in verify_logs[l]
    BY <2>1 DEF HolderInv, LoggedLater
  <2>2. CASE log \notin verify_logs[l]
    <3>1. PICK r \in Requests :
            LogsValid(r) /\ log \in logged_rows(r) /\ req[r].license_key = l
      BY <1>3, <2>2 DEF ServerStep, LogRows, ViewsTypeOK
    <3> QED BY <3>1, NewRowsAreTrue
  <2> QED BY <2>1, <2>2
<1> HIDE DEF a, b
<1>4. b # None => b <= now'
  BY <1>0, <1>1, <1>2
<1>5. ASSUME NEW log \in verify_logs'[l]
      PROVE  /\ log.machine_code \in holders'[l]
             /\ b # None
             /\ log.created_at >= b
  BY <1>0, <1>1, <1>3, <1>5
<1> QED BY <1>4, <1>5 DEF LoggedLater, b

\* A handler that has its verdict waits with it for the row, or is done.
LEMMA VerdictsWait ==
  ASSUME TypeOK, LockedRowIsFresh, [Next]_vars, NEW r \in Requests,
         req[r].pc = "log", req'[r].pc = "log"
  PROVE  req'[r] = req[r]
<1>0. req \in [Requests -> Request] /\ req[r] \in Request
  BY DEF TypeOK, VerifyTypeOK
<1>1. ~VerifyStep(r)
  <2>1. ~(LogVerify(r) \/ QueryFails(r) \/ Cancel(r))
    BY <1>0 DEF LogVerify, QueryFails, Goto, Cancel, Idle, Request, Statements,
       InTransaction
  <2>2. ~(Receive(r, req'[r].license_key, req'[r].machine_code)
            \/ ReceiveBlank(r) \/ Finish(r) \/ AckLost(r))
    BY DEF Receive, ReceiveBlank, Finish, AckLost, ClaimRow, CommitRebind
  <2>3. ~(Fetch(r) \/ Refuse(r) \/ StartRebind(r) \/ StartBind(r)
            \/ StartActivation(r) \/ Accept(r) \/ Claim(r) \/ ClaimMisses(r)
            \/ Reread(r) \/ Begin(r) \/ Lock(r) \/ ReadLimit(r)
            \/ CountRecent(r) \/ Commit(r))
    BY DEF Fetch, Refuse, StartRebind, StartBind, StartActivation, Accept, Claim,
       ClaimRow, ClaimMisses, Reread, Begin, Lock, ReadLimit, CountRecent, Commit,
       CommitRebind
  <2> QED BY <2>1, <2>2, <2>3 DEF VerifyStep, Progress, Receive
<1>2. CASE VerifyNext
  <2>1. PICK s \in Requests : VerifyStep(s)
    BY <1>2 DEF VerifyNext, VerifyStep
  <2> QED BY <1>1, <2>1, OthersKeepTheirRows
<1>3. CASE Crash
  BY <1>3 DEF Crash, Idle
<1> QED BY <1>2, <1>3 DEF Next, Boot, Tick, vars

\* Every step of the server dates a verdict after the activation.
LEMMA DecidedLaterStep ==
  ASSUME "unban" \notin AdminOps, TypeOK, TypeOK', LockedRowIsFresh, LifeInv,
         DatingInv, DatingInv', WitnessInv, WitnessInv', ViewsTypeOK, HolderInv,
         ServerStep, NEW r \in Requests
  PROVE  DecidedLater(r)'
<1> DEFINE l == req'[r].license_key
           a == licenses[l].activated_at   b == licenses'[l].activated_at
<1> SUFFICES ASSUME req'[r].pc = "log", req'[r].result = "valid"
             PROVE  b <= decided_at'[r]
  BY DEF DecidedLater
<1>1. l \in Licenses /\ req'[r].machine_code # None /\ l # None
  BY StoreAssumption DEF TypeOK, VerifyTypeOK, WellFormed, Request
<1>2. b # None
  <2>1. "mine" \in seen'[r]
    BY DEF WitnessInv, Witnessed
  <2> QED BY <1>1, <2>1, HeldStep DEF Held
<1>3. /\ a \in Int \cup {None} /\ b \in Int /\ None \notin Int /\ now \in Int
      /\ Next /\ HNext
  <2>1. /\ a \in Int \cup {None} /\ b \in Int \cup {None} /\ None \notin Int
        /\ now \in Int
    BY <1>1, StoreAssumption DEF TypeOK, StoreTypeOK, Row, Instant
  <2> QED BY <1>2, <2>1 DEF ServerStep, HNext
<1>4. b = a \/ (a = None /\ b \in 0 .. now)
  BY <1>1, <1>3, ExpiryMoves DEF NewRow, NoRow
<1>5. CASE req[r].pc = "log"
  <2>1. req'[r] = req[r]
    BY <1>3, <1>5, VerdictsWait
  <2>2. "mine" \in seen[r]
    BY <2>1 DEF WitnessInv, Witnessed
  <2>3. a # None /\ a <= decided_at[r]
    BY <1>1, <1>5, <2>1, <2>2 DEF HolderInv, Held, DecidedLater
  <2>4. decided_at'[r] = decided_at[r]
    BY <1>5 DEF ServerStep, TimeVerdicts
  <2> QED BY <1>4, <2>3, <2>4
<1>6. CASE req[r].pc # "log"
  <2>1. decided_at'[r] = now
    BY <1>6 DEF ServerStep, TimeVerdicts
  <2>2. a # None => a <= now
    BY <1>1 DEF HolderInv, LoggedLater
  <2> HIDE DEF a, b
  <2> QED BY <1>2, <1>3, <1>4, <2>1, <2>2
<1> QED BY <1>5, <1>6

\* Every step, of the server or of create_license_type, keeps the invariant.
LEMMA HolderInvariance ==
  ASSUME "unban" \notin AdminOps, TypeOK, TypeOK', LockedRowIsFresh, LifeInv,
         DatingInv, DatingInv', WitnessInv, WitnessInv', ViewsTypeOK, HolderInv,
         [WNext]_wvars
  PROVE  HolderInv'
<1>1. CASE ServerStep
  BY <1>1, HeldStep, DecidedLaterStep, LoggedLaterStep DEF HolderInv
<1>2. CASE UNCHANGED <<hvars, verify_logs, decided_at, holders>>
  <2>1. UNCHANGED <<licenses, now, req, seen, verify_logs, decided_at, holders>>
    BY <1>2 DEF hvars, vars, storeVars, historyVars
  <2> QED BY <2>1 DEF HolderInv, Held, DecidedLater, LoggedLater
<1> QED BY <1>1, <1>2 DEF WNext, create_license_type, wvars, viewVars

\* Whoever verified within the hour verified today, unless midnight lies
\* between.
LEMMA OnlineToday ==
  ASSUME TypeOK, ViewsTypeOK, NEW user \in Users, (now % Day) >= Hour
  PROVE  online(user) \subseteq today_login(user)
<1> DEFINE midnight == now - (now % Day)
<1>1. /\ now \in Int /\ Hour \in Int /\ now % Day \in Int
  BY StoreAssumption, ViewsAssumption DEF TypeOK, StoreTypeOK
<1>2. midnight \in Int /\ midnight <= now - Hour
  BY <1>1
<1>3. ASSUME NEW l \in Licenses, NEW log \in verify_logs[l],
             log.created_at >= now - Hour
      PROVE  log.created_at >= midnight
  <2>1. log.created_at \in Int
    BY DEF ViewsTypeOK, Log
  <2> HIDE DEF midnight
  <2> QED BY <1>1, <1>2, <1>3, <2>1
<1> HIDE DEF midnight
<1>4. ASSUME NEW l \in online(user) PROVE l \in today_login(user)
  <2>1. l \in Licenses /\ l \in OwnedBy(user) /\ ValidSince(l, now - Hour) # {}
    BY DEF online, OwnedBy, InTable
  <2>2. ValidSince(l, midnight) # {}
    BY <1>3, <2>1 DEF ValidSince
  <2> QED BY <2>1, <2>2 DEF today_login, midnight
<1> QED BY <1>4

\* Without "unban", across crashes, lost races, rebinds, bans and unbindings:
\* the machine that the page shows as online did hold the licence, after the
\* licence was activated.
THEOREM OnlineUsersWereHolders ==
  ASSUME "unban" \notin AdminOps PROVE WSpec => []OnlineWereHolders
<1>1. WInit => HolderInv
  BY DEF WInit, HInit, HistoryInit, Init, StoreInit, VerifyInit, Idle, NewRow,
     NoRow, HolderInv, Held, DecidedLater, LoggedLater
<1>2. TypeOK /\ TypeOK' /\ LockedRowIsFresh /\ LifeInv /\ DatingInv
        /\ DatingInv' /\ WitnessInv /\ WitnessInv' /\ ViewsTypeOK /\ HolderInv
        /\ [WNext]_wvars => HolderInv'
  BY HolderInvariance
<1>3. ASSUME TypeOK, ViewsTypeOK, HolderInv PROVE OnlineWereHolders
  <2>1. ASSUME NEW user \in Users, NEW l \in online(user), NEW log \in last_seen(l)
        PROVE  l \in Licenses /\ log \in verify_logs[l]
    BY DEF online, OwnedBy, InTable, last_seen, ValidSince
  <2>2. ASSUME NEW user \in Users, NEW l \in online(user), NEW log \in last_seen(l)
        PROVE  /\ log.machine_code \in holders[l]
               /\ licenses[l].activated_at # None
               /\ log.created_at >= licenses[l].activated_at
    BY <1>3, <2>1 DEF HolderInv, LoggedLater
  <2> QED BY <1>3, <2>2, OnlineToday DEF OnlineWereHolders
<1> QED
  BY <1>1, <1>2, <1>3, PagesOnlyRead, HistoryIsAuxiliary, TypeCorrect,
     LockedRowsAreFresh, LifeCorrect, DatingCorrect, StepsAreWitnessed,
     ViewsTypeCorrect, PTL DEF WSpec
=============================================================================
