---------------------------- MODULE HistoryProofs ----------------------------
(***************************************************************************)
(* Theorems about LicenseHistory for every value of its constants: what    *)
(* the settings, the rebind log, the expiries and the replies owe to the   *)
(* past.                                                                   *)
(***************************************************************************)
EXTENDS RegistryProofs

-----------------------------------------------------------------------------
(* The setting.                                                            *)

\* Also while the server is down, and before the row exists, whoever reads
\* the limit gets what was submitted last.
SettingInv == auto_rebind_limit = submitted

\* Only update_settings moves the limit in force, and it is remembered; the
\* seeding of init_database does not.
LEMMA SettingInvariance ==
  ASSUME TypeOK, SettingInv, [HNext]_hvars PROVE SettingInv'
<1>1. CASE HNext /\ \E h \in Handlers, limit \in LimitInputs :
                      UpdateSettings(h, limit) /\ UNCHANGED req
  <2>1. submitted' = auto_rebind_limit_per_24h'
    BY <1>1 DEF HNext, Record
  <2>2. auto_rebind_limit_per_24h' # None
    BY <1>1, StoreAssumption DEF UpdateSettings
  <2> QED BY <2>1, <2>2 DEF SettingInv, auto_rebind_limit
<1>2. CASE HNext /\ ~ \E h \in Handlers, limit \in LimitInputs :
                        UpdateSettings(h, limit) /\ UNCHANGED req
  <2>1. UNCHANGED submitted
    BY <1>2 DEF HNext, Record
  <2>2. CASE AdminNext /\ UNCHANGED req
    <3>1. UNCHANGED auto_rebind_limit_per_24h
      BY <1>2, <2>2 DEF AdminNext, AdminStart, AdminProgress, ReadForBan,
         ReadForUnban, ReadForUnbind, ReadForAdjust, StartAdjustAll, StartCreate,
         HandlerDropped, Take, storeVars, WriteStatus, WriteUnbind, WriteShift,
         Write, WriteAll, CreateOne
    <3> QED BY <2>1, <3>1 DEF SettingInv, auto_rebind_limit
  <2>3. CASE VerifyNext
    <3>1. UNCHANGED auto_rebind_limit_per_24h
      BY <2>3, ClientsOnlyWriteRows DEF VerifyNext, VerifyStep
    <3> QED BY <2>1, <3>1 DEF SettingInv, auto_rebind_limit
  <2>4. CASE Boot \/ Crash \/ Tick
    <3>1. UNCHANGED auto_rebind_limit
      BY <2>4 DEF Boot, Crash, Tick, SeedSetting, auto_rebind_limit
    <3> QED BY <2>1, <3>1 DEF SettingInv
  <2> QED BY <1>2, <2>2, <2>3, <2>4 DEF HNext, Next
<1>3. CASE UNCHANGED hvars
  BY <1>3 DEF hvars, vars, storeVars, historyVars, SettingInv, auto_rebind_limit
<1> QED BY <1>1, <1>2, <1>3

\* However often the server crashes and seeds its settings again: the limit
\* in force is the one submitted last.
THEOREM SettingsSurvive == HSpec => []SettingIsTheLastSubmitted
<1>1. HInit => SettingInv
  BY DEF HInit, HistoryInit, Init, StoreInit, SettingInv, auto_rebind_limit
<1>2. SettingInv => SettingIsTheLastSubmitted
  BY DEF SettingInv, SettingIsTheLastSubmitted
<1>3. TypeOK /\ SettingInv /\ [HNext]_hvars => SettingInv'
  BY SettingInvariance
<1> QED
  BY <1>1, <1>2, <1>3, HistoryIsAuxiliary, TypeCorrect, PTL DEF HSpec

-----------------------------------------------------------------------------
(* The rebind window.                                                      *)

\* Every run of Day ticks that begins with a rebind of l.
Window(l, from) ==
  {i \in DOMAIN machine_rebind_logs[l] :
     machine_rebind_logs[l][i].created_at \in from .. from + Day}

\* The one step that writes the log.  A window that holds the new entry
\* reaches back at most Day ticks before it, so the rest of it was counted.
LEMMA CommitWindow ==
  ASSUME TypeOK, LockedRowIsFresh, QuotaInv, RebindWindow,
         NEW r \in Requests, CommitRebind(r),
         NEW l \in Licenses, NEW i \in DOMAIN machine_rebind_logs'[l]
  PROVE  Cardinality(Window(l, machine_rebind_logs[l][i].created_at)') <= peak
<1> DEFINE log == machine_rebind_logs[l]
           key == req[r].license_key
           at == req[r].at
           entry == [created_at |-> at, old |-> req[r].row.machine_code,
                     new |-> req[r].machine_code]
           recent == RecentRebinds(key, at)
           from == machine_rebind_logs'[l][i].created_at
           window == {j \in DOMAIN machine_rebind_logs'[l] :
                        machine_rebind_logs'[l][j].created_at \in from .. from + Day}
<1>0. /\ req[r] \in Request /\ StoreTypeOK /\ WellFormed(req[r])
      /\ machine_rebind_logs \in [Licenses -> Seq(Rebind)]
      /\ req[r].pc = "commit" /\ FreshFor(r)
      /\ peak \in Int /\ req[r].limit <= peak
      /\ Day \in Nat
  BY StoreAssumption DEF TypeOK, VerifyTypeOK, StoreTypeOK, QuotaInv,
     CommitRebind, LockedRowIsFresh, InTransaction
<1>8. /\ req[r].limit \in Int /\ log \in Seq(Rebind) /\ Len(log) \in Nat
      /\ DOMAIN log = 1 .. Len(log)
  BY <1>0, StoreAssumption DEF Request
<1>9. \A j \in DOMAIN log : log[j].created_at \in Int
  <2>1. \A j \in DOMAIN log : log[j] \in Rebind
    BY <1>8
  <2> HIDE DEF log
  <2> QED BY <2>1, StoreAssumption DEF Rebind, Instant
<1>1. key \in Licenses /\ at \in Int
  BY <1>0, <1>8, <1>9, StoreAssumption DEF WellFormed, Statements, InTransaction, Request, Instant
<1>2. \A f \in {log[j].created_at : j \in DOMAIN log} :
        Cardinality(Window(l, f)) <= peak
  BY DEF RebindWindow, Window
<1>3. Window(l, machine_rebind_logs[l][i].created_at)' = window
  BY DEF Window
<1>4. CASE l # key
  <2>1. machine_rebind_logs'[l] = log
    BY <1>0, <1>8, <1>9, <1>4 DEF CommitRebind
  <2>2. window = Window(l, from)
    BY <2>1 DEF Window
  <2>3. i \in DOMAIN log /\ from = log[i].created_at
    BY <2>1
  <2> HIDE DEF window, from
  <2> QED BY <1>2, <1>3, <2>2, <2>3
<1>5. CASE l = key
  <2>1. machine_rebind_logs'[l] = Append(log, entry)
    BY <1>0, <1>8, <1>9, <1>1, <1>5 DEF CommitRebind
  <2>2. /\ DOMAIN machine_rebind_logs'[l] = 1 .. Len(log) + 1
        /\ \A j \in DOMAIN log : machine_rebind_logs'[l][j] = log[j]
        /\ machine_rebind_logs'[l][Len(log) + 1] = entry
    BY <1>0, <1>8, <1>9, <2>1
  <2>3. /\ IsFiniteSet(recent) /\ Cardinality(recent) \in Nat
        /\ ~(Cardinality(recent) >= req[r].limit)
    BY <1>0, <1>8, <1>9, <1>1, RecentIsFinite DEF FreshFor, LimitReached
  <2>4. from \in Int
    BY <1>0, <1>8, <1>9, <1>1, <2>2
  <2>5. CASE at \in from .. from + Day
    <3>1. window \subseteq recent \cup {Len(log) + 1}
      <4> SUFFICES ASSUME NEW j \in window, j # Len(log) + 1
                   PROVE  j \in recent
        OBVIOUS
      <4>1. j \in DOMAIN log /\ log[j].created_at \in from .. from + Day
        BY <1>0, <1>8, <1>9, <2>2
      <4>2. log[j].created_at >= at - Day
        BY <1>0, <1>8, <1>9, <1>1, <2>4, <2>5, <4>1
      <4> QED BY <1>5, <4>1, <4>2 DEF RecentRebinds
    <3>2. IsFiniteSet(recent \cup {Len(log) + 1})
          /\ Cardinality(recent \cup {Len(log) + 1}) \in Nat
          /\ Cardinality(recent \cup {Len(log) + 1}) <= Cardinality(recent) + 1
      <4> DEFINE new == Len(log) + 1
      <4> HIDE DEF recent, new
      <4>1. IsFiniteSet(recent \cup {new})
            /\ Cardinality(recent \cup {new}) =
                 IF new \in recent THEN Cardinality(recent)
                 ELSE Cardinality(recent) + 1
        BY <2>3, FS_AddElement
      <4>2. Cardinality(recent \cup {new}) \in Nat
        BY <4>1, FS_CardinalityType
      <4> QED BY <2>3, <4>1, <4>2 DEF new
    <3>3. Cardinality(window) <= Cardinality(recent) + 1
          /\ Cardinality(window) \in Nat
      <4> HIDE DEF recent, window
      <4> QED BY <2>3, <3>1, <3>2, FS_Subset, FS_CardinalityType
    <3> HIDE DEF recent, window
    <3> QED BY <1>0, <1>8, <1>9, <1>3, <2>3, <3>3
  <2>6. CASE at \notin from .. from + Day
    <3>1. i \in DOMAIN log /\ from = log[i].created_at
      BY <1>0, <1>8, <1>9, <1>1, <2>2, <2>6
    <3>2. window = Window(l, from)
      <4>1. window \subseteq Window(l, from)
        <5> SUFFICES ASSUME NEW j \in window PROVE j \in Window(l, from)
          OBVIOUS
        <5>1. j # Len(log) + 1
          BY <2>2, <2>6
        <5> QED BY <1>0, <1>8, <1>9, <2>2, <5>1 DEF Window
      <4>2. Window(l, from) \subseteq window
        BY <1>0, <1>8, <1>9, <2>2 DEF Window
      <4> QED BY <4>1, <4>2
    <3> HIDE DEF window, from
    <3> QED BY <1>2, <1>3, <3>1, <3>2
  <2> QED BY <2>5, <2>6
<1> QED BY <1>4, <1>5

\* No step puts more rebinds into 24 hours than the largest limit allows.
LEMMA WindowInvariance ==
  ASSUME TypeOK, TypeOK', LockedRowIsFresh, QuotaInv, RebindWindow,
         [HNext]_hvars
  PROVE  RebindWindow'
<1>1. CASE HNext
  <2>0. peak \in Int /\ peak' \in Int /\ peak <= peak'
    BY <1>1, PeakStep DEF HNext, QuotaInv
  <2>1. ASSUME NEW r \in Requests, CommitRebind(r), NEW l \in Licenses,
               NEW i \in DOMAIN machine_rebind_logs'[l]
        PROVE  Cardinality(Window(l, machine_rebind_logs[l][i].created_at)') <= peak'
    <3> DEFINE n == Cardinality(Window(l, machine_rebind_logs[l][i].created_at)')
    <3>1. n <= peak
      BY <2>1, CommitWindow
    <3>2. n \in Nat
      <4> DEFINE from == machine_rebind_logs'[l][i].created_at
                 W == {j \in DOMAIN machine_rebind_logs'[l] :
                   machine_rebind_logs'[l][j].created_at \in from .. from + Day}
      <4>1. machine_rebind_logs'[l] \in Seq(Rebind)
        BY DEF TypeOK, StoreTypeOK
      <4>2. IsFiniteSet(DOMAIN machine_rebind_logs'[l])
        BY <4>1, FS_Interval
      <4>3. W \in SUBSET DOMAIN machine_rebind_logs'[l]
        OBVIOUS
      <4>4. Cardinality(W) \in Nat
        <5> HIDE DEF W
        <5> QED BY <4>2, <4>3, FS_Subset, FS_CardinalityType
      <4> QED BY <4>4 DEF Window
    <3>3. n <= peak'
      <4> HIDE DEF n
      <4> QED BY <2>0, <3>1, <3>2
    <3> QED BY <3>3
  <2>2. CASE UNCHANGED machine_rebind_logs
    <3>1. ASSUME NEW l \in Licenses, NEW i \in DOMAIN machine_rebind_logs[l]
          PROVE  Cardinality(Window(l, machine_rebind_logs[l][i].created_at)) <= peak'
      <4> DEFINE W == Window(l, machine_rebind_logs[l][i].created_at)
      <4>1. Cardinality(W) <= peak
        BY DEF RebindWindow, Window
      <4>2. Cardinality(W) \in Nat
        <5>1. IsFiniteSet(DOMAIN machine_rebind_logs[l])
          BY RecentIsFinite DEF TypeOK
        <5>2. W \in SUBSET DOMAIN machine_rebind_logs[l]
          BY DEF Window
        <5> HIDE DEF W
        <5> QED BY <5>1, <5>2, FS_Subset, FS_CardinalityType
      <4>3. Cardinality(W) <= peak'
        <5> HIDE DEF W
        <5> QED BY <2>0, <4>1, <4>2
      <4> QED BY <4>3
    <3> QED BY <2>2, <3>1 DEF RebindWindow, Window
  <2>3. CASE VerifyNext
    <3>1. PICK r \in Requests : VerifyStep(r)
      BY <2>3 DEF VerifyNext, VerifyStep
    <3>2. CASE CommitRebind(r)
      BY <2>1, <3>2 DEF RebindWindow, Window
    <3>3. CASE ClaimRow(r)
      BY <2>2, <3>3 DEF ClaimRow
    <3> QED BY <2>2, <3>1, <3>2, <3>3, ClientWrites
  <2>4. CASE AdminNext
    BY <2>2, <2>4, AdminRespectsLocks
  <2> QED BY <1>1, <2>2, <2>3, <2>4 DEF HNext, Next, Boot, Crash, Tick
<1>2. CASE UNCHANGED hvars
  BY <1>2 DEF hvars, vars, storeVars, historyVars, RebindWindow
<1> QED BY <1>1, <1>2

\* However many transactions compete for a licence, however long they wait
\* for its row, and however the limit is moved meanwhile: no 24 hours contain
\* more rebinds of it than the largest limit that was ever in force.
THEOREM RebindsAreLimited == HSpec => []RebindWindow
<1>1. HInit => RebindWindow
  BY DEF HInit, Init, StoreInit, RebindWindow
<1>2. TypeOK /\ TypeOK' /\ LockedRowIsFresh /\ QuotaInv /\ RebindWindow
        /\ [HNext]_hvars => RebindWindow'
  BY WindowInvariance
<1> QED
  BY <1>1, <1>2, HistoryIsAuxiliary, TypeCorrect, LockedRowsAreFresh,
     QuotaCorrect, PTL DEF HSpec

-----------------------------------------------------------------------------
(* Types of the history variables.                                         *)

\* The hours of a step are those of one job that adjusts the licence.
LEMMA AdjustedHours ==
  ASSUME NEW l \in Licenses
  PROVE  \/ /\ Adjusted(l) = 0
            /\ \A h \in Handlers : ~(Adjusts(h) /\ l \in Selected(h))
         \/ \E h \in Handlers : /\ Adjusts(h) /\ l \in Selected(h)
                                /\ Adjusted(l) = adm[h].hours
<1> DEFINE adjusts(h) == Adjusts(h) /\ l \in Selected(h)
<1>1. CASE \E h \in Handlers : adjusts(h)
  <2> DEFINE k == CHOOSE h \in Handlers : adjusts(h)
  <2>1. k \in Handlers /\ adjusts(k)
    BY <1>1
  <2>2. Adjusted(l) = adm[k].hours
    BY <1>1 DEF Adjusted
  <2> QED BY <2>1, <2>2
<1>2. CASE ~\E h \in Handlers : adjusts(h)
  BY <1>2 DEF Adjusted
<1> QED BY <1>1, <1>2

\* Only jobs with hours adjust.
LEMMA HoursAreWhole ==
  ASSUME TypeOK, NEW l \in Licenses PROVE Adjusted(l) \in Int
<1>1. ASSUME NEW h \in Handlers, Adjusts(h) PROVE adm[h].hours \in Int
  BY <1>1 DEF Adjusts, WriteShift, WriteAll, TypeOK, AdminTypeOK, Job, Resting
<1> QED BY <1>1, AdjustedHours

HistoryInv ==
  /\ seen \in [Requests -> SUBSET Facts]
  /\ submitted \in 0 .. MaxSetting \cup {1}
  /\ peak \in 1 .. MaxSetting + 1
  /\ credit \in [Licenses -> Int]

\* Every step keeps the types of the memory.
LEMMA HistoryTypeInvariance ==
  ASSUME TypeOK, TypeOK', SettingInv', HistoryInv, [HNext]_hvars
  PROVE  HistoryInv'
<1>1. CASE HNext
  <2>1. seen' \in [Requests -> SUBSET Facts]
    <3>1. \A q : Holding(q) \in SUBSET Facts
      BY DEF Holding
    <3>2. \A r \in Requests : Holding(req[r])' \in SUBSET Facts
      BY DEF Holding
    <3> QED BY <1>1, <3>2 DEF HNext, Record, Remember, HistoryInv
  <2>2. auto_rebind_limit' \in 0 .. MaxSetting \cup {1}
    BY StoreAssumption DEF TypeOK, StoreTypeOK, auto_rebind_limit
  <2>3. submitted' \in 0 .. MaxSetting \cup {1}
    BY <2>2 DEF SettingInv
  <2>4. peak' \in 1 .. MaxSetting + 1
    <3>1. peak' = IF auto_rebind_limit' > peak THEN auto_rebind_limit' ELSE peak
      BY <1>1 DEF HNext, Record
    <3>2. MaxSetting \in Nat /\ peak \in 1 .. MaxSetting + 1
      BY StoreAssumption DEF HistoryInv
    <3> QED BY <2>2, <3>1, <3>2
  <2>5. ASSUME NEW l \in Licenses PROVE credit[l] + Adjusted(l) \in Int
    BY HoursAreWhole DEF HistoryInv
  <2>6. credit' \in [Licenses -> Int]
    BY <1>1, <2>5 DEF HNext, Record
  <2> QED BY <2>1, <2>3, <2>4, <2>6 DEF HistoryInv
<1>2. CASE UNCHANGED hvars
  BY <1>2 DEF hvars, historyVars, HistoryInv
<1> QED BY <1>1, <1>2

\* The memory is well typed: the limit in force, from which it takes the
\* submitted and the largest one, stays within the settings' range, and what
\* is added up are the hours of the jobs.
THEOREM HistoryTypeCorrect == HSpec => []HistoryTypeOK
<1>1. HInit => HistoryInv
  BY StoreAssumption DEF HInit, HistoryInit, HistoryInv
<1>2. HInit => SettingInv
  BY DEF HInit, HistoryInit, Init, StoreInit, SettingInv, auto_rebind_limit
<1>3. TypeOK /\ SettingInv /\ [HNext]_hvars => SettingInv'
  BY SettingInvariance
<1>4. TypeOK /\ TypeOK' /\ SettingInv' /\ HistoryInv /\ [HNext]_hvars
        => HistoryInv'
  BY HistoryTypeInvariance
<1>5. TypeOK /\ HistoryInv => HistoryTypeOK
  BY DEF HistoryTypeOK, HistoryInv
<1> QED
  BY <1>1, <1>2, <1>3, <1>4, <1>5, HistoryIsAuxiliary, TypeCorrect,
     PTL DEF HSpec

-----------------------------------------------------------------------------
(* Adjustments.                                                            *)

\* An UPDATE that adjusts a row moves its expiry by the hours of its job and
\* leaves the rest alone.
LEMMA AdjustedRow ==
  ASSUME TypeOK, NEW l \in Licenses, NEW h \in Handlers, Adjusts(h),
         l \in Selected(h)
  PROVE  /\ licenses'[l].activated_at = licenses[l].activated_at
         /\ licenses[l].expires_at # None
         /\ licenses'[l].expires_at = licenses[l].expires_at + adm[h].hours
<1>0. licenses \in [Licenses -> Row] /\ licenses[l].expires_at # None
  BY DEF TypeOK, StoreTypeOK, Selected
<1>1. licenses'[l] = Shifted(licenses[l], adm[h].hours)
  <2>1. CASE WriteShift(h)
    BY <1>0, <2>1 DEF WriteShift, Write, Adjusts, Selected
  <2>2. CASE WriteAll(h)
    <3>1. Selected(h) =
            {k \in adm[h].targets :
               InScope(licenses[k], adm[h].scope, adm[h].at)}
      BY <2>2 DEF Selected, WriteAll, InScope, TypeOK, AdminTypeOK, Job, Resting
    <3> QED BY <2>2, <3>1 DEF WriteAll, Adjusts
  <2> QED BY <2>1, <2>2 DEF Adjusts
<1> QED BY <1>0, <1>1 DEF Shifted, Row

\* Without "unban", an expiry changes in two ways: the activation of an
\* empty row sets it, and an adjustment moves it by its hours.
LEMMA ExpiryMoves ==
  ASSUME "unban" \notin AdminOps, TypeOK, TypeOK', LockedRowIsFresh, LifeInv,
         Next, NEW l \in Licenses
  PROVE  \/ /\ licenses'[l].activated_at = licenses[l].activated_at
            /\ licenses'[l].expires_at = licenses[l].expires_at
            /\ Adjusted(l) = 0
         \/ /\ licenses'[l].activated_at = licenses[l].activated_at
            /\ licenses[l].expires_at # None
            /\ licenses'[l].expires_at = licenses[l].expires_at + Adjusted(l)
         \/ /\ licenses[l] = NewRow
            /\ Adjusted(l) = 0
            /\ licenses'[l].activated_at # None
            /\ licenses'[l].activated_at \in 0 .. now
            /\ licenses'[l].expires_at =
                 IF Duration[l] = 0 THEN None
                 ELSE licenses'[l].activated_at + Duration[l]
<1> DEFINE Same == /\ licenses'[l].activated_at = licenses[l].activated_at
                   /\ licenses'[l].expires_at = licenses[l].expires_at
<1>a. CASE \E h \in Handlers : /\ Adjusts(h) /\ l \in Selected(h)
                             /\ Adjusted(l) = adm[h].hours
  BY <1>a, AdjustedRow
<1>b. SUFFICES ASSUME Adjusted(l) = 0,
                      \A h \in Handlers : ~(Adjusts(h) /\ l \in Selected(h))
               PROVE  \/ Same
                      \/ /\ licenses[l] = NewRow
                         /\ licenses'[l].activated_at # None
                         /\ licenses'[l].activated_at \in 0 .. now
                         /\ licenses'[l].expires_at =
                              IF Duration[l] = 0 THEN None
                              ELSE licenses'[l].activated_at + Duration[l]
  BY <1>a, AdjustedHours
<1>0. /\ licenses \in [Licenses -> Row] /\ adm \in [Handlers -> Job]
      /\ RowLife(licenses[l])
      /\ None \notin Int
      /\ NewRow.activated_at = None /\ NoRow.activated_at = None
      /\ NewRow.expires_at = None /\ NoRow.expires_at = None
  BY StoreAssumption DEF TypeOK, StoreTypeOK, AdminTypeOK, LifeInv, NewRow, NoRow
<1>1. CASE UNCHANGED licenses
  BY <1>1
<1>2. CASE VerifyNext
  <2>1. PICK r \in Requests : VerifyStep(r)
    BY <1>2 DEF VerifyNext, VerifyStep
  <2>2. CASE CommitRebind(r)
    BY <1>0, <2>2 DEF CommitRebind, BoundRow, Row
  <2>3. CASE ClaimRow(r) /\ req[r].pc = "bind"
    BY <1>0, <2>3 DEF ClaimRow, BoundRow, Row
  <2>4. CASE ClaimRow(r) /\ req[r].pc = "activate" /\ req[r].license_key # l
    BY <1>0, <2>4 DEF ClaimRow
  <2>5. CASE ClaimRow(r) /\ req[r].pc = "activate" /\ req[r].license_key = l
    <3>1. licenses[l] = NewRow /\ licenses'[l] = ActivatedRow(r)
      BY <1>0, <2>5 DEF ClaimRow, activation_selects, RowLife
    <3>2. /\ ActivatedRow(r).activated_at = req[r].at
          /\ ActivatedRow(r).expires_at = req[r].expires_at
      BY <1>0, <2>5 DEF ActivatedRow, Row
    <3>3. req[r].expires_at = IF Duration[l] = 0 THEN None
                              ELSE req[r].at + Duration[l]
      BY <2>5 DEF LifeInv, RequestLife
    <3>4. req[r].at # None
      BY StoreAssumption DEF TypeOK, VerifyTypeOK, Request, Instant
    <3>5. req[r].at \in 0 .. now
      BY <2>5 DEF LifeInv, RequestLife
    <3> QED BY <3>1, <3>2, <3>3, <3>4, <3>5
  <2> QED BY <1>1, <2>1, <2>2, <2>3, <2>4, <2>5, ClientWrites DEF ClaimRow
<1>3. CASE AdminNext /\ UNCHANGED req
  <2>1. ASSUME NEW h \in Handlers, AdminProgress(h) PROVE Same
    <3>2. CASE WriteStatus(h) \/ WriteUnbind(h)
      BY <1>0, <3>2 DEF WriteStatus, WriteUnbind, Write, Unbound, Row
    <3>3. CASE WriteShift(h)
      <4>1. licenses[l].expires_at = None => Shifted(licenses[l], adm[h].hours)
                                             = licenses[l]
        BY DEF Shifted
      <4>2. CASE l # adm[h].lic \/ licenses[l].expires_at = None
        BY <1>0, <3>3, <4>1, <4>2 DEF WriteShift, Write
      <4>3. CASE l = adm[h].lic /\ licenses[l].expires_at # None
        <5>1. Selected(h) = {l}
          BY <3>3, <4>3 DEF Selected, WriteShift
        <5>2. ~InRange(licenses[l], adm[h].hours)
          BY <1>b, <3>3, <5>1 DEF Adjusts
        <5> QED BY <1>0, <3>3, <4>3, <5>2 DEF WriteShift, Write
      <4> QED BY <4>2, <4>3
    <3>1. CASE WriteAll(h)
      <4>1. Selected(h) =
              {k \in adm[h].targets :
                 InScope(licenses[k], adm[h].scope, adm[h].at)}
        BY <1>0, <3>1 DEF Selected, WriteAll, InScope, Job, Resting
      <4> QED BY <1>0, <1>b, <3>1, <4>1 DEF WriteAll, Adjusts
    <3>4. ASSUME NEW k \in Licenses, CreateOne(h, k) PROVE Same
      BY <1>0, <3>4 DEF CreateOne, Fresh, RowLife
    <3> QED BY <2>1, <3>1, <3>2, <3>3, <3>4 DEF AdminProgress
  <2>2. UNCHANGED licenses \/ \E h \in Handlers : AdminProgress(h)
    BY <1>3 DEF AdminNext, AdminStart, ReadForBan, ReadForUnban, ReadForUnbind,
       ReadForAdjust, StartAdjustAll, UpdateSettings, StartCreate,
       HandlerDropped, Take, storeVars
  <2> QED BY <1>1, <1>3, <2>1, <2>2
<1> QED BY <1>1, <1>2, <1>3 DEF Next, Boot, Crash, Tick

\* The sums are kept from the activation on; before it there are none.
CreditInv ==
  \A l \in Licenses :
    /\ licenses[l].activated_at = None => credit[l] = 0
    /\ licenses[l].activated_at # None /\ Duration[l] # 0 =>
         licenses[l].expires_at =
           licenses[l].activated_at + Duration[l] + credit[l]

\* Every step keeps the sums of the adjustments.
LEMMA CreditInvariance ==
  ASSUME "unban" \notin AdminOps, TypeOK, TypeOK', LockedRowIsFresh, LifeInv,
         DatingInv, DatingInv', HistoryTypeOK, CreditInv, [HNext]_hvars
  PROVE  CreditInv'
<1>1. ASSUME HNext, NEW l \in Licenses
      PROVE  /\ licenses'[l].activated_at = None => credit'[l] = 0
             /\ licenses'[l].activated_at # None /\ Duration[l] # 0 =>
                  licenses'[l].expires_at =
                    licenses'[l].activated_at + Duration[l] + credit'[l]
  <2> DEFINE a == licenses[l].activated_at    b == licenses'[l].activated_at
             x == licenses[l].expires_at      y == licenses'[l].expires_at
             c == credit[l]                   d == credit'[l]
  <2>0. /\ a \in Int \cup {None} /\ b \in Int \cup {None}
        /\ x \in Int \cup {None} /\ y \in Int \cup {None}
        /\ None \notin Int /\ c \in Int /\ Duration[l] \in Int
    BY StoreAssumption DEF TypeOK, StoreTypeOK, Row, Instant, HistoryTypeOK
  <2> DEFINE e == Adjusted(l)
  <2>1. d = c + e /\ e \in Int
    BY <1>1, HoursAreWhole DEF HNext, Record
  <2>2. /\ a = None => c = 0 /\ x = None
        /\ a # None /\ Duration[l] # 0 => x = a + Duration[l] + c
        /\ a # None => (x = None <=> Duration[l] = 0)
    BY DEF CreditInv, DatingInv, ActivatedRowsAreDated, Dated
  <2>3. \/ b = a /\ y = x /\ e = 0
        \/ b = a /\ x # None /\ y = x + e
        \/ /\ a = None /\ b # None /\ e = 0
           /\ y = IF Duration[l] = 0 THEN None ELSE b + Duration[l]
    BY <1>1, ExpiryMoves DEF HNext, NewRow, NoRow
  <2> HIDE DEF a, b, x, y, c, d, e
  <2>4. /\ b = None => d = 0
        /\ b # None /\ Duration[l] # 0 => y = b + Duration[l] + d
    BY <2>0, <2>1, <2>2, <2>3
  <2> QED BY <2>4 DEF b, y, d
<1>2. CASE UNCHANGED hvars
  BY <1>2 DEF hvars, vars, storeVars, historyVars, CreditInv
<1> QED BY <1>1, <1>2 DEF CreditInv

\* However adjustments of one licence or of all interleave with each other and
\* with activations, bindings, rebinds, bans and crashes: the hours that
\* administrators were told they had added are all in the expiry, once each.
THEOREM AdjustmentsAreKept ==
  ASSUME "unban" \notin AdminOps PROVE HSpec => []NoAdjustmentIsLost
<1>1. HInit => CreditInv
  BY DEF HInit, HistoryInit, Init, StoreInit, NewRow, NoRow, CreditInv
<1>2. TypeOK /\ TypeOK' /\ LockedRowIsFresh /\ LifeInv /\ DatingInv
        /\ DatingInv' /\ HistoryTypeOK /\ CreditInv /\ [HNext]_hvars
        => CreditInv'
  BY CreditInvariance
<1>3. CreditInv => NoAdjustmentIsLost
  BY DEF CreditInv, NoAdjustmentIsLost
<1> QED
  BY <1>1, <1>2, <1>3, HistoryIsAuxiliary, HistoryTypeCorrect, TypeCorrect,
     LockedRowsAreFresh, DatingCorrect, LifeCorrect, PTL DEF HSpec
=============================================================================
