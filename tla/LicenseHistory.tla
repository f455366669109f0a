---------------------------- MODULE LicenseHistory ----------------------------
(***************************************************************************)
(* The licence server with a memory: history variables that no handler     *)
(* reads, which record what was true and what was asked for so far, and    *)
(* the properties that relate a reply or a row to that past.               *)
(***************************************************************************)
EXTENDS LicenseService

VARIABLES
  seen,        \* [Requests -> SUBSET Facts]: what was true of the request's
               \* licence at some moment since it was received
  submitted,   \* the limit administrators set last, 1 before the first time
  peak,        \* the largest limit that was in force so far
  credit       \* [Licenses -> Int]: hours that administrators were told
               \* they had added to the licence, their sum

historyVars == <<seen, submitted, peak, credit>>
hvars == <<vars, historyVars>>

Facts == {"absent", "banned", "expired", "usable", "mine", "rival"}

\* What holds of a request's licence in a state of the table.
Holding(q) ==
  LET row == licenses[q.license_key]
      holds(f) ==
        CASE f = "absent"  -> row.status = "absent"
          [] f = "banned"  -> row.status = "banned"
          [] f = "expired" -> row.expires_at # None /\ row.expires_at <= now
          [] f = "usable"  -> /\ row.status \in {"unused", "active"}
                              /\ row.expires_at # None => row.expires_at > now
          [] f = "mine"    -> /\ row.status # "banned"
                              /\ row.machine_code = q.machine_code
          [] f = "rival"   -> row.machine_code \notin {None, q.machine_code}
  IN {f \in Facts : holds(f)}

\* Facts accumulate from the step that receives the request on.
Remember ==
  seen' = [r \in Requests |->
    IF req'[r].license_key = None THEN {}
    ELSE Holding(req[r])' \cup (IF req[r].pc = "idle" THEN {} ELSE seen[r])]

HistoryInit ==
  /\ seen = [r \in Requests |-> {}]
  /\ submitted = 1 /\ peak = 1
  /\ credit = [l \in Licenses |-> 0]

HInit == Init /\ HistoryInit

\* The rows that the adjusting UPDATE of h selects.
Selected(h) ==
  {l \in Licenses :
     /\ licenses[l].expires_at # None
     /\ \/ adm[h].pc = "shift" /\ l = adm[h].lic
        \/ /\ adm[h].pc = "sweep" /\ l \in adm[h].targets
           /\ InScope(licenses[l], adm[h].scope, adm[h].at)}
\* It takes effect, and its administrator is told so.
Adjusts(h) ==
  /\ WriteShift(h) \/ WriteAll(h)
  /\ \A l \in Selected(h) : InRange(licenses[l], adm[h].hours)

\* What the adjustment of this step owes the licence: the hours that were
\* submitted and accepted, whatever the row has become.
Adjusted(l) ==
  LET adjusts(h) == Adjusts(h) /\ l \in Selected(h) IN
  IF \E h \in Handlers : adjusts(h)
  THEN adm[CHOOSE h \in Handlers : adjusts(h)].hours ELSE 0

Record ==
  /\ Remember
  /\ peak' = IF auto_rebind_limit' > peak THEN auto_rebind_limit' ELSE peak
  /\ submitted' = IF \E h \in Handlers, limit \in LimitInputs :
                        UpdateSettings(h, limit) /\ UNCHANGED req
                  THEN auto_rebind_limit_per_24h' ELSE submitted
  /\ credit' = [l \in Licenses |-> credit[l] + Adjusted(l)]

HNext == Next /\ Record
HSpec == HInit /\ [][HNext]_hvars

HistoryTypeOK ==
  /\ TypeOK
  /\ seen \in [Requests -> SUBSET Facts]
  /\ submitted \in 0 .. MaxSetting \cup {1}
  /\ peak \in 1 .. MaxSetting + 1
  /\ credit \in [Licenses -> Int]

-----------------------------------------------------------------------------
Answered(r, result) == req[r].result = result

\* The heart of licensing.  A client is told "valid" only if, while its
\* request was being handled, there was a moment at which the licence was
\* neither banned nor expired, and a moment at which it was bound to this
\* machine and not banned.  In particular a request received after a ban,
\* an expiry or a rebind to another machine took effect gains nothing from
\* what earlier requests had read.
ValidWasEntitled ==
  \A r \in Requests : Answered(r, "valid") => {"usable", "mine"} \subseteq seen[r]

\* "invalid", "banned" and "expired" were true of the licence at some moment
\* of the request that is told so.  (Only while nobody moves expiries and
\* without "unban": see the README.)
RefusalHadCause ==
  \A r \in Requests :
    /\ Answered(r, "invalid") => "absent"  \in seen[r]
    /\ Answered(r, "banned")  => "banned"  \in seen[r]
    /\ Answered(r, "expired") => "expired" \in seen[r]

\* "machine_mismatch" means that another machine held the licence, even for
\* the loser of a race.  (Only without "ban" and "unbind": see the README.)
MismatchHadRival ==
  \A r \in Requests : Answered(r, "machine_mismatch") => "rival" \in seen[r]

\* No 24 hours, wherever they begin, contain more automatic rebinds of one
\* licence than the largest limit that was ever in force allows, however
\* many transactions compete and however long they waited for the row.
RebindWindow ==
  \A l \in Licenses : \A from \in {machine_rebind_logs[l][i].created_at :
                                     i \in DOMAIN machine_rebind_logs[l]} :
    Cardinality({i \in DOMAIN machine_rebind_logs[l] :
      machine_rebind_logs[l][i].created_at \in from .. from + Day}) <= peak

\* The limit in force is the one administrators set last: neither a crash
\* nor the seeding at the next start brings the default back.
SettingIsTheLastSubmitted == up => auto_rebind_limit = submitted

\* No accepted adjustment is lost, to a client or to another administrator,
\* and none counts twice: a timed licence ends its type's days after its
\* activation, plus the hours of every adjustment since whose administrator
\* was told that it was made.  (Only without "unban": see the README.)
NoAdjustmentIsLost ==
  \A l \in Licenses :
    licenses[l].activated_at # None /\ Duration[l] # 0 =>
      licenses[l].expires_at =
        licenses[l].activated_at + Duration[l] + credit[l]

\* The server, with all its handlers between their reads and writes, its
\* crashes and its failing statements, implements the abstract registry: each
\* step that a table shows is one atomic operation, allowed at that moment.
\* The quota is the largest limit so far.  (Only without "unban".)
Registry == INSTANCE LicenseRegistry WITH quota <- peak
ImplementsRegistry == Registry!RSpec
=============================================================================
