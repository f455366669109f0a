--------------------------- MODULE LicenseRegistry ---------------------------
(***************************************************************************)
(* What the licence server promises about its licences while nobody lifts  *)
(* a ban: an abstract registry whose operations are atomic, without        *)
(* handlers, locks, crashes or clients.  A licence is created, activated   *)
(* once, bound, moved to another machine within the quota, unbound, banned *)
(* for good, and its expiry shifted; nothing else ever happens to it.      *)
(***************************************************************************)
EXTENDS Integers, Sequences, FiniteSets

CONSTANTS Licenses, Machines, Duration, Day, MaxHours, None

VARIABLES
  licenses,             \* [Licenses -> row]
  machine_rebind_logs,  \* per licence, the moves so far
  quota,                \* moves that Day ticks may see, at most
  now

rvars == <<licenses, machine_rebind_logs, quota, now>>

Missing == [status |-> "absent", machine_code |-> None,
            activated_at |-> None, expires_at |-> None]
Fresh   == [Missing EXCEPT !.status = "unused"]

RInit ==
  /\ licenses \in [Licenses -> {Missing, Fresh}]
  /\ machine_rebind_logs = [l \in Licenses |-> << >>]
  /\ quota = 1 /\ now = 0

\* Only l's row becomes another.
Becomes(l, row) ==
  /\ licenses' = [licenses EXCEPT ![l] = row]
  /\ UNCHANGED <<quota, now>>

Create(l) ==
  /\ licenses[l] = Missing
  /\ Becomes(l, Fresh)
  /\ UNCHANGED machine_rebind_logs

\* The days of the type count from a moment that is not in the future.
Activate(l, m, at) ==
  /\ licenses[l] = Fresh
  /\ Becomes(l, [status |-> "active", machine_code |-> m, activated_at |-> at,
                 expires_at |-> IF Duration[l] = 0 THEN None
                                ELSE at + Duration[l]])
  /\ UNCHANGED machine_rebind_logs

Bind(l, m) ==
  /\ licenses[l].status = "active" /\ licenses[l].machine_code = None
  /\ Becomes(l, [licenses[l] EXCEPT !.machine_code = m])
  /\ UNCHANGED machine_rebind_logs

\* A move takes the machine from another one, is entered in the log, and
\* finds room in the quota of the Day ticks before it.
Rebind(l, m, at) ==
  LET log == machine_rebind_logs[l] IN
  /\ licenses[l].status = "active"
  /\ licenses[l].machine_code \notin {None, m}
  /\ Cardinality({i \in DOMAIN log : log[i].created_at >= at - Day}) < quota
  /\ Becomes(l, [licenses[l] EXCEPT !.machine_code = m])
  /\ machine_rebind_logs' =
       [machine_rebind_logs EXCEPT ![l] = Append(@,
          [created_at |-> at, old |-> licenses[l].machine_code, new |-> m])]

Unbind(l) ==
  /\ licenses[l].status # "absent"
  /\ Becomes(l, [licenses[l] EXCEPT !.machine_code = None])
  /\ UNCHANGED machine_rebind_logs

Ban(l) ==
  /\ licenses[l].status # "absent"
  /\ Becomes(l, [licenses[l] EXCEPT !.status = "banned"])
  /\ UNCHANGED machine_rebind_logs

\* The expiries of some licences that have one move together.
Shift(S, hours) ==
  /\ \A l \in S : licenses[l].expires_at # None
  /\ licenses' = [l \in Licenses |->
       IF l \in S THEN [licenses[l] EXCEPT !.expires_at = @ + hours]
       ELSE licenses[l]]
  /\ UNCHANGED <<machine_rebind_logs, quota, now>>

RaiseQuota ==
  /\ quota' > quota
  /\ UNCHANGED <<licenses, machine_rebind_logs, now>>

Pass ==
  /\ now' = now + 1
  /\ UNCHANGED <<licenses, machine_rebind_logs, quota>>

RNext ==
  \/ \E l \in Licenses :
       \/ Create(l) \/ Unbind(l) \/ Ban(l)
       \/ \E m \in Machines :
            \/ Bind(l, m)
            \/ \E at \in 0 .. now : Activate(l, m, at) \/ Rebind(l, m, at)
  \/ \E S \in SUBSET Licenses, hours \in -MaxHours .. MaxHours :
       Shift(S, hours)
  \/ RaiseQuota \/ Pass

RSpec == RInit /\ [][RNext]_rvars
=============================================================================
