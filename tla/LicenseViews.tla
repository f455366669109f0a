---------------------------- MODULE LicenseViews ----------------------------
(***************************************************************************)
(* What the back office shows of the licences: the list with its filters,  *)
(* the dashboard's counts and the page of online users, over the verify    *)
(* logs that the requests leave behind.  The licence types are here too:   *)
(* create_license takes one that exists.  SQL decides the filters and the  *)
(* counts, Rust the status a row is shown with and the verdict a client    *)
(* gets, each in words of its own.                                         *)
(***************************************************************************)
EXTENDS LicenseHistory

CONSTANTS
  SeedDays,        \* duration_days of the type init_database inserts
  TypeInputs,      \* duration_days submitted to create_license_type
  Hour             \* how long after its verification a licence is online

ASSUME ViewsAssumption ==
  SeedDays \in Nat /\ Hour \in Nat /\ TypeInputs \subseteq Int

VARIABLES
  verify_logs,     \* [Licenses -> set of rows]: those of result "valid", the
                   \* only ones that are ever read; equal rows are one
  license_types,   \* the duration_days of the types there are
  decided_at,      \* [Requests -> when a request at "log" got its verdict]
  holders          \* history: [Licenses -> machines it was ever bound to]

viewVars == <<verify_logs, license_types, decided_at, holders>>
wvars    == <<hvars, viewVars>>

Log == [machine_code : Machines, created_at : Nat]

\* The pages' tables and types.
ViewsTypeOK ==
  /\ verify_logs \in [Licenses -> SUBSET Log]
  /\ license_types \subseteq Nat
  /\ decided_at \in [Requests -> 0 .. MaxTime]
  /\ holders \in [Licenses -> SUBSET Machines]

WInit ==
  /\ HInit
  /\ verify_logs = [l \in Licenses |-> {}]
  /\ license_types = IF Created = {} THEN {}
                     ELSE {SeedDays} \cup {Duration[l] : l \in Created}
  /\ decided_at = [r \in Requests |-> 0]
  /\ holders = [l \in Licenses |-> {}]

-----------------------------------------------------------------------------
\* The row log_verify inserts.  created_at is DEFAULT NOW(), when the INSERT
\* begins: after the verdict, and maybe before a wait for the licence's row.
logged_rows(r) == [machine_code : {req[r].machine_code},
                   created_at   : decided_at[r] .. now]

\* The INSERTs of the requests' log rows, as far as the pages read them.
LogsValid(r) == LogVerify(r) /\ req[r].result = "valid"
LogRows ==
  \/ \E r \in Requests : \E row \in logged_rows(r) :
       /\ LogsValid(r)
       /\ verify_logs' =
            [verify_logs EXCEPT ![req[r].license_key] = @ \cup {row}]
  \/ UNCHANGED verify_logs /\ ~\E r \in Requests : LogsValid(r)

TimeVerdicts ==
  decided_at' = [r \in Requests |->
    IF req'[r].pc # "log" THEN 0
    ELSE IF req[r].pc = "log" THEN decided_at[r] ELSE now]

\* create_license finds the type it is asked for.
TypeFound ==
  \A h \in Handlers : adm'[h].pc = "insert" /\ adm[h].pc = "idle"
                        => adm'[h].days \in license_types

\* A step of the server, with the rows it leaves for the pages.
ServerStep ==
  /\ HNext
  /\ LogRows /\ TimeVerdicts /\ TypeFound
  /\ license_types' = IF up' /\ ~up THEN license_types \cup {SeedDays}
                      ELSE license_types
  /\ holders' = [l \in Licenses |->
                   holders[l] \cup ({licenses'[l].machine_code} \ {None})]

\* Mutant: a negative duration passes.
valid_days_any(days) == TRUE
valid_days(days) == days >= 0

\* create_license_type, for administrators.  Types of equal duration are one.
create_license_type(h, days) ==
  /\ Free(h) /\ "create" \in AdminOps
  /\ \E user \in Users : user.role = "admin"
  /\ valid_days(days) /\ days \notin license_types
  /\ license_types' = license_types \cup {days}
  /\ UNCHANGED <<hvars, verify_logs, decided_at, holders>>

WNext ==
  \/ ServerStep
  \/ \E h \in Handlers, days \in TypeInputs : create_license_type(h, days)

WSpec == WInit /\ [][WNext]_wvars

-----------------------------------------------------------------------------
\* Mutant: expires_at < now.
shown_expired_strict(row) == row.expires_at # None /\ row.expires_at < now
shown_expired(row) == row.expires_at # None /\ row.expires_at <= now

\* The status a row of the list is shown with.
render_license_status(row) ==
  IF row.status = "banned" THEN "banned"
  ELSE IF shown_expired(row) THEN "expired"
  ELSE IF row.status = "unused" THEN "not activated"
  ELSE IF row.machine_code = None THEN "active, unbound" ELSE "valid"

ActivationFilters == {"unused", "active", "active_unbound", "banned"}
ExpiryFilters     == {"not_expired", "expired", "no_expiry"}

activation_matches(row, filter) ==
  \/ filter \in Status /\ row.status = filter
  \/ filter = "active_unbound" /\ row.status = "active"
       /\ row.machine_code = None
expiry_matches(row, filter) ==
  \/ filter = "not_expired" /\ row.expires_at # None /\ row.expires_at > now
  \/ filter = "expired"     /\ row.expires_at # None /\ row.expires_at <= now
  \/ filter = "no_expiry"   /\ row.expires_at = None

\* The rows whose owner is among visible_owner_ids.  That these are the
\* accounts can_manage_owner lets the user act for is shown in Accounts.
InTable == {l \in Licenses : licenses[l].status # "absent"}
OwnedBy(user) == {l \in InTable : Manages(user, l)}

\* licenses_for_owners with one of the two filters set.
listed_by_activation(user, filter) ==
  {l \in OwnedBy(user) : activation_matches(licenses[l], filter)}
listed_by_expiry(user, filter) ==
  {l \in OwnedBy(user) : expiry_matches(licenses[l], filter)}

\* The rows with a button that releases the machine.
offered_unbind(user) ==
  {l \in OwnedBy(user) : /\ licenses[l].status # "banned"
                         /\ licenses[l].machine_code # None}

count_licenses_by_owners(user, status) ==
  Cardinality({l \in OwnedBy(user) : licenses[l].status = status})

\* online_licenses_for_owners: with the machine of the last valid log row,
\* any one of the latest if there are several.
ValidSince(l, from) ==
  {log \in verify_logs[l] : log.created_at >= from}
online(user) == {l \in OwnedBy(user) : ValidSince(l, now - Hour) # {}}
last_seen(l) ==
  {log \in ValidSince(l, now - Hour) :
     \A other \in ValidSince(l, now - Hour) :
       other.created_at <= log.created_at}

\* count_today_login_users counts these licences.
today_login(user) ==
  {l \in OwnedBy(user) : ValidSince(l, now - (now % Day)) # {}}

-----------------------------------------------------------------------------
\* The verdict that a lone request would get now, from the branches that
\* verify_license_payload takes on the row it fetches.
Refused(row) == IF row.status = "banned" THEN "banned"
                ELSE IF Expired(row) THEN "expired" ELSE "no"

\* Four places decide whether a licence has expired, two in Rust (the status
\* of a row of the list, the verdict of a client), two in SQL (the list's
\* filters, the global adjustment), and all have to put a ban first.  At
\* every instant they agree: the rows shown as banned, and those whose
\* clients are refused as banned, are the filter's; the rows shown and the
\* clients refused as expired are those the filters find expired and not
\* banned; "active_only" adjusts what they find not expired and not banned;
\* what is shown as unbound is what their "active_unbound" finds without
\* the expired; and an unbinding that is offered is accepted if it is
\* submitted at once.  (The dashboard's number of active licences counts
\* the expired among them: see the README.)
PagesAgree ==
  \A user \in Users :
    LET shown(status)  == {l \in OwnedBy(user) :
                             render_license_status(licenses[l]) = status}
        told(verdict)  == {l \in OwnedBy(user) : Refused(licenses[l]) = verdict}
        adjusted       == {l \in OwnedBy(user) :
                             InScope(licenses[l], "active_only", now)}
        banned  == listed_by_activation(user, "banned")
        expired == listed_by_expiry(user, "expired") \ banned
        running == listed_by_expiry(user, "not_expired") \ banned
        unbound == listed_by_activation(user, "active_unbound") \ expired
    IN /\ shown("banned") = banned /\ told("banned") = banned
       /\ count_licenses_by_owners(user, "banned") = Cardinality(banned)
       /\ shown("expired") = expired /\ told("expired") = expired
       /\ adjusted = running
       /\ shown("active, unbound") = unbound
       /\ \A l \in offered_unbind(user) : unbind_allowed(licenses[l])

\* The page of online users tells the truth across crashes, rebinds and
\* bans: the machine it shows really was bound to the licence, its date is
\* not before the activation, and whoever verified within the hour is
\* counted among those of the day unless midnight lies between.
OnlineWereHolders ==
  \A user \in Users :
    /\ \A l \in online(user) : \A log \in last_seen(l) :
         /\ log.machine_code \in holders[l]
         /\ licenses[l].activated_at # None
         /\ log.created_at >= licenses[l].activated_at
    /\ (now % Day) >= Hour => online(user) \subseteq today_login(user)
=============================================================================
