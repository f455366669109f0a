---------------------------- MODULE ConnectionPool ----------------------------
(***************************************************************************)
(* The licence server over its PgPool.  A handler needs a connection for   *)
(* every statement and gives it back when the statement ends, except that  *)
(* try_auto_rebind keeps the one it began its transaction with, and runs   *)
(* every statement of the transaction on it.  A statement that waits for a *)
(* row lock waits with its connection in hand, so the pool can be empty    *)
(* while the only handler that can go on is the one that holds the row.    *)
(***************************************************************************)
EXTENDS LicenseService

CONSTANT PoolSize   \* max_connections of the pool (10 in sqlx)
\* The two kinds of handlers are tasks of their own, each with its future.
ASSUME PoolAssumption ==
  PoolSize \in Nat \ {0} /\ Requests \cap Handlers = {}

VARIABLE conn       \* the requests and back-office handlers that hold one

pvars == <<vars, conn>>

Actors == Requests \cup Handlers

\* Who is about to issue a statement, or waits for its row.
AtStatement ==
  {r \in Requests : req[r].pc \in Statements \cup {"log"}}
    \cup {h \in Handlers : adm[h].pc # "idle"}

\* Between BEGIN and COMMIT.
OpenTransaction == {"lock"} \cup InTransaction

PInit == Init /\ conn = {}

ConnectionFree == Cardinality(conn) < PoolSize

\* pool.acquire(): its semaphore serves in order of arrival.
Acquire(x) ==
  /\ x \in AtStatement \ conn /\ ConnectionFree
  /\ conn' = conn \cup {x}
  /\ UNCHANGED vars

\* Mutant: auto_rebind_limit queries the pool instead of the transaction.
Connected_twice(r) ==
  r \in conn /\ (req[r].pc = "limit" => ConnectionFree)
Connected(r) == r \in conn

\* The connection goes back to the pool, except to the open transaction.
Returned(r) ==
  IF req'[r].pc \in OpenTransaction THEN conn ELSE conn \ {r}

\* One statement of a request.
Query(r) ==
  /\ Connected(r)
  /\ \/ Fetch(r) \/ Claim(r) \/ ClaimMisses(r) \/ Reread(r) \/ Begin(r)
     \/ Lock(r) \/ ReadLimit(r) \/ CountRecent(r) \/ Commit(r) \/ LogVerify(r)
     \/ AckLost(r)
  /\ conn' = Returned(r)
  /\ UNCHANGED adm

\* What a request does without the database.
Compute(r) ==
  /\ \/ \E l \in Licenses, m \in Machines : Receive(r, l, m)
     \/ ReceiveBlank(r)
     \/ Refuse(r) \/ StartRebind(r) \/ StartBind(r) \/ StartActivation(r)
     \/ Accept(r) \/ Finish(r)
  /\ UNCHANGED <<adm, conn>>

\* A statement fails, also because no connection came free in time
\* (acquire_timeout), or the client is gone.
Abandon(r) ==
  /\ QueryFails(r) \/ Cancel(r)
  /\ conn' = conn \ {r}
  /\ UNCHANGED adm

\* The first statement of a back-office handler takes a connection and
\* gives it back in one step; the write that follows asks for one again.
AdminStarts(h) ==
  /\ ConnectionFree
  /\ AdminStart(h)
  /\ UNCHANGED <<req, conn>>

AdminWrites(h) ==
  /\ h \in conn
  /\ AdminProgress(h)
  /\ conn' = conn \ {h}
  /\ UNCHANGED req

AdminAbandons(h) ==
  /\ HandlerDropped(h)
  /\ conn' = conn \ {h}
  /\ UNCHANGED req

PNext ==
  \/ (Boot \/ (Tick /\ UNCHANGED <<req, adm>>)) /\ UNCHANGED conn
  \/ Crash /\ conn' = {}
  \/ \E x \in Actors : Acquire(x)
  \/ \E r \in Requests : Query(r) \/ Compute(r) \/ Abandon(r)
  \/ \E h \in Handlers : AdminStarts(h) \/ AdminWrites(h) \/ AdminAbandons(h)

PSpec == PInit /\ [][PNext]_pvars

\* The pool's semaphore and PostgreSQL's lock queue are first come, first
\* served: whoever can be served again and again is.  What needs neither is
\* only polled by the runtime.
PFairness ==
  /\ \A x \in Actors : SF_pvars(Acquire(x))
  /\ \A r \in Requests :
       /\ WF_pvars(Query(r) \/ (Compute(r) /\ req[r].pc # "idle"))
       /\ SF_pvars(Query(r) /\ req[r].pc \in {"lock", "log"})
  /\ \A h \in Handlers : SF_pvars(AdminWrites(h))

PFairSpec == PSpec /\ PFairness

-----------------------------------------------------------------------------
\* Whose statement may have to wait until an open transaction ends.
WaitsForRow(x) ==
  \/ /\ x \in Requests /\ req[x].pc \in {"activate", "bind", "lock", "log"}
     /\ ~Unlocked(req[x].license_key)
  \/ /\ x \in Handlers /\ adm[x].pc \in {"status", "unbind", "shift"}
     /\ ~Unlocked(adm[x].lic)
  \/ /\ x \in Handlers /\ adm[x].pc = "sweep"
     /\ \E l \in adm[x].targets : ~Unlocked(l)

\* Who has all that its next statement needs.
CanGoOn(x) ==
  /\ x \in Requests => Connected(x)
  /\ ~WaitsForRow(x)

\* Rows and connections are never waited for in a circle: when the last
\* connection is taken, at least one of those that hold one can issue its
\* next statement, although the others may all stand in the queue for a row
\* that an open transaction holds.
NoCircularWait == ConnectionFree \/ \E x \in conn : CanGoOn(x)

\* Every request that was received is answered, or ends with its process,
\* however many other requests compete for the row's lock: no request stays
\* between its receipt and its reply for ever.
EveryRequestAnswered ==
  \A r \in Requests : []<>(req[r].pc \in {"done", "panicked", "idle"})

\* Every write a back-office handler has decided on gets past the row lock.
EveryWriteLands ==
  \A h \in Handlers : []<>(adm[h].pc \notin {"status", "unbind", "shift"})
=============================================================================
