------------------------------ MODULE PoolProofs ------------------------------
(***************************************************************************)
(* Theorems about ConnectionPool for every value of its constants.         *)
(***************************************************************************)
EXTENDS ConnectionPool, LicenseProofs, FiniteSetTheorems

\* The pool only delays: whatever holds of the server without it holds with
\* it, the theorems about Spec among them.
LEMMA PoolOnlyDelays == PSpec => Spec
<1>1. PInit => Init
  BY DEF PInit
<1>2. [PNext]_pvars => [Next]_vars
  <2> SUFFICES ASSUME [PNext]_pvars PROVE [Next]_vars
    OBVIOUS
  <2>1. ASSUME NEW r \in Requests, Query(r) \/ Compute(r) \/ Abandon(r)
        PROVE  VerifyNext /\ UNCHANGED adm
    BY <2>1 DEF Query, Compute, Abandon, VerifyNext, Progress
  <2>2. ASSUME NEW h \in Handlers,
               AdminStarts(h) \/ AdminWrites(h) \/ AdminAbandons(h)
        PROVE  AdminNext /\ UNCHANGED req
    BY <2>2 DEF AdminStarts, AdminWrites, AdminAbandons, AdminNext
  <2>3. ASSUME NEW x \in Actors, Acquire(x) PROVE UNCHANGED vars
    BY <2>3 DEF Acquire
  <2>4. CASE PNext
    BY <2>1, <2>2, <2>3, <2>4 DEF PNext, Next
  <2>5. CASE UNCHANGED pvars
    BY <2>5 DEF pvars
  <2> QED BY <2>4, <2>5
<1> QED BY <1>1, <1>2, PTL DEF PSpec, Spec

\* What freedom from circles rests on: an open transaction has its connection
\* from its first statement on, before it holds the row.
PoolInv ==
  /\ \A r \in Requests : req[r].pc \in OpenTransaction => r \in conn
  /\ conn \subseteq AtStatement
  /\ IsFiniteSet(conn) /\ Cardinality(conn) <= PoolSize

\* A smaller set of connections is within the pool as well.
LEMMA FewerConnections ==
  ASSUME PoolInv, conn' \subseteq conn
  PROVE  IsFiniteSet(conn') /\ Cardinality(conn') <= PoolSize
<1>1. /\ IsFiniteSet(conn') /\ Cardinality(conn') <= Cardinality(conn)
      /\ Cardinality(conn) \in Nat /\ Cardinality(conn') \in Nat
  BY FS_Subset, FS_CardinalityType DEF PoolInv
<1> QED BY <1>1, PoolAssumption DEF PoolInv

\* Where a request stands before and after what it computes by itself.
LEMMA ComputeSteps ==
  ASSUME TypeOK, NEW r \in Requests, Compute(r)
  PROVE  /\ req[r].pc \in {"idle", "decide", "done", "panicked"}
         /\ req'[r].pc \notin OpenTransaction
<1>0. req \in [Requests -> Request] /\ req[r] \in Request
  BY DEF TypeOK, VerifyTypeOK
<1>1. req[r].pc \in {"idle", "decide", "done", "panicked"}
  BY DEF Compute, Receive, ReceiveBlank, Refuse, StartRebind, StartBind,
         StartActivation, Accept, Finish
<1>2. ASSUME NEW l \in Licenses, NEW m \in Machines, Receive(r, l, m)
      PROVE  req'[r].pc = "fetch"
  BY <1>0, <1>2 DEF Receive, Idle
<1>3. ASSUME ReceiveBlank(r) PROVE req'[r].pc = "done"
  BY <1>0, <1>3 DEF ReceiveBlank, Idle
<1>4. ASSUME Refuse(r) \/ StartRebind(r) \/ Accept(r) \/ Finish(r)
      PROVE  req'[r].pc \in {"log", "begin", "idle"}
  BY <1>0, <1>4, EndFields DEF Refuse, StartRebind, Accept, Finish
<1>5. ASSUME StartBind(r) \/ StartActivation(r)
      PROVE  req'[r].pc \in {"bind", "activate", "panicked"}
  BY <1>0, <1>5, VerdictFields DEF StartBind, StartActivation, Request
<1> QED BY <1>1, <1>2, <1>3, <1>4, <1>5 DEF Compute, OpenTransaction, InTransaction

\* Every step keeps the connections within the pool and with those that work on
\* a statement or in a transaction.
LEMMA PoolStep ==
  ASSUME TypeOK, LockedRowIsFresh, PoolInv, PNext PROVE PoolInv'
<1>0. /\ req \in [Requests -> Request] /\ adm \in [Handlers -> Job]
      /\ Requests \cap Handlers = {} /\ PoolSize \in Nat
  BY PoolAssumption DEF TypeOK, VerifyTypeOK, AdminTypeOK
<1>1. ASSUME NEW x \in Actors, Acquire(x) PROVE PoolInv'
  <2>1. UNCHANGED <<req, adm>> /\ conn' = conn \cup {x} /\ x \in AtStatement
        /\ x \notin conn
    BY <1>1 DEF Acquire, vars
  <2>2. IsFiniteSet(conn') /\ Cardinality(conn') = Cardinality(conn) + 1
    BY <2>1, FS_AddElement DEF PoolInv
  <2>3. Cardinality(conn) \in Nat /\ Cardinality(conn) < PoolSize
    BY <1>1, FS_CardinalityType DEF Acquire, ConnectionFree, PoolInv
  <2>4. Cardinality(conn') <= PoolSize
    BY <1>0, <2>2, <2>3
  <2> QED BY <2>1, <2>2, <2>4 DEF PoolInv, AtStatement
<1>2. ASSUME NEW r \in Requests, VerifyStep(r), UNCHANGED adm,
             conn' \in {conn, conn \ {r}},
             req'[r].pc \in OpenTransaction => r \in conn',
             r \in conn' => r \in AtStatement'
      PROVE  PoolInv'
  <2>1. \A q \in Requests : q # r => req'[q] = req[q]
    BY <1>2, OthersKeepTheirRows
  <2>2. \A q \in Requests : req'[q].pc \in OpenTransaction => q \in conn'
    BY <1>2, <2>1 DEF PoolInv
  <2>3. conn' \subseteq AtStatement'
    BY <1>2, <2>1 DEF PoolInv, AtStatement
  <2>4. IsFiniteSet(conn') /\ Cardinality(conn') <= PoolSize
    BY <1>2, FewerConnections
  <2> QED BY <2>2, <2>3, <2>4 DEF PoolInv
<1>3. ASSUME NEW r \in Requests, Query(r) PROVE PoolInv'
  <2>1. VerifyStep(r) /\ UNCHANGED adm
    BY <1>3 DEF Query, VerifyStep, Progress
  <2>2. /\ r \in conn
        /\ conn' = IF req'[r].pc \in OpenTransaction THEN conn ELSE conn \ {r}
    BY <1>3 DEF Query, Connected, Returned
  <2>3. req'[r].pc \in OpenTransaction => r \in AtStatement'
    BY DEF OpenTransaction, InTransaction, AtStatement, Statements
  <2> QED BY <1>2, <2>1, <2>2, <2>3
<1>4. ASSUME NEW r \in Requests, Compute(r) PROVE PoolInv'
  <2>1. VerifyStep(r) /\ UNCHANGED adm /\ conn' = conn
    BY <1>4 DEF Compute, VerifyStep, Progress
  <2>2. r \notin conn
    BY <1>0, <1>4, ComputeSteps DEF PoolInv, AtStatement, Statements, InTransaction
  <2> QED BY <1>2, <1>4, <2>1, <2>2, ComputeSteps
<1>5. ASSUME NEW r \in Requests, Abandon(r) PROVE PoolInv'
  <2>1. VerifyStep(r) /\ UNCHANGED adm /\ conn' = conn \ {r}
    BY <1>5 DEF Abandon, VerifyStep
  <2>2. req'[r].pc \in {"done", "idle"}
    BY <1>0, <1>5, EndFields DEF Abandon, QueryFails, Cancel
  <2> QED BY <1>2, <2>1, <2>2 DEF OpenTransaction, InTransaction
<1>6. ASSUME NEW h \in Handlers, UNCHANGED req, conn' \in {conn, conn \ {h}},
             \A g \in Handlers \ {h} : adm'[g] = adm[g],
             h \in conn' => adm'[h].pc # "idle"
      PROVE  PoolInv'
  <2>1. \A q \in Requests : req'[q].pc \in OpenTransaction => q \in conn'
    BY <1>0, <1>6 DEF PoolInv
  <2>2. conn' \subseteq AtStatement'
    BY <1>0, <1>6 DEF PoolInv, AtStatement
  <2>3. IsFiniteSet(conn') /\ Cardinality(conn') <= PoolSize
    BY <1>6, FewerConnections
  <2> QED BY <2>1, <2>2, <2>3 DEF PoolInv
<1>7. ASSUME NEW h \in Handlers, AdminStarts(h) PROVE PoolInv'
  <2>1. UNCHANGED <<req, conn>> /\ Free(h)
    BY <1>7 DEF AdminStarts, AdminStart, ReadForBan, ReadForUnban, ReadForUnbind,
       ReadForAdjust, StartAdjustAll, UpdateSettings, StartCreate
  <2>2. h \notin conn
    BY <1>0, <2>1 DEF Free, PoolInv, AtStatement
  <2>3. \A g \in Handlers \ {h} : adm'[g] = adm[g]
    BY <1>0, <1>7 DEF AdminStarts, AdminStart, ReadForBan, ReadForUnban,
       ReadForUnbind, ReadForAdjust, StartAdjustAll, UpdateSettings, StartCreate,
       Take
  <2> QED BY <1>6, <2>1, <2>2, <2>3
<1>8. ASSUME NEW h \in Handlers, AdminWrites(h) \/ AdminAbandons(h) PROVE PoolInv'
  <2>1. UNCHANGED req /\ conn' = conn \ {h}
    BY <1>8 DEF AdminWrites, AdminAbandons
  <2>2. \A g \in Handlers \ {h} : adm'[g] = adm[g]
    BY <1>0, <1>8 DEF AdminWrites, AdminAbandons, AdminProgress, WriteStatus,
       WriteUnbind, WriteShift, WriteAll, CreateOne, HandlerDropped, Rest
  <2> QED BY <1>6, <2>1, <2>2
<1>9. CASE (Boot \/ (Tick /\ UNCHANGED <<req, adm>>)) /\ UNCHANGED conn
  <2>1. UNCHANGED <<req, adm, conn>>
    BY <1>9 DEF Boot
  <2> QED BY <2>1 DEF PoolInv, AtStatement
<1>10. CASE Crash /\ conn' = {}
  <2>1. \A r \in Requests : req'[r].pc = "idle"
    BY <1>10 DEF Crash, Idle
  <2>2. IsFiniteSet({}) /\ Cardinality({}) = 0
    BY FS_EmptySet
  <2> QED BY <1>0, <1>10, <2>1, <2>2
          DEF PoolInv, OpenTransaction, InTransaction
<1> QED
  BY <1>1, <1>3, <1>4, <1>5, <1>7, <1>8, <1>9, <1>10 DEF PNext

\* While a row keeps someone waiting, its holder has a connection, and waits
\* for nothing itself.
LEMMA HolderGoesOn ==
  ASSUME TypeOK, LockedRowIsFresh, PoolInv, NEW l \in Licenses, ~Unlocked(l)
  PROVE  \E r \in conn : CanGoOn(r)
<1> DEFINE r == rowLock[l]
<1>1. r \in Requests
  BY DEF TypeOK, StoreTypeOK, Unlocked
<1>2. req[r].pc \in InTransaction
  BY <1>1 DEF LockedRowIsFresh, WorksOn
<1>3. r \in conn
  BY <1>1, <1>2 DEF PoolInv, OpenTransaction
<1>4. ~WaitsForRow(r)
  BY <1>1, <1>2, PoolAssumption DEF WaitsForRow, InTransaction
<1> QED BY <1>3, <1>4 DEF CanGoOn, Connected

\* Who waits for a row waits for one that somebody holds.
LEMMA WaitsForHolder ==
  ASSUME TypeOK, NEW x \in Actors, WaitsForRow(x)
  PROVE  \E l \in Licenses : ~Unlocked(l)
<1>1. CASE x \in Requests
  <2>1. /\ req[x].license_key \in Licenses \cup {None}
        /\ WellFormed(req[x]) /\ x \notin Handlers
    BY <1>1, PoolAssumption DEF TypeOK, VerifyTypeOK, Request
  <2>2. /\ req[x].pc \in {"activate", "bind", "lock", "log"}
        /\ ~Unlocked(req[x].license_key)
    BY <2>1, <1>1 DEF WaitsForRow
  <2>3. req[x].license_key # None
    BY <2>1, <2>2 DEF WellFormed, Statements
  <2> QED BY <2>1, <2>2, <2>3
<1>2. CASE x \in Handlers
  <2>1. adm[x] \in Job /\ x \notin Requests
    BY <1>2, PoolAssumption DEF TypeOK, AdminTypeOK
  <2>2. CASE adm[x].pc \in {"status", "unbind", "shift"}
    <3>1. adm[x].lic \in Licenses
      BY <2>1, <2>2 DEF Job, Resting
    <3> QED BY <2>1, <2>2, <3>1 DEF WaitsForRow
  <2>3. CASE adm[x].pc = "sweep"
    <3>1. adm[x].targets \in SUBSET Licenses
      BY <2>1, <2>3 DEF Job, Resting
    <3> QED BY <2>1, <2>3, <3>1 DEF WaitsForRow
  <2> QED BY <1>2, <2>1, <2>2, <2>3 DEF WaitsForRow
<1> QED BY <1>1, <1>2 DEF Actors

\* For a pool of any size and any number of handlers: rows and connections
\* are never waited for in a circle.
THEOREM NobodyWaitsInACircle == PSpec => []NoCircularWait
<1>1. PInit => PoolInv
  BY FS_EmptySet, PoolAssumption DEF PInit, Init, VerifyInit, Idle, PoolInv,
     OpenTransaction, InTransaction
<1>2. TypeOK /\ LockedRowIsFresh /\ PoolInv /\ [PNext]_pvars => PoolInv'
  <2>1. CASE UNCHANGED pvars
    BY <2>1 DEF pvars, vars, PoolInv, AtStatement
  <2> QED BY <2>1, PoolStep
<1>3. TypeOK /\ LockedRowIsFresh /\ PoolInv => NoCircularWait
  <2> SUFFICES ASSUME TypeOK, LockedRowIsFresh, PoolInv, ~ConnectionFree
               PROVE  \E x \in conn : CanGoOn(x)
    BY DEF NoCircularWait
  <2>1. conn # {}
    BY FS_EmptySet, PoolAssumption DEF ConnectionFree
  <2>2. PICK x \in conn : TRUE
    BY <2>1
  <2>3. x \in Actors
    BY <2>2 DEF PoolInv, AtStatement, Actors
  <2>4. CASE WaitsForRow(x)
    BY <2>3, <2>4, WaitsForHolder, HolderGoesOn
  <2>5. CASE ~WaitsForRow(x)
    BY <2>2, <2>5 DEF CanGoOn, Connected
  <2> QED BY <2>4, <2>5
<1> QED
  BY <1>1, <1>2, <1>3, PoolOnlyDelays, TypeCorrect, LockedRowsAreFresh, PTL
     DEF PSpec
=============================================================================
