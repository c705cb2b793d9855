------------------------ MODULE ServiceProcessProofs ------------------------
(***************************************************************************)
(* Proofs about ServiceProcess, for every number of users, requests and    *)
(* connections.  The inductive invariant says who may hold what: which     *)
(* advisory locks, which connections, and the event loop.                  *)
(***************************************************************************)
EXTENDS ServiceProcess, FiniteSetTheorems, SequenceTheorems, TLAPS

RetryKeys == {"retry"} \X Retried

\* A lock is held between a check and its insert, or by an endpoint that raised in
\* the middle of a retry, until its session is closed.
LockOK ==
    /\ \A k \in Keys :
          /\ lock[k] = "scheduler" =>
                scheduler = "checked"
                /\ \E u \in left : k = <<"all", u>> /\ \A v \in left : u <= v
          /\ \A r \in Requests : lock[k] = r =>
                \/ request[r] = "checked" /\ wants[r] = k
                \/ request[r] = "finished" /\ k \in RetryKeys
    /\ \A r \in Requests : request[r] = "checked" => wants[r] \in Keys /\ lock[wants[r]] = r

\* Only who is in a transaction, or waits to be closed, has a connection.
PoolOK ==
    /\ "worker" \in pool => worker = "processing"
    /\ "scheduler" \in pool => scheduler \in {"ticking", "checked"}
    /\ \A r \in Requests : r \in pool => request[r] \in {"connected", "checked", "finished"}

\* A task that is not asleep holds the loop, and a worker with a run is awake.
LoopOK ==
    /\ scheduler # "asleep" <=> loop = "scheduler"
    /\ worker # "asleep" <=> loop = "worker"
    /\ worker \in {"asleep", "opening"} => run = None
    /\ worker \notin {"asleep", "opening"} => run \in Keys

\* When the tasks are cancelled nobody is awake and every request is answered.
StopOK ==
    signal = "stopped" => loop = "free" /\ \A r \in Requests : request[r] = "idle"

IInv == TypeOK /\ LockOK /\ PoolOK /\ LoopOK /\ StopOK

-----------------------------------------------------------------------------
(* Facts about what is shared.                                             *)

LEMMA PoolIsFinite ==
    ASSUME TypeOK
    PROVE  IsFiniteSet(pool) /\ Cardinality(pool) \in Nat /\ Connections \in Nat
<1>1. IsFiniteSet((Requests \cup {"worker"}) \cup {"scheduler"})
  BY RequestsAssumption, FS_AddElement
<1>2. pool \subseteq (Requests \cup {"worker"}) \cup {"scheduler"}
  BY DEF TypeOK
<1>3. IsFiniteSet(pool)
  BY <1>1, <1>2, FS_Subset
<1> QED BY <1>3, FS_CardinalityType, ConnectionsAssumption

\* A connection is only taken from a pool that has one left.
LEMMA PoolTaken ==
    ASSUME TypeOK, PoolFree, NEW x \in Requests \cup {"worker", "scheduler"}
    PROVE  /\ pool \cup {x} \subseteq Requests \cup {"worker", "scheduler"}
           /\ Cardinality(pool \cup {x}) <= Connections
<1>1. \/ Cardinality(pool \cup {x}) = Cardinality(pool)
      \/ Cardinality(pool \cup {x}) = Cardinality(pool) + 1
  BY PoolIsFinite, FS_AddElement
<1> QED BY <1>1, PoolIsFinite DEF TypeOK, PoolFree

LEMMA PoolReturned ==
    ASSUME TypeOK, NEW x
    PROVE  /\ pool \ {x} \subseteq Requests \cup {"worker", "scheduler"}
           /\ Cardinality(pool \ {x}) <= Connections
<1>1. Cardinality(pool \ {x}) \in Nat /\ Cardinality(pool \ {x}) <= Cardinality(pool)
  BY PoolIsFinite, FS_Subset, FS_CardinalityType
<1> QED BY <1>1, PoolIsFinite DEF TypeOK

\* The queue holds keys.
LEMMA QueueTypes ==
    ASSUME TypeOK
    PROVE  /\ \A k \in Keys : Append(queue, k) \in Seq(Keys)
           /\ queue # <<>> => Head(queue) \in Keys /\ Tail(queue) \in Seq(Keys)
BY AppendProperties, HeadTailProperties DEF TypeOK

\* A user's key is no retry's, and users' keys differ.
LEMMA KeyFacts ==
    /\ \A u \in Users : <<"all", u>> \in Keys /\ <<"all", u>> \notin RetryKeys
    /\ \A u, v \in Users : <<"all", u>> = <<"all", v>> => u = v
    /\ RetryKeys \subseteq Keys
BY DEF Keys, RetryKeys

LEMMA Names ==
    /\ "worker" \notin Requests /\ "scheduler" \notin Requests /\ None \notin Requests
    /\ None # "scheduler" /\ None # "worker" /\ None \notin Keys
BY RequestsAssumption, NoneAssumption, KeysAssumption

-----------------------------------------------------------------------------
(* The worker.  It takes no advisory lock and touches no request.          *)

LEMMA WorkerSide ==
    ASSUME IInv, TypeOK', PoolOK', LoopOK',
           worker # "asleep" \/ signal # "stopped",
           UNCHANGED <<tick, http, lock, signal>>
    PROVE  IInv'
<1>1. LockOK'
  BY DEF IInv, LockOK, tick, http
<1>2. StopOK'
  BY DEF IInv, StopOK, LoopOK
<1> QED BY <1>1, <1>2 DEF IInv

LEMMA StartClaimPreserves ==
    ASSUME IInv, StartClaim
    PROVE  IInv'
<1>1. TypeOK'
  BY DEF IInv, TypeOK, StartClaim, tick, http
<1>2. PoolOK' /\ LoopOK'
  BY DEF IInv, PoolOK, LoopOK, StartClaim, tick, http
<1> QED BY <1>1, <1>2, WorkerSide DEF StartClaim

LEMMA ClaimPreserves ==
    ASSUME IInv, Claim
    PROVE  IInv'
<1>1. worker = "opening" /\ UNCHANGED <<tick, http, lock, pool, signal>>
  BY DEF Claim
<1>2. TypeOK'
  BY <1>1, QueueTypes
     DEF IInv, TypeOK, Claim, Idle, WorkerSleeps, LoopWhileProcessing, tick, http
<1>3. PoolOK' /\ LoopOK'
  BY <1>1, QueueTypes
     DEF IInv, PoolOK, LoopOK, Claim, Idle, WorkerSleeps, LoopWhileProcessing, tick, http
<1> QED BY <1>1, <1>2, <1>3, WorkerSide

LEMMA NextStatementPreserves ==
    ASSUME IInv, NextStatement
    PROVE  IInv'
<1>1. TypeOK'
  BY PoolTaken DEF IInv, TypeOK, NextStatement, tick, http
<1>2. PoolOK' /\ LoopOK'
  BY Names DEF IInv, PoolOK, LoopOK, NextStatement, tick, http
<1> QED BY <1>1, <1>2, WorkerSide DEF NextStatement

LEMMA CommitPartPreserves ==
    ASSUME IInv, CommitPart
    PROVE  IInv'
<1>1. TypeOK'
  BY PoolReturned DEF IInv, TypeOK, CommitPart, tick, http
<1>2. PoolOK' /\ LoopOK'
  BY DEF IInv, PoolOK, LoopOK, CommitPart, tick, http
<1> QED BY <1>1, <1>2, WorkerSide DEF CommitPart

LEMMA SettlePreserves ==
    ASSUME IInv, Settle
    PROVE  IInv'
<1>1. TypeOK'
  BY PoolReturned DEF IInv, TypeOK, Settle, tick, http
<1>2. PoolOK' /\ LoopOK'
  BY DEF IInv, PoolOK, LoopOK, Settle, tick, http
<1> QED BY <1>1, <1>2, WorkerSide DEF Settle

\* The steps of a worker that gets no connection, or one for its handler only.
LEMMA WorkerFailuresPreserve ==
    ASSUME IInv, StatementTimesOut \/ MarkFailed \/ Abandon \/ ClaimTimesOut
    PROVE  IInv'
<1>1. CASE StatementTimesOut
  <2>1. TypeOK' /\ PoolOK' /\ LoopOK'
    BY <1>1 DEF IInv, TypeOK, PoolOK, LoopOK, StatementTimesOut, tick, http
  <2> QED BY <1>1, <2>1, WorkerSide DEF StatementTimesOut
<1>2. CASE MarkFailed
  <2>1. TypeOK' /\ PoolOK' /\ LoopOK'
    BY <1>2 DEF IInv, TypeOK, PoolOK, LoopOK, MarkFailed, tick, http
  <2> QED BY <1>2, <2>1, WorkerSide DEF MarkFailed
<1>3. CASE Abandon
  <2>1. TypeOK' /\ PoolOK' /\ LoopOK'
    BY <1>3 DEF IInv, TypeOK, PoolOK, LoopOK, Abandon, WorkerSleeps, tick, http
  <2> QED BY <1>3, <2>1, WorkerSide DEF Abandon
<1>4. CASE ClaimTimesOut
  <2>1. TypeOK' /\ PoolOK' /\ LoopOK'
    BY <1>4 DEF IInv, TypeOK, PoolOK, LoopOK, ClaimTimesOut, WorkerSleeps, tick, http
  <2> QED BY <1>4, <2>1, WorkerSide DEF ClaimTimesOut
<1> QED BY <1>1, <1>2, <1>3, <1>4

-----------------------------------------------------------------------------
(* The scheduler.  It touches no request and no run of the worker.         *)

\* Steps that change no lock: the scheduler holds none before them.
LEMMA SchedulerSide ==
    ASSUME IInv, TypeOK', PoolOK', LoopOK',
           scheduler # "asleep" \/ signal # "stopped",
           scheduler # "checked",
           UNCHANGED <<http, lock, signal>>
    PROVE  IInv'
<1>1. LockOK'
  BY DEF IInv, LockOK, http
<1>2. StopOK'
  BY DEF IInv, StopOK, LoopOK, http
<1> QED BY <1>1, <1>2 DEF IInv

LEMMA StartTickPreserves ==
    ASSUME IInv, StartTick
    PROVE  IInv'
<1>1. TypeOK'
  BY DEF IInv, TypeOK, StartTick, task, http
<1>2. PoolOK' /\ LoopOK'
  BY DEF IInv, PoolOK, LoopOK, StartTick, task, http
<1> QED BY <1>1, <1>2, SchedulerSide DEF StartTick

LEMMA ReadUsersPreserves ==
    ASSUME IInv, ReadUsers
    PROVE  IInv'
<1>1. left' \subseteq Users
  BY UsersAssumption DEF ReadUsers
<1>2. TypeOK'
  BY <1>1, PoolTaken DEF IInv, TypeOK, ReadUsers, task, http
<1>3. PoolOK' /\ LoopOK'
  BY Names DEF IInv, PoolOK, LoopOK, ReadUsers, task, http
<1> QED BY <1>2, <1>3, SchedulerSide DEF ReadUsers

LEMMA ScheduleReusePreserves ==
    ASSUME IInv, NEW u \in Users, ScheduleReuse(u)
    PROVE  IInv'
<1>1. TypeOK'
  BY PoolReturned DEF IInv, TypeOK, ScheduleReuse, After, task, http
<1>2. PoolOK' /\ LoopOK'
  BY DEF IInv, PoolOK, LoopOK, ScheduleReuse, MaySchedule, task, http
<1> QED BY <1>1, <1>2, SchedulerSide DEF ScheduleReuse, MaySchedule

LEMMA ScheduleCheckPreserves ==
    ASSUME IInv, NEW u \in Users, ScheduleCheck(u)
    PROVE  IInv'
<1> DEFINE key == <<"all", u>>
<1>1. /\ scheduler = "ticking" /\ u \in left /\ \A v \in left : u <= v
      /\ lock[key] = None /\ key \in Keys
      /\ lock' = [lock EXCEPT ![key] = "scheduler"] /\ scheduler' = "checked"
      /\ UNCHANGED <<loop, left, task, queue, http, pool, signal>>
  BY KeyFacts DEF ScheduleCheck, MaySchedule
<1>2. TypeOK'
  BY <1>1 DEF IInv, TypeOK, task, http
<1>3. PoolOK' /\ LoopOK' /\ StopOK'
  BY <1>1 DEF IInv, PoolOK, LoopOK, StopOK, task, http
<1>4. LockOK'
  <2>1. ASSUME NEW k \in Keys, lock'[k] = "scheduler"
        PROVE  \E v \in left : k = <<"all", v>> /\ \A x \in left : v <= x
    <3>1. k = key
      BY <1>1, <2>1 DEF IInv, TypeOK, LockOK
    <3> QED BY <1>1, <3>1
  <2>2. ASSUME NEW k \in Keys, NEW r \in Requests, lock'[k] = r
        PROVE  lock[k] = r
    BY <1>1, <2>2, Names DEF IInv, TypeOK
  <2>3. ASSUME NEW r \in Requests, request[r] = "checked"
        PROVE  wants[r] \in Keys /\ lock'[wants[r]] = r
    BY <1>1, <2>3, Names DEF IInv, TypeOK, LockOK
  <2> QED BY <1>1, <2>1, <2>2, <2>3 DEF IInv, LockOK, http
<1> QED BY <1>2, <1>3, <1>4 DEF IInv

LEMMA ScheduleInsertPreserves ==
    ASSUME IInv, NEW u \in Users, ScheduleInsert(u)
    PROVE  IInv'
<1> DEFINE key == <<"all", u>>
<1>1. /\ scheduler = "checked" /\ u \in left
      /\ lock[key] = "scheduler" /\ key \in Keys
      /\ queue' = Append(queue, key)
      /\ lock' = [lock EXCEPT ![key] = None]
      /\ pool' = pool \ {"scheduler"} /\ left' = left \ {u} /\ scheduler' = "inserted"
      /\ UNCHANGED <<loop, task, http, signal>>
  BY KeyFacts DEF ScheduleInsert
<1>2. TypeOK'
  BY <1>1, QueueTypes, PoolReturned DEF IInv, TypeOK, task, http
<1>3. PoolOK' /\ LoopOK' /\ StopOK'
  BY <1>1 DEF IInv, PoolOK, LoopOK, StopOK, task, http
<1>4. LockOK'
  <2>1. ASSUME NEW k \in Keys PROVE lock'[k] # "scheduler"
    <3>1. CASE k = key
      BY <1>1, <3>1, Names DEF IInv, TypeOK
    <3>2. CASE k # key
      <4>1. SUFFICES ASSUME lock[k] = "scheduler" PROVE FALSE
        BY <1>1, <3>2 DEF IInv, TypeOK
      <4>2. PICK v \in left : k = <<"all", v>> /\ \A x \in left : v <= x
        BY <4>1 DEF IInv, LockOK
      <4>3. PICK y \in left : key = <<"all", y>> /\ \A x \in left : y <= x
        BY <1>1 DEF IInv, LockOK
      <4>4. v \in Nat /\ y \in Nat /\ v <= y /\ y <= v
        BY <4>2, <4>3, UsersAssumption DEF IInv, TypeOK
      <4> QED BY <4>2, <4>3, <4>4, <3>2
    <3> QED BY <3>1, <3>2
  <2>2. ASSUME NEW k \in Keys, NEW r \in Requests, lock'[k] = r
        PROVE  lock[k] = r
    BY <1>1, <2>2, Names DEF IInv, TypeOK
  <2>3. ASSUME NEW r \in Requests, request[r] = "checked"
        PROVE  wants[r] \in Keys /\ lock'[wants[r]] = r
    BY <1>1, <2>3, Names DEF IInv, TypeOK, LockOK
  <2> QED BY <1>1, <2>1, <2>2, <2>3 DEF IInv, LockOK, http
<1> QED BY <1>2, <1>3, <1>4 DEF IInv

LEMMA TickConnectsPreserves ==
    ASSUME IInv, TickConnects
    PROVE  IInv'
<1>1. TypeOK'
  BY PoolTaken DEF IInv, TypeOK, TickConnects, Reconnects, task, http
<1>2. PoolOK' /\ LoopOK'
  BY Names DEF IInv, PoolOK, LoopOK, TickConnects, Reconnects, task, http
<1> QED BY <1>1, <1>2, SchedulerSide DEF TickConnects, Reconnects

\* The two ways a tick ends.
LEMMA TickEndsPreserve ==
    ASSUME IInv, EndTick \/ TickTimesOut
    PROVE  IInv'
<1>1. CASE EndTick
  <2>1. TypeOK'
    BY <1>1, PoolReturned DEF IInv, TypeOK, EndTick, TickSleeps, task, http
  <2>2. PoolOK' /\ LoopOK'
    BY <1>1 DEF IInv, PoolOK, LoopOK, EndTick, TickSleeps, task, http
  <2> QED BY <1>1, <2>1, <2>2, SchedulerSide DEF EndTick
<1>2. CASE TickTimesOut
  <2>1. TypeOK' /\ PoolOK' /\ LoopOK'
    BY <1>2 DEF IInv, TypeOK, PoolOK, LoopOK, TickTimesOut, Reconnects, TickSleeps, task, http
  <2> QED BY <1>2, <2>1, SchedulerSide DEF TickTimesOut, Reconnects
<1> QED BY <1>1, <1>2

-----------------------------------------------------------------------------
(* The endpoints.                                                          *)

\* A request that is not answered keeps the process from having stopped.
LEMMA RequestOpen ==
    ASSUME IInv, NEW r \in Requests, request[r] # "idle"
    PROVE  signal # "stopped"
BY DEF IInv, StopOK

\* Steps of one request that change no lock, and hold none.
LEMMA RequestSide ==
    ASSUME IInv, NEW r \in Requests, TypeOK', PoolOK', signal # "stopped",
           request[r] # "checked", request'[r] # "checked",
           request[r] = "finished" => request'[r] = "finished",
           \A q \in Requests \ {r} : request'[q] = request[q] /\ wants'[q] = wants[q],
           UNCHANGED <<loop, tick, task, lock, signal>>
    PROVE  IInv'
<1>1. LockOK'
  BY DEF IInv, LockOK, tick
<1>2. LoopOK' /\ StopOK'
  BY DEF IInv, LoopOK, StopOK, tick, task
<1> QED BY <1>1, <1>2 DEF IInv

LEMMA DispatchPreserves ==
    ASSUME IInv, NEW r \in Requests, NEW k \in Keys \cup {None}, Dispatch(r, k)
    PROVE  IInv'
<1>1. TypeOK'
  BY DEF IInv, TypeOK, Dispatch, tick, task
<1>2. PoolOK'
  BY DEF IInv, TypeOK, PoolOK, Dispatch, tick, task
<1>3. /\ request[r] = "idle" /\ request'[r] = "connecting" /\ signal # "stopped"
      /\ \A q \in Requests \ {r} : request'[q] = request[q] /\ wants'[q] = wants[q]
  BY DEF IInv, TypeOK, Dispatch
<1> QED BY <1>1, <1>2, <1>3, RequestSide DEF Dispatch

LEMMA ConnectPreserves ==
    ASSUME IInv, NEW r \in Requests, Connect(r)
    PROVE  IInv'
<1>1. TypeOK'
  BY PoolTaken DEF IInv, TypeOK, Connect, tick, task
<1>2. PoolOK'
  BY Names DEF IInv, TypeOK, PoolOK, Connect, tick, task
<1>3. /\ request[r] = "connecting" /\ request'[r] \in {"connected", "finished"}
      /\ wants' = wants
      /\ \A q \in Requests \ {r} : request'[q] = request[q]
  BY DEF IInv, TypeOK, Connect
<1> QED BY <1>1, <1>2, <1>3, RequestSide, RequestOpen DEF Connect

LEMMA ConnectTimesOutPreserves ==
    ASSUME IInv, NEW r \in Requests, ConnectTimesOut(r)
    PROVE  IInv'
<1>1. TypeOK'
  BY DEF IInv, TypeOK, ConnectTimesOut, tick, task
<1>2. PoolOK'
  BY DEF IInv, TypeOK, PoolOK, ConnectTimesOut, tick, task
<1>3. /\ request[r] = "connecting" /\ request'[r] = "finished"
      /\ \A q \in Requests \ {r} : request'[q] = request[q] /\ wants'[q] = wants[q]
  BY DEF IInv, TypeOK, ConnectTimesOut
<1> QED BY <1>1, <1>2, <1>3, RequestSide, RequestOpen DEF ConnectTimesOut

LEMMA ReusePreserves ==
    ASSUME IInv, NEW r \in Requests, Reuse(r)
    PROVE  IInv'
<1>1. TypeOK'
  BY PoolReturned DEF IInv, TypeOK, Reuse, tick, task
<1>2. PoolOK'
  BY DEF IInv, TypeOK, PoolOK, Reuse, MayLock, tick, task
<1>3. /\ request[r] = "connected" /\ request'[r] = "finished"
      /\ \A q \in Requests \ {r} : request'[q] = request[q] /\ wants'[q] = wants[q]
  BY DEF IInv, TypeOK, Reuse, MayLock
<1> QED BY <1>1, <1>2, <1>3, RequestSide, RequestOpen DEF Reuse

LEMMA RefusePreserves ==
    ASSUME IInv, NEW r \in Requests, Refuse(r)
    PROVE  IInv'
<1> DEFINE key == wants[r]
<1>1. /\ request[r] = "connected" /\ key \in Keys /\ key[1] = "retry" /\ lock[key] = None
      /\ lock' = [lock EXCEPT ![key] = r]
      /\ request' = [request EXCEPT ![r] = "finished"]
      /\ wants' = [wants EXCEPT ![r] = None]
      /\ UNCHANGED <<loop, tick, task, queue, pool, signal>>
  BY DEF Refuse, MayLock, IInv, TypeOK
<1>2. key \in RetryKeys
  BY <1>1 DEF Keys, RetryKeys
<1>3. TypeOK'
  BY <1>1 DEF IInv, TypeOK, tick, task
<1>4. PoolOK' /\ LoopOK' /\ StopOK'
  BY <1>1, RequestOpen DEF IInv, TypeOK, PoolOK, LoopOK, StopOK, tick, task
<1>5. LockOK'
  <2>1. ASSUME NEW k \in Keys, k # key PROVE lock'[k] = lock[k]
    BY <1>1, <2>1 DEF IInv, TypeOK
  <2>2. lock'[key] = r
    BY <1>1 DEF IInv, TypeOK
  <2>3. request'[r] = "finished" /\
        \A q \in Requests \ {r} : request'[q] = request[q] /\ wants'[q] = wants[q]
    BY <1>1 DEF IInv, TypeOK
  <2>4. ASSUME NEW q \in Requests, request'[q] = "checked"
        PROVE  wants'[q] \in Keys /\ lock'[wants'[q]] = q
    <3>1. q # r /\ request[q] = "checked" /\ wants'[q] = wants[q]
      BY <2>3, <2>4
    <3>2. wants[q] \in Keys /\ lock[wants[q]] = q
      BY <3>1 DEF IInv, LockOK
    <3>3. wants[q] # key
      BY <1>1, <3>2, Names
    <3> QED BY <2>1, <3>1, <3>2, <3>3
  <2>5. ASSUME NEW k \in Keys, lock'[k] = "scheduler"
        PROVE  scheduler = "checked"
               /\ \E u \in left : k = <<"all", u>> /\ \A v \in left : u <= v
    <3>1. lock[k] = "scheduler"
      BY <2>1, <2>2, <2>5, Names
    <3> QED BY <3>1 DEF IInv, LockOK
  <2>6. ASSUME NEW k \in Keys, NEW q \in Requests, lock'[k] = q
        PROVE  \/ request'[q] = "checked" /\ wants'[q] = k
               \/ request'[q] = "finished" /\ k \in RetryKeys
    <3>1. CASE k = key
      BY <3>1, <2>2, <2>3, <2>6, <1>2
    <3>2. CASE k # key
      <4>1. lock[k] = q
        BY <3>2, <2>1, <2>6
      <4>2. q # r
        BY <4>1, <1>1 DEF IInv, LockOK
      <4> QED BY <4>1, <4>2, <2>3 DEF IInv, LockOK
    <3> QED BY <3>1, <3>2
  <2> QED BY <1>1, <2>4, <2>5, <2>6 DEF LockOK, tick
<1> QED BY <1>3, <1>4, <1>5 DEF IInv

LEMMA CheckPreserves ==
    ASSUME IInv, NEW r \in Requests, Check(r)
    PROVE  IInv'
<1> DEFINE key == wants[r]
<1>1. /\ request[r] = "connected" /\ key \in Keys /\ lock[key] = None
      /\ lock' = [lock EXCEPT ![key] = r]
      /\ request' = [request EXCEPT ![r] = "checked"]
      /\ UNCHANGED <<loop, tick, task, queue, wants, pool, signal>>
  BY DEF Check, MayLock, IInv, TypeOK
<1>2. TypeOK'
  BY <1>1 DEF IInv, TypeOK, tick, task
<1>3. PoolOK' /\ LoopOK' /\ StopOK'
  BY <1>1, RequestOpen DEF IInv, TypeOK, PoolOK, LoopOK, StopOK, tick, task
<1>4. LockOK'
  <2>1. ASSUME NEW k \in Keys, k # key PROVE lock'[k] = lock[k]
    BY <1>1, <2>1 DEF IInv, TypeOK
  <2>2. lock'[key] = r
    BY <1>1 DEF IInv, TypeOK
  <2>3. request'[r] = "checked" /\ \A q \in Requests \ {r} : request'[q] = request[q]
    BY <1>1 DEF IInv, TypeOK
  <2>4. ASSUME NEW q \in Requests, request'[q] = "checked"
        PROVE  wants[q] \in Keys /\ lock'[wants[q]] = q
    <3>1. CASE q = r
      BY <3>1, <1>1, <2>2
    <3>2. CASE q # r
      <4>1. wants[q] \in Keys /\ lock[wants[q]] = q
        BY <3>2, <2>3, <2>4 DEF IInv, LockOK
      <4>2. wants[q] # key
        BY <1>1, <4>1, Names
      <4> QED BY <2>1, <4>1, <4>2
    <3> QED BY <3>1, <3>2
  <2>5. ASSUME NEW k \in Keys, lock'[k] = "scheduler"
        PROVE  scheduler = "checked"
               /\ \E u \in left : k = <<"all", u>> /\ \A v \in left : u <= v
    <3>1. lock[k] = "scheduler"
      BY <2>1, <2>2, <2>5, Names
    <3> QED BY <3>1 DEF IInv, LockOK
  <2>6. ASSUME NEW k \in Keys, NEW q \in Requests, lock'[k] = q
        PROVE  \/ request'[q] = "checked" /\ wants[q] = k
               \/ request'[q] = "finished" /\ k \in RetryKeys
    <3>1. CASE k = key
      BY <3>1, <2>2, <2>3, <2>6
    <3>2. CASE k # key
      <4>1. lock[k] = q
        BY <3>2, <2>1, <2>6
      <4>2. q # r
        BY <4>1, <1>1 DEF IInv, LockOK
      <4> QED BY <4>1, <4>2, <2>3 DEF IInv, LockOK
    <3> QED BY <3>1, <3>2
  <2> QED BY <1>1, <2>4, <2>5, <2>6 DEF LockOK, tick
<1> QED BY <1>2, <1>3, <1>4 DEF IInv

LEMMA InsertPreserves ==
    ASSUME IInv, NEW r \in Requests, Insert(r)
    PROVE  IInv'
<1> DEFINE key == wants[r]
<1>1. /\ request[r] = "checked" /\ key \in Keys /\ lock[key] = r
      /\ queue' = Append(queue, key)
      /\ lock' = [lock EXCEPT ![key] = None]
      /\ pool' = pool \ {r}
      /\ request' = [request EXCEPT ![r] = "connecting"]
      /\ wants' = [wants EXCEPT ![r] = None]
      /\ UNCHANGED <<loop, tick, task, signal>>
  BY DEF Insert, IInv, LockOK
<1>2. TypeOK'
  BY <1>1, QueueTypes, PoolReturned DEF IInv, TypeOK, tick, task
<1>3. PoolOK' /\ LoopOK' /\ StopOK'
  BY <1>1, RequestOpen DEF IInv, TypeOK, PoolOK, LoopOK, StopOK, tick, task
<1>4. LockOK'
  <2>1. ASSUME NEW k \in Keys, k # key PROVE lock'[k] = lock[k]
    BY <1>1, <2>1 DEF IInv, TypeOK
  <2>2. lock'[key] = None
    BY <1>1 DEF IInv, TypeOK
  <2>3. request'[r] = "connecting" /\
        \A q \in Requests \ {r} : request'[q] = request[q] /\ wants'[q] = wants[q]
    BY <1>1 DEF IInv, TypeOK
  <2>4. ASSUME NEW q \in Requests, request'[q] = "checked"
        PROVE  wants'[q] \in Keys /\ lock'[wants'[q]] = q
    <3>1. q # r /\ request[q] = "checked" /\ wants'[q] = wants[q]
      BY <2>3, <2>4
    <3>2. wants[q] \in Keys /\ lock[wants[q]] = q
      BY <3>1 DEF IInv, LockOK
    <3>3. wants[q] # key
      BY <1>1, <3>1, <3>2
    <3> QED BY <2>1, <3>1, <3>2, <3>3
  <2>5. ASSUME NEW k \in Keys, lock'[k] = "scheduler"
        PROVE  scheduler = "checked"
               /\ \E u \in left : k = <<"all", u>> /\ \A v \in left : u <= v
    <3>1. lock[k] = "scheduler"
      BY <2>1, <2>2, <2>5, Names
    <3> QED BY <3>1 DEF IInv, LockOK
  <2>6. ASSUME NEW k \in Keys, NEW q \in Requests, lock'[k] = q
        PROVE  \/ request'[q] = "checked" /\ wants'[q] = k
               \/ request'[q] = "finished" /\ k \in RetryKeys
    <3>1. k # key
      BY <2>2, <2>6, Names
    <3>2. lock[k] = q
      BY <3>1, <2>1, <2>6
    <3>3. q # r
      BY <3>1, <3>2, <1>1 DEF IInv, LockOK
    <3> QED BY <3>2, <3>3, <2>3 DEF IInv, LockOK
  <2> QED BY <1>1, <2>4, <2>5, <2>6 DEF LockOK, tick
<1> QED BY <1>2, <1>3, <1>4 DEF IInv

LEMMA ClosePreserves ==
    ASSUME IInv, NEW r \in Requests, Close(r)
    PROVE  IInv'
<1>1. /\ request[r] = "finished"
      /\ request' = [request EXCEPT ![r] = "idle"]
      /\ lock' = [k \in Keys |-> IF lock[k] = r THEN None ELSE lock[k]]
      /\ pool' = pool \ {r}
      /\ UNCHANGED <<loop, tick, task, queue, wants, signal>>
  BY DEF Close, ReleasedBy
<1>2. TypeOK'
  <2>1. lock' \in [Keys -> Requests \cup {"scheduler", None}]
    BY <1>1 DEF IInv, TypeOK
  <2> QED BY <1>1, <2>1, PoolReturned DEF IInv, TypeOK, tick, task
<1>3. PoolOK' /\ LoopOK' /\ StopOK'
  BY <1>1, RequestOpen DEF IInv, TypeOK, PoolOK, LoopOK, StopOK, tick, task
<1>4. LockOK'
  <2>1. \A k \in Keys : lock'[k] = IF lock[k] = r THEN None ELSE lock[k]
    BY <1>1
  <2>2. request'[r] = "idle" /\ \A q \in Requests \ {r} : request'[q] = request[q]
    BY <1>1 DEF IInv, TypeOK
  <2>3. ASSUME NEW q \in Requests, request'[q] = "checked"
        PROVE  wants[q] \in Keys /\ lock'[wants[q]] = q
    BY <2>1, <2>2, <2>3 DEF IInv, LockOK
  <2>4. ASSUME NEW k \in Keys, lock'[k] = "scheduler"
        PROVE  scheduler = "checked"
               /\ \E u \in left : k = <<"all", u>> /\ \A v \in left : u <= v
    <3>1. lock[k] = "scheduler"
      BY <2>1, <2>4, Names
    <3> QED BY <3>1 DEF IInv, LockOK
  <2>5. ASSUME NEW k \in Keys, NEW q \in Requests, lock'[k] = q
        PROVE  \/ request'[q] = "checked" /\ wants[q] = k
               \/ request'[q] = "finished" /\ k \in RetryKeys
    <3>1. lock[k] = q /\ q # r
      BY <2>1, <2>5, Names
    <3> QED BY <3>1, <2>2 DEF IInv, LockOK
  <2> QED BY <1>1, <2>3, <2>4, <2>5 DEF LockOK, tick
<1> QED BY <1>2, <1>3, <1>4 DEF IInv

-----------------------------------------------------------------------------
(* The theorems.                                                           *)

\* The three steps of a shutdown.
LEMMA ShutdownPreserves ==
    ASSUME IInv, Signal \/ Drain \/ Stop
    PROVE  IInv'
<1>1. UNCHANGED <<loop, tick, task, queue, http, lock, pool>>
  BY DEF Signal, Drain, Stop
<1>2. TypeOK'
  BY <1>1 DEF IInv, TypeOK, Signal, Drain, Stop, tick, task, http
<1>3. LockOK' /\ PoolOK' /\ LoopOK'
  BY <1>1 DEF IInv, LockOK, PoolOK, LoopOK, tick, task, http
<1>4. StopOK'
  BY <1>1 DEF IInv, StopOK, Signal, Drain, Stop, http
<1> QED BY <1>2, <1>3, <1>4 DEF IInv

LEMMA InitIInv == Init => IInv
<1> SUFFICES ASSUME Init PROVE IInv
  OBVIOUS
<1>1. Cardinality(pool) <= Connections
  BY FS_EmptySet, ConnectionsAssumption DEF Init
<1>2. TypeOK
  BY <1>1, EmptySeq DEF Init, TypeOK
<1>3. LockOK
  BY Names DEF Init, LockOK
<1> QED BY <1>2, <1>3 DEF Init, IInv, PoolOK, LoopOK, StopOK

LEMMA NextIInv == IInv /\ [Next]_vars => IInv'
<1> SUFFICES ASSUME IInv, [Next]_vars PROVE IInv'
  OBVIOUS
<1>1. ASSUME NEW r \in Requests, NEW k \in Keys \cup {None}, Dispatch(r, k) PROVE IInv'
  BY <1>1, DispatchPreserves
<1>2. ASSUME NEW r \in Requests, ThreadStep(r) PROVE IInv'
  BY <1>2, ConnectPreserves, ConnectTimesOutPreserves, ReusePreserves, RefusePreserves,
     CheckPreserves, InsertPreserves DEF ThreadStep
<1>3. ASSUME NEW r \in Requests, Close(r) PROVE IInv'
  BY <1>3, ClosePreserves
<1>4. CASE StartTick BY <1>4, StartTickPreserves
<1>5. CASE SchedulerStep
  <2>1. ASSUME NEW u \in Users, ScheduleReuse(u) \/ ScheduleCheck(u) \/ ScheduleInsert(u)
        PROVE  IInv'
    BY <2>1, ScheduleReusePreserves, ScheduleCheckPreserves, ScheduleInsertPreserves
  <2> QED BY <1>5, <2>1, ReadUsersPreserves, TickConnectsPreserves, TickEndsPreserve
          DEF SchedulerStep
<1>6. CASE StartClaim BY <1>6, StartClaimPreserves
<1>7. CASE WorkerStep
  BY <1>7, ClaimPreserves, NextStatementPreserves, CommitPartPreserves, SettlePreserves,
     WorkerFailuresPreserve DEF WorkerStep
<1>8. CASE Signal \/ Drain \/ Stop BY <1>8, ShutdownPreserves
<1>9. CASE UNCHANGED vars
  BY <1>9 DEF vars, tick, task, http, IInv, TypeOK, LockOK, PoolOK, LoopOK, StopOK
<1> QED BY <1>1, <1>2, <1>3, <1>4, <1>5, <1>6, <1>7, <1>8, <1>9 DEF Next

LEMMA Invariance == Spec => []IInv
<1> QED BY InitIInv, NextIInv, PTL DEF Spec

\* Every variable of a process keeps its type; in particular the pool its limit.
THEOREM ServiceProcessTypes == Spec => []TypeOK
<1>1. IInv => TypeOK
  BY DEF IInv
<1> QED BY <1>1, Invariance, PTL

\* The scheduler, holding the event loop, never waits for a lock that only the event
\* loop can release.
THEOREM LoopNeverWaitsForItself == Spec => []NoCircularWait
<1>1. IInv => NoCircularWait
  BY KeyFacts DEF IInv, LockOK, NoCircularWait
<1> QED BY <1>1, Invariance, PTL

\* A process that has shut down holds no run, no connection and no lock, and owes no
\* answer.
THEOREM ShutdownIsClean == Spec => []StoppedLeavesNothing
<1>1. ASSUME IInv, signal = "stopped"
      PROVE  run = None /\ pool = {} /\ (\A k \in Keys : lock[k] = None)
             /\ \A r \in Requests : request[r] = "idle"
  <2>1. /\ scheduler = "asleep" /\ worker = "asleep" /\ run = None
        /\ \A r \in Requests : request[r] = "idle"
    BY <1>1 DEF IInv, StopOK, LoopOK
  <2>2. pool = {}
    BY <1>1, <2>1 DEF IInv, TypeOK, PoolOK
  <2>3. \A k \in Keys : lock[k] = None
    BY <1>1, <2>1 DEF IInv, TypeOK, LockOK
  <2> QED BY <2>1, <2>2, <2>3
<1>2. IInv => StoppedLeavesNothing
  BY <1>1 DEF StoppedLeavesNothing
<1> QED BY <1>2, Invariance, PTL

-----------------------------------------------------------------------------
(* A pool that is large enough.                                            *)

\* One connection for every request the threads can hold, and one more.
LargePool == Cardinality(Requests) < Connections

\* While a worker with a run is without a connection the pool is in the hands of
\* requests: the scheduler, asleep, has none.
LEMMA WorkerFindsConnection ==
    ASSUME LargePool, IInv, worker \in {"claimed", "failing"}
    PROVE  PoolFree
<1>1. loop = "worker" /\ scheduler = "asleep"
  BY DEF IInv, LoopOK
<1>2. pool \subseteq Requests
  BY <1>1 DEF IInv, TypeOK, PoolOK
<1>3. Cardinality(pool) <= Cardinality(Requests)
  BY <1>2, RequestsAssumption, FS_Subset
<1>4. Cardinality(pool) \in Nat /\ Cardinality(Requests) \in Nat /\ Connections \in Nat
  BY PoolIsFinite, RequestsAssumption, FS_CardinalityType DEF IInv
<1> QED BY <1>3, <1>4 DEF LargePool, PoolFree

LEMMA NoneAbandoned ==
    LargePool /\ IInv /\ RunsAreSettled /\ [Next]_vars => RunsAreSettled'
<1> SUFFICES ASSUME LargePool, IInv, abandoned = {}, [Next]_vars PROVE abandoned' = {}
  BY DEF RunsAreSettled
<1>1. ~Abandon
  BY WorkerFindsConnection DEF Abandon
<1>2. CASE WorkerStep
  BY <1>1, <1>2 DEF WorkerStep, Claim, NextStatement, CommitPart, Settle, StatementTimesOut,
     MarkFailed, ClaimTimesOut
<1>3. CASE SchedulerStep \/ StartTick
  BY <1>3 DEF SchedulerStep, StartTick, ReadUsers, ScheduleReuse, ScheduleCheck,
     ScheduleInsert, TickConnects, EndTick, TickTimesOut, task
<1>4. ASSUME NEW r \in Requests, ThreadStep(r) \/ Close(r) PROVE abandoned' = abandoned
  BY <1>4 DEF ThreadStep, Connect, ConnectTimesOut, Reuse, Refuse, Check, Insert, Close, task
<1>5. ASSUME NEW r \in Requests, NEW k \in Keys \cup {None}, Dispatch(r, k)
      PROVE  abandoned' = abandoned
  BY <1>5 DEF Dispatch, task
<1>6. CASE StartClaim \/ Signal \/ Drain \/ Stop \/ UNCHANGED vars
  BY <1>6 DEF StartClaim, Signal, Drain, Stop, vars, task
<1> QED BY <1>2, <1>3, <1>4, <1>5, <1>6 DEF Next

\* A worker that is alive settles every run it has claimed, when the pool has one
\* connection more than the requests in flight: an exhausted pool is the only thing
\* that makes the worker's handlers leave a run as it is.
THEOREM LargePoolSettles == LargePool /\ Spec => []RunsAreSettled
<1>1. Init => RunsAreSettled
  BY DEF Init, RunsAreSettled
<1>2. LargePool => LargePool'
  BY DEF LargePool
<1> QED BY <1>1, <1>2, NoneAbandoned, Invariance, PTL DEF Spec

-----------------------------------------------------------------------------
(* One run for each key.                                                   *)

\* A key has at most one run that is pending, processed or left running.
OneRunPerKey ==
    /\ \A i, j \in DOMAIN queue : queue[i] = queue[j] => i = j
    /\ \A i \in DOMAIN queue : queue[i] # run /\ queue[i] \notin abandoned
    /\ run \notin abandoned

\* Whoever has found no active run, and has yet to insert one.
Inserting(k) ==
    \/ lock[k] = "scheduler"
    \/ \E r \in Requests : request[r] = "checked" /\ wants[r] = k

\* What the check has found stays true up to the insert.
CheckStands == \A k \in Keys : Inserting(k) => ~Active(k)

RunsApart == OneRunPerKey /\ CheckStands

\* A lock has one holder, so one creator of a key is between check and insert.
LEMMA OneInserts ==
    ASSUME IInv
    PROVE  /\ \A r, q \in Requests :
                 request[r] = "checked" /\ request[q] = "checked" /\ wants[r] = wants[q]
                     => r = q
           /\ \A r \in Requests, k \in Keys :
                 request[r] = "checked" /\ lock[k] = "scheduler" => wants[r] # k
BY Names DEF IInv, LockOK

\* Steps that touch no run, and begin no insert.
LEMMA OtherSide ==
    ASSUME RunsApart, UNCHANGED <<queue, run, abandoned>>,
           \A k \in Keys : Inserting(k)' => Inserting(k)
    PROVE  RunsApart'
BY DEF RunsApart, OneRunPerKey, CheckStands, Active, Queued

LEMMA RequestsApart ==
    ASSUME IInv, RunsApart, NEW r \in Requests,
           \/ \E k \in Keys \cup {None} : Dispatch(r, k)
           \/ Connect(r) \/ ConnectTimesOut(r) \/ Reuse(r) \/ Refuse(r) \/ Close(r)
    PROVE  RunsApart'
<1>1. /\ request[r] # "checked" /\ request'[r] # "checked"
      /\ \A q \in Requests \ {r} : request'[q] = request[q] /\ wants'[q] = wants[q]
      /\ UNCHANGED <<queue, run, abandoned>>
  BY DEF IInv, TypeOK, Dispatch, Connect, ConnectTimesOut, Reuse, Refuse, Close, MayLock, task
<1>2. ASSUME NEW k \in Keys, lock'[k] = "scheduler" PROVE lock[k] = "scheduler"
  BY <1>2, Names DEF IInv, TypeOK, Dispatch, Connect, ConnectTimesOut, Reuse, Refuse, Close,
     ReleasedBy
<1> QED BY <1>1, <1>2, OtherSide DEF Inserting

\* The check: of its creator it has just become true.
LEMMA ChecksApart ==
    ASSUME IInv, RunsApart, NEW key \in Keys, ~Active(key),
           UNCHANGED <<queue, run, abandoned>>,
           \A k \in Keys : Inserting(k)' => k = key \/ Inserting(k)
    PROVE  RunsApart'
BY DEF RunsApart, OneRunPerKey, CheckStands, Active, Queued

\* The insert: of the key nobody else inserts, and that has no active run.
LEMMA InsertsApart ==
    ASSUME IInv, RunsApart, NEW key \in Keys, Inserting(key),
           queue' = Append(queue, key), UNCHANGED <<run, abandoned>>,
           \A k \in Keys : Inserting(k)' => k # key /\ Inserting(k)
    PROVE  RunsApart'
<1>1. ~Active(key)
  BY DEF RunsApart, CheckStands
<1>2. /\ queue \in Seq(Keys) /\ Len(queue) \in Nat
      /\ DOMAIN queue = 1..Len(queue) /\ DOMAIN queue' = 1..(Len(queue) + 1)
      /\ \A i \in 1..Len(queue) : queue'[i] = queue[i]
      /\ queue'[Len(queue) + 1] = key
  BY AppendProperties, LenProperties DEF IInv, TypeOK
<1>3. \A i \in 1..(Len(queue) + 1) : i \in 1..Len(queue) \/ i = Len(queue) + 1
  BY <1>2
<1>4. \A i \in DOMAIN queue : queue[i] # key
  BY <1>1 DEF Active, Queued
<1>5. OneRunPerKey'
  <2>1. \A i, j \in DOMAIN queue' : queue'[i] = queue'[j] => i = j
    BY <1>2, <1>3, <1>4 DEF RunsApart, OneRunPerKey
  <2>2. \A i \in DOMAIN queue' : queue'[i] # run /\ queue'[i] \notin abandoned
    BY <1>1, <1>2, <1>3 DEF RunsApart, OneRunPerKey, Active
  <2> QED BY <2>1, <2>2 DEF RunsApart, OneRunPerKey
<1>6. ASSUME NEW k \in Keys, Inserting(k)' PROVE ~Active(k)'
  <2>1. k # key /\ ~Active(k)
    BY <1>6 DEF RunsApart, CheckStands
  <2> QED BY <2>1, <1>2, <1>3 DEF Active, Queued
<1> QED BY <1>5, <1>6 DEF RunsApart, CheckStands

LEMMA CheckApart ==
    ASSUME IInv, RunsApart, NEW r \in Requests, Check(r)
    PROVE  RunsApart'
<1>1. /\ wants[r] \in Keys /\ ~Active(wants[r])
      /\ \A q \in Requests \ {r} : request'[q] = request[q]
      /\ UNCHANGED <<queue, run, abandoned, wants>>
  BY DEF IInv, TypeOK, Check, MayLock, task
<1>2. ASSUME NEW k \in Keys, lock'[k] = "scheduler" PROVE lock[k] = "scheduler"
  BY <1>2, Names DEF IInv, TypeOK, Check
<1> QED BY <1>1, <1>2, ChecksApart DEF Inserting

LEMMA ScheduleCheckApart ==
    ASSUME IInv, RunsApart, NEW u \in Users, ScheduleCheck(u)
    PROVE  RunsApart'
<1>1. /\ <<"all", u>> \in Keys /\ ~Active(<<"all", u>>)
      /\ UNCHANGED <<queue, run, abandoned, request, wants>>
  BY KeyFacts DEF ScheduleCheck, task, http
<1>2. ASSUME NEW k \in Keys, lock'[k] = "scheduler"
      PROVE  k = <<"all", u>> \/ lock[k] = "scheduler"
  BY <1>2 DEF IInv, TypeOK, ScheduleCheck
<1> QED BY <1>1, <1>2, ChecksApart DEF Inserting

LEMMA InsertApart ==
    ASSUME IInv, RunsApart, NEW r \in Requests, Insert(r)
    PROVE  RunsApart'
<1>1. /\ request[r] = "checked" /\ wants[r] \in Keys /\ lock[wants[r]] = r
      /\ request'[r] # "checked"
      /\ \A q \in Requests \ {r} : request'[q] = request[q] /\ wants'[q] = wants[q]
      /\ queue' = Append(queue, wants[r]) /\ UNCHANGED <<run, abandoned>>
  BY DEF IInv, TypeOK, LockOK, Insert, task
<1>2. ASSUME NEW k \in Keys, lock'[k] = "scheduler"
      PROVE  k # wants[r] /\ lock[k] = "scheduler"
  BY <1>1, <1>2, Names DEF IInv, TypeOK, Insert
<1>3. ASSUME NEW k \in Keys, Inserting(k)' PROVE k # wants[r] /\ Inserting(k)
  BY <1>1, <1>2, <1>3, OneInserts DEF Inserting
<1>4. Inserting(wants[r])
  BY <1>1 DEF Inserting
<1> QED BY <1>1, <1>3, <1>4, InsertsApart

LEMMA ScheduleInsertApart ==
    ASSUME IInv, RunsApart, NEW u \in Users, ScheduleInsert(u)
    PROVE  RunsApart'
<1> DEFINE key == <<"all", u>>
<1>1. /\ key \in Keys /\ lock[key] = "scheduler"
      /\ queue' = Append(queue, key)
      /\ UNCHANGED <<run, abandoned, request, wants>>
  BY KeyFacts DEF ScheduleInsert, task, http
<1>2. ASSUME NEW k \in Keys, lock'[k] = "scheduler"
      PROVE  k # key /\ lock[k] = "scheduler"
  BY <1>2, Names DEF IInv, TypeOK, ScheduleInsert
<1>3. ASSUME NEW k \in Keys, Inserting(k)' PROVE k # key /\ Inserting(k)
  BY <1>1, <1>2, <1>3, OneInserts DEF Inserting
<1>4. Inserting(key)
  BY <1>1 DEF Inserting
<1> QED BY <1>1, <1>3, <1>4, InsertsApart

\* The worker takes a run from the queue and lets it go, or leaves it behind.
LEMMA WorkerApart ==
    ASSUME IInv, RunsApart, WorkerStep
    PROVE  RunsApart'
<1>1. UNCHANGED <<request, wants, lock>>
  BY DEF WorkerStep, Claim, NextStatement, CommitPart, Settle, StatementTimesOut, MarkFailed,
     Abandon, ClaimTimesOut, http
<1>2. /\ \A k \in Keys : Inserting(k)' <=> Inserting(k)
      /\ None \notin Keys /\ queue \in Seq(Keys)
      /\ \A i \in DOMAIN queue : queue[i] \in Keys
  BY <1>1, Names DEF Inserting, IInv, TypeOK
<1>3. CASE Claim /\ queue # <<>> /\ queue' = Tail(queue)
  <2>1. /\ run = None /\ run' = Head(queue) /\ abandoned' \subseteq abandoned
    BY <1>3, <1>2 DEF Claim, IInv, LoopOK, Idle, WorkerSleeps
  <2>2. /\ Len(queue) \in Nat /\ DOMAIN queue = 1..Len(queue)
        /\ 1 \in 1..Len(queue) /\ run' = queue[1]
        /\ DOMAIN queue' = 1..(Len(queue) - 1)
        /\ \A i \in 1..(Len(queue) - 1) : queue'[i] = queue[i + 1] /\ i + 1 \in 1..Len(queue)
    BY <1>2, <1>3, <2>1, HeadTailProperties, LenProperties, EmptySeq
  <2>3. OneRunPerKey'
    <3>1. \A i, j \in DOMAIN queue' : queue'[i] = queue'[j] => i = j
      BY <2>2 DEF RunsApart, OneRunPerKey
    <3>2. \A i \in DOMAIN queue' : queue'[i] # run' /\ queue'[i] \notin abandoned'
      BY <2>1, <2>2 DEF RunsApart, OneRunPerKey
    <3>3. run' \notin abandoned'
      BY <2>1, <2>2 DEF RunsApart, OneRunPerKey
    <3> QED BY <3>1, <3>2, <3>3 DEF OneRunPerKey
  <2>4. \A k \in Keys : Active(k)' => Active(k)
    BY <2>1, <2>2 DEF Active, Queued
  <2> QED BY <2>3, <2>4, <1>2 DEF RunsApart, CheckStands
<1>4. CASE queue' = queue /\ run' = run /\ abandoned' \subseteq abandoned
  BY <1>2, <1>4 DEF RunsApart, OneRunPerKey, CheckStands, Active, Queued
<1>5. CASE /\ queue' = queue /\ run' = None
           /\ \/ abandoned' = abandoned
              \/ run \in Keys /\ abandoned' = abandoned \cup {run}
  <2>1. None \notin abandoned'
    BY <1>2, <1>5 DEF IInv, TypeOK
  <2>2. OneRunPerKey'
    BY <2>1, <1>2, <1>5 DEF RunsApart, OneRunPerKey
  <2>3. \A k \in Keys : Active(k)' => Active(k)
    BY <1>2, <1>5 DEF Active, Queued
  <2> QED BY <2>2, <2>3, <1>2 DEF RunsApart, CheckStands
<1>6. CASE Claim
  BY <1>3, <1>4, <1>6 DEF Claim, Idle, WorkerSleeps
<1>7. CASE NextStatement \/ CommitPart \/ StatementTimesOut \/ ClaimTimesOut
  BY <1>4, <1>7 DEF NextStatement, CommitPart, StatementTimesOut, ClaimTimesOut
<1>8. CASE Settle \/ MarkFailed \/ Abandon
  BY <1>5, <1>8 DEF Settle, MarkFailed, Abandon, IInv, LoopOK
<1> QED BY <1>6, <1>7, <1>8 DEF WorkerStep

LEMMA NextRunsApart == IInv /\ RunsApart /\ [Next]_vars => RunsApart'
<1> SUFFICES ASSUME IInv, RunsApart, [Next]_vars PROVE RunsApart'
  OBVIOUS
<1>1. ASSUME NEW r \in Requests, NEW k \in Keys \cup {None}, Dispatch(r, k)
      PROVE  RunsApart'
  BY <1>1, RequestsApart
<1>2. ASSUME NEW r \in Requests, ThreadStep(r) \/ Close(r) PROVE RunsApart'
  BY <1>2, RequestsApart, CheckApart, InsertApart DEF ThreadStep
<1>3. ASSUME UNCHANGED <<queue, run, abandoned, request, wants, lock>> PROVE RunsApart'
  BY <1>3, OtherSide DEF Inserting
<1>4. CASE SchedulerStep
  <2>1. ASSUME NEW u \in Users, ScheduleReuse(u) \/ ScheduleCheck(u) \/ ScheduleInsert(u)
        PROVE  RunsApart'
    BY <2>1, <1>3, ScheduleCheckApart, ScheduleInsertApart DEF ScheduleReuse, task, http
  <2>2. CASE ReadUsers \/ TickConnects \/ EndTick \/ TickTimesOut
    BY <2>2, <1>3 DEF ReadUsers, TickConnects, EndTick, TickTimesOut, task, http
  <2> QED BY <1>4, <2>1, <2>2 DEF SchedulerStep
<1>5. CASE WorkerStep BY <1>5, WorkerApart
<1>6. CASE StartTick \/ StartClaim \/ Signal \/ Drain \/ Stop \/ UNCHANGED vars
  BY <1>6, <1>3 DEF StartTick, StartClaim, Signal, Drain, Stop, vars, task, http
<1> QED BY <1>1, <1>2, <1>4, <1>5, <1>6 DEF Next

\* However endpoints and scheduler contend, and whenever the worker claims, fails or
\* leaves a run behind, no scope and no parent has two runs that are not settled: the
\* advisory lock, held from the check to the commit of the insert, keeps the check
\* true in between.
THEOREM OneUnsettledRun == Spec => []OneRunPerKey
<1>1. Init => RunsApart
  BY Names DEF Init, RunsApart, OneRunPerKey, CheckStands, Inserting
<1>2. RunsApart => OneRunPerKey
  BY DEF RunsApart
<1> QED BY <1>1, <1>2, NextRunsApart, Invariance, PTL DEF Spec
=============================================================================
