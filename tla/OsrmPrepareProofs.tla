------------------------- MODULE OsrmPrepareProofs -------------------------
(***************************************************************************)
(* What preparing a city guarantees whatever throws or dies: the slot of   *)
(* the quota a failed request or job took was given back unless it was cut *)
(* short, nobody pays for more slots than he took, and an hour never       *)
(* counts too many jobs; two active jobs of a city come from requests that *)
(* overlapped.  When an RPUSH that throws has not pushed and the lock      *)
(* outlives the work it protects, the quota is exact and one pipeline      *)
(* works at a time.                                                        *)
(***************************************************************************)
EXTENDS OsrmPrepare, FiniteSetTheorems, TLAPS

-----------------------------------------------------------------------------
(* Types                                                                   *)

LEMMA AskType ==
  ASSUME TypeOK, NEW r \in Request
  PROVE  ask[r].user \in User /\ ask[r].city \in City
         /\ ask[r].unlimited \in BOOLEAN
  <1>1. ask[r] \in Ask
    BY DEF TypeOK
  <1>2. ask[r] \in [user : User, city : City, unlimited : BOOLEAN]
    BY <1>1 DEF Ask
  <1>3. QED
    BY <1>2

LEMMA JobIsRequest ==
  ASSUME TypeOK, worker # "idle"
  PROVE  job \in Request
  BY DEF TypeOK

LEMMA TypeInit == Init => TypeOK
  <1> SUFFICES ASSUME Init PROVE TypeOK
    OBVIOUS
  <1>1. /\ "idle" \in Step /\ "idle" \in TaskStep /\ "absent" \in Status
        /\ NoHour \in 0..NoHour /\ 0 \in 0..MaxHour
    BY OsrmAssumption DEF Step, TaskStep, Status, NoHour
  <1>2. /\ pc \in [Request -> Step] /\ slot \in [Request -> 0..NoHour]
        /\ used \in [User -> Nat] /\ status \in [Request -> Status]
        /\ latest \in [City -> Request \cup {NoJob}]
    BY <1>1 DEF Init
  <1>3. enqueues \in [User -> [0..MaxHour -> Nat]]
    BY DEF Init
  <1>4. queue \in Seq(Request) /\ seen \in [Request -> SUBSET Request]
    BY DEF Init
  <1>5. QED
    BY <1>1, <1>2, <1>3, <1>4 DEF Init, TypeOK

LEMMA PcUpdate ==
  ASSUME TypeOK, NEW r \in Request, NEW to \in Step,
         pc' = [pc EXCEPT ![r] = to]
  PROVE  /\ pc' \in [Request -> Step]
         /\ pc'[r] = to
         /\ \A q \in Request \ {r} : pc'[q] = pc[q]
  BY DEF TypeOK

LEMMA StatusUpdate ==
  ASSUME TypeOK, NEW r \in Request, NEW s \in Status,
         status' = [status EXCEPT ![r] = s]
  PROVE  /\ status' \in [Request -> Status]
         /\ status'[r] = s
         /\ \A q \in Request \ {r} : status'[q] = status[q]
  BY DEF TypeOK

\* A step of a request: where it goes, and what it leaves alone.
LEMMA RequestFrame ==
  ASSUME TypeOK, NEW r \in Request, EnqueueUserOsrmPrepare(r)
  PROVE  /\ UNCHANGED <<ask, hour, worker, job, nightly, lock, ready>>
         /\ pc' \in [Request -> Step]
         /\ \A q \in Request \ {r} : pc'[q] = pc[q]
         /\ pc[r] # "done" /\ pc[r] # "error"
         /\ pc'[r] # "idle"
  <1>0. ask[r].unlimited \in BOOLEAN
    BY AskType
  <1>1. UNCHANGED <<ask, hour, worker, job, nightly, lock, ready>>
    BY DEF EnqueueUserOsrmPrepare, Submit, FindActive, FindLatest,
       CountEnqueue, UndoEnqueue, ReserveQuota, CreateJob, Enqueue,
       CreateFails, Refund, Abort, workerVars
  <1>2. PICK to \in Step : pc' = [pc EXCEPT ![r] = to] /\ to # "idle"
    BY <1>0 DEF EnqueueUserOsrmPrepare, Submit, FindActive, FindLatest,
       CountEnqueue, UndoEnqueue, ReserveQuota, CreateJob, Enqueue,
       CreateFails, Refund, Abort, Goto, AfterRate, Step
  <1>3. pc[r] # "done" /\ pc[r] # "error"
    BY DEF EnqueueUserOsrmPrepare, Submit, FindActive, FindLatest,
       CountEnqueue, UndoEnqueue, ReserveQuota, CreateJob, Enqueue,
       CreateFails, Refund, Abort, Goto
  <1>4. QED
    BY <1>1, <1>2, <1>3, PcUpdate

\* A step of the task, of the nightly script or of time: what it leaves alone.
LEMMA OtherFrame ==
  ASSUME [Next]_vars, \A r \in Request : ~EnqueueUserOsrmPrepare(r)
  PROVE  UNCHANGED <<ask, seen, pc, slot, enqueues, latest>>
  BY DEF Next, vars, requestVars, PrepareOsrmTask, PopJob, AcquireLock,
     LockBusy, FailBusyJob, RefundBusyJob, MarkRunning, RunPipeline,
     MarkSucceeded, PipelineFails, MarkFailed, RefundFailed, ReleaseLock,
     FailJob, RefundUserQuota, TaskRaises, Crash, NightlyStarts, NightlyEnds,
     LockExpires, NextHour

\* A request searches once, and goes on if it found no active row of its city.
LEMMA SearchStep ==
  ASSUME TypeOK, NEW r \in Request, EnqueueUserOsrmPrepare(r)
  PROVE  /\ seen' \in [Request -> SUBSET Request]
         /\ \A q \in Request \ {r} : seen'[q] = seen[q]
         /\ \/ seen'[r] = seen[r] /\ pc[r] # "joined" /\ pc'[r] # "joined"
            \/ /\ pc[r] = "findActive" /\ seen'[r] = RowsOf(ask[r].city)
               /\ pc'[r] = "joined" \/ \A q \in seen'[r] : ~Active(q)
  <1>1. CASE FindActive(r)
    <2>1. /\ seen' = [seen EXCEPT ![r] = RowsOf(ask[r].city)]
          /\ RowsOf(ask[r].city) \subseteq Request
      BY <1>1 DEF FindActive, RowsOf
    <2>2. /\ pc[r] = "findActive"
          /\ pc'[r] = "joined" \/ \A q \in RowsOf(ask[r].city) : ~Active(q)
      BY <1>1 DEF FindActive, Goto, RowsOf, TypeOK
    <2>3. QED
      BY <2>1, <2>2 DEF TypeOK
  <1>2. CASE ~FindActive(r)
    <2>1. seen' = seen
      BY <1>2 DEF EnqueueUserOsrmPrepare, Submit, FindLatest, CountEnqueue,
         UndoEnqueue, ReserveQuota, CreateJob, Enqueue, CreateFails, Refund,
         Abort
    <2>2. pc[r] # "joined" /\ pc'[r] # "joined"
      BY <1>2, AskType DEF EnqueueUserOsrmPrepare, Submit, FindLatest,
         CountEnqueue, UndoEnqueue, ReserveQuota, CreateJob, Enqueue,
         CreateFails, Refund, Abort, Goto, AfterRate, TypeOK
    <2>3. QED
      BY <2>1, <2>2 DEF TypeOK
  <1>3. QED
    BY <1>1, <1>2

\* The step of the worker, and its job.
LEMMA WorkerFrame ==
  ASSUME TypeOK, [Next]_vars, \A r \in Request : ~EnqueueUserOsrmPrepare(r)
  PROVE  /\ worker' \in TaskStep
         /\ job' \in Request \cup {NoJob}
         /\ worker' = "idle" <=> job' = NoJob
         /\ job' # job => worker = "idle" \/ worker' = "idle"
  <1>1. CASE PopJob
    <2>1. Head(queue) \in Request
      BY <1>1 DEF PopJob, TypeOK
    <2>2. QED
      BY <1>1, <2>1, OsrmAssumption DEF PopJob, TypeOK, TaskStep
  <1>2. CASE TaskRaises \/ Crash \/ PipelineFails
    BY <1>2, JobIsRequest, OsrmAssumption
       DEF TaskRaises, Crash, PipelineFails, TypeOK, TaskStep, Holding
  <1>3. CASE UNCHANGED workerVars
    BY <1>3 DEF workerVars, TypeOK
  <1>4. ASSUME NEW from, NEW to \in TaskStep, Work(from, to), worker # "idle"
        PROVE  /\ worker' \in TaskStep
               /\ job' \in Request \cup {NoJob}
               /\ worker' = "idle" <=> job' = NoJob
               /\ job' # job => worker = "idle" \/ worker' = "idle"
    BY <1>4, JobIsRequest, OsrmAssumption DEF Work
  <1>5. CASE AcquireLock \/ LockBusy \/ RefundBusyJob \/ MarkRunning
             \/ RunPipeline \/ MarkSucceeded \/ RefundFailed \/ ReleaseLock
    <2>1. \E from, to \in TaskStep : Work(from, to) /\ worker # "idle"
      BY <1>5 DEF AcquireLock, LockBusy, RefundBusyJob, MarkRunning,
         RunPipeline, MarkSucceeded, RefundFailed, ReleaseLock,
         RefundUserQuota, Work, TaskStep, Holding
    <2>2. QED
      BY <2>1, <1>4
  <1>6. CASE FailBusyJob \/ MarkFailed
    <2>1. \E from, to \in TaskStep : Work(from, to) /\ worker # "idle"
      BY <1>6 DEF FailBusyJob, MarkFailed, FailJob, Work, TaskStep, Holding
    <2>2. QED
      BY <2>1, <1>4
  <1>7. QED
    BY <1>1, <1>2, <1>3, <1>5, <1>6
       DEF Next, PrepareOsrmTask, NightlyStarts, NightlyEnds, LockExpires,
           NextHour, vars, workerVars
-----------------------------------------------------------------------------
(* The slots of a user and the counter                                     *)

LEMMA SlotsFinite ==
  ASSUME TypeOK, NEW u
  PROVE  /\ IsFiniteSet(Slots(u))
         /\ Cardinality(Slots(u)) \in Nat
  <1>1. Slots(u) \in SUBSET Request
    BY DEF Slots, TypeOK
  <1>2. IsFiniteSet(Slots(u))
    BY <1>1, FS_Subset, OsrmAssumption
  <1>3. QED
    BY <1>2, FS_CardinalityType

\* GREATEST and the removal of a slot, held or not.
LEMMA GiveBackEffect ==
  ASSUME TypeOK, NEW r \in Request, GiveBack(r), ask' = ask
  PROVE  /\ used' \in [User -> Nat]
         /\ held' \subseteq held
         /\ \A u \in User :
              /\ u # ask[r].user => used'[u] = used[u] /\ Slots(u)' = Slots(u)
              /\ u = ask[r].user =>
                   /\ used'[u] = IF used[u] = 0 THEN 0 ELSE used[u] - 1
                   /\ Cardinality(Slots(u)') =
                        IF r \in held THEN Cardinality(Slots(u)) - 1
                                      ELSE Cardinality(Slots(u))
                   /\ Cardinality(Slots(u)') \in Nat
  <1>0. ask[r].user \in User
    BY AskType
  <1>1. /\ used' \in [User -> Nat]
        /\ held' = held \ {r}
        /\ \A u \in User :
             used'[u] = IF u = ask[r].user
                          THEN IF used[u] = 0 THEN 0 ELSE used[u] - 1
                          ELSE used[u]
    BY <1>0 DEF GiveBack, TypeOK
  <1>2. ASSUME NEW u \in User, u # ask[r].user
        PROVE  Slots(u)' = Slots(u)
    BY <1>1, <1>2 DEF Slots
  <1>3. ASSUME NEW u \in User, u = ask[r].user
        PROVE  /\ Cardinality(Slots(u)') =
                   IF r \in held THEN Cardinality(Slots(u)) - 1
                                 ELSE Cardinality(Slots(u))
               /\ Cardinality(Slots(u)') \in Nat
    <2>1. Slots(u)' = Slots(u) \ {r} /\ (r \in Slots(u) <=> r \in held)
      BY <1>1, <1>3 DEF Slots
    <2>2. QED
      BY <2>1, SlotsFinite, FS_RemoveElement, FS_CardinalityType
  <1>4. QED
    BY <1>1, <1>2, <1>3

LEMMA ReserveEffect ==
  ASSUME TypeOK, NEW r \in Request, ReserveQuota(r), r \notin held
  PROVE  /\ used' \in [User -> Nat]
         /\ held' \subseteq held \cup {r}
         /\ \A u \in User :
              \/ used'[u] = used[u] /\ Slots(u)' = Slots(u)
              \/ /\ used[u] < QuotaPerUser
                 /\ used'[u] = used[u] + 1
                 /\ Cardinality(Slots(u)') = Cardinality(Slots(u)) + 1
  <1>0. ask[r].user \in User /\ ask' = ask
    BY AskType DEF ReserveQuota
  <1>1. CASE used[ask[r].user] < QuotaPerUser
    <2>1. /\ used' = [used EXCEPT ![ask[r].user] = @ + 1]
          /\ held' = held \cup {r}
      BY <1>1 DEF ReserveQuota
    <2>2. ASSUME NEW u \in User, u # ask[r].user
          PROVE  used'[u] = used[u] /\ Slots(u)' = Slots(u)
      BY <1>0, <2>1, <2>2 DEF Slots, TypeOK
    <2>3. ASSUME NEW u \in User, u = ask[r].user
          PROVE  /\ used'[u] = used[u] + 1
                 /\ Cardinality(Slots(u)') = Cardinality(Slots(u)) + 1
      <3>1. Slots(u)' = Slots(u) \cup {r} /\ r \notin Slots(u)
        BY <1>0, <2>1, <2>3 DEF Slots
      <3>2. QED
        <4>1. IsFiniteSet(Slots(u)) /\ Cardinality(Slots(u)) \in Nat
          BY SlotsFinite
        <4>2. Cardinality(Slots(u) \cup {r}) = Cardinality(Slots(u)) + 1
          BY <3>1, <4>1, FS_AddElement
        <4>3. QED
          BY <2>1, <2>3, <3>1, <4>1, <4>2 DEF TypeOK
    <2>4. used' \in [User -> Nat]
      BY <1>0, <2>1 DEF TypeOK
    <2>5. QED
      BY <1>1, <2>1, <2>2, <2>3, <2>4
  <1>2. CASE ~(used[ask[r].user] < QuotaPerUser)
    BY <1>0, <1>2 DEF ReserveQuota, Slots, TypeOK
  <1>3. QED
    BY <1>1, <1>2

\* Every step takes a slot, gives one back, or leaves the quotas alone.
LEMMA QuotaSteps ==
  ASSUME TypeOK, [Next]_vars
  PROVE  \/ \E r \in Request : ReserveQuota(r)
         \/ \E r \in Request : Refund(r)
         \/ RefundBusyJob \/ RefundFailed
         \/ UNCHANGED <<ask, used, held>>
  BY DEF Next, vars, requestVars, EnqueueUserOsrmPrepare, Submit, FindActive,
     FindLatest, CountEnqueue, UndoEnqueue, CreateJob, Enqueue, CreateFails,
     Abort, PrepareOsrmTask, PopJob, AcquireLock, LockBusy, FailBusyJob,
     MarkRunning, RunPipeline, MarkSucceeded, PipelineFails, MarkFailed,
     ReleaseLock, FailJob, TaskRaises, Crash, NightlyStarts, NightlyEnds,
     LockExpires, NextHour

LEMMA NotHeldYet ==
  ASSUME HeldIsFree, NEW r \in Request, ReserveQuota(r)
  PROVE  r \notin held
  BY DEF HeldIsFree, ReserveQuota, Goto

LEMMA NeverOverchargedNext ==
  ASSUME TypeOK, HeldIsFree, NeverOvercharged, [Next]_vars
  PROVE  NeverOvercharged' /\ used' \in [User -> Nat] /\ held' \subseteq Request
  <1>1. ASSUME NEW r \in Request, ReserveQuota(r)
        PROVE  NeverOvercharged' /\ used' \in [User -> Nat]
               /\ held' \subseteq Request
    <2>1. r \notin held
      BY <1>1, NotHeldYet
    <2>2. ASSUME NEW u \in User
          PROVE  used'[u] <= Cardinality(Slots(u)')
      <3>1. /\ used[u] \in Nat /\ Cardinality(Slots(u)) \in Nat
            /\ used[u] <= Cardinality(Slots(u))
        BY SlotsFinite DEF NeverOvercharged, TypeOK
      <3>2. QED
        BY <1>1, <2>1, <3>1, ReserveEffect
    <2>3. QED
      BY <1>1, <2>1, <2>2, ReserveEffect DEF NeverOvercharged, TypeOK
  <1>2. ASSUME NEW r \in Request, GiveBack(r), ask' = ask
        PROVE  NeverOvercharged' /\ used' \in [User -> Nat]
               /\ held' \subseteq Request
    <2>1. ASSUME NEW u \in User
          PROVE  used'[u] <= Cardinality(Slots(u)')
      <3>1. /\ used[u] \in Nat /\ Cardinality(Slots(u)) \in Nat
            /\ used[u] <= Cardinality(Slots(u))
        BY SlotsFinite DEF NeverOvercharged, TypeOK
      <3>2. CASE u = ask[r].user
        <4>1. /\ used'[u] = IF used[u] = 0 THEN 0 ELSE used[u] - 1
              /\ \/ Cardinality(Slots(u)') = Cardinality(Slots(u)) - 1
                 \/ Cardinality(Slots(u)') = Cardinality(Slots(u))
              /\ Cardinality(Slots(u)') \in Nat
          BY <1>2, <3>2, GiveBackEffect
        <4>2. QED
          BY <3>1, <4>1
      <3>3. CASE u # ask[r].user
        BY <1>2, <3>1, <3>3, GiveBackEffect
      <3>4. QED
        BY <3>2, <3>3
    <2>2. QED
      BY <1>2, <2>1, GiveBackEffect DEF NeverOvercharged, TypeOK
  <1>3. CASE UNCHANGED <<ask, used, held>>
    BY <1>3 DEF NeverOvercharged, Slots, TypeOK
  <1>4. ASSUME NEW r \in Request, Refund(r)
        PROVE  GiveBack(r) /\ ask' = ask
    BY <1>4 DEF Refund
  <1>5. CASE RefundBusyJob \/ RefundFailed
    <2>1. job \in Request /\ GiveBack(job) /\ ask' = ask
      BY <1>5, JobIsRequest
         DEF RefundBusyJob, RefundFailed, RefundUserQuota, Work, requestVars
    <2>2. QED
      BY <2>1, <1>2
  <1>6. QED
    BY <1>1, <1>2, <1>3, <1>4, <1>5, QuotaSteps
-----------------------------------------------------------------------------
(* Rows and jobs                                                           *)

LEMMA AppendInQueue ==
  ASSUME TypeOK, NEW r \in Request, queue' = Append(queue, r)
  PROVE  /\ queue' \in Seq(Request)
         /\ \A q : InQueue(q)' <=> InQueue(q) \/ q = r
  <1>1. /\ Len(queue') = Len(queue) + 1
        /\ Len(queue) \in Nat
        /\ queue'[Len(queue) + 1] = r
        /\ \A i \in 1..Len(queue) : queue'[i] = queue[i]
    BY DEF TypeOK
  <1>2. QED
    BY <1>1 DEF InQueue, TypeOK

LEMMA PopInQueue ==
  ASSUME TypeOK, PopJob
  PROVE  /\ queue' \in Seq(Request) /\ job' \in Request
         /\ worker = "idle" /\ worker' = "popped"
         /\ \A q : InQueue(q) <=> InQueue(q)' \/ q = job'
  <1>1. /\ Len(queue) \in Nat \ {0}
        /\ queue' \in Seq(Request) /\ Len(queue') = Len(queue) - 1
        /\ job' = queue[1] /\ job' \in Request
        /\ \A i \in 1..Len(queue') : queue'[i] = queue[i + 1]
    BY DEF TypeOK, PopJob
  <1>2. ASSUME NEW q, InQueue(q)'
        PROVE  InQueue(q)
    <2>1. PICK i \in 1..Len(queue') : queue'[i] = q
      BY <1>2 DEF InQueue
    <2>2. i + 1 \in 1..Len(queue) /\ queue[i + 1] = q
      BY <1>1, <2>1
    <2>3. QED
      BY <2>2 DEF InQueue
  <1>3. ASSUME NEW q, InQueue(q), q # job'
        PROVE  InQueue(q)'
    <2>1. PICK i \in 1..Len(queue) : queue[i] = q
      BY <1>3 DEF InQueue
    <2>2. i - 1 \in 1..Len(queue') /\ queue'[i - 1] = q
      BY <1>1, <1>3, <2>1
    <2>3. QED
      BY <2>2 DEF InQueue
  <1>4. InQueue(job')
    BY <1>1 DEF InQueue
  <1>5. QED
    BY <1>1, <1>2, <1>3, <1>4 DEF PopJob

LEMMA SameQueue ==
  ASSUME queue' = queue
  PROVE  \A q : InQueue(q)' <=> InQueue(q)
  BY DEF InQueue

\* A step of a request makes its row, or pushes its job, or does neither.
LEMMA RequestEffect ==
  ASSUME TypeOK, NEW r \in Request, EnqueueUserOsrmPrepare(r)
  PROVE  /\ \/ status' = status
            \/ /\ pc[r] = "insert" /\ pc'[r] = "push"
               /\ status' = [status EXCEPT ![r] = "queued"]
         /\ pc'[r] = "push" => status'[r] = "queued"
         /\ \/ queue' = queue
            \/ pc[r] = "push" /\ queue' = Append(queue, r)
         /\ pc[r] = "push" /\ pc'[r] = "done" => queue' = Append(queue, r)
         /\ latest' \in [City -> Request \cup {NoJob}]
         /\ lost \subseteq lost' /\ lost' \subseteq Request
  <1>0. ask[r].city \in City
    BY AskType
  <1>1. /\ \/ status' = status
           \/ /\ pc[r] = "insert" /\ pc'[r] = "push"
              /\ status' = [status EXCEPT ![r] = "queued"]
        /\ pc'[r] = "push" => pc[r] = "insert" /\ status'[r] = "queued"
    BY DEF EnqueueUserOsrmPrepare, Submit, FindActive, FindLatest,
       CountEnqueue, UndoEnqueue, ReserveQuota, CreateJob, Enqueue,
       CreateFails, Refund, Abort, Goto, AfterRate, TypeOK
  <1>2. /\ \/ queue' = queue
           \/ pc[r] = "push" /\ queue' = Append(queue, r)
        /\ pc[r] = "push" /\ pc'[r] = "done" => queue' = Append(queue, r)
    BY DEF EnqueueUserOsrmPrepare, Submit, FindActive, FindLatest,
       CountEnqueue, UndoEnqueue, ReserveQuota, CreateJob, Enqueue,
       CreateFails, Refund, Abort, Goto, TypeOK
  <1>3. lost' = lost \/ lost' = lost \cup {r}
    BY DEF EnqueueUserOsrmPrepare, Submit, FindActive, FindLatest,
       CountEnqueue, UndoEnqueue, ReserveQuota, CreateJob, Enqueue,
       CreateFails, Refund, Abort
  <1>4. latest' = latest \/ latest' = [latest EXCEPT ![ask[r].city] = r]
    BY DEF EnqueueUserOsrmPrepare, Submit, FindActive, FindLatest,
       CountEnqueue, UndoEnqueue, ReserveQuota, CreateJob, Enqueue,
       CreateFails, Refund, Abort
  <1>5. QED
    BY <1>0, <1>1, <1>2, <1>3, <1>4 DEF TypeOK

\* The worker changes the row it works for only; no one else changes a row or
\* the queue.
LEMMA TaskEffect ==
  ASSUME TypeOK, [Next]_vars, \A r \in Request : ~EnqueueUserOsrmPrepare(r)
  PROVE  /\ \/ status' = status
            \/ /\ worker # "idle" /\ job \in Request
               /\ \E s \in {"running", "failed", "succeeded"} :
                    status' = [status EXCEPT ![job] = s]
         /\ queue' = queue \/ PopJob
         /\ lost \subseteq lost' /\ lost' \subseteq Request
  <1>1. queue' = queue \/ PopJob
    BY DEF Next, vars, PrepareOsrmTask, AcquireLock, LockBusy, FailBusyJob,
       RefundBusyJob, MarkRunning, RunPipeline, MarkSucceeded, PipelineFails,
       MarkFailed, RefundFailed, ReleaseLock, FailJob, RefundUserQuota,
       TaskRaises, Crash, NightlyStarts, NightlyEnds, LockExpires, NextHour
  <1>2. \/ status' = status
        \/ /\ worker # "idle"
           /\ \E s \in {"running", "failed", "succeeded"} :
                status' = [status EXCEPT ![job] = s]
    BY DEF Next, vars, PrepareOsrmTask, PopJob, AcquireLock, LockBusy,
       FailBusyJob, RefundBusyJob, MarkRunning, RunPipeline, MarkSucceeded,
       PipelineFails, MarkFailed, RefundFailed, ReleaseLock, FailJob,
       RefundUserQuota, TaskRaises, Crash, NightlyStarts, NightlyEnds,
       LockExpires, NextHour, Work
  <1>3. lost' = lost \/ (worker # "idle" /\ lost' = lost \cup {job})
    BY DEF Next, vars, PrepareOsrmTask, PopJob, AcquireLock, LockBusy,
       FailBusyJob, RefundBusyJob, MarkRunning, RunPipeline, MarkSucceeded,
       PipelineFails, MarkFailed, RefundFailed, ReleaseLock, FailJob,
       RefundUserQuota, TaskRaises, Crash, NightlyStarts, NightlyEnds,
       LockExpires, NextHour
  <1>4. QED
    BY <1>1, <1>2, <1>3, JobIsRequest DEF TypeOK

LEMMA JobHasRowNext ==
  ASSUME TypeOK, JobHasRow, [Next]_vars
  PROVE  JobHasRow'
  <1>1. CASE \E r \in Request : EnqueueUserOsrmPrepare(r)
    <2>1. PICK r \in Request : EnqueueUserOsrmPrepare(r)
      BY <1>1
    <2>2. \A q \in Request : status[q] # "absent" => status'[q] # "absent"
      BY <2>1, RequestEffect, StatusUpdate DEF Status
    <2>3. \A q : InQueue(q)' => InQueue(q) \/ (q = r /\ pc[r] = "push")
      BY <2>1, RequestEffect, SameQueue, AppendInQueue
    <2>4. /\ job' = job
          /\ pc'[r] = "push" => status'[r] = "queued"
          /\ \A q \in Request \ {r} : pc'[q] = pc[q]
      BY <2>1, RequestEffect, RequestFrame
    <2>5. \A q \in Request :
            status'[q] = status[q] \/ (q = r /\ pc'[q] = "push")
      <3>1. \/ status' = status
            \/ pc'[r] = "push" /\ status' = [status EXCEPT ![r] = "queued"]
        BY <2>1, RequestEffect
      <3>2. CASE status' = status
        BY <3>2
      <3>3. CASE pc'[r] = "push" /\ status' = [status EXCEPT ![r] = "queued"]
        BY <3>3 DEF TypeOK
      <3>4. QED
        BY <3>1, <3>2, <3>3
    <2>6. pc'[r] \in {"idle", "findActive", "findLatest", "rate", "undoRate",
                      "reserve", "insert"} =>
            pc[r] \in {"idle", "findActive", "findLatest", "rate", "undoRate",
                       "reserve", "insert"}
      BY <2>1 DEF EnqueueUserOsrmPrepare, Submit, FindActive, FindLatest,
         CountEnqueue, UndoEnqueue, ReserveQuota, CreateJob, Enqueue,
         CreateFails, Refund, Abort, Goto, AfterRate, TypeOK
    <2>7. QED
      BY <2>2, <2>3, <2>4, <2>5, <2>6 DEF JobHasRow
  <1>2. CASE \A r \in Request : ~EnqueueUserOsrmPrepare(r)
    <2>1. \A q \in Request : status[q] # "absent" => status'[q] # "absent"
      BY <1>2, TaskEffect, StatusUpdate DEF Status
    <2>2. pc' = pc
      BY <1>2, OtherFrame
    <2>3. \A q \in Request : InQueue(q)' \/ job' = q => InQueue(q) \/ job = q
      <3>1. CASE PopJob
        BY <3>1, PopInQueue
      <3>2. CASE ~PopJob
        <4>1. queue' = queue /\ job' \in {job, NoJob}
          BY <1>2, <3>2, TaskEffect
             DEF Next, vars, PrepareOsrmTask, AcquireLock, LockBusy,
             FailBusyJob, RefundBusyJob, MarkRunning, RunPipeline,
             MarkSucceeded, PipelineFails, MarkFailed, RefundFailed,
             ReleaseLock, FailJob, RefundUserQuota, TaskRaises, Crash,
             NightlyStarts, NightlyEnds, LockExpires, NextHour, Work,
             workerVars
        <4>2. QED
          BY <4>1, SameQueue, OsrmAssumption
      <3>3. QED
        BY <3>1, <3>2
    <2>4. \A q \in Request : status'[q] = status[q] \/ status[q] # "absent"
      <3>1. worker # "idle" /\ job \in Request => status[job] # "absent"
        BY DEF JobHasRow
      <3>2. QED
        BY <1>2, <3>1, TaskEffect, StatusUpdate DEF Status
    <2>5. QED
      BY <2>1, <2>2, <2>3, <2>4 DEF JobHasRow
  <1>3. QED
    BY <1>1, <1>2
-----------------------------------------------------------------------------
(* The counters of the hours                                               *)

LEMMA CountedFinite ==
  ASSUME NEW u, NEW h
  PROVE  /\ IsFiniteSet(Counted(u, h)) /\ Cardinality(Counted(u, h)) \in Nat
         /\ Admitted(u, h) \subseteq Counted(u, h)
         /\ Cardinality(Admitted(u, h)) \in Nat
         /\ Cardinality(Admitted(u, h)) <= Cardinality(Counted(u, h))
  <1>1. Counted(u, h) \in SUBSET Request /\ Admitted(u, h) \in SUBSET Counted(u, h)
    BY DEF Counted, Admitted
  <1>2. IsFiniteSet(Counted(u, h)) /\ IsFiniteSet(Admitted(u, h))
    BY <1>1, FS_Subset, OsrmAssumption
  <1>3. QED
    BY <1>1, <1>2, FS_Subset, FS_CardinalityType

LEMMA FewerAdmitted ==
  ASSUME NEW u \in User, NEW h \in 0..MaxHour,
         HourIsCounted, EnqueuePerHour > 0,
         Admitted(u, h)' \subseteq Admitted(u, h)
  PROVE  Cardinality(Admitted(u, h)') <= EnqueuePerHour
  <1>1. /\ IsFiniteSet(Admitted(u, h))
        /\ Cardinality(Admitted(u, h)) <= EnqueuePerHour
        /\ Cardinality(Admitted(u, h)) \in Nat
    BY CountedFinite, FS_Subset DEF HourIsCounted
  <1>2. /\ Cardinality(Admitted(u, h)') <= Cardinality(Admitted(u, h))
        /\ Cardinality(Admitted(u, h)') \in Nat
    BY <1>1, FS_Subset, FS_CardinalityType
  <1>3. QED
    BY <1>1, <1>2, OsrmAssumption

LEMMA CountEnqueueCounts ==
  ASSUME TypeOK, HourIsCounted, JobHasRow, NEW r \in Request, CountEnqueue(r)
  PROVE  /\ enqueues' \in [User -> [0..MaxHour -> Nat]]
         /\ slot' \in [Request -> 0..NoHour]
         /\ \A u \in User, h \in 0..MaxHour :
              /\ enqueues'[u][h] = Cardinality(Counted(u, h)')
              /\ EnqueuePerHour > 0 =>
                   Cardinality(Admitted(u, h)') <= EnqueuePerHour
         /\ slot'[r] # NoHour
         /\ \A q \in Request \ {r} : slot'[q] = slot[q]
  <1>1. PICK me \in User, now \in 0..MaxHour :
          me = ask[r].user /\ now = hour
    BY AskType DEF TypeOK
  <1>2. PICK n \in Nat : n = enqueues[me][now] + 1
    <2>1. enqueues[me][now] \in Nat
      BY DEF TypeOK
    <2>2. QED
      BY <2>1
  <1>3. /\ ask' = ask /\ status' = status /\ slot[r] = NoHour
        /\ status[r] = "absent"
        /\ now # NoHour /\ now \in 0..NoHour /\ NoHour \notin 0..MaxHour
    BY <1>1, OsrmAssumption
       DEF CountEnqueue, HourIsCounted, JobHasRow, Goto, NoHour
  <1>4. /\ slot' = [slot EXCEPT ![r] = now]
        /\ enqueues' = [enqueues EXCEPT ![me][now] = n]
        /\ pc' = [pc EXCEPT ![r] =
                   IF n > EnqueuePerHour THEN "undoRate" ELSE AfterRate(r)]
    BY <1>1, <1>2 DEF CountEnqueue, Goto
  <1>5. /\ enqueues' \in [User -> [0..MaxHour -> Nat]]
        /\ enqueues'[me][now] = n
        /\ \A u \in User, h \in 0..MaxHour :
             u # me \/ h # now => enqueues'[u][h] = enqueues[u][h]
    BY <1>4 DEF TypeOK
  <1>6. /\ slot' \in [Request -> 0..NoHour]
        /\ slot'[r] = now
        /\ \A q \in Request \ {r} : slot'[q] = slot[q]
    BY <1>3, <1>4 DEF TypeOK
  <1>7. /\ Counted(me, now)' = Counted(me, now) \cup {r}
        /\ r \notin Counted(me, now)
        /\ \A u \in User, h \in 0..MaxHour :
             u # me \/ h # now => Counted(u, h)' = Counted(u, h)
    <2>1. r \notin Counted(me, now)
      BY <1>3 DEF Counted
    <2>2. Counted(me, now)' = Counted(me, now) \cup {r}
      BY <1>1, <1>3, <1>6 DEF Counted
    <2>3. ASSUME NEW u \in User, NEW h \in 0..MaxHour, u # me \/ h # now
          PROVE  Counted(u, h)' = Counted(u, h)
      BY <1>1, <1>3, <1>6, <2>3 DEF Counted
    <2>4. QED
      BY <2>1, <2>2, <2>3
  <1>8. Cardinality(Counted(me, now)') = n
    <2>1. enqueues[me][now] = Cardinality(Counted(me, now))
      BY DEF HourIsCounted
    <2>2. Cardinality(Counted(me, now) \cup {r}) = Cardinality(Counted(me, now)) + 1
      BY <1>7, CountedFinite, FS_AddElement
    <2>3. QED
      BY <1>2, <1>7, <2>1, <2>2
  <1>9. ASSUME NEW u \in User, NEW h \in 0..MaxHour, EnqueuePerHour > 0
        PROVE  Cardinality(Admitted(u, h)') <= EnqueuePerHour
    <2>1. CASE u = me /\ h = now /\ n <= EnqueuePerHour
      <3>1. Admitted(u, h)' \in SUBSET Counted(u, h)'
        BY DEF Admitted
      <3>2. IsFiniteSet(Counted(u, h)')
        BY <1>7, <2>1, CountedFinite, FS_AddElement
      <3>3. /\ Cardinality(Admitted(u, h)') <= n
            /\ Cardinality(Admitted(u, h)') \in Nat
        BY <1>8, <2>1, <3>1, <3>2, FS_Subset, FS_CardinalityType
      <3>4. QED
        BY <2>1, <3>3, OsrmAssumption
    <2>2. CASE u # me \/ h # now \/ n > EnqueuePerHour
      <3>1. \A q \in Request \ {r} : pc'[q] = pc[q]
        BY <1>4 DEF TypeOK
      <3>2. r \notin Admitted(u, h)'
        <4>1. CASE u # me \/ h # now
          BY <1>1, <1>3, <1>6, <4>1 DEF Admitted, Counted
        <4>2. CASE n > EnqueuePerHour
          <5>1. pc'[r] = "undoRate"
            BY <1>4, <4>2 DEF TypeOK
          <5>2. QED
            BY <1>3, <5>1 DEF Admitted
        <4>3. QED
          BY <2>2, <4>1, <4>2
      <3>3. Admitted(u, h)' \subseteq Admitted(u, h)
        BY <1>3, <1>6, <3>1, <3>2 DEF Admitted, Counted
      <3>4. QED
        BY <1>9, <3>3, FewerAdmitted
    <2>3. QED
      BY <2>1, <2>2, OsrmAssumption
  <1>10. QED
    <2>1. ASSUME NEW u \in User, NEW h \in 0..MaxHour
          PROVE  enqueues'[u][h] = Cardinality(Counted(u, h)')
      BY <1>5, <1>7, <1>8 DEF HourIsCounted
    <2>2. QED
      BY <1>3, <1>5, <1>6, <1>9, <2>1

LEMMA UndoEnqueueCounts ==
  ASSUME TypeOK, HourIsCounted, NEW r \in Request, UndoEnqueue(r)
  PROVE  /\ enqueues' \in [User -> [0..MaxHour -> Nat]]
         /\ slot' \in [Request -> 0..NoHour]
         /\ \A u \in User, h \in 0..MaxHour :
              /\ enqueues'[u][h] = Cardinality(Counted(u, h)')
              /\ EnqueuePerHour > 0 =>
                   Cardinality(Admitted(u, h)') <= EnqueuePerHour
         /\ pc'[r] = "refused"
         /\ \A q \in Request \ {r} : slot'[q] = slot[q]
  <1>1. PICK me \in User, was \in 0..MaxHour :
          me = ask[r].user /\ was = slot[r]
    BY AskType, OsrmAssumption
       DEF TypeOK, HourIsCounted, UndoEnqueue, Goto, NoHour
  <1>2. /\ ask' = ask /\ status' = status
        /\ pc' = [pc EXCEPT ![r] = "refused"]
        /\ slot' = [slot EXCEPT ![r] = NoHour]
        /\ enqueues' = [enqueues EXCEPT ![me][was] = enqueues[me][was] - 1]
        /\ NoHour \in 0..NoHour /\ NoHour \notin 0..MaxHour
    BY <1>1, OsrmAssumption DEF UndoEnqueue, Goto, NoHour
  <1>3. /\ slot' \in [Request -> 0..NoHour]
        /\ slot'[r] = NoHour /\ pc'[r] = "refused"
        /\ \A q \in Request \ {r} : slot'[q] = slot[q] /\ pc'[q] = pc[q]
    BY <1>2 DEF TypeOK
  <1>4. /\ Counted(me, was)' = Counted(me, was) \ {r}
        /\ r \in Counted(me, was)
        /\ \A u \in User, h \in 0..MaxHour :
             u # me \/ h # was => Counted(u, h)' = Counted(u, h)
    BY <1>1, <1>2, <1>3 DEF Counted
  <1>5. /\ Cardinality(Counted(me, was)') = enqueues[me][was] - 1
        /\ Cardinality(Counted(me, was)') \in Nat
    BY <1>4, CountedFinite, FS_RemoveElement, FS_CardinalityType
       DEF HourIsCounted
  <1>6. /\ enqueues' \in [User -> [0..MaxHour -> Nat]]
        /\ enqueues'[me][was] = enqueues[me][was] - 1
        /\ \A u \in User, h \in 0..MaxHour :
             u # me \/ h # was => enqueues'[u][h] = enqueues[u][h]
    BY <1>2, <1>5 DEF TypeOK
  <1>7. ASSUME NEW u \in User, NEW h \in 0..MaxHour
        PROVE  Admitted(u, h)' \subseteq Admitted(u, h)
    BY <1>2, <1>3 DEF Admitted, Counted
  <1>8. ASSUME NEW u \in User, NEW h \in 0..MaxHour
        PROVE  enqueues'[u][h] = Cardinality(Counted(u, h)')
    BY <1>4, <1>5, <1>6 DEF HourIsCounted
  <1>9. QED
    BY <1>3, <1>6, <1>7, <1>8, FewerAdmitted
LEMMA HourIsCountedNext ==
  ASSUME TypeOK, JobHasRow, HourIsCounted, [Next]_vars
  PROVE  /\ HourIsCounted'
         /\ enqueues' \in [User -> [0..MaxHour -> Nat]]
         /\ slot' \in [Request -> 0..NoHour]
  <1>1. ASSUME NEW r \in Request, CountEnqueue(r)
        PROVE  /\ HourIsCounted'
               /\ enqueues' \in [User -> [0..MaxHour -> Nat]]
               /\ slot' \in [Request -> 0..NoHour]
    <2>1. /\ pc'[r] \notin {"idle", "findActive", "findLatest", "rate"}
          /\ \A q \in Request \ {r} : pc'[q] = pc[q]
      BY <1>1, AskType DEF CountEnqueue, Goto, AfterRate, TypeOK
    <2>2. QED
      BY <1>1, <2>1, CountEnqueueCounts DEF HourIsCounted
  <1>2. ASSUME NEW r \in Request, UndoEnqueue(r)
        PROVE  /\ HourIsCounted'
               /\ enqueues' \in [User -> [0..MaxHour -> Nat]]
               /\ slot' \in [Request -> 0..NoHour]
    <2>1. \A q \in Request \ {r} : pc'[q] = pc[q]
      BY <1>2 DEF UndoEnqueue, Goto, TypeOK
    <2>2. QED
      BY <1>2, <2>1, UndoEnqueueCounts DEF HourIsCounted
  <1>3. CASE \A r \in Request : ~CountEnqueue(r) /\ ~UndoEnqueue(r)
    <2>1. UNCHANGED <<ask, slot, enqueues>>
      <3>1. CASE \E r \in Request : EnqueueUserOsrmPrepare(r)
        BY <1>3, <3>1 DEF EnqueueUserOsrmPrepare, Submit, FindActive,
           FindLatest, ReserveQuota, CreateJob, Enqueue, CreateFails, Refund,
           Abort
      <3>2. QED
        BY <3>1, OtherFrame
    <2>2. \A q \in Request :
            /\ pc'[q] \in {"idle", "findActive", "findLatest", "rate"} =>
                 pc[q] \in {"idle", "findActive", "findLatest", "rate"}
            /\ pc'[q] = "undoRate" => pc[q] = "undoRate"
            /\ pc'[q] \in {"reserve", "insert", "push"} =>
                 \/ pc[q] \in {"reserve", "insert", "push"}
                 \/ pc[q] = "findLatest"
            /\ status'[q] # status[q] => pc[q] = "insert" \/ status[q] # "absent"
      <3>1. CASE \E r \in Request : EnqueueUserOsrmPrepare(r)
        <4>1. PICK r \in Request : EnqueueUserOsrmPrepare(r)
          BY <3>1
        <4>2. /\ \A q \in Request \ {r} : pc'[q] = pc[q] /\ status'[q] = status[q]
              /\ status'[r] # status[r] => pc[r] = "insert"
          BY <4>1, RequestFrame, RequestEffect DEF TypeOK
        <4>3. /\ pc'[r] \in {"idle", "findActive", "findLatest", "rate"} =>
                   pc[r] \in {"idle", "findActive", "findLatest", "rate"}
              /\ pc'[r] = "undoRate" => pc[r] = "undoRate"
              /\ pc'[r] \in {"reserve", "insert", "push"} =>
                   \/ pc[r] \in {"reserve", "insert", "push"}
                   \/ pc[r] = "findLatest"
          BY <1>3, <4>1, AskType DEF EnqueueUserOsrmPrepare, Submit,
             FindActive, FindLatest, ReserveQuota, CreateJob, Enqueue,
             CreateFails, Refund, Abort, Goto, AfterRate, TypeOK
        <4>4. QED
          BY <4>2, <4>3
      <3>2. CASE \A r \in Request : ~EnqueueUserOsrmPrepare(r)
        <4>1. pc' = pc
          BY <3>2, OtherFrame
        <4>2. job \in Request => status[job] # "absent"
          BY DEF JobHasRow
        <4>3. \A q \in Request : status'[q] # status[q] => status[q] # "absent"
          BY <3>2, <4>2, TaskEffect DEF TypeOK
        <4>4. QED
          BY <4>1, <4>3
      <3>3. QED
        BY <3>1, <3>2
    <2>3. ASSUME NEW u \in User, NEW h \in 0..MaxHour
          PROVE  /\ Counted(u, h)' = Counted(u, h)
                 /\ Admitted(u, h)' \subseteq Admitted(u, h)
      <3>1. Counted(u, h)' = Counted(u, h)
        BY <2>1 DEF Counted
      <3>2. ASSUME NEW q \in Counted(u, h), q \notin Admitted(u, h)
            PROVE  q \notin Admitted(u, h)'
        <4>1. /\ q \in Request /\ slot[q] = h /\ h # NoHour
              /\ status[q] = "absent"
              /\ pc[q] \notin {"reserve", "insert", "push"}
          BY <3>2, OsrmAssumption DEF Admitted, Counted, NoHour
        <4>2. pc[q] # "findLatest"
          BY <4>1 DEF HourIsCounted
        <4>3. QED
          BY <2>2, <4>1, <4>2 DEF Admitted
      <3>3. QED
        BY <3>1, <3>2 DEF Admitted
    <2>4. QED
      BY <2>1, <2>2, <2>3, FewerAdmitted DEF HourIsCounted, TypeOK
  <1>4. QED
    BY <1>1, <1>2, <1>3

-----------------------------------------------------------------------------
(* Types and slots                                                         *)

LEMMA TypeNext ==
  ASSUME TypeOK, JobHasRow, HeldIsFree, HourIsCounted, NeverOvercharged,
         [Next]_vars
  PROVE  TypeOK'
  <1>1. /\ used' \in [User -> Nat] /\ held' \subseteq Request
        /\ enqueues' \in [User -> [0..MaxHour -> Nat]]
        /\ slot' \in [Request -> 0..NoHour]
    BY NeverOverchargedNext, HourIsCountedNext
  <1>2. CASE \E r \in Request : EnqueueUserOsrmPrepare(r)
    <2>1. PICK r \in Request : EnqueueUserOsrmPrepare(r)
      BY <1>2
    <2>2. status' \in [Request -> Status] /\ queue' \in Seq(Request)
      BY <2>1, RequestEffect, StatusUpdate, AppendInQueue DEF TypeOK, Status
    <2>3. QED
      BY <1>1, <2>1, <2>2, RequestEffect, RequestFrame, SearchStep DEF TypeOK
  <1>3. CASE \A r \in Request : ~EnqueueUserOsrmPrepare(r)
    <2>1. status' \in [Request -> Status] /\ queue' \in Seq(Request)
      BY <1>3, TaskEffect, StatusUpdate, PopInQueue DEF TypeOK, Status
    <2>2. UNCHANGED <<ask, seen, pc, latest>> /\ lost' \subseteq Request
      BY <1>3, OtherFrame, TaskEffect
    <2>3. /\ hour' \in 0..MaxHour
          /\ nightly' \in {"idle", "refreshing"}
          /\ lock' \in BOOLEAN
      <3>1. hour' = hour \/ (hour < MaxHour /\ hour' = hour + 1)
        BY <1>3
         DEF Next, vars, requestVars, PrepareOsrmTask, PopJob, AcquireLock,
             LockBusy, FailBusyJob, RefundBusyJob, MarkRunning, RunPipeline,
             MarkSucceeded, PipelineFails, MarkFailed, RefundFailed, ReleaseLock,
             FailJob, RefundUserQuota, TaskRaises, Crash, NightlyStarts,
             NightlyEnds, LockExpires, NextHour
      <3>2. nightly' = nightly \/ nightly' \in {"idle", "refreshing"}
        BY <1>3
         DEF Next, vars, requestVars, PrepareOsrmTask, PopJob, AcquireLock,
             LockBusy, FailBusyJob, RefundBusyJob, MarkRunning, RunPipeline,
             MarkSucceeded, PipelineFails, MarkFailed, RefundFailed, ReleaseLock,
             FailJob, RefundUserQuota, TaskRaises, Crash, NightlyStarts,
             NightlyEnds, LockExpires, NextHour
      <3>3. lock' = lock \/ lock' \in BOOLEAN
        BY <1>3
         DEF Next, vars, requestVars, PrepareOsrmTask, PopJob, AcquireLock,
             LockBusy, FailBusyJob, RefundBusyJob, MarkRunning, RunPipeline,
             MarkSucceeded, PipelineFails, MarkFailed, RefundFailed, ReleaseLock,
             FailJob, RefundUserQuota, TaskRaises, Crash, NightlyStarts,
             NightlyEnds, LockExpires, NextHour
      <3>4. QED
        BY <3>1, <3>2, <3>3, OsrmAssumption DEF TypeOK
    <2>4. ready' \subseteq City
      <3>1. worker # "idle" => ask[job].city \in City
        BY JobIsRequest, AskType
      <3>2. QED
        BY <1>3, <3>1
           DEF Next, vars, requestVars, PrepareOsrmTask, PopJob, AcquireLock,
           LockBusy, FailBusyJob, RefundBusyJob, MarkRunning, RunPipeline,
           MarkSucceeded, PipelineFails, MarkFailed, RefundFailed,
           ReleaseLock, FailJob, RefundUserQuota, TaskRaises, Crash,
           NightlyStarts, NightlyEnds, LockExpires, NextHour, Work, TypeOK
    <2>5. /\ worker' \in TaskStep /\ job' \in Request \cup {NoJob}
          /\ worker' = "idle" <=> job' = NoJob
      BY <1>3, WorkerFrame
    <2>6. QED
      BY <1>1, <2>1, <2>2, <2>3, <2>4, <2>5 DEF TypeOK
  <1>4. QED
    BY <1>2, <1>3
LEMMA HeldIsFreeNext ==
  ASSUME TypeOK, HeldIsFree, [Next]_vars
  PROVE  HeldIsFree'
  <1>1. CASE \E r \in Request : EnqueueUserOsrmPrepare(r)
    <2>1. PICK r \in Request : EnqueueUserOsrmPrepare(r)
      BY <1>1
    <2>2. /\ ask' = ask /\ ask[r].unlimited \in BOOLEAN
          /\ \A q \in Request \ {r} : pc'[q] = pc[q]
      BY <2>1, RequestFrame, AskType
    <2>3. /\ held' = held \/ ReserveQuota(r) \/ Refund(r)
          /\ pc'[r] = "reserve" => ~ask[r].unlimited
          /\ pc[r] \in {"insert", "push", "refund", "done", "error"} =>
               pc'[r] \in {"insert", "push", "refund", "done", "error"}
      BY <2>1, <2>2 DEF EnqueueUserOsrmPrepare, Submit, FindActive, FindLatest,
         CountEnqueue, UndoEnqueue, CreateJob, Enqueue, CreateFails, Refund,
         ReserveQuota, Abort, Goto, AfterRate, TypeOK
    <2>4. /\ held' \subseteq held \cup {r}
          /\ r \in held' => r \in held \/ (pc[r] = "reserve" /\ pc'[r] = "insert")
      BY <2>3 DEF ReserveQuota, Refund, GiveBack, Goto, TypeOK
    <2>5. QED
      BY <2>2, <2>3, <2>4 DEF HeldIsFree, TypeOK
  <1>2. CASE \A r \in Request : ~EnqueueUserOsrmPrepare(r)
    <2>1. UNCHANGED <<ask, pc>>
      BY <1>2, OtherFrame
    <2>2. held' \subseteq held
      BY <1>2, QuotaSteps DEF EnqueueUserOsrmPrepare, RefundBusyJob,
         RefundFailed, RefundUserQuota, GiveBack
    <2>3. QED
      BY <2>1, <2>2 DEF HeldIsFree
  <1>3. QED
    BY <1>1, <1>2

LEMMA SlotIsJustifiedNext ==
  ASSUME TypeOK, HeldIsFree, SlotIsJustified, [Next]_vars
  PROVE  SlotIsJustified'
  <1>1. CASE \E r \in Request : EnqueueUserOsrmPrepare(r)
    <2>1. PICK r \in Request : EnqueueUserOsrmPrepare(r)
      BY <1>1
    <2>2. /\ \A q \in Request \ {r} : pc'[q] = pc[q] /\ status'[q] = status[q]
          /\ UNCHANGED <<worker, job>>
          /\ \A q : InQueue(q) => InQueue(q)'
          /\ lost \subseteq lost'
      BY <2>1, RequestFrame, RequestEffect, SameQueue, AppendInQueue DEF TypeOK
    <2>3. /\ held' \subseteq held \cup {r}
          /\ r \in held' =>
               \/ pc'[r] \in {"insert", "push", "refund"}
               \/ pc'[r] = "done" /\ pc[r] = "push"
               \/ r \in lost'
               \/ r \in held /\ pc[r] \notin {"insert", "push", "refund"}
      <3>1. r \in held => ~ask[r].unlimited
        BY DEF HeldIsFree
      <3>2. CASE r \in held
        BY <2>1, <3>1, <3>2
           DEF EnqueueUserOsrmPrepare, Submit, FindActive, FindLatest,
           CountEnqueue, UndoEnqueue, CreateJob, Enqueue, CreateFails, Refund,
           ReserveQuota, GiveBack, Abort, Goto, TypeOK
      <3>3. CASE r \notin held
        BY <2>1, <3>3
           DEF EnqueueUserOsrmPrepare, Submit, FindActive, FindLatest,
           CountEnqueue, UndoEnqueue, CreateJob, Enqueue, CreateFails, Refund,
           ReserveQuota, GiveBack, Abort, Goto, TypeOK
      <3>4. QED
        BY <3>2, <3>3
    <2>4. pc[r] # "done" /\ pc[r] # "error"
      BY <2>1, RequestFrame
    <2>5. pc[r] = "push" /\ pc'[r] = "done" => InQueue(r)'
      BY <2>1, RequestEffect, AppendInQueue
    <2>6. ASSUME NEW q \in held', q # r
          PROVE  \/ pc'[q] \in {"insert", "push", "refund"}
                 \/ /\ pc'[q] = "done"
                    /\ InQueue(q)' \/ status'[q] = "succeeded"
                       \/ (job' = q /\ worker' # "unlocking")
                 \/ q \in lost'
      BY <2>2, <2>3, <2>6 DEF SlotIsJustified, TypeOK
    <2>7. r \in held' => \/ pc'[r] \in {"insert", "push", "refund"}
                         \/ pc'[r] = "done" /\ InQueue(r)'
                         \/ r \in lost'
      BY <2>2, <2>3, <2>4, <2>5 DEF SlotIsJustified
    <2>8. QED
      BY <2>6, <2>7 DEF SlotIsJustified
  <1>2. CASE \A r \in Request : ~EnqueueUserOsrmPrepare(r)
    <2>1. pc' = pc /\ held' \subseteq held /\ lost \subseteq lost'
      BY <1>2, OtherFrame, TaskEffect, QuotaSteps
         DEF EnqueueUserOsrmPrepare, RefundBusyJob, RefundFailed,
         RefundUserQuota, GiveBack
    <2>2. ASSUME NEW q \in held', q # job, q # job'
          PROVE  (InQueue(q) => InQueue(q)') /\ status'[q] = status[q]
      <3>1. status'[q] = status[q]
        BY <1>2, <2>1, <2>2, TaskEffect DEF TypeOK
      <3>2. QED
        BY <1>2, <2>2, <3>1, TaskEffect, SameQueue, PopInQueue
    <2>3. ASSUME job' \in held', job' # NoJob, job' # job
          PROVE  worker' # "unlocking"
      BY <1>2, <2>3, WorkerFrame, OsrmAssumption
         DEF Next, PrepareOsrmTask, PopJob, AcquireLock, LockBusy,
         FailBusyJob, RefundBusyJob, MarkRunning, RunPipeline, MarkSucceeded,
         PipelineFails, MarkFailed, RefundFailed, ReleaseLock, FailJob,
         RefundUserQuota, TaskRaises, Crash, NightlyStarts, NightlyEnds,
         LockExpires, NextHour, Work, vars, workerVars
    <2>4. ASSUME job \in held', worker # "idle"
          PROVE  \/ job' = job /\ worker' # "unlocking"
                 \/ job \in lost'
                 \/ status'[job] = "succeeded"
                 \/ worker = "unlocking" /\ status' = status /\ queue' = queue
                 \/ UNCHANGED <<worker, job, status, queue>>
      <3>1. job \in Request /\ ~ask[job].unlimited
        BY <2>1, <2>4, JobIsRequest DEF HeldIsFree
      <3>2. QED
        BY <1>2, <2>4, <3>1
           DEF Next, PrepareOsrmTask, PopJob, AcquireLock, LockBusy,
           FailBusyJob, RefundBusyJob, MarkRunning, RunPipeline,
           MarkSucceeded, PipelineFails, MarkFailed, RefundFailed,
           ReleaseLock, FailJob, RefundUserQuota, GiveBack, TaskRaises, Crash,
           NightlyStarts, NightlyEnds, LockExpires, NextHour, Work, vars,
           workerVars, TypeOK
    <2>5. QED
      BY <2>1, <2>2, <2>3, <2>4, SameQueue, OsrmAssumption
         DEF SlotIsJustified, TypeOK
  <1>3. QED
    BY <1>1, <1>2
-----------------------------------------------------------------------------
(* Rows and their owners                                                   *)

LEMMA ActiveJobHasOwnerNext ==
  ASSUME TypeOK, ActiveJobHasOwner, [Next]_vars
  PROVE  ActiveJobHasOwner'
  <1>1. CASE \E r \in Request : EnqueueUserOsrmPrepare(r)
    <2>1. PICK r \in Request : EnqueueUserOsrmPrepare(r)
      BY <1>1
    <2>2. /\ \A q \in Request \ {r} : pc'[q] = pc[q] /\ status'[q] = status[q]
          /\ UNCHANGED <<worker, job>>
          /\ \A q : InQueue(q) => InQueue(q)'
          /\ lost \subseteq lost'
      BY <2>1, RequestFrame, RequestEffect, SameQueue, AppendInQueue DEF TypeOK
    <2>3. \/ status' = status
          \/ pc'[r] = "push"
      BY <2>1, RequestEffect
    <2>4. pc[r] \in {"push", "refund", "error"} =>
            pc'[r] \in {"refund", "error"} \/ InQueue(r)'
      <3>1. pc[r] \in {"push", "refund", "error"} =>
              \/ pc'[r] \in {"refund", "error"}
              \/ pc[r] = "push" /\ pc'[r] = "done"
        BY <2>1, AskType
           DEF EnqueueUserOsrmPrepare, Submit, FindActive, FindLatest,
           CountEnqueue, UndoEnqueue, CreateJob, Enqueue, CreateFails, Refund,
           ReserveQuota, Abort, Goto, TypeOK
      <3>2. QED
        BY <2>1, <3>1, RequestEffect, AppendInQueue
    <2>5. QED
      BY <2>2, <2>3, <2>4 DEF ActiveJobHasOwner, Active
  <1>2. CASE \A r \in Request : ~EnqueueUserOsrmPrepare(r)
    <2>1. pc' = pc /\ lost \subseteq lost'
      BY <1>2, OtherFrame, TaskEffect
    <2>2. ASSUME NEW q \in Request, q # job, q # job'
          PROVE  (InQueue(q) => InQueue(q)') /\ status'[q] = status[q]
      <3>1. status'[q] = status[q]
        BY <1>2, <2>2, TaskEffect DEF TypeOK
      <3>2. QED
        BY <1>2, <2>2, <3>1, TaskEffect, SameQueue, PopInQueue
    <2>3. ASSUME job' # NoJob, job' # job
          PROVE  worker' = "popped"
      BY <1>2, <2>3, OsrmAssumption
         DEF Next, PrepareOsrmTask, PopJob, AcquireLock, LockBusy,
         FailBusyJob, RefundBusyJob, MarkRunning, RunPipeline, MarkSucceeded,
         PipelineFails, MarkFailed, RefundFailed, ReleaseLock, FailJob,
         RefundUserQuota, TaskRaises, Crash, NightlyStarts, NightlyEnds,
         LockExpires, NextHour, Work, vars, workerVars
    <2>4. ASSUME worker # "idle"
          PROVE  \/ /\ job' = job
                    /\ worker' \notin {"refunding", "refundingBusy", "unlocking"}
                 \/ job \in lost'
                 \/ status'[job] \in {"failed", "succeeded"}
                 \/ /\ worker \in {"refunding", "refundingBusy", "unlocking"}
                    /\ status' = status /\ queue' = queue
                 \/ UNCHANGED <<worker, job, status, queue>>
      <3>1. job \in Request
        BY <2>4, JobIsRequest
      <3>2. QED
        BY <1>2, <2>4, <3>1
           DEF Next, PrepareOsrmTask, PopJob, AcquireLock, LockBusy,
           FailBusyJob, RefundBusyJob, MarkRunning, RunPipeline,
           MarkSucceeded, PipelineFails, MarkFailed, RefundFailed,
           ReleaseLock, FailJob, RefundUserQuota, TaskRaises, Crash,
           NightlyStarts, NightlyEnds, LockExpires, NextHour, Work, vars,
           workerVars, TypeOK
    <2>5. QED
      BY <2>1, <2>2, <2>3, <2>4, SameQueue, OsrmAssumption
         DEF ActiveJobHasOwner, Active, TypeOK
  <1>3. QED
    BY <1>1, <1>2

-----------------------------------------------------------------------------
(* The invariant of Spec                                                   *)

LEMMA InQueueInit == Init => \A q : ~InQueue(q)
  BY DEF Init, InQueue

LEMMA IInvInit == Init => IInv
  <1> SUFFICES ASSUME Init PROVE IInv
    OBVIOUS
  <1>1. TypeOK
    BY TypeInit
  <1>2. JobHasRow /\ HeldIsFree /\ SlotIsJustified /\ ActiveJobHasOwner
    BY InQueueInit, OsrmAssumption
       DEF Init, JobHasRow, HeldIsFree, SlotIsJustified, ActiveJobHasOwner,
           Active
  <1>3. NeverOvercharged
    <2>1. \A u : Slots(u) = {}
      BY DEF Init, Slots
    <2>2. SUFFICES ASSUME NEW u \in User
                   PROVE  used[u] <= Cardinality(Slots(u))
      BY DEF NeverOvercharged
    <2>3. Cardinality(Slots(u)) = 0
      BY <2>1, FS_EmptySet
    <2>4. used[u] = 0
      BY DEF Init
    <2>5. QED
      BY <2>3, <2>4
  <1>4. HourIsCounted
    <2>1. ASSUME NEW u, NEW h \in 0..MaxHour
          PROVE  Counted(u, h) = {} /\ Admitted(u, h) = {}
      BY OsrmAssumption DEF Init, Counted, Admitted, NoHour
    <2>2. /\ \A r \in Request : pc[r] = "idle" /\ slot[r] = NoHour
          /\ \A u \in User, h \in 0..MaxHour : enqueues[u][h] = 0
      BY DEF Init
    <2>3. Cardinality({}) = 0
      BY FS_EmptySet
    <2>4. ASSUME NEW u \in User, NEW h \in 0..MaxHour
          PROVE  /\ enqueues[u][h] = Cardinality(Counted(u, h))
                 /\ EnqueuePerHour > 0 =>
                      Cardinality(Admitted(u, h)) <= EnqueuePerHour
      <3>1. Counted(u, h) = {} /\ Admitted(u, h) = {}
        BY <2>1
      <3>2. QED
        BY <2>2, <2>3, <3>1, OsrmAssumption
    <2>5. QED
      BY <2>2, <2>4 DEF HourIsCounted
  <1>5. QED
    BY <1>1, <1>2, <1>3, <1>4 DEF IInv

LEMMA IInvNext == IInv /\ [Next]_vars => IInv'
  BY TypeNext, JobHasRowNext, HeldIsFreeNext, HourIsCountedNext,
     SlotIsJustifiedNext, NeverOverchargedNext, ActiveJobHasOwnerNext DEF IInv

(***************************************************************************)
(* The inductive invariant holds for any number of requests, users, cities *)
(* and hours, whatever throws or dies.                                     *)
(***************************************************************************)
THEOREM Invariance == Spec => []IInv
  BY IInvInit, IInvNext, PTL DEF Spec

(***************************************************************************)
(* Every variable keeps its type; no counter goes below zero, although     *)
(* users.osrm_prepare_quota_used is refunded from two places.              *)
(***************************************************************************)
THEOREM TypeCorrect == Spec => []TypeOK
  <1>1. IInv => TypeOK
    BY DEF IInv
  <1>2. QED
    BY <1>1, Invariance, PTL

(***************************************************************************)
(* A slot that is neither under way nor spent on a prepared city was given *)
(* back, by enqueueUserOsrmPrepare or prepare_osrm_task, unless the        *)
(* request or the job was cut short.                                       *)
(***************************************************************************)
THEOREM SlotsAreJustified == Spec => []SlotIsJustified
  <1>1. IInv => SlotIsJustified
    BY DEF IInv
  <1>2. QED
    BY <1>1, Invariance, PTL

(***************************************************************************)
(* tryReserveOsrmPrepareQuota and the two refunds never leave a user with  *)
(* more used slots than he holds.                                          *)
(***************************************************************************)
THEOREM NobodyOvercharged == Spec => []NeverOvercharged
  <1>1. IInv => NeverOvercharged
    BY DEF IInv
  <1>2. QED
    BY <1>1, Invariance, PTL

(***************************************************************************)
(* A queued or running row of osrm_prepare_jobs has somebody who will      *)
(* settle it, unless its request failed or its job was cut short.          *)
(***************************************************************************)
THEOREM JobsHaveOwners == Spec => []ActiveJobHasOwner
  <1>1. IInv => ActiveJobHasOwner
    BY DEF IInv
  <1>2. QED
    BY <1>1, Invariance, PTL

(***************************************************************************)
(* The INCR and DECR of checkEnqueueRateLimit let at most EnqueuePerHour   *)
(* of the jobs a user counts in an hour through.                           *)
(***************************************************************************)
THEOREM HourlyCapHolds == Spec => []HourlyCap
  <1>1. IInv => HourlyCap
    <2> SUFFICES ASSUME IInv, EnqueuePerHour > 0,
                        NEW u \in User, NEW h \in 0..MaxHour
                 PROVE  Cardinality({r \in Request : /\ ask[r].user = u
                                                     /\ slot[r] = h
                                                     /\ status[r] # "absent"})
                          <= EnqueuePerHour
      BY DEF HourlyCap
    <2> DEFINE made == {r \in Request : /\ ask[r].user = u
                                        /\ slot[r] = h
                                        /\ status[r] # "absent"}
    <2>1. made \in SUBSET Admitted(u, h)
      BY DEF Admitted, Counted
    <2>2. /\ IsFiniteSet(Admitted(u, h))
          /\ Cardinality(Admitted(u, h)) <= EnqueuePerHour
          /\ Cardinality(Admitted(u, h)) \in Nat
      BY CountedFinite, FS_Subset DEF IInv, HourIsCounted
    <2>3. Cardinality(made) <= Cardinality(Admitted(u, h)) /\ Cardinality(made) \in Nat
      BY <2>1, <2>2, FS_Subset, FS_CardinalityType
    <2>4. Cardinality(made) <= EnqueuePerHour
      BY <2>2, <2>3, OsrmAssumption
    <2>5. QED
      BY <2>4
  <1>2. QED
    BY <1>1, Invariance, PTL

-----------------------------------------------------------------------------
(* The lock                                                                *)

LEMMA LockProtectsNext ==
  ASSUME TypeOK, LockProtects, [Next /\ LockOutlivesWork]_vars
  PROVE  LockProtects'
  <1>1. CASE \E r \in Request : EnqueueUserOsrmPrepare(r)
    <2>1. UNCHANGED <<worker, nightly, lock>>
      BY <1>1, RequestFrame
    <2>2. QED
      BY <2>1 DEF LockProtects
  <1>2. CASE UNCHANGED vars
    BY <1>2 DEF vars, workerVars, LockProtects
  <1>3. CASE LockOutlivesWork /\ (NightlyStarts \/ NightlyEnds \/ LockExpires
                                  \/ NextHour)
    BY <1>3 DEF NightlyStarts, NightlyEnds, LockExpires, NextHour,
       LockOutlivesWork, LockProtects, workerVars, TypeOK
  <1>4. CASE LockOutlivesWork /\ (PrepareOsrmTask \/ TaskRaises \/ Crash)
    <2>1. nightly' = nightly
      BY <1>4 DEF PrepareOsrmTask, PopJob, AcquireLock, LockBusy, FailBusyJob,
         RefundBusyJob, MarkRunning, RunPipeline, MarkSucceeded,
         PipelineFails, MarkFailed, RefundFailed, ReleaseLock, FailJob,
         RefundUserQuota, TaskRaises, Crash
    <2>2. worker' \in Holding => worker \in Holding \/ (~lock /\ lock')
      BY <1>4 DEF PrepareOsrmTask, PopJob, AcquireLock, LockBusy, FailBusyJob,
         RefundBusyJob, MarkRunning, RunPipeline, MarkSucceeded,
         PipelineFails, MarkFailed, RefundFailed, ReleaseLock, FailJob,
         RefundUserQuota, TaskRaises, Crash, Work, Holding
    <2>3. lock /\ ~lock' => worker' \notin Holding /\ nightly' = "idle"
      BY <1>4 DEF LockOutlivesWork
    <2>4. QED
      BY <2>1, <2>2, <2>3 DEF LockProtects
  <1>5. QED
    BY <1>1, <1>2, <1>3, <1>4 DEF Next

-----------------------------------------------------------------------------
(* Where a job is                                                          *)

\* A request pushes its job with the last step it takes.
LEMMA PushEffect ==
  ASSUME TypeOK, PushIsReliable, NEW r \in Request, EnqueueUserOsrmPrepare(r)
  PROVE  \/ queue' = queue
         \/ /\ pc[r] = "push" /\ pc'[r] = "done"
            /\ status' = status /\ queue' = Append(queue, r)
  <1>1. CASE pc[r] = "push" /\ queue' = Append(queue, r)
    <2>1. InQueue(r)'
      BY <1>1, AppendInQueue
    <2>2. pc'[r] = "done"
      BY <1>1, <2>1 DEF PushIsReliable
    <2>3. QED
      BY <1>1, <2>2, RequestEffect
  <1>2. QED
    BY <1>1, RequestEffect

\* The other steps take a job from the queue, keep it, or let go of it.
LEMMA JobMoves ==
  ASSUME TypeOK, [Next]_vars, \A r \in Request : ~EnqueueUserOsrmPrepare(r)
  PROVE  \/ PopJob
         \/ queue' = queue /\ job' = NoJob
         \/ /\ queue' = queue /\ job' = job
            /\ worker = "unlocking" => worker' = "unlocking"
            /\ worker' \in {"popped", "busy", "locked"} =>
                 worker \in {"popped", "busy", "locked"}
  <1>1. queue' = queue \/ PopJob
    BY TaskEffect
  <1>2. CASE queue' = queue
    <2>1. CASE TaskRaises \/ Crash \/ PipelineFails
      BY <1>2, <2>1 DEF TaskRaises, Crash, PipelineFails
    <2>2. CASE UNCHANGED workerVars
      BY <1>2, <2>2 DEF workerVars
    <2>3. CASE AcquireLock \/ LockBusy \/ FailBusyJob \/ RefundBusyJob
      BY <1>2, <2>3 DEF AcquireLock, LockBusy, FailBusyJob, RefundBusyJob,
         FailJob, RefundUserQuota, Work
    <2>4. CASE MarkRunning \/ RunPipeline \/ MarkSucceeded \/ MarkFailed
               \/ RefundFailed \/ ReleaseLock
      BY <1>2, <2>4 DEF MarkRunning, RunPipeline, MarkSucceeded, MarkFailed,
         RefundFailed, ReleaseLock, FailJob, RefundUserQuota, Work
    <2>5. QED
      BY <2>1, <2>2, <2>3, <2>4 DEF Next, PrepareOsrmTask, PopJob,
         NightlyStarts, NightlyEnds, LockExpires, NextHour, vars, workerVars
  <1>3. QED
    BY <1>1, <1>2

LEMMA DeliveredNext ==
  ASSUME TypeOK, Delivered, [Next]_vars, [PushIsReliable]_vars
  PROVE  Delivered'
  <1>1. CASE \E r \in Request : EnqueueUserOsrmPrepare(r)
    <2>1. PICK r \in Request : EnqueueUserOsrmPrepare(r)
      BY <1>1
    <2>2. /\ job' = job /\ pc[r] # "done"
          /\ \A q \in Request \ {r} : pc'[q] = pc[q]
      BY <2>1, RequestFrame
    <2>3. ~InQueue(r) /\ job # r
      BY <2>2 DEF Delivered
    <2>4. PushIsReliable \/ UNCHANGED <<pc, queue>>
      BY DEF vars
    <2>5. CASE queue' = queue
      BY <2>2, <2>3, <2>5, SameQueue DEF Delivered
    <2>6. CASE pc'[r] = "done" /\ queue' = Append(queue, r)
      <3>1. /\ Len(queue) \in Nat /\ Len(queue') = Len(queue) + 1
            /\ queue'[Len(queue) + 1] = r
            /\ \A i \in 1..Len(queue) : queue'[i] = queue[i] /\ queue[i] # r
        BY <2>3, <2>6 DEF TypeOK, InQueue
      <3>2. \A i, j \in 1..Len(queue') : queue'[i] = queue'[j] => i = j
        BY <3>1 DEF Delivered
      <3>3. \A q : InQueue(q)' <=> InQueue(q) \/ q = r
        BY <2>6, AppendInQueue
      <3>4. QED
        BY <2>2, <2>3, <2>6, <3>2, <3>3 DEF Delivered
    <2>7. QED
      BY <2>1, <2>4, <2>5, <2>6, PushEffect
  <1>2. CASE \A r \in Request : ~EnqueueUserOsrmPrepare(r)
    <2>1. pc' = pc
      BY <1>2, OtherFrame
    <2>2. CASE PopJob
      <3>1. /\ Len(queue) \in Nat \ {0} /\ Len(queue') = Len(queue) - 1
            /\ job' = queue[1]
            /\ \A i \in 1..Len(queue') : queue'[i] = queue[i + 1]
        BY <2>2 DEF TypeOK, PopJob
      <3>2. \A i, j \in 1..Len(queue') : queue'[i] = queue'[j] => i = j
        BY <3>1 DEF Delivered
      <3>3. ~InQueue(job)'
        <4>1. ASSUME NEW i \in 1..Len(queue'), queue'[i] = job'
              PROVE  FALSE
          <5>1. i + 1 \in 1..Len(queue) /\ 1 \in 1..Len(queue)
            BY <3>1
          <5>2. i + 1 = 1
            BY <3>1, <4>1, <5>1 DEF Delivered
          <5>3. QED
            BY <3>1, <5>2
        <4>2. QED
          BY <4>1 DEF InQueue
      <3>4. \A q : InQueue(q)' \/ q = job' => InQueue(q)
        BY <2>2, PopInQueue
      <3>5. QED
        BY <2>1, <3>2, <3>3, <3>4 DEF Delivered
    <2>3. CASE queue' = queue /\ job' \in {job, NoJob}
      <3>1. ~InQueue(NoJob)
        BY OsrmAssumption DEF InQueue, TypeOK
      <3>2. QED
        BY <2>1, <2>3, <3>1, SameQueue, OsrmAssumption DEF Delivered
    <2>4. QED
      BY <1>2, <2>2, <2>3, JobMoves
  <1>3. QED
    BY <1>1, <1>2

-----------------------------------------------------------------------------
(* The quota                                                               *)

\* A slot is taken by ReserveQuota and given back by Refund and the worker.
LEMMA HeldRequest ==
  ASSUME TypeOK, HeldIsFree, NEW r \in Request, EnqueueUserOsrmPrepare(r)
  PROVE  /\ held \ {r} \subseteq held'
         /\ Refund(r) \/ held \subseteq held'
         /\ Refund(r) => pc[r] = "refund" /\ pc'[r] = "error"
         /\ pc'[r] \in {"insert", "push", "refund"} /\ ~ask[r].unlimited =>
              r \in held' \/ pc[r] \in {"insert", "push"}
         /\ pc'[r] = "refund" => ~ask[r].unlimited
  <1>1. ask[r].unlimited \in BOOLEAN
    BY AskType
  <1>2. /\ held \ {r} \subseteq held'
        /\ Refund(r) \/ held \subseteq held'
    BY DEF EnqueueUserOsrmPrepare, Submit, FindActive, FindLatest,
       CountEnqueue, UndoEnqueue, ReserveQuota, CreateJob, Enqueue,
       CreateFails, Refund, Abort, GiveBack
  <1>3. Refund(r) => pc[r] = "refund" /\ pc'[r] = "error"
    BY DEF Refund, Goto, TypeOK
  <1>4. pc'[r] \in {"insert", "push", "refund"} /\ ~ask[r].unlimited =>
          r \in held' \/ pc[r] \in {"insert", "push"}
    BY <1>1 DEF EnqueueUserOsrmPrepare, Submit, FindActive, FindLatest,
       CountEnqueue, UndoEnqueue, ReserveQuota, CreateJob, Enqueue,
       CreateFails, Refund, Abort, Goto, AfterRate, TypeOK
  <1>5. pc'[r] = "refund" => ~ask[r].unlimited
    BY <1>1 DEF EnqueueUserOsrmPrepare, Submit, FindActive, FindLatest,
       CountEnqueue, UndoEnqueue, ReserveQuota, CreateJob, Enqueue,
       CreateFails, Refund, Abort, Goto, AfterRate, TypeOK
  <1>6. QED
    BY <1>2, <1>3, <1>4, <1>5

LEMMA UnspentRequest ==
  ASSUME TypeOK, HeldIsFree, Delivered, UnspentIsHeld, PushIsReliable,
         NEW r \in Request, EnqueueUserOsrmPrepare(r)
  PROVE  UnspentIsHeld'
  <1>1. /\ UNCHANGED <<ask, worker, job>>
        /\ pc[r] # "done"
        /\ \A q \in Request \ {r} : pc'[q] = pc[q]
    BY RequestFrame
  <1>2. ~InQueue(r) /\ job # r /\ status[r] # "succeeded"
    BY <1>1 DEF Delivered, UnspentIsHeld
  <1>3. /\ \A q \in Request \ {r} : status'[q] = status[q]
        /\ status'[r] = status[r] \/ status'[r] = "queued"
    BY RequestEffect DEF TypeOK
  <1>4. /\ \A q \in Request \ {r} : InQueue(q)' <=> InQueue(q)
        /\ InQueue(r)' => pc[r] = "push" /\ pc'[r] = "done"
    BY <1>2, PushEffect, SameQueue, AppendInQueue
  <1>5. ASSUME NEW q \in Request \ {r}, Unspent(q)', ~ask[q].unlimited
        PROVE  q \in held'
    <2>1. Unspent(q)
      BY <1>1, <1>3, <1>4, <1>5 DEF Unspent
    <2>2. q \in held
      BY <1>5, <2>1 DEF UnspentIsHeld
    <2>3. QED
      BY <2>2, HeldRequest
  <1>6. ASSUME Unspent(r)', ~ask[r].unlimited
        PROVE  r \in held'
    <2>1. \/ pc'[r] \in {"insert", "push", "refund"}
          \/ pc[r] = "push" /\ pc'[r] = "done"
      BY <1>1, <1>2, <1>3, <1>4, <1>6 DEF Unspent
    <2>2. r \in held' \/ (pc[r] \in {"insert", "push"} /\ ~Refund(r))
      BY <1>6, <2>1, HeldRequest
    <2>3. pc[r] \in {"insert", "push"} => r \in held
      BY <1>6 DEF UnspentIsHeld, Unspent
    <2>4. QED
      BY <2>2, <2>3, HeldRequest
  <1>7. \A q \in Request : pc'[q] = "refund" => ~ask[q].unlimited
    BY <1>1, HeldRequest DEF UnspentIsHeld
  <1>8. \A q \in Request : status'[q] = "succeeded" => pc'[q] = "done"
    BY <1>1, <1>2, <1>3 DEF UnspentIsHeld
  <1>9. worker' \in {"refunding", "refundingBusy"} =>
          ~ask[job].unlimited /\ status'[job] = "failed"
    <2>1. worker # "idle" => job \in Request
      BY JobIsRequest
    <2>2. QED
      BY <1>1, <1>2, <1>3, <2>1 DEF UnspentIsHeld
  <1>10. QED
    BY <1>1, <1>5, <1>6, <1>7, <1>8, <1>9 DEF UnspentIsHeld

LEMMA UnspentOther ==
  ASSUME TypeOK, Delivered, UnspentIsHeld, [Next]_vars,
         \A r \in Request : ~EnqueueUserOsrmPrepare(r)
  PROVE  UnspentIsHeld'
  <1>1. UNCHANGED <<ask, pc>>
    BY OtherFrame
  <1>2. \/ status' = status
        \/ status' = [status EXCEPT ![job] = "running"]
        \/ status' = [status EXCEPT ![job] = "failed"]
        \/ /\ status' = [status EXCEPT ![job] = "succeeded"]
           /\ worker = "built" /\ job \in Request
    <2>1. worker # "idle" => job \in Request
      BY JobIsRequest
    <2>2. QED
      BY <2>1 DEF Next, vars, EnqueueUserOsrmPrepare, PrepareOsrmTask, PopJob,
         AcquireLock, LockBusy, FailBusyJob, RefundBusyJob, MarkRunning,
         RunPipeline, MarkSucceeded, PipelineFails, MarkFailed, RefundFailed,
         ReleaseLock, FailJob, RefundUserQuota, TaskRaises, Crash,
         NightlyStarts, NightlyEnds, LockExpires, NextHour, Work
  <1>3. \A q \in Request :
          status'[q] = "succeeded" =>
            status[q] = "succeeded" \/ (q = job /\ worker = "built")
    BY <1>2 DEF TypeOK
  <1>4. \A q \in Request : Unspent(q)' => Unspent(q)
    <2>1. \A q \in Request :
            InQueue(q)' \/ (job' = q /\ worker' # "unlocking") =>
              InQueue(q) \/ (job = q /\ worker # "unlocking")
      BY JobMoves, PopInQueue, SameQueue, OsrmAssumption
    <2>2. QED
      BY <1>1, <1>3, <2>1 DEF Unspent
  <1>5. \A q \in Request : Unspent(q)' /\ q \in held => q \in held'
    <2>1. CASE held' = held
      BY <2>1
    <2>2. CASE RefundBusyJob \/ RefundFailed
      <3>1. /\ worker \in {"refunding", "refundingBusy"} /\ job \in Request
            /\ held' = held \ {job} /\ status' = status /\ queue' = queue
            /\ job' = job => worker' = "unlocking"
        BY <2>2, JobIsRequest, OsrmAssumption
           DEF RefundBusyJob, RefundFailed, RefundUserQuota, GiveBack, Work
      <3>2. /\ ~InQueue(job) /\ pc[job] = "done" /\ status[job] = "failed"
        BY <3>1 DEF Delivered, UnspentIsHeld
      <3>3. \A q : InQueue(q)' <=> InQueue(q)
        BY <3>1, SameQueue
      <3>4. \A q \in Request : q = job => ~Unspent(q)'
        BY <1>1, <3>1, <3>2, <3>3 DEF Unspent
      <3>5. QED
        BY <3>1, <3>4
    <2>3. QED
      BY <2>1, <2>2, QuotaSteps DEF EnqueueUserOsrmPrepare
  <1>6. worker' \in {"refunding", "refundingBusy"} =>
          ~ask[job'].unlimited /\ status'[job'] = "failed"
    <2>1. worker # "idle" => job \in Request
      BY JobIsRequest
    <2>2. \/ /\ worker' \in {"refunding", "refundingBusy"}
             /\ worker # "idle" /\ job' = job /\ ~ask[job].unlimited
             /\ status' = [status EXCEPT ![job] = "failed"]
          \/ worker' \notin {"refunding", "refundingBusy"}
          \/ UNCHANGED <<worker, job, status>>
      BY DEF Next, vars, EnqueueUserOsrmPrepare, PrepareOsrmTask, PopJob,
         AcquireLock, LockBusy, FailBusyJob, RefundBusyJob, MarkRunning,
         RunPipeline, MarkSucceeded, PipelineFails, MarkFailed, RefundFailed,
         ReleaseLock, FailJob, RefundUserQuota, TaskRaises, Crash,
         NightlyStarts, NightlyEnds, LockExpires, NextHour, Work, workerVars
    <2>3. QED
      BY <2>1, <2>2 DEF UnspentIsHeld, TypeOK
  <1>7. \A q \in Request : status'[q] = "succeeded" => pc'[q] = "done"
    BY <1>1, <1>3 DEF UnspentIsHeld, Delivered
  <1>8. QED
    BY <1>1, <1>4, <1>5, <1>6, <1>7 DEF UnspentIsHeld

\* Whoever gives a slot back has one.
LEMMA RefundsAreHeld ==
  ASSUME TypeOK, Delivered, UnspentIsHeld
  PROVE  /\ \A r \in Request : Refund(r) => r \in held
         /\ RefundBusyJob \/ RefundFailed => job \in held
  <1>1. ASSUME NEW r \in Request, Refund(r)
        PROVE  r \in held
    BY <1>1 DEF Refund, Goto, UnspentIsHeld, Unspent
  <1>2. ASSUME RefundBusyJob \/ RefundFailed
        PROVE  job \in held
    <2>1. worker \in {"refunding", "refundingBusy"} /\ job \in Request
      BY <1>2, JobIsRequest
         DEF RefundBusyJob, RefundFailed, RefundUserQuota, Work
    <2>2. QED
      BY <2>1 DEF UnspentIsHeld, Unspent
  <1>3. QED
    BY <1>1, <1>2

LEMMA QuotaConservedNext ==
  ASSUME TypeOK, HeldIsFree, Delivered, UnspentIsHeld, QuotaConserved,
         LimitHolds, [Next]_vars
  PROVE  QuotaConserved' /\ LimitHolds'
  <1>1. \A u \in User : /\ used[u] \in Nat /\ used[u] <= QuotaPerUser
                        /\ used[u] = Cardinality(Slots(u))
    BY DEF TypeOK, QuotaConserved, LimitHolds
  <1>2. ASSUME NEW r \in Request, ReserveQuota(r)
        PROVE  QuotaConserved' /\ LimitHolds'
    <2>1. r \notin held
      BY <1>2, NotHeldYet
    <2>2. ASSUME NEW u \in User
          PROVE  used'[u] = Cardinality(Slots(u)') /\ used'[u] <= QuotaPerUser
      <3>1. \/ used'[u] = used[u] /\ Slots(u)' = Slots(u)
            \/ /\ used[u] < QuotaPerUser
               /\ used'[u] = used[u] + 1
               /\ Cardinality(Slots(u)') = Cardinality(Slots(u)) + 1
        BY <1>2, <2>1, ReserveEffect
      <3>2. used[u] \in Nat /\ used[u] <= QuotaPerUser
            /\ used[u] = Cardinality(Slots(u))
        BY <1>1
      <3>3. QED
        BY <3>1, <3>2, OsrmAssumption
    <2>3. QED
      BY <2>2 DEF QuotaConserved, LimitHolds
  <1>3. ASSUME NEW r \in Request, GiveBack(r), ask' = ask, r \in held
        PROVE  QuotaConserved' /\ LimitHolds'
    <2>1. ASSUME NEW u \in User
          PROVE  used'[u] = Cardinality(Slots(u)') /\ used'[u] <= QuotaPerUser
      <3>1. used[u] \in Nat /\ used[u] <= QuotaPerUser
            /\ used[u] = Cardinality(Slots(u))
        BY <1>1
      <3>2. CASE u = ask[r].user
        <4>1. /\ used'[u] = IF used[u] = 0 THEN 0 ELSE used[u] - 1
              /\ Cardinality(Slots(u)') = Cardinality(Slots(u)) - 1
              /\ Cardinality(Slots(u)') \in Nat
          BY <1>3, <3>2, GiveBackEffect
        <4>2. QED
          BY <3>1, <4>1, OsrmAssumption
      <3>3. CASE u # ask[r].user
        BY <1>3, <3>1, <3>3, GiveBackEffect
      <3>4. QED
        BY <3>2, <3>3
    <2>2. QED
      BY <2>1 DEF QuotaConserved, LimitHolds
  <1>4. CASE UNCHANGED <<ask, used, held>>
    BY <1>4 DEF QuotaConserved, LimitHolds, Slots
  <1>5. ASSUME NEW r \in Request, Refund(r)
        PROVE  QuotaConserved' /\ LimitHolds'
    <2>1. GiveBack(r) /\ ask' = ask /\ r \in held
      BY <1>5, RefundsAreHeld DEF Refund
    <2>2. QED
      BY <1>3, <2>1
  <1>6. CASE RefundBusyJob \/ RefundFailed
    <2>1. job \in Request /\ GiveBack(job) /\ ask' = ask /\ job \in held
      BY <1>6, JobIsRequest, RefundsAreHeld
         DEF RefundBusyJob, RefundFailed, RefundUserQuota, Work, requestVars
    <2>2. QED
      BY <1>3, <2>1
  <1>7. QED
    BY <1>2, <1>4, <1>5, <1>6, QuotaSteps

-----------------------------------------------------------------------------
(* The theorems                                                            *)

Assumptions == PushIsReliable /\ LockOutlivesWork

LEMMA OrderlyIsSpec == OrderlySpec => Spec /\ [][Next /\ Assumptions]_vars
  <1>1. [Next /\ Assumptions]_vars => [Next]_vars
    OBVIOUS
  <1>2. [Next /\ PushIsReliable /\ LockOutlivesWork]_vars
          => [Next /\ Assumptions]_vars
    BY DEF Assumptions
  <1>3. QED
    BY <1>1, <1>2, PTL DEF OrderlySpec, Spec

LEMMA OrderlyInit == Init => QuotaInv /\ LockProtects
  <1> SUFFICES ASSUME Init PROVE QuotaInv /\ LockProtects
    OBVIOUS
  <1>1. TypeOK /\ HeldIsFree
    BY IInvInit DEF IInv
  <1>2. \A q : ~InQueue(q)
    BY InQueueInit
  <1>3. /\ \A r \in Request : pc[r] = "idle" /\ status[r] = "absent"
        /\ worker = "idle" /\ job = NoJob /\ nightly = "idle"
        /\ queue = <<>> /\ held = {}
        /\ \A u \in User : used[u] = 0
    BY DEF Init
  <1>4. Delivered
    BY <1>2, <1>3, OsrmAssumption DEF Delivered
  <1>5. UnspentIsHeld
    BY <1>2, <1>3, OsrmAssumption DEF UnspentIsHeld, Unspent
  <1>6. QuotaConserved /\ LimitHolds
    <2>1. \A u \in User : Cardinality(Slots(u)) = 0
      <3>1. \A u \in User : Slots(u) = {}
        BY <1>3 DEF Slots
      <3>2. QED
        BY <3>1, FS_EmptySet
    <2>2. QED
      BY <1>3, <2>1, OsrmAssumption DEF QuotaConserved, LimitHolds
  <1>7. LockProtects
    BY <1>3 DEF LockProtects, Holding
  <1>8. QED
    BY <1>1, <1>4, <1>5, <1>6, <1>7 DEF QuotaInv

LEMMA QuotaInvNext ==
  ASSUME IInv, IInv', QuotaInv, [Next /\ Assumptions]_vars
  PROVE  QuotaInv'
  <1>1. /\ TypeOK /\ HeldIsFree /\ Delivered /\ UnspentIsHeld
        /\ QuotaConserved /\ LimitHolds
        /\ TypeOK' /\ HeldIsFree'
    BY DEF IInv, QuotaInv
  <1>2. [Next]_vars /\ [PushIsReliable]_vars
    BY DEF Assumptions
  <1>3. Delivered'
    BY <1>1, <1>2, DeliveredNext
  <1>4. QuotaConserved' /\ LimitHolds'
    BY <1>1, <1>2, QuotaConservedNext
  <1>5. UnspentIsHeld'
    <2>1. CASE \E r \in Request : EnqueueUserOsrmPrepare(r) /\ PushIsReliable
      BY <1>1, <2>1, UnspentRequest
    <2>2. CASE \A r \in Request : ~EnqueueUserOsrmPrepare(r)
      BY <1>1, <1>2, <2>2, UnspentOther
    <2>3. CASE UNCHANGED vars
      BY <1>1, <2>3 DEF vars, workerVars, UnspentIsHeld, Unspent, InQueue
    <2>4. QED
      BY <1>2, <2>1, <2>2, <2>3
  <1>6. QED
    BY <1>1, <1>3, <1>4, <1>5 DEF QuotaInv

LEMMA OrderlyInvariance == OrderlySpec => [](QuotaInv /\ LockProtects)
  <1>1. IInv /\ IInv' /\ QuotaInv /\ LockProtects /\ [Next /\ Assumptions]_vars
        => QuotaInv' /\ LockProtects'
    <2> SUFFICES ASSUME IInv, IInv', QuotaInv, LockProtects,
                        [Next /\ Assumptions]_vars
                 PROVE  QuotaInv' /\ LockProtects'
      OBVIOUS
    <2>1. QuotaInv'
      BY QuotaInvNext
    <2>2. TypeOK /\ [Next /\ LockOutlivesWork]_vars
      BY DEF IInv, Assumptions
    <2>3. QED
      BY <2>1, <2>2, LockProtectsNext
  <1>2. Spec => []IInv
    BY Invariance
  <1>3. OrderlySpec => Init
    BY DEF OrderlySpec
  <1>4. QED
    BY <1>1, <1>2, <1>3, OrderlyInit, OrderlyIsSpec, PTL

(***************************************************************************)
(* The counter users.osrm_prepare_quota_used is the number of slots that   *)
(* requests of the user hold: no refund of the API or of the worker is     *)
(* lost or made twice, in whatever order they come.                        *)
(***************************************************************************)
THEOREM QuotaIsExact == OrderlySpec => []QuotaConserved
  <1>1. QuotaInv => QuotaConserved
    BY DEF QuotaInv
  <1>2. QED
    BY <1>1, OrderlyInvariance, PTL

(***************************************************************************)
(* However many requests a user of the free mode makes, and whatever       *)
(* crashes, at most QuotaPerUser of his cities are prepared.               *)
(***************************************************************************)
THEOREM FreeCitiesAreLimited == OrderlySpec => []FreeCityLimit
  <1>1. QuotaInv => FreeCityLimit
    <2> SUFFICES ASSUME QuotaInv, NEW u \in User
                 PROVE  Cardinality({r \in Request :
                                       /\ ask[r].user = u /\ ~ask[r].unlimited
                                       /\ status[r] = "succeeded"})
                          <= QuotaPerUser
      BY DEF FreeCityLimit
    <2> DEFINE Free == {r \in Request : /\ ask[r].user = u
                                        /\ ~ask[r].unlimited
                                        /\ status[r] = "succeeded"}
    <2>1. TypeOK /\ UnspentIsHeld /\ QuotaConserved /\ LimitHolds
      BY DEF QuotaInv
    <2>2. Free \in SUBSET Slots(u)
      BY <2>1 DEF UnspentIsHeld, Unspent, Slots
    <2>3. /\ IsFiniteSet(Slots(u))
          /\ Cardinality(Slots(u)) \in Nat
          /\ Cardinality(Slots(u)) <= QuotaPerUser
      BY <2>1, SlotsFinite DEF QuotaConserved, LimitHolds
    <2>4. Cardinality(Free) <= Cardinality(Slots(u)) /\ Cardinality(Free) \in Nat
      BY <2>2, <2>3, FS_Subset, FS_CardinalityType
    <2> HIDE DEF Free
    <2>5. Cardinality(Free) <= QuotaPerUser
      BY <2>3, <2>4, OsrmAssumption
    <2>6. QED
      BY <2>5 DEF Free
  <1>2. QED
    BY <1>1, OrderlyInvariance, PTL

(***************************************************************************)
(* The worker and the nightly refresh never run the scripts at a time:     *)
(* nobody deletes a lock under which somebody else works.                  *)
(***************************************************************************)
THEOREM PipelinesTakeTurns == OrderlySpec => []OnePipeline
  <1>1. LockProtects => OnePipeline
    BY DEF LockProtects, OnePipeline, Holding
  <1>2. QED
    BY <1>1, OrderlyInvariance, PTL

-----------------------------------------------------------------------------
(* Refinement of BuildOnce, under Spec: no RPUSH is assumed to be reliable *)

\* The step of a request that pushes its job is the last before which it could; after
\* it only refunds are left.
LEMMA PushIsLast ==
  ASSUME TypeOK, NEW r \in Request, EnqueueUserOsrmPrepare(r)
  PROVE  /\ pc'[r] \in BeforePush => pc[r] \in BeforePush
         /\ \/ queue' = queue
            \/ /\ pc[r] = "push" /\ queue' = Append(queue, r)
               /\ pc'[r] \notin BeforePush
  <1>0. ask[r].unlimited \in BOOLEAN
    BY AskType
  <1>1. CASE Refund(r)
    BY <1>1 DEF Refund, Goto, TypeOK, BeforePush
  <1>2. CASE Abort(r)
    BY <1>2 DEF Abort, TypeOK, BeforePush
  <1>3. CASE CreateFails(r)
    BY <1>0, <1>3 DEF CreateFails, TypeOK, BeforePush
  <1>4. CASE Enqueue(r)
    BY <1>4 DEF Enqueue, Goto, TypeOK, BeforePush
  <1>5. CASE Submit(r) \/ FindActive(r) \/ FindLatest(r) \/ CountEnqueue(r)
             \/ UndoEnqueue(r) \/ ReserveQuota(r) \/ CreateJob(r)
    BY <1>5 DEF Submit, FindActive, FindLatest, CountEnqueue, UndoEnqueue,
       ReserveQuota, CreateJob, Goto, BeforePush
  <1>6. QED
    BY <1>1, <1>2, <1>3, <1>4, <1>5 DEF EnqueueUserOsrmPrepare

LEMMA PushedOnceRequest ==
  ASSUME TypeOK, PushedOnce, NEW r \in Request, EnqueueUserOsrmPrepare(r)
  PROVE  PushedOnce'
  <1>1. job' = job /\ \A q \in Request \ {r} : pc'[q] = pc[q]
    BY RequestFrame
  <1>2. CASE queue' = queue
    <2>1. \A q : InQueue(q)' <=> InQueue(q)
      BY <1>2, SameQueue
    <2>2. \A q \in Request : pc[q] \notin BeforePush => pc'[q] \notin BeforePush
      BY <1>1, PushIsLast
    <2>3. QED
      BY <1>1, <1>2, <2>1, <2>2 DEF PushedOnce
  <1>3. CASE /\ pc[r] = "push" /\ queue' = Append(queue, r)
             /\ pc'[r] \notin BeforePush
    <2>1. ~InQueue(r) /\ job # r
      BY <1>3 DEF PushedOnce, BeforePush
    <2>2. /\ Len(queue) \in Nat /\ Len(queue') = Len(queue) + 1
          /\ queue'[Len(queue) + 1] = r
          /\ \A i \in 1..Len(queue) : queue'[i] = queue[i] /\ queue[i] # r
      <3>1. /\ queue \in Seq(Request) /\ r \in Request
            /\ \A i \in 1..Len(queue) : queue[i] # r
        BY <2>1 DEF TypeOK, InQueue
      <3>2. QED
        BY <1>3, <3>1
    <2>3. \A i, j \in 1..Len(queue') : queue'[i] = queue'[j] => i = j
      BY <2>2 DEF PushedOnce
    <2>4. \A q : InQueue(q)' <=> InQueue(q) \/ q = r
      BY <1>3, AppendInQueue
    <2>5. QED
      BY <1>1, <1>3, <2>1, <2>3, <2>4 DEF PushedOnce
  <1>4. QED
    BY <1>2, <1>3, PushIsLast

LEMMA PushedOnceOther ==
  ASSUME TypeOK, PushedOnce, [Next]_vars,
         \A r \in Request : ~EnqueueUserOsrmPrepare(r)
  PROVE  PushedOnce'
  <1>1. pc' = pc
    BY OtherFrame
  <1>2. CASE PopJob
    <2>1. /\ Len(queue) \in Nat \ {0} /\ Len(queue') = Len(queue) - 1
          /\ job' = queue[1]
          /\ \A i \in 1..Len(queue') : queue'[i] = queue[i + 1]
      BY <1>2 DEF TypeOK, PopJob
    <2>2. \A i, j \in 1..Len(queue') : queue'[i] = queue'[j] => i = j
      BY <2>1 DEF PushedOnce
    <2>3. ASSUME NEW i \in 1..Len(queue'), queue'[i] = job'
          PROVE  FALSE
      <3>1. i + 1 \in 1..Len(queue) /\ 1 \in 1..Len(queue)
        BY <2>1
      <3>2. i + 1 = 1
        BY <2>1, <2>3, <3>1 DEF PushedOnce
      <3>3. QED
        BY <2>1, <3>2
    <2>4. \A q : InQueue(q)' \/ q = job' => InQueue(q)
      BY <1>2, PopInQueue
    <2>5. ~InQueue(job)'
      BY <2>3 DEF InQueue
    <2>6. QED
      BY <1>1, <2>2, <2>4, <2>5 DEF PushedOnce
  <1>3. CASE queue' = queue /\ job' \in {job, NoJob}
    <2>1. ~InQueue(NoJob)
      BY OsrmAssumption DEF InQueue, TypeOK
    <2>2. QED
      BY <1>1, <1>3, <2>1, SameQueue, OsrmAssumption DEF PushedOnce
  <1>4. QED
    BY <1>2, <1>3, JobMoves

LEMMA PushedOnceHolds == Spec => []PushedOnce
  <1>1. Init => PushedOnce
    BY InQueueInit, OsrmAssumption DEF Init, PushedOnce
  <1>2. TypeOK /\ PushedOnce /\ [Next]_vars => PushedOnce'
    BY PushedOnceRequest, PushedOnceOther
  <1>3. QED
    BY <1>1, <1>2, TypeCorrect, PTL DEF Spec

\* A step that changes the phase of h alone.
LEMMA PhaseExcept ==
  ASSUME NEW h \in Request, NEW x,
         \A r \in Request \ {h} : Phase'[r] = Phase[r], Phase'[h] = x
  PROVE  Phase' = [Phase EXCEPT ![h] = x]
  <1>1. DOMAIN Phase = Request /\ DOMAIN Phase' = Request
    BY DEF Phase
  <1>2. Phase = [r \in Request |-> Phase[r]]
        /\ Phase' = [r \in Request |-> Phase'[r]]
    BY DEF Phase
  <1>3. QED
    BY <1>1, <1>2

LEMMA PhaseRequest ==
  ASSUME TypeOK, PushedOnce, NEW r \in Request, EnqueueUserOsrmPrepare(r)
  PROVE  Once!Drop(r) \/ Phase' = Phase
  <1>1. job' = job /\ \A q \in Request \ {r} : pc'[q] = pc[q]
    BY RequestFrame
  <1>2. /\ \A q \in Request \ {r} : InQueue(q)' <=> InQueue(q)
        /\ InQueue(r) => InQueue(r)'
        /\ InQueue(r)' => InQueue(r) \/ pc[r] \in BeforePush
        /\ pc'[r] \in BeforePush => pc[r] \in BeforePush
    BY PushIsLast, SameQueue, AppendInQueue DEF BeforePush
  <1>3. \A q \in Request \ {r} : Phase'[q] = Phase[q]
    BY <1>1, <1>2 DEF Phase
  <1>4. CASE Phase'[r] = Phase[r]
    BY <1>3, <1>4 DEF Phase
  <1>5. CASE Phase'[r] # Phase[r]
    <2>1. Phase[r] = "waiting" /\ Phase'[r] = "over"
      BY <1>1, <1>2, <1>5 DEF Phase
    <2>2. QED
      BY <1>3, <2>1, PhaseExcept DEF Once!Drop
  <1>6. QED
    BY <1>4, <1>5

LEMMA PhaseOther ==
  ASSUME TypeOK, PushedOnce, [Next]_vars,
         \A r \in Request : ~EnqueueUserOsrmPrepare(r)
  PROVE  Phase' = Phase \/ \E r \in Request : Once!Begin(r) \/ Once!End(r)
  <1>1. pc' = pc
    BY OtherFrame
  <1>2. CASE PopJob
    <2>1. /\ job = NoJob /\ job' \in Request
          /\ \A q : InQueue(q) <=> InQueue(q)' \/ q = job'
      BY <1>2, PopInQueue DEF TypeOK
    <2>2. (~InQueue(job))'
      BY PushedOnceOther DEF PushedOnce
    <2>3. PICK h \in Request : h = job' /\ ~(InQueue(h)')
      BY <2>1, <2>2 DEF InQueue
    <2>4. /\ \A q \in Request \ {h} : Phase'[q] = Phase[q]
          /\ Phase'[h] = "executing" /\ Phase[h] = "waiting"
          /\ \A q \in Request : Phase[q] # "executing"
      BY <1>1, <2>1, <2>3, OsrmAssumption DEF Phase
    <2>5. Once!Begin(h)
      BY <2>4, PhaseExcept DEF Once!Begin
    <2>6. QED
      BY <2>5
  <1>3. CASE queue' = queue /\ job' = job
    BY <1>1, <1>3, SameQueue DEF Phase
  <1>4. CASE queue' = queue /\ job' = NoJob /\ job # NoJob
    <2>1. PICK h \in Request : h = job
      BY <1>4 DEF TypeOK
    <2>2. ~InQueue(h) /\ pc[h] \notin BeforePush /\ ~(InQueue(h)')
      BY <1>4, <2>1, SameQueue DEF PushedOnce
    <2>3. /\ \A q \in Request \ {h} : Phase'[q] = Phase[q]
          /\ Phase'[h] = "over" /\ Phase[h] = "executing"
      BY <1>1, <1>4, <2>1, <2>2, SameQueue, OsrmAssumption DEF Phase
    <2>4. Once!End(h)
      BY <2>3, PhaseExcept DEF Once!End
    <2>5. QED
      BY <2>4
  <1>5. QED
    BY <1>2, <1>3, <1>4, JobMoves

LEMMA PhaseNext == TypeOK /\ PushedOnce /\ [Next]_vars => [Once!Next]_Phase
  BY PhaseRequest, PhaseOther DEF Once!Next

\* OsrmPrepare implements BuildOnce: whatever throws, is joined, refunded, locked out or
\* dies, the job of a request is worked for once at most, and one job at a time.
THEOREM JobsRunOnce == Spec => PreparedAtMostOnce
  <1>1. Init => Once!Init
    BY OsrmAssumption DEF Init, Once!Init, Phase, BeforePush
  <1>2. QED
    BY <1>1, PhaseNext, TypeCorrect, PushedOnceHolds, PTL
       DEF Spec, PreparedAtMostOnce, Once!Spec

-----------------------------------------------------------------------------
(* Two jobs of a city                                                      *)

LEMMA JobIsQueuedNext ==
  ASSUME TypeOK, PushedOnce, JobIsQueued, [Next]_vars
  PROVE  JobIsQueued'
  <1>1. CASE \E r \in Request : EnqueueUserOsrmPrepare(r)
    <2>1. PICK r \in Request : EnqueueUserOsrmPrepare(r)
      BY <1>1
    <2>2. /\ UNCHANGED <<worker, job>>
          /\ \A q \in Request \ {r} : pc'[q] = pc[q]
      BY <2>1, RequestFrame
    <2>3. /\ \/ status' = status
             \/ pc[r] = "insert" /\ status' = [status EXCEPT ![r] = "queued"]
          /\ pc'[r] = "push" => status'[r] = "queued"
          /\ \/ queue' = queue
             \/ pc[r] = "push" /\ queue' = Append(queue, r)
      BY <2>1, RequestEffect
    <2>4. \A q \in Request : InQueue(q)' => InQueue(q) \/ (q = r /\ pc[r] = "push")
      BY <2>3, SameQueue, AppendInQueue
    <2>5. \A q \in Request : status[q] = "queued" => status'[q] = "queued"
      BY <2>3 DEF TypeOK
    <2>6. QED
      BY <2>2, <2>3, <2>4, <2>5 DEF JobIsQueued
  <1>2. CASE \A r \in Request : ~EnqueueUserOsrmPrepare(r)
    <2>1. pc' = pc
      BY <1>2, OtherFrame
    <2>2. \/ status' = status
          \/ /\ job \in Request /\ worker # "idle"
             /\ \A q \in Request \ {job} : status'[q] = status[q]
             /\ queue' = queue
             /\ job' = job => worker' \notin {"popped", "busy", "locked"}
      <3>1. worker # "idle" => job \in Request
        BY JobIsRequest
      <3>2. QED
        BY <1>2, <3>1
           DEF Next, vars, EnqueueUserOsrmPrepare, PrepareOsrmTask, PopJob,
           AcquireLock, LockBusy, FailBusyJob, RefundBusyJob, MarkRunning,
           RunPipeline, MarkSucceeded, PipelineFails, MarkFailed,
           RefundFailed, ReleaseLock, FailJob, RefundUserQuota, TaskRaises,
           Crash, NightlyStarts, NightlyEnds, LockExpires, NextHour, Work,
           TypeOK
    <2>3. \A q \in Request :
            InQueue(q)' \/ (job' = q /\ worker' \in {"popped", "busy", "locked"})
            => \/ InQueue(q)
               \/ job = q /\ worker \in {"popped", "busy", "locked"}
      BY <1>2, JobMoves, PopInQueue, SameQueue, OsrmAssumption
    <2>4. ASSUME NEW q \in Request,
                 \/ pc'[q] = "push" \/ InQueue(q)'
                 \/ job' = q /\ worker' \in {"popped", "busy", "locked"}
          PROVE  status'[q] = "queued"
      <3>1. status[q] = "queued"
        BY <2>1, <2>3, <2>4 DEF JobIsQueued
      <3>2. CASE status' = status
        BY <3>1, <3>2
      <3>3. CASE /\ job \in Request /\ worker # "idle"
                 /\ \A p \in Request \ {job} : status'[p] = status[p]
                 /\ queue' = queue
                 /\ job' = job => worker' \notin {"popped", "busy", "locked"}
        <4>1. /\ ~InQueue(job) /\ pc[job] # "push"
              /\ \A p : InQueue(p)' <=> InQueue(p)
          BY <3>3, SameQueue DEF PushedOnce, BeforePush
        <4>2. q # job
          <5>1. job' \in {job, NoJob}
            BY <1>2, <3>3, JobMoves, PopInQueue
          <5>2. QED
            BY <2>1, <2>4, <3>3, <4>1, <5>1, OsrmAssumption
        <4>3. QED
          BY <3>1, <3>3, <4>2
      <3>4. QED
        BY <2>2, <3>2, <3>3
    <2>5. QED
      BY <2>4 DEF JobIsQueued
  <1>3. QED
    BY <1>1, <1>2

\* A row that is settled stays so: only a waiting job is worked for.
LEMMA SettledStays ==
  ASSUME TypeOK, JobHasRow, JobIsQueued, [Next]_vars, NEW q \in Request,
         status[q] \in {"failed", "succeeded"}
  PROVE  status'[q] \in {"failed", "succeeded"}
  <1>1. CASE \E r \in Request : EnqueueUserOsrmPrepare(r)
    <2>1. PICK r \in Request : EnqueueUserOsrmPrepare(r)
      BY <1>1
    <2>2. \/ status' = status
          \/ pc[r] = "insert" /\ status' = [status EXCEPT ![r] = "queued"]
      BY <2>1, RequestEffect
    <2>3. pc[r] = "insert" => q # r
      BY DEF JobHasRow
    <2>4. QED
      BY <2>2, <2>3 DEF TypeOK
  <1>2. CASE \A r \in Request : ~EnqueueUserOsrmPrepare(r)
    <2>1. worker = "locked" => status[job] = "queued"
      BY JobIsRequest DEF JobIsQueued
    <2>2. \/ status' = status
          \/ status' = [status EXCEPT ![job] = "failed"]
          \/ status' = [status EXCEPT ![job] = "succeeded"]
          \/ worker = "locked" /\ status' = [status EXCEPT ![job] = "running"]
      BY <1>2 DEF Next, vars, EnqueueUserOsrmPrepare, PrepareOsrmTask, PopJob,
         AcquireLock, LockBusy, FailBusyJob, RefundBusyJob, MarkRunning,
         RunPipeline, MarkSucceeded, PipelineFails, MarkFailed, RefundFailed,
         ReleaseLock, FailJob, RefundUserQuota, TaskRaises, Crash,
         NightlyStarts, NightlyEnds, LockExpires, NextHour, Work
    <2>3. QED
      BY <2>1, <2>2 DEF TypeOK
  <1>3. QED
    BY <1>1, <1>2

LEMMA SearchInvNext ==
  ASSUME TypeOK, JobHasRow, PushedOnce, JobIsQueued, SearchInv, [Next]_vars
  PROVE  SearchInv'
  <1>1. CASE \E r \in Request : EnqueueUserOsrmPrepare(r)
    <2>1. PICK r \in Request : EnqueueUserOsrmPrepare(r)
      BY <1>1
    <2>2. \A q \in Request \ {r} : pc'[q] = pc[q] /\ seen'[q] = seen[q]
      BY <2>1, RequestFrame, SearchStep
    <2>3. \/ status' = status
          \/ /\ pc[r] = "insert" /\ pc'[r] = "push"
             /\ status' = [status EXCEPT ![r] = "queued"]
      BY <2>1, RequestEffect
    <2>4. ASSUME NEW q \in Request \ {r}
          PROVE  /\ pc'[q] = "joined" => status'[q] = "absent"
                 /\ pc'[q] # "joined" =>
                      \A t \in seen'[q] : status'[t] \in {"failed", "succeeded"}
      <3>1. seen[q] \subseteq Request
        BY <2>4 DEF TypeOK
      <3>2. QED
        BY <2>2, <2>3, <2>4, <3>1, SettledStays DEF SearchInv, TypeOK
    <2>5. pc'[r] = "joined" => status'[r] = "absent"
      <3>1. pc'[r] = "joined" => pc[r] = "findActive"
        BY <2>1, SearchStep
      <3>2. QED
        BY <2>3, <3>1 DEF JobHasRow
    <2>6. ASSUME pc'[r] # "joined"
          PROVE  \A t \in seen'[r] : status'[t] \in {"failed", "succeeded"}
      <3>1. CASE seen'[r] = seen[r] /\ pc[r] # "joined"
        <4>1. seen[r] \subseteq Request
          BY DEF TypeOK
        <4>2. QED
          BY <3>1, <4>1, SettledStays DEF SearchInv
      <3>2. CASE /\ seen'[r] = RowsOf(ask[r].city)
                 /\ \A q \in seen'[r] : ~Active(q)
        <4>1. \A t \in seen'[r] :
                t \in Request /\ status[t] \in {"failed", "succeeded"}
          BY <3>2 DEF RowsOf, Active, TypeOK, Status
        <4>2. QED
          BY <4>1, SettledStays
      <3>3. QED
        BY <2>1, <2>6, <3>1, <3>2, SearchStep
    <2>7. QED
      BY <2>4, <2>5, <2>6 DEF SearchInv
  <1>2. CASE \A r \in Request : ~EnqueueUserOsrmPrepare(r)
    <2>1. UNCHANGED <<pc, seen>>
      BY <1>2, OtherFrame
    <2>2. \/ status' = status
          \/ /\ job \in Request
             /\ \A q \in Request \ {job} : status'[q] = status[q]
      BY <1>2, TaskEffect DEF TypeOK
    <2>3. ASSUME NEW q \in Request, pc[q] = "joined"
          PROVE  status'[q] = "absent"
      <3>1. status[q] = "absent"
        BY <2>3 DEF SearchInv
      <3>2. job # q
        BY <2>3, <3>1 DEF JobHasRow
      <3>3. QED
        BY <2>2, <2>3, <3>1, <3>2
    <2>4. ASSUME NEW q \in Request, pc[q] # "joined"
          PROVE  \A t \in seen[q] : status'[t] \in {"failed", "succeeded"}
      <3>1. seen[q] \subseteq Request
        BY DEF TypeOK
      <3>2. QED
        BY <2>4, <3>1, SettledStays DEF SearchInv
    <2>5. QED
      BY <2>1, <2>3, <2>4 DEF SearchInv
  <1>3. QED
    BY <1>1, <1>2

(***************************************************************************)
(* Two active jobs of a city come from requests that overlapped: whatever  *)
(* throws, crashes or is pushed though it seemed to fail, a request that   *)
(* comes after the row of an active job joins it, and a row that a request *)
(* found settled is never active beside that request's own.                *)
(***************************************************************************)
THEOREM TwinsComeFromOverlaps == Spec => []TwinsOverlapped
  <1>1. Init => JobIsQueued /\ SearchInv
    BY InQueueInit, OsrmAssumption DEF Init, JobIsQueued, SearchInv
  <1>2. /\ TypeOK /\ JobHasRow /\ PushedOnce /\ JobIsQueued /\ SearchInv
        /\ [Next]_vars
        => JobIsQueued' /\ SearchInv'
    BY JobIsQueuedNext, SearchInvNext
  <1>3. SearchInv => TwinsOverlapped
    BY DEF SearchInv, TwinsOverlapped, Active
  <1>4. IInv => TypeOK /\ JobHasRow
    BY DEF IInv
  <1>5. QED
    BY <1>1, <1>2, <1>3, <1>4, Invariance, PushedOnceHolds, PTL DEF Spec
=============================================================================
