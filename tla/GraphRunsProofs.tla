--------------------------- MODULE GraphRunsProofs ---------------------------
(* Proofs about GraphRuns: its inductive invariant and what follows, for the *)
(* specification with all faults and for the orderly one.                    *)
EXTENDS GraphRuns, TLAPS

-----------------------------------------------------------------------------
(* Rows                                                                    *)

LEMMA AbsentIsRow == Absent \in Row
  BY DEF Absent, Row, RowStatus, Fact

LEMMA RowFields ==
  ASSUME TypeOK, NEW q \in Request
  PROVE  /\ row[q] \in Row
         /\ row[q].status \in RowStatus
         /\ row[q].fact \in Fact
         /\ row[q].stale \in BOOLEAN
  BY DEF TypeOK, Row

\* What an UPDATE leaves in the table.
LEMMA RowUpdate ==
  ASSUME TypeOK, NEW q \in Request, NEW r \in Row,
         row' = IF row[q].status = "absent" THEN row
                ELSE [row EXCEPT ![q] = r]
  PROVE  /\ row' \in [Request -> Row]
         /\ \A p \in Request \ {q} : row'[p] = row[p]
         /\ row[q].status = "absent" => row'[q] = row[q]
         /\ row[q].status # "absent" => row'[q] = r
  BY DEF TypeOK

\* An UPDATE that keeps the age of the row.
LEMMA StatusUpdate ==
  ASSUME TypeOK, NEW q \in Request, NEW s \in RowStatus, NEW f \in Fact,
         UpdateRow(q, s, f, row[q].stale)
  PROVE  /\ row' \in [Request -> Row]
         /\ \A p \in Request \ {q} : row'[p] = row[p]
         /\ row[q].status = "absent" => row'[q] = row[q]
         /\ row[q].status # "absent" => row'[q].status = s
  <1> DEFINE new == [status |-> s, fact |-> f, stale |-> row[q].stale]
  <1>1. new \in Row /\ new.status = s
    BY RowFields DEF Row
  <1>2. row' = IF row[q].status = "absent" THEN row ELSE [row EXCEPT ![q] = new]
    BY DEF UpdateRow
  <1> HIDE DEF new
  <1>3. QED
    BY <1>1, <1>2, RowUpdate

\* The UPDATE in the catch block of startRun.
LEMMA UndoneRow ==
  ASSUME TypeOK, NEW q \in Request, UndoRow(q)
  PROVE  /\ row' \in [Request -> Row]
         /\ \A p \in Request \ {q} : row'[p] = row[p]
         /\ row[q].status = "absent" => row'[q] = row[q]
         /\ row[q].status # "absent" => row'[q].status = "failed"
  <1>1. "failed" \in RowStatus /\ row[q].fact \in Fact
    BY RowFields DEF RowStatus
  <1>2. UpdateRow(q, "failed", row[q].fact, row[q].stale)
    BY DEF UndoRow
  <1>3. QED
    BY <1>1, <1>2, StatusUpdate

\* The UPDATE of fail_stale_graph_runs.
LEMMA StaleUpdate ==
  ASSUME TypeOK, NEW q \in Request, FailStaleRuns(q)
  PROVE  /\ row' \in [Request -> Row]
         /\ \A r \in Request :
              \/ row'[r] = row[r]
              \/ /\ Active(r) /\ row[r].stale
                 /\ row[r] # Absent
                 /\ row'[r] = [row[r] EXCEPT !.status = "failed"]
                 /\ row'[r].status = "failed"
  <1> DEFINE old == {r \in Request : Active(r) /\ row[r].stale}
  <1>1. row' = [r \in Request |-> IF r \in old
                                  THEN [row[r] EXCEPT !.status = "failed"]
                                  ELSE row[r]]
    BY DEF FailStaleRuns
  <1>2. \A r \in Request : [row[r] EXCEPT !.status = "failed"] \in Row
    BY RowFields DEF Row, RowStatus
  <1>3. \A r \in Request : row[r] \in Row
    BY RowFields
  <1> HIDE DEF old
  <1>4. row' \in [Request -> Row]
    BY <1>1, <1>2, <1>3
  <1>5. \A r \in Request : \/ r \notin old /\ row'[r] = row[r]
                           \/ r \in old /\ row'[r] = [row[r] EXCEPT !.status = "failed"]
    BY <1>1
  <1>6. \A r \in Request : [row[r] EXCEPT !.status = "failed"].status = "failed"
    BY <1>3 DEF Row
  <1>7. \A r \in Request : Active(r) => row[r] # Absent
    BY DEF Active, Absent
  <1>8. QED
    BY <1>4, <1>5, <1>6, <1>7 DEF old

\* The worker has a job as long as it is not idle.
LEMMA JobIsRun ==
  ASSUME TypeOK, worker # "idle"
  PROVE  job \in Request
  BY DEF TypeOK

\* What the worker's UPDATEs do to the row of its job.
LEMMA JobUpdate ==
  ASSUME TypeOK,
         MarkRunning \/ MarkCompleted \/ MarkFailed \/ CallbackMarkFailed
  PROVE  /\ worker # "idle"
         /\ row' \in [Request -> Row]
         /\ \A r \in Request \ {job} : row'[r] = row[r]
         /\ row[job].status = "absent" => row'[job] = row[job]
         /\ row[job].status # "absent" =>
              /\ MarkRunning => row'[job].status = "running"
              /\ MarkCompleted => row'[job].status = "completed"
              /\ MarkFailed \/ CallbackMarkFailed => row'[job].status = "failed"
  <1>1. worker # "idle"
    BY DEF MarkRunning, MarkCompleted, MarkFailed, CallbackMarkFailed, Step
  <1>2. job \in Request
    BY <1>1, JobIsRun
  <1>3. row[job].fact \in Fact /\ row[job].stale \in BOOLEAN
    BY <1>2, RowFields
  <1>4. CASE MarkRunning
    <2> DEFINE new == [status |-> "running", fact |-> row[job].fact,
                       stale |-> FALSE]
    <2>1. new \in Row /\ new.status = "running"
      BY <1>3 DEF Row, RowStatus
    <2>2. row' = IF row[job].status = "absent" THEN row
                 ELSE [row EXCEPT ![job] = new]
      BY <1>4 DEF MarkRunning, UpdateRow
    <2>3. ~MarkCompleted /\ ~MarkFailed /\ ~CallbackMarkFailed
      BY <1>4 DEF MarkRunning, MarkCompleted, MarkFailed, CallbackMarkFailed, Step
    <2> HIDE DEF new
    <2>4. QED
      BY <1>1, <1>2, <2>1, <2>2, <2>3, RowUpdate
  <1>5. CASE MarkCompleted
    <2>1. PICK f \in Fact : UpdateRow(job, "completed", f, row[job].stale)
      BY <1>5 DEF MarkCompleted, Fact
    <2>2. ~MarkRunning /\ ~MarkFailed /\ ~CallbackMarkFailed
      BY <1>5 DEF MarkRunning, MarkCompleted, MarkFailed, CallbackMarkFailed, Step
    <2>3. "completed" \in RowStatus
      BY DEF RowStatus
    <2>4. /\ row' \in [Request -> Row]
          /\ \A r \in Request \ {job} : row'[r] = row[r]
          /\ row[job].status = "absent" => row'[job] = row[job]
          /\ row[job].status # "absent" => row'[job].status = "completed"
      BY <1>2, <2>1, <2>3, StatusUpdate
    <2>5. QED
      BY <1>1, <2>2, <2>4
  <1>6. CASE MarkFailed \/ CallbackMarkFailed
    <2>1. PICK f \in Fact : UpdateRow(job, "failed", f, row[job].stale)
      BY <1>6 DEF MarkFailed, CallbackMarkFailed, Fact
    <2>2. ~MarkRunning /\ ~MarkCompleted
      BY <1>6 DEF MarkRunning, MarkCompleted, MarkFailed, CallbackMarkFailed, Step
    <2>3. "failed" \in RowStatus
      BY DEF RowStatus
    <2>4. /\ row' \in [Request -> Row]
          /\ \A r \in Request \ {job} : row'[r] = row[r]
          /\ row[job].status = "absent" => row'[job] = row[job]
          /\ row[job].status # "absent" => row'[job].status = "failed"
      BY <1>2, <2>1, <2>3, StatusUpdate
    <2>5. QED
      BY <1>1, <2>2, <2>4
  <1>7. QED
    BY <1>4, <1>5, <1>6

-----------------------------------------------------------------------------
(* Types                                                                   *)

LEMMA TypeInit == Init => TypeOK
  BY NoRunAssumption, AbsentIsRow DEF Init, TypeOK, ReqPC, WorkerPC

LEMMA TypeStartRun ==
  ASSUME TypeOK, NEW q \in Request, StartRun(q)
  PROVE  TypeOK'
  <1> USE DEF TypeOK, Goto, workerVars, ReqPC, InFlight
  <1>1. CASE Admit(q) \/ Refuse(q)
    BY <1>1 DEF Admit, Refuse
  <1>2. CASE FailStaleRuns(q)
    BY <1>2, StaleUpdate DEF FailStaleRuns
  <1>3. CASE StaleUnlock(q) \/ CheckActive(q) \/ AcquireLock(q)
    BY <1>3 DEF StaleUnlock, CheckActive, AcquireLock
  <1>4. CASE CreateGraphRun(q)
    <2>1. [status |-> "queued",
           fact |-> IF scope[q] = "full" THEN "pending" ELSE "skipped",
           stale |-> FALSE] \in Row
      BY DEF Row, RowStatus, Fact
    <2>2. QED
      BY <1>4, <2>1 DEF CreateGraphRun
  <1>5. CASE EnqueueBuildRoutes(q) \/ EnqueueFails(q)
    <2>1. Append(queue, q) \in Seq(Request)
      OBVIOUS
    <2>2. queue' \in Seq(Request)
      BY <1>5, <2>1 DEF EnqueueBuildRoutes, EnqueueFails
    <2>3. QED
      BY <1>5, <2>2 DEF EnqueueBuildRoutes, EnqueueFails
  <1>6. CASE UndoLock(q)
    BY <1>6 DEF UndoLock
  <1>7. CASE UndoRow(q)
    <2>1. row' \in [Request -> Row]
      BY <1>7, UndoneRow
    <2>2. QED
      BY <1>7, <2>1 DEF UndoRow
  <1>8. CASE Abort(q)
    BY <1>8 DEF Abort
  <1>9. QED
    BY <1>1, <1>2, <1>3, <1>4, <1>5, <1>6, <1>7, <1>8 DEF StartRun

LEMMA TypeWork ==
  ASSUME TypeOK, Work \/ Crash
  PROVE  TypeOK'
  <1> USE NoRunAssumption, JobIsRun DEF TypeOK, Step, apiVars, WorkerPC
  <1>1. CASE PopJob
    <2>1. Head(queue) \in Request /\ Tail(queue) \in Seq(Request)
      BY <1>1 DEF PopJob
    <2>2. QED
      BY <1>1, <2>1 DEF PopJob
  <1>2. CASE MarkRunning \/ MarkCompleted \/ MarkFailed \/ CallbackMarkFailed
    <2>1. row' \in [Request -> Row]
      BY <1>2, JobUpdate
    <2>2. QED
      BY <1>2, <2>1 DEF MarkRunning, MarkCompleted, MarkFailed,
                        CallbackMarkFailed
  <1>3. CASE ReleaseTripLock \/ PrepareTrip \/ SaveVersion
    BY <1>3 DEF ReleaseTripLock, PrepareTrip, SaveVersion
  <1>4. CASE EnqueueCityFact
    <2>1. Append(factQueue, job) \in Seq(Request)
      BY <1>4 DEF EnqueueCityFact
    <2>2. QED
      BY <1>4, <2>1 DEF EnqueueCityFact
  <1>5. CASE Raise \/ Crash
    BY <1>5 DEF Raise, Crash
  <1>6. CASE CallbackUnlock
    BY <1>6 DEF CallbackUnlock
  <1>7. QED
    BY <1>1, <1>2, <1>3, <1>4, <1>5, <1>6 DEF Work

\* A run that grows old changes in nothing else.
LEMMA AgeUpdate ==
  ASSUME TypeOK, NEW q \in Request, RunGetsOld(q)
  PROVE  /\ row' \in [Request -> Row]
         /\ \A r \in Request \ {q} : row'[r] = row[r]
         /\ row'[q] = [row[q] EXCEPT !.stale = TRUE]
  <1>1. [row[q] EXCEPT !.stale = TRUE] \in Row
    BY RowFields DEF Row
  <1>2. QED
    BY <1>1 DEF RunGetsOld, TypeOK

LEMMA TypeNext == TypeOK /\ [Next]_vars => TypeOK'
  <1> SUFFICES ASSUME TypeOK, [Next]_vars PROVE TypeOK'
    OBVIOUS
  <1>1. CASE \E q \in Request : StartRun(q)
    BY <1>1, TypeStartRun
  <1>2. CASE Work \/ Crash
    BY <1>2, TypeWork
  <1>3. ASSUME NEW q \in Request, RunGetsOld(q)
        PROVE  TypeOK'
    <2>1. row' \in [Request -> Row]
      BY <1>3, AgeUpdate
    <2>2. QED
      BY <1>3, <2>1 DEF RunGetsOld, TypeOK, apiVars, workerVars
  <1>4. CASE DeleteCheck
    BY <1>4 DEF DeleteCheck, TypeOK, workerVars
  <1>5. CASE DeleteTrip
    BY <1>5, AbsentIsRow DEF DeleteTrip, TypeOK, workerVars
  <1>6. CASE LockExpires
    BY <1>6 DEF LockExpires, TypeOK, apiVars, workerVars
  <1>7. CASE UNCHANGED vars
    BY <1>7 DEF vars, TypeOK
  <1>8. QED
    BY <1>1, <1>2, <1>3, <1>4, <1>5, <1>6, <1>7 DEF Next

-----------------------------------------------------------------------------
(* The queue                                                               *)

LEMMA AppendInQueue ==
  ASSUME TypeOK, NEW q \in Request, queue' = Append(queue, q)
  PROVE  \A r : InQueue(r)' <=> InQueue(r) \/ r = q
  <1>1. /\ Len(queue') = Len(queue) + 1
        /\ Len(queue) \in Nat
        /\ queue'[Len(queue) + 1] = q
        /\ \A i \in 1..Len(queue) : queue'[i] = queue[i]
    BY DEF TypeOK
  <1>2. QED
    BY <1>1 DEF InQueue

LEMMA TailInQueue ==
  ASSUME TypeOK, queue # <<>>, queue' = Tail(queue),
         \A i, j \in 1..Len(queue) : queue[i] = queue[j] => i = j
  PROVE  /\ Head(queue) \in Request
         /\ InQueue(Head(queue))
         /\ \A r : InQueue(r)' <=> InQueue(r) /\ r # Head(queue)
         /\ \A i, j \in 1..Len(queue') : queue'[i] = queue'[j] => i = j
  <1>1. /\ Len(queue) \in Nat \ {0}
        /\ Len(queue') = Len(queue) - 1
        /\ Head(queue) = queue[1]
        /\ Head(queue) \in Request
        /\ \A i \in 1..Len(queue') : queue'[i] = queue[i + 1]
    BY DEF TypeOK
  <1>2. InQueue(Head(queue))
    BY <1>1 DEF InQueue
  <1>3. \A i, j \in 1..Len(queue') : queue'[i] = queue'[j] => i = j
    <2>1. \A i \in 1..Len(queue') : i + 1 \in 1..Len(queue) /\ i \in Nat
      BY <1>1
    <2>2. QED
      BY <1>1, <2>1
  <1>4. ASSUME NEW r, InQueue(r)'
        PROVE  InQueue(r) /\ r # Head(queue)
    <2>1. PICK i \in 1..Len(queue') : queue'[i] = r
      BY <1>4 DEF InQueue
    <2>2. i + 1 \in 1..Len(queue) /\ 1 \in 1..Len(queue) /\ i + 1 # 1 /\ queue[i + 1] = r
      BY <1>1, <2>1
    <2>3. QED
      BY <1>1, <2>2 DEF InQueue
  <1>5. ASSUME NEW r, InQueue(r), r # Head(queue)
        PROVE  InQueue(r)'
    <2>1. PICK i \in 1..Len(queue) : queue[i] = r
      BY <1>5 DEF InQueue
    <2>2. i - 1 \in 1..Len(queue') /\ queue'[i - 1] = queue[(i - 1) + 1] /\ (i - 1) + 1 = i
      BY <1>1, <2>1, <1>5
    <2>3. QED
      BY <2>1, <2>2 DEF InQueue
  <1>6. QED
    BY <1>1, <1>2, <1>3, <1>4, <1>5

\* Whoever is in the queue is a run.
LEMMA QueuedIsRun ==
  ASSUME TypeOK, NEW r, InQueue(r)
  PROVE  r \in Request
  BY DEF TypeOK, InQueue

-----------------------------------------------------------------------------
(* Delivered                                                               *)

\* What every action that leaves the queue alone does to it.
LEMMA SameQueue ==
  ASSUME queue' = queue
  PROVE  \A r : InQueue(r)' <=> InQueue(r)
  BY DEF InQueue

LEMMA DeliveredStartRun ==
  ASSUME TypeOK, Delivered, NEW q \in Request, StartRun(q)
  PROVE  Delivered'
  <1>1. job' = job /\ \A r \in Request \ {q} : pc'[r] = pc[r]
    BY DEF StartRun, Admit, Refuse, FailStaleRuns, StaleUnlock, CheckActive,
           AcquireLock, CreateGraphRun, EnqueueBuildRoutes, EnqueueFails,
           UndoLock, UndoRow, Abort, Goto, workerVars, TypeOK
  <1>2. CASE queue' = queue
    <2>1. pc'[q] = "error" \/ (pc[q] = "undoLock" /\ pc'[q] = "undoRow")
          \/ pc[q] \notin {"done", "undoLock", "undoRow", "error"}
      BY DEF StartRun, Admit, Refuse, FailStaleRuns, StaleUnlock, CheckActive,
             AcquireLock, CreateGraphRun, EnqueueBuildRoutes, EnqueueFails,
             UndoLock, UndoRow, Abort, Goto, TypeOK
    <2>2. \A r : InQueue(r)' <=> InQueue(r)
      BY <1>2, SameQueue
    <2>3. QED
      BY <1>1, <1>2, <2>1, <2>2 DEF Delivered, Executes
  <1>3. CASE queue' # queue
    <2>1. /\ pc[q] = "push"
          /\ pc'[q] \in {"done", "undoLock"}
          /\ queue' = Append(queue, q)
      BY <1>3 DEF StartRun, Admit, Refuse, FailStaleRuns, StaleUnlock,
             CheckActive, AcquireLock, CreateGraphRun, EnqueueBuildRoutes,
             EnqueueFails, UndoLock, UndoRow, Abort, Goto, TypeOK
    <2>2. ~InQueue(q) /\ job # q
      BY <2>1 DEF Delivered, Executes
    <2>3. \A r : InQueue(r)' <=> InQueue(r) \/ r = q
      BY <2>1, AppendInQueue
    <2>4. \A i, j \in 1..Len(queue') : queue'[i] = queue'[j] => i = j
      <3>1. /\ Len(queue') = Len(queue) + 1
            /\ Len(queue) \in Nat
            /\ queue'[Len(queue) + 1] = q
            /\ \A i \in 1..Len(queue) : queue'[i] = queue[i] /\ queue[i] # q
        BY <2>1, <2>2 DEF TypeOK, InQueue
      <3>2. QED
        BY <3>1 DEF Delivered
    <2>5. QED
      BY <1>1, <2>1, <2>2, <2>3, <2>4 DEF Delivered, Executes
  <1>4. QED
    BY <1>2, <1>3

LEMMA DeliveredWork ==
  ASSUME TypeOK, Delivered, Work \/ Crash
  PROVE  Delivered'
  <1>1. CASE PopJob
    <2>1. /\ queue # <<>> /\ queue' = Tail(queue) /\ job' = Head(queue)
          /\ pc' = pc
      BY <1>1 DEF PopJob, apiVars
    <2>2. /\ InQueue(Head(queue))
          /\ \A r : InQueue(r)' <=> InQueue(r) /\ r # Head(queue)
          /\ \A i, j \in 1..Len(queue') : queue'[i] = queue'[j] => i = j
      BY <2>1, TailInQueue DEF Delivered
    <2>3. QED
      BY <2>1, <2>2 DEF Delivered, Executes
  <1>2. CASE ~PopJob
    <2>1. queue' = queue /\ pc' = pc /\ job' \in {job, NoRun}
      BY <1>2 DEF Work, Crash, MarkRunning, ReleaseTripLock, PrepareTrip,
           SaveVersion, MarkCompleted, EnqueueCityFact, Raise, MarkFailed,
           CallbackMarkFailed, CallbackUnlock, Step, apiVars
    <2>2. \A r : InQueue(r)' <=> InQueue(r)
      BY <2>1, SameQueue
    <2>3. ~InQueue(NoRun)
      BY NoRunAssumption, QueuedIsRun
    <2>4. QED
      BY <2>1, <2>2, <2>3, NoRunAssumption DEF Delivered, Executes
  <1>3. QED
    BY <1>1, <1>2

\* The actions of the trip, of time and stuttering.
LEMMA OtherSteps ==
  ASSUME [Next]_vars, \A q \in Request : ~StartRun(q), ~(Work \/ Crash)
  PROVE  /\ UNCHANGED <<pc, scope, queue, workerVars, lost>>
         /\ \/ DeleteCheck \/ DeleteTrip \/ LockExpires
            \/ \E q \in Request : RunGetsOld(q)
            \/ UNCHANGED vars
  BY DEF Next, vars, DeleteCheck, DeleteTrip, LockExpires, RunGetsOld, apiVars,
         workerVars

LEMMA DeliveredNext == TypeOK /\ Delivered /\ [Next]_vars => Delivered'
  <1> SUFFICES ASSUME TypeOK, Delivered, [Next]_vars PROVE Delivered'
    OBVIOUS
  <1>1. CASE \E q \in Request : StartRun(q)
    BY <1>1, DeliveredStartRun
  <1>2. CASE Work \/ Crash
    BY <1>2, DeliveredWork
  <1>3. CASE UNCHANGED <<pc, scope, queue, workerVars, lost>>
    BY <1>3, SameQueue DEF Delivered, Executes, InQueue, workerVars
  <1>4. QED
    BY <1>1, <1>2, <1>3, OtherSteps

-----------------------------------------------------------------------------
(* RowFollowsJob                                                           *)

\* What a step of the worker other than PopJob does to the job it has.
LEMMA JobIsDelivered ==
  ASSUME TypeOK, Delivered, worker # "idle"
  PROVE  /\ job \in Request
         /\ ~InQueue(job)
         /\ pc[job] \in {"done", "undoLock", "undoRow", "error"}
  BY JobIsRun DEF Delivered, Executes

LEMMA RowFollowsJobStartRun ==
  ASSUME TypeOK, Delivered, RowFollowsJob, NEW q \in Request, StartRun(q)
  PROVE  RowFollowsJob'
  <1>1. /\ job' = job /\ worker' = worker
        /\ \A r \in Request \ {q} : pc'[r] = pc[r]
    BY DEF StartRun, Admit, Refuse, FailStaleRuns, StaleUnlock, CheckActive,
           AcquireLock, CreateGraphRun, EnqueueBuildRoutes, EnqueueFails,
           UndoLock, UndoRow, Abort, Goto, workerVars, TypeOK
  <1>2. CASE Admit(q) \/ Refuse(q) \/ StaleUnlock(q) \/ CheckActive(q)
             \/ AcquireLock(q) \/ UndoLock(q) \/ Abort(q)
    <2>1. /\ row' = row /\ queue' = queue
          /\ pc'[q] \in (BeforeQueue \ {"push"}) \cup {"refused"} =>
               pc[q] \in BeforeQueue \ {"push"}
          /\ pc'[q] # "push"
      BY <1>2 DEF Admit, Refuse, StaleUnlock, CheckActive, AcquireLock,
                  UndoLock, Abort, Goto, TypeOK, BeforeQueue, InFlight
    <2>2. QED
      BY <1>1, <2>1, SameQueue DEF RowFollowsJob, Executes
  <1>3. CASE FailStaleRuns(q)
    <2>1. /\ queue' = queue
          /\ pc[q] = "failStale" /\ pc'[q] \in {"check", "staleUnlock"}
      BY <1>3 DEF FailStaleRuns, Goto, TypeOK
    <2>2. \A r \in Request :
            \/ row'[r] = row[r]
            \/ row[r] # Absent /\ row'[r].status = "failed"
      BY <1>3, StaleUpdate
    <2>3. QED
      BY <1>1, <2>1, <2>2, SameQueue DEF RowFollowsJob, Executes, BeforeQueue
  <1>4. CASE CreateGraphRun(q)
    <2>1. /\ queue' = queue
          /\ pc[q] = "insert" /\ pc'[q] = "push"
          /\ row'[q].status = "queued"
          /\ \A r \in Request \ {q} : row'[r] = row[r]
      BY <1>4 DEF CreateGraphRun, Goto, TypeOK
    <2>2. ~Executes(q)
      BY <2>1 DEF Delivered
    <2>3. QED
      BY <1>1, <2>1, <2>2, SameQueue DEF RowFollowsJob, Executes, BeforeQueue
  <1>5. CASE EnqueueBuildRoutes(q) \/ EnqueueFails(q)
    <2>1. /\ row' = row
          /\ pc[q] = "push" /\ pc'[q] \in {"done", "undoLock"}
          /\ queue' = queue \/ queue' = Append(queue, q)
      BY <1>5 DEF EnqueueBuildRoutes, EnqueueFails, Goto, TypeOK
    <2>2. \A r : InQueue(r)' => InQueue(r) \/ r = q
      BY <2>1, SameQueue, AppendInQueue
    <2>3. QED
      BY <1>1, <2>1, <2>2 DEF RowFollowsJob, Executes, BeforeQueue
  <1>6. CASE UndoRow(q)
    <2>1. /\ queue' = queue
          /\ pc[q] = "undoRow" /\ pc'[q] = "error"
      BY <1>6 DEF UndoRow, Goto, TypeOK
    <2>2. /\ row'[q].status \in {"failed", "absent"}
          /\ \A r \in Request \ {q} : row'[r] = row[r]
      BY <1>6, UndoneRow
    <2>3. QED
      BY <1>1, <2>1, <2>2, SameQueue DEF RowFollowsJob, Executes, BeforeQueue
  <1>7. QED
    BY <1>2, <1>3, <1>4, <1>5, <1>6 DEF StartRun

LEMMA RowFollowsJobWork ==
  ASSUME TypeOK, Delivered, RowFollowsJob, Work \/ Crash
  PROVE  RowFollowsJob'
  <1>1. CASE PopJob
    <2>1. /\ queue # <<>> /\ queue' = Tail(queue) /\ job' = Head(queue)
          /\ pc' = pc /\ row' = row /\ worker' = "popped"
      BY <1>1 DEF PopJob, apiVars
    <2>2. /\ InQueue(Head(queue))
          /\ \A r : InQueue(r)' => InQueue(r)
      BY <2>1, TailInQueue DEF Delivered
    <2>3. QED
      BY <2>1, <2>2 DEF RowFollowsJob, Executes
  <1>2. CASE ~PopJob
    <2>1. queue' = queue /\ pc' = pc /\ job' \in {job, NoRun}
      BY <1>2 DEF Work, Crash, MarkRunning, ReleaseTripLock, PrepareTrip,
           SaveVersion, MarkCompleted, EnqueueCityFact, Raise, MarkFailed,
           CallbackMarkFailed, CallbackUnlock, Step, apiVars
    <2>2. \A r : InQueue(r)' <=> InQueue(r)
      BY <2>1, SameQueue
    <2>3. \A r \in Request : Executes(r)' => Executes(r)
      BY <2>1, NoRunAssumption DEF Executes
    <2>4. CASE MarkRunning \/ MarkCompleted \/ MarkFailed \/ CallbackMarkFailed
      <3>1. /\ worker # "idle" /\ worker' # "popped"
            /\ ~MarkRunning =>
                 worker' \notin {"running", "unlocked", "building", "saved"}
        BY <2>4 DEF MarkRunning, MarkCompleted, MarkFailed,
                    CallbackMarkFailed, Step
      <3>2. job \in Request /\ ~InQueue(job)
            /\ pc[job] \in {"done", "undoLock", "undoRow", "error"}
        BY <3>1, JobIsDelivered
      <3>3. /\ \A r \in Request \ {job} : row'[r] = row[r]
            /\ MarkRunning => row'[job].status \in {"running", "absent"}
        BY <2>4, JobUpdate
      <3>4. QED
        BY <2>1, <2>2, <2>3, <3>1, <3>2, <3>3
           DEF RowFollowsJob, Executes, BeforeQueue
    <2>5. CASE ~(MarkRunning \/ MarkCompleted \/ MarkFailed \/ CallbackMarkFailed)
      <3>1. /\ row' = row
            /\ worker' # "popped"
            /\ worker' \in {"running", "unlocked", "building", "saved"} =>
                 worker \in {"running", "unlocked", "building"}
        BY <1>2, <2>5 DEF Work, Crash, ReleaseTripLock, PrepareTrip,
             SaveVersion, EnqueueCityFact, Raise, CallbackUnlock, Step
      <3>2. QED
        BY <2>1, <2>2, <2>3, <3>1 DEF RowFollowsJob
    <2>6. QED
      BY <2>4, <2>5
  <1>3. QED
    BY <1>1, <1>2

LEMMA RowFollowsJobNext ==
  TypeOK /\ Delivered /\ RowFollowsJob /\ [Next]_vars => RowFollowsJob'
  <1> SUFFICES ASSUME TypeOK, Delivered, RowFollowsJob, [Next]_vars
               PROVE  RowFollowsJob'
    OBVIOUS
  <1>1. CASE \E q \in Request : StartRun(q)
    BY <1>1, RowFollowsJobStartRun
  <1>2. CASE Work \/ Crash
    BY <1>2, RowFollowsJobWork
  <1>3. CASE /\ UNCHANGED <<pc, scope, queue, workerVars, lost>>
             /\ row' = row
    BY <1>3, SameQueue DEF RowFollowsJob, Executes, workerVars
  <1>4. CASE /\ UNCHANGED <<pc, scope, queue, workerVars, lost>>
             /\ DeleteTrip
    <2>1. \A q \in Request : row'[q] = Absent
      BY <1>4 DEF DeleteTrip
    <2>2. QED
      BY <2>1 DEF RowFollowsJob, Absent
  <1>5. CASE /\ UNCHANGED <<pc, scope, queue, workerVars, lost>>
             /\ \E q \in Request : RunGetsOld(q)
    <2>1. \A r \in Request : /\ row'[r].status = row[r].status
                             /\ row[r] = Absent => row'[r] = Absent
      BY <1>5, AgeUpdate, RowFields DEF RunGetsOld, Active, Absent, Row
    <2>2. QED
      BY <1>5, <2>1, SameQueue DEF RowFollowsJob, Executes, workerVars
  <1>6. QED
    BY <1>1, <1>2, <1>3, <1>4, <1>5, OtherSteps
       DEF DeleteCheck, LockExpires, vars, apiVars

-----------------------------------------------------------------------------
(* Versions                                                                *)

LEMMA JobHasVersionNext ==
  TypeOK /\ JobHasVersion /\ [Next]_vars => JobHasVersion'
  <1> SUFFICES ASSUME TypeOK, JobHasVersion, [Next]_vars
               PROVE  JobHasVersion'
    OBVIOUS
  <1>1. CASE \E q \in Request : StartRun(q)
    BY <1>1 DEF StartRun, Admit, Refuse, FailStaleRuns, StaleUnlock,
           CheckActive, AcquireLock, CreateGraphRun, EnqueueBuildRoutes,
           EnqueueFails, UndoLock, UndoRow, Abort, workerVars, JobHasVersion
  <1>2. CASE Work \/ Crash
    BY <1>2 DEF Work, Crash, PopJob, MarkRunning, ReleaseTripLock, PrepareTrip,
           SaveVersion, MarkCompleted, EnqueueCityFact, Raise, MarkFailed,
           CallbackMarkFailed, CallbackUnlock, Step, apiVars, JobHasVersion
  <1>3. CASE UNCHANGED <<pc, scope, queue, workerVars, lost>>
    BY <1>3 DEF JobHasVersion, workerVars
  <1>4. QED
    BY <1>1, <1>2, <1>3, OtherSteps

\* A row becomes completed in MarkCompleted only, and a fact is asked for in
\* EnqueueCityFact only: there JobHasVersion holds.
LEMMA CompletedHasVersionNext ==
  TypeOK /\ JobHasVersion /\ CompletedHasVersion /\ [Next]_vars
    => CompletedHasVersion'
  <1> SUFFICES ASSUME TypeOK, JobHasVersion, CompletedHasVersion, [Next]_vars
               PROVE  CompletedHasVersion'
    OBVIOUS
  <1> DEFINE Completed(q) == row[q].status = "completed"
             Facts(s) == \A i \in 1..Len(s) :
                           s[i] \in saved /\ scope[s[i]] = "full"
  <1>1. /\ \A q \in Request : Completed(q) => q \in saved
        /\ Facts(factQueue)
    BY DEF CompletedHasVersion
  <1>2. ASSUME UNCHANGED <<factQueue, saved, scope>>,
               \A q \in Request : Completed(q)' => Completed(q)
        PROVE  CompletedHasVersion'
    BY <1>1, <1>2 DEF CompletedHasVersion
  <1>3. ASSUME NEW q \in Request, StartRun(q)
        PROVE  CompletedHasVersion'
    <2>1. UNCHANGED <<factQueue, saved, scope>>
      BY <1>3 DEF StartRun, Admit, Refuse, FailStaleRuns, StaleUnlock,
           CheckActive, AcquireLock, CreateGraphRun, EnqueueBuildRoutes,
           EnqueueFails, UndoLock, UndoRow, Abort, workerVars
    <2>2. CASE FailStaleRuns(q)
      BY <1>2, <2>1, <2>2, StaleUpdate
    <2>3. CASE CreateGraphRun(q)
      <3>1. /\ row'[q].status = "queued"
            /\ \A r \in Request \ {q} : row'[r] = row[r]
        BY <2>3 DEF CreateGraphRun, TypeOK
      <3>2. QED
        BY <1>2, <2>1, <3>1
    <2>4. CASE UndoRow(q)
      BY <1>2, <2>1, <2>4, UndoneRow
    <2>5. CASE row' = row
      BY <1>2, <2>1, <2>5
    <2>6. QED
      BY <1>3, <2>2, <2>3, <2>4, <2>5 DEF StartRun, Admit, Refuse,
           StaleUnlock, CheckActive, AcquireLock, EnqueueBuildRoutes,
           EnqueueFails, UndoLock, Abort
  <1>4. CASE MarkCompleted
    <2>1. /\ UNCHANGED <<factQueue, saved, scope>>
          /\ job \in saved
      BY <1>4 DEF MarkCompleted, Step, apiVars, JobHasVersion
    <2>2. \A r \in Request \ {job} : row'[r] = row[r]
      BY <1>4, JobUpdate
    <2>3. QED
      BY <1>1, <2>1, <2>2 DEF CompletedHasVersion
  <1>5. CASE MarkRunning \/ MarkFailed \/ CallbackMarkFailed
    <2>1. UNCHANGED <<factQueue, saved, scope>>
      BY <1>5 DEF MarkRunning, MarkFailed, CallbackMarkFailed, apiVars
    <2>2. /\ \A r \in Request \ {job} : row'[r] = row[r]
          /\ job \in Request
          /\ row'[job].status = "completed" => row[job].status = "completed"
      BY <1>5, JobUpdate, JobIsRun
    <2>3. QED
      BY <1>2, <2>1, <2>2
  <1>6. CASE SaveVersion
    <2>1. UNCHANGED <<factQueue, scope, row>> /\ saved \subseteq saved'
      BY <1>6 DEF SaveVersion, apiVars
    <2>2. QED
      BY <1>1, <2>1 DEF CompletedHasVersion
  <1>7. CASE EnqueueCityFact
    <2>1. /\ UNCHANGED <<saved, scope, row>>
          /\ job \in saved /\ scope[job] = "full"
          /\ factQueue' = Append(factQueue, job)
      BY <1>7 DEF EnqueueCityFact, Step, apiVars, JobHasVersion
    <2>2. /\ Len(factQueue') = Len(factQueue) + 1
          /\ Len(factQueue) \in Nat
          /\ factQueue'[Len(factQueue) + 1] = job
          /\ \A i \in 1..Len(factQueue) : factQueue'[i] = factQueue[i]
      BY <2>1 DEF TypeOK
    <2>3. \A i \in 1..Len(factQueue') :
            factQueue'[i] \in saved /\ scope[factQueue'[i]] = "full"
      BY <1>1, <2>1, <2>2
    <2>4. QED
      BY <1>1, <2>1, <2>3 DEF CompletedHasVersion
  <1>8. CASE PopJob \/ ReleaseTripLock \/ PrepareTrip \/ Raise
             \/ CallbackUnlock \/ Crash
    <2>1. UNCHANGED <<factQueue, saved, scope, row>>
      BY <1>8 DEF PopJob, ReleaseTripLock, PrepareTrip, Raise, CallbackUnlock,
                  Crash, apiVars
    <2>2. QED
      BY <1>2, <2>1
  <1>9. ASSUME UNCHANGED <<factQueue, saved, scope>>, DeleteTrip
        PROVE  CompletedHasVersion'
    <2>1. \A q \in Request : row'[q].status = "absent"
      BY <1>9 DEF DeleteTrip, Absent
    <2>2. QED
      BY <1>2, <1>9, <2>1
  <1>10. ASSUME UNCHANGED <<factQueue, saved, scope>>,
                NEW q \in Request, RunGetsOld(q)
         PROVE  CompletedHasVersion'
    <2>1. /\ \A r \in Request \ {q} : row'[r] = row[r]
          /\ row'[q].status = row[q].status
      BY <1>10, AgeUpdate, RowFields DEF Row
    <2>2. QED
      BY <1>2, <1>10, <2>1
  <1>11. CASE UNCHANGED <<factQueue, saved, scope>> /\ row' = row
    BY <1>2, <1>11
  <1>12. QED
    BY <1>3, <1>4, <1>5, <1>6, <1>7, <1>8, <1>9, <1>10, <1>11, OtherSteps
       DEF Work, workerVars, DeleteCheck, LockExpires, vars, apiVars

-----------------------------------------------------------------------------
(* Deletion                                                                *)

LEMMA DeletedTripHasNoRunsNext ==
  TypeOK /\ DeletedTripHasNoRuns /\ [Next]_vars => DeletedTripHasNoRuns'
  <1> SUFFICES ASSUME TypeOK, DeletedTripHasNoRuns, [Next]_vars, ~trip'
               PROVE  \A q \in Request : row'[q] = Absent
    BY DEF DeletedTripHasNoRuns
  <1>1. CASE DeleteTrip
    BY <1>1 DEF DeleteTrip
  <1>2. CASE ~DeleteTrip
    <2>1. trip' = trip
      BY <1>2 DEF Next, StartRun, Admit, Refuse, FailStaleRuns, StaleUnlock,
           CheckActive, AcquireLock, CreateGraphRun, EnqueueBuildRoutes,
           EnqueueFails, UndoLock, UndoRow, Abort, Work, Crash, PopJob,
           MarkRunning, ReleaseTripLock, PrepareTrip, SaveVersion,
           MarkCompleted, EnqueueCityFact, Raise, MarkFailed,
           CallbackMarkFailed, CallbackUnlock, DeleteCheck, RunGetsOld,
           LockExpires, apiVars, vars
    <2>2. /\ ~trip
          /\ \A q \in Request : /\ row[q] = Absent
                                /\ row[q].status = "absent"
                                /\ ~Active(q)
      BY <2>1 DEF DeletedTripHasNoRuns, Absent, Active
    <2>3. ASSUME NEW q \in Request, StartRun(q)
          PROVE  \A r \in Request : row'[r] = row[r]
      <3>1. CASE FailStaleRuns(q)
        BY <2>2, <3>1, StaleUpdate
      <3>2. CASE UndoRow(q)
        BY <2>2, <3>2, UndoneRow
      <3>3. CASE ~FailStaleRuns(q) /\ ~UndoRow(q)
        BY <2>2, <2>3, <3>3 DEF StartRun, Admit, Refuse, StaleUnlock,
             CheckActive, AcquireLock, CreateGraphRun, EnqueueBuildRoutes,
             EnqueueFails, UndoLock, Abort
      <3>4. QED
        BY <3>1, <3>2, <3>3
    <2>4. ASSUME Work \/ Crash
          PROVE  \A r \in Request : row'[r] = row[r]
      <3>1. CASE MarkRunning \/ MarkCompleted \/ MarkFailed \/ CallbackMarkFailed
        BY <2>2, <3>1, JobUpdate, JobIsRun
      <3>2. CASE ~(MarkRunning \/ MarkCompleted \/ MarkFailed
                   \/ CallbackMarkFailed)
        BY <2>4, <3>2 DEF Work, Crash, PopJob, ReleaseTripLock, PrepareTrip,
             SaveVersion, EnqueueCityFact, Raise, CallbackUnlock
      <3>3. QED
        BY <3>1, <3>2
    <2>5. \A q \in Request : ~RunGetsOld(q)
      BY <2>2 DEF RunGetsOld
    <2>6. QED
      BY <1>2, <2>2, <2>3, <2>4, <2>5, OtherSteps
         DEF DeleteCheck, LockExpires, vars, apiVars
  <1>3. QED
    BY <1>1, <1>2

-----------------------------------------------------------------------------
(* The lock                                                                *)

LEMMA LockHasReleaserStartRun ==
  ASSUME TypeOK, LockHasReleaser, NEW q \in Request, StartRun(q)
  PROVE  LockHasReleaser'
  <1>1. /\ job' = job /\ worker' = worker /\ lost \subseteq lost'
        /\ \A r \in Request \ {q} : pc'[r] = pc[r]
    BY DEF StartRun, Admit, Refuse, FailStaleRuns, StaleUnlock, CheckActive,
           AcquireLock, CreateGraphRun, EnqueueBuildRoutes, EnqueueFails,
           UndoLock, UndoRow, Abort, Goto, workerVars, TypeOK
  <1>2. lock' \in {lock, q, NoRun} /\ lock \in Request \cup {NoRun}
    BY DEF StartRun, Admit, Refuse, FailStaleRuns, StaleUnlock, CheckActive,
           AcquireLock, CreateGraphRun, EnqueueBuildRoutes, EnqueueFails,
           UndoLock, UndoRow, Abort, TypeOK
  <1>3. \A r : InQueue(r) => InQueue(r)'
    <2>1. queue' = queue \/ queue' = Append(queue, q)
      BY DEF StartRun, Admit, Refuse, FailStaleRuns, StaleUnlock, CheckActive,
           AcquireLock, CreateGraphRun, EnqueueBuildRoutes, EnqueueFails,
           UndoLock, UndoRow, Abort
    <2>2. QED
      BY <2>1, SameQueue, AppendInQueue
  <1>4. CASE lock' # NoRun /\ lock' # q
    <2>1. lock' = lock /\ lock \in Request \ {q}
      BY <1>2, <1>4
    <2>2. QED
      BY <1>1, <1>3, <2>1 DEF LockHasReleaser, WillRelease, Executes
  <1>5. CASE lock' = q /\ lock' # NoRun
    <2>1. CASE EnqueueBuildRoutes(q)
      <3>1. queue' = Append(queue, q)
        BY <2>1 DEF EnqueueBuildRoutes
      <3>2. InQueue(q)'
        BY <3>1, AppendInQueue
      <3>3. QED
        BY <1>5, <3>2 DEF LockHasReleaser, WillRelease
    <2>2. CASE AcquireLock(q) \/ CreateGraphRun(q) \/ EnqueueFails(q) \/ Abort(q)
      <3>1. pc'[q] \in {"insert", "push", "undoLock"} \/ q \in lost'
            \/ (lock' = lock /\ pc[q] = "lock" /\ pc'[q] = "refused")
        BY <2>2 DEF AcquireLock, CreateGraphRun, EnqueueFails, Abort, Goto,
             TypeOK
      <3>2. QED
        BY <1>1, <1>3, <1>5, <3>1 DEF LockHasReleaser, WillRelease, Executes
    <2>3. CASE Admit(q) \/ Refuse(q) \/ FailStaleRuns(q) \/ CheckActive(q)
               \/ UndoRow(q)
      <3>1. /\ pc[q] \notin {"insert", "push", "undoLock"}
            /\ lock' = lock
        BY <2>3 DEF Admit, Refuse, FailStaleRuns, CheckActive, UndoRow, Goto
      <3>2. QED
        BY <1>1, <1>3, <1>5, <3>1 DEF LockHasReleaser, WillRelease, Executes
    <2>4. QED
      BY <1>5, <2>1, <2>2, <2>3 DEF StartRun, StaleUnlock, UndoLock
  <1>6. QED
    BY <1>4, <1>5 DEF LockHasReleaser

LEMMA LockHasReleaserWork ==
  ASSUME TypeOK, Delivered, LockHasReleaser, Work \/ Crash
  PROVE  LockHasReleaser'
  <1>1. CASE PopJob
    <2>1. /\ queue # <<>> /\ queue' = Tail(queue) /\ job' = Head(queue)
          /\ worker = "idle" /\ worker' = "popped"
          /\ pc' = pc /\ lost' = lost /\ lock' = lock
      BY <1>1 DEF PopJob, apiVars
    <2>2. \A r : InQueue(r)' <=> InQueue(r) /\ r # Head(queue)
      BY <2>1, TailInQueue DEF Delivered
    <2>3. QED
      BY <2>1, <2>2 DEF LockHasReleaser, WillRelease, Executes
  <1>2. CASE ReleaseTripLock \/ CallbackUnlock
    BY <1>2 DEF ReleaseTripLock, CallbackUnlock, LockHasReleaser
  <1>3. CASE Crash
    BY <1>3, SameQueue
       DEF Crash, apiVars, LockHasReleaser, WillRelease, Executes
  <1>4. CASE MarkRunning \/ PrepareTrip \/ SaveVersion \/ MarkCompleted
             \/ EnqueueCityFact \/ Raise \/ MarkFailed \/ CallbackMarkFailed
    <2>1. /\ queue' = queue /\ pc' = pc /\ lost' = lost /\ lock' = lock
          /\ worker \in {"popped", "running", "raised", "unlocking"} =>
               /\ worker' \in {"popped", "running", "raised", "unlocking"}
               /\ job' = job
      BY <1>4 DEF MarkRunning, PrepareTrip, SaveVersion, MarkCompleted,
           EnqueueCityFact, Raise, MarkFailed, CallbackMarkFailed, Step, apiVars
    <2>2. QED
      BY <2>1, SameQueue DEF LockHasReleaser, WillRelease, Executes
  <1>5. QED
    BY <1>1, <1>2, <1>3, <1>4 DEF Work

LEMMA LockHasReleaserNext ==
  TypeOK /\ Delivered /\ LockHasReleaser /\ [Next]_vars => LockHasReleaser'
  <1> SUFFICES ASSUME TypeOK, Delivered, LockHasReleaser, [Next]_vars
               PROVE  LockHasReleaser'
    OBVIOUS
  <1>1. CASE \E q \in Request : StartRun(q)
    BY <1>1, LockHasReleaserStartRun
  <1>2. CASE Work \/ Crash
    BY <1>2, LockHasReleaserWork
  <1>3. CASE /\ UNCHANGED <<pc, scope, queue, workerVars, lost>>
             /\ lock' = lock
    BY <1>3, SameQueue
       DEF LockHasReleaser, WillRelease, Executes, workerVars
  <1>4. CASE LockExpires
    BY <1>4 DEF LockExpires, LockHasReleaser
  <1>5. QED
    BY <1>1, <1>2, <1>3, <1>4, OtherSteps
       DEF DeleteCheck, DeleteTrip, RunGetsOld, vars, apiVars

-----------------------------------------------------------------------------
(* Owners                                                                  *)

LEMMA ActiveRunHasOwnerStartRun ==
  ASSUME TypeOK, ActiveRunHasOwner, NEW q \in Request, StartRun(q)
  PROVE  ActiveRunHasOwner'
  <1>1. /\ job' = job /\ worker' = worker /\ lost \subseteq lost'
        /\ \A r \in Request \ {q} : pc'[r] = pc[r]
    BY DEF StartRun, Admit, Refuse, FailStaleRuns, StaleUnlock, CheckActive,
           AcquireLock, CreateGraphRun, EnqueueBuildRoutes, EnqueueFails,
           UndoLock, UndoRow, Abort, Goto, workerVars, TypeOK
  <1>2. \A r : InQueue(r) => InQueue(r)'
    <2>1. queue' = queue \/ queue' = Append(queue, q)
      BY DEF StartRun, Admit, Refuse, FailStaleRuns, StaleUnlock, CheckActive,
           AcquireLock, CreateGraphRun, EnqueueBuildRoutes, EnqueueFails,
           UndoLock, UndoRow, Abort
    <2>2. QED
      BY <2>1, SameQueue, AppendInQueue
  <1>3. ASSUME \A r \in Request : row'[r].status \in {"queued", "running"} =>
                                    row'[r].status = row[r].status,
               \/ pc'[q] = pc[q] \/ q \in lost'
               \/ pc[q] \notin {"push", "undoLock", "undoRow"}
               \/ pc'[q] \in {"push", "undoLock", "undoRow"}
               \/ InQueue(q)'
               \/ row'[q].status \notin {"queued", "running"}
        PROVE  ActiveRunHasOwner'
    BY <1>1, <1>2, <1>3
       DEF ActiveRunHasOwner, QueuedHasOwner, RunningHasOwner, Executes
  <1>4. CASE FailStaleRuns(q)
    <2>1. pc[q] = "failStale"
      BY <1>4 DEF FailStaleRuns, Goto
    <2>2. \A r \in Request : row'[r].status \in {"queued", "running"} =>
                               row'[r].status = row[r].status
      BY <1>4, StaleUpdate
    <2>3. QED
      BY <1>3, <2>1, <2>2
  <1>5. CASE CreateGraphRun(q)
    <2>1. /\ pc'[q] = "push"
          /\ row'[q].status = "queued"
          /\ \A r \in Request \ {q} : row'[r] = row[r]
      BY <1>5 DEF CreateGraphRun, Goto, TypeOK
    <2>2. QED
      BY <1>1, <1>2, <2>1
         DEF ActiveRunHasOwner, QueuedHasOwner, RunningHasOwner, Executes
  <1>6. CASE UndoRow(q)
    <2>1. \A r \in Request : row'[r].status \in {"queued", "running"} =>
                               row'[r].status = row[r].status
      BY <1>6, UndoneRow
    <2>2. row'[q].status \notin {"queued", "running"}
      BY <1>6, UndoneRow
    <2>3. QED
      BY <1>3, <2>1, <2>2
  <1>7. CASE EnqueueBuildRoutes(q)
    <2>1. row' = row /\ queue' = Append(queue, q)
      BY <1>7 DEF EnqueueBuildRoutes
    <2>2. InQueue(q)'
      BY <2>1, AppendInQueue
    <2>3. QED
      BY <1>3, <2>1, <2>2
  <1>8. CASE Admit(q) \/ Refuse(q) \/ StaleUnlock(q) \/ CheckActive(q)
             \/ AcquireLock(q) \/ EnqueueFails(q) \/ UndoLock(q) \/ Abort(q)
    <2>1. /\ row' = row
          /\ \/ q \in lost'
             \/ pc[q] \notin {"push", "undoLock", "undoRow"}
             \/ pc'[q] \in {"push", "undoLock", "undoRow"}
      BY <1>8 DEF Admit, Refuse, StaleUnlock, CheckActive, AcquireLock,
           EnqueueFails, UndoLock, Abort, Goto, TypeOK
    <2>2. QED
      BY <1>3, <2>1
  <1>9. QED
    BY <1>4, <1>5, <1>6, <1>7, <1>8 DEF StartRun

LEMMA ActiveRunHasOwnerWork ==
  ASSUME TypeOK, Delivered, ActiveRunHasOwner, Work \/ Crash
  PROVE  ActiveRunHasOwner'
  <1>1. CASE PopJob
    <2>1. /\ queue # <<>> /\ queue' = Tail(queue) /\ job' = Head(queue)
          /\ worker = "idle" /\ worker' = "popped"
          /\ pc' = pc /\ lost' = lost /\ row' = row
      BY <1>1 DEF PopJob, apiVars
    <2>2. \A r : InQueue(r)' <=> InQueue(r) /\ r # Head(queue)
      BY <2>1, TailInQueue DEF Delivered
    <2>3. QED
      BY <2>1, <2>2
         DEF ActiveRunHasOwner, QueuedHasOwner, RunningHasOwner, Executes
  <1>2. CASE MarkRunning \/ MarkCompleted \/ MarkFailed \/ CallbackMarkFailed
    <2>1. /\ queue' = queue /\ pc' = pc /\ lost' = lost
          /\ MarkRunning => job' = job /\ worker' = "running"
      BY <1>2 DEF MarkRunning, MarkCompleted, MarkFailed, CallbackMarkFailed,
                  Step, apiVars
    <2>2. /\ job \in Request
          /\ \A r \in Request \ {job} : row'[r] = row[r]
          /\ row'[job].status \in {"queued", "running"} =>
               MarkRunning /\ row'[job].status = "running"
      <3>1. job \in Request
        BY <1>2, JobUpdate, JobIsRun
      <3>2. QED
        BY <1>2, <3>1, JobUpdate
    <2>3. \A r \in Request : InQueue(r)' <=> InQueue(r)
      BY <2>1, SameQueue
    <2>4. ASSUME NEW r \in Request, r # job
          PROVE  /\ row'[r].status = "queued" => QueuedHasOwner(r)'
                 /\ row'[r].status = "running" => RunningHasOwner(r)'
      BY <2>1, <2>2, <2>3, <2>4
         DEF ActiveRunHasOwner, QueuedHasOwner, RunningHasOwner, Executes
    <2>5. ASSUME NEW r \in Request, r = job
          PROVE  /\ row'[r].status = "queued" => QueuedHasOwner(r)'
                 /\ row'[r].status = "running" => RunningHasOwner(r)'
      BY <2>1, <2>2, <2>5
         DEF ActiveRunHasOwner, QueuedHasOwner, RunningHasOwner, Executes
    <2>6. QED
      BY <2>4, <2>5 DEF ActiveRunHasOwner
  <1>3. CASE Crash
    BY <1>3, SameQueue
       DEF Crash, apiVars, ActiveRunHasOwner, QueuedHasOwner, RunningHasOwner,
           Executes
  <1>4. CASE ReleaseTripLock \/ PrepareTrip \/ SaveVersion
             \/ EnqueueCityFact \/ Raise \/ CallbackUnlock
    <2>1. /\ queue' = queue /\ pc' = pc /\ lost' = lost /\ row' = row
          /\ worker \in {"popped", "raised"} =>
               job' = job /\ worker' = "raised"
          /\ worker \in {"running", "unlocked", "building", "saved",
                         "failing", "raised"} =>
               /\ worker' \in {"running", "unlocked", "building", "saved",
                               "failing", "raised"}
               /\ job' = job
      BY <1>4 DEF ReleaseTripLock, PrepareTrip, SaveVersion, EnqueueCityFact,
           Raise, CallbackUnlock, Step, apiVars
    <2>2. QED
      BY <2>1, SameQueue
         DEF ActiveRunHasOwner, QueuedHasOwner, RunningHasOwner, Executes
  <1>5. QED
    BY <1>1, <1>2, <1>3, <1>4 DEF Work

LEMMA ActiveRunHasOwnerNext ==
  TypeOK /\ Delivered /\ ActiveRunHasOwner /\ [Next]_vars => ActiveRunHasOwner'
  <1> SUFFICES ASSUME TypeOK, Delivered, ActiveRunHasOwner, [Next]_vars
               PROVE  ActiveRunHasOwner'
    OBVIOUS
  <1>1. CASE \E q \in Request : StartRun(q)
    BY <1>1, ActiveRunHasOwnerStartRun
  <1>2. CASE Work \/ Crash
    BY <1>2, ActiveRunHasOwnerWork
  <1>3. CASE /\ UNCHANGED <<pc, scope, queue, workerVars, lost>>
             /\ \A r \in Request :
                  row'[r].status \in {"queued", "running"} =>
                    row'[r].status = row[r].status
    BY <1>3, SameQueue
       DEF ActiveRunHasOwner, QueuedHasOwner, RunningHasOwner, Executes,
           workerVars
  <1>4. CASE DeleteTrip
    BY <1>4 DEF DeleteTrip, Absent, ActiveRunHasOwner
  <1>5. ASSUME NEW q \in Request, RunGetsOld(q)
        PROVE  \A r \in Request : row'[r].status = row[r].status
    BY <1>5, AgeUpdate, RowFields DEF Row
  <1>6. QED
    BY <1>1, <1>2, <1>3, <1>4, <1>5, OtherSteps
       DEF DeleteCheck, LockExpires, vars, apiVars

-----------------------------------------------------------------------------
(* The inductive invariant                                                 *)

LEMMA IInvInit == Init => IInv
  <1> SUFFICES ASSUME Init PROVE IInv
    OBVIOUS
  <1>1. TypeOK
    BY TypeInit
  <1>2. \A r : ~InQueue(r)
    BY DEF Init, InQueue
  <1>3. \A q \in Request : row[q] = Absent /\ row[q].status = "absent"
    BY DEF Init, Absent
  <1>4. \A q \in Request : ~Executes(q)
    BY NoRunAssumption DEF Init, Executes
  <1>5. Delivered /\ RowFollowsJob
    BY <1>2, <1>3, <1>4 DEF Init, Delivered, RowFollowsJob
  <1>6. JobHasVersion /\ LockHasReleaser /\ DeletedTripHasNoRuns
    BY DEF Init, JobHasVersion, LockHasReleaser, DeletedTripHasNoRuns
  <1>7. ActiveRunHasOwner /\ CompletedHasVersion
    BY <1>3 DEF Init, ActiveRunHasOwner, CompletedHasVersion
  <1>8. QED
    BY <1>1, <1>5, <1>6, <1>7 DEF IInv

LEMMA IInvNext == IInv /\ [Next]_vars => IInv'
  BY TypeNext, DeliveredNext, RowFollowsJobNext, JobHasVersionNext,
     LockHasReleaserNext, ActiveRunHasOwnerNext, CompletedHasVersionNext,
     DeletedTripHasNoRunsNext DEF IInv

(***************************************************************************)
(* The inductive invariant holds in every reachable state of startRun, the *)
(* worker and the deletion of a trip, for any number of requests.          *)
(***************************************************************************)
THEOREM Invariance == Spec => []IInv
  BY IInvInit, IInvNext, PTL DEF Spec

(***************************************************************************)
(* Every variable keeps its type; the worker has a job exactly while it is *)
(* not idle (the main loop of worker/__main__.py).                         *)
(***************************************************************************)
THEOREM TypeCorrect == Spec => []TypeOK
  BY TypeInit, TypeNext, PTL DEF Spec

(***************************************************************************)
(* The build lock of the trip always has somebody who will release it, or  *)
(* the run that set it was cut short (releaseTripBuildLock in startRun,    *)
(* build_routes_task and on_json_job_failure).                             *)
(***************************************************************************)
THEOREM LockNeverLeaks == Spec => []LockHasReleaser
  <1>1. IInv => LockHasReleaser
    BY DEF IInv
  <1>2. QED
    BY <1>1, Invariance, PTL

(***************************************************************************)
(* A queued or running row of graph_runs has a request, a job or the       *)
(* worker that will move it on, unless its run was cut short.              *)
(***************************************************************************)
THEOREM RunsHaveOwners == Spec => []ActiveRunHasOwner
  <1>1. IInv => ActiveRunHasOwner
    BY DEF IInv
  <1>2. QED
    BY <1>1, Invariance, PTL

(***************************************************************************)
(* A run that build_routes_task reports as completed has saved its         *)
(* version, and a city fact is asked for only then.                        *)
(***************************************************************************)
THEOREM CompletedRunsHaveVersions == Spec => []CompletedHasVersion
  <1>1. IInv => CompletedHasVersion
    BY DEF IInv
  <1>2. QED
    BY <1>1, Invariance, PTL

(***************************************************************************)
(* No request and no job brings a run of a deleted trip back (the cascade  *)
(* and the UPDATEs by id).                                                 *)
(***************************************************************************)
THEOREM DeletedTripStaysEmpty == Spec => []DeletedTripHasNoRuns
  <1>1. IInv => DeletedTripHasNoRuns
    BY DEF IInv
  <1>2. QED
    BY <1>1, Invariance, PTL

-----------------------------------------------------------------------------
(* Status                                                                  *)

LEMMA StatusStep ==
  IInv /\ [Next]_vars => [\A q \in Request : StatusMove(q)]_vars
  <1> SUFFICES ASSUME IInv, [Next]_vars, NEW p \in Request,
                      row'[p].status # row[p].status
               PROVE  row'[p].status \in MayBecome[row[p].status]
    BY DEF StatusMove
  <1> USE DEF MayBecome
  <1>1. TypeOK /\ Delivered /\ RowFollowsJob
    BY DEF IInv
  <1>2. row[p].status \in RowStatus
    BY <1>1, RowFields
  <1>3. ASSUME NEW q \in Request, StartRun(q)
        PROVE  row'[p].status \in MayBecome[row[p].status]
    <2>1. CASE FailStaleRuns(q)
      <3>1. row'[p].status = "failed" /\ row[p].status \in {"queued", "running"}
        BY <1>1, <2>1, StaleUpdate DEF Active
      <3>2. QED
        BY <3>1
    <2>2. CASE CreateGraphRun(q)
      <3>1. /\ pc[q] = "insert"
            /\ row'[q].status = "queued"
            /\ \A r \in Request \ {q} : row'[r] = row[r]
        BY <1>1, <2>2 DEF CreateGraphRun, Goto, TypeOK
      <3>2. row[q] = Absent
        BY <1>1, <3>1 DEF RowFollowsJob, BeforeQueue
      <3>3. QED
        BY <3>1, <3>2 DEF Absent
    <2>3. CASE UndoRow(q)
      <3>1. row'[p].status = "failed" /\ row[p].status # "absent" /\ p = q
        BY <1>1, <2>3, UndoneRow
      <3>2. row[p].status # "failed"
        BY <3>1
      <3>3. QED
        BY <1>2, <3>1, <3>2 DEF RowStatus
    <2>4. CASE ~(FailStaleRuns(q) \/ CreateGraphRun(q) \/ UndoRow(q))
      BY <1>3, <2>4 DEF StartRun, Admit, Refuse, StaleUnlock, CheckActive,
           AcquireLock, EnqueueBuildRoutes, EnqueueFails, UndoLock, Abort
    <2>5. QED
      BY <2>1, <2>2, <2>3, <2>4
  <1>4. CASE MarkRunning \/ MarkCompleted \/ MarkFailed \/ CallbackMarkFailed
    <2>1. /\ p = job /\ row[p].status # "absent"
          /\ MarkRunning => row'[p].status = "running"
          /\ MarkCompleted => row'[p].status = "completed"
          /\ MarkFailed \/ CallbackMarkFailed => row'[p].status = "failed"
      BY <1>1, <1>4, JobUpdate
    <2>2. MarkRunning => row[p].status \notin {"running", "completed"}
      BY <1>1, <2>1 DEF MarkRunning, Step, RowFollowsJob, Executes
    <2>3. MarkCompleted => row[p].status \notin {"queued", "completed"}
      BY <1>1, <2>1 DEF MarkCompleted, Step, RowFollowsJob, Executes
    <2>4. QED
      BY <1>2, <1>4, <2>1, <2>2, <2>3 DEF RowStatus
  <1>5. CASE PopJob \/ ReleaseTripLock \/ PrepareTrip \/ SaveVersion
             \/ EnqueueCityFact \/ Raise \/ CallbackUnlock \/ Crash
    BY <1>5 DEF PopJob, ReleaseTripLock, PrepareTrip, SaveVersion,
         EnqueueCityFact, Raise, CallbackUnlock, Crash
  <1>6. CASE DeleteTrip
    <2>1. row'[p].status = "absent"
      BY <1>6 DEF DeleteTrip, Absent
    <2>2. QED
      BY <1>2, <2>1 DEF RowStatus
  <1>7. ASSUME NEW q \in Request, RunGetsOld(q)
        PROVE  FALSE
    BY <1>1, <1>7, AgeUpdate, RowFields DEF Row
  <1>8. QED
    BY <1>3, <1>4, <1>5, <1>6, <1>7, OtherSteps
       DEF Work, DeleteCheck, LockExpires, vars, apiVars

(***************************************************************************)
(* The status of a run moves only along MayBecome, although no UPDATE of   *)
(* graph_runs looks at the old status.                                     *)
(***************************************************************************)
THEOREM StatusMovesAsAllowed == Spec => StatusMoves
  BY Invariance, StatusStep, PTL DEF Spec, StatusMoves

-----------------------------------------------------------------------------
(* Refinement of BuildOnce                                                 *)

LEMMA PhaseInit == Init => Once!Init
  BY NoRunAssumption DEF Init, Once!Init, Phase, Executes, BeforeQueue

LEMMA PhaseOf ==
  ASSUME NEW q \in Request
  PROVE  /\ Phase[q] = "executing" <=> Executes(q)
         /\ Phase[q] = "waiting" <=>
              ~Executes(q) /\ (InQueue(q) \/ pc[q] \in BeforeQueue)
         /\ Phase[q] = "over" <=>
              ~Executes(q) /\ ~InQueue(q) /\ pc[q] \notin BeforeQueue
  BY DEF Phase

\* A step that changes the phase of q alone.
LEMMA PhaseExcept ==
  ASSUME NEW q \in Request, NEW x,
         \A r \in Request \ {q} : Phase'[r] = Phase[r],
         Phase'[q] = x
  PROVE  Phase' = [Phase EXCEPT ![q] = x]
  BY DEF Phase

LEMMA PhaseSame ==
  ASSUME \A r \in Request : Phase'[r] = Phase[r]
  PROVE  Phase' = Phase
  BY DEF Phase

LEMMA PhaseStartRun ==
  ASSUME TypeOK, Delivered, NEW q \in Request, StartRun(q)
  PROVE  Once!Drop(q) \/ Phase' = Phase
  <1>1. job' = job /\ \A r \in Request \ {q} : pc'[r] = pc[r]
    BY DEF StartRun, Admit, Refuse, FailStaleRuns, StaleUnlock, CheckActive,
           AcquireLock, CreateGraphRun, EnqueueBuildRoutes, EnqueueFails,
           UndoLock, UndoRow, Abort, Goto, workerVars, TypeOK
  <1>2. /\ queue' = queue \/ (queue' = Append(queue, q) /\ pc[q] = "push")
        /\ pc'[q] \in BeforeQueue => pc[q] \in BeforeQueue
    BY DEF StartRun, Admit, Refuse, FailStaleRuns, StaleUnlock, CheckActive,
           AcquireLock, CreateGraphRun, EnqueueBuildRoutes, EnqueueFails,
           UndoLock, UndoRow, Abort, Goto, TypeOK, BeforeQueue, InFlight
  <1>3. /\ \A r \in Request \ {q} : InQueue(r)' <=> InQueue(r)
        /\ InQueue(q) => InQueue(q)'
        /\ InQueue(q)' => InQueue(q) \/ pc[q] \in BeforeQueue
    BY <1>2, SameQueue, AppendInQueue DEF BeforeQueue
  <1>4. \A r \in Request \ {q} : Phase'[r] = Phase[r]
    BY <1>1, <1>3 DEF Phase, Executes
  <1>5. CASE Phase'[q] = Phase[q]
    BY <1>4, <1>5, PhaseSame
  <1>6. CASE Phase'[q] # Phase[q]
    <2>1. Phase[q] = "waiting" /\ Phase'[q] = "over"
      BY <1>1, <1>2, <1>3, <1>6 DEF Phase, Executes
    <2>2. QED
      BY <1>4, <2>1, PhaseExcept DEF Once!Drop
  <1>7. QED
    BY <1>5, <1>6

LEMMA PhaseWork ==
  ASSUME TypeOK, Delivered, Work \/ Crash
  PROVE  (\E q \in Request : Once!Begin(q) \/ Once!End(q)) \/ Phase' = Phase
  <1>1. CASE PopJob
    <2>1. /\ queue # <<>> /\ queue' = Tail(queue) /\ job' = Head(queue)
          /\ worker = "idle" /\ pc' = pc
      BY <1>1 DEF PopJob, apiVars
    <2>2. /\ Head(queue) \in Request
          /\ InQueue(Head(queue))
          /\ \A r : InQueue(r)' <=> InQueue(r) /\ r # Head(queue)
      BY <2>1, TailInQueue DEF Delivered
    <2>3. \A r \in Request : ~Executes(r)
      BY <2>1, NoRunAssumption DEF TypeOK, Executes
    <2>4. /\ Phase[Head(queue)] = "waiting"
          /\ \A r \in Request : Phase[r] # "executing"
      BY <2>2, <2>3, PhaseOf
    <2>5. /\ \A r \in Request \ {Head(queue)} : Phase'[r] = Phase[r]
          /\ \A r \in Request : r = Head(queue) => Phase'[r] = "executing"
      BY <2>1, <2>2, <2>3 DEF Phase, Executes
    <2> DEFINE h == Head(queue)
    <2>6. Phase' = [Phase EXCEPT ![h] = "executing"]
      <3>1. /\ \A r \in Request \ {h} : Phase'[r] = Phase[r]
            /\ Phase'[h] = "executing" /\ h \in Request
        BY <2>2, <2>5
      <3>2. Phase' \in [Request -> {"executing", "waiting", "over"}]
            /\ Phase \in [Request -> {"executing", "waiting", "over"}]
        BY DEF Phase
      <3>3. QED
        BY <3>1, <3>2
    <2>7. QED
      BY <2>2, <2>4, <2>6 DEF Once!Begin
  <1>2. CASE ~PopJob
    <2>1. queue' = queue /\ pc' = pc /\ job' \in {job, NoRun}
      BY <1>2 DEF Work, Crash, MarkRunning, ReleaseTripLock, PrepareTrip,
           SaveVersion, MarkCompleted, EnqueueCityFact, Raise, MarkFailed,
           CallbackMarkFailed, CallbackUnlock, Step, apiVars
    <2>2. \A r \in Request : InQueue(r)' <=> InQueue(r)
      BY <2>1, SameQueue
    <2>3. CASE job' = job
      BY <2>1, <2>2, <2>3 DEF Phase, Executes
    <2>4. CASE job' # job
      <3>1. job \in Request /\ job' = NoRun
        BY <2>1, <2>4 DEF TypeOK
      <3>2. ~InQueue(job) /\ pc[job] \notin BeforeQueue
        BY <3>1 DEF Delivered, Executes, BeforeQueue
      <3> DEFINE h == job
      <3>3. /\ Phase[h] = "executing"
            /\ \A r \in Request \ {h} : Phase'[r] = Phase[r]
            /\ \A r \in Request : r = h => Phase'[r] = "over"
        BY <2>1, <2>2, <3>1, <3>2, NoRunAssumption DEF Phase, Executes
      <3>4. Phase' \in [Request -> {"executing", "waiting", "over"}]
            /\ Phase \in [Request -> {"executing", "waiting", "over"}]
        BY DEF Phase
      <3>5. Phase' = [Phase EXCEPT ![h] = "over"]
        BY <3>1, <3>3, <3>4
      <3>6. QED
        BY <3>1, <3>3, <3>5 DEF Once!End
    <2>5. QED
      BY <2>3, <2>4
  <1>3. QED
    BY <1>1, <1>2

LEMMA PhaseNext == TypeOK /\ Delivered /\ [Next]_vars => [Once!Next]_Phase
  <1> SUFFICES ASSUME TypeOK, Delivered, [Next]_vars
               PROVE  Once!Next \/ Phase' = Phase
    OBVIOUS
  <1>1. CASE \E q \in Request : StartRun(q)
    BY <1>1, PhaseStartRun DEF Once!Next
  <1>2. CASE Work \/ Crash
    BY <1>2, PhaseWork DEF Once!Next
  <1>3. CASE UNCHANGED <<pc, scope, queue, workerVars, lost>>
    BY <1>3, SameQueue DEF Phase, Executes, workerVars
  <1>4. QED
    BY <1>1, <1>2, <1>3, OtherSteps

(***************************************************************************)
(* GraphRuns implements BuildOnce: whatever fails, is retried or dies      *)
(* between startRun and the worker, no run is executed twice and no two at *)
(* a time.                                                                 *)
(***************************************************************************)
THEOREM Refinement == Spec => ExecutedAtMostOnce
  <1>1. IInv => TypeOK /\ Delivered
    BY DEF IInv
  <1>2. QED
    BY <1>1, PhaseInit, PhaseNext, Invariance, PTL
       DEF Spec, ExecutedAtMostOnce, Once!Spec

-----------------------------------------------------------------------------
(* OrderlySpec: startRun keeps one active run per trip when requests come  *)
(* one at a time, only runs without a job grow old, and an RPUSH that      *)
(* throws has not pushed.                                                  *)

LEMMA OrderlyInvInit == Init => OrderlyInv
  <1> SUFFICES ASSUME Init PROVE OrderlyInv
    OBVIOUS
  <1>1. TypeOK /\ Delivered
    BY IInvInit DEF IInv
  <1>2. \A r : ~InQueue(r)
    BY DEF Init, InQueue
  <1>3. \A q \in Request : ~Active(q) /\ ~Executes(q)
    BY NoRunAssumption DEF Init, Active, Absent, Executes
  <1>4. QED
    BY <1>1, <1>2, <1>3 DEF Init, OrderlyInv, OneInFlight, JobIsFresh,
       UndoneHasNoJob, LockedIsAlone, SingleActiveRun, InFlight

-----------------------------------------------------------------------------
(* Which steps make a row active, or old                                   *)

LEMMA QueueStartRun ==
  ASSUME TypeOK, Orderly, NEW q \in Request, StartRun(q)
  PROVE  /\ job' = job /\ worker' = worker
         /\ \A r \in Request \ {q} : pc'[r] = pc[r] /\ (InQueue(r)' <=> InQueue(r))
         /\ \/ InQueue(q)' <=> InQueue(q)
            \/ pc[q] = "push" /\ pc'[q] = "done"
  <1>1. /\ job' = job /\ worker' = worker
        /\ \A r \in Request \ {q} : pc'[r] = pc[r]
    BY DEF StartRun, Admit, Refuse, FailStaleRuns, StaleUnlock, CheckActive,
           AcquireLock, CreateGraphRun, EnqueueBuildRoutes, EnqueueFails,
           UndoLock, UndoRow, Abort, Goto, workerVars, TypeOK
  <1>2. CASE EnqueueBuildRoutes(q)
    <2>1. /\ pc[q] = "push" /\ pc'[q] = "done" /\ queue' = Append(queue, q)
      BY <1>2 DEF EnqueueBuildRoutes, Goto, TypeOK
    <2>2. QED
      BY <1>1, <2>1, AppendInQueue
  <1>3. CASE EnqueueFails(q)
    <2>1. pc[q] = "push" /\ pc'[q] = "undoLock"
      BY <1>3 DEF EnqueueFails, Goto, TypeOK
    <2>2. queue' = queue
      BY <2>1 DEF Orderly
    <2>3. QED
      BY <1>1, <2>2, SameQueue
  <1>4. CASE queue' = queue
    BY <1>1, <1>4, SameQueue
  <1>5. QED
    BY <1>2, <1>3, <1>4 DEF StartRun, Admit, Refuse, FailStaleRuns,
       StaleUnlock, CheckActive, AcquireLock, CreateGraphRun, UndoLock,
       UndoRow, Abort

\* Only CreateGraphRun makes a row active, and it leaves no row old.
LEMMA RowsStartRun ==
  ASSUME TypeOK, NEW q \in Request, StartRun(q)
  PROVE  \A r \in Request :
           \/ row'[r] = row[r]
           \/ /\ ~Active(r)'
              /\ \/ FailStaleRuns(q) /\ row[r].stale
                 \/ UndoRow(q) /\ r = q
           \/ /\ CreateGraphRun(q) /\ r = q
              /\ row'[r].status = "queued" /\ ~row'[r].stale
  <1>1. CASE FailStaleRuns(q)
    BY <1>1, StaleUpdate DEF Active
  <1>2. CASE UndoRow(q)
    BY <1>2, UndoneRow DEF Active
  <1>3. CASE CreateGraphRun(q)
    <2>1. /\ row'[q].status = "queued" /\ ~row'[q].stale
          /\ \A r \in Request \ {q} : row'[r] = row[r]
      BY <1>3 DEF CreateGraphRun, TypeOK
    <2>2. QED
      BY <1>3, <2>1
  <1>4. CASE row' = row
    BY <1>4
  <1>5. QED
    BY <1>1, <1>2, <1>3, <1>4 DEF StartRun, Admit, Refuse, StaleUnlock,
       CheckActive, AcquireLock, EnqueueBuildRoutes, EnqueueFails, UndoLock,
       Abort

\* The worker makes no row active: a job it begins has a queued row.
LEMMA RowsWork ==
  ASSUME TypeOK, Delivered, JobIsFresh, Work \/ Crash
  PROVE  /\ \A r \in Request : Active(r)' => Active(r)
         /\ \A r \in Request : r # job => row'[r] = row[r]
         /\ MarkRunning \/ MarkCompleted \/ MarkFailed \/ CallbackMarkFailed
            \/ row' = row
  <1>1. CASE MarkRunning \/ MarkCompleted \/ MarkFailed \/ CallbackMarkFailed
    <2>1. MarkRunning => row[job].status \in {"queued", "absent"}
      <3>1. MarkRunning => worker = "popped" /\ job \in Request
        BY JobIsRun DEF MarkRunning, Step
      <3>2. QED
        BY <3>1 DEF JobIsFresh, Executes
    <2>2. \A r \in Request : r # job => row'[r] = row[r]
      BY <1>1, JobUpdate
    <2>4. ASSUME NEW r \in Request, r = job, row'[r].status \in {"queued", "running"}
          PROVE  row[r].status \in {"queued", "running"}
      BY <1>1, <2>1, <2>4, JobUpdate
    <2>5. QED
      BY <1>1, <2>2, <2>4 DEF Active
  <1>2. CASE row' = row
    BY <1>2 DEF Active
  <1>3. QED
    BY <1>1, <1>2 DEF Work, Crash, PopJob, ReleaseTripLock, PrepareTrip,
       SaveVersion, EnqueueCityFact, Raise, CallbackUnlock

-----------------------------------------------------------------------------
(* Steps                                                                   *)

LEMMA OrderlyStartRun ==
  ASSUME OrderlyInv, Orderly, NEW q \in Request, StartRun(q)
  PROVE  /\ OneInFlight' /\ JobIsFresh' /\ UndoneHasNoJob'
         /\ LockedIsAlone' /\ SingleActiveRun'
  <1>0. /\ TypeOK /\ Delivered /\ OneInFlight /\ JobIsFresh
        /\ UndoneHasNoJob /\ LockedIsAlone /\ SingleActiveRun
    BY DEF OrderlyInv
  <1>1. /\ job' = job /\ worker' = worker
        /\ \A r \in Request \ {q} : pc'[r] = pc[r] /\ (InQueue(r)' <=> InQueue(r))
        /\ \/ InQueue(q)' <=> InQueue(q)
           \/ pc[q] = "push" /\ pc'[q] = "done"
    BY <1>0, QueueStartRun
  <1>2. \A r \in Request :
           \/ row'[r] = row[r]
           \/ /\ ~Active(r)'
              /\ \/ FailStaleRuns(q) /\ row[r].stale
                 \/ UndoRow(q) /\ r = q
           \/ /\ CreateGraphRun(q) /\ r = q
              /\ row'[r].status = "queued" /\ ~row'[r].stale
    BY <1>0, RowsStartRun
  <1>3. OneInFlight'
    <2>1. pc'[q] \in InFlight =>
            \/ pc[q] \in InFlight
            \/ pc[q] = "idle"
      BY DEF StartRun, Admit, Refuse, FailStaleRuns, StaleUnlock, CheckActive,
           AcquireLock, CreateGraphRun, EnqueueBuildRoutes, EnqueueFails,
           UndoLock, UndoRow, Abort, Goto, InFlight
    <2>2. pc'[q] \in InFlight => \A r \in Request \ {q} : pc[r] \notin InFlight
      BY <1>0, <2>1 DEF Orderly, OneInFlight
    <2>3. QED
      BY <1>0, <1>1, <2>2 DEF OneInFlight
  <1>4. ASSUME pc[q] \in InFlight
        PROVE  \A r \in Request \ {q} : pc[r] \notin InFlight
    BY <1>0, <1>4 DEF OneInFlight
  <1>5. JobIsFresh'
    <2>1. ASSUME NEW r \in Request, r # q,
                 pc'[r] = "push" \/ InQueue(r)'
                   \/ (Executes(r)' /\ worker' = "popped")
          PROVE  row'[r].status \in {"queued", "absent"} /\ ~row'[r].stale
      <3>1. row[r].status \in {"queued", "absent"} /\ ~row[r].stale
        BY <1>0, <1>1, <2>1 DEF JobIsFresh, Executes
      <3>2. row'[r] = row[r]
        BY <1>2, <2>1, <3>1
      <3>3. QED
        BY <3>1, <3>2
    <2>2. ASSUME pc'[q] = "push" \/ InQueue(q)'
                   \/ (Executes(q)' /\ worker' = "popped")
          PROVE  row'[q].status \in {"queued", "absent"} /\ ~row'[q].stale
      <3>1. CASE CreateGraphRun(q)
        BY <3>1 DEF CreateGraphRun, TypeOK, OrderlyInv
      <3>2. CASE ~CreateGraphRun(q)
        <4>1. pc'[q] # "push" \/ pc[q] = "push"
          BY <1>0, <3>2 DEF StartRun, Admit, Refuse, FailStaleRuns,
             StaleUnlock, CheckActive, AcquireLock, EnqueueBuildRoutes,
             EnqueueFails, UndoLock, UndoRow, Abort, Goto, TypeOK
        <4>2. row[q].status \in {"queued", "absent"} /\ ~row[q].stale
          BY <1>0, <1>1, <2>2, <4>1 DEF JobIsFresh, Executes
        <4>3. ~UndoRow(q)
          <5>1. UndoRow(q) => pc[q] = "undoRow" /\ pc'[q] = "error"
            BY <1>0 DEF UndoRow, Goto, TypeOK
          <5>2. QED
            BY <1>0, <1>1, <2>2, <5>1 DEF UndoneHasNoJob, Executes
        <4>4. row'[q] = row[q]
          BY <1>2, <3>2, <4>2, <4>3
        <4>5. QED
          BY <4>2, <4>4
      <3>3. QED
        BY <3>1, <3>2
    <2>3. QED
      BY <2>1, <2>2 DEF JobIsFresh
  <1>6. UndoneHasNoJob'
    <2>1. CASE pc'[q] \in {"undoLock", "undoRow"}
      <3>1. \/ pc[q] \in {"undoLock", "undoRow"}
            \/ pc[q] = "push" /\ EnqueueFails(q)
        BY <1>0, <2>1 DEF StartRun, Admit, Refuse, FailStaleRuns, StaleUnlock,
           CheckActive, AcquireLock, CreateGraphRun, EnqueueBuildRoutes,
           EnqueueFails, UndoLock, UndoRow, Abort, Goto, TypeOK
      <3>2. ~InQueue(q) /\ ~Executes(q)
        BY <1>0, <3>1 DEF UndoneHasNoJob, Delivered
      <3>3. QED
        BY <1>0, <1>1, <2>1, <3>2 DEF UndoneHasNoJob, Executes
    <2>2. CASE pc'[q] \notin {"undoLock", "undoRow"}
      BY <1>0, <1>1, <2>2 DEF UndoneHasNoJob, Executes
    <2>3. QED
      BY <2>1, <2>2
  <1>7. LockedIsAlone' /\ SingleActiveRun'
    <2>1. CASE CreateGraphRun(q)
      <3>1. pc[q] = "insert" /\ pc'[q] = "push"
        BY <1>0, <2>1 DEF CreateGraphRun, Goto, TypeOK
      <3>2. \A r \in Request : ~Active(r)
        BY <1>0, <3>1 DEF LockedIsAlone
      <3>3. \A r \in Request \ {q} : row'[r] = row[r]
        BY <1>0, <2>1 DEF CreateGraphRun, TypeOK
      <3>4. \A r \in Request \ {q} : ~Active(r)'
        BY <3>2, <3>3 DEF Active
      <3>5. \A r \in Request : pc'[r] \notin {"lock", "insert"}
        BY <1>1, <1>4, <3>1 DEF InFlight
      <3>6. QED
        BY <3>4, <3>5 DEF LockedIsAlone, SingleActiveRun
    <2>2. CASE ~CreateGraphRun(q)
      <3>1. \A r \in Request : Active(r)' => Active(r)
        BY <1>2, <2>2 DEF Active
      <3>2. pc'[q] \in {"lock", "insert"} =>
              pc[q] = "lock" \/ (pc[q] = "check" /\ CheckActive(q))
        BY <1>0 DEF StartRun, Admit, Refuse, FailStaleRuns, StaleUnlock,
           CheckActive, AcquireLock, CreateGraphRun, EnqueueBuildRoutes,
           EnqueueFails, UndoLock, UndoRow, Abort, Goto, TypeOK
      <3>3. CheckActive(q) /\ pc'[q] = "lock" => \A r \in Request : ~Active(r)
        BY <1>0 DEF CheckActive, Goto, TypeOK
      <3>4. pc'[q] \in {"lock", "insert"} => \A r \in Request : ~Active(r)
        <4>1. CASE pc[q] = "lock"
          BY <1>0, <4>1 DEF LockedIsAlone
        <4>2. CASE pc[q] = "check" /\ CheckActive(q)
          <5>1. pc'[q] # "insert"
            BY <1>0, <4>2 DEF CheckActive, Goto, TypeOK
          <5>2. QED
            BY <3>3, <4>2, <5>1
        <4>3. QED
          BY <3>2, <4>1, <4>2
      <3>5. QED
        BY <1>0, <1>1, <3>1, <3>4 DEF LockedIsAlone, SingleActiveRun
    <2>3. QED
      BY <2>1, <2>2
  <1>8. QED
    BY <1>3, <1>5, <1>6, <1>7

LEMMA OrderlyWork ==
  ASSUME OrderlyInv, Work \/ Crash
  PROVE  /\ OneInFlight' /\ JobIsFresh' /\ UndoneHasNoJob'
         /\ LockedIsAlone' /\ SingleActiveRun'
  <1>0. /\ TypeOK /\ Delivered /\ OneInFlight /\ JobIsFresh
        /\ UndoneHasNoJob /\ LockedIsAlone /\ SingleActiveRun
    BY DEF OrderlyInv
  <1>1. /\ \A r \in Request : Active(r)' => Active(r)
        /\ \A r \in Request : r # job => row'[r] = row[r]
        /\ MarkRunning \/ MarkCompleted \/ MarkFailed \/ CallbackMarkFailed
           \/ row' = row
    BY <1>0, RowsWork
  <1>2. pc' = pc
    BY DEF Work, Crash, PopJob, MarkRunning, ReleaseTripLock, PrepareTrip,
           SaveVersion, MarkCompleted, EnqueueCityFact, Raise, MarkFailed,
           CallbackMarkFailed, CallbackUnlock, apiVars
  <1>3. OneInFlight' /\ LockedIsAlone' /\ SingleActiveRun'
    BY <1>0, <1>1, <1>2 DEF OneInFlight, LockedIsAlone, SingleActiveRun
  <1>4. CASE PopJob
    <2>1. /\ queue # <<>> /\ queue' = Tail(queue) /\ job' = Head(queue)
          /\ row' = row
      BY <1>4 DEF PopJob
    <2>2. /\ InQueue(Head(queue))
          /\ \A r : InQueue(r)' => InQueue(r)
      BY <1>0, <2>1, TailInQueue DEF Delivered
    <2>3. \A r \in Request : InQueue(r)' \/ Executes(r)' => InQueue(r)
      BY <2>1, <2>2 DEF Executes
    <2>4. QED
      BY <1>0, <1>2, <1>3, <2>1, <2>3 DEF JobIsFresh, UndoneHasNoJob
  <1>5. CASE ~PopJob
    <2>1. /\ queue' = queue /\ job' \in {job, NoRun} /\ worker' # "popped"
          /\ row' # row => worker # "idle"
      BY <1>1, <1>5 DEF Work, Crash, MarkRunning, ReleaseTripLock, PrepareTrip,
           SaveVersion, MarkCompleted, EnqueueCityFact, Raise, MarkFailed,
           CallbackMarkFailed, CallbackUnlock, Step
    <2>2. /\ \A r : InQueue(r)' <=> InQueue(r)
          /\ \A r \in Request : Executes(r)' => Executes(r)
      BY <2>1, SameQueue, NoRunAssumption DEF Executes
    <2>3. UndoneHasNoJob'
      BY <1>0, <1>2, <2>2 DEF UndoneHasNoJob
    <2>4. ASSUME NEW r \in Request, pc'[r] = "push" \/ InQueue(r)'
          PROVE  row'[r].status \in {"queued", "absent"} /\ ~row'[r].stale
      <3>1. row' = row \/ r # job
        BY <1>0, <1>2, <2>1, <2>2, <2>4, JobIsDelivered
      <3>2. QED
        BY <1>0, <1>1, <1>2, <2>2, <2>4, <3>1 DEF JobIsFresh
    <2>5. QED
      BY <1>3, <2>1, <2>3, <2>4 DEF JobIsFresh
  <1>6. QED
    BY <1>4, <1>5

LEMMA OrderlyInvNext == OrderlyInv /\ [Next /\ Orderly]_vars => OrderlyInv'
  <1> SUFFICES ASSUME OrderlyInv, [Next /\ Orderly]_vars
               PROVE  OrderlyInv'
    OBVIOUS
  <1>0. /\ TypeOK /\ Delivered /\ OneInFlight /\ JobIsFresh
        /\ UndoneHasNoJob /\ LockedIsAlone /\ SingleActiveRun
    BY DEF OrderlyInv
  <1>1. TypeOK' /\ Delivered'
    BY <1>0, TypeNext, DeliveredNext
  <1>2. CASE \E q \in Request : StartRun(q) /\ Orderly
    BY <1>1, <1>2, OrderlyStartRun DEF OrderlyInv
  <1>3. CASE Work \/ Crash
    BY <1>1, <1>3, OrderlyWork DEF OrderlyInv
  <1>4. ASSUME UNCHANGED <<pc, scope, queue, workerVars, lost>>,
               \A r \in Request : row'[r] = row[r] \/ row'[r] = Absent
        PROVE  OrderlyInv'
    <2>1. \A r \in Request :
            /\ Active(r)' => Active(r)
            /\ row[r].status \in {"queued", "absent"} /\ ~row[r].stale =>
                 row'[r].status \in {"queued", "absent"} /\ ~row'[r].stale
      BY <1>4 DEF Active, Absent
    <2>2. \A r : (InQueue(r)' <=> InQueue(r)) /\ (Executes(r)' <=> Executes(r))
      BY <1>4, SameQueue DEF Executes, workerVars
    <2>3. QED
      BY <1>0, <1>1, <1>4, <2>1, <2>2
         DEF OrderlyInv, OneInFlight, JobIsFresh, UndoneHasNoJob,
             LockedIsAlone, SingleActiveRun, workerVars
  <1>5. ASSUME UNCHANGED <<pc, scope, queue, workerVars, lost>>, Orderly,
               NEW q \in Request, RunGetsOld(q)
        PROVE  OrderlyInv'
    <2>1. /\ \A r \in Request \ {q} : row'[r] = row[r]
          /\ row'[q].status = row[q].status /\ row'[q].stale
          /\ ~row[q].stale /\ pc[q] \notin InFlight
      BY <1>0, <1>5, AgeUpdate, RowFields DEF Row, RunGetsOld
    <2>2. ~InQueue(q) /\ ~Executes(q)
      BY <1>5, <2>1 DEF Orderly
    <2>3. \A r : (InQueue(r)' <=> InQueue(r)) /\ (Executes(r)' <=> Executes(r))
      BY <1>5, SameQueue DEF Executes, workerVars
    <2>4. \A r \in Request : Active(r)' <=> Active(r)
      BY <2>1 DEF Active
    <2>5. JobIsFresh'
      BY <1>0, <1>5, <2>1, <2>2, <2>3 DEF JobIsFresh, InFlight, workerVars
    <2>6. QED
      BY <1>0, <1>1, <1>5, <2>3, <2>4, <2>5
         DEF OrderlyInv, OneInFlight, UndoneHasNoJob, LockedIsAlone,
             SingleActiveRun
  <1>6. [Next]_vars
    OBVIOUS
  <1>7. CASE UNCHANGED vars
    BY <1>4, <1>7 DEF vars, workerVars
  <1>8. CASE Next /\ Orderly
    <2>1. CASE \E q \in Request : StartRun(q)
      BY <1>2, <1>8, <2>1
    <2>2. CASE ~(\E q \in Request : StartRun(q)) /\ ~(Work \/ Crash)
      <3>1. /\ UNCHANGED <<pc, scope, queue, workerVars, lost>>
            /\ \/ DeleteCheck \/ DeleteTrip \/ LockExpires
               \/ \E q \in Request : RunGetsOld(q)
               \/ UNCHANGED vars
        BY <1>6, <2>2, OtherSteps
      <3>2. CASE DeleteCheck \/ LockExpires \/ UNCHANGED vars
        <4>1. row' = row
          BY <3>2 DEF DeleteCheck, LockExpires, vars
        <4>2. QED
          BY <1>4, <3>1, <4>1
      <3>3. CASE DeleteTrip
        <4>1. \A r \in Request : row'[r] = row[r] \/ row'[r] = Absent
          BY <3>3 DEF DeleteTrip
        <4>2. QED
          BY <1>4, <3>1, <4>1
      <3>4. CASE \E q \in Request : RunGetsOld(q)
        BY <1>5, <1>8, <3>1, <3>4
      <3>5. QED
        BY <3>1, <3>2, <3>3, <3>4
    <2>3. QED
      BY <1>3, <2>1, <2>2
  <1>9. QED
    BY <1>7, <1>8

(***************************************************************************)
(* What the 409 of startRun promises, under the assumptions of Orderly: at *)
(* most one run of a trip is queued or running, whatever crashes and       *)
(* whoever deletes the trip.                                               *)
(***************************************************************************)
THEOREM OneActiveRun == OrderlySpec => []SingleActiveRun
  <1>1. OrderlyInv => SingleActiveRun
    BY DEF OrderlyInv
  <1>2. QED
    BY <1>1, OrderlyInvInit, OrderlyInvNext, PTL DEF OrderlySpec
=============================================================================
