------------------------------ MODULE GraphRuns ------------------------------
(***************************************************************************)
(* The life of a graph run (one build of a trip's route program), from the *)
(* HTTP request that starts it to the worker that executes it.             *)
(*                                                                         *)
(* Several API requests run startRun (api-node/src/services/runManager.ts) *)
(* for the same trip at once: every await is a step, so requests           *)
(* interleave with each other, with the deletion of the trip and with the  *)
(* single Python worker (worker/__main__.py, worker/tasks.py).  They meet  *)
(* in the graph_runs table, in the Redis key trip:<id>:build_lock and in   *)
(* the Redis list tourist:queue:build_routes.  The module follows one      *)
(* trip: rows, lock and queue entries of other trips do not touch it, they *)
(* only make its job wait longer.                                          *)
(*                                                                         *)
(* A request creates at most one row, so a run is named by its request.    *)
(***************************************************************************)
EXTENDS Naturals, Sequences

CONSTANTS
  Request,   \* calls of startRun for the trip
  NoRun      \* no run: the lock is free, or the worker has no job

ASSUME NoRunAssumption == NoRun \notin Request

VARIABLES
  trip,      \* is there a row for the trip in table trips?
  deleter,   \* DELETE /api/trips/:id: "idle", or "checked" no run is active
  pc,        \* where each request is in startRun
  scope,     \* the scope each request asks for
  row,       \* table graph_runs
  lock,      \* trip:<id>:build_lock; the code stores "1", here: who set it
  queue,     \* tourist:queue:build_routes
  factQueue, \* tourist:queue:city_fact, the jobs build_routes_task leaves
  worker,    \* where the worker is in build_routes_task
  job,       \* the run the worker executes
  saved,     \* runs that have inserted an itinerary version
  lost       \* history: runs whose request or job was cut short for good

vars == <<trip, deleter, pc, scope, row, lock, queue, factQueue, worker, job,
          saved, lost>>

Scope     == {"full", "routes"}
RowStatus == {"absent", "queued", "running", "completed", "failed"}
Fact      == {"none", "pending", "failed", "skipped"}

InFlight == {"failStale", "staleUnlock", "check", "lock", "insert", "push",
             "undoLock", "undoRow"}
ReqPC    == InFlight \cup {"idle", "done", "refused", "error"}
WorkerPC == {"idle", "popped", "running", "unlocked", "building", "saved",
             "completed", "failing", "raised", "unlocking"}

(***************************************************************************)
(* stale stands for the age of the row: more than graphRunStaleSec since   *)
(* created_at while queued, since started_at while running.                *)
(***************************************************************************)
Row    == [status : RowStatus, fact : Fact, stale : BOOLEAN]
Absent == [status |-> "absent", fact |-> "none", stale |-> FALSE]

Active(q)   == row[q].status \in {"queued", "running"}
InQueue(q)  == \E i \in 1..Len(queue) : queue[i] = q
Executes(q) == job = q

Goto(q, from, to) ==
  /\ pc[q] = from
  /\ pc' = [pc EXCEPT ![q] = to]

(***************************************************************************)
(* An UPDATE of graph_runs by id: it touches no row once the trip, and     *)
(* with it its runs, was deleted.  There is no guard on the old status.    *)
(***************************************************************************)
UpdateRow(q, status, fact, stale) ==
  row' = IF row[q].status = "absent" THEN row
         ELSE [row EXCEPT ![q] = [status |-> status, fact |-> fact,
                                  stale |-> stale]]

Init ==
  /\ trip = TRUE
  /\ deleter = "idle"
  /\ pc = [q \in Request |-> "idle"]
  /\ scope \in [Request -> Scope]
  /\ row = [q \in Request |-> Absent]
  /\ lock = NoRun
  /\ queue = <<>>
  /\ factQueue = <<>>
  /\ worker = "idle"
  /\ job = NoRun
  /\ saved = {}
  /\ lost = {}

workerVars == <<factQueue, worker, job, saved>>

-----------------------------------------------------------------------------
(* startRun                                                                *)

\* getTrip, the quota (module RunQuota) and the audit event.
Admit(q) ==
  /\ trip
  /\ Goto(q, "idle", "failStale")
  /\ UNCHANGED <<trip, deleter, scope, row, lock, queue, workerVars, lost>>

\* The trip does not exist, or the quota is exceeded.
Refuse(q) ==
  /\ Goto(q, "idle", "refused")
  /\ UNCHANGED <<trip, deleter, scope, row, lock, queue, workerVars, lost>>

\* One UPDATE fails every active run of the trip that is too old.
FailStaleRuns(q) ==
  LET old == {r \in Request : Active(r) /\ row[r].stale}
  IN  /\ Goto(q, "failStale", IF old = {} THEN "check" ELSE "staleUnlock")
      /\ row' = [r \in Request |-> IF r \in old
                                   THEN [row[r] EXCEPT !.status = "failed"]
                                   ELSE row[r]]
      /\ UNCHANGED <<trip, deleter, scope, lock, queue, workerVars, lost>>

\* ... and then deletes the lock, whoever holds it.
StaleUnlock(q) ==
  /\ Goto(q, "staleUnlock", "check")
  /\ lock' = NoRun
  /\ UNCHANGED <<trip, deleter, scope, row, queue, workerVars, lost>>

\* Mutant of CheckActive: only queued runs count as active.
CheckQueuedOnly(q) ==
  /\ Goto(q, "check", IF \E r \in Request : row[r].status = "queued"
                      THEN "refused" ELSE "lock")
  /\ UNCHANGED <<trip, deleter, scope, row, lock, queue, workerVars, lost>>

CheckActive(q) ==
  /\ Goto(q, "check",
          IF \E r \in Request : Active(r) THEN "refused" ELSE "lock")
  /\ UNCHANGED <<trip, deleter, scope, row, lock, queue, workerVars, lost>>

\* SET NX: the request that finds the key is refused.
AcquireLock(q) ==
  /\ Goto(q, "lock", IF lock = NoRun THEN "insert" ELSE "refused")
  /\ lock' = IF lock = NoRun THEN q ELSE lock
  /\ UNCHANGED <<trip, deleter, scope, row, queue, workerVars, lost>>

\* The foreign key to trips lets the INSERT through only while the trip is
\* there; otherwise it throws (Abort) and nothing releases the lock.
CreateGraphRun(q) ==
  /\ trip
  /\ Goto(q, "insert", "push")
  /\ row' = [row EXCEPT ![q] =
               [status |-> "queued",
                fact   |-> IF scope[q] = "full" THEN "pending" ELSE "skipped",
                stale  |-> FALSE]]
  /\ UNCHANGED <<trip, deleter, scope, lock, queue, workerVars, lost>>

EnqueueBuildRoutes(q) ==
  /\ Goto(q, "push", "done")
  /\ queue' = Append(queue, q)
  /\ UNCHANGED <<trip, deleter, scope, row, lock, workerVars, lost>>

\* Mutant of EnqueueFails: the catch block is missing.
EnqueueFailsUncaught(q) ==
  /\ Goto(q, "push", "error")
  /\ queue' \in {queue, Append(queue, q)}
  /\ UNCHANGED <<trip, deleter, scope, row, lock, workerVars, lost>>

\* RPUSH throws; when only its reply was lost the job is in the list.
EnqueueFails(q) ==
  /\ Goto(q, "push", "undoLock")
  /\ queue' \in {queue, Append(queue, q)}
  /\ UNCHANGED <<trip, deleter, scope, row, lock, workerVars, lost>>

\* Mutant of UndoLock: the catch block does not release the lock.
UndoLockForgotten(q) ==
  /\ Goto(q, "undoLock", "undoRow")
  /\ UNCHANGED <<trip, deleter, scope, row, lock, queue, workerVars, lost>>

UndoLock(q) ==
  /\ Goto(q, "undoLock", "undoRow")
  /\ lock' = NoRun
  /\ UNCHANGED <<trip, deleter, scope, row, queue, workerVars, lost>>

UndoRow(q) ==
  /\ Goto(q, "undoRow", "error")
  /\ UpdateRow(q, "failed", row[q].fact, row[q].stale)
  /\ UNCHANGED <<trip, deleter, scope, lock, queue, workerVars, lost>>

\* A query throws outside the try block, or the API process dies.
Abort(q) ==
  /\ pc[q] \in InFlight
  /\ pc' = [pc EXCEPT ![q] = "error"]
  /\ lost' = lost \cup {q}
  /\ UNCHANGED <<trip, deleter, scope, row, lock, queue, workerVars>>

-----------------------------------------------------------------------------
(* DELETE /api/trips/:trip_id                                              *)

DeleteCheck ==
  /\ trip
  /\ deleter = "idle"
  /\ \A q \in Request : ~Active(q)
  /\ deleter' = "checked"
  /\ UNCHANGED <<trip, pc, scope, row, lock, queue, workerVars, lost>>

\* ON DELETE CASCADE takes the runs along.
DeleteTrip ==
  /\ deleter = "checked"
  /\ trip' = FALSE
  /\ deleter' = "idle"
  /\ row' = [q \in Request |-> Absent]
  /\ UNCHANGED <<pc, scope, lock, queue, workerVars, lost>>

-----------------------------------------------------------------------------
(* Worker: main loop, build_routes_task, on_json_job_failure               *)

apiVars == <<trip, deleter, pc, scope>>

Step(from, to) ==
  /\ worker = from
  /\ worker' = to
  /\ job' = IF to = "idle" THEN NoRun ELSE job

\* Mutant of PopJob: the job is read but stays in the list.
PeekJob ==
  /\ worker = "idle"
  /\ queue # <<>>
  /\ worker' = "popped"
  /\ job' = Head(queue)
  /\ UNCHANGED <<apiVars, row, lock, queue, factQueue, saved, lost>>

PopJob ==
  /\ worker = "idle"
  /\ queue # <<>>
  /\ worker' = "popped"
  /\ job' = Head(queue)
  /\ queue' = Tail(queue)
  /\ UNCHANGED <<apiVars, row, lock, factQueue, saved, lost>>

\* No look at the status: a run that was failed as stale runs all the same.
MarkRunning ==
  /\ Step("popped", "running")
  /\ UpdateRow(job, "running", row[job].fact, FALSE)
  /\ UNCHANGED <<apiVars, lock, queue, factQueue, saved, lost>>

ReleaseTripLock ==
  /\ Step("running", "unlocked")
  /\ lock' = NoRun
  /\ UNCHANGED <<apiVars, row, queue, factQueue, saved, lost>>

\* resolve_run_context and prepare_continue_trip, which needs the trip.
PrepareTrip ==
  /\ trip
  /\ Step("unlocked", "building")
  /\ UNCHANGED <<apiVars, row, lock, queue, factQueue, saved, lost>>

\* run_deterministic_build or run_graph end in save_itinerary_version.
SaveVersion ==
  /\ trip
  /\ Step("building", "saved")
  /\ saved' = saved \cup {job}
  /\ UNCHANGED <<apiVars, row, lock, queue, factQueue, lost>>

\* Mutant of MarkCompleted: the row is completed before the version is saved.
MarkCompletedEarly ==
  /\ Step("building", IF scope[job] = "full" THEN "completed" ELSE "idle")
  /\ UpdateRow(job, "completed",
               IF scope[job] = "full" THEN "pending" ELSE "skipped",
               row[job].stale)
  /\ UNCHANGED <<apiVars, lock, queue, factQueue, saved, lost>>

MarkCompleted ==
  /\ Step("saved", IF scope[job] = "full" THEN "completed" ELSE "idle")
  /\ UpdateRow(job, "completed",
               IF scope[job] = "full" THEN "pending" ELSE "skipped",
               row[job].stale)
  /\ UNCHANGED <<apiVars, lock, queue, factQueue, saved, lost>>

EnqueueCityFact ==
  /\ Step("completed", "idle")
  /\ factQueue' = Append(factQueue, job)
  /\ UNCHANGED <<apiVars, row, lock, queue, saved, lost>>

\* An exception: inside the try block its handler runs next, before it and
\* in the handler itself the main loop's.
Raise ==
  /\ \/ /\ worker \in {"popped", "running", "failing"}
        /\ worker' = "raised"
     \/ /\ worker \in {"unlocked", "building", "saved", "completed"}
        /\ worker' = "failing"
  /\ UNCHANGED <<apiVars, row, lock, queue, factQueue, job, saved, lost>>

MarkFailed ==
  /\ Step("failing", "raised")
  /\ UpdateRow(job, "failed",
               IF scope[job] = "full" THEN "failed" ELSE "skipped",
               row[job].stale)
  /\ UNCHANGED <<apiVars, lock, queue, factQueue, saved, lost>>

\* Mutant of CallbackMarkFailed: the failure callback leaves the row alone.
CallbackSilent ==
  /\ Step("raised", "unlocking")
  /\ UNCHANGED <<apiVars, row, lock, queue, factQueue, saved, lost>>

CallbackMarkFailed ==
  /\ Step("raised", "unlocking")
  /\ UpdateRow(job, "failed", "failed", row[job].stale)
  /\ UNCHANGED <<apiVars, lock, queue, factQueue, saved, lost>>

CallbackUnlock ==
  /\ Step("unlocking", "idle")
  /\ lock' = NoRun
  /\ UNCHANGED <<apiVars, row, queue, factQueue, saved, lost>>

\* The process dies, or the failure handler itself raises; the container
\* restarts and the popped job is nowhere.
Crash ==
  /\ worker # "idle"
  /\ worker' = "idle"
  /\ job' = NoRun
  /\ lost' = lost \cup {job}
  /\ UNCHANGED <<apiVars, row, lock, queue, factQueue, saved>>

-----------------------------------------------------------------------------
(* Time                                                                    *)

\* graphRunStaleSec (600 s) is longer than startRun itself takes.
RunGetsOld(q) ==
  /\ Active(q)
  /\ ~row[q].stale
  /\ pc[q] \notin InFlight
  /\ row' = [row EXCEPT ![q].stale = TRUE]
  /\ UNCHANGED <<apiVars, lock, queue, workerVars, lost>>

\* Mutant of LockExpires: SET NX without EX.
LockHasNoTTL ==
  /\ FALSE
  /\ UNCHANGED vars

\* The key lives an hour, longer than startRun takes and than a run stays
\* fresh.
LockExpires ==
  /\ lock # NoRun
  /\ pc[lock] \notin InFlight
  /\ Active(lock) => row[lock].stale
  /\ lock' = NoRun
  /\ UNCHANGED <<apiVars, row, queue, workerVars, lost>>

-----------------------------------------------------------------------------
StartRun(q) ==
  \/ Admit(q) \/ Refuse(q)
  \/ FailStaleRuns(q) \/ StaleUnlock(q)
  \/ CheckActive(q) \/ AcquireLock(q) \/ CreateGraphRun(q)
  \/ EnqueueBuildRoutes(q) \/ EnqueueFails(q)
  \/ UndoLock(q) \/ UndoRow(q) \/ Abort(q)

Work ==
  \/ PopJob \/ MarkRunning \/ ReleaseTripLock
  \/ PrepareTrip \/ SaveVersion \/ MarkCompleted \/ EnqueueCityFact
  \/ Raise \/ MarkFailed \/ CallbackMarkFailed \/ CallbackUnlock

Next ==
  \/ \E q \in Request : StartRun(q) \/ RunGetsOld(q)
  \/ DeleteCheck \/ DeleteTrip
  \/ Work \/ Crash
  \/ LockExpires

Spec == Init /\ [][Next]_vars

-----------------------------------------------------------------------------
(***************************************************************************)
(* Fairness.  The worker loop runs for ever and is restarted with its      *)
(* container; a request, once admitted, is driven to its end by the event  *)
(* loop; time passes.  Nothing obliges a user to start or delete anything, *)
(* or a step to fail.                                                      *)
(***************************************************************************)
Advance(q) ==
  \/ FailStaleRuns(q) \/ StaleUnlock(q) \/ CheckActive(q) \/ AcquireLock(q)
  \/ CreateGraphRun(q) \/ EnqueueBuildRoutes(q) \/ UndoLock(q) \/ UndoRow(q)
  \/ pc[q] = "insert" /\ Abort(q)

Fairness ==
  /\ WF_vars(Work)
  /\ \A q \in Request : WF_vars(Advance(q)) /\ WF_vars(RunGetsOld(q))
  /\ WF_vars(LockExpires)

FairSpec == Spec /\ Fairness

-----------------------------------------------------------------------------
(* Properties                                                              *)

\* Types, and the two views of "the worker has a job" agree.
TypeOK ==
  /\ trip \in BOOLEAN
  /\ deleter \in {"idle", "checked"}
  /\ pc \in [Request -> ReqPC]
  /\ scope \in [Request -> Scope]
  /\ row \in [Request -> Row]
  /\ lock \in Request \cup {NoRun}
  /\ queue \in Seq(Request)
  /\ factQueue \in Seq(Request)
  /\ worker \in WorkerPC
  /\ job \in Request \cup {NoRun}
  /\ (job = NoRun) <=> (worker = "idle")
  /\ saved \subseteq Request
  /\ lost \subseteq Request

(***************************************************************************)
(* The build lock is nobody's in the code: four places delete it without   *)
(* asking who set it.  Still it never leaks silently: while it is set, the *)
(* run that set it is either still in startRun before its release, or its  *)
(* job will delete the key (it is queued, or the worker has not passed the *)
(* release), or its request or worker was cut short (then the TTL frees    *)
(* it).                                                                    *)
(***************************************************************************)
WillRelease(q) ==
  \/ pc[q] \in {"insert", "push", "undoLock"}
  \/ InQueue(q)
  \/ Executes(q) /\ worker \in {"popped", "running", "raised", "unlocking"}
  \/ q \in lost

LockHasReleaser == lock # NoRun => WillRelease(lock)

(***************************************************************************)
(* A row that blocks the trip has somebody who will move it on: a queued   *)
(* row its request or its job, a running row the worker.  Only a run that  *)
(* was cut short is left for failStaleGraphRuns to clean up.               *)
(***************************************************************************)
QueuedHasOwner(q) ==
  \/ pc[q] \in {"push", "undoLock", "undoRow"}
  \/ InQueue(q)
  \/ Executes(q) /\ worker \in {"popped", "raised"}
  \/ q \in lost

RunningHasOwner(q) ==
  \/ Executes(q) /\ worker \in {"running", "unlocked", "building", "saved",
                                "failing", "raised"}
  \/ q \in lost

ActiveRunHasOwner ==
  \A q \in Request :
    /\ row[q].status = "queued" => QueuedHasOwner(q)
    /\ row[q].status = "running" => RunningHasOwner(q)

\* A run reported as completed has inserted its itinerary version, and a
\* city fact is only asked for runs of scope full that have one.
CompletedHasVersion ==
  /\ \A q \in Request : row[q].status = "completed" => q \in saved
  /\ \A i \in 1..Len(factQueue) :
       factQueue[i] \in saved /\ scope[factQueue[i]] = "full"

\* After DELETE no run of the trip is left or comes back, whatever requests
\* and worker still do with it.
DeletedTripHasNoRuns ==
  ~trip => \A q \in Request : row[q] = Absent

(***************************************************************************)
(* How the status of a row may change.  updateGraphRun has no guard, so    *)
(* "failed" is not final (a stale run can still run and complete), but a   *)
(* completed run is never executed again and no run skips "running".       *)
(***************************************************************************)
MayBecome ==
  [absent    |-> {"queued"},
   queued    |-> {"running", "failed", "absent"},
   running   |-> {"completed", "failed", "absent"},
   failed    |-> {"running", "completed", "absent"},
   completed |-> {"failed", "absent"}]

StatusMove(q) ==
  row'[q].status # row[q].status =>
    row'[q].status \in MayBecome[row[q].status]

StatusMoves == [][\A q \in Request : StatusMove(q)]_vars

\* Every job that reaches the queue is executed: its run ends completed or
\* failed, goes with its trip, or is lost in a crash.
JobsSettle ==
  \A q \in Request : InQueue(q) ~> (~Active(q) \/ q \in lost)

\* The lock never blocks a trip for good, whatever crashed while it was set.
LockIsFreed == []<>(lock = NoRun)

(***************************************************************************)
(* What the 409 of startRun promises ("a build is already running for the  *)
(* trip"): the trip has at most one active run.  The code alone does not   *)
(* keep it; it does when requests come one at a time, only runs that are   *)
(* really lost grow old, and an RPUSH that throws has not pushed.          *)
(***************************************************************************)
SingleActiveRun ==
  \A q, r \in Request : Active(q) /\ Active(r) => q = r

Orderly ==
  /\ \A q, r \in Request :
       pc[q] = "idle" /\ pc'[q] \in InFlight => pc[r] \notin InFlight
  /\ \A q \in Request :
       row'[q].stale /\ ~row[q].stale => ~InQueue(q) /\ ~Executes(q)
  /\ \A q \in Request : pc'[q] = "undoLock" => queue' = queue \/ pc[q] # "push"

OrderlySpec == Init /\ [][Next /\ Orderly]_vars

(***************************************************************************)
(* Seen from outside, the queue executes each run at most once and one at  *)
(* a time (module BuildOnce): a run waits until its job is popped, and is  *)
(* over when the worker is done with it or it can no longer be queued.     *)
(***************************************************************************)
BeforeQueue == {"idle", "failStale", "staleUnlock", "check", "lock",
                "insert", "push"}

Phase ==
  [q \in Request |->
     IF Executes(q) THEN "executing"
     ELSE IF InQueue(q) \/ pc[q] \in BeforeQueue THEN "waiting"
     ELSE "over"]

Once == INSTANCE BuildOnce WITH Run <- Request, phase <- Phase

ExecutedAtMostOnce == Once!Spec

-----------------------------------------------------------------------------
(***************************************************************************)
(* The inductive invariant.  The properties above rest on two facts about  *)
(* how a job travels: a run is delivered at most once, and only after its  *)
(* INSERT (Delivered), and the status of its row lags behind its job in a  *)
(* fixed way (RowFollowsJob).                                              *)
(***************************************************************************)
Delivered ==
  /\ \A i, j \in 1..Len(queue) : queue[i] = queue[j] => i = j
  /\ ~InQueue(job)
  /\ \A q \in Request :
       InQueue(q) \/ Executes(q) => pc[q] \in {"done", "undoLock", "undoRow",
                                               "error"}

RowFollowsJob ==
  \A q \in Request :
    /\ pc[q] \in (BeforeQueue \ {"push"}) \cup {"refused"} => row[q] = Absent
    /\ pc[q] = "push" \/ InQueue(q) \/ (Executes(q) /\ worker = "popped") =>
         row[q].status \notin {"running", "completed"}
    /\ Executes(q) /\ worker \in {"running", "unlocked", "building", "saved"} =>
         row[q].status \notin {"queued", "completed"}

JobHasVersion ==
  /\ worker \in {"saved", "completed"} => job \in saved
  /\ worker = "completed" => scope[job] = "full"

IInv ==
  /\ TypeOK /\ Delivered /\ RowFollowsJob /\ JobHasVersion
  /\ LockHasReleaser /\ ActiveRunHasOwner
  /\ CompletedHasVersion /\ DeletedTripHasNoRuns

(***************************************************************************)
(* The inductive invariant of OrderlySpec: a row becomes active in         *)
(* CreateGraphRun only, and then no other is.                              *)
(***************************************************************************)
OneInFlight ==
  \A q, r \in Request : pc[q] \in InFlight /\ pc[r] \in InFlight => q = r

JobIsFresh ==
  \A q \in Request :
    pc[q] = "push" \/ InQueue(q) \/ (Executes(q) /\ worker = "popped") =>
      row[q].status \in {"queued", "absent"} /\ ~row[q].stale

UndoneHasNoJob ==
  \A q \in Request :
    pc[q] \in {"undoLock", "undoRow"} => ~InQueue(q) /\ ~Executes(q)

LockedIsAlone ==
  \A q \in Request :
    pc[q] \in {"lock", "insert"} => \A r \in Request : ~Active(r)

OrderlyInv ==
  /\ TypeOK /\ Delivered
  /\ OneInFlight /\ JobIsFresh /\ UndoneHasNoJob /\ LockedIsAlone
  /\ SingleActiveRun

=============================================================================
