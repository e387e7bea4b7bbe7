---------------------------- MODULE OsrmPrepare ----------------------------
(***************************************************************************)
(* Self-serve preparation of the OSRM graph of a city: a user asks for it  *)
(* (api-node/src/services/osrmPrepare.ts), a row of osrm_prepare_jobs and  *)
(* a job in Redis are made, and a slot of the free quota is taken; the     *)
(* worker prepares the city (search/osrm/prepare_job.py) and gives the     *)
(* slot back if that fails.  A Redis lock keeps the worker and the nightly *)
(* refresh (scripts/osrm_nightly_refresh.py) from working at a time.       *)
(*                                                                         *)
(* A request makes at most one row, so a row, its job and its request have *)
(* one name.  A refusal before the first query (no such city, disk full,   *)
(* e-mail not verified) changes nothing and is not modelled further.       *)
(***************************************************************************)
EXTENDS Naturals, Sequences, FiniteSets

CONSTANTS Request, User, City,
          NoJob,           \* no request: an idle worker, a city without rows
          QuotaPerUser,    \* OSRM_PREPARE_QUOTA_PER_USER
          EnqueuePerHour,  \* OSRM_PREPARE_ENQUEUE_PER_HOUR; 0: no limit
          MaxCities,       \* OSRM_PREPARE_MAX_CITIES
          MaxHour          \* bound: the hours 0..MaxHour are modelled

ASSUME OsrmAssumption ==
  /\ IsFiniteSet(Request) /\ NoJob \notin Request
  /\ QuotaPerUser \in Nat /\ EnqueuePerHour \in Nat
  /\ MaxCities \in Nat /\ MaxHour \in Nat

VARIABLES
  ask,       \* what each request asks for; in BYOK mode without limit
  pc,        \* the step of enqueueUserOsrmPrepare the request is at
  slot,      \* the hour in whose counter the request is counted
  used,      \* users.osrm_prepare_quota_used
  enqueues,  \* osrm_prepare_enqueue:<user>:<hour>
  hour,
  status,    \* osrm_prepare_jobs.status
  latest,    \* the newest row of each city
  queue,     \* tourist:queue:prepare_osrm
  worker,    \* the step of prepare_osrm_task
  job,       \* the row the worker works for
  nightly,   \* osrm_nightly_refresh.py
  lock,      \* tourist:lock:osrm_prepare exists
  ready,     \* cities with a graph on disk
  seen,      \* history: the rows of its city when each request searched
  held,      \* history: requests that took a slot nobody gave back
  lost       \* history: requests cut short by a crash or an exception

requestVars == <<ask, seen, pc, slot, enqueues, hour, latest>>
workerVars  == <<worker, job>>
vars == <<ask, seen, pc, slot, used, enqueues, hour, status, latest, queue,
          worker, job, nightly, lock, ready, held, lost>>

Ask == [user : User, city : City, unlimited : BOOLEAN]

Status == {"absent", "queued", "running", "failed", "succeeded"}

\* Of a request: "joined", "refused", "done" and "error" are final.
Step == {"idle", "findActive", "findLatest", "rate", "undoRate", "reserve",
         "insert", "push", "refund", "joined", "refused", "done", "error"}

NoHour == MaxHour + 1

Active(r) == status[r] \in {"queued", "running"}

InQueue(r) == \E i \in 1..Len(queue) : queue[i] = r

\* The steps of the worker between _acquire_lock and _release_lock.
Holding == {"locked", "building", "built", "failing", "refunding",
            "unlocking"}

TaskStep == {"idle", "popped", "busy", "refundingBusy"} \cup Holding

Init ==
  /\ ask \in [Request -> Ask]
  /\ pc = [r \in Request |-> "idle"]
  /\ slot = [r \in Request |-> NoHour]
  /\ used = [u \in User |-> 0]
  /\ enqueues = [u \in User |-> [h \in 0..MaxHour |-> 0]]
  /\ hour = 0
  /\ status = [r \in Request |-> "absent"]
  /\ latest = [c \in City |-> NoJob]
  /\ queue = <<>>
  /\ worker = "idle" /\ job = NoJob
  /\ nightly = "idle"
  /\ lock = FALSE
  /\ ready = {}
  /\ seen = [r \in Request |-> {}]
  /\ held = {} /\ lost = {}

-----------------------------------------------------------------------------
(* enqueueUserOsrmPrepare                                                  *)

Goto(r, from, to) ==
  /\ pc[r] = from
  /\ pc' = [pc EXCEPT ![r] = to]

\* GREATEST(osrm_prepare_quota_used - 1, 0)
GiveBack(r) ==
  /\ used' = [used EXCEPT ![ask[r].user] = IF @ = 0 THEN 0 ELSE @ - 1]
  /\ held' = held \ {r}

Submit(r) ==
  /\ ask[r].city \notin ready
  /\ Cardinality(ready) < MaxCities
  /\ Goto(r, "idle", "findActive")
  /\ UNCHANGED <<ask, seen, slot, used, enqueues, hour, status, latest, queue,
                 workerVars, nightly, lock, ready, held, lost>>

RowsOf(c) == {q \in Request : status[q] # "absent" /\ ask[q].city = c}

\* Mutant of FindActive: only queued rows are looked for.
FindQueued(r) ==
  /\ LET joins == \E q \in Request :
                    status[q] = "queued" /\ ask[q].city = ask[r].city
     IN  Goto(r, "findActive", IF joins THEN "joined" ELSE "findLatest")
  /\ seen' = [seen EXCEPT ![r] = RowsOf(ask[r].city)]
  /\ UNCHANGED <<ask, slot, used, enqueues, hour, status, latest, queue,
                 workerVars, nightly, lock, ready, held, lost>>

\* A city in work is joined: the caller gets that job and no slot is taken.
FindActive(r) ==
  /\ LET joins == \E q \in Request :
                    Active(q) /\ ask[q].city = ask[r].city
     IN  Goto(r, "findActive", IF joins THEN "joined" ELSE "findLatest")
  /\ seen' = [seen EXCEPT ![r] = RowsOf(ask[r].city)]
  /\ UNCHANGED <<ask, slot, used, enqueues, hour, status, latest, queue,
                 workerVars, nightly, lock, ready, held, lost>>

AfterRate(r) == IF ask[r].unlimited THEN "insert" ELSE "reserve"

\* A retry of a city whose last job failed is not counted.
FindLatest(r) ==
  /\ LET last    == latest[ask[r].city]
         counted == /\ EnqueuePerHour > 0
                    /\ last # NoJob => status[last] # "failed"
     IN  Goto(r, "findLatest", IF counted THEN "rate" ELSE AfterRate(r))
  /\ UNCHANGED <<ask, seen, slot, used, enqueues, hour, status, latest, queue,
                 workerVars, nightly, lock, ready, held, lost>>

\* Mutant of CountEnqueue: the counter is compared before it is increased.
CompareThenCount(r) ==
  LET n == enqueues[ask[r].user][hour] IN
  /\ Goto(r, "rate", IF n > EnqueuePerHour THEN "undoRate" ELSE AfterRate(r))
  /\ enqueues' = [enqueues EXCEPT ![ask[r].user][hour] = n + 1]
  /\ slot' = [slot EXCEPT ![r] = hour]
  /\ UNCHANGED <<ask, seen, used, hour, status, latest, queue, workerVars, nightly,
                 lock, ready, held, lost>>

\* INCR of the counter of this hour, and the comparison of what it returned.
CountEnqueue(r) ==
  LET n == enqueues[ask[r].user][hour] + 1 IN
  /\ Goto(r, "rate", IF n > EnqueuePerHour THEN "undoRate" ELSE AfterRate(r))
  /\ enqueues' = [enqueues EXCEPT ![ask[r].user][hour] = n]
  /\ slot' = [slot EXCEPT ![r] = hour]
  /\ UNCHANGED <<ask, seen, used, hour, status, latest, queue, workerVars, nightly,
                 lock, ready, held, lost>>

\* DECR of the same key, and 429.
UndoEnqueue(r) ==
  /\ Goto(r, "undoRate", "refused")
  /\ enqueues' = [enqueues EXCEPT ![ask[r].user][slot[r]] = @ - 1]
  /\ slot' = [slot EXCEPT ![r] = NoHour]
  /\ UNCHANGED <<ask, seen, used, hour, status, latest, queue, workerVars, nightly,
                 lock, ready, held, lost>>

\* Mutant of ReserveQuota: <= for <.
ReserveQuotaOneMore(r) ==
  LET free == used[ask[r].user] <= QuotaPerUser IN
  /\ Goto(r, "reserve", IF free THEN "insert" ELSE "refused")
  /\ IF free
       THEN /\ used' = [used EXCEPT ![ask[r].user] = @ + 1]
            /\ held' = held \cup {r}
       ELSE UNCHANGED <<used, held>>
  /\ UNCHANGED <<ask, seen, slot, enqueues, hour, status, latest, queue, workerVars,
                 nightly, lock, ready, lost>>

\* One UPDATE tests the limit and adds.
ReserveQuota(r) ==
  LET free == used[ask[r].user] < QuotaPerUser IN
  /\ Goto(r, "reserve", IF free THEN "insert" ELSE "refused")
  /\ IF free
       THEN /\ used' = [used EXCEPT ![ask[r].user] = @ + 1]
            /\ held' = held \cup {r}
       ELSE UNCHANGED <<used, held>>
  /\ UNCHANGED <<ask, seen, slot, enqueues, hour, status, latest, queue, workerVars,
                 nightly, lock, ready, lost>>

CreateJob(r) ==
  /\ Goto(r, "insert", "push")
  /\ status' = [status EXCEPT ![r] = "queued"]
  /\ latest' = [latest EXCEPT ![ask[r].city] = r]
  /\ UNCHANGED <<ask, seen, slot, used, enqueues, hour, queue, workerVars, nightly,
                 lock, ready, held, lost>>

Enqueue(r) ==
  /\ Goto(r, "push", "done")
  /\ queue' = Append(queue, r)
  /\ UNCHANGED <<ask, seen, slot, used, enqueues, hour, status, latest, workerVars,
                 nightly, lock, ready, held, lost>>

\* Mutant of CreateFails: the catch branch does not give the slot back.
CreateFailsKeepsSlot(r) ==
  /\ pc[r] \in {"insert", "push"}
  /\ pc' = [pc EXCEPT ![r] = "error"]
  /\ \/ queue' = queue
     \/ pc[r] = "push" /\ queue' = Append(queue, r)
  /\ UNCHANGED <<ask, seen, slot, used, enqueues, hour, status, latest, workerVars,
                 nightly, lock, ready, held, lost>>

\* Mutant of CreateFails: an RPUSH that throws is tried again, though Redis may have it.
CreateFailsPushAgain(r) ==
  /\ pc[r] \in {"insert", "push"}
  /\ pc' = [pc EXCEPT ![r] = IF pc[r] = "push" THEN "push"
                             ELSE IF ask[r].unlimited THEN "error" ELSE "refund"]
  /\ \/ queue' = queue
     \/ pc[r] = "push" /\ queue' = Append(queue, r)
  /\ UNCHANGED <<ask, seen, slot, used, enqueues, hour, status, latest, workerVars,
                 nightly, lock, ready, held, lost>>

\* The INSERT or the RPUSH throws; the RPUSH may have reached Redis.  The row
\* stays as it is.
CreateFails(r) ==
  /\ pc[r] \in {"insert", "push"}
  /\ pc' = [pc EXCEPT ![r] = IF ask[r].unlimited THEN "error" ELSE "refund"]
  /\ \/ queue' = queue
     \/ pc[r] = "push" /\ queue' = Append(queue, r)
  /\ UNCHANGED <<ask, seen, slot, used, enqueues, hour, status, latest, workerVars,
                 nightly, lock, ready, held, lost>>

Refund(r) ==
  /\ Goto(r, "refund", "error")
  /\ GiveBack(r)
  /\ UNCHANGED <<ask, seen, slot, enqueues, hour, status, latest, queue, workerVars,
                 nightly, lock, ready, lost>>

\* Any other query throws, or the API dies.
Abort(r) ==
  /\ pc[r] \in {"findActive", "findLatest", "rate", "undoRate", "reserve",
                "insert", "push", "refund"}
  /\ pc' = [pc EXCEPT ![r] = "error"]
  /\ lost' = lost \cup {r}
  /\ UNCHANGED <<ask, seen, slot, used, enqueues, hour, status, latest, queue,
                 workerVars, nightly, lock, ready, held>>

EnqueueUserOsrmPrepare(r) ==
  \/ Submit(r) \/ FindActive(r) \/ FindLatest(r)
  \/ CountEnqueue(r) \/ UndoEnqueue(r) \/ ReserveQuota(r)
  \/ CreateJob(r) \/ Enqueue(r) \/ CreateFails(r) \/ Refund(r) \/ Abort(r)

-----------------------------------------------------------------------------
(* prepare_osrm_task                                                       *)

\* A step of the task; the worker lets go of the job when it is idle.
Work(from, to) ==
  /\ worker = from
  /\ worker' = to
  /\ job' = IF to = "idle" THEN NoJob ELSE job

PopJob ==
  /\ worker = "idle" /\ queue # <<>>
  /\ job' = Head(queue) /\ queue' = Tail(queue)
  /\ worker' = "popped"
  /\ UNCHANGED <<requestVars, used, status, nightly, lock, ready, held, lost>>

\* Mutant of AcquireLock: SET without NX.
AcquireLockAnyway ==
  /\ Work("popped", "locked")
  /\ lock' = TRUE
  /\ UNCHANGED <<requestVars, used, status, queue, nightly, ready, held, lost>>

AcquireLock ==
  /\ ~lock
  /\ Work("popped", "locked")
  /\ lock' = TRUE
  /\ UNCHANGED <<requestVars, used, status, queue, nightly, ready, held, lost>>

\* Mutant of LockBusy: the worker waits for the lock without a deadline.
LockBusyWaits ==
  /\ FALSE
  /\ UNCHANGED vars

\* Two minutes went by with the lock taken.
LockBusy ==
  /\ lock
  /\ Work("popped", "busy")
  /\ UNCHANGED <<requestVars, used, status, queue, nightly, lock, ready, held,
                 lost>>

\* Mutant of FailJob: the row keeps its status.
FailJobSilent(from, refund, end) ==
  /\ Work(from, IF ask[job].unlimited THEN end ELSE refund)
  /\ UNCHANGED <<requestVars, used, status, queue, nightly, lock, ready, held,
                 lost>>

\* The row is failed; a job that counts against the quota is given back next.
FailJob(from, refund, end) ==
  /\ Work(from, IF ask[job].unlimited THEN end ELSE refund)
  /\ status' = [status EXCEPT ![job] = "failed"]
  /\ UNCHANGED <<requestVars, used, queue, nightly, lock, ready, held, lost>>

RefundUserQuota(from, to) ==
  /\ Work(from, to)
  /\ GiveBack(job)
  /\ UNCHANGED <<requestVars, status, queue, nightly, lock, ready, lost>>

FailBusyJob   == FailJob("busy", "refundingBusy", "idle")
RefundBusyJob == RefundUserQuota("refundingBusy", "idle")

MarkRunning ==
  /\ Work("locked", "building")
  /\ status' = [status EXCEPT ![job] = "running"]
  /\ UNCHANGED <<requestVars, used, queue, nightly, lock, ready, held, lost>>

\* fo_ensure, city_pack_prepare and osrm_prepare succeeded.
RunPipeline ==
  /\ Work("building", "built")
  /\ ready' = ready \cup {ask[job].city}
  /\ UNCHANGED <<requestVars, used, status, queue, nightly, lock, held, lost>>

MarkSucceeded ==
  /\ Work("built", "unlocking")
  /\ status' = [status EXCEPT ![job] = "succeeded"]
  /\ UNCHANGED <<requestVars, used, queue, nightly, lock, ready, held, lost>>

\* A script of the pipeline or an UPDATE of the row fails.
PipelineFails ==
  /\ worker \in {"locked", "building", "built"}
  /\ worker' = "failing"
  /\ UNCHANGED <<requestVars, used, status, queue, job, nightly, lock, ready,
                 held, lost>>

MarkFailed   == FailJob("failing", "refunding", "unlocking")
RefundFailed == RefundUserQuota("refunding", "unlocking")

\* _release_lock: DEL whoever set the key; an error is only logged.
ReleaseLock ==
  /\ Work("unlocking", "idle")
  /\ lock' \in {FALSE, lock}
  /\ UNCHANGED <<requestVars, used, status, queue, nightly, ready, held, lost>>

\* An exception no handler of the task answers: before the try (the SET of
\* the lock may have reached Redis) or in the except branch, whose finally
\* still unlocks.  on_json_job_failure then looks for a graph run by the id
\* of the job, and finds none.
TaskRaises ==
  /\ lost' = lost \cup {job}
  /\ \/ /\ worker \in {"popped", "busy", "refundingBusy"}
        /\ worker' = "idle" /\ job' = NoJob
        /\ lock' \in {lock, lock \/ worker = "popped"}
     \/ /\ worker \in {"failing", "refunding"}
        /\ worker' = "unlocking"
        /\ UNCHANGED <<job, lock>>
  /\ UNCHANGED <<requestVars, used, status, queue, nightly, ready, held>>

Crash ==
  /\ worker # "idle"
  /\ worker' = "idle" /\ job' = NoJob
  /\ lost' = lost \cup {job}
  /\ UNCHANGED <<requestVars, used, status, queue, nightly, lock, ready, held>>

PrepareOsrmTask ==
  \/ PopJob \/ AcquireLock \/ LockBusy \/ FailBusyJob \/ RefundBusyJob
  \/ MarkRunning \/ RunPipeline \/ MarkSucceeded
  \/ PipelineFails \/ MarkFailed \/ RefundFailed \/ ReleaseLock

-----------------------------------------------------------------------------
(* osrm_nightly_refresh and time                                           *)

\* The refresh rebuilds cities that are ready already, and leaves them ready.
NightlyStarts ==
  /\ nightly = "idle" /\ ~lock
  /\ nightly' = "refreshing"
  /\ lock' = TRUE
  /\ UNCHANGED <<requestVars, used, status, queue, workerVars, ready, held,
                 lost>>

\* It ends, or dies with the lock set.
NightlyEnds ==
  /\ nightly = "refreshing"
  /\ nightly' = "idle"
  /\ lock' \in {FALSE, lock}
  /\ UNCHANGED <<requestVars, used, status, queue, workerVars, ready, held,
                 lost>>

\* _LOCK_TTL_SEC (two hours) is over; the scripts have no timeout.
LockExpires ==
  /\ lock
  /\ lock' = FALSE
  /\ UNCHANGED <<requestVars, used, status, queue, workerVars, nightly, ready,
                 held, lost>>

NextHour ==
  /\ hour < MaxHour
  /\ hour' = hour + 1
  /\ UNCHANGED <<ask, seen, pc, slot, used, enqueues, status, latest, queue,
                 workerVars, nightly, lock, ready, held, lost>>

Next ==
  \/ \E r \in Request : EnqueueUserOsrmPrepare(r)
  \/ PrepareOsrmTask \/ TaskRaises \/ Crash
  \/ NightlyStarts \/ NightlyEnds
  \/ LockExpires \/ NextHour

Spec == Init /\ [][Next]_vars

-----------------------------------------------------------------------------
(***************************************************************************)
(* Fairness: the API finishes the requests it began, the worker's loop     *)
(* never ends, the nightly script ends, the key has a TTL.  The steps of a *)
(* request that throw, and Crash, are not required.                        *)
(***************************************************************************)
Advance(r) ==
  \/ FindActive(r) \/ FindLatest(r) \/ CountEnqueue(r) \/ UndoEnqueue(r)
  \/ ReserveQuota(r) \/ CreateJob(r) \/ Enqueue(r) \/ Refund(r)

Fairness ==
  /\ \A r \in Request : WF_vars(Advance(r))
  /\ WF_vars(PrepareOsrmTask)
  /\ WF_vars(NightlyEnds) /\ WF_vars(LockExpires)

FairSpec == Spec /\ Fairness

-----------------------------------------------------------------------------
(* Properties                                                              *)

TypeOK ==
  /\ ask \in [Request -> Ask]
  /\ pc \in [Request -> Step]
  /\ slot \in [Request -> 0..NoHour]
  /\ used \in [User -> Nat]
  /\ enqueues \in [User -> [0..MaxHour -> Nat]]
  /\ hour \in 0..MaxHour
  /\ status \in [Request -> Status]
  /\ latest \in [City -> Request \cup {NoJob}]
  /\ queue \in Seq(Request)
  /\ worker \in TaskStep
  /\ job \in Request \cup {NoJob}
  /\ worker = "idle" <=> job = NoJob
  /\ nightly \in {"idle", "refreshing"}
  /\ lock \in BOOLEAN
  /\ ready \subseteq City
  /\ seen \in [Request -> SUBSET Request]
  /\ held \subseteq Request /\ lost \subseteq Request

Slots(u) == {r \in held : ask[r].user = u}

\* A slot is held for a request on its way, a job waiting or worked for, or a
\* prepared city; a failed request or job has given its slot back, unless it
\* was cut short.
SlotIsJustified ==
  \A r \in held :
    \/ pc[r] \in {"insert", "push", "refund"}
    \/ pc[r] = "done" /\ \/ InQueue(r) \/ status[r] = "succeeded"
                         \/ job = r /\ worker # "unlocking"
    \/ r \in lost

\* Nobody pays for more than the slots of his own requests, whatever fails or
\* is refunded twice.
NeverOvercharged ==
  \A u \in User : used[u] <= Cardinality(Slots(u))

\* A queued or running row has a request, a job or the worker that will settle
\* it, unless it was cut short or its RPUSH failed.
ActiveJobHasOwner ==
  \A r \in Request :
    Active(r) =>
      \/ pc[r] \in {"push", "refund", "error"}
      \/ InQueue(r)
      \/ job = r /\ worker \notin {"refunding", "refundingBusy", "unlocking"}
      \/ r \in lost

\* However the INCRs and DECRs of a user interleave, an hour counts at most
\* EnqueuePerHour of the jobs he created.
HourlyCap ==
  EnqueuePerHour > 0 =>
    \A u \in User, h \in 0..MaxHour :
      Cardinality({r \in Request : /\ ask[r].user = u
                                   /\ slot[r] = h
                                   /\ status[r] # "absent"}) <= EnqueuePerHour

\* The search and the INSERT are apart, so a city may get two jobs; but only from
\* requests that overlapped, each having searched before the other had its row.  Whoever
\* comes later joins the job, and a row that was failed or succeeded when a request
\* searched never comes back to life beside that request's own.
TwinsOverlapped ==
  \A q, r \in Request : Active(q) /\ Active(r) => q \notin seen[r]

(***************************************************************************)
(* What the code relies on beyond its own checks.                          *)
(***************************************************************************)
\* An RPUSH that throws has not pushed.
PushIsReliable ==
  \A r \in Request : pc[r] = "push" /\ pc'[r] # "done" => ~InQueue(r)'

\* The key outlives the work it protects.
LockOutlivesWork ==
  lock /\ ~lock' => worker' \notin Holding /\ nightly' = "idle"

OrderlySpec ==
  Init /\ [][Next /\ PushIsReliable /\ LockOutlivesWork]_vars

\* No refund is lost or doubled: the counter is the number of slots held.
QuotaConserved ==
  \A u \in User : used[u] = Cardinality(Slots(u))

\* "No more than QuotaPerUser cities in the free mode."
FreeCityLimit ==
  \A u \in User :
    Cardinality({r \in Request : /\ ask[r].user = u /\ ~ask[r].unlimited
                                 /\ status[r] = "succeeded"}) <= QuotaPerUser

\* "Concurrency 1": the worker and the nightly refresh share one lock.
OnePipeline == ~(worker = "building" /\ nightly = "refreshing")

\* Seen from outside, the job of a request is worked for once at most, and one job at a
\* time (BuildOnce), though an RPUSH that throws may have pushed it and rows are joined,
\* failed and given back meanwhile: a city is not prepared twice for one request.
BeforePush == {"idle", "findActive", "findLatest", "rate", "undoRate",
               "reserve", "insert", "push"}

Phase ==
  [r \in Request |->
     IF job = r THEN "executing"
     ELSE IF InQueue(r) \/ pc[r] \in BeforePush THEN "waiting"
     ELSE "over"]

Once == INSTANCE BuildOnce WITH Run <- Request, phase <- Phase

PreparedAtMostOnce == Once!Spec

\* Every job settles, unless it was cut short or its request failed.
JobSettles ==
  \A r \in Request :
    Active(r) ~> ~Active(r) \/ r \in lost \/ pc[r] = "error"

-----------------------------------------------------------------------------
(***************************************************************************)
(* The inductive invariants.  IInv is that of Spec.                        *)
(***************************************************************************)
HeldIsFree ==
  /\ \A r \in held : /\ ~ask[r].unlimited
                     /\ pc[r] \in {"insert", "push", "refund", "done", "error"}
  /\ \A r \in Request : pc[r] = "reserve" => ~ask[r].unlimited

Counted(u, h) == {r \in Request : ask[r].user = u /\ slot[r] = h}

\* The requests of the hour that were, or will be, allowed to go on.
Admitted(u, h) ==
  {r \in Counted(u, h) : \/ pc[r] \in {"reserve", "insert", "push"}
                         \/ status[r] # "absent"}

HourIsCounted ==
  /\ \A u \in User, h \in 0..MaxHour :
       /\ enqueues[u][h] = Cardinality(Counted(u, h))
       /\ EnqueuePerHour > 0 =>
            Cardinality(Admitted(u, h)) <= EnqueuePerHour
  /\ \A r \in Request :
       /\ pc[r] \in {"idle", "findActive", "findLatest", "rate"} =>
            slot[r] = NoHour
       /\ pc[r] = "undoRate" => slot[r] # NoHour

JobHasRow ==
  \A r \in Request :
    /\ pc[r] = "push" \/ InQueue(r) \/ job = r => status[r] # "absent"
    /\ pc[r] \in {"idle", "findActive", "findLatest", "rate", "undoRate",
                  "reserve", "insert"} => status[r] = "absent"

IInv ==
  /\ TypeOK /\ JobHasRow /\ HeldIsFree /\ HourIsCounted
  /\ SlotIsJustified /\ NeverOvercharged /\ ActiveJobHasOwner

\* A job is in one place, and its request has pushed it and will not again.
PushedOnce ==
  /\ \A i, j \in 1..Len(queue) : queue[i] = queue[j] => i = j
  /\ ~InQueue(job)
  /\ \A r \in Request : InQueue(r) \/ job = r => pc[r] \notin BeforePush

\* With PushIsReliable a job is in one place and its request is done; so a
\* refund finds a slot to give back, and a prepared city keeps its own.
Delivered ==
  /\ \A i, j \in 1..Len(queue) : queue[i] = queue[j] => i = j
  /\ ~InQueue(job)
  /\ \A r \in Request : InQueue(r) \/ job = r => pc[r] = "done"

Unspent(r) ==
  \/ pc[r] \in {"insert", "push", "refund"}
  \/ InQueue(r)
  \/ job = r /\ worker # "unlocking"
  \/ status[r] = "succeeded"

UnspentIsHeld ==
  /\ \A r \in Request : Unspent(r) /\ ~ask[r].unlimited => r \in held
  /\ \A r \in Request : pc[r] = "refund" => ~ask[r].unlimited
  /\ \A r \in Request : status[r] = "succeeded" => pc[r] = "done"
  /\ worker \in {"refunding", "refundingBusy"} =>
       ~ask[job].unlimited /\ status[job] = "failed"

LimitHolds == \A u \in User : used[u] <= QuotaPerUser

QuotaInv ==
  /\ TypeOK /\ HeldIsFree /\ Delivered /\ UnspentIsHeld
  /\ QuotaConserved /\ LimitHolds

\* With LockOutlivesWork whoever works has the lock.
LockProtects ==
  /\ worker \in Holding \/ nightly = "refreshing" => lock
  /\ ~(worker \in Holding /\ nightly = "refreshing")

\* A job that waits has a queued row, also when it is not known whether its RPUSH
\* reached Redis.
JobIsQueued ==
  \A r \in Request :
    \/ pc[r] = "push"
    \/ InQueue(r)
    \/ job = r /\ worker \in {"popped", "busy", "locked"}
    => status[r] = "queued"

\* A request that did not join found only rows that are settled for ever.
SearchInv ==
  \A r \in Request :
    /\ pc[r] = "joined" => status[r] = "absent"
    /\ pc[r] # "joined" => \A q \in seen[r] : status[q] \in {"failed", "succeeded"}
=============================================================================
