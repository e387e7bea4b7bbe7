------------------------------ MODULE CityFact ------------------------------
(***************************************************************************)
(* Itinerary versions and the fact about the city ("О городе").            *)
(*                                                                         *)
(* A build of scope full saves a version whose fact is "pending" and puts  *)
(* a city_fact job in the queue; the job patches that version and the      *)
(* graph_runs row.  A build of scope routes copies the fact of the version *)
(* it started from.  While the client polls GET /program, the API looks    *)
(* for facts that are late and queues the job again or gives the fact up   *)
(* (api-node/src/services/cityFactRecovery.ts).                            *)
(*                                                                         *)
(* The module follows one trip that is not deleted.  How a run gets into   *)
(* the queue is the subject of GraphRuns; here a run is queued in one step *)
(* when no other is active, and a run whose worker died is failed by the   *)
(* next one that starts.                                                   *)
(***************************************************************************)
EXTENDS Naturals, Sequences

CONSTANTS
  Run,          \* runs of the trip
  NoRun,        \* the worker executes no build
  MaxRetries    \* bound on the jobs queued by recovery

ASSUME NoRunAssumption == NoRun \notin Run
ASSUME RetriesAssumption == MaxRetries \in Nat

VARIABLES
  llm,         \* the user's llm_mode, "unusable" when it has no working key
  scope,       \* scope of each run
  row,         \* graph_runs: status, city_fact_status, version, age
  versions,    \* itinerary_versions, by version number: fact, text, run
  buildQueue,  \* tourist:queue:build_routes
  factQueue,   \* tourist:queue:city_fact
  worker,      \* where the worker is
  build,       \* the run it builds
  base,        \* the program the build started from
  withLlm,     \* the mode the build resolved at its start
  task,        \* the city_fact job it executes
  poll,        \* a GET /program that found a late fact
  factLock,    \* trip:<id>:city_fact_enqueue
  retries,     \* jobs queued by recovery so far
  mixed        \* history: runs retried for an older version than theirs

vars == <<llm, scope, row, versions, buildQueue, factQueue, worker, build,
          base, withLlm, task, poll, factLock, retries, mixed>>

Scope  == {"full", "routes"}
Mode   == {"none", "byok", "unusable"}
Status == {"absent", "queued", "running", "completed", "failed"}
Fact   == {"pending", "ready", "failed", "skipped"}

(***************************************************************************)
(* Age of a completed run since finished_at: "fresh" under RETRY_AFTER_MS, *)
(* "late" under FAIL_AFTER_MS, then "old".                                 *)
(***************************************************************************)
Age == {"fresh", "late", "old"}

NoProgram == [fact |-> "skipped", text |-> FALSE]
NoTask    == [run |-> NoRun, version |-> 0, useLlm |-> FALSE]
NoPoll    == [pc |-> "idle", run |-> NoRun, version |-> 0]

Latest == Len(versions)
LatestPending ==
  Latest > 0 /\ versions[Latest].fact = "pending" /\ ~versions[Latest].text
Recoverable(q) == row[q].status = "completed" /\ row[q].fact = "pending"
Active(q) == row[q].status \in {"queued", "running"}
InBuildQueue(q) == \E i \in 1..Len(buildQueue) : buildQueue[i] = q

SetFact(q, fact) == row' = [row EXCEPT ![q].fact = fact]

buildVars == <<build, base, withLlm>>
apiVars   == <<poll, factLock, retries, mixed>>

Init ==
  /\ llm \in Mode
  /\ scope \in [Run -> Scope]
  /\ row = [q \in Run |-> [status |-> "absent", fact |-> "skipped",
                           version |-> 0, age |-> "fresh"]]
  /\ versions = <<>>
  /\ buildQueue = <<>>
  /\ factQueue = <<>>
  /\ worker = "idle"
  /\ build = NoRun
  /\ base = NoProgram
  /\ withLlm = FALSE
  /\ task = NoTask
  /\ poll = NoPoll
  /\ factLock = FALSE
  /\ retries = 0
  /\ mixed = {}

-----------------------------------------------------------------------------
(* The user                                                                *)

\* saveLlmSettings, removeLlmKey, or a key that stops working.
SetLlmMode ==
  /\ llm' \in Mode \ {llm}
  /\ UNCHANGED <<scope, row, versions, buildQueue, factQueue, worker,
                 buildVars, task, apiVars>>

\* startRun without its races: active runs that are left are dead ones.
StartRun(q) ==
  /\ row[q].status = "absent"
  /\ \A r \in Run : Active(r) => ~InBuildQueue(r) /\ build # r
  /\ row' = [r \in Run |->
       IF r = q THEN [status |-> "queued", version |-> 0, age |-> "fresh",
                      fact |-> IF scope[q] = "full" THEN "pending"
                               ELSE "skipped"]
       ELSE IF Active(r) THEN [row[r] EXCEPT !.status = "failed"]
       ELSE row[r]]
  /\ buildQueue' = Append(buildQueue, q)
  /\ UNCHANGED <<llm, scope, versions, factQueue, worker, buildVars, task,
                 apiVars>>

-----------------------------------------------------------------------------
(* Worker: build_routes_task                                               *)

\* Pop, mark running, resolve the mode (it throws without a usable key),
\* read the latest program.
BeginBuild ==
  /\ worker = "idle"
  /\ buildQueue # <<>>
  /\ worker' = IF llm = "unusable" THEN "failing" ELSE "building"
  /\ build' = Head(buildQueue)
  /\ buildQueue' = Tail(buildQueue)
  /\ base' = IF Latest = 0 THEN NoProgram
             ELSE [fact |-> versions[Latest].fact,
                   text |-> versions[Latest].text]
  /\ withLlm' = (llm # "none")
  /\ row' = [row EXCEPT ![Head(buildQueue)].status = "running"]
  /\ UNCHANGED <<llm, scope, versions, factQueue, task, apiVars>>

Program(q) ==
  IF scope[q] = "full"
  THEN [fact |-> "pending", text |-> FALSE, run |-> q]
  ELSE [fact |-> base.fact, text |-> base.text, run |-> q]

SaveVersion ==
  /\ worker = "building"
  /\ worker' = "saved"
  /\ versions' = Append(versions, Program(build))
  /\ UNCHANGED <<llm, scope, row, buildQueue, factQueue, buildVars, task,
                 apiVars>>

\* The only build of the worker just saved the latest version.
MarkCompleted ==
  /\ worker = "saved"
  /\ row' = [row EXCEPT ![build] =
               [status |-> "completed", version |-> Latest, age |-> "fresh",
                fact |-> IF scope[build] = "full" THEN "pending"
                         ELSE "skipped"]]
  /\ worker' = IF scope[build] = "full" THEN "completed" ELSE "idle"
  /\ build' = IF scope[build] = "full" THEN build ELSE NoRun
  /\ UNCHANGED <<llm, scope, versions, buildQueue, factQueue, base, withLlm,
                 task, apiVars>>

EnqueueCityFact ==
  /\ worker = "completed"
  /\ factQueue' = Append(factQueue, [run |-> build, version |-> row[build].version,
                                     useLlm |-> withLlm])
  /\ worker' = "idle"
  /\ build' = NoRun
  /\ UNCHANGED <<llm, scope, row, versions, buildQueue, base, withLlm, task,
                 apiVars>>

\* The exception handler and the main loop's callback, in one step: what
\* they write differs only in city_fact_status, which nothing reads between.
BuildFails ==
  /\ worker \in {"building", "saved", "completed", "failing"}
  /\ row' = [row EXCEPT ![build].status = "failed", ![build].fact = "failed"]
  /\ worker' = "idle"
  /\ build' = NoRun
  /\ UNCHANGED <<llm, scope, versions, buildQueue, factQueue, base, withLlm,
                 task, apiVars>>

-----------------------------------------------------------------------------
(* Worker: city_fact_task.  BLPOP serves the build queue first.            *)

BeginFact ==
  /\ worker = "idle"
  /\ buildQueue = <<>>
  /\ factQueue # <<>>
  /\ worker' = "fact"
  /\ task' = Head(factQueue)
  /\ factQueue' = Tail(factQueue)
  /\ UNCHANGED <<llm, scope, row, versions, buildQueue, buildVars, apiVars>>

\* The key is looked up only now, not when the job was queued.
HasLlm == task.useLlm => llm = "byok"

FactFound ==
  /\ worker = "fact"
  /\ HasLlm
  /\ versions' = [versions EXCEPT ![task.version].fact = "ready",
                                  ![task.version].text = TRUE]
  /\ worker' = "factReady"
  /\ UNCHANGED <<llm, scope, row, buildQueue, factQueue, buildVars, task,
                 apiVars>>

\* Mutant of FactFails: the handler updates the row and not the version.
FactFailsInRowOnly ==
  /\ worker \in {"fact", "factReady"}
  /\ worker' = "factFailed"
  /\ UNCHANGED <<llm, scope, row, versions, buildQueue, factQueue, buildVars,
                 task, apiVars>>

\* Any exception, a patch of the version whose row update failed included;
\* the patch keeps the lifehacks.
FactFails ==
  /\ worker \in {"fact", "factReady"}
  /\ versions' = [versions EXCEPT ![task.version].fact = "failed"]
  /\ worker' = "factFailed"
  /\ UNCHANGED <<llm, scope, row, buildQueue, factQueue, buildVars, task,
                 apiVars>>

RecordFact ==
  /\ worker \in {"factReady", "factFailed"}
  /\ SetFact(task.run, IF worker = "factReady" THEN "ready" ELSE "failed")
  /\ worker' = "idle"
  /\ task' = NoTask
  /\ UNCHANGED <<llm, scope, versions, buildQueue, factQueue, buildVars,
                 apiVars>>

Crash ==
  /\ worker # "idle"
  /\ worker' = "idle"
  /\ build' = NoRun
  /\ task' = NoTask
  /\ UNCHANGED <<llm, scope, row, versions, buildQueue, factQueue, base,
                 withLlm, apiVars>>

-----------------------------------------------------------------------------
(* GET /program: recoverCityFactIfNeeded                                   *)

\* getLatestPendingCityFactRun: the one that finished last.
LastRecoverable(q) ==
  /\ Recoverable(q)
  /\ \A r \in Run : Recoverable(r) => row[r].version <= row[q].version

\* The latest program has a fact that is pending.  Its repair, a subprocess
\* without a timeout (repairProgram.ts), may take long before FindRun.
ReadProgram ==
  /\ poll = NoPoll
  /\ LatestPending
  /\ poll' = [pc |-> "find", run |-> NoRun, version |-> Latest]
  /\ UNCHANGED <<llm, scope, row, versions, buildQueue, factQueue, worker,
                 buildVars, task, factLock, retries, mixed>>

\* Mutant of FindRun: recovery never gives up.
FindRunRetryOnly ==
  /\ poll.pc = "find"
  /\ poll' \in {[poll EXCEPT !.pc = "lock", !.run = q] :
                 q \in {r \in Run : LastRecoverable(r) /\ row[r].age # "fresh"
                                    /\ retries < MaxRetries}}
  /\ UNCHANGED <<llm, scope, row, versions, buildQueue, factQueue, worker,
                 buildVars, task, factLock, retries, mixed>>

\* Nothing to do without a run, or with one that has just finished.
FindRun ==
  /\ poll.pc = "find"
  /\ \/ /\ \A q \in Run : LastRecoverable(q) => row[q].age = "fresh"
        /\ poll' = NoPoll
     \/ \E q \in Run :
          /\ LastRecoverable(q)
          /\ \/ row[q].age = "old"
             \/ row[q].age = "late" /\ retries < MaxRetries
          /\ poll' = [poll EXCEPT !.run = q,
                        !.pc = IF row[q].age = "old" THEN "giveUp" ELSE "lock"]
  /\ UNCHANGED <<llm, scope, row, versions, buildQueue, factQueue, worker,
                 buildVars, task, factLock, retries, mixed>>

\* Mutant of GiveUpFact: the whole program is written back as it was read.
GiveUpOverwrites ==
  /\ poll.pc = "giveUp"
  /\ versions' = [versions EXCEPT ![poll.version].fact = "failed",
                                  ![poll.version].text = FALSE]
  /\ poll' = NoPoll
  /\ UNCHANGED <<llm, scope, row, buildQueue, factQueue, worker, buildVars,
                 task, factLock, retries, mixed>>

\* Only the version is patched; the row of the run stays "pending".
GiveUpFact ==
  /\ poll.pc = "giveUp"
  /\ versions' = [versions EXCEPT ![poll.version].fact = "failed"]
  /\ poll' = NoPoll
  /\ UNCHANGED <<llm, scope, row, buildQueue, factQueue, worker, buildVars,
                 task, factLock, retries, mixed>>

LockRetry ==
  /\ poll.pc = "lock"
  /\ poll' = IF factLock THEN NoPoll ELSE [poll EXCEPT !.pc = "enqueue"]
  /\ factLock' = TRUE
  /\ UNCHANGED <<llm, scope, row, versions, buildQueue, factQueue, worker,
                 buildVars, task, retries, mixed>>

\* Mutant of RetryFact: the version is pending again while it is retried.
RetryUnsettles ==
  /\ poll.pc = "enqueue"
  /\ factQueue' = Append(factQueue, [run |-> poll.run, version |-> poll.version,
                                     useLlm |-> TRUE])
  /\ versions' = [versions EXCEPT ![poll.version].fact = "pending"]
  /\ retries' = retries + 1
  /\ mixed' = IF poll.version < row[poll.run].version
              THEN mixed \cup {poll.run} ELSE mixed
  /\ poll' = NoPoll
  /\ UNCHANGED <<llm, scope, row, buildQueue, worker, buildVars,
                 task, factLock>>

\* The payload has no use_llm, which city_fact_task reads as True.
RetryFact ==
  /\ poll.pc = "enqueue"
  /\ factQueue' = Append(factQueue, [run |-> poll.run, version |-> poll.version,
                                     useLlm |-> TRUE])
  /\ retries' = retries + 1
  /\ mixed' = IF poll.version < row[poll.run].version
              THEN mixed \cup {poll.run} ELSE mixed
  /\ poll' = NoPoll
  /\ UNCHANGED <<llm, scope, row, versions, buildQueue, worker, buildVars,
                 task, factLock>>

\* RPUSH throws or the API dies: the lock stays until it expires.
PollFails ==
  /\ poll # NoPoll
  /\ poll' = NoPoll
  /\ UNCHANGED <<llm, scope, row, versions, buildQueue, factQueue, worker,
                 buildVars, task, factLock, retries, mixed>>

RetryLockExpires ==
  /\ factLock
  /\ factLock' = FALSE
  /\ UNCHANGED <<llm, scope, row, versions, buildQueue, factQueue, worker,
                 buildVars, task, poll, retries, mixed>>

\* Half a minute is longer than the worker takes to enqueue the job.
RunAges(q) ==
  /\ row[q].status = "completed"
  /\ row[q].age # "old"
  /\ build # q
  /\ row' = [row EXCEPT ![q].age = IF @ = "fresh" THEN "late" ELSE "old"]
  /\ UNCHANGED <<llm, scope, versions, buildQueue, factQueue, worker,
                 buildVars, task, apiVars>>

-----------------------------------------------------------------------------
Work ==
  \/ BeginBuild \/ SaveVersion \/ MarkCompleted \/ EnqueueCityFact
  \/ BuildFails
  \/ BeginFact \/ FactFound \/ FactFails \/ RecordFact

Poll == FindRun \/ GiveUpFact \/ LockRetry \/ RetryFact

Next ==
  \/ SetLlmMode
  \/ \E q \in Run : StartRun(q) \/ RunAges(q)
  \/ Work \/ Crash
  \/ ReadProgram \/ Poll \/ PollFails \/ RetryLockExpires

Spec == Init /\ [][Next]_vars

(***************************************************************************)
(* Fairness.  The worker runs for ever; while the program shows "pending"  *)
(* the client polls every 2.5 s (web/src/hooks/useTrip.ts), and a GET that *)
(* has begun ends, infinitely often without an error; time passes.         *)
(***************************************************************************)
Fairness ==
  /\ WF_vars(Work)
  /\ WF_vars(Poll)
  /\ SF_vars(ReadProgram)
  /\ SF_vars(FindRun)
  /\ SF_vars(GiveUpFact)
  /\ \A q \in Run : WF_vars(RunAges(q))

FairSpec == Spec /\ Fairness

-----------------------------------------------------------------------------
(* Properties                                                              *)

Building == {"building", "saved", "completed", "failing"}
Facting  == {"fact", "factReady", "factFailed"}
FactJob  == [run : Run, version : 1..Latest, useLlm : BOOLEAN]

\* Types; the worker has at most one job, of the kind its step says.
TypeOK ==
  /\ llm \in Mode
  /\ scope \in [Run -> Scope]
  /\ row \in [Run -> [status : Status, fact : Fact, version : 0..Latest,
                      age : Age]]
  /\ versions \in Seq([fact : Fact, text : BOOLEAN, run : Run])
  /\ buildQueue \in Seq(Run)
  /\ factQueue \in Seq(FactJob)
  /\ worker \in {"idle"} \cup Building \cup Facting
  /\ IF worker \in Building THEN build \in Run ELSE build = NoRun
  /\ IF worker \in Facting THEN task \in FactJob ELSE task = NoTask
  /\ base \in [fact : Fact, text : BOOLEAN]
  /\ withLlm \in BOOLEAN
  /\ poll = NoPoll \/ poll \in [pc : {"find"}, run : {NoRun},
                                version : 1..Latest]
                          \cup [pc : {"lock", "enqueue", "giveUp"}, run : Run,
                                version : 1..Latest]
  /\ factLock \in BOOLEAN
  /\ retries \in 0..MaxRetries
  /\ mixed \subseteq Run

(***************************************************************************)
(* When nothing is under way and recovery has nothing to find, the program *)
(* still shows a skeleton for the fact ("pending") in three cases only: a  *)
(* rebuild of the routes copied "pending" from a version whose own fact    *)
(* was settled later, the run of the version did not complete although its *)
(* version was saved, or the fact of the run went to an older version.     *)
(* All three last until the next full build.                               *)
(***************************************************************************)
Quiet == worker = "idle" /\ buildQueue = <<>> /\ factQueue = <<>>
         /\ poll = NoPoll

HangExplained ==
  Quiet /\ LatestPending /\ (\A q \in Run : ~Recoverable(q)) =>
    LET q == versions[Latest].run
    IN  scope[q] = "routes" \/ row[q].status # "completed" \/ q \in mixed

\* The client stops polling as soon as a fact is not pending: a version
\* never becomes pending again, and never loses a text it had, although
\* jobs and recovery write it in any order.
SettledStaysSettled ==
  [][\A v \in 1..Latest :
       /\ versions[v].fact # "pending" => versions'[v].fact # "pending"
       /\ versions[v].text => versions'[v].text]_vars

\* The versions are a log (VersionLog) of the builds that saved them: however late a job,
\* a retry or a give-up writes, it writes the fact of the version that it names, one at a
\* time, and settles it at most once.
Builds == [v \in 1..Latest |-> versions[v].run]
Settled == {v \in 1..Latest : versions[v].fact # "pending"}
Log == INSTANCE VersionLog WITH log <- Builds, settled <- Settled, current <- Latest
VersionsAreALog == Log!Spec

\* While recovery can see a late fact the program does not stay pending: it
\* is retried, and given up ten minutes after the build.
LateFact == LatestPending /\ \E q \in Run : Recoverable(q)

FactSettles == LateFact ~> ~LateFact

\* "О городе" in the free mode is Wikipedia: while the user's mode is none,
\* no city_fact job asks for the LLM.
FreeFactNeedsNoLlm ==
  \A i \in 1..Len(factQueue) : factQueue[i].useLlm => llm # "none"

\* The behaviours of a user who keeps the mode.
SameModeSpec == Init /\ [][Next /\ UNCHANGED llm]_vars

=============================================================================
