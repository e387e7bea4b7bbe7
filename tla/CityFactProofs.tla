--------------------------- MODULE CityFactProofs ---------------------------
(***************************************************************************)
(* Proofs about CityFact, for any number of runs and of retries.           *)
(*                                                                         *)
(* Types come first, one lemma per action, because every other part needs  *)
(* the numbers of the versions to be in range.  The inductive invariant    *)
(* says who may write what: a run saves one version, while it runs; a job  *)
(* writes the version of its run, or a later one, unless recovery mixed    *)
(* them; and a row is told of the fact after the version was written.      *)
(***************************************************************************)
EXTENDS CityFact, SequenceTheorems, TLAPS

Version == [fact : Fact, text : BOOLEAN, run : Run]
RowType(n) == [status : Status, fact : Fact, version : 0..n, age : Age]
JobType(n) == [run : Run, version : 1..n, useLlm : BOOLEAN]
PollType(n) == {NoPoll} \cup [pc : {"find"}, run : {NoRun}, version : 1..n]
                 \cup [pc : {"lock", "enqueue", "giveUp"}, run : Run, version : 1..n]

\* TypeOK in three parts: what names no version, what names one, and the versions.
PlainType ==
  /\ llm \in Mode
  /\ scope \in [Run -> Scope]
  /\ buildQueue \in Seq(Run)
  /\ worker \in {"idle"} \cup Building \cup Facting
  /\ IF worker \in Building THEN build \in Run ELSE build = NoRun
  /\ base \in [fact : Fact, text : BOOLEAN]
  /\ withLlm \in BOOLEAN
  /\ factLock \in BOOLEAN
  /\ retries \in 0..MaxRetries
  /\ mixed \subseteq Run

NumberType(n) ==
  /\ row \in [Run -> RowType(n)]
  /\ factQueue \in Seq(JobType(n))
  /\ IF worker \in Facting THEN task \in JobType(n) ELSE task = NoTask
  /\ poll \in PollType(n)

Typed == PlainType /\ NumberType(Latest) /\ versions \in Seq(Version)

LEMMA TypeParts == TypeOK <=> Typed
  BY DEF Typed, TypeOK, PlainType, NumberType, RowType, JobType, PollType, FactJob, Version, Latest

LEMMA LatestIsNat ==
  ASSUME versions \in Seq(Version)
  PROVE  /\ Latest \in Nat
         /\ versions \in [1..Latest -> Version]
  BY DEF Latest

\* A patch of a version keeps the others, and whatever it does not name.
LEMMA PatchVersion ==
  ASSUME versions \in Seq(Version), NEW v \in 1..Latest, NEW f \in Fact \ {"pending"},
         \/ versions' = [versions EXCEPT ![v].fact = f]
         \/ versions' = [versions EXCEPT ![v].fact = f, ![v].text = TRUE]
  PROVE  /\ versions' \in Seq(Version)
         /\ Latest' = Latest
         /\ \A u \in 1..Latest :
              /\ versions[u].fact # "pending" => versions'[u].fact # "pending"
              /\ versions[u].text => versions'[u].text
              /\ versions'[u].run = versions[u].run
         /\ versions'[v].fact # "pending"
  <1>1. PICK r \in Version :
          /\ versions' = [versions EXCEPT ![v] = r]
          /\ r.fact = f
          /\ r.run = versions[v].run
          /\ versions[v].text => r.text
    <2>1. versions[v] \in Version
      BY LatestIsNat
    <2>2. CASE versions' = [versions EXCEPT ![v].fact = f]
      <3>1. [versions[v] EXCEPT !.fact = f] \in Version
        BY <2>1 DEF Version
      <3>2. versions' = [versions EXCEPT ![v] = [versions[v] EXCEPT !.fact = f]]
        BY <2>2
      <3>3. QED
        BY <2>1, <3>1, <3>2 DEF Version
    <2>3. CASE versions' = [versions EXCEPT ![v].fact = f, ![v].text = TRUE]
      <3> DEFINE r == [versions[v] EXCEPT !.fact = f, !.text = TRUE]
      <3>1. r \in Version /\ r.fact = f /\ r.text /\ r.run = versions[v].run
        BY <2>1 DEF Version
      <3>2. versions' = [versions EXCEPT ![v] = r]
        BY <2>3, LatestIsNat
      <3>3. QED
        BY <3>1, <3>2
    <2>4. QED
      BY <2>2, <2>3
  <1>2. versions' \in Seq(Version) /\ Len(versions') = Len(versions)
    BY <1>1, ExceptSeq DEF Latest
  <1>3. \A u \in 1..Latest : versions'[u] = IF u = v THEN r ELSE versions[u]
    BY <1>1, LatestIsNat
  <1>4. QED
    BY <1>1, <1>2, <1>3 DEF Latest

-----------------------------------------------------------------------------
(* Types                                                                   *)

LEMMA NumberTypeGrows ==
  ASSUME NEW n \in Nat, NEW m \in Nat, n <= m, NumberType(n)
  PROVE  NumberType(m)
  <1>1. /\ RowType(n) \subseteq RowType(m)
        /\ JobType(n) \subseteq JobType(m)
        /\ PollType(n) \subseteq PollType(m)
    BY DEF RowType, JobType, PollType
  <1>2. factQueue \in Seq(JobType(m))
    BY <1>1 DEF NumberType
  <1>3. QED
    BY <1>1, <1>2 DEF NumberType

LEMMA RowUpdate ==
  ASSUME NEW n \in Nat, row \in [Run -> RowType(n)], NEW q \in Run, NEW x \in RowType(n),
         row' = [row EXCEPT ![q] = x]
  PROVE  /\ row' \in [Run -> RowType(n)]
         /\ row'[q] = x
         /\ \A r \in Run \ {q} : row'[r] = row[r]
  OBVIOUS

LEMMA RowFields ==
  ASSUME NEW n \in Nat, NEW x \in RowType(n)
  PROVE  /\ \A s \in Status : [x EXCEPT !.status = s] \in RowType(n)
         /\ \A f \in Fact : [x EXCEPT !.fact = f] \in RowType(n)
         /\ \A a \in Age : [x EXCEPT !.age = a] \in RowType(n)
         /\ \A s \in Status, f \in Fact :
               [x EXCEPT !.status = s, !.fact = f] \in RowType(n)
         /\ x.status \in Status /\ x.fact \in Fact /\ x.age \in Age /\ x.version \in 0..n
  BY DEF RowType

LEMMA TypeInit == Init => Typed
  <1> SUFFICES ASSUME Init
               PROVE  Typed
    OBVIOUS
  <1>1. PlainType
    <2>1. llm \in Mode /\ scope \in [Run -> Scope] /\ buildQueue \in Seq(Run)
      BY DEF Init
    <2>2. /\ worker \in {"idle"} \cup Building \cup Facting
          /\ worker \notin Building /\ build = NoRun
      BY DEF Init, Building
    <2>3. base \in [fact : Fact, text : BOOLEAN]
      BY DEF Init, NoProgram, Fact
    <2>4. withLlm \in BOOLEAN /\ factLock \in BOOLEAN
      BY DEF Init
    <2>5. retries \in 0..MaxRetries /\ mixed \subseteq Run
      BY RetriesAssumption DEF Init
    <2>6. QED
      BY <2>1, <2>2, <2>3, <2>4, <2>5 DEF PlainType
  <1>2. versions \in Seq(Version) /\ Latest = 0
    BY DEF Init, Latest
  <1>3. NumberType(0)
    BY DEF Init, NumberType, RowType, PollType, Status, Fact, Age, Facting
  <1>4. QED
    BY <1>1, <1>2, <1>3 DEF Typed

\* The actions that leave the versions as they are.
LEMMA TypeUser ==
  ASSUME Typed, SetLlmMode \/ RetryLockExpires \/ PollFails
  PROVE  Typed'
  <1>1. PlainType'
    BY DEF SetLlmMode, RetryLockExpires, PollFails, Typed, PlainType, buildVars, apiVars
  <1>2. NumberType(Latest)' /\ versions' \in Seq(Version)
    BY DEF SetLlmMode, RetryLockExpires, PollFails, Typed, NumberType, PollType, buildVars,
           apiVars, Latest
  <1>3. QED
    BY <1>1, <1>2 DEF Typed

LEMMA TypeStartRun ==
  ASSUME Typed, NEW q \in Run, StartRun(q)
  PROVE  Typed'
  <1>1. PlainType /\ NumberType(Latest) /\ versions \in Seq(Version) /\ Latest \in Nat
    BY LatestIsNat DEF Typed
  <1>2. Latest' = Latest /\ versions' \in Seq(Version)
    BY <1>1 DEF StartRun, Latest
  <1>3. PlainType'
    BY <1>1 DEF PlainType, StartRun, buildVars, apiVars
  <1>4. row' \in [Run -> RowType(Latest)]
    <2>1. \A r \in Run : row[r] \in RowType(Latest)
      BY <1>1 DEF NumberType
    <2>2. \A r \in Run : [row[r] EXCEPT !.status = "failed"] \in RowType(Latest)
      BY <1>1, <2>1, RowFields DEF Status
    <2>3. \A f \in Fact : [status |-> "queued", version |-> 0, age |-> "fresh", fact |-> f]
                            \in RowType(Latest)
      BY <1>1 DEF RowType, Status, Age
    <2>4. "pending" \in Fact /\ "skipped" \in Fact
      BY DEF Fact
    <2>5. QED
      BY <2>1, <2>2, <2>3, <2>4 DEF StartRun
  <1>5. NumberType(Latest)'
    BY <1>1, <1>2, <1>4 DEF NumberType, StartRun, buildVars, apiVars
  <1>6. QED
    BY <1>2, <1>3, <1>5 DEF Typed

LEMMA TypeRunAges ==
  ASSUME Typed, NEW q \in Run, RunAges(q)
  PROVE  Typed'
  <1>1. PlainType /\ NumberType(Latest) /\ versions \in Seq(Version) /\ Latest \in Nat
    BY LatestIsNat DEF Typed
  <1>2. Latest' = Latest /\ versions' \in Seq(Version) /\ PlainType'
    BY <1>1 DEF RunAges, Latest, PlainType, buildVars, apiVars
  <1>3. row' \in [Run -> RowType(Latest)]
    <2>1. row[q] \in RowType(Latest)
      BY <1>1 DEF NumberType
    <2>2. PICK a \in Age : row' = [row EXCEPT ![q] = [row[q] EXCEPT !.age = a]]
      BY DEF RunAges, Age
    <2>3. QED
      BY <1>1, <2>1, <2>2, RowFields, RowUpdate DEF NumberType
  <1>4. NumberType(Latest)'
    BY <1>1, <1>2, <1>3 DEF NumberType, RunAges, buildVars, apiVars
  <1>5. QED
    BY <1>2, <1>4 DEF Typed

LEMMA TypeBeginBuild ==
  ASSUME Typed, BeginBuild
  PROVE  Typed'
  <1>1. PlainType /\ NumberType(Latest) /\ versions \in Seq(Version) /\ Latest \in Nat
    BY LatestIsNat DEF Typed
  <1>2. Latest' = Latest /\ versions' \in Seq(Version)
    BY <1>1 DEF BeginBuild, Latest
  <1>3. /\ build' \in Run /\ build' = Head(buildQueue)
        /\ buildQueue' \in Seq(Run)
    BY <1>1 DEF BeginBuild, PlainType
  <1>4. worker' \in Building /\ worker' \notin Facting
    BY DEF BeginBuild, Building, Facting
  <1>5. base' \in [fact : Fact, text : BOOLEAN]
    <2>1. CASE Latest = 0
      BY <2>1 DEF BeginBuild, NoProgram, Fact
    <2>2. CASE Latest # 0
      <3>1. versions[Latest] \in Version
        BY <1>1, <2>2, LatestIsNat
      <3>2. versions[Latest].fact \in Fact /\ versions[Latest].text \in BOOLEAN
        BY <3>1 DEF Version
      <3>3. base' = [fact |-> versions[Latest].fact, text |-> versions[Latest].text]
        BY <2>2 DEF BeginBuild
      <3>4. QED
        BY <3>2, <3>3
    <2>3. QED
      BY <2>1, <2>2
  <1>6. withLlm' \in BOOLEAN
    BY DEF BeginBuild
  <1>7. PlainType'
    BY <1>1, <1>3, <1>4, <1>5, <1>6 DEF PlainType, BeginBuild, apiVars
  <1>8. row' \in [Run -> RowType(Latest)]
    <2>1. row[build'] \in RowType(Latest)
      BY <1>1, <1>3 DEF NumberType
    <2>2. row' = [row EXCEPT ![build'] = [row[build'] EXCEPT !.status = "running"]]
      BY <1>3 DEF BeginBuild
    <2>3. "running" \in Status
      BY DEF Status
    <2>4. QED
      BY <1>1, <1>3, <2>1, <2>2, <2>3, RowFields, RowUpdate DEF NumberType
  <1>9. task' = NoTask
    BY <1>1 DEF BeginBuild, NumberType, Facting
  <1>10. NumberType(Latest)'
    BY <1>1, <1>2, <1>4, <1>8, <1>9 DEF NumberType, BeginBuild, apiVars
  <1>11. QED
    BY <1>2, <1>7, <1>10 DEF Typed

LEMMA TypeSaveVersion ==
  ASSUME Typed, SaveVersion
  PROVE  Typed' /\ Latest' = Latest + 1
  <1>1. PlainType /\ NumberType(Latest) /\ versions \in Seq(Version) /\ Latest \in Nat
    BY LatestIsNat DEF Typed
  <1>2. build \in Run
    BY <1>1 DEF PlainType, SaveVersion, Building
  <1>3. Program(build) \in Version
    BY <1>1, <1>2 DEF Program, Version, PlainType, Fact
  <1>4. versions' \in Seq(Version) /\ Latest' = Latest + 1
    BY <1>1, <1>3 DEF SaveVersion, Latest
  <1>5. PlainType'
    BY <1>1, <1>2 DEF PlainType, SaveVersion, buildVars, apiVars, Building
  <1>6. NumberType(Latest)'
    <2>1. NumberType(Latest + 1)
      BY <1>1, NumberTypeGrows
    <2>2. worker \notin Facting /\ worker' \notin Facting
      BY DEF SaveVersion, Facting
    <2>3. QED
      BY <1>4, <2>1, <2>2 DEF NumberType, SaveVersion, apiVars
  <1>7. QED
    BY <1>4, <1>5, <1>6 DEF Typed

LEMMA TypeMarkCompleted ==
  ASSUME Typed, MarkCompleted
  PROVE  Typed'
  <1>1. PlainType /\ NumberType(Latest) /\ versions \in Seq(Version) /\ Latest \in Nat
    BY LatestIsNat DEF Typed
  <1>2. Latest' = Latest /\ versions' \in Seq(Version)
    BY <1>1 DEF MarkCompleted, Latest
  <1>3. build \in Run /\ worker \notin Facting /\ worker' \notin Facting
    BY <1>1 DEF PlainType, MarkCompleted, Building, Facting
  <1>4. /\ worker' \in {"idle"} \cup Building
        /\ IF worker' \in Building THEN build' \in Run ELSE build' = NoRun
    BY <1>3 DEF MarkCompleted, Building
  <1>5. PlainType'
    BY <1>1, <1>4 DEF PlainType, MarkCompleted, apiVars
  <1>6. row' \in [Run -> RowType(Latest)]
    <2>1. PICK f \in Fact : row' = [row EXCEPT ![build] =
             [status |-> "completed", version |-> Latest, age |-> "fresh", fact |-> f]]
      BY DEF MarkCompleted, Fact
    <2>2. [status |-> "completed", version |-> Latest, age |-> "fresh", fact |-> f]
             \in RowType(Latest)
      BY <1>1 DEF RowType, Status, Age
    <2>3. QED
      BY <1>1, <1>3, <2>1, <2>2, RowUpdate DEF NumberType
  <1>7. NumberType(Latest)'
    BY <1>1, <1>2, <1>3, <1>6 DEF NumberType, MarkCompleted, apiVars
  <1>8. QED
    BY <1>2, <1>5, <1>7 DEF Typed

LEMMA TypeEnqueue ==
  ASSUME Typed, EnqueueCityFact, row[build].version # 0
  PROVE  Typed'
  <1>1. PlainType /\ NumberType(Latest) /\ versions \in Seq(Version) /\ Latest \in Nat
    BY LatestIsNat DEF Typed
  <1>2. Latest' = Latest /\ versions' \in Seq(Version)
    BY <1>1 DEF EnqueueCityFact, Latest
  <1>3. build \in Run /\ worker \notin Facting /\ worker' \notin Facting
    BY <1>1 DEF PlainType, EnqueueCityFact, Building, Facting
  <1>4. worker' \notin Building /\ build' = NoRun /\ worker' = "idle"
    BY DEF EnqueueCityFact, Building
  <1>5. PlainType'
    BY <1>1, <1>4 DEF PlainType, EnqueueCityFact, apiVars
  <1>6. factQueue' \in Seq(JobType(Latest))
    <2>1. row[build].version \in 1..Latest
      <3>1. row[build] \in RowType(Latest)
        BY <1>1, <1>3 DEF NumberType
      <3>2. row[build].version \in 0..Latest
        BY <1>1, <3>1, RowFields
      <3>3. QED
        BY <1>1, <3>2
    <2>2. [run |-> build, version |-> row[build].version, useLlm |-> withLlm]
             \in JobType(Latest)
      BY <1>1, <1>3, <2>1 DEF JobType, PlainType
    <2>3. QED
      BY <1>1, <2>2 DEF EnqueueCityFact, NumberType
  <1>7. NumberType(Latest)'
    BY <1>1, <1>2, <1>3, <1>6 DEF NumberType, EnqueueCityFact, apiVars
  <1>8. QED
    BY <1>2, <1>5, <1>7 DEF Typed

LEMMA TypeBuildFails ==
  ASSUME Typed, BuildFails
  PROVE  Typed'
  <1>1. PlainType /\ NumberType(Latest) /\ versions \in Seq(Version) /\ Latest \in Nat
    BY LatestIsNat DEF Typed
  <1>2. Latest' = Latest /\ versions' \in Seq(Version)
    BY <1>1 DEF BuildFails, Latest
  <1>3. build \in Run /\ worker \notin Facting /\ worker' \notin Facting
    BY <1>1 DEF PlainType, BuildFails, Building, Facting
  <1>4. worker' \notin Building /\ build' = NoRun /\ worker' = "idle"
    BY DEF BuildFails, Building
  <1>5. PlainType'
    BY <1>1, <1>4 DEF PlainType, BuildFails, apiVars
  <1>6. row' \in [Run -> RowType(Latest)]
    <2>1. row[build] \in RowType(Latest)
      BY <1>1, <1>3 DEF NumberType
    <2>2. row' = [row EXCEPT ![build] = [row[build] EXCEPT !.status = "failed",
                                                           !.fact = "failed"]]
      BY <1>1, <1>3 DEF BuildFails, NumberType
    <2>3. "failed" \in Status /\ "failed" \in Fact
      BY DEF Status, Fact
    <2>4. QED
      BY <1>1, <1>3, <2>1, <2>2, <2>3, RowFields, RowUpdate DEF NumberType
  <1>7. NumberType(Latest)'
    BY <1>1, <1>2, <1>3, <1>6 DEF NumberType, BuildFails, apiVars
  <1>8. QED
    BY <1>2, <1>5, <1>7 DEF Typed

LEMMA TypeBeginFact ==
  ASSUME Typed, BeginFact
  PROVE  Typed'
  <1>1. PlainType /\ NumberType(Latest) /\ versions \in Seq(Version) /\ Latest \in Nat
    BY LatestIsNat DEF Typed
  <1>2. Latest' = Latest /\ versions' \in Seq(Version)
    BY <1>1 DEF BeginFact, Latest
  <1>3. worker' \in Facting /\ worker' \notin Building /\ worker \notin Building
    BY DEF BeginFact, Facting, Building
  <1>4. PlainType'
    BY <1>1, <1>3 DEF PlainType, BeginFact, buildVars, apiVars
  <1>5. task' \in JobType(Latest) /\ factQueue' \in Seq(JobType(Latest))
    BY <1>1 DEF BeginFact, NumberType
  <1>6. NumberType(Latest)'
    BY <1>1, <1>2, <1>3, <1>5 DEF NumberType, BeginFact, apiVars
  <1>7. QED
    BY <1>2, <1>4, <1>6 DEF Typed

\* Whoever writes a fact into a version settles it and keeps its text.
LEMMA TypeFactWritten ==
  ASSUME Typed, FactFound \/ FactFails
  PROVE  /\ Typed'
         /\ Latest' = Latest
         /\ task \in JobType(Latest)
         /\ versions'[task.version].fact # "pending"
         /\ \A u \in 1..Latest :
              /\ versions[u].fact # "pending" => versions'[u].fact # "pending"
              /\ versions[u].text => versions'[u].text
              /\ versions'[u].run = versions[u].run
  <1>1. PlainType /\ NumberType(Latest) /\ versions \in Seq(Version) /\ Latest \in Nat
    BY LatestIsNat DEF Typed
  <1>2. worker \in Facting /\ worker' \in Facting /\ worker' \notin Building
        /\ worker \notin Building
    BY DEF FactFound, FactFails, Facting, Building
  <1>3. task \in JobType(Latest) /\ task.version \in 1..Latest
    BY <1>1, <1>2 DEF NumberType, JobType
  <1>4. PICK f \in {"ready", "failed"} :
          \/ versions' = [versions EXCEPT ![task.version].fact = f]
          \/ versions' = [versions EXCEPT ![task.version].fact = f,
                                          ![task.version].text = TRUE]
    BY DEF FactFound, FactFails
  <1>5. f \in Fact \ {"pending"}
    BY DEF Fact
  <1>6. /\ versions' \in Seq(Version) /\ Latest' = Latest
        /\ versions'[task.version].fact # "pending"
        /\ \A u \in 1..Latest :
              /\ versions[u].fact # "pending" => versions'[u].fact # "pending"
              /\ versions[u].text => versions'[u].text
              /\ versions'[u].run = versions[u].run
    BY <1>1, <1>3, <1>4, <1>5, PatchVersion
  <1>7. PlainType'
    BY <1>1, <1>2 DEF PlainType, FactFound, FactFails, buildVars, apiVars
  <1>8. NumberType(Latest)'
    BY <1>1, <1>2, <1>3, <1>6 DEF NumberType, FactFound, FactFails, apiVars
  <1>9. QED
    BY <1>3, <1>6, <1>7, <1>8 DEF Typed

LEMMA TypeGiveUp ==
  ASSUME Typed, GiveUpFact
  PROVE  /\ Typed'
         /\ Latest' = Latest
         /\ \A u \in 1..Latest :
              /\ versions[u].fact # "pending" => versions'[u].fact # "pending"
              /\ versions[u].text => versions'[u].text
              /\ versions'[u].run = versions[u].run
  <1>1. PlainType /\ NumberType(Latest) /\ versions \in Seq(Version) /\ Latest \in Nat
    BY LatestIsNat DEF Typed
  <1>2. poll.version \in 1..Latest
    BY <1>1 DEF GiveUpFact, NumberType, PollType, NoPoll
  <1>3. versions' = [versions EXCEPT ![poll.version].fact = "failed"]
    BY DEF GiveUpFact
  <1>4. "failed" \in Fact \ {"pending"}
    BY DEF Fact
  <1>5. /\ versions' \in Seq(Version) /\ Latest' = Latest
        /\ \A u \in 1..Latest :
              /\ versions[u].fact # "pending" => versions'[u].fact # "pending"
              /\ versions[u].text => versions'[u].text
              /\ versions'[u].run = versions[u].run
    BY <1>1, <1>2, <1>3, <1>4, PatchVersion
  <1>6. PlainType'
    BY <1>1 DEF PlainType, GiveUpFact, buildVars
  <1>7. poll' \in PollType(Latest)
    BY DEF GiveUpFact, PollType
  <1>8. NumberType(Latest)'
    BY <1>1, <1>5, <1>7 DEF NumberType, GiveUpFact
  <1>9. QED
    BY <1>5, <1>6, <1>8 DEF Typed

LEMMA TypeRecordFact ==
  ASSUME Typed, RecordFact
  PROVE  Typed'
  <1>1. PlainType /\ NumberType(Latest) /\ versions \in Seq(Version) /\ Latest \in Nat
    BY LatestIsNat DEF Typed
  <1>2. Latest' = Latest /\ versions' \in Seq(Version)
    BY <1>1 DEF RecordFact, Latest
  <1>3. /\ worker \in Facting /\ worker' \notin Facting
        /\ worker \notin Building /\ worker' \notin Building /\ worker' = "idle"
    BY DEF RecordFact, Facting, Building
  <1>4. PlainType'
    BY <1>1, <1>3 DEF PlainType, RecordFact, buildVars, apiVars
  <1>5. task.run \in Run
    BY <1>1, <1>3 DEF NumberType, JobType
  <1>6. row' \in [Run -> RowType(Latest)]
    <2>1. PICK f \in Fact : row' = [row EXCEPT ![task.run] = [row[task.run] EXCEPT !.fact = f]]
      BY DEF RecordFact, SetFact, Fact
    <2>2. row[task.run] \in RowType(Latest)
      BY <1>1, <1>5 DEF NumberType
    <2>3. QED
      BY <1>1, <1>5, <2>1, <2>2, RowFields, RowUpdate DEF NumberType
  <1>7. NumberType(Latest)'
    BY <1>1, <1>2, <1>3, <1>6 DEF NumberType, RecordFact, apiVars
  <1>8. QED
    BY <1>2, <1>4, <1>7 DEF Typed

LEMMA TypeCrash ==
  ASSUME Typed, Crash
  PROVE  Typed'
  <1>1. PlainType /\ NumberType(Latest) /\ versions \in Seq(Version) /\ Latest \in Nat
    BY LatestIsNat DEF Typed
  <1>2. Latest' = Latest /\ versions' \in Seq(Version)
    BY <1>1 DEF Crash, Latest
  <1>3. worker' = "idle" /\ worker' \notin Facting /\ worker' \notin Building
    BY DEF Crash, Facting, Building
  <1>4. PlainType'
    BY <1>1, <1>3 DEF PlainType, Crash, apiVars
  <1>5. NumberType(Latest)'
    BY <1>1, <1>2, <1>3 DEF NumberType, Crash, apiVars
  <1>6. QED
    BY <1>2, <1>4, <1>5 DEF Typed

LEMMA TypePoll ==
  ASSUME Typed, ReadProgram \/ FindRun \/ LockRetry
  PROVE  Typed'
  <1>1. PlainType /\ NumberType(Latest) /\ versions \in Seq(Version) /\ Latest \in Nat
    BY LatestIsNat DEF Typed
  <1>2. Latest' = Latest /\ versions' \in Seq(Version)
    BY <1>1 DEF ReadProgram, FindRun, LockRetry, Latest
  <1>3. PlainType'
    <2>1. factLock' \in BOOLEAN
      BY <1>1 DEF PlainType, ReadProgram, FindRun, LockRetry
    <2>2. QED
      BY <1>1, <2>1 DEF PlainType, ReadProgram, FindRun, LockRetry, buildVars
  <1>4. poll' \in PollType(Latest)
    <2>1. CASE ReadProgram
      BY <1>1, <2>1 DEF ReadProgram, LatestPending, PollType
    <2>2. CASE FindRun
      <3>0. poll.pc = "find"
        BY <2>2 DEF FindRun
      <3>1. poll \in [pc : {"find"}, run : {NoRun}, version : 1..Latest]
        BY <1>1, <3>0 DEF NumberType, PollType, NoPoll
      <3>2. CASE poll' = NoPoll
        BY <3>2 DEF PollType
      <3>3. CASE \E q \in Run, pc \in {"giveUp", "lock"} :
                   poll' = [poll EXCEPT !.run = q, !.pc = pc]
        BY <3>1, <3>3 DEF PollType
      <3>4. QED
        BY <2>2, <3>2, <3>3 DEF FindRun
    <2>3. CASE LockRetry
      <3>1. poll \in [pc : {"lock", "enqueue", "giveUp"}, run : Run, version : 1..Latest]
        BY <1>1, <2>3 DEF LockRetry, NumberType, PollType, NoPoll
      <3>2. [poll EXCEPT !.pc = "enqueue"] \in PollType(Latest)
        BY <3>1 DEF PollType
      <3>3. NoPoll \in PollType(Latest)
        BY DEF PollType
      <3>4. QED
        BY <2>3, <3>2, <3>3 DEF LockRetry
    <2>4. QED
      BY <2>1, <2>2, <2>3
  <1>5. NumberType(Latest)'
    BY <1>1, <1>2, <1>4 DEF NumberType, ReadProgram, FindRun, LockRetry
  <1>6. QED
    BY <1>2, <1>3, <1>5 DEF Typed

LEMMA TypeRetryFact ==
  ASSUME Typed, RetryFact, retries < MaxRetries
  PROVE  Typed'
  <1>1. PlainType /\ NumberType(Latest) /\ versions \in Seq(Version) /\ Latest \in Nat
    BY LatestIsNat DEF Typed
  <1>2. Latest' = Latest /\ versions' \in Seq(Version)
    BY <1>1 DEF RetryFact, Latest
  <1>3. poll \in [pc : {"lock", "enqueue", "giveUp"}, run : Run, version : 1..Latest]
    BY <1>1 DEF RetryFact, NumberType, PollType, NoPoll
  <1>4. PlainType'
    <2>1. retries' \in 0..MaxRetries
      BY <1>1, RetriesAssumption DEF PlainType, RetryFact
    <2>2. mixed' \subseteq Run
      BY <1>1, <1>3 DEF PlainType, RetryFact
    <2>3. QED
      BY <1>1, <2>1, <2>2 DEF PlainType, RetryFact, buildVars
  <1>5. factQueue' \in Seq(JobType(Latest))
    <2>1. [run |-> poll.run, version |-> poll.version, useLlm |-> TRUE] \in JobType(Latest)
      BY <1>3 DEF JobType
    <2>2. QED
      BY <1>1, <2>1 DEF RetryFact, NumberType
  <1>6. poll' \in PollType(Latest)
    BY DEF RetryFact, PollType
  <1>7. NumberType(Latest)'
    BY <1>1, <1>2, <1>5, <1>6 DEF NumberType, RetryFact
  <1>8. QED
    BY <1>2, <1>4, <1>7 DEF Typed

-----------------------------------------------------------------------------
(* The inductive invariant                                                 *)

Ended == {"completed", "failed"}

\* A job writes the version of its run, or a later one, unless it is mixed.
Dated(q, v) == row[q].status \in Ended /\ (q \in mixed \/ row[q].version <= v)

\* One run waits at most: the next one starts when no run is active.
QueueInv ==
  buildQueue # <<>> =>
    Len(buildQueue) = 1 /\ row[Head(buildQueue)].status = "queued"

BuildInv ==
  /\ worker \in {"building", "failing", "saved"} => row[build].status = "running"
  /\ worker = "completed" => row[build].status = "completed"

\* Every run saves one version at most, while it runs.
VersionInv ==
  /\ \A v \in 1..Latest : row[versions[v].run].status \notin {"absent", "queued"}
  /\ \A u, v \in 1..Latest : versions[u].run = versions[v].run => u = v
  /\ worker \in {"building", "failing"} => \A v \in 1..Latest : versions[v].run # build
  /\ worker = "saved" => Latest # 0 /\ versions[Latest].run = build

RowVersion ==
  \A q \in Run : row[q].status = "completed" =>
    row[q].version \in 1..Latest /\ versions[row[q].version].run = q

TaskInv ==
  /\ worker \in Facting => Dated(task.run, task.version)
  /\ worker \in {"factReady", "factFailed"} => versions[task.version].fact # "pending"

JobInv == \A i \in 1..Len(factQueue) : Dated(factQueue[i].run, factQueue[i].version)

PollInv ==
  /\ poll.pc \in {"lock", "enqueue"} => retries < MaxRetries
  /\ poll.pc \in {"lock", "enqueue"} => row[poll.run].status \in Ended

\* The run of the latest version is told of its fact after the version.
Told ==
  \A q \in Run : row[q].status = "completed" /\ scope[q] = "full" /\ row[q].version = Latest =>
    row[q].fact = "pending" \/ versions[Latest].fact # "pending" \/ q \in mixed

IInv == /\ Typed
        /\ QueueInv
        /\ BuildInv
        /\ VersionInv
        /\ RowVersion
        /\ TaskInv
        /\ JobInv
        /\ PollInv
        /\ Told

\* What every step does to the rows and to the versions.
RowStep ==
  \A q \in Run : row[q].status \in Ended =>
    row'[q].status \in Ended /\ row'[q].version = row[q].version

VersionStep ==
  /\ Latest <= Latest'
  /\ \A v \in 1..Latest : /\ versions'[v].run = versions[v].run
                          /\ versions[v].fact # "pending" => versions'[v].fact # "pending"
                          /\ versions[v].text => versions'[v].text

LEMMA StaysDated ==
  ASSUME RowStep, mixed \subseteq mixed', NEW q \in Run, NEW v, Dated(q, v)
  PROVE  Dated(q, v)'
  BY DEF RowStep, Dated

LEMMA JobsStayDated ==
  ASSUME Typed, JobInv, RowStep, mixed \subseteq mixed', factQueue' = factQueue
  PROVE  JobInv'
  <1>1. factQueue \in Seq(JobType(Latest))
    BY DEF Typed, NumberType
  <1>2. \A i \in 1..Len(factQueue) : factQueue[i] \in JobType(Latest)
    BY <1>1
  <1>3. \A i \in 1..Len(factQueue) : factQueue[i].run \in Run
    BY <1>2 DEF JobType
  <1>4. QED
    BY <1>3, StaysDated DEF JobInv

LEMMA TaskStaysDated ==
  ASSUME Typed, TaskInv, RowStep, VersionStep, mixed \subseteq mixed',
         task' = task, worker' = worker
  PROVE  TaskInv'
  <1>1. worker \in Facting => task.run \in Run /\ task.version \in 1..Latest
    BY DEF Typed, NumberType, JobType
  <1>2. {"factReady", "factFailed"} \subseteq Facting
    BY DEF Facting
  <1>3. QED
    BY <1>1, <1>2, StaysDated DEF TaskInv, VersionStep

LEMMA PollStays ==
  ASSUME Typed, PollInv, RowStep, poll' = poll, retries' = retries
  PROVE  PollInv'
  <1>1. poll.pc \in {"lock", "enqueue"} => poll.run \in Run
    BY DEF Typed, NumberType, PollType, NoPoll
  <1>2. QED
    BY <1>1 DEF PollInv, RowStep

LEMMA InvInit == Init => IInv
  <1> SUFFICES ASSUME Init
               PROVE  IInv
    OBVIOUS
  <1>1. Typed /\ Latest = 0
    BY TypeInit DEF Init, Latest
  <1>2. QueueInv /\ BuildInv /\ PollInv /\ TaskInv
    BY DEF Init, QueueInv, BuildInv, PollInv, TaskInv, NoPoll, Facting
  <1>3. VersionInv /\ RowVersion /\ JobInv /\ Told
    BY <1>1 DEF Init, VersionInv, RowVersion, JobInv, Told
  <1>4. QED
    BY <1>1, <1>2, <1>3 DEF IInv

\* Steps of the user, the clock and the polls touch neither rows nor versions.
LEMMA KeepBuilds ==
  ASSUME IInv, UNCHANGED <<scope, row, versions, buildQueue, worker, build, task>>,
         mixed \subseteq mixed'
  PROVE  /\ QueueInv' /\ BuildInv' /\ VersionInv' /\ RowVersion' /\ TaskInv' /\ Told'
         /\ RowStep /\ VersionStep
  <1>1. RowStep
    BY DEF RowStep
  <1>2. VersionStep
    BY LatestIsNat DEF VersionStep, IInv, Typed, Latest
  <1>3. QueueInv' /\ BuildInv' /\ VersionInv' /\ RowVersion'
    BY DEF IInv, QueueInv, BuildInv, VersionInv, RowVersion, Latest
  <1>4. TaskInv'
    BY <1>1, <1>2, TaskStaysDated DEF IInv
  <1>5. Told'
    BY DEF IInv, Told, Latest
  <1>6. QED
    BY <1>1, <1>2, <1>3, <1>4, <1>5

LEMMA FoundRun ==
  ASSUME Typed, FindRun, poll' # NoPoll
  PROVE  \E q \in Run :
           /\ Recoverable(q)
           /\ poll'.run = q
           /\ \/ poll'.pc = "giveUp"
              \/ poll'.pc = "lock" /\ retries < MaxRetries
  <1>1. PICK q \in Run :
          /\ LastRecoverable(q)
          /\ \/ row[q].age = "old"
             \/ row[q].age = "late" /\ retries < MaxRetries
          /\ poll' = [poll EXCEPT !.run = q,
                        !.pc = IF row[q].age = "old" THEN "giveUp" ELSE "lock"]
    BY DEF FindRun
  <1>2. poll \in PollType(Latest) /\ poll.pc = "find"
    BY DEF Typed, NumberType, FindRun
  <1>3. poll \in [pc : {"find"}, run : {NoRun}, version : 1..Latest]
    BY <1>2 DEF PollType, NoPoll
  <1>4. CASE row[q].age = "old"
    <2>1. poll'.run = q /\ poll'.pc = "giveUp"
      BY <1>1, <1>3, <1>4
    <2>2. QED
      BY <1>1, <2>1 DEF LastRecoverable
  <1>5. CASE row[q].age # "old"
    <2>1. poll'.run = q /\ poll'.pc = "lock" /\ retries < MaxRetries
      BY <1>1, <1>3, <1>5
    <2>2. QED
      BY <1>1, <2>1 DEF LastRecoverable
  <1>6. QED
    BY <1>4, <1>5

LEMMA InvUser ==
  ASSUME IInv, SetLlmMode \/ RetryLockExpires \/ PollFails \/ ReadProgram \/ FindRun
               \/ LockRetry
  PROVE  IInv' /\ VersionStep
  <1>1. /\ UNCHANGED <<scope, row, versions, buildQueue, worker, build, task>>
        /\ mixed' = mixed /\ factQueue' = factQueue /\ retries' = retries
    BY DEF SetLlmMode, RetryLockExpires, PollFails, ReadProgram, FindRun, LockRetry,
           buildVars, apiVars
  <1>2. /\ QueueInv' /\ BuildInv' /\ VersionInv' /\ RowVersion' /\ TaskInv' /\ Told'
        /\ RowStep /\ VersionStep
    BY <1>1, KeepBuilds
  <1>3. Typed'
    BY TypeUser, TypePoll DEF IInv
  <1>4. JobInv'
    BY <1>1, <1>2, JobsStayDated DEF IInv
  <1>5. PollInv'
    <2>1. CASE poll' = poll
      BY <1>1, <1>2, <2>1, PollStays DEF IInv
    <2>2. CASE poll'.pc \notin {"lock", "enqueue"}
      BY <2>2 DEF PollInv
    <2>3. CASE LockRetry /\ poll' # NoPoll
      <3>1. poll' = [poll EXCEPT !.pc = "enqueue"] /\ poll.pc = "lock"
        BY <2>3 DEF LockRetry
      <3>2. poll'.run = poll.run
        BY <3>1
      <3>3. QED
        BY <1>1, <3>1, <3>2 DEF PollInv, IInv
    <2>4. CASE FindRun /\ poll' # NoPoll
      BY <1>1, <2>4, FoundRun DEF PollInv, Recoverable, Ended, IInv
    <2>5. QED
      <3>1. CASE SetLlmMode \/ RetryLockExpires
        BY <2>1, <3>1 DEF SetLlmMode, RetryLockExpires, apiVars
      <3>2. CASE PollFails
        BY <2>2, <3>2 DEF PollFails, NoPoll
      <3>3. CASE ReadProgram
        BY <2>2, <3>3 DEF ReadProgram
      <3>4. CASE LockRetry
        BY <2>2, <2>3, <3>4 DEF NoPoll
      <3>5. CASE FindRun
        BY <2>2, <2>4, <3>5 DEF NoPoll
      <3>6. QED
        BY <3>1, <3>2, <3>3, <3>4, <3>5
  <1>6. QED
    BY <1>2, <1>3, <1>4, <1>5 DEF IInv

LEMMA InvRetryFact ==
  ASSUME IInv, RetryFact
  PROVE  IInv' /\ VersionStep
  <1>1. /\ UNCHANGED <<scope, row, versions, buildQueue, worker, build, task>>
        /\ mixed \subseteq mixed' /\ poll' = NoPoll
        /\ factQueue' = Append(factQueue, [run |-> poll.run, version |-> poll.version,
                                           useLlm |-> TRUE])
    BY DEF RetryFact, buildVars
  <1>2. /\ QueueInv' /\ BuildInv' /\ VersionInv' /\ RowVersion' /\ TaskInv' /\ Told'
        /\ RowStep /\ VersionStep
    BY <1>1, KeepBuilds
  <1>3. retries < MaxRetries /\ row[poll.run].status \in Ended
    BY DEF IInv, PollInv, RetryFact
  <1>4. Typed'
    BY <1>3, TypeRetryFact DEF IInv
  <1>5. PollInv'
    BY <1>1 DEF PollInv, NoPoll
  <1>6. poll.run \in Run /\ poll.version \in 1..Latest /\ Latest \in Nat
        /\ row[poll.run] \in RowType(Latest)
    <2>1. poll \in [pc : {"lock", "enqueue", "giveUp"}, run : Run, version : 1..Latest]
      BY DEF RetryFact, IInv, Typed, NumberType, PollType, NoPoll
    <2>2. QED
      BY <2>1, LatestIsNat DEF IInv, Typed, NumberType
  <1>7. \A q, v : q = poll.run /\ v = poll.version => Dated(q, v)'
    <2>1. row[poll.run].version \in 0..Latest
      BY <1>6, RowFields
    <2>2. poll.run \in mixed' \/ row[poll.run].version <= poll.version
      BY <1>6, <2>1 DEF RetryFact
    <2>3. QED
      BY <1>1, <1>3, <2>2 DEF Dated
  <1>8. JobInv'
    <2>1. factQueue \in Seq(JobType(Latest))
      BY DEF IInv, Typed, NumberType
    <2>2. \A i \in 1..Len(factQueue) : factQueue[i] \in JobType(Latest)
      BY <2>1
    <2>3. \A i \in 1..Len(factQueue) : factQueue[i].run \in Run
      BY <2>2 DEF JobType
    <2>4. \A i \in 1..Len(factQueue) : \A q, v :
            q = factQueue[i].run /\ v = factQueue[i].version => Dated(q, v)'
      BY <1>1, <1>2, <2>3, StaysDated DEF IInv, JobInv
    <2>5. SUFFICES ASSUME NEW i \in 1..Len(factQueue')
                   PROVE  \A q, v : q = factQueue'[i].run /\ v = factQueue'[i].version
                                      => Dated(q, v)'
      BY DEF JobInv
    <2>6. CASE i \in 1..Len(factQueue)
      <3>1. factQueue'[i] = factQueue[i]
        BY <1>1, <2>1, <2>6
      <3>2. QED
        BY <2>4, <2>6, <3>1
    <2>7. CASE i = Len(factQueue) + 1
      <3>1. factQueue'[i] = [run |-> poll.run, version |-> poll.version, useLlm |-> TRUE]
        BY <1>1, <2>1, <2>7
      <3>2. QED
        BY <1>7, <3>1
    <2>8. QED
      BY <1>1, <2>1, <2>6, <2>7
  <1>9. QED
    BY <1>2, <1>4, <1>5, <1>8 DEF IInv

\* What the steps of the versions and of the rows use of the types.
LEMMA Facts ==
  ASSUME IInv
  PROVE  /\ Typed /\ Latest \in Nat /\ versions \in Seq(Version)
         /\ \A q \in Run : row[q].status \in Status /\ row[q].version \in 0..Latest
         /\ \A v \in 1..Latest : versions[v].run \in Run
         /\ worker \in Building => build \in Run
         /\ worker \in Facting => task.run \in Run /\ task.version \in 1..Latest
  <1>1. Typed /\ Latest \in Nat /\ versions \in Seq(Version) /\ PlainType /\ NumberType(Latest)
    BY LatestIsNat DEF IInv, Typed
  <1>2. \A q \in Run : row[q].status \in Status /\ row[q].version \in 0..Latest
    <2>1. \A q \in Run : row[q] \in RowType(Latest)
      BY <1>1 DEF NumberType
    <2>2. QED
      BY <1>1, <2>1, RowFields
  <1>3. \A v \in 1..Latest : versions[v].run \in Run
    <2>1. \A v \in 1..Latest : versions[v] \in Version
      BY <1>1, LatestIsNat
    <2>2. QED
      BY <2>1 DEF Version
  <1>4. worker \in Building => build \in Run
    BY <1>1 DEF PlainType
  <1>5. worker \in Facting => task.run \in Run /\ task.version \in 1..Latest
    BY <1>1 DEF NumberType, JobType
  <1>6. QED
    BY <1>1, <1>2, <1>3, <1>4, <1>5

\* The invariant after a step that changes nothing but some rows.
LEMMA RowsChange ==
  ASSUME IInv, RowStep, Typed',
         UNCHANGED <<scope, versions, worker, build, task, factQueue, poll, retries, mixed>>,
         \A q \in Run : row'[q].status = "completed" =>
           row[q].status = "completed" /\ row'[q].fact = row[q].fact,
         \A q \in Run : row[q].status \notin {"absent", "queued"} =>
           row'[q].status \notin {"absent", "queued"},
         QueueInv', BuildInv'
  PROVE  IInv' /\ VersionStep
  <1>1. VersionStep /\ Latest' = Latest
    BY Facts DEF VersionStep, Latest
  <1>2. VersionInv'
    BY Facts, <1>1 DEF IInv, VersionInv
  <1>3. RowVersion'
    BY <1>1 DEF IInv, RowVersion, RowStep, Ended
  <1>4. Told'
    BY <1>1 DEF IInv, Told, RowStep, Ended
  <1>5. TaskInv' /\ JobInv' /\ PollInv'
    BY <1>1, TaskStaysDated, JobsStayDated, PollStays DEF IInv
  <1>6. QED
    BY <1>1, <1>2, <1>3, <1>4, <1>5 DEF IInv

LEMMA InvStartRun ==
  ASSUME IInv, NEW q \in Run, StartRun(q)
  PROVE  IInv' /\ VersionStep
  <1>1. Typed'
    BY TypeStartRun DEF IInv
  <1>2. \A r \in Run : row'[r] =
          IF r = q THEN [status |-> "queued", version |-> 0, age |-> "fresh",
                         fact |-> IF scope[q] = "full" THEN "pending" ELSE "skipped"]
          ELSE IF Active(r) THEN [row[r] EXCEPT !.status = "failed"]
          ELSE row[r]
    BY DEF StartRun
  <1>3. /\ row[q].status = "absent" /\ row'[q].status = "queued"
        /\ \A r \in Run \ {q} :
             \/ row[r].status \in {"queued", "running"} /\ row'[r].status = "failed"
                /\ build # r /\ ~InBuildQueue(r)
             \/ row[r].status \notin {"queued", "running"} /\ row'[r] = row[r]
    <2>1. \A r \in Run : row[r] \in RowType(Latest)
      BY DEF IInv, Typed, NumberType
    <2>2. \A r \in Run : [row[r] EXCEPT !.status = "failed"].status = "failed"
      BY <2>1 DEF RowType
    <2>3. row[q].status = "absent" /\ row'[q].status = "queued"
      BY <1>2 DEF StartRun
    <2>4. \A r \in Run \ {q} : Active(r) => row'[r].status = "failed"
      BY <1>2, <2>2
    <2>5. \A r \in Run \ {q} : ~Active(r) => row'[r] = row[r]
      BY <1>2
    <2>6. QED
      BY <2>3, <2>4, <2>5 DEF StartRun, Active
  <1>4. RowStep
    BY <1>3 DEF RowStep, Ended
  <1>5. buildQueue = <<>>
    <2>1. buildQueue \in Seq(Run)
      BY DEF IInv, Typed, PlainType
    <2>2. SUFFICES ASSUME buildQueue # <<>>
                   PROVE  FALSE
      OBVIOUS
    <2>3. Len(buildQueue) = 1 /\ row[buildQueue[1]].status = "queued" /\ buildQueue[1] \in Run
      BY <2>1, <2>2 DEF IInv, QueueInv
    <2>4. InBuildQueue(buildQueue[1])
      BY <2>3 DEF InBuildQueue
    <2>5. QED
      BY <1>3, <2>3, <2>4
  <1>6. QueueInv'
    BY <1>3, <1>5 DEF QueueInv, StartRun
  <1>7. BuildInv'
    <2>1. worker' = worker /\ build' = build
      BY DEF StartRun, buildVars
    <2>2. CASE worker \in {"building", "failing", "saved"}
      <3>1. build \in Run /\ row[build].status = "running"
        BY <2>2, Facts DEF IInv, BuildInv, Building
      <3>2. QED
        BY <1>3, <3>1
    <2>3. CASE worker = "completed"
      <3>1. build \in Run /\ row[build].status = "completed"
        BY <2>3, Facts DEF IInv, BuildInv, Building
      <3>2. QED
        BY <1>3, <2>1, <2>3, <3>1 DEF BuildInv
    <2>4. QED
      BY <2>1, <2>2, <2>3 DEF BuildInv
  <1>8. UNCHANGED <<scope, versions, worker, build, task, factQueue, poll, retries, mixed>>
    BY DEF StartRun, buildVars, apiVars
  <1>9. \A r \in Run : row'[r].status = "completed" =>
          row[r].status = "completed" /\ row'[r].fact = row[r].fact
    BY <1>3
  <1>10. \A r \in Run : row[r].status \notin {"absent", "queued"} =>
           row'[r].status \notin {"absent", "queued"}
    BY <1>3
  <1>11. QED
    BY <1>1, <1>4, <1>6, <1>7, <1>8, <1>9, <1>10, RowsChange

LEMMA InvRunAges ==
  ASSUME IInv, NEW q \in Run, RunAges(q)
  PROVE  IInv' /\ VersionStep
  <1>1. Typed'
    BY TypeRunAges DEF IInv
  <1>2. \A r \in Run : /\ row'[r].status = row[r].status
                       /\ row'[r].version = row[r].version
                       /\ row'[r].fact = row[r].fact
    <2>1. row[q] \in RowType(Latest) /\ row \in [Run -> RowType(Latest)]
      BY DEF IInv, Typed, NumberType
    <2>2. PICK a : row' = [row EXCEPT ![q] = [row[q] EXCEPT !.age = a]]
      BY DEF RunAges
    <2>3. /\ row'[q] = [row[q] EXCEPT !.age = a]
          /\ \A r \in Run \ {q} : row'[r] = row[r]
      BY <2>1, <2>2
    <2>4. QED
      BY <2>1, <2>3 DEF RowType
  <1>3. RowStep
    BY <1>2 DEF RowStep
  <1>4. UNCHANGED <<scope, versions, worker, build, task, factQueue, poll, retries, mixed,
                    buildQueue>>
    BY DEF RunAges, buildVars, apiVars
  <1>5. QueueInv'
    <2>1. buildQueue # <<>> => Head(buildQueue) \in Run
      BY DEF IInv, Typed, PlainType
    <2>2. QED
      BY <1>2, <1>4, <2>1 DEF QueueInv, IInv
  <1>6. BuildInv'
    BY <1>2, <1>4, Facts DEF BuildInv, IInv, Building
  <1>7. QED
    BY <1>1, <1>2, <1>3, <1>4, <1>5, <1>6, RowsChange

\* A row is changed by its fields; the other rows stay.
LEMMA OneRow ==
  ASSUME IInv, NEW q \in Run, NEW s \in Status, NEW f \in Fact,
         \/ row' = [row EXCEPT ![q].status = s] /\ f = row[q].fact
         \/ row' = [row EXCEPT ![q].fact = f] /\ s = row[q].status
         \/ row' = [row EXCEPT ![q].status = s, ![q].fact = f]
  PROVE  /\ row'[q].status = s /\ row'[q].fact = f
         /\ row'[q].version = row[q].version
         /\ \A r \in Run \ {q} : row'[r] = row[r]
  <1>1. row[q] \in RowType(Latest) /\ row \in [Run -> RowType(Latest)]
    BY DEF IInv, Typed, NumberType
  <1>2. CASE row' = [row EXCEPT ![q].status = s] /\ f = row[q].fact
    <2>1. row'[q] = [row[q] EXCEPT !.status = s] /\ \A r \in Run \ {q} : row'[r] = row[r]
      BY <1>1, <1>2
    <2>2. QED
      BY <1>1, <1>2, <2>1 DEF RowType
  <1>3. CASE row' = [row EXCEPT ![q].fact = f] /\ s = row[q].status
    <2>1. row'[q] = [row[q] EXCEPT !.fact = f] /\ \A r \in Run \ {q} : row'[r] = row[r]
      BY <1>1, <1>3
    <2>2. QED
      BY <1>1, <1>3, <2>1 DEF RowType
  <1>4. CASE row' = [row EXCEPT ![q].status = s, ![q].fact = f]
    <2>1. /\ row'[q] = [row[q] EXCEPT !.status = s, !.fact = f]
          /\ \A r \in Run \ {q} : row'[r] = row[r]
      BY <1>1, <1>4
    <2>2. QED
      BY <1>1, <2>1 DEF RowType
  <1>5. QED
    BY <1>2, <1>3, <1>4

LEMMA InvBeginBuild ==
  ASSUME IInv, BeginBuild
  PROVE  IInv' /\ VersionStep
  <1>1. Typed' /\ build' \in Run /\ build' = Head(buildQueue)
    <2>1. buildQueue \in Seq(Run) /\ buildQueue # <<>>
      BY DEF IInv, Typed, PlainType, BeginBuild
    <2>2. QED
      BY <2>1, TypeBeginBuild DEF IInv, BeginBuild
  <1>2. row[build'].status = "queued" /\ buildQueue' = <<>>
    <2>1. buildQueue \in Seq(Run) /\ buildQueue # <<>> /\ Len(buildQueue) = 1
      BY DEF IInv, Typed, PlainType, BeginBuild, QueueInv
    <2>2. QED
      BY <1>1, <2>1 DEF IInv, QueueInv, BeginBuild
  <1>3. /\ row'[build'].status = "running"
        /\ \A r \in Run \ {build'} : row'[r] = row[r]
    <2>1. PICK q \in Run : q = build'
      BY <1>1
    <2>2. row' = [row EXCEPT ![q].status = "running"] /\ "running" \in Status
      BY <1>1, <2>1 DEF BeginBuild, Status
    <2>3. row[q] \in RowType(Latest)
      BY DEF IInv, Typed, NumberType
    <2>4. row[q].fact \in Fact
      BY <2>3, Facts, RowFields
    <2>5. row'[q].status = "running" /\ \A r \in Run \ {q} : row'[r] = row[r]
      BY <2>2, <2>4, OneRow
    <2>6. QED
      BY <2>1, <2>5
  <1>4. /\ UNCHANGED <<scope, versions, task, factQueue, poll, retries, mixed>>
        /\ worker = "idle" /\ worker' \in {"failing", "building"}
    BY DEF BeginBuild, apiVars
  <1>5. RowStep /\ VersionStep /\ Latest' = Latest
    BY <1>2, <1>3, <1>4, Facts DEF RowStep, VersionStep, Latest, Ended
  <1>6. QueueInv' /\ BuildInv'
    BY <1>2, <1>3, <1>4 DEF QueueInv, BuildInv
  <1>7. VersionInv'
    <2>1. \A v \in 1..Latest : versions[v].run # build'
      BY <1>2 DEF IInv, VersionInv
    <2>2. \A v \in 1..Latest : row'[versions[v].run].status \notin {"absent", "queued"}
      BY <1>3, <2>1, Facts DEF IInv, VersionInv
    <2>3. QED
      BY <1>4, <1>5, <2>1, <2>2 DEF IInv, VersionInv
  <1>8. RowVersion' /\ Told'
    BY <1>3, <1>4, <1>5 DEF IInv, RowVersion, Told
  <1>9. TaskInv'
    BY <1>4 DEF TaskInv, Facting
  <1>10. JobInv' /\ PollInv'
    BY <1>4, <1>5, JobsStayDated, PollStays DEF IInv
  <1>11. QED
    BY <1>1, <1>5, <1>6, <1>7, <1>8, <1>9, <1>10 DEF IInv

LEMMA InvSaveVersion ==
  ASSUME IInv, SaveVersion
  PROVE  IInv' /\ VersionStep
  <1>1. Typed' /\ Latest' = Latest + 1
    BY TypeSaveVersion DEF IInv
  <1>2. /\ UNCHANGED <<scope, row, buildQueue, build, task, factQueue, poll, retries, mixed>>
        /\ worker = "building" /\ worker' = "saved"
    BY DEF SaveVersion, buildVars, apiVars
  <1>3. /\ build \in Run /\ row[build].status = "running"
        /\ \A v \in 1..Latest : versions[v].run # build
    BY <1>2, Facts DEF IInv, BuildInv, VersionInv, Building
  <1>4. /\ \A v \in 1..Latest : versions'[v] = versions[v]
        /\ versions'[Latest'].run = build
    <2>1. versions' = Append(versions, Program(build)) /\ Program(build).run = build
      BY DEF SaveVersion, Program
    <2>2. QED
      BY <1>1, <2>1, Facts DEF Latest
  <1>5. RowStep /\ VersionStep
    BY <1>1, <1>2, <1>4, Facts DEF RowStep, VersionStep
  <1>6. QueueInv' /\ BuildInv'
    BY <1>2, <1>3 DEF IInv, QueueInv, BuildInv
  <1>7. VersionInv'
    <2>1. \A v \in 1..Latest' : v = Latest' \/ v \in 1..Latest
      BY <1>1, Facts
    <2>2. \A v \in 1..Latest' : row'[versions'[v].run].status \notin {"absent", "queued"}
      BY <1>2, <1>3, <1>4, <2>1 DEF IInv, VersionInv
    <2>3. \A u, v \in 1..Latest' : versions'[u].run = versions'[v].run => u = v
      BY <1>3, <1>4, <2>1 DEF IInv, VersionInv
    <2>4. Latest' # 0
      BY <1>1, Facts
    <2>5. QED
      BY <1>2, <1>4, <2>2, <2>3, <2>4 DEF VersionInv
  <1>8. RowVersion'
    BY <1>1, <1>2, <1>4, Facts DEF IInv, RowVersion
  <1>9. Told'
    BY <1>1, <1>2, Facts DEF Told
  <1>10. TaskInv'
    BY <1>2 DEF TaskInv, Facting
  <1>11. JobInv' /\ PollInv'
    BY <1>2, <1>5, JobsStayDated, PollStays DEF IInv
  <1>12. QED
    BY <1>1, <1>5, <1>6, <1>7, <1>8, <1>9, <1>10, <1>11 DEF IInv

LEMMA InvMarkCompleted ==
  ASSUME IInv, MarkCompleted
  PROVE  IInv' /\ VersionStep
  <1>1. Typed'
    BY TypeMarkCompleted DEF IInv
  <1>2. /\ UNCHANGED <<scope, versions, buildQueue, task, factQueue, poll, retries, mixed>>
        /\ worker = "saved" /\ worker' \in {"completed", "idle"}
        /\ worker' = "completed" => build' = build
    BY DEF MarkCompleted, apiVars
  <1>3. /\ build \in Run /\ row[build].status = "running"
        /\ Latest # 0 /\ versions[Latest].run = build
    BY <1>2, Facts DEF IInv, BuildInv, VersionInv, Building
  <1>4. /\ row'[build].status = "completed" /\ row'[build].version = Latest
        /\ scope[build] = "full" => row'[build].fact = "pending"
        /\ \A r \in Run \ {build} : row'[r] = row[r]
    <2>1. row \in [Run -> RowType(Latest)]
      BY DEF IInv, Typed, NumberType
    <2>2. QED
      BY <1>3, <2>1 DEF MarkCompleted
  <1>5. RowStep /\ VersionStep /\ Latest' = Latest
    BY <1>2, <1>3, <1>4, Facts DEF RowStep, VersionStep, Latest, Ended
  <1>6. QueueInv'
    <2>1. buildQueue # <<>> => Head(buildQueue) \in Run /\ Head(buildQueue) # build
      BY <1>3 DEF IInv, Typed, PlainType, QueueInv
    <2>2. QED
      BY <1>2, <1>4, <2>1 DEF IInv, QueueInv
  <1>7. BuildInv'
    BY <1>2, <1>4 DEF BuildInv
  <1>8. VersionInv'
    BY <1>2, <1>4, <1>5, Facts DEF IInv, VersionInv
  <1>9. RowVersion'
    BY <1>2, <1>3, <1>4, <1>5, Facts DEF IInv, RowVersion
  <1>10. Told'
    BY <1>2, <1>4, <1>5 DEF IInv, Told
  <1>11. TaskInv'
    BY <1>2 DEF TaskInv, Facting
  <1>12. JobInv' /\ PollInv'
    BY <1>2, <1>5, JobsStayDated, PollStays DEF IInv
  <1>13. QED
    BY <1>1, <1>5, <1>6, <1>7, <1>8, <1>9, <1>10, <1>11, <1>12 DEF IInv

LEMMA InvEnqueue ==
  ASSUME IInv, EnqueueCityFact
  PROVE  IInv' /\ VersionStep
  <1>1. /\ UNCHANGED <<scope, row, versions, buildQueue, task, poll, retries, mixed>>
        /\ worker = "completed" /\ worker' = "idle"
        /\ factQueue' = Append(factQueue, [run |-> build, version |-> row[build].version,
                                           useLlm |-> withLlm])
    BY DEF EnqueueCityFact, apiVars
  <1>2. build \in Run /\ row[build].status = "completed" /\ row[build].version \in 1..Latest
    BY <1>1, Facts DEF IInv, BuildInv, RowVersion, Building
  <1>3. Typed'
    BY <1>2, TypeEnqueue DEF IInv
  <1>4. RowStep /\ VersionStep /\ Latest' = Latest
    BY <1>1, Facts DEF RowStep, VersionStep, Latest
  <1>5. QueueInv' /\ BuildInv' /\ VersionInv' /\ RowVersion' /\ Told'
    BY <1>1, <1>4 DEF IInv, QueueInv, BuildInv, VersionInv, RowVersion, Told
  <1>6. TaskInv'
    BY <1>1 DEF TaskInv, Facting
  <1>7. PollInv'
    BY <1>1, <1>4, PollStays DEF IInv
  <1>8. JobInv'
    <2>1. factQueue \in Seq(JobType(Latest))
      BY DEF IInv, Typed, NumberType
    <2>2. \A i \in 1..Len(factQueue) : factQueue[i] \in JobType(Latest)
      BY <2>1
    <2>3. \A i \in 1..Len(factQueue) : factQueue[i].run \in Run
      BY <2>2 DEF JobType
    <2>4. \A i \in 1..Len(factQueue) : \A q, v :
            q = factQueue[i].run /\ v = factQueue[i].version => Dated(q, v)'
      BY <1>1, <1>4, <2>3, StaysDated DEF IInv, JobInv
    <2>5. \A q, v : q = build /\ v = row[build].version => Dated(q, v)'
      BY <1>1, <1>2, Facts DEF Dated, Ended
    <2>6. SUFFICES ASSUME NEW i \in 1..Len(factQueue')
                   PROVE  \A q, v : q = factQueue'[i].run /\ v = factQueue'[i].version
                                      => Dated(q, v)'
      BY DEF JobInv
    <2>7. CASE i \in 1..Len(factQueue)
      <3>1. factQueue'[i] = factQueue[i]
        BY <1>1, <2>1, <2>7
      <3>2. QED
        BY <2>4, <2>7, <3>1
    <2>8. CASE i = Len(factQueue) + 1
      <3>1. factQueue'[i] = [run |-> build, version |-> row[build].version,
                             useLlm |-> withLlm]
        BY <1>1, <2>1, <2>8
      <3>2. QED
        BY <2>5, <3>1
    <2>9. QED
      BY <1>1, <2>1, <2>7, <2>8
  <1>9. QED
    BY <1>3, <1>4, <1>5, <1>6, <1>7, <1>8 DEF IInv

LEMMA InvBuildFails ==
  ASSUME IInv, BuildFails
  PROVE  IInv' /\ VersionStep
  <1>1. Typed'
    BY TypeBuildFails DEF IInv
  <1>2. /\ UNCHANGED <<scope, versions, buildQueue, task, factQueue, poll, retries, mixed>>
        /\ worker \in Building /\ worker' = "idle"
    BY DEF BuildFails, apiVars, Building
  <1>3. build \in Run /\ row[build].status \notin {"absent", "queued"}
    BY <1>2, Facts DEF IInv, BuildInv, Building
  <1>4. /\ row'[build].status = "failed" /\ row'[build].version = row[build].version
        /\ \A r \in Run \ {build} : row'[r] = row[r]
    BY <1>3, OneRow DEF BuildFails, Status, Fact
  <1>5. RowStep /\ VersionStep /\ Latest' = Latest
    BY <1>2, <1>4, Facts DEF RowStep, VersionStep, Latest, Ended
  <1>6. QueueInv'
    <2>1. buildQueue # <<>> => Head(buildQueue) \in Run /\ Head(buildQueue) # build
      BY <1>3 DEF IInv, Typed, PlainType, QueueInv
    <2>2. QED
      BY <1>2, <1>4, <2>1 DEF IInv, QueueInv
  <1>7. BuildInv'
    BY <1>2 DEF BuildInv
  <1>8. VersionInv'
    BY <1>2, <1>4, <1>5, Facts DEF IInv, VersionInv
  <1>9. RowVersion' /\ Told'
    BY <1>2, <1>4, <1>5 DEF IInv, RowVersion, Told
  <1>10. TaskInv'
    BY <1>2 DEF TaskInv, Facting
  <1>11. JobInv' /\ PollInv'
    BY <1>2, <1>5, JobsStayDated, PollStays DEF IInv
  <1>12. QED
    BY <1>1, <1>5, <1>6, <1>7, <1>8, <1>9, <1>10, <1>11 DEF IInv

LEMMA InvBeginFact ==
  ASSUME IInv, BeginFact
  PROVE  IInv' /\ VersionStep
  <1>1. Typed'
    BY TypeBeginFact DEF IInv
  <1>2. /\ UNCHANGED <<scope, row, versions, buildQueue, build, poll, retries, mixed>>
        /\ worker = "idle" /\ worker' = "fact"
        /\ factQueue # <<>> /\ task' = Head(factQueue) /\ factQueue' = Tail(factQueue)
    BY DEF BeginFact, buildVars, apiVars
  <1>3. RowStep /\ VersionStep /\ Latest' = Latest
    BY <1>2, Facts DEF RowStep, VersionStep, Latest
  <1>4. QueueInv' /\ BuildInv' /\ VersionInv' /\ RowVersion' /\ Told'
    BY <1>2, <1>3 DEF IInv, QueueInv, BuildInv, VersionInv, RowVersion, Told
  <1>5. factQueue \in Seq(JobType(Latest))
    BY DEF IInv, Typed, NumberType
  <1>6. TaskInv'
    <2>1. 1 \in 1..Len(factQueue) /\ task' = factQueue[1]
      BY <1>2, <1>5
    <2>2. Dated(factQueue[1].run, factQueue[1].version)
      BY <2>1 DEF IInv, JobInv
    <2>3. QED
      BY <1>2, <2>1, <2>2 DEF TaskInv, Dated
  <1>7. JobInv'
    <2>1. \A i \in 1..Len(factQueue') : /\ i + 1 \in 1..Len(factQueue)
                                       /\ factQueue'[i] = factQueue[i + 1]
      BY <1>2, <1>5
    <2>2. QED
      BY <1>2, <2>1 DEF IInv, JobInv, Dated
  <1>8. PollInv'
    BY <1>2, <1>3, PollStays DEF IInv
  <1>9. QED
    BY <1>1, <1>3, <1>4, <1>6, <1>7, <1>8 DEF IInv

\* A fact that is written into a version leaves the rows.
LEMMA FactWritten ==
  ASSUME IInv, Typed', VersionStep, Latest' = Latest, TaskInv',
         \/ worker' = worker
         \/ worker \in Facting /\ worker' \in Facting,
         UNCHANGED <<scope, row, buildQueue, build, factQueue, mixed>>, PollInv'
  PROVE  IInv'
  <1>1. RowStep
    BY DEF RowStep
  <1>2. QueueInv' /\ BuildInv'
    BY DEF IInv, QueueInv, BuildInv, Facting
  <1>3. VersionInv'
    <2>1. \A v \in 1..Latest : versions'[v].run = versions[v].run
      BY DEF VersionStep
    <2>2. /\ worker' \in {"building", "failing"} => worker \in {"building", "failing"}
          /\ worker' = "saved" => worker = "saved"
      BY DEF Facting
    <2>3. Latest # 0 => Latest \in 1..Latest
      BY Facts
    <2>4. QED
      BY <2>1, <2>2, <2>3 DEF IInv, VersionInv
  <1>4. RowVersion'
    BY DEF IInv, RowVersion, VersionStep
  <1>5. Told'
    BY Facts DEF IInv, Told, VersionStep, RowVersion
  <1>6. JobInv'
    BY <1>1, JobsStayDated DEF IInv
  <1>7. QED
    BY <1>2, <1>3, <1>4, <1>5, <1>6 DEF IInv

LEMMA InvFactWritten ==
  ASSUME IInv, FactFound \/ FactFails
  PROVE  IInv' /\ VersionStep
  <1>1. /\ Typed' /\ Latest' = Latest
        /\ versions'[task.version].fact # "pending"
        /\ \A u \in 1..Latest :
              /\ versions[u].fact # "pending" => versions'[u].fact # "pending"
              /\ versions[u].text => versions'[u].text
              /\ versions'[u].run = versions[u].run
    BY TypeFactWritten DEF IInv
  <1>2. VersionStep
    BY <1>1, Facts DEF VersionStep
  <1>3. /\ UNCHANGED <<scope, row, buildQueue, build, task, factQueue, retries, mixed, poll>>
        /\ worker \in Facting /\ worker' \in Facting
    BY DEF FactFound, FactFails, buildVars, apiVars, Facting
  <1>4. TaskInv'
    BY <1>1, <1>3 DEF IInv, TaskInv, Dated
  <1>5. PollInv'
    BY <1>3 DEF IInv, PollInv
  <1>6. QED
    BY <1>1, <1>2, <1>3, <1>4, <1>5, FactWritten

LEMMA InvGiveUp ==
  ASSUME IInv, GiveUpFact
  PROVE  IInv' /\ VersionStep
  <1>1. /\ Typed' /\ Latest' = Latest
        /\ \A u \in 1..Latest :
              /\ versions[u].fact # "pending" => versions'[u].fact # "pending"
              /\ versions[u].text => versions'[u].text
              /\ versions'[u].run = versions[u].run
    BY TypeGiveUp DEF IInv
  <1>2. VersionStep
    BY <1>1, Facts DEF VersionStep
  <1>3. /\ UNCHANGED <<scope, row, buildQueue, build, task, factQueue, retries, mixed>>
        /\ worker' = worker /\ poll' = NoPoll
    BY DEF GiveUpFact, buildVars
  <1>4. TaskInv'
    <2>1. RowStep
      BY <1>3 DEF RowStep
    <2>2. QED
      BY <1>2, <1>3, <2>1, TaskStaysDated DEF IInv
  <1>5. Typed' /\ Latest' = Latest
    BY <1>1
  <1>6. PollInv'
    BY <1>3 DEF PollInv, NoPoll
  <1>7. IInv'
    BY <1>2, <1>3, <1>4, <1>5, <1>6, FactWritten
  <1>8. QED
    BY <1>2, <1>7

LEMMA InvRecordFact ==
  ASSUME IInv, RecordFact
  PROVE  IInv' /\ VersionStep
  <1>1. Typed'
    BY TypeRecordFact DEF IInv
  <1>2. /\ UNCHANGED <<scope, versions, buildQueue, build, factQueue, poll, retries, mixed>>
        /\ worker \in {"factReady", "factFailed"} /\ worker \in Facting /\ worker' = "idle"
    BY DEF RecordFact, buildVars, apiVars, Facting
  <1>3. /\ task.run \in Run /\ task.version \in 1..Latest
        /\ Dated(task.run, task.version) /\ versions[task.version].fact # "pending"
    BY <1>2, Facts DEF IInv, TaskInv
  <1>4. /\ \A r \in Run : row'[r].status = row[r].status /\ row'[r].version = row[r].version
        /\ \A r \in Run \ {task.run} : row'[r] = row[r]
    <2>1. PICK f \in Fact : row' = [row EXCEPT ![task.run].fact = f]
      BY DEF RecordFact, SetFact, Fact
    <2>2. QED
      BY <1>3, <2>1, OneRow, Facts
  <1>5. RowStep /\ VersionStep /\ Latest' = Latest
    BY <1>2, <1>4, Facts DEF RowStep, VersionStep, Latest
  <1>6. QueueInv'
    <2>1. buildQueue # <<>> => Head(buildQueue) \in Run
      BY DEF IInv, Typed, PlainType
    <2>2. QED
      BY <1>2, <1>4, <2>1 DEF IInv, QueueInv
  <1>7. BuildInv' /\ TaskInv'
    BY <1>2 DEF BuildInv, TaskInv, Facting
  <1>8. VersionInv' /\ RowVersion'
    BY <1>2, <1>4, <1>5, Facts DEF IInv, VersionInv, RowVersion
  <1>9. Told'
    <2>1. row[task.run].version = Latest /\ task.run \notin mixed =>
            versions[Latest].fact # "pending"
      BY <1>3, Facts DEF Dated
    <2>2. QED
      BY <1>2, <1>4, <1>5, <2>1 DEF IInv, Told
  <1>10. JobInv' /\ PollInv'
    BY <1>2, <1>5, JobsStayDated, PollStays DEF IInv
  <1>11. QED
    BY <1>1, <1>5, <1>6, <1>7, <1>8, <1>9, <1>10 DEF IInv

LEMMA InvCrash ==
  ASSUME IInv, Crash
  PROVE  IInv' /\ VersionStep
  <1>1. Typed'
    BY TypeCrash DEF IInv
  <1>2. /\ UNCHANGED <<scope, row, versions, buildQueue, factQueue, poll, retries, mixed>>
        /\ worker' = "idle"
    BY DEF Crash, apiVars
  <1>3. RowStep /\ VersionStep /\ Latest' = Latest
    BY <1>2, Facts DEF RowStep, VersionStep, Latest
  <1>4. QueueInv' /\ BuildInv' /\ VersionInv' /\ RowVersion' /\ Told' /\ TaskInv'
    BY <1>2, <1>3
    DEF IInv, QueueInv, BuildInv, VersionInv, RowVersion, Told, TaskInv, Facting
  <1>5. JobInv' /\ PollInv'
    BY <1>2, <1>3, JobsStayDated, PollStays DEF IInv
  <1>6. QED
    BY <1>1, <1>3, <1>4, <1>5 DEF IInv

LEMMA InvStep ==
  ASSUME IInv, Next
  PROVE  IInv' /\ VersionStep
  <1>1. CASE SetLlmMode \/ RetryLockExpires \/ PollFails \/ ReadProgram \/ FindRun
             \/ LockRetry
    BY <1>1, InvUser
  <1>2. CASE \E q \in Run : StartRun(q) \/ RunAges(q)
    BY <1>2, InvStartRun, InvRunAges
  <1>3. CASE BeginBuild \/ SaveVersion \/ MarkCompleted \/ EnqueueCityFact \/ BuildFails
    BY <1>3, InvBeginBuild, InvSaveVersion, InvMarkCompleted, InvEnqueue, InvBuildFails
  <1>4. CASE BeginFact \/ FactFound \/ FactFails \/ RecordFact \/ Crash
    BY <1>4, InvBeginFact, InvFactWritten, InvRecordFact, InvCrash
  <1>5. CASE GiveUpFact \/ RetryFact
    BY <1>5, InvGiveUp, InvRetryFact
  <1>6. QED
    BY <1>1, <1>2, <1>3, <1>4, <1>5 DEF Next, Work, Poll

LEMMA InvStutter ==
  ASSUME IInv, UNCHANGED vars
  PROVE  IInv'
  <1>1. UNCHANGED <<llm, scope, row, versions, buildQueue, factQueue, worker, build, base,
                    withLlm, task, poll, factLock, retries, mixed>>
    BY DEF vars
  <1>2. Typed'
    BY <1>1 DEF IInv, Typed, PlainType, NumberType, Latest
  <1>3. /\ QueueInv' /\ BuildInv' /\ VersionInv' /\ RowVersion' /\ TaskInv' /\ Told'
        /\ RowStep
    BY <1>1, KeepBuilds
  <1>4. JobInv' /\ PollInv'
    BY <1>1, <1>3, JobsStayDated, PollStays DEF IInv
  <1>5. QED
    BY <1>2, <1>3, <1>4 DEF IInv

LEMMA Invariance == Spec => []IInv
  <1>1. IInv /\ [Next]_vars => IInv'
    BY InvStep, InvStutter
  <1>2. QED
    BY <1>1, InvInit, PTL DEF Spec

-----------------------------------------------------------------------------
(* Theorems                                                                *)

\* Types hold for any number of runs and of retries: every job names a version that
\* exists, and the worker holds a task exactly while it works on a fact.
THEOREM FactTypes == Spec => []TypeOK
  <1>1. IInv => TypeOK
    BY TypeParts DEF IInv
  <1>2. QED
    BY <1>1, Invariance, PTL

\* The skeleton that stays is one of the three known cases.
THEOREM HangIsExplained == Spec => []HangExplained
  <1>1. ASSUME IInv
        PROVE  HangExplained
    <2>1. SUFFICES ASSUME LatestPending,
                          \A q \in Run : ~Recoverable(q),
                          scope[versions[Latest].run] # "routes",
                          row[versions[Latest].run].status = "completed",
                          versions[Latest].run \notin mixed
                   PROVE  FALSE
      BY DEF HangExplained
    <2>2. Latest \in 1..Latest
      BY <2>1, <1>1, Facts DEF LatestPending
    <2>3. PICK q \in Run : q = versions[Latest].run
      BY <1>1, <2>2, Facts
    <2>4. row[q].version \in 1..Latest /\ versions[row[q].version].run = q
      BY <1>1, <2>1, <2>3 DEF IInv, RowVersion
    <2>5. row[q].version = Latest
      BY <1>1, <2>2, <2>3, <2>4 DEF IInv, VersionInv
    <2>6. scope[q] = "full"
      BY <1>1, <2>1, <2>3 DEF IInv, Typed, PlainType, Scope
    <2>7. QED
      BY <1>1, <2>1, <2>3, <2>5, <2>6 DEF IInv, Told, LatestPending, Recoverable
  <1>2. QED
    BY <1>1, Invariance, PTL

\* Whatever the order of jobs, retries and recovery, a fact that is settled stays so
\* and a text is never lost.
THEOREM SettledStays == Spec => SettledStaysSettled
  <1>1. IInv /\ [Next]_vars =>
          [\A v \in 1..Latest :
             /\ versions[v].fact # "pending" => versions'[v].fact # "pending"
             /\ versions[v].text => versions'[v].text]_vars
    BY InvStep DEF VersionStep
  <1>2. QED
    BY <1>1, Invariance, PTL DEF Spec, SettledStaysSettled

-----------------------------------------------------------------------------
(* The versions are a log                                                  *)

\* Which steps write versions.
LEMMA VersionWriters ==
  ASSUME [Next]_vars
  PROVE  versions' = versions \/ SaveVersion \/ FactFound \/ FactFails \/ GiveUpFact
  <1>1. ASSUME NEW q \in Run, StartRun(q) \/ RunAges(q) PROVE versions' = versions
    BY <1>1 DEF StartRun, RunAges
  <1>2. CASE SetLlmMode \/ Crash \/ ReadProgram \/ PollFails \/ RetryLockExpires
    BY <1>2 DEF SetLlmMode, Crash, ReadProgram, PollFails, RetryLockExpires
  <1>3. CASE Work
    <2>1. CASE BeginBuild \/ MarkCompleted \/ EnqueueCityFact
      BY <2>1 DEF BeginBuild, MarkCompleted, EnqueueCityFact
    <2>2. CASE BuildFails \/ BeginFact \/ RecordFact
      BY <2>2 DEF BuildFails, BeginFact, RecordFact
    <2>3. QED
      BY <1>3, <2>1, <2>2 DEF Work
  <1>4. CASE Poll
    <2>1. CASE FindRun
      BY <2>1, Zenon DEF FindRun
    <2>2. CASE LockRetry \/ RetryFact
      BY <2>2, Zenon DEF LockRetry, RetryFact
    <2>3. QED
      BY <1>4, <2>1, <2>2 DEF Poll
  <1>5. QED
    BY <1>1, <1>2, <1>3, <1>4 DEF Next, vars

\* A patch of one version settles it, if it was not.
LEMMA PatchIsSettle ==
  ASSUME Latest \in Nat, Latest' = Latest, NEW w \in 1..Latest,
         \A v \in 1..Latest : v # w => versions'[v] = versions[v],
         versions'[w].run = versions[w].run, versions'[w].fact # "pending"
  PROVE  [Log!Next]_(Log!vars)
  <1>1. \A v \in 1..Latest : versions'[v].run = versions[v].run
    OBVIOUS
  <1>2. Builds' = Builds /\ DOMAIN Builds = 1..Latest
    BY <1>1 DEF Builds
  <1>3. Settled' = Settled \union {w}
    BY DEF Settled
  <1>4. CASE w \in Settled
    BY <1>2, <1>3, <1>4 DEF Log!vars
  <1>5. CASE w \notin Settled
    BY <1>2, <1>3, <1>5 DEF Log!Next, Log!Settle
  <1>6. QED
    BY <1>4, <1>5

LEMMA LogNext ==
  ASSUME IInv, [Next]_vars
  PROVE  [Log!Next]_(Log!vars)
  <1>1. Typed /\ versions \in Seq(Version) /\ Latest \in Nat
    BY LatestIsNat DEF IInv, Typed
  <1>2. CASE versions' = versions
    BY <1>2 DEF Log!vars, Builds, Settled, Latest
  <1>3. CASE SaveVersion
    <2>1. PICK new : versions' = Append(versions, new)
      BY <1>3 DEF SaveVersion
    <2>2. /\ Latest' = Latest + 1
          /\ \A v \in 1..Latest : versions'[v] = versions[v] /\ v \in 1..(Latest + 1)
          /\ Latest + 1 \notin 1..Latest
          /\ 1..(Latest + 1) = (1..Latest) \union {Latest + 1}
      BY <1>1, <2>1 DEF Latest
    <2>3. /\ DOMAIN Builds = 1..Latest /\ DOMAIN Builds' = 1..Latest'
          /\ \A v \in DOMAIN Builds : Builds'[v] = Builds[v]
      BY <2>2 DEF Builds
    <2>4. Settled' \in {Settled, Settled \union {Latest'}}
      BY <2>2 DEF Settled
    <2>5. QED
      BY <2>2, <2>3, <2>4 DEF Log!Next, Log!Save
  <1>4. CASE FactFound \/ FactFails
    <2>1. /\ Latest' = Latest /\ task.version \in 1..Latest
          /\ versions'[task.version].fact # "pending"
          /\ versions'[task.version].run = versions[task.version].run
      BY <1>1, <1>4, TypeFactWritten DEF JobType
    <2>2. \A v \in 1..Latest : v # task.version => versions'[v] = versions[v]
      BY <1>1, <1>4 DEF FactFound, FactFails, Latest
    <2>3. QED
      BY <1>1, <2>1, <2>2, PatchIsSettle
  <1>5. CASE GiveUpFact
    <2>1. Latest' = Latest
      BY <1>1, <1>5, TypeGiveUp
    <2>2. poll.version \in 1..Latest
      BY <1>1, <1>5 DEF GiveUpFact, Typed, NumberType, PollType, NoPoll
    <2>3. /\ \A v \in 1..Latest : v # poll.version => versions'[v] = versions[v]
          /\ versions'[poll.version] = [versions[poll.version] EXCEPT !.fact = "failed"]
      BY <1>1, <1>5, <2>2 DEF GiveUpFact, Latest
    <2>4. versions[poll.version] \in Version
      BY <1>1, <2>2, LatestIsNat
    <2>5. /\ versions'[poll.version].fact # "pending"
          /\ versions'[poll.version].run = versions[poll.version].run
      BY <2>3, <2>4 DEF Version
    <2>6. QED
      BY <1>1, <2>1, <2>2, <2>3, <2>5, PatchIsSettle
  <1>6. QED
    BY <1>2, <1>3, <1>4, <1>5, VersionWriters

LEMMA LogInit == Init => Log!Init
  <1>1. SUFFICES ASSUME Init PROVE Log!Init
    OBVIOUS
  <1>2. Latest = 0 /\ 1..0 = {}
    BY <1>1 DEF Init, Latest
  <1>3. DOMAIN Builds = 1..Latest /\ Settled = {}
    BY <1>2 DEF Builds, Settled
  <1>4. QED
    BY <1>2, <1>3 DEF Log!Init

\* VersionsAreALog: every job names a version that exists, and a build in progress saves
\* behind all others.
THEOREM VersionsAlwaysALog == Spec => VersionsAreALog
  <1>1. IInv /\ [Next]_vars => [Log!Next]_(Log!vars)
    BY LogNext
  <1>2. QED
    BY <1>1, LogInit, Invariance, PTL DEF Spec, VersionsAreALog, Log!Spec

=============================================================================
