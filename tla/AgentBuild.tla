----------------------------- MODULE AgentBuild -----------------------------
(***************************************************************************)
(* The builds of one trip, one after the other: the agent graph of         *)
(* agents/nodes.py (researcher, executor, writer, critic) as graph.py      *)
(* wires it, from the snapshot of the feedback to the version that         *)
(* run_graph saves.  What the LLM and the search answer is chosen freely;  *)
(* what becomes of it is computed by the operators of RouteRules.          *)
(*                                                                         *)
(* A pool that a search returns is stored by the executor before anything  *)
(* reads it, so that the latest tool message, the session and the row of   *)
(* section_artifacts give load_route_materials the same pool: store.       *)
(***************************************************************************)
EXTENDS RouteRules

CONSTANTS
    Pools,            \* what a search may find; {} is an empty pool
    Drafts,           \* what the writer's LLM may answer: sequences of cases
    Tastes,           \* votes on stops: [banned, liked], the liked in some order
    MaxPins,          \* pinned routes of a rebuild
    RecursionLimit,   \* node visits LangGraph allows one build
    MaxBuilds,
    RoutesFrom(_, _, _, _, _)  \* the rules of the routes, a parameter of the graph:
                               \* RouteRules has the program's, ResolveRoutes

ASSUME AgentBuildAssumption ==
    /\ Drafts \subseteq Seq(Cases)
    /\ Pools \subseteq SUBSET Places
    /\ Tastes \subseteq [banned : SUBSET Places, liked : Seq(Places)]
    /\ {MaxPins, RecursionLimit, MaxBuilds} \subseteq Nat

VARIABLES
    node,      \* the node to run next; "idle" when no build runs
    scope,
    steps,     \* nodes run so far
    misses,    \* searches that were not ready
    called,    \* some message of the tool search_route_materials exists
    retries,   \* retry_count
    store,     \* the stored pool of the trip: a set of at most one
    program,   \* the program of this build
    version,   \* the program of the latest version
    taste,     \* votes on stops in the snapshot of this build
    pins,      \* pinned routes in it
    builds

vars == <<node, scope, steps, misses, called, retries, store, program,
          version, taste, pins, builds>>

pool == UNION store
NoProgram == [pinned |-> <<>>, fresh |-> <<>>]
NoTaste == [banned |-> {}, liked |-> <<>>]
CasesOf(p) == p.pinned \o p.fresh

Init ==
    /\ node = "idle"
    /\ scope = "full"
    /\ steps = 0 /\ misses = 0 /\ retries = 0
    /\ called = FALSE
    /\ store = {}
    /\ program = NoProgram /\ version = NoProgram
    /\ taste = NoTaste
    /\ pins = <<>>
    /\ builds = 0

\* prepare_continue_trip: votes and pins are those of the latest version's routes.
\* route_entry: only a full build searches first.
Start(s, t, kept) ==
    /\ node = "idle"
    /\ builds < MaxBuilds
    /\ version = NoProgram => t = NoTaste
    /\ node' = IF s = "full" THEN "researcher" ELSE "writer"
    /\ scope' = s
    /\ steps' = 0 /\ misses' = 0 /\ retries' = 0
    /\ called' = FALSE
    /\ program' = NoProgram
    /\ taste' = t
    /\ pins' = IF s = "full" THEN <<>>
               ELSE [k \in 1..Cardinality(kept) |->
                        CasesOf(version)[CHOOSE i \in kept :
                            Cardinality({j \in kept : j <= i}) = k]]
    /\ builds' = builds + 1
    /\ UNCHANGED <<store, version>>

InTime == steps < RecursionLimit /\ steps' = steps + 1

\* planner_node: the LLM calls the tool or answers without.
Research ==
    /\ node = "researcher"
    /\ InTime
    /\ node' \in {"executor", "writer"}
    /\ UNCHANGED <<scope, misses, called, retries, store, program, version, taste, pins,
                   builds>>

\* executor_node and evaluate_tools_readiness.  A failed call is a message like any
\* other, one of an unknown tool too, but it is no call of the required tool.  Of
\* several calls in one answer of the LLM the latest pool that was found is kept,
\* but it is the last search (last) that must have found it.
Execute ==
    /\ node = "executor"
    /\ InTime
    /\ \E found \in {{}} \union {{p} : p \in Pools}, known, last \in BOOLEAN :
         LET ready == scope # "full" \/ (last /\ found # {} /\ found # {{}})
         IN  /\ known \/ found = {}
             /\ store' = IF found = {} THEN store ELSE found
             /\ called' = (called \/ known)
             /\ node' = IF ready THEN "writer" ELSE "researcher"
             /\ misses' = IF ready THEN misses ELSE misses + 1
    /\ UNCHANGED <<scope, retries, program, version, taste, pins, builds>>

\* The new routes.  Without a stored pool the draft is the program.
Routes(draft) ==
    IF store = {} THEN draft ELSE RoutesFrom(pool, draft, pins, taste.banned, taste.liked)

\* (mutant) the second attempt starts from the pool alone
WriteAgainUnpinned(draft) ==
    /\ node = "writer"
    /\ InTime
    /\ program' = [pinned |-> IF retries = 0 THEN pins ELSE <<>>,
                   fresh |-> Cut(Routes(draft), 3)]
    /\ node' = "critic"
    /\ UNCHANGED <<scope, misses, called, retries, store, version, taste, pins, builds>>

\* finalize_node.  The pinned routes come first, then three new ones.
Write(draft) ==
    /\ node = "writer"
    /\ InTime
    /\ program' = [pinned |-> pins,
                   fresh |-> IF pins = <<>> THEN Routes(draft) ELSE Cut(Routes(draft), 3)]
    /\ node' = "critic"
    /\ UNCHANGED <<scope, misses, called, retries, store, version, taste, pins, builds>>

\* The LLM, the reading of its answer or a statement of the database raises, the
\* saving of the version too; the build fails.  A pool may have been stored by then.
Fail ==
    /\ node # "idle"
    /\ node' = "idle"
    /\ program' = NoProgram
    /\ store' \in {store} \union (IF node = "executor" THEN {{p} : p \in Pools} ELSE {})
    /\ UNCHANGED <<scope, steps, misses, called, retries, version, taste, pins, builds>>

\* run_critic: the tool was needed, or the stored pool is.
ToolIssue == IF scope = "full" THEN ~called ELSE store = {}
Approved == ~ToolIssue /\ RoutesAreGood(program.pinned, program.fresh)

\* (mutant) the critic asks again until it is content
AfterCriticAlways(n) ==
    IF Approved THEN "idle" ELSE IF ToolIssue THEN "researcher" ELSE "writer"

\* route_after_critic: n failures so far.
AfterCritic(n) ==
    IF Approved \/ n >= 2 THEN "idle" ELSE IF ToolIssue THEN "researcher" ELSE "writer"

\* critic_node; when it is the last, run_graph saves the version.
Review ==
    LET failed == IF Approved THEN retries ELSE retries + 1
    IN  /\ node = "critic"
        /\ InTime
        /\ retries' = failed
        /\ node' = AfterCritic(failed)
        /\ version' = IF AfterCritic(failed) = "idle" THEN program ELSE version
        /\ program' = IF AfterCritic(failed) = "idle" THEN NoProgram ELSE program
        /\ UNCHANGED <<scope, misses, called, store, taste, pins, builds>>

\* GraphRecursionError: the build fails.
OutOfSteps ==
    /\ node # "idle"
    /\ steps = RecursionLimit
    /\ node' = "idle"
    /\ program' = NoProgram
    /\ UNCHANGED <<scope, steps, misses, called, retries, store, version, taste,
                   pins, builds>>

Next ==
    \/ \E s \in {"full", "routes"}, t \in Tastes,
          kept \in SUBSET DOMAIN CasesOf(version) :
            /\ Cardinality(kept) <= MaxPins
            /\ s = "full" => kept = {}
            /\ Start(s, t, kept)
    \/ Research
    \/ Execute
    \/ \E d \in Drafts : Write(d)
    \/ Fail
    \/ Review
    \/ OutOfSteps

Spec == Init /\ [][Next]_vars

-----------------------------------------------------------------------------
(* Properties *)

Programs == [pinned : Seq(Cases), fresh : Seq(Cases)]

\* The states of a build.
TypeOK ==
    /\ node \in {"idle", "researcher", "executor", "writer", "critic"}
    /\ scope \in {"full", "routes"}
    /\ steps \in 0..RecursionLimit
    /\ misses \in 0..RecursionLimit
    /\ called \in BOOLEAN
    /\ retries \in 0..2
    /\ store \in {{}} \union {{p} : p \in Pools}
    /\ program \in Programs /\ version \in Programs
    /\ taste \in Tastes \union {NoTaste}
    /\ pins \in Seq(Cases)
    /\ builds \in 0..MaxBuilds

\* The program under review was made from a pool.
FromPool == node = "critic" /\ Leisure(pool) # {}
FreshStops == {ToSet(c.stops) : c \in ToSet(program.fresh)}

\* No route made from a pool leads to a place the user disliked, though extending,
\* densifying and replacing a route all add places of the whole pool.
BannedStaysOut == FromPool => \A S \in FreshStops : S \cap taste.banned = {}

\* Such a route visits places of the pool, each once, and never two of the same name.
RoutesAreSound ==
    FromPool => \A c \in ToSet(program.fresh) :
        ToSet(c.stops) \subseteq pool /\ ~ClashInPath(c.stops)

\* The rules that make the routes satisfy the rules that judge them: with a pool of
\* enough places, no pins and no disliked places the critic accepts the first program,
\* whatever the draft is.
CriticAccepts ==
    (FromPool /\ pins = <<>> /\ ~ToolIssue /\ Cardinality(Leisure(pool) \ taste.banned) >= 7)
        => Approved

\* What the critic refuses in a program made from a pool is a route that is too short or
\* too much like another, or a pinned route without a map link, which an earlier build
\* without a pool may have left.  The letters, the number and the links of new routes, and
\* two cases with one link, are never the reason, whatever the draft, pins and votes are.
OnlyRoutesRefused ==
    (FromPool /\ ~ToolIssue /\ ~Approved) =>
        \/ \E c \in ToSet(CasesOf(program)) : Len(c.stops) < MinStops
        \/ \E c \in ToSet(program.pinned) : ~c.link
        \/ IF pins = <<>> THEN TooAlike(program.fresh) ELSE LikesPinned(program.fresh, pins)

\* A rebuild keeps the pinned routes: they are routes of the version it started from, and
\* the version it saves, after whatever rounds with the critic, begins with them.
PinsSurvive ==
    [][version' # version => /\ version'.pinned = pins
                             /\ ToSet(pins) \subseteq ToSet(CasesOf(version))]_vars

\* The critic's loop never uses the steps up: a build without missed searches takes
\* eight at most, and each miss two more.  Only searches that miss exhaust a build.
OnlyMissesExhaust == [][OutOfSteps => RecursionLimit < 8 + 2 * misses]_vars

=============================================================================
