------------------------------ MODULE TripData ------------------------------
(***************************************************************************)
(* The itinerary versions of one trip and the feedback rows that point     *)
(* into them: likes and dislikes of routes and stops, and pins.  Requests  *)
(* change the rows and patch the latest version while a rebuild reads      *)
(* them, prunes them, saves the next version and restores the pins, and a  *)
(* city fact is patched in.  Source: itemFeedback.ts and repos/trips.ts of *)
(* api-node, program/route_feedback.py, program/feedback_prune.py and      *)
(* db/postgres/repository.py.                                              *)
(*                                                                         *)
(* A route is named by its text, whose hash is the item key: equal text is *)
(* the same route for every row.  Each call that opens its own database    *)
(* session is a step; the loops over rows of migrate, prune and sync are   *)
(* one step each.                                                          *)
(***************************************************************************)
EXTENDS Integers, Sequences, FiniteSets, SequencesExt

CONSTANTS
    Routes,        \* texts of route variants
    Pois,
    StopsOf,       \* the stops of a route, in order
    CaseId,        \* the variant letter inside a route's text
    Letters,       \* letters of the routes of a rebuild: A, B, C
    NewLetters,    \* and of those added to preserved ones: N-A, N-B, N-C
    First,         \* routes of the first version
    Builders,      \* workers that may run a rebuild of this trip
    Reqs,          \* feedback requests in flight
    MaxPins, MaxLikes,
    MaxVersions, MaxVotes

Migrated == "migrated"           \* ROUTE_PINS_MIGRATED_KEY
Different(s) == \A i, j \in DOMAIN s : s[i] = s[j] => i = j

\* Keys of routes are hashes, the letters of a program differ.
ASSUME TripDataAssumption ==
    /\ StopsOf \in [Routes -> Seq(Pois)]
    /\ Migrated \notin Routes
    /\ First \in Seq(Routes) /\ Different(First)
    /\ Letters \in Seq(STRING) /\ Different(Letters)
    /\ NewLetters \in Seq(STRING) /\ Different(NewLetters)
    /\ IsFiniteSet(Builders)
    /\ IsFiniteSet(Reqs) /\ Reqs # {}
    /\ {MaxPins, MaxLikes, MaxVersions, MaxVotes} \subseteq Nat
    /\ MaxVersions > 0

VARIABLES
    vers,    \* itinerary_versions rows in the order of their ids
    fb,      \* program_item_feedback rows
    req,     \* feedback requests with what they have read
    bld,     \* rebuilds with what they have read
    fact,    \* the city fact patch: the version and the program it read
    votes,   \* requests so far
    mixed    \* some request or rebuild has overlapped another, or died

vars == <<vers, fb, req, bld, fact, votes, mixed>>

Row(sec, key, idx, vote) == [sec |-> sec, key |-> key, idx |-> idx, vote |-> vote]
\* (mutant) INSERT without ON CONFLICT
UpsertAppends(S, row) == S \union {row}

Upsert(S, row) == {x \in S : ~(x.sec = row.sec /\ x.key = row.key)} \union {row}

Vote(S, sec, key) == {x.vote : x \in {y \in S : y.sec = sec /\ y.key = key}}
Section(S, sec) == {x \in S : x.sec = sec}
Pins(S) == {x.key : x \in Section(S, "route_pins")} \ {Migrated}
Liked(S) == {x.key : x \in {y \in Section(S, "route_stops") : y.vote = 1}}
Bans(S) == {x.key : x \in {y \in Section(S, "route_stops") : y.vote = -1}}

Case(r, kept) == [route |-> r, preserved |-> kept]
TextsOf(cases) == {cases[i].route : i \in DOMAIN cases}
KeptIn(cases) == {cases[i].route : i \in {j \in DOMAIN cases : cases[j].preserved}}
\* position of a route: the first match, as the loops of itemFeedback.ts find it
IndexOf(s, x) == CHOOSE i \in DOMAIN s : s[i] = x /\ \A j \in 1..(i - 1) : s[j] # x
RouteSeq(cases) == [i \in DOMAIN cases |-> cases[i].route]
\* the n-th of a set of positions
Nth(I, n) == CHOOSE i \in I : Cardinality({j \in I : j <= i}) = n

\* the stops offered for voting: those of all routes, each at its first place
Stops(cases) ==
    FoldLeft(LAMBDA seen, c : seen \o SelectSeq(StopsOf[c.route], LAMBDA p : p \notin ToSet(seen)),
             <<>>, cases)

\* getLatestItinerary: the row with the largest number, not the last id
LatestId == CHOOSE v \in DOMAIN vers : \A u \in DOMAIN vers : vers[u].num <= vers[v].num
Latest == vers[LatestId]

IdleReq == [pc |-> "idle"]
IdleBuild == [pc |-> "idle"]
Quiet == /\ \A q \in Reqs : req[q].pc = "idle"
         /\ \A b \in Builders : bld[b].pc = "idle"
         /\ fact.pc = "none"
Overlap == mixed' = (mixed \/ ~Quiet)

\* Trips of an older release have liked routes and no marker yet.
Init ==
    /\ vers = <<[num |-> 1, fact |-> "pending", cases |-> [i \in DOMAIN First |-> Case(First[i], FALSE)]]>>
    /\ \E legacy \in SUBSET TextsOf([i \in DOMAIN First |-> Case(First[i], FALSE)]) :
         fb = {Row("routes", r, IndexOf(First, r), 1) : r \in legacy}
    /\ req = [q \in Reqs |-> IdleReq]
    /\ bld = [b \in Builders |-> IdleBuild]
    /\ fact = [pc |-> "none"]
    /\ votes = 0
    /\ mixed = FALSE

\* migrate_legacy_route_likes_to_pins: once per trip
Migrate(S, cases) ==
    IF Vote(S, "route_pins", Migrated) # {} THEN S
    ELSE LET liked == {r \in TextsOf(cases) : Vote(S, "routes", r) = {1}}
             pins == {Row("route_pins", r, IndexOf(RouteSeq(cases), r), 1) : r \in liked}
         IN {x \in S : ~(x.sec = "route_pins" /\ x.key \in liked)} \union pins
              \union {Row("route_pins", Migrated, -1, 1)}

----------------------------------------------------------------------------
(* setItemFeedback *)

\* (mutant) one more than the limit
FullOffByOne(rows, sec, key) ==
    \/ sec = "route_pins" /\ key \notin Pins(rows) /\ Cardinality(Pins(rows)) > MaxPins
    \/ sec = "route_stops" /\ key \notin Liked(rows) /\ Cardinality(Liked(rows)) > MaxLikes

\* countPinnedRoutes and countLikedRouteStops: the limits of pins and liked stops
Full(rows, sec, key) ==
    \/ sec = "route_pins" /\ key \notin Pins(rows) /\ Cardinality(Pins(rows)) >= MaxPins
    \/ sec = "route_stops" /\ key \notin Liked(rows) /\ Cardinality(Liked(rows)) >= MaxLikes

\* Reads the latest version, resolves key and index in it, migrates, and counts for
\* the cap: the rows are written by later statements.  A vote of 0 takes a vote back.
BeginVote(q, sec, key, vote) ==
    LET items == IF sec = "route_stops" THEN Stops(Latest.cases) ELSE RouteSeq(Latest.cases)
        rows == IF sec = "route_stops" THEN fb ELSE Migrate(fb, Latest.cases)
    IN
    /\ req[q].pc = "idle"
    /\ votes < MaxVotes
    /\ \E i \in DOMAIN items : items[i] = key
    /\ fb' = rows
    /\ req' = IF vote = 1 /\ Full(rows, sec, key) THEN req
              ELSE [req EXCEPT ![q] = [pc |-> IF vote = 0 THEN "erase" ELSE "displace",
                      sec |-> sec, key |-> key, vote |-> vote, idx |-> IndexOf(items, key),
                      ver |-> LatestId, program |-> Latest]]
    /\ votes' = votes + 1
    /\ Overlap
    /\ UNCHANGED <<vers, bld, fact>>

\* deleteFeedbackAtIndex: whatever else was voted at this index of an earlier program
Displace(q) ==
    /\ req[q].pc = "displace"
    /\ fb' = {x \in fb : ~(x.sec = req[q].sec /\ x.idx = req[q].idx /\ x.key # req[q].key)}
    /\ req' = [req EXCEPT ![q].pc = "store"]
    /\ UNCHANGED <<vers, bld, fact, votes, mixed>>

\* upsertItemFeedback
Store(q) ==
    /\ req[q].pc = "store"
    /\ fb' = Upsert(fb, Row(req[q].sec, req[q].key, req[q].idx, req[q].vote))
    /\ req' = [req EXCEPT ![q] = IdleReq]
    /\ UNCHANGED <<vers, bld, fact, votes, mixed>>

\* deleteItemFeedback and deleteFeedbackAtIndex
Erase(q) ==
    /\ req[q].pc = "erase"
    /\ fb' = {x \in fb : ~(x.sec = req[q].sec /\ (x.key = req[q].key \/ x.idx = req[q].idx))}
    /\ req' = IF req[q].sec = "route_pins"
              THEN [req EXCEPT ![q].pc = "unmark"] ELSE [req EXCEPT ![q] = IdleReq]
    /\ UNCHANGED <<vers, bld, fact, votes, mixed>>

\* (mutant) the whole program is written back as it was read
UnmarkProgram(q) ==
    /\ req[q].pc = "unmark"
    /\ vers' = [vers EXCEPT ![req[q].ver] = [req[q].program EXCEPT !.cases[req[q].idx].preserved = FALSE]]
    /\ req' = [req EXCEPT ![q] = IdleReq]
    /\ UNCHANGED <<fb, bld, fact, votes, mixed>>

\* clearRouteCasePreserved: writes the routes as they were read, one flag cleared
Unmark(q) ==
    LET c == req[q].program.cases
        i == req[q].idx IN
    /\ req[q].pc = "unmark"
    /\ vers' = IF c[i].preserved
               THEN [vers EXCEPT ![req[q].ver].cases = [c EXCEPT ![i].preserved = FALSE]]
               ELSE vers
    /\ req' = [req EXCEPT ![q] = IdleReq]
    /\ UNCHANGED <<fb, bld, fact, votes, mixed>>

----------------------------------------------------------------------------
(* A rebuild: snapshot_route_feedback, resolve_routes_program,             *)
(* save_itinerary_version                                                  *)

\* extract_liked_routes: pinned or already preserved, in the order of the program
Preserved(cases, rows) ==
    LET kept == {i \in DOMAIN cases : cases[i].preserved \/ cases[i].route \in Pins(rows)}
    IN [n \in {k \in 1..Cardinality(kept) : k <= MaxPins} |-> Case(cases[Nth(kept, n)].route, TRUE)]

BeginBuild(b, scope) ==
    /\ bld[b].pc = "idle"
    /\ Len(vers) + Cardinality({a \in Builders : bld[a].pc # "idle"}) < MaxVersions
    /\ fb' = Migrate(fb, Latest.cases)
    /\ bld' = [bld EXCEPT ![b] = [pc |-> "resolve", scope |-> scope, base |-> Latest.cases,
                  liked |-> IF scope = "routes" THEN Preserved(Latest.cases, fb') ELSE <<>>]]
    /\ Overlap
    /\ UNCHANGED <<vers, req, fact, votes>>

\* The pins are read again: what was pinned since is added unless its letter is taken.
\* Any new routes will do here: choosing them is the matter of RouteRules.
Resolve(b) ==
    LET w == bld[b]
        ids == {CaseId[r] : r \in TextsOf(w.liked)}
        now == IF w.scope = "routes" THEN Preserved(w.base, fb) ELSE <<>>
        late == {i \in DOMAIN now : /\ CaseId[now[i].route] \notin ids
                                    /\ \A j \in 1..(i - 1) : CaseId[now[j].route] # CaseId[now[i].route]}
        kept == w.liked \o [n \in 1..Cardinality(late) |-> now[Nth(late, n)]]
        letters == IF kept = <<>> THEN Letters ELSE NewLetters
    IN
    /\ w.pc = "resolve"
    /\ \E new \in [DOMAIN letters -> Routes] :
         /\ \A i \in DOMAIN new : CaseId[new[i]] = letters[i] /\ new[i] \notin TextsOf(kept)
         /\ bld' = [bld EXCEPT ![b] = [pc |-> "prune", liked |-> w.liked,
              cases |-> kept \o [i \in DOMAIN new |-> Case(new[i], FALSE)]]]
    /\ UNCHANGED <<vers, fb, req, fact, votes, mixed>>

\* (mutant) dislikes go like any vote
StaleBans(cases) ==
    {x \in fb : \/ x.sec \in {"routes", "route_pins"} /\ x.key \notin TextsOf(cases) \union {Migrated}
                \/ x.sec = "route_stops"}

\* find_stale_feedback_keys: routes that are gone, and the likes of stops; dislikes stay
Stale(cases) ==
    {x \in fb : \/ x.sec \in {"routes", "route_pins"} /\ x.key \notin TextsOf(cases) \union {Migrated}
                \/ x.sec = "route_stops" /\ x.vote # -1}

PruneRead(b) ==
    /\ bld[b].pc = "prune"
    /\ bld' = [bld EXCEPT ![b] = [pc |-> "delete", liked |-> bld[b].liked, cases |-> bld[b].cases,
                 stale |-> {<<x.sec, x.key>> : x \in Stale(bld[b].cases)}]]
    /\ UNCHANGED <<vers, fb, req, fact, votes, mixed>>

\* deletes by key what may have changed since it was read; then next_version_number
PruneDelete(b) ==
    /\ bld[b].pc = "delete"
    /\ fb' = {x \in fb : <<x.sec, x.key>> \notin bld[b].stale}
    /\ bld' = [bld EXCEPT ![b] = [pc |-> "insert", liked |-> bld[b].liked, cases |-> bld[b].cases,
                 num |-> Latest.num + 1]]
    /\ UNCHANGED <<vers, req, fact, votes, mixed>>

\* (mutant) no unique constraint
InsertAnyNumber(b) ==
    /\ bld[b].pc = "insert"
    /\ vers' = Append(vers, [num |-> bld[b].num, fact |-> "pending", cases |-> bld[b].cases])
    /\ bld' = [bld EXCEPT ![b] = [pc |-> "sync", liked |-> bld[b].liked, cases |-> bld[b].cases]]
    /\ UNCHANGED <<fb, req, fact, votes, mixed>>

\* INSERT under the unique (trip, version); the loser of two rebuilds fails
InsertVersion(b) ==
    LET taken == \E v \in DOMAIN vers : vers[v].num = bld[b].num IN
    /\ bld[b].pc = "insert"
    /\ vers' = IF taken THEN vers
               ELSE Append(vers, [num |-> bld[b].num, fact |-> "pending", cases |-> bld[b].cases])
    /\ bld' = [bld EXCEPT ![b] = IF taken THEN IdleBuild
                 ELSE [pc |-> "sync", liked |-> bld[b].liked, cases |-> bld[b].cases]]
    /\ UNCHANGED <<fb, req, fact, votes, mixed>>

\* (mutant) UPDATE of the pins that are there
SyncUpdates(b) ==
    LET c == bld[b].cases
        kept == {i \in DOMAIN c : c[i].preserved /\ c[i].route \in Pins(fb)} IN
    /\ bld[b].pc = "sync"
    /\ fb' = {x \in fb : ~(x.sec = "route_pins" /\ x.key \in KeptIn(c))}
               \union {Row("route_pins", c[i].route, i, 1) : i \in kept}
    /\ bld' = [bld EXCEPT ![b] = IdleBuild]
    /\ UNCHANGED <<vers, req, fact, votes, mixed>>

\* sync_preserved_route_feedback: pins of preserved routes at their new index
SyncPins(b) ==
    LET c == bld[b].cases
        kept == {i \in DOMAIN c : c[i].preserved} IN
    /\ bld[b].pc = "sync"
    /\ fb' = {x \in fb : ~(x.sec = "route_pins" /\ x.key \in KeptIn(c))}
               \union {Row("route_pins", c[i].route, i, 1) : i \in kept}
    /\ bld' = [bld EXCEPT ![b] = IdleBuild]
    /\ UNCHANGED <<vers, req, fact, votes, mixed>>

----------------------------------------------------------------------------
(* patch_itinerary_program of the fact job, and processes that die *)

FactRead ==
    /\ fact.pc = "none"
    /\ Latest.fact = "pending"
    /\ fact' = [pc |-> "write", ver |-> LatestId, cases |-> Latest.cases]
    /\ Overlap
    /\ UNCHANGED <<vers, fb, req, bld, votes>>

\* (mutant) the patch of the latest version
FactWriteLatest ==
    /\ fact.pc = "write"
    /\ vers' = [vers EXCEPT ![LatestId].cases = fact.cases, ![LatestId].fact = "ready"]
    /\ fact' = [pc |-> "none"]
    /\ UNCHANGED <<fb, req, bld, votes, mixed>>

\* the program is written back as it was read, with the fact
FactWrite ==
    /\ fact.pc = "write"
    /\ vers' = [vers EXCEPT ![fact.ver].cases = fact.cases, ![fact.ver].fact = "ready"]
    /\ fact' = [pc |-> "none"]
    /\ UNCHANGED <<fb, req, bld, votes, mixed>>

Crash ==
    /\ ~Quiet
    /\ mixed' = TRUE
    /\ \/ /\ req' = [q \in Reqs |-> IdleReq]
          /\ UNCHANGED <<bld, fact>>
       \/ /\ bld' = [b \in Builders |-> IdleBuild]
          /\ fact' = [pc |-> "none"]
          /\ UNCHANGED req
    /\ UNCHANGED <<vers, fb, votes>>

\* other votes on a route differ from a like only in what they tell the next rebuild
VoteKinds ==
    ({"routes"} \X Routes \X {1}) \union ({"route_pins"} \X Routes \X {1, 0})
      \union ({"route_stops"} \X Pois \X {1, -1, 0})

Next ==
    \/ \E q \in Reqs : \/ \E k \in VoteKinds : BeginVote(q, k[1], k[2], k[3])
                       \/ Displace(q) \/ Store(q) \/ Erase(q) \/ Unmark(q)
    \/ \E b \in Builders : \/ \E scope \in {"routes", "full"} : BeginBuild(b, scope)
                           \/ Resolve(b) \/ PruneRead(b) \/ PruneDelete(b)
                           \/ InsertVersion(b) \/ SyncPins(b)
    \/ FactRead \/ FactWrite \/ Crash

Spec == Init /\ [][Next]_vars

----------------------------------------------------------------------------
(* Properties *)

\* The states of the rows, requests and rebuilds.
TypeOK ==
    /\ \A v \in DOMAIN vers :
         /\ vers[v].num \in 1..MaxVersions
         /\ vers[v].fact \in {"pending", "ready"}
         /\ vers[v].cases \in Seq([route : Routes, preserved : BOOLEAN])
    /\ \A x \in fb : /\ x.sec \in {"routes", "route_pins", "route_stops"}
                     /\ x.vote \in {1, -1}
                     /\ ~\E y \in fb : y # x /\ y.sec = x.sec /\ y.key = x.key
    /\ \A q \in Reqs : req[q].pc \in {"idle", "displace", "store", "erase", "unmark"}
    /\ \A b \in Builders : bld[b].pc \in {"idle", "resolve", "prune", "delete", "insert", "sync"}
    /\ fact.pc \in {"none", "write"}

\* next_version_number and the INSERT are apart: of two rebuilds that read the same
\* maximum only one saves, so that the largest number is always the latest row.
LatestIsNewest == \A u, v \in DOMAIN vers : u < v => vers[u].num < vers[v].num

\* The limit on liked stops is counted before the row is written: requests in flight
\* together overrun it by at most one each, and requests one by one never.
LikeCap == Cardinality(Liked(fb)) <= MaxLikes + (IF mixed THEN Cardinality(Reqs) - 1 ELSE 0)

\* Whatever is voted, pinned, unpinned or patched while routes are rebuilt, the routes
\* that were pinned when the rebuild began are in the version it saves and have their
\* pins when it ends: snapshot_route_feedback decides.
RebuildKeepsPins ==
    [][\A b \in Builders : SyncPins(b) =>
         /\ TextsOf(bld[b].liked) \subseteq Pins(fb')
         /\ TextsOf(bld[b].liked) \subseteq KeptIn(bld[b].cases)]_vars

\* A stop that was disliked stays banned through a rebuild that no request overlaps.
BansOutliveRebuilds ==
    [][~mixed' => \A p \in Bans(fb) \ Bans(fb') :
          \E q \in Reqs : req[q].pc # "idle" /\ req[q].sec = "route_stops"]_vars

\* The city fact of a version stays: clearing a preserved flag patches the routes only,
\* whatever the request had read.
FactStays ==
    [][\A v \in DOMAIN vers : vers[v].fact = "ready" => vers'[v].fact = "ready"]_vars

\* The versions are a log (VersionLog): what a request, a rebuild or the fact patch writes
\* into a version, with whatever copy of it it had read, changes flags and the fact, and
\* never the routes that others have seen; of two rebuilds each version saved is the latest.
Shown == [v \in DOMAIN vers |-> RouteSeq(vers[v].cases)]
Ready == {v \in DOMAIN vers : vers[v].fact = "ready"}
Log == INSTANCE VersionLog WITH log <- Shown, settled <- Ready, current <- LatestId
VersionsAreALog == Log!Spec

=============================================================================
