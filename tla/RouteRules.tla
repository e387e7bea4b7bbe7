----------------------------- MODULE RouteRules -----------------------------
(***************************************************************************)
(* The choice of the three walking routes A, B and C of a trip             *)
(* (agents/route_postprocess.py) and the deterministic critic of the       *)
(* result (agents/section_quality.py).  Pure operators: AgentBuild uses    *)
(* them in the steps of the agent graph.                                   *)
(*                                                                         *)
(* A place of the pool is its number in the list of the pool.  The city is *)
(* one street: At gives the place in units of 100 m.  Lengths are in       *)
(* decimetres, so that 1.2 km is 12000: a leg is the distance (Gap), the   *)
(* length of a walk is that distance times 1.35 (Km).  Of the names only   *)
(* what the rules ask is kept: which places clash (same or nearly the same *)
(* name), which are landmarks, embankments, bridges.  Places are at least  *)
(* 100 m apart, so the map link drops none of them as too close.           *)
(*                                                                         *)
(* A route that was last put in order by _order_indices_by_path is given   *)
(* by its set of stops (Tour gives the order); a route with an order of    *)
(* its own is a sequence.                                                  *)
(*                                                                         *)
(* The loops of the code are folds.  Their bodies are functions and not    *)
(* operators as those of the community modules are, so that what holds of  *)
(* every fold is one lemma.                                                *)
(***************************************************************************)
EXTENDS Integers, Sequences, FiniteSets, SequencesExt

CONSTANTS
    Places,         \* the places a pool can hold, numbered in its order
    At,             \* position of a place on the street
    Landmarks,      \* is_leisure_route_poi
    Embankments,
    Bridges,
    Clash,          \* pairs of places with conflicting names
    PaceScale       \* percent: 88 relaxed, 100 moderate, 108 packed

ASSUME PlacesAssumption ==
    /\ Places \subseteq Nat \ {0}
    /\ IsFiniteSet(Places)
    /\ At \in [Places -> Nat]
    /\ \A i, j \in Places : At[i] = At[j] => i = j
    /\ Landmarks \subseteq Places
    /\ Embankments \subseteq Places
    /\ Bridges \subseteq Places
    /\ \A c \in Clash : c \subseteq Places /\ Cardinality(c) = 2
    /\ PaceScale \in {88, 100, 108}

CaseIds == <<"A", "B", "C">>
Each(F(_)) == [A |-> F("A"), B |-> F("B"), C |-> F("C")]
LongestA == 40000       \* _MAX_ROUTE_KM_SHORT
MaxStops == 8           \* _ROUTE_MAX_STOPS
MinStops == 3           \* _ROUTE_MIN_STOPS
Pairs == {<<"A", "B">>, <<"B", "C">>, <<"A", "C">>}

Distance(x, y) == IF x < y THEN y - x ELSE x - y
Percent(p, x) == (p * x) \div 100
LargerOf(x, y) == IF x < y THEN y ELSE x
Cut(s, n) == SubSeq(s, 1, IF Len(s) < n THEN Len(s) ELSE n)

\* f of the state so far and the next element of seq.
Fold(f, base, seq) ==
    LET acc[k \in 0..Len(seq)] == IF k = 0 THEN base ELSE f[acc[k - 1]][seq[k]]
    IN  acc[Len(seq)]

\* n times f.
Repeat(f, x, n) ==
    Fold([y \in DOMAIN f |-> [k \in Nat |-> f[y]]], x, [k \in 1..n |-> k])

\* The elements of seq that are in A.
Keep(seq, A) ==
    Fold([s \in Seq(Nat) |-> [i \in Nat |-> IF i \in A THEN Append(s, i) ELSE s]], <<>>, seq)

\* The place whose key is the smallest; of several the first.
LeastBy(A, key) ==
    CHOOSE i \in A : \A j \in A : key[i] < key[j] \/ (key[i] = key[j] /\ i <= j)

Sorted(A, key) ==
    Repeat([s \in Seq(Places) |-> Append(s, LeastBy(A \ ToSet(s), key))],
           <<>>, Cardinality(A))

(***************************************************************************)
(* Walks.                                                                  *)
(***************************************************************************)

Gap(i, j) == 1000 * Distance(At[i], At[j])

Legs(path) ==
    IF path = <<>> THEN 0
    ELSE Fold([sum \in Nat |-> [k \in Nat |-> sum + Gap(path[k], path[k + 1])]], 0,
              [k \in 1..Len(path) - 1 |-> k])

Scaled(gap) == (135 * gap) \div 100

Km(path) == Scaled(Legs(path))

LoopKm(path) ==
    IF Len(path) < 3 THEN Km(path)
    ELSE Scaled(Legs(path) + Gap(path[Len(path)], path[1]))

LegsWithin(path, limit) ==
    \A k \in 2..Len(path) : Gap(path[k - 1], path[k]) <= limit

Clashing(S) == \E c \in Clash : c \subseteq S

\* The same for a sequence: a place conflicts with itself.
ClashInPath(path) ==
    Clashing(ToSet(path)) \/ Cardinality(ToSet(path)) < Len(path)

Nearest(i, S) == LeastBy(S, [j \in S |-> Gap(i, j)])

\* From i always on to the nearest place of S.
WalkOn(i, S) ==
    Repeat([path \in Seq(Places) |-> Append(path, Nearest(Last(path), S \ ToSet(path)))],
           <<i>>, Cardinality(S \ {i}))

\* A table, which TLC computes once.
Table(f) == CHOOSE g \in {f} : g = f

SumAt == Table(
    [S \in SUBSET Places |->
        Fold([n \in Nat |-> [j \in Places |-> n + At[j]]], 0, Sorted(S, [i \in S |-> 0]))])

\* Distance to the centre of S, multiplied by the size of S.
FromCentre(i, S) == Distance(Cardinality(S) * At[i], SumAt[S])

Central(S) == LeastBy(S, [i \in S |-> FromCentre(i, S)])

Tour == Table([S \in SUBSET Places |->
                  IF S = {} THEN <<>> ELSE WalkOn(Central(S), S)])
TourKm == Table([S \in SUBSET Places |-> Km(Tour[S])])
TourLeg == Table(
    [S \in SUBSET Places |->
        Max({Gap(Tour[S][k - 1], Tour[S][k]) : k \in 2..Len(Tour[S])} \union {0})])
TourWithin(S, limit) == TourLeg[S] <= limit

(***************************************************************************)
(* The pool and the profiles of the three routes.                          *)
(***************************************************************************)

\* The places the routes are made of.
Leisure(pool) ==
    IF Cardinality(pool \cap Landmarks) >= 3 THEN pool \cap Landmarks ELSE pool

Span(S) == Scaled(Max({Gap(i, j) : i, j \in S} \union {0}))

AbsMin(span) == IF span < 30000 THEN 10000 ELSE 30000

ProfileOf(id, S) ==
    LET scale == PaceScale * (IF Cardinality(S) < 5 THEN 90 ELSE 100)
        Sc(x) == (x * scale) \div 10000
        span == Span(S)
        top == Min({MaxStops, LargerOf(Cardinality(S), MinStops)})
        Profile(lo, hi, leg, abs) ==
            [short |-> id = "A", lo |-> lo, hi |-> hi, leg |-> leg, abs |-> abs,
             min |-> MinStops, max |-> top, span |-> span]
    IN  CASE id = "A" -> Profile(LargerOf(15000, Percent(90, Sc(20000))),
                                 Min({LongestA, Sc(35000)}), 12000, 15000)
          [] id = "B" -> Profile(LargerOf(AbsMin(span), Sc(40000)), Sc(55000),
                                 20000, AbsMin(span))
          [] id = "C" -> Profile(LargerOf(AbsMin(span), Sc(60000)), Sc(85000),
                                 28000, AbsMin(span))

LegLimit(q) == Max({q.leg, Percent(115, q.abs), Percent(45, q.span)})
NovelLeg(q) == LargerOf(LegLimit(q), Percent(72, q.span))
StepLimit(q) == IF q.short THEN q.leg ELSE LegLimit(q)
GrowLimit(q) == Max({StepLimit(q), Percent(115, q.abs), 22000})
KmCap(q) == IF q.short THEN LongestA ELSE Percent(115, q.hi)

\* The 4 km of the short route.
TooLongForA(q, km) == q.short /\ km > LongestA

Farther(i, j, S) ==
    \/ FromCentre(i, S) > FromCentre(j, S)
    \/ FromCentre(i, S) = FromCentre(j, S) /\ i < j

\* The two places farthest from the centre, for B and C.
Outliers(S) ==
    IF Cardinality(S) <= 4 THEN {}
    ELSE {i \in S : Cardinality({j \in S : Farther(j, i, S)}) < 2}

Farthest(S) == CHOOSE i \in S : \A j \in S \ {i} : Farther(i, j, S)

(***************************************************************************)
(* Growing and trimming a route.  W is the set of its stops, order the     *)
(* sequence in which the places of the pool are tried.                     *)
(***************************************************************************)

\* W with the places of the order that fit, one after the other.
Collect(W, order, fits) ==
    Fold([V \in SUBSET Places |-> [i \in Places |-> IF fits[V][i] THEN V \union {i} ELSE V]],
         W, order)

Greedy(order, from, q) ==
    Collect({}, order, [W \in SUBSET Places |-> [i \in Places |->
        /\ i \in from
        /\ Cardinality(W) < q.max
        /\ ~Clashing(W \union {i})
        /\ TourWithin(W \union {i}, StepLimit(q))
        /\ TourKm[W \union {i}] <= KmCap(q) \/ Cardinality(W) < q.min
        /\ ~TooLongForA(q, TourKm[W \union {i}])]])

\* The route with the place that makes it longest, if one fits.
GrowOnce(W, order, q) ==
    LET limit == IF q.short THEN GrowLimit(q) ELSE LargerOf(GrowLimit(q), NovelLeg(q))
        Fits(i) == /\ i \notin W
                   /\ ~Clashing(W \union {i})
                   /\ TourWithin(W \union {i}, limit)
                   /\ ~TooLongForA(q, TourKm[W \union {i}])
    IN  Fold([best \in SUBSET Places |-> [i \in Places |->
                 IF Fits(i) /\ TourKm[W \union {i}] > TourKm[best] THEN W \union {i} ELSE best]],
             W, order)

\* Adds places until the route is as long as its profile asks.
Extend(W, order, q) ==
    Repeat([V \in SUBSET Places |-> IF TourKm[V] >= q.abs THEN V ELSE GrowOnce(V, order, q)],
           W, LargerOf(0, q.max - Cardinality(W)))

\* Drops the stop that shortens the route most, if one does.
ShortenOnce(W) ==
    Fold([best \in SUBSET Places |-> [i \in Places |->
             IF TourKm[W \ {i}] < TourKm[best] THEN W \ {i} ELSE best]], W, Tour[W])

Trim(W, q, cap) ==
    Repeat([V \in SUBSET Places |-> IF Cardinality(V) <= q.min \/ TourKm[V] <= cap THEN V
                                    ELSE ShortenOnce(V)],
           W, Cardinality(W))

\* Not more stops than the profile has, unless the route gets too short.
TrimStops(path, q) ==
    Repeat([p \in Seq(Places) |-> IF Len(p) <= q.max \/ Km(Front(p)) < q.abs THEN p
                                  ELSE Front(p)],
           path, Len(path))

FilterClashes(W) ==
    Collect({}, Tour[W], [V \in SUBSET Places |-> [i \in Places |-> ~Clashing(V \union {i})]])

\* (mutant) what was added is not checked again
KeepClashes(W) == W

WithoutClashes(W) == IF Clashing(W) THEN FilterClashes(W) ELSE W

TargetStops(km, q) ==
    IF km < 10000 THEN q.min ELSE LargerOf(q.min, Min({km \div 3500 + 1, q.max}))

\* The places that lie between two stops in the order of the pool.
Between(order, i, j) ==
    LET at == {k \in 1..Len(order) : order[k] \in {i, j}}
    IN  SubSeq(order, Min(at) + 1, Max(at) - 1)

\* At most two of them are put before the stop.
Enrich(path, mids, stop, q) ==
    LET Add(acc, mid) ==
            LET trial == acc.path \o <<mid, stop>>
            IN  IF acc.done \/ Contains(acc.path, mid) \/ ClashInPath(trial) THEN acc
                ELSE IF Len(trial) >= q.max THEN [acc EXCEPT !.done = TRUE]
                ELSE IF Km(trial) > KmCap(q) THEN acc
                ELSE [path |-> Append(acc.path, mid), added |-> acc.added + 1,
                      done |-> acc.added = 1]
        States == [path : Seq(Places), added : Nat, done : BOOLEAN]
    IN  Append(Fold([acc \in States |-> [mid \in Places |-> Add(acc, mid)]],
                    [path |-> path, added |-> 0, done |-> FALSE], mids).path,
               stop)

Densify(W, order, q) ==
    LET path == Tour[W]
        rich == Fold([acc \in Seq(Places) |-> [k \in Nat |->
                         Enrich(acc, Between(order, path[k], path[k + 1]), path[k + 1], q)]],
                     <<path[1]>>, [k \in 1..Len(path) - 1 |-> k])
    IN  IF Len(path) < 2 \/ Len(path) >= TargetStops(Km(path), q) THEN W
        ELSE IF Clashing(ToSet(rich)) THEN W
        ELSE Trim(ToSet(rich), q, KmCap(q))

(***************************************************************************)
(* A route of consecutive places of the order (_pick_window).              *)
(***************************************************************************)

\* How well a window fits, in decimetres times 20.
Score(W, q, avoid) ==
    LET km == TourKm[W]
        n == Cardinality(W)
        shared == Cardinality(W \cap avoid)
        fit == IF km < q.abs THEN km - q.abs - 100000
               ELSE IF km < q.lo THEN km - q.lo
               ELSE IF 20 * km > 27 * q.hi THEN q.hi - km
               ELSE 0
    IN  2000 * fit + 50000 * (n - q.min) - Distance(2 * km, q.lo + q.hi)
        + (IF km >= q.abs THEN 1000000 ELSE 0)
        - 5000000 * shared + 400000 * (n - shared)
        + (IF fit = 0 THEN 10000000 ELSE 0)

\* The windows are tried by start and then by length; the first that is too long
\* ends its start.
BestWindow(order, q, must, avoid, forbidden, unique) ==
    LET limit == IF must # {} /\ ~q.short THEN LargerOf(StepLimit(q), NovelLeg(q))
                 ELSE StepLimit(q)
        Admitted(W) == /\ must \subseteq W
                       /\ W \cap forbidden = {}
                       /\ ~Clashing(W)
                       /\ avoid # {} => Cardinality(W \ avoid) >= unique
                       /\ TourWithin(W, limit)
        TooLong(W) == \/ 20 * TourKm[W] > 27 * q.hi
                      \/ q.short /\ 100 * TourKm[W] > 108 * LongestA
        Try(best, W) ==
            IF best.over \/ ~Admitted(W) THEN best
            ELSE IF TooLong(W) THEN [best EXCEPT !.over = TRUE]
            ELSE IF best.stops = {} \/ Score(W, q, avoid) > Score(best.stops, q, avoid)
                 THEN [best EXCEPT !.stops = W]
            ELSE best
        Search == [stops : SUBSET Places, over : BOOLEAN]
        From(best, first) ==
            Fold([acc \in Search |-> [n \in Nat |->
                     IF n < q.min \/ first + n - 1 > Len(order) THEN acc
                     ELSE Try(acc, {order[k] : k \in first..first + n - 1})]],
                 [best EXCEPT !.over = FALSE], [n \in 1..q.max |-> n])
    IN  Fold([best \in Search |-> [first \in Nat |-> From(best, first)]],
             [stops |-> {}, over |-> FALSE], [k \in 1..Len(order) |-> k]).stops

\* The window that is found, or else what can be put together.
Found(order, q, must, avoid, forbidden, unique) ==
    LET allowed == {i \in ToSet(order) : i \notin forbidden}
        from == must \union (allowed \ avoid)
        First(W, V) == IF Cardinality(W) >= q.min THEN W ELSE V
        window == BestWindow(order, q, must, avoid, forbidden, unique)
    IN  IF window # {} THEN window
        ELSE First(First(Greedy(order, IF from = {} THEN allowed ELSE from, q),
                         Greedy(order, allowed, q)),
                   ToSet(Cut(order, q.max)))

\* The same, or a route of the places it must have and others.
Seeded(found, order, q, must, forbidden) ==
    LET extra == Keep(order, ToSet(order) \ (found \union forbidden \union must))
    IN  IF must \subseteq found THEN found
        ELSE ToSet(Cut(Sorted(must, [i \in must |-> 0]) \o extra, q.max))

PickWindow(order, q, must, avoid, forbidden, unique) ==
    LET found == Found(order, q, must, avoid, forbidden, unique)
        seeded == Seeded(found, order, q, must, forbidden)
        dense == Densify(Extend(seeded, order, q), order, q)
        cut == Trim(Extend(dense, order, q), q, KmCap(q))
    IN  IF order = <<>> THEN <<>> ELSE Cut(Tour[WithoutClashes(cut)], q.max)

(***************************************************************************)
(* The routes of the algorithm, without a draft of the LLM.                *)
(***************************************************************************)

\* Adds places of from, in that order, while fewer than q.min stops are there.
FillUp(W, from, q) ==
    Collect(W, from, [V \in SUBSET Places |-> [i \in Places |->
        /\ Cardinality(V) < q.min
        /\ ~Clashing(V \union {i})
        /\ TourWithin(V \union {i}, NovelLeg(q))]])

\* The same, but from the start again after each place.
FillFirst(W, from, q) ==
    LET Fitting(V) == Keep(from, {i \in ToSet(from) \ V :
                          /\ ~Clashing(V \union {i})
                          /\ TourWithin(V \union {i}, NovelLeg(q))})
    IN  Repeat([V \in SUBSET Places |-> IF Cardinality(V) >= q.min \/ Fitting(V) = <<>> THEN V
                                        ELSE V \union {Fitting(V)[1]}],
               W, q.min)

\* Route C: first of all places that A and B do not use.
PickNovel(S, order, q, avoid) ==
    LET novel == S \ avoid
        own == Collect({}, order, [W \in SUBSET Places |-> [i \in Places |->
            /\ i \in novel
            /\ ~Clashing(W \union {i})
            /\ TourWithin(W \union {i}, NovelLeg(q))
            /\ TourKm[W \union {i}] <= KmCap(q) \/ Cardinality(W) < q.min
            /\ Cardinality(W) < q.max]])
        shared == Sorted(ToSet(order) \cap avoid,
                         [i \in Places |-> FromCentre(i, novel)])
        grown == FillUp(Extend(FillFirst(novel, shared, q), order, q), shared, q)
    IN  IF novel = {} THEN <<>>
        ELSE IF Cardinality(novel) >= q.min /\ Cardinality(own) >= q.min
             THEN Cut(Tour[Trim(Extend(own, order, q), q, KmCap(q))], q.max)
        ELSE Cut(Tour[Trim(FilterClashes(grown), q, KmCap(q))], q.max)

\* Keeps the length under the cap, if need be by a new route.
Clamp(path, order, q) ==
    LET trimmed == Trim(ToSet(path), q, KmCap(q))
        rebuilt == Greedy(order, ToSet(order), q)
    IN  IF path = <<>> THEN path
        ELSE IF TourKm[trimmed] <= KmCap(q) /\ Cardinality(trimmed) >= q.min
             THEN Tour[trimmed]
        ELSE IF Cardinality(rebuilt) >= q.min THEN Tour[rebuilt]
        ELSE IF Cardinality(trimmed) >= q.min THEN Tour[trimmed]
        ELSE path

\* The first of the liked places that the routes so far do not use.
NextLiked(prefer, S, banned, used) ==
    LET left == Keep(prefer, (S \ banned) \ used)
    IN  IF left = <<>> THEN {} ELSE {left[1]}

\* New places and a liked one; when that is too little, a window.
RouteC(S, order, q, a, b, banned, prefer) ==
    LET novel == PickNovel(S, order, q, ToSet(b) \union banned)
        wish == NextLiked(prefer, S, banned, ToSet(a) \union ToSet(b)) \ ToSet(novel)
        withWish == ToSet(novel) \union wish
        c0 == IF wish # {} /\ Cardinality(withWish) >= q.min
              THEN Cut(Tour[withWish], q.max) ELSE novel
        far == IF Outliers(S) \subseteq ToSet(b) THEN {Farthest(S)} \ ToSet(b)
               ELSE Outliers(S) \ ToSet(b)
    IN  IF Len(c0) < q.min \/ Km(c0) < q.lo
        THEN PickWindow(order, q, far, ToSet(b), banned, 1) ELSE c0

\* prefer: the liked places, in the order the set of their names happens to have.
Algorithm(S, order, banned, prefer) ==
    LET q == Each(LAMBDA id : ProfileOf(id, S))
        a == PickWindow(order, q["A"], NextLiked(prefer, S, banned, {}),
                        Outliers(S) \union banned, banned, 0)
        b == PickWindow(order, q["B"], NextLiked(prefer, S, banned, ToSet(a)),
                        ToSet(a) \union banned, banned, 1)
    IN  [A |-> Clamp(a, order, q["A"]), B |-> Clamp(b, order, q["B"]),
         C |-> Clamp(RouteC(S, order, q["C"], a, b, banned, prefer), order, q["C"])]

(***************************************************************************)
(* The ranking of the LLM: a draft names places, the rules check it.       *)
(***************************************************************************)

Ranked(stops, S, banned) ==
    Fold([seed \in Seq(Places) |-> [i \in Nat |->
             IF i \in S \ banned /\ ~ClashInPath(Append(seed, i))
             THEN Append(seed, i) ELSE seed]], <<>>, stops)

DropLast(path, q) ==
    Repeat([p \in Seq(Places) |-> IF Len(p) <= q.min \/ Km(p) <= KmCap(q) THEN p ELSE Front(p)],
           path, Len(path))

\* Adds the first place of the order that fits, until the route is long enough.
GrowFirst(path, order, q, banned) ==
    LET Fitting(W) == Keep(order, {i \in ToSet(order) \ (W \union banned) :
                          /\ ~Clashing(W \union {i})
                          /\ TourWithin(W \union {i}, GrowLimit(q))
                          /\ ~TooLongForA(q, TourKm[W \union {i}])})
        Enough(p) == \/ Km(p) >= q.abs
                     \/ Len(p) >= q.max + (IF q.short THEN 1 ELSE 2)
                     \/ Fitting(ToSet(p)) = <<>>
    IN  Repeat([p \in Seq(Places) |-> IF Enough(p) THEN p
                                      ELSE Tour[ToSet(p) \union {Fitting(ToSet(p))[1]}]],
               path, Len(order))

\* What both ways of using the draft do with it in the end.
LongEnough(W, order, q) ==
    LET grown == Extend(W, order, q)
    IN  WithoutClashes(IF q.short THEN Trim(grown, q, LongestA) ELSE grown)

\* <<>> when the draft can not be used.
FromDraft(stops, S, order, q, banned) ==
    LET seed == Cut(Ranked(stops, S, banned), q.max)
        path == IF LegsWithin(seed, StepLimit(q)) THEN seed ELSE Tour[ToSet(seed)]
        short == DropLast(path, q)
        W == LongEnough(ToSet(GrowFirst(short, order, q, banned)), order, q)
    IN  IF \/ seed = <<>>
           \/ ~LegsWithin(path, StepLimit(q))
           \/ Km(short) > KmCap(q)
           \/ Cardinality(W) < q.min \/ TourKm[W] < q.abs
           \/ q.short /\ 100 * TourKm[W] > 105 * LongestA
           \/ ~q.short /\ ~TourWithin(W, NovelLeg(q))
        THEN <<>> ELSE TrimStops(Tour[W], q)

FinalStops(stops, S, q, banned) ==
    LET order == Tour[S]
        draft == FromDraft(stops, S, order, q, banned)
        seed == ToSet(Ranked(stops, S, banned))
        W == LongEnough(seed, order, q)
    IN  IF draft # <<>> THEN draft
        ELSE IF seed # {} /\ Cardinality(W) >= q.min /\ TourKm[W] >= q.abs
             THEN TrimStops(Tour[W], q)
        ELSE PickWindow(order, q, {}, banned \cap S, banned \cap S, 0)

(***************************************************************************)
(* Closing a route to a ring.                                              *)
(***************************************************************************)

WantsLoop(asked, W, span) ==
    LET shore == W \cap Embankments # {}
    IN  \/ asked
        \/ /\ Cardinality(W) >= 3
           /\ \/ shore /\ W \cap Bridges # {}
              \/ span < 30000 /\ (shore \/ Cardinality(W) >= 4)

\* The walk from each stop in turn whose last leg home is the shortest.
OrderForLoop(path, limit) ==
    LET W == ToSet(path)
        From(i) == WalkOn(i, W)
        Home(p) == Gap(p[Len(p)], p[1])
        Better(best, i) == /\ 100 * Home(From(i)) <= 115 * limit
                           /\ LegsWithin(From(i), limit)
                           /\ best = <<>> \/ Home(From(i)) < Home(best)
        ring == Fold([best \in Seq(Places) |-> [i \in Places |->
                         IF Better(best, i) THEN From(i) ELSE best]], <<>>, path)
    IN  IF Len(path) <= 2 \/ ring = <<>> THEN path ELSE ring

ClosingLegOk(path, q) ==
    /\ Len(path) >= 3
    /\ 100 * Gap(path[Len(path)], path[1]) <= 115 * StepLimit(q)
    /\ IF q.short THEN 100 * LoopKm(path) <= 105 * LongestA
                  ELSE 20 * LoopKm(path) <= 27 * q.hi

ResolveLoop(asked, path, q) ==
    LET ring == OrderForLoop(path, StepLimit(q))
    IN  IF WantsLoop(asked, ToSet(path), q.span) /\ ClosingLegOk(ring, q)
        THEN [loop |-> TRUE, path |-> ring] ELSE [loop |-> FALSE, path |-> path]

\* A ring the draft asks for may cost stops.
ShortenToLoop(path, q) ==
    LET Ring(p) == ResolveLoop(TRUE, p, q)
        trial == Repeat([p \in Seq(Places) |-> IF Len(p) <= q.min \/ Ring(p).loop THEN p
                                               ELSE Tour[ToSet(Front(p))]],
                        Tour[ToSet(path)], Len(path))
    IN  IF Len(trial) <= q.min THEN path ELSE Ring(trial).path

\* (mutant) a ring gets no link
FinalCaseRingUnlinked(id, asked, path, q) ==
    LET got == ResolveLoop(asked, path, q)
    IN  [id |-> id, stops |-> got.path, loop |-> got.loop, link |-> ~got.loop]

FinalCase(id, asked, path, q) ==
    LET short == IF asked THEN ShortenToLoop(path, q) ELSE path
        got == ResolveLoop(asked, short, q)
    IN  [id |-> id, stops |-> got.path, loop |-> got.loop, link |-> got.path # <<>>]

(***************************************************************************)
(* Three routes that differ.                                               *)
(***************************************************************************)

\* The share of common stops is above percent / 100; with no stops it is 1.
MoreAlike(V, W, percent) ==
    IF V = {} \/ W = {} THEN percent < 100
    ELSE 100 * Cardinality(V \cap W)
             > percent * LargerOf(Cardinality(V), Cardinality(W))

\* The limits of the builder, and of the critic, in percent.
PairLimit == [pair \in Pairs |-> CASE pair = <<"A", "B">> -> 72
                                   [] pair = <<"B", "C">> -> 76
                                   [] pair = <<"A", "C">> -> 82]
CriticLimit == [pair \in Pairs |-> CASE pair = <<"A", "B">> -> 75
                                     [] pair = <<"B", "C">> -> 78
                                     [] pair = <<"A", "C">> -> 85]

LimitForPool(limits, pair, size) ==
    IF size >= 12 THEN limits[pair]
    ELSE IF size >= 8 THEN Min({92, limits[pair] + 8}) ELSE 95

\* (mutant) routes that are alike stay
KeepAlike(routes, S, order, banned, algo) ==
    [A |-> routes["A"], B |-> routes["B"], C |-> routes["C"]]

\* A route too much like the other one gives way to the new one, or, when there is none
\* or it is no better, to the algorithm's (spare).
Replaced(old, new, other, pair, spare, size) ==
    LET Alike(path) ==
            MoreAlike(ToSet(other), ToSet(path), LimitForPool(PairLimit, pair, size))
        got == IF new = <<>> THEN old ELSE new
    IN  IF ~Alike(old) THEN old
        ELSE IF ~Alike(got) \/ spare = <<>> THEN got
        ELSE spare

Diversify(routes, S, order, banned, algo) ==
    LET q == Each(LAMBDA id : ProfileOf(id, S))
        size == Cardinality(S)
        a == routes["A"]
        avoidA == ToSet(a) \union banned
        b == Replaced(routes["B"], PickWindow(order, q["B"], {}, avoidA, banned, 1),
                      a, <<"A", "B">>, algo["B"], size)
        c == Replaced(routes["C"], PickNovel(S, order, q["C"], ToSet(b) \union banned),
                      b, <<"B", "C">>, algo["C"], size)
    IN  [A |-> a, B |-> b,
         C |-> Replaced(c, PickNovel(S, order, q["C"], avoidA \union ToSet(b)),
                        a, <<"A", "C">>, algo["C"], size)]

(***************************************************************************)
(* The programs.  A program of new routes is a sequence of cases.          *)
(***************************************************************************)

Cases == [id : ToSet(CaseIds), stops : Seq(Nat), loop : BOOLEAN, link : BOOLEAN]

ById(cases) ==
    [id \in {c.id : c \in ToSet(cases)} |->
        cases[CHOOSE k \in DOMAIN cases : /\ cases[k].id = id
                                          /\ \A j \in 1..(k - 1) : cases[j].id # id]]

\* (mutant) what extending added stays
KeepBanned(path, out) == path

\* The banned places are taken out last, whatever put them there.
Strip(path, out) == Keep(path, ToSet(path) \ out)

\* finalize_route_program.  Whoever calls it has the three cases A, B and C, none of
\* them preserved yet.
Finalize(cases, pool, banned) ==
    LET S == Leisure(pool)
        q == Each(LAMBDA id : ProfileOf(id, S))
        out == banned \cap S
        raw == Each(LAMBDA id : FinalStops(ById(cases)[id].stops, S, q[id], banned))
        algo == Algorithm(S, Tour[S], out, <<>>)
        apart == Diversify(raw, S, Tour[S], out, algo)
        routes == Each(LAMBDA id : Strip(apart[id], out))
    IN  IF S = {} THEN cases
        ELSE [k \in 1..Len(cases) |->
                 FinalCase(cases[k].id, cases[k].loop, routes[cases[k].id],
                           q[cases[k].id])]

\* A case made of a chosen route: its last stop is left out.
DraftCase(id, path, loop) ==
    [stops |-> IF path = <<>> THEN path ELSE Front(path), link |-> FALSE, id |-> id,
     loop |-> loop]

NoRoutes == [k \in 1..3 |-> DraftCase(CaseIds[k], <<>>, FALSE)]

Shifted(order, variant) ==
    LET shift == IF order = <<>> THEN 0 ELSE (variant * 3) % Len(order)
    IN  SubSeq(order, shift + 1, Len(order)) \o SubSeq(order, 1, shift)

Fallback(pool, banned, prefer, variant) ==
    LET S == Leisure(pool)
        algo == Algorithm(S, Shifted(Tour[S], variant), banned \cap S, prefer)
    IN  IF S = {} THEN NoRoutes
        ELSE Finalize([k \in 1..3 |-> DraftCase(CaseIds[k], algo[CaseIds[k]], FALSE)],
                      pool, banned)

Hybrid(pool, draft, banned, prefer) ==
    LET S == Leisure(pool)
        out == banned \cap S
        algo == Algorithm(S, Tour[S], out, prefer)
        Ranking(id) ==
            IF id \notin DOMAIN ById(draft) THEN <<>>
            ELSE FromDraft(ById(draft)[id].stops, S, Tour[S], ProfileOf(id, S), banned)
        Chosen(path, id) == IF path = <<>> THEN algo[id] ELSE path
        chosen == Each(LAMBDA id : Chosen(Ranking(id), id))
        apart == Diversify(chosen, S, Tour[S], out, algo)
        Loop(id) == id \in DOMAIN ById(draft) /\ ById(draft)[id].loop
    IN  IF S = {} THEN NoRoutes
        ELSE Finalize([k \in 1..3 |-> DraftCase(CaseIds[k], apart[CaseIds[k]],
                                                Loop(CaseIds[k]))], pool, banned)

LikesPinned(cases, pinned) ==
    \E c \in ToSet(cases), p \in ToSet(pinned) :
        MoreAlike(ToSet(c.stops), ToSet(p.stops), 50)

\* Up to four attempts at routes unlike the pinned ones.
BesidePinned(pool, draft, pinned, banned, prefer) ==
    LET liked == UNION {ToSet(p.stops) : p \in ToSet(pinned)}
        wanted == Keep(prefer, ToSet(prefer) \ (banned \union liked))
        Again(new, k) ==
            IF LikesPinned(new, pinned) THEN Fallback(pool, banned, wanted, k) ELSE new
    IN  Fold([new \in Seq(Cases) |-> [k \in Nat |-> Again(new, k)]],
             IF draft # <<>> THEN Hybrid(pool, draft, banned, wanted)
             ELSE Fallback(pool, banned, wanted, 0),
             <<1, 2, 3>>)

\* A case with a banned stop is chosen again.
Enforced(cases, S, banned, prefer) ==
    LET Bad(c) == ToSet(c.stops) \cap banned # {}
        out == banned \cap S
        Chosen(c, must) ==
            DraftCase(c.id, PickWindow(Tour[S], ProfileOf(c.id, S), must, out, out, 0), FALSE)
        \* each takes the next of the preferred places
        Next1(acc) == IF acc.left = <<>> THEN {} ELSE {Head(acc.left)}
        Redo(acc, c) ==
            IF Bad(c) THEN [done |-> Append(acc.done, Chosen(c, Next1(acc))),
                            left |-> IF acc.left = <<>> THEN <<>> ELSE Tail(acc.left)]
            ELSE [acc EXCEPT !.done = Append(@, c)]
    IN  Fold([acc \in [done : Seq(Cases), left : Seq(Nat)] |-> [c \in Cases |-> Redo(acc, c)]],
             [done |-> <<>>, left |-> prefer], cases).done

EnforcePolicy(cases, pool, banned, prefer) ==
    LET S == Leisure(pool)
    IN  IF banned = {} \/ S = {} THEN cases
        ELSE Finalize(Enforced(cases, S, banned,
                               Keep(prefer, S \ banned)),
                      pool, banned)

\* resolve_routes_program, once a pool is stored.
ResolveRoutes(pool, draft, pinned, banned, liked) ==
    LET wanted == Keep(liked, pool \ banned)
        usable == IF Len(draft) >= 3 THEN draft ELSE <<>>
        made == IF pinned # <<>> THEN BesidePinned(pool, usable, pinned, banned, wanted)
                ELSE IF usable # <<>> THEN Hybrid(pool, draft, banned, wanted)
                ELSE Fallback(pool, banned, wanted, 0)
        linked == IF \E c \in ToSet(made) : ~c.link THEN Finalize(made, pool, banned)
                  ELSE made
    IN  EnforcePolicy(linked, pool, banned, wanted)

(***************************************************************************)
(* The critic's rules for the routes: pinned are the preserved cases,      *)
(* fresh the new ones.                                                     *)
(***************************************************************************)

TooAlike(fresh) ==
    LET size == Max({Len(c.stops) : c \in ToSet(fresh)} \union {0})
        Limit(pair) == LimitForPool(CriticLimit, pair, LargerOf(2 * size, 8))
        Alike(c, d) == MoreAlike(ToSet(c.stops), ToSet(d.stops), Limit(<<c.id, d.id>>))
    IN  \E c, d \in ToSet(fresh) : <<c.id, d.id>> \in Pairs /\ Alike(c, d)

\* Two cases whose map link is the same.
SameLink(fresh) ==
    \E k, l \in 1..Len(fresh) :
        /\ k < l
        /\ fresh[k].link /\ fresh[l].link
        /\ fresh[k].stops = fresh[l].stops /\ fresh[k].loop = fresh[l].loop

RoutesAreGood(pinned, fresh) ==
    /\ Len(fresh) >= 3
    /\ pinned = <<>> => Len(fresh) = 3 /\ DOMAIN ById(fresh) = ToSet(CaseIds)
    /\ \A c \in ToSet(pinned \o fresh) : Len(c.stops) >= MinStops /\ c.link
    /\ IF pinned # <<>> THEN ~LikesPinned(fresh, pinned)
       ELSE ~TooAlike(fresh) /\ ~SameLink(fresh)

=============================================================================
