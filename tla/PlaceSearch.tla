---------------------------- MODULE PlaceSearch ----------------------------
(***************************************************************************)
(* The search for the places of a city, one at a time in the worker        *)
(* (search/yandex/leisure_search.py and what it calls): the centre of the  *)
(* city, the rows of its index or else the rows of Wikidata, the loops     *)
(* that collect from them a pool without repetitions, the names from the   *)
(* web that move places to its head, and the answer, demo points when      *)
(* nothing was found.  CityPacks puts the index of the city and the other  *)
(* work of the worker around it.                                           *)
(*                                                                         *)
(* Each loop of the code over candidates is a stage: todo are those still  *)
(* to be considered, pool those collected, and a step considers one.  The  *)
(* order of the rows is left open except where the code sorts them.  The   *)
(* switches POI_USE_WIKIDATA and POI_USE_DISCOVERY are on, the default.    *)
(***************************************************************************)
EXTENDS PlacePool

CONSTANTS
    Returns,     \* what each query to Wikidata returns when it is answered
    Enough,      \* 15: so many rows of the direct query, and the slow one is left out
    Target,      \* leisure_search_pool_limit: 50
    PoolCap,     \* max_items of merge_poi_pools: 100
    PackCap,     \* max_elements of the index: 200
    Phrases,     \* what the texts found in the web say
    Flaws,       \* why _clean_candidate drops a phrase
    Likeness,    \* name_similarity of a phrase and a place, in thousandths
    MaxNames     \* _MAX_CANDIDATES: 24

FlawKinds == {"length", "junk", "noun", "news", "skip", "city", "nohint"}

Queries == {"direct", "wide", "quays", "widequays"}

ASSUME PlaceSearchAssumption ==
    /\ Returns \in [Queries -> SUBSET Wiki]
    /\ {Enough, Target, PoolCap, PackCap, MaxNames} \subseteq Nat \ {0}
    /\ Target <= PoolCap
    /\ IsFiniteSet(Phrases)
    /\ Flaws \in [Phrases -> SUBSET FlawKinds]
    /\ Likeness \in [Phrases -> [Place -> 0..1000]]

VARIABLES
    centre,      \* resolve_city_center and its cache
    stage,
    rows,        \* places of the source that the search may use
    todo, pool,
    found,       \* what the source has given for the pool
    names,       \* names still to be matched
    matches,     \* pairs of a name and the place it stands for
    reply

searchVars == <<centre, stage, rows, todo, pool, found, names, matches, reply>>

Loops == {"pack", "strict", "soft", "relaxed", "merge", "again"}
Stages == Loops \union {"idle", "begun", "reading", "opening", "asking", "web", "match"}

NoAnswer == [kind |-> "none", places |-> {}, first |-> {}, warned |-> FALSE]

SearchTypeOK ==
    /\ centre \in {"unknown", "lost", "nameless", "found"}
    /\ stage \in Stages
    /\ rows \subseteq Place /\ todo \subseteq Place /\ pool \subseteq Place /\ found \subseteq Place
    /\ names \subseteq Phrases
    /\ matches \subseteq Phrases \X Place
    /\ reply \in [kind : {"none", "real", "demo", "error"}, places : SUBSET Place,
                   first : SUBSET Place, warned : BOOLEAN]

SearchInit ==
    /\ centre = "unknown"
    /\ stage = "idle"
    /\ rows = {} /\ todo = {} /\ pool = {} /\ found = {}
    /\ names = {} /\ matches = {}
    /\ reply = NoAnswer

(***************************************************************************)
(* The centre of the city.  The cache keeps a failure as well.             *)
(***************************************************************************)

\* What a geocoding ends in.
Located == {"lost", "nameless", "found"}

Demo(warned) == [kind |-> "demo", places |-> {}, first |-> {}, warned |-> warned]

Answers(a) ==
    /\ reply' = a
    /\ stage' = "idle"
    /\ rows' = {} /\ todo' = {} /\ pool' = {} /\ found' = {}
    /\ names' = {} /\ matches' = {}

StartSearch ==
    /\ stage = "idle"
    /\ centre' \in IF centre = "unknown" THEN Located ELSE {centre}
    /\ IF centre' = "lost"
       THEN Answers(Demo(FALSE))
       ELSE /\ stage' = "begun"
            /\ reply' = NoAnswer
            /\ UNCHANGED <<rows, todo, pool, found, names, matches>>

(***************************************************************************)
(* The rows of the index.                                                  *)
(***************************************************************************)

Goes(from, to) ==
    /\ stage = from
    /\ stage' = to
    /\ UNCHANGED <<centre, rows, todo, pool, found, names, matches, reply>>

ReadsRows(from, S) ==
    /\ stage = from
    /\ stage' = "pack"
    /\ rows' = S
    /\ todo' = S
    /\ UNCHANGED <<centre, pool, found, names, matches, reply>>

\* The error becomes the text of the tool's answer.
ReadFails ==
    /\ stage = "opening"
    /\ Answers([NoAnswer EXCEPT !.kind = "error"])
    /\ UNCHANGED centre

(***************************************************************************)
(* The rows of Wikidata (_fetch_city_rows): a query that fails three times *)
(* returns nothing.                                                        *)
(***************************************************************************)

FetchRows(down) ==
    LET got(q) == IF q \in down THEN {} ELSE Returns[q]
        main == IF Cardinality(got("direct")) >= Enough THEN got("direct")
                ELSE got("wide") \union got("direct")
        quays == IF got("quays") # {} THEN got("quays") ELSE got("widequays")
    IN  main \union quays

Usable(p) == WikiPlace(p) /\ (Strict(p) \/ Score(p) > 0)

AskWikidata ==
    /\ stage = "asking"
    /\ \E down \in SUBSET Queries :
        LET S == IF centre = "nameless" THEN {} ELSE {p \in FetchRows(down) : Usable(p)}
        IN  /\ rows' = S
            /\ todo' = {p \in S : Strict(p)}
    /\ stage' = "strict"
    /\ UNCHANGED <<centre, pool, found, names, matches, reply>>

(***************************************************************************)
(* The loops.                                                              *)
(***************************************************************************)

Full ==
    CASE stage = "pack" -> Cardinality(pool) >= PackCap
      [] stage \in {"soft", "relaxed"} -> Cardinality(pool) >= Target
      [] stage \in {"merge", "again"} -> Cardinality(pool) >= PoolCap
      [] OTHER -> FALSE

Passes(p) ==
    CASE stage = "pack" -> Leisurely(p) /\ p \in Inside
      [] stage \in {"merge", "again"} -> PoolAccepts(p) /\ p \in Inside
      [] OTHER -> p \in Inside

MayRelax(p, q) == stage = "relaxed" \/ (stage = "again" /\ {p, q} \subseteq Wiki)

\* The best score first where the code sorts.
Due(p) ==
    /\ p \in todo
    /\ stage \in {"soft", "relaxed"} => \A q \in todo : Weight(q) <= Weight(p)

Consider(p) ==
    /\ stage \in Loops
    /\ ~Full
    /\ Due(p)
    /\ todo' = todo \ {p}
    /\ pool' = IF Passes(p) /\ \A q \in pool : ~Conflicts(p, q, MayRelax(p, q))
               THEN pool \union {p} ELSE pool
    /\ UNCHANGED <<centre, stage, rows, found, names, matches, reply>>

Ended(s) == stage = s /\ (todo = {} \/ Full)

GoesOn(s, S) ==
    /\ stage' = s
    /\ todo' = S
    /\ UNCHANGED <<centre, rows, pool, found, names, matches, reply>>

\* merge_poi_pools starts with an empty pool.
Merges ==
    /\ stage' = "merge"
    /\ found' = pool
    /\ todo' = pool
    /\ pool' = {}
    /\ UNCHANGED <<centre, rows, names, matches, reply>>

EndPack == Ended("pack") /\ IF pool = {} THEN GoesOn("asking", {}) ELSE Merges

EndStrict == Ended("strict") /\ GoesOn("soft", {p \in rows : ~Strict(p)})

EndSoft ==
    /\ Ended("soft")
    /\ IF Cardinality(pool) < Target THEN GoesOn("relaxed", rows \ pool) ELSE Merges

EndRelaxed == Ended("relaxed") /\ Merges

\* (mutant) the second pass is left out
EndMergeAtOnce == Ended("merge") /\ GoesOn("web", {})

EndMerge ==
    /\ Ended("merge")
    /\ IF Cardinality(pool) < Target THEN GoesOn("again", found \ pool) ELSE GoesOn("web", {})

EndAgain == Ended("again") /\ GoesOn("web", {})

(***************************************************************************)
(* The names from the web and the answer.                                  *)
(***************************************************************************)

MinScore == 520         \* _MIN_SCORE
StrongScore == 720      \* _STRONG_SCORE

Clean(x) == Flaws[x] = {}

\* What the patterns find in the texts and _clean_candidate keeps.
Heard(said) == {x \in said : Clean(x)}

Discover ==
    /\ stage = "web"
    /\ pool # {}
    /\ \E said \in SUBSET Phrases :
        \E kept \in SUBSET Heard(said) :
            /\ Cardinality(kept) <= MaxNames
            /\ kept # Heard(said) => Cardinality(kept) = MaxNames
            /\ names' = kept
    /\ stage' = "match"
    /\ UNCHANGED <<centre, rows, todo, pool, found, matches, reply>>

\* Without a key of Tavily the texts come from ddgs: an error as it is imported or
\* opened is an error of the whole search, whatever was collected.
DiscoverFails ==
    /\ stage = "web"
    /\ pool # {}
    /\ Answers([NoAnswer EXCEPT !.kind = "error"])
    /\ UNCHANGED centre

Matched == {m[2] : m \in matches}

Likes(x) == {p \in pool \ Matched : Likeness[x][p] >= MinScore}

MatchName(x) ==
    /\ stage = "match"
    /\ x \in names
    /\ names' = names \ {x}
    /\ IF Likes(x) = {} THEN UNCHANGED matches
       ELSE \E p \in Likes(x) :
            /\ \A q \in Likes(x) : Likeness[x][q] <= Likeness[x][p]
            /\ matches' = matches \union {<<x, p>>}
    /\ UNCHANGED <<centre, stage, rows, todo, pool, found, reply>>

Boosted == {m[2] : m \in {m \in matches : Likeness[m[1]][m[2]] >= StrongScore}}

AnswerSearch ==
    /\ \/ /\ stage = "web"
          /\ pool = {}
          /\ Answers(Demo(found = {}))
       \/ /\ stage = "match"
          /\ names = {}
          /\ Answers([kind |-> "real", places |-> pool, first |-> Boosted, warned |-> FALSE])
    /\ UNCHANGED centre

\* The steps that do not depend on the index.
SearchStep ==
    \/ StartSearch
    \/ AskWikidata
    \/ \E p \in Place : Consider(p)
    \/ EndPack \/ EndStrict \/ EndSoft \/ EndRelaxed \/ EndMerge \/ EndAgain
    \/ Discover \/ DiscoverFails
    \/ \E x \in Phrases : MatchName(x)
    \/ AnswerSearch

\* Alone: the index may hold anything and may vanish at any time.
SearchNext ==
    \/ SearchStep
    \/ Goes("begun", "asking") \/ Goes("begun", "reading") \/ Goes("reading", "opening")
    \/ ReadsRows("reading", {})
    \/ \E S \in SUBSET {p \in Place : Indexable(p)} : ReadsRows("opening", S)
    \/ ReadFails
    \/ /\ Answers(NoAnswer) /\ centre' = "unknown"      \* the worker dies

SearchSpec == SearchInit /\ [][SearchNext]_searchVars

(***************************************************************************)
(* Properties.                                                             *)
(***************************************************************************)

Specific(p) == ~Has(p, {"empty", "short", "city", "hub", "area", "house"})

\* What a pool must be: places one can walk to and stop at, none of them twice;
\* near namesakes only of Wikidata, and only while the pool is small.
Sound(S) ==
    /\ \A p \in S : Specific(p) /\ p \in Inside
    /\ \A p, q \in S : p # q =>
        /\ ~SameSpotOrName(p, q)
        /\ {p, q} \in Alike => {p, q} \subseteq Wiki /\ Cardinality(S) <= Target

\* The pool is sound through both collections and in the answer.
PoolIsSound == Sound(pool) /\ Sound(reply.places)

\* A place that may be served and is not has been left out for a reason: there
\* is no room, or the pool has the same place, or it is too like one that is in
\* the pool, which counts against a place of Wikidata only when there are enough.
PoolIsMaximal ==
    stage \in {"web", "match"} =>
        \A p \in rows \ pool :
            \/ ~PoolAccepts(p) \/ p \notin Inside
            \/ Cardinality(pool) >= PoolCap \/ Cardinality(found) >= PackCap
            \/ \E q \in pool : SameSpotOrName(p, q)
            \/ /\ \E q \in pool : {p, q} \in Alike
               /\ p \in Wiki => Cardinality(pool) >= Target
            \/ p \in Wiki /\ ~Strict(p) /\ Cardinality(pool) >= Target

\* A name from the web that stands for a place it is less like than another has
\* lost the other one to another name.
NoNameSettlesForLess ==
    \A m \in matches : \A p \in pool :
        Likeness[m[1]][p] > Likeness[m[1]][m[2]] =>
            \E n \in matches : n[2] = p /\ n[1] # m[1]

\* Demo points come with a warning, unless the centre of the city was not found
\* (then there is none), and with the centre lost there is nothing else.
DemoIsAnnounced ==
    /\ reply.kind = "demo" => reply.warned \/ centre = "lost"
    /\ centre = "lost" => reply.kind # "real"

=============================================================================
