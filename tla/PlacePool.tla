----------------------------- MODULE PlacePool -----------------------------
(***************************************************************************)
(* Which places of OpenStreetMap and Wikidata a walk through a city may    *)
(* stop at, and which two of them are the same place twice                 *)
(* (search/yandex/poi_filters.py, search/yandex/leisure_tags.py,           *)
(* search/osm/poi_from_tags.py and the scores of                           *)
(* search/wikidata/places.py).  Pure operators: PlaceSearch uses them in   *)
(* the steps of the search.                                                *)
(*                                                                         *)
(* Of a name only what the patterns find in it is kept (Name), of the tags *)
(* of OpenStreetMap only the groups that the code tells apart (Tags).  The *)
(* hint is the name of the city that the search is about.                  *)
(***************************************************************************)
EXTENDS Integers, FiniteSets

CONSTANTS
    Place,      \* what the two sources can return about the city
    Wiki,       \* those of Wikidata: the id is Q and a number
    Name,       \* what the patterns find in the name of a place
    Tags,       \* groups of tags of an element of OpenStreetMap
    Key,        \* route_name_key: the name without "street", "square" ...
    Spot,       \* coord_key: the coordinates to four digits
    Alike,      \* pairs within 350 m that share a word of four letters or more
    Inside,     \* those within walkable_radius_km of the centre
    Sitelinks

Words == {"empty", "short", "city", "known", "hub", "area", "street", "quaystreet",
          "house", "hint", "quay", "naberezhnaya", "temple", "promenade", "museum",
          "park", "monument", "low", "negative", "positive", "building"}

TagGroups == {"pedestrian", "temple", "museum", "monument", "park", "attraction", "other"}

\* The tables of the patterns: "набереж" is a hint and names an embankment.
ASSUME PlacePoolAssumption ==
    /\ IsFiniteSet(Place)
    /\ Wiki \subseteq Place
    /\ Inside \subseteq Place
    /\ Name \in [Place -> SUBSET Words]
    /\ Tags \in [Place -> SUBSET TagGroups]
    /\ Sitelinks \in [Place -> Nat]
    /\ \A c \in Alike : c \subseteq Place /\ Cardinality(c) = 2
    /\ \A p \in Place : "naberezhnaya" \in Name[p] => {"hint", "quay"} \subseteq Name[p]

Has(p, words) == Name[p] \cap words # {}

(***************************************************************************)
(* Names.                                                                  *)
(***************************************************************************)

GenericStreet(p) == Has(p, {"street", "quaystreet", "house"})

CityOnly(p) == Has(p, {"empty", "city", "known"})

TransportOrArea(p) == Has(p, {"hub", "area"})

\* (mutant) addresses pass
AcceptableNameOrHouse(p) ==
    ~Has(p, {"short", "hub", "area", "street", "quaystreet"}) /\ ~CityOnly(p)

AcceptableName(p) ==
    /\ ~Has(p, {"short"})
    /\ ~CityOnly(p)
    /\ ~TransportOrArea(p)
    /\ ~GenericStreet(p)

\* A street for walkers may be called "street".
AcceptablePedestrian(p) ==
    /\ ~Has(p, {"empty", "short", "city", "house"})
    /\ ~TransportOrArea(p)

EmbankmentName(p) ==
    /\ Has(p, {"quay"})
    /\ ~CityOnly(p)
    /\ ~TransportOrArea(p)
    /\ ~Has(p, {"quaystreet", "house"})

LandmarkName(p) == AcceptableName(p) /\ Has(p, {"hint"})

(***************************************************************************)
(* The kind of a place: by its name, by its tags.                          *)
(***************************************************************************)

NameKinds == <<"temple", "promenade", "museum", "naberezhnaya", "park", "monument">>
TagKinds == <<"pedestrian", "temple", "museum", "monument", "park">>

LeisureTag ==
    [temple |-> "temples", promenade |-> "pedestrian_streets", pedestrian |-> "pedestrian_streets",
     museum |-> "museums", naberezhnaya |-> "embankments", park |-> "parks",
     monument |-> "monuments", none |-> "landmarks"]

\* The first of the kinds in found.
FirstOf(kinds, found) ==
    LET hits == {k \in DOMAIN kinds : kinds[k] \in found}
    IN  IF hits = {} THEN "none"
        ELSE kinds[CHOOSE k \in hits : \A j \in hits : k <= j]

TagOfName(p) == LeisureTag[FirstOf(NameKinds, Name[p])]

TagOfElement(p) ==
    LET kind == FirstOf(TagKinds, Tags[p])
    IN  IF kind # "none" THEN LeisureTag[kind]
        ELSE IF "naberezhnaya" \in Name[p] THEN "embankments"
        ELSE IF "attraction" \in Tags[p] THEN "landmarks"
        ELSE TagOfName(p)

Tag(p) == IF p \in Wiki THEN TagOfName(p) ELSE TagOfElement(p)

(***************************************************************************)
(* What the index of a city keeps of the map (osm_element_to_poi, from     *)
(* build_poi_index.py, which passes only tagged elements), what a search   *)
(* takes from the index, from Wikidata, and into the common pool.          *)
(***************************************************************************)

Indexable(p) ==
    /\ p \notin Wiki
    /\ Tags[p] # {}
    /\ ~Has(p, {"empty"})
    /\ IF "pedestrian" \in Tags[p] THEN AcceptablePedestrian(p) ELSE AcceptableName(p)

\* is_leisure_route_poi
Leisurely(p) ==
    CASE Tag(p) = "pedestrian_streets" -> AcceptablePedestrian(p)
      [] Tag(p) = "embankments" -> EmbankmentName(p)
      [] OTHER -> LandmarkName(p)

\* (mutant) the second tier of Wikidata is held to the rules of the index
PoolAcceptsLeisurely(p) == Leisurely(p)

\* _pool_accepts_poi
PoolAccepts(p) ==
    IF p \in Wiki
    THEN /\ ~Has(p, {"low"})
         /\ IF Tag(p) = "embankments" THEN EmbankmentName(p) ELSE AcceptableName(p)
    ELSE Leisurely(p)

\* wikidata_row_to_poi and the radius
WikiPlace(p) == p \in Wiki /\ ~Has(p, {"low"}) /\ AcceptableName(p) /\ p \in Inside

\* _poi_tier 0
Strict(p) == LandmarkName(p) \/ EmbankmentName(p)

\* _wikidata_backfill_score, in fortieths
Score(p) ==
    IF Has(p, {"negative"}) THEN 0
    ELSE (IF Sitelinks[p] < 20 THEN Sitelinks[p] ELSE 20)
           + (IF Has(p, {"positive"}) THEN 24 ELSE 0)
           + (IF Has(p, {"building"}) THEN 10 ELSE 0)

\* The order of the rows: tier 0 before tier 1, tier 1 by its score.
Weight(p) == IF Strict(p) THEN 100 ELSE Score(p)

(***************************************************************************)
(* The same place twice.                                                   *)
(***************************************************************************)

SameSpotOrName(p, q) == p = q \/ Key[p] = Key[q] \/ Spot[p] = Spot[q]

\* (mutant) near namesakes are never compared
ConflictsRelaxed(p, q, relaxed) == SameSpotOrName(p, q)

\* poi_name_conflict and the checks beside it in _append_poi and _try_merge_poi
Conflicts(p, q, relaxed) == SameSpotOrName(p, q) \/ (~relaxed /\ {p, q} \in Alike)

=============================================================================
