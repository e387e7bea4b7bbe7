--------------------------- MODULE TripDataProofs ---------------------------
(***************************************************************************)
(* What the versions and the votes of one trip keep, for every set of      *)
(* routes, stops, requests and workers: the number of a version is its     *)
(* place, so the latest row is the newest; likes overrun their limit by    *)
(* the requests in flight at most; a rebuild keeps the pins it began with  *)
(* and, undisturbed, the bans; a fact that was written stays.              *)
(***************************************************************************)
EXTENDS TripData, FiniteSetTheorems, WellFoundedInduction, TLAPS

-----------------------------------------------------------------------------
(* Positions                                                               *)

LEMMA Least ==
    ASSUME NEW T \in SUBSET Nat, T # {}
    PROVE  \E x \in T : \A y \in T : x <= y
<1> DEFINE R == {ss \in Nat \X Nat : ss[1] < ss[2]}
<1>1. OpToRel(<, Nat) = R
  BY DEF OpToRel
<1>2. IsWellFoundedOn(R, Nat)
  BY <1>1, NatLessThanWellFounded
<1> HIDE DEF R
<1>3. PICK x \in T : \A y \in T : <<y, x>> \notin R
  BY <1>2, WFMin
<1>4. ASSUME NEW y \in T PROVE x <= y
  <2>1. <<y, x>> \in Nat \X Nat
    OBVIOUS
  <2>2. ~(y < x)
    BY <1>3, <2>1 DEF R
  <2> QED
    BY <2>2
<1> QED
  BY <1>4

LEMMA FirstMatch ==
    ASSUME NEW n \in Nat, NEW s, DOMAIN s = 1..n, NEW x, \E i \in DOMAIN s : s[i] = x
    PROVE  IndexOf(s, x) \in DOMAIN s /\ s[IndexOf(s, x)] = x
<1> DEFINE T == {i \in DOMAIN s : s[i] = x}
<1>0. T \in SUBSET Nat /\ T # {}
  OBVIOUS
<1>1. PICK i \in T : \A j \in T : i <= j
  <2> HIDE DEF T
  <2> QED
    BY <1>0, Least
<1>2. \A j \in 1..(i - 1) : s[j] # x
  <2> TAKE j \in 1..(i - 1)
  <2>1. j \in DOMAIN s /\ ~(i <= j)
    OBVIOUS
  <2> QED
    BY <1>1, <2>1
<1> QED
  BY <1>1, <1>2 DEF IndexOf

\* The ranks of n positions are 1..n.
LEMMA NthIn ==
    ASSUME NEW m \in Nat, NEW I \in SUBSET (1..m), NEW n \in 1..Cardinality(I)
    PROVE  Nth(I, n) \in I /\ Cardinality({j \in I : j <= Nth(I, n)}) = n
<1> DEFINE Up(i) == {j \in I : j <= i}
           rank == [i \in I |-> Cardinality(Up(i))]
           N == Cardinality(I)
<1>1. IsFiniteSet(I)
  <2>1. IsFiniteSet(1..m)
    BY FS_Interval
  <2> QED
    BY <2>1, FS_Subset
<1>2. N \in Nat /\ IsFiniteSet(1..N) /\ Cardinality(1..N) = N
  BY <1>1, FS_CardinalityType, FS_Interval
<1>3. \A i \in I : /\ IsFiniteSet(Up(i)) /\ Cardinality(Up(i)) \in Nat
                   /\ Cardinality(Up(i)) <= N
                   /\ Cardinality(Up(i)) > 0
  <2> TAKE i \in I
  <2>1. Up(i) \in SUBSET I /\ i \in Up(i)
    OBVIOUS
  <2>2. IsFiniteSet(Up(i)) /\ Cardinality(Up(i)) <= N
    BY <1>1, <2>1, FS_Subset
  <2>3. Cardinality(Up(i)) \in Nat /\ Cardinality(Up(i)) # 0
    BY <2>1, <2>2, FS_CardinalityType, FS_EmptySet
  <2> QED
    BY <2>2, <2>3
<1>4. ASSUME NEW i \in I, NEW j \in I, i < j
      PROVE  Cardinality(Up(i)) # Cardinality(Up(j))
  <2>1. Up(i) \in SUBSET Up(j)
    <3>1. \A k \in I : k <= i => k <= j
      BY <1>4
    <3> QED
      BY <3>1
  <2>3. j \in Up(j) /\ j \notin Up(i)
    BY <1>4
  <2> HIDE DEF Up
  <2>2. IsFiniteSet(Up(j))
    BY <1>3
  <2> QED
    BY <2>1, <2>2, <2>3, FS_Subset
<1>5. \A i, j \in I : rank[i] = rank[j] => i = j
  BY <1>4
<1>6. rank \in Injection(I, 1..N)
  <2> HIDE DEF Up
  <2>1. rank \in [I -> 1..N]
    BY <1>2, <1>3
  <2> QED
    BY <2>1, <1>5 DEF Injection, IsInjective
<1>7. rank \in Surjection(I, 1..N)
  BY <1>2, <1>6, FS_Injection
<1>8. PICK i \in I : rank[i] = n
  BY <1>7 DEF Surjection
<1> QED
  BY <1>8 DEF Nth

-----------------------------------------------------------------------------
(* The invariant                                                           *)

CaseSet == [route : Routes, preserved : BOOLEAN]
Cases == Seq(CaseSet)
Versions == [num : Nat, fact : {"pending", "ready"}, cases : Cases]
Distinct(cases) ==
    \A i, j \in DOMAIN cases : cases[i].route = cases[j].route => i = j

\* Versions are numbered by their place, and a program has a route once.
VersInv ==
    /\ vers \in Seq(Versions) /\ vers # <<>>
    /\ \A v \in DOMAIN vers : vers[v].num = v /\ Distinct(vers[v].cases)

\* Rows have a unique section and key.
Table(S) ==
    /\ \A x \in S : /\ x.sec \in {"routes", "route_pins", "route_stops"}
                    /\ x.vote \in {1, -1}
    /\ \A x, y \in S : x.sec = y.sec /\ x.key = y.key => x = y
RowsInv == Table(fb)

\* A request at work knows the place of its route in the program it read.
AtWork(r) ==
    /\ r = [pc |-> r.pc, sec |-> r.sec, key |-> r.key, vote |-> r.vote, idx |-> r.idx,
            ver |-> r.ver, program |-> r.program]
    /\ r.pc \in {"displace", "store", "erase", "unmark"}
    /\ r.sec \in {"routes", "route_pins", "route_stops"}
    /\ r.pc \in {"displace", "store"} => r.vote \in {1, -1}
    /\ r.ver \in Nat
    /\ r.program \in Versions /\ Distinct(r.program.cases)
    /\ r.sec # "route_stops" => r.idx \in DOMAIN r.program.cases
    /\ r.pc = "unmark" => r.sec = "route_pins"

ReqInv ==
    /\ DOMAIN req = Reqs
    /\ \A q \in Reqs : req[q] = IdleReq \/ AtWork(req[q])

\* The routes a rebuild keeps: from the snapshot on, then in its program.
Resolving(w) ==
    /\ w.pc = "resolve"
    /\ w.base \in Cases /\ Distinct(w.base)
    /\ w.liked \in Cases /\ Distinct(w.liked)
    /\ \A i \in DOMAIN w.liked : w.liked[i].preserved
Saving(w) ==
    /\ w.pc \in {"prune", "delete", "insert", "sync"}
    /\ w.cases \in Cases /\ Distinct(w.cases)
    /\ TextsOf(w.liked) \subseteq KeptIn(w.cases)
    /\ w.pc = "insert" => w.num \in 1..(Len(vers) + 1)

BuildInv ==
    /\ DOMAIN bld = Builders
    /\ \A b \in Builders : bld[b].pc = "idle" \/ Resolving(bld[b]) \/ Saving(bld[b])

FactInv ==
    \/ fact = [pc |-> "none"]
    \/ /\ fact.pc = "write"
       /\ fact.cases \in Cases /\ Distinct(fact.cases)

\* Every rebuild that has not saved yet has room for its version.
Unsaved == {b \in Builders : bld[b].pc \in {"resolve", "prune", "delete", "insert"}}
RoomInv == Len(vers) + Cardinality(Unsaved) <= MaxVersions

\* The likes, with those that requests are about to write.
Liking(r) == r.pc \in {"displace", "store"} /\ r.sec = "route_stops" /\ r.vote = 1
Coming == {req[q].key : q \in {r \in Reqs : Liking(req[r])}}
LikesInv ==
    /\ IsFiniteSet(Liked(fb) \union Coming)
    /\ Cardinality(Liked(fb) \union Coming)
         <= MaxLikes + (IF mixed THEN Cardinality(Reqs) - 1 ELSE 0)

\* Until something overlaps, what runs is alone.
AloneInv ==
    ~mixed =>
      /\ \A q, r \in Reqs : req[q].pc # "idle" /\ req[r].pc # "idle" => q = r
      /\ \A a, b \in Builders : bld[a].pc # "idle" /\ bld[b].pc # "idle" => a = b
      /\ \A q \in Reqs, b \in Builders : req[q].pc = "idle" \/ bld[b].pc = "idle"
      /\ fact.pc # "none" => \A q \in Reqs : req[q].pc = "idle"
      /\ fact.pc # "none" => \A b \in Builders : bld[b].pc = "idle"

\* What an undisturbed rebuild is about to delete is no ban.
BansInv ==
    ~mixed => \A b \in Builders, x \in fb :
        bld[b].pc = "delete" /\ x.sec = "route_stops" /\ <<x.sec, x.key>> \in bld[b].stale
            => x.vote # -1

IInv ==
    /\ VersInv /\ RowsInv /\ ReqInv /\ BuildInv /\ FactInv
    /\ mixed \in BOOLEAN /\ RoomInv
    /\ LikesInv /\ AloneInv /\ BansInv

-----------------------------------------------------------------------------
(* The operators                                                           *)

LEMMA Constants ==
    /\ First \in Seq(Routes) /\ Letters \in Seq(STRING) /\ NewLetters \in Seq(STRING)
    /\ Different(First) /\ Different(Letters) /\ Different(NewLetters)
    /\ Migrated \notin Routes
    /\ IsFiniteSet(Builders) /\ IsFiniteSet(Reqs) /\ Cardinality(Reqs) \in Nat \ {0}
    /\ MaxPins \in Nat /\ MaxLikes \in Nat /\ MaxVersions \in Nat \ {0} /\ MaxVotes \in Nat
<1>1. Cardinality(Reqs) \in Nat \ {0}
  BY TripDataAssumption, FS_CardinalityType, FS_EmptySet DEF TripDataAssumption
<1> QED
  BY <1>1, TripDataAssumption DEF TripDataAssumption

LEMMA CasesAre ==
    ASSUME NEW s \in Cases
    PROVE  /\ Len(s) \in Nat /\ DOMAIN s = 1..Len(s)
           /\ \A i \in DOMAIN s : s[i] \in CaseSet /\ s[i].route \in Routes
<1>1. /\ Len(s) \in Nat /\ DOMAIN s = 1..Len(s)
      /\ \A i \in DOMAIN s : s[i] \in CaseSet
  BY DEF Cases
<1> QED
  BY <1>1 DEF CaseSet

LEMMA MakesCases ==
    ASSUME NEW m \in Nat, NEW s \in [1..m -> CaseSet]
    PROVE  s \in Cases /\ Len(s) = m /\ DOMAIN s = 1..m
BY DEF Cases

LEMMA NoCases == <<>> \in Cases /\ Distinct(<<>>) /\ DOMAIN <<>> = {}
<1>1. <<>> \in Seq(CaseSet) /\ DOMAIN <<>> = {}
  OBVIOUS
<1> QED
  BY <1>1 DEF Cases, Distinct

\* Two programs without a common route, one behind the other.
LEMMA ConcatCases ==
    ASSUME NEW s \in Cases, NEW t \in Cases, Distinct(s), Distinct(t),
           \A i \in DOMAIN s, j \in DOMAIN t : s[i].route # t[j].route
    PROVE  /\ s \o t \in Cases /\ Distinct(s \o t)
           /\ \A i \in DOMAIN s : i \in DOMAIN (s \o t) /\ (s \o t)[i] = s[i]
           /\ \A i \in DOMAIN (s \o t) : \/ i \in DOMAIN s /\ (s \o t)[i] = s[i]
                                        \/ \E j \in DOMAIN t : (s \o t)[i] = t[j]
<1>1. PICK st : st = s \o t
  OBVIOUS
<1>2. st \in Cases /\ Len(st) = Len(s) + Len(t)
  BY <1>1 DEF Cases
<1>3. \A i \in 1..Len(st) : st[i] = IF i <= Len(s) THEN s[i] ELSE t[i - Len(s)]
  BY <1>1 DEF Cases
<1>4. /\ Len(s) \in Nat /\ DOMAIN s = 1..Len(s) /\ Len(t) \in Nat /\ DOMAIN t = 1..Len(t)
      /\ DOMAIN st = 1..Len(st)
  BY <1>2, CasesAre
<1>5. \A i \in DOMAIN st : \/ i \in DOMAIN s /\ st[i] = s[i]
                           \/ i - Len(s) \in DOMAIN t /\ st[i] = t[i - Len(s)]
  BY <1>2, <1>3, <1>4
<1>6. \A i \in DOMAIN s : i \in DOMAIN st /\ st[i] = s[i]
  BY <1>2, <1>3, <1>4
<1>7. Distinct(st)
  <2> SUFFICES ASSUME NEW i \in DOMAIN st, NEW j \in DOMAIN st, st[i].route = st[j].route
               PROVE  i = j
    BY DEF Distinct
  <2>1. i \in Int /\ j \in Int
    BY <1>4
  <2> QED
    BY <1>4, <1>5, <2>1 DEF Distinct
<1> QED
  BY <1>1, <1>2, <1>5, <1>6, <1>7

LEMMA LatestIs ==
    ASSUME VersInv
    PROVE  /\ LatestId = Len(vers) /\ LatestId \in DOMAIN vers
           /\ Latest = vers[Len(vers)] /\ Latest.num = Len(vers)
           /\ Latest \in Versions /\ Distinct(Latest.cases)
<1>1. Len(vers) \in DOMAIN vers /\ \A v \in DOMAIN vers : v <= Len(vers)
  BY DEF VersInv
<1>2. \A v \in DOMAIN vers : vers[v].num = v
  BY DEF VersInv
<1>3. LatestId = Len(vers)
  <2>1. \A u \in DOMAIN vers : vers[u].num <= vers[Len(vers)].num
    BY <1>1, <1>2
  <2>2. ASSUME NEW w \in DOMAIN vers, \A u \in DOMAIN vers : vers[u].num <= vers[w].num
        PROVE  w = Len(vers)
    <3>1. Len(vers) <= w /\ w <= Len(vers)
      BY <1>1, <1>2, <2>2
    <3> QED
      BY <3>1, <1>1 DEF VersInv
  <2> QED
    BY <1>1, <2>1, <2>2 DEF LatestId
<1> QED
  BY <1>1, <1>2, <1>3 DEF VersInv, Latest

LEMMA MigrateKeeps ==
    ASSUME NEW S, Table(S), NEW cases \in Cases
    PROVE  /\ Table(Migrate(S, cases))
           /\ Section(Migrate(S, cases), "route_stops") = Section(S, "route_stops")
<1> DEFINE liked == {r \in TextsOf(cases) : Vote(S, "routes", r) = {1}}
           pins == {Row("route_pins", r, IndexOf(RouteSeq(cases), r), 1) : r \in liked}
           kept == {x \in S : ~(x.sec = "route_pins" /\ x.key \in liked)}
           mark == Row("route_pins", Migrated, -1, 1)
<1>1. CASE Vote(S, "route_pins", Migrated) # {}
  BY <1>1 DEF Migrate
<1>2. CASE Vote(S, "route_pins", Migrated) = {}
  <2>1. Migrate(S, cases) = kept \union pins \union {mark}
    BY <1>2 DEF Migrate
  <2>2. \A x \in pins : /\ x.sec = "route_pins" /\ x.vote = 1 /\ x.key \in liked
                        /\ x = Row("route_pins", x.key, IndexOf(RouteSeq(cases), x.key), 1)
    BY DEF Row
  <2>3. mark.sec = "route_pins" /\ mark.vote = 1 /\ mark.key = Migrated
    BY DEF Row
  <2>4. \A x \in S : ~(x.sec = "route_pins" /\ x.key = Migrated)
    BY <1>2 DEF Vote
  <2>5. Migrated \notin liked
    BY Constants, CasesAre DEF TextsOf
  <2> HIDE DEF liked, pins, mark
  <2>6. Table(kept \union pins \union {mark})
    BY <2>2, <2>3, <2>4, <2>5 DEF Table
  <2>7. Section(kept \union pins \union {mark}, "route_stops") = Section(S, "route_stops")
    BY <2>2, <2>3 DEF Section
  <2> QED
    BY <2>1, <2>6, <2>7
<1> QED
  BY <1>1, <1>2

\* The places of some elements, in order, make a sequence of elements that differ if
\* those of the whole do.
LEMMA PreservedKeeps ==
    ASSUME NEW cases \in Cases, Distinct(cases), NEW rows
    PROVE  /\ Preserved(cases, rows) \in Cases /\ Distinct(Preserved(cases, rows))
           /\ \A i \in DOMAIN Preserved(cases, rows) : Preserved(cases, rows)[i].preserved
<1> DEFINE kept == {i \in DOMAIN cases : cases[i].preserved \/ cases[i].route \in Pins(rows)}
           C == Cardinality(kept)
           m == IF C <= MaxPins THEN C ELSE MaxPins
<1>1. kept \in SUBSET (1..Len(cases)) /\ Len(cases) \in Nat
  BY DEF Cases
<1>2. C \in Nat
  <2> HIDE DEF kept
  <2>1. IsFiniteSet(1..Len(cases))
    BY <1>1, FS_Interval
  <2> QED
    BY <1>1, <2>1, FS_Subset, FS_CardinalityType
<1>3. \A n \in 1..C : /\ Nth(kept, n) \in kept
                      /\ Cardinality({j \in kept : j <= Nth(kept, n)}) = n
  <2> HIDE DEF kept
  <2> QED
    BY <1>1, NthIn
<1>4. Preserved(cases, rows) = [n \in {k \in 1..C : k <= MaxPins} |->
                                   [route |-> cases[Nth(kept, n)].route, preserved |-> TRUE]]
  BY DEF Preserved, Case
<1>5. {k \in 1..C : k <= MaxPins} = 1..m /\ m \in Nat /\ 1..m \subseteq 1..C
  <2> HIDE DEF C
  <2> QED
    BY <1>2, Constants
<1>6. kept \subseteq DOMAIN cases
  OBVIOUS
<1> HIDE DEF kept, C, m
<1>7. ASSUME NEW n \in 1..m
      PROVE  cases[Nth(kept, n)].route \in Routes
  <2>1. Nth(kept, n) \in DOMAIN cases
    BY <1>3, <1>5, <1>6
  <2> QED
    BY <2>1, CasesAre
<1>8. \A n, l \in 1..m : Nth(kept, n) = Nth(kept, l) => n = l
  BY <1>3, <1>5
<1>9. \A n, l \in 1..m : cases[Nth(kept, n)].route = cases[Nth(kept, l)].route => n = l
  <2>1. \A n \in 1..m : Nth(kept, n) \in DOMAIN cases
    BY <1>3, <1>5, <1>6
  <2> QED
    BY <1>8, <2>1 DEF Distinct
<1>10. PICK p : p = Preserved(cases, rows)
  OBVIOUS
<1>11. /\ DOMAIN p = 1..m
       /\ \A n \in 1..m : p[n] = [route |-> cases[Nth(kept, n)].route, preserved |-> TRUE]
  BY <1>4, <1>5, <1>10
<1>12. p \in Cases
  <2>1. p = [n \in 1..m |-> [route |-> cases[Nth(kept, n)].route, preserved |-> TRUE]]
    BY <1>4, <1>5, <1>10
  <2>2. p \in [1..m -> CaseSet]
    BY <1>7, <2>1 DEF CaseSet
  <2> QED
    BY <1>5, <2>2, MakesCases
<1> QED
  BY <1>9, <1>10, <1>11, <1>12 DEF Distinct

\* What Resolve saves: the routes of the snapshot, the late pins, and new routes.
LEMMA ResolveEffect ==
    ASSUME NEW b \in Builders, Resolving(bld[b]), BuildInv, Resolve(b)
    PROVE  \E cs \in Cases :
             /\ Distinct(cs) /\ TextsOf(bld[b].liked) \subseteq KeptIn(cs)
             /\ bld' = [bld EXCEPT ![b] = [pc |-> "prune", liked |-> bld[b].liked, cases |-> cs]]
<1> DEFINE w == bld[b]
           ids == {CaseId[r] : r \in TextsOf(w.liked)}
           now == IF w.scope = "routes" THEN Preserved(w.base, fb) ELSE <<>>
           late == {i \in DOMAIN now : /\ CaseId[now[i].route] \notin ids
                                       /\ \A j \in 1..(i - 1) : CaseId[now[j].route] # CaseId[now[i].route]}
           C == Cardinality(late)
           tail == [n \in 1..C |-> now[Nth(late, n)]]
           kept == w.liked \o tail
           letters == IF kept = <<>> THEN Letters ELSE NewLetters
<1>1. PICK new \in [DOMAIN letters -> Routes] :
        /\ \A i \in DOMAIN new : CaseId[new[i]] = letters[i] /\ new[i] \notin TextsOf(kept)
        /\ bld' = [bld EXCEPT ![b] = [pc |-> "prune", liked |-> w.liked,
                     cases |-> kept \o [i \in DOMAIN new |-> Case(new[i], FALSE)]]]
  BY DEF Resolve
<1>2. now \in Cases /\ Distinct(now) /\ \A i \in DOMAIN now : now[i].preserved
  <2>1. CASE w.scope = "routes"
    BY <2>1, PreservedKeeps DEF Resolving
  <2>2. CASE w.scope # "routes"
    BY <2>2, NoCases
  <2> QED
    BY <2>1, <2>2
<1>3. /\ w.liked \in Cases /\ Distinct(w.liked)
      /\ \A i \in DOMAIN w.liked : w.liked[i].preserved
  BY DEF Resolving
<1> HIDE DEF w, now
<1>4. late \in SUBSET (1..Len(now)) /\ Len(now) \in Nat /\ late \subseteq DOMAIN now
  BY <1>2 DEF Cases
<1>5. C \in Nat
  <2> HIDE DEF late
  <2>1. IsFiniteSet(1..Len(now))
    BY <1>4, FS_Interval
  <2> QED
    BY <1>4, <2>1, FS_Subset, FS_CardinalityType
<1>6. \A n \in 1..C : /\ Nth(late, n) \in late
                      /\ Cardinality({j \in late : j <= Nth(late, n)}) = n
  <2> HIDE DEF late
  <2> QED
    BY <1>4, NthIn
<1>7. \A i, j \in late : CaseId[now[i].route] = CaseId[now[j].route] => i = j
  <2>1. ASSUME NEW i \in late, NEW j \in late, i < j
        PROVE  CaseId[now[i].route] # CaseId[now[j].route]
    <3>1. i \in 1..(j - 1)
      BY <1>4, <2>1
    <3> QED
      BY <3>1
  <2> HIDE DEF late
  <2> QED
    BY <1>4, <2>1
<1>8. \A i \in late : CaseId[now[i].route] \notin ids
  OBVIOUS
<1> HIDE DEF late, C
<1>9. /\ tail \in Cases /\ Distinct(tail)
      /\ \A i \in DOMAIN tail : tail[i].preserved /\ CaseId[tail[i].route] \notin ids
  <2>1. \A n \in 1..C : Nth(late, n) \in late /\ Nth(late, n) \in DOMAIN now
    BY <1>4, <1>6
  <2>2. tail \in Cases /\ DOMAIN tail = 1..C
    <3>1. tail \in [1..C -> CaseSet]
      BY <1>2, <2>1, CasesAre
    <3> QED
      BY <1>5, <3>1, MakesCases
  <2>3. \A n, l \in 1..C : tail[n].route = tail[l].route => n = l
    <3> SUFFICES ASSUME NEW n \in 1..C, NEW l \in 1..C, tail[n].route = tail[l].route
                 PROVE  n = l
      OBVIOUS
    <3>1. Nth(late, n) = Nth(late, l)
      BY <1>7, <2>1
    <3> QED
      BY <1>6, <3>1
  <2> QED
    BY <1>2, <1>8, <2>1, <2>2, <2>3 DEF Distinct
<1> HIDE DEF tail, ids
<1>10. \A i \in DOMAIN w.liked, n \in DOMAIN tail : w.liked[i].route # tail[n].route
  <2>1. \A i \in DOMAIN w.liked : CaseId[w.liked[i].route] \in ids
    BY DEF ids, TextsOf
  <2> QED
    BY <1>9, <2>1
<1>11. /\ kept \in Cases /\ Distinct(kept)
       /\ \A i \in DOMAIN kept : kept[i].preserved
       /\ TextsOf(w.liked) \subseteq TextsOf(kept)
  <2>1. /\ kept \in Cases /\ Distinct(kept)
        /\ \A i \in DOMAIN w.liked : i \in DOMAIN kept /\ kept[i] = w.liked[i]
        /\ \A i \in DOMAIN kept : \/ i \in DOMAIN w.liked /\ kept[i] = w.liked[i]
                                 \/ \E j \in DOMAIN tail : kept[i] = tail[j]
    BY <1>3, <1>9, <1>10, ConcatCases
  <2> HIDE DEF kept
  <2> QED
    BY <1>3, <1>9, <2>1 DEF TextsOf
<1> HIDE DEF kept
<1>12. /\ letters \in Seq(STRING) /\ Different(letters)
       /\ Len(letters) \in Nat /\ DOMAIN letters = 1..Len(letters)
  BY Constants
<1> HIDE DEF letters
<1> DEFINE fresh == [i \in DOMAIN new |-> Case(new[i], FALSE)]
           cs == kept \o fresh
<1>13. /\ fresh \in Cases /\ Len(fresh) = Len(letters)
       /\ \A i \in DOMAIN fresh : i \in DOMAIN new /\ fresh[i].route = new[i]
  <2>1. fresh \in [1..Len(letters) -> CaseSet]
    BY <1>1, <1>12 DEF Case, CaseSet
  <2>2. fresh \in Cases /\ Len(fresh) = Len(letters)
    BY <1>12, <2>1, MakesCases
  <2> QED
    BY <1>12, <2>2 DEF Case
<1>14. \A i, j \in DOMAIN new : new[i] = new[j] => i = j
  BY <1>1, <1>12 DEF Different
<1>15. \A i \in DOMAIN kept, n \in DOMAIN fresh : kept[i].route # fresh[n].route
  BY <1>1, <1>13 DEF TextsOf
<1> HIDE DEF fresh
<1>16. cs \in Cases /\ Distinct(cs) /\ TextsOf(w.liked) \subseteq KeptIn(cs)
  <2>1. /\ cs \in Cases /\ Distinct(cs)
        /\ \A i \in DOMAIN kept : i \in DOMAIN cs /\ cs[i] = kept[i]
    BY <1>11, <1>13, <1>14, <1>15, ConcatCases DEF Distinct
  <2> HIDE DEF cs
  <2>2. TextsOf(kept) \subseteq KeptIn(cs)
    BY <1>11, <2>1 DEF TextsOf, KeptIn
  <2> QED
    BY <1>11, <2>1, <2>2
<1> QED
  BY <1>1, <1>16 DEF fresh, cs, w

-----------------------------------------------------------------------------
(* The steps                                                               *)

LEMMA InitInv == Init => IInv
<1> SUFFICES ASSUME Init PROVE IInv
  OBVIOUS
<1> USE Constants
<1> DEFINE cs == [i \in DOMAIN First |-> Case(First[i], FALSE)]
<1>1. cs \in Cases /\ Distinct(cs)
  <2>1. cs \in [1..Len(First) -> CaseSet] /\ Len(First) \in Nat /\ DOMAIN First = 1..Len(First)
    BY DEF Case, CaseSet
  <2>2. cs \in Cases
    BY <2>1, MakesCases
  <2>3. Distinct(cs)
    BY DEF Case, Distinct, Different
  <2> QED
    BY <2>2, <2>3
<1>2. vers = <<[num |-> 1, fact |-> "pending", cases |-> cs]>>
  BY DEF Init
<1> HIDE DEF cs
<1>3. VersInv
  <2>1. [num |-> 1, fact |-> "pending", cases |-> cs] \in Versions
    BY <1>1 DEF Versions
  <2>2. vers \in Seq(Versions) /\ vers # <<>> /\ DOMAIN vers = {1}
    BY <1>2, <2>1
  <2> QED
    BY <1>1, <1>2, <2>2 DEF VersInv
<1>4. PICK legacy : fb = {Row("routes", r, IndexOf(First, r), 1) : r \in legacy}
  BY DEF Init
<1>5. \A x \in fb : x.sec = "routes" /\ x.vote = 1 /\ x = Row("routes", x.key, IndexOf(First, x.key), 1)
  BY <1>4 DEF Row
<1>6. RowsInv
  BY <1>5 DEF RowsInv, Table
<1>7. /\ req = [q \in Reqs |-> IdleReq] /\ bld = [b \in Builders |-> IdleBuild]
      /\ fact = [pc |-> "none"] /\ mixed = FALSE
  BY DEF Init
<1>8. /\ \A q \in Reqs : req[q] = IdleReq /\ req[q].pc = "idle"
      /\ \A b \in Builders : bld[b].pc = "idle"
  BY <1>7 DEF IdleReq, IdleBuild
<1>9. ReqInv /\ BuildInv /\ FactInv /\ mixed \in BOOLEAN /\ AloneInv /\ BansInv
  BY <1>7, <1>8 DEF ReqInv, BuildInv, FactInv, AloneInv, BansInv
<1>10. RoomInv
  <2>1. Unsaved = {}
    BY <1>8 DEF Unsaved
  <2>2. Len(vers) = 1
    BY <1>2
  <2> QED
    BY <2>1, <2>2, FS_EmptySet DEF RoomInv
<1>11. LikesInv
  <2>1. Liked(fb) = {}
    BY <1>5 DEF Liked, Section
  <2>2. Coming = {}
    BY <1>8 DEF Coming, Liking
  <2>3. Liked(fb) \union Coming = {}
    BY <2>1, <2>2
  <2> QED
    <3>1. IsFiniteSet({}) /\ Cardinality({}) = 0
      BY FS_EmptySet
    <3>2. IsFiniteSet(Liked(fb) \union Coming) /\ Cardinality(Liked(fb) \union Coming) = 0
      BY <2>3, <3>1
    <3>3. 0 <= MaxLikes + (IF mixed THEN Cardinality(Reqs) - 1 ELSE 0)
      BY <1>7
    <3> QED
      BY <3>2, <3>3 DEF LikesInv
<1> QED
  BY <1>3, <1>6, <1>9, <1>10, <1>11 DEF IInv

\* Which rows of itinerary_versions a step writes.
LEMMA VersKept ==
    ASSUME Next, vers' # vers
    PROVE  \/ \E q \in Reqs : Unmark(q)
           \/ \E b \in Builders : InsertVersion(b)
           \/ FactWrite
<1>1. ASSUME NEW q \in Reqs, NEW k, BeginVote(q, k[1], k[2], k[3]) PROVE vers' = vers
  BY <1>1 DEF BeginVote
<1>2. ASSUME NEW q \in Reqs, Displace(q) \/ Store(q) \/ Erase(q) PROVE vers' = vers
  BY <1>2 DEF Displace, Store, Erase
<1>3. ASSUME NEW b \in Builders, NEW scope, BeginBuild(b, scope) PROVE vers' = vers
  BY <1>3 DEF BeginBuild
<1>4. ASSUME NEW b \in Builders, Resolve(b) \/ PruneRead(b) \/ PruneDelete(b) \/ SyncPins(b)
      PROVE  vers' = vers
  BY <1>4 DEF Resolve, PruneRead, PruneDelete, SyncPins
<1>5. ASSUME FactRead \/ Crash PROVE vers' = vers
  BY <1>5 DEF FactRead, Crash
<1> QED
  BY <1>1, <1>2, <1>3, <1>4, <1>5 DEF Next

\* A patch writes cases that differ into a version and leaves its number; a fact
\* that is there stays.
Patch ==
    /\ DOMAIN vers' = DOMAIN vers
    /\ vers' = [v \in DOMAIN vers |-> vers'[v]]
    /\ \A v \in DOMAIN vers :
         /\ vers'[v] \in Versions /\ vers'[v].num = vers[v].num
         /\ Distinct(vers'[v].cases)
         /\ vers[v].fact = "ready" => vers'[v].fact = "ready"

LEMMA UnmarkPatches ==
    ASSUME IInv, NEW q \in Reqs, Unmark(q)
    PROVE  Patch
<1> DEFINE c == req[q].program.cases
           i == req[q].idx
           d == [c EXCEPT ![i].preserved = FALSE]
           ver == req[q].ver
<1>1. /\ c \in Cases /\ Distinct(c) /\ i \in DOMAIN c
  <2>1. AtWork(req[q]) /\ req[q].pc = "unmark"
    BY DEF IInv, ReqInv, Unmark, IdleReq
  <2> QED
    BY <2>1 DEF AtWork, Versions
<1>2. vers' = vers \/ vers' = [vers EXCEPT ![ver].cases = d]
  BY DEF Unmark
<1>3. d \in Cases /\ Distinct(d)
  <2>1. Len(c) \in Nat /\ DOMAIN c = 1..Len(c) /\ \A j \in DOMAIN c : c[j] \in CaseSet
    BY <1>1, CasesAre
  <2> HIDE DEF c, i
  <2>2. DOMAIN d = DOMAIN c
    OBVIOUS
  <2>3. \A j \in DOMAIN c : d[j] = IF j = i THEN [c[j] EXCEPT !.preserved = FALSE] ELSE c[j]
    BY <1>1
  <2>4. \A j \in DOMAIN c : d[j] \in CaseSet /\ d[j].route = c[j].route
    BY <2>1, <2>3 DEF CaseSet
  <2>5. d = [j \in 1..Len(c) |-> d[j]]
    BY <2>1, <2>2
  <2> HIDE DEF d
  <2>6. d \in [1..Len(c) -> CaseSet]
    BY <2>1, <2>4, <2>5
  <2>7. d \in Cases
    BY <2>1, <2>6, MakesCases
  <2> QED
    BY <1>1, <2>2, <2>4, <2>7 DEF Distinct
<1> HIDE DEF d, ver
<1>4. /\ vers \in Seq(Versions) /\ \A v \in DOMAIN vers : Distinct(vers[v].cases)
  BY DEF IInv, VersInv
<1>5. CASE vers' = vers
  BY <1>4, <1>5 DEF Patch
<1>6. CASE vers' = [vers EXCEPT ![ver].cases = d]
  <2>1. \A v \in DOMAIN vers : vers[v] \in Versions
    BY <1>4
  <2>2. /\ DOMAIN vers' = DOMAIN vers
        /\ vers' = [v \in DOMAIN vers |-> vers'[v]]
        /\ \A v \in DOMAIN vers :
             vers'[v] = IF v = ver THEN [vers[v] EXCEPT !.cases = d] ELSE vers[v]
    BY <1>6
  <2>3. ASSUME NEW v \in DOMAIN vers
        PROVE  /\ vers'[v] \in Versions /\ vers'[v].num = vers[v].num
               /\ vers'[v].fact = vers[v].fact
               /\ vers'[v].cases \in {d, vers[v].cases}
    BY <1>3, <2>1, <2>2 DEF Versions
  <2> QED
    BY <1>3, <1>4, <2>2, <2>3 DEF Patch
<1> QED
  BY <1>2, <1>5, <1>6

LEMMA FactWritePatches ==
    ASSUME IInv, FactWrite
    PROVE  Patch
<1>1. /\ fact.cases \in Cases /\ Distinct(fact.cases)
      /\ vers' = [vers EXCEPT ![fact.ver].cases = fact.cases, ![fact.ver].fact = "ready"]
  BY DEF IInv, FactInv, FactWrite
<1>2. PICK ver, d : ver = fact.ver /\ d = fact.cases
  OBVIOUS
<1>3. PICK mid : mid = [vers EXCEPT ![ver].cases = d]
  OBVIOUS
<1>4. vers' = [mid EXCEPT ![ver].fact = "ready"]
  BY <1>1, <1>2, <1>3
<1>5. /\ \A v \in DOMAIN vers : vers[v] \in Versions
      /\ \A v \in DOMAIN vers : Distinct(vers[v].cases)
  BY DEF IInv, VersInv
<1>6. /\ DOMAIN mid = DOMAIN vers
      /\ \A v \in DOMAIN vers : mid[v] = IF v = ver THEN [vers[v] EXCEPT !.cases = d] ELSE vers[v]
  BY <1>3
<1>7. /\ DOMAIN vers' = DOMAIN vers
      /\ vers' = [v \in DOMAIN vers |-> vers'[v]]
      /\ \A v \in DOMAIN vers :
           vers'[v] = IF v = ver THEN [mid[v] EXCEPT !.fact = "ready"] ELSE mid[v]
  BY <1>4, <1>6
<1>8. ASSUME NEW v \in DOMAIN vers
      PROVE  /\ vers'[v] \in Versions /\ vers'[v].num = vers[v].num
             /\ vers'[v].fact \in {"ready", vers[v].fact}
             /\ vers'[v].cases \in {d, vers[v].cases}
  <2>1. mid[v] \in Versions /\ mid[v].num = vers[v].num /\ mid[v].fact = vers[v].fact
        /\ mid[v].cases \in {d, vers[v].cases}
    BY <1>1, <1>2, <1>5, <1>6 DEF Versions
  <2> QED
    BY <1>7, <2>1 DEF Versions
<1> QED
  BY <1>1, <1>2, <1>5, <1>7, <1>8 DEF Patch

\* The next row has the next number; who lost the race saves nothing.
LEMMA InsertEffect ==
    ASSUME IInv, NEW b \in Builders, InsertVersion(b)
    PROVE  /\ bld[b].pc = "insert" /\ Saving(bld[b])
           /\ \/ vers' = vers /\ bld' = [bld EXCEPT ![b] = IdleBuild]
              \/ /\ vers' = Append(vers, [num |-> Len(vers) + 1, fact |-> "pending",
                                          cases |-> bld[b].cases])
                 /\ bld' = [bld EXCEPT ![b] = [pc |-> "sync", liked |-> bld[b].liked,
                                               cases |-> bld[b].cases]]
<1>1. bld[b].pc = "insert" /\ Saving(bld[b])
  BY DEF IInv, BuildInv, InsertVersion, Resolving
<1>2. bld[b].num \in 1..(Len(vers) + 1)
  BY <1>1 DEF Saving
<1>3. Len(vers) \in Nat /\ DOMAIN vers = 1..Len(vers) /\ \A v \in DOMAIN vers : vers[v].num = v
  BY DEF IInv, VersInv
<1>4. (\E v \in DOMAIN vers : vers[v].num = bld[b].num) \/ bld[b].num = Len(vers) + 1
  BY <1>2, <1>3
<1> QED
  BY <1>1, <1>4 DEF InsertVersion

LEMMA VersNext ==
    ASSUME IInv, [Next]_vars
    PROVE  VersInv'
<1>1. vers \in Seq(Versions) /\ vers # <<>>
      /\ \A v \in DOMAIN vers : vers[v].num = v /\ Distinct(vers[v].cases)
  BY DEF IInv, VersInv
<1>2. CASE vers' = vers
  BY <1>1, <1>2 DEF VersInv
<1>3. CASE Patch
  <2>1. Len(vers) \in Nat /\ DOMAIN vers = 1..Len(vers) /\ DOMAIN vers # {}
    BY <1>1
  <2>2. vers' = [v \in 1..Len(vers) |-> vers'[v]]
    BY <1>3, <2>1 DEF Patch
  <2>3. \A v \in 1..Len(vers) : vers'[v] \in Versions
    BY <1>3, <2>1 DEF Patch
  <2>4. vers' \in Seq(Versions) /\ DOMAIN vers' # {}
    BY <2>1, <2>2, <2>3
  <2>5. vers' # <<>>
    BY <2>4
  <2> QED
    BY <1>1, <1>3, <2>4, <2>5 DEF VersInv, Patch
<1>4. ASSUME NEW b \in Builders, InsertVersion(b), vers' # vers
      PROVE  VersInv'
  <2>1. PICK new : new = [num |-> Len(vers) + 1, fact |-> "pending", cases |-> bld[b].cases]
    OBVIOUS
  <2>2. vers' = Append(vers, new)
    BY <1>4, <2>1, InsertEffect
  <2>3. bld[b].cases \in Cases /\ Distinct(bld[b].cases)
    BY <1>4, InsertEffect DEF Saving
  <2>4. new \in Versions /\ new.num = Len(vers) + 1 /\ Distinct(new.cases)
    BY <1>1, <2>1, <2>3 DEF Versions
  <2>5. /\ vers' \in Seq(Versions) /\ vers' # <<>> /\ Len(vers') = Len(vers) + 1
        /\ vers'[Len(vers) + 1] = new
        /\ \A v \in DOMAIN vers : vers'[v] = vers[v]
        /\ DOMAIN vers = 1..Len(vers) /\ DOMAIN vers' = 1..(Len(vers) + 1)
    BY <1>1, <2>2, <2>4
  <2>6. \A v \in DOMAIN vers' : v \in DOMAIN vers \/ v = Len(vers) + 1
    BY <1>1, <2>5
  <2> QED
    BY <1>1, <2>4, <2>5, <2>6 DEF VersInv
<1>5. CASE vers' # vers
  <2>1. Next
    BY <1>5 DEF vars
  <2>2. \/ \E q \in Reqs : Unmark(q)
        \/ \E b \in Builders : InsertVersion(b)
        \/ FactWrite
    BY <1>5, <2>1, VersKept
  <2> QED
    BY <1>3, <1>4, <1>5, <2>2, UnmarkPatches, FactWritePatches
<1> QED
  BY <1>2, <1>5

LEMMA VersGrow ==
    ASSUME IInv, [Next]_vars
    PROVE  Len(vers) \in Nat /\ Len(vers') \in Nat /\ Len(vers) <= Len(vers')
<1>1. vers \in Seq(Versions) /\ vers' \in Seq(Versions)
  BY VersNext DEF IInv, VersInv
<1>2. CASE vers' = vers
  BY <1>1, <1>2
<1>3. CASE Patch
  BY <1>1, <1>3 DEF Patch
<1>4. ASSUME NEW b \in Builders, InsertVersion(b), vers' # vers
      PROVE  Len(vers') = Len(vers) + 1
  <2>1. PICK new : vers' = Append(vers, new)
    BY <1>4, InsertEffect
  <2> QED
    BY <1>1, <2>1
<1>5. CASE vers' # vers
  <2>1. Next
    BY <1>5 DEF vars
  <2> QED
    BY <1>1, <1>3, <1>4, <1>5, <2>1, VersKept, UnmarkPatches, FactWritePatches
<1> QED
  BY <1>2, <1>5

\* What a step does to the rows of the feedback.
LEMMA RowMoves ==
    ASSUME Next
    PROVE  \/ fb' \subseteq fb
           \/ fb' = Migrate(fb, Latest.cases)
           \/ \E q \in Reqs : Store(q)
           \/ \E b \in Builders : SyncPins(b)
<1>1. ASSUME NEW q \in Reqs, NEW k, BeginVote(q, k[1], k[2], k[3])
      PROVE  fb' = fb \/ fb' = Migrate(fb, Latest.cases)
  BY <1>1 DEF BeginVote
<1>2. ASSUME NEW q \in Reqs, Displace(q) \/ Erase(q) \/ Unmark(q) PROVE fb' \subseteq fb
  BY <1>2 DEF Displace, Erase, Unmark
<1>3. ASSUME NEW b \in Builders, NEW scope, BeginBuild(b, scope)
      PROVE  fb' = Migrate(fb, Latest.cases)
  BY <1>3 DEF BeginBuild
<1>4. ASSUME NEW b \in Builders, Resolve(b) \/ PruneRead(b) \/ PruneDelete(b) \/ InsertVersion(b)
      PROVE  fb' \subseteq fb
  BY <1>4 DEF Resolve, PruneRead, PruneDelete, InsertVersion
<1>5. ASSUME FactRead \/ FactWrite \/ Crash PROVE fb' = fb
  BY <1>5 DEF FactRead, FactWrite, Crash
<1> QED
  BY <1>1, <1>2, <1>3, <1>4, <1>5 DEF Next

LEMMA StoreEffect ==
    ASSUME IInv, NEW q \in Reqs, Store(q)
    PROVE  \E row :
             /\ row.sec = req[q].sec /\ row.key = req[q].key /\ row.vote = req[q].vote
             /\ row.sec \in {"routes", "route_pins", "route_stops"} /\ row.vote \in {1, -1}
             /\ fb' = {x \in fb : ~(x.sec = row.sec /\ x.key = row.key)} \union {row}
<1>1. req[q].pc = "store" /\ AtWork(req[q])
  BY DEF IInv, ReqInv, Store, IdleReq
<1>2. PICK row : row = Row(req[q].sec, req[q].key, req[q].idx, req[q].vote)
  OBVIOUS
<1>3. row.sec = req[q].sec /\ row.key = req[q].key /\ row.vote = req[q].vote
  BY <1>2 DEF Row
<1>4. fb' = Upsert(fb, row)
  BY <1>2 DEF Store
<1> QED
  BY <1>1, <1>3, <1>4 DEF Upsert, AtWork

\* The pins of the routes it kept are there after a rebuild.
LEMMA SyncEffect ==
    ASSUME IInv, NEW b \in Builders, SyncPins(b)
    PROVE  /\ Table(fb')
           /\ Section(fb', "route_stops") = Section(fb, "route_stops")
           /\ KeptIn(bld[b].cases) \subseteq Pins(fb')
<1> DEFINE c == bld[b].cases
           kept == {i \in DOMAIN c : c[i].preserved}
           pins == {Row("route_pins", c[i].route, i, 1) : i \in kept}
           rest == {x \in fb : ~(x.sec = "route_pins" /\ x.key \in KeptIn(c))}
<1>1. c \in Cases /\ Distinct(c)
  BY DEF IInv, BuildInv, SyncPins, Resolving, Saving
<1>2. fb' = rest \union pins
  BY DEF SyncPins
<1>3. Table(fb)
  BY DEF IInv, RowsInv
<1> HIDE DEF c
<1>4. \A x \in pins : \E i \in kept : /\ x = Row("route_pins", c[i].route, i, 1)
                                      /\ x.sec = "route_pins" /\ x.vote = 1 /\ x.key = c[i].route
  BY DEF Row
<1>5. \A x, y \in pins : x.key = y.key => x = y
  BY <1>1, <1>4 DEF Distinct
<1>6. \A x \in pins : x.sec = "route_pins" /\ x.vote = 1 /\ x.key \in KeptIn(c)
  BY <1>4 DEF KeptIn
<1>7. \A r \in KeptIn(c) : r # Migrated /\ \E x \in pins : x.sec = "route_pins" /\ x.key = r
  <2> TAKE r \in KeptIn(c)
  <2>1. PICK i \in kept : r = c[i].route
    BY DEF KeptIn
  <2>2. Row("route_pins", c[i].route, i, 1) \in pins
    OBVIOUS
  <2>3. Row("route_pins", c[i].route, i, 1).key = r /\ Row("route_pins", c[i].route, i, 1).sec = "route_pins"
    BY <2>1 DEF Row
  <2>4. r \in Routes
    BY <1>1, <2>1, CasesAre
  <2> QED
    BY <2>2, <2>3, <2>4, Constants
<1> HIDE DEF pins
<1>8. Table(rest \union pins)
  BY <1>3, <1>5, <1>6 DEF Table
<1>9. Section(rest \union pins, "route_stops") = Section(fb, "route_stops")
  BY <1>6 DEF Section
<1>10. KeptIn(c) \subseteq Pins(rest \union pins)
  BY <1>7 DEF Pins, Section
<1> QED
  BY <1>2, <1>8, <1>9, <1>10 DEF c

LEMMA RowsNext ==
    ASSUME IInv, [Next]_vars
    PROVE  RowsInv'
<1>1. Table(fb) /\ Latest.cases \in Cases
  BY LatestIs DEF IInv, RowsInv, Versions
<1>2. CASE fb' \subseteq fb
  BY <1>1, <1>2 DEF RowsInv, Table
<1>3. CASE fb' = Migrate(fb, Latest.cases)
  BY <1>1, <1>3, MigrateKeeps DEF RowsInv
<1>4. ASSUME NEW q \in Reqs, Store(q) PROVE RowsInv'
  BY <1>1, <1>4, StoreEffect DEF RowsInv, Table
<1>5. ASSUME NEW b \in Builders, SyncPins(b) PROVE RowsInv'
  BY <1>5, SyncEffect DEF RowsInv
<1>6. CASE UNCHANGED vars
  BY <1>2, <1>6 DEF vars
<1> QED
  BY <1>2, <1>3, <1>4, <1>5, <1>6, RowMoves

\* The request a vote begins, unless the limit is reached.
LEMMA BeginEffect ==
    ASSUME IInv, NEW q \in Reqs, NEW k \in VoteKinds, BeginVote(q, k[1], k[2], k[3])
    PROVE  /\ req[q].pc = "idle"
           /\ mixed' = (mixed \/ ~Quiet)
           /\ bld' = bld /\ fact' = fact
           /\ Section(fb', "route_stops") = Section(fb, "route_stops")
           /\ \/ req' = req
              \/ \E r : /\ AtWork(r) /\ r.pc \in {"erase", "displace"}
                        /\ req' = [req EXCEPT ![q] = r]
                        /\ Liking(r) => r.key \in Liked(fb) \/ ~(Cardinality(Liked(fb)) >= MaxLikes)
<1>1. /\ Table(fb) /\ Latest \in Versions /\ Distinct(Latest.cases) /\ Latest.cases \in Cases
      /\ LatestId \in Nat
  BY LatestIs DEF IInv, RowsInv, Versions, VersInv
<1>2. /\ k[1] \in {"routes", "route_pins", "route_stops"}
      /\ k[3] \in {1, -1, 0}
  BY DEF VoteKinds
<1> DEFINE stops == k[1] = "route_stops"
           items == IF stops THEN Stops(Latest.cases) ELSE RouteSeq(Latest.cases)
           rows == IF stops THEN fb ELSE Migrate(fb, Latest.cases)
           r == [pc |-> IF k[3] = 0 THEN "erase" ELSE "displace",
                 sec |-> k[1], key |-> k[2], vote |-> k[3], idx |-> IndexOf(items, k[2]),
                 ver |-> LatestId, program |-> Latest]
<1>3. /\ req[q].pc = "idle" /\ mixed' = (mixed \/ ~Quiet) /\ bld' = bld /\ fact' = fact
      /\ fb' = rows /\ \E i \in DOMAIN items : items[i] = k[2]
      /\ req' = IF k[3] = 1 /\ Full(rows, k[1], k[2]) THEN req ELSE [req EXCEPT ![q] = r]
  BY DEF BeginVote, Overlap
<1>4. Section(rows, "route_stops") = Section(fb, "route_stops")
  BY <1>1, MigrateKeeps
<1>5. AtWork(r) /\ r.pc \in {"erase", "displace"}
  <2>1. ~stops => IndexOf(items, k[2]) \in DOMAIN Latest.cases
    <3> SUFFICES ASSUME ~stops PROVE IndexOf(items, k[2]) \in DOMAIN Latest.cases
      OBVIOUS
    <3>1. items = RouteSeq(Latest.cases)
      OBVIOUS
    <3>2. DOMAIN items = DOMAIN Latest.cases
      BY <3>1 DEF RouteSeq
    <3>3. PICK n \in Nat : DOMAIN items = 1..n
      BY <1>1, <3>2, CasesAre
    <3> HIDE DEF items
    <3> QED
      BY <1>3, <3>2, <3>3, FirstMatch
  <2> HIDE DEF items
  <2> QED
    BY <1>1, <1>2, <2>1 DEF AtWork
<1>6. CASE k[3] = 1 /\ Full(rows, k[1], k[2])
  BY <1>3, <1>4, <1>6
<1>7. CASE ~(k[3] = 1 /\ Full(rows, k[1], k[2]))
  <2>1. Liking(r) => r.key \in Liked(fb) \/ ~(Cardinality(Liked(fb)) >= MaxLikes)
    BY <1>7 DEF Liking, Full
  <2> HIDE DEF r
  <2> QED
    BY <1>3, <1>4, <1>5, <1>7, <2>1
<1> QED
  BY <1>6, <1>7

LEMMA ReqNext ==
    ASSUME IInv, [Next]_vars
    PROVE  ReqInv'
<1>1. DOMAIN req = Reqs /\ \A q \in Reqs : req[q] = IdleReq \/ AtWork(req[q])
  BY DEF IInv, ReqInv
<1>2. CASE req' = req
  BY <1>1, <1>2 DEF ReqInv
<1>3. ASSUME NEW q \in Reqs, NEW k \in VoteKinds, BeginVote(q, k[1], k[2], k[3])
      PROVE  ReqInv'
  <2>1. req' = req \/ \E r : AtWork(r) /\ req' = [req EXCEPT ![q] = r]
    BY <1>3, BeginEffect
  <2> QED
    BY <1>1, <2>1 DEF ReqInv
<1>4. ASSUME NEW q \in Reqs, NEW r, r = IdleReq \/ AtWork(r), req' = [req EXCEPT ![q] = r]
      PROVE  ReqInv'
  BY <1>1, <1>4 DEF ReqInv
<1>5. ASSUME NEW q \in Reqs, Displace(q) PROVE ReqInv'
  <2>1. AtWork(req[q]) /\ req[q].pc = "displace"
    BY <1>1, <1>5 DEF Displace, IdleReq
  <2>2. PICK r : r = [req[q] EXCEPT !.pc = "store"]
    OBVIOUS
  <2>3. AtWork(r)
    BY <2>1, <2>2 DEF AtWork
  <2>4. req' = [req EXCEPT ![q] = r]
    BY <1>5, <2>2 DEF Displace
  <2> QED
    BY <1>4, <2>3, <2>4
<1>6. ASSUME NEW q \in Reqs, Store(q) \/ Unmark(q) PROVE ReqInv'
  BY <1>1, <1>4, <1>6 DEF Store, Unmark
<1>7. ASSUME NEW q \in Reqs, Erase(q) PROVE ReqInv'
  <2>1. AtWork(req[q]) /\ req[q].pc = "erase"
    BY <1>1, <1>7 DEF Erase, IdleReq
  <2>2. PICK r : r = [req[q] EXCEPT !.pc = "unmark"]
    OBVIOUS
  <2>3. req[q].sec = "route_pins" => AtWork(r)
    BY <2>1, <2>2 DEF AtWork
  <2>4. IF req[q].sec = "route_pins" THEN req' = [req EXCEPT ![q] = r]
        ELSE req' = [req EXCEPT ![q] = IdleReq]
    BY <1>7, <2>2 DEF Erase
  <2> QED
    BY <1>4, <2>3, <2>4
<1>8. CASE Crash
  BY <1>1, <1>8 DEF Crash, ReqInv
<1>9. ASSUME NEW b \in Builders,
             \/ \E scope \in {"routes", "full"} : BeginBuild(b, scope)
             \/ Resolve(b) \/ PruneRead(b) \/ PruneDelete(b) \/ InsertVersion(b) \/ SyncPins(b)
      PROVE  req' = req
  BY <1>9 DEF BeginBuild, Resolve, PruneRead, PruneDelete, InsertVersion, SyncPins
<1>10. CASE FactRead \/ FactWrite \/ UNCHANGED vars
  BY <1>2, <1>10 DEF FactRead, FactWrite, vars
<1> QED
  BY <1>2, <1>3, <1>5, <1>6, <1>7, <1>8, <1>9, <1>10 DEF Next

\* The rebuild that begins has the routes to keep.
LEMMA BeginBuildEffect ==
    ASSUME IInv, NEW b \in Builders, NEW scope, BeginBuild(b, scope)
    PROVE  /\ bld[b].pc = "idle" /\ mixed' = (mixed \/ ~Quiet)
           /\ Section(fb', "route_stops") = Section(fb, "route_stops")
           /\ \E w : Resolving(w) /\ bld' = [bld EXCEPT ![b] = w]
<1>1. /\ Latest.cases \in Cases /\ Distinct(Latest.cases) /\ Table(fb)
  BY LatestIs DEF IInv, RowsInv, Versions
<1>2. /\ bld[b].pc = "idle" /\ mixed' = (mixed \/ ~Quiet)
      /\ fb' = Migrate(fb, Latest.cases)
  BY DEF BeginBuild, Overlap
<1>3. PICK w : w = [pc |-> "resolve", scope |-> scope, base |-> Latest.cases,
                    liked |-> IF scope = "routes" THEN Preserved(Latest.cases, fb') ELSE <<>>]
  OBVIOUS
<1>4. bld' = [bld EXCEPT ![b] = w]
  BY <1>3 DEF BeginBuild
<1>5. Resolving(w)
  <2>1. CASE scope = "routes"
    <3>1. w.pc = "resolve" /\ w.base = Latest.cases /\ w.liked = Preserved(Latest.cases, fb')
      BY <1>3, <2>1
    <3> QED
      BY <1>1, <3>1, PreservedKeeps DEF Resolving
  <2>2. CASE scope # "routes"
    <3>1. w.pc = "resolve" /\ w.base = Latest.cases /\ w.liked = <<>>
      BY <1>3, <2>2
    <3> QED
      BY <1>1, <3>1, NoCases DEF Resolving
  <2> QED
    BY <2>1, <2>2
<1>6. Section(fb', "route_stops") = Section(fb, "route_stops")
  BY <1>1, <1>2, MigrateKeeps
<1> QED
  BY <1>2, <1>4, <1>5, <1>6

LEMMA BuildNext ==
    ASSUME IInv, [Next]_vars
    PROVE  BuildInv'
<1> DEFINE Good(w) == w.pc = "idle" \/ Resolving(w) \/ Saving(w)
           GoodNext(w) == w.pc = "idle" \/ Resolving(w) \/ Saving(w)'
<1>1. DOMAIN bld = Builders /\ \A b \in Builders : Good(bld[b])
  BY DEF IInv, BuildInv
<1>2. Len(vers) \in Nat /\ Len(vers') \in Nat /\ Len(vers) <= Len(vers')
  BY VersGrow
<1>3. ASSUME NEW b \in Builders, bld'[b] = bld[b]
      PROVE  bld'[b].pc = "idle" \/ Resolving(bld'[b]) \/ Saving(bld[b])'
  BY <1>1, <1>2, <1>3 DEF Saving
<1>4. CASE bld' = bld
  BY <1>1, <1>3, <1>4 DEF BuildInv, Resolving, Saving
<1>5. ASSUME NEW b \in Builders, NEW w, bld' = [bld EXCEPT ![b] = w],
             \/ w.pc = "idle" \/ Resolving(w)
             \/ /\ w.pc \in {"prune", "delete", "insert", "sync"}
                /\ w.cases \in Cases /\ Distinct(w.cases)
                /\ TextsOf(w.liked) \subseteq KeptIn(w.cases)
                /\ w.pc = "insert" => w.num \in 1..(Len(vers) + 1)
      PROVE  BuildInv'
  <2>1. DOMAIN bld' = Builders
    BY <1>1, <1>5
  <2>2. \A a \in Builders \ {b} : bld'[a] = bld[a]
    BY <1>1, <1>5
  <2>3. bld'[b] = w
    BY <1>1, <1>5
  <2>4. ASSUME NEW a \in Builders
        PROVE  (bld[a].pc = "idle" \/ Resolving(bld[a]) \/ Saving(bld[a]))'
    <3>1. CASE a = b
      BY <1>2, <1>5, <2>3, <3>1 DEF Resolving, Saving
    <3>2. CASE a # b
      BY <1>1, <1>2, <2>2, <3>2 DEF Resolving, Saving
    <3> QED
      BY <3>1, <3>2
  <2> QED
    BY <2>1, <2>4 DEF BuildInv
<1>6. ASSUME NEW b \in Builders, NEW scope, BeginBuild(b, scope) PROVE BuildInv'
  BY <1>5, <1>6, BeginBuildEffect
<1>7. ASSUME NEW b \in Builders, Resolve(b) PROVE BuildInv'
  <2>1. Resolving(bld[b])
    BY <1>1, <1>7 DEF Resolve, Saving
  <2>2. PICK cs \in Cases :
          /\ Distinct(cs) /\ TextsOf(bld[b].liked) \subseteq KeptIn(cs)
          /\ bld' = [bld EXCEPT ![b] = [pc |-> "prune", liked |-> bld[b].liked, cases |-> cs]]
    BY <1>7, <2>1, ResolveEffect DEF IInv
  <2>3. PICK w : w = [pc |-> "prune", liked |-> bld[b].liked, cases |-> cs]
    OBVIOUS
  <2>4. bld' = [bld EXCEPT ![b] = w]
    BY <2>2, <2>3
  <2> QED
    BY <1>5, <2>2, <2>3, <2>4
<1>8. ASSUME NEW b \in Builders, PruneRead(b) PROVE BuildInv'
  <2>1. Saving(bld[b])
    BY <1>1, <1>8 DEF PruneRead, Resolving
  <2>2. PICK w : w = [pc |-> "delete", liked |-> bld[b].liked, cases |-> bld[b].cases,
                      stale |-> {<<x.sec, x.key>> : x \in Stale(bld[b].cases)}]
    OBVIOUS
  <2>3. bld' = [bld EXCEPT ![b] = w]
    BY <1>8, <2>2 DEF PruneRead
  <2>4. w.pc = "delete" /\ w.liked = bld[b].liked /\ w.cases = bld[b].cases
    BY <2>2
  <2> QED
    BY <1>5, <2>1, <2>3, <2>4 DEF Saving
<1>9. ASSUME NEW b \in Builders, PruneDelete(b) PROVE BuildInv'
  <2>1. Saving(bld[b]) /\ Latest.num = Len(vers)
    BY <1>1, <1>9, LatestIs DEF PruneDelete, Resolving, IInv
  <2>2. PICK w : w = [pc |-> "insert", liked |-> bld[b].liked, cases |-> bld[b].cases,
                      num |-> Latest.num + 1]
    OBVIOUS
  <2>3. bld' = [bld EXCEPT ![b] = w]
    BY <1>9, <2>2 DEF PruneDelete
  <2>4. /\ w.pc = "insert" /\ w.liked = bld[b].liked /\ w.cases = bld[b].cases
        /\ w.num \in 1..(Len(vers) + 1)
    BY <1>2, <2>1, <2>2
  <2> QED
    BY <1>5, <2>1, <2>3, <2>4 DEF Saving
<1>10. ASSUME NEW b \in Builders, InsertVersion(b) PROVE BuildInv'
  <2>1. PICK w : w = [pc |-> "sync", liked |-> bld[b].liked, cases |-> bld[b].cases]
    OBVIOUS
  <2>2. Saving(bld[b]) /\ (bld' = [bld EXCEPT ![b] = IdleBuild] \/ bld' = [bld EXCEPT ![b] = w])
    BY <1>10, <2>1, InsertEffect
  <2>3. w.pc = "sync" /\ w.liked = bld[b].liked /\ w.cases = bld[b].cases /\ IdleBuild.pc = "idle"
    BY <2>1 DEF IdleBuild
  <2> QED
    BY <1>5, <2>2, <2>3 DEF Saving
<1>11. ASSUME NEW b \in Builders, SyncPins(b) PROVE BuildInv'
  <2>1. IdleBuild.pc = "idle" /\ bld' = [bld EXCEPT ![b] = IdleBuild]
    BY <1>11 DEF SyncPins, IdleBuild
  <2> QED
    BY <1>5, <2>1
<1>12. CASE Crash
  <2>1. bld' = bld \/ bld' = [b \in Builders |-> IdleBuild]
    BY <1>12 DEF Crash
  <2> QED
    BY <1>4, <2>1 DEF BuildInv, IdleBuild
<1>13. ASSUME NEW q \in Reqs,
              \/ \E k \in VoteKinds : BeginVote(q, k[1], k[2], k[3])
              \/ Displace(q) \/ Store(q) \/ Erase(q) \/ Unmark(q)
       PROVE  bld' = bld
  BY <1>13 DEF BeginVote, Displace, Store, Erase, Unmark
<1>14. CASE FactRead \/ FactWrite \/ UNCHANGED vars
  BY <1>4, <1>14 DEF FactRead, FactWrite, vars
<1> QED
  BY <1>4, <1>6, <1>7, <1>8, <1>9, <1>10, <1>11, <1>12, <1>13, <1>14 DEF Next

LEMMA FactNext ==
    ASSUME IInv, [Next]_vars
    PROVE  FactInv' /\ mixed' \in BOOLEAN
<1>1. FactInv /\ Latest.cases \in Cases /\ Distinct(Latest.cases) /\ mixed \in BOOLEAN
  BY LatestIs DEF IInv, Versions
<1>2. CASE FactRead
  BY <1>1, <1>2 DEF FactRead, FactInv, Overlap
<1>3. CASE FactWrite \/ Crash \/ UNCHANGED vars
  BY <1>1, <1>3 DEF FactWrite, Crash, FactInv, vars
<1>4. ASSUME NEW q \in Reqs,
             \/ \E k \in VoteKinds : BeginVote(q, k[1], k[2], k[3])
             \/ Displace(q) \/ Store(q) \/ Erase(q) \/ Unmark(q)
      PROVE  fact' = fact /\ mixed' \in BOOLEAN
  BY <1>1, <1>4 DEF BeginVote, Displace, Store, Erase, Unmark, Overlap
<1>5. ASSUME NEW b \in Builders,
             \/ \E scope \in {"routes", "full"} : BeginBuild(b, scope)
             \/ Resolve(b) \/ PruneRead(b) \/ PruneDelete(b) \/ InsertVersion(b) \/ SyncPins(b)
      PROVE  fact' = fact /\ mixed' \in BOOLEAN
  BY <1>1, <1>5 DEF BeginBuild, Resolve, PruneRead, PruneDelete, InsertVersion, SyncPins, Overlap
<1> QED
  BY <1>1, <1>2, <1>3, <1>4, <1>5 DEF Next, FactInv

\* A rebuild that begins has room for its version, one that saves has used it.
LEMMA RoomNext ==
    ASSUME IInv, [Next]_vars
    PROVE  RoomInv'
<1>1. /\ Len(vers) \in Nat /\ Len(vers') \in Nat /\ vers \in Seq(Versions) /\ vers' \in Seq(Versions)
      /\ DOMAIN bld = Builders /\ Len(vers) + Cardinality(Unsaved) <= MaxVersions
  BY VersGrow, VersNext DEF IInv, VersInv, BuildInv, RoomInv
<1>2. PICK U \in SUBSET Builders : U = Unsaved
  BY DEF Unsaved
<1>3. PICK V \in SUBSET Builders : V = Unsaved'
  BY DEF Unsaved
<1>4. \A T \in SUBSET Builders : IsFiniteSet(T) /\ Cardinality(T) \in Nat
  BY Constants, FS_Subset, FS_CardinalityType
<1> MaxVersions \in Nat /\ Cardinality(U) \in Nat /\ Cardinality(V) \in Nat
  BY <1>4, Constants
<1>a. ASSUME Len(vers') + Cardinality(V) <= Len(vers) + Cardinality(U) PROVE RoomInv'
  <2>1. Len(vers) + Cardinality(U) <= MaxVersions
    BY <1>1, <1>2
  <2>2. Len(vers') + Cardinality(V) <= MaxVersions
    BY <1>1, <1>a, <2>1
  <2> QED
    BY <1>3, <2>2 DEF RoomInv
<1>5. ASSUME V \subseteq U, Len(vers') = Len(vers) PROVE RoomInv'
  <2>1. Cardinality(V) <= Cardinality(U)
    BY <1>4, <1>5, FS_Subset
  <2> QED
    BY <1>1, <1>a, <1>5, <2>1
<1>6. ASSUME NEW b \in Builders, InsertVersion(b) PROVE RoomInv'
  <2>1. bld[b].pc = "insert"
    BY <1>6 DEF InsertVersion
  <2>2. \E w : bld' = [bld EXCEPT ![b] = w] /\ w.pc \in {"idle", "sync"}
    <3>1. PICK w : w = [pc |-> "sync", liked |-> bld[b].liked, cases |-> bld[b].cases]
      OBVIOUS
    <3>2. bld' = [bld EXCEPT ![b] = IdleBuild] \/ bld' = [bld EXCEPT ![b] = w]
      BY <1>6, <3>1, InsertEffect
    <3>3. w.pc = "sync" /\ IdleBuild.pc = "idle"
      BY <3>1 DEF IdleBuild
    <3> QED
      BY <3>2, <3>3
  <2>3. V = U \ {b} /\ b \in U
    BY <1>1, <1>2, <1>3, <2>1, <2>2 DEF Unsaved
  <2>4. Cardinality(V) = Cardinality(U) - 1
    BY <1>4, <2>3, FS_RemoveElement
  <2>5. Len(vers') <= Len(vers) + 1
    <3>1. vers' = vers \/ \E new : vers' = Append(vers, new)
      BY <1>6, InsertEffect
    <3> QED
      BY <1>1, <3>1
  <2> QED
    BY <1>1, <1>a, <2>4, <2>5
<1>7. ASSUME NEW b \in Builders, NEW scope, BeginBuild(b, scope) PROVE RoomInv'
  <2>1. /\ bld[b].pc = "idle" /\ vers' = vers
        /\ Len(vers) + Cardinality({a \in Builders : bld[a].pc # "idle"}) < MaxVersions
    BY <1>7 DEF BeginBuild
  <2>2. PICK A \in SUBSET Builders : A = {a \in Builders : bld[a].pc # "idle"}
    OBVIOUS
  <2>3. U \subseteq A
    BY <1>2, <2>2 DEF Unsaved
  <2>4. V = U \union {b}
    <3>1. \E w : bld' = [bld EXCEPT ![b] = w] /\ w.pc = "resolve"
      BY <1>7, BeginBuildEffect DEF Resolving
    <3> QED
      BY <1>1, <1>2, <1>3, <3>1 DEF Unsaved
  <2>5. Cardinality(V) <= Cardinality(U) + 1
    BY <1>4, <2>4, FS_AddElement
  <2>6. Cardinality(U) <= Cardinality(A)
    BY <1>4, <2>3, FS_Subset
  <2> QED
    <3>1. Cardinality(A) \in Nat /\ Len(vers) + Cardinality(A) < MaxVersions
      BY <1>4, <2>1, <2>2
    <3>2. Len(vers') + Cardinality(V) <= MaxVersions
      BY <1>1, <2>1, <2>5, <2>6, <3>1
    <3> QED
      BY <1>3, <3>2 DEF RoomInv
<1>8. ASSUME vers' # vers, \A b \in Builders : ~InsertVersion(b)
      PROVE  Len(vers') = Len(vers)
  <2>1. Next
    BY <1>8 DEF vars
  <2>2. Patch
    BY <1>8, <2>1, VersKept, UnmarkPatches, FactWritePatches
  <2> QED
    BY <1>1, <2>2 DEF Patch
<1>9. CASE bld' = bld /\ \A b \in Builders : ~InsertVersion(b)
  <2>1. V = U
    BY <1>2, <1>3, <1>9 DEF Unsaved
  <2> QED
    BY <1>5, <1>8, <1>9, <2>1
<1>10. ASSUME NEW b \in Builders, Resolve(b) \/ PruneRead(b) \/ PruneDelete(b) \/ SyncPins(b)
       PROVE  RoomInv'
  <2>1. vers' = vers
    BY <1>10 DEF Resolve, PruneRead, PruneDelete, SyncPins
  <2>2. \/ b \in U
        \/ bld' = [bld EXCEPT ![b] = IdleBuild]
    BY <1>2, <1>10 DEF Resolve, PruneRead, PruneDelete, SyncPins, Unsaved
  <2>3. \E w : bld' = [bld EXCEPT ![b] = w]
    BY <1>10 DEF Resolve, PruneRead, PruneDelete, SyncPins
  <2>4. V \subseteq U
    BY <1>1, <1>2, <1>3, <2>2, <2>3 DEF Unsaved, IdleBuild
  <2> QED
    BY <1>5, <2>1, <2>4
<1>11. CASE Crash
  <2>1. vers' = vers /\ (bld' = bld \/ bld' = [b \in Builders |-> IdleBuild])
    BY <1>11 DEF Crash
  <2>2. V \subseteq U
    BY <1>2, <1>3, <2>1 DEF Unsaved, IdleBuild
  <2> QED
    BY <1>5, <2>1, <2>2
<1>12. ASSUME NEW q \in Reqs,
              \/ \E k \in VoteKinds : BeginVote(q, k[1], k[2], k[3])
              \/ Displace(q) \/ Store(q) \/ Erase(q) \/ Unmark(q)
       PROVE  bld' = bld
  BY <1>12 DEF BeginVote, Displace, Store, Erase, Unmark
<1>13. CASE FactRead \/ FactWrite \/ UNCHANGED vars
  <2>1. bld' = bld
    BY <1>13 DEF FactRead, FactWrite, vars
  <2> QED
    BY <1>6, <1>9, <2>1
<1> QED
  BY <1>6, <1>7, <1>9, <1>10, <1>11, <1>12, <1>13 DEF Next

-----------------------------------------------------------------------------
(* Likes                                                                   *)

LEMMA ImageFew ==
    ASSUME NEW L, IsFiniteSet(L), NEW f, DOMAIN f = L
    PROVE  LET T == {f[q] : q \in L}
           IN  IsFiniteSet(T) /\ Cardinality(T) <= Cardinality(L)
<1> DEFINE T == {f[q] : q \in L}
           g == [q \in L |-> f[q]]
<1>1. g \in Surjection(L, T)
  BY DEF Surjection
<1> QED
  BY <1>1, FS_Surjection

\* A step begins a vote or brings no new like.
LEMMA LikesShrink ==
    ASSUME IInv, Next,
           \A q \in Reqs, k \in VoteKinds : ~BeginVote(q, k[1], k[2], k[3])
    PROVE  Liked(fb') \union Coming' \subseteq Liked(fb) \union Coming
<1>1. DOMAIN req = Reqs
  BY DEF IInv, ReqInv
<1> DEFINE Less == /\ Liked(fb') \subseteq Liked(fb) \union Coming
                   /\ \A q \in Reqs : Liking(req[q])' => Liking(req[q]) /\ req'[q].key = req[q].key
<1>2. CASE Less
  BY <1>2 DEF Coming
<1>3. ASSUME fb' \subseteq fb PROVE Liked(fb') \subseteq Liked(fb)
  BY <1>3 DEF Liked, Section
<1>4. ASSUME NEW q \in Reqs, Displace(q) PROVE Less
  <2>1. AtWork(req[q]) /\ req[q].pc = "displace"
    BY <1>4 DEF IInv, ReqInv, Displace, IdleReq
  <2>2. PICK r : r = [req[q] EXCEPT !.pc = "store"]
    OBVIOUS
  <2>3. Liking(r) => Liking(req[q]) /\ r.key = req[q].key
    BY <2>1, <2>2 DEF AtWork, Liking
  <2>4. fb' \subseteq fb /\ req' = [req EXCEPT ![q] = r]
    BY <1>4, <2>2 DEF Displace
  <2> QED
    BY <1>1, <1>3, <2>3, <2>4 DEF Liking
<1>5. ASSUME NEW q \in Reqs, Store(q) PROVE Less
  <2>1. PICK row :
          /\ row.sec = req[q].sec /\ row.key = req[q].key /\ row.vote = req[q].vote
          /\ fb' = {x \in fb : ~(x.sec = row.sec /\ x.key = row.key)} \union {row}
    BY <1>5, StoreEffect
  <2>2. req[q].pc = "store" /\ req' = [req EXCEPT ![q] = IdleReq]
    BY <1>5 DEF Store
  <2>3. row.sec = "route_stops" /\ row.vote = 1 => row.key \in Coming
    BY <2>1, <2>2 DEF Coming, Liking
  <2>4. Liked(fb') \subseteq Liked(fb) \union Coming
    BY <2>1, <2>3 DEF Liked, Section
  <2> QED
    BY <1>1, <2>2, <2>4 DEF Liking, IdleReq
<1>6. ASSUME NEW q \in Reqs, Erase(q) PROVE Less
  <2>1. AtWork(req[q]) /\ req[q].pc = "erase"
    BY <1>6 DEF IInv, ReqInv, Erase, IdleReq
  <2>2. PICK r : r = [req[q] EXCEPT !.pc = "unmark"]
    OBVIOUS
  <2>3. ~Liking(r) /\ ~Liking(IdleReq)
    BY <2>1, <2>2 DEF AtWork, Liking, IdleReq
  <2>4. fb' \subseteq fb /\ req' \in {[req EXCEPT ![q] = r], [req EXCEPT ![q] = IdleReq]}
    BY <1>6, <2>2 DEF Erase
  <2> QED
    BY <1>1, <1>3, <2>3, <2>4 DEF Liking
<1>7. ASSUME NEW q \in Reqs, Unmark(q) PROVE Less
  BY <1>1, <1>3, <1>7 DEF Unmark, Liking, IdleReq
<1>8. ASSUME Section(fb', "route_stops") = Section(fb, "route_stops"), req' = req PROVE Less
  BY <1>8 DEF Liked, Liking
<1>9. ASSUME NEW b \in Builders, NEW scope, BeginBuild(b, scope) PROVE Less
  <2>1. req' = req
    BY <1>9 DEF BeginBuild
  <2> QED
    BY <1>8, <1>9, <2>1, BeginBuildEffect
<1>10. ASSUME NEW b \in Builders, Resolve(b) \/ PruneRead(b) \/ PruneDelete(b) \/ InsertVersion(b)
       PROVE  Less
  <2>1. fb' \subseteq fb /\ req' = req
    BY <1>10 DEF Resolve, PruneRead, PruneDelete, InsertVersion
  <2> QED
    BY <1>3, <2>1 DEF Liking
<1>11. ASSUME NEW b \in Builders, SyncPins(b) PROVE Less
  <2>1. req' = req
    BY <1>11 DEF SyncPins
  <2> QED
    BY <1>8, <1>11, <2>1, SyncEffect
<1>12. ASSUME FactRead \/ FactWrite PROVE Less
  <2>1. fb' = fb /\ req' = req
    BY <1>12 DEF FactRead, FactWrite
  <2> HIDE DEF Less
  <2> QED
    BY <1>8, <2>1
<1>13. ASSUME Crash PROVE Less
  <2>1. fb' = fb /\ (req' = req \/ req' = [q \in Reqs |-> IdleReq])
    BY <1>13 DEF Crash
  <2>2. CASE req' = req
    <3> HIDE DEF Less
    <3> QED
      BY <1>8, <2>1, <2>2
  <2>3. CASE req' = [q \in Reqs |-> IdleReq]
    <3>1. \A q \in Reqs : ~Liking(req[q])'
      BY <2>3 DEF Liking, IdleReq
    <3> QED
      BY <1>3, <2>1, <3>1
  <2> QED
    BY <2>1, <2>2, <2>3
<1> HIDE DEF Less
<1> QED
  BY <1>2, <1>4, <1>5, <1>6, <1>7, <1>9, <1>10, <1>11, <1>12, <1>13 DEF Next

LEMMA MixedStays ==
    ASSUME [Next]_vars, mixed \in BOOLEAN, mixed
    PROVE  mixed' = TRUE
<1>1. ASSUME NEW q \in Reqs,
             \/ \E k \in VoteKinds : BeginVote(q, k[1], k[2], k[3])
             \/ Displace(q) \/ Store(q) \/ Erase(q) \/ Unmark(q)
      PROVE  mixed' = TRUE
  BY <1>1 DEF BeginVote, Displace, Store, Erase, Unmark, Overlap
<1>2. ASSUME NEW b \in Builders,
             \/ \E scope \in {"routes", "full"} : BeginBuild(b, scope)
             \/ Resolve(b) \/ PruneRead(b) \/ PruneDelete(b) \/ InsertVersion(b) \/ SyncPins(b)
      PROVE  mixed' = TRUE
  BY <1>2 DEF BeginBuild, Resolve, PruneRead, PruneDelete, InsertVersion, SyncPins, Overlap
<1>3. CASE FactRead \/ FactWrite \/ Crash \/ UNCHANGED vars
  BY <1>3 DEF FactRead, FactWrite, Crash, Overlap, vars
<1> QED
  BY <1>1, <1>2, <1>3 DEF Next

\* A like that passes the limit meets the requests in flight at most.
LEMMA LikesNext ==
    ASSUME IInv, [Next]_vars
    PROVE  LikesInv'
<1> DEFINE R == Cardinality(Reqs)
           B(m) == MaxLikes + (IF m THEN R - 1 ELSE 0)
<1>1. /\ R \in Nat \ {0} /\ MaxLikes \in Nat /\ IsFiniteSet(Reqs)
      /\ mixed \in BOOLEAN /\ mixed' \in BOOLEAN
  BY Constants, FactNext DEF IInv
<1> HIDE DEF R
<1>2. PICK W : W = Liked(fb) \union Coming
  OBVIOUS
<1>3. PICK V : V = Liked(fb') \union Coming'
  OBVIOUS
<1>4. IsFiniteSet(W) /\ Cardinality(W) \in Nat /\ Cardinality(W) <= B(mixed)
  BY <1>2, FS_CardinalityType DEF IInv, LikesInv, R
<1>5. B(mixed) <= B(mixed')
  <2>1. R \in Int /\ R >= 1 /\ MaxLikes \in Int
    BY <1>1
  <2>2. mixed => mixed' = TRUE
    BY <1>1, MixedStays
  <2>3. CASE mixed
    BY <2>1, <2>2, <2>3
  <2>4. CASE ~mixed
    BY <1>1, <2>1, <2>4
  <2> QED
    BY <2>3, <2>4
<1>6. ASSUME IsFiniteSet(V), Cardinality(V) <= B(mixed') PROVE LikesInv'
  BY <1>3, <1>6 DEF LikesInv, R
<1>7. CASE V \subseteq W
  <2>1. IsFiniteSet(V) /\ Cardinality(V) <= Cardinality(W) /\ Cardinality(V) \in Nat
    BY <1>4, <1>7, FS_Subset, FS_CardinalityType
  <2> QED
    BY <1>1, <1>4, <1>5, <1>6, <2>1
<1>8. ASSUME NEW q \in Reqs, NEW k \in VoteKinds, BeginVote(q, k[1], k[2], k[3])
      PROVE  LikesInv'
  <2>1. /\ req[q].pc = "idle" /\ mixed' = (mixed \/ ~Quiet)
        /\ Section(fb', "route_stops") = Section(fb, "route_stops")
        /\ DOMAIN req = Reqs
    BY <1>8, BeginEffect DEF IInv, ReqInv
  <2>2. Liked(fb') = Liked(fb)
    BY <2>1 DEF Liked
  <2>3. CASE req' = req
    BY <1>2, <1>3, <1>7, <2>2, <2>3 DEF Coming, Liking
  <2>4. ASSUME NEW r, req' = [req EXCEPT ![q] = r],
               Liking(r) => r.key \in Liked(fb) \/ ~(Cardinality(Liked(fb)) >= MaxLikes)
        PROVE  LikesInv'
    <3>1. /\ req'[q] = r
          /\ \A s \in Reqs : s # q => req'[s] = req[s]
      BY <2>1, <2>4
    <3>2. Coming' \subseteq Coming \union (IF Liking(r) THEN {r.key} ELSE {})
      BY <3>1 DEF Coming, Liking
    <3>3. CASE ~Liking(r) \/ r.key \in Liked(fb)
      BY <1>2, <1>3, <1>7, <2>2, <3>2, <3>3
    <3>4. CASE ~(Cardinality(Liked(fb)) >= MaxLikes) /\ Liking(r)
      <4>1. PICK L : L = Liked(fb)
        OBVIOUS
      <4>2. IsFiniteSet(L) /\ Cardinality(L) \in Nat /\ Cardinality(L) <= MaxLikes - 1
        <5>1. L \in SUBSET W
          BY <1>2, <4>1
        <5>2. IsFiniteSet(L) /\ Cardinality(L) \in Nat
          BY <1>4, <5>1, FS_Subset, FS_CardinalityType
        <5> QED
          BY <1>1, <3>4, <4>1, <5>2
      <4>3. PICK N : N = Coming'
        OBVIOUS
      <4>4. IsFiniteSet(N) /\ Cardinality(N) \in Nat /\ Cardinality(N) <= R
        <5>1. PICK A \in SUBSET Reqs : A = {s \in Reqs : Liking(req[s])'}
          OBVIOUS
        <5>2. IsFiniteSet(A) /\ Cardinality(A) \in Nat /\ Cardinality(A) <= R
          BY <1>1, FS_Subset, FS_CardinalityType DEF R
        <5>3. PICK f : f = [s \in A |-> req'[s].key]
          OBVIOUS
        <5>4. N = {f[s] : s \in A}
          BY <4>3, <5>1, <5>3 DEF Coming, Liking
        <5>5. DOMAIN f = A
          BY <5>3
        <5>6. IsFiniteSet(N) /\ Cardinality(N) <= Cardinality(A)
          BY <5>2, <5>4, <5>5, ImageFew
        <5>7. Cardinality(N) \in Nat
          BY <5>6, FS_CardinalityType
        <5> QED
          BY <1>1, <5>2, <5>6, <5>7
      <4>5. CASE mixed'
        <5>1. V = L \union N
          BY <1>3, <2>2, <4>1, <4>3
        <5>2. IsFiniteSet(V) /\ Cardinality(V) <= Cardinality(L) + Cardinality(N)
          <6>1. /\ IsFiniteSet(L \union N)
                /\ Cardinality(L \union N) = Cardinality(L) + Cardinality(N) - Cardinality(L \cap N)
            BY <4>2, <4>4, FS_Union
          <6>2. Cardinality(L \cap N) \in Nat
            BY <4>2, FS_Intersection, FS_CardinalityType
          <6> QED
            BY <4>2, <4>4, <5>1, <6>1, <6>2
        <5>3. Cardinality(V) \in Nat
          BY <5>2, FS_CardinalityType
        <5> QED
          BY <1>1, <1>6, <4>2, <4>4, <4>5, <5>2, <5>3
      <4>6. CASE ~mixed'
        <5>1. \A s \in Reqs : req[s].pc = "idle"
          BY <1>1, <2>1, <4>6 DEF Quiet
        <5>2. Coming = {}
          BY <5>1 DEF Coming, Liking
        <5>3. V \subseteq L \union {r.key}
          BY <1>3, <2>2, <3>2, <4>1, <5>2
        <5>4. IsFiniteSet(L \union {r.key}) /\ Cardinality(L \union {r.key}) <= Cardinality(L) + 1
              /\ Cardinality(L \union {r.key}) \in Nat
          <6>1. /\ IsFiniteSet(L \union {r.key})
                /\ Cardinality(L \union {r.key}) =
                      IF r.key \in L THEN Cardinality(L) ELSE Cardinality(L) + 1
            BY <4>2, FS_AddElement
          <6> QED
            BY <4>2, <6>1
        <5>5. IsFiniteSet(V) /\ Cardinality(V) <= Cardinality(L \union {r.key})
              /\ Cardinality(V) \in Nat
          BY <5>3, <5>4, FS_Subset, FS_CardinalityType
        <5> QED
          BY <1>1, <1>6, <4>2, <4>6, <5>4, <5>5
      <4> QED
        BY <1>1, <4>5, <4>6
    <3> QED
      BY <2>4, <3>3, <3>4
  <2> QED
    BY <1>8, <2>3, <2>4, BeginEffect
<1>9. CASE UNCHANGED vars
  BY <1>2, <1>3, <1>7, <1>9 DEF vars, Coming, Liking
<1> QED
  BY <1>2, <1>3, <1>7, <1>8, <1>9, LikesShrink

-----------------------------------------------------------------------------
(* What runs alone                                                         *)

Idle ==
    /\ \A q \in Reqs : req[q].pc = "idle"
    /\ \A b \in Builders : bld[b].pc = "idle"
    /\ fact.pc = "none"

\* Whatever begins while something runs, and whatever dies, is noted in mixed;
\* the other steps make nothing busy.
LEMMA BusyMoves ==
    ASSUME IInv, Next
    PROVE  \/ mixed'
           \/ /\ Idle
              /\ \/ \E q \in Reqs : \E r : req' = [req EXCEPT ![q] = r] /\ bld' = bld /\ fact' = fact
                 \/ \E b \in Builders : \E w : bld' = [bld EXCEPT ![b] = w] /\ req' = req /\ fact' = fact
                 \/ req' = req /\ bld' = bld
           \/ /\ \A q \in Reqs : req[q].pc = "idle" => req'[q].pc = "idle"
              /\ \A b \in Builders : bld[b].pc = "idle" => bld'[b].pc = "idle"
              /\ fact.pc = "none" => fact'.pc = "none"
<1>1. DOMAIN req = Reqs /\ DOMAIN bld = Builders
  BY DEF IInv, ReqInv, BuildInv
<1> DEFINE Noted == \/ mixed'
                    \/ /\ Idle
                       /\ \/ \E q \in Reqs : \E r : req' = [req EXCEPT ![q] = r] /\ bld' = bld /\ fact' = fact
                          \/ \E b \in Builders : \E w : bld' = [bld EXCEPT ![b] = w] /\ req' = req /\ fact' = fact
                          \/ req' = req /\ bld' = bld
           Calm == /\ \A q \in Reqs : req[q].pc = "idle" => req'[q].pc = "idle"
                   /\ \A b \in Builders : bld[b].pc = "idle" => bld'[b].pc = "idle"
                   /\ fact.pc = "none" => fact'.pc = "none"
<1>2. ASSUME NEW q \in Reqs, NEW k \in VoteKinds, BeginVote(q, k[1], k[2], k[3])
      PROVE  Noted \/ Calm
  <2>1. /\ mixed' = (mixed \/ ~Quiet) /\ bld' = bld /\ fact' = fact
        /\ req' = req \/ \E r : req' = [req EXCEPT ![q] = r]
    BY <1>2, BeginEffect
  <2>2. CASE mixed'
    BY <2>2
  <2>3. CASE ~mixed'
    BY <2>1, <2>3 DEF Quiet, Idle
  <2> QED
    BY <2>2, <2>3
<1>3. ASSUME NEW b \in Builders, NEW scope, BeginBuild(b, scope) PROVE Noted
  <2>1. /\ mixed' = (mixed \/ ~Quiet) /\ req' = req /\ fact' = fact
        /\ \E w : bld' = [bld EXCEPT ![b] = w]
    BY <1>3, BeginBuildEffect DEF BeginBuild
  <2>2. CASE ~mixed'
    BY <2>1, <2>2 DEF Quiet, Idle
  <2> QED
    BY <2>2
<1>4. ASSUME FactRead PROVE Noted
  BY <1>4 DEF FactRead, Overlap, Quiet, Idle
<1>5. ASSUME NEW q \in Reqs, Displace(q) \/ Store(q) \/ Erase(q) \/ Unmark(q) PROVE Calm
  <2>1. /\ bld' = bld /\ fact' = fact /\ req[q].pc # "idle"
        /\ \E r : req' = [req EXCEPT ![q] = r]
    BY <1>5 DEF Displace, Store, Erase, Unmark
  <2> QED
    BY <1>1, <2>1
<1>6. ASSUME NEW b \in Builders,
             Resolve(b) \/ PruneRead(b) \/ PruneDelete(b) \/ InsertVersion(b) \/ SyncPins(b)
      PROVE  Calm
  <2>1. req' = req /\ fact' = fact /\ bld[b].pc # "idle" /\ \E w : bld' = [bld EXCEPT ![b] = w]
    BY <1>6 DEF Resolve, PruneRead, PruneDelete, InsertVersion, SyncPins
  <2> QED
    BY <1>1, <2>1
<1>7. ASSUME FactWrite PROVE Calm
  BY <1>7 DEF FactWrite
<1>8. ASSUME Crash PROVE Noted
  BY <1>8 DEF Crash
<1> HIDE DEF Noted, Calm
<1>9. Noted \/ Calm
  BY <1>2, <1>3, <1>4, <1>5, <1>6, <1>7, <1>8 DEF Next
<1> QED
  BY <1>9 DEF Noted, Calm

LEMMA AloneNext ==
    ASSUME IInv, [Next]_vars
    PROVE  AloneInv'
<1>1. DOMAIN req = Reqs /\ DOMAIN bld = Builders /\ AloneInv /\ mixed \in BOOLEAN
  BY DEF IInv, ReqInv, BuildInv
<1>2. CASE mixed'
  BY <1>2 DEF AloneInv
<1>3. CASE ~mixed'
  <2>1. ~mixed
    BY <1>1, <1>3, MixedStays
  <2>2. CASE Idle /\ \/ \E q \in Reqs : \E r : req' = [req EXCEPT ![q] = r] /\ bld' = bld /\ fact' = fact
                     \/ \E b \in Builders : \E w : bld' = [bld EXCEPT ![b] = w] /\ req' = req /\ fact' = fact
                     \/ req' = req /\ bld' = bld
    BY <1>1, <2>2 DEF Idle, AloneInv
  <2>3. CASE /\ \A q \in Reqs : req[q].pc = "idle" => req'[q].pc = "idle"
             /\ \A b \in Builders : bld[b].pc = "idle" => bld'[b].pc = "idle"
             /\ fact.pc = "none" => fact'.pc = "none"
    BY <1>1, <2>1, <2>3 DEF AloneInv
  <2>4. CASE UNCHANGED vars
    BY <1>1, <2>4 DEF AloneInv, vars
  <2> QED
    BY <1>3, <2>2, <2>3, <2>4, BusyMoves
<1> QED
  BY <1>2, <1>3

\* Between the reading of the stale rows and the DELETE an undisturbed rebuild is alone.
LEMMA BansNext ==
    ASSUME IInv, [Next]_vars
    PROVE  BansInv'
<1>1. /\ DOMAIN req = Reqs /\ DOMAIN bld = Builders /\ AloneInv /\ BansInv /\ Table(fb)
      /\ mixed \in BOOLEAN /\ mixed' \in BOOLEAN
  BY FactNext DEF IInv, ReqInv, BuildInv, RowsInv
<1> SUFFICES ASSUME ~mixed', NEW b \in Builders, bld'[b].pc = "delete",
                    NEW x \in fb', x.sec = "route_stops", <<x.sec, x.key>> \in bld'[b].stale
             PROVE  x.vote # -1
  BY DEF BansInv
<1>2. ~mixed
  BY <1>1, MixedStays
<1>3. ASSUME NEW a \in Builders, PruneRead(a) PROVE x.vote # -1
  <2>1. /\ bld[a].pc = "prune" /\ fb' = fb
        /\ bld' = [bld EXCEPT ![a] = [pc |-> "delete", liked |-> bld[a].liked, cases |-> bld[a].cases,
                         stale |-> {<<y.sec, y.key>> : y \in Stale(bld[a].cases)}]]
    BY <1>3 DEF PruneRead
  <2>2. CASE a = b
    <3>1. bld'[b].stale = {<<y.sec, y.key>> : y \in Stale(bld[b].cases)}
      BY <1>1, <2>1, <2>2
    <3>2. PICK y \in Stale(bld[b].cases) : x.sec = y.sec /\ x.key = y.key
      BY <3>1
    <3>3. x = y
      BY <1>1, <2>1, <3>2 DEF Stale, Table
    <3> QED
      BY <3>2, <3>3 DEF Stale
  <2>3. CASE a # b
    <3>1. bld'[b] = bld[b]
      BY <1>1, <2>1, <2>3
    <3> QED
      BY <1>1, <1>2, <2>1, <2>3, <3>1 DEF AloneInv
  <2> QED
    BY <2>2, <2>3
<1>4. CASE bld'[b] = bld[b] /\ fb' \subseteq fb
  BY <1>1, <1>2, <1>4 DEF BansInv
<1>5. ASSUME NEW a \in Builders, Resolve(a) \/ PruneDelete(a) \/ InsertVersion(a) \/ SyncPins(a)
      PROVE  FALSE
  <2>1. /\ bld[a].pc # "idle" /\ bld'[a].pc # "delete"
        /\ \A c \in Builders \ {a} : bld'[c] = bld[c]
    <3>1. CASE Resolve(a)
      <4>1. bld[a].pc = "resolve" /\ Resolving(bld[a]) /\ BuildInv
        BY <3>1 DEF Resolve, IInv, BuildInv, Saving
      <4>2. PICK cs : bld' = [bld EXCEPT ![a] = [pc |-> "prune", liked |-> bld[a].liked, cases |-> cs]]
        BY <3>1, <4>1, ResolveEffect
      <4>3. bld'[a] = [pc |-> "prune", liked |-> bld[a].liked, cases |-> cs]
        BY <1>1, <4>2
      <4>4. \A c \in Builders \ {a} : bld'[c] = bld[c]
        BY <1>1, <4>2
      <4>5. bld'[a].pc = "prune"
        BY <4>3
      <4> QED
        BY <4>1, <4>4, <4>5
    <3>0. CASE PruneDelete(a)
      <4>1. PICK w : w = [pc |-> "insert", liked |-> bld[a].liked, cases |-> bld[a].cases,
                          num |-> Latest.num + 1]
        OBVIOUS
      <4>2. bld[a].pc = "delete" /\ bld' = [bld EXCEPT ![a] = w]
        BY <3>0, <4>1 DEF PruneDelete
      <4>3. bld'[a] = w /\ \A c \in Builders \ {a} : bld'[c] = bld[c]
        BY <1>1, <4>2
      <4>4. w.pc = "insert"
        BY <4>1
      <4> QED
        BY <4>2, <4>3, <4>4
    <3>2. CASE InsertVersion(a) \/ SyncPins(a)
      <4>1. PICK w : w = [pc |-> "sync", liked |-> bld[a].liked, cases |-> bld[a].cases]
        OBVIOUS
      <4>2. /\ bld[a].pc \in {"insert", "sync"}
            /\ bld' = [bld EXCEPT ![a] = IdleBuild] \/ bld' = [bld EXCEPT ![a] = w]
        BY <3>2, <4>1 DEF InsertVersion, SyncPins
      <4>3. /\ bld'[a] \in {IdleBuild, w}
            /\ \A c \in Builders \ {a} : bld'[c] = bld[c]
        BY <1>1, <4>2
      <4>4. IdleBuild.pc = "idle" /\ w.pc = "sync"
        BY <4>1 DEF IdleBuild
      <4> QED
        BY <4>2, <4>3, <4>4
    <3> QED
      BY <1>5, <3>0, <3>1, <3>2
  <2>2. a # b /\ bld'[b] = bld[b]
    BY <1>1, <2>1
  <2> QED
    BY <1>1, <1>2, <2>1, <2>2 DEF AloneInv
<1>6. ASSUME NEW q \in Reqs, Displace(q) \/ Store(q) \/ Erase(q) \/ Unmark(q) PROVE FALSE
  <2>1. req[q].pc # "idle" /\ bld' = bld
    BY <1>6 DEF Displace, Store, Erase, Unmark
  <2> QED
    BY <1>1, <1>2, <2>1 DEF AloneInv
<1>7. ASSUME NEW q \in Reqs, NEW k \in VoteKinds, BeginVote(q, k[1], k[2], k[3]) PROVE FALSE
  <2>1. Quiet /\ bld' = bld
    BY <1>7, BeginEffect
  <2> QED
    BY <2>1 DEF Quiet
<1>8. ASSUME NEW a \in Builders, NEW scope, BeginBuild(a, scope) PROVE FALSE
  <2>1. Quiet /\ \E w : Resolving(w) /\ bld' = [bld EXCEPT ![a] = w]
    BY <1>8, BeginBuildEffect
  <2> QED
    BY <1>1, <2>1 DEF Quiet, Resolving
<1>9. CASE FactRead \/ FactWrite \/ UNCHANGED vars
  <2>1. bld' = bld /\ fb' = fb
    BY <1>9 DEF FactRead, FactWrite, vars
  <2> QED
    BY <1>4, <2>1
<1>10. ~Crash
  BY DEF Crash
<1> QED
  BY <1>3, <1>5, <1>6, <1>7, <1>8, <1>9, <1>10 DEF Next

-----------------------------------------------------------------------------
(* Theorems                                                                *)

\* IInv, the inductive invariant.
THEOREM TripDataInvariant == Spec => []IInv
<1>1. IInv /\ [Next]_vars => IInv'
  BY VersNext, RowsNext, ReqNext, BuildNext, FactNext, RoomNext, LikesNext, AloneNext,
     BansNext DEF IInv
<1> QED
  BY <1>1, InitInv, PTL DEF Spec

\* The rows, requests and rebuilds have their types, and versions have room.
THEOREM TripDataTypes == Spec => []TypeOK
<1>1. IInv => TypeOK
  <2> SUFFICES ASSUME IInv PROVE TypeOK
    OBVIOUS
  <2>1. ASSUME NEW v \in DOMAIN vers
        PROVE  /\ vers[v].num \in 1..MaxVersions /\ vers[v].fact \in {"pending", "ready"}
               /\ vers[v].cases \in Seq([route : Routes, preserved : BOOLEAN])
    <3>1. vers[v] \in Versions /\ vers[v].num = v /\ Len(vers) \in Nat /\ v \in 1..Len(vers)
      BY DEF IInv, VersInv
    <3>2. Unsaved \in SUBSET Builders
      BY DEF Unsaved
    <3>3. Cardinality(Unsaved) \in Nat
      BY <3>2, Constants, FS_Subset, FS_CardinalityType
    <3>4. Len(vers) + Cardinality(Unsaved) <= MaxVersions /\ MaxVersions \in Nat
      BY Constants DEF IInv, RoomInv
    <3>5. vers[v].num \in 1..MaxVersions
      BY <3>1, <3>3, <3>4
    <3> QED
      BY <3>1, <3>5 DEF Versions, Cases, CaseSet
  <2>2. /\ \A x \in fb : /\ x.sec \in {"routes", "route_pins", "route_stops"}
                         /\ x.vote \in {1, -1}
                         /\ ~\E y \in fb : y # x /\ y.sec = x.sec /\ y.key = x.key
    BY DEF IInv, RowsInv, Table
  <2>3. \A q \in Reqs : req[q].pc \in {"idle", "displace", "store", "erase", "unmark"}
    BY DEF IInv, ReqInv, AtWork, IdleReq
  <2>4. \A b \in Builders : bld[b].pc \in {"idle", "resolve", "prune", "delete", "insert", "sync"}
    BY DEF IInv, BuildInv, Resolving, Saving
  <2>5. fact.pc \in {"none", "write"}
    BY DEF IInv, FactInv
  <2> QED
    BY <2>1, <2>2, <2>3, <2>4, <2>5 DEF TypeOK
<1> QED
  BY <1>1, TripDataInvariant, PTL

\* LatestIsNewest: the numbers of the versions are their places.
THEOREM LatestAlwaysNewest == Spec => []LatestIsNewest
<1>1. IInv => LatestIsNewest
  BY DEF IInv, VersInv, LatestIsNewest
<1> QED
  BY <1>1, TripDataInvariant, PTL

\* LikeCap: the likes that are written are among those that were counted.
THEOREM LikesAreCapped == Spec => []LikeCap
<1>1. IInv => LikeCap
  <2> SUFFICES ASSUME IInv PROVE LikeCap
    OBVIOUS
  <2>1. PICK W : W = Liked(fb) \union Coming
    OBVIOUS
  <2>2. IsFiniteSet(W) /\ Cardinality(W) <= MaxLikes + (IF mixed THEN Cardinality(Reqs) - 1 ELSE 0)
    BY <2>1 DEF IInv, LikesInv
  <2>3. PICK L \in SUBSET W : L = Liked(fb)
    BY <2>1
  <2>4. Cardinality(L) <= Cardinality(W) /\ Cardinality(L) \in Nat /\ Cardinality(W) \in Nat
    BY <2>2, FS_Subset, FS_CardinalityType
  <2>5. MaxLikes + (IF mixed THEN Cardinality(Reqs) - 1 ELSE 0) \in Int
    BY Constants
  <2>6. Cardinality(L) <= MaxLikes + (IF mixed THEN Cardinality(Reqs) - 1 ELSE 0)
    BY <2>2, <2>4, <2>5
  <2> QED
    BY <2>3, <2>6 DEF LikeCap
<1> QED
  BY <1>1, TripDataInvariant, PTL

\* RebuildKeepsPins: what the snapshot holds is preserved in the program, and pinned last.
THEOREM RebuildsKeepPins == Spec => RebuildKeepsPins
<1>1. ASSUME IInv, [Next]_vars
      PROVE  \A b \in Builders : SyncPins(b) =>
               /\ TextsOf(bld[b].liked) \subseteq Pins(fb')
               /\ TextsOf(bld[b].liked) \subseteq KeptIn(bld[b].cases)
  <2> SUFFICES ASSUME NEW b \in Builders, SyncPins(b)
               PROVE  /\ TextsOf(bld[b].liked) \subseteq Pins(fb')
                      /\ TextsOf(bld[b].liked) \subseteq KeptIn(bld[b].cases)
    OBVIOUS
  <2>1. TextsOf(bld[b].liked) \subseteq KeptIn(bld[b].cases)
    BY <1>1 DEF IInv, BuildInv, SyncPins, Resolving, Saving
  <2> QED
    BY <1>1, <2>1, SyncEffect
<1> QED
  BY <1>1, TripDataInvariant, PTL DEF Spec, RebuildKeepsPins

\* BansOutliveRebuilds: only a request that is at work deletes a dislike, as long as
\* nothing overlaps.
THEOREM BansAlwaysOutlive == Spec => BansOutliveRebuilds
<1>1. ASSUME IInv, [Next]_vars, ~mixed', NEW p \in Bans(fb) \ Bans(fb')
      PROVE  \E q \in Reqs : req[q].pc # "idle" /\ req[q].sec = "route_stops"
  <2>1. /\ mixed \in BOOLEAN /\ mixed' \in BOOLEAN /\ DOMAIN req = Reqs
    BY <1>1, FactNext DEF IInv, ReqInv
  <2>2. ~mixed
    BY <1>1, <2>1, MixedStays
  <2>3. PICK x \in fb : x.sec = "route_stops" /\ x.vote = -1 /\ x.key = p
    BY <1>1 DEF Bans, Section
  <2>4. x \notin fb'
    BY <1>1, <2>3 DEF Bans, Section
  <2>5. Section(fb', "route_stops") # Section(fb, "route_stops")
    BY <2>3, <2>4 DEF Section
  <2>6. ASSUME NEW q \in Reqs, Displace(q) \/ Store(q) \/ Erase(q) \/ Unmark(q)
        PROVE  req[q].pc # "idle" /\ req[q].sec = "route_stops"
    <3>1. req[q].pc # "idle"
      BY <2>6 DEF Displace, Store, Erase, Unmark
    <3>2. CASE Displace(q) \/ Erase(q) \/ Unmark(q)
      BY <2>3, <2>4, <3>1, <3>2 DEF Displace, Erase, Unmark
    <3>3. CASE Store(q)
      BY <1>1, <2>3, <2>4, <3>1, <3>3, StoreEffect
    <3> QED
      BY <2>6, <3>1, <3>2, <3>3
  <2>7. ASSUME NEW b \in Builders, PruneDelete(b) PROVE FALSE
    <3>1. bld[b].pc = "delete" /\ <<x.sec, x.key>> \in bld[b].stale
      BY <2>4, <2>7 DEF PruneDelete
    <3> QED
      BY <1>1, <2>2, <2>3, <3>1 DEF IInv, BansInv
  <2>8. ASSUME NEW b \in Builders, Resolve(b) \/ PruneRead(b) \/ InsertVersion(b) PROVE FALSE
    BY <2>4, <2>8 DEF Resolve, PruneRead, InsertVersion
  <2>9. ASSUME NEW b \in Builders, SyncPins(b) PROVE FALSE
    BY <1>1, <2>5, <2>9, SyncEffect
  <2>10. ASSUME NEW b \in Builders, NEW scope, BeginBuild(b, scope) PROVE FALSE
    BY <1>1, <2>5, <2>10, BeginBuildEffect
  <2>11. ASSUME NEW q \in Reqs, NEW k \in VoteKinds, BeginVote(q, k[1], k[2], k[3]) PROVE FALSE
    BY <1>1, <2>5, <2>11, BeginEffect
  <2>12. ~FactRead /\ ~FactWrite /\ ~Crash /\ ~UNCHANGED vars
    BY <2>4 DEF FactRead, FactWrite, Crash, vars
  <2> QED
    BY <1>1, <2>6, <2>7, <2>8, <2>9, <2>10, <2>11, <2>12 DEF Next
<1>2. IInv /\ [Next]_vars =>
        (~mixed' => \A p \in Bans(fb) \ Bans(fb') :
            \E q \in Reqs : req[q].pc # "idle" /\ req[q].sec = "route_stops")
  BY <1>1
<1> QED
  BY <1>2, TripDataInvariant, PTL DEF Spec, BansOutliveRebuilds

\* FactStays: a version that has its fact keeps it, whatever is patched.
THEOREM FactsAlwaysStay == Spec => FactStays
<1>1. ASSUME IInv, [Next]_vars, NEW v \in DOMAIN vers, vers[v].fact = "ready"
      PROVE  vers'[v].fact = "ready"
  <2>1. vers \in Seq(Versions)
    BY <1>1 DEF IInv, VersInv
  <2>2. CASE vers' = vers
    BY <1>1, <2>2
  <2>3. CASE Patch
    BY <1>1, <2>3 DEF Patch
  <2>4. ASSUME NEW b \in Builders, InsertVersion(b), vers' # vers
        PROVE  vers'[v] = vers[v]
    <3>1. PICK new : vers' = Append(vers, new)
      BY <1>1, <2>4, InsertEffect
    <3> QED
      BY <2>1, <3>1
  <2>5. CASE vers' # vers
    <3>1. Next
      BY <1>1, <2>5 DEF vars
    <3> QED
      BY <1>1, <2>3, <2>4, <2>5, <3>1, VersKept, UnmarkPatches, FactWritePatches
  <2> QED
    BY <2>2, <2>5
<1>2. IInv /\ [Next]_vars => \A v \in DOMAIN vers : vers[v].fact = "ready" => vers'[v].fact = "ready"
  BY <1>1
<1> QED
  BY <1>2, TripDataInvariant, PTL DEF Spec, FactStays

-----------------------------------------------------------------------------
(* The versions are a log                                                  *)

\* What a request or the fact patch is about to write has the routes of the version
\* it writes into.
SameRoutes(ver, cases) == ver \in DOMAIN vers /\ RouteSeq(vers[ver].cases) = RouteSeq(cases)
ReadInv ==
    /\ \A q \in Reqs : req[q].pc # "idle" => SameRoutes(req[q].ver, req[q].program.cases)
    /\ fact.pc = "write" => SameRoutes(fact.ver, fact.cases)

\* Rows stay with their routes.
Kept == \A v \in DOMAIN vers : v \in DOMAIN vers' /\ Shown'[v] = Shown[v]

LEMMA ShownIs ==
    /\ DOMAIN Shown = DOMAIN vers
    /\ \A v \in DOMAIN vers : Shown[v] = RouteSeq(vers[v].cases)
BY DEF Shown

LEMMA ShownNext ==
    /\ DOMAIN Shown' = DOMAIN vers'
    /\ \A v \in DOMAIN vers' : Shown'[v] = RouteSeq(vers'[v].cases)
BY DEF Shown

LEMMA UnmarkKeeps ==
    ASSUME IInv, ReadInv, NEW q \in Reqs, Unmark(q)
    PROVE  Kept /\ DOMAIN vers' = DOMAIN vers /\ Ready' = Ready
<1> DEFINE c == req[q].program.cases
           i == req[q].idx
           d == [c EXCEPT ![i].preserved = FALSE]
           ver == req[q].ver
<1>1. SameRoutes(ver, c)
  BY DEF ReadInv, Unmark
<1>2. vers' = vers \/ vers' = [vers EXCEPT ![ver].cases = d]
  BY DEF Unmark
<1>3. c \in Cases
  <2>1. AtWork(req[q])
    BY DEF IInv, ReqInv, Unmark, IdleReq
  <2> QED
    BY <2>1 DEF AtWork, Versions
<1>4. RouteSeq(d) = RouteSeq(c)
  <2>1. \A j \in DOMAIN c : c[j] \in CaseSet
    BY <1>3, CasesAre
  <2> HIDE DEF c, i
  <2>2. DOMAIN d = DOMAIN c
    OBVIOUS
  <2>3. \A j \in DOMAIN c : d[j] = IF j = i THEN [c[j] EXCEPT !.preserved = FALSE] ELSE c[j]
    OBVIOUS
  <2>4. \A j \in DOMAIN c : d[j].route = c[j].route
    BY <2>1, <2>3 DEF CaseSet
  <2> HIDE DEF d
  <2> QED
    BY <2>2, <2>4 DEF RouteSeq
<1> HIDE DEF c, d, ver
<1>5. CASE vers' = vers
  BY <1>5 DEF Kept, Ready, Shown
<1>6. CASE vers' = [vers EXCEPT ![ver].cases = d]
  <2>1. \A v \in DOMAIN vers : vers[v] \in Versions
    BY DEF IInv, VersInv
  <2>2. /\ DOMAIN vers' = DOMAIN vers
        /\ \A v \in DOMAIN vers :
             vers'[v] = IF v = ver THEN [vers[v] EXCEPT !.cases = d] ELSE vers[v]
    BY <1>6
  <2>3. \A v \in DOMAIN vers :
          /\ vers'[v].fact = vers[v].fact
          /\ vers'[v].cases = IF v = ver THEN d ELSE vers[v].cases
    BY <2>1, <2>2 DEF Versions
  <2>4. \A v \in DOMAIN vers : RouteSeq(vers'[v].cases) = RouteSeq(vers[v].cases)
    BY <1>1, <1>4, <2>3 DEF SameRoutes
  <2>5. Kept
    BY <2>2, <2>4, ShownIs, ShownNext DEF Kept
  <2>6. Ready' = Ready
    BY <2>2, <2>3 DEF Ready
  <2> QED
    BY <2>2, <2>5, <2>6
<1> QED
  BY <1>2, <1>5, <1>6

LEMMA FactWriteKeeps ==
    ASSUME IInv, ReadInv, FactWrite
    PROVE  /\ Kept /\ DOMAIN vers' = DOMAIN vers
           /\ Ready' = Ready \union {fact.ver} /\ fact.ver \in DOMAIN vers
<1>1. /\ SameRoutes(fact.ver, fact.cases)
      /\ vers' = [vers EXCEPT ![fact.ver].cases = fact.cases, ![fact.ver].fact = "ready"]
  BY DEF ReadInv, FactWrite
<1>2. PICK ver, d : ver = fact.ver /\ d = fact.cases
  OBVIOUS
<1>3. PICK mid : mid = [vers EXCEPT ![ver].cases = d]
  OBVIOUS
<1>4. vers' = [mid EXCEPT ![ver].fact = "ready"]
  BY <1>1, <1>2, <1>3
<1>5. \A v \in DOMAIN vers : vers[v] \in Versions
  BY DEF IInv, VersInv
<1>6. /\ DOMAIN mid = DOMAIN vers
      /\ \A v \in DOMAIN vers : mid[v] = IF v = ver THEN [vers[v] EXCEPT !.cases = d] ELSE vers[v]
  BY <1>3
<1>7. /\ DOMAIN vers' = DOMAIN vers
      /\ \A v \in DOMAIN vers :
           vers'[v] = IF v = ver THEN [mid[v] EXCEPT !.fact = "ready"] ELSE mid[v]
  BY <1>4, <1>6
<1>8. ASSUME NEW v \in DOMAIN vers
      PROVE  /\ vers'[v].fact = IF v = ver THEN "ready" ELSE vers[v].fact
             /\ vers'[v].cases = IF v = ver THEN d ELSE vers[v].cases
  <2>1. CASE v = ver
    <3>1. mid[v] = [vers[v] EXCEPT !.cases = d] /\ vers'[v] = [mid[v] EXCEPT !.fact = "ready"]
      BY <1>6, <1>7, <2>1
    <3> QED
      BY <1>5, <2>1, <3>1 DEF Versions
  <2>2. CASE v # ver
    BY <1>6, <1>7, <2>2
  <2> QED
    BY <2>1, <2>2
<1>9. \A v \in DOMAIN vers : RouteSeq(vers'[v].cases) = RouteSeq(vers[v].cases)
  BY <1>1, <1>2, <1>8 DEF SameRoutes
<1>10. Kept
  BY <1>7, <1>9, ShownIs, ShownNext DEF Kept
<1>11. Ready' = Ready \union {ver}
  BY <1>1, <1>2, <1>7, <1>8 DEF Ready, SameRoutes
<1> QED
  BY <1>1, <1>2, <1>7, <1>10, <1>11 DEF SameRoutes

LEMMA InsertKeeps ==
    ASSUME IInv, NEW b \in Builders, InsertVersion(b), vers' # vers
    PROVE  /\ Kept /\ Ready' = Ready
           /\ Len(vers) \in Nat /\ DOMAIN vers = 1..Len(vers)
           /\ DOMAIN vers' = 1..(Len(vers) + 1) /\ Len(vers') = Len(vers) + 1
<1>1. PICK new : /\ vers' = Append(vers, new)
                 /\ new = [num |-> Len(vers) + 1, fact |-> "pending", cases |-> bld[b].cases]
  BY InsertEffect
<1>2. vers \in Seq(Versions) /\ vers' \in Seq(Versions)
  <2>1. [Next]_vars
    BY DEF Next
  <2> QED
    BY <2>1, VersNext DEF IInv, VersInv
<1>3. /\ Len(vers) \in Nat /\ DOMAIN vers = 1..Len(vers)
      /\ DOMAIN vers' = 1..(Len(vers) + 1) /\ Len(vers') = Len(vers) + 1
      /\ \A v \in DOMAIN vers : v \in DOMAIN vers' /\ vers'[v] = vers[v]
      /\ vers'[Len(vers) + 1] = new
  BY <1>1, <1>2
<1>4. Kept
  BY <1>3, ShownIs, ShownNext DEF Kept
<1>5. new.fact # "ready"
  BY <1>1
<1>6. \A v \in DOMAIN vers' : v \in DOMAIN vers \/ v = Len(vers) + 1
  BY <1>3
<1>7. Ready' = Ready
  BY <1>3, <1>5, <1>6 DEF Ready
<1> QED
  BY <1>3, <1>4, <1>7

LEMMA RoutesKept ==
    ASSUME IInv, ReadInv, [Next]_vars
    PROVE  Kept
<1>1. CASE vers' = vers
  BY <1>1 DEF Kept, Shown
<1>2. CASE vers' # vers
  <2>1. Next
    BY <1>2 DEF vars
  <2> QED
    BY <1>2, <2>1, VersKept, UnmarkKeeps, FactWriteKeeps, InsertKeeps
<1> QED
  BY <1>1, <1>2

LEMMA BuildersWrite ==
    ASSUME NEW b \in Builders,
           \/ \E scope \in {"routes", "full"} : BeginBuild(b, scope)
           \/ Resolve(b) \/ PruneRead(b) \/ PruneDelete(b) \/ InsertVersion(b) \/ SyncPins(b)
    PROVE  req' = req /\ fact' = fact
<1>1. ASSUME NEW scope, BeginBuild(b, scope) PROVE req' = req /\ fact' = fact
  BY <1>1 DEF BeginBuild
<1>2. CASE Resolve(b)
  <2>1. UNCHANGED <<vers, fb, req, fact, votes, mixed>>
    BY <1>2, Zenon DEF Resolve
  <2> QED
    BY <2>1
<1>3. CASE PruneRead(b) \/ PruneDelete(b) \/ InsertVersion(b) \/ SyncPins(b)
  BY <1>3 DEF PruneRead, PruneDelete, InsertVersion, SyncPins
<1> QED
  BY <1>1, <1>2, <1>3

\* A request keeps what it read when it began, and writes it last.
LEMMA ReadsStay ==
    ASSUME IInv, [Next]_vars, NEW q \in Reqs, req'[q].pc # "idle"
    PROVE  \/ /\ req[q].pc # "idle"
              /\ req'[q].ver = req[q].ver /\ req'[q].program = req[q].program
           \/ vers' = vers /\ req'[q].ver = LatestId /\ req'[q].program = Latest
<1> DEFINE Same == /\ req[q].pc # "idle"
                   /\ req'[q].ver = req[q].ver /\ req'[q].program = req[q].program
<1>1. DOMAIN req = Reqs /\ \A p \in Reqs : req[p] = IdleReq \/ AtWork(req[p])
  BY DEF IInv, ReqInv
<1>2. CASE req' = req
  BY <1>2
<1>3. ASSUME NEW p \in Reqs, NEW k \in VoteKinds, BeginVote(p, k[1], k[2], k[3])
      PROVE  Same \/ (vers' = vers /\ req'[q].ver = LatestId /\ req'[q].program = Latest)
  <2>1. /\ vers' = vers
        /\ \/ req' = req
           \/ \E r : r.ver = LatestId /\ r.program = Latest /\ req' = [req EXCEPT ![p] = r]
    <3> DEFINE stops == k[1] = "route_stops"
               items == IF stops THEN Stops(Latest.cases) ELSE RouteSeq(Latest.cases)
               rows == IF stops THEN fb ELSE Migrate(fb, Latest.cases)
               r == [pc |-> IF k[3] = 0 THEN "erase" ELSE "displace",
                     sec |-> k[1], key |-> k[2], vote |-> k[3], idx |-> IndexOf(items, k[2]),
                     ver |-> LatestId, program |-> Latest]
    <3>1. /\ vers' = vers
          /\ req' = IF k[3] = 1 /\ Full(rows, k[1], k[2]) THEN req ELSE [req EXCEPT ![p] = r]
      BY <1>3 DEF BeginVote
    <3>2. r.ver = LatestId /\ r.program = Latest
      OBVIOUS
    <3> HIDE DEF r, rows
    <3> QED
      BY <3>1, <3>2
  <2> QED
    BY <1>1, <2>1
<1>4. ASSUME NEW p \in Reqs, Displace(p) \/ Erase(p) PROVE Same
  <2>1. AtWork(req[p]) /\ req[p].pc # "idle"
    BY <1>1, <1>4 DEF Displace, Erase, IdleReq
  <2>2. PICK r, s : r = [req[p] EXCEPT !.pc = "store"] /\ s = [req[p] EXCEPT !.pc = "unmark"]
    OBVIOUS
  <2>3. /\ r.ver = req[p].ver /\ r.program = req[p].program
        /\ s.ver = req[p].ver /\ s.program = req[p].program
    BY <2>1, <2>2 DEF AtWork
  <2>4. \/ req' = [req EXCEPT ![p] = r] \/ req' = [req EXCEPT ![p] = s]
        \/ req' = [req EXCEPT ![p] = IdleReq]
    BY <1>4, <2>2 DEF Displace, Erase
  <2> QED
    BY <1>1, <2>1, <2>3, <2>4 DEF IdleReq
<1>5. ASSUME NEW p \in Reqs, Store(p) \/ Unmark(p) PROVE Same
  BY <1>1, <1>5 DEF Store, Unmark, IdleReq
<1>6. CASE Crash
  BY <1>1, <1>6 DEF Crash, IdleReq
<1>7. ASSUME NEW b \in Builders,
             \/ \E scope \in {"routes", "full"} : BeginBuild(b, scope)
             \/ Resolve(b) \/ PruneRead(b) \/ PruneDelete(b) \/ InsertVersion(b) \/ SyncPins(b)
      PROVE  req' = req
  BY <1>7, BuildersWrite
<1>8. CASE FactRead \/ FactWrite \/ UNCHANGED vars
  BY <1>2, <1>8 DEF FactRead, FactWrite, vars
<1> QED
  BY <1>2, <1>3, <1>4, <1>5, <1>6, <1>7, <1>8 DEF Next

LEMMA FactStaysOrReads ==
    ASSUME [Next]_vars, fact'.pc = "write"
    PROVE  \/ fact' = fact
           \/ vers' = vers /\ fact'.ver = LatestId /\ fact'.cases = Latest.cases
<1>1. ASSUME NEW q \in Reqs, NEW k, BeginVote(q, k[1], k[2], k[3]) PROVE fact' = fact
  BY <1>1 DEF BeginVote
<1>2. ASSUME NEW q \in Reqs, Displace(q) \/ Store(q) \/ Erase(q) \/ Unmark(q) PROVE fact' = fact
  BY <1>2 DEF Displace, Store, Erase, Unmark
<1>3. ASSUME NEW b \in Builders,
             \/ \E scope \in {"routes", "full"} : BeginBuild(b, scope)
             \/ Resolve(b) \/ PruneRead(b) \/ PruneDelete(b) \/ InsertVersion(b) \/ SyncPins(b)
      PROVE  fact' = fact
  BY <1>3, BuildersWrite
<1>4. CASE FactRead
  BY <1>4 DEF FactRead
<1>5. ~FactWrite
  BY DEF FactWrite
<1>6. CASE Crash \/ UNCHANGED vars
  BY <1>6 DEF Crash, vars
<1> QED
  BY <1>1, <1>2, <1>3, <1>4, <1>5, <1>6 DEF Next

LEMMA ReadNext ==
    ASSUME IInv, ReadInv, [Next]_vars
    PROVE  ReadInv'
<1>1. \A v \in DOMAIN vers : v \in DOMAIN vers' /\ RouteSeq(vers'[v].cases) = RouteSeq(vers[v].cases)
  BY RoutesKept, ShownIs, ShownNext DEF Kept
<1>2. LatestId \in DOMAIN vers /\ Latest = vers[LatestId]
  BY LatestIs DEF IInv, Latest
<1>3. ASSUME NEW q \in Reqs, req'[q].pc # "idle"
      PROVE  SameRoutes(req[q].ver, req[q].program.cases)'
  BY <1>1, <1>2, <1>3, ReadsStay DEF ReadInv, SameRoutes
<1>4. ASSUME fact'.pc = "write" PROVE SameRoutes(fact.ver, fact.cases)'
  BY <1>1, <1>2, <1>4, FactStaysOrReads DEF ReadInv, SameRoutes
<1> QED
  BY <1>3, <1>4 DEF ReadInv, SameRoutes

LEMMA LatestIsLast == VersInv => LatestId = Len(vers)
BY LatestIs

LEMMA LogInit ==
    ASSUME Init
    PROVE  ReadInv /\ Log!Init
<1>1. IInv /\ req = [q \in Reqs |-> IdleReq] /\ fact = [pc |-> "none"]
  BY InitInv DEF Init
<1>2. ReadInv
  BY <1>1 DEF ReadInv, IdleReq
<1>3. PICK row : vers = <<row>> /\ row.fact = "pending"
  <2>1. PICK row : row = [num |-> 1, fact |-> "pending",
                          cases |-> [i \in DOMAIN First |-> Case(First[i], FALSE)]]
    OBVIOUS
  <2>2. vers = <<row>> /\ row.fact = "pending"
    BY <2>1 DEF Init
  <2> QED
    BY <2>2
<1>4. Len(vers) = 1 /\ DOMAIN vers = {1} /\ vers[1].fact = "pending" /\ 1..1 = {1}
  BY <1>3
<1>5. LatestId = 1 /\ DOMAIN Shown = 1..1
  BY <1>1, <1>4, LatestIs, ShownIs DEF IInv
<1>6. Ready = {}
  BY <1>4 DEF Ready
<1> QED
  BY <1>2, <1>5, <1>6 DEF Log!Init

LEMMA LogNext ==
    ASSUME IInv, ReadInv, [Next]_vars
    PROVE  [Log!Next]_(Log!vars)
<1>1. VersInv /\ VersInv'
  BY VersNext DEF IInv
<1>2. /\ LatestId = Len(vers) /\ LatestId' = Len(vers') /\ Len(vers) \in Nat
      /\ DOMAIN vers = 1..Len(vers)
  <2>1. LatestId = Len(vers)
    BY <1>1, LatestIs
  <2>2. (VersInv => LatestId = Len(vers))'
    BY LatestIsLast, PTL
  <2> QED
    BY <1>1, <2>1, <2>2 DEF VersInv
<1>3. DOMAIN Shown = DOMAIN vers /\ DOMAIN Shown' = DOMAIN vers'
  BY ShownIs, ShownNext
<1>4. CASE vers' = vers
  BY <1>4 DEF Log!vars, Shown, Ready, LatestId
<1>5. ASSUME Kept, DOMAIN vers' = DOMAIN vers PROVE Shown' = Shown /\ LatestId' = LatestId
  <2>1. Shown' = Shown
    BY <1>5 DEF Kept, Shown
  <2>2. Len(vers') = Len(vers)
    BY <1>1, <1>5 DEF VersInv
  <2> QED
    BY <1>2, <2>1, <2>2
<1>6. ASSUME NEW q \in Reqs, Unmark(q) PROVE UNCHANGED Log!vars
  BY <1>5, <1>6, UnmarkKeeps DEF Log!vars
<1>7. ASSUME FactWrite PROVE Log!Next \/ UNCHANGED Log!vars
  <2>1. /\ Kept /\ DOMAIN vers' = DOMAIN vers
        /\ Ready' = Ready \union {fact.ver} /\ fact.ver \in DOMAIN Shown
    BY <1>3, <1>7, FactWriteKeeps
  <2>2. CASE fact.ver \in Ready
    BY <1>5, <2>1, <2>2 DEF Log!vars
  <2>3. CASE fact.ver \notin Ready
    BY <1>5, <2>1, <2>3 DEF Log!Next, Log!Settle
  <2> QED
    BY <2>2, <2>3
<1>8. ASSUME NEW b \in Builders, InsertVersion(b), vers' # vers PROVE Log!Next
  <2>1. /\ Kept /\ Ready' = Ready
        /\ DOMAIN vers' = 1..(Len(vers) + 1) /\ Len(vers') = Len(vers) + 1
    BY <1>8, InsertKeeps
  <2>2. LatestId' = LatestId + 1 /\ DOMAIN Shown' = 1..(LatestId + 1)
    BY <1>2, <1>3, <2>1
  <2>3. \A v \in DOMAIN Shown : Shown'[v] = Shown[v]
    BY <1>3, <2>1 DEF Kept
  <2> QED
    BY <2>1, <2>2, <2>3 DEF Log!Next, Log!Save
<1>9. CASE vers' # vers
  <2>1. Next
    BY <1>9 DEF vars
  <2> QED
    BY <1>6, <1>7, <1>8, <1>9, <2>1, VersKept
<1> QED
  BY <1>4, <1>9

\* VersionsAreALog: whoever writes a version writes the routes it has, since what was read
\* of a version and the version itself never differ in their routes (ReadInv).
THEOREM VersionsAlwaysALog == Spec => VersionsAreALog
<1>1. IInv /\ ReadInv /\ [Next]_vars => ReadInv' /\ [Log!Next]_(Log!vars)
  BY ReadNext, LogNext
<1>2. Init => ReadInv /\ Log!Init
  BY LogInit
<1> QED
  BY <1>1, <1>2, TripDataInvariant, PTL DEF Spec, VersionsAreALog, Log!Spec

=============================================================================
