-------------------------- MODULE AgentBuildProofs --------------------------
(***************************************************************************)
(* What holds of the agent graph and of the routes it makes for every set  *)
(* of places, pools, drafts and votes: the rules make three routes of      *)
(* places of the pool, each once, none of the same name and none disliked, *)
(* whatever draft they start from; and the critic's loop ends.             *)
(***************************************************************************)
EXTENDS AgentBuild, FiniteSetTheorems, SequenceTheorems, WellFoundedInduction, TLAPS

-----------------------------------------------------------------------------
(* Least elements and folds                                                *)

LEMMA Least ==
    ASSUME NEW T \in SUBSET Nat, T # {}
    PROVE  \E x \in T : \A y \in T : x <= y
<1> DEFINE R == {ss \in Nat \X Nat : ss[1] < ss[2]}
<1>1. OpToRel(<, Nat) = R
  BY DEF OpToRel
<1>2. IsWellFoundedOn(R, Nat)
  BY <1>1, NatLessThanWellFounded
<1> HIDE DEF R
<1>3. PICK x \in T : \A y \in T : <<y, x>> \notin R
  BY <1>2, WFMin
<1>4. ASSUME NEW y \in T PROVE x <= y
  <2>1. <<y, x>> \in Nat \X Nat
    OBVIOUS
  <2>2. ~(y < x)
    BY <1>3, <2>1 DEF R
  <2> QED
    BY <2>2
<1> QED
  BY <1>4

LEMMA LeastByIn ==
    ASSUME NEW A \in SUBSET Nat, A # {}, NEW key, \A i \in A : key[i] \in Nat
    PROVE  LeastBy(A, key) \in A
<1> DEFINE K == {key[i] : i \in A}
           T == {i \in A : \A j \in A : key[i] <= key[j]}
<1>1. PICK m \in K : \A n \in K : m <= n
  <2>1. K \in SUBSET Nat /\ K # {}
    OBVIOUS
  <2> HIDE DEF K
  <2> QED
    BY <2>1, Least
<1>2. T \in SUBSET Nat /\ T # {}
  <2>1. PICK i \in A : key[i] = m
    OBVIOUS
  <2>2. \A j \in A : m <= key[j]
    BY <1>1
  <2> QED
    BY <2>1, <2>2
<1> HIDE DEF T
<1>3. PICK i \in T : \A j \in T : i <= j
  BY <1>2, Least
<1>4. i \in A /\ \A j \in A : key[i] < key[j] \/ (key[i] = key[j] /\ i <= j)
  BY <1>3 DEF T
<1> QED
  BY <1>4 DEF LeastBy

\* The states of a fold: the one before element k is in P[k - 1].
LEMMA FoldGoes ==
    ASSUME NEW f, NEW base, NEW seq, Len(seq) \in Nat, NEW P, base \in P[0],
           \A k \in 1..Len(seq) : \A x : x \in P[k - 1] => f[x][seq[k]] \in P[k]
    PROVE  Fold(f, base, seq) \in P[Len(seq)]
<1> DEFINE n == Len(seq)
           Run(g, m) == g = [k \in 0..m |-> IF k = 0 THEN base ELSE f[g[k - 1]][seq[k]]]
           None == {m \in 0..n : ~\E g : Run(g, m)}
<1>1. None = {}
  <2> SUFFICES ASSUME None # {} PROVE FALSE
    OBVIOUS
  <2>1. PICK m \in None : \A j \in None : m <= j
    <3>1. None \in SUBSET Nat
      OBVIOUS
    <3> HIDE DEF None
    <3> QED
      BY <3>1, Least
  <2>2. m # 0
    <3>1. Run([k \in 0..0 |-> base], 0)
      OBVIOUS
    <3> QED
      BY <3>1
  <2>3. m - 1 \in 0..n /\ m - 1 \notin None
    <3>1. m \in 0..n /\ m - 1 \in 0..n /\ ~(m <= m - 1)
      BY <2>1, <2>2
    <3> HIDE DEF None
    <3> QED
      BY <2>1, <3>1
  <2>4. PICK g : Run(g, m - 1)
    BY <2>3
  <2> DEFINE h == [k \in 0..m |-> IF k = m THEN f[g[m - 1]][seq[m]] ELSE g[k]]
  <2>5. ASSUME NEW k \in 0..m
        PROVE  h[k] = IF k = 0 THEN base ELSE f[h[k - 1]][seq[k]]
    <3>1. CASE k = m
      BY <2>2, <3>1
    <3>2. CASE k # m
      <4>1. k \in 0..(m - 1) /\ h[k] = g[k] /\ (k # 0 => k - 1 \in 0..m /\ h[k - 1] = g[k - 1])
        BY <3>2
      <4>2. g[k] = IF k = 0 THEN base ELSE f[g[k - 1]][seq[k]]
        BY <2>4, <4>1
      <4> QED
        BY <4>1, <4>2
    <3> QED
      BY <3>1, <3>2
  <2>6. Run(h, m)
    <3>1. h = [k \in 0..m |-> h[k]]
      OBVIOUS
    <3> HIDE DEF h
    <3> QED
      BY <2>5, <3>1
  <2> QED
    BY <2>1, <2>6
<1>2. PICK g : Run(g, n)
  BY <1>1
<1> DEFINE acc == CHOOSE h : Run(h, n)
<1>3. Run(acc, n) /\ Fold(f, base, seq) = acc[n]
  BY <1>2 DEF Fold
<1> HIDE DEF acc
<1> DEFINE Bad == {k \in 0..n : acc[k] \notin P[k]}
<1>4. Bad = {}
  <2> SUFFICES ASSUME Bad # {} PROVE FALSE
    OBVIOUS
  <2>1. PICK k \in Bad : \A j \in Bad : k <= j
    <3>1. Bad \in SUBSET Nat
      OBVIOUS
    <3> HIDE DEF Bad
    <3> QED
      BY <3>1, Least
  <2>2. k # 0
    BY <1>3, <2>1
  <2>3. k - 1 \in 0..n /\ acc[k - 1] \in P[k - 1]
    BY <2>1, <2>2
  <2>4. acc[k] = f[acc[k - 1]][seq[k]]
    BY <1>3, <2>1, <2>2
  <2> QED
    BY <2>1, <2>2, <2>3, <2>4
<1>5. n \in 0..n /\ n \notin Bad
  BY <1>4
<1> QED
  BY <1>3, <1>5

StaysIn(f, X, E) == \A x \in X, e \in E : f[x][e] \in X

LEMMA FoldStays ==
    ASSUME NEW X, NEW f, NEW base \in X, NEW E, NEW seq \in Seq(E), StaysIn(f, X, E)
    PROVE  Fold(f, base, seq) \in X
<1> DEFINE P == [k \in 0..Len(seq) |-> X]
<1>1. Len(seq) \in Nat /\ \A k \in 1..Len(seq) : seq[k] \in E
  OBVIOUS
<1>2. \A k \in 1..Len(seq) : \A x : x \in P[k - 1] => f[x][seq[k]] \in P[k]
  BY <1>1 DEF StaysIn
<1>3. base \in P[0]
  BY <1>1
<1> HIDE DEF P
<1>4. Fold(f, base, seq) \in P[Len(seq)]
  BY <1>1, <1>2, <1>3, FoldGoes
<1> QED
  BY <1>1, <1>4 DEF P

LEMMA RepeatGoes ==
    ASSUME NEW f, NEW x, NEW n \in Nat, NEW P, x \in P[0],
           \A k \in 1..n : P[k - 1] \subseteq DOMAIN f,
           \A k \in 1..n : \A y : y \in P[k - 1] => f[y] \in P[k]
    PROVE  Repeat(f, x, n) \in P[n]
<1> DEFINE g == [y \in DOMAIN f |-> [k \in Nat |-> f[y]]]
           seq == [k \in 1..n |-> k]
<1>1. Len(seq) = n /\ \A k \in 1..n : seq[k] = k
  OBVIOUS
<1>2. \A k \in 1..n : \A y : y \in P[k - 1] => g[y][seq[k]] \in P[k]
  BY <1>1
<1>3. Repeat(f, x, n) = Fold(g, x, seq)
  BY DEF Repeat
<1> HIDE DEF g, seq
<1> QED
  BY <1>1, <1>2, <1>3, FoldGoes

ClosedUnder(f, X) == X \subseteq DOMAIN f /\ \A y \in X : f[y] \in X

LEMMA RepeatStays ==
    ASSUME NEW f, NEW X, NEW x \in X, NEW n \in Nat, ClosedUnder(f, X)
    PROVE  Repeat(f, x, n) \in X
<1> DEFINE P == [k \in 0..n |-> X]
<1>1. x \in P[0] /\ P[n] = X
  OBVIOUS
<1>2. /\ \A k \in 1..n : P[k - 1] \subseteq DOMAIN f
      /\ \A k \in 1..n : \A y : y \in P[k - 1] => f[y] \in P[k]
  BY DEF ClosedUnder
<1> HIDE DEF P
<1> QED
  BY <1>1, <1>2, RepeatGoes

-----------------------------------------------------------------------------
(* Sequences without repetition, and tours                                 *)

Plain(p) == \A i, j \in DOMAIN p : p[i] = p[j] => i = j

LEMMA SeqWider ==
    ASSUME NEW B, NEW A \in SUBSET B
    PROVE  Seq(A) \subseteq Seq(B)
OBVIOUS

LEMMA RangeOf ==
    ASSUME NEW A, NEW p \in Seq(A)
    PROVE  ToSet(p) \in SUBSET A /\ p \in Seq(ToSet(p)) /\ \A k \in 1..Len(p) : p[k] \in ToSet(p)
BY DEF ToSet

LEMMA FiniteRange ==
    ASSUME NEW A, NEW p \in Seq(A)
    PROVE  /\ IsFiniteSet(ToSet(p)) /\ Cardinality(ToSet(p)) \in Nat
           /\ Cardinality(ToSet(p)) <= Len(p)
           /\ Plain(p) <=> Cardinality(ToSet(p)) = Len(p)
<1>0. Len(p) \in Nat /\ 1 \in Int /\ (IF 1 > Len(p) THEN 0 ELSE Len(p) - 1 + 1) = Len(p)
  OBVIOUS
<1>1. IsFiniteSet(1..Len(p)) /\ Cardinality(1..Len(p)) = Len(p)
  BY <1>0, FS_Interval
<1>2. p \in Surjection(1..Len(p), ToSet(p))
  BY DEF Surjection, ToSet
<1>3. /\ IsFiniteSet(ToSet(p)) /\ Cardinality(ToSet(p)) <= Len(p)
      /\ Cardinality(ToSet(p)) = Len(p) <=> p \in Injection(1..Len(p), ToSet(p))
  BY <1>1, <1>2, FS_Surjection
<1>4. Plain(p) <=> p \in Injection(1..Len(p), ToSet(p))
  BY <1>2 DEF Plain, Injection, IsInjective, Surjection
<1> QED
  BY <1>3, <1>4, FS_CardinalityType

LEMMA Added ==
    ASSUME NEW A, NEW p \in Seq(A), NEW e \in A
    PROVE  /\ Append(p, e) \in Seq(A) /\ Len(Append(p, e)) = Len(p) + 1
           /\ ToSet(Append(p, e)) = ToSet(p) \union {e}
           /\ Plain(p) /\ e \notin ToSet(p) => Plain(Append(p, e))
<1> DEFINE r == Append(p, e)
<1>1. /\ r \in Seq(A) /\ Len(r) = Len(p) + 1 /\ DOMAIN r = 1..(Len(p) + 1)
      /\ \A k \in 1..Len(p) : r[k] = p[k]
      /\ r[Len(p) + 1] = e /\ DOMAIN p = 1..Len(p) /\ Len(p) \in Nat
  OBVIOUS
<1> HIDE DEF r
<1>2. ToSet(r) = ToSet(p) \union {e}
  <2>1. ASSUME NEW k \in DOMAIN r PROVE r[k] \in ToSet(p) \union {e}
    <3>1. CASE k = Len(p) + 1
      BY <1>1, <3>1
    <3>2. CASE k \in 1..Len(p)
      BY <1>1, <3>2 DEF ToSet
    <3> QED
      BY <1>1, <3>1, <3>2
  <2>2. ASSUME NEW k \in DOMAIN p PROVE p[k] \in ToSet(r)
    BY <1>1 DEF ToSet
  <2>3. e \in ToSet(r)
    BY <1>1 DEF ToSet
  <2> QED
    BY <2>1, <2>2, <2>3 DEF ToSet
<1>3. ASSUME Plain(p), e \notin ToSet(p) PROVE Plain(r)
  <2> SUFFICES ASSUME NEW i \in DOMAIN r, NEW j \in DOMAIN r, r[i] = r[j] PROVE i = j
    BY DEF Plain
  <2>1. CASE i \in 1..Len(p) /\ j \in 1..Len(p)
    BY <1>1, <1>3, <2>1 DEF Plain
  <2>2. CASE i = Len(p) + 1 /\ j \in 1..Len(p)
    BY <1>1, <1>3, <2>2 DEF ToSet
  <2>3. CASE i \in 1..Len(p) /\ j = Len(p) + 1
    BY <1>1, <1>3, <2>3 DEF ToSet
  <2> QED
    BY <1>1, <2>1, <2>2, <2>3
<1> QED
  BY <1>1, <1>2, <1>3 DEF r

\* f appends an element of A that the sequence does not have yet; repeated, it appends all.
Takes(f, A, n) ==
    \A p \in Seq(A) : Len(p) >= n /\ A \ ToSet(p) # {}
                          => \E e \in A \ ToSet(p) : f[p] = Append(p, e)

LEMMA RepeatFills ==
    ASSUME NEW A, IsFiniteSet(A), NEW f, Seq(A) \subseteq DOMAIN f,
           NEW s \in Seq(A), Plain(s), NEW n \in Nat, Len(s) + n = Cardinality(A),
           Takes(f, A, Len(s))
    PROVE  /\ Repeat(f, s, n) \in Seq(A) /\ Plain(Repeat(f, s, n))
           /\ ToSet(Repeat(f, s, n)) = A
<1> DEFINE P == [k \in 0..n |-> {p \in Seq(A) : Plain(p) /\ Len(p) = Len(s) + k}]
<1>0. Len(s) \in Nat
  OBVIOUS
<1>1. s \in P[0] /\ \A k \in 1..n : P[k - 1] \subseteq DOMAIN f
  BY <1>0
<1>2. ASSUME NEW k \in 1..n, NEW p \in P[k - 1] PROVE f[p] \in P[k]
  <2>1. p \in Seq(A) /\ Plain(p) /\ Len(p) = Len(s) + (k - 1)
    BY <1>2
  <2>2. A \ ToSet(p) # {}
    <3> SUFFICES ASSUME A \subseteq ToSet(p) PROVE FALSE
      OBVIOUS
    <3>1. ToSet(p) = A
      BY <2>1, RangeOf
    <3>2. Cardinality(A) = Len(p)
      BY <2>1, <3>1, FiniteRange
    <3> QED
      BY <1>0, <2>1, <3>2
  <2>3. PICK e \in A \ ToSet(p) : f[p] = Append(p, e)
    BY <1>0, <2>1, <2>2 DEF Takes
  <2>4. f[p] \in Seq(A) /\ Plain(f[p]) /\ Len(f[p]) = Len(s) + k
    BY <1>0, <2>1, <2>3, Added
  <2> QED
    BY <2>4
<1>3. P[n] = {p \in Seq(A) : Plain(p) /\ Len(p) = Len(s) + n}
  OBVIOUS
<1> DEFINE r == Repeat(f, s, n)
<1>4. r \in P[n]
  <2> HIDE DEF P
  <2> QED
    BY <1>1, <1>2, RepeatGoes
<1>5. r \in Seq(A) /\ Plain(r) /\ Len(r) = Cardinality(A)
  BY <1>3, <1>4
<1> HIDE DEF r
<1>6. ToSet(r) \in SUBSET A /\ Cardinality(ToSet(r)) = Cardinality(A)
  BY <1>5, RangeOf, FiniteRange
<1>7. ToSet(r) = A
  BY <1>6, FS_Subset
<1> QED
  BY <1>5, <1>7 DEF r

LEMMA FinitePlaces ==
    ASSUME NEW S \in SUBSET Places
    PROVE  IsFiniteSet(S) /\ Cardinality(S) \in Nat /\ S \in SUBSET Nat
BY PlacesAssumption, FS_Subset, FS_CardinalityType

LEMMA SortedSeq ==
    ASSUME NEW A \in SUBSET Places, NEW key, \A i \in A : key[i] \in Nat
    PROVE  Sorted(A, key) \in Seq(A) /\ Plain(Sorted(A, key)) /\ ToSet(Sorted(A, key)) = A
<1> DEFINE f == [s \in Seq(Places) |-> Append(s, LeastBy(A \ ToSet(s), key))]
<1>1. DOMAIN f = Seq(Places) /\ Seq(A) \subseteq Seq(Places)
  OBVIOUS
<1>2. ASSUME NEW p \in Seq(A), A \ ToSet(p) # {}
      PROVE  \E e \in A \ ToSet(p) : f[p] = Append(p, e)
  <2>1. A \ ToSet(p) \in SUBSET Nat
    BY FinitePlaces
  <2>2. LeastBy(A \ ToSet(p), key) \in A \ ToSet(p)
    BY <1>2, <2>1, LeastByIn
  <2> QED
    BY <1>1, <2>2
<1>3. PICK s : s = <<>>
  OBVIOUS
<1>4. s \in Seq(A) /\ Len(s) = 0 /\ Plain(s)
  BY <1>3 DEF Plain
<1>5. Sorted(A, key) = Repeat(f, s, Cardinality(A))
  BY <1>3 DEF Sorted
<1>6. IsFiniteSet(A) /\ Cardinality(A) \in Nat /\ Len(s) + Cardinality(A) = Cardinality(A)
  BY <1>4, FinitePlaces
<1>7. Seq(A) \subseteq DOMAIN f
  BY <1>1
<1>8. Takes(f, A, Len(s))
  BY <1>2 DEF Takes
<1> HIDE DEF f
<1>9. PICK n : n = Cardinality(A)
  OBVIOUS
<1>10. n \in Nat /\ Len(s) + n = Cardinality(A)
  BY <1>6, <1>9
<1>11. /\ Repeat(f, s, n) \in Seq(A) /\ Plain(Repeat(f, s, n))
       /\ ToSet(Repeat(f, s, n)) = A
  BY <1>4, <1>6, <1>7, <1>8, <1>10, RepeatFills
<1> QED
  BY <1>5, <1>9, <1>11

LEMMA GapNat == \A i, j \in Places : Gap(i, j) \in Nat
<1> TAKE i \in Places, j \in Places
<1>1. At[i] \in Nat /\ At[j] \in Nat
  BY PlacesAssumption
<1>2. Distance(At[i], At[j]) \in Nat
  BY <1>1 DEF Distance
<1> QED
  BY <1>2 DEF Gap

LEMMA CentreNat ==
    ASSUME NEW S \in SUBSET Places, NEW i \in Places
    PROVE  FromCentre(i, S) \in Nat
<1> DEFINE f == [n \in Nat |-> [j \in Places |-> n + At[j]]]
           s == Sorted(S, [k \in S |-> 0])
<1>1. s \in Seq(S)
  <2>1. PICK key : key = [k \in S |-> 0]
    OBVIOUS
  <2>2. \A k \in S : key[k] \in Nat
    BY <2>1
  <2> QED
    BY <2>1, <2>2, SortedSeq
<1>2. SumAt[S] = Fold(f, 0, s)
  BY DEF SumAt, Table
<1>3. StaysIn(f, Nat, S)
  BY PlacesAssumption DEF StaysIn
<1> HIDE DEF f, s
<1>4. SumAt[S] \in Nat
  <2>1. PICK N, z : N = Nat /\ z = 0
    OBVIOUS
  <2>2. z \in N /\ StaysIn(f, N, S) /\ SumAt[S] = Fold(f, z, s)
    BY <1>2, <1>3, <2>1
  <2>3. Fold(f, z, s) \in N
    BY <1>1, <2>2, FoldStays
  <2> QED
    BY <2>1, <2>2, <2>3
<1>5. Cardinality(S) * At[i] \in Nat
  <2>1. Cardinality(S) \in Nat /\ At[i] \in Nat
    BY FinitePlaces, PlacesAssumption
  <2> QED
    BY <2>1
<1> QED
  BY <1>4, <1>5 DEF FromCentre, Distance

LEMMA NearestIn ==
    ASSUME NEW S \in SUBSET Places, S # {}, NEW i \in Places
    PROVE  Nearest(i, S) \in S
<1>1. PICK key : key = [j \in S |-> Gap(i, j)]
  OBVIOUS
<1>2. \A j \in S : key[j] \in Nat
  BY <1>1, GapNat
<1>3. S \in SUBSET Nat
  BY FinitePlaces
<1> QED
  BY <1>1, <1>2, <1>3, LeastByIn DEF Nearest

LEMMA CentralIn ==
    ASSUME NEW S \in SUBSET Places, S # {}
    PROVE  Central(S) \in S
<1>1. PICK key : key = [j \in S |-> FromCentre(j, S)]
  OBVIOUS
<1>2. \A j \in S : key[j] \in Nat
  BY <1>1, CentreNat
<1>3. S \in SUBSET Nat
  BY FinitePlaces
<1> QED
  BY <1>1, <1>2, <1>3, LeastByIn DEF Central

\* A walk visits each place of its set once.
LEMMA WalkVisits ==
    ASSUME NEW S \in SUBSET Places, NEW i \in S
    PROVE  WalkOn(i, S) \in Seq(S) /\ Plain(WalkOn(i, S)) /\ ToSet(WalkOn(i, S)) = S
<1> DEFINE f == [path \in Seq(Places) |->
                    Append(path, Nearest(Last(path), S \ ToSet(path)))]
           n == Cardinality(S \ {i})
<1>1. Seq(S) \subseteq DOMAIN f /\ \A p \in Seq(S) : p \in Seq(Places)
  OBVIOUS
<1>2. PICK s : s = <<i>>
  OBVIOUS
<1>3. s \in Seq(S) /\ Len(s) = 1 /\ Plain(s)
  BY <1>2 DEF Plain
<1>4. ASSUME NEW p \in Seq(S), Len(p) >= Len(s), S \ ToSet(p) # {}
      PROVE  \E e \in S \ ToSet(p) : f[p] = Append(p, e)
  <2>1. Last(p) \in Places
    BY <1>3, <1>4 DEF Last
  <2>2. Nearest(Last(p), S \ ToSet(p)) \in S \ ToSet(p)
    BY <1>4, <2>1, NearestIn
  <2> QED
    BY <1>1, <2>2
<1>5. IsFiniteSet(S) /\ Cardinality(S) \in Nat /\ Cardinality(S \ {i}) = Cardinality(S) - 1
      /\ Cardinality(S \ {i}) \in Nat
  BY FinitePlaces, FS_RemoveElement, FS_CardinalityType
<1>6. n \in Nat /\ Len(s) + n = Cardinality(S)
  BY <1>3, <1>5
<1>7. WalkOn(i, S) = Repeat(f, s, n)
  BY <1>2 DEF WalkOn
<1>8. Takes(f, S, Len(s))
  BY <1>4 DEF Takes
<1> HIDE DEF f, n
<1>9. Plain(s) /\ Seq(S) \subseteq DOMAIN f
  BY <1>1, <1>3
<1>10. /\ Repeat(f, s, n) \in Seq(S) /\ Plain(Repeat(f, s, n))
       /\ ToSet(Repeat(f, s, n)) = S
  BY <1>3, <1>5, <1>6, <1>8, <1>9, RepeatFills
<1> QED
  BY <1>7, <1>10

\* A tour too.
LEMMA TourVisits ==
    ASSUME NEW S \in SUBSET Places
    PROVE  Tour[S] \in Seq(S) /\ Plain(Tour[S]) /\ ToSet(Tour[S]) = S
<1>1. Tour[S] = IF S = {} THEN <<>> ELSE WalkOn(Central(S), S)
  BY DEF Tour, Table
<1>2. CASE S = {}
  BY <1>1, <1>2 DEF Plain, ToSet
<1>3. CASE S # {}
  BY <1>1, <1>3, CentralIn, WalkVisits
<1> QED
  BY <1>2, <1>3

-----------------------------------------------------------------------------
(* Routes: plain sequences whose set of stops is in a family that is closed *)
(* under leaving stops out.                                                *)

Fine(S) == {V \in SUBSET S : ~Clashing(V)}

Hereditary(X) == X \subseteq SUBSET Places /\ \A V \in X : SUBSET V \subseteq X

Family(X, S) ==
    /\ S \in SUBSET Places
    /\ X \subseteq SUBSET S
    /\ Fine(S) \subseteq X
    /\ Hereditary(X)

RoutesOf(X) == {p \in Seq(Places) : Plain(p) /\ ToSet(p) \in X}

LEMMA Families ==
    ASSUME NEW S \in SUBSET Places
    PROVE  Family(Fine(S), S) /\ Family(SUBSET S, S)
BY DEF Family, Fine, Hereditary, Clashing

LEMMA NothingIsFine ==
    ASSUME NEW S \in SUBSET Places, NEW X, Family(X, S)
    PROVE  {} \in X /\ {} \in Fine(S)
<1>1. ~Clashing({})
  <2> SUFFICES ASSUME NEW c \in Clash, c \subseteq {} PROVE FALSE
    BY DEF Clashing
  <2>1. c = {} /\ Cardinality(c) = 2
    BY PlacesAssumption
  <2> QED
    BY <2>1, FS_EmptySet
<1> QED
  BY <1>1 DEF Family, Fine

LEMMA NoStops ==
    ASSUME NEW X, {} \in X
    PROVE  <<>> \in RoutesOf(X) /\ ToSet(<<>>) = {}
BY DEF RoutesOf, Plain, ToSet

LEMMA RoutesIn ==
    ASSUME NEW X, NEW p \in RoutesOf(X)
    PROVE  /\ p \in Seq(Places) /\ Plain(p) /\ ToSet(p) \in X /\ Len(p) \in Nat
           /\ p \in Seq(ToSet(p))
BY RangeOf DEF RoutesOf

LEMMA Wider ==
    ASSUME NEW X, NEW Y, X \subseteq Y
    PROVE  RoutesOf(X) \subseteq RoutesOf(Y)
BY DEF RoutesOf

LEMMA Prefix ==
    ASSUME NEW A, NEW p \in Seq(A), NEW n \in 0..Len(p)
    PROVE  /\ SubSeq(p, 1, n) \in Seq(A) /\ ToSet(SubSeq(p, 1, n)) \subseteq ToSet(p)
           /\ Plain(p) => Plain(SubSeq(p, 1, n))
           /\ Len(SubSeq(p, 1, n)) = n
<1>1. \A k \in 1..n : p[k] \in A /\ k \in DOMAIN p
  OBVIOUS
<1>2. n \in Int /\ 1 \in Int /\ n - 1 + 1 = n
  OBVIOUS
<1> DEFINE r == SubSeq(p, 1, n)
<1>3. r \in Seq(A) /\ Len(r) = n
  BY <1>1, <1>2, SubSeqProperties
<1>4. \A k \in 1..n : r[k] = p[k]
  <2>1. \A k \in 1..(n - 1 + 1) : r[k] = p[1 + k - 1]
    BY <1>1, <1>2, SubSeqProperties
  <2> HIDE DEF r
  <2> QED
    BY <2>1
<1> HIDE DEF r
<1>5. DOMAIN r = 1..n
  BY <1>3
<1>6. ToSet(r) \subseteq ToSet(p)
  BY <1>1, <1>4, <1>5 DEF ToSet
<1>7. Plain(p) => Plain(r)
  BY <1>1, <1>4, <1>5 DEF Plain
<1> QED
  BY <1>3, <1>6, <1>7 DEF r

LEMMA PrefixIsRoute ==
    ASSUME NEW X, Hereditary(X), NEW p \in RoutesOf(X), NEW n \in 0..Len(p)
    PROVE  SubSeq(p, 1, n) \in RoutesOf(X)
<1>1. /\ SubSeq(p, 1, n) \in Seq(Places) /\ ToSet(SubSeq(p, 1, n)) \subseteq ToSet(p)
      /\ Plain(SubSeq(p, 1, n)) /\ ToSet(p) \in X
  BY RoutesIn, Prefix
<1> QED
  BY <1>1 DEF RoutesOf, Hereditary

LEMMA CutIsRoute ==
    ASSUME NEW X, Hereditary(X), NEW p \in RoutesOf(X), NEW n \in Nat
    PROVE  Cut(p, n) \in RoutesOf(X)
<1> DEFINE m == IF Len(p) < n THEN Len(p) ELSE n
<1>1. m \in 0..Len(p)
  BY RoutesIn
<1>2. Cut(p, n) = SubSeq(p, 1, m)
  BY DEF Cut
<1> HIDE DEF m
<1> QED
  BY <1>1, <1>2, PrefixIsRoute

LEMMA CutIn ==
    ASSUME NEW A, NEW p \in Seq(A), NEW n \in Nat
    PROVE  Cut(p, n) \in Seq(A) /\ ToSet(Cut(p, n)) \subseteq ToSet(p)
<1> DEFINE m == IF Len(p) < n THEN Len(p) ELSE n
<1>1. m \in 0..Len(p)
  OBVIOUS
<1>2. Cut(p, n) = SubSeq(p, 1, m)
  BY DEF Cut
<1> HIDE DEF m
<1> QED
  BY <1>1, <1>2, Prefix

LEMMA FrontIsRoute ==
    ASSUME NEW X, Hereditary(X), NEW p \in RoutesOf(X), p # <<>>
    PROVE  Front(p) \in RoutesOf(X) /\ Len(p) > 0
<1>1. Len(p) > 0 /\ Len(p) - 1 \in 0..Len(p)
  BY RoutesIn
<1> QED
  BY <1>1, PrefixIsRoute DEF Front

LEMMA TourIsRoute ==
    ASSUME NEW X, Hereditary(X), NEW V \in X
    PROVE  Tour[V] \in RoutesOf(X) /\ ToSet(Tour[V]) = V
BY TourVisits DEF Hereditary, RoutesOf

\* Keep leaves out what is not in A and keeps the rest apart.
LEMMA KeepsIn ==
    ASSUME NEW B \in SUBSET Nat, NEW p \in Seq(B), NEW A
    PROVE  /\ Keep(p, A) \in Seq(B) /\ ToSet(Keep(p, A)) \subseteq A \cap ToSet(p)
           /\ Plain(p) => Plain(Keep(p, A))
<1> DEFINE f == [s \in Seq(Nat) |-> [i \in Nat |-> IF i \in A THEN Append(s, i) ELSE s]]
           P == [k \in 0..Len(p) |->
                    {s \in Seq(B) : /\ ToSet(s) \subseteq A \cap {p[j] : j \in 1..k}
                                    /\ Plain(p) => Plain(s)}]
<1>1. Len(p) \in Nat /\ DOMAIN p = 1..Len(p) /\ \A k \in 1..Len(p) : p[k] \in B
  OBVIOUS
<1>2. PICK z : z = <<>>
  OBVIOUS
<1>3. z \in P[0]
  <2>1. z \in Seq(B) /\ ToSet(z) = {} /\ Plain(z)
    BY <1>2 DEF ToSet, Plain
  <2> QED
    BY <2>1
<1>4. ASSUME NEW k \in 1..Len(p), NEW s, s \in P[k - 1] PROVE f[s][p[k]] \in P[k]
  <2>1. /\ s \in Seq(B) /\ ToSet(s) \subseteq A \cap {p[j] : j \in 1..(k - 1)}
        /\ Plain(p) => Plain(s)
    BY <1>4
  <2>2. s \in Seq(Nat) /\ p[k] \in Nat /\ p[k] \in B
    <3>1. \A t \in Seq(B) : t \in Seq(Nat)
      BY SeqWider
    <3>2. p[k] \in B
      BY <1>1
    <3> QED
      BY <2>1, <3>1, <3>2
  <2>3. f[s][p[k]] = IF p[k] \in A THEN Append(s, p[k]) ELSE s
    BY <2>2
  <2>4. ToSet(s) \subseteq A \cap {p[j] : j \in 1..k}
    BY <1>1, <2>1
  <2>5. CASE p[k] \notin A
    BY <2>1, <2>3, <2>4, <2>5
  <2>6. CASE p[k] \in A
    <3>1. Plain(p) => p[k] \notin ToSet(s)
      <4> SUFFICES ASSUME Plain(p), p[k] \in ToSet(s) PROVE FALSE
        OBVIOUS
      <4>1. PICK j \in 1..(k - 1) : p[j] = p[k]
        BY <2>1
      <4>2. j \in DOMAIN p /\ k \in DOMAIN p /\ j # k
        BY <1>1
      <4> QED
        BY <4>1, <4>2 DEF Plain
    <3>2. /\ Append(s, p[k]) \in Seq(B) /\ ToSet(Append(s, p[k])) = ToSet(s) \union {p[k]}
          /\ Plain(p) => Plain(Append(s, p[k]))
      BY <2>1, <2>2, <3>1, Added
    <3>3. ToSet(Append(s, p[k])) \subseteq A \cap {p[j] : j \in 1..k}
      BY <2>4, <2>6, <3>2
    <3>4. Append(s, p[k]) \in P[k]
      <4>1. PICK t : t = Append(s, p[k])
        OBVIOUS
      <4>2. t \in P[k]
        BY <1>1, <3>2, <3>3, <4>1
      <4> QED
        BY <4>1, <4>2
    <3> QED
      BY <2>3, <2>6, <3>4
  <2> QED
    BY <2>5, <2>6
<1>5. Keep(p, A) = Fold(f, z, p)
  BY <1>2 DEF Keep
<1>6. Fold(f, z, p) \in P[Len(p)]
  <2> HIDE DEF f, P
  <2> QED
    BY <1>1, <1>3, <1>4, FoldGoes
<1>7. {p[j] : j \in 1..Len(p)} = ToSet(p)
  BY <1>1 DEF ToSet
<1>8. Len(p) \in 0..Len(p)
  BY <1>1
<1> QED
  BY <1>5, <1>6, <1>7, <1>8

-----------------------------------------------------------------------------
(* Growing and trimming stay in the family.                                *)

Admits(fits, X, S) == \A V \in X, i \in S : fits[V][i] => V \union {i} \in X

LEMMA Collected ==
    ASSUME NEW S, NEW X, Family(X, S), NEW W \in X, NEW order \in Seq(S), NEW fits,
           Admits(fits, X, S)
    PROVE  Collect(W, order, fits) \in X
<1> DEFINE f == [V \in SUBSET Places |->
                    [i \in Places |-> IF fits[V][i] THEN V \union {i} ELSE V]]
<1>1. StaysIn(f, X, S)
  <2> SUFFICES ASSUME NEW V \in X, NEW i \in S PROVE f[V][i] \in X
    BY DEF StaysIn
  <2>1. V \in SUBSET Places /\ i \in Places
    BY DEF Family
  <2>2. f[V][i] = IF fits[V][i] THEN V \union {i} ELSE V
    BY <2>1
  <2> HIDE DEF f
  <2> QED
    BY <2>2 DEF Admits
<1>2. Collect(W, order, fits) = Fold(f, W, order)
  BY DEF Collect
<1> HIDE DEF f
<1> QED
  BY <1>1, <1>2, FoldStays

\* Who takes no place that clashes stays in every family.
LEMMA NoClashAdmits ==
    ASSUME NEW S, NEW X, Family(X, S), NEW fits,
           \A V \in X, i \in S : fits[V][i] => ~Clashing(V \union {i})
    PROVE  Admits(fits, X, S)
BY DEF Admits, Family, Fine

LEMMA GreedyIsFine ==
    ASSUME NEW S \in SUBSET Places, NEW order \in Seq(S), NEW from, NEW q
    PROVE  Greedy(order, from, q) \in Fine(S)
<1> DEFINE fits == [W \in SUBSET Places |-> [i \in Places |->
        /\ i \in from
        /\ Cardinality(W) < q.max
        /\ ~Clashing(W \union {i})
        /\ TourWithin(W \union {i}, StepLimit(q))
        /\ TourKm[W \union {i}] <= KmCap(q) \/ Cardinality(W) < q.min
        /\ ~TooLongForA(q, TourKm[W \union {i}])]]
<1>1. Greedy(order, from, q) = Collect({}, order, fits)
  BY DEF Greedy
<1>2. Family(Fine(S), S) /\ {} \in Fine(S)
  BY Families, NothingIsFine
<1>3. \A V \in Fine(S), i \in S : fits[V][i] => ~Clashing(V \union {i})
  BY DEF Fine
<1> HIDE DEF fits
<1>4. Admits(fits, Fine(S), S)
  BY <1>2, <1>3, NoClashAdmits
<1> QED
  BY <1>1, <1>2, <1>4, Collected

LEMMA FiltersClashes ==
    ASSUME NEW S \in SUBSET Places, NEW W \in SUBSET S
    PROVE  FilterClashes(W) \in Fine(S) /\ WithoutClashes(W) \in Fine(S)
<1> DEFINE fits == [V \in SUBSET Places |-> [i \in Places |-> ~Clashing(V \union {i})]]
<1>1. FilterClashes(W) = Collect({}, Tour[W], fits)
  BY DEF FilterClashes
<1>2. Family(Fine(S), S) /\ {} \in Fine(S)
  BY Families, NothingIsFine
<1>3. \A V \in Fine(S), i \in S : fits[V][i] => ~Clashing(V \union {i})
  BY DEF Fine
<1>4. Tour[W] \in Seq(S)
  BY TourVisits, SeqWider
<1> HIDE DEF fits
<1>5. Admits(fits, Fine(S), S)
  BY <1>2, <1>3, NoClashAdmits
<1>6. FilterClashes(W) \in Fine(S)
  BY <1>1, <1>2, <1>4, <1>5, Collected
<1> QED
  BY <1>6 DEF WithoutClashes, Fine

LEMMA GrowsOnce ==
    ASSUME NEW S, NEW X, Family(X, S), NEW W \in X, NEW order \in Seq(S), NEW q
    PROVE  GrowOnce(W, order, q) \in X
<1> DEFINE limit == IF q.short THEN GrowLimit(q) ELSE LargerOf(GrowLimit(q), NovelLeg(q))
           Fits(i) == /\ i \notin W
                      /\ ~Clashing(W \union {i})
                      /\ TourWithin(W \union {i}, limit)
                      /\ ~TooLongForA(q, TourKm[W \union {i}])
           Better(best, i) == Fits(i) /\ TourKm[W \union {i}] > TourKm[best]
           f == [best \in SUBSET Places |-> [i \in Places |->
                    IF Better(best, i) THEN W \union {i} ELSE best]]
<1>1. GrowOnce(W, order, q) = Fold(f, W, order)
  BY DEF GrowOnce
<1>2. \A best, i : Better(best, i) => ~Clashing(W \union {i})
  OBVIOUS
<1> HIDE DEF Better
<1>3. StaysIn(f, X, S)
  <2> SUFFICES ASSUME NEW V \in X, NEW i \in S PROVE f[V][i] \in X
    BY DEF StaysIn
  <2>1. V \in SUBSET Places /\ i \in Places /\ W \in SUBSET S
    BY DEF Family
  <2>2. f[V][i] = IF Better(V, i) THEN W \union {i} ELSE V
    BY <2>1
  <2> HIDE DEF f
  <2>3. Better(V, i) => W \union {i} \in X
    BY <1>2, <2>1 DEF Family, Fine
  <2> QED
    BY <2>2, <2>3
<1> HIDE DEF f
<1> QED
  BY <1>1, <1>3, FoldStays

\* The numbers of stops a profile asks for.
Bounded(q) == q.min \in Nat /\ q.max \in Nat

LEMMA ExtendStays ==
    ASSUME NEW S, NEW X, Family(X, S), NEW W \in X, NEW order \in Seq(S), NEW q, Bounded(q)
    PROVE  Extend(W, order, q) \in X
<1> DEFINE f == [V \in SUBSET Places |->
                    IF TourKm[V] >= q.abs THEN V ELSE GrowOnce(V, order, q)]
<1>1. ClosedUnder(f, X)
  <2>1. ASSUME NEW V \in X PROVE f[V] \in X
    <3>1. V \in SUBSET Places /\ GrowOnce(V, order, q) \in X
      BY GrowsOnce DEF Family
    <3> QED
      BY <3>1
  <2> QED
    BY <2>1 DEF ClosedUnder, Family
<1>2. PICK n : n = LargerOf(0, q.max - Cardinality(W))
  OBVIOUS
<1>3. n \in Nat
  <2>1. Cardinality(W) \in Nat
    BY FinitePlaces DEF Family
  <2> QED
    BY <1>2, <2>1 DEF LargerOf, Bounded
<1>4. Extend(W, order, q) = Repeat(f, W, n)
  BY <1>2 DEF Extend
<1> HIDE DEF f
<1> QED
  BY <1>1, <1>3, <1>4, RepeatStays

LEMMA ShortensOnce ==
    ASSUME NEW X, Hereditary(X), NEW W \in X
    PROVE  ShortenOnce(W) \in X
<1> DEFINE f == [best \in SUBSET Places |-> [i \in Places |->
                    IF TourKm[W \ {i}] < TourKm[best] THEN W \ {i} ELSE best]]
<1>1. ShortenOnce(W) = Fold(f, W, Tour[W])
  BY DEF ShortenOnce
<1>2. Tour[W] \in Seq(W) /\ W \in SUBSET Places
  BY TourVisits DEF Hereditary
<1>3. StaysIn(f, X, W)
  <2> SUFFICES ASSUME NEW V \in X, NEW i \in W PROVE f[V][i] \in X
    BY DEF StaysIn
  <2>1. V \in SUBSET Places /\ i \in Places /\ W \ {i} \in X
    BY DEF Hereditary
  <2>2. f[V][i] = IF TourKm[W \ {i}] < TourKm[V] THEN W \ {i} ELSE V
    BY <2>1
  <2> HIDE DEF f
  <2> QED
    BY <2>1, <2>2
<1> HIDE DEF f
<1> QED
  BY <1>1, <1>2, <1>3, FoldStays

LEMMA TrimStays ==
    ASSUME NEW X, Hereditary(X), NEW W \in X, NEW q, NEW cap
    PROVE  Trim(W, q, cap) \in X
<1> DEFINE f == [V \in SUBSET Places |->
                    IF Cardinality(V) <= q.min \/ TourKm[V] <= cap THEN V ELSE ShortenOnce(V)]
<1>1. ClosedUnder(f, X)
  <2>1. ASSUME NEW V \in X PROVE f[V] \in X
    <3>1. V \in SUBSET Places /\ ShortenOnce(V) \in X
      BY ShortensOnce DEF Hereditary
    <3> QED
      BY <3>1
  <2> QED
    BY <2>1 DEF ClosedUnder, Hereditary
<1>2. PICK n : n = Cardinality(W)
  OBVIOUS
<1>3. n \in Nat
  BY <1>2, FinitePlaces DEF Hereditary
<1>4. Trim(W, q, cap) = Repeat(f, W, n)
  BY <1>2 DEF Trim
<1> HIDE DEF f
<1> QED
  BY <1>1, <1>3, <1>4, RepeatStays

LEMMA FillsUp ==
    ASSUME NEW S, NEW X, Family(X, S), NEW W \in X, NEW from \in Seq(S), NEW q
    PROVE  FillUp(W, from, q) \in X
<1> DEFINE fits == [V \in SUBSET Places |-> [i \in Places |->
        /\ Cardinality(V) < q.min
        /\ ~Clashing(V \union {i})
        /\ TourWithin(V \union {i}, NovelLeg(q))]]
<1>1. FillUp(W, from, q) = Collect(W, from, fits)
  BY DEF FillUp
<1>2. \A V \in X, i \in S : fits[V][i] => ~Clashing(V \union {i})
  <2> TAKE V \in X, i \in S
  <2>1. V \in SUBSET Places /\ i \in Places
    BY DEF Family
  <2> QED
    BY <2>1
<1> HIDE DEF fits
<1>3. Admits(fits, X, S)
  BY <1>2, NoClashAdmits
<1> QED
  BY <1>1, <1>3, Collected

LEMMA FillsFirst ==
    ASSUME NEW S \in SUBSET Places, NEW W \in SUBSET S, NEW from \in Seq(S), NEW q, Bounded(q)
    PROVE  FillFirst(W, from, q) \in SUBSET S
<1> DEFINE Allowed(V) == {i \in ToSet(from) \ V :
                          /\ ~Clashing(V \union {i})
                          /\ TourWithin(V \union {i}, NovelLeg(q))}
           Fitting(V) == Keep(from, Allowed(V))
           f == [V \in SUBSET Places |->
                    IF Cardinality(V) >= q.min \/ Fitting(V) = <<>> THEN V
                    ELSE V \union {Fitting(V)[1]}]
<1>1. FillFirst(W, from, q) = Repeat(f, W, q.min)
  BY DEF FillFirst
<1> HIDE DEF Allowed
<1>2. ASSUME NEW V \in SUBSET S PROVE f[V] \in SUBSET S
  <2>1. Keep(from, Allowed(V)) \in Seq(S)
    BY FinitePlaces, KeepsIn
  <2>2. Keep(from, Allowed(V)) # <<>> => Keep(from, Allowed(V))[1] \in S
    BY <2>1
  <2>3. V \in SUBSET Places
    OBVIOUS
  <2> QED
    BY <2>2, <2>3
<1>3. ClosedUnder(f, SUBSET S)
  BY <1>2 DEF ClosedUnder
<1>4. PICK n : n = q.min
  OBVIOUS
<1>5. n \in Nat
  BY <1>4 DEF Bounded
<1> HIDE DEF f
<1>6. PICK Y : Y = SUBSET S
  OBVIOUS
<1>7. Repeat(f, W, n) \in Y
  BY <1>3, <1>5, <1>6, RepeatStays
<1> QED
  BY <1>1, <1>4, <1>6, <1>7

-----------------------------------------------------------------------------
(* Windows of the order.                                                   *)

LEMMA LeastAndLargest ==
    ASSUME NEW n \in Nat, NEW T \in SUBSET (1..n), T # {}
    PROVE  Min(T) \in T /\ Max(T) \in T
<1>1. T \in SUBSET Nat
  OBVIOUS
<1>2. PICK x \in T : \A y \in T : x <= y
  BY <1>1, Least
<1> DEFINE U == {n - y : y \in T}
<1>3. U \in SUBSET Nat /\ U # {}
  OBVIOUS
<1>4. PICK u \in U : \A v \in U : u <= v
  <2> HIDE DEF U
  <2> QED
    BY <1>3, Least
<1>5. PICK z \in T : u = n - z
  OBVIOUS
<1>6. \A y \in T : z >= y
  <2> TAKE y \in T
  <2>1. n - z <= n - y
    BY <1>4, <1>5
  <2>2. y \in Int /\ z \in Int
    OBVIOUS
  <2> QED
    BY <2>1, <2>2
<1>7. Min(T) \in T
  BY <1>2 DEF Min
<1>8. Max(T) \in T
  BY <1>6 DEF Max
<1> QED
  BY <1>7, <1>8

LEMMA BetweenIn ==
    ASSUME NEW S, NEW order \in Seq(S), NEW i \in ToSet(order), NEW j
    PROVE  Between(order, i, j) \in Seq(S)
<1> DEFINE at == {k \in 1..Len(order) : order[k] \in {i, j}}
<1>1. Len(order) \in Nat /\ at \in SUBSET (1..Len(order)) /\ at # {}
  BY DEF ToSet
<1>2. Between(order, i, j) = SubSeq(order, Min(at) + 1, Max(at) - 1)
  BY DEF Between
<1> HIDE DEF at
<1>3. Min(at) \in at /\ Max(at) \in at
  BY <1>1, LeastAndLargest
<1>4. Min(at) \in 1..Len(order) /\ Max(at) \in 1..Len(order)
  BY <1>1, <1>3
<1>5. Min(at) + 1 \in Int /\ Max(at) - 1 \in Int
      /\ \A k \in (Min(at) + 1)..(Max(at) - 1) : order[k] \in S
  BY <1>4
<1> QED
  BY <1>2, <1>5, SubSeqProperties

LEMMA EnrichIn ==
    ASSUME NEW S \in SUBSET Places, NEW path \in Seq(S), NEW mids \in Seq(S), NEW stop \in S,
           NEW q
    PROVE  Enrich(path, mids, stop, q) \in Seq(S)
<1> DEFINE Add(acc, mid) ==
            LET trial == acc.path \o <<mid, stop>>
            IN  IF acc.done \/ Contains(acc.path, mid) \/ ClashInPath(trial) THEN acc
                ELSE IF Len(trial) >= q.max THEN [acc EXCEPT !.done = TRUE]
                ELSE IF Km(trial) > KmCap(q) THEN acc
                ELSE [path |-> Append(acc.path, mid), added |-> acc.added + 1,
                      done |-> acc.added = 1]
           States == [path : Seq(Places), added : Nat, done : BOOLEAN]
           f == [acc \in States |-> [mid \in Places |-> Add(acc, mid)]]
           X == [path : Seq(S), added : Nat, done : BOOLEAN]
<1>1. ASSUME NEW acc \in X, NEW mid \in S PROVE Add(acc, mid) \in X
  <2>1. acc.path \in Seq(S) /\ acc.added \in Nat /\ acc.done \in BOOLEAN
    OBVIOUS
  <2>2. [acc EXCEPT !.done = TRUE] \in X
    OBVIOUS
  <2>3. [path |-> Append(acc.path, mid), added |-> acc.added + 1,
         done |-> acc.added = 1] \in X
    BY <2>1
  <2>4. Add(acc, mid) \in {acc, [acc EXCEPT !.done = TRUE],
                           [path |-> Append(acc.path, mid), added |-> acc.added + 1,
                            done |-> acc.added = 1]}
    OBVIOUS
  <2> QED
    BY <2>2, <2>3, <2>4
<1> HIDE DEF Add
<1>2. X \subseteq States
  BY SeqWider
<1>3. StaysIn(f, X, S)
  <2> SUFFICES ASSUME NEW acc \in X, NEW mid \in S PROVE f[acc][mid] \in X
    BY DEF StaysIn
  <2>1. acc \in States /\ mid \in Places
    BY <1>2
  <2>2. f[acc][mid] = Add(acc, mid)
    BY <2>1
  <2> QED
    BY <1>1, <2>2
<1>4. PICK start : start = [path |-> path, added |-> 0, done |-> FALSE]
  OBVIOUS
<1>5. start \in X
  BY <1>4
<1>6. Enrich(path, mids, stop, q) = Append(Fold(f, start, mids).path, stop)
  BY <1>4 DEF Enrich, Add
<1>7. Fold(f, start, mids) \in X
  <2> HIDE DEF f, X
  <2> QED
    BY <1>3, <1>5, FoldStays
<1>8. Fold(f, start, mids).path \in Seq(S)
  BY <1>7
<1> HIDE DEF f
<1> QED
  BY <1>6, <1>8

\* The orders of the pool that routes are picked from.
Orders(S) == {p \in Seq(S) : ToSet(p) = S}

LEMMA DensifyStays ==
    ASSUME NEW S, NEW X, Family(X, S), NEW W \in X, NEW order \in Orders(S), NEW q
    PROVE  Densify(W, order, q) \in X
<1> DEFINE path == Tour[W]
           f == [acc \in Seq(Places) |-> [k \in Nat |->
                    Enrich(acc, Between(order, path[k], path[k + 1]), path[k + 1], q)]]
           seq == [k \in 1..Len(path) - 1 |-> k]
           rich == Fold(f, <<path[1]>>, seq)
<1>1. Densify(W, order, q) =
        IF Len(path) < 2 \/ Len(path) >= TargetStops(Km(path), q) THEN W
        ELSE IF Clashing(ToSet(rich)) THEN W
        ELSE Trim(ToSet(rich), q, KmCap(q))
  BY DEF Densify
<1>2. W \in SUBSET S /\ S \in SUBSET Places
  BY DEF Family
<1>3. path \in Seq(S)
  BY <1>2, TourVisits, SeqWider
<1> HIDE DEF path
<1>4. CASE Len(path) < 2
  BY <1>1, <1>4
<1>5. CASE Clashing(ToSet(rich))
  <2> HIDE DEF rich
  <2> QED
    BY <1>1, <1>5
<1>6. CASE Len(path) >= 2 /\ ~Clashing(ToSet(rich))
  <2> DEFINE E == 1..(Len(path) - 1)
  <2>1. StaysIn(f, Seq(S), E)
    <3> SUFFICES ASSUME NEW acc \in Seq(S), NEW k \in E PROVE f[acc][k] \in Seq(S)
      BY DEF StaysIn
    <3>1. acc \in Seq(Places) /\ k \in Nat
      BY <1>2, SeqWider
    <3>2. path[k] \in S /\ path[k + 1] \in S
      BY <1>3
    <3>3. order \in Seq(S) /\ path[k] \in ToSet(order)
      BY <3>2 DEF Orders
    <3>4. Between(order, path[k], path[k + 1]) \in Seq(S)
      BY <3>3, BetweenIn
    <3>5. f[acc][k] = Enrich(acc, Between(order, path[k], path[k + 1]), path[k + 1], q)
      BY <3>1
    <3> HIDE DEF f
    <3> QED
      BY <1>2, <3>2, <3>4, <3>5, EnrichIn
  <2>2. PICK start : start = <<path[1]>>
    OBVIOUS
  <2>3. start \in Seq(S) /\ seq \in Seq(E) /\ rich = Fold(f, start, seq)
    BY <1>3, <1>6, <2>2
  <2> HIDE DEF f, seq, rich
  <2>4. PICK Y : Y = Seq(S)
    OBVIOUS
  <2>5. rich \in Y
    BY <2>1, <2>3, <2>4, FoldStays
  <2>6. ToSet(rich) \in SUBSET S
    BY <2>4, <2>5, RangeOf
  <2>7. ToSet(rich) \in X
    BY <1>6, <2>6 DEF Family, Fine
  <2>8. Trim(ToSet(rich), q, KmCap(q)) \in X
    BY <2>7, TrimStays DEF Family
  <2> QED
    BY <1>1, <2>8
<1>7. Len(path) < 2 \/ Len(path) >= 2
  BY <1>3
<1> QED
  BY <1>4, <1>5, <1>6, <1>7

LEMMA BestWindowIn ==
    ASSUME NEW S \in SUBSET Places, NEW order \in Seq(S), NEW q, Bounded(q), NEW must,
           NEW avoid, NEW forbidden, NEW unique
    PROVE  BestWindow(order, q, must, avoid, forbidden, unique) \in SUBSET S
<1> DEFINE limit == IF must # {} /\ ~q.short THEN LargerOf(StepLimit(q), NovelLeg(q))
                    ELSE StepLimit(q)
           Admitted(W) == /\ must \subseteq W
                          /\ W \cap forbidden = {}
                          /\ ~Clashing(W)
                          /\ avoid # {} => Cardinality(W \ avoid) >= unique
                          /\ TourWithin(W, limit)
           TooLong(W) == \/ 20 * TourKm[W] > 27 * q.hi
                         \/ q.short /\ 100 * TourKm[W] > 108 * LongestA
           Try(best, W) ==
                IF best.over \/ ~Admitted(W) THEN best
                ELSE IF TooLong(W) THEN [best EXCEPT !.over = TRUE]
                ELSE IF best.stops = {} \/ Score(W, q, avoid) > Score(best.stops, q, avoid)
                     THEN [best EXCEPT !.stops = W]
                ELSE best
           Search == [stops : SUBSET Places, over : BOOLEAN]
           g(first) == [acc \in Search |-> [n \in Nat |->
                         IF n < q.min \/ first + n - 1 > Len(order) THEN acc
                         ELSE Try(acc, {order[k] : k \in first..first + n - 1})]]
           lens == [n \in 1..q.max |-> n]
           From(best, first) == Fold(g(first), [best EXCEPT !.over = FALSE], lens)
           f == [best \in Search |-> [first \in Nat |-> From(best, first)]]
           starts == [k \in 1..Len(order) |-> k]
           X == [stops : SUBSET S, over : BOOLEAN]
<1>1. PICK none : none = [stops |-> {}, over |-> FALSE]
  OBVIOUS
<1>2. BestWindow(order, q, must, avoid, forbidden, unique) = Fold(f, none, starts).stops
  BY <1>1 DEF BestWindow
<1> HIDE DEF Admitted, TooLong
<1>3. ASSUME NEW best \in X, NEW W \in SUBSET S PROVE Try(best, W) \in X
  <2>1. [best EXCEPT !.over = TRUE] \in X /\ [best EXCEPT !.stops = W] \in X
    OBVIOUS
  <2>2. Try(best, W) \in {best, [best EXCEPT !.over = TRUE], [best EXCEPT !.stops = W]}
    OBVIOUS
  <2> QED
    BY <2>1, <2>2
<1> HIDE DEF Try
<1>4. X \subseteq Search
  OBVIOUS
<1>5. ASSUME NEW best \in X, NEW first \in 1..Len(order) PROVE From(best, first) \in X
  <2>1. StaysIn(g(first), X, Nat)
    <3> SUFFICES ASSUME NEW acc \in X, NEW n \in Nat PROVE g(first)[acc][n] \in X
      BY DEF StaysIn
    <3> DEFINE W == {order[k] : k \in first..first + n - 1}
    <3>1. acc \in Search
      BY <1>4
    <3>2. g(first)[acc][n] = IF n < q.min \/ first + n - 1 > Len(order) THEN acc
                             ELSE Try(acc, W)
      BY <3>1
    <3>3. CASE n < q.min \/ first + n - 1 > Len(order)
      BY <3>2, <3>3
    <3>4. CASE ~(n < q.min \/ first + n - 1 > Len(order))
      <4>1. first + n - 1 <= Len(order)
        BY <3>4
      <4>2. W \in SUBSET S
        BY <4>1
      <4> HIDE DEF W, g
      <4>3. Try(acc, W) \in X
        BY <1>3, <4>2
      <4> QED
        BY <3>2, <3>4, <4>3
    <3> QED
      BY <3>3, <3>4
  <2>2. PICK start, h, N : start = [best EXCEPT !.over = FALSE] /\ h = g(first) /\ N = Nat
    OBVIOUS
  <2>3. start \in X /\ lens \in Seq(Nat)
    <3>1. \A r \in X : [r EXCEPT !.over = FALSE] \in X
      OBVIOUS
    <3>2. start \in X
      BY <2>2, <3>1
    <3>3. lens \in Seq(Nat)
      <4>1. q.max \in Nat
        BY DEF Bounded
      <4> QED
        BY <4>1
    <3> QED
      BY <3>2, <3>3
  <2>4. From(best, first) = Fold(h, start, lens)
    BY <2>2
  <2>5. StaysIn(h, X, N) /\ start \in X /\ lens \in Seq(N)
    BY <2>1, <2>2, <2>3
  <2> HIDE DEF From, lens, X, g
  <2>6. Fold(h, start, lens) \in X
    BY <2>5, FoldStays
  <2> QED
    BY <2>4, <2>6
<1> HIDE DEF From
<1>6. StaysIn(f, X, 1..Len(order))
  <2> SUFFICES ASSUME NEW best \in X, NEW first \in 1..Len(order)
               PROVE  f[best][first] \in X
    BY DEF StaysIn
  <2>1. best \in Search /\ first \in Nat
    BY <1>4
  <2>2. f[best][first] = From(best, first)
    BY <2>1
  <2> QED
    BY <1>5, <2>2
<1>7. none \in X /\ starts \in Seq(1..Len(order))
  BY <1>1
<1>8. Fold(f, none, starts) \in X
  <2> HIDE DEF f, X, starts
  <2> QED
    BY <1>6, <1>7, FoldStays
<1>9. Fold(f, none, starts).stops \in SUBSET S
  <2>1. \A r \in X : r.stops \in SUBSET S
    OBVIOUS
  <2> HIDE DEF f, starts, X
  <2> QED
    BY <1>8, <2>1
<1> HIDE DEF f, starts
<1> QED
  BY <1>2, <1>9

LEMMA FoundIn ==
    ASSUME NEW S \in SUBSET Places, NEW order \in Orders(S), NEW q, Bounded(q),
           NEW must, NEW avoid, NEW forbidden, NEW unique
    PROVE  Found(order, q, must, avoid, forbidden, unique) \in SUBSET S
<1> DEFINE allowed == {i \in ToSet(order) : i \notin forbidden}
           from == must \union (allowed \ avoid)
           First(W, V) == IF Cardinality(W) >= q.min THEN W ELSE V
           window == BestWindow(order, q, must, avoid, forbidden, unique)
           start == IF from = {} THEN allowed ELSE from
<1>1. Found(order, q, must, avoid, forbidden, unique) =
        IF window # {} THEN window
        ELSE First(First(Greedy(order, start, q), Greedy(order, allowed, q)),
                   ToSet(Cut(order, q.max)))
  BY DEF Found
<1>2. order \in Seq(S) /\ q.max \in Nat
  BY DEF Orders, Bounded
<1> HIDE DEF allowed, start
<1>3. window \in SUBSET S
  BY <1>2, BestWindowIn
<1>4. Greedy(order, start, q) \in SUBSET S /\ Greedy(order, allowed, q) \in SUBSET S
  <2>1. Greedy(order, start, q) \in Fine(S) /\ Greedy(order, allowed, q) \in Fine(S)
    BY <1>2, GreedyIsFine
  <2> QED
    BY <2>1 DEF Fine
<1>5. ToSet(Cut(order, q.max)) \in SUBSET S
  <2>1. Cut(order, q.max) \in Seq(S)
    BY <1>2, CutIn
  <2> QED
    BY <2>1, RangeOf
<1> HIDE DEF window
<1> QED
  BY <1>1, <1>3, <1>4, <1>5

LEMMA SeededIn ==
    ASSUME NEW S \in SUBSET Places, NEW order \in Seq(S), NEW q, Bounded(q),
           NEW found \in SUBSET S, NEW must \in SUBSET S, NEW forbidden
    PROVE  Seeded(found, order, q, must, forbidden) \in SUBSET S
<1> DEFINE extra == Keep(order, ToSet(order) \ (found \union forbidden \union must))
           key == [i \in must |-> 0]
           first == Sorted(must, key)
<1>1. Seeded(found, order, q, must, forbidden) =
        IF must \subseteq found THEN found ELSE ToSet(Cut(first \o extra, q.max))
  BY DEF Seeded
<1>2. extra \in Seq(S)
  <2>1. S \in SUBSET Nat
    BY FinitePlaces
  <2> QED
    BY <2>1, KeepsIn
<1>3. first \in Seq(S)
  <2>1. \A i \in must : key[i] \in Nat
    OBVIOUS
  <2>2. must \in SUBSET Places
    OBVIOUS
  <2> HIDE DEF key
  <2>3. Sorted(must, key) \in Seq(must)
    BY <2>1, <2>2, SortedSeq
  <2> QED
    BY <2>3, SeqWider
<1> HIDE DEF extra, first
<1>4. first \o extra \in Seq(S)
  BY <1>2, <1>3
<1>5. Cut(first \o extra, q.max) \in Seq(S)
  BY <1>4, CutIn DEF Bounded
<1>6. ToSet(Cut(first \o extra, q.max)) \in SUBSET S
  BY <1>5, RangeOf
<1> QED
  BY <1>1, <1>6

LEMMA PickWindowFine ==
    ASSUME NEW S \in SUBSET Places, NEW order \in Orders(S), NEW q, Bounded(q),
           NEW must \in SUBSET S, NEW avoid, NEW forbidden, NEW unique
    PROVE  PickWindow(order, q, must, avoid, forbidden, unique) \in RoutesOf(Fine(S))
<1> DEFINE found == Found(order, q, must, avoid, forbidden, unique)
           seeded == Seeded(found, order, q, must, forbidden)
           dense == Densify(Extend(seeded, order, q), order, q)
           cut == Trim(Extend(dense, order, q), q, KmCap(q))
<1>1. PickWindow(order, q, must, avoid, forbidden, unique) =
        IF order = <<>> THEN <<>> ELSE Cut(Tour[WithoutClashes(cut)], q.max)
  BY DEF PickWindow
<1>2. /\ Family(SUBSET S, S) /\ Family(Fine(S), S) /\ order \in Seq(S) /\ q.max \in Nat
      /\ Hereditary(SUBSET S) /\ Hereditary(Fine(S))
  BY Families DEF Orders, Bounded, Family
<1>3. PICK X : X = SUBSET S
  OBVIOUS
<1>4. found \in X
  BY <1>3, FoundIn
<1> HIDE DEF found
<1>5. seeded \in X
  BY <1>2, <1>3, <1>4, SeededIn
<1> HIDE DEF seeded
<1>6. Family(X, S) /\ Hereditary(X)
  BY <1>2, <1>3
<1>7. dense \in X
  <2>1. Extend(seeded, order, q) \in X
    BY <1>2, <1>5, <1>6, ExtendStays
  <2> QED
    BY <1>6, <2>1, DensifyStays
<1> HIDE DEF dense
<1>8. cut \in X
  <2>1. Extend(dense, order, q) \in X
    BY <1>2, <1>6, <1>7, ExtendStays
  <2> QED
    BY <1>6, <2>1, TrimStays
<1> HIDE DEF cut
<1>9. WithoutClashes(cut) \in Fine(S)
  BY <1>3, <1>8, FiltersClashes
<1>10. Cut(Tour[WithoutClashes(cut)], q.max) \in RoutesOf(Fine(S))
  BY <1>2, <1>9, TourIsRoute, CutIsRoute
<1>11. <<>> \in RoutesOf(Fine(S))
  BY <1>2, NothingIsFine, NoStops
<1> QED
  BY <1>1, <1>10, <1>11

LEMMA PickNovelFine ==
    ASSUME NEW S \in SUBSET Places, NEW order \in Orders(S), NEW q, Bounded(q), NEW avoid
    PROVE  PickNovel(S, order, q, avoid) \in RoutesOf(Fine(S))
<1> DEFINE novel == S \ avoid
           fits == [W \in SUBSET Places |-> [i \in Places |->
                      /\ i \in novel
                      /\ ~Clashing(W \union {i})
                      /\ TourWithin(W \union {i}, NovelLeg(q))
                      /\ TourKm[W \union {i}] <= KmCap(q) \/ Cardinality(W) < q.min
                      /\ Cardinality(W) < q.max]]
           own == Collect({}, order, fits)
           shared == Sorted(ToSet(order) \cap avoid, [i \in Places |-> FromCentre(i, novel)])
           grown == FillUp(Extend(FillFirst(novel, shared, q), order, q), shared, q)
           Kept(W) == Cut(Tour[Trim(W, q, KmCap(q))], q.max)
<1>1. PickNovel(S, order, q, avoid) =
        IF novel = {} THEN <<>>
        ELSE IF Cardinality(novel) >= q.min /\ Cardinality(own) >= q.min
             THEN Kept(Extend(own, order, q))
        ELSE Kept(FilterClashes(grown))
  BY DEF PickNovel
<1>2. /\ Family(SUBSET S, S) /\ Family(Fine(S), S) /\ order \in Seq(S) /\ q.max \in Nat
      /\ Hereditary(SUBSET S) /\ Hereditary(Fine(S)) /\ {} \in Fine(S)
  BY Families, NothingIsFine DEF Orders, Bounded, Family
<1>3. ASSUME NEW W \in Fine(S) PROVE Kept(W) \in RoutesOf(Fine(S))
  <2>1. Trim(W, q, KmCap(q)) \in Fine(S)
    BY <1>2, TrimStays
  <2> QED
    BY <1>2, <2>1, TourIsRoute, CutIsRoute
<1> HIDE DEF Kept
<1>4. Extend(own, order, q) \in Fine(S)
  <2>1. \A V \in Fine(S), i \in S : fits[V][i] => ~Clashing(V \union {i})
    <3> TAKE V \in Fine(S), i \in S
    <3>1. V \in SUBSET Places /\ i \in Places
      BY DEF Fine
    <3> QED
      BY <3>1
  <2> HIDE DEF fits
  <2>2. Admits(fits, Fine(S), S)
    BY <1>2, <2>1, NoClashAdmits
  <2>3. own \in Fine(S)
    BY <1>2, <2>2, Collected
  <2> HIDE DEF own
  <2> QED
    BY <1>2, <2>3, ExtendStays
<1>5. FilterClashes(grown) \in Fine(S)
  <2> DEFINE A == ToSet(order) \cap avoid
             key == [i \in Places |-> FromCentre(i, novel)]
  <2>1. A \in SUBSET S /\ A \in SUBSET Places /\ novel \in SUBSET S /\ novel \in SUBSET Places
    BY DEF Orders
  <2>2. \A i \in A : key[i] \in Nat
    BY <2>1, CentreNat
  <2>3. shared = Sorted(A, key)
    OBVIOUS
  <2> HIDE DEF A, key, shared
  <2>4. shared \in Seq(S)
    <3>1. shared \in Seq(A)
      BY <2>1, <2>2, <2>3, SortedSeq
    <3> QED
      BY <2>1, <3>1, SeqWider
  <2> HIDE DEF novel
  <2>5. PICK X : X = SUBSET S
    OBVIOUS
  <2>6. FillFirst(novel, shared, q) \in X
    BY <2>1, <2>4, <2>5, FillsFirst
  <2>7. Extend(FillFirst(novel, shared, q), order, q) \in X
    BY <1>2, <2>5, <2>6, ExtendStays
  <2>8. grown \in X
    BY <1>2, <2>4, <2>5, <2>7, FillsUp
  <2> HIDE DEF grown
  <2> QED
    BY <2>5, <2>8, FiltersClashes
<1>6. <<>> \in RoutesOf(Fine(S))
  BY <1>2, NoStops
<1> HIDE DEF own, grown
<1> QED
  BY <1>1, <1>3, <1>4, <1>5, <1>6

LEMMA ClampStays ==
    ASSUME NEW S, NEW X, Family(X, S), NEW path \in RoutesOf(X), NEW order \in Orders(S), NEW q
    PROVE  Clamp(path, order, q) \in RoutesOf(X)
<1> DEFINE trimmed == Trim(ToSet(path), q, KmCap(q))
           rebuilt == Greedy(order, ToSet(order), q)
<1>1. Clamp(path, order, q) \in {path, Tour[trimmed], Tour[rebuilt]}
  BY DEF Clamp
<1>2. Hereditary(X) /\ S \in SUBSET Places /\ Fine(S) \subseteq X /\ order \in Seq(S)
      /\ ToSet(path) \in X
  BY RoutesIn DEF Family, Orders
<1>3. trimmed \in X
  BY <1>2, TrimStays
<1>4. rebuilt \in X
  BY <1>2, GreedyIsFine
<1> HIDE DEF trimmed, rebuilt
<1>5. Tour[trimmed] \in RoutesOf(X) /\ Tour[rebuilt] \in RoutesOf(X)
  BY <1>2, <1>3, <1>4, TourIsRoute
<1> QED
  BY <1>1, <1>5

-----------------------------------------------------------------------------
(* The draft.                                                              *)

LEMMA TrimStopsStays ==
    ASSUME NEW X, Hereditary(X), NEW path \in RoutesOf(X), NEW q, Bounded(q)
    PROVE  TrimStops(path, q) \in RoutesOf(X)
<1> DEFINE f == [p \in Seq(Places) |-> IF Len(p) <= q.max \/ Km(Front(p)) < q.abs THEN p
                                       ELSE Front(p)]
<1>1. PICK n : n = Len(path)
  OBVIOUS
<1>2. n \in Nat /\ TrimStops(path, q) = Repeat(f, path, n)
  BY <1>1, RoutesIn DEF TrimStops
<1>3. ASSUME NEW p \in RoutesOf(X) PROVE f[p] \in RoutesOf(X)
  <2>1. p \in Seq(Places) /\ (p = <<>> => Len(p) <= q.max)
    BY RoutesIn DEF Bounded
  <2>2. f[p] = IF Len(p) <= q.max \/ Km(Front(p)) < q.abs THEN p ELSE Front(p)
    BY <2>1
  <2>3. p # <<>> => Front(p) \in RoutesOf(X)
    BY FrontIsRoute
  <2> HIDE DEF f
  <2> QED
    BY <2>1, <2>2, <2>3
<1>4. RoutesOf(X) \subseteq DOMAIN f
  BY DEF RoutesOf
<1> HIDE DEF f
<1>5. ClosedUnder(f, RoutesOf(X))
  BY <1>3, <1>4 DEF ClosedUnder
<1> QED
  BY <1>2, <1>5, RepeatStays

LEMMA DropLastStays ==
    ASSUME NEW X, Hereditary(X), NEW path \in RoutesOf(X), NEW q, Bounded(q)
    PROVE  DropLast(path, q) \in RoutesOf(X)
<1> DEFINE f == [p \in Seq(Places) |-> IF Len(p) <= q.min \/ Km(p) <= KmCap(q) THEN p
                                       ELSE Front(p)]
<1>1. PICK n : n = Len(path)
  OBVIOUS
<1>2. n \in Nat /\ DropLast(path, q) = Repeat(f, path, n)
  BY <1>1, RoutesIn DEF DropLast
<1>3. ASSUME NEW p \in RoutesOf(X) PROVE f[p] \in RoutesOf(X)
  <2>1. p \in Seq(Places) /\ (p = <<>> => Len(p) <= q.min)
    BY RoutesIn DEF Bounded
  <2>2. f[p] = IF Len(p) <= q.min \/ Km(p) <= KmCap(q) THEN p ELSE Front(p)
    BY <2>1
  <2>3. p # <<>> => Front(p) \in RoutesOf(X)
    BY FrontIsRoute
  <2> HIDE DEF f
  <2> QED
    BY <2>1, <2>2, <2>3
<1>4. RoutesOf(X) \subseteq DOMAIN f
  BY DEF RoutesOf
<1> HIDE DEF f
<1>5. ClosedUnder(f, RoutesOf(X))
  BY <1>3, <1>4 DEF ClosedUnder
<1> QED
  BY <1>2, <1>5, RepeatStays

LEMMA RankedFine ==
    ASSUME NEW S \in SUBSET Places, NEW stops \in Seq(Nat), NEW banned
    PROVE  Ranked(stops, S, banned) \in RoutesOf(Fine(S))
<1> DEFINE f == [seed \in Seq(Places) |-> [i \in Nat |->
             IF i \in S \ banned /\ ~ClashInPath(Append(seed, i))
             THEN Append(seed, i) ELSE seed]]
           X == RoutesOf(Fine(S))
<1>1. PICK z, N : z = <<>> /\ N = Nat
  OBVIOUS
<1>2. Ranked(stops, S, banned) = Fold(f, z, stops)
  BY <1>1 DEF Ranked
<1>3. z \in X
  BY <1>1, Families, NothingIsFine, NoStops
<1>4. StaysIn(f, X, N)
  <2> SUFFICES ASSUME NEW p \in X, NEW i \in Nat PROVE f[p][i] \in X
    BY <1>1 DEF StaysIn
  <2>1. p \in Seq(Places) /\ Plain(p) /\ ToSet(p) \in Fine(S)
    BY RoutesIn
  <2>2. f[p][i] = IF i \in S \ banned /\ ~ClashInPath(Append(p, i)) THEN Append(p, i) ELSE p
    BY <2>1
  <2>3. CASE i \in S \ banned /\ ~ClashInPath(Append(p, i))
    <3> DEFINE r == Append(p, i)
    <3>1. r \in Seq(Places) /\ ToSet(r) = ToSet(p) \union {i}
      BY <2>1, <2>3, Added
    <3>2. ~Clashing(ToSet(r)) /\ ~(Cardinality(ToSet(r)) < Len(r))
      BY <2>3 DEF ClashInPath
    <3> HIDE DEF r
    <3>3. Cardinality(ToSet(r)) = Len(r)
      <4>1. Cardinality(ToSet(r)) \in Nat /\ Cardinality(ToSet(r)) <= Len(r)
        BY <3>1, FiniteRange
      <4>2. Len(r) \in Nat
        BY <3>1
      <4> QED
        BY <3>2, <4>1, <4>2
    <3>4. Plain(r)
      BY <3>1, <3>3, FiniteRange
    <3>5. ToSet(r) \in Fine(S)
      BY <2>1, <2>3, <3>1, <3>2 DEF Fine
    <3>6. r \in X
      BY <3>1, <3>4, <3>5 DEF RoutesOf
    <3> HIDE DEF X, f
    <3> QED
      BY <2>2, <2>3, <3>6 DEF r
  <2>4. CASE ~(i \in S \ banned /\ ~ClashInPath(Append(p, i)))
    <3> HIDE DEF X, f
    <3> QED
      BY <2>2, <2>4
  <2> QED
    BY <2>3, <2>4
<1> HIDE DEF f, X
<1>5. Fold(f, z, stops) \in X
  BY <1>1, <1>3, <1>4, FoldStays
<1> QED
  BY <1>2, <1>5 DEF X

LEMMA GrowFirstStays ==
    ASSUME NEW S, NEW X, Family(X, S), NEW path \in RoutesOf(X), NEW order \in Seq(S), NEW q,
           NEW banned
    PROVE  GrowFirst(path, order, q, banned) \in RoutesOf(X)
<1> DEFINE Allowed(W) == {i \in ToSet(order) \ (W \union banned) :
                             /\ ~Clashing(W \union {i})
                             /\ TourWithin(W \union {i}, GrowLimit(q))
                             /\ ~TooLongForA(q, TourKm[W \union {i}])}
           Fitting(W) == Keep(order, Allowed(W))
           Enough(p) == \/ Km(p) >= q.abs
                        \/ Len(p) >= q.max + (IF q.short THEN 1 ELSE 2)
                        \/ Fitting(ToSet(p)) = <<>>
           f == [p \in Seq(Places) |-> IF Enough(p) THEN p
                                       ELSE Tour[ToSet(p) \union {Fitting(ToSet(p))[1]}]]
<1>1. PICK n : n = Len(order)
  OBVIOUS
<1>2. n \in Nat /\ GrowFirst(path, order, q, banned) = Repeat(f, path, n)
  BY <1>1 DEF GrowFirst
<1>3. \A W, i : i \in Allowed(W) => i \in S /\ ~Clashing(W \union {i})
  BY RangeOf
<1>4. \A p : ~Enough(p) => Fitting(ToSet(p)) # <<>>
  OBVIOUS
<1> HIDE DEF Allowed, Enough
<1>5. ASSUME NEW p \in RoutesOf(X) PROVE f[p] \in RoutesOf(X)
  <2> DEFINE W == ToSet(p)
             first == Fitting(W)[1]
  <2>1. p \in Seq(Places) /\ W \in X /\ Hereditary(X) /\ S \in SUBSET Nat
    BY RoutesIn, FinitePlaces DEF Family
  <2>2. f[p] = IF Enough(p) THEN p ELSE Tour[W \union {first}]
    BY <2>1
  <2>3. CASE Enough(p)
    <3> HIDE DEF f
    <3> QED
      BY <2>2, <2>3
  <2>4. CASE ~Enough(p)
    <3>1. Fitting(W) # <<>>
      BY <1>4, <2>4
    <3>2. Fitting(W) \in Seq(S) /\ ToSet(Fitting(W)) \subseteq Allowed(W)
      BY <2>1, KeepsIn
    <3>3. first \in Allowed(W)
      <4> HIDE DEF Fitting
      <4>1. Len(Fitting(W)) > 0 /\ 1 \in 1..Len(Fitting(W))
        BY <3>1, <3>2
      <4> QED
        BY <3>2, <4>1, RangeOf
    <3> HIDE DEF first
    <3>4. W \union {first} \in X
      BY <1>3, <2>1, <3>3 DEF Family, Fine
    <3>5. Tour[W \union {first}] \in RoutesOf(X)
      BY <2>1, <3>4, TourIsRoute
    <3> HIDE DEF f
    <3> QED
      BY <2>2, <2>4, <3>5
  <2> QED
    BY <2>3, <2>4
<1>6. RoutesOf(X) \subseteq DOMAIN f
  BY DEF RoutesOf
<1> HIDE DEF f
<1>7. ClosedUnder(f, RoutesOf(X))
  BY <1>5, <1>6 DEF ClosedUnder
<1> QED
  BY <1>2, <1>7, RepeatStays

LEMMA LongEnoughFine ==
    ASSUME NEW S \in SUBSET Places, NEW W \in SUBSET S, NEW order \in Seq(S), NEW q, Bounded(q)
    PROVE  LongEnough(W, order, q) \in Fine(S)
<1> DEFINE grown == Extend(W, order, q)
           cut == IF q.short THEN Trim(grown, q, LongestA) ELSE grown
<1>1. LongEnough(W, order, q) = WithoutClashes(cut)
  BY DEF LongEnough
<1>2. PICK X : X = SUBSET S
  OBVIOUS
<1>3. Family(X, S) /\ Hereditary(X)
  BY <1>2, Families DEF Family
<1>4. grown \in X
  BY <1>2, <1>3, ExtendStays
<1> HIDE DEF grown
<1>5. cut \in X
  BY <1>3, <1>4, TrimStays
<1> HIDE DEF cut
<1> QED
  BY <1>1, <1>2, <1>5, FiltersClashes

LEMMA FromDraftFine ==
    ASSUME NEW S \in SUBSET Places, NEW stops \in Seq(Nat), NEW order \in Seq(S), NEW q,
           Bounded(q), NEW banned
    PROVE  FromDraft(stops, S, order, q, banned) \in RoutesOf(Fine(S))
<1> DEFINE seed == Cut(Ranked(stops, S, banned), q.max)
           path == IF LegsWithin(seed, StepLimit(q)) THEN seed ELSE Tour[ToSet(seed)]
           short == DropLast(path, q)
           grown == GrowFirst(short, order, q, banned)
           W == LongEnough(ToSet(grown), order, q)
<1>1. FromDraft(stops, S, order, q, banned) \in {<<>>, TrimStops(Tour[W], q)}
  BY DEF FromDraft
<1>2. PICK X : X = Fine(S)
  OBVIOUS
<1>3. Family(X, S) /\ Hereditary(X) /\ {} \in X /\ X \subseteq SUBSET S /\ q.max \in Nat
  BY <1>2, Families, NothingIsFine DEF Family, Bounded
<1>4. seed \in RoutesOf(X)
  BY <1>2, <1>3, RankedFine, CutIsRoute
<1> HIDE DEF seed
<1>5. path \in RoutesOf(X)
  BY <1>3, <1>4, RoutesIn, TourIsRoute
<1> HIDE DEF path
<1>6. short \in RoutesOf(X)
  BY <1>3, <1>5, DropLastStays
<1> HIDE DEF short
<1>7. grown \in RoutesOf(X)
  BY <1>3, <1>6, GrowFirstStays
<1> HIDE DEF grown
<1>8. W \in X
  <2>1. ToSet(grown) \in SUBSET S
    BY <1>3, <1>7, RoutesIn
  <2> QED
    BY <1>2, <2>1, LongEnoughFine
<1> HIDE DEF W
<1>9. TrimStops(Tour[W], q) \in RoutesOf(X)
  BY <1>3, <1>8, TourIsRoute, TrimStopsStays
<1>10. <<>> \in RoutesOf(X)
  BY <1>3, NoStops
<1> QED
  BY <1>1, <1>2, <1>9, <1>10

LEMMA TourOrders ==
    ASSUME NEW S \in SUBSET Places
    PROVE  Tour[S] \in Orders(S) /\ Tour[S] \in Seq(S)
BY TourVisits DEF Orders

LEMMA FinalStopsFine ==
    ASSUME NEW S \in SUBSET Places, NEW stops \in Seq(Nat), NEW q, Bounded(q), NEW banned
    PROVE  FinalStops(stops, S, q, banned) \in RoutesOf(Fine(S))
<1> DEFINE order == Tour[S]
           draft == FromDraft(stops, S, order, q, banned)
           seed == ToSet(Ranked(stops, S, banned))
           W == LongEnough(seed, order, q)
           window == PickWindow(order, q, {}, banned \cap S, banned \cap S, 0)
<1>1. FinalStops(stops, S, q, banned) \in {draft, TrimStops(Tour[W], q), window}
  BY DEF FinalStops
<1>2. PICK X : X = Fine(S)
  OBVIOUS
<1>3. Hereditary(X) /\ X \subseteq SUBSET S /\ order \in Orders(S) /\ order \in Seq(S)
  BY <1>2, Families, TourOrders DEF Family
<1> HIDE DEF order
<1>4. draft \in RoutesOf(X)
  BY <1>2, <1>3, FromDraftFine
<1>5. window \in RoutesOf(X)
  <2>1. {} \in SUBSET S
    OBVIOUS
  <2> QED
    BY <1>2, <1>3, <2>1, PickWindowFine
<1>6. W \in X
  <2>1. Ranked(stops, S, banned) \in RoutesOf(X)
    BY <1>2, RankedFine
  <2>2. seed \in SUBSET S
    BY <1>3, <2>1, RoutesIn
  <2> QED
    BY <1>2, <1>3, <2>2, LongEnoughFine
<1> HIDE DEF W, draft, window
<1>7. TrimStops(Tour[W], q) \in RoutesOf(X)
  BY <1>3, <1>6, TourIsRoute, TrimStopsStays
<1> QED
  BY <1>1, <1>2, <1>4, <1>5, <1>7

-----------------------------------------------------------------------------
(* The algorithm, and routes that differ.                                  *)

LEMMA ProfilesBounded ==
    ASSUME NEW S \in SUBSET Places, NEW id \in {"A", "B", "C"}
    PROVE  Bounded(ProfileOf(id, S))
<1> DEFINE size == LargerOf(Cardinality(S), MinStops)
           top == Min({MaxStops, size})
<1>1. ProfileOf(id, S).min = MinStops /\ ProfileOf(id, S).max = top
  <2>1. CASE id = "A"
    BY <2>1 DEF ProfileOf
  <2>2. CASE id = "B"
    BY <2>2 DEF ProfileOf
  <2>3. CASE id = "C"
    BY <2>3 DEF ProfileOf
  <2> QED
    BY <2>1, <2>2, <2>3
<1>2. size \in Nat
  <2>1. Cardinality(S) \in Nat
    BY FinitePlaces
  <2> QED
    BY <2>1 DEF LargerOf, MinStops
<1> HIDE DEF size
<1>3. top \in {MaxStops, size}
  <2>1. PICK x \in {MaxStops, size} : \A y \in {MaxStops, size} : x <= y
    <3>1. {MaxStops, size} \in SUBSET Nat /\ {MaxStops, size} # {}
      BY <1>2 DEF MaxStops
    <3> QED
      BY <3>1, Least
  <2> QED
    BY <2>1 DEF Min
<1> HIDE DEF top
<1>4. top \in Nat
  BY <1>2, <1>3 DEF MaxStops
<1> QED
  BY <1>1, <1>4 DEF Bounded, MinStops

\* Some place is farther from the centre than every other.
LEMMA FarthestIn ==
    ASSUME NEW S \in SUBSET Places, S # {}
    PROVE  Farthest(S) \in S
<1> DEFINE Ahead(i) == {j \in S : Farther(j, i, S)}
           counts == {Cardinality(Ahead(i)) : i \in S}
<1>1. \A i \in S : FromCentre(i, S) \in Nat /\ i \in Nat
  BY CentreNat, FinitePlaces
<1>2. \A i, j \in S : i # j => Farther(i, j, S) \/ Farther(j, i, S)
  BY <1>1 DEF Farther
<1>3. /\ \A i \in S : ~Farther(i, i, S)
      /\ \A i, j, k \in S : Farther(i, j, S) /\ Farther(j, k, S) => Farther(i, k, S)
  BY <1>1 DEF Farther
<1>4. \A i \in S : IsFiniteSet(Ahead(i)) /\ Cardinality(Ahead(i)) \in Nat
  <2> TAKE i \in S
  <2>1. Ahead(i) \in SUBSET Places
    OBVIOUS
  <2> HIDE DEF Ahead
  <2> QED
    BY <2>1, FinitePlaces
<1>5. PICK n \in counts : \A m \in counts : n <= m
  <2>1. counts \in SUBSET Nat /\ counts # {}
    BY <1>4
  <2> HIDE DEF counts
  <2> QED
    BY <2>1, Least
<1>6. PICK i \in S : n = Cardinality(Ahead(i))
  OBVIOUS
<1>7. Ahead(i) = {}
  <2> SUFFICES ASSUME NEW j \in Ahead(i) PROVE FALSE
    OBVIOUS
  <2>1. j \in S /\ Farther(j, i, S)
    OBVIOUS
  <2>2. Ahead(j) \subseteq Ahead(i) /\ j \notin Ahead(j)
    BY <1>3, <2>1
  <2>3. Cardinality(Ahead(j)) \in counts
    BY <2>1
  <2>4. Ahead(j) # Ahead(i) /\ IsFiniteSet(Ahead(i))
    BY <1>4, <2>2
  <2>5. Cardinality(Ahead(j)) < Cardinality(Ahead(i))
    <3> HIDE DEF Ahead
    <3>1. Ahead(j) \in SUBSET Ahead(i)
      BY <2>2
    <3>2. /\ Cardinality(Ahead(j)) <= Cardinality(Ahead(i))
          /\ Cardinality(Ahead(i)) = Cardinality(Ahead(j)) => Ahead(j) = Ahead(i)
      BY <2>4, <3>1, FS_Subset
    <3> QED
      BY <1>4, <2>1, <2>4, <3>2
  <2>6. Cardinality(Ahead(j)) \in Nat /\ Cardinality(Ahead(i)) \in Nat
    BY <1>4, <2>1
  <2> HIDE DEF counts, Ahead
  <2>7. Cardinality(Ahead(i)) <= Cardinality(Ahead(j))
    BY <1>5, <1>6, <2>3
  <2> QED
    BY <2>5, <2>6, <2>7
<1>8. \A j \in S \ {i} : Farther(i, j, S)
  BY <1>2, <1>7
<1> QED
  BY <1>8 DEF Farthest

LEMMA NextLikedIn ==
    ASSUME NEW S \in SUBSET Places, NEW prefer \in Seq(Places), NEW banned, NEW used
    PROVE  /\ NextLiked(prefer, S, banned, used) \in SUBSET S
           /\ prefer = <<>> => NextLiked(prefer, S, banned, used) = {}
<1> DEFINE left == Keep(prefer, (S \ banned) \ used)
<1>1. /\ left \in Seq(Places) /\ ToSet(left) \subseteq (S \ banned) \cap ToSet(prefer)
  BY FinitePlaces, KeepsIn
<1>2. left # <<>> => left[1] \in ToSet(left)
  <2> HIDE DEF left
  <2>1. left # <<>> => 1 \in 1..Len(left)
    BY <1>1
  <2> QED
    BY <1>1, <2>1, RangeOf
<1>3. NextLiked(prefer, S, banned, used) = IF left = <<>> THEN {} ELSE {left[1]}
  BY DEF NextLiked
<1>4. prefer = <<>> => ToSet(prefer) = {}
  BY DEF ToSet
<1> HIDE DEF left
<1> QED
  BY <1>1, <1>2, <1>3, <1>4

\* Without a liked place the third route is as fine as the others.
LEMMA RouteCIn ==
    ASSUME NEW S \in SUBSET Places, S # {}, NEW X, Family(X, S), NEW order \in Orders(S), NEW q,
           Bounded(q), NEW a, NEW b, NEW banned, NEW prefer \in Seq(Places),
           X = SUBSET S \/ prefer = <<>>
    PROVE  RouteC(S, order, q, a, b, banned, prefer) \in RoutesOf(X)
<1> DEFINE novel == PickNovel(S, order, q, ToSet(b) \union banned)
           wish == NextLiked(prefer, S, banned, ToSet(a) \union ToSet(b)) \ ToSet(novel)
           withWish == ToSet(novel) \union wish
           c0 == IF wish # {} /\ Cardinality(withWish) >= q.min
                 THEN Cut(Tour[withWish], q.max) ELSE novel
           far == IF Outliers(S) \subseteq ToSet(b) THEN {Farthest(S)} \ ToSet(b)
                  ELSE Outliers(S) \ ToSet(b)
           window == PickWindow(order, q, far, ToSet(b), banned, 1)
<1>1. RouteC(S, order, q, a, b, banned, prefer) =
        IF Len(c0) < q.min \/ Km(c0) < q.lo THEN window ELSE c0
  BY DEF RouteC
<1>2. Hereditary(X) /\ Fine(S) \subseteq X /\ X \subseteq SUBSET S /\ q.max \in Nat
  BY DEF Family, Bounded
<1>3. novel \in RoutesOf(X) /\ ToSet(novel) \in SUBSET S
  <2>1. novel \in RoutesOf(Fine(S))
    BY PickNovelFine
  <2> HIDE DEF novel
  <2>2. novel \in RoutesOf(X)
    BY <1>2, <2>1, Wider
  <2> QED
    BY <1>2, <2>2, RoutesIn
<1>4. wish \in SUBSET S /\ (prefer = <<>> => wish = {})
  <2> DEFINE next == NextLiked(prefer, S, banned, ToSet(a) \union ToSet(b))
  <2>1. next \in SUBSET S /\ (prefer = <<>> => next = {})
    BY NextLikedIn
  <2> HIDE DEF next
  <2> QED
    BY <2>1 DEF next
<1> HIDE DEF novel, wish
<1>5. wish # {} => withWish \in X
  BY <1>3, <1>4
<1> HIDE DEF withWish
<1>6. c0 \in RoutesOf(X)
  <2>1. wish # {} => Cut(Tour[withWish], q.max) \in RoutesOf(X)
    BY <1>2, <1>5, TourIsRoute, CutIsRoute
  <2> QED
    BY <1>3, <2>1
<1> HIDE DEF c0
<1>7. far \in SUBSET S
  BY FarthestIn DEF Outliers
<1> HIDE DEF far
<1>8. window \in RoutesOf(X)
  <2>1. window \in RoutesOf(Fine(S))
    BY <1>7, PickWindowFine
  <2> HIDE DEF window
  <2> QED
    BY <1>2, <2>1, Wider
<1> HIDE DEF window
<1> QED
  BY <1>1, <1>6, <1>8

LEMMA AlgorithmIn ==
    ASSUME NEW S \in SUBSET Places, S # {}, NEW X, Family(X, S), NEW order \in Orders(S),
           NEW banned, NEW prefer \in Seq(Places), X = SUBSET S \/ prefer = <<>>
    PROVE  Algorithm(S, order, banned, prefer) \in [{"A", "B", "C"} -> RoutesOf(X)]
<1> DEFINE qA == ProfileOf("A", S)
           qB == ProfileOf("B", S)
           qC == ProfileOf("C", S)
           a == PickWindow(order, qA, NextLiked(prefer, S, banned, {}),
                           Outliers(S) \union banned, banned, 0)
           b == PickWindow(order, qB, NextLiked(prefer, S, banned, ToSet(a)),
                           ToSet(a) \union banned, banned, 1)
           c == RouteC(S, order, qC, a, b, banned, prefer)
<1>1. Algorithm(S, order, banned, prefer) =
        [A |-> Clamp(a, order, qA), B |-> Clamp(b, order, qB), C |-> Clamp(c, order, qC)]
  BY DEF Algorithm, Each
<1>2. Bounded(qA) /\ Bounded(qB) /\ Bounded(qC)
  BY ProfilesBounded
<1>3. Fine(S) \subseteq X
  BY DEF Family
<1> HIDE DEF qA, qB, qC
<1>4. a \in RoutesOf(X)
  <2>1. NextLiked(prefer, S, banned, {}) \in SUBSET S
    BY NextLikedIn
  <2>2. a \in RoutesOf(Fine(S))
    BY <1>2, <2>1, PickWindowFine
  <2> HIDE DEF a
  <2> QED
    BY <1>3, <2>2, Wider
<1> HIDE DEF a
<1>5. b \in RoutesOf(X)
  <2>1. NextLiked(prefer, S, banned, ToSet(a)) \in SUBSET S
    BY NextLikedIn
  <2>2. b \in RoutesOf(Fine(S))
    BY <1>2, <2>1, PickWindowFine
  <2> HIDE DEF b
  <2> QED
    BY <1>3, <2>2, Wider
<1> HIDE DEF b
<1>6. c \in RoutesOf(X)
  BY <1>2, RouteCIn
<1> HIDE DEF c
<1>7. /\ Clamp(a, order, qA) \in RoutesOf(X) /\ Clamp(b, order, qB) \in RoutesOf(X)
      /\ Clamp(c, order, qC) \in RoutesOf(X)
  BY <1>4, <1>5, <1>6, ClampStays
<1> QED
  BY <1>1, <1>7

LEMMA ReplacedIn ==
    ASSUME NEW R, NEW old \in R, NEW new \in R, NEW spare \in R, NEW other, NEW pair, NEW size
    PROVE  Replaced(old, new, other, pair, spare, size) \in R
<1>1. Replaced(old, new, other, pair, spare, size) \in {old, new, spare}
  BY DEF Replaced
<1> QED
  BY <1>1

LEMMA DiversifyStays ==
    ASSUME NEW S \in SUBSET Places, NEW X, Family(X, S), NEW order \in Orders(S), NEW banned,
           NEW routes \in [{"A", "B", "C"} -> RoutesOf(X)],
           NEW algo \in [{"A", "B", "C"} -> RoutesOf(X)]
    PROVE  Diversify(routes, S, order, banned, algo) \in [{"A", "B", "C"} -> RoutesOf(X)]
<1> DEFINE qB == ProfileOf("B", S)
           qC == ProfileOf("C", S)
           size == Cardinality(S)
           a == routes["A"]
           avoidA == ToSet(a) \union banned
           newB == PickWindow(order, qB, {}, avoidA, banned, 1)
           b == Replaced(routes["B"], newB, a, <<"A", "B">>, algo["B"], size)
           new1 == PickNovel(S, order, qC, ToSet(b) \union banned)
           c == Replaced(routes["C"], new1, b, <<"B", "C">>, algo["C"], size)
           new2 == PickNovel(S, order, qC, avoidA \union ToSet(b))
           d == Replaced(c, new2, a, <<"A", "C">>, algo["C"], size)
<1>1. Diversify(routes, S, order, banned, algo) = [A |-> a, B |-> b, C |-> d]
  BY DEF Diversify, Each
<1>2. Bounded(qB) /\ Bounded(qC)
  BY ProfilesBounded
<1>3. Fine(S) \subseteq X
  BY DEF Family
<1> HIDE DEF qB, qC, size
<1> DEFINE R == RoutesOf(X)
<1>4. /\ a \in R /\ routes["B"] \in R /\ routes["C"] \in R
      /\ algo["B"] \in R /\ algo["C"] \in R
  OBVIOUS
<1>5. RoutesOf(Fine(S)) \subseteq R
  BY <1>3, Wider
<1>6. newB \in R
  <2>1. {} \in SUBSET S
    OBVIOUS
  <2>2. newB \in RoutesOf(Fine(S))
    BY <1>2, <2>1, PickWindowFine
  <2> HIDE DEF newB, R
  <2> QED
    BY <1>5, <2>2
<1> HIDE DEF a, avoidA, newB, R
<1>7. b \in R
  BY <1>4, <1>6, ReplacedIn
<1> HIDE DEF b
<1>8. new1 \in R /\ new2 \in R
  BY <1>2, <1>5, PickNovelFine
<1> HIDE DEF new1, new2
<1>9. c \in R
  BY <1>4, <1>8, ReplacedIn
<1> HIDE DEF c
<1>10. d \in R
  BY <1>4, <1>8, <1>9, ReplacedIn
<1> HIDE DEF d
<1> QED
  BY <1>1, <1>4, <1>7, <1>10 DEF R

-----------------------------------------------------------------------------
(* Rings.                                                                  *)

LEMMA LoopOrderStays ==
    ASSUME NEW X, Hereditary(X), NEW path \in RoutesOf(X), NEW limit
    PROVE  OrderForLoop(path, limit) \in RoutesOf(X)
<1> DEFINE W == ToSet(path)
           From(i) == WalkOn(i, W)
           Home(p) == Gap(p[Len(p)], p[1])
           Better(best, i) == /\ 100 * Home(From(i)) <= 115 * limit
                              /\ LegsWithin(From(i), limit)
                              /\ best = <<>> \/ Home(From(i)) < Home(best)
           f == [best \in Seq(Places) |-> [i \in Places |->
                    IF Better(best, i) THEN From(i) ELSE best]]
           R == RoutesOf(X) \union {<<>>}
<1>1. PICK z : z = <<>>
  OBVIOUS
<1>2. OrderForLoop(path, limit) =
        IF Len(path) <= 2 \/ Fold(f, z, path) = <<>> THEN path ELSE Fold(f, z, path)
  BY <1>1 DEF OrderForLoop
<1>3. W \in X /\ W \in SUBSET Places /\ path \in Seq(W)
  BY RoutesIn DEF Hereditary
<1> HIDE DEF Better, W
<1>4. StaysIn(f, R, W)
  <2> SUFFICES ASSUME NEW best \in R, NEW i \in W PROVE f[best][i] \in R
    BY DEF StaysIn
  <2>1. best \in Seq(Places) /\ i \in Places
    <3>1. best \in RoutesOf(X) => best \in Seq(Places)
      BY RoutesIn
    <3>2. best = <<>> => best \in Seq(Places)
      OBVIOUS
    <3> QED
      BY <1>3, <3>1, <3>2
  <2>2. f[best][i] = IF Better(best, i) THEN From(i) ELSE best
    BY <2>1
  <2>3. From(i) \in RoutesOf(X)
    BY <1>3, WalkVisits, SeqWider DEF RoutesOf
  <2> HIDE DEF f
  <2> QED
    BY <2>2, <2>3
<1>5. z \in R
  BY <1>1
<1> HIDE DEF f, R
<1>6. Fold(f, z, path) \in R
  BY <1>3, <1>4, <1>5, FoldStays
<1> QED
  BY <1>2, <1>6 DEF R

LEMMA ResolveLoopStays ==
    ASSUME NEW X, Hereditary(X), NEW path \in RoutesOf(X), NEW asked, NEW q
    PROVE  /\ ResolveLoop(asked, path, q).path \in RoutesOf(X)
           /\ ResolveLoop(asked, path, q).loop \in BOOLEAN
<1>1. OrderForLoop(path, StepLimit(q)) \in RoutesOf(X)
  BY LoopOrderStays
<1> QED
  BY <1>1 DEF ResolveLoop

LEMMA ShortenToLoopStays ==
    ASSUME NEW X, Hereditary(X), NEW path \in RoutesOf(X), NEW q, Bounded(q)
    PROVE  ShortenToLoop(path, q) \in RoutesOf(X)
<1> DEFINE Ring(p) == ResolveLoop(TRUE, p, q)
           f == [p \in Seq(Places) |-> IF Len(p) <= q.min \/ Ring(p).loop THEN p
                                       ELSE Tour[ToSet(Front(p))]]
           start == Tour[ToSet(path)]
<1>1. PICK n : n = Len(path)
  OBVIOUS
<1>2. n \in Nat /\ ToSet(path) \in X
  BY <1>1, RoutesIn
<1>3. ShortenToLoop(path, q) =
        IF Len(Repeat(f, start, n)) <= q.min THEN path ELSE Ring(Repeat(f, start, n)).path
  BY <1>1 DEF ShortenToLoop
<1> HIDE DEF Ring
<1>4. ASSUME NEW p \in RoutesOf(X) PROVE f[p] \in RoutesOf(X)
  <2>1. p \in Seq(Places) /\ (p = <<>> => Len(p) <= q.min)
    BY RoutesIn DEF Bounded
  <2>2. f[p] = IF Len(p) <= q.min \/ Ring(p).loop THEN p ELSE Tour[ToSet(Front(p))]
    BY <2>1
  <2>3. p # <<>> => Tour[ToSet(Front(p))] \in RoutesOf(X)
    BY FrontIsRoute, RoutesIn, TourIsRoute
  <2> HIDE DEF f
  <2> QED
    BY <2>1, <2>2, <2>3
<1>5. RoutesOf(X) \subseteq DOMAIN f
  BY DEF RoutesOf
<1>6. start \in RoutesOf(X)
  BY <1>2, TourIsRoute
<1> HIDE DEF f, start
<1>7. ClosedUnder(f, RoutesOf(X))
  BY <1>4, <1>5 DEF ClosedUnder
<1>8. Repeat(f, start, n) \in RoutesOf(X)
  BY <1>2, <1>6, <1>7, RepeatStays
<1>9. Ring(Repeat(f, start, n)).path \in RoutesOf(X)
  BY <1>8, ResolveLoopStays DEF Ring
<1> QED
  BY <1>3, <1>9

LEMMA FinalCaseStays ==
    ASSUME NEW X, Hereditary(X), NEW path \in RoutesOf(X), NEW q, Bounded(q),
           NEW id \in {"A", "B", "C"}, NEW asked
    PROVE  /\ FinalCase(id, asked, path, q) \in Cases
           /\ FinalCase(id, asked, path, q).id = id
           /\ FinalCase(id, asked, path, q).stops \in RoutesOf(X)
           /\ FinalCase(id, asked, path, q).link = (FinalCase(id, asked, path, q).stops # <<>>)
<1> DEFINE short == IF asked THEN ShortenToLoop(path, q) ELSE path
           got == ResolveLoop(asked, short, q)
<1>1. FinalCase(id, asked, path, q) =
        [id |-> id, stops |-> got.path, loop |-> got.loop, link |-> got.path # <<>>]
  BY DEF FinalCase
<1>2. short \in RoutesOf(X)
  BY ShortenToLoopStays
<1> HIDE DEF short
<1>3. got.path \in RoutesOf(X) /\ got.loop \in BOOLEAN
  BY <1>2, ResolveLoopStays
<1> HIDE DEF got
<1>4. got.path \in Seq(Nat)
  <2>1. got.path \in Seq(Places) /\ Places \in SUBSET Nat
    BY <1>3, RoutesIn, FinitePlaces
  <2> QED
    BY <2>1, SeqWider
<1>5. id \in ToSet(CaseIds)
  BY DEF ToSet, CaseIds
<1> QED
  BY <1>1, <1>3, <1>4, <1>5 DEF Cases

-----------------------------------------------------------------------------
(* Programs.                                                               *)

\* Three cases A, B and C; with routes of a family and the map links of these.
Trio == {cs \in Seq(Cases) : Len(cs) = 3 /\ \A k \in 1..3 : cs[k].id = CaseIds[k]}
TrioOf(X) == {cs \in Trio : \A k \in 1..3 : /\ cs[k].stops \in RoutesOf(X)
                                             /\ cs[k].link = (cs[k].stops # <<>>)}

\* Sets of stops without clash and without a disliked place.
Clean(S, banned) == {V \in Fine(S) : V \cap banned = {}}

LEMMA CleanHereditary ==
    ASSUME NEW S \in SUBSET Places, NEW banned
    PROVE  Hereditary(Clean(S, banned))
BY Families DEF Clean, Family, Hereditary

LEMMA ThreeIds ==
    /\ \A k \in 1..3 : CaseIds[k] \in {"A", "B", "C"} /\ CaseIds[k] \in ToSet(CaseIds)
    /\ ToSet(CaseIds) = {"A", "B", "C"}
<1>1. /\ DOMAIN CaseIds = 1..3 /\ CaseIds[1] = "A" /\ CaseIds[2] = "B" /\ CaseIds[3] = "C"
  BY DEF CaseIds
<1>2. ToSet(CaseIds) = {CaseIds[k] : k \in 1..3}
  BY <1>1 DEF ToSet
<1>3. \A k \in 1..3 : k = 1 \/ k = 2 \/ k = 3
  OBVIOUS
<1>4. ToSet(CaseIds) = {"A", "B", "C"}
  BY <1>1, <1>2, <1>3
<1> QED
  BY <1>1, <1>3, <1>4

LEMMA ByIdIn ==
    ASSUME NEW cases \in Seq(Cases), NEW id \in DOMAIN ById(cases)
    PROVE  ById(cases)[id] \in Cases
<1> DEFINE T == {k \in DOMAIN cases : cases[k].id = id}
<1>1. id \in {c.id : c \in ToSet(cases)}
  BY DEF ById
<1>2. T \in SUBSET Nat /\ T # {}
  BY <1>1 DEF ToSet
<1> HIDE DEF T
<1>3. PICK k \in T : \A j \in T : k <= j
  BY <1>2, Least
<1>4. k \in DOMAIN cases /\ cases[k].id = id /\ k \in Nat /\ k \in 1..Len(cases)
  BY <1>3 DEF T
<1>5. \A j \in 1..(k - 1) : cases[j].id # id
  <2> SUFFICES ASSUME NEW j \in 1..(k - 1), cases[j].id = id PROVE FALSE
    OBVIOUS
  <2>1. j \in DOMAIN cases
    BY <1>4
  <2>2. j \in T /\ ~(k <= j)
    BY <1>4, <2>1 DEF T
  <2> QED
    BY <1>3, <2>2
<1> DEFINE m == CHOOSE i \in DOMAIN cases : /\ cases[i].id = id
                                            /\ \A j \in 1..(i - 1) : cases[j].id # id
<1>6. m \in DOMAIN cases
  BY <1>4, <1>5
<1>7. ById(cases)[id] = cases[m]
  BY <1>1 DEF ById
<1> HIDE DEF m
<1> QED
  BY <1>6, <1>7

LEMMA StripClean ==
    ASSUME NEW S \in SUBSET Places, NEW path \in RoutesOf(Fine(S)), NEW banned
    PROVE  Strip(path, banned \cap S) \in RoutesOf(Clean(S, banned))
<1> DEFINE out == banned \cap S
           r == Keep(path, ToSet(path) \ out)
<1>1. Strip(path, out) = r
  BY DEF Strip
<1>2. path \in Seq(Places) /\ Plain(path) /\ ToSet(path) \in Fine(S) /\ Places \in SUBSET Nat
  BY RoutesIn, FinitePlaces
<1>3. r \in Seq(Places) /\ Plain(r) /\ ToSet(r) \subseteq (ToSet(path) \ out) \cap ToSet(path)
  BY <1>2, KeepsIn
<1> HIDE DEF r
<1>4. ToSet(r) \in Clean(S, banned)
  BY <1>2, <1>3, Families DEF Clean, Fine, Clashing
<1> QED
  BY <1>1, <1>3, <1>4 DEF RoutesOf

LEMMA LeisureIn ==
    ASSUME NEW pl \in SUBSET Places
    PROVE  Leisure(pl) \in SUBSET Places /\ Leisure(pl) \subseteq pl
BY DEF Leisure

\* Whatever the three cases are, those that are finalized are clean.
LEMMA FinalizeClean ==
    ASSUME NEW pl \in SUBSET Places, Leisure(pl) # {}, NEW cases \in Trio, NEW banned
    PROVE  Finalize(cases, pl, banned) \in TrioOf(Clean(Leisure(pl), banned))
<1> DEFINE S == Leisure(pl)
           q == Each(LAMBDA id : ProfileOf(id, S))
           out == banned \cap S
           raw == Each(LAMBDA id : FinalStops(ById(cases)[id].stops, S, q[id], banned))
           algo == Algorithm(S, Tour[S], out, <<>>)
           apart == Diversify(raw, S, Tour[S], out, algo)
           routes == Each(LAMBDA id : Strip(apart[id], out))
           Ids == {"A", "B", "C"}
           X == Fine(S)
<1>1. Finalize(cases, pl, banned) =
        [k \in 1..Len(cases) |->
            FinalCase(cases[k].id, cases[k].loop, routes[cases[k].id], q[cases[k].id])]
  BY DEF Finalize
<1>2. S \in SUBSET Places /\ S # {} /\ Family(X, S) /\ Tour[S] \in Orders(S)
  BY LeisureIn, Families, TourOrders
<1>3. \A id \in Ids : q[id] = ProfileOf(id, S)
  BY DEF Each
<1>4. cases \in Seq(Cases) /\ Len(cases) = 3 /\ \A k \in 1..3 : cases[k].id = CaseIds[k]
  BY DEF Trio
<1> HIDE DEF S
<1>5. \A id \in Ids : Bounded(q[id])
  BY <1>2, <1>3, ProfilesBounded
<1> HIDE DEF q
<1>6. raw \in [Ids -> RoutesOf(X)]
  <2>1. ASSUME NEW id \in Ids
        PROVE  FinalStops(ById(cases)[id].stops, S, q[id], banned) \in RoutesOf(X)
    <3>1. id \in DOMAIN ById(cases)
      <4>1. \E k \in 1..3 : CaseIds[k] = id
        BY DEF CaseIds
      <4>2. PICK k \in 1..3 : CaseIds[k] = id
        BY <4>1
      <4>3. cases[k] \in ToSet(cases) /\ cases[k].id = id
        BY <1>4, <4>2, RangeOf
      <4>4. DOMAIN ById(cases) = {c.id : c \in ToSet(cases)}
        BY DEF ById
      <4> QED
        BY <4>3, <4>4
    <3>2. ById(cases)[id] \in Cases
      BY <1>4, <3>1, ByIdIn
    <3>3. ById(cases)[id].stops \in Seq(Nat)
      BY <3>2 DEF Cases
    <3> QED
      BY <1>2, <1>5, <3>3, FinalStopsFine
  <2> DEFINE F(id) == FinalStops(ById(cases)[id].stops, S, q[id], banned)
  <2>2. F("A") \in RoutesOf(X) /\ F("B") \in RoutesOf(X) /\ F("C") \in RoutesOf(X)
    BY <2>1
  <2>3. raw = [A |-> F("A"), B |-> F("B"), C |-> F("C")]
    BY DEF Each
  <2> HIDE DEF F, raw
  <2> QED
    BY <2>2, <2>3
<1>7. algo \in [Ids -> RoutesOf(X)]
  <2>1. PICK z : z = <<>>
    OBVIOUS
  <2>2. z \in Seq(Places)
    BY <2>1
  <2>3. Algorithm(S, Tour[S], out, z) \in [{"A", "B", "C"} -> RoutesOf(X)]
    BY <1>2, <2>1, <2>2, AlgorithmIn
  <2> QED
    BY <2>1, <2>3
<1> HIDE DEF raw, algo, X
<1>8. apart \in [Ids -> RoutesOf(X)]
  BY <1>2, <1>6, <1>7, DiversifyStays
<1> HIDE DEF apart
<1> DEFINE Y == Clean(S, banned)
<1>9. \A id \in Ids : routes[id] \in RoutesOf(Y)
  <2>1. \A id \in Ids : Strip(apart[id], out) \in RoutesOf(Y)
    <3> TAKE id \in Ids
    <3>1. apart[id] \in RoutesOf(Fine(S))
      BY <1>8 DEF X
    <3> QED
      BY <1>2, <3>1, StripClean
  <2>2. routes = [A |-> Strip(apart["A"], out), B |-> Strip(apart["B"], out),
                  C |-> Strip(apart["C"], out)]
    BY DEF Each
  <2> HIDE DEF out, Y, routes
  <2> QED
    BY <2>1, <2>2
<1> HIDE DEF routes, Y
<1>10. Hereditary(Y)
  BY <1>2, CleanHereditary DEF Y
<1> DEFINE F(k) == FinalCase(cases[k].id, cases[k].loop, routes[cases[k].id], q[cases[k].id])
<1>11. ASSUME NEW k \in 1..3
       PROVE  /\ F(k) \in Cases /\ F(k).id = CaseIds[k] /\ F(k).stops \in RoutesOf(Y)
              /\ F(k).link = (F(k).stops # <<>>)
  <2>1. cases[k].id \in Ids /\ cases[k].id = CaseIds[k]
    BY <1>4, ThreeIds
  <2>2. routes[cases[k].id] \in RoutesOf(Y) /\ Bounded(q[cases[k].id])
    BY <1>5, <1>9, <2>1
  <2> QED
    BY <1>10, <2>1, <2>2, FinalCaseStays
<1> HIDE DEF F
<1>12. PICK r : r = [k \in 1..3 |-> F(k)]
  OBVIOUS
<1>13. /\ r \in Seq(Cases) /\ Len(r) = 3
       /\ \A k \in 1..3 : /\ r[k].id = CaseIds[k] /\ r[k].stops \in RoutesOf(Y)
                         /\ r[k].link = (r[k].stops # <<>>)
  BY <1>11, <1>12
<1>14. Finalize(cases, pl, banned) = r
  BY <1>1, <1>4, <1>12 DEF F
<1> QED
  BY <1>13, <1>14 DEF TrioOf, Trio, Y, S

\* What the rules answer to a pool: with places to walk to, three clean routes.
Answers(pl, banned) ==
    IF Leisure(pl) = {} THEN Trio ELSE TrioOf(Clean(Leisure(pl), banned))

LEMMA AnswersAreTrios ==
    ASSUME NEW pl, NEW banned
    PROVE  Answers(pl, banned) \subseteq Trio /\ Trio \subseteq Seq(Cases)
BY DEF Answers, TrioOf, Trio

LEMMA FinalizeAnswers ==
    ASSUME NEW pl \in SUBSET Places, NEW cases \in Trio, NEW banned
    PROVE  Finalize(cases, pl, banned) \in Answers(pl, banned)
<1>1. CASE Leisure(pl) # {}
  BY <1>1, FinalizeClean DEF Answers
<1>2. CASE Leisure(pl) = {}
  <2>1. Finalize(cases, pl, banned) = cases
    BY <1>2 DEF Finalize
  <2> QED
    BY <1>2, <2>1 DEF Answers
<1> QED
  BY <1>1, <1>2

LEMMA DraftCaseIn ==
    ASSUME NEW id \in {"A", "B", "C"}, NEW path \in Seq(Places), NEW loop \in BOOLEAN
    PROVE  DraftCase(id, path, loop) \in Cases /\ DraftCase(id, path, loop).id = id
<1> DEFINE stops == IF path = <<>> THEN path ELSE Front(path)
<1>1. DraftCase(id, path, loop) = [id |-> id, stops |-> stops, loop |-> loop, link |-> FALSE]
  BY DEF DraftCase
<1>2. stops \in Seq(Places)
  <2>1. CASE path = <<>>
    BY <2>1
  <2>2. CASE path # <<>>
    <3>1. Len(path) - 1 \in 0..Len(path)
      BY <2>2
    <3> QED
      BY <2>2, <3>1, Prefix DEF Front
  <2> QED
    BY <2>1, <2>2
<1> HIDE DEF stops
<1>3. stops \in Seq(Nat)
  <2>1. Places \in SUBSET Nat
    BY FinitePlaces
  <2> QED
    BY <1>2, <2>1, SeqWider
<1>4. id \in ToSet(CaseIds)
  BY ThreeIds
<1> QED
  BY <1>1, <1>3, <1>4 DEF Cases

\* Three routes are three cases.
LEMMA DraftTrio ==
    ASSUME NEW routes, NEW loop, NEW cases,
           cases = [k \in 1..3 |-> DraftCase(CaseIds[k], routes[CaseIds[k]], loop[CaseIds[k]])],
           \A id \in {"A", "B", "C"} : routes[id] \in Seq(Places) /\ loop[id] \in BOOLEAN
    PROVE  cases \in Trio
<1>1. ASSUME NEW k \in 1..3
      PROVE  cases[k] \in Cases /\ cases[k].id = CaseIds[k]
  <2>1. CaseIds[k] \in {"A", "B", "C"}
    BY ThreeIds
  <2>2. cases[k] = DraftCase(CaseIds[k], routes[CaseIds[k]], loop[CaseIds[k]])
    OBVIOUS
  <2> QED
    BY <2>1, <2>2, DraftCaseIn
<1>2. cases \in Seq(Cases) /\ Len(cases) = 3
  BY <1>1
<1> QED
  BY <1>1, <1>2 DEF Trio

LEMMA NoRoutesTrio == NoRoutes \in Trio
<1> DEFINE routes == [id \in {"A", "B", "C"} |-> <<>>]
           loop == [id \in {"A", "B", "C"} |-> FALSE]
<1>1. \A id \in {"A", "B", "C"} : routes[id] \in Seq(Places) /\ loop[id] \in BOOLEAN
  OBVIOUS
<1>2. ASSUME NEW k \in 1..3
      PROVE  DraftCase(CaseIds[k], <<>>, FALSE)
               = DraftCase(CaseIds[k], routes[CaseIds[k]], loop[CaseIds[k]])
  BY ThreeIds
<1>3. NoRoutes = [k \in 1..3 |->
                    DraftCase(CaseIds[k], routes[CaseIds[k]], loop[CaseIds[k]])]
  BY <1>2 DEF NoRoutes
<1> HIDE DEF routes, loop
<1> QED
  BY <1>1, <1>3, DraftTrio

LEMMA ShiftedOrders ==
    ASSUME NEW S, NEW order \in Orders(S), NEW variant \in Nat
    PROVE  Shifted(order, variant) \in Orders(S)
<1> DEFINE n == Len(order)
           shift == IF order = <<>> THEN 0 ELSE (variant * 3) % n
<1>1. order \in Seq(S) /\ ToSet(order) = S /\ n \in Nat /\ DOMAIN order = 1..n
  BY DEF Orders
<1>2. shift \in 0..n
  <2>1. CASE order = <<>>
    BY <1>1, <2>1
  <2>2. CASE order # <<>>
    <3>1. n > 0 /\ variant * 3 \in Nat
      BY <1>1, <2>2
    <3>2. (variant * 3) % n \in 0..(n - 1)
      BY <1>1, <3>1
    <3> HIDE DEF n
    <3> QED
      BY <1>1, <2>2, <3>2
  <2> QED
    BY <2>1, <2>2
<1> DEFINE front == SubSeq(order, 1, shift)
           back == SubSeq(order, shift + 1, n)
<1>3. Shifted(order, variant) = back \o front
  BY DEF Shifted
<1> HIDE DEF shift, n
<1>4. front \in Seq(S) /\ Len(front) = shift /\ \A k \in 1..shift : front[k] = order[k]
  <2>1. \A k \in 1..shift : order[k] \in S
    BY <1>1, <1>2
  <2>2. /\ front \in Seq(S) /\ Len(front) = IF 1 <= shift THEN shift - 1 + 1 ELSE 0
        /\ \A k \in 1..(shift - 1 + 1) : front[k] = order[1 + k - 1]
    BY <1>2, <2>1, SubSeqProperties
  <2> HIDE DEF front
  <2> QED
    BY <1>2, <2>2
<1>5. /\ back \in Seq(S) /\ Len(back) = n - shift
      /\ \A k \in 1..(n - shift) : back[k] = order[shift + k]
  <2>1. \A k \in (shift + 1)..n : order[k] \in S
    BY <1>1, <1>2
  <2>2. /\ back \in Seq(S)
        /\ Len(back) = IF shift + 1 <= n THEN n - (shift + 1) + 1 ELSE 0
        /\ \A k \in 1..(n - (shift + 1) + 1) : back[k] = order[(shift + 1) + k - 1]
    BY <1>1, <1>2, <2>1, SubSeqProperties
  <2> HIDE DEF back
  <2> QED
    BY <1>1, <1>2, <2>2
<1> HIDE DEF front, back
<1> DEFINE r == back \o front
<1>6. r \in Seq(S) /\ Len(r) = n
  BY <1>1, <1>2, <1>4, <1>5
<1>7. \A k \in 1..n : \E j \in 1..n : r[j] = order[k]
  <2> TAKE k \in 1..n
  <2>0. n \in Nat /\ shift \in Nat /\ shift <= n /\ k \in Nat /\ 1 <= k /\ k <= n
    BY <1>1, <1>2
  <2>1. CASE k <= shift
    <3>1. PICK j : j = (n - shift) + k
      OBVIOUS
    <3>2. j \in 1..n /\ r[j] = front[k]
      BY <1>4, <1>5, <2>0, <2>1, <3>1
    <3>3. front[k] = order[k]
      BY <1>4, <2>0, <2>1
    <3> HIDE DEF r
    <3> QED
      BY <3>2, <3>3
  <2>2. CASE k > shift
    <3>1. PICK j : j = k - shift
      OBVIOUS
    <3>2. j \in 1..n /\ j \in 1..(n - shift) /\ shift + j = k
      BY <2>0, <2>2, <3>1
    <3>3. r[j] = back[j]
      BY <1>4, <1>5, <3>2
    <3>4. back[j] = order[k]
      BY <1>5, <3>2
    <3> HIDE DEF r
    <3> QED
      BY <3>2, <3>3, <3>4
  <2> HIDE DEF r
  <2> QED
    BY <2>0, <2>1, <2>2
<1> HIDE DEF r
<1>8. ToSet(r) = S
  <2>1. DOMAIN r = 1..n /\ ToSet(r) \subseteq S
    BY <1>1, <1>6, RangeOf
  <2>2. ToSet(order) \subseteq ToSet(r)
    BY <1>1, <1>7, <2>1 DEF ToSet
  <2> QED
    BY <1>1, <2>1, <2>2
<1> QED
  BY <1>3, <1>6, <1>8 DEF Orders, r

LEMMA FallbackAnswers ==
    ASSUME NEW pl \in SUBSET Places, NEW banned, NEW prefer \in Seq(Places), NEW variant \in Nat
    PROVE  Fallback(pl, banned, prefer, variant) \in Answers(pl, banned)
<1> DEFINE S == Leisure(pl)
           algo == Algorithm(S, Shifted(Tour[S], variant), banned \cap S, prefer)
           cases == [k \in 1..3 |-> DraftCase(CaseIds[k], algo[CaseIds[k]], FALSE)]
<1>1. Fallback(pl, banned, prefer, variant) =
        IF S = {} THEN NoRoutes ELSE Finalize(cases, pl, banned)
  BY DEF Fallback
<1>2. CASE S = {}
  BY <1>1, <1>2, NoRoutesTrio DEF Answers
<1>3. CASE S # {}
  <2>1. S \in SUBSET Places
    BY LeisureIn
  <2> HIDE DEF S
  <2>2. PICK X : X = SUBSET S
    OBVIOUS
  <2>3. Family(X, S) /\ Shifted(Tour[S], variant) \in Orders(S)
    BY <2>1, <2>2, Families, TourOrders, ShiftedOrders
  <2>4. algo \in [{"A", "B", "C"} -> RoutesOf(X)]
    BY <1>3, <2>1, <2>2, <2>3, AlgorithmIn
  <2> HIDE DEF algo
  <2> DEFINE loop == [id \in {"A", "B", "C"} |-> FALSE]
  <2>5. \A id \in {"A", "B", "C"} : algo[id] \in Seq(Places) /\ loop[id] \in BOOLEAN
    BY <2>4, RoutesIn
  <2>6. \A k \in 1..3 : loop[CaseIds[k]] = FALSE
    BY ThreeIds
  <2>7. cases = [k \in 1..3 |-> DraftCase(CaseIds[k], algo[CaseIds[k]], loop[CaseIds[k]])]
    BY <2>6
  <2> HIDE DEF cases, loop
  <2>8. cases \in Trio
    BY <2>5, <2>7, DraftTrio
  <2> QED
    BY <1>1, <1>3, <2>8, FinalizeAnswers
<1> QED
  BY <1>2, <1>3

LEMMA HybridAnswers ==
    ASSUME NEW pl \in SUBSET Places, NEW draft \in Seq(Cases), NEW banned,
           NEW prefer \in Seq(Places)
    PROVE  Hybrid(pl, draft, banned, prefer) \in Answers(pl, banned)
<1> DEFINE S == Leisure(pl)
           Ids == {"A", "B", "C"}
           out == banned \cap S
           algo == Algorithm(S, Tour[S], out, prefer)
           Ranking(id) ==
               IF id \notin DOMAIN ById(draft) THEN <<>>
               ELSE FromDraft(ById(draft)[id].stops, S, Tour[S], ProfileOf(id, S), banned)
           Chosen(path, id) == IF path = <<>> THEN algo[id] ELSE path
           chosen == Each(LAMBDA id : Chosen(Ranking(id), id))
           apart == Diversify(chosen, S, Tour[S], out, algo)
           Loop(id) == id \in DOMAIN ById(draft) /\ ById(draft)[id].loop
           cases == [k \in 1..3 |-> DraftCase(CaseIds[k], apart[CaseIds[k]], Loop(CaseIds[k]))]
<1>1. Hybrid(pl, draft, banned, prefer) =
        IF S = {} THEN NoRoutes ELSE Finalize(cases, pl, banned)
  BY DEF Hybrid
<1>2. CASE S = {}
  BY <1>1, <1>2, NoRoutesTrio DEF Answers
<1>3. CASE S # {}
  <2>1. S \in SUBSET Places
    BY LeisureIn
  <2> HIDE DEF S
  <2>2. PICK X : X = SUBSET S
    OBVIOUS
  <2>3. Family(X, S) /\ Tour[S] \in Orders(S) /\ Tour[S] \in Seq(S) /\ Fine(S) \subseteq X
    BY <2>1, <2>2, Families, TourOrders DEF Family
  <2>4. algo \in [Ids -> RoutesOf(X)]
    BY <1>3, <2>1, <2>2, <2>3, AlgorithmIn
  <2>5. ASSUME NEW id \in Ids
        PROVE  Ranking(id) \in RoutesOf(X) /\ Loop(id) \in BOOLEAN
    <3>1. CASE id \notin DOMAIN ById(draft)
      <4>1. <<>> \in RoutesOf(X)
        BY <2>1, <2>3, NothingIsFine, NoStops
      <4> QED
        BY <3>1, <4>1
    <3>2. CASE id \in DOMAIN ById(draft)
      <4>1. ById(draft)[id] \in Cases
        BY <3>2, ByIdIn
      <4>2. ById(draft)[id].stops \in Seq(Nat) /\ ById(draft)[id].loop \in BOOLEAN
        BY <4>1 DEF Cases
      <4>3. FromDraft(ById(draft)[id].stops, S, Tour[S], ProfileOf(id, S), banned)
              \in RoutesOf(Fine(S))
        BY <2>1, <2>3, <4>2, ProfilesBounded, FromDraftFine
      <4>4. RoutesOf(Fine(S)) \subseteq RoutesOf(X)
        BY <2>3, Wider
      <4> QED
        BY <3>2, <4>2, <4>3, <4>4
    <3> QED
      BY <3>1, <3>2
  <2> HIDE DEF Ranking, algo
  <2>6. chosen \in [Ids -> RoutesOf(X)]
    <3> DEFINE F(id) == Chosen(Ranking(id), id)
    <3>1. \A id \in Ids : F(id) \in RoutesOf(X)
      BY <2>4, <2>5
    <3>2. chosen = [A |-> F("A"), B |-> F("B"), C |-> F("C")]
      BY DEF Each
    <3> HIDE DEF F, chosen
    <3>3. F("A") \in RoutesOf(X) /\ F("B") \in RoutesOf(X) /\ F("C") \in RoutesOf(X)
      BY <3>1
    <3> QED
      BY <3>2, <3>3
  <2> HIDE DEF chosen
  <2>7. apart \in [Ids -> RoutesOf(X)]
    BY <2>1, <2>3, <2>4, <2>6, DiversifyStays
  <2> HIDE DEF apart
  <2> DEFINE loop == [id \in Ids |-> Loop(id)]
  <2>8. \A id \in {"A", "B", "C"} : apart[id] \in Seq(Places) /\ loop[id] \in BOOLEAN
    BY <2>5, <2>7, RoutesIn
  <2> HIDE DEF Loop
  <2>9. \A k \in 1..3 : loop[CaseIds[k]] = Loop(CaseIds[k])
    BY ThreeIds
  <2>10. cases = [k \in 1..3 |-> DraftCase(CaseIds[k], apart[CaseIds[k]], loop[CaseIds[k]])]
    BY <2>9
  <2> HIDE DEF cases, loop
  <2>11. cases \in Trio
    BY <2>8, <2>10, DraftTrio
  <2> QED
    BY <1>1, <1>3, <2>11, FinalizeAnswers
<1> QED
  BY <1>2, <1>3

LEMMA KeepPlaces ==
    ASSUME NEW p \in Seq(Places), NEW A
    PROVE  Keep(p, A) \in Seq(Places) /\ Keep(p, A) \in Seq(A)
<1>1. Places \in SUBSET Nat
  BY FinitePlaces
<1>2. Keep(p, A) \in Seq(Places) /\ ToSet(Keep(p, A)) \subseteq A
  BY <1>1, KeepsIn
<1>3. Keep(p, A) \in Seq(ToSet(Keep(p, A)))
  BY <1>2, RangeOf
<1> QED
  BY <1>2, <1>3, SeqWider

LEMMA BesidePinnedAnswers ==
    ASSUME NEW pl \in SUBSET Places, NEW draft \in Seq(Cases), NEW pinned, NEW banned,
           NEW prefer \in Seq(Places)
    PROVE  BesidePinned(pl, draft, pinned, banned, prefer) \in Answers(pl, banned)
<1> DEFINE liked == UNION {ToSet(p.stops) : p \in ToSet(pinned)}
           wanted == Keep(prefer, ToSet(prefer) \ (banned \union liked))
           Again(new, k) ==
               IF LikesPinned(new, pinned) THEN Fallback(pl, banned, wanted, k) ELSE new
           f == [new \in Seq(Cases) |-> [k \in Nat |-> Again(new, k)]]
           base == IF draft # <<>> THEN Hybrid(pl, draft, banned, wanted)
                   ELSE Fallback(pl, banned, wanted, 0)
           X == Answers(pl, banned)
<1>1. PICK tries, N : tries = <<1, 2, 3>> /\ N = Nat
  OBVIOUS
<1>2. BesidePinned(pl, draft, pinned, banned, prefer) = Fold(f, base, tries)
  BY <1>1 DEF BesidePinned
<1>3. wanted \in Seq(Places)
  BY KeepPlaces
<1> HIDE DEF wanted
<1>4. base \in X
  <2>1. 0 \in Nat
    OBVIOUS
  <2>2. Fallback(pl, banned, wanted, 0) \in X
    BY <1>3, <2>1, FallbackAnswers
  <2>3. Hybrid(pl, draft, banned, wanted) \in X
    BY <1>3, HybridAnswers
  <2> HIDE DEF X
  <2> QED
    BY <2>2, <2>3
<1>5. StaysIn(f, X, N)
  <2> SUFFICES ASSUME NEW new \in X, NEW k \in Nat PROVE f[new][k] \in X
    BY <1>1 DEF StaysIn
  <2>1. new \in Seq(Cases)
    BY AnswersAreTrios
  <2>2. f[new][k] = Again(new, k)
    BY <2>1
  <2>3. Fallback(pl, banned, wanted, k) \in X
    BY <1>3, FallbackAnswers
  <2>4. Again(new, k) \in {new, Fallback(pl, banned, wanted, k)}
    OBVIOUS
  <2> HIDE DEF X, f, Again
  <2> QED
    BY <2>2, <2>3, <2>4
<1> HIDE DEF f, base, X
<1>6. tries \in Seq(N)
  BY <1>1
<1> QED
  BY <1>2, <1>4, <1>5, <1>6, FoldStays DEF X

LEMMA EnforcedTrio ==
    ASSUME NEW S \in SUBSET Places, NEW cases \in Trio, NEW banned, NEW prefer \in Seq(S)
    PROVE  Enforced(cases, S, banned, prefer) \in Trio
<1> DEFINE Bad(c) == ToSet(c.stops) \cap banned # {}
           out == banned \cap S
           Chosen(c, must) ==
               DraftCase(c.id, PickWindow(Tour[S], ProfileOf(c.id, S), must, out, out, 0), FALSE)
           Next1(acc) == IF acc.left = <<>> THEN {} ELSE {Head(acc.left)}
           Redo(acc, c) ==
               IF Bad(c) THEN [done |-> Append(acc.done, Chosen(c, Next1(acc))),
                               left |-> IF acc.left = <<>> THEN <<>> ELSE Tail(acc.left)]
               ELSE [acc EXCEPT !.done = Append(@, c)]
           States == [done : Seq(Cases), left : Seq(Nat)]
           f == [acc \in States |-> [c \in Cases |-> Redo(acc, c)]]
           Fits(acc, k) == /\ acc \in States /\ acc.left \in Seq(S)
                           /\ acc.done \in Seq(Cases) /\ Len(acc.done) = k
                           /\ \A j \in 1..k : acc.done[j].id = CaseIds[j]
           P == [k \in 0..3 |-> {acc \in States : Fits(acc, k)}]
<1>1. PICK start : start = [done |-> <<>>, left |-> prefer]
  OBVIOUS
<1>2. Enforced(cases, S, banned, prefer) = Fold(f, start, cases).done
  BY <1>1 DEF Enforced
<1>3. cases \in Seq(Cases) /\ Len(cases) = 3 /\ \A k \in 1..3 : cases[k].id = CaseIds[k]
  BY DEF Trio
<1>4. S \in SUBSET Nat /\ Seq(S) \subseteq Seq(Nat)
  BY FinitePlaces, SeqWider
<1>5. Fits(start, 0)
  <2>1. prefer \in Seq(Nat)
    BY <1>4
  <2> QED
    BY <1>1, <2>1
<1>6. ASSUME NEW k \in 1..3, NEW acc, Fits(acc, k - 1), NEW c \in Cases, c.id = CaseIds[k]
      PROVE  f[acc][c] \in States /\ Fits(f[acc][c], k)
  <2>1. acc \in States /\ acc.left \in Seq(S) /\ acc.done \in Seq(Cases)
        /\ Len(acc.done) = k - 1 /\ \A j \in 1..(k - 1) : acc.done[j].id = CaseIds[j]
    BY <1>6
  <2>2. c.id \in {"A", "B", "C"}
    BY <1>6, ThreeIds
  <2>3. f[acc][c] = Redo(acc, c)
    BY <2>1
  <2>4. Next1(acc) \in SUBSET S
    BY <2>1
  <2>5. Chosen(c, Next1(acc)) \in Cases /\ Chosen(c, Next1(acc)).id = c.id
    <3> DEFINE w == PickWindow(Tour[S], ProfileOf(c.id, S), Next1(acc), out, out, 0)
    <3> HIDE DEF Next1, out
    <3>1. w \in RoutesOf(Fine(S))
      BY <2>2, <2>4, TourOrders, ProfilesBounded, PickWindowFine
    <3>2. w \in Seq(Places)
      <4> HIDE DEF w
      <4> QED
        BY <3>1, RoutesIn
    <3> HIDE DEF w
    <3>3. DraftCase(c.id, w, FALSE) \in Cases /\ DraftCase(c.id, w, FALSE).id = c.id
      BY <2>2, <3>2, DraftCaseIn
    <3> QED
      BY <3>3 DEF w
  <2>6. ASSUME NEW d \in Cases, d.id = CaseIds[k], NEW rest \in Seq(S)
        PROVE  /\ [done |-> Append(acc.done, d), left |-> rest] \in States
               /\ Fits([done |-> Append(acc.done, d), left |-> rest], k)
    <3>1. PICK e : e = Append(acc.done, d)
      OBVIOUS
    <3>2. /\ e \in Seq(Cases) /\ Len(e) = k
          /\ \A j \in 1..k : e[j] = IF j = k THEN d ELSE acc.done[j]
      BY <2>1, <3>1
    <3>3. \A j \in 1..k : e[j].id = CaseIds[j]
      <4> TAKE j \in 1..k
      <4>1. CASE j = k
        BY <2>6, <3>2, <4>1
      <4>2. CASE j # k
        <5>1. j \in 1..(k - 1)
          BY <4>2
        <5> QED
          BY <2>1, <3>2, <4>2, <5>1
      <4> QED
        BY <4>1, <4>2
    <3>4. rest \in Seq(Nat)
      BY <1>4
    <3>5. PICK r : r = [done |-> e, left |-> rest]
      OBVIOUS
    <3>6. r \in States /\ r.done = e /\ r.left = rest
      BY <3>2, <3>4, <3>5
    <3>7. Fits(r, k)
      BY <3>2, <3>3, <3>6
    <3> QED
      BY <3>1, <3>5, <3>6, <3>7
  <2> HIDE DEF Chosen, Fits
  <2>7. CASE Bad(c)
    <3>1. PICK rest : rest = IF acc.left = <<>> THEN <<>> ELSE Tail(acc.left)
      OBVIOUS
    <3>2. rest \in Seq(S)
      BY <2>1, <3>1
    <3>3. Redo(acc, c) = [done |-> Append(acc.done, Chosen(c, Next1(acc))), left |-> rest]
      BY <2>7, <3>1
    <3> HIDE DEF Redo, Next1, f, States
    <3> QED
      BY <1>6, <2>3, <2>5, <2>6, <3>2, <3>3
  <2>8. CASE ~Bad(c)
    <3>1. Redo(acc, c) = [done |-> Append(acc.done, c), left |-> acc.left]
      BY <2>1, <2>8
    <3> HIDE DEF Redo, f, States
    <3> QED
      BY <1>6, <2>1, <2>3, <2>6, <3>1
  <2> QED
    BY <2>7, <2>8
<1> HIDE DEF f, Fits
<1>7. \A k \in 0..3 : \A acc : acc \in P[k] <=> acc \in States /\ Fits(acc, k)
  OBVIOUS
<1>8. start \in States
  BY <1>5 DEF Fits
<1>9. PICK n : n = Len(cases)
  OBVIOUS
<1>10. /\ n = 3 /\ n \in Nat /\ \A k \in 1..n : k - 1 \in 0..3 /\ k \in 0..3
       /\ \A k \in 1..n : cases[k] \in Cases /\ cases[k].id = CaseIds[k]
  <2>1. n = 3
    BY <1>3, <1>9
  <2>2. \A k \in 1..n : cases[k] \in Cases
    <3>1. cases \in Seq(Cases)
      BY <1>3
    <3>2. ToSet(cases) \in SUBSET Cases /\ \A k \in 1..Len(cases) : cases[k] \in ToSet(cases)
      BY <3>1, RangeOf
    <3> QED
      BY <1>9, <3>2
  <2>3. \A k \in 1..n : cases[k].id = CaseIds[k]
    BY <1>3, <2>1
  <2>4. \A k \in 1..3 : k - 1 \in 0..3 /\ k \in 0..3
    OBVIOUS
  <2> QED
    BY <2>1, <2>2, <2>3, <2>4
<1> HIDE DEF P, States
<1>11. \A k \in 1..n : \A acc : acc \in P[k - 1] => f[acc][cases[k]] \in P[k]
  BY <1>6, <1>7, <1>10
<1>12. start \in P[0]
  BY <1>5, <1>7, <1>8
<1>13. Fold(f, start, cases) \in P[n]
  BY <1>9, <1>10, <1>11, <1>12, FoldGoes
<1>14. Fits(Fold(f, start, cases), 3)
  BY <1>7, <1>10, <1>13
<1> QED
  BY <1>2, <1>14 DEF Fits, Trio

LEMMA EnforcePolicyAnswers ==
    ASSUME NEW pl \in SUBSET Places, NEW banned, NEW prefer \in Seq(Places),
           NEW cases \in Answers(pl, banned)
    PROVE  EnforcePolicy(cases, pl, banned, prefer) \in Answers(pl, banned)
<1> DEFINE S == Leisure(pl)
           next == Keep(prefer, S \ banned)
           redone == Enforced(cases, S, banned, next)
<1>1. EnforcePolicy(cases, pl, banned, prefer) =
        IF banned = {} \/ S = {} THEN cases ELSE Finalize(redone, pl, banned)
  BY DEF EnforcePolicy
<1>2. next \in Seq(S)
  <2>1. next \in Seq(S \ banned)
    BY KeepPlaces
  <2> QED
    BY <2>1, SeqWider
<1>3. S \in SUBSET Places /\ cases \in Trio
  BY LeisureIn, AnswersAreTrios
<1> HIDE DEF S, next
<1>4. redone \in Trio
  BY <1>2, <1>3, EnforcedTrio
<1> HIDE DEF redone
<1>5. Finalize(redone, pl, banned) \in Answers(pl, banned)
  BY <1>4, FinalizeAnswers
<1> QED
  BY <1>1, <1>5

\* Whatever the draft, the pins and the votes are, the routes made from a pool are three,
\* each of places of the pool, each place once, none disliked and none of the same name.
LEMMA ResolvedAnswers ==
    ASSUME NEW pl \in SUBSET Places, NEW draft \in Seq(Cases), NEW pinned, NEW banned,
           NEW liked \in Seq(Places)
    PROVE  ResolveRoutes(pl, draft, pinned, banned, liked) \in Answers(pl, banned)
<1> DEFINE wanted == Keep(liked, pl \ banned)
           usable == IF Len(draft) >= 3 THEN draft ELSE <<>>
           made == IF pinned # <<>> THEN BesidePinned(pl, usable, pinned, banned, wanted)
                   ELSE IF usable # <<>> THEN Hybrid(pl, draft, banned, wanted)
                   ELSE Fallback(pl, banned, wanted, 0)
           linked == IF \E c \in ToSet(made) : ~c.link THEN Finalize(made, pl, banned)
                     ELSE made
<1>1. ResolveRoutes(pl, draft, pinned, banned, liked) = EnforcePolicy(linked, pl, banned, wanted)
  BY DEF ResolveRoutes
<1>2. wanted \in Seq(Places) /\ usable \in Seq(Cases)
  BY KeepPlaces
<1> HIDE DEF wanted
<1> DEFINE X == Answers(pl, banned)
<1>3. made \in X
  <2>1. 0 \in Nat
    OBVIOUS
  <2>2. Fallback(pl, banned, wanted, 0) \in X
    BY <1>2, <2>1, FallbackAnswers
  <2>3. Hybrid(pl, draft, banned, wanted) \in X
    BY <1>2, HybridAnswers
  <2>4. BesidePinned(pl, usable, pinned, banned, wanted) \in X
    <3> HIDE DEF usable
    <3> QED
      BY <1>2, BesidePinnedAnswers
  <2> HIDE DEF X
  <2> QED
    BY <2>2, <2>3, <2>4
<1> HIDE DEF made
<1>4. linked \in X
  <2>1. made \in Trio
    BY <1>3, AnswersAreTrios
  <2>2. Finalize(made, pl, banned) \in X
    BY <2>1, FinalizeAnswers
  <2> HIDE DEF X
  <2> QED
    BY <1>3, <2>2
<1> HIDE DEF linked
<1> QED
  BY <1>1, <1>2, <1>4, EnforcePolicyAnswers


-----------------------------------------------------------------------------
(* The builds                                                              *)

\* The ranks of n positions are 1..n.
LEMMA NthIn ==
    ASSUME NEW m \in Nat, NEW I \in SUBSET (1..m), NEW n \in 1..Cardinality(I)
    PROVE  (CHOOSE i \in I : Cardinality({j \in I : j <= i}) = n) \in I
<1> DEFINE Up(i) == {j \in I : j <= i}
           rank == [i \in I |-> Cardinality(Up(i))]
           N == Cardinality(I)
<1>1. IsFiniteSet(I)
  <2>1. IsFiniteSet(1..m)
    BY FS_Interval
  <2> QED
    BY <2>1, FS_Subset
<1>2. N \in Nat /\ IsFiniteSet(1..N) /\ Cardinality(1..N) = N
  BY <1>1, FS_CardinalityType, FS_Interval
<1>3. \A i \in I : /\ IsFiniteSet(Up(i)) /\ Cardinality(Up(i)) \in Nat
                   /\ Cardinality(Up(i)) <= N
                   /\ Cardinality(Up(i)) > 0
  <2> TAKE i \in I
  <2>1. Up(i) \in SUBSET I /\ i \in Up(i)
    OBVIOUS
  <2>2. IsFiniteSet(Up(i)) /\ Cardinality(Up(i)) <= N
    BY <1>1, <2>1, FS_Subset
  <2>3. Cardinality(Up(i)) \in Nat /\ Cardinality(Up(i)) # 0
    BY <2>1, <2>2, FS_CardinalityType, FS_EmptySet
  <2> QED
    BY <2>2, <2>3
<1>4. ASSUME NEW i \in I, NEW j \in I, i < j
      PROVE  Cardinality(Up(i)) # Cardinality(Up(j))
  <2>1. Up(i) \in SUBSET Up(j)
    <3>1. \A k \in I : k <= i => k <= j
      BY <1>4
    <3> QED
      BY <3>1
  <2>3. j \in Up(j) /\ j \notin Up(i)
    BY <1>4
  <2> HIDE DEF Up
  <2>2. IsFiniteSet(Up(j))
    BY <1>3
  <2> QED
    BY <2>1, <2>2, <2>3, FS_Subset
<1>5. \A i, j \in I : rank[i] = rank[j] => i = j
  BY <1>4
<1>6. rank \in Injection(I, 1..N)
  <2> HIDE DEF Up
  <2>1. rank \in [I -> 1..N]
    BY <1>2, <1>3
  <2> QED
    BY <2>1, <1>5 DEF Injection, IsInjective
<1>7. rank \in Surjection(I, 1..N)
  BY <1>2, <1>6, FS_Injection
<1>8. PICK i \in I : rank[i] = n
  BY <1>7 DEF Surjection
<1> QED
  BY <1>8

\* Node visits that a build needs to get to a node within one round of the critic.
Ahead(n) == CASE n = "researcher" -> 0
              [] n = "executor" -> 1
              [] n = "writer" -> 2
              [] n = "critic" -> 3

\* What a build has used up: each round of the critic takes four visits, each missed
\* search two more, and the second refusal is the last.
Counting ==
    /\ misses <= steps
    /\ node # "idle" => /\ retries <= 1
                        /\ steps <= 4 * retries + 2 * misses + Ahead(node)

\* What the critic reads is an answer of the rules to the pool and the votes.
Answered == FromPool => program.fresh \in TrioOf(Clean(Leisure(pool), taste.banned))

IInv == TypeOK /\ Counting /\ Answered

\* The graph is run with the rules of the program, as the configuration binds them.
RunsTheRules ==
    \A pl, banned \in SUBSET Places, draft, pinned \in Seq(Cases), liked \in Seq(Places) :
        RoutesFrom(pl, draft, pinned, banned, liked)
            = ResolveRoutes(pl, draft, pinned, banned, liked)

LEMMA PoolIn ==
    ASSUME TypeOK
    PROVE  pool \in SUBSET Places /\ (store = {} => Leisure(pool) = {})
<1>1. CASE store = {}
  <2>1. pool = {}
    BY <1>1 DEF pool
  <2>2. {} \cap Landmarks = {} /\ Cardinality({}) = 0
    BY FS_EmptySet
  <2> QED
    BY <2>1, <2>2 DEF Leisure
<1>2. CASE store # {}
  <2>1. PICK p \in Pools : store = {p}
    BY <1>2 DEF TypeOK
  <2> QED
    BY <1>2, <2>1, AgentBuildAssumption DEF pool
<1> QED
  BY <1>1, <1>2

LEMMA TasteIn ==
    ASSUME TypeOK
    PROVE  taste.liked \in Seq(Places) /\ taste.banned \in SUBSET Places
<1>1. CASE taste \in Tastes
  BY <1>1, AgentBuildAssumption
<1>2. CASE taste = NoTaste
  BY <1>2 DEF NoTaste
<1> QED
  BY <1>1, <1>2 DEF TypeOK

LEMMA CutTrio ==
    ASSUME NEW cs \in Trio
    PROVE  Cut(cs, 3) = cs
<1>1. cs \in Seq(Cases) /\ Len(cs) = 3
  BY DEF Trio
<1>2. SubSeq(cs, 1, Len(cs)) = cs
  BY <1>1, SubSeqFull
<1> QED
  BY <1>1, <1>2 DEF Cut

LEMMA RoutesTyped ==
    ASSUME RunsTheRules, TypeOK, NEW draft \in Drafts
    PROVE  /\ Routes(draft) \in Seq(Cases)
           /\ store # {} => Routes(draft) \in Answers(pool, taste.banned)
<1>1. draft \in Seq(Cases)
  BY AgentBuildAssumption
<1>2. CASE store = {}
  BY <1>1, <1>2 DEF Routes
<1>3. CASE store # {}
  <2> DEFINE r == ResolveRoutes(pool, draft, pins, taste.banned, taste.liked)
  <2>1. Routes(draft) = r
    <3>1. pins \in Seq(Cases)
      BY DEF TypeOK
    <3>2. RoutesFrom(pool, draft, pins, taste.banned, taste.liked) = r
      BY <1>1, <3>1, PoolIn, TasteIn DEF RunsTheRules
    <3> HIDE DEF r
    <3> QED
      BY <1>3, <3>2 DEF Routes
  <2>2. r \in Answers(pool, taste.banned)
    BY <1>1, PoolIn, TasteIn, ResolvedAnswers
  <2> HIDE DEF r
  <2> QED
    BY <2>1, <2>2, AnswersAreTrios
<1> QED
  BY <1>2, <1>3

LEMMA InitIInv == Init => IInv
<1> SUFFICES ASSUME Init PROVE IInv
  OBVIOUS
<1> USE AgentBuildAssumption DEF Init
<1>1. NoProgram \in Programs
  BY DEF NoProgram, Programs
<1>2. TypeOK
  <2>1. RecursionLimit \in Nat /\ MaxBuilds \in Nat
    OBVIOUS
  <2>2. steps \in 0..RecursionLimit /\ misses \in 0..RecursionLimit
        /\ retries \in 0..2 /\ builds \in 0..MaxBuilds
    BY <2>1
  <2>3. pins \in Seq(Cases) /\ program \in Programs /\ version \in Programs
    BY <1>1
  <2>4. store \in {{}} \union {{p} : p \in Pools} /\ taste \in Tastes \union {NoTaste}
    OBVIOUS
  <2> QED
    BY <2>2, <2>3, <2>4 DEF TypeOK
<1>3. Counting /\ Answered
  BY DEF Counting, Answered, FromPool
<1> QED
  BY <1>2, <1>3 DEF IInv

LEMMA StartStep ==
    ASSUME IInv, NEW s \in {"full", "routes"}, NEW t \in Tastes,
           NEW kept \in SUBSET DOMAIN CasesOf(version), Start(s, t, kept)
    PROVE  IInv'
<1>1. TypeOK'
  <2>1. pins' \in Seq(Cases)
    <3>1. CasesOf(version) \in Seq(Cases)
      BY DEF IInv, TypeOK, Programs, CasesOf
    <3>2. PICK m : m = Len(CasesOf(version))
      OBVIOUS
    <3>3. m \in Nat /\ kept \in SUBSET (1..m) /\ \A i \in 1..m : CasesOf(version)[i] \in Cases
      BY <3>1, <3>2
    <3> DEFINE At1(k) == CHOOSE i \in kept : Cardinality({j \in kept : j <= i}) = k
               r == [k \in 1..Cardinality(kept) |-> CasesOf(version)[At1(k)]]
    <3>4. \A k \in 1..Cardinality(kept) : At1(k) \in kept
      BY <3>3, NthIn
    <3>5. Cardinality(kept) \in Nat
      <4>1. IsFiniteSet(1..m)
        BY <3>3, FS_Interval
      <4> QED
        BY <3>3, <4>1, FS_Subset, FS_CardinalityType
    <3>6. pins' = IF s = "full" THEN <<>> ELSE r
      BY DEF Start
    <3> HIDE DEF At1
    <3>7. \A k \in 1..Cardinality(kept) : CasesOf(version)[At1(k)] \in Cases
      BY <3>3, <3>4
    <3>8. r \in Seq(Cases)
      BY <3>5, <3>7
    <3> HIDE DEF r
    <3> QED
      BY <3>6, <3>8
  <2>2. RecursionLimit \in Nat /\ MaxBuilds \in Nat
    BY AgentBuildAssumption
  <2>3. builds' \in 0..MaxBuilds
    BY <2>2 DEF Start, IInv, TypeOK
  <2>4. steps' \in 0..RecursionLimit /\ misses' \in 0..RecursionLimit /\ retries' \in 0..2
    BY <2>2 DEF Start
  <2>5. program' \in Programs /\ version' \in Programs
    BY DEF Start, IInv, TypeOK, NoProgram, Programs
  <2>6. node' \in {"idle", "researcher", "executor", "writer", "critic"}
        /\ scope' \in {"full", "routes"} /\ called' \in BOOLEAN
    BY DEF Start
  <2>7. store' = store /\ store \in {{}} \union {{p} : p \in Pools}
        /\ taste' \in Tastes \union {NoTaste}
    BY DEF Start, IInv, TypeOK
  <2> QED
    BY <2>1, <2>3, <2>4, <2>5, <2>6, <2>7 DEF TypeOK
<1>2. Counting'
  BY DEF Start, Counting, Ahead
<1>3. Answered'
  BY DEF Start, Answered, FromPool
<1> QED
  BY <1>1, <1>2, <1>3 DEF IInv

\* A step that runs a node; what it does to the counters.
LEMMA Counts ==
    ASSUME IInv
    PROVE  /\ steps \in Nat /\ misses \in Nat /\ retries \in Nat /\ retries <= 2
           /\ misses <= steps /\ steps <= RecursionLimit /\ RecursionLimit \in Nat
           /\ node = "researcher" => retries <= 1 /\ steps <= 4 * retries + 2 * misses
           /\ node = "executor" => retries <= 1 /\ steps <= 4 * retries + 2 * misses + 1
           /\ node = "writer" => retries <= 1 /\ steps <= 4 * retries + 2 * misses + 2
           /\ node = "critic" => retries <= 1 /\ steps <= 4 * retries + 2 * misses + 3
<1>1. /\ steps \in 0..RecursionLimit /\ misses \in 0..RecursionLimit /\ retries \in 0..2
      /\ RecursionLimit \in Nat
  BY AgentBuildAssumption DEF IInv, TypeOK
<1>2. Counting
  BY DEF IInv
<1>3. CASE node = "researcher"
  BY <1>1, <1>2, <1>3 DEF Counting, Ahead
<1>4. CASE node = "executor"
  BY <1>1, <1>2, <1>4 DEF Counting, Ahead
<1>5. CASE node = "writer"
  BY <1>1, <1>2, <1>5 DEF Counting, Ahead
<1>6. CASE node = "critic"
  BY <1>1, <1>2, <1>6 DEF Counting, Ahead
<1>7. CASE node \notin {"researcher", "executor", "writer", "critic"}
  BY <1>1, <1>2, <1>7 DEF Counting
<1> QED
  BY <1>3, <1>4, <1>5, <1>6, <1>7

LEMMA ResearchStep == IInv /\ Research => IInv'
<1> SUFFICES ASSUME IInv, Research PROVE IInv'
  OBVIOUS
<1>1. /\ steps < RecursionLimit /\ steps' = steps + 1 /\ misses' = misses
      /\ retries' = retries /\ node = "researcher" /\ node' \in {"executor", "writer"}
  BY DEF Research, InTime
<1>2. TypeOK'
  <2>1. steps' \in 0..RecursionLimit
    BY <1>1, Counts
  <2> QED
    BY <1>1, <2>1 DEF Research, IInv, TypeOK
<1>3. Counting'
  BY <1>1, Counts DEF Counting, Ahead
<1>4. Answered'
  BY <1>1 DEF Answered, FromPool
<1> QED
  BY <1>2, <1>3, <1>4 DEF IInv

LEMMA ExecuteStep == IInv /\ Execute => IInv'
<1> SUFFICES ASSUME IInv, Execute PROVE IInv'
  OBVIOUS
<1>1. PICK found \in {{}} \union {{p} : p \in Pools}, known \in BOOLEAN, last \in BOOLEAN :
         /\ store' = IF found = {} THEN store ELSE found
         /\ called' = (called \/ known)
         /\ \/ node' = "writer" /\ misses' = misses
            \/ node' = "researcher" /\ misses' = misses + 1
  BY DEF Execute
<1>2. /\ steps < RecursionLimit /\ steps' = steps + 1 /\ retries' = retries
      /\ node = "executor"
  BY DEF Execute, InTime
<1>3. TypeOK'
  <2>1. steps' \in 0..RecursionLimit /\ misses' \in 0..RecursionLimit
    BY <1>1, <1>2, Counts
  <2>2. store' \in {{}} \union {{p} : p \in Pools}
    BY <1>1 DEF IInv, TypeOK
  <2>3. called' \in BOOLEAN
    BY <1>1
  <2>4. node' \in {"idle", "researcher", "executor", "writer", "critic"}
    BY <1>1
  <2> QED
    BY <2>1, <2>2, <2>3, <2>4 DEF Execute, IInv, TypeOK
<1>4. Counting'
  BY <1>1, <1>2, Counts DEF Counting, Ahead
<1>5. Answered'
  BY <1>1 DEF Answered, FromPool
<1> QED
  BY <1>3, <1>4, <1>5 DEF IInv

LEMMA WriteStep ==
    ASSUME RunsTheRules, IInv, NEW draft \in Drafts, Write(draft)
    PROVE  IInv'
<1> DEFINE fresh == IF pins = <<>> THEN Routes(draft) ELSE Cut(Routes(draft), 3)
<1>1. /\ steps < RecursionLimit /\ steps' = steps + 1 /\ misses' = misses
      /\ retries' = retries /\ node = "writer" /\ node' = "critic"
  BY DEF Write, InTime
<1>2. /\ program' = [pinned |-> pins, fresh |-> fresh] /\ store' = store /\ taste' = taste
      /\ program'.fresh = fresh
  BY DEF Write
<1>3. TypeOK
  BY DEF IInv
<1>4. fresh \in Seq(Cases)
  <2>1. Routes(draft) \in Seq(Cases)
    BY <1>3, RoutesTyped
  <2> HIDE DEF Routes
  <2> QED
    BY <2>1, CutIn
<1>5. TypeOK'
  <2>1. steps' \in 0..RecursionLimit
    BY <1>1, Counts
  <2>2. program' \in Programs
    <3> HIDE DEF fresh
    <3> QED
      BY <1>2, <1>3, <1>4 DEF Programs, TypeOK
  <2> QED
    BY <1>1, <1>3, <2>1, <2>2 DEF Write, TypeOK
<1>6. Counting'
  BY <1>1, Counts DEF Counting, Ahead
<1>7. Answered'
  <2> SUFFICES ASSUME Leisure(pool) # {}
               PROVE  fresh \in TrioOf(Clean(Leisure(pool), taste.banned))
    BY <1>2 DEF Answered, FromPool, pool
  <2>1. store # {}
    BY <1>3, PoolIn
  <2>2. Routes(draft) \in Answers(pool, taste.banned)
    BY <1>3, <2>1, RoutesTyped
  <2>3. Routes(draft) \in Trio
    BY <2>2, AnswersAreTrios
  <2>4. fresh = Routes(draft)
    BY <2>3, CutTrio
  <2> HIDE DEF fresh
  <2> QED
    BY <2>2, <2>4 DEF Answers
<1> QED
  BY <1>5, <1>6, <1>7 DEF IInv

LEMMA ReviewStep == IInv /\ Review => IInv'
<1> SUFFICES ASSUME IInv, Review PROVE IInv'
  OBVIOUS
<1> DEFINE failed == IF Approved THEN retries ELSE retries + 1
<1>1. /\ steps < RecursionLimit /\ steps' = steps + 1 /\ misses' = misses
      /\ retries' = failed /\ node = "critic" /\ node' = AfterCritic(failed)
  BY DEF Review, InTime
<1>2. \/ node' = "idle" /\ (failed = retries \/ failed = retries + 1)
      \/ node' \in {"researcher", "writer"} /\ failed = retries + 1 /\ ~(failed >= 2)
  BY <1>1 DEF AfterCritic
<1> HIDE DEF failed
<1>3. NoProgram \in Programs
  BY DEF NoProgram, Programs
<1>4. TypeOK'
  <2>1. steps' \in 0..RecursionLimit /\ retries' \in 0..2
    BY <1>1, <1>2, Counts
  <2>2. node' \in {"idle", "researcher", "executor", "writer", "critic"}
    BY <1>2
  <2>3. program' \in Programs /\ version' \in Programs
    BY <1>3 DEF Review, IInv, TypeOK
  <2> QED
    BY <1>1, <2>1, <2>2, <2>3 DEF Review, IInv, TypeOK
<1>5. Counting'
  <2>1. CASE node' = "idle"
    BY <1>1, <2>1, Counts DEF Counting
  <2>2. CASE node' = "researcher"
    BY <1>1, <1>2, <2>2, Counts DEF Counting, Ahead
  <2>3. CASE node' = "writer"
    BY <1>1, <1>2, <2>3, Counts DEF Counting, Ahead
  <2> QED
    BY <1>2, <2>1, <2>2, <2>3
<1>6. Answered'
  BY <1>2 DEF Answered, FromPool
<1> QED
  BY <1>4, <1>5, <1>6 DEF IInv

\* A build that fails, and one that is out of steps, leave the counters alone, and
\* the store has one pool at most.
LEMMA EndStep == IInv /\ (Fail \/ OutOfSteps) => IInv'
<1> SUFFICES ASSUME IInv, Fail \/ OutOfSteps PROVE IInv'
  OBVIOUS
<1>1. /\ node' = "idle" /\ program' = NoProgram
      /\ UNCHANGED <<scope, steps, misses, called, retries, version, taste, pins, builds>>
      /\ store' \in {store} \union {{p} : p \in Pools}
  BY DEF Fail, OutOfSteps
<1>2. NoProgram \in Programs
  BY DEF NoProgram, Programs
<1>3. TypeOK'
  BY <1>1, <1>2 DEF IInv, TypeOK
<1>4. Counting' /\ Answered'
  BY <1>1 DEF IInv, Counting, Answered, FromPool
<1> QED
  BY <1>3, <1>4 DEF IInv

LEMMA StutterStep == IInv /\ UNCHANGED vars => IInv'
<1> SUFFICES ASSUME IInv, UNCHANGED vars PROVE IInv'
  OBVIOUS
<1> USE DEF vars
<1>1. TypeOK'
  BY DEF IInv, TypeOK
<1>2. Counting'
  BY DEF IInv, Counting
<1>3. Answered'
  BY DEF IInv, Answered, FromPool, pool
<1> QED
  BY <1>1, <1>2, <1>3 DEF IInv

LEMMA NextIInv ==
    ASSUME RunsTheRules
    PROVE  IInv /\ [Next]_vars => IInv'
<1> SUFFICES ASSUME IInv, [Next]_vars PROVE IInv'
  OBVIOUS
<1>1. ASSUME NEW s \in {"full", "routes"}, NEW t \in Tastes,
             NEW kept \in SUBSET DOMAIN CasesOf(version), Start(s, t, kept)
      PROVE  IInv'
  BY <1>1, StartStep
<1>2. ASSUME NEW d \in Drafts, Write(d) PROVE IInv'
  BY <1>2, WriteStep
<1> QED
  BY <1>1, <1>2, ResearchStep, ExecuteStep, ReviewStep, EndStep, StutterStep DEF Next

\* The counters and the routes under review are in order in every state.
THEOREM AgentBuildInvariant ==
    ASSUME RunsTheRules
    PROVE  Spec => []IInv
BY InitIInv, NextIInv, PTL DEF Spec

\* The variables keep their types, and a build visits no more nodes than it may.
THEOREM AgentBuildTypes ==
    ASSUME RunsTheRules
    PROVE  Spec => []TypeOK
<1>1. IInv => TypeOK
  BY DEF IInv
<1> QED
  BY <1>1, AgentBuildInvariant, PTL

\* What a case of an answer is.
LEMMA CaseIsSound ==
    ASSUME IInv, FromPool, NEW c \in ToSet(program.fresh)
    PROVE  /\ ToSet(c.stops) \subseteq pool /\ ~ClashInPath(c.stops)
           /\ ToSet(c.stops) \cap taste.banned = {}
<1> DEFINE S == Leisure(pool)
<1>1. program.fresh \in TrioOf(Clean(S, taste.banned))
  BY DEF IInv, Answered
<1>2. S \in SUBSET Places /\ S \subseteq pool
  BY PoolIn, LeisureIn DEF IInv
<1> HIDE DEF S
<1>3. PICK k \in 1..3 : program.fresh[k] = c
  BY <1>1 DEF TrioOf, Trio, ToSet
<1>4. c.stops \in RoutesOf(Clean(S, taste.banned))
  BY <1>1, <1>3 DEF TrioOf
<1>5. c.stops \in Seq(Places) /\ Plain(c.stops) /\ ToSet(c.stops) \in Clean(S, taste.banned)
  BY <1>4, RoutesIn
<1>6. Cardinality(ToSet(c.stops)) = Len(c.stops) /\ Len(c.stops) \in Nat
  BY <1>5, FiniteRange
<1>7. ~ClashInPath(c.stops)
  BY <1>5, <1>6 DEF ClashInPath, Clean, Fine
<1> QED
  BY <1>2, <1>5, <1>7 DEF Clean, Fine

\* A place the user disliked is on no route made from a pool, whatever the draft of the
\* LLM names and whatever the rules add to it.
THEOREM BannedNeverOnRoute ==
    ASSUME RunsTheRules
    PROVE  Spec => []BannedStaysOut
<1>1. IInv => BannedStaysOut
  BY CaseIsSound DEF BannedStaysOut, FreshStops
<1> QED
  BY <1>1, AgentBuildInvariant, PTL

\* Such a route has places of the pool only, each once, and no two of the same name.
THEOREM RoutesAlwaysSound ==
    ASSUME RunsTheRules
    PROVE  Spec => []RoutesAreSound
<1>1. IInv => RoutesAreSound
  BY CaseIsSound DEF RoutesAreSound
<1> QED
  BY <1>1, AgentBuildInvariant, PTL

\* A build is out of steps for its missed searches alone: eight visits are enough for
\* the critic's rounds, whatever the recursion limit is.
THEOREM RoundsNeverExhaust ==
    ASSUME RunsTheRules
    PROVE  Spec => OnlyMissesExhaust
<1>1. IInv /\ [Next]_vars => [OutOfSteps => RecursionLimit < 8 + 2 * misses]_vars
  <2> SUFFICES ASSUME IInv, OutOfSteps PROVE RecursionLimit < 8 + 2 * misses
    OBVIOUS
  <2>1. node \in {"researcher", "executor", "writer", "critic"} /\ steps = RecursionLimit
    BY DEF OutOfSteps, IInv, TypeOK
  <2>2. retries <= 1 /\ steps <= 4 * retries + 2 * misses + 3
    BY <2>1, Counts
  <2> QED
    BY <2>1, <2>2, Counts
<1> QED
  BY <1>1, AgentBuildInvariant, PTL DEF Spec, OnlyMissesExhaust

-----------------------------------------------------------------------------
(* Pinned routes, and what the critic can refuse                           *)

\* The pins of a build are routes of the version it started from, and every program of
\* the build begins with them.
PinsInv ==
    /\ node # "idle" => ToSet(pins) \subseteq ToSet(CasesOf(version))
    /\ node = "critic" => program.pinned = pins

LEMMA StartPins ==
    ASSUME IInv, NEW s \in {"full", "routes"}, NEW t \in Tastes,
           NEW kept \in SUBSET DOMAIN CasesOf(version), Start(s, t, kept)
    PROVE  PinsInv'
<1> DEFINE Nth(k) == CHOOSE i \in kept : Cardinality({j \in kept : j <= i}) = k
           r == [k \in 1..Cardinality(kept) |-> CasesOf(version)[Nth(k)]]
<1>1. pins' = (IF s = "full" THEN <<>> ELSE r) /\ version' = version /\ node' # "critic"
  BY DEF Start
<1>2. CasesOf(version) \in Seq(Cases)
  BY DEF IInv, TypeOK, Programs, CasesOf
<1>3. PICK m : m = Len(CasesOf(version)) /\ m \in Nat /\ DOMAIN CasesOf(version) = 1..m
  BY <1>2
<1>4. \A k \in 1..Cardinality(kept) : Nth(k) \in kept
  BY <1>3, NthIn
<1> HIDE DEF Nth
<1>5. \A k \in DOMAIN r : r[k] \in ToSet(CasesOf(version))
  BY <1>3, <1>4 DEF ToSet
<1> HIDE DEF r
<1>6. ToSet(pins') \subseteq ToSet(CasesOf(version))
  <2>1. CASE s = "full"
    BY <1>1, <2>1 DEF ToSet
  <2>2. CASE s # "full"
    BY <1>1, <1>5, <2>2 DEF ToSet
  <2> QED
    BY <2>1, <2>2
<1>7. ToSet(pins') \subseteq ToSet(CasesOf(version'))
  BY <1>1, <1>6
<1> QED
  BY <1>1, <1>7 DEF PinsInv

LEMMA NextPins == IInv /\ PinsInv /\ [Next]_vars => PinsInv'
<1> SUFFICES ASSUME IInv, PinsInv, [Next]_vars PROVE PinsInv'
  OBVIOUS
<1>1. ASSUME NEW s \in {"full", "routes"}, NEW t \in Tastes,
             NEW kept \in SUBSET DOMAIN CasesOf(version), Start(s, t, kept)
      PROVE  PinsInv'
  BY <1>1, StartPins
<1>2. ASSUME NEW d \in Drafts, Write(d) PROVE PinsInv'
  <2>1. program'.pinned = pins /\ pins' = pins /\ version' = version /\ node = "writer"
    BY <1>2 DEF Write
  <2> QED
    BY <2>1 DEF PinsInv, CasesOf
<1>3. CASE Research \/ Execute
  <2>1. pins' = pins /\ version' = version /\ node # "idle" /\ node' # "critic"
    BY <1>3 DEF Research, Execute
  <2> QED
    BY <2>1 DEF PinsInv, CasesOf
<1>4. CASE Review
  <2>1. pins' = pins /\ node = "critic" /\ node' # "critic"
        /\ (node' # "idle" => version' = version)
    BY <1>4 DEF Review, AfterCritic
  <2> QED
    BY <2>1 DEF PinsInv, CasesOf
<1>5. CASE Fail \/ OutOfSteps
  BY <1>5 DEF Fail, OutOfSteps, PinsInv
<1>6. CASE UNCHANGED vars
  BY <1>6 DEF vars, PinsInv, CasesOf
<1> QED
  BY <1>1, <1>2, <1>3, <1>4, <1>5, <1>6 DEF Next

LEMMA PinsAreKept ==
    ASSUME RunsTheRules
    PROVE  Spec => []PinsInv
<1>1. Init => PinsInv
  BY DEF Init, PinsInv
<1> QED
  BY <1>1, NextPins, AgentBuildInvariant, PTL DEF Spec

\* A rebuild keeps the pinned routes through every round with the critic: the version it
\* saves begins with them, and they are routes of the version before.
THEOREM PinsAlwaysSurvive ==
    ASSUME RunsTheRules
    PROVE  Spec => PinsSurvive
<1> DEFINE Kept == /\ version'.pinned = pins
                   /\ ToSet(pins) \subseteq ToSet(CasesOf(version))
<1>1. IInv /\ PinsInv /\ [Next]_vars => [version' # version => Kept]_vars
  <2> SUFFICES ASSUME PinsInv, Next, version' # version PROVE Kept
    OBVIOUS
  <2>1. Review
    BY DEF Next, Start, Research, Execute, Write, Fail, OutOfSteps
  <2>2. version' = program /\ node = "critic"
    BY <2>1 DEF Review
  <2> QED
    BY <2>2 DEF PinsInv
<1> QED
  BY <1>1, AgentBuildInvariant, PinsAreKept, PTL DEF Spec, PinsSurvive

\* The limits, each for a full pool; a small pool raises them.
LEMMA LimitsOf ==
    /\ PairLimit[<<"A", "B">>] = 72 /\ CriticLimit[<<"A", "B">>] = 75
    /\ PairLimit[<<"B", "C">>] = 76 /\ CriticLimit[<<"B", "C">>] = 78
    /\ PairLimit[<<"A", "C">>] = 82 /\ CriticLimit[<<"A", "C">>] = 85
<1>1. <<"A", "B">> \in Pairs /\ <<"B", "C">> \in Pairs /\ <<"A", "C">> \in Pairs
  BY DEF Pairs
<1> QED
  BY <1>1 DEF PairLimit, CriticLimit

LEMMA SmallerOf ==
    ASSUME NEW a \in Nat, NEW b \in Nat
    PROVE  Min({a, b}) = IF a <= b THEN a ELSE b
<1>1. PICK m : m = IF a <= b THEN a ELSE b
  OBVIOUS
<1>2. m \in {a, b} /\ \A y \in {a, b} : m <= y
  BY <1>1
<1>3. \A x \in {a, b} : (\A y \in {a, b} : x <= y) => x = m
  BY <1>1
<1> QED
  BY <1>1, <1>2, <1>3 DEF Min

LEMMA LimitsForPools ==
    ASSUME NEW n
    PROVE  /\ LimitForPool(PairLimit, <<"A", "B">>, n)
                  = IF n >= 12 THEN 72 ELSE IF n >= 8 THEN 80 ELSE 95
           /\ LimitForPool(PairLimit, <<"B", "C">>, n)
                  = IF n >= 12 THEN 76 ELSE IF n >= 8 THEN 84 ELSE 95
           /\ LimitForPool(PairLimit, <<"A", "C">>, n)
                  = IF n >= 12 THEN 82 ELSE IF n >= 8 THEN 90 ELSE 95
           /\ LimitForPool(CriticLimit, <<"A", "B">>, n)
                  = IF n >= 12 THEN 75 ELSE IF n >= 8 THEN 83 ELSE 95
           /\ LimitForPool(CriticLimit, <<"B", "C">>, n)
                  = IF n >= 12 THEN 78 ELSE IF n >= 8 THEN 86 ELSE 95
           /\ LimitForPool(CriticLimit, <<"A", "C">>, n)
                  = IF n >= 12 THEN 85 ELSE IF n >= 8 THEN 92 ELSE 95
<1>1. ASSUME NEW limits, NEW pair, NEW k \in Nat, limits[pair] = k
      PROVE  LimitForPool(limits, pair, n)
                 = IF n >= 12 THEN k
                   ELSE IF n >= 8 THEN (IF 92 <= k + 8 THEN 92 ELSE k + 8) ELSE 95
  <2>1. Min({92, limits[pair] + 8}) = IF 92 <= k + 8 THEN 92 ELSE k + 8
    BY <1>1, SmallerOf
  <2> QED
    BY <1>1, <2>1 DEF LimitForPool
<1> QED
  BY <1>1, LimitsOf

LEMMA AlikeAtLeast ==
    ASSUME NEW V, IsFiniteSet(V), NEW W, IsFiniteSet(W), NEW p \in Nat, NEW r \in Nat,
           p <= r, r < 100, MoreAlike(V, W, r)
    PROVE  MoreAlike(V, W, p)
<1>1. CASE V = {} \/ W = {}
  BY <1>1 DEF MoreAlike
<1>2. CASE ~(V = {} \/ W = {})
  <2>1. PICK n : n = LargerOf(Cardinality(V), Cardinality(W))
    OBVIOUS
  <2>2. n \in Nat
    BY <2>1, FS_CardinalityType DEF LargerOf
  <2>3. p * n <= r * n
    BY <2>2
  <2>4. PICK k : k = Cardinality(V \cap W)
    OBVIOUS
  <2>5. k \in Nat
    BY <2>4, FS_Intersection, FS_CardinalityType
  <2>6. 100 * k > r * n
    BY <1>2, <2>1, <2>4 DEF MoreAlike
  <2>7. p * n \in Nat /\ r * n \in Nat /\ 100 * k \in Nat
    BY <2>2, <2>5
  <2>8. 100 * k > p * n
    BY <2>3, <2>6, <2>7
  <2> QED
    BY <1>2, <2>1, <2>4, <2>8 DEF MoreAlike
<1> QED
  BY <1>1, <1>2

\* With a pool of twelve places or more the builder is the stricter one: two routes that
\* the critic finds too alike, however long they are, the builder has found too alike.
THEOREM CriticIsMilder ==
    ASSUME NEW V, IsFiniteSet(V), NEW W, IsFiniteSet(W), NEW pair \in Pairs,
           NEW size \in Nat, size >= 12, NEW seen \in Nat,
           MoreAlike(V, W, LimitForPool(CriticLimit, pair, seen))
    PROVE  MoreAlike(V, W, LimitForPool(PairLimit, pair, size))
<1>1. PICK p, r : p = LimitForPool(PairLimit, pair, size)
                  /\ r = LimitForPool(CriticLimit, pair, seen)
  OBVIOUS
<1>2. p \in Nat /\ r \in Nat /\ p <= r /\ r < 100
  <2>1. CASE pair = <<"A", "B">>
    BY <1>1, <2>1, LimitsForPools
  <2>2. CASE pair = <<"B", "C">>
    BY <1>1, <2>2, LimitsForPools
  <2>3. CASE pair = <<"A", "C">>
    BY <1>1, <2>3, LimitsForPools
  <2> QED
    BY <2>1, <2>2, <2>3 DEF Pairs
<1> QED
  BY <1>1, <1>2, AlikeAtLeast

\* With eight to eleven places it is the critic when a route has six stops or more: its
\* limit, for twice that many, is then below the builder's.
THEOREM CriticIsStricter ==
    ASSUME NEW pair \in Pairs, NEW size \in 8..11, NEW stops \in Nat, stops >= 6
    PROVE  LimitForPool(CriticLimit, pair, LargerOf(2 * stops, 8))
               < LimitForPool(PairLimit, pair, size)
<1>1. PICK seen : seen = LargerOf(2 * stops, 8)
  OBVIOUS
<1>2. seen >= 12 /\ size >= 8 /\ ~(size >= 12)
  BY <1>1 DEF LargerOf
<1>3. CASE pair = <<"A", "B">>
  BY <1>1, <1>2, <1>3, LimitsForPools
<1>4. CASE pair = <<"B", "C">>
  BY <1>1, <1>2, <1>4, LimitsForPools
<1>5. CASE pair = <<"A", "C">>
  BY <1>1, <1>2, <1>5, LimitsForPools
<1> QED
  BY <1>3, <1>4, <1>5 DEF Pairs

\* Routes of the same stops are too much alike at every limit there is.
LEMMA TwinsAreAlike ==
    ASSUME NEW V, IsFiniteSet(V), NEW pair \in Pairs, NEW n
    PROVE  MoreAlike(V, V, LimitForPool(CriticLimit, pair, n))
<1>1. PICK p : p = LimitForPool(CriticLimit, pair, n)
  OBVIOUS
<1>2. p \in Nat /\ p < 100
  <2>1. CASE pair = <<"A", "B">>
    BY <1>1, <2>1, LimitsForPools
  <2>2. CASE pair = <<"B", "C">>
    BY <1>1, <2>2, LimitsForPools
  <2>3. CASE pair = <<"A", "C">>
    BY <1>1, <2>3, LimitsForPools
  <2> QED
    BY <2>1, <2>2, <2>3 DEF Pairs
<1>3. MoreAlike(V, V, 99)
  <2>1. CASE V = {}
    BY <2>1 DEF MoreAlike
  <2>2. CASE V # {}
    <3>1. V \cap V = V /\ Cardinality(V) \in Nat /\ Cardinality(V) # 0
      BY <2>2, FS_CardinalityType, FS_EmptySet
    <3>2. PICK k : k = Cardinality(V)
      OBVIOUS
    <3>3. LargerOf(k, k) = k /\ 100 * k > 99 * k
      BY <3>1, <3>2 DEF LargerOf
    <3> QED
      BY <2>2, <3>1, <3>2, <3>3 DEF MoreAlike
  <2> QED
    BY <2>1, <2>2
<1> QED
  BY <1>1, <1>2, <1>3, AlikeAtLeast

LEMMA JoinedAt ==
    ASSUME NEW A, NEW p \in Seq(A), NEW r \in Seq(A), NEW k \in DOMAIN (p \o r)
    PROVE  \/ k \in 1..Len(p) /\ (p \o r)[k] = p[k]
           \/ k - Len(p) \in 1..Len(r) /\ (p \o r)[k] = r[k - Len(p)]
OBVIOUS

\* Three new routes: their letters, and links that differ if the routes do.
LEMMA TrioIsInOrder ==
    ASSUME NEW cs \in Trio
    PROVE  /\ Len(cs) = 3 /\ DOMAIN ById(cs) = ToSet(CaseIds)
           /\ SameLink(cs) => TooAlike(cs)
<1>1. /\ cs \in Seq(Cases) /\ Len(cs) = 3 /\ DOMAIN cs = 1..3
      /\ \A k \in 1..3 : cs[k].id = CaseIds[k] /\ cs[k] \in Cases
  <2>1. cs \in Seq(Cases) /\ Len(cs) = 3 /\ \A k \in 1..3 : cs[k].id = CaseIds[k]
    BY DEF Trio
  <2>2. \A k \in 1..Len(cs) : cs[k] \in Cases
    BY <2>1, RangeOf
  <2>3. DOMAIN cs = 1..Len(cs)
    BY <2>1
  <2> QED
    BY <2>1, <2>2, <2>3
<1>2. DOMAIN ById(cs) = ToSet(CaseIds)
  <2>1. DOMAIN ById(cs) = {c.id : c \in ToSet(cs)}
    BY DEF ById
  <2>2. ToSet(cs) = {cs[k] : k \in 1..3} /\ ToSet(CaseIds) = {CaseIds[k] : k \in 1..3}
    BY <1>1 DEF ToSet, CaseIds
  <2> QED
    BY <1>1, <2>1, <2>2
<1>3. ASSUME SameLink(cs) PROVE TooAlike(cs)
  <2>1. PICK k \in 1..3, l \in 1..3 : k < l /\ cs[k].stops = cs[l].stops
    BY <1>1, <1>3 DEF SameLink
  <2>2. <<cs[k].id, cs[l].id>> \in Pairs
    <3>1. CaseIds[1] = "A" /\ CaseIds[2] = "B" /\ CaseIds[3] = "C"
      BY DEF CaseIds
    <3>2. \/ k = 1 /\ l = 2
          \/ k = 2 /\ l = 3
          \/ k = 1 /\ l = 3
      BY <2>1
    <3> QED
      BY <1>1, <3>1, <3>2 DEF Pairs
  <2>3. PICK V : V = ToSet(cs[k].stops)
    OBVIOUS
  <2>4. IsFiniteSet(V) /\ V = ToSet(cs[l].stops)
    <3>1. cs[k].stops \in Seq(Nat)
      BY <1>1 DEF Cases
    <3> QED
      BY <2>1, <2>3, <3>1, FiniteRange
  <2>5. cs[k] \in ToSet(cs) /\ cs[l] \in ToSet(cs)
    BY <1>1, RangeOf
  <2> DEFINE size == Max({Len(c.stops) : c \in ToSet(cs)} \union {0})
             limit(pair) == LimitForPool(CriticLimit, pair, LargerOf(2 * size, 8))
  <2>6. MoreAlike(V, V, limit(<<cs[k].id, cs[l].id>>))
    BY <2>2, <2>4, TwinsAreAlike
  <2>7. TooAlike(cs) <=>
          \E c, d \in ToSet(cs) :
              /\ <<c.id, d.id>> \in Pairs
              /\ MoreAlike(ToSet(c.stops), ToSet(d.stops), limit(<<c.id, d.id>>))
    BY DEF TooAlike
  <2> HIDE DEF limit, size
  <2> QED
    BY <2>2, <2>3, <2>4, <2>5, <2>6, <2>7
<1> QED
  BY <1>1, <1>2, <1>3

\* Of a program made from a pool the critic refuses nothing but short routes, routes too
\* much alike, and pinned routes that came without a map link.
THEOREM RefusalsAreAboutRoutes ==
    ASSUME RunsTheRules
    PROVE  Spec => []OnlyRoutesRefused
<1>1. ASSUME IInv, PinsInv, FromPool, ~ToolIssue,
             \A c \in ToSet(CasesOf(program)) : ~(Len(c.stops) < MinStops),
             \A c \in ToSet(program.pinned) : c.link,
             ~(IF pins = <<>> THEN TooAlike(program.fresh)
               ELSE LikesPinned(program.fresh, pins))
      PROVE  Approved
  <2>1. PICK old, new : old = program.pinned /\ new = program.fresh
    OBVIOUS
  <2>2. /\ old = pins /\ old \in Seq(Cases) /\ new \in Seq(Cases)
        /\ new \in TrioOf(Clean(Leisure(pool), taste.banned))
    BY <1>1, <2>1 DEF PinsInv, FromPool, IInv, TypeOK, Programs, Answered
  <2>3. new \in Trio /\ \A k \in 1..3 : new[k].link = (new[k].stops # <<>>)
    BY <2>2 DEF TrioOf
  <2>4. Len(new) = 3 /\ DOMAIN ById(new) = ToSet(CaseIds) /\ (SameLink(new) => TooAlike(new))
    BY <2>3, TrioIsInOrder
  <2>5. ASSUME NEW c \in ToSet(old \o new) PROVE Len(c.stops) >= MinStops /\ c.link
    <3>1. c \in Cases
      <4>1. old \o new \in Seq(Cases)
        BY <2>2
      <4> QED
        BY <4>1, RangeOf
    <3>2. c.stops \in Seq(Nat) /\ Len(c.stops) \in Nat
      BY <3>1 DEF Cases
    <3>3. Len(c.stops) >= 3
      BY <1>1, <2>1, <3>2 DEF CasesOf, MinStops
    <3>4. PICK k \in DOMAIN (old \o new) : c = (old \o new)[k]
      BY DEF ToSet
    <3>5. CASE k \in 1..Len(old) /\ (old \o new)[k] = old[k]
      BY <1>1, <2>1, <2>2, <3>3, <3>4, <3>5, RangeOf DEF MinStops
    <3>6. CASE k - Len(old) \in 1..Len(new) /\ (old \o new)[k] = new[k - Len(old)]
      <4>1. c.stops # <<>>
        BY <3>2, <3>3
      <4> QED
        BY <2>3, <2>4, <3>3, <3>4, <3>6, <4>1 DEF MinStops
    <3> QED
      BY <2>2, <3>4, <3>5, <3>6, JoinedAt
  <2>6. RoutesAreGood(old, new)
    BY <1>1, <2>1, <2>2, <2>4, <2>5 DEF RoutesAreGood
  <2> QED
    BY <1>1, <2>1, <2>6 DEF Approved
<1>2. IInv /\ PinsInv => OnlyRoutesRefused
  BY <1>1 DEF OnlyRoutesRefused
<1> QED
  BY <1>2, AgentBuildInvariant, PinsAreKept, PTL

=============================================================================
