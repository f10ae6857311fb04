--------------------------- MODULE RulesEngineProofs ---------------------------
(***************************************************************************)
(* Fetching and ranking for every catalogue, every student and every list  *)
(* of eligible programs, without induction: an element's place is the      *)
(* number of elements before it, and what is counted is compared as sets.  *)
(***************************************************************************)
EXTENDS RulesEngine, FiniteSetTheorems, SequenceTheorems, TLAPS

-------------------------------------------------------------------------------
(***************************************************************************)
(* InOrder and StableSort.                                                 *)
(***************************************************************************)
TotalOrder(R, S) ==
  /\ \A x \in S : << x, x >> \notin R
  /\ \A x, y, z \in S : << x, y >> \in R /\ << y, z >> \in R => << x, z >> \in R
  /\ \A x, y \in S : x = y \/ << x, y >> \in R \/ << y, x >> \in R

\* s lists the n elements of S in the order R.
Lists(s, n, S, R) ==
  /\ DOMAIN s = 1 .. n
  /\ \A k \in 1 .. n : s[k] \in S
  /\ \A x \in S : \E k \in 1 .. n : s[k] = x
  /\ \A j, k \in 1 .. n : j < k => << s[j], s[k] >> \in R

\* How many elements are before x.
Before(S, R, x) == { y \in S : << y, x >> \in R }
Place(S, R, x) == Cardinality(Before(S, R, x))

\* An element has fewer before it than one it comes before.
LEMMA PlaceGrows ==
  ASSUME NEW S, IsFiniteSet(S), NEW R, TotalOrder(R, S),
         NEW x \in S, NEW y \in S, << x, y >> \in R
  PROVE  Place(S, R, x) < Place(S, R, y)
<1> DEFINE A == Before(S, R, x)
           B == Before(S, R, y)
<1>1. A \subseteq B
  BY DEF Before, TotalOrder
<1>2. x \in B /\ x \notin A
  BY DEF Before, TotalOrder
<1>3. IsFiniteSet(B)
  BY FS_Subset DEF Before
<1>4. IsFiniteSet(A) /\ Cardinality(A) <= Cardinality(B) /\ Cardinality(A) # Cardinality(B)
  BY <1>1, <1>2, <1>3, FS_Subset
<1>5. Cardinality(A) \in Nat /\ Cardinality(B) \in Nat
  BY <1>3, <1>4, FS_CardinalityType
<1>6. QED
  BY <1>4, <1>5 DEF Place

\* No two elements have one place, and every place is taken.
LEMMA PlacesAreTaken ==
  ASSUME NEW S, IsFiniteSet(S), NEW R, TotalOrder(R, S)
  PROVE  LET n == Cardinality(S) IN
         /\ n \in Nat
         /\ \A x \in S : Place(S, R, x) \in Nat /\ Place(S, R, x) + 1 \in 1 .. n
         /\ \A x, y \in S : Place(S, R, x) = Place(S, R, y) => x = y
         /\ \A k \in 1 .. n : \E x \in S : Place(S, R, x) = k - 1
<1> DEFINE n == Cardinality(S)
           f == [x \in S |-> Place(S, R, x) + 1]
<1>1. n \in Nat
  BY FS_CardinalityType
<1>2. ASSUME NEW x \in S
      PROVE  Place(S, R, x) \in Nat /\ Place(S, R, x) + 1 \in 1 .. n
  <2>1. Before(S, R, x) \subseteq S /\ Before(S, R, x) # S
    BY DEF Before, TotalOrder
  <2>2. /\ IsFiniteSet(Before(S, R, x)) /\ Place(S, R, x) <= n /\ Place(S, R, x) # n
    BY <2>1, FS_Subset DEF Place
  <2>3. Place(S, R, x) \in Nat
    BY <2>2, FS_CardinalityType DEF Place
  <2>4. QED
    BY <1>1, <2>2, <2>3
<1>3. ASSUME NEW x \in S, NEW y \in S, Place(S, R, x) = Place(S, R, y), x # y
      PROVE  FALSE
  <2>1. << x, y >> \in R \/ << y, x >> \in R
    BY <1>3 DEF TotalOrder
  <2>2. Place(S, R, x) < Place(S, R, y) \/ Place(S, R, y) < Place(S, R, x)
    BY <2>1, PlaceGrows
  <2>3. QED
    BY <1>2, <1>3, <2>2
<1>4. f \in Injection(S, 1 .. n)
  <2>1. f \in [S -> 1 .. n]
    BY <1>2
  <2>2. \A x, y \in S : f[x] = f[y] => x = y
    BY <1>2, <1>3
  <2>3. QED
    BY <2>1, <2>2 DEF Injection, IsInjective
<1>5. f \in Surjection(S, 1 .. n)
  <2>1. IsFiniteSet(1 .. n) /\ Cardinality(1 .. n) = n
    BY <1>1, FS_Interval
  <2> HIDE DEF f
  <2>2. QED
    BY <1>4, <2>1, FS_Injection
<1>6. ASSUME NEW k \in 1 .. n
      PROVE  \E x \in S : Place(S, R, x) = k - 1
  <2>1. PICK x \in S : f[x] = k
    BY <1>5 DEF Surjection
  <2>2. Place(S, R, x) + 1 = k
    BY <2>1
  <2>3. QED
    BY <1>2, <2>2
<1>7. QED
  BY <1>1, <1>2, <1>3, <1>6

\* InOrder lists the set, each element once, in its order.
LEMMA InOrderLists ==
  ASSUME NEW S, IsFiniteSet(S), NEW R, TotalOrder(R, S)
  PROVE  Cardinality(S) \in Nat /\ Lists(InOrder(S, R), Cardinality(S), S, R)
<1> DEFINE n == Cardinality(S)
           s == InOrder(S, R)
<1>1. /\ n \in Nat
      /\ \A x \in S : Place(S, R, x) \in Nat /\ Place(S, R, x) + 1 \in 1 .. n
      /\ \A x, y \in S : Place(S, R, x) = Place(S, R, y) => x = y
      /\ \A k \in 1 .. n : \E x \in S : Place(S, R, x) = k - 1
  BY PlacesAreTaken
<1>2. DOMAIN s = 1 .. n
  BY DEF InOrder
<1>3. ASSUME NEW k \in 1 .. n
      PROVE  s[k] \in S /\ Place(S, R, s[k]) = k - 1
  <2>1. s[k] = CHOOSE x \in S : Place(S, R, x) = k - 1
    BY DEF InOrder, Place, Before
  <2>2. QED
    BY <1>1, <2>1
<1> HIDE DEF s
<1>4. ASSUME NEW x \in S
      PROVE  \E k \in 1 .. n : s[k] = x
  <2>1. Place(S, R, x) + 1 \in 1 .. n /\ Place(S, R, x) \in Nat
    BY <1>1
  <2>2. s[Place(S, R, x) + 1] \in S /\ Place(S, R, s[Place(S, R, x) + 1]) = Place(S, R, x)
    BY <1>3, <2>1
  <2>3. QED
    BY <1>1, <2>1, <2>2
<1>5. ASSUME NEW j \in 1 .. n, NEW k \in 1 .. n, j < k
      PROVE  << s[j], s[k] >> \in R
  <2>1. /\ s[j] \in S /\ Place(S, R, s[j]) = j - 1
        /\ s[k] \in S /\ Place(S, R, s[k]) = k - 1
    BY <1>3
  <2>2. s[j] # s[k]
    BY <1>5, <2>1
  <2>3. << s[k], s[j] >> \in R => Place(S, R, s[k]) < Place(S, R, s[j])
    BY <2>1, PlaceGrows
  <2>4. << s[k], s[j] >> \notin R
    BY <1>5, <2>1, <2>3
  <2>5. QED
    BY <2>1, <2>2, <2>4 DEF TotalOrder
<1>6. Lists(s, n, S, R)
  BY <1>2, <1>3, <1>4, <1>5 DEF Lists
<1>7. QED
  BY <1>1, <1>6 DEF s

\* What is listed in a total order is listed once.
LEMMA ListsOnce ==
  ASSUME NEW n \in Nat, NEW S, NEW R, TotalOrder(R, S), NEW s, Lists(s, n, S, R)
  PROVE  \A j, k \in 1 .. n : s[j] = s[k] => j = k
<1> SUFFICES ASSUME NEW j \in 1 .. n, NEW k \in 1 .. n, s[j] = s[k], j < k \/ k < j
             PROVE  FALSE
  OBVIOUS
<1>1. << s[j], s[j] >> \in R /\ s[j] \in S
  BY DEF Lists
<1>2. QED
  BY <1>1 DEF TotalOrder

\* s has n elements, those of S.
ListOf(s, n, S) ==
  /\ DOMAIN s = 1 .. n
  /\ \A k \in 1 .. n : s[k] \in S
  /\ \A x \in S : \E k \in 1 .. n : s[k] = x

\* Sorting takes the elements of s from the places p: each has one, they are in
\* the order, and those that are equal keep theirs.
SortedFrom(p, s, n, R) ==
  /\ StableSort(s, R) = [k \in 1 .. n |-> s[p[k]]]
  /\ \A k \in 1 .. n : p[k] \in 1 .. n
  /\ \A i \in 1 .. n : \E k \in 1 .. n : p[k] = i
  /\ \A j, k \in 1 .. n : j < k =>
       << s[p[j]], s[p[k]] >> \in R \/ (s[p[j]] = s[p[k]] /\ p[j] < p[k])

\* There are such places.
LEMMA StableSortPlaces ==
  ASSUME NEW n \in Nat, NEW s, NEW S, ListOf(s, n, S), NEW R, TotalOrder(R, S)
  PROVE  \E p : SortedFrom(p, s, n, R)
<1> DEFINE D == 1 .. n
           B == { e \in D \X D :
                    \/ << s[e[1]], s[e[2]] >> \in R
                    \/ e[1] < e[2] /\ << s[e[2]], s[e[1]] >> \notin R }
           p == InOrder(D, B)
<1>1. IsFiniteSet(D) /\ Cardinality(D) = n
  BY FS_Interval
<1>2. StableSort(s, R) = [k \in D |-> s[p[k]]]
  BY DEF StableSort, ListOf
<1>3. ASSUME NEW i \in D, NEW j \in D
      PROVE  << i, j >> \in B <=> << s[i], s[j] >> \in R \/ (s[i] = s[j] /\ i < j)
  <2>1. s[i] \in S /\ s[j] \in S
    BY DEF ListOf
  <2>2. << i, j >> \in B <=> << s[i], s[j] >> \in R \/ (i < j /\ << s[j], s[i] >> \notin R)
    OBVIOUS
  <2>3. QED
    BY <2>1, <2>2 DEF TotalOrder
<1> HIDE DEF B
<1>4. TotalOrder(B, D)
  <2>1. \A i \in D : s[i] \in S /\ i \in Int /\ ~ (i < i)
    BY DEF ListOf
  <2> HIDE DEF D
  <2>2. \A i \in D : << i, i >> \notin B
    BY <1>3, <2>1 DEF TotalOrder
  <2>3. ASSUME NEW i \in D, NEW j \in D, NEW k \in D, << i, j >> \in B, << j, k >> \in B
        PROVE  << i, k >> \in B
    <3>1. \/ << s[i], s[k] >> \in R
          \/ s[i] = s[k] /\ i < j /\ j < k
      BY <1>3, <2>1, <2>3 DEF TotalOrder
    <3>2. QED
      BY <1>3, <2>1, <3>1
  <2>4. ASSUME NEW i \in D, NEW j \in D
        PROVE  i = j \/ << i, j >> \in B \/ << j, i >> \in B
    <3>1. s[i] = s[j] \/ << s[i], s[j] >> \in R \/ << s[j], s[i] >> \in R
      BY <2>1 DEF TotalOrder
    <3>2. i = j \/ i < j \/ j < i
      BY <2>1
    <3>3. QED
      BY <1>3, <3>1, <3>2
  <2>5. QED
    BY <2>2, <2>3, <2>4 DEF TotalOrder
<1>5. Lists(p, n, D, B)
  <2> HIDE DEF D
  <2>1. Lists(InOrder(D, B), Cardinality(D), D, B)
    BY <1>1, <1>4, InOrderLists
  <2>2. QED
    BY <1>1, <2>1
<1> HIDE DEF p
<1>6. \A j, k \in D : j < k => p[j] \in D /\ p[k] \in D /\ << p[j], p[k] >> \in B
  BY <1>5 DEF Lists
<1>7. \A j, k \in D : j < k =>
        << s[p[j]], s[p[k]] >> \in R \/ (s[p[j]] = s[p[k]] /\ p[j] < p[k])
  <2> HIDE DEF D
  <2>1. QED
    BY <1>3, <1>6
<1>8. SortedFrom(p, s, n, R)
  BY <1>2, <1>5, <1>7 DEF Lists, SortedFrom
<1>9. QED
  BY <1>8

\* Sorting neither loses nor adds an element.
LEMMA StableSortKeeps ==
  ASSUME NEW n \in Nat, NEW s, NEW S, ListOf(s, n, S), NEW R, TotalOrder(R, S)
  PROVE  ListOf(StableSort(s, R), n, S)
<1>1. PICK p : SortedFrom(p, s, n, R)
  BY StableSortPlaces
<1> DEFINE t == StableSort(s, R)
<1>2. DOMAIN t = 1 .. n /\ \A k \in 1 .. n : t[k] = s[p[k]]
  BY <1>1 DEF SortedFrom
<1> HIDE DEF t
<1>3. \A k \in 1 .. n : t[k] \in S
  BY <1>1, <1>2 DEF ListOf, SortedFrom
<1>4. \A x \in S : \E k \in 1 .. n : t[k] = x
  <2> SUFFICES ASSUME NEW i \in 1 .. n
               PROVE  \E k \in 1 .. n : t[k] = s[i]
    BY DEF ListOf
  <2>1. PICK k \in 1 .. n : p[k] = i
    BY <1>1 DEF SortedFrom
  <2>2. QED
    BY <1>2, <2>1
<1>5. QED
  BY <1>2, <1>3, <1>4 DEF ListOf, t

\* Sorting by a total order a list without repetitions puts it into that order.
LEMMA StableSortLists ==
  ASSUME NEW n \in Nat, NEW s, NEW S, ListOf(s, n, S), NEW R, TotalOrder(R, S),
         \A i, j \in 1 .. n : s[i] = s[j] => i = j
  PROVE  Lists(StableSort(s, R), n, S, R)
<1>1. PICK p : SortedFrom(p, s, n, R)
  BY StableSortPlaces
<1> DEFINE t == StableSort(s, R)
<1>2. ListOf(t, n, S)
  BY StableSortKeeps
<1>3. \A k \in 1 .. n : t[k] = s[p[k]]
  BY <1>1 DEF SortedFrom
<1> HIDE DEF t
<1>4. ASSUME NEW j \in 1 .. n, NEW k \in 1 .. n, j < k
      PROVE  << t[j], t[k] >> \in R
  <2>1. p[j] \in 1 .. n /\ p[k] \in 1 .. n /\ (s[p[j]] = s[p[k]] => p[j] = p[k])
    BY <1>1 DEF SortedFrom
  <2>2. ~ (p[j] < p[k] /\ p[j] = p[k])
    BY <2>1
  <2>3. << s[p[j]], s[p[k]] >> \in R
    BY <1>1, <1>4, <2>1, <2>2 DEF SortedFrom
  <2>4. QED
    BY <1>3, <2>3
<1>5. QED
  BY <1>2, <1>4 DEF Lists, ListOf, t

-------------------------------------------------------------------------------
(***************************************************************************)
(* FetchDetails.                                                           *)
(***************************************************************************)
\* A finite set of numbers that is not empty has a largest one.
LEMMA LargestExists ==
  ASSUME NEW T, T \subseteq Nat, IsFiniteSet(T), T # {}
  PROVE  \E m \in T : \A i \in T : i <= m
<1> DEFINE R == { e \in T \X T : e[1] < e[2] }
           n == Cardinality(T)
           s == InOrder(T, R)
<1>1. \A i, j \in T : << i, j >> \in R <=> i < j
  OBVIOUS
<1> HIDE DEF R
<1>2. TotalOrder(R, T)
  BY <1>1 DEF TotalOrder
<1>3. n \in Nat /\ Lists(s, n, T, R)
  BY <1>2, InOrderLists
<1> HIDE DEF n, s
<1>4. \A k \in 1 .. n : s[k] \in T /\ s[k] \in Nat
  BY <1>3 DEF Lists
<1>5. PICK k \in 1 .. n : TRUE
  BY <1>3 DEF Lists
<1>6. n \in 1 .. n
  BY <1>3, <1>5
<1>7. ASSUME NEW i \in T
      PROVE  i <= s[n]
  <2>1. PICK j \in 1 .. n : s[j] = i
    BY <1>3 DEF Lists
  <2>2. j = n \/ << s[j], s[n] >> \in R
    BY <1>3, <1>6 DEF Lists
  <2>3. QED
    BY <1>1, <1>4, <1>6, <2>1, <2>2
<1>8. QED
  BY <1>4, <1>6, <1>7

\* A list with gaps, as filter_eligible_programs() and eligible_program_ids() give.
Gapped(ids) == DOMAIN ids \subseteq Nat /\ IsFiniteSet(DOMAIN ids)

OfferedIn(ids) == { p \in ToSet(ids) : Catalogue[p].offered }

\* fetch_program_details() finds each eligible program that is offered, once.
LEMMA FetchFindsOnce ==
  ASSUME NEW ids, Gapped(ids), \A i \in DOMAIN ids : ids[i] \in Programs
  PROVE  LET n == Cardinality(OfferedIn(ids)) d == FetchDetails(ids) IN
         /\ n \in Nat /\ DOMAIN d = 1 .. n
         /\ OfferedIn(ids) = { d[i] : i \in 1 .. n }
         /\ \A i, j \in 1 .. n : d[i] = d[j] => i = j
<1> DEFINE named == ToSet(ids)
           S == OfferedIn(ids)
           R == { e \in named \X named :
                    \E j \in DOMAIN ids : ids[j] = e[2] /\ \A i \in DOMAIN ids : ids[i] = e[1] => i < j }
           LastPlace(p, m) == m \in DOMAIN ids /\ ids[m] = p
                         /\ \A i \in DOMAIN ids : ids[i] = p => i <= m
<1>1. S \subseteq Programs /\ S \subseteq named /\ IsFiniteSet(S)
  BY EngineAssumption, FS_Subset DEF OfferedIn, ToSet
<1>2. ASSUME NEW p \in named
      PROVE  \E m \in Nat : LastPlace(p, m)
  <2> DEFINE T == { i \in DOMAIN ids : ids[i] = p }
  <2>1. T \subseteq Nat /\ IsFiniteSet(T) /\ T # {}
    BY FS_Subset DEF Gapped, ToSet
  <2>2. PICK m \in T : \A i \in T : i <= m
    BY <2>1, LargestExists
  <2>3. QED
    BY <2>1, <2>2
<1>3. ASSUME NEW p \in named, NEW q \in named, NEW l, LastPlace(p, l), NEW m, LastPlace(q, m)
      PROVE  << p, q >> \in R <=> l < m
  <2>1. << p, q >> \in R <=>
          \E j \in DOMAIN ids : ids[j] = q /\ \A i \in DOMAIN ids : ids[i] = p => i < j
    OBVIOUS
  <2>2. \A i \in DOMAIN ids : i \in Nat
    BY DEF Gapped
  <2>3. QED
    BY <1>3, <2>1, <2>2
<1> HIDE DEF named, R
<1>4. TotalOrder(R, S)
  <2>1. PICK last \in [named -> Nat] : \A p \in named : LastPlace(p, last[p])
    <3>1. [p \in named |-> CHOOSE m \in Nat : LastPlace(p, m)] \in [named -> Nat]
      BY <1>2
    <3>2. QED
      BY <1>2, <3>1
  <2> HIDE DEF LastPlace
  <2>2. \A p, q \in S : << p, q >> \in R <=> last[p] < last[q]
    BY <1>1, <1>3, <2>1
  <2>3. \A p, q \in S : last[p] = last[q] => p = q
    BY <1>1, <2>1 DEF LastPlace
  <2>4. \A p \in S : last[p] \in Nat
    BY <1>1, <2>1
  <2>5. QED
    BY <2>2, <2>3, <2>4 DEF TotalOrder
<1>5. FetchDetails(ids) = InOrder(S, R)
  BY DEF FetchDetails, OfferedIn, named, R
<1>6. Cardinality(S) \in Nat /\ Lists(FetchDetails(ids), Cardinality(S), S, R)
  BY <1>1, <1>4, <1>5, InOrderLists
<1> HIDE DEF S
<1>7. \A i, j \in 1 .. Cardinality(S) : FetchDetails(ids)[i] = FetchDetails(ids)[j] => i = j
  BY <1>4, <1>6, ListsOnce
<1>8. DOMAIN FetchDetails(ids) = 1 .. Cardinality(S)
  BY <1>6 DEF Lists
<1>9. S = { FetchDetails(ids)[i] : i \in 1 .. Cardinality(S) }
  BY <1>6 DEF Lists
<1>10. QED
  BY <1>6, <1>7, <1>8, <1>9 DEF S

-------------------------------------------------------------------------------
(***************************************************************************)
(* Scores.                                                                 *)
(***************************************************************************)
Fraction == Nat \X (Nat \ {0})

\* A share of the tags is a fraction of the number of tags, if there are any.
LEMMA RatioType ==
  ASSUME NEW named, named \subseteq Words, NEW tags, tags \subseteq Words, IsFiniteSet(tags)
  PROVE  OverlapRatio(named, tags) \in Fraction
<1>1. CASE named = {} \/ tags = {}
  BY <1>1 DEF OverlapRatio, Fraction
<1>2. CASE named # {} /\ tags # {}
  <2> DEFINE f == [t \in tags |-> Fold[t]]
             A == Folded(tags)
             B == Folded(named) \cap A
  <2>1. f \in Surjection(tags, A)
    BY DEF Surjection, Folded
  <2> HIDE DEF f
  <2>2. IsFiniteSet(A)
    BY <2>1, FS_Surjection
  <2>3. IsFiniteSet(B) /\ Cardinality(A) \in Nat /\ Cardinality(B) \in Nat
    BY <2>2, FS_Subset, FS_CardinalityType
  <2>4. A # {}
    BY <1>2 DEF Folded
  <2>5. Cardinality(A) # 0
    BY <2>2, <2>4, FS_EmptySet
  <2>6. OverlapRatio(named, tags) = << Cardinality(B), Cardinality(A) >>
    BY <1>2 DEF OverlapRatio
  <2> HIDE DEF A, B
  <2>7. QED
    BY <2>3, <2>5, <2>6 DEF Fraction
<1>3. QED
  BY <1>1, <1>2

\* The product of two numbers that are not zero is no zero.
LEMMA ProductType ==
  ASSUME NEW a \in Nat, NEW b \in Nat
  PROVE  a * b \in Nat /\ (a # 0 /\ b # 0 => a * b # 0)
OBVIOUS

\* A product of three numbers may be grouped either way.
LEMMA Regrouped ==
  ASSUME NEW k \in Nat, NEW a \in Nat, NEW b \in Nat
  PROVE  k * a * b = k * (a * b)
OBVIOUS

\* The three parts of a score.
LEMMA RatiosType ==
  ASSUME NEW student \in Students, NEW p \in Programs
  PROVE  /\ OverlapRatio(ToSet(student.interests), Catalogue[p].tags) \in Fraction
         /\ OverlapRatio(ToSet(student.goals), Catalogue[p].keywords) \in Fraction
         /\ (IF StreamMatch(student, p) THEN 1 ELSE 0) \in Nat
<1>1. student.interests \in Seq(Words) /\ student.goals \in Seq(Words)
  BY StudentsAssumption DEF Student
<1>2. ToSet(student.interests) \subseteq Words /\ ToSet(student.goals) \subseteq Words
  BY <1>1, ElementOfSeq, LenProperties DEF ToSet
<1>3. /\ Catalogue[p].tags \subseteq Words /\ IsFiniteSet(Catalogue[p].tags)
      /\ Catalogue[p].keywords \subseteq Words /\ IsFiniteSet(Catalogue[p].keywords)
  BY CatalogueAssumption
<1>4. QED
  BY <1>2, <1>3, RatioType

\* A score is a fraction with a denominator that is not zero.
LEMMA ExactType ==
  ASSUME NEW student \in Students, NEW p \in Programs
  PROVE  Exact[student][p] \in Fraction
<1> DEFINE i == OverlapRatio(ToSet(student.interests), Catalogue[p].tags)
           c == OverlapRatio(ToSet(student.goals), Catalogue[p].keywords)
           s == IF StreamMatch(student, p) THEN 1 ELSE 0
<1>4. i \in Fraction /\ c \in Fraction
  BY RatiosType
<1>5. s \in Nat
  OBVIOUS
<1>6. Exact[student][p] =
        << 35 * s * i[2] * c[2] + 40 * i[1] * c[2] + 25 * c[1] * i[2], i[2] * c[2] >>
  BY DEF Exact, ExactScore
<1> HIDE DEF i, c, s
<1>7. i[1] \in Nat /\ i[2] \in Nat /\ i[2] # 0 /\ c[1] \in Nat /\ c[2] \in Nat /\ c[2] # 0
  BY <1>4 DEF Fraction
<1>8. i[2] * c[2] \in Nat \ {0}
  BY <1>7, ProductType
<1>9. 35 * s * i[2] * c[2] \in Nat
  <2>1. 35 * s \in Nat
    BY <1>5
  <2>2. 35 * s * i[2] \in Nat
    BY <1>7, <2>1, ProductType
  <2>3. QED
    BY <1>7, <2>2, ProductType
<1>10. 40 * i[1] * c[2] \in Nat /\ 25 * c[1] * i[2] \in Nat
  <2>1. 40 * i[1] \in Nat /\ 25 * c[1] \in Nat
    BY <1>7
  <2>2. QED
    BY <1>7, <2>1, ProductType
<1>11. 35 * s * i[2] * c[2] + 40 * i[1] * c[2] + 25 * c[1] * i[2] \in Nat
  BY <1>9, <1>10
<1>12. QED
  BY <1>6, <1>8, <1>11 DEF Fraction

\* What \div is.
LEMMA DivBounds ==
  ASSUME NEW x \in Nat, NEW d \in Nat \ {0}
  PROVE  x \div d \in Int /\ d * (x \div d) <= x /\ x < d * (x \div d + 1)
OBVIOUS

\* No larger number is as small as the quotient.
LEMMA DivGreatest ==
  ASSUME NEW x \in Nat, NEW d \in Nat \ {0}, NEW q \in Int, d * q <= x
  PROVE  q <= x \div d
OBVIOUS

\* Products with one number are in the order of the factors.
LEMMA ProductKeepsOrder ==
  ASSUME NEW a \in Int, NEW b \in Int, NEW c \in Nat, a <= b
  PROVE  a * c <= b * c
OBVIOUS

\* So are the factors of products with one number that is not zero.
LEMMA Cancelled ==
  ASSUME NEW a \in Int, NEW b \in Int, NEW c \in Nat \ {0}, a * c <= b * c
  PROVE  a <= b
OBVIOUS

\* Rounding gives a number.
LEMMA RoundedType ==
  ASSUME NEW a \in Fraction
  PROVE  /\ Rounded(a) \in Int
         /\ (2 * a[2]) * Rounded(a) <= 200 * a[1] + a[2]
         /\ 200 * a[1] + a[2] < (2 * a[2]) * (Rounded(a) + 1)
<1>1. a[1] \in Nat /\ a[2] \in Nat \ {0}
  BY DEF Fraction
<1>2. 200 * a[1] + a[2] \in Nat /\ 2 * a[2] \in Nat \ {0}
  BY <1>1
<1>3. QED
  BY <1>2, DivBounds DEF Rounded

\* Rounding keeps the order of scores.
LEMMA RoundedMonotone ==
  ASSUME NEW a \in Fraction, NEW b \in Fraction, a[1] * b[2] <= b[1] * a[2]
  PROVE  Rounded(a) <= Rounded(b)
<1> DEFINE q == Rounded(a)
<1>1. a[1] \in Nat /\ a[2] \in Nat \ {0} /\ b[1] \in Nat /\ b[2] \in Nat \ {0}
  BY DEF Fraction
<1>2. q \in Int /\ (2 * a[2]) * q <= 200 * a[1] + a[2]
  BY RoundedType
<1> HIDE DEF q
<1>3. ((2 * a[2]) * q) * b[2] <= (200 * a[1] + a[2]) * b[2]
  BY <1>1, <1>2, ProductKeepsOrder
<1>4. (200 * a[1] + a[2]) * b[2] <= (200 * b[1] + b[2]) * a[2]
  BY <1>1
<1>5. ((2 * a[2]) * q) * b[2] = ((2 * b[2]) * q) * a[2]
  BY <1>1, <1>2
<1>6. ((2 * b[2]) * q) * a[2] <= (200 * b[1] + b[2]) * a[2]
  BY <1>1, <1>2, <1>3, <1>4, <1>5
<1>7. (2 * b[2]) * q \in Int /\ 200 * b[1] + b[2] \in Nat /\ 2 * b[2] \in Nat \ {0}
  BY <1>1, <1>2
<1>8. (2 * b[2]) * q <= 200 * b[1] + b[2]
  BY <1>1, <1>6, <1>7, Cancelled
<1>9. q <= (200 * b[1] + b[2]) \div (2 * b[2])
  BY <1>2, <1>7, <1>8, DivGreatest
<1>10. QED
  BY <1>9 DEF Rounded, q

-------------------------------------------------------------------------------
(***************************************************************************)
(* The ranking.                                                            *)
(***************************************************************************)
\* The key orders all programs.
LEMMA RanksBeforeIsTotal ==
  ASSUME NEW student \in Students
  PROVE  TotalOrder(RanksBefore(student), Programs)
<1> DEFINE f == Score[student]
           R == RanksBefore(student)
<1>1. \A p \in Programs : p \in Nat /\ f[p] \in Int
  BY EngineAssumption, ExactType, RoundedType DEF Score
<1>2. \A p, q \in Programs : << p, q >> \in R <=> f[p] > f[q] \/ (f[p] = f[q] /\ p < q)
  BY DEF RanksBefore
<1> HIDE DEF f, R
<1>3. ASSUME NEW p \in Programs
      PROVE  << p, p >> \notin R
  <2>1. f[p] \in Int /\ p \in Nat
    BY <1>1
  <2>2. ~ (f[p] > f[p]) /\ ~ (p < p)
    BY <2>1
  <2>3. QED
    BY <1>2, <2>2
<1>4. ASSUME NEW p \in Programs, NEW q \in Programs, NEW r \in Programs,
             << p, q >> \in R, << q, r >> \in R
      PROVE  << p, r >> \in R
  BY <1>1, <1>2, <1>4
<1>5. ASSUME NEW p \in Programs, NEW q \in Programs, p # q
      PROVE  << p, q >> \in R \/ << q, p >> \in R
  <2>1. f[p] \in Int /\ f[q] \in Int /\ p \in Nat /\ q \in Nat
    BY <1>1
  <2>2. f[p] > f[q] \/ f[q] > f[p] \/ (f[p] = f[q] /\ (p < q \/ q < p))
    BY <1>5, <2>1
  <2>3. QED
    BY <1>2, <2>2
<1>6. QED
  BY <1>3, <1>4, <1>5 DEF TotalOrder, R

\* IsBest, by the rounded scores.
IsBestRounded(student, programs, ranked) ==
  /\ ToSet(ranked) \subseteq programs /\ IsInjective(ranked)
  /\ Len(ranked) = IF Cardinality(programs) < TopN THEN Cardinality(programs) ELSE TopN
  /\ \A i \in DOMAIN ranked : \A q \in programs :
       q \in ToSet(SubSeq(ranked, 1, i)) \/ << ranked[i], q >> \in RanksBefore(student)

\* The first of a list in the order of the key are the best.
LEMMA FirstAreBest ==
  ASSUME NEW student \in Students, NEW S, S \subseteq Programs, NEW n \in Nat,
         n = Cardinality(S), NEW t, Lists(t, n, S, RanksBefore(student)), Len(t) = n
  PROVE  FirstOnes(t) \in Seq(Programs) /\ IsBestRounded(student, S, FirstOnes(t))
<1> DEFINE R == RanksBefore(student)
           m == IF TopN < n THEN TopN ELSE n
           ranked == FirstOnes(t)
<1>1. m \in Nat /\ m <= n /\ m = IF n < TopN THEN n ELSE TopN
  BY EngineAssumption
<1>2. ranked = SubSeq(t, 1, m)
  BY DEF FirstOnes
<1>3. \A k \in 1 .. n : t[k] \in S
  BY DEF Lists
<1>4. TotalOrder(R, S)
  BY RanksBeforeIsTotal DEF TotalOrder
<1>5. \A j, k \in 1 .. n : t[j] = t[k] => j = k
  BY <1>4, ListsOnce
<1> HIDE DEF m, ranked
<1>6. /\ ranked \in Seq(S) /\ Len(ranked) = m /\ DOMAIN ranked = 1 .. m
      /\ \A i \in 1 .. m : ranked[i] = t[i]
  <2>1. \A k \in 1 .. m : t[k] \in S
    BY <1>1, <1>3
  <2>2. /\ SubSeq(t, 1, m) \in Seq(S) /\ Len(SubSeq(t, 1, m)) = IF 1 <= m THEN m - 1 + 1 ELSE 0
        /\ \A i \in 1 .. m - 1 + 1 : SubSeq(t, 1, m)[i] = t[1 + i - 1]
    BY <1>1, <2>1, SubSeqProperties
  <2>3. QED
    BY <1>1, <1>2, <2>2, LenProperties
<1>7. ranked \in Seq(Programs)
  BY <1>6, SeqMonotonic
<1>8. ToSet(ranked) \subseteq S
  BY <1>1, <1>3, <1>6 DEF ToSet
<1>9. IsInjective(ranked)
  BY <1>1, <1>5, <1>6 DEF IsInjective
<1>10. ASSUME NEW i \in 1 .. m, NEW q \in S, << ranked[i], q >> \notin R
       PROVE  q \in ToSet(SubSeq(ranked, 1, i))
  <2>1. PICK k \in 1 .. n : t[k] = q
    BY DEF Lists
  <2>2. i \in 1 .. n /\ ranked[i] = t[i]
    BY <1>1, <1>6
  <2>3. k \in 1 .. i
    <3>1. i < k => << t[i], t[k] >> \in R
      BY <2>2 DEF Lists
    <3>2. QED
      BY <1>10, <2>1, <2>2, <3>1
  <2>4. /\ SubSeq(ranked, 1, i) \in Seq(S) /\ Len(SubSeq(ranked, 1, i)) = i
        /\ \A j \in 1 .. i : SubSeq(ranked, 1, i)[j] = ranked[j]
    <3>1. \A j \in 1 .. i : ranked[j] \in S
      BY <1>1, <1>3, <1>6
    <3>2. /\ SubSeq(ranked, 1, i) \in Seq(S)
          /\ Len(SubSeq(ranked, 1, i)) = IF 1 <= i THEN i - 1 + 1 ELSE 0
          /\ \A j \in 1 .. i - 1 + 1 : SubSeq(ranked, 1, i)[j] = ranked[1 + j - 1]
      BY <3>1, SubSeqProperties
    <3>3. QED
      BY <3>2
  <2>5. DOMAIN SubSeq(ranked, 1, i) = 1 .. i
    BY <2>4, LenProperties
  <2>6. SubSeq(ranked, 1, i)[k] = q
    BY <1>1, <1>6, <2>1, <2>3, <2>4
  <2>7. QED
    BY <2>3, <2>5, <2>6 DEF ToSet
<1>11. QED
  BY <1>1, <1>6, <1>7, <1>8, <1>9, <1>10 DEF IsBestRounded, ranked, m

\* fetch_program_details() and rank_programs(): whatever order the eligible
\* programs come in, and however often one of them comes, what is recommended
\* are the first ones of those offered, each once, by the key (-score, id).
THEOREM RankingIsBest ==
  ASSUME NEW student \in Students, NEW ids, Gapped(ids),
         \A i \in DOMAIN ids : ids[i] \in Programs
  PROVE  LET ranked == RankPrograms(student, FetchDetails(ids)) IN
         ranked \in Seq(Programs) /\ IsBestRounded(student, OfferedIn(ids), ranked)
<1> DEFINE S == OfferedIn(ids)
           n == Cardinality(S)
           R == RanksBefore(student)
           d == FetchDetails(ids)
           t == StableSort(d, R)
<1>1. /\ n \in Nat /\ DOMAIN d = 1 .. n /\ S = { d[i] : i \in 1 .. n }
      /\ \A i, j \in 1 .. n : d[i] = d[j] => i = j
  BY FetchFindsOnce
<1>2. S \subseteq Programs
  BY DEF OfferedIn, ToSet
<1>3. TotalOrder(R, S)
  BY <1>2, RanksBeforeIsTotal DEF TotalOrder
<1> HIDE DEF S, R, d, n
<1>4. Lists(t, n, S, R)
  <2>1. ListOf(d, n, S)
    BY <1>1 DEF ListOf
  <2>2. QED
    BY <1>1, <1>3, <2>1, StableSortLists
<1>5. Len(t) = n
  BY <1>1, <1>4 DEF Lists
<1>6. RankPrograms(student, d) = FirstOnes(t)
  BY DEF RankPrograms, R
<1> HIDE DEF t
<1>7. FirstOnes(t) \in Seq(Programs) /\ IsBestRounded(student, S, FirstOnes(t))
  BY <1>1, <1>2, <1>4, <1>5, FirstAreBest DEF n, R
<1>8. QED
  BY <1>6, <1>7 DEF d, S

\* Two fractions of denominators up to 22 and numerators in fives, one larger
\* than the other, are not rounded alike.
LEMMA TooClose ==
  ASSUME NEW d \in Nat, NEW e \in Nat, d # 0, e # 0, d <= 22, e <= 22,
         NEW m \in Nat, NEW n \in Nat, NEW r \in Int,
         1000 * m + d < (2 * d) * (r + 1), (2 * e) * r <= 1000 * n + e,
         (5 * m) * e > (5 * n) * d
  PROVE  FALSE
<1> DEFINE x == m * e
           y == n * d
           u == d * e
           v == u * r
<1>1. x \in Int /\ y \in Int /\ u \in Int /\ v \in Int
  BY ProductType
<1>2. u <= 484
  <2>1. d * e <= 22 * e
    BY ProductKeepsOrder
  <2>2. QED
    BY <2>1
<1>3. x >= y + 1
  <2>1. (5 * m) * e = 5 * x /\ (5 * n) * d = 5 * y
    BY Regrouped
  <2> HIDE DEF x, y
  <2>2. QED
    BY <1>1, <2>1
<1>4. 1000 * x + u < 2 * v + 2 * u
  <2>1. (1000 * m + d) * e < ((2 * d) * (r + 1)) * e
    OBVIOUS
  <2>2. (1000 * m + d) * e = 1000 * x + u
    OBVIOUS
  <2>3. ((2 * d) * (r + 1)) * e = 2 * v + 2 * u
    OBVIOUS
  <2>4. QED
    BY <2>1, <2>2, <2>3
<1>5. 2 * v <= 1000 * y + u
  <2>1. ((2 * e) * r) * d <= (1000 * n + e) * d
    OBVIOUS
  <2>2. ((2 * e) * r) * d = 2 * v
    OBVIOUS
  <2>3. (1000 * n + e) * d = 1000 * y + u
    OBVIOUS
  <2>4. QED
    BY <2>1, <2>2, <2>3
<1> HIDE DEF x, y, u, v
<1>6. QED
  BY <1>1, <1>2, <1>3, <1>4, <1>5

\* The weights, in hundredths, are multiples of five.
LEMMA ExactInFives ==
  ASSUME NEW student \in Students, NEW p \in Programs
  PROVE  \E m \in Nat : Exact[student][p][1] = 5 * m
<1> DEFINE i == OverlapRatio(ToSet(student.interests), Catalogue[p].tags)
           c == OverlapRatio(ToSet(student.goals), Catalogue[p].keywords)
           s == IF StreamMatch(student, p) THEN 1 ELSE 0
<1>1. Exact[student][p][1] = 35 * s * i[2] * c[2] + 40 * i[1] * c[2] + 25 * c[1] * i[2]
  BY DEF Exact, ExactScore
<1>2. i \in Fraction /\ c \in Fraction /\ s \in Nat
  BY RatiosType
<1> HIDE DEF i, c, s
<1>3. i[1] \in Nat /\ i[2] \in Nat /\ c[1] \in Nat /\ c[2] \in Nat
  BY <1>2 DEF Fraction
<1>4. PICK x \in Nat, y \in Nat, z \in Nat :
        35 * s * i[2] * c[2] = 35 * x /\ 40 * i[1] * c[2] = 40 * y /\ 25 * c[1] * i[2] = 25 * z
  <2>1. s * i[2] \in Nat
    BY <1>2, <1>3, ProductType
  <2>2. 35 * s * i[2] = 35 * (s * i[2])
    BY <1>2, <1>3, Regrouped
  <2>3. 35 * (s * i[2]) * c[2] = 35 * (s * i[2] * c[2])
    BY <1>3, <2>1, Regrouped
  <2>4. 40 * i[1] * c[2] = 40 * (i[1] * c[2]) /\ 25 * c[1] * i[2] = 25 * (c[1] * i[2])
    BY <1>3, Regrouped
  <2>5. s * i[2] * c[2] \in Nat /\ i[1] * c[2] \in Nat /\ c[1] * i[2] \in Nat
    BY <1>3, <2>1, ProductType
  <2>6. QED
    BY <2>2, <2>3, <2>4, <2>5
<1>5. 7 * x + 8 * y + 5 * z \in Nat
  OBVIOUS
<1>6. Exact[student][p][1] = 5 * (7 * x + 8 * y + 5 * z)
  BY <1>1, <1>4
<1>7. QED
  BY <1>5, <1>6

\* Scores that differ do so by a twentieth of the product of their denominators
\* at least, which is more than a rounding hides if these are 22 at most.
LEMMA FewTagsTellApart ==
  ASSUME \A s \in Students : \A p \in Programs : Exact[s][p][2] <= 22
  PROVE  ScoresTellApart
<1> SUFFICES ASSUME NEW s \in Students, NEW p \in Programs, NEW q \in Programs,
                    Score[s][p] = Score[s][q],
                    Exact[s][p][1] * Exact[s][q][2] > Exact[s][q][1] * Exact[s][p][2]
             PROVE  FALSE
  <2>1. ASSUME NEW s \in Students, NEW p \in Programs, NEW q \in Programs
        PROVE  /\ Exact[s][p][1] * Exact[s][q][2] \in Int
               /\ Exact[s][q][1] * Exact[s][p][2] \in Int
    BY ExactType, ProductType DEF Fraction
  <2>2. QED
    BY <2>1 DEF ScoresTellApart
<1> DEFINE a == Exact[s][p]
           b == Exact[s][q]
           r == Rounded(a)
<1>1. /\ a \in Fraction /\ b \in Fraction /\ a[2] <= 22 /\ b[2] <= 22
      /\ a[1] * b[2] > b[1] * a[2]
  BY ExactType
<1>2. Rounded(b) = r
  BY DEF Score
<1>3. PICK m \in Nat : a[1] = 5 * m
  BY ExactInFives
<1>4. PICK n \in Nat : b[1] = 5 * n
  BY ExactInFives
<1>5. r \in Int /\ 200 * a[1] + a[2] < (2 * a[2]) * (r + 1)
  BY <1>1, RoundedType
<1>6. (2 * b[2]) * r <= 200 * b[1] + b[2]
  BY <1>1, <1>2, RoundedType
<1> HIDE DEF a, b, r
<1> DEFINE d == a[2]
           e == b[2]
<1>7. d \in Nat /\ e \in Nat /\ e # 0 /\ d # 0 /\ d <= 22 /\ e <= 22
  BY <1>1 DEF Fraction
<1>8. /\ 1000 * m + d < (2 * d) * (r + 1) /\ (2 * e) * r <= 1000 * n + e
      /\ (5 * m) * e > (5 * n) * d
  BY <1>1, <1>3, <1>4, <1>5, <1>6
<1> HIDE DEF d, e
<1>9. QED
  BY <1>5, <1>7, <1>8, TooClose

\* Then what is best by the rounded scores is best by the exact ones.
LEMMA RoundedIsExact ==
  ASSUME ScoresTellApart, NEW student \in Students, NEW programs, programs \subseteq Programs,
         NEW ranked, ranked \in Seq(Programs), IsBestRounded(student, programs, ranked)
  PROVE  IsBest(student, programs, ranked)
<1>1. ASSUME NEW p \in Programs, NEW q \in Programs, << p, q >> \in RanksBefore(student)
      PROVE  Better(student, p, q)
  <2> DEFINE a == Exact[student][p]
             b == Exact[student][q]
  <2>1. a \in Fraction /\ b \in Fraction
    BY ExactType
  <2>2. Score[student][p] = Rounded(a) /\ Score[student][q] = Rounded(b)
    BY DEF Score
  <2>3. Rounded(a) > Rounded(b) \/ (Rounded(a) = Rounded(b) /\ p < q)
    BY <1>1, <2>2 DEF RanksBefore
  <2>4. Rounded(a) = Rounded(b) => a[1] * b[2] = b[1] * a[2]
    BY <2>2 DEF ScoresTellApart
  <2>5. Better(student, p, q) <=> a[1] * b[2] > b[1] * a[2] \/ (a[1] * b[2] = b[1] * a[2] /\ p < q)
    BY DEF Better
  <2> HIDE DEF a, b
  <2>6. a[1] * b[2] \in Int /\ b[1] * a[2] \in Int /\ Rounded(a) \in Int /\ Rounded(b) \in Int
    <3>1. a[1] \in Nat /\ a[2] \in Nat /\ b[1] \in Nat /\ b[2] \in Nat
      BY <2>1 DEF Fraction
    <3>2. Rounded(a) \in Int /\ Rounded(b) \in Int
      BY <2>1, RoundedType
    <3>3. QED
      BY <3>1, <3>2, ProductType
  <2>7. a[1] * b[2] <= b[1] * a[2] => Rounded(a) <= Rounded(b)
    BY <2>1, RoundedMonotone
  <2>8. QED
    BY <2>3, <2>4, <2>5, <2>6, <2>7
<1>2. \A i \in DOMAIN ranked : ranked[i] \in Programs
  BY LenProperties, ElementOfSeq
<1>3. QED
  BY <1>1, <1>2 DEF IsBestRounded, IsBest
===============================================================================
