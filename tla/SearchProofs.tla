----------------------------- MODULE SearchProofs -----------------------------
(***************************************************************************)
(* One request of the retrieval pipeline, over stores of any size: what    *)
(* its lists hold, call by call, and what the page shows in the end.       *)
(***************************************************************************)
EXTENDS Search, FunctionTheorems, FiniteSetTheorems, WellFoundedInduction, TLAPS

-----------------------------------------------------------------------------
(* Lists *)

IsList(s) == IsFiniteSet(Elements(s)) /\ s \in Lists(Elements(s))

\* A smaller set has fewer members.
LEMMA FewerOf ==
  ASSUME NEW S, IsFiniteSet(S), NEW T \in SUBSET S, NEW x \in S, x \notin T
  PROVE  Cardinality(T) < Cardinality(S) /\ Cardinality(T) \in Nat /\ Cardinality(S) \in Nat
<1>1. IsFiniteSet(T) /\ Cardinality(T) <= Cardinality(S) /\ (Cardinality(S) = Cardinality(T) => S = T)
  BY FS_Subset
<1>2. Cardinality(T) \in Nat /\ Cardinality(S) \in Nat
  BY <1>1, FS_CardinalityType
<1> QED
  BY <1>1, <1>2

\* Who counts those not behind him has a place of his own.
LEMMA CountsArePlaces ==
  ASSUME NEW S, IsFiniteSet(S), NEW upTo \in [S -> SUBSET S], \A i \in S : i \in upTo[i],
         \A i, j \in S : i # j => \/ j \notin upTo[i] /\ upTo[i] \subseteq upTo[j]
                                  \/ i \notin upTo[j] /\ upTo[j] \subseteq upTo[i]
  PROVE  /\ [i \in S |-> Cardinality(upTo[i])] \in Lists(S)
         /\ \A i, j \in S : Cardinality(upTo[i]) < Cardinality(upTo[j]) <=> j \notin upTo[i]
<1>1. ASSUME NEW i \in S
      PROVE  /\ IsFiniteSet(upTo[i]) /\ Cardinality(upTo[i]) \in 1..Cardinality(S)
  <2>1. upTo[i] \in SUBSET S /\ upTo[i] # {}
    OBVIOUS
  <2>2. IsFiniteSet(upTo[i]) /\ Cardinality(upTo[i]) <= Cardinality(S)
    BY <2>1, FS_Subset
  <2>3. Cardinality(upTo[i]) \in Nat /\ Cardinality(S) \in Nat /\ Cardinality(upTo[i]) # 0
    BY <2>1, <2>2, FS_CardinalityType, FS_EmptySet
  <2> QED
    BY <2>2, <2>3
<1>2. ASSUME NEW i \in S, NEW j \in S, j \notin upTo[i], upTo[i] \subseteq upTo[j]
      PROVE  Cardinality(upTo[i]) < Cardinality(upTo[j])
  <2>1. IsFiniteSet(upTo[j]) /\ upTo[i] \in SUBSET upTo[j] /\ j \in upTo[j]
    BY <1>1, <1>2
  <2> QED
    BY <1>2, <2>1, FewerOf
<1>3. ASSUME NEW i \in S, NEW j \in S, i # j
      PROVE  \/ j \notin upTo[i] /\ i \in upTo[j] /\ Cardinality(upTo[i]) < Cardinality(upTo[j])
             \/ i \notin upTo[j] /\ j \in upTo[i] /\ Cardinality(upTo[j]) < Cardinality(upTo[i])
  BY <1>2, <1>3
<1>4. \A i \in S : Cardinality(upTo[i]) \in Int
  BY <1>1
<1>5. \A i, j \in S : Cardinality(upTo[i]) = Cardinality(upTo[j]) => i = j
  BY <1>3, <1>4
<1>6. \A i, j \in S : Cardinality(upTo[i]) < Cardinality(upTo[j]) <=> j \notin upTo[i]
  <2> SUFFICES ASSUME NEW i \in S, NEW j \in S
               PROVE  Cardinality(upTo[i]) < Cardinality(upTo[j]) <=> j \notin upTo[i]
    OBVIOUS
  <2>1. CASE i = j
    BY <1>4, <2>1
  <2>2. CASE i # j
    BY <1>3, <1>4, <2>2
  <2> QED
    BY <2>1, <2>2
<1> QED
  BY <1>1, <1>5, <1>6 DEF Lists

\* What is kept of a list keeps its order.
LEMMA OnlyIsList ==
  ASSUME NEW s, IsList(s), NEW S
  PROVE  /\ IsList(Only(s, S)) /\ Elements(Only(s, S)) = Elements(s) \cap S
         /\ \A i, j \in Elements(s) \cap S : Only(s, S)[i] < Only(s, S)[j] <=> s[i] < s[j]
<1> DEFINE kept == Elements(s) \cap S
           upTo == [i \in kept |-> {j \in kept : s[j] <= s[i]}]
<1>1. IsFiniteSet(kept)
  BY FS_Intersection DEF IsList
<1>2. Cardinality(Elements(s)) \in Nat
  BY FS_CardinalityType DEF IsList
<1>3. \A i \in kept : s[i] \in Int
  BY <1>2 DEF IsList, Lists
<1>4. \A i, j \in kept : i # j => s[i] < s[j] \/ s[j] < s[i]
  BY <1>3 DEF IsList, Lists
<1>5. Only(s, S) = [i \in kept |-> Cardinality(upTo[i])]
  BY DEF Only
<1>6. upTo \in [kept -> SUBSET kept] /\ \A i, j \in kept : j \in upTo[i] <=> s[j] <= s[i]
  OBVIOUS
<1> HIDE DEF upTo
<1>7. \A i \in kept : i \in upTo[i]
  BY <1>3, <1>6
<1>8. ASSUME NEW i \in kept, NEW j \in kept, s[i] < s[j] PROVE j \notin upTo[i] /\ upTo[i] \subseteq upTo[j]
  BY <1>3, <1>6, <1>8
<1>9. \A i, j \in kept : i # j => \/ j \notin upTo[i] /\ upTo[i] \subseteq upTo[j]
                                  \/ i \notin upTo[j] /\ upTo[j] \subseteq upTo[i]
  BY <1>4, <1>8
<1>10. /\ [i \in kept |-> Cardinality(upTo[i])] \in Lists(kept)
       /\ \A i, j \in kept : Cardinality(upTo[i]) < Cardinality(upTo[j]) <=> j \notin upTo[i]
  <2> HIDE DEF kept
  <2> QED
    BY <1>1, <1>6, <1>7, <1>9, CountsArePlaces
<1>11. \A i, j \in kept : Only(s, S)[i] < Only(s, S)[j] <=> s[i] < s[j]
  BY <1>3, <1>5, <1>6, <1>10
<1>12. Elements(Only(s, S)) = kept
  BY <1>5 DEF Elements
<1> QED
  BY <1>1, <1>5, <1>10, <1>11, <1>12 DEF IsList

\* The places of a list are those from one on, every one of them.
LEMMA PlacesAreTaken ==
  ASSUME NEW s, IsList(s)
  PROVE  /\ Cardinality(Elements(s)) \in Nat
         /\ \A i \in Elements(s) : s[i] \in 1..Cardinality(Elements(s))
         /\ \A k \in 1..Cardinality(Elements(s)) : \E i \in Elements(s) : s[i] = k
<1> DEFINE S == Elements(s)
           n == Cardinality(S)
<1>1. n \in Nat /\ IsFiniteSet(S) /\ s \in [S -> 1..n] /\ \A i, j \in S : s[i] = s[j] => i = j
  BY FS_CardinalityType DEF IsList, Lists
<1>2. IsFiniteSet(1..n) /\ Cardinality(1..n) = n
  BY <1>1, FS_Interval
<1>3. s \in Injection(S, 1..n)
  BY <1>1 DEF Injection, IsInjective
<1>4. s \in Surjection(S, 1..n)
  <2> HIDE DEF S, n
  <2> QED
    BY <1>2, <1>3, FS_Injection DEF n
<1>5. \A k \in 1..n : \E i \in S : s[i] = k
  BY <1>4 DEF Surjection
<1> QED
  BY <1>1, <1>5

\* A page is as long as asked, or holds all there is.
LEMMA TakeIsList ==
  ASSUME NEW s, IsList(s), NEW n \in Nat
  PROVE  /\ IsList(Take(s, n)) /\ Elements(Take(s, n)) \subseteq Elements(s)
         /\ Cardinality(Elements(Take(s, n))) \in Nat /\ Cardinality(Elements(Take(s, n))) <= n
         /\ Cardinality(Elements(Take(s, n))) < n => Elements(Take(s, n)) = Elements(s)
<1> DEFINE S == Elements(s)
           m == Cardinality(S)
           T == {i \in S : s[i] <= n}
           f == [k \in 1..n |-> CHOOSE i \in S : s[i] = k]
<1>1. IsList(Take(s, n)) /\ Elements(Take(s, n)) = T
  <2>1. Elements(s) \cap T = T
    OBVIOUS
  <2> QED
    BY <2>1, OnlyIsList DEF Take
<1>2. /\ m \in Nat /\ (\A i \in S : s[i] \in 1..m) /\ \A k \in 1..m : \E i \in S : s[i] = k
      /\ IsFiniteSet(S) /\ \A i, j \in S : s[i] = s[j] => i = j
  BY PlacesAreTaken DEF IsList, Lists
<1>3. IsFiniteSet(1..n) /\ Cardinality(1..n) = n
  BY FS_Interval
<1> HIDE DEF S, m
<1>4. IsFiniteSet(T) /\ Cardinality(T) \in Nat
  BY <1>2, FS_Subset, FS_CardinalityType
<1>5. Cardinality(T) <= n
  <2>1. [i \in T |-> s[i]] \in Injection(T, 1..n)
    BY <1>2 DEF Injection, IsInjective
  <2> QED
    BY <1>3, <2>1, FS_Injection
<1>6. ASSUME T # S PROVE ~(Cardinality(T) < n)
  <2>1. n <= m
    BY <1>2, <1>6
  <2>2. \A k \in 1..n : f[k] \in S /\ s[f[k]] = k
    BY <1>2, <2>1
  <2>3. f \in Injection(1..n, T)
    <3>1. f \in [1..n -> T]
      BY <2>2
    <3>2. \A k, l \in 1..n : f[k] = f[l] => k = l
      BY <2>2
    <3> QED
      BY <3>1, <3>2 DEF Injection, IsInjective
  <2>4. n <= Cardinality(T)
    BY <1>3, <1>4, <2>3, FS_Injection
  <2> QED
    BY <1>4, <2>4
<1> QED
  BY <1>1, <1>4, <1>5, <1>6 DEF S

\* A list followed by another.
LEMMA ThenIsList ==
  ASSUME NEW s, IsList(s), NEW t, IsList(t)
  PROVE  /\ IsList(Then(s, t)) /\ Elements(Then(s, t)) = Elements(s) \cup Elements(t)
<1> DEFINE S == Elements(s)
           rest == Elements(t) \ S
           more == Only(t, rest)
           both == S \cup Elements(t)
           r == [i \in both |-> IF i \in S THEN s[i] ELSE Cardinality(S) + more[i]]
<1>1. IsList(more) /\ Elements(more) = rest
  <2>1. Elements(t) \cap rest = rest
    OBVIOUS
  <2> QED
    BY <2>1, OnlyIsList
<1>2. /\ Cardinality(S) \in Nat /\ IsFiniteSet(S) /\ (\A i \in S : s[i] \in 1..Cardinality(S))
      /\ \A i, j \in S : s[i] = s[j] => i = j
  BY PlacesAreTaken DEF IsList, Lists
<1>3. /\ Cardinality(rest) \in Nat /\ IsFiniteSet(rest) /\ (\A i \in rest : more[i] \in 1..Cardinality(rest))
      /\ \A i, j \in rest : more[i] = more[j] => i = j
  BY <1>1, PlacesAreTaken DEF IsList, Lists
<1>4. IsFiniteSet(both) /\ Cardinality(both) = Cardinality(S) + Cardinality(rest)
  <2>1. both = S \cup rest /\ S \cap rest = {}
    OBVIOUS
  <2>2. Cardinality({}) = 0
    BY FS_EmptySet
  <2> HIDE DEF S, rest, both
  <2>3. /\ IsFiniteSet(S \cup rest)
        /\ Cardinality(S \cup rest) = Cardinality(S) + Cardinality(rest) - Cardinality(S \cap rest)
    BY <1>2, <1>3, FS_Union
  <2>4. Cardinality(S \cap rest) = 0
    BY <2>1, <2>2
  <2> QED
    BY <1>2, <1>3, <2>1, <2>3, <2>4
<1>5. Then(s, t) = r
  BY DEF Then
<1> HIDE DEF more
<1>6. \A i \in both : i \in S \/ i \in rest
  OBVIOUS
<1>7. ASSUME NEW i \in both PROVE r[i] \in 1..Cardinality(both)
  BY <1>2, <1>3, <1>4, <1>6
<1>8. ASSUME NEW i \in both, NEW j \in both, r[i] = r[j] PROVE i = j
  BY <1>2, <1>3, <1>6, <1>8
<1>9. r \in Lists(both)
  BY <1>7, <1>8 DEF Lists
<1> QED
  BY <1>4, <1>5, <1>9 DEF IsList, Elements

\* The empty list; the answer of the text index; an order of candidates; a fetch.
LEMMA NoListIsList == IsList(NoList) /\ Elements(NoList) = {}
BY FS_EmptySet DEF IsList, Lists, NoList, Elements

\* A ranking by text of a finite set is a list of it.
LEMMA TextedIsList ==
  ASSUME NEW S \in SUBSET Nat, IsFiniteSet(S)
  PROVE  IsList(Texted(S)) /\ Elements(Texted(S)) = S
<1> DEFINE upTo == [i \in S |-> {j \in S : j <= i}]
<1>1. Texted(S) = [i \in S |-> Cardinality(upTo[i])]
  BY DEF Texted
<1>2. upTo \in [S -> SUBSET S] /\ \A i, j \in S : j \in upTo[i] <=> j <= i
  OBVIOUS
<1> HIDE DEF upTo
<1>3. (\A i, j \in S : i # j => i < j \/ j < i) /\ \A i \in S : i \in Int
  OBVIOUS
<1>4. ASSUME NEW i \in S, NEW j \in S, i < j PROVE j \notin upTo[i] /\ upTo[i] \subseteq upTo[j]
  <2>1. \A k \in S : k <= i => k <= j
    BY <1>3, <1>4
  <2>2. ~ (j <= i)
    BY <1>3, <1>4
  <2>3. upTo[i] \subseteq S
    BY <1>2
  <2> QED
    BY <1>2, <2>1, <2>2, <2>3
<1>5. [i \in S |-> Cardinality(upTo[i])] \in Lists(S)
  <2>1. \A i \in S : i \in upTo[i]
    BY <1>2
  <2> QED
    BY <1>2, <1>3, <1>4, <2>1, CountsArePlaces
<1> QED
  BY <1>1, <1>5 DEF IsList, Elements

\* So is every list that a finite set may be put in.
LEMMA ListsAreLists ==
  ASSUME NEW S, IsFiniteSet(S), NEW s \in Lists(S) PROVE IsList(s) /\ Elements(s) = S
BY DEF IsList, Lists, Elements

\* The nearest n of a set are a list of n at the most, and of all if there are fewer.
LEMMA NearestIsList ==
  ASSUME NEW S, IsFiniteSet(S), NEW n \in Nat, NEW s \in Nearest(S, n)
  PROVE  /\ IsList(s) /\ Elements(s) \subseteq S /\ Cardinality(Elements(s)) \in Nat
         /\ Cardinality(Elements(s)) <= n
         /\ Cardinality(Elements(s)) < n => Elements(s) = S
<1>1. PICK T \in SUBSET S : /\ Cardinality(T) = n \/ (Cardinality(T) < n /\ T = S)
                            /\ s \in Lists(T)
  BY DEF Nearest
<1>2. IsFiniteSet(T) /\ Cardinality(T) \in Nat
  BY FS_Subset, FS_CardinalityType
<1>3. IsList(s) /\ Elements(s) = T
  BY <1>1, <1>2, ListsAreLists
<1> QED
  BY <1>1, <1>2, <1>3

\* Somebody of a list is first among those of its members that are asked for.
LEMMA FirstExists ==
  ASSUME NEW s, IsList(s), NEW S \in SUBSET Elements(s), S # {}
  PROVE  \E i \in S : \A j \in S : ~ (s[j] < s[i])
<1> DEFINE places == {s[i] : i \in S}
<1>1. \A i \in S : s[i] \in Nat
  BY PlacesAreTaken
<1>2. places \subseteq Nat /\ places # {}
  BY <1>1
<1> HIDE DEF places
<1>3. PICK n \in places : \A m \in places : ~ (<<m, n>> \in OpToRel(<, Nat))
  BY <1>2, NatLessThanWellFounded, WFMin
<1>4. PICK i \in S : n = s[i]
  BY <1>3 DEF places
<1>5. ASSUME NEW j \in S, s[j] < s[i] PROVE FALSE
  <2>1. s[j] \in places /\ s[j] \in Nat /\ n \in Nat
    BY <1>1, <1>4 DEF places
  <2>2. <<s[j], n>> \in Nat \X Nat /\ <<s[j], n>>[1] = s[j] /\ <<s[j], n>>[2] = n
    BY <2>1
  <2> QED
    BY <1>3, <1>4, <1>5, <2>1, <2>2 DEF OpToRel
<1> QED
  BY <1>5

-----------------------------------------------------------------------------
(* The ranking *)

Rows == [text : Texts \cup {""}, tier : {"hand", "extract", "bulk"}, stale : BOOLEAN, live : BOOLEAN]
Stored == memory \in [Ids -> Rows] /\ \A p \in Points : memory[p].text \in Texts

AllAreLists ==
  /\ IsList(page.list) /\ IsList(page.curated) /\ IsList(page.lexical)
  /\ IsList(page.facts) /\ IsList(page.events)

\* The ids are finitely many numbers, each of one kind.
LEMMA IdsAre ==
  /\ IsFiniteSet(Ids) /\ Ids \subseteq Nat /\ Ids = Points \cup Facts \cup Events
  /\ Points \cap Facts = {} /\ Points \cap Events = {} /\ Facts \cap Events = {}
BY SearchAssumption DEF Ids

\* What is done with numbers stays a number.
LEMMA NumbersStay ==
  /\ \A a, b \in Nat : a * b \in Nat /\ a + b \in Nat
  /\ \A a \in Nat, b \in Nat \ {0} : a \div b \in Nat
OBVIOUS

\* A rank weight is a number.
LEMMA WeightIsNumber == ASSUME NEW i PROVE Weight(i) \in Nat
<1>1. TierWeight(i) \in {8, 12, 16}
  BY DEF TierWeight
<1>2. ASSUME NEW w \in {8, 12, 16} PROVE w \div 4 \in Nat /\ w \div 1 \in Nat
  BY NumbersStay
<1> QED
  BY <1>1, <1>2 DEF Weight

\* What a list adds to the score of a row is a number.
LEMMA ContributionIsNumber ==
  ASSUME NEW s, IsList(s), NEW i PROVE Contribution(s, i) \in Nat
<1>1. RrfK \in Nat /\ Weight(i) \in Nat
  BY WeightIsNumber, SearchAssumption
<1>2. Place(s, i) \in Nat
  BY PlacesAreTaken DEF Place
<1>3. Unit \in Nat
  <2> DEFINE a == RrfK + 1
             b == RrfK + 2
             c == RrfK + 3
             d == RrfK + 4
  <2>1. a \in Nat /\ b \in Nat /\ c \in Nat /\ d \in Nat
    BY <1>1
  <2> HIDE DEF a, b, c, d
  <2>2. ((a * b) * c) * d \in Nat
    BY <2>1, NumbersStay
  <2>3. (((a * b) * c) * d) \div 2 \in Nat
    BY <2>2, NumbersStay
  <2> QED
    BY <2>3 DEF Unit, a, b, c, d
<1>4. ASSUME Place(s, i) # 0 PROVE Unit \div (RrfK + Place(s, i)) \in Nat
  <2>1. RrfK + Place(s, i) \in Nat \ {0}
    BY <1>1, <1>2, <1>4
  <2> QED
    BY <1>3, <2>1, NumbersStay
<1>5. ASSUME Place(s, i) # 0 PROVE Weight(i) * (Unit \div (RrfK + Place(s, i))) \in Nat
  BY <1>1, <1>4, <1>5, NumbersStay
<1> QED
  BY <1>1, <1>5 DEF Contribution

\* So is the score of all lists together.
LEMMA FusedIsNumber == ASSUME AllAreLists, NEW i PROVE Fused(i) \in Nat
<1>1. IsList(Only(page.list, Points)) /\ IsList(Only(page.list, Facts)) /\ IsList(Only(page.list, Events))
  BY OnlyIsList DEF AllAreLists
<1> DEFINE a == Contribution(Only(page.list, Points), i)
           b == Contribution(Only(page.list, Facts), i)
           c == Contribution(Only(page.list, Events), i)
           d == Contribution(page.curated, i)
           e == Contribution(page.lexical, i)
<1>2. a \in Nat /\ b \in Nat /\ c \in Nat /\ d \in Nat /\ e \in Nat
  BY <1>1, ContributionIsNumber DEF AllAreLists
<1> HIDE DEF a, b, c, d, e
<1>3. a + b + c + d + e \in Nat
  BY <1>2
<1> QED
  BY <1>3 DEF Fused, a, b, c, d, e

\* finalize ranks any candidates: its order is total, whatever the scores are.
LEMMA RankedIsList ==
  ASSUME AllAreLists, NEW S \in SUBSET Ids
  PROVE  IsList(Ranked(S)) /\ Elements(Ranked(S)) = S
<1> DEFINE upTo == [i \in S |-> {j \in S : j = i \/ Ahead(j, i)}]
           f == [i \in S |-> Fused(i)]
<1>0. IsFiniteSet(S) /\ S \subseteq Int
  <2>1. IsFiniteSet(Ids) /\ Ids \subseteq Nat
    BY IdsAre
  <2>2. IsFiniteSet(S)
    BY <2>1, FS_Subset
  <2> QED
    BY <2>1, <2>2
<1>1. \A i \in S : f[i] \in Nat /\ f[i] = Fused(i)
  BY FusedIsNumber
<1> HIDE DEF f
<1>2. \A i, j \in S : Ahead(i, j) <=> \/ f[i] > f[j]
                                      \/ /\ f[i] = f[j]
                                         /\ \/ i \in Points /\ j \notin Points
                                            \/ (i \in Points <=> j \in Points) /\ i < j
  BY <1>1 DEF Ahead
<1>3. upTo \in [S -> SUBSET S] /\ \A i, j \in S : j \in upTo[i] <=> j = i \/ Ahead(j, i)
  OBVIOUS
<1>4. \A i, j \in S : i # j => Ahead(i, j) \/ Ahead(j, i)
  BY <1>0, <1>1, <1>2
<1>5. \A i, j \in S : Ahead(i, j) => i # j /\ ~Ahead(j, i)
  BY <1>0, <1>1, <1>2
<1>6. \A i, j, k \in S : Ahead(i, j) /\ Ahead(j, k) => Ahead(i, k)
  BY <1>0, <1>1, <1>2
<1> HIDE DEF upTo
<1>7. ASSUME NEW i \in S, NEW j \in S, Ahead(i, j) PROVE j \notin upTo[i] /\ upTo[i] \subseteq upTo[j]
  <2>1. j \notin upTo[i]
    BY <1>3, <1>5, <1>7
  <2>2. \A k \in S : k \in upTo[i] => k \in upTo[j]
    BY <1>3, <1>6, <1>7
  <2> QED
    BY <1>3, <2>1, <2>2
<1>8. [i \in S |-> Cardinality(upTo[i])] \in Lists(S)
  <2>1. \A i \in S : i \in upTo[i]
    BY <1>3
  <2> QED
    BY <1>0, <1>3, <1>4, <1>7, <2>1, CountsArePlaces
<1>9. ASSUME NEW i \in S PROVE Cardinality(upTo[i]) = 1 + Cardinality({j \in S : Ahead(j, i)})
  <2> DEFINE ahead == {j \in S : Ahead(j, i)}
  <2>1. IsFiniteSet(ahead) /\ Cardinality(ahead) \in Nat
    BY <1>0, FS_Subset, FS_CardinalityType
  <2>2. i \notin ahead /\ upTo[i] = ahead \cup {i}
    <3>1. i \notin ahead
      BY <1>5
    <3>2. \A j \in S : j \in upTo[i] <=> j \in ahead \cup {i}
      BY <1>3
    <3>3. upTo[i] \subseteq S /\ ahead \cup {i} \subseteq S
      BY <1>3
    <3> QED
      BY <3>1, <3>2, <3>3
  <2> HIDE DEF ahead
  <2>3. Cardinality(ahead \cup {i}) = Cardinality(ahead) + 1
    BY <2>1, <2>2, FS_AddElement
  <2> QED
    BY <2>1, <2>2, <2>3 DEF ahead
<1>10. Ranked(S) = [i \in S |-> Cardinality(upTo[i])]
  BY <1>9 DEF Ranked
<1> QED
  BY <1>0, <1>8, <1>10 DEF IsList, Elements

-----------------------------------------------------------------------------
(* What holds between two calls *)

PageFields == {"list", "curated", "lexical", "threshold", "authors", "facts", "events", "seed"}
Course(kind) ==
  CASE kind = "search" -> Calls \ {"vector", "seed", "near", "get"}
    [] kind = "related" -> {"vector", "seed", "near", "authors", "merge", "done"}
    [] OTHER -> {"get", "done"}

\* Every list is of ids of its kind, none that was deleted before the request came.
Fit(ids, S) == ids \subseteq S /\ (req.kind # "get" => ids \cap dead = {})
FitPage(p) ==
  /\ DOMAIN p = PageFields
  /\ IsList(p.list) /\ IsList(p.curated) /\ IsList(p.lexical) /\ IsList(p.facts) /\ IsList(p.events)
  /\ Fit(Elements(p.list), Ids)
  /\ Fit(Elements(p.curated), Points) /\ Fit(Elements(p.lexical), Points)
  /\ Fit(Elements(p.facts), Facts) /\ Fit(Elements(p.events), Events)
FitReply(r) ==
  /\ DOMAIN r = {"kind", "hits", "copies", "degraded"} /\ r.kind \in {"none", "hits", "error"}
  /\ Fit(Elements(r.hits), Ids) /\ Fit(r.copies, Ids)
  /\ Cardinality(Elements(r.hits)) \in Nat /\ Cardinality(Elements(r.hits)) <= req.limit

Base ==
  /\ Stored /\ req \in AnyRequest /\ at \in Course(req.kind)
  /\ faults \in Nat /\ writes \in Nat /\ faults + writes <= MaxTroubles
  /\ FitPage(page) /\ FitReply(reply) /\ dead \subseteq Ids \ Live
  /\ IF at = "done" THEN page = NoPage ELSE reply.hits = NoList

\* One point of each text.
Single(S) == \A p, q \in S \cap Points : memory[p].text = memory[q].text => p = q
NotOfSeed(S) == req.kind = "related" /\ faults = 0 => \A p \in S : memory[p].text # memory[req.id].text
OneEach ==
  /\ at \in {"rerank", "fuse"} => Single(Elements(page.list))
  /\ Single(Shown)
  /\ at = "near" /\ faults = 0 => page.seed = memory[req.id].text
  /\ at \in {"authors", "merge"} => NotOfSeed(Elements(page.list))
  /\ NotOfSeed(Shown)

\* What ShortPageIsAll asks of the request.
Quiet ==
  /\ req.kind = "search" /\ ~req.filtered /\ ~req.tagged /\ faults = 0 /\ writes = 0
  /\ \A t \in Texts : Cardinality({p \in Points \cap Live : memory[p].text = t}) <= KnowledgeOverfetch

\* Every live text is among S, or there are texts enough to fill a page; every live
\* row of a kind is among S, or S fills a page by itself.
Covered(S) == \A p \in Points \cap Live : \E q \in S \cap Points : memory[q].text = memory[p].text
TextsOf(S) == {memory[p].text : p \in S \cap Points}
Reached(S) == Points \subseteq req.wants => Covered(S) \/ Cardinality(TextsOf(S)) >= req.limit
Held(S, kind) ==
  Wants(kind) => S \subseteq Live /\ (kind \cap Live \subseteq S \/ Cardinality(S) >= req.limit)
ShowsAll(S) == (Facts \cup Events) \cap Live \cap req.wants \subseteq S /\ (Points \subseteq req.wants => Covered(S))
Enough(S) == ShowsAll(S) \/ Cardinality(S) >= req.limit

Complete ==
  Quiet =>
    /\ at \in {"curated", "lexical", "authors", "text", "facts", "events", "merge"} => Reached(Elements(page.list))
    /\ at \in {"facts", "events", "merge"} =>
         Held(Elements(page.facts), Facts) /\ Held(Elements(page.events), Events)
    /\ at \in {"rerank", "fuse"} => Enough(Elements(page.list))
    /\ at = "done" /\ reply.kind = "hits" => Enough(Shown)

IInv == Base /\ OneEach /\ Complete

-----------------------------------------------------------------------------
(* The calls, one by one: what their lists hold *)

\* The page and the reply that a request begins with hold nothing.
LEMMA NothingFits == FitPage(NoPage) /\ NoReply.hits = NoList /\ (req.limit \in Nat => FitReply(NoReply))
<1>1. IsList(NoList) /\ Elements(NoList) = {}
  BY NoListIsList
<1>2. Cardinality({}) = 0
  BY FS_EmptySet
<1>3. FitPage(NoPage)
  BY <1>1 DEF FitPage, NoPage, PageFields, Fit
<1> QED
  BY <1>1, <1>2, <1>3 DEF FitReply, NoReply, Fit

\* What a request may be.
LEMMA RequestIs ==
  ASSUME req \in AnyRequest
  PROVE  /\ req.kind \in {"search", "related", "get"} /\ req.limit \in 1..50 /\ req.id \in Ids
         /\ req.filtered \in BOOLEAN /\ req.tagged \in BOOLEAN /\ req.wants \subseteq Ids
         /\ req.kind # "search" => ~req.tolerant
BY DEF AnyRequest, FromRest, FromTool, OfNeighbours, OfOne, Ask, MaxTopK

\* A call that leaves the answer to later ones.
LEMMA Moved ==
  ASSUME Base, at # "done", NEW call \in Course(req.kind) \ {"done"}, NEW p, FitPage(p), at' = call, page' = p,
         UNCHANGED <<memory, req, writes, dead>>, reply' = reply \/ (FitReply(reply') /\ reply'.hits = NoList),
         faults' = faults \/ (faults + writes < MaxTroubles /\ faults' = faults + 1)
  PROVE  Base'
<1>1. faults \in Nat /\ writes \in Nat /\ faults + writes <= MaxTroubles /\ MaxTroubles \in Nat
  BY SearchAssumption DEF Base
<1>2. faults' \in Nat /\ writes' \in Nat /\ faults' + writes' <= MaxTroubles
  BY <1>1
<1>3. Stored' /\ req' \in AnyRequest /\ at' \in Course(req'.kind) /\ (dead \subseteq Ids \ Live)'
  BY DEF Base, Stored, Live
<1>4. FitReply(reply') /\ reply'.hits = NoList
  BY DEF Base
<1>5. FitPage(page)' /\ FitReply(reply)'
  BY <1>4 DEF FitPage, FitReply, Fit
<1> QED
  BY <1>2, <1>3, <1>4, <1>5 DEF Base

\* A call with which the request is over.
LEMMA Ended ==
  ASSUME Base, NEW r, FitReply(r), at' = "done", page' = NoPage, reply' = r,
         UNCHANGED <<memory, req, writes, dead>>,
         faults' = faults \/ (faults + writes < MaxTroubles /\ faults' = faults + 1)
  PROVE  Base'
<1>1. faults \in Nat /\ writes \in Nat /\ faults + writes <= MaxTroubles /\ MaxTroubles \in Nat
  BY SearchAssumption DEF Base
<1>2. faults' \in Nat /\ writes' \in Nat /\ faults' + writes' <= MaxTroubles
  BY <1>1
<1>3. Stored' /\ req' \in AnyRequest /\ at' \in Course(req'.kind) /\ (dead \subseteq Ids \ Live)'
  BY DEF Base, Stored, Live, Course, Calls
<1>4. FitPage(page)' /\ FitReply(reply)'
  BY NothingFits DEF Base, FitPage, FitReply, Fit
<1> QED
  BY <1>2, <1>3, <1>4 DEF Base

\* A source that does not answer.
LEMMA FailureMoves ==
  ASSUME Base, at # "done", NEW source \in {"knowledge", "text"},
         NEW call \in Course("search") \ {"done"}, SourceFails(source, call)
  PROVE  Base'
<1>1. UNCHANGED <<memory, req, writes, dead>> /\ faults + writes < MaxTroubles /\ faults' = faults + 1
  BY DEF SourceFails
<1>2. CASE ~(req.tolerant /\ req.kind = "search")
  <2>1. at' = "done" /\ page' = NoPage /\ reply' = [NoReply EXCEPT !.kind = "error"]
    BY <1>2 DEF SourceFails
  <2>2. FitReply(NoReply)
    BY NothingFits, RequestIs DEF Base
  <2>3. FitReply([NoReply EXCEPT !.kind = "error"])
    BY <2>2 DEF FitReply, NoReply
  <2> QED
    BY <1>1, <2>1, <2>3, Ended
<1>3. CASE req.tolerant /\ req.kind = "search"
  <2> DEFINE without == IF source = "knowledge" THEN NoPage ELSE [page EXCEPT !.facts = NoList, !.events = NoList]
             told == [reply EXCEPT !.degraded = TRUE]
  <2>1. at' = call /\ page' = without /\ reply' = told
    BY <1>3 DEF SourceFails
  <2>2. FitPage(without)
    <3>1. FitPage([page EXCEPT !.facts = NoList, !.events = NoList])
      BY NoListIsList DEF Base, FitPage, Fit, PageFields
    <3> QED
      BY <3>1, NothingFits
  <2>3. FitReply(told) /\ told.hits = NoList
    BY DEF Base, FitReply
  <2> QED
    BY <1>1, <1>3, <2>1, <2>2, <2>3, Moved
<1> QED
  BY <1>2, <1>3

\* Which request makes which call.
LEMMA CourseIs ==
  ASSUME Base
  PROVE  /\ at \in {"embed", "global", "untagged", "curated", "lexical", "text", "facts", "events", "rerank", "fuse"}
              => req.kind = "search"
         /\ at \in {"vector", "seed", "near"} => req.kind = "related"
         /\ at = "get" => req.kind = "get"
         /\ at \in {"authors", "merge"} => req.kind \in {"search", "related"}
<1>1. req.kind \in {"search", "related", "get"} /\ at \in Course(req.kind)
  BY RequestIs DEF Base
<1> QED
  BY <1>1 DEF Course, Calls

\* The calls that a request may be at before it is done.
LEMMA CoursesAre ==
  /\ {"global", "untagged", "curated", "lexical", "authors", "text", "facts", "events", "merge", "rerank", "fuse"}
       \subseteq Course("search") \ {"done"}
  /\ {"seed", "near", "authors", "merge"} \subseteq Course("related") \ {"done"}
  /\ TextCall \in Course("search") \ {"done"}
BY DEF Course, Calls, TextCall

\* What the lists of a request are made of fits it.
LEMMA FitsAre ==
  ASSUME Base, NEW S
  PROVE  /\ \A ids : Fit(ids, S) => \A more \in SUBSET ids : Fit(more, S)
         /\ \A ids : ids \subseteq S \cap Live => Fit(ids, S)
         /\ \A ids, others : Fit(ids, S) /\ Fit(others, S) => Fit(ids \cup others, S)
         /\ \A ids : Fit(ids, S) => \A T : S \subseteq T => Fit(ids, T)
BY DEF Base, Fit

\* Dropping rows of a list keeps it a list, of the same kind.
LEMMA OnlyFits ==
  ASSUME Base, NEW s, IsList(s), NEW S, Fit(Elements(s), S), NEW T
  PROVE  IsList(Only(s, T)) /\ Fit(Elements(Only(s, T)), S)
<1>1. IsList(Only(s, T)) /\ Elements(Only(s, T)) = Elements(s) \cap T
  BY OnlyIsList
<1> QED
  BY <1>1 DEF Fit

\* What a vector search brings is a list of live points.
LEMMA NearestFits ==
  ASSUME Base, NEW S \in SUBSET (Points \cap Live), NEW n \in Nat, NEW s \in Nearest(S, n)
  PROVE  IsList(s) /\ Fit(Elements(s), Points) /\ Fit(Elements(s), Ids)
<1>1. IsFiniteSet(S)
  <2>1. S \subseteq Ids /\ IsFiniteSet(Ids)
    BY IdsAre
  <2> QED
    BY <2>1, FS_Subset
<1>2. IsList(s) /\ Elements(s) \subseteq S
  BY <1>1, NearestIsList
<1>3. Fit(Elements(s), Points)
  BY <1>2, FitsAre
<1> QED
  BY <1>2, <1>3, FitsAre, IdsAre

\* A list that is cut stays one, of the same kind.
LEMMA TakeFits ==
  ASSUME Base, NEW s, IsList(s), NEW S, Fit(Elements(s), S), NEW n \in Nat
  PROVE  IsList(Take(s, n)) /\ Fit(Elements(Take(s, n)), S)
BY OnlyFits DEF Take

\* Two lists of a kind appended are a list of that kind.
LEMMA ThenFits ==
  ASSUME Base, NEW s, IsList(s), NEW t, IsList(t), NEW S, Fit(Elements(s), S), Fit(Elements(t), S)
  PROVE  IsList(Then(s, t)) /\ Fit(Elements(Then(s, t)), S)
<1>1. IsList(Then(s, t)) /\ Elements(Then(s, t)) = Elements(s) \cup Elements(t)
  BY ThenIsList
<1> QED
  BY <1>1 DEF Fit

\* What a text search brings is a list of live rows.
LEMMA TextedFits ==
  ASSUME Base, NEW S, S \subseteq Ids PROVE IsList(Texted(S \cap Live)) /\ Fit(Elements(Texted(S \cap Live)), S)
<1>1. S \cap Live \subseteq Nat /\ S \cap Live \subseteq Ids /\ IsFiniteSet(Ids)
  BY IdsAre
<1>2. IsFiniteSet(S \cap Live)
  BY <1>1, FS_Subset
<1>3. IsList(Texted(S \cap Live)) /\ Elements(Texted(S \cap Live)) = S \cap Live
  BY <1>1, <1>2, TextedIsList
<1> QED
  BY <1>3, FitsAre

\* A page of which one or two lists are others.
LEMMA PageWith ==
  ASSUME Base, NEW l, IsList(l), Fit(Elements(l), Ids), NEW c, IsList(c), Fit(Elements(c), Points),
         NEW w, IsList(w), Fit(Elements(w), Points), NEW f, IsList(f), Fit(Elements(f), Facts),
         NEW e, IsList(e), Fit(Elements(e), Events), NEW x
  PROVE  /\ FitPage([page EXCEPT !.list = l]) /\ FitPage([page EXCEPT !.threshold = x, !.curated = c])
         /\ FitPage([page EXCEPT !.list = l, !.lexical = w]) /\ FitPage([page EXCEPT !.authors = x])
         /\ FitPage([page EXCEPT !.facts = f, !.events = e]) /\ FitPage([page EXCEPT !.facts = f])
         /\ FitPage([page EXCEPT !.events = e]) /\ FitPage([page EXCEPT !.seed = x])
         /\ FitPage([page EXCEPT !.list = l, !.curated = c, !.lexical = w])
<1>1. FitPage(page)
  BY DEF Base
<1> QED
  BY <1>1 DEF FitPage, PageFields

\* A failed call empties lists of the page, or ends the request.
LEMMA FailuresKeepBase == ASSUME Base, at # "done", KnowledgeFails \/ TextFails PROVE Base'
<1>1. "merge" \in Course("search") \ {"done"} /\ TextCall \in Course("search") \ {"done"}
  BY CoursesAre
<1> QED
  BY <1>1, FailureMoves DEF KnowledgeFails, TextFails

\* A call that only moves on, or changes the page.
LEMMA GotoKeepsBase ==
  ASSUME Base, at # "done", NEW call \in Course(req.kind) \ {"done"}, NEW p, FitPage(p), Goto(call, p)
  PROVE  Base'
BY Moved DEF Goto

\* As the page is, it fits.
LEMMA PageFits == ASSUME Base PROVE /\ FitPage(page) /\ AllAreLists /\ req.limit \in Nat /\ at \in Calls
                                    /\ Fit(Elements(page.list), Ids) /\ Fit(Elements(page.curated), Points)
                                    /\ Fit(Elements(page.lexical), Points) /\ Fit(Elements(page.facts), Facts)
                                    /\ Fit(Elements(page.events), Events)
<1>1. req.limit \in Nat
  BY RequestIs DEF Base
<1>2. at \in Calls
  BY RequestIs DEF Base, Course, Calls
<1> QED
  BY <1>1, <1>2 DEF Base, FitPage, AllAreLists

\* The call whose only effect is that it failed.
LEMMA FaultOnly ==
  ASSUME Base, at # "done", NEW call \in Course(req.kind) \ {"done"}, at' = call, page' = page,
         faults + writes < MaxTroubles, faults' = faults + 1, UNCHANGED <<memory, req, reply, writes, dead>>
  PROVE  Base'
BY PageFits, Moved

\* The page of the global arm, tagged or not.
LEMMA GlobalPageFits ==
  ASSUME Base, NEW S \in SUBSET (Points \cap Live), NEW s \in Nearest(S, Overfetched * req.limit)
  PROVE  FitPage([page EXCEPT !.list = Take(Keep(s, Passes), KnowledgeOverfetch * req.limit)])
<1>1. req.limit \in Nat /\ Overfetched \in Nat /\ KnowledgeOverfetch \in Nat
  BY PageFits DEF Overfetched, KnowledgeOverfetch, FilterOverfetch
<1>2. Overfetched * req.limit \in Nat /\ KnowledgeOverfetch * req.limit \in Nat
  BY <1>1, NumbersStay
<1>3. IsList(s) /\ Fit(Elements(s), Ids)
  BY <1>2, NearestFits
<1>4. IsList(Keep(s, Passes)) /\ Fit(Elements(Keep(s, Passes)), Ids)
  BY <1>3, OnlyFits DEF Keep
<1>5. LET l == Take(Keep(s, Passes), KnowledgeOverfetch * req.limit) IN IsList(l) /\ Fit(Elements(l), Ids)
  BY <1>2, <1>4, TakeFits
<1> QED
  BY <1>5, PageFits, PageWith, NoListIsList DEF AllAreLists

\* The global recall puts a list of live points on the page.
LEMMA GlobalKeepsBase == ASSUME Base, Global \/ GlobalUntagged PROVE Base'
<1>1. at # "done" /\ {"curated", "untagged"} \subseteq Course(req.kind) \ {"done"}
  BY CourseIs, CoursesAre DEF Global, GlobalUntagged
<1>2. ASSUME NEW S \in SUBSET (Points \cap Live), NEW s \in Nearest(S, Overfetched * req.limit),
             Goto("curated", [page EXCEPT !.list = Take(Keep(s, Passes), KnowledgeOverfetch * req.limit)])
      PROVE  Base'
  BY <1>1, <1>2, GlobalPageFits, GotoKeepsBase
<1>3. CASE KnowledgeFails
  BY <1>1, <1>3, FailuresKeepBase
<1>4. CASE /\ faults + writes < MaxTroubles /\ faults' = faults + 1 /\ at' = "untagged"
           /\ UNCHANGED <<memory, req, page, reply, writes, failed, dead>>
  BY <1>1, <1>4, FaultOnly
<1>5. CASE Global
  BY <1>2, <1>3, <1>4, <1>5 DEF Global
<1>6. CASE GlobalUntagged
  BY <1>2, <1>3, <1>6 DEF GlobalUntagged
<1> QED
  BY <1>5, <1>6

\* The curated band is a list of live points.
LEMMA CuratedKeepsBase == ASSUME Base, CuratedSearch PROVE Base'
<1>1. at # "done" /\ "lexical" \in Course(req.kind) \ {"done"}
  BY CourseIs, CoursesAre DEF CuratedSearch
<1>2. ASSUME NEW s \in Nearest(Curated, req.limit),
             LET all == Keep(s, Passes)
                 bar == Threshold(Elements(page.list) \cup Elements(all)) IN
             Goto("lexical", [page EXCEPT !.threshold = bar, !.curated = Keep(all, LAMBDA p : 100 * Raw(p) >= bar)])
      PROVE  Base'
  <2> DEFINE bar == Threshold(Elements(page.list) \cup Elements(Keep(s, Passes)))
  <2>1. IsList(s) /\ Fit(Elements(s), Points)
    <3>1. Curated \in SUBSET (Points \cap Live)
      BY DEF Curated
    <3> QED
      BY <3>1, PageFits, NearestFits
  <2>2. IsList(Keep(s, Passes)) /\ Fit(Elements(Keep(s, Passes)), Points)
    BY <2>1, OnlyFits DEF Keep
  <2> DEFINE c == Keep(Keep(s, Passes), LAMBDA p : 100 * Raw(p) >= bar)
  <2>3. IsList(c) /\ Fit(Elements(c), Points)
    <3> DEFINE t == Keep(s, Passes)
    <3>1. IsList(t) /\ Fit(Elements(t), Points)
      BY <2>2
    <3> HIDE DEF t
    <3>2. IsList(Keep(t, LAMBDA p : 100 * Raw(p) >= bar)) /\ Fit(Elements(Keep(t, LAMBDA p : 100 * Raw(p) >= bar)), Points)
      BY <3>1, OnlyFits DEF Keep
    <3> QED
      BY <3>2 DEF t
  <2> HIDE DEF c, bar
  <2>4. FitPage([page EXCEPT !.threshold = bar, !.curated = c])
    BY <2>3, PageFits, PageWith DEF AllAreLists
  <2> QED
    BY <1>1, <1>2, <2>4, GotoKeepsBase DEF c, bar
<1>3. CASE KnowledgeFails
  BY <1>1, <1>3, FailuresKeepBase
<1> QED
  BY <1>2, <1>3 DEF CuratedSearch

\* The recall, the band and what the words of the query bring are one list.
LEMMA LexicalKeepsBase == ASSUME Base, LexicalSearch PROVE Base'
<1>1. at # "done" /\ "authors" \in Course(req.kind) \ {"done"}
  BY CourseIs, CoursesAre DEF LexicalSearch
<1>2. ASSUME NEW s \in Nearest({p \in Points \cap Live : memory[p].text \in Lexical}, req.limit),
             Goto("authors", [page EXCEPT !.list = Then(Then(page.list, page.curated), Keep(s, Passes)),
                                          !.lexical = Keep(s, Passes)])
      PROVE  Base'
  <2> DEFINE words == Keep(s, Passes)
             l == Then(Then(page.list, page.curated), words)
  <2>1. IsList(s) /\ Fit(Elements(s), Points)
    <3> DEFINE S == {p \in Points \cap Live : memory[p].text \in Lexical}
    <3>1. S \in SUBSET (Points \cap Live)
      OBVIOUS
    <3>2. s \in Nearest(S, req.limit)
      BY <1>2
    <3> HIDE DEF S
    <3> QED
      BY <3>1, <3>2, PageFits, NearestFits
  <2>2. IsList(words) /\ Fit(Elements(words), Points) /\ Fit(Elements(words), Ids)
    <3>1. IsList(words) /\ Fit(Elements(words), Points)
      BY <2>1, OnlyFits DEF Keep
    <3> QED
      BY <3>1, FitsAre, IdsAre
  <2>3. Fit(Elements(page.curated), Ids) /\ Fit(Elements(page.list), Ids) /\ IsList(page.list) /\ IsList(page.curated)
    BY PageFits, FitsAre, IdsAre DEF AllAreLists
  <2> HIDE DEF words
  <2>4. IsList(l) /\ Fit(Elements(l), Ids)
    <3>1. IsList(Then(page.list, page.curated)) /\ Fit(Elements(Then(page.list, page.curated)), Ids)
      BY <2>3, ThenFits
    <3> QED
      BY <2>2, <3>1, ThenFits
  <2> HIDE DEF l
  <2>5. FitPage([page EXCEPT !.list = l, !.lexical = words])
    BY <2>2, <2>4, PageFits, PageWith DEF AllAreLists
  <2> QED
    BY <1>1, <1>2, <2>5, GotoKeepsBase DEF l, words
<1>3. CASE KnowledgeFails
  BY <1>1, <1>3, FailuresKeepBase
<1> QED
  BY <1>2, <1>3 DEF LexicalSearch

\* Looking up the names of authors changes no list.
LEMMA AuthorsKeepsBase == ASSUME Base, Authors PROVE Base'
<1> DEFINE call == IF req.kind = "search" THEN TextCall ELSE "merge"
<1>1. at # "done" /\ call \in Course(req.kind) \ {"done"}
  BY CourseIs, CoursesAre DEF Authors
<1>2. FitPage(page) /\ FitPage([page EXCEPT !.authors = FALSE])
  <2>1. FitPage(page)
    BY PageFits
  <2> QED
    BY <2>1 DEF FitPage, PageFields
<1> HIDE DEF call
<1>3. CASE Goto(call, page)
  BY <1>1, <1>2, <1>3, GotoKeepsBase
<1>4. CASE /\ faults + writes < MaxTroubles /\ faults' = faults + 1 /\ at' = call
           /\ page' = [page EXCEPT !.authors = FALSE] /\ UNCHANGED <<memory, req, reply, writes, failed, dead>>
  BY <1>1, <1>2, <1>4, Moved
<1> QED
  BY <1>3, <1>4 DEF Authors, call

\* The text recall brings facts and events.
LEMMA TextKeepsBase == ASSUME Base, SearchText PROVE Base'
<1> DEFINE n == IF req.filtered \/ req.tagged THEN FilterOverfetch * req.limit ELSE req.limit
           f == Take(Texted(Facts \cap Live), n)
           e == Take(Texted(Events \cap Live), n)
<1>1. at # "done" /\ "facts" \in Course(req.kind) \ {"done"}
  BY CourseIs, CoursesAre DEF SearchText
<1>2. n \in Nat
  BY PageFits, NumbersStay DEF FilterOverfetch
<1> HIDE DEF n
<1>3. IsList(f) /\ Fit(Elements(f), Facts) /\ IsList(e) /\ Fit(Elements(e), Events)
  BY <1>2, IdsAre, TextedFits, TakeFits
<1>4. SearchText <=> at = "text" /\ (Goto("facts", [page EXCEPT !.facts = f, !.events = e]) \/ TextFails)
  BY DEF SearchText, n
<1> HIDE DEF f, e
<1>5. FitPage([page EXCEPT !.facts = f, !.events = e])
  BY <1>3, PageFits, PageWith DEF AllAreLists
<1> QED
  BY <1>1, <1>4, <1>5, GotoKeepsBase, FailuresKeepBase

\* A fetch drops what it does not find, and keeps the order.
LEMMA FetchedFits ==
  ASSUME Base, NEW s, IsList(s), NEW S, Fit(Elements(s), S), NEW kind
  PROVE  IsList(Fetched(s, kind)) /\ Fit(Elements(Fetched(s, kind)), S)
<1> DEFINE t == Keep(s, LAMBDA i : i \in Live /\ Passes(i))
<1>1. IsList(t) /\ Fit(Elements(t), S)
  BY OnlyFits DEF Keep
<1>2. Fetched(s, kind) = IF Wants(kind) THEN Take(t, req.limit) ELSE NoList
  BY DEF Fetched
<1> HIDE DEF t
<1>3. IsList(Take(t, req.limit)) /\ Fit(Elements(Take(t, req.limit)), S)
  BY <1>1, PageFits, TakeFits
<1>4. IsList(NoList) /\ Fit(Elements(NoList), S)
  BY NoListIsList DEF Fit
<1> QED
  BY <1>2, <1>3, <1>4

\* The fetches of facts and events do no more than that.
LEMMA FetchesKeepBase == ASSUME Base, FetchFacts \/ FetchEvents PROVE Base'
<1>1. at # "done" /\ "merge" \in Course(req.kind) \ {"done"} /\ (FetchFacts => "events" \in Course(req.kind) \ {"done"})
  BY CourseIs, CoursesAre DEF FetchFacts, FetchEvents
<1> DEFINE f == Fetched(page.facts, Facts)
           e == Fetched(page.events, Events)
<1>2. IsList(f) /\ Fit(Elements(f), Facts) /\ IsList(e) /\ Fit(Elements(e), Events)
  BY PageFits, FetchedFits DEF AllAreLists
<1> HIDE DEF f, e
<1>3. FitPage([page EXCEPT !.facts = f]) /\ FitPage([page EXCEPT !.events = e])
  BY <1>2, PageFits, PageWith DEF AllAreLists
<1>4. CASE FetchFacts
  BY <1>1, <1>3, <1>4, GotoKeepsBase, FailuresKeepBase DEF FetchFacts, f
<1>5. CASE FetchEvents
  BY <1>1, <1>3, <1>5, GotoKeepsBase, FailuresKeepBase DEF FetchEvents, e
<1> QED
  BY <1>4, <1>5

\* What Merge starts from, and what it leaves.
Candidates == Keep(Then(Then(page.list, page.facts), page.events), HasTags)

\* What is merged is a list of all that was fetched, and stays one without its doubles.
LEMMA CandidatesFit ==
  ASSUME Base
  PROVE  /\ IsList(Candidates) /\ Fit(Elements(Candidates), Ids)
         /\ IsList(Collapsed(Candidates)) /\ Elements(Collapsed(Candidates)) \subseteq Elements(Candidates)
         /\ Elements(Candidates) = {i \in Elements(page.list) \cup Elements(page.facts) \cup Elements(page.events) :
                                      HasTags(i)}
<1>1. /\ IsList(page.list) /\ IsList(page.facts) /\ IsList(page.events)
      /\ Fit(Elements(page.list), Ids) /\ Fit(Elements(page.facts), Ids) /\ Fit(Elements(page.events), Ids)
  BY PageFits, FitsAre, IdsAre DEF AllAreLists
<1> DEFINE a == Then(page.list, page.facts)
           b == Then(a, page.events)
<1>2. IsList(a) /\ Fit(Elements(a), Ids) /\ Elements(a) = Elements(page.list) \cup Elements(page.facts)
  BY <1>1, ThenFits, ThenIsList
<1> HIDE DEF a
<1>3. IsList(b) /\ Fit(Elements(b), Ids) /\ Elements(b) = Elements(a) \cup Elements(page.events)
  BY <1>1, <1>2, ThenFits, ThenIsList
<1> HIDE DEF b
<1>4. Candidates = Only(b, {i \in Elements(b) : HasTags(i)})
  BY DEF Candidates, Keep, a, b
<1>5. /\ IsList(Candidates) /\ Fit(Elements(Candidates), Ids)
      /\ Elements(Candidates) = Elements(b) \cap {i \in Elements(b) : HasTags(i)}
  BY <1>3, <1>4, OnlyFits, OnlyIsList
<1>6. IsList(Collapsed(Candidates)) /\ Elements(Collapsed(Candidates)) \subseteq Elements(Candidates)
  BY <1>5, OnlyIsList DEF Collapsed, Keep
<1> QED
  BY <1>2, <1>3, <1>5, <1>6

\* The merge makes one list of the three.
LEMMA MergeKeepsBase == ASSUME Base, Merge PROVE Base'
<1> DEFINE all == Candidates
           list == Collapsed(Candidates)
           c == Only(page.curated, Elements(list))
           w == Only(page.lexical, Elements(list))
           call == IF Window > 0 /\ Cardinality(Elements(list) \cap Points) > 1 THEN "rerank" ELSE "fuse"
           r == [reply EXCEPT !.copies = Elements(all) \ Elements(list)]
           p == [page EXCEPT !.list = list, !.curated = c, !.lexical = w]
<1>1. at = "merge" /\ req.kind = "search" /\ call \in Course(req.kind) \ {"done"}
  BY CoursesAre DEF Merge
<1>2. IsList(list) /\ Fit(Elements(list), Ids) /\ Fit(Elements(all) \ Elements(list), Ids)
  BY CandidatesFit, FitsAre
<1>3. IsList(c) /\ Fit(Elements(c), Points) /\ IsList(w) /\ Fit(Elements(w), Points)
  BY PageFits, OnlyFits DEF AllAreLists
<1>4. /\ at' = call /\ page' = p /\ reply' = r
      /\ UNCHANGED <<memory, req, faults, writes, dead>>
  <2>1. DOMAIN page = PageFields
    BY DEF Base, FitPage
  <2> QED
    BY <2>1 DEF Merge, Candidates, PageFields
<1> HIDE DEF all, list, c, w, call
<1>5. FitPage(p)
  BY <1>2, <1>3, PageFits, PageWith DEF AllAreLists
<1>6. FitReply(r) /\ r.hits = NoList
  <2>1. FitReply(reply) /\ reply.hits = NoList
    BY <1>1 DEF Base
  <2> QED
    BY <1>2, <2>1 DEF FitReply
<1> QED
  BY <1>1, <1>4, <1>5, <1>6, Moved

\* The order TEI gives, with what it was not shown behind.
LEMMA ShownFits ==
  ASSUME Base, NEW s \in Orders(Elements(Take(Only(page.list, Points), Window)))
  PROVE  LET order == Then(s, Only(page.list, Points)) IN
         /\ IsList(order) /\ Fit(Elements(order), Points)
         /\ Elements(order) = Elements(page.list) \cap Points
<1> DEFINE points == Only(page.list, Points)
           shown == Elements(Take(points, Window))
<1>1. IsList(page.list) /\ Fit(Elements(page.list), Ids)
  BY PageFits DEF AllAreLists
<1>2. IsList(points) /\ Elements(points) = Elements(page.list) \cap Points
  BY <1>1, OnlyIsList
<1>3. Fit(Elements(points), Points)
  BY <1>1, <1>2 DEF Fit
<1>4. s \in Lists(shown)
  BY DEF Orders
<1> HIDE DEF points
<1>5. Window \in Nat
  BY SearchAssumption
<1>6. IsFiniteSet(shown) /\ shown \subseteq Elements(points)
  BY <1>2, <1>5, TakeIsList DEF IsList
<1> HIDE DEF shown
<1>7. IsList(s) /\ Elements(s) = shown
  BY <1>4, <1>6, ListsAreLists
<1>8. Fit(Elements(s), Points)
  BY <1>3, <1>6, <1>7, FitsAre
<1>9. IsList(Then(s, points)) /\ Fit(Elements(Then(s, points)), Points) /\ Elements(Then(s, points)) = Elements(points)
  BY <1>2, <1>3, <1>6, <1>7, <1>8, ThenFits, ThenIsList
<1> QED
  BY <1>2, <1>9 DEF points

\* The reranker puts the list in another order.
LEMMA RerankKeepsBase == ASSUME Base, Rerank PROVE Base'
<1>1. at = "rerank" /\ "fuse" \in Course(req.kind) \ {"done"}
  BY CourseIs, CoursesAre DEF Rerank
<1>2. ASSUME NEW s \in Orders(Elements(Take(Only(page.list, Points), Window))),
             LET order == Then(s, Only(page.list, Points)) IN
             Goto("fuse", [page EXCEPT !.list = Then(order, page.list),
                             !.curated = ByPlace(page.curated, order), !.lexical = ByPlace(page.lexical, order)])
      PROVE  Base'
  <2> DEFINE order == Then(s, Only(page.list, Points))
             l == Then(order, page.list)
             c == ByPlace(page.curated, order)
             w == ByPlace(page.lexical, order)
  <2>1. IsList(order) /\ Fit(Elements(order), Points) /\ Fit(Elements(order), Ids)
    BY ShownFits, FitsAre, IdsAre
  <2> HIDE DEF order
  <2>2. IsList(l) /\ Fit(Elements(l), Ids)
    BY <2>1, PageFits, ThenFits DEF AllAreLists
  <2>3. IsList(c) /\ Fit(Elements(c), Points) /\ IsList(w) /\ Fit(Elements(w), Points)
    BY <2>1, OnlyFits DEF ByPlace
  <2> HIDE DEF l, c, w
  <2>4. FitPage([page EXCEPT !.list = l, !.curated = c, !.lexical = w])
    BY <2>2, <2>3, PageFits, PageWith DEF AllAreLists
  <2> QED
    BY <1>1, <1>2, <2>4, GotoKeepsBase DEF l, c, w, order
<1>3. CASE /\ faults + writes < MaxTroubles /\ faults' = faults + 1 /\ at' = "fuse"
           /\ UNCHANGED <<memory, req, page, reply, writes, failed, dead>>
  BY <1>1, <1>3, FaultOnly
<1> QED
  BY <1>2, <1>3 DEF Rerank

\* A page of hits.
LEMMA TakenFits ==
  ASSUME Base, NEW s, IsList(s), Fit(Elements(s), Ids), NEW r, FitReply(r), NEW kind \in {"none", "hits", "error"}
  PROVE  FitReply([r EXCEPT !.kind = kind, !.hits = Take(s, req.limit)])
<1>1. req.limit \in Nat
  BY PageFits
<1>2. LET t == Take(s, req.limit) IN
      Fit(Elements(t), Ids) /\ Cardinality(Elements(t)) \in Nat /\ Cardinality(Elements(t)) <= req.limit
  BY <1>1, TakeFits, TakeIsList
<1> QED
  BY <1>2 DEF FitReply

\* A reply that fits may be given.
LEMMA FinishKeepsBase == ASSUME Base, NEW r, FitReply(r), Finish(r) PROVE Base'
BY Ended DEF Finish

\* Fusion orders the list anew and cuts it to the limit.
LEMMA FuseKeepsBase == ASSUME Base, Fuse PROVE Base'
<1> DEFINE s == Ranked(Elements(page.list))
<1>1. IsList(s) /\ Fit(Elements(s), Ids)
  <2>1. Elements(page.list) \in SUBSET Ids
    BY PageFits DEF Fit
  <2> QED
    BY <2>1, PageFits, RankedIsList
<1>2. Finish([reply EXCEPT !.kind = "hits", !.hits = Take(s, req.limit)]) /\ FitReply(reply)
  BY DEF Fuse, Hits, Base
<1> HIDE DEF s
<1> QED
  BY <1>1, <1>2, TakenFits, FinishKeepsBase

\* The vector, the seed and its neighbours are read.
LEMMA NearKeepsBase == ASSUME Base, Vector \/ Seed \/ Near PROVE Base'
<1>1. at # "done" /\ {"seed", "near", "authors"} \subseteq Course(req.kind) \ {"done"}
  BY CourseIs, CoursesAre DEF Vector, Seed, Near
<1>2. CASE Vector
  BY <1>1, <1>2, PageFits, GotoKeepsBase, FailuresKeepBase DEF Vector
<1>3. CASE Seed
  <2>1. CASE Goto("near", [page EXCEPT !.seed = memory[req.id].text])
    <3>1. FitPage([page EXCEPT !.seed = memory[req.id].text])
      BY PageFits DEF FitPage, PageFields
    <3> QED
      BY <1>1, <2>1, <3>1, GotoKeepsBase
  <2>2. CASE /\ faults + writes < MaxTroubles /\ faults' = faults + 1 /\ at' = "near"
             /\ UNCHANGED <<memory, req, page, reply, writes, failed, dead>>
    BY <1>1, <2>2, FaultOnly
  <2> QED
    BY <1>3, <2>1, <2>2 DEF Seed
<1>4. CASE Near
  <2>1. ASSUME NEW s \in Nearest(Points \cap Live, KnowledgeOverfetch * (req.limit + 1)),
               Goto("authors", [page EXCEPT !.list =
                      Keep(s, LAMBDA p : p # req.id /\ memory[p].text # page.seed)])
        PROVE  Base'
    <3> DEFINE l == Keep(s, LAMBDA p : p # req.id /\ memory[p].text # page.seed)
    <3>1. KnowledgeOverfetch * (req.limit + 1) \in Nat
      BY PageFits DEF KnowledgeOverfetch
    <3>2. IsList(s) /\ Fit(Elements(s), Ids)
      BY <3>1, NearestFits
    <3>3. IsList(l) /\ Fit(Elements(l), Ids)
      BY <3>2, OnlyFits DEF Keep
    <3> HIDE DEF l
    <3>4. FitPage([page EXCEPT !.list = l])
      BY <3>3, PageFits, PageWith DEF AllAreLists
    <3> QED
      BY <1>1, <2>1, <3>4, GotoKeepsBase DEF l
  <2> QED
    BY <1>1, <1>4, <2>1, FailuresKeepBase DEF Near
<1> QED
  BY <1>2, <1>3, <1>4

\* The neighbours become the page of memory_related.
LEMMA NeighboursKeepBase == ASSUME Base, Neighbours PROVE Base'
<1> DEFINE s == Collapsed(page.list)
<1>1. IsList(s) /\ Fit(Elements(s), Ids)
  BY PageFits, OnlyFits DEF Collapsed, Keep, AllAreLists
<1>2. Finish([NoReply EXCEPT !.kind = "hits", !.hits = Take(s, req.limit)]) /\ FitReply(NoReply)
  BY NothingFits, PageFits DEF Neighbours
<1> HIDE DEF s
<1> QED
  BY <1>1, <1>2, TakenFits, FinishKeepsBase

\* memory_get brings one row or none.
LEMMA GetKeepsBase == ASSUME Base, Get PROVE Base'
<1>1. at = "get" /\ req.kind = "get" /\ req.id \in Ids /\ req.limit \in 1..50 /\ FitReply(NoReply)
  BY CourseIs, RequestIs, PageFits, NothingFits DEF Get, Base
<1> DEFINE one == [i \in {req.id} |-> 1]
           found == req.id \in Points \/ req.id \in Live
           r == [NoReply EXCEPT !.kind = IF found THEN "hits" ELSE "none", !.hits = IF found THEN one ELSE NoList]
<1>2. Cardinality(Elements(one)) = 1 /\ Elements(one) = {req.id}
  BY FS_Singleton DEF Elements
<1> HIDE DEF one
<1>3. Fit(Elements(one), Ids)
  BY <1>1, <1>2 DEF Fit
<1>4. Fit(Elements(NoList), Ids) /\ Cardinality(Elements(NoList)) = 0
  BY NoListIsList, FS_EmptySet DEF Fit
<1>5. FitReply(r)
  BY <1>1, <1>2, <1>3, <1>4 DEF FitReply
<1>6. CASE Finish(r)
  BY <1>5, <1>6, FinishKeepsBase
<1>7. CASE KnowledgeFails
  BY <1>1, <1>7, FailuresKeepBase
<1> QED
  BY <1>6, <1>7 DEF Get, one

\* What another client does to the store.
LEMMA WriteKeepsBase == ASSUME Base, Write PROVE Base' /\ \A i \in Ids : memory'[i].text = memory[i].text
<1>1. PICK i \in Points \cup Facts : memory' = [memory EXCEPT ![i].live = ~memory[i].live] /\ dead' = dead \ {i}
  BY DEF Write
<1>2. /\ faults + writes < MaxTroubles /\ writes' = writes + 1 /\ at # "done"
      /\ UNCHANGED <<req, at, page, reply, faults>> /\ i \in Ids
  BY IdsAre DEF Write
<1>3. faults' \in Nat /\ writes' \in Nat /\ faults' + writes' <= MaxTroubles
  BY <1>2, SearchAssumption DEF Base
<1>4. memory \in [Ids -> Rows] /\ \A p \in Points : memory[p].text \in Texts
  BY DEF Base, Stored
<1>5. /\ memory' \in [Ids -> Rows] /\ \A j \in Ids : memory'[j].text = memory[j].text
      /\ \A j \in Ids : j # i => memory'[j].live = memory[j].live
  BY <1>1, <1>2, <1>4 DEF Rows
<1>6. Stored'
  <2>1. Points \subseteq Ids
    BY IdsAre
  <2> QED
    BY <1>4, <1>5, <2>1 DEF Stored
<1>7. (dead \subseteq Ids \ Live)'
  BY <1>1, <1>5 DEF Base, Live
<1>8. FitPage(page)' /\ FitReply(reply)'
  BY <1>1, <1>2 DEF Base, FitPage, FitReply, Fit
<1> QED
  BY <1>2, <1>3, <1>5, <1>6, <1>7, <1>8 DEF Base

\* A request starts with nothing on its page.
LEMMA InitBase == Init => Base
<1> SUFFICES ASSUME Init PROVE Base
  OBVIOUS
<1>1. PICK held \in [Points -> Contents], deleted \in SUBSET Facts :
        memory = [i \in Ids |-> IF i \in Points THEN held[i] ELSE Row(i \notin deleted)]
  BY DEF Init
<1>2. Stored
  <2>1. \A c \in Contents : c \in Rows /\ c.text \in Texts
    BY SearchAssumption DEF Rows
  <2>2. \A live \in BOOLEAN : Row(live) \in Rows
    BY DEF Row, Rows
  <2>3. Points \subseteq Ids
    BY IdsAre
  <2> QED
    BY <1>1, <2>1, <2>2, <2>3 DEF Stored
<1>3. req \in AnyRequest
  BY SearchAssumption DEF Init
<1>4. at \in Course(req.kind) /\ at # "done"
  <2>1. CASE req.kind = "search"
    BY <2>1 DEF Init, FirstCall, Course, Calls
  <2>2. CASE req.kind # "search"
    BY <2>2 DEF Init, FirstCall, Course
  <2> QED
    BY <2>1, <2>2
<1>5. FitPage(page) /\ FitReply(reply) /\ reply.hits = NoList
  BY <1>3, NothingFits, RequestIs DEF Init
<1>6. dead \subseteq Ids \ Live /\ faults = 0 /\ writes = 0
  BY DEF Init, Live
<1>7. MaxTroubles \in Nat
  BY SearchAssumption
<1> QED
  BY <1>2, <1>3, <1>4, <1>5, <1>6, <1>7 DEF Base

\* Every call keeps the lists, and so does what others write.
LEMMA NextBase == Base /\ [Next]_vars => Base'
<1> SUFFICES ASSUME Base, [Next]_vars PROVE Base'
  OBVIOUS
<1>1. CASE Embed
  <2>1. at # "done" /\ "global" \in Course(req.kind) \ {"done"}
    BY <1>1, CourseIs, CoursesAre DEF Embed
  <2> QED
    BY <1>1, <2>1, PageFits, GotoKeepsBase, FailuresKeepBase DEF Embed
<1>2. CASE UNCHANGED vars
  BY <1>2 DEF vars, Base, Stored, FitPage, FitReply, Fit, Live
<1> QED
  BY <1>1, <1>2, GlobalKeepsBase, CuratedKeepsBase, LexicalKeepsBase, AuthorsKeepsBase, TextKeepsBase,
     FetchesKeepBase, MergeKeepsBase, RerankKeepsBase, FuseKeepsBase, NearKeepsBase, NeighboursKeepBase,
     GetKeepsBase, WriteKeepsBase
  DEF Next, Step

\* A search and a look for neighbours show no memory that was deleted before they came,
\* and name none as a copy, whoever writes meanwhile and whatever fails
\* (search_knowledge's filters, fetch_facts_with_authors).
THEOREM DeletedIsNotFound == Spec => []DeletedNotFound
<1>1. Base => DeletedNotFound
  BY DEF Base, FitReply, Fit, DeletedNotFound, Shown
<1> QED
  BY <1>1, InitBase, NextBase, PTL DEF Spec

\* What the lists of a request are of, and how long its page is (SearchParams, search).
THEOREM ListsAreTyped == Spec => []TypeOK
<1>1. Base => TypeOK
  BY PageFits DEF Base, FitReply, Fit, TypeOK, Shown
<1> QED
  BY <1>1, InitBase, NextBase, PTL DEF Spec

-----------------------------------------------------------------------------
(* One hit for each text *)

\* Of two hits of one text the later gives way.
LEMMA CollapsedIsSingle ==
  ASSUME NEW s, IsList(s)
  PROVE  Single(Elements(Collapsed(s))) /\ Elements(Collapsed(s)) \subseteq Elements(s)
<1>1. Elements(Collapsed(s)) = Elements(s) \cap {i \in Elements(s) : First(s, i)}
  BY OnlyIsList DEF Collapsed, Keep
<1>2. ASSUME NEW p \in Elements(s) \cap Points, NEW q \in Elements(s) \cap Points, First(s, p), First(s, q),
             memory[p].text = memory[q].text
      PROVE  p = q
  <2>1. ~ (s[p] < s[q]) /\ ~ (s[q] < s[p])
    BY <1>2 DEF First
  <2>2. s[p] \in Nat /\ s[q] \in Nat
    BY PlacesAreTaken
  <2>3. s[p] = s[q]
    BY <2>1, <2>2
  <2> QED
    BY <2>3 DEF IsList, Lists
<1> QED
  BY <1>1, <1>2 DEF Single

\* A call of a search before its hits are collapsed, or an end without hits.
LEMMA NothingShownYet ==
  ASSUME UNCHANGED <<memory, req>>, at' \notin {"rerank", "fuse", "near"}, reply'.hits = NoList,
         req.kind # "related" \/ at' \notin {"authors", "merge"}
  PROVE  OneEach'
<1>1. Shown' = {}
  BY NoListIsList DEF Shown
<1> QED
  BY <1>1 DEF OneEach, Single, NotOfSeed

\* A failed call brings no second row of a text.
LEMMA FailuresShowNothing ==
  ASSUME Base, at # "done", KnowledgeFails \/ TextFails PROVE OneEach'
<1>1. PICK source \in {"knowledge", "text"}, call \in {"text", "merge"} : SourceFails(source, call)
  BY DEF KnowledgeFails, TextFails, TextCall
<1>2. UNCHANGED <<memory, req>> /\ reply.hits = NoList
  BY <1>1 DEF SourceFails, Base
<1>3. CASE req.tolerant /\ req.kind = "search"
  <2>1. at' = call /\ reply' = [reply EXCEPT !.degraded = TRUE]
    BY <1>1, <1>3 DEF SourceFails
  <2>2. reply'.hits = NoList
    BY <1>2, <2>1 DEF Base, FitReply
  <2> QED
    BY <1>1, <1>2, <1>3, <2>1, <2>2, NothingShownYet
<1>4. CASE ~(req.tolerant /\ req.kind = "search")
  <2>1. at' = "done" /\ reply' = [NoReply EXCEPT !.kind = "error"]
    BY <1>1, <1>4 DEF SourceFails
  <2>2. reply'.hits = NoList
    BY <2>1 DEF NoReply
  <2> QED
    BY <1>2, <2>1, <2>2, NothingShownYet
<1> QED
  BY <1>3, <1>4

\* The calls of a search up to the merge.
LEMMA RecallIsSilent ==
  ASSUME Base, Embed \/ Global \/ GlobalUntagged \/ CuratedSearch \/ LexicalSearch \/ SearchText
               \/ FetchFacts \/ FetchEvents
  PROVE  OneEach'
<1>1. at # "done" /\ req.kind = "search" /\ reply.hits = NoList
  BY CourseIs DEF Base, Embed, Global, GlobalUntagged, CuratedSearch, LexicalSearch, SearchText, FetchFacts, FetchEvents
<1>2. ASSUME NEW call \in {"global", "curated", "lexical", "authors", "facts", "events", "merge"}, NEW p, Goto(call, p)
      PROVE  OneEach'
  BY <1>1, <1>2, NothingShownYet DEF Goto
<1>3. ASSUME at' = "untagged", UNCHANGED <<memory, req, reply>> PROVE OneEach'
  BY <1>1, <1>3, NothingShownYet
<1>4. CASE KnowledgeFails \/ TextFails
  BY <1>1, <1>4, FailuresShowNothing
<1>5. CASE Embed
  BY <1>2, <1>4, <1>5 DEF Embed
<1>6. CASE Global
  BY <1>2, <1>3, <1>4, <1>6 DEF Global
<1>7. CASE GlobalUntagged
  BY <1>2, <1>4, <1>7 DEF GlobalUntagged
<1>8. CASE CuratedSearch
  BY <1>2, <1>4, <1>8 DEF CuratedSearch
<1>9. CASE LexicalSearch
  BY <1>2, <1>4, <1>9 DEF LexicalSearch
<1>10. CASE SearchText
  BY <1>2, <1>4, <1>10 DEF SearchText
<1>11. CASE FetchFacts \/ FetchEvents
  BY <1>2, <1>4, <1>11 DEF FetchFacts, FetchEvents
<1> QED
  BY <1>1, <1>5, <1>6, <1>7, <1>8, <1>9, <1>10, <1>11

\* Nor does the look-up of authors.
LEMMA AuthorsKeepOne == ASSUME Base, OneEach, Authors PROVE OneEach'
<1>1. /\ at = "authors" /\ UNCHANGED <<memory, req, reply>> /\ at' \in {"text", "merge"}
      /\ Elements(page'.list) = Elements(page.list) /\ faults' \in {faults, faults + 1} /\ faults \in Nat
  <2>1. DOMAIN page = PageFields /\ faults \in Nat
    BY DEF Base, FitPage
  <2> QED
    BY <2>1 DEF Authors, Goto, TextCall, PageFields
<1>2. reply.hits = NoList
  BY <1>1 DEF Base
<1>3. Shown' = {}
  BY <1>1, <1>2, NoListIsList DEF Shown
<1>4. faults' = 0 => faults = 0
  BY <1>1
<1> QED
  BY <1>1, <1>3, <1>4 DEF OneEach, Single, NotOfSeed

\* The merge lets the later of two rows of a text fall out.
LEMMA MergeKeepsOne == ASSUME Base, Merge PROVE OneEach'
<1>1. /\ UNCHANGED <<memory, req>> /\ at' \in {"rerank", "fuse"} /\ reply'.hits = reply.hits
      /\ page'.list = Collapsed(Candidates)
  <2>1. DOMAIN page = PageFields /\ DOMAIN reply = {"kind", "hits", "copies", "degraded"}
    BY DEF Base, FitPage, FitReply
  <2> QED
    BY <2>1 DEF Merge, Candidates, PageFields
<1>2. reply.hits = NoList
  BY DEF Base, Merge
<1>3. Shown' = {}
  BY <1>1, <1>2, NoListIsList DEF Shown
<1>4. Single(Elements(Collapsed(Candidates)))
  BY CandidatesFit, CollapsedIsSingle
<1> QED
  BY <1>1, <1>3, <1>4 DEF OneEach, Single, NotOfSeed

\* The reranker keeps the rows, and so their texts apart.
LEMMA RerankKeepsOne ==
  ASSUME Base, Rerank
  PROVE  /\ at = "rerank" /\ at' = "fuse" /\ Elements(page'.list) = Elements(page.list)
         /\ UNCHANGED <<memory, req, reply, writes>> /\ (OneEach => OneEach')
<1>1. /\ at = "rerank" /\ at' = "fuse" /\ UNCHANGED <<memory, req, reply, writes>>
  BY DEF Rerank, Goto
<1>2. Elements(page'.list) = Elements(page.list)
  <2>1. ASSUME NEW s \in Orders(Elements(Take(Only(page.list, Points), Window))),
               page'.list = Then(Then(s, Only(page.list, Points)), page.list)
        PROVE  Elements(page'.list) = Elements(page.list)
    <3> DEFINE order == Then(s, Only(page.list, Points))
    <3>1. IsList(order) /\ Elements(order) = Elements(page.list) \cap Points
      BY ShownFits
    <3> HIDE DEF order
    <3>2. Elements(Then(order, page.list)) = Elements(order) \cup Elements(page.list)
      BY <3>1, PageFits, ThenIsList DEF AllAreLists
    <3> QED
      BY <2>1, <3>1, <3>2 DEF order
  <2>2. DOMAIN page = PageFields
    BY DEF Base, FitPage
  <2> QED
    BY <2>1, <2>2 DEF Rerank, Goto, PageFields
<1>3. ASSUME OneEach PROVE OneEach'
  <2>1. Shown' = {}
    BY <1>1, NoListIsList DEF Base, Shown
  <2> QED
    BY <1>1, <1>2, <1>3, <2>1 DEF OneEach, Single, NotOfSeed
<1> QED
  BY <1>1, <1>2, <1>3

\* The reply is cut from the list, and is all of it if there was room.
LEMMA FuseKeepsOne ==
  ASSUME Base, Fuse
  PROVE  /\ at = "fuse" /\ at' = "done" /\ UNCHANGED <<memory, req, faults, writes>>
         /\ Elements(reply'.hits) \subseteq Elements(page.list)
         /\ Cardinality(Elements(reply'.hits)) \in Nat
         /\ Cardinality(Elements(reply'.hits)) < req.limit => Elements(reply'.hits) = Elements(page.list)
         /\ OneEach => OneEach'
<1>1. /\ at = "fuse" /\ at' = "done" /\ UNCHANGED <<memory, req, faults, writes>> /\ req.kind = "search"
      /\ reply'.hits = Take(Ranked(Elements(page.list)), req.limit)
  <2>1. DOMAIN reply = {"kind", "hits", "copies", "degraded"}
    BY DEF Base, FitReply
  <2> QED
    BY <2>1, CourseIs DEF Fuse, Finish, Hits
<1>2. IsList(Ranked(Elements(page.list))) /\ Elements(Ranked(Elements(page.list))) = Elements(page.list)
  <2>1. Elements(page.list) \in SUBSET Ids
    BY PageFits DEF Fit
  <2> QED
    BY <2>1, PageFits, RankedIsList
<1>3. /\ Elements(reply'.hits) \subseteq Elements(page.list) /\ Cardinality(Elements(reply'.hits)) \in Nat
      /\ Cardinality(Elements(reply'.hits)) < req.limit => Elements(reply'.hits) = Elements(page.list)
  <2> DEFINE s == Ranked(Elements(page.list))
  <2>1. IsList(s) /\ Elements(s) = Elements(page.list) /\ reply'.hits = Take(s, req.limit)
    BY <1>1, <1>2
  <2>2. req.limit \in Nat
    BY PageFits
  <2> HIDE DEF s
  <2> QED
    BY <2>1, <2>2, TakeIsList
<1>4. ASSUME OneEach PROVE OneEach'
  BY <1>1, <1>3, <1>4 DEF OneEach, Single, NotOfSeed, Shown
<1> QED
  BY <1>1, <1>3, <1>4

\* memory_related: the seed's text is read, then left out.
LEMMA NearKeepsOne == ASSUME Base, OneEach, Vector \/ Seed \/ Near PROVE OneEach'
<1>1. at # "done" /\ req.kind = "related" /\ reply.hits = NoList /\ DOMAIN page = PageFields /\ faults \in Nat
  BY CourseIs DEF Vector, Seed, Near, Base, FitPage
<1>2. CASE KnowledgeFails
  BY <1>1, <1>2, FailuresShowNothing
<1>3. ASSUME UNCHANGED <<memory, req, reply>>, at' = "seed" PROVE OneEach'
  BY <1>1, <1>3, NothingShownYet
<1>4. ASSUME UNCHANGED <<memory, req, reply>>, at' = "near",
             faults' = 0 => page'.seed = memory[req.id].text
      PROVE  OneEach'
  <2>1. Shown' = {}
    BY <1>1, <1>4, NoListIsList DEF Shown
  <2> QED
    BY <1>4, <2>1 DEF OneEach, Single, NotOfSeed
<1>5. CASE Vector
  BY <1>2, <1>3, <1>5 DEF Vector, Goto
<1>6. CASE Seed
  BY <1>1, <1>4, <1>6 DEF Seed, Goto, PageFields
<1>7. ASSUME at = "near", NEW s \in Nearest(Points \cap Live, KnowledgeOverfetch * (req.limit + 1)),
             Goto("authors", [page EXCEPT !.list = Keep(s, LAMBDA p : p # req.id /\ memory[p].text # page.seed)])
      PROVE  OneEach'
  <2> DEFINE l == Keep(s, LAMBDA p : p # req.id /\ memory[p].text # page.seed)
  <2>1. KnowledgeOverfetch * (req.limit + 1) \in Nat
    BY PageFits DEF KnowledgeOverfetch
  <2>2. IsList(s)
    BY <2>1, NearestFits
  <2>3. \A p \in Elements(l) : memory[p].text # page.seed
    BY <2>2, OnlyIsList DEF Keep
  <2>4. page'.list = l /\ at' = "authors" /\ UNCHANGED <<memory, req, reply, faults>>
    BY <1>1, <1>7 DEF Goto, PageFields
  <2> HIDE DEF l
  <2>5. Shown' = {}
    BY <1>1, <2>4, NoListIsList DEF Shown
  <2>6. faults = 0 => page.seed = memory[req.id].text
    BY <1>7 DEF OneEach
  <2> QED
    BY <2>3, <2>4, <2>5, <2>6 DEF OneEach, Single, NotOfSeed
<1>8. CASE Near
  BY <1>2, <1>7, <1>8 DEF Near
<1> QED
  BY <1>5, <1>6, <1>8

\* The neighbours are of different texts, and none is of the seed.
LEMMA NeighboursKeepOne == ASSUME Base, OneEach, Neighbours PROVE OneEach'
<1>1. /\ at = "merge" /\ at' = "done" /\ UNCHANGED <<memory, req, faults>> /\ req.kind = "related"
      /\ reply'.hits = Take(Collapsed(page.list), req.limit)
  BY DEF Neighbours, Finish, NoReply
<1>2. IsList(Collapsed(page.list)) /\ Elements(Collapsed(page.list)) \subseteq Elements(page.list)
      /\ Single(Elements(Collapsed(page.list)))
  BY PageFits, CollapsedIsSingle, OnlyIsList DEF AllAreLists, Collapsed, Keep
<1>3. Elements(reply'.hits) \subseteq Elements(Collapsed(page.list))
  BY <1>1, <1>2, PageFits, TakeIsList
<1>4. NotOfSeed(Elements(page.list))
  BY <1>1 DEF OneEach
<1> QED
  BY <1>1, <1>2, <1>3, <1>4 DEF OneEach, Single, NotOfSeed, Shown

\* One row is of one text.
LEMMA GetKeepsOne == ASSUME Base, Get PROVE OneEach'
<1>1. at # "done" /\ req.kind = "get"
  BY CourseIs DEF Get
<1>2. CASE KnowledgeFails
  BY <1>1, <1>2, FailuresShowNothing
<1>3. CASE ~KnowledgeFails
  <2>1. /\ at' = "done" /\ UNCHANGED <<memory, req>>
        /\ reply'.hits \in {[i \in {req.id} |-> 1], NoList}
    BY <1>3 DEF Get, Finish, NoReply
  <2>2. Shown' \subseteq {req.id}
    BY <2>1, NoListIsList DEF Shown, Elements
  <2> QED
    BY <1>1, <2>1, <2>2 DEF OneEach, Single, NotOfSeed
<1> QED
  BY <1>2, <1>3

\* A point has its text for good, whoever writes.
LEMMA WriteKeepsOne == ASSUME Base, OneEach, Write PROVE OneEach'
<1>1. /\ \A i \in Ids : memory'[i].text = memory[i].text
      /\ UNCHANGED <<req, at, page, reply, faults>>
  BY WriteKeepsBase DEF Write
<1>2. Points \subseteq Ids /\ req.id \in Ids
  BY IdsAre, RequestIs DEF Base
<1>3. Elements(page.list) \subseteq Ids /\ Shown \subseteq Ids
  BY PageFits DEF Base, Fit, FitReply, Shown
<1> QED
  BY <1>1, <1>2, <1>3 DEF OneEach, Single, NotOfSeed, Shown

\* At the start there is no page.
LEMMA InitOne == Init => OneEach
<1> SUFFICES ASSUME Init PROVE OneEach
  OBVIOUS
<1>1. at \notin {"rerank", "fuse", "near", "authors", "merge"} /\ reply.hits = NoList
  BY DEF Init, FirstCall, NoReply
<1> QED
  BY <1>1, NoListIsList DEF OneEach, Single, NotOfSeed, Shown

\* Every call keeps one row for each text on the page.
LEMMA NextOne == Base /\ OneEach /\ [Next]_vars => OneEach'
<1> SUFFICES ASSUME Base, OneEach, [Next]_vars PROVE OneEach'
  OBVIOUS
<1>1. CASE UNCHANGED vars
  BY <1>1 DEF vars, OneEach, Single, NotOfSeed, Shown
<1> QED
  BY <1>1, RecallIsSilent, AuthorsKeepOne, MergeKeepsOne, RerankKeepsOne, FuseKeepsOne, NearKeepsOne,
     NeighboursKeepOne, GetKeepsOne, WriteKeepsOne
  DEF Next, Step

\* However many points hold a text, one of them is shown, and memory_related leaves the
\* text of its seed out; meanwhile memories are deleted and restored, and calls fail
\* (collapse_duplicates, related).
THEOREM OneHitForEachText == Spec => []OneHitPerText
<1>1. Base /\ OneEach => OneHitPerText
  BY DEF OneEach, Single, NotOfSeed, OneHitPerText
<1>2. Init => Base /\ OneEach
  BY InitBase, InitOne
<1>3. (Base /\ OneEach) /\ [Next]_vars => (Base /\ OneEach)'
  BY NextBase, NextOne
<1> QED
  BY <1>1, <1>2, <1>3, PTL DEF Spec

-----------------------------------------------------------------------------
(* A page that is not full *)

\* Twice as many points as a page has places, no text among them more than twice, have
\* texts for every place.
LEMMA TextsFill ==
  ASSUME Base, Quiet, NEW S \in SUBSET (Points \cap Live), IsFiniteSet(S), NEW n \in Nat, Cardinality(S) = 2 * n
  PROVE  IsFiniteSet(TextsOf(S)) /\ Cardinality(TextsOf(S)) \in Nat /\ Cardinality(TextsOf(S)) >= n
<1> DEFINE T == TextsOf(S)
           one(t) == CHOOSE p \in S : memory[p].text = t
           f == [p \in S |-> memory[p].text]
           g == [p \in S |-> <<memory[p].text, IF p = one(memory[p].text) THEN 0 ELSE 1>>]
<1>1. T = {memory[p].text : p \in S}
  BY DEF TextsOf
<1>2. IsFiniteSet(T) /\ Cardinality(T) \in Nat
  <2>1. f \in Surjection(S, T)
    BY <1>1 DEF Surjection
  <2>2. IsFiniteSet(T)
    BY <2>1, FS_Surjection
  <2> QED
    BY <2>2, FS_CardinalityType
<1>3. IsFiniteSet(T \X {0, 1}) /\ Cardinality(T \X {0, 1}) = Cardinality(T) * 2
  <2>1. IsFiniteSet({0, 1}) /\ Cardinality({0, 1}) = 2
    <3>0. 1 \notin {0} /\ {0, 1} = {0} \cup {1}
      OBVIOUS
    <3>1. IsFiniteSet({0}) /\ Cardinality({0}) = 1
      BY FS_Singleton
    <3>2. IsFiniteSet({0} \cup {1}) /\ Cardinality({0} \cup {1}) = Cardinality({0}) + 1
      BY <3>0, <3>1, FS_AddElement
    <3> QED
      BY <3>0, <3>1, <3>2
  <2> HIDE DEF T
  <2> QED
    BY <1>2, <2>1, FS_Product
<1>4. ASSUME NEW p \in S, NEW q \in S, p # q, memory[p].text = memory[q].text,
             p # one(memory[p].text), q # one(memory[q].text)
      PROVE  FALSE
  <2> DEFINE t == memory[p].text
             o == one(t)
             like == {x \in Points \cap Live : memory[x].text = t}
  <2>1. o \in S /\ memory[o].text = t
    OBVIOUS
  <2>2. o \in like /\ p \in like /\ q \in like /\ o # p /\ o # q
    BY <1>4, <2>1
  <2>3. IsFiniteSet(like) /\ Cardinality(like) <= 2
    <3>1. t \in Texts
      BY DEF Base, Stored
    <3>2. Cardinality(like) <= 2
      BY <3>1 DEF Quiet, KnowledgeOverfetch
    <3>3. like \subseteq Ids /\ IsFiniteSet(Ids)
      BY IdsAre
    <3> QED
      BY <3>2, <3>3, FS_Subset
  <2> HIDE DEF like, o
  <2>4. IsFiniteSet({o}) /\ Cardinality({o}) = 1
    BY FS_Singleton
  <2>5. IsFiniteSet({o} \cup {p}) /\ Cardinality({o} \cup {p}) = 2
    <3>1. p \notin {o}
      BY <2>2
    <3>2. IsFiniteSet({o} \cup {p}) /\ Cardinality({o} \cup {p}) = Cardinality({o}) + 1
      BY <2>4, <3>1, FS_AddElement
    <3> QED
      BY <2>4, <3>2
  <2>6. Cardinality(({o} \cup {p}) \cup {q}) = 3
    <3>1. q \notin {o} \cup {p}
      BY <1>4, <2>2
    <3>2. Cardinality(({o} \cup {p}) \cup {q}) = Cardinality({o} \cup {p}) + 1
      BY <2>5, <3>1, FS_AddElement
    <3> QED
      BY <2>5, <3>2
  <2>7. Cardinality(({o} \cup {p}) \cup {q}) <= Cardinality(like)
    BY <2>2, <2>3, FS_Subset
  <2>8. Cardinality(like) \in Nat
    BY <2>3, FS_CardinalityType
  <2> QED
    BY <2>3, <2>6, <2>7, <2>8
<1>5. g \in Injection(S, T \X {0, 1})
  <2>1. g \in [S -> T \X {0, 1}]
    BY <1>1
  <2>2. ASSUME NEW p \in S, NEW q \in S, g[p] = g[q] PROVE p = q
    <3>1. memory[p].text = memory[q].text
      BY <2>2
    <3>2. p = one(memory[p].text) <=> q = one(memory[q].text)
      BY <2>2
    <3> HIDE DEF g, one
    <3> QED
      BY <1>4, <3>1, <3>2
  <2> QED
    BY <2>1, <2>2 DEF Injection, IsInjective
<1>6. 2 * n <= Cardinality(T) * 2
  <2> HIDE DEF T, g
  <2> QED
    BY <1>3, <1>5, FS_Injection
<1> QED
  BY <1>2, <1>6

\* There are no more texts than hits.
LEMMA TextsAreFewer ==
  ASSUME NEW S, IsFiniteSet(S)
  PROVE  /\ IsFiniteSet(TextsOf(S)) /\ Cardinality(TextsOf(S)) \in Nat
         /\ Cardinality(S) \in Nat /\ Cardinality(TextsOf(S)) <= Cardinality(S)
<1> DEFINE P == S \cap Points
           T == TextsOf(S)
           f == [p \in P |-> memory[p].text]
<1>1. IsFiniteSet(P) /\ Cardinality(P) <= Cardinality(S)
  BY FS_Intersection
<1>2. f \in Surjection(P, T)
  BY DEF Surjection, TextsOf
<1> HIDE DEF P, T, f
<1>3. IsFiniteSet(T) /\ Cardinality(T) <= Cardinality(P)
  BY <1>1, <1>2, FS_Surjection
<1>4. Cardinality(T) \in Nat /\ Cardinality(P) \in Nat /\ Cardinality(S) \in Nat
  BY <1>1, <1>3, FS_CardinalityType
<1> QED
  BY <1>1, <1>3, <1>4 DEF T

\* What is collapsed is a copy of what stays.
LEMMA CollapsedKeeps ==
  ASSUME NEW s, IsList(s)
  PROVE  /\ Elements(s) \ Points \subseteq Elements(Collapsed(s))
         /\ \A p \in Elements(s) \cap Points :
              \E q \in Elements(Collapsed(s)) \cap Points : memory[q].text = memory[p].text
<1>1. Elements(Collapsed(s)) = Elements(s) \cap {i \in Elements(s) : First(s, i)}
  BY OnlyIsList DEF Collapsed, Keep
<1>2. \A i \in Elements(s) \ Points : First(s, i)
  BY DEF First
<1>3. ASSUME NEW p \in Elements(s) \cap Points
      PROVE  \E q \in Elements(Collapsed(s)) \cap Points : memory[q].text = memory[p].text
  <2> DEFINE like == {q \in Elements(s) \cap Points : memory[q].text = memory[p].text}
  <2>1. like \in SUBSET Elements(s) /\ like # {}
    OBVIOUS
  <2> HIDE DEF like
  <2>2. PICK q \in like : \A j \in like : ~ (s[j] < s[q])
    BY <2>1, FirstExists
  <2>3. First(s, q)
    BY <2>2 DEF First, like
  <2> QED
    BY <1>1, <2>2, <2>3 DEF like
<1> QED
  BY <1>1, <1>2, <1>3

\* A step of the request leaves the store and the request as they are, and a call that
\* fails is counted.
LEMMA StepsLeave ==
  ASSUME Base, Step
  PROVE  /\ UNCHANGED <<memory, req, writes>> /\ faults' \in {faults, faults + 1} /\ faults \in Nat
         /\ Quiet' => Quiet /\ faults' = faults
<1>1. faults \in Nat
  BY DEF Base
<1>2. UNCHANGED <<memory, req, writes>> /\ faults' \in {faults, faults + 1}
  BY DEF Step, Embed, Global, GlobalUntagged, CuratedSearch, LexicalSearch, Authors, SearchText, FetchFacts,
         FetchEvents, Merge, Rerank, Fuse, Vector, Seed, Near, Neighbours, Get, Goto, Finish, KnowledgeFails,
         TextFails, SourceFails
<1>3. faults' = 0 => faults = 0
  BY <1>1, <1>2
<1> QED
  BY <1>1, <1>2, <1>3 DEF Quiet, Live

\* More points cover more.
LEMMA ReachedGrows ==
  ASSUME Base, NEW S, NEW T, S \subseteq T, T \subseteq Ids, Reached(S) PROVE Reached(T)
<1>1. IsFiniteSet(S) /\ IsFiniteSet(T)
  <2>1. IsFiniteSet(Ids)
    BY IdsAre
  <2> QED
    BY <2>1, FS_Subset
<1>2. /\ IsFiniteSet(TextsOf(T)) /\ Cardinality(TextsOf(T)) \in Nat /\ Cardinality(TextsOf(S)) \in Nat
      /\ TextsOf(S) \subseteq TextsOf(T)
  BY <1>1, TextsAreFewer DEF TextsOf
<1>3. Cardinality(TextsOf(S)) <= Cardinality(TextsOf(T)) /\ req.limit \in Nat
  BY <1>2, FS_Subset, PageFits
<1>4. Covered(S) => Covered(T)
  BY DEF Covered
<1> QED
  BY <1>2, <1>3, <1>4 DEF Reached

\* The global arm fetches all there is, or texts enough.
LEMMA GlobalReaches ==
  ASSUME Base, Quiet, NEW s \in Nearest(Points \cap Live, Overfetched * req.limit)
  PROVE  Reached(Elements(Take(Keep(s, Passes), KnowledgeOverfetch * req.limit)))
<1> DEFINE n == 2 * req.limit
           k == Keep(s, Passes)
           t == Take(k, n)
<1>1. req.limit \in Nat /\ Overfetched = 2 /\ KnowledgeOverfetch = 2 /\ n \in Nat
  BY PageFits DEF Overfetched, KnowledgeOverfetch, Quiet
<1>2. IsFiniteSet(Points \cap Live)
  <2>1. Points \cap Live \subseteq Ids /\ IsFiniteSet(Ids)
    BY IdsAre
  <2> QED
    BY <2>1, FS_Subset
<1>3. /\ IsList(s) /\ Elements(s) \subseteq Points \cap Live /\ Cardinality(Elements(s)) \in Nat
      /\ Cardinality(Elements(s)) < n => Elements(s) = Points \cap Live
  <2>1. s \in Nearest(Points \cap Live, n)
    BY <1>1
  <2> HIDE DEF n
  <2> QED
    BY <1>1, <1>2, <2>1, NearestIsList
<1>4. IsList(k) /\ Elements(k) = Elements(s)
  <2> DEFINE through == {i \in Elements(s) : Passes(i)}
  <2>1. Elements(s) \cap through = Elements(s)
    BY DEF Passes, Quiet
  <2>2. k = Only(s, through)
    BY DEF Keep
  <2> HIDE DEF k, through
  <2> QED
    BY <1>3, <2>1, <2>2, OnlyIsList
<1> HIDE DEF k, n
<1>5. /\ IsList(t) /\ Elements(t) \subseteq Elements(s) /\ Cardinality(Elements(t)) \in Nat
      /\ Cardinality(Elements(t)) <= n /\ (Cardinality(Elements(t)) < n => Elements(t) = Elements(s))
  BY <1>1, <1>4, TakeIsList
<1>6. CASE Cardinality(Elements(t)) < n
  <2>1. Elements(t) = Points \cap Live
    BY <1>3, <1>5, <1>6
  <2> QED
    BY <1>1, <2>1 DEF Reached, Covered, k, n
<1>7. CASE Cardinality(Elements(t)) = n
  <2>1. Elements(t) \in SUBSET (Points \cap Live) /\ IsFiniteSet(Elements(t))
    BY <1>3, <1>5 DEF IsList
  <2>2. Cardinality(TextsOf(Elements(t))) >= req.limit
    BY <1>1, <1>7, <2>1, TextsFill DEF n
  <2> QED
    BY <1>1, <2>2 DEF Reached, k, n
<1> QED
  BY <1>1, <1>5, <1>6, <1>7

\* The calls up to the text index keep what was reached.
LEMMA RecallKeepsComplete ==
  ASSUME Base, Complete, Embed \/ Global \/ GlobalUntagged \/ CuratedSearch \/ LexicalSearch \/ Authors
  PROVE  Complete'
<1> SUFFICES ASSUME Quiet' PROVE Complete'
  BY DEF Complete
<1>1. Quiet /\ faults' = faults /\ UNCHANGED <<memory, req, writes>> /\ faults \in Nat /\ faults + 1 # faults
  BY StepsLeave DEF Step
<1>2. ~KnowledgeFails
  BY <1>1 DEF KnowledgeFails, SourceFails
<1>3. DOMAIN page = PageFields /\ Elements(page.list) \subseteq Ids
  BY PageFits DEF FitPage, Fit
<1>4. ASSUME at' \in {"curated", "lexical", "authors", "text"}, Reached(Elements(page'.list)) PROVE Complete'
  BY <1>1, <1>4 DEF Complete, Reached, Covered, TextsOf, Live
<1>5. CASE Embed
  <2>1. at' = "global"
    BY <1>2, <1>5 DEF Embed, Goto
  <2> QED
    BY <2>1 DEF Complete
<1>6. CASE Global \/ GlobalUntagged
  <2>1. CASE at' = "untagged"
    BY <2>1 DEF Complete
  <2>2. CASE at' # "untagged"
    <3>1. PICK s \in Nearest(Points \cap Live, Overfetched * req.limit) :
            Goto("curated", [page EXCEPT !.list = Take(Keep(s, Passes), KnowledgeOverfetch * req.limit)])
      <4>1. {p \in Points \cap Live : req.tagged => p \in Tagged} = Points \cap Live
        BY <1>1 DEF Quiet
      <4> QED
        BY <1>2, <1>6, <2>2, <4>1 DEF Global, GlobalUntagged
    <3>2. at' = "curated" /\ page'.list = Take(Keep(s, Passes), KnowledgeOverfetch * req.limit)
      BY <1>3, <3>1 DEF Goto, PageFields
    <3> QED
      BY <1>1, <1>4, <3>2, GlobalReaches
  <2> QED
    BY <2>1, <2>2
<1>7. CASE CuratedSearch
  <2>1. at = "curated" /\ at' = "lexical" /\ page'.list = page.list
    BY <1>2, <1>3, <1>7 DEF CuratedSearch, Goto, PageFields
  <2> QED
    BY <1>1, <1>4, <2>1 DEF Complete
<1>8. CASE LexicalSearch
  <2>1. PICK s \in Nearest({p \in Points \cap Live : memory[p].text \in Lexical}, req.limit) :
          /\ at = "lexical" /\ at' = "authors"
          /\ page'.list = Then(Then(page.list, page.curated), Keep(s, Passes))
    BY <1>2, <1>3, <1>8 DEF LexicalSearch, Goto, PageFields
  <2>2. Elements(page.list) \subseteq Elements(page'.list)
    BY <2>1 DEF Then, Elements
  <2>3. Elements(page'.list) \subseteq Ids
    BY <1>8, LexicalKeepsBase DEF Base, FitPage, Fit
  <2>4. Reached(Elements(page.list))
    BY <1>1, <2>1 DEF Complete
  <2> QED
    BY <1>4, <2>1, <2>2, <2>3, <2>4, ReachedGrows
<1>9. CASE Authors
  <2>1. at = "authors" /\ at' = TextCall /\ Elements(page'.list) = Elements(page.list)
    BY <1>1, <1>3, <1>9 DEF Authors, Goto, Quiet, PageFields
  <2>2. Reached(Elements(page.list))
    BY <1>1, <2>1 DEF Complete
  <2>3. CASE at' = "text"
    BY <1>4, <2>1, <2>2, <2>3
  <2>4. CASE at' = "merge" /\ ~Wants(Facts) /\ ~Wants(Events)
    BY <1>1, <2>1, <2>2, <2>4 DEF Complete, Reached, Covered, TextsOf, Live, Held, Wants
  <2> QED
    BY <2>1, <2>3, <2>4 DEF TextCall
<1> QED
  BY <1>5, <1>6, <1>7, <1>8, <1>9

\* The text index gives all its live rows, or a page of them, and so do the fetches.
LEMMA TextHolds ==
  ASSUME Base, NEW kind, kind \subseteq Ids, NEW n \in Nat, n = req.limit
  PROVE  Held(Elements(Take(Texted(kind \cap Live), n)), kind)
<1> DEFINE S == kind \cap Live
           t == Take(Texted(S), n)
<1>1. IsList(Texted(S)) /\ Elements(Texted(S)) = S
  <2>1. S \subseteq Ids /\ IsFiniteSet(Ids) /\ Ids \subseteq Nat
    BY IdsAre
  <2>2. IsFiniteSet(S) /\ S \subseteq Nat
    BY <2>1, FS_Subset
  <2> HIDE DEF S
  <2> QED
    BY <2>2, TextedIsList
<1> HIDE DEF S
<1>2. /\ Elements(t) \subseteq S /\ Cardinality(Elements(t)) \in Nat
      /\ Cardinality(Elements(t)) < n => Elements(t) = S
  BY <1>1, TakeIsList
<1> QED
  BY <1>2 DEF Held, S

\* While nobody writes, a fetch finds all that was recalled.
LEMMA FetchHolds ==
  ASSUME Base, Quiet, NEW s, IsList(s), NEW kind, Held(Elements(s), kind)
  PROVE  Held(Elements(Fetched(s, kind)), kind)
<1> SUFFICES ASSUME Wants(kind) PROVE Held(Elements(Fetched(s, kind)), kind)
  BY DEF Held
<1> DEFINE through == {i \in Elements(s) : i \in Live /\ Passes(i)}
           k == Only(s, through)
           t == Take(k, req.limit)
<1>1. Elements(s) \subseteq Live /\ (kind \cap Live \subseteq Elements(s) \/ Cardinality(Elements(s)) >= req.limit)
  BY DEF Held
<1>2. Fetched(s, kind) = t
  BY DEF Fetched, Keep
<1>3. Elements(s) \cap through = Elements(s)
  BY <1>1 DEF Passes, Quiet
<1> HIDE DEF through
<1>4. IsList(k) /\ Elements(k) = Elements(s)
  BY <1>3, OnlyIsList
<1> HIDE DEF k
<1>5. req.limit \in Nat
  BY PageFits
<1>6. /\ Elements(t) \subseteq Elements(s) /\ Cardinality(Elements(t)) \in Nat
      /\ Cardinality(Elements(t)) < req.limit => Elements(t) = Elements(s)
  BY <1>4, <1>5, TakeIsList
<1> HIDE DEF t
<1> QED
  BY <1>1, <1>2, <1>5, <1>6 DEF Held

\* The text rows are all recalled, and all found.
LEMMA TextKeepsComplete ==
  ASSUME Base, Complete, SearchText \/ FetchFacts \/ FetchEvents PROVE Complete'
<1> SUFFICES ASSUME Quiet' PROVE Complete'
  BY DEF Complete
<1>1. Quiet /\ faults' = faults /\ UNCHANGED <<memory, req, writes>> /\ faults \in Nat /\ faults + 1 # faults
  BY StepsLeave DEF Step
<1>2. ~TextFails
  BY <1>1 DEF TextFails, SourceFails
<1>3. DOMAIN page = PageFields /\ IsList(page.facts) /\ IsList(page.events)
  BY PageFits DEF FitPage, AllAreLists
<1>4. ASSUME at' \in {"facts", "events", "merge"}, page'.list = page.list, at \in {"text", "facts", "events"},
             Held(Elements(page'.facts), Facts), Held(Elements(page'.events), Events)
      PROVE  Complete'
  <2>1. Reached(Elements(page.list))
    BY <1>1, <1>4 DEF Complete
  <2> QED
    BY <1>1, <1>4, <2>1 DEF Complete, Reached, Covered, TextsOf, Live, Held, Wants
<1>5. CASE SearchText
  <2> DEFINE n == IF req.filtered \/ req.tagged THEN FilterOverfetch * req.limit ELSE req.limit
  <2>1. n = req.limit /\ n \in Nat
    BY <1>1, PageFits DEF Quiet
  <2>2. /\ at = "text" /\ at' = "facts" /\ page'.list = page.list
        /\ page'.facts = Take(Texted(Facts \cap Live), n) /\ page'.events = Take(Texted(Events \cap Live), n)
    BY <1>2, <1>3, <1>5 DEF SearchText, Goto, PageFields
  <2> HIDE DEF n
  <2>3. Held(Elements(page'.facts), Facts) /\ Held(Elements(page'.events), Events)
    BY <2>1, <2>2, IdsAre, TextHolds
  <2> QED
    BY <1>4, <2>2, <2>3
<1>6. CASE FetchFacts
  <2>1. /\ at = "facts" /\ at' = "events" /\ page'.list = page.list /\ page'.events = page.events
        /\ page'.facts = Fetched(page.facts, Facts)
    BY <1>2, <1>3, <1>6 DEF FetchFacts, Goto, PageFields
  <2>2. Held(Elements(page.facts), Facts) /\ Held(Elements(page.events), Events)
    BY <1>1, <2>1 DEF Complete
  <2>3. Held(Elements(page'.facts), Facts)
    BY <1>1, <1>3, <2>1, <2>2, FetchHolds
  <2> QED
    BY <1>4, <2>1, <2>2, <2>3
<1>7. CASE FetchEvents
  <2>1. /\ at = "events" /\ at' = "merge" /\ page'.list = page.list /\ page'.facts = page.facts
        /\ page'.events = Fetched(page.events, Events)
    BY <1>2, <1>3, <1>7 DEF FetchEvents, Goto, PageFields
  <2>2. Held(Elements(page.facts), Facts) /\ Held(Elements(page.events), Events)
    BY <1>1, <2>1 DEF Complete
  <2>3. Held(Elements(page'.events), Events)
    BY <1>1, <1>3, <2>1, <2>2, FetchHolds
  <2> QED
    BY <1>4, <2>1, <2>2, <2>3
<1> QED
  BY <1>5, <1>6, <1>7

\* Merge gives up copies only.
LEMMA MergedIsEnough ==
  ASSUME Base, Quiet, Reached(Elements(page.list)),
         Held(Elements(page.facts), Facts), Held(Elements(page.events), Events)
  PROVE  Enough(Elements(Collapsed(Candidates)))
<1> DEFINE L == Elements(Collapsed(Candidates))
           A == Elements(Candidates)
<1>1. /\ IsList(Candidates) /\ A \subseteq Ids /\ L \subseteq A
      /\ A = Elements(page.list) \cup Elements(page.facts) \cup Elements(page.events)
  BY CandidatesFit DEF Fit, HasTags, Quiet
<1>2. /\ A \ Points \subseteq L
      /\ \A p \in A \cap Points : \E q \in L \cap Points : memory[q].text = memory[p].text
  BY <1>1, CollapsedKeeps
<1>3. IsFiniteSet(L)
  BY CandidatesFit DEF IsList
<1> HIDE DEF L, A
<1>4. /\ Elements(page.list) \subseteq A
      /\ Elements(page.facts) \subseteq L /\ Elements(page.events) \subseteq L
  <2>1. Elements(page.facts) \subseteq Facts /\ Elements(page.events) \subseteq Events
    BY PageFits DEF Fit
  <2> QED
    BY <1>1, <1>2, <2>1, IdsAre
<1>5. /\ Cardinality(L) \in Nat /\ Cardinality(TextsOf(L)) \in Nat /\ IsFiniteSet(TextsOf(L))
      /\ Cardinality(TextsOf(L)) <= Cardinality(L) /\ req.limit \in Nat
  BY <1>3, TextsAreFewer, PageFits
<1> SUFFICES ASSUME Cardinality(L) < req.limit PROVE ShowsAll(L)
  BY <1>5 DEF Enough, L
<1>6. ASSUME NEW S \in SUBSET L PROVE Cardinality(S) \in Nat /\ Cardinality(S) < req.limit
  <2>1. IsFiniteSet(S) /\ Cardinality(S) <= Cardinality(L)
    BY <1>3, FS_Subset
  <2> QED
    BY <1>5, <2>1, FS_CardinalityType
<1>7. ASSUME NEW S \in SUBSET L, NEW kind, Held(S, kind) PROVE kind \cap Live \cap req.wants \subseteq L
  <2>1. CASE Wants(kind)
    <3>1. ~ (Cardinality(S) >= req.limit)
      BY <1>5, <1>6
    <3> QED
      BY <1>7, <2>1, <3>1 DEF Held
  <2>2. CASE ~Wants(kind)
    BY <2>2 DEF Wants
  <2> QED
    BY <2>1, <2>2
<1>8. (Facts \cup Events) \cap Live \cap req.wants \subseteq L
  BY <1>4, <1>7
<1>9. ASSUME Points \subseteq req.wants PROVE Covered(L)
  <2>1. TextsOf(Elements(page.list)) \subseteq TextsOf(L)
    <3>1. \A p \in Elements(page.list) \cap Points : \E q \in L \cap Points : memory[q].text = memory[p].text
      BY <1>2, <1>4
    <3> QED
      BY <3>1 DEF TextsOf
  <2>2. ~ (Cardinality(TextsOf(Elements(page.list))) >= req.limit)
    <3>1. Cardinality(TextsOf(Elements(page.list))) <= Cardinality(TextsOf(L))
      BY <1>5, <2>1, FS_Subset
    <3>2. Cardinality(TextsOf(Elements(page.list))) \in Nat
      BY <1>5, <2>1, FS_Subset, FS_CardinalityType
    <3> QED
      BY <1>5, <3>1, <3>2
  <2>3. Covered(Elements(page.list))
    BY <1>9, <2>2 DEF Reached
  <2>4. ASSUME NEW p \in Points \cap Live PROVE \E q \in L \cap Points : memory[q].text = memory[p].text
    <3>1. PICK r \in Elements(page.list) \cap Points : memory[r].text = memory[p].text
      BY <2>3, <2>4 DEF Covered
    <3>2. r \in A \cap Points
      BY <1>4, <3>1
    <3> QED
      BY <1>2, <3>1, <3>2
  <2> QED
    BY <2>4 DEF Covered
<1> QED
  BY <1>8, <1>9 DEF ShowsAll

\* The page after the merge shows all the texts or is full.
LEMMA PageKeepsComplete == ASSUME Base, Complete, Merge \/ Rerank \/ Fuse PROVE Complete'
<1> SUFFICES ASSUME Quiet' PROVE Complete'
  BY DEF Complete
<1>1. Quiet /\ UNCHANGED <<memory, req, writes>>
  BY StepsLeave DEF Step
<1>2. ASSUME at' \in {"rerank", "fuse"}, Enough(Elements(page'.list)) PROVE Complete'
  BY <1>1, <1>2 DEF Complete, Enough, ShowsAll, Covered, Live
<1>3. CASE Merge
  <2>1. at = "merge" /\ at' \in {"rerank", "fuse"} /\ page'.list = Collapsed(Candidates)
    <3>1. DOMAIN page = PageFields
      BY PageFits DEF FitPage
    <3> QED
      BY <1>3, <3>1 DEF Merge, Candidates, PageFields
  <2>2. Enough(Elements(Collapsed(Candidates)))
    BY <1>1, <2>1, MergedIsEnough DEF Complete
  <2> QED
    BY <1>2, <2>1, <2>2
<1>4. CASE Rerank
  <2>1. at = "rerank" /\ at' = "fuse" /\ Elements(page'.list) = Elements(page.list)
    BY <1>4, RerankKeepsOne
  <2> QED
    BY <1>1, <1>2, <2>1 DEF Complete
<1>5. CASE Fuse
  <2>1. /\ at = "fuse" /\ at' = "done" /\ Cardinality(Elements(reply'.hits)) \in Nat
        /\ Cardinality(Elements(reply'.hits)) < req.limit => Elements(reply'.hits) = Elements(page.list)
    BY <1>5, FuseKeepsOne
  <2>2. Enough(Elements(page.list)) /\ req.limit \in Nat
    BY <1>1, <2>1, PageFits DEF Complete
  <2>3. Enough(Elements(reply'.hits))
    <3>1. CASE Cardinality(Elements(reply'.hits)) < req.limit
      BY <2>1, <2>2, <3>1
    <3>2. CASE ~ (Cardinality(Elements(reply'.hits)) < req.limit)
      BY <2>1, <2>2, <3>2 DEF Enough
    <3> QED
      BY <3>1, <3>2
  <2> QED
    BY <1>1, <2>1, <2>3 DEF Complete, Enough, ShowsAll, Covered, Live, Shown
<1> QED
  BY <1>3, <1>4, <1>5

\* Every call keeps what a short page will stand on.
LEMMA NextComplete == Base /\ Complete /\ [Next]_vars => Complete'
<1> SUFFICES ASSUME Base, Complete, [Next]_vars PROVE Complete'
  OBVIOUS
<1>1. CASE Vector \/ Seed \/ Near \/ Neighbours \/ Get
  <2>1. req.kind # "search"
    BY <1>1, CourseIs DEF Vector, Seed, Near, Neighbours, Get
  <2>2. req' = req
    BY <1>1, StepsLeave DEF Step
  <2> QED
    BY <2>1, <2>2 DEF Complete, Quiet
<1>2. CASE Write
  <2>1. writes \in Nat /\ writes' = writes + 1
    BY <1>2 DEF Base, Write
  <2>2. writes' # 0
    BY <2>1
  <2> QED
    BY <2>2 DEF Complete, Quiet
<1>3. CASE UNCHANGED vars
  BY <1>3 DEF vars, Complete, Quiet, Reached, Held, Enough, ShowsAll, Covered, TextsOf, Wants, Live, Shown
<1> QED
  BY <1>1, <1>2, <1>3, RecallKeepsComplete, TextKeepsComplete, PageKeepsComplete DEF Next, Step

\* A request that has not begun has missed nothing.
LEMMA InitComplete == Init => Complete
<1> SUFFICES ASSUME Init, Quiet PROVE Complete
  BY DEF Complete
<1>1. at \in {"embed", "text"} /\ (at = "text" => ~Wants(Points))
  <2>1. at = FirstCall /\ req.kind = "search"
    BY DEF Init, Quiet
  <2>2. CASE Wants(Points)
    BY <2>1, <2>2 DEF FirstCall
  <2>3. CASE ~Wants(Points)
    BY <2>1, <2>3 DEF FirstCall
  <2> QED
    BY <2>2, <2>3
<1>2. ASSUME at = "text" PROVE Reached(Elements(page.list))
  BY <1>1, <1>2 DEF Reached, Covered, Wants
<1> QED
  BY <1>1, <1>2 DEF Complete

\* A search that nothing disturbs and that shows less than a page shows every live row
\* and every live text it was asked for, as long as no text has more copies than the
\* fetch has room for: duplicates and the lists' own lengths never cost a memory its
\* place (KNOWLEDGE_OVERFETCH, collapse_duplicates, fts_candidates).
THEOREM ShortPagesAreAll == Spec => []ShortPageIsAll
<1>1. Base /\ Complete => ShortPageIsAll
  <2> SUFFICES ASSUME Base, Complete, at = "done", reply.kind = "hits", Quiet, Cardinality(Shown) < req.limit
               PROVE  ShowsAll(Shown)
    BY DEF ShortPageIsAll, Quiet, ShowsAll, Covered
  <2>1. Cardinality(Shown) \in Nat /\ req.limit \in Nat /\ Enough(Shown)
    BY PageFits DEF Base, FitReply, Shown, Complete
  <2> QED
    BY <2>1 DEF Enough
<1>2. Init => Base /\ Complete
  BY InitBase, InitComplete
<1>3. (Base /\ Complete) /\ [Next]_vars => (Base /\ Complete)'
  BY NextBase, NextComplete
<1> QED
  BY <1>1, <1>2, <1>3, PTL DEF Spec
===============================================================================
