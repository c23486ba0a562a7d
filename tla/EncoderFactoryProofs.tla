------------------------ MODULE EncoderFactoryProofs ------------------------
(***************************************************************************)
(* Proofs about EncoderFactory, for any backends with any attributes, any  *)
(* preference strings and any order of registrations.                      *)
(***************************************************************************)
EXTENDS EncoderFactory, FiniteSetTheorems, SequenceTheorems, TLAPS

(* Numbers are well ordered: a set of them has a least one. *)
LEMMA LeastExists ==
  ASSUME NEW T \in SUBSET Nat, T # {}
  PROVE  \E x \in T : \A y \in T : x <= y
<1>1. IsWellFoundedOn(OpToRel(<, Nat), Nat)
  BY NatLessThanWellFounded
<1>2. PICK x \in T : \A y \in T : ~(<<y, x>> \in OpToRel(<, Nat))
  BY <1>1, WFMin
<1>3. \A y \in T : ~(y < x)
  <2> TAKE y \in T
  <2>1. <<y, x>> \in Nat \X Nat
    OBVIOUS
  <2>2. y < x => <<y, x>> \in OpToRel(<, Nat)
    BY <2>1, Zenon DEF OpToRel
  <2> QED
    BY <1>2, <2>2
<1> QED
  BY <1>3

(* A value matches as a codec when it names one the backend has. *)
LEMMA MatchesIs ==
  ASSUME NEW b, NEW value
  PROVE  Matches(b, "codec", value) = (CodecFromString(value) \in Descriptor[b].codecs)
BY DEF Matches

(* The rank that CHOOSE gives is the index of the first match, or one of the
   two ranks behind all values. *)
LEMMA RankForKeyIs ==
  ASSUME NEW b, NEW p \in Groups
  PROVE  \/ \E j \in DOMAIN p.values :
              /\ Matches(b, p.key, p.values[j])
              /\ \A k \in 1..(j - 1) : ~Matches(b, p.key, p.values[k])
              /\ RankForKey(b, p) = j - 1
         \/ /\ \A k \in DOMAIN p.values : ~Matches(b, p.key, p.values[k])
            /\ RankForKey(b, p) = IF Declares(b, p.key) THEN Len(p.values) + 1 ELSE Len(p.values)
<1> DEFINE n == Len(p.values)
           matching == {j \in 1..n : Matches(b, p.key, p.values[j])}
<1>1. n \in Nat /\ DOMAIN p.values = 1..n
  BY GroupsAssumption
<1>2. RankForKey(b, p) = IF matching # {} THEN (CHOOSE j \in matching : \A k \in matching : j <= k) - 1
                         ELSE IF Declares(b, p.key) THEN n + 1 ELSE n
  BY DEF RankForKey
<1>3. CASE matching = {}
  <2>1. \A k \in 1..n : ~Matches(b, p.key, p.values[k])
    BY <1>3
  <2>2. RankForKey(b, p) = IF Declares(b, p.key) THEN n + 1 ELSE n
    BY <1>2, <1>3
  <2> QED
    BY <2>1, <2>2, <1>1
<1>4. CASE matching # {}
  <2>1. \E j \in matching : \A k \in matching : j <= k
    <3>1. matching \in SUBSET Nat
      BY <1>1
    <3> HIDE DEF matching
    <3> QED
      BY <3>1, <1>4, LeastExists
  <2>2. PICK j \in matching : j = CHOOSE i \in matching : \A k \in matching : i <= k
    BY <2>1
  <2>3. \A k \in matching : j <= k
    BY <2>1, <2>2
  <2>4. RankForKey(b, p) = j - 1
    BY <1>2, <1>4, <2>2
  <2>5. \A k \in 1..(j - 1) : ~Matches(b, p.key, p.values[k])
    <3> TAKE k \in 1..(j - 1)
    <3>1. k \in 1..n /\ ~(j <= k)
      BY <1>1
    <3> QED
      BY <3>1, <2>3
  <2>6. Matches(b, p.key, p.values[j]) /\ j \in 1..n
    OBVIOUS
  <2> HIDE DEF matching
  <2> QED
    BY <1>1, <2>4, <2>5, <2>6
<1> QED
  BY <1>3, <1>4

(* A rank is a number. *)
LEMMA RankType ==
  ASSUME NEW b, NEW p \in Groups
  PROVE  RankForKey(b, p) \in Nat
<1>1. Len(p.values) \in Nat /\ DOMAIN p.values = 1..Len(p.values)
  BY GroupsAssumption
<1> QED
  BY <1>1, RankForKeyIs

(* A lower rank is what the documentation calls better service. *)
LEMMA LowerServesBetter ==
  ASSUME NEW a, NEW b, NEW p \in Groups
  PROVE  ServesBetter(a, b, p) <=> RankForKey(a, p) < RankForKey(b, p)
<1> DEFINE n == Len(p.values)
           M(c, j) == Matches(c, p.key, p.values[j])
           None(c) == \A j \in 1..n : ~M(c, j)
           First(c, j) == j \in 1..n /\ M(c, j) /\ \A k \in 1..(j - 1) : ~M(c, k)
           Rest(c) == IF Declares(c, p.key) THEN n + 1 ELSE n
           A == RankForKey(a, p)
           B == RankForKey(b, p)
<1>1. n \in Nat /\ DOMAIN p.values = 1..n
  BY GroupsAssumption
<1>2. (\E j : First(a, j) /\ A = j - 1) \/ (None(a) /\ A = Rest(a))
  BY <1>1, RankForKeyIs
<1>3. (\E j : First(b, j) /\ B = j - 1) \/ (None(b) /\ B = Rest(b))
  BY <1>1, RankForKeyIs
<1>4. ServesBetter(a, b, p) <=>
        \/ \E j \in 1..n : M(a, j) /\ \A k \in 1..j : ~M(b, k)
        \/ None(a) /\ None(b) /\ ~Declares(a, p.key) /\ Declares(b, p.key)
  BY <1>1 DEF ServesBetter
<1> HIDE DEF n, M, A, B
<1>5. CASE None(a) /\ A = Rest(a)
  <2>1. CASE None(b) /\ B = Rest(b)
    BY <1>1, <1>4, <1>5, <2>1 DEF A, B
  <2>2. ASSUME NEW j, First(b, j), B = j - 1
        PROVE  ServesBetter(a, b, p) <=> A < B
    BY <1>1, <1>4, <1>5, <2>2
  <2> QED
    BY <1>3, <2>1, <2>2 DEF A, B
<1>6. ASSUME NEW i, First(a, i), A = i - 1
      PROVE  ServesBetter(a, b, p) <=> A < B
  <2>1. CASE None(b) /\ B = Rest(b)
    BY <1>1, <1>4, <1>6, <2>1
  <2>2. ASSUME NEW j, First(b, j), B = j - 1
        PROVE  ServesBetter(a, b, p) <=> A < B
    <3>1. CASE i < j
      BY <1>1, <1>4, <1>6, <2>2, <3>1
    <3>2. CASE ~(i < j)
      <4>1. \A m \in 1..n : M(a, m) => i <= m
        BY <1>1, <1>6
      <4>2. \A m \in 1..n : M(a, m) => j \in 1..m
        BY <1>1, <1>6, <2>2, <3>2, <4>1
      <4> QED
        BY <1>1, <1>4, <1>6, <2>2, <3>2, <4>2
    <3> QED
      BY <3>1, <3>2
  <2> QED
    BY <1>3, <2>1, <2>2
<1> QED
  BY <1>2, <1>5, <1>6 DEF A, B

(* Backends of one rank serve a preference alike, and the other way round. *)
LEMMA AlikeIsSameRank ==
  ASSUME NEW a, NEW b, NEW p \in Groups
  PROVE  ServesAlike(a, b, p) <=> RankForKey(a, p) = RankForKey(b, p)
BY LowerServesBetter, RankType DEF ServesAlike

(* The order the code sorts by is the one that is documented. *)
LEMMA BeforeIsPreferred ==
  ASSUME preferences \in Seq(Groups), NEW a, NEW b
  PROVE  Before(a, b) <=> Preferred(a, b)
<1> DEFINE n == Len(preferences)
           s == ScoreBackend(a)
           t == ScoreBackend(b)
<1>1. n \in Nat /\ DOMAIN preferences = 1..n /\ \A i \in 1..n : preferences[i] \in Groups
  OBVIOUS
<1>2. /\ DOMAIN s = 1..n /\ DOMAIN t = 1..n
      /\ \A i \in 1..n : s[i] = RankForKey(a, preferences[i])
      /\ \A i \in 1..n : t[i] = RankForKey(b, preferences[i])
  BY <1>1 DEF ScoreBackend
<1>3. \A i \in 1..n : ServesBetter(a, b, preferences[i]) <=> s[i] < t[i]
  BY <1>1, <1>2, LowerServesBetter
<1>4. \A i \in 1..n : ServesAlike(a, b, preferences[i]) <=> s[i] = t[i]
  BY <1>1, <1>2, AlikeIsSameRank
<1>5. s = t <=> \A i \in 1..n : s[i] = t[i]
  BY <1>1, <1>2 DEF ScoreBackend
<1> HIDE DEF n, s, t
<1>6. Lexicographic(s, t) <=>
        \E i \in 1..n : /\ ServesBetter(a, b, preferences[i])
                        /\ \A j \in 1..(i - 1) : ServesAlike(a, b, preferences[j])
  BY <1>1, <1>2, <1>3, <1>4 DEF Lexicographic
<1>7. s = t <=> \A i \in 1..n : ServesAlike(a, b, preferences[i])
  BY <1>4, <1>5
<1>8. Before(a, b) <=>
        \/ Lexicographic(s, t)
        \/ /\ s = t
           /\ \/ Descriptor[a].hardware /\ ~Descriptor[b].hardware
              \/ /\ Descriptor[a].hardware = Descriptor[b].hardware
                 /\ Descriptor[a].name < Descriptor[b].name
  BY Zenon DEF Before, s, t
<1> QED
  BY <1>1, <1>6, <1>7, <1>8, Zenon DEF Preferred


(* Scores are lists of numbers of one length. *)
Scores(n) == [1..n -> Nat]

(* The score of a backend has one rank for each preference. *)
LEMMA ScoreType ==
  ASSUME preferences \in Seq(Groups), NEW b
  PROVE  ScoreBackend(b) \in Scores(Len(preferences))
<1>1. /\ DOMAIN preferences = 1..Len(preferences)
      /\ \A i \in DOMAIN preferences : RankForKey(b, preferences[i]) \in Nat
  BY RankType
<1> QED
  BY <1>1 DEF ScoreBackend, Scores

(* Of two scores at most one comes before the other, *)
LEMMA LexicographicIsAsymmetric ==
  ASSUME NEW n \in Nat, NEW s \in Scores(n), NEW t \in Scores(n), Lexicographic(s, t)
  PROVE  ~Lexicographic(t, s) /\ s # t
<1>1. PICK i \in 1..n : s[i] < t[i] /\ \A j \in 1..(i - 1) : s[j] = t[j]
  BY DEF Lexicographic, Scores
<1>2. ASSUME NEW k \in 1..n, t[k] < s[k], \A j \in 1..(k - 1) : t[j] = s[j]
      PROVE  FALSE
  BY <1>1, <1>2 DEF Scores
<1> QED
  BY <1>1, <1>2 DEF Lexicographic, Scores

(* what comes before one that comes before a third comes before the third, *)
LEMMA LexicographicIsTransitive ==
  ASSUME NEW n \in Nat, NEW s \in Scores(n), NEW t \in Scores(n), NEW u \in Scores(n),
         Lexicographic(s, t), Lexicographic(t, u)
  PROVE  Lexicographic(s, u)
<1>1. PICK i \in 1..n : s[i] < t[i] /\ \A j \in 1..(i - 1) : s[j] = t[j]
  BY DEF Lexicographic, Scores
<1>2. PICK k \in 1..n : t[k] < u[k] /\ \A j \in 1..(k - 1) : t[j] = u[j]
  BY DEF Lexicographic, Scores
<1>3. CASE i <= k
  <2>1. s[i] < u[i] /\ \A j \in 1..(i - 1) : s[j] = u[j]
    BY <1>1, <1>2, <1>3 DEF Scores
  <2> QED
    BY <2>1 DEF Lexicographic, Scores
<1>4. CASE k < i
  <2>1. s[k] < u[k] /\ \A j \in 1..(k - 1) : s[j] = u[j]
    BY <1>1, <1>2, <1>4 DEF Scores
  <2> QED
    BY <2>1 DEF Lexicographic, Scores
<1> QED
  BY <1>3, <1>4

(* and of two different scores one comes before the other. *)
LEMMA LexicographicIsTotal ==
  ASSUME NEW n \in Nat, NEW s \in Scores(n), NEW t \in Scores(n), s # t
  PROVE  Lexicographic(s, t) \/ Lexicographic(t, s)
<1> DEFINE T == {i \in 1..n : s[i] # t[i]}
<1>1. T # {} /\ T \in SUBSET Nat
  BY DEF Scores
<1>2. PICK i \in T : \A j \in T : i <= j
  <2> HIDE DEF T
  <2> QED
    BY <1>1, LeastExists
<1>3. i \in 1..n /\ s[i] # t[i]
  OBVIOUS
<1>4. \A j \in 1..(i - 1) : s[j] = t[j]
  <2> TAKE j \in 1..(i - 1)
  <2>1. j \in 1..n /\ ~(i <= j)
    BY <1>3
  <2> QED
    BY <1>2, <2>1
<1>5. s[i] < t[i] \/ t[i] < s[i]
  BY <1>3 DEF Scores
<1> QED
  BY <1>3, <1>4, <1>5 DEF Lexicographic, Scores

(* Before is a strict total order on the backends. *)
LEMMA BeforeIsAsymmetric ==
  ASSUME preferences \in Seq(Groups), NEW a \in Backends, NEW b \in Backends, Before(a, b)
  PROVE  ~Before(b, a)
<1> DEFINE s == ScoreBackend(a)
           t == ScoreBackend(b)
           n == Len(preferences)
<1>1. n \in Nat /\ s \in Scores(n) /\ t \in Scores(n)
  BY ScoreType
<1>2. Descriptor[a].name \in Nat /\ Descriptor[b].name \in Nat
  BY DescriptorAssumption
<1>3. \/ Lexicographic(s, t)
      \/ s = t /\ Descriptor[a].hardware /\ ~Descriptor[b].hardware
      \/ s = t /\ Descriptor[a].hardware = Descriptor[b].hardware
              /\ Descriptor[a].name < Descriptor[b].name
  BY Zenon DEF Before
<1>4. ASSUME Before(b, a)
      PROVE  \/ Lexicographic(t, s)
             \/ s = t /\ Descriptor[b].hardware /\ ~Descriptor[a].hardware
             \/ s = t /\ Descriptor[b].hardware = Descriptor[a].hardware
                     /\ Descriptor[b].name < Descriptor[a].name
  BY <1>4, Zenon DEF Before
<1> HIDE DEF s, t, n
<1>5. Lexicographic(s, t) => ~Lexicographic(t, s) /\ s # t
  BY <1>1, LexicographicIsAsymmetric
<1>6. Lexicographic(t, s) => s # t
  BY <1>1, LexicographicIsAsymmetric
<1>7. ~(Descriptor[a].name < Descriptor[b].name /\ Descriptor[b].name < Descriptor[a].name)
  BY <1>2
<1> QED
  BY <1>3, <1>4, <1>5, <1>6, <1>7, Zenon

(* The order is transitive, by score, hardware and name in turn, *)
LEMMA BeforeIsTransitive ==
  ASSUME preferences \in Seq(Groups), NEW a \in Backends, NEW b \in Backends,
         NEW c \in Backends, Before(a, b), Before(b, c)
  PROVE  Before(a, c)
<1> DEFINE s == ScoreBackend(a)
           t == ScoreBackend(b)
           u == ScoreBackend(c)
           n == Len(preferences)
           Tie(x, y) == \/ Descriptor[x].hardware /\ ~Descriptor[y].hardware
                        \/ /\ Descriptor[x].hardware = Descriptor[y].hardware
                           /\ Descriptor[x].name < Descriptor[y].name
<1>1. n \in Nat /\ s \in Scores(n) /\ t \in Scores(n) /\ u \in Scores(n)
  BY ScoreType
<1>2. /\ Descriptor[a].name \in Nat /\ Descriptor[b].name \in Nat /\ Descriptor[c].name \in Nat
      /\ Descriptor[a].hardware \in BOOLEAN
      /\ Descriptor[b].hardware \in BOOLEAN
      /\ Descriptor[c].hardware \in BOOLEAN
  BY DescriptorAssumption
<1>3. Lexicographic(s, t) \/ (s = t /\ Tie(a, b))
  BY Zenon DEF Before
<1>4. Lexicographic(t, u) \/ (t = u /\ Tie(b, c))
  BY Zenon DEF Before
<1>5. Tie(a, b) /\ Tie(b, c) => Tie(a, c)
  <2>1. Descriptor[a].name < Descriptor[b].name /\ Descriptor[b].name < Descriptor[c].name
        => Descriptor[a].name < Descriptor[c].name
    BY <1>2
  <2> QED
    BY <1>2, <2>1, Zenon
<1>6. Lexicographic(s, t) /\ Lexicographic(t, u) => Lexicographic(s, u)
  <2> HIDE DEF s, t, u, n
  <2> QED
    BY <1>1, LexicographicIsTransitive
<1>7. Lexicographic(s, u) \/ (s = u /\ Tie(a, c)) => Before(a, c)
  BY Zenon DEF Before
<1> HIDE DEF s, t, u, Tie
<1> QED
  BY <1>3, <1>4, <1>5, <1>6, <1>7, Zenon

(* and decides between any two backends, since no two have one name. *)
LEMMA BeforeIsTotal ==
  ASSUME preferences \in Seq(Groups), NEW a \in Backends, NEW b \in Backends, a # b
  PROVE  Before(a, b) \/ Before(b, a)
<1> DEFINE s == ScoreBackend(a)
           t == ScoreBackend(b)
           n == Len(preferences)
<1>1. n \in Nat /\ s \in Scores(n) /\ t \in Scores(n)
  BY ScoreType
<1>2. /\ Descriptor[a].name \in Nat /\ Descriptor[b].name \in Nat
      /\ Descriptor[a].hardware \in BOOLEAN /\ Descriptor[b].hardware \in BOOLEAN
      /\ Descriptor[a].name # Descriptor[b].name
  BY DescriptorAssumption
<1>3. Descriptor[a].name < Descriptor[b].name \/ Descriptor[b].name < Descriptor[a].name
  BY <1>2
<1>4. CASE s = t
  BY <1>2, <1>3, <1>4, Zenon DEF Before
<1>5. CASE s # t
  <2>1. Lexicographic(s, t) \/ Lexicographic(t, s)
    <3> HIDE DEF s, t, n
    <3> QED
      BY <1>1, <1>5, LexicographicIsTotal
  <2> QED
    BY <2>1, Zenon DEF Before
<1> QED
  BY <1>4, <1>5


(* The first n numbers are n. *)
LEMMA Interval ==
  ASSUME NEW n \in Nat
  PROVE  IsFiniteSet(1..n) /\ Cardinality(1..n) = n
<1>1. /\ IsFiniteSet(1..n)
      /\ Cardinality(1..n) = IF 1 > n THEN 0 ELSE n - 1 + 1
  BY FS_Interval
<1> QED
  BY <1>1

(* Those that come before the backend in place i. *)
Ahead(i) == {j \in DOMAIN registry : Before(registry[j], registry[i])}

(* Fewer than all are ahead of a backend, and more of one further behind. *)
LEMMA AheadGrows ==
  ASSUME registry \in Seq(Backends), IsInjective(registry), preferences \in Seq(Groups)
  PROVE  /\ \A i \in DOMAIN registry : Cardinality(Ahead(i)) \in 0..(Len(registry) - 1)
         /\ \A i, j \in DOMAIN registry :
              Before(registry[i], registry[j]) => Cardinality(Ahead(i)) < Cardinality(Ahead(j))
<1> DEFINE n == Len(registry)
<1>1. n \in Nat /\ DOMAIN registry = 1..n /\ \A i \in 1..n : registry[i] \in Backends
  OBVIOUS
<1>2. IsFiniteSet(1..n) /\ Cardinality(1..n) = n
  BY <1>1, Interval
<1>3. ASSUME NEW i \in 1..n
      PROVE  /\ IsFiniteSet(Ahead(i)) /\ Cardinality(Ahead(i)) \in Nat
             /\ Cardinality(Ahead(i)) < n
             /\ i \notin Ahead(i)
  <2>1. Ahead(i) \subseteq 1..n
    BY <1>1 DEF Ahead
  <2>2. i \notin Ahead(i)
    BY <1>1, BeforeIsAsymmetric DEF Ahead
  <2>3. /\ IsFiniteSet(Ahead(i)) /\ Cardinality(Ahead(i)) <= n
        /\ Cardinality(Ahead(i)) = n => Ahead(i) = 1..n
    BY <1>2, <2>1, FS_Subset, Zenon
  <2>4. Cardinality(Ahead(i)) \in Nat
    BY <2>3, FS_CardinalityType
  <2>5. Cardinality(Ahead(i)) # n
    BY <2>2, <2>3
  <2> QED
    BY <1>1, <2>2, <2>3, <2>4, <2>5
<1>4. ASSUME NEW i \in 1..n, NEW j \in 1..n, Before(registry[i], registry[j])
      PROVE  Cardinality(Ahead(i)) < Cardinality(Ahead(j))
  <2>1. Ahead(i) \subseteq Ahead(j)
    BY <1>1, <1>4, BeforeIsTransitive DEF Ahead
  <2>2. i \in Ahead(j)
    BY <1>1, <1>4 DEF Ahead
  <2>3. /\ Cardinality(Ahead(i)) <= Cardinality(Ahead(j))
        /\ Cardinality(Ahead(i)) = Cardinality(Ahead(j)) => Ahead(i) = Ahead(j)
    BY <1>3, <2>1, FS_Subset, Zenon
  <2> QED
    BY <1>3, <2>2, <2>3
<1> HIDE DEF n
<1>5. \A i \in 1..n : Cardinality(Ahead(i)) \in 0..(n - 1)
  BY <1>1, <1>3
<1> QED
  BY <1>1, <1>4, <1>5 DEF n

(* Ranked has the registered backends in the order of Before. *)
LEMMA RankedIsSorted ==
  ASSUME registry \in Seq(Backends), IsInjective(registry), preferences \in Seq(Groups)
  PROVE  /\ Ranked \in Seq(Backends)
         /\ ToSet(Ranked) = Registered
         /\ \A k, l \in DOMAIN Ranked : k < l => Before(Ranked[k], Ranked[l])
<1> DEFINE n == Len(registry)
           place(k) == CHOOSE i \in 1..n : Cardinality(Ahead(i)) = k - 1
<1>1. n \in Nat /\ DOMAIN registry = 1..n /\ \A i \in 1..n : registry[i] \in Backends
  OBVIOUS
<1>2. ASSUME NEW i \in 1..n
      PROVE  {j \in 1..n : \/ Before(registry[j], registry[i])
                           \/ j < i /\ ~Before(registry[i], registry[j])} = Ahead(i)
  <2>1. ASSUME NEW j \in 1..n, j < i, ~Before(registry[i], registry[j])
        PROVE  Before(registry[j], registry[i])
    <3>1. registry[j] # registry[i]
      BY <1>1, <2>1 DEF IsInjective
    <3> QED
      BY <1>1, <2>1, <3>1, BeforeIsTotal
  <2> QED
    BY <1>1, <2>1 DEF Ahead
<1>3. Ranked = [k \in 1..n |-> registry[place(k)]]
  <2> DEFINE D == DOMAIN registry
             first(k) == CHOOSE i \in D :
               Cardinality({j \in D :
                 \/ Before(registry[j], registry[i])
                 \/ j < i /\ ~Before(registry[i], registry[j])}) = k - 1
  <2>1. Ranked = [k \in D |-> registry[first(k)]]
    BY DEF Ranked
  <2>2. \A k \in 1..n : first(k) = place(k)
    BY <1>1, <1>2
  <2>3. D = 1..n
    BY <1>1
  <2> HIDE DEF D, n, first, place
  <2> QED
    BY <2>1, <2>2, <2>3
<1>4. ASSUME NEW k \in 1..n
      PROVE  place(k) \in 1..n /\ Cardinality(Ahead(place(k))) = k - 1
  <2> DEFINE f == [i \in 1..n |-> 1 + Cardinality(Ahead(i))]
  <2>1. f \in [1..n -> 1..n]
    BY <1>1, AheadGrows
  <2>2. ASSUME NEW i \in 1..n, NEW j \in 1..n, f[i] = f[j], i # j
        PROVE  FALSE
    <3>1. registry[j] # registry[i]
      BY <1>1, <2>2 DEF IsInjective
    <3>2. Before(registry[i], registry[j]) \/ Before(registry[j], registry[i])
      BY <1>1, <3>1, BeforeIsTotal
    <3>3. Cardinality(Ahead(i)) \in Nat /\ Cardinality(Ahead(j)) \in Nat
      BY <1>1, AheadGrows
    <3>4. Cardinality(Ahead(i)) < Cardinality(Ahead(j)) \/ Cardinality(Ahead(j)) < Cardinality(Ahead(i))
      BY <1>1, <3>2, AheadGrows
    <3> QED
      BY <2>2, <3>3, <3>4
  <2>3. f \in Injection(1..n, 1..n)
    BY <2>1, <2>2 DEF Injection, IsInjective
  <2>4. f \in Surjection(1..n, 1..n)
    <3>1. IsFiniteSet(1..n)
      BY <1>1, Interval
    <3> HIDE DEF f
    <3> QED
      BY <2>3, <3>1, FS_Injection, Zenon
  <2>5. PICK i \in 1..n : f[i] = k
    BY <2>4 DEF Surjection
  <2>6. Cardinality(Ahead(i)) = k - 1
    BY <1>1, <2>5, AheadGrows
  <2> QED
    BY <2>6
<1>5. ASSUME NEW i \in 1..n
      PROVE  \E k \in 1..n : place(k) = i
  <2> DEFINE k == 1 + Cardinality(Ahead(i))
  <2>1. k \in 1..n /\ Cardinality(Ahead(i)) = k - 1
    BY <1>1, AheadGrows
  <2>2. place(k) \in 1..n /\ Cardinality(Ahead(place(k))) = Cardinality(Ahead(i))
    BY <1>4, <2>1
  <2>3. place(k) = i
    <3> SUFFICES ASSUME place(k) # i
                 PROVE  FALSE
      OBVIOUS
    <3> HIDE DEF place
    <3>1. registry[place(k)] # registry[i]
      BY <1>1, <2>2 DEF IsInjective
    <3>2. Before(registry[place(k)], registry[i]) \/ Before(registry[i], registry[place(k)])
      BY <1>1, <2>2, <3>1, BeforeIsTotal
    <3> QED
      BY <1>1, <2>1, <2>2, <3>2, AheadGrows
  <2> QED
    BY <2>1, <2>3
<1>6. ASSUME NEW k \in 1..n, NEW l \in 1..n, k < l
      PROVE  Before(registry[place(k)], registry[place(l)])
  <2>1. /\ place(k) \in 1..n /\ Cardinality(Ahead(place(k))) = k - 1
        /\ place(l) \in 1..n /\ Cardinality(Ahead(place(l))) = l - 1
    BY <1>4
  <2> HIDE DEF place
  <2>2. place(k) # place(l)
    BY <1>1, <1>6, <2>1
  <2>3. registry[place(k)] # registry[place(l)]
    BY <1>1, <2>1, <2>2 DEF IsInjective
  <2>4. ~Before(registry[place(l)], registry[place(k)])
    <3>1. Before(registry[place(l)], registry[place(k)]) => l - 1 < k - 1
      BY <1>1, <2>1, AheadGrows
    <3> QED
      BY <1>1, <1>6, <3>1
  <2> QED
    BY <1>1, <2>1, <2>3, <2>4, BeforeIsTotal
<1> HIDE DEF place, n
<1>7. Ranked \in Seq(Backends)
  BY <1>1, <1>3, <1>4
<1>8. ToSet(Ranked) = ToSet(registry)
  BY <1>1, <1>3, <1>4, <1>5 DEF ToSet
<1> QED
  BY <1>3, <1>6, <1>7, <1>8 DEF Registered


(* SelectInSeq gives the first place that passes the test, or 0. *)
LEMMA SelectInSeqIs ==
  ASSUME NEW s, Len(s) \in Nat, NEW I, I \in SUBSET (1..Len(s)), NEW first,
         first = IF I # {} THEN Min(I) ELSE 0
  PROVE  \/ I = {} /\ first = 0
         \/ first \in I /\ \A i \in 1..(first - 1) : i \notin I
<1>1. CASE I = {}
  BY <1>1
<1>2. CASE I # {}
  <2>1. \E x \in I : \A y \in I : x <= y
    BY <1>2, LeastExists
  <2>2. first \in I /\ \A y \in I : first <= y
    BY <1>2, <2>1 DEF Min
  <2>3. \A i \in 1..(first - 1) : i \notin I
    <3> TAKE i \in 1..(first - 1)
    <3>1. first \in Nat /\ ~(first <= i)
      BY <2>2
    <3> QED
      BY <2>2, <3>1
  <2> QED
    BY <2>2, <2>3
<1> QED
  BY <1>1, <1>2

(* What CreateEncoder gives: the first of the ranked backends that is available. *)
LEMMA CreateEncoderIs ==
  ASSUME TypeOK, CreateEncoder
  PROVE  \/ result' = NoEncoder /\ \A b \in Registered : ~Available(b)
         \/ \E best \in DOMAIN Ranked :
              /\ Available(Ranked[best])
              /\ \A i \in 1..(best - 1) : ~Available(Ranked[i])
              /\ result' = [backend |-> Ranked[best], codec |-> CodecFor(Ranked[best]),
                            probed |-> {Ranked[i] : i \in 1..best}]
<1> DEFINE ranked == Ranked
           I == {i \in 1..Len(ranked) : Available(ranked[i])}
           first == IF I # {} THEN Min(I) ELSE 0
<1>1. /\ Len(ranked) \in Nat /\ DOMAIN ranked = 1..Len(ranked)
      /\ ToSet(ranked) = Registered
  BY RankedIsSorted DEF TypeOK
<1>2. result' = IF first = 0 THEN NoEncoder
                ELSE [backend |-> ranked[first], codec |-> CodecFor(ranked[first]),
                      probed |-> {ranked[i] : i \in 1..first}]
  BY DEF CreateEncoder, SelectInSeq
<1>3. I \in SUBSET (1..Len(ranked))
  OBVIOUS
<1>4. \/ I = {} /\ first = 0
      \/ first \in I /\ \A i \in 1..(first - 1) : i \notin I
  <2> HIDE DEF I, ranked
  <2> QED
    BY <1>1, <1>3, SelectInSeqIs
<1>5. CASE I = {} /\ first = 0
  <2>1. \A b \in Registered : ~Available(b)
    BY <1>1, <1>5 DEF ToSet
  <2> HIDE DEF first
  <2> QED
    BY <1>2, <1>5, <2>1
<1>6. CASE first \in I /\ \A i \in 1..(first - 1) : i \notin I
  <2> HIDE DEF first
  <2>1. first \in 1..Len(ranked) /\ Available(ranked[first])
    BY <1>6
  <2>2. \A i \in 1..(first - 1) : ~Available(ranked[i])
    <3> TAKE i \in 1..(first - 1)
    <3>1. i \in 1..Len(ranked)
      BY <1>1, <2>1
    <3> QED
      BY <1>6, <3>1
  <2>3. first # 0
    BY <2>1
  <2> HIDE DEF I, ranked
  <2> QED
    BY <1>1, <1>2, <2>1, <2>2, <2>3 DEF ranked
<1> QED
  BY <1>4, <1>5, <1>6

(* The codec the encoder is set to is one its backend has, and the strongest it
   matches when codecs come first. *)
LEMMA CodecForIs ==
  ASSUME TypeOK, NEW b \in Backends
  PROVE  /\ CodecFor(b) \in Descriptor[b].codecs
         /\ preferences # <<>> /\ preferences[1].key = "codec" =>
              \A j \in DOMAIN preferences[1].values :
                /\ Matches(b, "codec", preferences[1].values[j])
                /\ \A k \in 1..(j - 1) : ~Matches(b, "codec", preferences[1].values[k])
                => CodecFor(b) = CodecFromString(preferences[1].values[j])
<1> DEFINE wanted == {i \in DOMAIN preferences : preferences[i].key = "codec"}
           values == IF wanted = {} THEN <<>> ELSE preferences[CHOOSE i \in wanted : TRUE].values
           I == {i \in 1..Len(values) : Matches(b, "codec", values[i])}
           first == IF I # {} THEN Min(I) ELSE 0
<1>1. CodecFor(b) = IF first = 0 THEN Descriptor[b].default ELSE CodecFromString(values[first])
  BY DEF CodecFor, SelectInSeq
<1>2. values \in Seq(STRING)
  <2>1. CASE wanted = {}
    BY <2>1
  <2>2. CASE wanted # {}
    <3>1. PICK i \in wanted : i = CHOOSE k \in wanted : TRUE
      BY <2>2
    <3>2. values = preferences[i].values /\ preferences[i] \in Groups
      BY <2>2, <3>1 DEF TypeOK
    <3> HIDE DEF values
    <3> QED
      BY <3>2, GroupsAssumption
  <2> QED
    BY <2>1, <2>2
<1>3. Len(values) \in Nat /\ DOMAIN values = 1..Len(values)
  <2> HIDE DEF values
  <2> QED
    BY <1>2
<1>4. \/ I = {} /\ first = 0
      \/ first \in I /\ \A i \in 1..(first - 1) : i \notin I
  <2>1. I \in SUBSET (1..Len(values))
    OBVIOUS
  <2> HIDE DEF I, values
  <2> QED
    BY <1>3, <2>1, SelectInSeqIs
<1>5. CodecFor(b) \in Descriptor[b].codecs
  <2>1. Descriptor[b].default \in Descriptor[b].codecs
    BY DescriptorAssumption
  <2>2. first \in I => CodecFromString(values[first]) \in Descriptor[b].codecs
    <3> HIDE DEF first, values
    <3> QED
      BY MatchesIs
  <2>3. first \in I => first # 0
    <3> HIDE DEF first, values
    <3> QED
      OBVIOUS
  <2> HIDE DEF first, values, I
  <2> QED
    BY <1>1, <1>4, <2>1, <2>2, <2>3
<1>6. ASSUME preferences # <<>>, preferences[1].key = "codec",
             NEW j \in DOMAIN preferences[1].values,
             Matches(b, "codec", preferences[1].values[j]),
             \A k \in 1..(j - 1) : ~Matches(b, "codec", preferences[1].values[k])
      PROVE  CodecFor(b) = CodecFromString(preferences[1].values[j])
  <2>1. 1 \in wanted /\ \A i \in wanted : i = 1
    BY <1>6 DEF TypeOK
  <2>2. values = preferences[1].values
    <3>1. wanted # {} /\ (CHOOSE i \in wanted : TRUE) = 1
      BY <2>1
    <3> QED
      BY <3>1
  <2> HIDE DEF values
  <2>3. j \in I /\ \A k \in 1..(j - 1) : k \notin I
    BY <1>3, <1>6, <2>2
  <2>4. I \in SUBSET Nat
    BY <1>3
  <2> HIDE DEF first, I
  <2>5. first = j
    <3>1. first \in I /\ \A i \in 1..(first - 1) : i \notin I
      BY <1>4, <2>3
    <3>2. 1 <= first /\ 1 <= j /\ first \in Nat /\ j \in Nat
      BY <2>3, <3>1, <1>3 DEF I
    <3> QED
      BY <2>3, <3>1, <3>2
  <2>6. first # 0
    BY <1>3, <2>3, <2>5 DEF I
  <2> QED
    BY <1>1, <2>2, <2>5, <2>6
<1> QED
  BY <1>5, <1>6


(* As long as preferences and registry stay, so does what they mean. *)
LEMMA PreferredStays ==
  ASSUME UNCHANGED preferences, NEW a, NEW b
  PROVE  Preferred(a, b)' <=> Preferred(a, b)
BY DEF Preferred

(* Who is available depends on the machine alone. *)
LEMMA AvailableStays ==
  ASSUME UNCHANGED <<registry, usable>>
  PROVE  /\ Registered' = Registered
         /\ \A b : Available(b)' <=> Available(b)
         /\ \A codec : CheckAvailability(codec)' <=> CheckAvailability(codec)
<1>1. Registered' = Registered
  BY DEF Registered
<1>2. \A b : Available(b)' <=> Available(b)
  BY DEF Available
<1>3. \A codec : CheckAvailability(codec)' <=> CheckAvailability(codec)
  BY <1>1, <1>2 DEF CheckAvailability
<1> QED
  BY <1>1, <1>2, <1>3

(* An encoder that CreateEncoder may give. *)
LEMMA EncoderType ==
  ASSUME TypeOK, NEW best \in DOMAIN Ranked
  PROVE  [backend |-> Ranked[best], codec |-> CodecFor(Ranked[best]),
          probed |-> {Ranked[i] : i \in 1..best}] \in Results
<1>1. Ranked \in Seq(Backends)
  BY RankedIsSorted DEF TypeOK
<1>2. Ranked[best] \in Backends /\ \A i \in 1..best : Ranked[i] \in Backends
  BY <1>1
<1>3. CodecFor(Ranked[best]) \in Codecs
  BY <1>2, CodecForIs, DescriptorAssumption
<1>4. {Ranked[i] : i \in 1..best} \in SUBSET Backends
  BY <1>2
<1> QED
  BY <1>2, <1>3, <1>4 DEF Results

(* So has whatever it gives. *)
LEMMA CreateEncoderType ==
  ASSUME TypeOK, CreateEncoder
  PROVE  result' \in Results \cup {NoEncoder}
BY CreateEncoderIs, EncoderType

(* What CreateEncoder gives is the best of the available ones. *)
LEMMA CreateEncoderChoosesBest ==
  ASSUME TypeOK, CreateEncoder
  PROVE  ChosenIsBest'
<1> DEFINE candidates == {b \in Registered : Available(b)}
<1>1. UNCHANGED <<registry, preferences, asked, usable>>
  BY DEF CreateEncoder
<1>2. candidates' = candidates
  BY <1>1, AvailableStays
<1>3. /\ Ranked \in Seq(Backends) /\ ToSet(Ranked) = Registered
      /\ \A k, l \in DOMAIN Ranked : k < l => Before(Ranked[k], Ranked[l])
  BY RankedIsSorted DEF TypeOK
<1>4. Len(Ranked) \in Nat /\ DOMAIN Ranked = 1..Len(Ranked)
  BY <1>3
<1>5. Registered \subseteq Backends
  BY <1>3 DEF ToSet
<1>6. CASE result' = NoEncoder /\ \A b \in Registered : ~Available(b)
  <2>1. candidates = {}
    BY <1>6
  <2> HIDE DEF candidates
  <2> QED
    BY <1>2, <1>6, <2>1 DEF ChosenIsBest, candidates
<1>7. ASSUME NEW best \in DOMAIN Ranked,
             Available(Ranked[best]),
             \A i \in 1..(best - 1) : ~Available(Ranked[i]),
             result' = [backend |-> Ranked[best], codec |-> CodecFor(Ranked[best]),
                        probed |-> {Ranked[i] : i \in 1..best}]
      PROVE  ChosenIsBest'
  <2> PICK c : c = Ranked[best]
    OBVIOUS
  <2>1. c \in candidates /\ c \in Backends
    BY <1>3, <1>7 DEF ToSet
  <2>2. ASSUME NEW b \in candidates \ {c}
        PROVE  Preferred(c, b)
    <3>1. PICK i \in DOMAIN Ranked : Ranked[i] = b
      BY <1>3, <2>2 DEF ToSet
    <3>2. Available(Ranked[i]) /\ i # best
      BY <2>2, <3>1
    <3>3. best < i
      BY <1>4, <1>7, <3>2
    <3>4. Before(c, b)
      BY <1>3, <3>1, <3>3
    <3> QED
      BY <3>4, BeforeIsPreferred DEF TypeOK
  <2>3. {Ranked[i] : i \in 1..best} \ {c} = {b \in Registered : Preferred(b, c)}
    <3>1. ASSUME NEW i \in 1..best, Ranked[i] # c
          PROVE  Ranked[i] \in Registered /\ Preferred(Ranked[i], c)
      <4>1. i \in DOMAIN Ranked /\ i < best
        BY <1>4, <3>1
      <4>2. Before(Ranked[i], c)
        BY <1>3, <4>1
      <4> QED
        BY <1>3, <4>1, <4>2, BeforeIsPreferred DEF TypeOK, ToSet
    <3>2. ASSUME NEW b \in Registered, Preferred(b, c)
          PROVE  b # c /\ \E i \in 1..best : Ranked[i] = b
      <4>1. Before(b, c)
        BY <3>2, BeforeIsPreferred DEF TypeOK
      <4>2. b \in Backends /\ ~Before(c, b)
        BY <1>5, <2>1, <4>1, BeforeIsAsymmetric DEF TypeOK
      <4>3. PICK i \in DOMAIN Ranked : Ranked[i] = b
        BY <1>3 DEF ToSet
      <4>4. ~(best < i)
        BY <1>3, <4>2, <4>3
      <4> QED
        BY <1>4, <4>1, <4>2, <4>3, <4>4
    <3> QED
      BY <3>1, <3>2
  <2>4. result'.backend = c /\ result'.probed = {Ranked[i] : i \in 1..best}
    BY <1>7
  <2>5. result' # NoEncoder
    <3>1. result' \in Results
      BY <1>7, EncoderType
    <3> QED
      BY <3>1, NullAssumption
  <2> HIDE DEF candidates
  <2>6. /\ c \in candidates'
        /\ \A b \in candidates' \ {c} : Preferred(c, b)'
    BY <1>1, <1>2, <2>1, <2>2, PreferredStays
  <2>7. {b \in Registered' : Preferred(b, c)'} = {b \in Registered : Preferred(b, c)}
    BY <1>1, AvailableStays, PreferredStays
  <2> QED
    BY <2>3, <2>4, <2>5, <2>6, <2>7 DEF ChosenIsBest, candidates
<1> QED
  BY <1>6, <1>7, CreateEncoderIs


(* The encoder it gives is set to the strongest codec that can be had. *)
LEMMA CreateEncoderSetsCodec ==
  ASSUME TypeOK, CreateEncoder
  PROVE  StrongestCodecHonoured'
<1>1. UNCHANGED <<registry, preferences, asked, usable>>
  BY DEF CreateEncoder
<1>2. CASE result' = NoEncoder
  BY <1>2, NullAssumption DEF StrongestCodecHonoured
<1>3. ASSUME NEW best \in DOMAIN Ranked,
             Available(Ranked[best]),
             result' = [backend |-> Ranked[best], codec |-> CodecFor(Ranked[best]),
                        probed |-> {Ranked[i] : i \in 1..best}]
      PROVE  StrongestCodecHonoured'
  <2> PICK c : c = Ranked[best]
    OBVIOUS
  <2>1. /\ Ranked \in Seq(Backends) /\ ToSet(Ranked) = Registered
        /\ preferences \in Seq(Groups)
        /\ registry \in Seq(Backends)
    BY RankedIsSorted DEF TypeOK
  <2>2. c \in Registered /\ Available(c) /\ c \in Backends /\ Registered \subseteq Backends
    <3>1. c \in Registered /\ c \in Backends
      BY <2>1 DEF ToSet
    <3>2. Registered \subseteq Backends
      BY <2>1 DEF ToSet, Registered
    <3> QED
      BY <1>3, <3>1, <3>2
  <2>3. result'.backend = c /\ result'.codec = CodecFor(c)
    BY <1>3
  <2>4. ASSUME NEW d \in Registered, Available(d), d # c
        PROVE  ~Preferred(d, c)
    <3>1. ChosenIsBest'
      BY CreateEncoderChoosesBest
    <3>2. result' \in Results
      BY <1>3, EncoderType
    <3>3. result' # NoEncoder /\ result' # NoCall
      BY <3>2, NullAssumption
    <3>4. d \in Registered' /\ Available(d)'
      BY <1>1, <2>4, AvailableStays
    <3>5. Preferred(c, d)'
      BY <2>3, <2>4, <3>1, <3>3, <3>4 DEF ChosenIsBest
    <3>6. Before(c, d)
      BY <1>1, <2>1, <3>5, PreferredStays, BeforeIsPreferred
    <3> QED
      BY <2>1, <2>2, <3>6, BeforeIsAsymmetric, BeforeIsPreferred
  <2>5. ASSUME preferences # <<>>, preferences[1].key = "codec",
               NEW j \in DOMAIN preferences[1].values,
               CheckAvailability(CodecFromString(preferences[1].values[j])),
               \A k \in 1..(j - 1) : ~CheckAvailability(CodecFromString(preferences[1].values[k]))
        PROVE  CodecFor(c) = CodecFromString(preferences[1].values[j])
    <3> PICK p : p = preferences[1]
      OBVIOUS
    <3>1. p \in Groups /\ p.values \in Seq(STRING) /\ p.key = "codec" /\ 1 \in DOMAIN preferences
      BY <2>1, <2>5, GroupsAssumption
    <3>2. \A k \in 1..(j - 1) : ~Matches(c, "codec", p.values[k])
      BY <2>2, <2>5, MatchesIs DEF CheckAvailability
    <3>3. Matches(c, "codec", p.values[j])
      <4> SUFFICES ASSUME ~Matches(c, "codec", p.values[j])
                   PROVE  FALSE
        OBVIOUS
      <4>1. PICK d \in Registered : Matches(d, "codec", p.values[j]) /\ Available(d)
        BY <2>5, MatchesIs DEF CheckAvailability
      <4>2. j \in DOMAIN p.values /\ j \in Nat
        BY <2>5, <3>1
      <4>3. \A k \in 1..j : ~Matches(c, "codec", p.values[k])
        BY <3>2, <4>2
      <4>4. ServesBetter(d, c, p)
        BY <3>1, <4>1, <4>2, <4>3 DEF ServesBetter
      <4>5. Preferred(d, c)
        BY <3>1, <4>4 DEF Preferred
      <4>6. d # c
        BY <4>1
      <4> QED
        BY <2>4, <4>1, <4>5, <4>6
    <3> QED
      BY <2>1, <2>2, <2>5, <3>2, <3>3, CodecForIs
  <2>6. CodecFor(c) \in Descriptor[c].codecs
    BY <2>2, CodecForIs
  <2>7. UNCHANGED <<registry, usable>>
    BY <1>1
  <2> QED
    BY <1>1, <2>3, <2>5, <2>6, <2>7, AvailableStays DEF StrongestCodecHonoured
<1> QED
  BY <1>2, <1>3, CreateEncoderIs


(* A fold over a string works through its parts one after the other. *)
Fold(iter, s, groups) ==
  IF s = {} THEN <<>> ELSE PutGroup(iter[s \ {Max(s)}], groups[Max(s)])

(* Max of some of the first n numbers is the greatest of them. *)
LEMMA GreatestIs ==
  ASSUME NEW n \in Nat, NEW s \in SUBSET (1..n), s # {}
  PROVE  Max(s) \in s /\ \A x \in s : x <= Max(s)
<1> DEFINE T == {n - x : x \in s}
<1>1. T \in SUBSET Nat /\ T # {}
  <2>1. \A x \in s : n - x \in Nat
    OBVIOUS
  <2>2. PICK x \in s : TRUE
    OBVIOUS
  <2>3. n - x \in T
    OBVIOUS
  <2> QED
    BY <2>1, <2>3
<1>2. PICK y \in T : \A z \in T : y <= z
  <2> HIDE DEF T
  <2> QED
    BY <1>1, LeastExists
<1>3. PICK x \in s : y = n - x
  OBVIOUS
<1>4. \A z \in s : x >= z
  <2> TAKE z \in s
  <2>1. n - x <= n - z
    BY <1>2, <1>3
  <2>2. x \in Int /\ z \in Int
    OBVIOUS
  <2> QED
    BY <2>1, <2>2
<1>5. Max(s) \in s /\ \A z \in s : Max(s) >= z
  BY <1>4 DEF Max
<1> QED
  BY <1>5

(* There is a function that the fold's equation defines, *)
LEMMA FoldExists ==
  ASSUME NEW groups \in Seq(Groups), NEW D, D = DOMAIN groups
  PROVE  \E iter : iter = [s \in SUBSET D |-> Fold(iter, s, groups)]
<1> DEFINE Upto(n) == \E h : /\ h = [s \in SUBSET D |-> h[s]]
                             /\ \A s \in SUBSET D : Cardinality(s) <= n => h[s] = Fold(h, s, groups)
           Wrong == {n \in Nat : ~Upto(n)}
<1>1. PICK N \in Nat : D = 1..N
  OBVIOUS
<1>2. \A s \in SUBSET D : IsFiniteSet(s) /\ Cardinality(s) \in Nat /\ Cardinality(s) <= N
  <2> TAKE s \in SUBSET D
  <2>1. IsFiniteSet(D) /\ Cardinality(D) = N
    BY <1>1, Interval
  <2>2. IsFiniteSet(s) /\ Cardinality(s) <= N
    BY <2>1, FS_Subset
  <2> QED
    BY <2>2, FS_CardinalityType
<1>3. Upto(0)
  <2> DEFINE h == [s \in SUBSET D |-> <<>>]
  <2>1. \A s \in SUBSET D : Cardinality(s) <= 0 => s = {}
    <3> TAKE s \in SUBSET D
    <3>1. IsFiniteSet(s) /\ (Cardinality(s) <= 0 => Cardinality(s) = 0)
      BY <1>2
    <3> QED
      BY <3>1, FS_EmptySet
  <2>2. \A s \in SUBSET D : Cardinality(s) <= 0 => h[s] = Fold(h, s, groups)
    BY <2>1 DEF Fold
  <2>3. h = [s \in SUBSET D |-> h[s]]
    OBVIOUS
  <2> QED
    BY <2>2, <2>3
<1>4. ASSUME NEW n \in Nat, Upto(n)
      PROVE  Upto(n + 1)
  <2> PICK h : /\ h = [s \in SUBSET D |-> h[s]]
               /\ \A s \in SUBSET D : Cardinality(s) <= n => h[s] = Fold(h, s, groups)
    BY <1>4
  <2> DEFINE g == [s \in SUBSET D |-> Fold(h, s, groups)]
  <2>1. ASSUME NEW s \in SUBSET D, Cardinality(s) <= n + 1
        PROVE  g[s] = Fold(g, s, groups)
    <3>1. CASE s = {}
      BY <3>1 DEF Fold
    <3>2. CASE s # {}
      <4> DEFINE t == s \ {Max(s)}
      <4>1. Max(s) \in s
        BY <1>1, <3>2, GreatestIs
      <4>2. t \in SUBSET D /\ Cardinality(t) <= n
        <5>1. Cardinality(t) = Cardinality(s) - 1
          BY <1>2, <4>1, FS_RemoveElement
        <5> QED
          BY <1>2, <2>1, <5>1
      <4>3. g[t] = h[t]
        BY <4>2
      <4> QED
        BY <3>2, <4>3 DEF Fold
    <3> QED
      BY <3>1, <3>2
  <2>2. g = [s \in SUBSET D |-> g[s]]
    OBVIOUS
  <2> HIDE DEF g
  <2> QED
    BY <2>1, <2>2
<1>5. Wrong = {}
  <2> SUFFICES ASSUME Wrong # {}
               PROVE  FALSE
    OBVIOUS
  <2>1. Wrong \in SUBSET Nat
    OBVIOUS
  <2>2. PICK n \in Wrong : \A m \in Wrong : n <= m
    <3> HIDE DEF Wrong
    <3> QED
      BY <2>1, LeastExists
  <2>3. n \in Nat /\ ~Upto(n)
    OBVIOUS
  <2> HIDE DEF Upto
  <2>4. n # 0
    BY <1>3, <2>3
  <2>5. n - 1 \in Nat /\ (n - 1) + 1 = n
    BY <2>3, <2>4
  <2>6. Upto(n - 1)
    BY <2>2, <2>3, <2>5
  <2> QED
    BY <1>4, <2>3, <2>5, <2>6
<1>6. Upto(N)
  <2> HIDE DEF Upto
  <2> QED
    BY <1>1, <1>5
<1>7. PICK h : /\ h = [s \in SUBSET D |-> h[s]]
               /\ \A s \in SUBSET D : Cardinality(s) <= N => h[s] = Fold(h, s, groups)
  BY <1>6
<1>8. \A s \in SUBSET D : h[s] = Fold(h, s, groups)
  BY <1>2, <1>7
<1>9. h = [s \in SUBSET D |-> Fold(h, s, groups)]
  BY <1>7, <1>8
<1> QED
  BY <1>9

(* so FoldLeft puts the parts in one after the other. *)
LEMMA FoldIsStepwise ==
  ASSUME NEW groups \in Seq(Groups)
  PROVE  \E h : /\ h[0] = <<>>
                /\ \A n \in 1..Len(groups) : h[n] = PutGroup(h[n - 1], groups[n])
                /\ FoldLeft(PutGroup, <<>>, groups) = h[Len(groups)]
<1> DEFINE D == DOMAIN groups
           N == Len(groups)
           G == CHOOSE iter : iter = [s \in SUBSET D |-> Fold(iter, s, groups)]
           h == [n \in 0..N |-> G[1..n]]
<1>1. N \in Nat /\ D = 1..N
  OBVIOUS
<1>2. FoldLeft(PutGroup, <<>>, groups) = G[D]
  BY DEF FoldLeft, MapThenFoldSet, Fold
<1>3. G = [s \in SUBSET D |-> Fold(G, s, groups)]
  <2>1. \E iter : iter = [s \in SUBSET D |-> Fold(iter, s, groups)]
    BY FoldExists, Zenon
  <2> QED
    BY <2>1, Zenon
<1> HIDE DEF G, D, N
<1>4. h[0] = <<>>
  <2>1. 1..0 = {} /\ {} \in SUBSET D /\ 0 \in 0..N
    BY <1>1
  <2>2. h[0] = Fold(G, {}, groups)
    BY <1>3, <2>1
  <2> QED
    BY <2>2 DEF Fold
<1>5. ASSUME NEW n \in 1..N
      PROVE  h[n] = PutGroup(h[n - 1], groups[n])
  <2>1. n \in 0..N /\ n - 1 \in 0..N /\ 1..n \in SUBSET D /\ 1..n # {}
    BY <1>1
  <2>2. Max(1..n) = n
    <3>1. Max(1..n) \in 1..n /\ \A x \in 1..n : x <= Max(1..n)
      BY <1>1, <2>1, GreatestIs
    <3>2. n <= Max(1..n) /\ Max(1..n) <= n
      BY <1>1, <3>1
    <3> QED
      BY <1>1, <3>1, <3>2
  <2>3. (1..n) \ {n} = 1..(n - 1)
    BY <1>1
  <2>4. h[n] = Fold(G, 1..n, groups)
    BY <1>3, <2>1
  <2>5. Fold(G, 1..n, groups) = PutGroup(G[1..(n - 1)], groups[n])
    BY <2>1, <2>2, <2>3 DEF Fold
  <2> QED
    BY <2>1, <2>4, <2>5
<1>6. G[D] = h[N]
  BY <1>1
<1> HIDE DEF h
<1> QED
  BY <1>2, <1>4, <1>5, <1>6 DEF N


(* The list l has the first n parts of a string: each key once, where it was
   first named, with the values it was last given. *)
Lists(groups, n, l) ==
  /\ l \in Seq(Groups)
  /\ \A i, j \in DOMAIN l : l[i].key = l[j].key => i = j
  /\ \A m \in 1..n : \E i \in DOMAIN l : l[i].key = groups[m].key
  /\ \A i \in DOMAIN l : \E m \in 1..n :
       l[i] = groups[m] /\ \A k \in (m + 1)..n : groups[k].key # l[i].key
  /\ \A i, j \in DOMAIN l : i < j =>
       \E m \in 1..n : groups[m].key = l[i].key /\ \A k \in 1..m : groups[k].key # l[j].key

(* One more part keeps a list of the parts so far a list of them. *)
LEMMA PutGroupLists ==
  ASSUME NEW groups \in Seq(Groups), NEW n \in 1..Len(groups), NEW l, Lists(groups, n - 1, l)
  PROVE  Lists(groups, n, PutGroup(l, groups[n]))
<1> PICK g : g = groups[n]
  OBVIOUS
<1> PICK r : r = PutGroup(l, g)
  OBVIOUS
<1>1. g \in Groups /\ n \in Nat /\ n >= 1
  OBVIOUS
<1>2. /\ l \in Seq(Groups) /\ Len(l) \in Nat /\ DOMAIN l = 1..Len(l)
      /\ \A i \in DOMAIN l : l[i] \in Groups
  BY DEF Lists
<1>3. \A i, j \in DOMAIN l : l[i].key = l[j].key => i = j
  BY DEF Lists
<1>4. \A m \in 1..(n - 1) : \E i \in DOMAIN l : l[i].key = groups[m].key
  BY DEF Lists
<1>5. \A i \in DOMAIN l : \E m \in 1..(n - 1) :
        l[i] = groups[m] /\ \A k \in (m + 1)..(n - 1) : groups[k].key # l[i].key
  BY DEF Lists
<1>6. \A i, j \in DOMAIN l : i < j =>
        \E m \in 1..(n - 1) :
          groups[m].key = l[i].key /\ \A k \in 1..m : groups[k].key # l[j].key
  BY DEF Lists
<1>7. 1..n = (1..(n - 1)) \cup {n}
  BY <1>1
<1>8. CASE \E i \in DOMAIN l : l[i].key = g.key
  <2>1. r = [i \in DOMAIN l |-> IF l[i].key = g.key THEN g ELSE l[i]]
    BY <1>8 DEF PutGroup
  <2>2. DOMAIN r = DOMAIN l /\ \A i \in DOMAIN l : r[i] \in Groups /\ r[i].key = l[i].key
    BY <1>1, <1>2, <2>1
  <2>3. r \in Seq(Groups)
    BY <1>2, <2>1, <2>2
  <2>4. \A m \in 1..n : \E i \in DOMAIN r : r[i].key = groups[m].key
    BY <1>4, <1>7, <1>8, <2>2
  <2>5. ASSUME NEW i \in DOMAIN r
        PROVE  \E m \in 1..n : r[i] = groups[m] /\ \A k \in (m + 1)..n : groups[k].key # r[i].key
    <3>1. CASE l[i].key = g.key
      <4>1. r[i] = groups[n] /\ (n + 1)..n = {}
        BY <1>1, <2>1, <2>2, <2>5, <3>1
      <4> QED
        BY <1>1, <4>1
    <3>2. CASE l[i].key # g.key
      <4>1. PICK m \in 1..(n - 1) :
              l[i] = groups[m] /\ \A k \in (m + 1)..(n - 1) : groups[k].key # l[i].key
        BY <1>5, <2>2, <2>5
      <4>2. r[i] = l[i]
        BY <2>1, <2>2, <2>5, <3>2
      <4>3. (m + 1)..n = ((m + 1)..(n - 1)) \cup {n}
        BY <1>1
      <4>4. \A k \in (m + 1)..n : groups[k].key # r[i].key
        BY <3>2, <4>1, <4>2, <4>3
      <4> QED
        BY <1>7, <4>1, <4>2, <4>4
    <3> QED
      BY <3>1, <3>2
  <2>6. \A i, j \in DOMAIN r : i < j =>
          \E m \in 1..n : groups[m].key = r[i].key /\ \A k \in 1..m : groups[k].key # r[j].key
    BY <1>6, <1>7, <2>2
  <2>7. \A i, j \in DOMAIN r : r[i].key = r[j].key => i = j
    BY <1>3, <2>2
  <2>8. Lists(groups, n, r)
    BY <2>3, <2>4, <2>5, <2>6, <2>7 DEF Lists
  <2> QED
    BY <2>8
<1>9. CASE ~\E i \in DOMAIN l : l[i].key = g.key
  <2>1. r = Append(l, g)
    BY <1>9 DEF PutGroup
  <2> PICK e : e = Len(l) + 1
    OBVIOUS
  <2>2. /\ r \in Seq(Groups) /\ DOMAIN r = DOMAIN l \cup {e} /\ e \notin DOMAIN l
        /\ r[e] = g /\ \A i \in DOMAIN l : r[i] = l[i]
    BY <1>1, <1>2, <2>1
  <2>3. \A i, j \in DOMAIN r : r[i].key = r[j].key => i = j
    BY <1>3, <1>9, <2>2
  <2>4. \A m \in 1..n : \E i \in DOMAIN r : r[i].key = groups[m].key
    <3>1. \A m \in 1..(n - 1) : \E i \in DOMAIN r : r[i].key = groups[m].key
      BY <1>4, <2>2
    <3>2. r[e].key = groups[n].key /\ e \in DOMAIN r
      BY <2>2
    <3> QED
      BY <1>7, <3>1, <3>2
  <2>5. ASSUME NEW i \in DOMAIN r
        PROVE  \E m \in 1..n : r[i] = groups[m] /\ \A k \in (m + 1)..n : groups[k].key # r[i].key
    <3>1. CASE i = e
      <4>1. r[i] = groups[n] /\ (n + 1)..n = {}
        BY <1>1, <2>2, <3>1
      <4> QED
        BY <1>1, <4>1
    <3>2. CASE i \in DOMAIN l
      <4>1. PICK m \in 1..(n - 1) :
              l[i] = groups[m] /\ \A k \in (m + 1)..(n - 1) : groups[k].key # l[i].key
        BY <1>5, <3>2
      <4>2. r[i] = l[i] /\ l[i].key # g.key
        BY <1>9, <2>2, <3>2
      <4>3. (m + 1)..n = ((m + 1)..(n - 1)) \cup {n}
        BY <1>1
      <4>4. \A k \in (m + 1)..n : groups[k].key # r[i].key
        BY <4>1, <4>2, <4>3
      <4> QED
        BY <1>7, <4>1, <4>2, <4>4
    <3> QED
      BY <2>2, <2>5, <3>1, <3>2
  <2>6. ASSUME NEW i \in DOMAIN r, NEW j \in DOMAIN r, i < j
        PROVE  \E m \in 1..n : groups[m].key = r[i].key /\ \A k \in 1..m : groups[k].key # r[j].key
    <3>1. i \in DOMAIN l
      BY <1>2, <2>2, <2>6
    <3>2. CASE j \in DOMAIN l
      BY <1>6, <1>7, <2>2, <2>6, <3>1, <3>2
    <3>3. CASE j = e
      <4>1. PICK m \in 1..(n - 1) : l[i] = groups[m]
        BY <1>5, <3>1
      <4>2. \A k \in 1..m : k \in 1..(n - 1)
        BY <1>1
      <4>3. \A k \in 1..m : groups[k].key # g.key
        BY <1>4, <1>9, <4>2
      <4> QED
        BY <1>7, <2>2, <3>1, <3>3, <4>1, <4>3
    <3> QED
      BY <2>2, <2>6, <3>2, <3>3
  <2>7. Lists(groups, n, r)
    BY <2>2, <2>3, <2>4, <2>5, <2>6 DEF Lists
  <2> QED
    BY <2>7
<1> QED
  BY <1>8, <1>9

(* So what SetPreferences leaves is a list of all parts. *)
LEMMA FoldLists ==
  ASSUME NEW groups \in Seq(Groups)
  PROVE  Lists(groups, Len(groups), FoldLeft(PutGroup, <<>>, groups))
<1> PICK N : N = Len(groups)
  OBVIOUS
<1>1. N \in Nat
  OBVIOUS
<1>2. PICK h : /\ h[0] = <<>>
               /\ \A n \in 1..N : h[n] = PutGroup(h[n - 1], groups[n])
               /\ FoldLeft(PutGroup, <<>>, groups) = h[N]
  BY FoldIsStepwise
<1> DEFINE Wrong == {n \in 0..N : ~Lists(groups, n, h[n])}
<1>3. Wrong = {}
  <2> SUFFICES ASSUME Wrong # {}
               PROVE  FALSE
    OBVIOUS
  <2>1. Wrong \in SUBSET Nat
    OBVIOUS
  <2>2. PICK n \in Wrong : \A m \in Wrong : n <= m
    <3> HIDE DEF Wrong
    <3> QED
      BY <2>1, LeastExists
  <2>3. n \in 0..N /\ ~Lists(groups, n, h[n])
    OBVIOUS
  <2>4. CASE n = 0
    <3>1. h[n] = <<>> /\ 1..0 = {} /\ DOMAIN h[n] = {}
      BY <1>2, <2>4
    <3>2. Lists(groups, 0, h[n])
      BY <3>1 DEF Lists
    <3> QED
      BY <2>3, <2>4, <3>2
  <2>5. CASE n # 0
    <3>1. n - 1 \in 0..N /\ n \in 1..N /\ ~(n <= n - 1)
      BY <1>1, <2>3, <2>5
    <3>2. Lists(groups, n - 1, h[n - 1])
      BY <2>2, <3>1
    <3>3. Lists(groups, n, PutGroup(h[n - 1], groups[n]))
      BY <3>1, <3>2, PutGroupLists
    <3> QED
      BY <1>2, <2>3, <3>1, <3>3
  <2> QED
    BY <2>4, <2>5
<1>4. Lists(groups, N, h[N])
  BY <1>1, <1>3
<1>5. Lists(groups, N, FoldLeft(PutGroup, <<>>, groups))
  BY <1>2, <1>4
<1> QED
  BY <1>5

(* What was asked for is what is listed. *)
Asked == Lists(asked, Len(asked), preferences)

(* Such a list is what the documentation says was asked for. *)
LEMMA ListedIsAsked ==
  ASSUME asked \in Seq(Groups), Asked
  PROVE  AsAsked
<1> DEFINE N == Len(asked)
           IsFirst(key, n) == n \in 1..N /\ asked[n].key = key /\ \A m \in 1..(n - 1) : asked[m].key # key
           IsLast(key, n) == n \in 1..N /\ asked[n].key = key /\ \A m \in (n + 1)..N : asked[m].key # key
           first(key) == CHOOSE n \in DOMAIN asked :
             asked[n].key = key /\ \A m \in 1..(n - 1) : asked[m].key # key
           last(key) == CHOOSE n \in DOMAIN asked :
             asked[n].key = key /\ \A m \in (n + 1)..Len(asked) : asked[m].key # key
<1>1. N \in Nat /\ DOMAIN asked = 1..N
  OBVIOUS
<1>2. /\ preferences \in Seq(Groups)
      /\ \A m \in 1..N : \E i \in DOMAIN preferences : preferences[i].key = asked[m].key
      /\ \A i \in DOMAIN preferences : \E m \in 1..N :
           preferences[i] = asked[m] /\ \A k \in (m + 1)..N : asked[k].key # preferences[i].key
      /\ \A i, j \in DOMAIN preferences : i < j =>
           \E m \in 1..N : asked[m].key = preferences[i].key
                           /\ \A k \in 1..m : asked[k].key # preferences[j].key
  BY DEF Asked, Lists
<1>3. {p.key : p \in ToSet(preferences)} = {g.key : g \in ToSet(asked)}
  <2>1. \A i \in DOMAIN preferences : \E m \in 1..N : preferences[i].key = asked[m].key
    BY <1>2
  <2>2. \A m \in 1..N : \E i \in DOMAIN preferences : preferences[i].key = asked[m].key
    BY <1>2
  <2>3. {p.key : p \in ToSet(preferences)} = {preferences[i].key : i \in DOMAIN preferences}
    BY DEF ToSet
  <2>4. {g.key : g \in ToSet(asked)} = {asked[m].key : m \in 1..N}
    BY <1>1 DEF ToSet
  <2> HIDE DEF N
  <2>5. {preferences[i].key : i \in DOMAIN preferences} = {asked[m].key : m \in 1..N}
    BY <2>1, <2>2
  <2> QED
    BY <2>3, <2>4, <2>5
<1>4. ASSUME NEW m \in 1..N
      PROVE  IsFirst(asked[m].key, first(asked[m].key))
  <2> DEFINE T == {n \in 1..N : asked[n].key = asked[m].key}
  <2>1. T \in SUBSET Nat /\ T # {}
    OBVIOUS
  <2>2. PICK n \in T : \A k \in T : n <= k
    <3> HIDE DEF T
    <3> QED
      BY <2>1, LeastExists
  <2>3. \A k \in 1..(n - 1) : asked[k].key # asked[m].key
    <3> TAKE k \in 1..(n - 1)
    <3>1. k \in 1..N /\ ~(n <= k)
      BY <1>1
    <3> QED
      BY <2>2, <3>1
  <2>4. IsFirst(asked[m].key, n)
    BY <2>3
  <2> HIDE DEF N
  <2> QED
    BY <1>1, <2>4
<1>5. ASSUME NEW i \in DOMAIN preferences
      PROVE  preferences[i] = asked[last(preferences[i].key)]
  <2>1. PICK m \in 1..N :
          preferences[i] = asked[m] /\ \A k \in (m + 1)..N : asked[k].key # preferences[i].key
    BY <1>2
  <2>2. IsLast(preferences[i].key, m)
    BY <2>1
  <2>3. IsLast(preferences[i].key, last(preferences[i].key))
    BY <1>1, <2>2
  <2> HIDE DEF last
  <2>4. last(preferences[i].key) = m
    BY <1>1, <2>2, <2>3
  <2> QED
    BY <2>1, <2>4
<1>6. ASSUME NEW i \in DOMAIN preferences, NEW j \in DOMAIN preferences, i < j
      PROVE  first(preferences[i].key) < first(preferences[j].key)
  <2>1. PICK m \in 1..N : asked[m].key = preferences[i].key
                          /\ \A k \in 1..m : asked[k].key # preferences[j].key
    BY <1>2, <1>6
  <2>2. PICK l \in 1..N : asked[l].key = preferences[j].key
    BY <1>2
  <2> HIDE DEF N, IsFirst, first
  <2>3. IsFirst(preferences[i].key, first(preferences[i].key))
    BY <1>4, <2>1
  <2>4. IsFirst(preferences[j].key, first(preferences[j].key))
    BY <1>4, <2>2
  <2> USE DEF N, IsFirst
  <2>5. first(preferences[i].key) <= m
    BY <1>1, <2>1, <2>3
  <2>6. m < first(preferences[j].key)
    BY <1>1, <2>1, <2>4
  <2> QED
    BY <1>1, <2>3, <2>4, <2>5, <2>6
<1> QED
  BY <1>3, <1>5, <1>6, Zenon DEF AsAsked


(* The types, the preferences as they were asked for, and the choice. *)
FactoryInv == TypeOK /\ Asked /\ ChosenIsBest /\ StrongestCodecHonoured

(* Before CreateEncoder was called there is nothing to say of its result. *)
LEMMA NotCalled ==
  ASSUME result' = NoCall
  PROVE  ChosenIsBest' /\ StrongestCodecHonoured'
<1>1. NoCall \notin Results
  BY NullAssumption
<1> QED
  BY <1>1 DEF ChosenIsBest, StrongestCodecHonoured

(* One lemma for the initial states and one for each action. *)
LEMMA InitHolds == Init => FactoryInv
<1> SUFFICES ASSUME Init
             PROVE  FactoryInv
  OBVIOUS
<1>1. registry = <<>> /\ preferences = <<>> /\ asked = <<>> /\ usable \subseteq Backends /\ result = NoCall
  BY DEF Init
<1>2. TypeOK
  BY <1>1 DEF TypeOK, IsInjective
<1>3. Asked
  BY <1>1 DEF Asked, Lists
<1>4. ChosenIsBest /\ StrongestCodecHonoured
  <2>1. NoCall \notin Results
    BY NullAssumption
  <2> QED
    BY <1>1, <2>1 DEF ChosenIsBest, StrongestCodecHonoured
<1> QED
  BY <1>2, <1>3, <1>4 DEF FactoryInv

LEMMA RegisterBackendHolds ==
  ASSUME FactoryInv, NEW b \in Backends, RegisterBackend(b)
  PROVE  FactoryInv'
<1>1. TypeOK /\ Asked /\ UNCHANGED <<preferences, asked, usable>> /\ result' = NoCall
  BY DEF FactoryInv, RegisterBackend
<1>2. registry' \in Seq(Backends) /\ IsInjective(registry')
  <2>1. registry \in Seq(Backends) /\ IsInjective(registry)
    BY <1>1 DEF TypeOK
  <2>2. CASE b \in Registered
    BY <2>1, <2>2 DEF RegisterBackend
  <2>3. CASE b \notin Registered
    <3>1. registry' = Append(registry, b)
      BY <2>3 DEF RegisterBackend
    <3>2. \A i \in DOMAIN registry : registry[i] # b
      BY <2>3 DEF Registered, ToSet
    <3>3. \A i, j \in DOMAIN registry : registry[i] = registry[j] => i = j
      BY <2>1 DEF IsInjective
    <3> QED
      BY <2>1, <3>1, <3>2, <3>3 DEF IsInjective
  <2> QED
    BY <2>2, <2>3
<1>3. TypeOK'
  BY <1>1, <1>2 DEF TypeOK
<1>4. Asked'
  BY <1>1 DEF Asked
<1> QED
  BY <1>1, <1>3, <1>4, NotCalled DEF FactoryInv

LEMMA SetPreferencesHolds ==
  ASSUME FactoryInv, NEW groups \in PreferenceStrings, SetPreferences(groups)
  PROVE  FactoryInv'
<1>1. /\ TypeOK /\ UNCHANGED <<registry, usable>> /\ result' = NoCall
      /\ asked' = groups /\ preferences' = FoldLeft(PutGroup, <<>>, groups)
  BY Zenon DEF FactoryInv, SetPreferences
<1>2. groups \in Seq(Groups)
  BY BoundAssumption DEF PreferenceStrings, BoundedSeq, SeqOf
<1>3. Lists(asked', Len(asked'), preferences')
  BY <1>1, <1>2, FoldLists
<1>4. Asked'
  BY <1>3 DEF Asked
<1>5. /\ preferences' \in Seq(Groups)
      /\ \A i, j \in DOMAIN preferences' : preferences'[i].key = preferences'[j].key => i = j
  BY <1>3 DEF Lists
<1>6. TypeOK'
  BY <1>1, <1>2, <1>5 DEF TypeOK
<1> QED
  BY <1>1, <1>4, <1>6, NotCalled DEF FactoryInv

LEMMA ClearPreferencesHolds ==
  ASSUME FactoryInv, ClearPreferences
  PROVE  FactoryInv'
<1>1. /\ TypeOK /\ UNCHANGED <<registry, usable>> /\ result' = NoCall
      /\ asked' = <<>> /\ preferences' = <<>>
  BY DEF FactoryInv, ClearPreferences
<1>2. TypeOK'
  BY <1>1 DEF TypeOK
<1>3. Asked'
  BY <1>1 DEF Asked, Lists
<1> QED
  BY <1>1, <1>2, <1>3, NotCalled DEF FactoryInv

LEMMA CreateEncoderHolds ==
  ASSUME FactoryInv, CreateEncoder
  PROVE  FactoryInv'
<1>1. TypeOK /\ Asked /\ UNCHANGED <<registry, preferences, asked, usable>>
  BY DEF FactoryInv, CreateEncoder
<1>2. result' \in Results \cup {NoEncoder}
  BY <1>1, CreateEncoderType
<1>3. TypeOK'
  BY <1>1, <1>2 DEF TypeOK
<1>4. Asked'
  BY <1>1 DEF Asked
<1> QED
  BY <1>1, <1>3, <1>4, CreateEncoderChoosesBest, CreateEncoderSetsCodec DEF FactoryInv

LEMMA MachineChangesHolds ==
  ASSUME FactoryInv, MachineChanges
  PROVE  FactoryInv'
<1>1. /\ TypeOK /\ Asked /\ UNCHANGED <<registry, preferences, asked>> /\ result' = NoCall
      /\ usable' \subseteq Backends
  BY DEF FactoryInv, MachineChanges
<1>2. TypeOK'
  BY <1>1 DEF TypeOK
<1>3. Asked'
  BY <1>1 DEF Asked
<1> QED
  BY <1>1, <1>2, <1>3, NotCalled DEF FactoryInv

LEMMA StutterHolds ==
  ASSUME FactoryInv, UNCHANGED vars
  PROVE  FactoryInv'
<1>1. UNCHANGED <<registry, preferences, asked, usable, result>>
  BY DEF vars
<1>2. TypeOK' /\ Asked'
  BY <1>1 DEF FactoryInv, TypeOK, Asked
<1>3. /\ Registered' = Registered
      /\ \A b : Available(b)' <=> Available(b)
      /\ \A codec : CheckAvailability(codec)' <=> CheckAvailability(codec)
  BY <1>1, AvailableStays
<1>4. \A a, b : Preferred(a, b)' <=> Preferred(a, b)
  BY <1>1, PreferredStays
<1>5. ChosenIsBest'
  <2>1. ChosenIsBest
    BY DEF FactoryInv
  <2> QED
    BY <1>1, <1>3, <1>4, <2>1 DEF ChosenIsBest
<1>6. StrongestCodecHonoured'
  <2>1. StrongestCodecHonoured
    BY DEF FactoryInv
  <2> QED
    BY <1>1, <1>3, <2>1 DEF StrongestCodecHonoured
<1> QED
  BY <1>2, <1>5, <1>6 DEF FactoryInv

(* The invariant holds in every state of every behaviour. *)
LEMMA FactoryInvariant == Spec => []FactoryInv
<1>1. FactoryInv /\ [Next]_vars => FactoryInv'
  <2> SUFFICES ASSUME FactoryInv, [Next]_vars
               PROVE  FactoryInv'
    OBVIOUS
  <2>1. ASSUME NEW b \in Backends, RegisterBackend(b)
        PROVE  FactoryInv'
    BY <2>1, RegisterBackendHolds
  <2>2. ASSUME NEW groups \in PreferenceStrings, SetPreferences(groups)
        PROVE  FactoryInv'
    BY <2>2, SetPreferencesHolds
  <2>3. CASE ClearPreferences
    BY <2>3, ClearPreferencesHolds
  <2>4. CASE CreateEncoder
    BY <2>4, CreateEncoderHolds
  <2>5. CASE MachineChanges
    BY <2>5, MachineChangesHolds
  <2>6. CASE UNCHANGED vars
    BY <2>6, StutterHolds
  <2> QED
    BY <2>1, <2>2, <2>3, <2>4, <2>5, <2>6 DEF Next
<1> QED
  BY <1>1, InitHolds, PTL DEF Spec

(* Every variable of vtkEncoderFactory holds a value of its type; no backend is
   registered twice, however often its library is loaded, and no key is
   preferred twice. *)
THEOREM FactoryTypeCorrect == Spec => []TypeOK
<1>1. FactoryInv => TypeOK
  BY DEF FactoryInv
<1> QED
  BY <1>1, FactoryInvariant, PTL

(* The preferences are what SetPreferences documents: of a string of any length,
   each key where it was first named, with the values it was last given. *)
THEOREM PreferencesAreAsAsked == Spec => []AsAsked
<1>1. FactoryInv => AsAsked
  BY ListedIsAsked DEF FactoryInv, TypeOK
<1> QED
  BY <1>1, FactoryInvariant, PTL

(* CreateEncoder gives the available backend that is preferred to all others
   available, and has probed just those preferred to it; none if none is
   available. *)
THEOREM BestIsChosen == Spec => []ChosenIsBest
<1>1. FactoryInv => ChosenIsBest
  BY DEF FactoryInv
<1> QED
  BY <1>1, FactoryInvariant, PTL

(* The encoder is set to a codec that its backend supports, and when codecs are
   asked for first, to the first that some available backend supports. *)
THEOREM StrongestCodecIsSet == Spec => []StrongestCodecHonoured
<1>1. FactoryInv => StrongestCodecHonoured
  BY DEF FactoryInv
<1> QED
  BY <1>1, FactoryInvariant, PTL

(* The documented order leaves no two backends level and has no cycles, for any
   preferences; so whatever the order in which libraries were loaded, there is
   at most one backend that BestIsChosen allows. *)
THEOREM PreferredIsStrictTotalOrder ==
  ASSUME preferences \in Seq(Groups)
  PROVE  /\ \A a, b \in Backends : Preferred(a, b) => ~Preferred(b, a)
         /\ \A a, b, c \in Backends : Preferred(a, b) /\ Preferred(b, c) => Preferred(a, c)
         /\ \A a, b \in Backends : a # b => Preferred(a, b) \/ Preferred(b, a)
         /\ \A candidates \in SUBSET Backends : \A a, b \in candidates :
              /\ \A c \in candidates \ {a} : Preferred(a, c)
              /\ \A c \in candidates \ {b} : Preferred(b, c)
              => a = b
<1>1. \A a, b \in Backends : Before(a, b) <=> Preferred(a, b)
  BY BeforeIsPreferred
<1>2. \A a, b \in Backends : Before(a, b) => ~Before(b, a)
  BY BeforeIsAsymmetric
<1>3. \A a, b, c \in Backends : Before(a, b) /\ Before(b, c) => Before(a, c)
  BY BeforeIsTransitive
<1>4. \A a, b \in Backends : a # b => Before(a, b) \/ Before(b, a)
  BY BeforeIsTotal
<1>5. \A a, b \in Backends : Preferred(a, b) => ~Preferred(b, a)
  BY <1>1, <1>2
<1>6. \A a, b, c \in Backends : Preferred(a, b) /\ Preferred(b, c) => Preferred(a, c)
  BY <1>1, <1>3
<1>7. \A a, b \in Backends : a # b => Preferred(a, b) \/ Preferred(b, a)
  BY <1>1, <1>4
<1>8. ASSUME NEW candidates \in SUBSET Backends, NEW a \in candidates, NEW b \in candidates,
             \A c \in candidates \ {a} : Preferred(a, c),
             \A c \in candidates \ {b} : Preferred(b, c)
      PROVE  a = b
  BY <1>5, <1>8
<1> QED
  BY <1>5, <1>6, <1>7, <1>8
=============================================================================
