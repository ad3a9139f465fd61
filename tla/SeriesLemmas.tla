---------------------------- MODULE SeriesLemmas ----------------------------
(***************************************************************************)
(* Lemmas about sets of numbers in ascending order, about scripts one      *)
(* after the other and about sums, for the proofs about programs that do   *)
(* or count one thing for every member of a set.  Each of them is an       *)
(* induction; it is carried out on a least counterexample, a number or a   *)
(* set.                                                                    *)
(***************************************************************************)
EXTENDS SequencesExt, FiniteSetTheorems, SequenceTheorems,
        WellFoundedInduction, TLAPS

(* Among finite sets, some has none of the others as a part.               *)
FiniteFamily(F) == F # {} /\ \A T \in F : IsFiniteSet(T)

LEMMA MinimalSet ==
  ASSUME NEW F, FiniteFamily(F)
  PROVE  \E T \in F : \A U \in F : U \subseteq T => U = T
<1> DEFINE S == UNION F
<1>1. F \subseteq FiniteSubsetsOf(S) /\ F # {}
  BY DEF FiniteSubsetsOf, FiniteFamily
<1>2. PICK T \in F : \A U \in F : ~(<<U, T>> \in StrictSubsetOrdering(S))
  <2> HIDE DEF S
  <2> QED
    BY <1>1, WFMin, FS_StrictSubsetOrderingWellFounded
<1> QED
  BY <1>2 DEF StrictSubsetOrdering

(* Among numbers, some is the least.                                       *)
LEMMA LeastNumber ==
  ASSUME NEW S \in SUBSET Nat, S # {}
  PROVE  \E n \in S : \A m \in S : n <= m
<1> DEFINE Below == {0 .. n : n \in S}
<1>1. ASSUME NEW T \in Below PROVE IsFiniteSet(T)
  <2>1. PICK n \in S : T = 0 .. n
    OBVIOUS
  <2>2. n \in Int /\ 0 \in Int
    OBVIOUS
  <2> QED
    BY <2>1, <2>2, FS_Interval
<1>2. FiniteFamily(Below)
  BY <1>1 DEF FiniteFamily
<1>3. PICK T \in Below : \A U \in Below : U \subseteq T => U = T
  <2> HIDE DEF Below
  <2> QED
    BY <1>2, MinimalSet
<1>4. PICK n \in S : T = 0 .. n
  OBVIOUS
<1>5. ASSUME NEW m \in S, ~(n <= m) PROVE FALSE
  <2>1. 0 .. m \subseteq 0 .. n /\ n \in 0 .. n /\ n \notin 0 .. m
    BY <1>5
  <2> QED
    BY <2>1, <1>3, <1>4
<1> QED
  BY <1>5

-----------------------------------------------------------------------------
(* s lists members of S from the smallest up, as many as S has.            *)
Lists(s, S) ==
  /\ s \in [1 .. Cardinality(S) -> S]
  /\ \A i, j \in 1 .. Cardinality(S) : i < j => s[i] < s[j]

(* Every finite set of numbers can be listed.                              *)
LEMMA SomeListing ==
  ASSUME NEW S \in SUBSET Nat, IsFiniteSet(S)
  PROVE  \E s : Lists(s, S)
<1> DEFINE Bad == {T \in SUBSET S : ~\E s : Lists(s, T)}
<1> SUFFICES ASSUME Bad # {} PROVE FALSE
  OBVIOUS
<1>1. PICK T \in Bad : \A U \in Bad : U \subseteq T => U = T
  <2>1. FiniteFamily(Bad)
    BY FS_Subset DEF FiniteFamily
  <2> HIDE DEF Bad
  <2> QED
    BY <2>1, MinimalSet
<1>2. T \in SUBSET Nat /\ IsFiniteSet(T) /\ ~\E s : Lists(s, T)
  BY FS_Subset
<1>3. T # {}
  <2> SUFFICES ASSUME T = {} PROVE FALSE
    OBVIOUS
  <2>1. Cardinality(T) = 0
    BY FS_EmptySet
  <2>2. Lists([i \in 1 .. 0 |-> i], T)
    BY <2>1 DEF Lists
  <2> QED
    BY <1>2, <2>2
<1>4. PICK m \in T : \A n \in T : m <= n
  BY <1>2, <1>3, LeastNumber
<1> DEFINE U == T \ {m}
<1>5. /\ U \in SUBSET S /\ U # T /\ U \subseteq T
      /\ IsFiniteSet(U) /\ Cardinality(T) \in Nat /\ Cardinality(T) # 0
      /\ Cardinality(U) = Cardinality(T) - 1
  BY <1>2, <1>4, FS_RemoveElement, FS_EmptySet, FS_CardinalityType
<1>6. PICK e : Lists(e, U)
  BY <1>1, <1>5
<1> DEFINE n == Cardinality(T)
           s == [i \in 1 .. n |-> IF i = 1 THEN m ELSE e[i - 1]]
<1>7. /\ n \in Nat /\ n # 0 /\ m \in Nat
      /\ e \in [1 .. n - 1 -> U]
      /\ \A i, j \in 1 .. n - 1 : i < j => e[i] < e[j]
      /\ \A x \in U : x \in T /\ x \in Nat /\ m < x
  <2>1. n \in Nat /\ n # 0 /\ m \in Nat /\ Cardinality(U) = n - 1
    BY <1>2, <1>5
  <2>2. /\ e \in [1 .. n - 1 -> U]
        /\ \A i, j \in 1 .. n - 1 : i < j => e[i] < e[j]
    BY <1>6, <2>1 DEF Lists
  <2>3. \A x \in U : x \in T /\ x \in Nat /\ m < x
    BY <1>2, <1>4
  <2> QED
    BY <2>1, <2>2, <2>3
<1> HIDE DEF n, U
<1>8. \A i \in 1 .. n : s[i] \in T
  <2> TAKE i \in 1 .. n
  <2>1. i # 1 => i - 1 \in 1 .. n - 1
    BY <1>7
  <2> QED
    BY <1>7, <2>1
<1>9. \A i, j \in 1 .. n : i < j => s[i] < s[j]
  <2> SUFFICES ASSUME NEW i \in 1 .. n, NEW j \in 1 .. n, i < j PROVE s[i] < s[j]
    OBVIOUS
  <2>1. j - 1 \in 1 .. n - 1 /\ (i # 1 => i - 1 \in 1 .. n - 1 /\ i - 1 < j - 1)
    BY <1>7
  <2> QED
    BY <1>7, <2>1
<1>10. Lists(s, T)
  BY <1>8, <1>9 DEF Lists, n
<1> QED
  BY <1>2, <1>10

(* A listing is a sequence of which every member of S is an element.       *)
LEMMA ListingIsComplete ==
  ASSUME NEW S \in SUBSET Nat, IsFiniteSet(S), NEW s, Lists(s, S)
  PROVE  s \in Seq(S) /\ Len(s) = Cardinality(S) /\ \A x \in S : \E i \in 1 .. Len(s) : s[i] = x
<1> DEFINE n == Cardinality(S)
<1>1. n \in Nat /\ s \in [1 .. n -> S] /\ \A i, j \in 1 .. n : i < j => s[i] < s[j]
  BY FS_CardinalityType DEF Lists
<1> HIDE DEF n
<1>2. s \in Seq(S) /\ Len(s) = n
  BY <1>1, SeqDef
<1>3. s \in Injection(1 .. n, S)
  <2> SUFFICES ASSUME NEW i \in 1 .. n, NEW j \in 1 .. n, s[i] = s[j], i # j PROVE FALSE
    BY <1>1 DEF Injection, IsInjective
  <2>1. s[i] \in S /\ s[j] \in S /\ i \in Nat /\ j \in Nat
    BY <1>1
  <2>2. s[i] \in Nat /\ s[j] \in Nat
    BY <2>1
  <2>3. i < j \/ j < i
    BY <2>1
  <2> QED
    BY <1>1, <2>2, <2>3
<1>4. IsFiniteSet(1 .. n) /\ Cardinality(1 .. n) = n
  BY <1>1, FS_Interval
<1>5. s \in Surjection(1 .. n, S)
  BY <1>3, <1>4, FS_Injection DEF n
<1> QED
  BY <1>2, <1>5 DEF Surjection, n

-----------------------------------------------------------------------------
(* F[i] is the first i of a series of sequences, one after the other.      *)
Flattening(F, seqs, n) ==
  F = [i \in 1 .. n |-> IF i = 1 THEN seqs[i] ELSE F[i - 1] \o seqs[i]]

LEMMA SomeFlattening ==
  ASSUME NEW seqs, NEW n \in Nat
  PROVE  \E F : Flattening(F, seqs, n)
<1> DEFINE Bad == {m \in Nat : ~\E F : Flattening(F, seqs, m)}
<1> SUFFICES ASSUME Bad # {} PROVE FALSE
  OBVIOUS
<1>1. PICK m \in Bad : \A k \in Bad : m <= k
  <2>1. Bad \in SUBSET Nat
    OBVIOUS
  <2> HIDE DEF Bad
  <2> QED
    BY <2>1, LeastNumber
<1>2. m \in Nat /\ ~\E F : Flattening(F, seqs, m)
  OBVIOUS
<1>3. m # 0
  <2> SUFFICES ASSUME m = 0 PROVE FALSE
    OBVIOUS
  <2>1. Flattening([i \in 1 .. 0 |-> i], seqs, m)
    BY DEF Flattening
  <2> QED
    BY <1>2, <2>1
<1>4. PICK G : Flattening(G, seqs, m - 1)
  BY <1>1, <1>2, <1>3
<1> DEFINE F == [i \in 1 .. m |-> IF i = m
                                  THEN IF m = 1 THEN seqs[m] ELSE G[m - 1] \o seqs[m]
                                  ELSE G[i]]
<1>5. \A i \in 1 .. m : F[i] = IF i = 1 THEN seqs[i] ELSE F[i - 1] \o seqs[i]
  <2> TAKE i \in 1 .. m
  <2>1. CASE i = m
    BY <1>2, <1>3, <2>1
  <2>2. CASE i # m
    <3>1. i \in 1 .. m - 1 /\ (i # 1 => i - 1 \in 1 .. m - 1 /\ i - 1 \in 1 .. m /\ i - 1 # m)
      BY <1>2, <2>2
    <3>2. G[i] = IF i = 1 THEN seqs[i] ELSE G[i - 1] \o seqs[i]
      BY <1>4, <3>1 DEF Flattening
    <3> QED
      BY <2>2, <3>1, <3>2
  <2> QED
    BY <2>1, <2>2
<1>6. Flattening(F, seqs, m)
  BY <1>5 DEF Flattening
<1> QED
  BY <1>2, <1>6

(* A set of scripts to which belongs, with any two, the one followed by    *)
(* the other.                                                              *)
Chains(C, A) == C \subseteq Seq(A) /\ <<>> \in C /\ \A s, t \in C : s \o t \in C

(* A series of scripts of such a set is one of the set, and does all that  *)
(* each of them does.                                                      *)
LEMMA Flattened ==
  ASSUME NEW A, NEW C, Chains(C, A), NEW seqs \in Seq(C)
  PROVE  /\ FlattenSeq(seqs) \in C
         /\ \A i \in 1 .. Len(seqs) : Range(seqs[i]) \subseteq Range(FlattenSeq(seqs))
<1> DEFINE n == Len(seqs)
<1>1. n \in Nat /\ \A i \in 1 .. n : seqs[i] \in C
  BY LenProperties, ElementOfSeq
<1>2. CASE n = 0
  <2>1. seqs = <<>> /\ FlattenSeq(seqs) = seqs
    BY <1>2, EmptySeq DEF FlattenSeq
  <2> QED
    BY <1>2, <2>1 DEF Chains
<1>3. CASE n # 0
  <2> DEFINE F == CHOOSE F : F = [i \in 1 .. n |-> IF i = 1 THEN seqs[i] ELSE F[i - 1] \o seqs[i]]
  <2>1. Flattening(F, seqs, n)
    <3>1. \E G : G = [i \in 1 .. n |-> IF i = 1 THEN seqs[i] ELSE G[i - 1] \o seqs[i]]
      BY <1>1, SomeFlattening DEF Flattening
    <3> QED
      BY <3>1 DEF Flattening
  <2>2. FlattenSeq(seqs) = F[n]
    BY <1>3 DEF FlattenSeq
  <2> HIDE DEF F
  <2>3. \A i \in 1 .. n : F[i] = IF i = 1 THEN seqs[i] ELSE F[i - 1] \o seqs[i]
    BY <2>1 DEF Flattening
  <2> DEFINE Fine(i) == F[i] \in C /\ \A k \in 1 .. i : Range(seqs[k]) \subseteq Range(F[i])
             Bad == {i \in 1 .. n : ~Fine(i)}
  <2>4. Bad = {}
    <3> SUFFICES ASSUME Bad # {} PROVE FALSE
      OBVIOUS
    <3>1. PICK i \in Bad : \A k \in Bad : i <= k
      <4>1. Bad \in SUBSET Nat
        OBVIOUS
      <4> HIDE DEF Bad
      <4> QED
        BY <4>1, LeastNumber
    <3>2. i \in 1 .. n /\ ~Fine(i)
      OBVIOUS
    <3>3. CASE i = 1
      BY <1>1, <2>3, <3>2, <3>3
    <3>4. CASE i # 1
      <4>1. i - 1 \in 1 .. n /\ ~(i <= i - 1) /\ \A k \in 1 .. i : k = i \/ k \in 1 .. i - 1
        BY <1>1, <3>2, <3>4
      <4>2. Fine(i - 1)
        <5>1. i - 1 \notin Bad
          <6> HIDE DEF Bad
          <6> QED
            BY <3>1, <4>1
        <5> QED
          BY <4>1, <5>1
      <4>3. F[i] = F[i - 1] \o seqs[i] /\ seqs[i] \in C /\ F[i - 1] \in C
        BY <1>1, <2>3, <3>2, <3>4, <4>2
      <4>4. F[i] \in C /\ seqs[i] \in Seq(A) /\ F[i - 1] \in Seq(A)
        BY <4>3 DEF Chains
      <4>5. Range(F[i]) = Range(F[i - 1]) \cup Range(seqs[i])
        BY <4>3, <4>4, RangeConcatenation
      <4> QED
        BY <3>2, <4>1, <4>2, <4>4, <4>5
    <3> QED
      BY <3>3, <3>4
  <2>5. n \in 1 .. n
    BY <1>1, <1>3
  <2> QED
    BY <2>2, <2>4, <2>5
<1> QED
  BY <1>2, <1>3

-----------------------------------------------------------------------------
(***************************************************************************)
(* Sums over finite sets: MapThenSumSet, for what a function is of each    *)
(* member.  G[s] is the sum over the part s of S, taken one by one.        *)
(***************************************************************************)
SumOf(F, S) == MapThenSumSet(LAMBDA x : F[x], S)

Member(s) == CHOOSE x \in s : TRUE
Summing(G, F, S) ==
  G = [s \in SUBSET S |-> IF s = {} THEN 0 ELSE F[Member(s)] + G[s \ {Member(s)}]]

LEMMA SummingFacts ==
  ASSUME NEW G, NEW F, NEW S, Summing(G, F, S), NEW s \in SUBSET S
  PROVE  /\ s = {} => G[s] = 0
         /\ s # {} => /\ Member(s) \in s
                      /\ s \ {Member(s)} \in SUBSET S
                      /\ G[s] = F[Member(s)] + G[s \ {Member(s)}]
<1>1. s # {} => Member(s) \in s
  BY DEF Member
<1> QED
  BY <1>1 DEF Summing

(* Whatever it is part of, a set has one sum.                              *)
LEMMA OneSum ==
  ASSUME NEW G, NEW F, NEW S, Summing(G, F, S), NEW H, NEW E, NEW T, Summing(H, E, T),
         NEW s \in SUBSET S, s \in SUBSET T, IsFiniteSet(s), \A x \in s : F[x] = E[x]
  PROVE  G[s] = H[s]
<1> DEFINE Bad == {u \in SUBSET s : G[u] # H[u]}
<1> SUFFICES ASSUME Bad # {} PROVE FALSE
  OBVIOUS
<1>1. PICK u \in Bad : \A w \in Bad : w \subseteq u => w = u
  <2>1. FiniteFamily(Bad)
    BY FS_Subset DEF FiniteFamily
  <2> HIDE DEF Bad
  <2> QED
    BY <2>1, MinimalSet
<1>2. u \in SUBSET s /\ G[u] # H[u]
  OBVIOUS
<1>3. u # {}
  BY <1>2, SummingFacts
<1> DEFINE x == Member(u)
<1>4. /\ x \in u /\ G[u] = F[x] + G[u \ {x}] /\ H[u] = E[x] + H[u \ {x}]
  BY <1>2, <1>3, SummingFacts
<1> HIDE DEF x
<1>5. G[u \ {x}] = H[u \ {x}]
  <2>1. u \ {x} \in SUBSET s /\ u \ {x} \subseteq u /\ u \ {x} # u
    BY <1>2, <1>4
  <2>2. u \ {x} \notin Bad
    <3> HIDE DEF Bad
    <3> QED
      BY <1>1, <2>1
  <2> QED
    BY <2>1, <2>2
<1> QED
  BY <1>2, <1>4, <1>5

(* A finite set has a sum.                                                 *)
LEMMA SomeSumming ==
  ASSUME NEW F, NEW S, IsFiniteSet(S)
  PROVE  \E G : Summing(G, F, S)
<1> DEFINE Has(T) == \E G : Summing(G, F, T)
           Bad == {T \in SUBSET S : ~Has(T)}
<1> SUFFICES ASSUME Bad # {} PROVE FALSE
  OBVIOUS
<1>1. PICK T \in Bad : \A U \in Bad : U \subseteq T => U = T
  <2>1. FiniteFamily(Bad)
    BY FS_Subset DEF FiniteFamily
  <2> HIDE DEF Bad
  <2> QED
    BY <2>1, MinimalSet
<1>2. T \in SUBSET S /\ ~Has(T)
  OBVIOUS
<1>3. ASSUME NEW U \in SUBSET T, U # T PROVE Has(U)
  <2>1. U \in SUBSET S /\ U \notin Bad
    <3> HIDE DEF Bad
    <3> QED
      BY <1>1, <1>2, <1>3
  <2> QED
    BY <2>1
<1> DEFINE Of(s) == CHOOSE G : Summing(G, F, s)
           V(s) == Of(s)[s]
           x == Member(T)
           W == [s \in SUBSET T |-> IF s = T
                                    THEN IF T = {} THEN 0 ELSE F[x] + V(T \ {x})
                                    ELSE V(s)]
<1>4. ASSUME NEW s \in SUBSET T, s # T PROVE Summing(Of(s), F, s)
  BY <1>3, <1>4
<1>5. ASSUME NEW s \in SUBSET T, s # T
      PROVE  /\ s = {} => V(s) = 0
             /\ s # {} => V(s) = F[Member(s)] + V(s \ {Member(s)})
  <2>1. Summing(Of(s), F, s)
    BY <1>4, <1>5
  <2>2. CASE s = {}
    <3> HIDE DEF Of
    <3> QED
      BY <2>1, <2>2, SummingFacts
  <2>3. CASE s # {}
    <3> DEFINE y == Member(s)
               r == s \ {y}
    <3>1. y \in s /\ Of(s)[s] = F[y] + Of(s)[r]
      <4> HIDE DEF Of
      <4> QED
        BY <2>1, <2>3, SummingFacts
    <3> HIDE DEF y
    <3>2. r \in SUBSET s /\ r \in SUBSET T /\ r # T /\ r \in SUBSET r
      BY <1>5, <3>1
    <3>3. Summing(Of(r), F, r)
      BY <1>4, <3>2
    <3>4. IsFiniteSet(r)
      BY <1>2, <3>2, FS_Subset
    <3>5. Of(s)[r] = Of(r)[r]
      <4> HIDE DEF Of, r
      <4> QED
        BY <2>1, <3>2, <3>3, <3>4, OneSum
    <3> HIDE DEF Of
    <3> QED
      BY <2>3, <3>1, <3>5 DEF y
  <2> QED
    BY <2>2, <2>3
<1>6. T # {} => x \in T
  BY DEF Member
<1> HIDE DEF V, Of
<1>7. Summing(W, F, T)
  <2> SUFFICES ASSUME NEW s \in SUBSET T
               PROVE  W[s] = IF s = {} THEN 0 ELSE F[Member(s)] + W[s \ {Member(s)}]
    BY DEF Summing
  <2>1. CASE s = {}
    BY <1>5, <2>1
  <2>2. CASE s # {}
    <3> DEFINE y == Member(s)
    <3>1. y \in s
      BY <2>2 DEF Member
    <3> HIDE DEF y
    <3>2. s \ {y} \in SUBSET T /\ s \ {y} # T
      BY <3>1
    <3>3. W[s \ {y}] = V(s \ {y})
      BY <3>2
    <3>4. CASE s = T
      BY <2>2, <3>3, <3>4 DEF y
    <3>5. CASE s # T
      BY <1>5, <2>2, <3>3, <3>5 DEF y
    <3> QED
      BY <3>4, <3>5 DEF y
  <2> QED
    BY <2>1, <2>2
<1> QED
  BY <1>2, <1>7

LEMMA SumIs ==
  ASSUME NEW F, NEW S, IsFiniteSet(S)
  PROVE  \E G : Summing(G, F, S) /\ SumOf(F, S) = G[S]
<1> DEFINE G == CHOOSE G : Summing(G, F, S)
<1>1. Summing(G, F, S)
  BY SomeSumming
<1>2. SumOf(F, S) = G[S]
  BY DEF SumOf, MapThenSumSet, MapThenFoldSet, Summing, Member
<1> HIDE DEF G
<1> QED
  BY <1>1, <1>2

(* Sums of equal things are equal.                                         *)
LEMMA SumEqual ==
  ASSUME NEW F, NEW E, NEW S, IsFiniteSet(S), \A x \in S : F[x] = E[x]
  PROVE  SumOf(F, S) = SumOf(E, S)
<1>1. PICK G : Summing(G, F, S) /\ SumOf(F, S) = G[S]
  BY SumIs
<1>2. PICK H : Summing(H, E, S) /\ SumOf(E, S) = H[S]
  BY SumIs
<1> QED
  BY <1>1, <1>2, OneSum

LEMMA SumEmpty ==
  ASSUME NEW F
  PROVE  SumOf(F, {}) = 0
<1>1. IsFiniteSet({})
  BY FS_EmptySet
<1>2. PICK G : Summing(G, F, {}) /\ SumOf(F, {}) = G[{}]
  BY <1>1, SumIs
<1> QED
  BY <1>2, SummingFacts

(* The sum over a part of S is that of S's own summing.                    *)
LEMMA SumPart ==
  ASSUME NEW F, NEW S, IsFiniteSet(S), NEW G, Summing(G, F, S), NEW s \in SUBSET S
  PROVE  SumOf(F, s) = G[s]
<1>1. IsFiniteSet(s)
  BY FS_Subset
<1>2. PICK H : Summing(H, F, s) /\ SumOf(F, s) = H[s]
  BY <1>1, SumIs
<1> QED
  BY <1>1, <1>2, OneSum

(* Sums of integers, one member after the other in any order.              *)
LEMMA SumType ==
  ASSUME NEW F, NEW S, IsFiniteSet(S), \A x \in S : F[x] \in Int
  PROVE  SumOf(F, S) \in Int
<1> DEFINE Bad == {u \in SUBSET S : SumOf(F, u) \notin Int}
<1> SUFFICES ASSUME Bad # {} PROVE FALSE
  OBVIOUS
<1>1. PICK u \in Bad : \A w \in Bad : w \subseteq u => w = u
  <2>1. FiniteFamily(Bad)
    BY FS_Subset DEF FiniteFamily
  <2> HIDE DEF Bad
  <2> QED
    BY <2>1, MinimalSet
<1>2. u \in SUBSET S /\ SumOf(F, u) \notin Int
  OBVIOUS
<1>3. PICK G : Summing(G, F, S)
  BY SomeSumming
<1>4. u # {}
  BY <1>2, SumEmpty
<1> DEFINE x == Member(u)
<1>5. x \in u /\ G[u] = F[x] + G[u \ {x}]
  BY <1>2, <1>3, <1>4, SummingFacts
<1> HIDE DEF x
<1>6. u \ {x} \in SUBSET S /\ u \ {x} \subseteq u /\ u \ {x} # u
  BY <1>2, <1>5
<1>7. u \ {x} \notin Bad
  <2> HIDE DEF Bad
  <2> QED
    BY <1>1, <1>6
<1>8. SumOf(F, u \ {x}) \in Int
  BY <1>6, <1>7
<1>9. SumOf(F, u) = G[u] /\ SumOf(F, u \ {x}) = G[u \ {x}]
  BY <1>2, <1>3, <1>6, SumPart
<1> QED
  BY <1>2, <1>5, <1>8, <1>9

LEMMA SumRemove ==
  ASSUME NEW F, NEW S, IsFiniteSet(S), \A x \in S : F[x] \in Int, NEW y \in S
  PROVE  SumOf(F, S) = F[y] + SumOf(F, S \ {y})
<1> DEFINE Holds(u) == \A z \in u : SumOf(F, u) = F[z] + SumOf(F, u \ {z})
           Bad == {u \in SUBSET S : ~Holds(u)}
<1> SUFFICES ASSUME Bad # {} PROVE FALSE
  OBVIOUS
<1>1. PICK u \in Bad : \A w \in Bad : w \subseteq u => w = u
  <2>1. FiniteFamily(Bad)
    BY FS_Subset DEF FiniteFamily
  <2> HIDE DEF Bad
  <2> QED
    BY <2>1, MinimalSet
<1>2. u \in SUBSET S /\ ~Holds(u)
  OBVIOUS
<1>3. ASSUME NEW w \in SUBSET u, w # u, NEW z \in w
      PROVE  SumOf(F, w) = F[z] + SumOf(F, w \ {z})
  <2>1. w \in SUBSET S /\ w \notin Bad
    <3> HIDE DEF Bad
    <3> QED
      BY <1>1, <1>2, <1>3
  <2> QED
    BY <2>1, <1>3
<1>4. ASSUME NEW w \in SUBSET S PROVE SumOf(F, w) \in Int
  BY FS_Subset, SumType
<1>5. PICK z \in u : SumOf(F, u) # F[z] + SumOf(F, u \ {z})
  BY <1>2
<1>6. PICK G : Summing(G, F, S)
  BY SomeSumming
<1> DEFINE x == Member(u)
<1>7. x \in u /\ G[u] = F[x] + G[u \ {x}]
  BY <1>2, <1>5, <1>6, SummingFacts
<1> HIDE DEF x, Bad, Holds
<1>8. SumOf(F, u) = F[x] + SumOf(F, u \ {x})
  <2>1. u \ {x} \in SUBSET S
    BY <1>2
  <2>2. SumOf(F, u) = G[u] /\ SumOf(F, u \ {x}) = G[u \ {x}]
    BY <1>2, <1>6, <2>1, SumPart
  <2> QED
    BY <1>7, <2>2
<1>9. x # z
  BY <1>5, <1>8
<1> DEFINE rest == (u \ {x}) \ {z}
<1>10. SumOf(F, u \ {x}) = F[z] + SumOf(F, rest)
  BY <1>3, <1>5, <1>7, <1>9
<1>11. SumOf(F, u \ {z}) = F[x] + SumOf(F, rest)
  <2>1. (u \ {z}) \ {x} = rest /\ x \in u \ {z} /\ u \ {z} \in SUBSET u /\ u \ {z} # u
    BY <1>5, <1>7, <1>9
  <2> HIDE DEF rest
  <2> QED
    BY <1>3, <2>1
<1>12. F[x] \in Int /\ F[z] \in Int /\ SumOf(F, rest) \in Int
  BY <1>2, <1>4, <1>5, <1>7
<1> HIDE DEF rest
<1> QED
  BY <1>5, <1>8, <1>10, <1>11, <1>12

-----------------------------------------------------------------------------
(* Sums of integers as one adds, scales, compares and splits them.         *)
Integral(F, S) == \A x \in S : F[x] \in Int

LEMMA SumAdd ==
  ASSUME NEW S, IsFiniteSet(S), NEW F, NEW G, NEW H, Integral(F, S), Integral(G, S),
         \A x \in S : H[x] = F[x] + G[x]
  PROVE  SumOf(H, S) = SumOf(F, S) + SumOf(G, S)
<1> DEFINE Bad == {u \in SUBSET S : SumOf(H, u) # SumOf(F, u) + SumOf(G, u)}
<1> SUFFICES ASSUME Bad # {} PROVE FALSE
  OBVIOUS
<1>1. PICK u \in Bad : \A w \in Bad : w \subseteq u => w = u
  <2>1. FiniteFamily(Bad)
    BY FS_Subset DEF FiniteFamily
  <2> HIDE DEF Bad
  <2> QED
    BY <2>1, MinimalSet
<1>2. u \in SUBSET S /\ SumOf(H, u) # SumOf(F, u) + SumOf(G, u)
  OBVIOUS
<1>3. u # {}
  BY <1>2, SumEmpty
<1>4. PICK y \in u : TRUE
  BY <1>3
<1> DEFINE r == u \ {y}
<1>5. r \in SUBSET S /\ r \subseteq u /\ r # u /\ IsFiniteSet(u) /\ IsFiniteSet(r)
  BY <1>2, <1>4, FS_Subset
<1>6. r \notin Bad
  <2> HIDE DEF Bad, r
  <2> QED
    BY <1>1, <1>5
<1>7. SumOf(H, r) = SumOf(F, r) + SumOf(G, r)
  BY <1>5, <1>6
<1>8. /\ \A x \in u : F[x] \in Int /\ G[x] \in Int /\ H[x] \in Int
      /\ \A x \in r : F[x] \in Int /\ G[x] \in Int
      /\ H[y] = F[y] + G[y]
  BY <1>2, <1>4 DEF Integral
<1>9. /\ SumOf(H, u) = H[y] + SumOf(H, r) /\ SumOf(F, u) = F[y] + SumOf(F, r)
      /\ SumOf(G, u) = G[y] + SumOf(G, r)
  BY <1>4, <1>5, <1>8, SumRemove
<1>10. SumOf(F, r) \in Int /\ SumOf(G, r) \in Int /\ F[y] \in Int /\ G[y] \in Int
  <2> HIDE DEF r
  <2> QED
    BY <1>4, <1>5, <1>8, SumType
<1> HIDE DEF r, Bad
<1> QED
  BY <1>2, <1>7, <1>8, <1>9, <1>10

LEMMA SumLeq ==
  ASSUME NEW S, IsFiniteSet(S), NEW F, NEW G, Integral(F, S), Integral(G, S),
         \A x \in S : F[x] <= G[x]
  PROVE  SumOf(F, S) <= SumOf(G, S)
<1> DEFINE Bad == {u \in SUBSET S : ~(SumOf(F, u) <= SumOf(G, u))}
<1> SUFFICES ASSUME Bad # {} PROVE FALSE
  OBVIOUS
<1>1. PICK u \in Bad : \A w \in Bad : w \subseteq u => w = u
  <2>1. FiniteFamily(Bad)
    BY FS_Subset DEF FiniteFamily
  <2> HIDE DEF Bad
  <2> QED
    BY <2>1, MinimalSet
<1>2. u \in SUBSET S /\ ~(SumOf(F, u) <= SumOf(G, u))
  OBVIOUS
<1>3. u # {}
  <2>1. SumOf(F, {}) = 0 /\ SumOf(G, {}) = 0
    BY SumEmpty
  <2> QED
    BY <1>2, <2>1
<1>4. PICK y \in u : TRUE
  BY <1>3
<1> DEFINE r == u \ {y}
<1>5. r \in SUBSET S /\ r \subseteq u /\ r # u /\ IsFiniteSet(u) /\ IsFiniteSet(r)
  BY <1>2, <1>4, FS_Subset
<1>6. r \notin Bad
  <2> HIDE DEF Bad, r
  <2> QED
    BY <1>1, <1>5
<1>7. SumOf(F, r) <= SumOf(G, r)
  BY <1>5, <1>6
<1>8. /\ \A x \in u : F[x] \in Int /\ G[x] \in Int
      /\ \A x \in r : F[x] \in Int /\ G[x] \in Int
      /\ F[y] <= G[y]
  BY <1>2, <1>4 DEF Integral
<1>9. /\ SumOf(F, u) = F[y] + SumOf(F, r)
      /\ SumOf(G, u) = G[y] + SumOf(G, r)
  BY <1>4, <1>5, <1>8, SumRemove
<1>10. SumOf(F, r) \in Int /\ SumOf(G, r) \in Int /\ F[y] \in Int /\ G[y] \in Int
  <2> HIDE DEF r
  <2> QED
    BY <1>4, <1>5, <1>8, SumType
<1> HIDE DEF r, Bad
<1> QED
  BY <1>2, <1>7, <1>8, <1>9, <1>10

LEMMA SumZero ==
  ASSUME NEW S, IsFiniteSet(S), NEW F, \A x \in S : F[x] = 0
  PROVE  SumOf(F, S) = 0
<1>1. Integral(F, S)
  BY DEF Integral
<1>2. \A x \in S : F[x] = F[x] + F[x]
  OBVIOUS
<1>3. SumOf(F, S) = SumOf(F, S) + SumOf(F, S)
  BY <1>1, <1>2, SumAdd
<1>4. SumOf(F, S) \in Int
  BY <1>1, SumType DEF Integral
<1>5. \A n \in Int : n = n + n => n = 0
  OBVIOUS
<1> QED
  BY <1>3, <1>4, <1>5

(* The sum over a set is that over a part and that over the rest.          *)
LEMMA SumSplit ==
  ASSUME NEW S, IsFiniteSet(S), NEW F, Integral(F, S), NEW T \in SUBSET S
  PROVE  /\ SumOf(F, T) \in Int /\ SumOf(F, S \ T) \in Int
         /\ SumOf(F, S) = SumOf(F, T) + SumOf(F, S \ T)
<1> DEFINE Bad == {u \in SUBSET T : SumOf(F, S) # SumOf(F, u) + SumOf(F, S \ u)}
<1>1. ASSUME NEW u \in SUBSET T PROVE SumOf(F, u) \in Int /\ SumOf(F, S \ u) \in Int
  <2>1. IsFiniteSet(u) /\ IsFiniteSet(S \ u)
    BY FS_Subset
  <2>2. (\A x \in u : F[x] \in Int) /\ \A x \in S \ u : F[x] \in Int
    BY DEF Integral
  <2> QED
    BY <2>1, <2>2, SumType
<1>2. Bad = {}
  <2> SUFFICES ASSUME Bad # {} PROVE FALSE
    OBVIOUS
  <2>1. PICK u \in Bad : \A w \in Bad : w \subseteq u => w = u
    <3>1. FiniteFamily(Bad)
      BY FS_Subset DEF FiniteFamily
    <3> HIDE DEF Bad
    <3> QED
      BY <3>1, MinimalSet
  <2>2. u \in SUBSET T /\ SumOf(F, S) # SumOf(F, u) + SumOf(F, S \ u)
    OBVIOUS
  <2>3. u # {}
    <3> SUFFICES ASSUME u = {} PROVE FALSE
      OBVIOUS
    <3>1. S \ u = S /\ SumOf(F, u) = 0
      BY SumEmpty
    <3> QED
      BY <1>1, <2>2, <3>1
  <2>4. PICK y \in u : TRUE
    BY <2>3
  <2> DEFINE r == u \ {y}
             c == S \ u
             d == S \ r
  <2>5. /\ r \in SUBSET T /\ r \subseteq u /\ r # u /\ y \in d /\ d \ {y} = c
        /\ u \in SUBSET S /\ d \in SUBSET S /\ IsFiniteSet(u) /\ IsFiniteSet(d)
    BY <2>2, <2>4, FS_Subset
  <2>6. r \notin Bad
    <3> HIDE DEF Bad, r
    <3> QED
      BY <2>1, <2>5
  <2>7. SumOf(F, S) = SumOf(F, r) + SumOf(F, d)
    BY <2>5, <2>6
  <2>8. (\A x \in u : F[x] \in Int) /\ \A x \in d : F[x] \in Int
    BY <2>5 DEF Integral
  <2>9. SumOf(F, u) = F[y] + SumOf(F, r) /\ SumOf(F, d) = F[y] + SumOf(F, d \ {y})
    <3> HIDE DEF d
    <3> QED
      BY <2>4, <2>5, <2>8, SumRemove
  <2>10. SumOf(F, r) \in Int /\ SumOf(F, c) \in Int /\ F[y] \in Int
    BY <1>1, <2>2, <2>4, <2>5, <2>8
  <2>11. SumOf(F, S) # SumOf(F, u) + SumOf(F, c)
    BY <2>2
  <2>12. SumOf(F, d) = F[y] + SumOf(F, c)
    <3> HIDE DEF c, d
    <3> QED
      BY <2>5, <2>9
  <2> HIDE DEF r, c, d, Bad
  <2> QED
    BY <2>7, <2>9, <2>10, <2>11, <2>12
<1> QED
  BY <1>1, <1>2

LEMMA SumScale ==
  ASSUME NEW S, IsFiniteSet(S), NEW k \in Int, NEW F, NEW G, Integral(F, S),
         \A x \in S : G[x] = k * F[x]
  PROVE  SumOf(G, S) = k * SumOf(F, S)
<1> DEFINE Bad == {u \in SUBSET S : SumOf(G, u) # k * SumOf(F, u)}
<1> SUFFICES ASSUME Bad # {} PROVE FALSE
  OBVIOUS
<1>1. PICK u \in Bad : \A w \in Bad : w \subseteq u => w = u
  <2>1. FiniteFamily(Bad)
    BY FS_Subset DEF FiniteFamily
  <2> HIDE DEF Bad
  <2> QED
    BY <2>1, MinimalSet
<1>2. u \in SUBSET S /\ SumOf(G, u) # k * SumOf(F, u)
  OBVIOUS
<1>3. u # {}
  <2>1. SumOf(F, {}) = 0 /\ SumOf(G, {}) = 0 /\ k * 0 = 0
    BY SumEmpty
  <2> QED
    BY <1>2, <2>1
<1>4. PICK y \in u : TRUE
  BY <1>3
<1> DEFINE r == u \ {y}
<1>5. r \in SUBSET S /\ r \subseteq u /\ r # u /\ IsFiniteSet(u) /\ IsFiniteSet(r)
  BY <1>2, <1>4, FS_Subset
<1>6. r \notin Bad
  <2> HIDE DEF Bad, r
  <2> QED
    BY <1>1, <1>5
<1>7. SumOf(G, r) = k * SumOf(F, r)
  BY <1>5, <1>6
<1>8. /\ \A x \in u : F[x] \in Int /\ G[x] \in Int
      /\ \A x \in r : F[x] \in Int /\ G[x] \in Int
      /\ G[y] = k * F[y]
  BY <1>2, <1>4 DEF Integral
<1>9. /\ SumOf(F, u) = F[y] + SumOf(F, r)
      /\ SumOf(G, u) = G[y] + SumOf(G, r)
  BY <1>4, <1>5, <1>8, SumRemove
<1>10. SumOf(F, r) \in Int /\ F[y] \in Int
  <2> HIDE DEF r
  <2> QED
    BY <1>4, <1>5, <1>8, SumType
<1>11. \A a, b \in Int : k * (a + b) = k * a + k * b
  OBVIOUS
<1> HIDE DEF r, Bad
<1>12. k * (F[y] + SumOf(F, r)) = k * F[y] + k * SumOf(F, r)
  BY <1>10, <1>11
<1> QED
  BY <1>2, <1>7, <1>8, <1>9, <1>12

(* Counting: the members of T, each as 1.                                  *)
LEMMA SumCount ==
  ASSUME NEW S, IsFiniteSet(S), NEW T \in SUBSET S, NEW F,
         \A x \in S : F[x] = IF x \in T THEN 1 ELSE 0
  PROVE  SumOf(F, S) = Cardinality(T)
<1>1. Integral(F, S)
  BY DEF Integral
<1>2. SumOf(F, S) = SumOf(F, T) + SumOf(F, S \ T) /\ SumOf(F, T) \in Int
  BY <1>1, SumSplit
<1>3. SumOf(F, S \ T) = 0
  <2>1. IsFiniteSet(S \ T)
    BY FS_Subset
  <2> QED
    BY <2>1, SumZero
<1>4. SumOf(F, T) = Cardinality(T)
  <2> DEFINE Bad == {u \in SUBSET T : SumOf(F, u) # Cardinality(u)}
  <2> SUFFICES ASSUME Bad # {} PROVE FALSE
    OBVIOUS
  <2>1. PICK u \in Bad : \A w \in Bad : w \subseteq u => w = u
    <3>1. FiniteFamily(Bad)
      BY FS_Subset DEF FiniteFamily
    <3> HIDE DEF Bad
    <3> QED
      BY <3>1, MinimalSet
  <2>2. u \in SUBSET T /\ SumOf(F, u) # Cardinality(u)
    OBVIOUS
  <2>3. u # {}
    BY <2>2, SumEmpty, FS_EmptySet
  <2>4. PICK y \in u : TRUE
    BY <2>3
  <2> DEFINE r == u \ {y}
  <2>5. r \in SUBSET T /\ r \subseteq u /\ r # u /\ IsFiniteSet(u) /\ IsFiniteSet(r)
    BY <2>2, <2>4, FS_Subset
  <2>6. r \notin Bad
    <3> HIDE DEF Bad, r
    <3> QED
      BY <2>1, <2>5
  <2>7. SumOf(F, r) = Cardinality(r)
    BY <2>5, <2>6
  <2>8. Cardinality(r) = Cardinality(u) - 1 /\ Cardinality(u) \in Int
    BY <2>4, <2>5, FS_RemoveElement, FS_CardinalityType
  <2>9. SumOf(F, u) = F[y] + SumOf(F, r)
    <3>1. \A x \in u : F[x] \in Int
      BY <2>2
    <3> QED
      BY <2>4, <2>5, <3>1, SumRemove
  <2>10. F[y] = 1
    BY <2>2, <2>4
  <2> HIDE DEF r, Bad
  <2> QED
    BY <2>2, <2>7, <2>8, <2>9, <2>10
<1> QED
  BY <1>2, <1>3, <1>4

LEMMA SumLess ==
  ASSUME NEW S, IsFiniteSet(S), NEW F, Integral(F, S), NEW x \in S, NEW T, T = S \ {x}
  PROVE  SumOf(F, S) = F[x] + SumOf(F, T)
<1>1. \A y \in S : F[y] \in Int
  BY DEF Integral
<1> QED
  BY <1>1, SumRemove

(* A table has one sum, row by row or column by column.                    *)
IsTable(R, A, B) == \A x \in A, y \in B : R[x][y] \in Int
Transposed(C, R, A, B) == \A x \in A, y \in B : C[y][x] = R[x][y]
RowSums(V, R, A, B) == \A x \in A : V[x] = SumOf(R[x], B)
LEMMA SumSwap ==
  ASSUME NEW A, IsFiniteSet(A), NEW B, IsFiniteSet(B), NEW R, NEW C, IsTable(R, A, B),
         Transposed(C, R, A, B), NEW V, RowSums(V, R, A, B), NEW W, RowSums(W, C, B, A)
  PROVE  SumOf(V, A) = SumOf(W, B)
<1>0. /\ \A x \in A, y \in B : C[y][x] = R[x][y]
      /\ \A x \in A : V[x] = SumOf(R[x], B)
      /\ \A y \in B : W[y] = SumOf(C[y], A)
  BY DEF Transposed, RowSums
<1> DEFINE Col(u) == [y \in B |-> SumOf(C[y], u)]
           Bad == {u \in SUBSET A : SumOf(V, u) # SumOf(Col(u), B)}
<1>1. /\ \A x \in A : Integral(R[x], B) /\ V[x] \in Int
      /\ \A y \in B, u \in SUBSET A : Integral(C[y], u) /\ SumOf(C[y], u) \in Int
      /\ \A u \in SUBSET A : Integral(Col(u), B)
  <2>1. \A x \in A : Integral(R[x], B)
    BY DEF IsTable, Integral
  <2>2. \A x \in A : V[x] \in Int
    BY <1>0, <2>1, SumType DEF Integral
  <2>3. \A y \in B, u \in SUBSET A : Integral(C[y], u)
    BY <1>0 DEF IsTable, Integral
  <2>4. \A y \in B, u \in SUBSET A : SumOf(C[y], u) \in Int
    BY <2>3, FS_Subset, SumType DEF Integral
  <2>5. \A u \in SUBSET A : Integral(Col(u), B)
    BY <2>4 DEF Integral
  <2> QED
    BY <2>1, <2>2, <2>3, <2>4, <2>5
<1>2. Bad = {}
  <2> SUFFICES ASSUME Bad # {} PROVE FALSE
    OBVIOUS
  <2>1. PICK u \in Bad : \A w \in Bad : w \subseteq u => w = u
    <3>1. FiniteFamily(Bad)
      BY FS_Subset DEF FiniteFamily
    <3> HIDE DEF Bad
    <3> QED
      BY <3>1, MinimalSet
  <2>2. u \in SUBSET A /\ SumOf(V, u) # SumOf(Col(u), B)
    OBVIOUS
  <2>3. u # {}
    <3> SUFFICES ASSUME u = {} PROVE FALSE
      OBVIOUS
    <3>1. \A y \in B : Col(u)[y] = 0
      BY SumEmpty
    <3>2. SumOf(Col(u), B) = 0
      <4> HIDE DEF Col
      <4> QED
        BY <3>1, SumZero
    <3> QED
      BY <2>2, <3>2, SumEmpty
  <2>4. PICK z \in u : TRUE
    BY <2>3
  <2> DEFINE r == u \ {z}
  <2>5. r \in SUBSET A /\ r \subseteq u /\ r # u /\ IsFiniteSet(u) /\ IsFiniteSet(r) /\ z \in A
    BY <2>2, <2>4, FS_Subset
  <2>6. r \notin Bad
    <3> HIDE DEF Bad, r
    <3> QED
      BY <2>1, <2>5
  <2>7. SumOf(V, r) = SumOf(Col(r), B)
    BY <2>5, <2>6
  <2>8. SumOf(V, u) = V[z] + SumOf(V, r)
    <3>1. Integral(V, u) /\ IsFiniteSet(u)
      BY <1>1, <2>2, <2>5 DEF Integral
    <3>2. r = u \ {z}
      OBVIOUS
    <3> HIDE DEF r, Bad, Col
    <3> QED
      BY <2>4, <3>1, <3>2, SumLess
  <2>9. SumOf(Col(u), B) = SumOf(R[z], B) + SumOf(Col(r), B)
    <3>1. ASSUME NEW y \in B PROVE Col(u)[y] = R[z][y] + Col(r)[y]
      <4>1. Integral(C[y], u) /\ IsFiniteSet(u) /\ r = u \ {z}
        BY <1>1, <2>2, <2>5
      <4>2. SumOf(C[y], u) = C[y][z] + SumOf(C[y], r)
        <5> DEFINE F == C[y]
        <5>1. Integral(F, u)
          BY <4>1
        <5> HIDE DEF F, r, Bad, Col
        <5>2. SumOf(F, u) = F[z] + SumOf(F, r)
          BY <2>4, <4>1, <5>1, SumLess
        <5> QED
          BY <5>2 DEF F
      <4> QED
        BY <1>0, <2>5, <4>2
    <3>2. Integral(R[z], B) /\ Integral(Col(r), B)
      BY <1>1, <2>5
    <3> HIDE DEF Col, r
    <3> QED
      BY <3>1, <3>2, SumAdd
  <2>10. V[z] = SumOf(R[z], B)
    BY <1>0, <2>5
  <2> HIDE DEF Col, r, Bad
  <2> QED
    BY <2>2, <2>7, <2>8, <2>9, <2>10
<1>3. SumOf(V, A) = SumOf(Col(A), B)
  BY <1>2
<1>4. \A y \in B : Col(A)[y] = W[y]
  BY <1>0
<1> HIDE DEF Col
<1> QED
  BY <1>3, <1>4, SumEqual

(* Sums over disjoint sets are the sum over all of them.                   *)
Disjoint(P) == \A p, q \in P : p # q => p \cap q = {}
LEMMA SumDisjoint ==
  ASSUME NEW P, IsFiniteSet(P), IsFiniteSet(UNION P), Disjoint(P),
         NEW F, Integral(F, UNION P), NEW W, \A p \in P : W[p] = SumOf(F, p)
  PROVE  SumOf(W, P) = SumOf(F, UNION P)
<1> DEFINE Bad == {u \in SUBSET P : SumOf(W, u) # SumOf(F, UNION u)}
<1> SUFFICES ASSUME Bad # {} PROVE FALSE
  OBVIOUS
<1>1. PICK u \in Bad : \A w \in Bad : w \subseteq u => w = u
  <2>1. FiniteFamily(Bad)
    BY FS_Subset DEF FiniteFamily
  <2> HIDE DEF Bad
  <2> QED
    BY <2>1, MinimalSet
<1>2. u \in SUBSET P /\ SumOf(W, u) # SumOf(F, UNION u)
  OBVIOUS
<1>3. u # {}
  <2> SUFFICES ASSUME u = {} PROVE FALSE
    OBVIOUS
  <2>1. UNION u = {}
    OBVIOUS
  <2> QED
    BY <1>2, <2>1, SumEmpty
<1>4. PICK p \in u : TRUE
  BY <1>3
<1> DEFINE r == u \ {p}
           S == UNION u
           T == UNION r
<1>5. r \in SUBSET P /\ r \subseteq u /\ r # u /\ IsFiniteSet(u) /\ IsFiniteSet(r) /\ p \in P
  BY <1>2, <1>4, FS_Subset
<1>6. r \notin Bad
  <2> HIDE DEF Bad, r
  <2> QED
    BY <1>1, <1>5
<1>7. SumOf(W, r) = SumOf(F, T)
  BY <1>5, <1>6
<1>8. T \in SUBSET S /\ S \ T = p /\ S \in SUBSET UNION P
  <2>1. T \subseteq S /\ S \subseteq UNION P /\ p \subseteq S
    BY <1>2, <1>4
  <2>2. \A x \in p : x \notin T
    BY <1>2, <1>5 DEF Disjoint
  <2>3. \A x \in S : x \in T \/ x \in p
    OBVIOUS
  <2> HIDE DEF S, T
  <2> QED
    BY <2>1, <2>2, <2>3
<1>9. IsFiniteSet(S) /\ Integral(F, S)
  <2> HIDE DEF S
  <2> QED
    BY <1>8, FS_Subset DEF Integral
<1>10. /\ SumOf(F, T) \in Int /\ SumOf(F, p) \in Int
       /\ SumOf(F, S) = SumOf(F, T) + SumOf(F, p)
  <2> HIDE DEF S, T
  <2> QED
    BY <1>8, <1>9, SumSplit
<1>11. \A q \in u : W[q] \in Int
  <2>1. ASSUME NEW q \in u PROVE SumOf(F, q) \in Int
    <3>1. q \in SUBSET S
      OBVIOUS
    <3> HIDE DEF S
    <3> QED
      BY <1>9, <3>1, SumSplit
  <2> QED
    BY <1>2, <2>1
<1>12. SumOf(W, u) = W[p] + SumOf(W, r)
  <2> QED
    BY <1>4, <1>5, <1>11, SumRemove
<1>13. W[p] = SumOf(F, p) /\ SumOf(W, u) # SumOf(F, S)
  BY <1>2, <1>5
<1> HIDE DEF r, S, T, Bad
<1> QED
  BY <1>7, <1>10, <1>12, <1>13

(* Of numbers that are not negative, fewer have no greater sum.            *)
LEMMA SumGrows ==
  ASSUME NEW S, IsFiniteSet(S), NEW F, Integral(F, S), \A x \in S : 0 <= F[x],
         NEW T \in SUBSET S
  PROVE  0 <= SumOf(F, T) /\ SumOf(F, T) <= SumOf(F, S)
<1> DEFINE Z == [x \in S |-> 0]
<1>1. ASSUME NEW u \in SUBSET S PROVE 0 <= SumOf(F, u) /\ SumOf(F, u) \in Int
  <2>1. /\ IsFiniteSet(u) /\ Integral(Z, u) /\ Integral(F, u) /\ \A x \in u : Z[x] <= F[x]
        /\ \A x \in u : Z[x] = 0 /\ F[x] \in Int
    BY FS_Subset DEF Integral
  <2> HIDE DEF Z
  <2>2. SumOf(Z, u) <= SumOf(F, u)
    BY <2>1, SumLeq
  <2>3. SumOf(Z, u) = 0
    BY <2>1, SumZero
  <2>4. SumOf(F, u) \in Int
    BY <2>1, SumType
  <2> QED
    BY <2>2, <2>3, <2>4
<1>2. SumOf(F, S) = SumOf(F, T) + SumOf(F, S \ T)
  BY SumSplit
<1>3. 0 <= SumOf(F, T) /\ SumOf(F, T) \in Int
  BY <1>1
<1>4. 0 <= SumOf(F, S \ T) /\ SumOf(F, S \ T) \in Int
  <2>1. (S \ T) \in SUBSET S
    OBVIOUS
  <2> QED
    BY <2>1, <1>1
<1> QED
  BY <1>2, <1>3, <1>4
=============================================================================
