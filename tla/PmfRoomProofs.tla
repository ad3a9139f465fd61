---------------------------- MODULE PmfRoomProofs ----------------------------
(***************************************************************************)
(* Theorems about the TCAM ledger, part 6: what it tells an operator.      *)
(*                                                                         *)
(* get and get_max answer from the counters of the ledger; the chip takes  *)
(* or refuses an entry for what each of its banks holds.  The two agree    *)
(* because every key an AG is charged for lies in a bank of the AG: the    *)
(* charge is the sum of what the banks hold, counted group by group on one *)
(* side and bank by bank on the other.                                     *)
(***************************************************************************)
EXTENDS PmfCountProofs

-----------------------------------------------------------------------------
(* What f uses of a bank, and the keys of a bank as a sum over the groups. *)
EntriesIn(g, b) == {e \in Entry : b \in g.at[e]}
UseOf(S, b) == [f \in FgId |-> KeysPerPlace(S[f].shape) * Cardinality(EntriesIn(S[f], b))]

LEMMA KeysUsedIsSum ==
  ASSUME NEW S, NEW b
  PROVE  KeysUsed(S, b) = SumOf(UseOf(S, b), FgId)
<1> DEFINE F == UseOf(S, b)
           M == FgId
           Sums(G) == G = [s \in SUBSET M |->
                        IF s = {} THEN 0
                        ELSE KeysPerPlace(S[Member(s)].shape)
                               * Cardinality({e \in Entry : b \in S[Member(s)].at[e]})
                             + G[s \ {Member(s)}]]
           H == CHOOSE G : Sums(G)
<1>1. M \in SUBSET FgId /\ IsFiniteSet(M) /\ M \in SUBSET M
  BY ConstantsAssumption
<1>2. \A s \in SUBSET M : s # {} =>
        F[Member(s)] = KeysPerPlace(S[Member(s)].shape)
                         * Cardinality({e \in Entry : b \in S[Member(s)].at[e]})
  BY DEF Member, UseOf, EntriesIn
<1>3. PICK G : Summing(G, F, M) /\ SumOf(F, M) = G[M]
  <2> HIDE DEF F, M
  <2> QED
    BY <1>1, SumIs
<1>4. KeysUsed(S, b) = H[M]
  BY DEF KeysUsed, MapThenSumSet, MapThenFoldSet, Member
<1> HIDE DEF F
<1>5. Sums(G)
  BY <1>2, <1>3 DEF Summing
<1>6. Sums(H)
  BY <1>5
<1>7. Summing(H, F, M)
  <2> HIDE DEF H
  <2> QED
    BY <1>2, <1>6 DEF Summing
<1> HIDE DEF H, M
<1>8. H[M] = G[M]
  BY <1>1, <1>3, <1>7, OneSum
<1> QED
  BY <1>3, <1>4, <1>8 DEF F, M

(* Places of one shape: one bank, or an aligned pair.                      *)
WidthOf(shape) == IF Wide(shape) THEN 2 ELSE 1
LEMMA ShapeFacts ==
  ASSUME NEW s \in Shape
  PROVE  /\ KeysPerPlace(s) \in {1, 2} /\ KeyOf(s) \in {1, 2, 4} /\ WidthOf(s) \in {1, 2}
         /\ KeyOf(s) = KeysPerPlace(s) * WidthOf(s)
         /\ Wide(s) => KeysPerPlace(s) = 2 /\ KeyOf(s) = 4
         /\ ~Wide(s) => KeysPerPlace(s) = KeyOf(s)
BY AgTypes DEF KeysPerPlace, WidthOf, Wide, WideKey

LEMMA UseFacts ==
  ASSUME NEW S \in Hardware, AllFinite(S), NEW f \in FgId, NEW b
  PROVE  /\ EntriesIn(S[f], b) \subseteq HwEntries(S[f]) /\ IsFiniteSet(EntriesIn(S[f], b))
         /\ Cardinality(EntriesIn(S[f], b)) \in Nat
         /\ KeysPerPlace(S[f].shape) \in Nat
         /\ UseOf(S, b)[f] = KeysPerPlace(S[f].shape) * Cardinality(EntriesIn(S[f], b))
         /\ UseOf(S, b)[f] \in Nat
         /\ EntriesIn(S[f], b) = {} => UseOf(S, b)[f] = 0
<1>1. EntriesIn(S[f], b) \subseteq HwEntries(S[f])
  BY DEF EntriesIn, HwEntries
<1>2. IsFiniteSet(EntriesIn(S[f], b))
  <2>1. IsFiniteSet(HwEntries(S[f]))
    BY DEF AllFinite
  <2> QED
    BY <1>1, <2>1, FS_Subset
<1>3. Cardinality(EntriesIn(S[f], b)) \in Nat
  BY <1>2, FS_CardinalityType
<1>4. S[f].shape \in Shape
  BY DEF Hardware, Group
<1>5. KeysPerPlace(S[f].shape) \in Nat
  BY <1>4, ShapeFacts
<1>6. UseOf(S, b)[f] = KeysPerPlace(S[f].shape) * Cardinality(EntriesIn(S[f], b))
  BY DEF UseOf
<1>7. \A m, n \in Nat : m * n \in Nat /\ m * 0 = 0
  OBVIOUS
<1>8. EntriesIn(S[f], b) = {} => Cardinality(EntriesIn(S[f], b)) = 0
  BY FS_EmptySet
<1> QED
  BY <1>1, <1>2, <1>3, <1>5, <1>6, <1>7, <1>8

LEMMA UseTypes ==
  ASSUME NEW S \in Hardware, AllFinite(S), NEW b
  PROVE  Integral(UseOf(S, b), FgId) /\ KeysUsed(S, b) \in Nat
<1>1. /\ Integral(UseOf(S, b), FgId) /\ \A f \in FgId : 0 <= UseOf(S, b)[f]
  BY UseFacts DEF Integral
<1>2. SumOf(UseOf(S, b), FgId) \in Int
  BY <1>1, ConstantsAssumption, SumType DEF Integral
<1>3. 0 <= SumOf(UseOf(S, b), FgId)
  BY <1>1, ConstantsAssumption, SumGrows
<1> QED
  BY <1>1, <1>2, <1>3, KeysUsedIsSum

(* When one group changes, a bank holds so much more or less.              *)
LEMMA UseStep ==
  ASSUME NEW S \in Hardware, AllFinite(S), NEW S2 \in Hardware, AllFinite(S2),
         NEW f \in FgId, SameBut(S, S2, f), NEW b
  PROVE  KeysUsed(S2, b) = KeysUsed(S, b) - UseOf(S, b)[f] + UseOf(S2, b)[f]
<1> DEFINE rest == FgId \ {f}
<1>1. ASSUME NEW T \in Hardware, AllFinite(T)
      PROVE  /\ KeysUsed(T, b) = UseOf(T, b)[f] + SumOf(UseOf(T, b), rest)
             /\ UseOf(T, b)[f] \in Int /\ SumOf(UseOf(T, b), rest) \in Int
  <2> DEFINE F == UseOf(T, b)
  <2>1. Integral(F, FgId) /\ IsFiniteSet(FgId) /\ IsFiniteSet(rest) /\ F[f] \in Int
    BY <1>1, UseTypes, ConstantsAssumption, FS_Subset DEF Integral
  <2>2. KeysUsed(T, b) = SumOf(F, FgId)
    BY KeysUsedIsSum
  <2>3. \A g \in rest : F[g] \in Int
    BY <2>1 DEF Integral
  <2> HIDE DEF F
  <2>4. SumOf(F, FgId) = F[f] + SumOf(F, rest)
    BY <2>1, SumLess
  <2>5. SumOf(F, rest) \in Int
    BY <2>1, <2>3, SumType
  <2> QED
    BY <2>1, <2>2, <2>4, <2>5 DEF F
<1>2. \A g \in rest : UseOf(S2, b)[g] = UseOf(S, b)[g]
  BY DEF SameBut, UseOf
<1>3. IsFiniteSet(rest)
  BY ConstantsAssumption, FS_Subset
<1>4. SumOf(UseOf(S2, b), rest) = SumOf(UseOf(S, b), rest)
  <2> HIDE DEF rest
  <2> QED
    BY <1>2, <1>3, SumEqual
<1>5. /\ KeysUsed(S, b) = UseOf(S, b)[f] + SumOf(UseOf(S, b), rest)
      /\ UseOf(S, b)[f] \in Int /\ SumOf(UseOf(S, b), rest) \in Int
  BY <1>1
<1>6. /\ KeysUsed(S2, b) = UseOf(S2, b)[f] + SumOf(UseOf(S2, b), rest)
      /\ UseOf(S2, b)[f] \in Int
  BY <1>1
<1> HIDE DEF rest
<1> QED
  BY <1>4, <1>5, <1>6

-----------------------------------------------------------------------------
(* Every group is a row's, every entry sits in a place of its group's      *)
(* shape, and no bank holds more keys than it has.                         *)
Housed(S) ==
  /\ \A f \in FgId : S[f].live => \E t \in Tuple : S[f].shape = ShapeOf[t]
  /\ \A f \in FgId : \A e \in HwEntries(S[f]) : S[f].at[e] \in Places(S[f].shape)
  /\ \A b \in Bank : KeysUsed(S, b) <= KeysPerBank[b]

RoomInv == CountInv /\ Housed(sdk)

(* A group without entries comes or goes.                                  *)
LEMMA HousedEmpty ==
  ASSUME NEW S \in Hardware, AllFinite(S), Housed(S), NEW f \in FgId, HwEntries(S[f]) = {},
         NEW S2 \in Hardware, SameBut(S, S2, f), HwEntries(S2[f]) = {},
         S2[f].live => \E t \in Tuple : S2[f].shape = ShapeOf[t]
  PROVE  AllFinite(S2) /\ Housed(S2)
<1>1. AllFinite(S2)
  BY FS_EmptySet DEF AllFinite, SameBut
<1>2. ASSUME NEW b \in Bank PROVE KeysUsed(S2, b) <= KeysPerBank[b]
  <2>1. EntriesIn(S[f], b) = {} /\ EntriesIn(S2[f], b) = {}
    BY <1>1, UseFacts
  <2>2. UseOf(S, b)[f] = 0 /\ UseOf(S2, b)[f] = 0
    BY <1>1, <2>1, UseFacts
  <2>3. KeysUsed(S2, b) = KeysUsed(S, b)
    <3>1. KeysUsed(S2, b) = KeysUsed(S, b) - UseOf(S, b)[f] + UseOf(S2, b)[f]
      BY <1>1, UseStep
    <3>2. KeysUsed(S, b) \in Nat
      BY UseTypes
    <3> QED
      BY <2>2, <3>1, <3>2
  <2> QED
    BY <2>3 DEF Housed
<1>3. /\ \A g \in FgId : S2[g].live => \E t \in Tuple : S2[g].shape = ShapeOf[t]
      /\ \A g \in FgId : \A e \in HwEntries(S2[g]) : S2[g].at[e] \in Places(S2[g].shape)
  BY DEF Housed, SameBut
<1> QED
  BY <1>1, <1>2, <1>3 DEF Housed

(* The SDK places an entry where there is room for it.                     *)
LEMMA HousedAdd ==
  ASSUME NEW S \in Hardware, AllFinite(S), Housed(S), NEW f \in FgId, S[f].live,
         NEW e \in Entry \ HwEntries(S[f]), NEW p \in Placements(S, f)
  PROVE  Housed(Put(S, f, e, p))
<1> DEFINE S2 == Put(S, f, e, p)
<1>1. /\ p \in SUBSET Bank /\ p \in Places(S[f].shape)
      /\ \A b \in p : KeysUsed(S, b) + KeysPerPlace(S[f].shape) <= KeysPerBank[b]
  BY PlacementsInBanks DEF Placements
<1>2. S2 \in Hardware /\ IsPut(S, S2, f, e, p) /\ SameBut(S, S2, f)
  <2>1. e \in Entry
    OBVIOUS
  <2>2. S2 \in Hardware /\ IsPut(S, S2, f, e, p)
    BY <1>1, <2>1, PutFacts
  <2> HIDE DEF S2
  <2> QED
    BY <2>2 DEF IsPut, SameBut
<1> HIDE DEF S2
<1>3. /\ S2[f].shape = S[f].shape /\ S2[f].live = S[f].live
      /\ S2[f].at = [S[f].at EXCEPT ![e] = p] /\ S[f].at \in [Entry -> SUBSET Bank]
      /\ S[f].at[e] = {}
  BY <1>2 DEF IsPut, Hardware, Group, HwEntries
<1>4. HwEntries(S2[f]) \subseteq HwEntries(S[f]) \cup {e}
  BY <1>3 DEF HwEntries
<1>5. AllFinite(S2)
  <2>1. IsFiniteSet(HwEntries(S[f]) \cup {e})
    BY FS_AddElement DEF AllFinite
  <2>2. IsFiniteSet(HwEntries(S2[f]))
    BY <1>4, <2>1, FS_Subset
  <2> QED
    BY <1>2, <2>2 DEF AllFinite, SameBut
<1>6. ASSUME NEW b \in Bank PROVE KeysUsed(S2, b) <= KeysPerBank[b]
  <2> DEFINE w == KeysPerPlace(S[f].shape)
             E == EntriesIn(S[f], b)
             E2 == EntriesIn(S2[f], b)
  <2>1. E2 = IF b \in p THEN E \cup {e} ELSE E
    BY <1>3 DEF EntriesIn
  <2>2. e \notin E
    BY <1>3 DEF EntriesIn
  <2>3. /\ w \in Nat /\ IsFiniteSet(E) /\ Cardinality(E) \in Nat
        /\ UseOf(S, b)[f] = w * Cardinality(E)
    BY UseFacts
  <2>4. UseOf(S2, b)[f] = w * Cardinality(E2)
    BY <1>3 DEF UseOf
  <2>5. KeysUsed(S2, b) = KeysUsed(S, b) - UseOf(S, b)[f] + UseOf(S2, b)[f]
    BY <1>2, <1>5, UseStep
  <2>6. KeysUsed(S, b) \in Nat /\ KeysUsed(S, b) <= KeysPerBank[b]
    BY UseTypes DEF Housed
  <2>7. CASE b \in p
    <3>1. Cardinality(E2) = Cardinality(E) + 1
      BY <2>1, <2>2, <2>3, <2>7, FS_AddElement
    <3>2. KeysUsed(S, b) + w <= KeysPerBank[b]
      BY <1>1, <2>7
    <3>3. \A m, n \in Nat : m * (n + 1) = m * n + m /\ m * n \in Nat
      OBVIOUS
    <3> HIDE DEF w, E, E2
    <3>4. UseOf(S2, b)[f] = UseOf(S, b)[f] + w /\ UseOf(S, b)[f] \in Nat
      BY <2>3, <2>4, <3>1, <3>3
    <3>5. KeysUsed(S2, b) = KeysUsed(S, b) + w
      BY <2>3, <2>5, <2>6, <3>4
    <3> QED
      BY <3>2, <3>5
  <2>8. CASE b \notin p
    <3>1. UseOf(S2, b)[f] = UseOf(S, b)[f] /\ UseOf(S, b)[f] \in Nat
      BY <2>1, <2>3, <2>4, <2>8, UseFacts
    <3> HIDE DEF w, E, E2
    <3> QED
      BY <2>5, <2>6, <3>1
  <2> QED
    BY <2>7, <2>8
<1>7. \A g \in FgId : S2[g].live => \E t \in Tuple : S2[g].shape = ShapeOf[t]
  BY <1>2, <1>3 DEF Housed, SameBut
<1>8. ASSUME NEW g \in FgId, NEW d \in HwEntries(S2[g])
      PROVE  S2[g].at[d] \in Places(S2[g].shape)
  <2>1. CASE g # f
    BY <1>2, <1>8, <2>1 DEF Housed, SameBut
  <2>2. CASE g = f
    <3>1. CASE d = e
      BY <1>1, <1>3, <2>2, <3>1
    <3>2. CASE d # e
      <4>1. d \in HwEntries(S[f]) /\ S2[f].at[d] = S[f].at[d]
        BY <1>3, <1>8, <2>2, <3>2 DEF HwEntries
      <4> QED
        BY <1>3, <2>2, <4>1 DEF Housed
    <3> QED
      BY <3>1, <3>2
  <2> QED
    BY <2>1, <2>2
<1> QED
  BY <1>6, <1>7, <1>8 DEF Housed, S2

(* An entry goes, and its keys are free.                                   *)
LEMMA HousedRemove ==
  ASSUME NEW S \in Hardware, AllFinite(S), Housed(S), NEW f \in FgId, NEW e \in Entry
  PROVE  AllFinite(Put(S, f, e, {})) /\ Housed(Put(S, f, e, {}))
<1> DEFINE S2 == Put(S, f, e, {})
<1>1. S2 \in Hardware /\ IsPut(S, S2, f, e, {})
  <2>1. {} \in SUBSET Bank
    OBVIOUS
  <2> QED
    BY <2>1, PutFacts
<1> HIDE DEF S2
<1>2. SameBut(S, S2, f) /\ S2 \in Hardware
  BY <1>1 DEF IsPut, SameBut
<1>3. /\ S2[f].shape = S[f].shape /\ S2[f].live = S[f].live
      /\ S2[f].at = [S[f].at EXCEPT ![e] = {}] /\ S[f].at \in [Entry -> SUBSET Bank]
  BY <1>1 DEF IsPut, Hardware, Group
<1>4. HwEntries(S2[f]) \subseteq HwEntries(S[f])
  BY <1>3 DEF HwEntries
<1>5. AllFinite(S2)
  <2>1. IsFiniteSet(HwEntries(S2[f]))
    BY <1>4, FS_Subset DEF AllFinite
  <2> QED
    BY <1>2, <2>1 DEF AllFinite, SameBut
<1>6. ASSUME NEW b \in Bank PROVE KeysUsed(S2, b) <= KeysPerBank[b]
  <2> DEFINE w == KeysPerPlace(S[f].shape)
             m == Cardinality(EntriesIn(S[f], b))
             n == Cardinality(EntriesIn(S2[f], b))
  <2>1. EntriesIn(S2[f], b) \subseteq EntriesIn(S[f], b)
    BY <1>3 DEF EntriesIn
  <2>2. w \in Nat /\ m \in Nat /\ UseOf(S, b)[f] = w * m /\ IsFiniteSet(EntriesIn(S[f], b))
    BY UseFacts
  <2>3. n \in Nat /\ n <= m
    BY <1>2, <1>5, <2>1, <2>2, UseFacts, FS_Subset
  <2>4. UseOf(S2, b)[f] = w * n
    BY <1>3 DEF UseOf
  <2>5. KeysUsed(S2, b) = KeysUsed(S, b) - UseOf(S, b)[f] + UseOf(S2, b)[f]
    BY <1>2, <1>5, UseStep
  <2>6. KeysUsed(S, b) \in Nat /\ KeysUsed(S, b) <= KeysPerBank[b] /\ KeysPerBank[b] \in Nat
    BY UseTypes, ConstantsAssumption DEF Housed
  <2> HIDE DEF w, m, n
  <2>7. w \in {1, 2} \/ w \in Nat
    BY <2>2
  <2>8. w * n <= w * m /\ w * n \in Nat /\ w * m \in Nat
    BY <2>2, <2>3
  <2> QED
    BY <2>2, <2>4, <2>5, <2>6, <2>8
<1>7. \A g \in FgId : S2[g].live => \E t \in Tuple : S2[g].shape = ShapeOf[t]
  BY <1>2, <1>3 DEF Housed, SameBut
<1>8. ASSUME NEW g \in FgId, NEW d \in HwEntries(S2[g])
      PROVE  S2[g].at[d] \in Places(S2[g].shape)
  <2>1. CASE g # f
    BY <1>2, <1>8, <2>1 DEF Housed, SameBut
  <2>2. CASE g = f
    <3>1. d \in HwEntries(S[f]) /\ S2[f].at[d] = S[f].at[d]
      BY <1>3, <1>8, <2>2 DEF HwEntries
    <3> QED
      BY <1>3, <2>2, <3>1 DEF Housed
  <2> QED
    BY <2>1, <2>2
<1> QED
  BY <1>5, <1>6, <1>7, <1>8 DEF Housed, S2

(***************************************************************************)
(* Every action keeps groups housed.                                       *)
(***************************************************************************)
LEMMA HousedFacts ==
  ASSUME OnlyRefusals, RoomInv
  PROVE  /\ CountInv /\ Exact(tcam, sdk) /\ Counted(tcam, sdk) /\ RowsOwn(gt, ids, sdk)
         /\ Told /\ sdk \in Hardware /\ AllFinite(sdk) /\ Housed(sdk)
         /\ \A f \in FgId : ~sdk[f].live => HwEntries(sdk[f]) = {}
<1>1. CountInv /\ Housed(sdk)
  BY DEF RoomInv
<1>2. Exact(tcam, sdk) /\ Counted(tcam, sdk) /\ RowsOwn(gt, ids, sdk) /\ Tables
  BY <1>1, CountFacts
<1> QED
  BY <1>1, <1>2, RefusalsTold DEF Tables, Counted, FgCounted, AllFinite

(* A new group is empty.                                                   *)
LEMMA NewGroupHoused ==
  ASSUME NEW S \in Hardware, AllFinite(S), Housed(S), NEW f \in FgId, HwEntries(S[f]) = {},
         NEW t \in Tuple
  PROVE  /\ [S EXCEPT ![f] = NewGroup(ShapeOf[t])] \in Hardware
         /\ AllFinite([S EXCEPT ![f] = NewGroup(ShapeOf[t])])
         /\ Housed([S EXCEPT ![f] = NewGroup(ShapeOf[t])])
         /\ [S EXCEPT ![f] = NewGroup(ShapeOf[t])][f].live
<1> DEFINE S2 == [S EXCEPT ![f] = NewGroup(ShapeOf[t])]
<1>1. NewGroup(ShapeOf[t]) \in Group /\ HwEntries(NewGroup(ShapeOf[t])) = {}
  BY GroupFacts, NoEntries, AgTypes
<1>2. S2 \in Hardware /\ SameBut(S, S2, f) /\ S2[f] = NewGroup(ShapeOf[t])
  BY <1>1 DEF Hardware, SameBut
<1> HIDE DEF S2
<1>3. HwEntries(S2[f]) = {} /\ S2[f].live /\ S2[f].shape = ShapeOf[t]
  <2>1. HwEntries(S2[f]) = {}
    BY <1>1, <1>2
  <2>2. S2[f].live
    BY <1>2 DEF NewGroup
  <2>3. S2[f].shape = ShapeOf[t]
    BY <1>2 DEF NewGroup
  <2> QED
    BY <2>1, <2>2, <2>3
<1>4. AllFinite(S2) /\ Housed(S2)
  BY <1>2, <1>3, HousedEmpty
<1> QED
  BY <1>2, <1>3, <1>4 DEF S2

LEMMA DropHoused ==
  ASSUME NEW S \in Hardware, AllFinite(S), Housed(S), NEW f \in FgId, HwEntries(S[f]) = {}
  PROVE  Housed([S EXCEPT ![f] = DeadGroup(@.shape)])
<1> DEFINE S2 == [S EXCEPT ![f] = DeadGroup(@.shape)]
<1>1. S[f].shape \in Shape
  BY DEF Hardware, Group
<1>2. DeadGroup(S[f].shape) \in Group /\ HwEntries(DeadGroup(S[f].shape)) = {}
  BY <1>1, GroupFacts, NoEntries
<1>3. S2 \in Hardware /\ SameBut(S, S2, f) /\ S2[f] = DeadGroup(S[f].shape)
  BY <1>2 DEF Hardware, SameBut
<1> HIDE DEF S2
<1>4. HwEntries(S2[f]) = {} /\ ~S2[f].live
  <2>1. HwEntries(S2[f]) = {}
    BY <1>2, <1>3
  <2>2. ~S2[f].live
    BY <1>3 DEF DeadGroup
  <2> QED
    BY <2>1, <2>2
<1>5. Housed(S2)
  BY <1>3, <1>4, HousedEmpty
<1> QED
  BY <1>5 DEF S2

LEMMA FgSetHoused ==
  ASSUME OnlyRefusals, RoomInv, NEW t \in Tuple, FgSet(t)
  PROVE  Housed(sdk')
<1>1. /\ sdk \in Hardware /\ AllFinite(sdk) /\ Housed(sdk) /\ Told
      /\ \A f \in FgId : ~sdk[f].live => HwEntries(sdk[f]) = {}
  BY HousedFacts
<1>2. ASSUME NEW f \in FgId, ~sdk[f].live,
             NEW new, new = [sdk EXCEPT ![f] = NewGroup(ShapeOf[t])],
             NEW L,
             \/ Take(Result(L, new, {})) /\ gt' = [gt EXCEPT ![t].gid = f]
             \/ Populate(t, f, L, new)
      PROVE  Housed(sdk')
  <2>1. new \in Hardware /\ AllFinite(new) /\ Housed(new) /\ new[f].live
    BY <1>1, <1>2, NewGroupHoused
  <2>2. CASE Take(Result(L, new, {}))
    BY <2>1, <2>2 DEF Take, Result
  <2>3. ASSUME NEW e \in Entry \ HwEntries(new[f]), NEW p \in Placements(new, f),
               NEW r \in BookResults(L, Put(new, f, e, p), f, 1), Take(r)
        PROVE  Housed(sdk')
    <3>1. sdk' = Put(new, f, e, p)
      BY <2>3, <1>1 DEF Take, BookResults, Result, Told
    <3> QED
      BY <2>1, <3>1, HousedAdd
  <2> QED
    BY <1>2, <2>2, <2>3 DEF Populate
<1>3. \/ sdk' = sdk
      \/ \E f \in FgId :
           /\ ~sdk[f].live
           /\ \E new, L : /\ new = [sdk EXCEPT ![f] = NewGroup(ShapeOf[t])]
                          /\ \/ Take(Result(L, new, {})) /\ gt' = [gt EXCEPT ![t].gid = f]
                             \/ Populate(t, f, L, new)
  <2>1. "attach" \notin Sdk /\ "key_size" \notin Sdk
    BY DEF OnlyRefusals
  <2> QED
    BY <2>1 DEF FgSet
<1> QED
  BY <1>1, <1>2, <1>3

LEMMA ScaleUpHoused ==
  ASSUME OnlyRefusals, RoomInv, NEW t \in Tuple, ScaleUp(t)
  PROVE  Housed(sdk')
<1> DEFINE f == gt[t].gid
<1>1. sdk \in Hardware /\ AllFinite(sdk) /\ Housed(sdk) /\ Told
  BY HousedFacts
<1>2. f \in FgId /\ sdk[f].live
  BY DEF ScaleUp, Alive
<1>3. PICK e \in Entry \ HwEntries(sdk[f]), p \in Placements(sdk, f) :
        \E r \in BookResults(tcam, Put(sdk, f, e, p), f, 1) : Take(r)
  BY DEF ScaleUp
<1>4. sdk' = Put(sdk, f, e, p)
  BY <1>1, <1>3 DEF Take, BookResults, Result, Told
<1>5. e \in Entry \ HwEntries(sdk[f]) /\ p \in Placements(sdk, f)
  BY <1>3
<1> HIDE DEF f
<1> QED
  BY <1>1, <1>2, <1>4, <1>5, HousedAdd

(* What is left after an entry was given back.                             *)
LEMMA GivenBack ==
  ASSUME OnlyRefusals, NEW L, NEW S \in Hardware, AllFinite(S), Housed(S), NEW f \in FgId,
         NEW e \in Entry, NEW r \in RemoveResults(L, S, f, e)
  PROVE  r.sdk \in Hardware /\ AllFinite(r.sdk) /\ Housed(r.sdk)
<1>1. r.sdk = Put(S, f, e, {})
  BY DEF RemoveResults, BookResults, OnlyRefusals, Result
<1>2. Put(S, f, e, {}) \in Hardware
  <2>1. {} \in SUBSET Bank
    OBVIOUS
  <2> QED
    BY <2>1, PutFacts
<1> QED
  BY <1>1, <1>2, HousedRemove

LEMMA ScaleDownHoused ==
  ASSUME OnlyRefusals, RoomInv, NEW t \in Tuple, NEW e \in Entry, ScaleDown(t, e)
  PROVE  Housed(sdk')
<1> DEFINE f == gt[t].gid
<1>1. sdk \in Hardware /\ AllFinite(sdk) /\ Housed(sdk)
  BY HousedFacts
<1>2. CASE sdk' = sdk
  BY <1>1, <1>2
<1>3. ASSUME f \in FgId, NEW r \in RemoveResults(tcam, sdk, f, e), Take(r)
      PROVE  Housed(sdk')
  <2> HIDE DEF f
  <2> QED
    BY <1>1, <1>3, GivenBack DEF Take
<1> QED
  BY <1>2, <1>3 DEF ScaleDown, Alive

LEMMA DestroyTupleHoused ==
  ASSUME OnlyRefusals, RoomInv, NEW t \in Tuple, DestroyTuple(t)
  PROVE  Housed(sdk')
<1> DEFINE f == gt[t].gid
           after == IF gt[t].presel = 0 THEN {Result(tcam, sdk, {})}
                    ELSE RemoveResults(tcam, sdk, f, gt[t].presel)
<1>1. /\ sdk \in Hardware /\ AllFinite(sdk) /\ Housed(sdk) /\ Tables
  BY HousedFacts, CountFacts
<1>2. CASE sdk' = sdk
  BY <1>1, <1>2
<1>3. ASSUME f \in FgId, NEW r \in after,
             \/ sdk' = r.sdk
             \/ HwEntries(r.sdk[f]) = {} /\ sdk' = [r.sdk EXCEPT ![f] = DeadGroup(@.shape)]
      PROVE  Housed(sdk')
  <2>1. r.sdk \in Hardware /\ AllFinite(r.sdk) /\ Housed(r.sdk)
    <3>1. CASE gt[t].presel = 0
      BY <1>1, <1>3, <3>1 DEF Result
    <3>2. CASE gt[t].presel # 0
      <4> DEFINE e == gt[t].presel
      <4>1. e \in Entry /\ r \in RemoveResults(tcam, sdk, f, e) /\ f \in FgId
        BY <1>1, <1>3, <3>2 DEF Tables, GtRow
      <4> HIDE DEF f, e, after
      <4> QED
        BY <1>1, <4>1, GivenBack
    <3> QED
      BY <3>1, <3>2
  <2> HIDE DEF f, after
  <2> QED
    BY <1>3, <2>1, DropHoused
<1>4. sdk' = sdk
      \/ /\ f \in FgId
         /\ \E r \in after :
              \/ sdk' = r.sdk
              \/ HwEntries(r.sdk[f]) = {} /\ sdk' = [r.sdk EXCEPT ![f] = DeadGroup(@.shape)]
  <2>1. "drops_entries" \notin Sdk
    BY DEF OnlyRefusals
  <2>2. DestroyRow(t)
    BY DEF DestroyTuple
  <2>3. CASE ~Alive(sdk, f)
    BY <2>2, <2>3 DEF DestroyRow
  <2>4. CASE Alive(sdk, f)
    <3>1. \E r \in after :
              \/ Take(r)
              \/ /\ HwEntries(r.sdk[f]) = {} \/ "drops_entries" \in Sdk
                 /\ Take(Result(Dropped(r.tcam, f), [r.sdk EXCEPT ![f] = DeadGroup(@.shape)],
                                r.trips \cup DropTrips(r.tcam, f)))
      BY <2>2, <2>4 DEF DestroyRow
    <3>2. \A r : Take(r) => sdk' = r.sdk
      BY DEF Take
    <3>3. f \in FgId
      BY <2>4 DEF Alive
    <3> HIDE DEF f, after
    <3> QED
      BY <2>1, <3>1, <3>2, <3>3 DEF Result
  <2> QED
    BY <2>3, <2>4
<1> QED
  BY <1>2, <1>3, <1>4

LEMMA NextHoused == ASSUME OnlyRefusals PROVE RoomInv /\ [Next]_vars => RoomInv'
<1> SUFFICES ASSUME RoomInv, [Next]_vars PROVE RoomInv'
  OBVIOUS
<1>1. CountInv'
  BY NextCounted DEF RoomInv
<1>2. sweep = {}
  BY DEF RoomInv, CountInv
<1>3. Housed(sdk')
  <2>1. \A t \in Tuple : ~SweepTuple(t)
    BY <1>2 DEF SweepTuple
  <2>2. ~EntryDeleteAll
    BY DEF EntryDeleteAll, OnlyRefusals
  <2>3. \A f \in FgId : ~UncountedAdd(f) /\ \A e \in Entry : ~UncountedRemove(f, e)
    BY DEF UncountedAdd, UncountedRemove, OnlyRefusals
  <2>4. CASE UNCHANGED vars
    BY <2>4 DEF vars, RoomInv
  <2> QED
    BY <2>1, <2>2, <2>3, <2>4, FgSetHoused, ScaleUpHoused, ScaleDownHoused,
       DestroyTupleHoused DEF Next
<1> QED
  BY <1>1, <1>3 DEF RoomInv

LEMMA InitHoused == Init => RoomInv
<1> SUFFICES ASSUME Init PROVE RoomInv
  OBVIOUS
<1>1. CountInv
  BY InitCounted
<1>2. sdk \in Hardware /\ AllFinite(sdk)
  BY <1>1, CountFacts DEF Tables, Counted, FgCounted, AllFinite
<1>3. \A f \in FgId : ~sdk[f].live /\ HwEntries(sdk[f]) = {}
  BY DEF Init, DeadGroup, HwEntries, NoPlaces
<1>4. ASSUME NEW b \in Bank PROVE KeysUsed(sdk, b) <= KeysPerBank[b]
  <2>1. \A f \in FgId : UseOf(sdk, b)[f] = 0
    BY <1>2, <1>3, UseFacts
  <2>2. SumOf(UseOf(sdk, b), FgId) = 0
    BY <2>1, SumZero, ConstantsAssumption
  <2>3. KeysPerBank[b] \in Nat
    BY ConstantsAssumption
  <2> QED
    BY <2>2, <2>3, KeysUsedIsSum
<1>5. Housed(sdk)
  BY <1>3, <1>4 DEF Housed
<1> QED
  BY <1>1, <1>5 DEF RoomInv

LEMMA AlwaysHoused == ASSUME OnlyRefusals PROVE Spec => []RoomInv
<1>1. Init => RoomInv
  BY InitHoused
<1>2. RoomInv /\ [Next]_vars => RoomInv'
  BY NextHoused
<1> QED
  BY <1>1, <1>2, PTL DEF Spec

-----------------------------------------------------------------------------
(* What banks hold and may hold.                                           *)
BanksOf(a) == {b \in Bank : tcam.banks[b].ag = a}

LEMMA PairFacts ==
  ASSUME NEW b \in Nat
  PROVE  /\ Partner(b) \in Nat /\ Partner(b) # b /\ Pair(b) = {b, Partner(b)}
         /\ Partner(Partner(b)) = b /\ Pair(Partner(b)) = Pair(b)
         /\ \A c \in Pair(b) : Pair(c) = Pair(b)
<1> DEFINE o == IF b % 2 = 0 THEN b + 1 ELSE b - 1
<1>1. o \in Nat /\ o # b /\ Pair(b) = {b, o} /\ o % 2 # b % 2 /\ Pair(o) = {b, o}
  BY DEF Pair
<1> HIDE DEF o
<1>2. Partner(b) = o /\ Partner(o) = b
  BY <1>1 DEF Partner
<1> QED
  BY <1>1, <1>2

(* The banks of a place of one of the two kinds of shapes.                 *)
LEMMA PlaceFacts ==
  ASSUME NEW s \in Shape, NEW p \in Places(s)
  PROVE  /\ p \in SUBSET Bank /\ IsFiniteSet(p) /\ Cardinality(p) = WidthOf(s)
         /\ Wide(s) => \E b \in Bank : p = Pair(b) /\ Partner(b) \in Bank
         /\ Wide(s) => \A b \in p : p = Pair(b)
         /\ ~Wide(s) => \E b \in Bank : p = {b}
<1>1. p \in SUBSET Bank
  BY DEF Places
<1>2. CASE Wide(s)
  <2>1. PICK b \in Bank : p = Pair(b)
    BY <1>2 DEF Places
  <2>2. b \in Nat
    BY ConstantsAssumption
  <2>3. Partner(b) # b /\ p = {b, Partner(b)} /\ \A c \in p : p = Pair(c)
    BY <2>1, <2>2, PairFacts
  <2>4. IsFiniteSet(p) /\ Cardinality(p) = 2
    <3>1. IsFiniteSet({b}) /\ Cardinality({b}) = 1 /\ Partner(b) \notin {b}
      BY <2>3, FS_Singleton
    <3>2. p = {b} \cup {Partner(b)}
      BY <2>3
    <3> QED
      BY <3>1, <3>2, FS_AddElement
  <2> QED
    BY <1>1, <1>2, <2>1, <2>3, <2>4 DEF WidthOf
<1>3. CASE ~Wide(s)
  <2>1. PICK b \in Bank : p = {b}
    BY <1>3 DEF Places
  <2> QED
    BY <1>1, <1>3, <2>1, FS_Singleton DEF WidthOf
<1> QED
  BY <1>2, <1>3

(* KeysIn is the sum of the capacities.                                    *)
LEMMA KeysInIsSum ==
  ASSUME NEW B \in SUBSET Bank
  PROVE  KeysIn[B] = SumOf(KeysPerBank, B) /\ KeysIn[B] \in Nat
<1> DEFINE Bad == {u \in SUBSET B : KeysIn[u] # SumOf(KeysPerBank, u)}
<1>1. Bad = {}
  <2> SUFFICES ASSUME Bad # {} PROVE FALSE
    OBVIOUS
  <2>1. PICK u \in Bad : \A w \in Bad : w \subseteq u => w = u
    <3>1. FiniteFamily(Bad)
      BY FS_Subset, ConstantsAssumption DEF FiniteFamily
    <3> HIDE DEF Bad
    <3> QED
      BY <3>1, MinimalSet
  <2>2. u \in SUBSET B /\ KeysIn[u] # SumOf(KeysPerBank, u) /\ u \in SUBSET Bank
    OBVIOUS
  <2>3. u # {}
    BY <2>2, SumEmpty, SumAssumption
  <2>4. PICK y \in u : TRUE
    BY <2>3
  <2> DEFINE r == u \ {y}
  <2>5. /\ r \in SUBSET B /\ r \subseteq u /\ r # u /\ IsFiniteSet(u) /\ y \in Bank
        /\ r \in SUBSET Bank /\ r \cap {y} = {} /\ u = r \cup {y} /\ r = u \ {y}
    BY <2>2, <2>4, FS_Subset, ConstantsAssumption
  <2>6. r \notin Bad
    <3> HIDE DEF Bad, r
    <3> QED
      BY <2>1, <2>5
  <2>7. KeysIn[r] = SumOf(KeysPerBank, r)
    BY <2>5, <2>6
  <2>8. Integral(KeysPerBank, u)
    BY <2>2, ConstantsAssumption DEF Integral
  <2> HIDE DEF r, Bad
  <2>9. SumOf(KeysPerBank, u) = KeysPerBank[y] + SumOf(KeysPerBank, r)
    BY <2>4, <2>5, <2>8, SumLess
  <2>10. KeysIn[r \cup {y}] = KeysIn[r] + KeysIn[{y}] /\ KeysIn[{y}] = KeysPerBank[y]
    <3>1. {y} \in SUBSET Bank
      BY <2>5
    <3> QED
      BY <2>5, <3>1, SumAssumption
  <2>11. KeysIn[r] \in Nat /\ KeysPerBank[y] \in Nat
    BY <2>5, SumAssumption, ConstantsAssumption
  <2>12. KeysIn[u] = KeysIn[r] + KeysPerBank[y]
    BY <2>5, <2>10
  <2> QED
    BY <2>2, <2>7, <2>9, <2>11, <2>12
<1>2. KeysIn[B] = SumOf(KeysPerBank, B)
  BY <1>1
<1> QED
  BY <1>2, SumAssumption

(* Each of the entries D takes n of the banks T: their number as the banks *)
(* count them.                                                             *)
EachTakes(D, T, n, at) == \A e \in D : at[e] \in SUBSET T /\ Cardinality(at[e]) = n
CountsThose(W, T, D, at) == \A b \in T : W[b] = Cardinality({e \in D : b \in at[e]})
LEMMA CountedTwice ==
  ASSUME NEW D, IsFiniteSet(D), NEW T, IsFiniteSet(T), NEW n \in Nat, NEW at,
         EachTakes(D, T, n, at), NEW W, CountsThose(W, T, D, at)
  PROVE  SumOf(W, T) = n * Cardinality(D)
<1> DEFINE R == [b \in T |-> [e \in D |-> IF b \in at[e] THEN 1 ELSE 0]]
           C == [e \in D |-> [b \in T |-> IF b \in at[e] THEN 1 ELSE 0]]
           One == [e \in D |-> 1]
           V == [e \in D |-> n]
<1>0. /\ \A e \in D : at[e] \in SUBSET T /\ Cardinality(at[e]) = n
      /\ \A b \in T : W[b] = Cardinality({e \in D : b \in at[e]})
  BY DEF EachTakes, CountsThose
<1>1. IsTable(R, T, D) /\ \A b \in T, e \in D : C[e][b] = R[b][e]
  BY DEF IsTable
<1>2. ASSUME NEW b \in T PROVE W[b] = SumOf(R[b], D)
  <2> DEFINE F == R[b]
             U == {e \in D : b \in at[e]}
  <2>1. U \in SUBSET D /\ \A e \in D : F[e] = IF e \in U THEN 1 ELSE 0
    OBVIOUS
  <2> HIDE DEF F, U
  <2>2. SumOf(F, D) = Cardinality(U)
    BY <2>1, SumCount
  <2> QED
    BY <1>0, <2>2 DEF F, U
<1>3. ASSUME NEW e \in D PROVE V[e] = SumOf(C[e], T)
  <2> DEFINE F == C[e]
             U == at[e]
  <2>1. U \in SUBSET T /\ \A b \in T : F[b] = IF b \in U THEN 1 ELSE 0
    BY <1>0
  <2> HIDE DEF F, U
  <2>2. SumOf(F, T) = Cardinality(U)
    BY <2>1, SumCount
  <2>3. Cardinality(U) = n /\ V[e] = n
    BY <1>0 DEF U
  <2> QED
    BY <2>2, <2>3 DEF F
<1>4. SumOf(V, D) = n * Cardinality(D)
  <2>1. Integral(One, D) /\ \A e \in D : V[e] = n * One[e]
    BY DEF Integral
  <2>2. D \in SUBSET D /\ \A e \in D : One[e] = IF e \in D THEN 1 ELSE 0
    OBVIOUS
  <2> HIDE DEF V, One, R, C
  <2>3. SumOf(One, D) = Cardinality(D)
    BY <2>2, SumCount
  <2>4. n \in Int /\ IsFiniteSet(D)
    OBVIOUS
  <2>5. SumOf(V, D) = n * SumOf(One, D)
    BY <2>1, <2>4, SumScale
  <2> QED
    BY <2>3, <2>5
<1> HIDE DEF R, C, V, One
<1>5. SumOf(W, T) = SumOf(V, D)
  <2>1. RowSums(W, R, T, D)
    BY <1>2 DEF RowSums
  <2>2. RowSums(V, C, D, T)
    BY <1>3 DEF RowSums
  <2>3. /\ IsFiniteSet(T) /\ IsFiniteSet(D) /\ IsTable(R, T, D)
        /\ Transposed(C, R, T, D)
    BY <1>1 DEF Transposed
  <2> QED
    BY <2>1, <2>2, <2>3, SumSwap
<1> QED
  BY <1>4, <1>5

-----------------------------------------------------------------------------
(* Whose a bank is, and what a live group's row of the ledger says.        *)
LEMMA LiveFacts ==
  ASSUME OnlyRefusals, RoomInv, NEW f \in FgId
  PROVE  /\ sdk[f].shape \in Shape /\ IsFiniteSet(HwEntries(sdk[f]))
         /\ ~sdk[f].live => HwEntries(sdk[f]) = {} /\ HwBanks(sdk[f]) = {}
         /\ sdk[f].live =>
              /\ tcam.fgs[f].key = KeyOf(sdk[f].shape) /\ tcam.fgs[f].key # KeyDontCare
              /\ tcam.fgs[f].ag = AgOf(sdk[f].shape) /\ AgOf(sdk[f].shape) \in AllocGroup
              /\ tcam.fgs[f].nof = Cardinality(HwEntries(sdk[f]))
              /\ tcam.fgs[f].banks = HwBanks(sdk[f])
<1>1. Exact(tcam, sdk) /\ Counted(tcam, sdk) /\ Housed(sdk) /\ sdk \in Hardware
  BY HousedFacts
<1>2. FgCounted(tcam, sdk, f) /\ InStep(tcam, sdk, f)
  BY <1>1 DEF Exact, Counted
<1>3. sdk[f].shape \in Shape
  BY <1>1 DEF Hardware, Group
<1>4. KeyOf(sdk[f].shape) # KeyDontCare
  BY <1>3, AgTypes DEF KeyDontCare
<1>5. sdk[f].live => AgOf(sdk[f].shape) \in AllocGroup
  BY <1>1, AgTypes DEF Housed
<1> QED
  BY <1>2, <1>3, <1>4, <1>5 DEF FgCounted, InStep

LEMMA BankFacts ==
  ASSUME OnlyRefusals, RoomInv, NEW b \in Bank
  PROVE  /\ \A g \in FgId : b \in HwBanks(sdk[g]) =>
              /\ sdk[g].live /\ tcam.banks[b].ag = AgOf(sdk[g].shape)
              /\ tcam.banks[b].ag # Free
         /\ tcam.banks[b].ag # Free =>
              \E g \in FgId : /\ sdk[g].live /\ b \in HwBanks(sdk[g])
                              /\ tcam.banks[b].ag = AgOf(sdk[g].shape)
<1>1. LedgerOK(tcam) /\ RefsExact(tcam) /\ \A g \in FgId : InStep(tcam, sdk, g)
  BY HousedFacts DEF Exact
<1>2. ASSUME NEW g \in FgId, b \in HwBanks(sdk[g])
      PROVE  /\ sdk[g].live /\ tcam.banks[b].ag = AgOf(sdk[g].shape)
             /\ tcam.banks[b].ag # Free
  <2>1. sdk[g].live
    BY <1>2, LiveFacts
  <2>2. /\ tcam.fgs[g].banks = HwBanks(sdk[g]) /\ tcam.fgs[g].ag = AgOf(sdk[g].shape)
        /\ AgOf(sdk[g].shape) \in AllocGroup
    BY <2>1, LiveFacts
  <2>3. g \in Trackers(tcam, b)
    BY <1>2, <2>2 DEF Trackers
  <2>4. tcam.banks[b].ag = tcam.fgs[g].ag
    BY <1>1, <2>3 DEF RefsExact
  <2> QED
    BY <2>1, <2>2, <2>4, AgTypes
<1>3. ASSUME tcam.banks[b].ag # Free
      PROVE  \E g \in FgId : /\ sdk[g].live /\ b \in HwBanks(sdk[g])
                             /\ tcam.banks[b].ag = AgOf(sdk[g].shape)
  <2>1. tcam.banks[b].refcnt # 0 /\ tcam.banks[b].refcnt = Cardinality(Trackers(tcam, b))
    BY <1>1, <1>3 DEF LedgerOK, RefsExact
  <2>2. Trackers(tcam, b) # {}
    BY <2>1, FS_EmptySet
  <2>3. PICK g \in FgId : b \in tcam.fgs[g].banks
    BY <2>2 DEF Trackers
  <2>4. tcam.fgs[g].key # KeyDontCare
    BY <1>1, <2>3 DEF InStep
  <2>5. b \in HwBanks(sdk[g])
    BY <1>1, <2>3, <2>4 DEF InStep
  <2> QED
    BY <1>2, <2>5
<1> QED
  BY <1>2, <1>3

(* The keys of one group's entries, bank by bank.                          *)
LEMMA GroupUse ==
  ASSUME OnlyRefusals, RoomInv, NEW g \in FgId, NEW T \in SUBSET Bank, HwBanks(sdk[g]) \subseteq T,
         NEW W, \A b \in T : W[b] = UseOf(sdk, b)[g]
  PROVE  SumOf(W, T) = KeyOf(sdk[g].shape) * Cardinality(HwEntries(sdk[g]))
<1> DEFINE D == HwEntries(sdk[g])
           at == sdk[g].at
           n == WidthOf(sdk[g].shape)
           w == KeysPerPlace(sdk[g].shape)
           N == [b \in T |-> Cardinality({e \in D : b \in at[e]})]
<1>1. /\ sdk \in Hardware /\ AllFinite(sdk) /\ Housed(sdk)
  BY HousedFacts
<1>2. sdk[g].shape \in Shape /\ IsFiniteSet(D) /\ IsFiniteSet(T)
  BY LiveFacts, ConstantsAssumption, FS_Subset
<1>3. n \in Nat /\ w \in Int /\ KeyOf(sdk[g].shape) = w * n
  BY <1>2, ShapeFacts
<1>4. ASSUME NEW e \in D PROVE at[e] \in SUBSET T /\ Cardinality(at[e]) = n
  <2>1. at[e] \in Places(sdk[g].shape)
    BY <1>1 DEF Housed
  <2>2. Cardinality(at[e]) = n
    BY <1>2, <2>1, PlaceFacts
  <2>3. at[e] \subseteq HwBanks(sdk[g])
    BY DEF HwEntries, HwBanks
  <2> QED
    BY <2>2, <2>3
<1>5. ASSUME NEW b \in T PROVE W[b] = w * N[b] /\ N[b] \in Int
  <2>1. {e \in D : b \in at[e]} = EntriesIn(sdk[g], b)
    BY DEF EntriesIn, HwEntries
  <2>2. /\ UseOf(sdk, b)[g] = w * Cardinality(EntriesIn(sdk[g], b))
        /\ Cardinality(EntriesIn(sdk[g], b)) \in Int
    BY <1>1, UseFacts
  <2> QED
    BY <2>1, <2>2
<1>6. EachTakes(D, T, n, at) /\ CountsThose(N, T, D, at)
  BY <1>4 DEF EachTakes, CountsThose
<1>7. Integral(N, T)
  BY <1>5 DEF Integral
<1> HIDE DEF D, at, n, w, N
<1>8. SumOf(N, T) = n * Cardinality(D)
  BY <1>2, <1>3, <1>6, CountedTwice
<1>9. SumOf(W, T) = w * SumOf(N, T)
  BY <1>2, <1>3, <1>5, <1>7, SumScale
<1>10. Cardinality(D) \in Nat
  BY <1>2, FS_CardinalityType
<1>11. w * (n * Cardinality(D)) = (w * n) * Cardinality(D)
  BY <1>3, <1>10
<1> QED
  BY <1>3, <1>8, <1>9, <1>11 DEF D

(* What an AG is charged for is what its banks hold.                       *)
Used == [b \in Bank |-> KeysUsed(sdk, b)]
Room == [b \in Bank |-> KeysPerBank[b] - KeysUsed(sdk, b)]

LEMMA ChargedIsHeld ==
  ASSUME OnlyRefusals, RoomInv, NEW a \in AllocGroup
  PROVE  tcam.keys[a] = SumOf(Used, BanksOf(a))
<1> DEFINE M == Members(sdk, a)
           T == BanksOf(a)
           R == [g \in M |-> [b \in T |-> UseOf(sdk, b)[g]]]
           C == [b \in T |-> [g \in M |-> UseOf(sdk, b)[g]]]
           V == Charge("keys", sdk)
<1>1. /\ sdk \in Hardware /\ AllFinite(sdk) /\ Counted(tcam, sdk)
  BY HousedFacts
<1>2. /\ M \in SUBSET FgId /\ T \in SUBSET Bank /\ IsFiniteSet(M) /\ IsFiniteSet(T)
  BY FS_Subset, ConstantsAssumption DEF Members, BanksOf
<1>3. IsTable(R, M, T) /\ Transposed(C, R, M, T)
  BY <1>1, <1>2, UseFacts DEF IsTable, Transposed
<1>4. ASSUME NEW g \in M PROVE V[g] = SumOf(R[g], T)
  <2> DEFINE W == R[g]
  <2>1. g \in FgId /\ HwBanks(sdk[g]) \subseteq T
    <3>1. AgOf(sdk[g].shape) = a /\ g \in FgId
      BY DEF Members
    <3>2. HwBanks(sdk[g]) \in SUBSET Bank
      BY <1>1, <3>1, GroupFacts DEF Hardware
    <3> QED
      BY <3>1, <3>2, BankFacts DEF BanksOf
  <2>2. \A b \in T : W[b] = UseOf(sdk, b)[g]
    OBVIOUS
  <2> HIDE DEF W, T, M
  <2>3. SumOf(W, T) = KeyOf(sdk[g].shape) * Cardinality(HwEntries(sdk[g]))
    BY <1>2, <2>1, <2>2, GroupUse
  <2>4. V[g] = KeyOf(sdk[g].shape) * Cardinality(HwEntries(sdk[g]))
    BY <2>1 DEF Charge, Weight
  <2> QED
    BY <2>3, <2>4 DEF W
<1>5. ASSUME NEW b \in T PROVE Used[b] = SumOf(C[b], M)
  <2> DEFINE F == UseOf(sdk, b)
             E == C[b]
  <2>1. b \in Bank /\ tcam.banks[b].ag = a
    BY DEF BanksOf
  <2>2. Used[b] = SumOf(F, FgId)
    BY <2>1, KeysUsedIsSum DEF Used
  <2>3. Integral(F, FgId) /\ IsFiniteSet(FgId)
    BY <1>1, UseTypes, ConstantsAssumption
  <2>4. ASSUME NEW g \in FgId \ M PROVE F[g] = 0
    <3>1. b \notin HwBanks(sdk[g])
      BY <2>1, <2>4, BankFacts DEF Members
    <3>2. EntriesIn(sdk[g], b) = {}
      BY <3>1 DEF HwBanks, EntriesIn
    <3> QED
      BY <1>1, <3>2, UseFacts
  <2>5. \A g \in M : F[g] = E[g]
    OBVIOUS
  <2> HIDE DEF F, E, T, M, R, C
  <2>6. SumOf(F, FgId) = SumOf(F, M) + SumOf(F, FgId \ M) /\ SumOf(F, M) \in Int
    BY <1>2, <2>3, SumSplit
  <2>7. SumOf(F, FgId \ M) = 0
    <3>1. IsFiniteSet(FgId \ M)
      BY <2>3, FS_Subset
    <3> QED
      BY <2>4, <3>1, SumZero
  <2>8. SumOf(F, M) = SumOf(E, M)
    BY <1>2, <2>5, SumEqual
  <2> QED
    BY <2>2, <2>6, <2>7, <2>8 DEF E
<1>6. tcam.keys[a] = SumOf(V, M)
  BY <1>1 DEF Counted, Column, Charged, Counter
<1> HIDE DEF M, T, R, C, V
<1>7. RowSums(V, R, M, T) /\ RowSums(Used, C, T, M)
  BY <1>4, <1>5 DEF RowSums
<1>8. SumOf(V, M) = SumOf(Used, T)
  BY <1>2, <1>3, <1>7, SumSwap
<1> QED
  BY <1>6, <1>8 DEF T

-----------------------------------------------------------------------------
(* The capacity and the room of the banks of an AG, and of the free pool.  *)
LEMMA RoomFacts ==
  ASSUME OnlyRefusals, RoomInv, NEW b \in Bank
  PROVE  /\ KeysPerBank[b] \in Nat /\ Used[b] \in Nat /\ Used[b] = KeysUsed(sdk, b)
         /\ Room[b] \in Nat /\ Room[b] = KeysPerBank[b] - KeysUsed(sdk, b)
         /\ KeysPerBank[b] = Room[b] + Used[b]
         /\ tcam.banks[b].ag = Free => Used[b] = 0 /\ Room[b] = KeysPerBank[b]
<1>1. sdk \in Hardware /\ AllFinite(sdk) /\ Housed(sdk)
  BY HousedFacts
<1>2. /\ KeysPerBank[b] \in Nat /\ KeysUsed(sdk, b) \in Nat
      /\ KeysUsed(sdk, b) <= KeysPerBank[b]
  BY <1>1, UseTypes, ConstantsAssumption DEF Housed
<1>3. ASSUME tcam.banks[b].ag = Free PROVE KeysUsed(sdk, b) = 0
  <2>1. ASSUME NEW g \in FgId PROVE UseOf(sdk, b)[g] = 0
    <3>1. b \notin HwBanks(sdk[g])
      BY <1>3, BankFacts
    <3>2. EntriesIn(sdk[g], b) = {}
      BY <3>1 DEF HwBanks, EntriesIn
    <3> QED
      BY <1>1, <3>2, UseFacts
  <2>2. SumOf(UseOf(sdk, b), FgId) = 0
    BY <2>1, ConstantsAssumption, SumZero
  <2> QED
    BY <2>2, KeysUsedIsSum
<1> QED
  BY <1>2, <1>3 DEF Used, Room

LEMMA TotalsAsSums ==
  ASSUME OnlyRefusals, RoomInv
  PROVE  /\ tcam.total[Free] = SumOf(Room, BanksOf(Free)) /\ tcam.total[Free] \in Nat
         /\ \A a \in AllocGroup :
              /\ tcam.total[a] \in Nat /\ tcam.keys[a] \in Nat
              /\ SumOf(Room, BanksOf(a)) \in Nat
              /\ tcam.total[a] = SumOf(Room, BanksOf(a)) + tcam.keys[a]
<1>1. ASSUME NEW a \in AllocGroup \cup {Free}
      PROVE  /\ BanksOf(a) \in SUBSET Bank /\ IsFiniteSet(BanksOf(a))
             /\ tcam.total[a] = SumOf(KeysPerBank, BanksOf(a)) /\ tcam.total[a] \in Nat
             /\ SumOf(KeysPerBank, BanksOf(a))
                  = SumOf(Room, BanksOf(a)) + SumOf(Used, BanksOf(a))
             /\ SumOf(Room, BanksOf(a)) \in Nat /\ SumOf(Used, BanksOf(a)) \in Nat
  <2> DEFINE T == BanksOf(a)
  <2>1. T \in SUBSET Bank /\ IsFiniteSet(T)
    BY FS_Subset, ConstantsAssumption DEF BanksOf
  <2>2. tcam.total[a] = KeysIn[T]
    BY HousedFacts DEF Exact, LedgerOK, BanksOf
  <2>3. /\ Integral(Room, T) /\ Integral(Used, T) /\ Integral(KeysPerBank, T)
        /\ (\A b \in T : 0 <= Room[b]) /\ \A b \in T : 0 <= Used[b]
        /\ \A b \in T : KeysPerBank[b] = Room[b] + Used[b]
    BY <2>1, RoomFacts DEF Integral
  <2> HIDE DEF T
  <2>4. KeysIn[T] = SumOf(KeysPerBank, T) /\ KeysIn[T] \in Nat
    BY <2>1, KeysInIsSum
  <2>5. SumOf(KeysPerBank, T) = SumOf(Room, T) + SumOf(Used, T)
    BY <2>1, <2>3, SumAdd
  <2>6. SumOf(Room, T) \in Int /\ SumOf(Used, T) \in Int
    BY <2>1, <2>3, SumType DEF Integral
  <2>7. T \in SUBSET T
    OBVIOUS
  <2>8. 0 <= SumOf(Room, T)
    BY <2>1, <2>3, <2>7, SumGrows
  <2>9. 0 <= SumOf(Used, T)
    BY <2>1, <2>3, <2>7, SumGrows
  <2> QED
    BY <2>1, <2>2, <2>4, <2>5, <2>6, <2>8, <2>9 DEF T
<1>2. tcam.total[Free] = SumOf(Room, BanksOf(Free)) /\ tcam.total[Free] \in Nat
  <2>1. \A b \in BanksOf(Free) : KeysPerBank[b] = Room[b]
    BY RoomFacts DEF BanksOf
  <2>2. SumOf(KeysPerBank, BanksOf(Free)) = SumOf(Room, BanksOf(Free))
    BY <1>1, <2>1, SumEqual
  <2> QED
    BY <1>1, <2>2
<1>3. ASSUME NEW a \in AllocGroup
      PROVE  /\ tcam.total[a] \in Nat /\ tcam.keys[a] \in Nat
             /\ SumOf(Room, BanksOf(a)) \in Nat
             /\ tcam.total[a] = SumOf(Room, BanksOf(a)) + tcam.keys[a]
  BY <1>1, ChargedIsHeld
<1> QED
  BY <1>2, <1>3

(* A place is open to f when no other AG has a bank of it.                 *)
LEMMA OpenPlaces ==
  ASSUME OnlyRefusals, RoomInv, NEW f \in FgId, sdk[f].live, NEW p \in SUBSET Bank
  PROVE  Compatible(sdk, f, p)
           <=> \A b \in p : tcam.banks[b].ag \in {Free, AgOf(sdk[f].shape)}
<1>1. ASSUME Compatible(sdk, f, p), NEW b \in p, tcam.banks[b].ag # Free
      PROVE  tcam.banks[b].ag = AgOf(sdk[f].shape)
  <2>1. PICK g \in FgId : b \in HwBanks(sdk[g]) /\ tcam.banks[b].ag = AgOf(sdk[g].shape)
    BY <1>1, BankFacts
  <2>2. HwBanks(sdk[g]) \cap p # {}
    BY <2>1
  <2> QED
    BY <1>1, <2>1, <2>2 DEF Compatible
<1>2. ASSUME \A b \in p : tcam.banks[b].ag \in {Free, AgOf(sdk[f].shape)},
             NEW g \in FgId \ {f}, HwBanks(sdk[g]) \cap p # {}
      PROVE  AgOf(sdk[g].shape) = AgOf(sdk[f].shape)
  <2>1. PICK b \in p : b \in HwBanks(sdk[g])
    BY <1>2
  <2>2. tcam.banks[b].ag = AgOf(sdk[g].shape) /\ tcam.banks[b].ag # Free
    BY <2>1, BankFacts
  <2> QED
    BY <1>2, <2>2
<1> QED
  BY <1>1, <1>2 DEF Compatible

-----------------------------------------------------------------------------
(* Groups of one allocation group are all of wide keys or all of narrow    *)
(* ones, as those of the tuple tables are: max_free is no upper bound      *)
(* where they are mixed.                                                   *)
WideApart ==
  \A t, u \in Tuple :
    AgOf(ShapeOf[t]) = AgOf(ShapeOf[u]) /\ Wide(ShapeOf[t]) => Wide(ShapeOf[u])

(* Then the two banks of a pair are always used together.                  *)
LEMMA PairsTogether ==
  ASSUME OnlyRefusals, RoomInv, WideApart, NEW f \in FgId, sdk[f].live, Wide(sdk[f].shape),
         NEW b \in Bank, tcam.banks[b].ag = AgOf(sdk[f].shape)
  PROVE  /\ Partner(b) \in Bank /\ tcam.banks[Partner(b)].ag = AgOf(sdk[f].shape)
         /\ KeysUsed(sdk, Partner(b)) = KeysUsed(sdk, b)
<1> DEFINE o == Partner(b)
           a == AgOf(sdk[f].shape)
<1>1. sdk \in Hardware /\ AllFinite(sdk) /\ Housed(sdk) /\ a \in AllocGroup
  BY HousedFacts, LiveFacts
<1>2. b \in Nat /\ Pair(b) = {b, o} /\ Pair(o) = {b, o} /\ Partner(o) = b
  <2>1. b \in Nat
    BY ConstantsAssumption
  <2> QED
    BY <2>1, PairFacts
<1>3. ASSUME NEW g \in FgId, sdk[g].live, AgOf(sdk[g].shape) = a,
             NEW c \in {b, o}, NEW e \in EntriesIn(sdk[g], c)
      PROVE  sdk[g].at[e] = {b, o} /\ sdk[g].at[e] \in SUBSET Bank
  <2>1. Wide(sdk[g].shape)
    BY <1>1, <1>3 DEF WideApart, Housed
  <2>2. sdk[g].at[e] \in Places(sdk[g].shape) /\ sdk[g].shape \in Shape
    BY <1>1, <1>3, LiveFacts, UseFacts DEF Housed
  <2>3. sdk[g].at[e] = Pair(c) /\ sdk[g].at[e] \in SUBSET Bank
    BY <2>1, <2>2, PlaceFacts DEF EntriesIn
  <2> QED
    BY <1>2, <2>3
<1>4. o \in Bank /\ tcam.banks[o].ag = a
  <2>1. a # Free
    BY <1>1, AgTypes
  <2>2. PICK g \in FgId : sdk[g].live /\ b \in HwBanks(sdk[g]) /\ AgOf(sdk[g].shape) = a
    BY <2>1, BankFacts
  <2>3. PICK e \in Entry : b \in sdk[g].at[e]
    BY <2>2 DEF HwBanks
  <2>4. e \in EntriesIn(sdk[g], b)
    BY <2>3 DEF EntriesIn
  <2>5. sdk[g].at[e] = {b, o} /\ o \in Bank
    BY <1>3, <2>2, <2>4
  <2>6. o \in HwBanks(sdk[g])
    BY <2>5 DEF HwBanks
  <2> QED
    BY <2>2, <2>5, <2>6, BankFacts
<1>5. ASSUME NEW g \in FgId PROVE UseOf(sdk, o)[g] = UseOf(sdk, b)[g]
  <2>1. EntriesIn(sdk[g], o) = EntriesIn(sdk[g], b)
    <3>1. CASE sdk[g].live /\ AgOf(sdk[g].shape) = a
      <4>1. ASSUME NEW c \in {b, o}, NEW e \in EntriesIn(sdk[g], c)
            PROVE  e \in EntriesIn(sdk[g], b) /\ e \in EntriesIn(sdk[g], o)
        <5>1. sdk[g].at[e] = {b, o} /\ e \in Entry
          BY <1>3, <3>1, <4>1 DEF EntriesIn
        <5> QED
          BY <5>1 DEF EntriesIn
      <4> QED
        BY <4>1
    <3>2. CASE ~(sdk[g].live /\ AgOf(sdk[g].shape) = a)
      <4>1. b \notin HwBanks(sdk[g]) /\ o \notin HwBanks(sdk[g])
        BY <1>4, <3>2, BankFacts
      <4> QED
        BY <4>1 DEF HwBanks, EntriesIn
    <3> QED
      BY <3>1, <3>2
  <2> QED
    BY <2>1 DEF UseOf
<1>6. KeysUsed(sdk, o) = KeysUsed(sdk, b)
  <2>1. SumOf(UseOf(sdk, o), FgId) = SumOf(UseOf(sdk, b), FgId)
    BY <1>5, ConstantsAssumption, SumEqual
  <2> QED
    BY <2>1, KeysUsedIsSum
<1> QED
  BY <1>4, <1>6

-----------------------------------------------------------------------------
(* How many entries of f fit in a place, and in all that are open to it.   *)
OpenTo(f) == {p \in Places(sdk[f].shape) : Compatible(sdk, f, p)}
RoomsOf(f) == [p \in Places(sdk[f].shape) |-> RoomIn(f, p)]

LEMMA CapacityIsSum ==
  ASSUME NEW f \in FgId
  PROVE  /\ IsFiniteSet(OpenTo(f)) /\ OpenTo(f) \in SUBSET Places(sdk[f].shape)
         /\ Capacity(f) = SumOf(RoomsOf(f), OpenTo(f))
<1> DEFINE F == RoomsOf(f)
           M == OpenTo(f)
           Sums(G) == G = [s \in SUBSET M |->
                        IF s = {} THEN 0 ELSE RoomIn(f, Member(s)) + G[s \ {Member(s)}]]
           H == CHOOSE G : Sums(G)
<1>1. IsFiniteSet(M) /\ M \in SUBSET M /\ M \in SUBSET Places(sdk[f].shape)
  <2>1. M \in SUBSET SUBSET Bank
    BY DEF OpenTo, Places
  <2>2. IsFiniteSet(SUBSET Bank)
    BY ConstantsAssumption, FS_SUBSET
  <2> QED
    BY <2>1, <2>2, FS_Subset DEF OpenTo
<1>2. \A s \in SUBSET M : s # {} => F[Member(s)] = RoomIn(f, Member(s))
  BY <1>1 DEF Member, RoomsOf
<1>3. PICK G : Summing(G, F, M) /\ SumOf(F, M) = G[M]
  <2> HIDE DEF F, M
  <2> QED
    BY <1>1, SumIs
<1>4. Capacity(f) = H[M]
  BY DEF Capacity, MapThenSumSet, MapThenFoldSet, Member, OpenTo
<1> HIDE DEF F
<1>5. Sums(G)
  BY <1>2, <1>3 DEF Summing
<1>6. Sums(H)
  BY <1>5
<1>7. Summing(H, F, M)
  <2> HIDE DEF H
  <2> QED
    BY <1>2, <1>6 DEF Summing
<1> HIDE DEF H, M
<1>8. H[M] = G[M]
  BY <1>1, <1>3, <1>7, OneSum
<1> QED
  BY <1>1, <1>3, <1>4, <1>8 DEF F, M

(* A place takes no more than the fuller of its banks lets it.             *)
LEMMA RoomOfPlace ==
  ASSUME OnlyRefusals, RoomInv, NEW f \in FgId, NEW p \in Places(sdk[f].shape)
  PROVE  /\ RoomIn(f, p) \in Nat /\ RoomsOf(f)[p] = RoomIn(f, p)
         /\ KeyOf(sdk[f].shape) * RoomIn(f, p) <= SumOf(Room, p)
<1> DEFINE s == sdk[f].shape
           m == Min({KeysPerBank[b] - KeysUsed(sdk, b) : b \in p})
<1>1. s \in Shape
  BY LiveFacts
<1>2. /\ p \in SUBSET Bank /\ IsFiniteSet(p)
      /\ Wide(s) => \E b \in Bank : p = Pair(b) /\ Partner(b) \in Bank
      /\ ~Wide(s) => \E b \in Bank : p = {b}
  BY <1>1, PlaceFacts
<1>3. RoomIn(f, p) = m \div KeysPerPlace(s) /\ RoomsOf(f)[p] = RoomIn(f, p)
  BY DEF RoomIn, RoomsOf
<1>4. Integral(Room, p)
  BY <1>2, RoomFacts DEF Integral
<1>5. CASE ~Wide(s)
  <2>1. PICK b \in Bank : p = {b}
    BY <1>2, <1>5
  <2>2. {KeysPerBank[c] - KeysUsed(sdk, c) : c \in p} = {Room[b]} /\ Room[b] \in Nat
    BY <2>1, RoomFacts
  <2>3. m = Room[b]
    BY <2>2 DEF Min
  <2>4. SumOf(Room, p) = Room[b]
    <3>1. {} = p \ {b} /\ b \in p
      BY <2>1
    <3>2. SumOf(Room, p) = Room[b] + SumOf(Room, {})
      BY <1>2, <1>4, <3>1, SumLess
    <3> QED
      BY <2>2, <3>2, SumEmpty
  <2>5. KeysPerPlace(s) = KeyOf(s) /\ KeyOf(s) \in {1, 2, 4}
    BY <1>1, <1>5, ShapeFacts
  <2> HIDE DEF s, m
  <2>6. /\ Room[b] \div KeyOf(s) \in Nat
        /\ KeyOf(s) * (Room[b] \div KeyOf(s)) <= Room[b]
    <3>1. CASE KeyOf(s) = 1
      BY <2>2, <3>1
    <3>2. CASE KeyOf(s) = 2
      BY <2>2, <3>2
    <3>3. CASE KeyOf(s) = 4
      BY <2>2, <3>3
    <3> QED
      BY <2>5, <3>1, <3>2, <3>3
  <2>7. RoomIn(f, p) = Room[b] \div KeyOf(s)
    BY <1>3, <2>3, <2>5
  <2> QED
    BY <1>3, <2>4, <2>6, <2>7 DEF s
<1>6. CASE Wide(s)
  <2>1. PICK b \in Bank : p = Pair(b) /\ Partner(b) \in Bank
    BY <1>2, <1>6
  <2> DEFINE o == Partner(b)
  <2>2. p = {b, o} /\ o # b /\ o \in Bank
    <3>1. b \in Nat
      BY ConstantsAssumption
    <3> QED
      BY <2>1, <3>1, PairFacts
  <2>3. {KeysPerBank[c] - KeysUsed(sdk, c) : c \in p} = {Room[b], Room[o]}
        /\ Room[b] \in Nat /\ Room[o] \in Nat
    BY <2>2, RoomFacts
  <2>4. SumOf(Room, p) = Room[b] + Room[o]
    <3>1. {o} = p \ {b} /\ b \in p /\ {} = {o} \ {o} /\ o \in {o}
      BY <2>2
    <3>2. SumOf(Room, p) = Room[b] + SumOf(Room, {o})
      BY <1>2, <1>4, <3>1, SumLess
    <3>3. IsFiniteSet({o}) /\ Integral(Room, {o})
      <4>1. IsFiniteSet({o})
        BY FS_Singleton
      <4> HIDE DEF o
      <4> QED
        BY <2>3, <4>1 DEF Integral
    <3>4. SumOf(Room, {o}) = Room[o] + SumOf(Room, {})
      BY <3>1, <3>3, SumLess
    <3> HIDE DEF o
    <3> QED
      BY <2>3, <3>2, <3>4, SumEmpty
  <2>5. m \in Nat /\ m <= Room[b] /\ m <= Room[o]
    <3> DEFINE x == Room[b]
               y == Room[o]
    <3>1. m = Min({x, y}) /\ x \in Nat /\ y \in Nat
      BY <2>3
    <3> HIDE DEF x, y, m
    <3>2. \E z \in {x, y} : \A w \in {x, y} : z <= w
      <4>1. x <= y \/ y <= x
        BY <3>1
      <4> QED
        BY <3>1, <4>1
    <3>3. m \in {x, y} /\ \A w \in {x, y} : m <= w
      BY <3>1, <3>2 DEF Min
    <3> QED
      BY <3>1, <3>3 DEF x, y
  <2>6. KeysPerPlace(s) = 2 /\ KeyOf(s) = 4
    BY <1>1, <1>6, ShapeFacts
  <2>7. RoomIn(f, p) = m \div 2
    BY <1>3, <2>6
  <2> HIDE DEF s, m, o
  <2>8. m \div 2 \in Nat /\ 4 * (m \div 2) <= Room[b] + Room[o]
    BY <2>3, <2>5
  <2> QED
    BY <1>3, <2>4, <2>6, <2>7, <2>8 DEF s
<1> QED
  BY <1>5, <1>6

(* Places of f do not overlap, so that what fits in them fits in the banks *)
(* they are made of.                                                       *)
LEMMA RoomOfPlaces ==
  ASSUME OnlyRefusals, RoomInv, NEW f \in FgId, NEW P \in SUBSET Places(sdk[f].shape),
         NEW T \in SUBSET Bank, UNION P \subseteq T
  PROVE  /\ SumOf(RoomsOf(f), P) \in Nat
         /\ KeyOf(sdk[f].shape) * SumOf(RoomsOf(f), P) <= SumOf(Room, T)
<1> DEFINE k == KeyOf(sdk[f].shape)
           F == RoomsOf(f)
           G == [p \in P |-> k * RoomIn(f, p)]
           W == [p \in P |-> SumOf(Room, p)]
<1>1. sdk[f].shape \in Shape /\ k \in Int
  BY LiveFacts, ShapeFacts
<1>2. /\ IsFiniteSet(P) /\ IsFiniteSet(T) /\ IsFiniteSet(UNION P)
      /\ UNION P \in SUBSET T /\ P \in SUBSET P
  <2>1. P \in SUBSET SUBSET Bank /\ IsFiniteSet(Bank)
    BY ConstantsAssumption DEF Places
  <2>2. IsFiniteSet(SUBSET Bank)
    BY <2>1, FS_SUBSET
  <2> QED
    BY <2>1, <2>2, FS_Subset
<1>3. ASSUME NEW p \in P
      PROVE  /\ F[p] \in Nat /\ G[p] = k * F[p] /\ G[p] \in Int /\ G[p] <= W[p]
             /\ W[p] \in Int
  <2>1. /\ RoomIn(f, p) \in Nat /\ F[p] = RoomIn(f, p)
        /\ k * RoomIn(f, p) <= SumOf(Room, p)
    BY RoomOfPlace
  <2>2. p \in SUBSET Bank /\ IsFiniteSet(p)
    BY <1>1, PlaceFacts
  <2>3. SumOf(Room, p) \in Int
    BY <2>2, RoomFacts, SumType
  <2>4. k * RoomIn(f, p) \in Int
    BY <1>1, <2>1
  <2> QED
    BY <2>1, <2>3, <2>4
<1>4. Disjoint(P)
  <2> SUFFICES ASSUME NEW p \in P, NEW q \in P, p # q, NEW b \in p, b \in q PROVE FALSE
    BY DEF Disjoint
  <2>1. CASE Wide(sdk[f].shape)
    <3>1. p = Pair(b) /\ q = Pair(b)
      BY <1>1, <2>1, PlaceFacts
    <3> QED
      BY <3>1
  <2>2. CASE ~Wide(sdk[f].shape)
    <3>1. p = {b} /\ q = {b}
      BY <1>1, <2>2, PlaceFacts
    <3> QED
      BY <3>1
  <2> QED
    BY <2>1, <2>2
<1>5. Integral(Room, T) /\ Integral(Room, UNION P) /\ \A b \in T : 0 <= Room[b]
  BY RoomFacts DEF Integral
<1>6. Integral(F, P) /\ Integral(G, P) /\ Integral(W, P) /\ \A p \in P : 0 <= F[p]
  BY <1>3 DEF Integral
<1>7. \A p \in P : W[p] = SumOf(Room, p)
  OBVIOUS
<1> HIDE DEF k, F, G, W
<1>8. SumOf(G, P) = k * SumOf(F, P)
  BY <1>1, <1>2, <1>3, <1>6, SumScale
<1>9. SumOf(G, P) <= SumOf(W, P)
  BY <1>2, <1>3, <1>6, SumLeq
<1>10. SumOf(W, P) = SumOf(Room, UNION P)
  BY <1>2, <1>4, <1>5, <1>7, SumDisjoint
<1>11. SumOf(Room, UNION P) <= SumOf(Room, T)
  BY <1>2, <1>5, SumGrows
<1>12. SumOf(F, P) \in Nat
  <2>1. SumOf(F, P) \in Int
    BY <1>2, <1>6, SumType DEF Integral
  <2>2. 0 <= SumOf(F, P)
    BY <1>2, <1>6, SumGrows
  <2> QED
    BY <2>1, <2>2
<1>13. /\ SumOf(G, P) \in Int /\ SumOf(W, P) \in Int /\ SumOf(Room, UNION P) \in Int
       /\ SumOf(Room, T) \in Int
  BY <1>2, <1>5, <1>6, SumType DEF Integral
<1>14. SumOf(G, P) <= SumOf(Room, T)
  BY <1>9, <1>10, <1>11, <1>13
<1> QED
  BY <1>8, <1>12, <1>14 DEF k, F

-----------------------------------------------------------------------------
(* The correction for wide groups: banks without a partner to use.         *)
Quarter == [b \in Bank |-> KeysPerBank[b] \div WideKey]
Lost(f) == IF Wide(sdk[f].shape) THEN Unpaired(AgOf(sdk[f].shape)) ELSE {}

LEMMA AdjustIsSum ==
  ASSUME NEW a
  PROVE  /\ Unpaired(a) \in SUBSET Bank /\ IsFiniteSet(Unpaired(a))
         /\ Adjust320(a) = SumOf(Quarter, Unpaired(a))
<1> DEFINE F == Quarter
           M == Unpaired(a)
           Sums(G) == G = [s \in SUBSET M |->
                        IF s = {} THEN 0
                        ELSE KeysPerBank[Member(s)] \div WideKey + G[s \ {Member(s)}]]
           H == CHOOSE G : Sums(G)
<1>1. IsFiniteSet(M) /\ M \in SUBSET M /\ M \in SUBSET Bank
  BY ConstantsAssumption, FS_Subset DEF Unpaired
<1>2. \A s \in SUBSET M : s # {} => F[Member(s)] = KeysPerBank[Member(s)] \div WideKey
  <2> SUFFICES ASSUME NEW s \in SUBSET M, s # {}
               PROVE  F[Member(s)] = KeysPerBank[Member(s)] \div WideKey
    OBVIOUS
  <2>1. Member(s) \in Bank
    BY <1>1 DEF Member
  <2> QED
    BY <2>1 DEF Quarter
<1>3. PICK G : Summing(G, F, M) /\ SumOf(F, M) = G[M]
  <2> HIDE DEF F, M
  <2> QED
    BY <1>1, SumIs
<1>4. Adjust320(a) = H[M]
  BY DEF Adjust320, MapThenSumSet, MapThenFoldSet, Member
<1> HIDE DEF F, M
<1>5. Sums(G)
  BY <1>2, <1>3 DEF Summing
<1>6. Sums(H)
  BY <1>5
<1>7. Summing(H, F, M)
  <2> HIDE DEF H
  <2> QED
    BY <1>2, <1>6 DEF Summing
<1> HIDE DEF H
<1>8. H[M] = G[M]
  BY <1>1, <1>3, <1>7, OneSum
<1> QED
  BY <1>1, <1>3, <1>4, <1>8 DEF F, M

LEMMA AdjustFacts ==
  ASSUME OnlyRefusals, RoomInv, WideApart, NEW f \in FgId, sdk[f].live
  PROVE  /\ Lost(f) \in SUBSET BanksOf(Free) /\ IsFiniteSet(Lost(f))
         /\ AdjustFor(f) = SumOf(Quarter, Lost(f)) /\ AdjustFor(f) \in Nat
         /\ KeyOf(sdk[f].shape) * AdjustFor(f) <= SumOf(Room, Lost(f))
         /\ SumOf(Room, Lost(f)) \in Nat
         /\ \A b \in Lost(f) : Wide(sdk[f].shape) /\ tcam.banks[Partner(b)].ag # Free
<1> DEFINE s == sdk[f].shape
           a == AgOf(s)
           Z == Lost(f)
<1>1. /\ s \in Shape /\ tcam.fgs[f].key = KeyOf(s) /\ tcam.fgs[f].ag = a /\ a \in AllocGroup
      /\ a # Free
  BY LiveFacts, AgTypes
<1>2. CASE ~Wide(s)
  <2>1. Z = {} /\ AdjustFor(f) = 0
    BY <1>1, <1>2 DEF Lost, AdjustFor, Wide
  <2>2. IsFiniteSet({}) /\ SumOf(Quarter, {}) = 0 /\ SumOf(Room, {}) = 0
    BY FS_EmptySet, SumEmpty
  <2>3. KeyOf(s) * 0 = 0
    BY <1>1, ShapeFacts
  <2> QED
    BY <2>1, <2>2, <2>3
<1>3. CASE Wide(s)
  <2>1. Z = Unpaired(a) /\ KeyOf(s) = 4
    BY <1>1, <1>3, ShapeFacts DEF Lost
  <2>2. /\ Z \in SUBSET Bank /\ IsFiniteSet(Z) /\ AdjustFor(f) = SumOf(Quarter, Z)
    BY <1>1, <2>1, AdjustIsSum DEF AdjustFor, WideKey
  <2>3. ASSUME NEW b \in Z
        PROVE  tcam.banks[b].ag = Free /\ tcam.banks[Partner(b)].ag # Free
    <3>1. /\ Partner(b) \in Bank /\ tcam.banks[b].ag # tcam.banks[Partner(b)].ag
          /\ \/ tcam.banks[b].ag = Free /\ tcam.banks[Partner(b)].ag # a
             \/ tcam.banks[b].ag = a /\ tcam.banks[Partner(b)].ag # Free
      BY <2>1 DEF Unpaired
    <3>2. b \in Bank
      BY <2>2
    <3>3. tcam.banks[b].ag # a
      BY <1>3, <3>1, <3>2, PairsTogether
    <3> QED
      BY <3>1, <3>3
  <2>4. ASSUME NEW b \in Z
        PROVE  /\ Quarter[b] \in Nat /\ Room[b] \in Nat /\ 4 * Quarter[b] <= Room[b]
    <3>1. b \in Bank /\ Room[b] = KeysPerBank[b] /\ KeysPerBank[b] \in Nat
      BY <2>2, <2>3, RoomFacts
    <3>2. Quarter[b] = KeysPerBank[b] \div 4
      BY <3>1 DEF Quarter, WideKey
    <3> QED
      BY <3>1, <3>2
  <2> DEFINE G == [b \in Z |-> 4 * Quarter[b]]
  <2>5. /\ Integral(G, Z) /\ Integral(Quarter, Z) /\ Integral(Room, Z)
        /\ \A b \in Z : G[b] = 4 * Quarter[b] /\ G[b] <= Room[b]
        /\ \A b \in Z : 0 <= Quarter[b] /\ 0 <= Room[b]
    BY <2>4 DEF Integral
  <2>6. Z \in SUBSET BanksOf(Free) /\ Z \in SUBSET Z
    BY <2>2, <2>3 DEF BanksOf
  <2> HIDE DEF G, Z
  <2>7. SumOf(G, Z) = 4 * SumOf(Quarter, Z)
    BY <2>2, <2>5, SumScale
  <2>8. SumOf(G, Z) <= SumOf(Room, Z)
    BY <2>2, <2>5, SumLeq
  <2>9. 0 <= SumOf(Quarter, Z) /\ SumOf(Quarter, Z) \in Int
    BY <2>2, <2>5, <2>6, SumGrows, SumType DEF Integral
  <2>10. 0 <= SumOf(Room, Z) /\ SumOf(Room, Z) \in Int
    BY <2>2, <2>5, <2>6, SumGrows, SumType DEF Integral
  <2>11. \A b \in Z : Wide(s) /\ tcam.banks[Partner(b)].ag # Free
    BY <1>3, <2>3
  <2> QED
    BY <2>1, <2>2, <2>6, <2>7, <2>8, <2>9, <2>10, <2>11 DEF Z
<1> QED
  BY <1>2, <1>3

(* What f can still get: so much in places of free banks, so much in those *)
(* its AG has.                                                             *)
LEMMA CapacityBound ==
  ASSUME OnlyRefusals, RoomInv, WideApart, NEW f \in FgId, sdk[f].live
  PROVE  \E x, y \in Nat :
           /\ Capacity(f) = x + y
           /\ KeyOf(sdk[f].shape) * x + KeyOf(sdk[f].shape) * AdjustFor(f) <= tcam.total[Free]
           /\ KeyOf(sdk[f].shape) * y <= SumOf(Room, BanksOf(AgOf(sdk[f].shape)))
<1> DEFINE s == sdk[f].shape
           a == AgOf(s)
           k == KeyOf(s)
           C == OpenTo(f)
           PF == {p \in C : p \subseteq BanksOf(Free)}
           PA == C \ PF
           U == BanksOf(Free) \ Lost(f)
           F == RoomsOf(f)
<1>1. s \in Shape /\ k \in {1, 2, 4} /\ a \in AllocGroup /\ a # Free
  BY LiveFacts, ShapeFacts, AgTypes
<1>2. IsFiniteSet(C) /\ C \in SUBSET Places(s) /\ Capacity(f) = SumOf(F, C)
  BY CapacityIsSum
<1>3. ASSUME NEW p \in C
      PROVE  p \in SUBSET Bank /\ \A b \in p : tcam.banks[b].ag \in {Free, a}
  <2>1. p \in SUBSET Bank /\ Compatible(sdk, f, p)
    BY <1>1, <1>2, PlaceFacts DEF OpenTo
  <2> QED
    BY <2>1, OpenPlaces
<1>4. UNION PF \subseteq U
  <2> SUFFICES ASSUME NEW p \in PF, NEW b \in p, b \in Lost(f) PROVE FALSE
    OBVIOUS
  <2>1. Wide(s) /\ tcam.banks[Partner(b)].ag # Free
    BY AdjustFacts
  <2>2. p \in Places(s) /\ b \in Bank
    BY <1>2, <1>3
  <2>3. p = Pair(b)
    BY <1>1, <2>1, <2>2, PlaceFacts
  <2>4. Partner(b) \in p
    BY <2>2, <2>3, PairFacts, ConstantsAssumption
  <2> QED
    BY <2>1, <2>4 DEF BanksOf
<1>5. UNION PA \subseteq BanksOf(a)
  <2> SUFFICES ASSUME NEW p \in PA, NEW b \in p PROVE b \in BanksOf(a)
    OBVIOUS
  <2>1. p \in Places(s) /\ p \in SUBSET Bank /\ b \in Bank
    BY <1>2, <1>3
  <2>2. PICK c \in p : tcam.banks[c].ag = a
    <3>1. PICK c \in p : c \notin BanksOf(Free)
      OBVIOUS
    <3> QED
      BY <1>3, <2>1, <3>1 DEF BanksOf
  <2>3. CASE ~Wide(s)
    <3>1. b = c
      BY <1>1, <2>1, <2>3, PlaceFacts
    <3> QED
      BY <2>1, <2>2, <3>1 DEF BanksOf
  <2>4. CASE Wide(s)
    <3>1. p = Pair(c) /\ c \in Bank
      BY <1>1, <2>1, <2>4, PlaceFacts
    <3>2. b = c \/ b = Partner(c)
      BY <3>1, PairFacts, ConstantsAssumption
    <3>3. tcam.banks[Partner(c)].ag = a
      BY <2>2, <2>4, <3>1, PairsTogether
    <3> QED
      BY <2>1, <2>2, <3>2, <3>3 DEF BanksOf
  <2> QED
    BY <2>3, <2>4
<1>6. PF \in SUBSET C /\ PF \in SUBSET Places(s) /\ PA \in SUBSET Places(s)
      /\ U \in SUBSET Bank /\ BanksOf(a) \in SUBSET Bank
  BY <1>2 DEF BanksOf
<1>7. \A p \in C : F[p] \in Nat
  BY <1>2, RoomOfPlace
<1> HIDE DEF U
<1>8. SumOf(F, PF) \in Nat /\ k * SumOf(F, PF) <= SumOf(Room, U)
  BY <1>4, <1>6, RoomOfPlaces
<1>9. SumOf(F, PA) \in Nat /\ k * SumOf(F, PA) <= SumOf(Room, BanksOf(a))
  BY <1>5, <1>6, RoomOfPlaces
<1>10. Capacity(f) = SumOf(F, PF) + SumOf(F, PA)
  <2>1. Integral(F, C) /\ PA = C \ PF
    BY <1>7 DEF Integral
  <2> HIDE DEF F, C, PF, PA
  <2> QED
    BY <1>2, <1>6, <2>1, SumSplit
<1>11. SumOf(Room, U) + SumOf(Room, Lost(f)) = tcam.total[Free]
       /\ SumOf(Room, U) \in Int
  <2> DEFINE B == BanksOf(Free)
             Z == Lost(f)
  <2>1. Z \in SUBSET B /\ IsFiniteSet(B) /\ U = B \ Z
    BY AdjustFacts, ConstantsAssumption, FS_Subset DEF BanksOf, U
  <2>2. Integral(Room, B)
    BY RoomFacts DEF Integral, BanksOf
  <2>3. tcam.total[Free] = SumOf(Room, B)
    BY TotalsAsSums
  <2> HIDE DEF B, Z
  <2>4. /\ SumOf(Room, Z) \in Int /\ SumOf(Room, U) \in Int
        /\ SumOf(Room, B) = SumOf(Room, Z) + SumOf(Room, U)
    BY <2>1, <2>2, SumSplit
  <2> QED
    BY <2>3, <2>4 DEF Z
<1>12. /\ k * AdjustFor(f) <= SumOf(Room, Lost(f)) /\ AdjustFor(f) \in Nat
       /\ SumOf(Room, Lost(f)) \in Nat
  BY AdjustFacts
<1> DEFINE x == SumOf(F, PF)
           y == SumOf(F, PA)
<1>13. x \in Nat /\ y \in Nat /\ Capacity(f) = x + y /\ k * y <= SumOf(Room, BanksOf(a))
  BY <1>8, <1>9, <1>10
<1>14. k * x <= SumOf(Room, U)
  BY <1>8
<1> HIDE DEF x, y, k
<1>15. k * x + k * AdjustFor(f) <= tcam.total[Free]
  <2>1. k * x \in Int /\ k * AdjustFor(f) \in Int
    BY <1>1, <1>12, <1>13
  <2> QED
    BY <1>11, <1>12, <1>14, <2>1
<1> QED
  BY <1>13, <1>15 DEF k

(* A group's own entries are part of what its AG is charged for.           *)
LEMMA OwnCharge ==
  ASSUME OnlyRefusals, RoomInv, NEW f \in FgId, sdk[f].live
  PROVE  /\ tcam.fgs[f].nof \in Nat
         /\ KeyOf(sdk[f].shape) * tcam.fgs[f].nof <= tcam.keys[AgOf(sdk[f].shape)]
<1> DEFINE a == AgOf(sdk[f].shape)
           M == Members(sdk, a)
           V == Charge("keys", sdk)
           k == KeyOf(sdk[f].shape)
           n == Cardinality(HwEntries(sdk[f]))
<1>1. /\ sdk \in Hardware /\ AllFinite(sdk) /\ Counted(tcam, sdk)
  BY HousedFacts
<1>2. tcam.fgs[f].nof = n /\ a \in AllocGroup /\ IsFiniteSet(HwEntries(sdk[f]))
  BY LiveFacts
<1>3. n \in Nat
  BY <1>2, FS_CardinalityType
<1>4. tcam.keys[a] = SumOf(V, M)
  BY <1>1, <1>2 DEF Counted, Column, Charged, Counter
<1>5. f \in M /\ M \in SUBSET FgId /\ IsFiniteSet(M)
  BY ConstantsAssumption, FS_Subset DEF Members
<1>6. ASSUME NEW g \in M PROVE V[g] \in Nat /\ V[g] = KeyOf(sdk[g].shape) * Cardinality(HwEntries(sdk[g]))
  <2>1. g \in FgId /\ sdk[g].shape \in Shape /\ IsFiniteSet(HwEntries(sdk[g]))
    BY <1>5, LiveFacts
  <2>2. KeyOf(sdk[g].shape) \in Nat /\ Cardinality(HwEntries(sdk[g])) \in Nat
    BY <2>1, ShapeFacts, FS_CardinalityType
  <2>3. V[g] = KeyOf(sdk[g].shape) * Cardinality(HwEntries(sdk[g]))
    BY <2>1 DEF Charge, Weight
  <2> QED
    BY <2>2, <2>3
<1>7. /\ Integral(V, M) /\ \A g \in M : 0 <= V[g]
      /\ IsFiniteSet({f}) /\ Integral(V, {f}) /\ {f} \in SUBSET M
  <2>1. \A g \in M : V[g] \in Nat
    BY <1>6
  <2>2. IsFiniteSet({f}) /\ {f} \in SUBSET M
    BY <1>5, FS_Singleton
  <2> HIDE DEF V, M
  <2>3. Integral(V, M) /\ Integral(V, {f}) /\ \A g \in M : 0 <= V[g]
    BY <2>1, <2>2 DEF Integral
  <2> QED
    BY <2>2, <2>3
<1>8. V[f] = k * n /\ k * n \in Nat
  BY <1>5, <1>6
<1> HIDE DEF V, M, k, n
<1>9. SumOf(V, {f}) <= SumOf(V, M)
  BY <1>5, <1>7, SumGrows
<1>10. SumOf(V, {f}) = V[f] + SumOf(V, {})
  <2>1. {} = {f} \ {f} /\ f \in {f}
    OBVIOUS
  <2> QED
    BY <1>7, <2>1, SumLess
<1>11. k * n <= SumOf(V, M)
  BY <1>8, <1>9, <1>10, SumEmpty
<1> QED
  BY <1>2, <1>3, <1>4, <1>11 DEF k

(* Division by a key size.                                                 *)
LEMMA Quotient ==
  ASSUME NEW k \in {1, 2, 4}, NEW n \in Nat
  PROVE  /\ n \div k \in Nat /\ k * (n \div k) <= n
         /\ \A q \in Nat : k * q <= n => q <= n \div k
         /\ n \div k > 0 => n >= k
<1>1. CASE k = 1
  BY <1>1
<1>2. CASE k = 2
  BY <1>2
<1>3. CASE k = 4
  BY <1>3
<1> QED
  BY <1>1, <1>2, <1>3

(* max_free is an upper bound, and total with what is installed too, where *)
(* wide and narrow groups are not mixed in one AG: whatever the SDK chose  *)
(* and refused before, and for every capacity of every bank, also of those *)
(* without a partner.                                                      *)
THEOREM MaxFreeIsABound ==
  ASSUME OnlyRefusals, WideApart PROVE Spec => []MaxFreeIsHonest
<1>1. ASSUME RoomInv PROVE MaxFreeIsHonest
  <2> SUFFICES ASSUME NEW f \in FgId, sdk[f].live
               PROVE  /\ Capacity(f) <= MaxFree(f)
                      /\ tcam.fgs[f].nof + Capacity(f) <= TotalEntries(f)
    BY DEF MaxFreeIsHonest
  <2> DEFINE k == KeyOf(sdk[f].shape)
             a == AgOf(sdk[f].shape)
             n == tcam.fgs[f].nof
             d == AdjustFor(f)
             c == Capacity(f)
             F == tcam.total[Free]
             A == tcam.total[a]
             K == tcam.keys[a]
             R == SumOf(Room, BanksOf(a))
  <2>1. /\ tcam.fgs[f].key = k /\ tcam.fgs[f].ag = a /\ k \in {1, 2, 4} /\ a \in AllocGroup
    BY <1>1, LiveFacts, ShapeFacts
  <2>2. PICK x, y \in Nat : c = x + y /\ k * x + k * d <= F /\ k * y <= R
    BY <1>1, CapacityBound
  <2>3. F \in Nat /\ A \in Nat /\ K \in Nat /\ R \in Nat /\ A = R + K
    BY <1>1, <2>1, TotalsAsSums
  <2>4. d \in Nat
    BY <1>1, AdjustFacts
  <2>5. n \in Nat /\ k * n <= K
    BY <1>1, OwnCharge
  <2>6. MaxFree(f) = AtLeast0(F \div k - d + Quot(A - K, k))
    BY <2>1 DEF MaxFree, FreeInFreeBanks, MaxInUsedBanks
  <2>7. TotalEntries(f) = (A + F) \div k - d
    BY <2>1 DEF TotalEntries
  <2> HIDE DEF k, a, n, d, c, F, A, K, R
  <2>8. Quot(A - K, k) = R \div k
    BY <2>1, <2>3 DEF Quot
  <2>9. x + d \in Nat /\ k * (x + d) <= F
    BY <2>1, <2>2, <2>3, <2>4
  <2>10. x + d <= F \div k /\ F \div k \in Nat
    BY <2>1, <2>3, <2>9, Quotient
  <2>11. y <= R \div k /\ R \div k \in Nat
    BY <2>1, <2>2, <2>3, Quotient
  <2>12. c <= MaxFree(f)
    BY <2>2, <2>4, <2>6, <2>8, <2>10, <2>11 DEF AtLeast0
  <2>13. n + x + y + d \in Nat /\ A + F \in Nat /\ k * (n + x + y + d) <= A + F
    BY <2>1, <2>2, <2>3, <2>4, <2>5
  <2>14. n + x + y + d <= (A + F) \div k /\ (A + F) \div k \in Nat
    BY <2>1, <2>13, Quotient
  <2>15. n + c <= TotalEntries(f)
    BY <2>2, <2>4, <2>5, <2>7, <2>14
  <2> QED
    BY <2>12, <2>15 DEF c, n
<1> QED
  BY <1>1, AlwaysHoused, PTL

-----------------------------------------------------------------------------
(* The guarantee needs one thing more: no keys left over in a bank, as in  *)
(* those of the chip.  It counts every free bank, also for a group that    *)
(* selects the one bank it may use: what follows is about the other groups.*)
(* For wide groups it corrects for a bank whose partner another AG has, not*)
(* for one whose partner is smaller or missing: those it may overstate by  *)
(* the Shortfall.                                                          *)
WholeKeys == \A b \in Bank : KeysPerBank[b] % WideKey = 0

(* Entries of one AG take the same number of keys of a bank.               *)
LEMMA SameGrain ==
  \A s, u \in Shape : AgOf(s) = AgOf(u) => KeysPerPlace(s) = KeysPerPlace(u)
BY DeclaredKey DEF Shape, AgOf, FgTable, Row, KeysPerPlace, Wide, WideKey

(* What an AG leaves of a bank is room for an entry, or nothing.           *)
LEMMA RoomForOne ==
  ASSUME OnlyRefusals, RoomInv, WholeKeys, NEW f \in FgId, sdk[f].live,
         NEW b \in Bank, tcam.banks[b].ag \in {Free, AgOf(sdk[f].shape)}, Room[b] > 0
  PROVE  KeysUsed(sdk, b) + KeysPerPlace(sdk[f].shape) <= KeysPerBank[b]
<1> DEFINE w == KeysPerPlace(sdk[f].shape)
           a == AgOf(sdk[f].shape)
           In == {g \in FgId : sdk[g].live /\ AgOf(sdk[g].shape) = a}
           N == [g \in FgId |-> IF g \in In THEN Cardinality(EntriesIn(sdk[g], b)) ELSE 0]
           F == UseOf(sdk, b)
<1>1. /\ sdk \in Hardware /\ AllFinite(sdk)
  BY HousedFacts
<1>2. sdk[f].shape \in Shape /\ w \in {1, 2}
  BY LiveFacts, ShapeFacts
<1>3. /\ KeysPerBank[b] \in Nat /\ KeysUsed(sdk, b) \in Nat
      /\ Room[b] = KeysPerBank[b] - KeysUsed(sdk, b) /\ KeysPerBank[b] % 4 = 0
  <2>1. KeysPerBank[b] % WideKey = 0
    BY DEF WholeKeys
  <2> QED
    BY <2>1, RoomFacts DEF WideKey
<1>4. ASSUME NEW g \in FgId PROVE F[g] = w * N[g] /\ N[g] \in Int
  <2>1. CASE g \in In
    <3>1. KeysPerPlace(sdk[g].shape) = w
      BY <1>2, <2>1, LiveFacts, SameGrain
    <3>2. /\ F[g] = KeysPerPlace(sdk[g].shape) * Cardinality(EntriesIn(sdk[g], b))
          /\ Cardinality(EntriesIn(sdk[g], b)) \in Int
      BY <1>1, UseFacts
    <3> QED
      BY <2>1, <3>1, <3>2
  <2>2. CASE g \notin In
    <3>1. b \notin HwBanks(sdk[g])
      BY <2>2, BankFacts
    <3>2. EntriesIn(sdk[g], b) = {}
      BY <3>1 DEF HwBanks, EntriesIn
    <3>3. F[g] = 0
      BY <1>1, <3>2, UseFacts
    <3>4. N[g] = 0 /\ w * 0 = 0
      BY <1>2, <2>2
    <3> HIDE DEF F, N, w
    <3> QED
      BY <3>3, <3>4
  <2> QED
    BY <2>1, <2>2
<1>5. KeysUsed(sdk, b) = SumOf(F, FgId)
  BY KeysUsedIsSum
<1> HIDE DEF w, In, N, F
<1>6. Integral(N, FgId) /\ IsFiniteSet(FgId) /\ w \in Int
  BY <1>2, <1>4, ConstantsAssumption DEF Integral
<1>7. SumOf(F, FgId) = w * SumOf(N, FgId)
  BY <1>4, <1>6, SumScale
<1>8. SumOf(N, FgId) \in Int
  BY <1>4, <1>6, SumType
<1>9. KeysUsed(sdk, b) + w <= KeysPerBank[b]
  <2>1. CASE w = 1
    BY <1>3, <2>1
  <2>2. CASE w = 2
    BY <1>3, <1>5, <1>7, <1>8, <2>2
  <2> QED
    BY <1>2, <2>1, <2>2
<1> QED
  BY <1>9 DEF w

(* Room in a bank open to f, and in its partner if f is wide, is a place   *)
(* the SDK may choose.                                                     *)
LEMMA PlaceFound ==
  ASSUME OnlyRefusals, RoomInv, WholeKeys, NEW f \in FgId, sdk[f].live, AnyBank(f),
         NEW b \in Bank, tcam.banks[b].ag \in {Free, AgOf(sdk[f].shape)}, Room[b] > 0,
         Wide(sdk[f].shape) =>
           /\ Partner(b) \in Bank
           /\ tcam.banks[Partner(b)].ag \in {Free, AgOf(sdk[f].shape)}
           /\ Room[Partner(b)] > 0
  PROVE  Placements(sdk, f) # {}
<1> DEFINE s == sdk[f].shape
           o == Partner(b)
           p == IF Wide(s) THEN {b, o} ELSE {b}
<1>1. Pair(b) = {b, o} /\ (Wide(s) => o \in Bank)
  BY ConstantsAssumption, PairFacts
<1>2. FgTable[s[1]].select = {}
  BY DEF AnyBank
<1>3. p \in Places(s) /\ p \in SUBSET Bank
  <2>1. CASE Wide(s)
    <3>1. p = Pair(b) /\ p \in SUBSET Bank
      BY <1>1, <2>1
    <3>2. Places(s) = {Pair(c) : c \in Bank} \cap SUBSET Bank
      BY <1>2, <2>1 DEF Places
    <3> QED
      BY <3>1, <3>2
  <2>2. CASE ~Wide(s)
    <3>1. p = {b}
      BY <2>2
    <3>2. Places(s) = {{c} : c \in Bank}
      BY <1>2, <2>2 DEF Places
    <3> QED
      BY <3>1, <3>2
  <2> QED
    BY <2>1, <2>2
<1>4. \A c \in p : /\ c \in Bank /\ tcam.banks[c].ag \in {Free, AgOf(s)}
                   /\ Room[c] > 0
  BY <1>1
<1> HIDE DEF p
<1>5. \A c \in p : KeysUsed(sdk, c) + KeysPerPlace(s) <= KeysPerBank[c]
  BY <1>4, RoomForOne
<1>6. Compatible(sdk, f, p)
  BY <1>3, <1>4, OpenPlaces
<1>7. p \in Placements(sdk, f)
  BY <1>3, <1>5, <1>6 DEF Placements
<1> QED
  BY <1>7

(* With such banks the correction is the whole of what is lost.            *)
LEMMA LostExactly ==
  ASSUME OnlyRefusals, RoomInv, WideApart, WholeKeys, NEW f \in FgId, sdk[f].live
  PROVE  KeyOf(sdk[f].shape) * AdjustFor(f) = SumOf(Room, Lost(f))
<1> DEFINE Z == Lost(f)
           k == KeyOf(sdk[f].shape)
<1>1. /\ Z \in SUBSET BanksOf(Free) /\ IsFiniteSet(Z) /\ AdjustFor(f) = SumOf(Quarter, Z)
      /\ \A b \in Z : Wide(sdk[f].shape)
  BY AdjustFacts
<1>2. sdk[f].shape \in Shape /\ k \in Int
  BY LiveFacts, ShapeFacts
<1>3. ASSUME NEW b \in Z PROVE Quarter[b] \in Int /\ Room[b] = k * Quarter[b]
  <2>1. b \in Bank /\ tcam.banks[b].ag = Free /\ k = 4
    BY <1>1, <1>2, ShapeFacts DEF BanksOf
  <2>2. Room[b] = KeysPerBank[b] /\ KeysPerBank[b] \in Nat /\ KeysPerBank[b] % 4 = 0
    <3>1. KeysPerBank[b] % WideKey = 0
      BY <2>1 DEF WholeKeys
    <3> QED
      BY <2>1, <3>1, RoomFacts DEF WideKey
  <2>3. Quarter[b] = KeysPerBank[b] \div 4
    BY <2>1 DEF Quarter, WideKey
  <2> HIDE DEF k
  <2> QED
    BY <2>1, <2>2, <2>3
<1>4. Integral(Quarter, Z)
  BY <1>3 DEF Integral
<1> HIDE DEF Z, k
<1>5. SumOf(Room, Z) = k * SumOf(Quarter, Z)
  BY <1>1, <1>2, <1>3, <1>4, SumScale
<1> QED
  BY <1>1, <1>5 DEF Z, k

(* What the ledger calls guaranteed is what the keys of the AG's own banks *)
(* leave, at most.                                                         *)
LEMMA HeldAtLeast ==
  ASSUME NEW x \in Int, NEW y \in Int
  PROVE  Max({x, y}) \in Int /\ Max({x, y}) >= y
<1>1. \E m \in {x, y} : \A n \in {x, y} : m >= n
  <2>1. CASE x >= y
    BY <2>1
  <2>2. CASE y >= x
    BY <2>2
  <2> QED
    BY <2>1, <2>2
<1> QED
  BY <1>1 DEF Max

LEMMA GuaranteeNeedsRoom ==
  ASSUME OnlyRefusals, RoomInv, NEW f \in FgId, sdk[f].live
  PROVE  /\ GuaranteedInUsedBanks(f) \in Nat
         /\ KeyOf(sdk[f].shape) * GuaranteedInUsedBanks(f)
              <= SumOf(Room, BanksOf(AgOf(sdk[f].shape)))
<1> DEFINE k == KeyOf(sdk[f].shape)
           a == AgOf(sdk[f].shape)
           A == tcam.total[a]
           K == tcam.keys[a]
           R == SumOf(Room, BanksOf(a))
           h == Max({tcam.entries[a] * tcam.fgs[f].key, K})
<1>1. /\ tcam.fgs[f].key = k /\ tcam.fgs[f].ag = a /\ k \in {1, 2, 4} /\ a \in AllocGroup
  BY LiveFacts, ShapeFacts
<1>2. A \in Nat /\ K \in Nat /\ R \in Nat /\ A = R + K
  BY <1>1, TotalsAsSums
<1>3. tcam.entries[a] \in Int
  BY <1>1, HousedFacts DEF Exact, LedgerOK, Ledger
<1>4. h \in Int /\ h >= K
  <2> DEFINE x == tcam.entries[a] * k
  <2>1. x \in Int
    BY <1>1, <1>3
  <2> HIDE DEF x, K
  <2>2. Max({x, K}) \in Int /\ Max({x, K}) >= K
    BY <1>2, <2>1, HeldAtLeast
  <2> QED
    BY <1>1, <2>2 DEF x
<1>5. GuaranteedInUsedBanks(f) = AtLeast0(A - h) \div k
  BY <1>1 DEF GuaranteedInUsedBanks
<1> HIDE DEF k, a, A, K, R, h
<1>6. AtLeast0(A - h) \in Nat /\ AtLeast0(A - h) <= R
  BY <1>2, <1>4 DEF AtLeast0
<1>7. /\ AtLeast0(A - h) \div k \in Nat
      /\ k * (AtLeast0(A - h) \div k) <= AtLeast0(A - h)
  BY <1>1, <1>6, Quotient
<1>8. k * (AtLeast0(A - h) \div k) <= R
  <2> DEFINE q == AtLeast0(A - h)
             z == q \div k
  <2>1. q \in Nat /\ q <= R /\ z \in Nat /\ k * z <= q
    BY <1>6, <1>7
  <2> HIDE DEF q, z
  <2>2. k * z \in Int
    BY <1>1, <2>1
  <2>3. k * z <= R
    BY <1>2, <2>1, <2>2
  <2> QED
    BY <2>3 DEF q, z
<1> QED
  BY <1>5, <1>7, <1>8 DEF R, a, k

(* What a bank may have left of use to nobody when f has no place to go.   *)
Slack(f) == [b \in Bank |-> IF Wide(sdk[f].shape) THEN Excess(b) ELSE 0]

LEMMA SlackFacts ==
  ASSUME NEW f \in FgId, NEW b \in Bank
  PROVE  /\ KeysPerBank[b] \in Nat /\ Excess(b) \in Nat /\ Slack(f)[b] \in Nat
         /\ ~Wide(sdk[f].shape) => Slack(f)[b] = 0
         /\ Wide(sdk[f].shape) => Slack(f)[b] = Excess(b)
         /\ Partner(b) \notin Bank => Excess(b) = KeysPerBank[b]
         /\ \A o \in Bank : o = Partner(b) => KeysPerBank[b] - KeysPerBank[o] <= Excess(b)
<1>1. \A c \in Bank : KeysPerBank[c] \in Nat
  BY ConstantsAssumption
<1> DEFINE o == Partner(b)
<1>2. Excess(b) = IF o \in Bank THEN AtLeast0(KeysPerBank[b] - KeysPerBank[o])
                               ELSE KeysPerBank[b]
  BY DEF Excess
<1> HIDE DEF o
<1>3. /\ Excess(b) \in Nat /\ (o \notin Bank => Excess(b) = KeysPerBank[b])
      /\ (o \in Bank => KeysPerBank[b] - KeysPerBank[o] <= Excess(b))
  BY <1>1, <1>2 DEF AtLeast0
<1>4. /\ Slack(f)[b] \in Nat
      /\ ~Wide(sdk[f].shape) => Slack(f)[b] = 0
      /\ Wide(sdk[f].shape) => Slack(f)[b] = Excess(b)
  BY <1>3 DEF Slack
<1> QED
  BY <1>1, <1>3, <1>4 DEF o

LEMMA ShortfallIsSum ==
  ASSUME NEW f \in FgId
  PROVE  /\ SumOf(Slack(f), Bank) \in Nat
         /\ Shortfall(f) = SumOf(Slack(f), Bank) \div WideKey
<1> DEFINE F == Slack(f)
           Sums(G) == G = [s \in SUBSET Bank |->
                        IF s = {} THEN 0 ELSE Excess(Member(s)) + G[s \ {Member(s)}]]
           H == CHOOSE G : Sums(G)
<1>1. IsFiniteSet(Bank) /\ Bank \in SUBSET Bank
  BY ConstantsAssumption
<1>2. \A b \in Bank : F[b] \in Nat
  BY SlackFacts
<1>3. SumOf(F, Bank) \in Nat
  <2>1. Integral(F, Bank) /\ \A b \in Bank : 0 <= F[b]
    BY <1>2 DEF Integral
  <2> HIDE DEF F
  <2>2. SumOf(F, Bank) \in Int
    BY <1>1, <2>1, SumType DEF Integral
  <2>3. 0 <= SumOf(F, Bank)
    BY <1>1, <2>1, SumGrows
  <2> QED
    BY <2>2, <2>3
<1>4. CASE ~Wide(sdk[f].shape)
  <2>1. \A b \in Bank : F[b] = 0
    BY <1>4, SlackFacts
  <2> HIDE DEF F
  <2>2. SumOf(F, Bank) = 0
    BY <1>1, <2>1, SumZero
  <2>3. Shortfall(f) = 0 /\ 0 \div WideKey = 0
    BY <1>4 DEF Shortfall, WideKey
  <2> QED
    BY <1>3, <2>2, <2>3 DEF F
<1>5. CASE Wide(sdk[f].shape)
  <2>1. \A s \in SUBSET Bank : s # {} => F[Member(s)] = Excess(Member(s))
    <3> SUFFICES ASSUME NEW s \in SUBSET Bank, s # {} PROVE F[Member(s)] = Excess(Member(s))
      OBVIOUS
    <3>1. Member(s) \in Bank
      BY DEF Member
    <3> QED
      BY <1>5, <3>1, SlackFacts
  <2>2. PICK G : Summing(G, F, Bank) /\ SumOf(F, Bank) = G[Bank]
    <3> HIDE DEF F
    <3> QED
      BY <1>1, SumIs
  <2>3. MapThenSumSet(Excess, Bank) = H[Bank]
    BY DEF MapThenSumSet, MapThenFoldSet, Member
  <2> HIDE DEF F
  <2>4. Sums(G)
    BY <2>1, <2>2 DEF Summing
  <2>5. Sums(H)
    BY <2>4
  <2>6. Summing(H, F, Bank)
    <3> HIDE DEF H
    <3> QED
      BY <2>1, <2>5 DEF Summing
  <2> HIDE DEF H
  <2>7. H[Bank] = G[Bank]
    BY <1>1, <2>2, <2>6, OneSum
  <2>8. MapThenSumSet(Excess, Bank) = SumOf(F, Bank)
    BY <2>2, <2>3, <2>7
  <2>9. Shortfall(f) = SumOf(F, Bank) \div WideKey
    BY <1>5, <2>8 DEF Shortfall
  <2> QED
    BY <1>3, <2>9 DEF F
<1> QED
  BY <1>4, <1>5

(* A bank of f's AG, or a free one that is not lost to it, has no more left*)
(* than its slack when the SDK has no place for another entry.             *)
LEMMA NothingUsable ==
  ASSUME OnlyRefusals, RoomInv, WideApart, WholeKeys, NEW f \in FgId, sdk[f].live,
         AnyBank(f), Placements(sdk, f) = {}, NEW b \in Bank,
         \/ tcam.banks[b].ag = AgOf(sdk[f].shape)
         \/ tcam.banks[b].ag = Free /\ b \notin Lost(f)
  PROVE  Room[b] <= Slack(f)[b]
<1> DEFINE a == AgOf(sdk[f].shape)
           o == Partner(b)
<1>1. Room[b] \in Nat /\ tcam.banks[b].ag \in {Free, a}
  BY RoomFacts
<1>2. CASE ~Wide(sdk[f].shape)
  <2>1. ~(Room[b] > 0)
    BY <1>1, <1>2, PlaceFound
  <2> QED
    BY <1>1, <1>2, <2>1, SlackFacts
<1>3. CASE Wide(sdk[f].shape) /\ o \notin Bank
  <2>1. tcam.banks[b].ag = Free
    BY <1>1, <1>3, PairsTogether
  <2>2. Room[b] = KeysPerBank[b]
    BY <2>1, RoomFacts
  <2>3. Slack(f)[b] = KeysPerBank[b] /\ KeysPerBank[b] \in Nat
    BY <1>3, SlackFacts
  <2> QED
    BY <2>2, <2>3
<1>4. CASE Wide(sdk[f].shape) /\ o \in Bank
  <2>1. /\ Slack(f)[b] \in Nat /\ KeysPerBank[b] - KeysPerBank[o] <= Slack(f)[b]
        /\ KeysPerBank[b] \in Nat /\ KeysPerBank[o] \in Nat
    BY <1>4, SlackFacts
  <2>2. tcam.banks[o].ag \in {Free, a} /\ KeysUsed(sdk, o) = KeysUsed(sdk, b)
    <3>1. CASE tcam.banks[b].ag = a
      BY <1>4, <3>1, PairsTogether
    <3>2. CASE tcam.banks[b].ag = Free /\ b \notin Lost(f)
      <4>1. b \notin Unpaired(a)
        BY <1>4, <3>2 DEF Lost
      <4>2. tcam.banks[o].ag \in {Free, a}
        BY <1>4, <3>2, <4>1 DEF Unpaired
      <4>3. Partner(o) = b /\ a # Free
        BY ConstantsAssumption, PairFacts, LiveFacts, AgTypes
      <4>4. tcam.banks[o].ag # a
        <5> HIDE DEF o
        <5> QED
          BY <1>4, <3>2, <4>3, PairsTogether
      <4>5. tcam.banks[o].ag = Free
        BY <4>2, <4>4
      <4>6. Used[o] = 0 /\ Used[b] = 0 /\ Used[o] = KeysUsed(sdk, o) /\ Used[b] = KeysUsed(sdk, b)
        BY <1>4, <3>2, <4>5, RoomFacts
      <4> QED
        BY <4>5, <4>6
    <3>3. tcam.banks[b].ag = a \/ (tcam.banks[b].ag = Free /\ b \notin Lost(f))
      OBVIOUS
    <3> QED
      BY <3>1, <3>2, <3>3
  <2>3. ~(Room[b] > 0 /\ Room[o] > 0)
    BY <1>1, <1>4, <2>2, PlaceFound
  <2>4. /\ Room[o] \in Nat /\ Room[o] = KeysPerBank[o] - KeysUsed(sdk, o)
        /\ Room[b] = KeysPerBank[b] - KeysUsed(sdk, b) /\ KeysUsed(sdk, b) \in Nat
    BY <1>4, RoomFacts
  <2> HIDE DEF o
  <2> QED
    BY <1>1, <2>1, <2>2, <2>3, <2>4
<1> QED
  BY <1>2, <1>3, <1>4

(* So all that is guaranteed then is slack.                                *)
LEMMA GuaranteeIsSlack ==
  ASSUME OnlyRefusals, RoomInv, WideApart, WholeKeys, NEW f \in FgId, sdk[f].live,
         AnyBank(f), Placements(sdk, f) = {}
  PROVE  GuaranteedFree(f) \in Nat
         /\ KeyOf(sdk[f].shape) * GuaranteedFree(f) <= SumOf(Slack(f), Bank)
<1> DEFINE k == KeyOf(sdk[f].shape)
           a == AgOf(sdk[f].shape)
           d == AdjustFor(f)
           t == tcam.total[Free]
           y == GuaranteedInUsedBanks(f)
           g == GuaranteedFree(f)
           O == BanksOf(a)
           B == BanksOf(Free)
           Z == Lost(f)
           U == B \ Z
           W == Slack(f)
<1>1. tcam.fgs[f].key = k /\ k \in {1, 2, 4} /\ a # Free
  BY LiveFacts, ShapeFacts, AgTypes
<1>2. t = SumOf(Room, B) /\ t \in Nat
  BY TotalsAsSums
<1>3. d \in Nat /\ Z \in SUBSET B /\ k * d = SumOf(Room, Z)
  BY AdjustFacts, LostExactly
<1>4. y \in Nat /\ k * y <= SumOf(Room, O)
  BY GuaranteeNeedsRoom
<1>5. g = AtLeast0(t \div k - d + y)
  BY <1>1 DEF GuaranteedFree, FreeInFreeBanks
<1>6. /\ B \in SUBSET Bank /\ O \in SUBSET Bank /\ IsFiniteSet(Bank) /\ IsFiniteSet(B)
      /\ IsFiniteSet(O \cup U) /\ O \cup U \in SUBSET Bank /\ U = (O \cup U) \ O
      /\ O \in SUBSET (O \cup U)
  <2>1. B \in SUBSET Bank /\ O \in SUBSET Bank /\ B \cap O = {}
    BY <1>1 DEF BanksOf
  <2> QED
    BY <2>1, ConstantsAssumption, FS_Subset
<1>7. \A b \in Bank : Room[b] \in Nat /\ W[b] \in Nat
  BY RoomFacts, SlackFacts
<1>8. \A b \in O \cup U : Room[b] <= W[b]
  BY NothingUsable DEF BanksOf
<1> HIDE DEF k, a, d, t, y, g, O, B, Z, U, W
<1>9. /\ Integral(Room, B) /\ Integral(Room, O \cup U) /\ Integral(W, O \cup U)
      /\ Integral(W, Bank) /\ (\A b \in Bank : 0 <= W[b]) /\ \A b \in O \cup U : 0 <= Room[b]
  BY <1>6, <1>7 DEF Integral
<1>10. /\ SumOf(Room, Z) \in Int /\ SumOf(Room, U) \in Int
       /\ t = SumOf(Room, Z) + SumOf(Room, U)
  BY <1>2, <1>3, <1>6, <1>9, SumSplit DEF U
<1>11. /\ SumOf(Room, O) \in Int
       /\ SumOf(Room, O \cup U) = SumOf(Room, O) + SumOf(Room, U)
  <2> DEFINE T == O \cup U
  <2>1. IsFiniteSet(T) /\ Integral(Room, T) /\ O \in SUBSET T /\ U = T \ O
    BY <1>6, <1>9
  <2> HIDE DEF T
  <2>2. SumOf(Room, O) \in Int /\ SumOf(Room, T) = SumOf(Room, O) + SumOf(Room, T \ O)
    BY <2>1, SumSplit
  <2> QED
    BY <2>1, <2>2 DEF T
<1>12. /\ SumOf(Room, O \cup U) \in Int /\ SumOf(W, O \cup U) \in Int /\ SumOf(W, Bank) \in Int
  BY <1>6, <1>9, SumType DEF Integral
<1>13. SumOf(Room, O \cup U) <= SumOf(W, O \cup U)
  BY <1>6, <1>8, <1>9, SumLeq
<1>14. SumOf(W, O \cup U) <= SumOf(W, Bank)
  BY <1>6, <1>9, SumGrows
<1>15. 0 <= SumOf(Room, U)
  <2>1. U \in SUBSET (O \cup U) /\ {} \in SUBSET U /\ IsFiniteSet(U)
    BY <1>6, FS_Subset
  <2>2. Integral(Room, U) /\ \A b \in U : 0 <= Room[b]
    BY <1>9, <2>1 DEF Integral
  <2>3. U \in SUBSET U
    OBVIOUS
  <2> QED
    BY <2>1, <2>2, <2>3, SumGrows
<1> DEFINE q == t \div k
<1>16. q \in Nat /\ k * q <= t
  BY <1>1, <1>2, Quotient
<1> HIDE DEF q
<1>17. g \in Nat /\ k * g <= SumOf(Room, U) + SumOf(Room, O)
  <2>1. g = AtLeast0(q - d + y)
    BY <1>5 DEF q
  <2>2. g \in Nat
    BY <1>3, <1>4, <1>16, <2>1 DEF AtLeast0
  <2>3. \/ g = q - d + y
        \/ g <= y
    BY <1>3, <1>4, <1>16, <2>1 DEF AtLeast0
  <2>4. k * d = SumOf(Room, Z)
    BY <1>3
  <2>5. CASE k = 1
    BY <1>3, <1>4, <1>10, <1>11, <1>15, <1>16, <2>2, <2>3, <2>5
  <2>6. CASE k = 2
    BY <1>3, <1>4, <1>10, <1>11, <1>15, <1>16, <2>2, <2>3, <2>6
  <2>7. CASE k = 4
    BY <1>3, <1>4, <1>10, <1>11, <1>15, <1>16, <2>2, <2>3, <2>7
  <2> QED
    BY <1>1, <2>5, <2>6, <2>7
<1>18. k * g \in Int
  BY <1>1, <1>17
<1>19. k * g <= SumOf(W, Bank)
  BY <1>10, <1>11, <1>12, <1>13, <1>14, <1>17, <1>18
<1> QED
  BY <1>17, <1>19 DEF k, g, W

(* When get or get_max guarantees a group more entries than the shortfall, *)
(* the hardware has a place for one: for every history of installations and*)
(* removals, any banks other AGs hold, any keys the AG's own banks have    *)
(* left, and banks of any whole sizes, those of the chip among them.       *)
THEOREM GuaranteeKept ==
  ASSUME OnlyRefusals, WideApart, WholeKeys PROVE Spec => []GuaranteeIsKept
<1>1. ASSUME RoomInv PROVE GuaranteeIsKept
  <2> SUFFICES ASSUME NEW f \in FgId, sdk[f].live, AnyBank(f),
                      GuaranteedFree(f) > Shortfall(f), Placements(sdk, f) = {}
               PROVE  FALSE
    BY DEF GuaranteeIsKept
  <2> DEFINE k == KeyOf(sdk[f].shape)
             g == GuaranteedFree(f)
             E == SumOf(Slack(f), Bank)
             h == Shortfall(f)
  <2>1. k \in {1, 2, 4} /\ (Wide(sdk[f].shape) <=> k = 4)
    BY <1>1, LiveFacts, ShapeFacts DEF Wide, WideKey
  <2>2. g \in Nat /\ k * g <= E
    BY <1>1, GuaranteeIsSlack
  <2>3. E \in Nat /\ h = E \div 4
    BY ShortfallIsSum DEF WideKey
  <2>4. k # 4 => E = 0
    <3>1. ASSUME k # 4 PROVE \A b \in Bank : Slack(f)[b] = 0
      BY <2>1, <3>1, SlackFacts
    <3> QED
      BY <3>1, ConstantsAssumption, SumZero
  <2>5. g > h
    OBVIOUS
  <2> HIDE DEF k, g, E, h
  <2>6. CASE k = 4
    BY <2>2, <2>3, <2>5, <2>6
  <2>7. CASE k # 4
    <3>1. E = 0 /\ h = 0
      BY <2>3, <2>4, <2>7
    <3> QED
      BY <2>1, <2>2, <2>5, <3>1
  <2> QED
    BY <2>6, <2>7
<1> QED
  BY <1>1, AlwaysHoused, PTL
=============================================================================
