--------------------------- MODULE PmfCountProofs ---------------------------
(***************************************************************************)
(* Theorems about the TCAM ledger, part 5: what it counts.                 *)
(*                                                                         *)
(* The counters of a group and of an allocation group are exact as long as *)
(* the SDK may refuse work but does none behind the ledger's back, and the *)
(* callers give back only what is theirs.  It takes the rows of the tuple  *)
(* tables to know that: who owns which entry of which group.               *)
(***************************************************************************)
EXTENDS PmfTcamProofs, SeriesLemmas

(* The SDK may refuse a group, an entry or the deletion of a group, and    *)
(* does what it does not refuse; the callers clear a row before they set it*)
(* again, and delete their own entries.  Every other answer and deviation  *)
(* of the model makes some counter wrong.                                  *)
OnlyRefusals == Sdk \subseteq {"group_add", "entry_add", "group_delete"} /\ Caller = {}

-----------------------------------------------------------------------------
(* What a group adds to a counter of its AG, and the groups of an AG.      *)
Counter == {"entries", "keys"}
Weight(k, shape) == IF k = "keys" THEN KeyOf(shape) ELSE 1
Charge(k, S) == [f \in FgId |-> Weight(k, S[f].shape) * Cardinality(HwEntries(S[f]))]
Members(S, a) == {f \in FgId : S[f].live /\ AgOf(S[f].shape) = a}
Charged(k, S, a) == SumOf(Charge(k, S), Members(S, a))
Column(k, L) == IF k = "keys" THEN L.keys ELSE L.entries

(* The ledger's row of f counts the entries of f.                          *)
FgCounted(L, S, f) ==
  /\ IsFiniteSet(HwEntries(S[f]))
  /\ S[f].live => /\ L.fgs[f].key = KeyOf(S[f].shape)
                  /\ L.fgs[f].ag = AgOf(S[f].shape)
                  /\ L.fgs[f].nof = Cardinality(HwEntries(S[f]))
  /\ ~S[f].live => HwEntries(S[f]) = {}

Counted(L, S) ==
  /\ \A f \in FgId : FgCounted(L, S, f)
  /\ \A k \in Counter, a \in AllocGroup : Column(k, L)[a] = Charged(k, S, a)

(* A row of a tuple table and the ids its caller holds: no group, or a     *)
(* live group of which the caller's entries and the first one are.         *)
RowOK(g, own, S) ==
  \/ g.gid = NoGroup /\ g.presel = 0 /\ own = {}
  \/ /\ Alive(S, g.gid)
     /\ own \subseteq HwEntries(S[g.gid])
     /\ g.presel # 0 => g.presel \in HwEntries(S[g.gid]) \ own

RowsOwn(g, o, S) ==
  /\ \A t \in Tuple : RowOK(g[t], o[t], S)
  /\ \A t, u \in Tuple : t # u /\ g[t].gid = g[u].gid => g[t].gid = NoGroup

CountInv ==
  /\ ExactInv /\ sweep = {}
  /\ Counted(tcam, sdk) /\ RowsOwn(gt, ids, sdk)

-----------------------------------------------------------------------------
(* The charge of a group is an integer, none for a group without entries.  *)
LEMMA ChargeFacts ==
  ASSUME NEW S \in Hardware, NEW k \in Counter, NEW f \in FgId, IsFiniteSet(HwEntries(S[f]))
  PROVE  /\ Weight(k, S[f].shape) \in Int /\ Cardinality(HwEntries(S[f])) \in Int
         /\ Charge(k, S)[f] = Weight(k, S[f].shape) * Cardinality(HwEntries(S[f]))
         /\ Charge(k, S)[f] \in Int
         /\ HwEntries(S[f]) = {} => Charge(k, S)[f] = 0
<1>1. S[f].shape \in Shape
  BY DEF Hardware, Group
<1>2. Weight(k, S[f].shape) \in Int
  BY <1>1, AgTypes DEF Weight
<1>3. Cardinality(HwEntries(S[f])) \in Int
  BY FS_CardinalityType
<1>4. Charge(k, S)[f] = Weight(k, S[f].shape) * Cardinality(HwEntries(S[f]))
  BY DEF Charge
<1>5. HwEntries(S[f]) = {} => Cardinality(HwEntries(S[f])) = 0
  BY FS_EmptySet
<1> QED
  BY <1>2, <1>3, <1>4, <1>5

AllFinite(S) == \A f \in FgId : IsFiniteSet(HwEntries(S[f]))
SameBut(S, S2, f) == \A g \in FgId \ {f} : S2[g] = S[g]
(* What f adds to the counter k of a.                                      *)
Share(k, S, a, f) == IF f \in Members(S, a) THEN Charge(k, S)[f] ELSE 0

(* When one group changes, an AG's sum changes by that group's share.      *)
LEMMA ChargedStep ==
  ASSUME NEW S \in Hardware, NEW S2 \in Hardware, AllFinite(S), AllFinite(S2),
         NEW f \in FgId, SameBut(S, S2, f), NEW k \in Counter, NEW a
  PROVE  /\ Charged(k, S, a) \in Int /\ Share(k, S, a, f) \in Int
         /\ Share(k, S2, a, f) \in Int
         /\ Charged(k, S2, a) = Charged(k, S, a) - Share(k, S, a, f) + Share(k, S2, a, f)
<1> DEFINE rest(T) == Members(T, a) \ {f}
<1>1. ASSUME NEW T \in Hardware, AllFinite(T)
      PROVE  /\ IsFiniteSet(rest(T))
             /\ Share(k, T, a, f) \in Int /\ SumOf(Charge(k, T), rest(T)) \in Int
             /\ Charged(k, T, a) = Share(k, T, a, f) + SumOf(Charge(k, T), rest(T))
  <2> DEFINE C == Charge(k, T)
             M == Members(T, a)
  <2>1. M \in SUBSET FgId /\ IsFiniteSet(M) /\ IsFiniteSet(rest(T))
    <3>1. M \in SUBSET FgId /\ rest(T) \in SUBSET FgId
      BY DEF Members
    <3> QED
      BY <3>1, FS_Subset, ConstantsAssumption
  <2>2. \A g \in FgId : C[g] \in Int
    BY <1>1, ChargeFacts DEF AllFinite
  <2>3. Share(k, T, a, f) \in Int /\ (f \notin M => Share(k, T, a, f) = 0)
        /\ (f \in M => Share(k, T, a, f) = C[f])
    BY <2>2 DEF Share
  <2>4. Charged(k, T, a) = SumOf(C, M)
    BY DEF Charged
  <2>5. rest(T) = M \ {f}
    OBVIOUS
  <2> HIDE DEF C, M, rest
  <2>6. SumOf(C, rest(T)) \in Int
    BY <2>1, <2>2, <2>5, SumType
  <2>7. CASE f \in M
    <3>1. SumOf(C, M) = C[f] + SumOf(C, M \ {f})
      BY <2>1, <2>2, <2>7, SumRemove
    <3> QED
      BY <2>1, <2>3, <2>4, <2>5, <2>6, <2>7, <3>1 DEF C
  <2>8. CASE f \notin M
    <3>1. rest(T) = M
      BY <2>5, <2>8
    <3>2. SumOf(C, rest(T)) = Charged(k, T, a)
      BY <2>4, <3>1
    <3> QED
      BY <2>1, <2>3, <2>6, <2>8, <3>2 DEF C
  <2> QED
    BY <2>7, <2>8
<1>2. rest(S2) = rest(S)
  BY DEF Members, SameBut
<1>3. \A g \in rest(S) : Charge(k, S2)[g] = Charge(k, S)[g]
  BY DEF Members, SameBut, Charge
<1>4. SumOf(Charge(k, S2), rest(S2)) = SumOf(Charge(k, S), rest(S))
  <2>1. IsFiniteSet(rest(S))
    BY <1>1
  <2> HIDE DEF rest
  <2> QED
    BY <1>2, <1>3, <2>1, SumEqual
<1>5. /\ Share(k, S, a, f) \in Int /\ SumOf(Charge(k, S), rest(S)) \in Int
      /\ Charged(k, S, a) = Share(k, S, a, f) + SumOf(Charge(k, S), rest(S))
  BY <1>1
<1>6. /\ Share(k, S2, a, f) \in Int
      /\ Charged(k, S2, a) = Share(k, S2, a, f) + SumOf(Charge(k, S2), rest(S2))
  BY <1>1
<1> HIDE DEF rest
<1> QED
  BY <1>4, <1>5, <1>6

-----------------------------------------------------------------------------
(* fg_info_update with nothing refused books the entry, and nothing else   *)
(* of what the ledger counts.                                              *)
LEMMA UpdateCounts ==
  ASSUME NEW L, NEW S, Exact(L, S), NEW f \in FgId, L.fgs[f].key # KeyDontCare,
         NEW S2, EntriesMoved(S, S2, f), NEW delta \in {-1, 1},
         NEW K, K = Updated(L, f, delta, HwBanks(S2[f]))
  PROVE  /\ \A g \in FgId \ {f} : K.fgs[g] = L.fgs[g]
         /\ K.fgs[f].key = L.fgs[f].key /\ K.fgs[f].ag = L.fgs[f].ag
         /\ K.fgs[f].nof = L.fgs[f].nof + delta
         /\ \A a \in AllocGroup :
              /\ K.entries[a] = IF a = L.fgs[f].ag THEN L.entries[a] + delta ELSE L.entries[a]
              /\ K.keys[a] = IF a = L.fgs[f].ag THEN L.keys[a] + delta * L.fgs[f].key
                             ELSE L.keys[a]
<1> DEFINE now == HwBanks(S2[f])
           M == Merged(L, f, now)
<1>1. Refused(L, f, now) = {}
  BY NothingRefused
<1>2. K = Booked(M, f, delta, now)
  BY <1>1 DEF Updated, Succeeds, Updatable
<1>3. LedgerOK(L) /\ now \in SUBSET Bank
  BY GroupFacts DEF Exact, EntriesMoved, Hardware
<1>4. M.fgs = L.fgs /\ M.entries = L.entries /\ M.keys = L.keys
  <2> HIDE DEF now
  <2> QED
    BY <1>3, MergedOK
<1>5. /\ L.fgs \in [FgId -> FgInfo] /\ L.entries \in [AllocGroup -> Int]
      /\ L.keys \in [AllocGroup -> Int]
  BY <1>3 DEF LedgerOK, Ledger
<1> HIDE DEF M, now
<1>6. /\ K.fgs = [L.fgs EXCEPT ![f] = [banks |-> now, nof |-> L.fgs[f].nof + delta,
                                       ag |-> L.fgs[f].ag, key |-> L.fgs[f].key]]
      /\ K.entries = [L.entries EXCEPT ![L.fgs[f].ag] = L.entries[L.fgs[f].ag] + delta]
      /\ K.keys = [L.keys EXCEPT ![L.fgs[f].ag] = L.keys[L.fgs[f].ag] + delta * L.fgs[f].key]
  BY <1>2, <1>4 DEF Booked
<1> QED
  BY <1>5, <1>6

(* One entry of f comes (delta = 1) or goes (delta = -1).                  *)
EntryMoved(S, S2, f, delta) ==
  /\ EntriesMoved(S, S2, f)
  /\ IsFiniteSet(HwEntries(S2[f]))
  /\ Cardinality(HwEntries(S2[f])) = Cardinality(HwEntries(S[f])) + delta

LEMMA PutCounts ==
  ASSUME NEW S \in Hardware, Apart(S), NEW f \in FgId, S[f].live, IsFiniteSet(HwEntries(S[f])),
         NEW e \in Entry
  PROVE  /\ \A p \in Placements(S, f) :
              Told => HwEntries(Put(S, f, e, p)[f]) = HwEntries(S[f]) \cup {e}
                      /\ (e \notin HwEntries(S[f]) => EntryMoved(S, Put(S, f, e, p), f, 1))
         /\ HwEntries(Put(S, f, e, {})[f]) = HwEntries(S[f]) \ {e}
         /\ e \in HwEntries(S[f]) => EntryMoved(S, Put(S, f, e, {}), f, -1)
<1>1. ASSUME NEW p \in SUBSET Bank
      PROVE  HwEntries(Put(S, f, e, p)[f]) =
               IF p = {} THEN HwEntries(S[f]) \ {e} ELSE HwEntries(S[f]) \cup {e}
  <2> DEFINE S2 == Put(S, f, e, p)
  <2>1. IsPut(S, S2, f, e, p)
    BY <1>1, PutFacts
  <2> HIDE DEF S2
  <2>2. S2[f].at = [S[f].at EXCEPT ![e] = p] /\ S[f].at \in [Entry -> SUBSET Bank]
    BY <2>1 DEF IsPut, Hardware, Group
  <2>3. HwEntries(S2[f]) = IF p = {} THEN HwEntries(S[f]) \ {e} ELSE HwEntries(S[f]) \cup {e}
    BY <2>2 DEF HwEntries
  <2> QED
    BY <2>3 DEF S2
<1>2. ASSUME NEW p \in Placements(S, f), Told
      PROVE  HwEntries(Put(S, f, e, p)[f]) = HwEntries(S[f]) \cup {e}
             /\ (e \notin HwEntries(S[f]) => EntryMoved(S, Put(S, f, e, p), f, 1))
  <2>1. p \in SUBSET Bank /\ Compatible(S, f, p)
    BY <1>2, PlacementsInBanks DEF Placements, Told
  <2>2. p # {}
    BY DEF Placements, Places, Pair
  <2>3. EntriesMoved(S, Put(S, f, e, p), f)
    BY <2>1, PutMoves
  <2>4. HwEntries(Put(S, f, e, p)[f]) = HwEntries(S[f]) \cup {e}
    BY <1>1, <2>1, <2>2
  <2> QED
    BY <2>3, <2>4, FS_AddElement DEF EntryMoved
<1>3. HwEntries(Put(S, f, e, {})[f]) = HwEntries(S[f]) \ {e}
  BY <1>1
<1>4. ASSUME e \in HwEntries(S[f]) PROVE EntryMoved(S, Put(S, f, e, {}), f, -1)
  <2>1. {} \in SUBSET Bank /\ Compatible(S, f, {})
    BY DEF Compatible
  <2>2. EntriesMoved(S, Put(S, f, e, {}), f)
    BY <2>1, PutMoves
  <2>3. /\ IsFiniteSet(HwEntries(S[f]) \ {e})
        /\ Cardinality(HwEntries(S[f]) \ {e}) = Cardinality(HwEntries(S[f])) - 1
    BY <1>4, FS_RemoveElement
  <2>4. Cardinality(HwEntries(S[f])) \in Int
    BY FS_CardinalityType
  <2> QED
    BY <1>3, <2>2, <2>3, <2>4 DEF EntryMoved
<1> QED
  BY <1>2, <1>3, <1>4

(* A booked entry keeps the counters those of the hardware.                *)
LEMMA UpdateCounted ==
  ASSUME NEW L, NEW S, Exact(L, S), Counted(L, S), NEW f \in FgId, NEW delta \in {-1, 1},
         NEW S2, EntryMoved(S, S2, f, delta)
  PROVE  Counted(Updated(L, f, delta, HwBanks(S2[f])), S2)
<1> DEFINE K == Updated(L, f, delta, HwBanks(S2[f]))
<1>1. /\ S \in Hardware /\ S2 \in Hardware /\ SameBut(S, S2, f)
      /\ S[f].live /\ S2[f].live /\ S2[f].shape = S[f].shape
      /\ EntriesMoved(S, S2, f) /\ LedgerOK(L)
  BY DEF EntryMoved, EntriesMoved, Exact, SameBut
<1>2. AllFinite(S) /\ AllFinite(S2)
  BY <1>1 DEF Counted, FgCounted, AllFinite, EntryMoved, SameBut
<1>3. S[f].shape \in Shape
  BY <1>1 DEF Hardware, Group
<1>4. /\ L.fgs[f].key = KeyOf(S[f].shape) /\ L.fgs[f].ag = AgOf(S[f].shape)
      /\ L.fgs[f].nof = Cardinality(HwEntries(S[f]))
      /\ L.fgs[f].key # KeyDontCare
  BY <1>1, <1>3, AgTypes DEF Counted, FgCounted, KeyDontCare
<1>5. /\ \A g \in FgId \ {f} : K.fgs[g] = L.fgs[g]
      /\ K.fgs[f].key = L.fgs[f].key /\ K.fgs[f].ag = L.fgs[f].ag
      /\ K.fgs[f].nof = L.fgs[f].nof + delta
      /\ \A a \in AllocGroup :
           /\ K.entries[a] = IF a = L.fgs[f].ag THEN L.entries[a] + delta ELSE L.entries[a]
           /\ K.keys[a] = IF a = L.fgs[f].ag THEN L.keys[a] + delta * L.fgs[f].key
                          ELSE L.keys[a]
  <2> HIDE DEF K
  <2>1. K = Updated(L, f, delta, HwBanks(S2[f]))
    BY DEF K
  <2> QED
    BY <1>1, <1>4, <2>1, UpdateCounts
<1> HIDE DEF K
<1>6. ASSUME NEW g \in FgId PROVE FgCounted(K, S2, g)
  <2>1. CASE g = f
    BY <1>1, <1>2, <1>4, <1>5, <2>1 DEF FgCounted, AllFinite, EntryMoved
  <2>2. CASE g # f
    <3>1. S2[g] = S[g] /\ K.fgs[g] = L.fgs[g] /\ FgCounted(L, S, g)
      BY <1>1, <1>5, <2>2 DEF SameBut, Counted
    <3> QED
      BY <3>1 DEF FgCounted
  <2> QED
    BY <2>1, <2>2
<1>7. ASSUME NEW k \in Counter, NEW a \in AllocGroup
      PROVE  Column(k, K)[a] = Charged(k, S2, a)
  <2> DEFINE w == Weight(k, S[f].shape)
             c == Cardinality(HwEntries(S[f]))
             in == AgOf(S[f].shape) = a
  <2>1. /\ Charged(k, S, a) \in Int
        /\ Charged(k, S2, a) = Charged(k, S, a) - Share(k, S, a, f) + Share(k, S2, a, f)
    BY <1>1, <1>2, ChargedStep
  <2>2. Column(k, L)[a] = Charged(k, S, a)
    BY DEF Counted
  <2>3. /\ w \in Int /\ c \in Int
        /\ Charge(k, S)[f] = w * c /\ Charge(k, S2)[f] = w * (c + delta)
    <3>1. /\ w \in Int /\ c \in Int /\ Charge(k, S)[f] = w * c
      BY <1>1, <1>2, ChargeFacts DEF AllFinite
    <3>2. Charge(k, S2)[f] = Weight(k, S2[f].shape) * Cardinality(HwEntries(S2[f]))
      BY <1>1, <1>2, ChargeFacts DEF AllFinite
    <3> QED
      BY <1>1, <3>1, <3>2 DEF EntryMoved
  <2>4. /\ Share(k, S, a, f) = IF in THEN w * c ELSE 0
        /\ Share(k, S2, a, f) = IF in THEN w * (c + delta) ELSE 0
    BY <1>1, <2>3 DEF Share, Members
  <2>5. Column(k, K)[a] = IF in THEN Column(k, L)[a] + delta * w ELSE Column(k, L)[a]
    BY <1>4, <1>5 DEF Column, Weight
  <2>6. w * (c + delta) = w * c + delta * w
    <3> HIDE DEF w, c
    <3>1. delta = 1 \/ delta = -1
      OBVIOUS
    <3> QED
      BY <2>3, <3>1
  <2> HIDE DEF w, c, in
  <2>7. w * c \in Int /\ delta * w \in Int
    BY <2>3
  <2> QED
    BY <2>1, <2>2, <2>4, <2>5, <2>6, <2>7
<1> QED
  BY <1>6, <1>7 DEF Counted, K

-----------------------------------------------------------------------------
(* A group without entries counts for nothing: it may come and go.         *)
LEMMA EmptyGroup ==
  ASSUME NEW L, NEW S \in Hardware, Counted(L, S), NEW f \in FgId,
         NEW S2 \in Hardware, SameBut(S, S2, f), HwEntries(S[f]) = {}, HwEntries(S2[f]) = {},
         NEW K, FgCounted(K, S2, f), \A g \in FgId \ {f} : K.fgs[g] = L.fgs[g],
         K.entries = L.entries, K.keys = L.keys
  PROVE  Counted(K, S2)
<1>1. AllFinite(S) /\ AllFinite(S2)
  <2>1. \A g \in FgId : IsFiniteSet(HwEntries(S[g]))
    BY DEF Counted, FgCounted
  <2>2. \A g \in FgId : IsFiniteSet(HwEntries(S2[g]))
    BY <2>1 DEF FgCounted, SameBut
  <2> QED
    BY <2>1, <2>2 DEF AllFinite
<1>2. ASSUME NEW g \in FgId PROVE FgCounted(K, S2, g)
  <2>1. CASE g # f
    <3>1. S2[g] = S[g] /\ K.fgs[g] = L.fgs[g] /\ FgCounted(L, S, g)
      BY <2>1 DEF SameBut, Counted
    <3> QED
      BY <3>1 DEF FgCounted
  <2> QED
    BY <2>1
<1>3. ASSUME NEW k \in Counter, NEW a \in AllocGroup
      PROVE  Column(k, K)[a] = Charged(k, S2, a)
  <2>1. /\ Charged(k, S, a) \in Int
        /\ Charged(k, S2, a) = Charged(k, S, a) - Share(k, S, a, f) + Share(k, S2, a, f)
    BY <1>1, ChargedStep
  <2>2. Share(k, S, a, f) = 0 /\ Share(k, S2, a, f) = 0
    BY <1>1, ChargeFacts DEF Share, AllFinite
  <2>3. Column(k, K)[a] = Charged(k, S, a)
    BY DEF Column, Counted
  <2> QED
    BY <2>1, <2>2, <2>3
<1> QED
  BY <1>2, <1>3 DEF Counted

LEMMA NoEntries ==
  \A s \in Shape : HwEntries(NewGroup(s)) = {} /\ HwEntries(DeadGroup(s)) = {}
BY DEF HwEntries, NewGroup, DeadGroup, NoPlaces

(* A group just entered in the ledger is counted.                          *)
LEMMA NewGroupCounted ==
  ASSUME NEW L, NEW S, Exact(L, S), Counted(L, S), NEW f \in FgId, ~S[f].live, NEW t \in Tuple
  PROVE  Counted(Initialised(L, f, ShapeOf[t], KeyOf(ShapeOf[t])),
                 [S EXCEPT ![f] = NewGroup(ShapeOf[t])])
<1> DEFINE K == Initialised(L, f, ShapeOf[t], KeyOf(ShapeOf[t]))
           S2 == [S EXCEPT ![f] = NewGroup(ShapeOf[t])]
<1>1. S \in Hardware /\ L.fgs \in [FgId -> FgInfo] /\ L \in Ledger
  BY DEF Exact, LedgerOK, Ledger
<1>2. S2 \in Hardware /\ SameBut(S, S2, f) /\ S2[f] = NewGroup(ShapeOf[t])
  BY <1>1, GroupFacts, AgTypes DEF Hardware, SameBut
<1>3. HwEntries(S[f]) = {} /\ HwEntries(S2[f]) = {}
  BY <1>2, NoEntries, AgTypes DEF Counted, FgCounted
<1>4. /\ K.fgs = [L.fgs EXCEPT ![f] = [banks |-> {}, nof |-> 0, ag |-> AgOf(ShapeOf[t]),
                                       key |-> KeyOf(ShapeOf[t])]]
      /\ K.entries = L.entries /\ K.keys = L.keys
  BY <1>1 DEF Initialised, Ledger
<1>5. /\ \A g \in FgId \ {f} : K.fgs[g] = L.fgs[g]
      /\ K.fgs[f] = [banks |-> {}, nof |-> 0, ag |-> AgOf(ShapeOf[t]),
                     key |-> KeyOf(ShapeOf[t])]
  BY <1>1, <1>4
<1> HIDE DEF K, S2
<1>6. FgCounted(K, S2, f)
  <2>1. S2[f].live /\ S2[f].shape = ShapeOf[t]
    BY <1>2 DEF NewGroup
  <2>2. IsFiniteSet(HwEntries(S2[f])) /\ Cardinality(HwEntries(S2[f])) = 0
    BY <1>3, FS_EmptySet
  <2> QED
    BY <1>5, <2>1, <2>2 DEF FgCounted
<1>7. Counted(K, S2)
  BY <1>1, <1>2, <1>3, <1>4, <1>5, <1>6, EmptyGroup
<1> QED
  BY <1>7 DEF K, S2

(* A group deleted without entries leaves no charge behind.                *)
LEMMA DropCounted ==
  ASSUME NEW L, NEW S, Exact(L, S), Counted(L, S), NEW f \in FgId, HwEntries(S[f]) = {}
  PROVE  Counted(Dropped(L, f), [S EXCEPT ![f] = DeadGroup(@.shape)])
<1> DEFINE K == Dropped(L, f)
           S2 == [S EXCEPT ![f] = DeadGroup(@.shape)]
<1>1. S \in Hardware /\ L.fgs \in [FgId -> FgInfo] /\ LedgerOK(L) /\ S[f].shape \in Shape
  BY DEF Exact, LedgerOK, Ledger, Hardware, Group
<1>2. S2 \in Hardware /\ SameBut(S, S2, f) /\ S2[f] = DeadGroup(S[f].shape)
  BY <1>1, GroupFacts DEF Hardware, SameBut
<1>3. HwEntries(S2[f]) = {}
  BY <1>1, <1>2, NoEntries
<1>4. K.fgs = [L.fgs EXCEPT ![f] = BlankInfo]
  BY <1>1, DroppedOK
<1>5. K.entries = L.entries /\ K.keys = L.keys
  BY DEF Dropped, Moved
<1>6. \A g \in FgId \ {f} : K.fgs[g] = L.fgs[g]
  BY <1>1, <1>4
<1> HIDE DEF K, S2
<1>7. FgCounted(K, S2, f)
  <2>1. ~S2[f].live
    BY <1>2 DEF DeadGroup
  <2> QED
    BY <1>3, <2>1, FS_EmptySet DEF FgCounted
<1>8. Counted(K, S2)
  BY <1>1, <1>2, <1>3, <1>5, <1>6, <1>7, EmptyGroup
<1> QED
  BY <1>8 DEF K, S2

-----------------------------------------------------------------------------
(* One row and its group change: the other rows own what they owned.       *)
LEMMA RowsStep ==
  ASSUME NEW g, NEW o, NEW S, RowsOwn(g, o, S), NEW t \in Tuple, NEW f \in FgId,
         NEW g2, NEW o2, NEW S2, SameBut(S, S2, f),
         \A u \in Tuple \ {t} : g2[u] = g[u] /\ o2[u] = o[u] /\ g[u].gid # f,
         g2[t].gid \in {f, NoGroup}, RowOK(g2[t], o2[t], S2)
  PROVE  RowsOwn(g2, o2, S2)
<1>1. ASSUME NEW u \in Tuple PROVE RowOK(g2[u], o2[u], S2)
  <2>1. CASE u # t
    <3>1. g2[u] = g[u] /\ o2[u] = o[u] /\ g[u].gid # f /\ RowOK(g[u], o[u], S)
      BY <2>1 DEF RowsOwn
    <3>2. g[u].gid \in FgId => S2[g[u].gid] = S[g[u].gid]
      BY <3>1 DEF SameBut
    <3> QED
      BY <3>1, <3>2 DEF RowOK, Alive
  <2> QED
    BY <2>1
<1>2. ASSUME NEW u \in Tuple, NEW v \in Tuple, u # v, g2[u].gid = g2[v].gid
      PROVE  g2[u].gid = NoGroup
  <2>1. CASE u = t
    BY <1>2, <2>1
  <2>2. CASE v = t
    BY <1>2, <2>2
  <2>3. CASE u # t /\ v # t
    BY <1>2, <2>3 DEF RowsOwn
  <2> QED
    BY <2>1, <2>2, <2>3
<1> QED
  BY <1>1, <1>2 DEF RowsOwn

(* A live group is one row's.                                              *)
LEMMA OneRow ==
  ASSUME RowsOwn(gt, ids, sdk), NEW t \in Tuple
  PROVE  /\ Alive(sdk, gt[t].gid) => \A u \in Tuple \ {t} : gt[u].gid # gt[t].gid
         /\ \A f \in FgId : ~sdk[f].live => \A u \in Tuple : gt[u].gid # f
         /\ ~Alive(sdk, gt[t].gid) => gt[t].gid = NoGroup /\ gt[t].presel = 0 /\ ids[t] = {}
BY ConstantsAssumption DEF RowsOwn, RowOK, Alive

LEMMA RefusalsTold == ASSUME OnlyRefusals PROVE Told
BY DEF OnlyRefusals, Told

-----------------------------------------------------------------------------
(* An entry the SDK placed, or took out, and told the ledger of.           *)
LEMMA AddCounted ==
  ASSUME Told, NEW L, NEW S, Exact(L, S), Counted(L, S), NEW f \in FgId, S[f].live,
         NEW e \in Entry \ HwEntries(S[f]), NEW p \in Placements(S, f),
         NEW r \in BookResults(L, Put(S, f, e, p), f, 1)
  PROVE  /\ Counted(r.tcam, r.sdk) /\ SameBut(S, r.sdk, f) /\ r.sdk[f].live
         /\ HwEntries(r.sdk[f]) = HwEntries(S[f]) \cup {e}
<1> DEFINE S2 == Put(S, f, e, p)
<1>1. S \in Hardware /\ Apart(S) /\ IsFiniteSet(HwEntries(S[f]))
  BY DEF Exact, Counted, FgCounted
<1>2. EntryMoved(S, S2, f, 1) /\ HwEntries(S2[f]) = HwEntries(S[f]) \cup {e}
  BY <1>1, PutCounts
<1>3. r.tcam = Updated(L, f, 1, HwBanks(S2[f])) /\ r.sdk = S2
  BY DEF BookResults, Told, Result
<1> HIDE DEF S2
<1>4. Counted(r.tcam, r.sdk)
  BY <1>2, <1>3, UpdateCounted
<1> QED
  BY <1>2, <1>3, <1>4 DEF EntryMoved, EntriesMoved, SameBut

LEMMA RemoveCounted ==
  ASSUME OnlyRefusals, NEW L, NEW S, Exact(L, S), Counted(L, S), NEW f \in FgId, S[f].live,
         NEW e \in Entry, e \in HwEntries(S[f]), NEW r \in RemoveResults(L, S, f, e)
  PROVE  /\ Counted(r.tcam, r.sdk) /\ SameBut(S, r.sdk, f) /\ r.sdk[f].live
         /\ HwEntries(r.sdk[f]) = HwEntries(S[f]) \ {e}
<1> DEFINE S2 == Put(S, f, e, {})
<1>1. S \in Hardware /\ Apart(S) /\ IsFiniteSet(HwEntries(S[f]))
  BY DEF Exact, Counted, FgCounted
<1>2. EntryMoved(S, S2, f, -1) /\ HwEntries(S2[f]) = HwEntries(S[f]) \ {e}
  BY <1>1, PutCounts
<1>3. r.tcam = Updated(L, f, -1, HwBanks(S2[f])) /\ r.sdk = S2
  BY DEF RemoveResults, BookResults, OnlyRefusals, Result
<1> HIDE DEF S2
<1>4. Counted(r.tcam, r.sdk)
  BY <1>2, <1>3, UpdateCounted
<1> QED
  BY <1>2, <1>3, <1>4 DEF EntryMoved, EntriesMoved, SameBut

(***************************************************************************)
(* Every action keeps the counters and the owners.                         *)
(***************************************************************************)
StepCounted == Counted(tcam', sdk') /\ RowsOwn(gt', ids', sdk')

Tables == /\ gt \in [Tuple -> GtRow] /\ ids \in [Tuple -> SUBSET Entry]
          /\ sdk \in Hardware

LEMMA CountFacts ==
  ASSUME CountInv
  PROVE  /\ ExactInv /\ Exact(tcam, sdk) /\ Counted(tcam, sdk) /\ RowsOwn(gt, ids, sdk)
         /\ Tables /\ sweep = {}
BY DEF CountInv, ExactInv, ConsistentInv, TypeOK, Tables, GtRow, Hardware

LEMMA FgSetCounted ==
  ASSUME OnlyRefusals, CountInv, NEW t \in Tuple, gt[t].presel = 0, FgSet(t)
  PROVE  StepCounted
<1>1. /\ Exact(tcam, sdk) /\ Counted(tcam, sdk) /\ RowsOwn(gt, ids, sdk) /\ Tables /\ Told
  BY CountFacts, RefusalsTold
<1>2. ids'[t] = {} /\ \A u \in Tuple \ {t} : ids'[u] = ids[u]
  BY <1>1 DEF FgSet, Tables
<1>3. CASE /\ gt' = [gt EXCEPT ![t].gid = NoGroup]
           /\ UNCHANGED <<tcam, sdk, tripped>>
  <2>1. /\ gt'[t].gid = NoGroup /\ gt'[t].presel = 0
        /\ \A u \in Tuple \ {t} : gt'[u] = gt[u]
    BY <1>1, <1>3 DEF Tables, GtRow
  <2>2. \A u \in Tuple : RowOK(gt'[u], ids'[u], sdk)
    BY <1>1, <1>2, <2>1 DEF RowsOwn, RowOK
  <2>3. \A u, v \in Tuple : u # v /\ gt'[u].gid = gt'[v].gid => gt'[u].gid = NoGroup
    BY <1>1, <2>1 DEF RowsOwn
  <2> QED
    BY <1>1, <1>3, <2>2, <2>3 DEF StepCounted, RowsOwn
<1>4. ASSUME NEW f \in FgId, ~sdk[f].live,
             NEW new, new = [sdk EXCEPT ![f] = NewGroup(ShapeOf[t])],
             NEW L, L = Initialised(tcam, f, ShapeOf[t], KeyOf(ShapeOf[t])),
             \/ Take(Result(L, new, {})) /\ gt' = [gt EXCEPT ![t].gid = f]
             \/ Populate(t, f, L, new)
      PROVE  StepCounted
  <2>1. Exact(L, new) /\ Counted(L, new)
    BY <1>1, <1>4, NewGroupExact, NewGroupCounted
  <2>2. SameBut(sdk, new, f) /\ new[f].live /\ HwEntries(new[f]) = {}
    <3>1. new[f] = NewGroup(ShapeOf[t]) /\ SameBut(sdk, new, f)
      BY <1>1, <1>4 DEF Tables, Hardware, SameBut
    <3> QED
      BY <3>1, NoEntries, AgTypes DEF NewGroup
  <2>3. \A u \in Tuple \ {t} : gt[u].gid # f
    BY <1>1, <1>4, OneRow
  <2>4. CASE Take(Result(L, new, {})) /\ gt' = [gt EXCEPT ![t].gid = f]
    <3>1. tcam' = L /\ sdk' = new
      BY <2>4 DEF Take, Result
    <3>2. /\ gt'[t].gid = f /\ gt'[t].presel = 0
          /\ \A u \in Tuple \ {t} : gt'[u] = gt[u]
      BY <1>1, <1>2, <2>4 DEF Tables, GtRow
    <3>3. RowOK(gt'[t], ids'[t], sdk')
      BY <1>2, <2>2, <3>1, <3>2 DEF RowOK, Alive
    <3>4. SameBut(sdk, sdk', f) /\ gt'[t].gid \in {f, NoGroup}
      BY <2>2, <3>1, <3>2
    <3>5. \A u \in Tuple \ {t} : gt'[u] = gt[u] /\ ids'[u] = ids[u] /\ gt[u].gid # f
      BY <1>2, <2>3, <3>2
    <3>6. RowsOwn(gt', ids', sdk')
      BY <1>1, <3>3, <3>4, <3>5, RowsStep
    <3> QED
      BY <2>1, <3>1, <3>6 DEF StepCounted
  <2>5. ASSUME NEW e \in Entry \ HwEntries(new[f]), NEW p \in Placements(new, f),
               NEW r \in BookResults(L, Put(new, f, e, p), f, 1), Take(r),
               gt' = [gt EXCEPT ![t] = [gid |-> f, presel |-> e]]
        PROVE  StepCounted
    <3>1. tcam' = r.tcam /\ sdk' = r.sdk
      BY <2>5 DEF Take
    <3>2. /\ Counted(r.tcam, r.sdk) /\ SameBut(new, r.sdk, f) /\ r.sdk[f].live
          /\ HwEntries(r.sdk[f]) = HwEntries(new[f]) \cup {e}
      BY <1>1, <2>1, <2>2, AddCounted
    <3>3. /\ gt'[t].gid = f /\ gt'[t].presel = e
          /\ \A u \in Tuple \ {t} : gt'[u] = gt[u]
      BY <1>1, <2>5 DEF Tables
    <3>4. RowOK(gt'[t], ids'[t], sdk')
      BY <1>2, <3>1, <3>2, <3>3 DEF RowOK, Alive
    <3>5. SameBut(sdk, sdk', f) /\ gt'[t].gid \in {f, NoGroup}
      BY <2>2, <3>1, <3>2, <3>3 DEF SameBut
    <3>6. \A u \in Tuple \ {t} : gt'[u] = gt[u] /\ ids'[u] = ids[u] /\ gt[u].gid # f
      BY <1>2, <2>3, <3>3
    <3>7. RowsOwn(gt', ids', sdk')
      BY <1>1, <3>4, <3>5, <3>6, RowsStep
    <3> QED
      BY <3>1, <3>2, <3>7 DEF StepCounted
  <2> QED
    BY <1>4, <2>4, <2>5 DEF Populate
<1>5. \/ gt' = [gt EXCEPT ![t].gid = NoGroup] /\ UNCHANGED <<tcam, sdk, tripped>>
      \/ \E f \in FgId :
           /\ ~sdk[f].live
           /\ \E new, L : /\ new = [sdk EXCEPT ![f] = NewGroup(ShapeOf[t])]
                          /\ L = Initialised(tcam, f, ShapeOf[t], KeyOf(ShapeOf[t]))
                          /\ \/ Take(Result(L, new, {})) /\ gt' = [gt EXCEPT ![t].gid = f]
                             \/ Populate(t, f, L, new)
  <2>1. "attach" \notin Sdk /\ "key_size" \notin Sdk
    BY DEF OnlyRefusals
  <2> QED
    BY <2>1 DEF FgSet
<1> QED
  BY <1>3, <1>4, <1>5

LEMMA ScaleUpCounted ==
  ASSUME OnlyRefusals, CountInv, NEW t \in Tuple, ScaleUp(t)
  PROVE  StepCounted
<1> DEFINE f == gt[t].gid
<1>1. /\ Exact(tcam, sdk) /\ Counted(tcam, sdk) /\ RowsOwn(gt, ids, sdk) /\ Tables /\ Told
  BY CountFacts, RefusalsTold
<1>2. /\ Alive(sdk, f) /\ f \in FgId /\ sdk[f].live /\ gt' = gt
      /\ \A u \in Tuple \ {t} : gt[u].gid # f
  <2>1. Alive(sdk, f) /\ gt' = gt
    BY DEF ScaleUp
  <2> QED
    BY <1>1, <2>1, OneRow DEF Alive
<1>3. PICK e \in Entry \ HwEntries(sdk[f]), p \in Placements(sdk, f) :
        \E r \in BookResults(tcam, Put(sdk, f, e, p), f, 1) :
          /\ Take(r)
          /\ ids' = IF r.tcam.fgs[f].nof = tcam.fgs[f].nof THEN ids
                    ELSE [ids EXCEPT ![t] = @ \cup {e}]
  BY DEF ScaleUp
<1>4. PICK r \in BookResults(tcam, Put(sdk, f, e, p), f, 1) :
        /\ Take(r)
        /\ ids' = IF r.tcam.fgs[f].nof = tcam.fgs[f].nof THEN ids
                  ELSE [ids EXCEPT ![t] = @ \cup {e}]
  BY <1>3
<1>5. /\ tcam' = r.tcam /\ sdk' = r.sdk
      /\ ids'[t] \in {ids[t], ids[t] \cup {e}}
      /\ \A u \in Tuple \ {t} : ids'[u] = ids[u]
  BY <1>1, <1>4 DEF Take, Tables
<1>6. /\ Counted(r.tcam, r.sdk) /\ SameBut(sdk, r.sdk, f) /\ r.sdk[f].live
      /\ HwEntries(r.sdk[f]) = HwEntries(sdk[f]) \cup {e}
  <2>1. /\ e \in Entry \ HwEntries(sdk[f]) /\ p \in Placements(sdk, f)
        /\ r \in BookResults(tcam, Put(sdk, f, e, p), f, 1)
    BY <1>3, <1>4
  <2>2. Told /\ Exact(tcam, sdk) /\ Counted(tcam, sdk) /\ f \in FgId /\ sdk[f].live
    BY <1>1, <1>2
  <2> HIDE DEF f
  <2> QED
    BY <2>1, <2>2, AddCounted
<1>7. RowOK(gt'[t], ids'[t], sdk')
  <2>1. RowOK(gt[t], ids[t], sdk) /\ NoGroup \notin FgId
    BY <1>1, ConstantsAssumption DEF RowsOwn
  <2>2. /\ ids[t] \subseteq HwEntries(sdk[f]) /\ gt'[t] = gt[t]
        /\ gt[t].presel # 0 => gt[t].presel \in HwEntries(sdk[f]) \ ids[t]
    BY <1>2, <2>1 DEF RowOK
  <2>3. Alive(sdk', f) /\ HwEntries(sdk'[f]) = HwEntries(sdk[f]) \cup {e}
    BY <1>2, <1>5, <1>6 DEF Alive
  <2> QED
    BY <1>3, <1>5, <2>2, <2>3 DEF RowOK
<1>8. /\ SameBut(sdk, sdk', f) /\ gt'[t].gid \in {f, NoGroup}
      /\ \A u \in Tuple \ {t} : gt'[u] = gt[u] /\ ids'[u] = ids[u] /\ gt[u].gid # f
  BY <1>2, <1>5, <1>6
<1> HIDE DEF f
<1>9. RowsOwn(gt', ids', sdk')
  BY <1>1, <1>2, <1>7, <1>8, RowsStep
<1> QED
  BY <1>5, <1>6, <1>9 DEF StepCounted

LEMMA ScaleDownCounted ==
  ASSUME OnlyRefusals, CountInv, NEW t \in Tuple, NEW e \in ids[t], e \in Entry,
         ScaleDown(t, e)
  PROVE  StepCounted
<1> DEFINE f == gt[t].gid
<1>1. /\ Exact(tcam, sdk) /\ Counted(tcam, sdk) /\ RowsOwn(gt, ids, sdk) /\ Tables
  BY CountFacts
<1>2. /\ Alive(sdk, f) /\ f \in FgId /\ sdk[f].live /\ gt' = gt /\ e \in ids[t]
      /\ ids' = [ids EXCEPT ![t] = @ \ {e}]
      /\ \A u \in Tuple \ {t} : gt[u].gid # f
  <2>1. Alive(sdk, f)
    BY <1>1, OneRow
  <2>2. gt' = gt /\ e \in ids[t] /\ ids' = [ids EXCEPT ![t] = @ \ {e}]
    BY DEF ScaleDown
  <2> QED
    BY <1>1, <2>1, <2>2, OneRow DEF Alive
<1>3. PICK r \in RemoveResults(tcam, sdk, f, e) : Take(r)
  BY <1>2 DEF ScaleDown
<1>4. /\ tcam' = r.tcam /\ sdk' = r.sdk /\ ids'[t] = ids[t] \ {e}
      /\ \A u \in Tuple \ {t} : ids'[u] = ids[u]
  BY <1>1, <1>2, <1>3 DEF Take, Tables
<1>5. /\ ids[t] \subseteq HwEntries(sdk[f])
      /\ gt[t].presel # 0 => gt[t].presel \in HwEntries(sdk[f]) \ ids[t]
  <2>1. RowOK(gt[t], ids[t], sdk) /\ NoGroup \notin FgId
    BY <1>1, ConstantsAssumption DEF RowsOwn
  <2> QED
    BY <1>2, <2>1 DEF RowOK
<1>6. /\ Counted(r.tcam, r.sdk) /\ SameBut(sdk, r.sdk, f) /\ r.sdk[f].live
      /\ HwEntries(r.sdk[f]) = HwEntries(sdk[f]) \ {e}
  <2>1. e \in HwEntries(sdk[f])
    BY <1>2, <1>5
  <2> HIDE DEF f
  <2> QED
    BY <1>1, <1>2, <2>1, RemoveCounted
<1>7. RowOK(gt'[t], ids'[t], sdk')
  <2>1. Alive(sdk', f) /\ HwEntries(sdk'[f]) = HwEntries(sdk[f]) \ {e} /\ gt'[t] = gt[t]
    BY <1>2, <1>4, <1>6 DEF Alive
  <2> QED
    BY <1>2, <1>4, <1>5, <2>1 DEF RowOK
<1>8. /\ SameBut(sdk, sdk', f) /\ gt'[t].gid \in {f, NoGroup}
      /\ \A u \in Tuple \ {t} : gt'[u] = gt[u] /\ ids'[u] = ids[u] /\ gt[u].gid # f
  BY <1>2, <1>4, <1>6
<1>9. f \in FgId /\ RowsOwn(gt, ids, sdk)
  BY <1>1, <1>2
<1> HIDE DEF f
<1>10. RowsOwn(gt', ids', sdk')
  BY <1>7, <1>8, <1>9, RowsStep
<1> QED
  BY <1>4, <1>6, <1>10 DEF StepCounted

(* Clearing a row gives back its first entry; the group, if the SDK deletes *)
(* it, had no other, and if not, its caller's entries stay.                 *)
LEMMA DestroyRowCounted ==
  ASSUME OnlyRefusals, CountInv, NEW t \in Tuple, DestroyTuple(t)
  PROVE  StepCounted
<1> DEFINE f == gt[t].gid
           after == IF gt[t].presel = 0 THEN {Result(tcam, sdk, {})}
                    ELSE RemoveResults(tcam, sdk, f, gt[t].presel)
<1>1. /\ Exact(tcam, sdk) /\ Counted(tcam, sdk) /\ RowsOwn(gt, ids, sdk) /\ Tables /\ Told
  BY CountFacts, RefusalsTold
<1>2. DestroyRow(t) /\ gt[t] # [gid |-> NoGroup, presel |-> 0]
  BY DEF DestroyTuple
<1>3. Alive(sdk, f)
  <2>1. gt[t] \in GtRow
    BY <1>1 DEF Tables
  <2> SUFFICES ASSUME ~Alive(sdk, f) PROVE FALSE
    OBVIOUS
  <2>2. f = NoGroup /\ gt[t].presel = 0
    BY <1>1, OneRow
  <2> QED
    BY <1>2, <2>1, <2>2 DEF GtRow
<1>4. /\ f \in FgId /\ sdk[f].live /\ \A u \in Tuple \ {t} : gt[u].gid # f
      /\ ids[t] \subseteq HwEntries(sdk[f])
      /\ gt[t].presel # 0 => gt[t].presel \in HwEntries(sdk[f]) \ ids[t]
  <2>1. RowOK(gt[t], ids[t], sdk) /\ NoGroup \notin FgId
    BY <1>1, ConstantsAssumption DEF RowsOwn
  <2>2. f \in FgId /\ sdk[f].live
    BY <1>3 DEF Alive
  <2>3. \A u \in Tuple \ {t} : gt[u].gid # f
    BY <1>1, <1>3, OneRow
  <2> QED
    BY <2>1, <2>2, <2>3 DEF RowOK
<1>5. PICK r \in after :
        \/ /\ Take(r)
           /\ gt' = [gt EXCEPT ![t].presel = 0]
           /\ ids' = ids
        \/ /\ HwEntries(r.sdk[f]) = {}
           /\ Take(Result(Dropped(r.tcam, f), [r.sdk EXCEPT ![f] = DeadGroup(@.shape)],
                          r.trips \cup DropTrips(r.tcam, f)))
           /\ gt' = [gt EXCEPT ![t] = Vacated(@)]
           /\ ids' = [ids EXCEPT ![t] = {}]
  <2>1. "drops_entries" \notin Sdk
    BY DEF OnlyRefusals
  <2>2. \E r \in after :
              \/ /\ HwEntries(r.sdk[f]) # {} \/ "group_delete" \in Sdk
                 /\ Take(r)
                 /\ gt' = [gt EXCEPT ![t].presel = 0]
                 /\ UNCHANGED ids
              \/ /\ HwEntries(r.sdk[f]) = {} \/ "drops_entries" \in Sdk
                 /\ Take(Result(Dropped(r.tcam, f), [r.sdk EXCEPT ![f] = DeadGroup(@.shape)],
                                r.trips \cup DropTrips(r.tcam, f)))
                 /\ gt' = [gt EXCEPT ![t] = Vacated(@)]
                 /\ ids' = [ids EXCEPT ![t] = {}]
    BY <1>2, <1>3 DEF DestroyRow
  <2> HIDE DEF f, after
  <2> QED
    BY <2>1, <2>2
<1>6. /\ Counted(r.tcam, r.sdk) /\ Exact(r.tcam, r.sdk)
      /\ SameBut(sdk, r.sdk, f) /\ r.sdk[f].live
      /\ HwEntries(r.sdk[f]) = HwEntries(sdk[f]) \ {gt[t].presel}
  <2>1. CASE gt[t].presel = 0
    <3>1. r.tcam = tcam /\ r.sdk = sdk
      BY <1>5, <2>1 DEF Result
    <3>2. 0 \notin HwEntries(sdk[f])
      BY ConstantsAssumption DEF HwEntries
    <3> QED
      BY <1>1, <1>4, <2>1, <3>1, <3>2 DEF SameBut
  <2>2. CASE gt[t].presel # 0
    <3> DEFINE e == gt[t].presel
    <3>1. r \in RemoveResults(tcam, sdk, f, e) /\ e \in HwEntries(sdk[f]) /\ e \in Entry
      BY <1>4, <1>5, <2>2 DEF HwEntries
    <3>2. f \in FgId /\ sdk[f].live
      BY <1>4
    <3> HIDE DEF f, e, after
    <3>3. Exact(r.tcam, r.sdk)
      BY <1>1, <3>1, <3>2, RemoveExact
    <3>4. /\ Counted(r.tcam, r.sdk) /\ SameBut(sdk, r.sdk, f) /\ r.sdk[f].live
          /\ HwEntries(r.sdk[f]) = HwEntries(sdk[f]) \ {e}
      BY <1>1, <3>1, <3>2, RemoveCounted
    <3> QED
      BY <3>3, <3>4 DEF e
  <2> QED
    BY <2>1, <2>2
<1>7. CASE /\ Take(r)
           /\ gt' = [gt EXCEPT ![t].presel = 0]
           /\ ids' = ids
  <2>1. /\ tcam' = r.tcam /\ sdk' = r.sdk
        /\ gt'[t].gid = f /\ gt'[t].presel = 0 /\ ids'[t] = ids[t]
        /\ \A u \in Tuple \ {t} : gt'[u] = gt[u] /\ ids'[u] = ids[u]
    BY <1>1, <1>7 DEF Take, Tables, GtRow
  <2>2. RowOK(gt'[t], ids'[t], sdk')
    <3>1. Alive(sdk', gt'[t].gid) /\ ids'[t] \subseteq HwEntries(sdk'[gt'[t].gid])
      <4>1. ids[t] \subseteq HwEntries(sdk[f]) \ {gt[t].presel}
        <5>1. 0 \notin HwEntries(sdk[f])
          BY ConstantsAssumption DEF HwEntries
        <5> QED
          BY <1>4, <5>1
      <4> QED
        BY <1>4, <1>6, <2>1, <4>1 DEF Alive
    <3> QED
      BY <2>1, <3>1 DEF RowOK
  <2>3. /\ SameBut(sdk, sdk', f) /\ gt'[t].gid \in {f, NoGroup}
        /\ \A u \in Tuple \ {t} : gt'[u] = gt[u] /\ ids'[u] = ids[u] /\ gt[u].gid # f
        /\ f \in FgId /\ RowsOwn(gt, ids, sdk)
    BY <1>1, <1>4, <1>6, <2>1
  <2> HIDE DEF f, after
  <2>4. RowsOwn(gt', ids', sdk')
    BY <2>2, <2>3, RowsStep
  <2> QED
    BY <1>6, <2>1, <2>4 DEF StepCounted
<1>8. CASE /\ HwEntries(r.sdk[f]) = {}
           /\ Take(Result(Dropped(r.tcam, f), [r.sdk EXCEPT ![f] = DeadGroup(@.shape)],
                          r.trips \cup DropTrips(r.tcam, f)))
           /\ gt' = [gt EXCEPT ![t] = Vacated(@)]
           /\ ids' = [ids EXCEPT ![t] = {}]
  <2> DEFINE gone == [r.sdk EXCEPT ![f] = DeadGroup(@.shape)]
  <2>1. /\ tcam' = Dropped(r.tcam, f) /\ sdk' = gone
        /\ gt'[t].gid = NoGroup /\ gt'[t].presel = 0 /\ ids'[t] = {}
        /\ \A u \in Tuple \ {t} : gt'[u] = gt[u] /\ ids'[u] = ids[u]
    BY <1>1, <1>8 DEF Take, Result, Tables, GtRow, Vacated
  <2>2. r.sdk \in Hardware /\ \A h \in FgId \ {f} : gone[h] = r.sdk[h]
    BY <1>6 DEF Exact, Hardware
  <2>3. RowOK(gt'[t], ids'[t], sdk')
    BY <2>1 DEF RowOK
  <2>4. /\ SameBut(sdk, sdk', f) /\ gt'[t].gid \in {f, NoGroup}
        /\ \A u \in Tuple \ {t} : gt'[u] = gt[u] /\ ids'[u] = ids[u] /\ gt[u].gid # f
        /\ f \in FgId /\ RowsOwn(gt, ids, sdk)
    BY <1>1, <1>4, <1>6, <2>1, <2>2 DEF SameBut
  <2>5. Counted(Dropped(r.tcam, f), gone)
    <3>1. f \in FgId /\ HwEntries(r.sdk[f]) = {}
      BY <1>4, <1>8
    <3> HIDE DEF f, after
    <3> QED
      BY <1>6, <3>1, DropCounted
  <2> HIDE DEF f, after, gone
  <2>6. RowsOwn(gt', ids', sdk')
    BY <2>3, <2>4, RowsStep
  <2> QED
    BY <2>1, <2>5, <2>6 DEF StepCounted
<1> QED
  BY <1>5, <1>7, <1>8

-----------------------------------------------------------------------------
(* No group, no entry and no row's claim to one: nothing is counted.       *)
LEMMA InitCounted == Init => CountInv
<1> SUFFICES ASSUME Init PROVE CountInv
  OBVIOUS
<1>1. ExactInv
  BY InitExact
<1>2. /\ \A f \in FgId : ~sdk[f].live /\ HwEntries(sdk[f]) = {}
      /\ \A a \in AllocGroup : tcam.entries[a] = 0 /\ tcam.keys[a] = 0
      /\ \A t \in Tuple : gt[t].gid = NoGroup /\ gt[t].presel = 0 /\ ids[t] = {}
      /\ sweep = {}
  BY DEF Init, InitLedger, DeadGroup, HwEntries, NoPlaces
<1>3. ASSUME NEW k \in Counter, NEW a \in AllocGroup
      PROVE  Column(k, tcam)[a] = Charged(k, sdk, a)
  <2>1. Members(sdk, a) = {}
    BY <1>2 DEF Members
  <2> QED
    BY <1>2, <2>1, SumEmpty DEF Charged, Column
<1>4. Counted(tcam, sdk)
  BY <1>2, <1>3, FS_EmptySet DEF Counted, FgCounted
<1>5. RowsOwn(gt, ids, sdk)
  BY <1>2 DEF RowsOwn, RowOK
<1> QED
  BY <1>1, <1>2, <1>4, <1>5 DEF CountInv

LEMMA NextCounted == ASSUME OnlyRefusals PROVE CountInv /\ [Next]_vars => CountInv'
<1> SUFFICES ASSUME CountInv, [Next]_vars PROVE CountInv'
  OBVIOUS
<1>1. ExactInv'
  BY RefusalsTold, NextExact DEF CountInv
<1>2. sweep = {}
  BY DEF CountInv
<1>3. StepCounted /\ sweep' = {}
  <2>1. ASSUME NEW t \in Tuple, Cleared(t), FgSet(t) PROVE StepCounted /\ sweep' = {}
    <3>1. gt[t].presel = 0
      BY <2>1 DEF Cleared, OnlyRefusals
    <3> QED
      BY <1>2, <2>1, <3>1, FgSetCounted DEF FgSet
  <2>2. ASSUME NEW t \in Tuple, ScaleUp(t) PROVE StepCounted /\ sweep' = {}
    <3>1. sweep' = sweep
      BY <2>2 DEF ScaleUp
    <3> QED
      BY <1>2, <2>2, <3>1, ScaleUpCounted
  <2>3. ASSUME NEW t \in Tuple, NEW e \in Entry, Owns(t, e), ScaleDown(t, e)
        PROVE  StepCounted /\ sweep' = {}
    <3>1. sweep' = sweep /\ e \in ids[t]
      BY <2>3 DEF ScaleDown, Owns, OnlyRefusals
    <3> QED
      BY <1>2, <2>3, <3>1, ScaleDownCounted
  <2>4. ASSUME NEW t \in Tuple, DestroyTuple(t) PROVE StepCounted /\ sweep' = {}
    BY <1>2, <2>4, DestroyRowCounted DEF DestroyTuple
  <2>5. \A t \in Tuple : ~SweepTuple(t)
    BY <1>2 DEF SweepTuple
  <2>6. ~EntryDeleteAll
    BY DEF EntryDeleteAll, OnlyRefusals
  <2>7. \A f \in FgId : ~UncountedAdd(f) /\ \A e \in Entry : ~UncountedRemove(f, e)
    BY DEF UncountedAdd, UncountedRemove, OnlyRefusals
  <2>8. CASE UNCHANGED vars
    BY <2>8 DEF vars, CountInv, StepCounted
  <2> QED
    BY <2>1, <2>2, <2>3, <2>4, <2>5, <2>6, <2>7, <2>8 DEF Next
<1> QED
  BY <1>1, <1>3 DEF CountInv, StepCounted

LEMMA AlwaysCounted == ASSUME OnlyRefusals PROVE Spec => []CountInv
<1>1. Init => CountInv
  BY InitCounted
<1>2. CountInv /\ [Next]_vars => CountInv'
  BY NextCounted
<1> QED
  BY <1>1, <1>2, PTL DEF Spec

-----------------------------------------------------------------------------
(* The sums of CountersMatchHardware are those of the charges.             *)
LEMMA ChargedIsSum ==
  ASSUME NEW a
  PROVE  /\ SumOver(a, LAMBDA f : Cardinality(HwEntries(sdk[f])))
              = SumOf([f \in FgId |-> Cardinality(HwEntries(sdk[f]))], Members(sdk, a))
         /\ SumOver(a, LAMBDA f : KeyOf(sdk[f].shape) * Cardinality(HwEntries(sdk[f])))
              = SumOf([f \in FgId |-> KeyOf(sdk[f].shape) * Cardinality(HwEntries(sdk[f]))],
                      Members(sdk, a))
<1> DEFINE M == Members(sdk, a)
<1>1. M \in SUBSET FgId /\ IsFiniteSet(M) /\ M \in SUBSET M
  BY FS_Subset, ConstantsAssumption DEF Members
<1>2. M = {f \in FgId : sdk[f].live /\ AgOf(sdk[f].shape) = a}
  BY DEF Members
<1>3. \A s \in SUBSET M : s # {} => Member(s) \in FgId
  BY <1>1 DEF Member
<1>4. SumOver(a, LAMBDA f : Cardinality(HwEntries(sdk[f])))
        = SumOf([f \in FgId |-> Cardinality(HwEntries(sdk[f]))], M)
  <2> DEFINE F == [f \in FgId |-> Cardinality(HwEntries(sdk[f]))]
             Sums(G) == G = [s \in SUBSET M |->
                          IF s = {} THEN 0
                          ELSE Cardinality(HwEntries(sdk[Member(s)])) + G[s \ {Member(s)}]]
             H == CHOOSE G : Sums(G)
  <2>1. \A s \in SUBSET M : s # {} => F[Member(s)] = Cardinality(HwEntries(sdk[Member(s)]))
    BY <1>3
  <2>2. PICK G : Summing(G, F, M) /\ SumOf(F, M) = G[M]
    <3> HIDE DEF F, M
    <3> QED
      BY <1>1, SumIs
  <2> HIDE DEF F
  <2>3. Sums(G)
    BY <2>1, <2>2 DEF Summing
  <2>4. Sums(H)
    BY <2>3
  <2>5. Summing(H, F, M)
    <3> HIDE DEF H
    <3> QED
      BY <2>1, <2>4 DEF Summing
  <2>6. SumOver(a, LAMBDA f : Cardinality(HwEntries(sdk[f]))) = H[M]
    BY <1>2 DEF SumOver, MapThenSumSet, MapThenFoldSet, Member
  <2> HIDE DEF H, M
  <2>7. H[M] = G[M]
    BY <1>1, <2>2, <2>5, OneSum
  <2> QED
    BY <2>2, <2>6, <2>7 DEF F
<1>5. SumOver(a, LAMBDA f : KeyOf(sdk[f].shape) * Cardinality(HwEntries(sdk[f])))
        = SumOf([f \in FgId |-> KeyOf(sdk[f].shape) * Cardinality(HwEntries(sdk[f]))], M)
  <2> DEFINE F == [f \in FgId |-> KeyOf(sdk[f].shape) * Cardinality(HwEntries(sdk[f]))]
             Sums(G) == G = [s \in SUBSET M |->
                          IF s = {} THEN 0
                          ELSE KeyOf(sdk[Member(s)].shape) * Cardinality(HwEntries(sdk[Member(s)]))
                               + G[s \ {Member(s)}]]
             H == CHOOSE G : Sums(G)
  <2>1. \A s \in SUBSET M : s # {} =>
          F[Member(s)] = KeyOf(sdk[Member(s)].shape) * Cardinality(HwEntries(sdk[Member(s)]))
    BY <1>3
  <2>2. PICK G : Summing(G, F, M) /\ SumOf(F, M) = G[M]
    <3> HIDE DEF F, M
    <3> QED
      BY <1>1, SumIs
  <2> HIDE DEF F
  <2>3. Sums(G)
    BY <2>1, <2>2 DEF Summing
  <2>4. Sums(H)
    BY <2>3
  <2>5. Summing(H, F, M)
    <3> HIDE DEF H
    <3> QED
      BY <2>1, <2>4 DEF Summing
  <2>6. SumOver(a, LAMBDA f : KeyOf(sdk[f].shape) * Cardinality(HwEntries(sdk[f]))) = H[M]
    BY <1>2 DEF SumOver, MapThenSumSet, MapThenFoldSet, Member
  <2> HIDE DEF H, M
  <2>7. H[M] = G[M]
    BY <1>1, <2>2, <2>5, OneSum
  <2> QED
    BY <2>2, <2>6, <2>7 DEF F
<1> QED
  BY <1>4, <1>5

(* The per-group and per-AG counters are those of the entries installed,   *)
(* also after the SDK refused groups, entries and deletions: what get and  *)
(* get_max start their arithmetic from.                                    *)
THEOREM CountersExact == ASSUME OnlyRefusals PROVE Spec => []CountersMatchHardware
<1>1. ASSUME CountInv PROVE CountersMatchHardware
  <2>1. Counted(tcam, sdk) /\ sdk \in Hardware
    BY <1>1, CountFacts DEF Tables
  <2>2. \A f \in FgId : sdk[f].live => tcam.fgs[f].nof = Cardinality(HwEntries(sdk[f]))
    BY <2>1 DEF Counted, FgCounted
  <2>3. ASSUME NEW a \in AllocGroup
        PROVE  /\ tcam.entries[a] = SumOver(a, LAMBDA f : Cardinality(HwEntries(sdk[f])))
               /\ tcam.keys[a] = SumOver(a, LAMBDA f : KeyOf(sdk[f].shape)
                                                        * Cardinality(HwEntries(sdk[f])))
    <3> DEFINE E == [f \in FgId |-> Cardinality(HwEntries(sdk[f]))]
               K == [f \in FgId |-> KeyOf(sdk[f].shape) * Cardinality(HwEntries(sdk[f]))]
               M == Members(sdk, a)
    <3>1. tcam.entries[a] = SumOf(Charge("entries", sdk), M)
          /\ tcam.keys[a] = SumOf(Charge("keys", sdk), M)
      BY <2>1 DEF Counted, Column, Charged, Counter
    <3>2. M \in SUBSET FgId /\ IsFiniteSet(M)
      BY FS_Subset, ConstantsAssumption DEF Members
    <3>3. \A f \in FgId : Charge("entries", sdk)[f] = E[f]
      <4> SUFFICES ASSUME NEW f \in FgId
                   PROVE  1 * Cardinality(HwEntries(sdk[f])) = Cardinality(HwEntries(sdk[f]))
        BY DEF Charge, Weight
      <4>1. Cardinality(HwEntries(sdk[f])) \in Int
        BY <2>1, FS_CardinalityType DEF Counted, FgCounted
      <4> QED
        BY <4>1
    <3>4. \A f \in FgId : Charge("keys", sdk)[f] = K[f]
      BY DEF Charge, Weight
    <3>5. SumOf(Charge("entries", sdk), M) = SumOf(E, M)
      <4> HIDE DEF E, M
      <4> QED
        BY <3>2, <3>3, SumEqual
    <3>6. SumOf(Charge("keys", sdk), M) = SumOf(K, M)
      <4> HIDE DEF K, M
      <4> QED
        BY <3>2, <3>4, SumEqual
    <3>7. /\ SumOver(a, LAMBDA f : Cardinality(HwEntries(sdk[f]))) = SumOf(E, M)
          /\ SumOver(a, LAMBDA f : KeyOf(sdk[f].shape) * Cardinality(HwEntries(sdk[f])))
               = SumOf(K, M)
      BY ChargedIsSum
    <3> HIDE DEF E, K, M
    <3> QED
      BY <3>1, <3>5, <3>6, <3>7
  <2> QED
    BY <2>2, <2>3 DEF CountersMatchHardware
<1> QED
  BY <1>1, AlwaysCounted, PTL
=============================================================================
