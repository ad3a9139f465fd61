--------------------------- MODULE PmfTcamProofs ---------------------------
(***************************************************************************)
(* Theorems about the TCAM ledger, for every set of banks, groups, rows    *)
(* and every capacity of the banks.                                        *)
(*                                                                         *)
(* Part 1 holds whatever the SDK answers and whatever the callers do: the  *)
(* ledger is well typed and its banks, references and totals agree with    *)
(* each other.  Part 2 assumes that the ledger is told of every change and *)
(* that the SDK keeps allocation groups apart, and proves that no bank is  *)
(* ever refused, so that the ledger is exact.  Part 3 is about the rows of *)
(* the tuple tables that own the groups, on no premise.  Part 4 shows, under the premises *)
(* of part 2, that the ledger implements the ownership of banks.           *)
(***************************************************************************)
EXTENDS PmfTcam, FiniteSetTheorems, TLAPS

(***************************************************************************)
(* Part 1: the ledger agrees with itself.                                  *)
(***************************************************************************)
LedgerOK(L) ==
  /\ L \in Ledger
  /\ \A b \in Bank : L.banks[b].ag = Free <=> L.banks[b].refcnt = 0
  /\ \A a \in AllocGroup \cup {Free} :
       L.total[a] = KeysIn[{b \in Bank : L.banks[b].ag = a}]

(* A group's key is the size its row declares.                             *)
LEMMA DeclaredKey == \A s \in Shape : KeyOf(s) = FgTable[s[1]].key
<1>1. ASSUME NEW s \in Shape PROVE KeyOf(s) = FgTable[s[1]].key
  <2>1. s[1] \in DOMAIN FgTable
    BY DEF Shape
  <2>2. KeyOf(<<s[1], "INGRESS">>) = FgTable[s[1]].key
    BY <2>1, BitsAssumption
  <2>3. KeyOf(<<s[1], "INGRESS">>) = KeyOf(s)
    BY DEF KeyOf
  <2> QED
    BY <2>2, <2>3
<1> QED
  BY <1>1

(* Every group's AG is accounted for, and none of them is the free pool.   *)
LEMMA AgTypes ==
  /\ Free \notin AllocGroup
  /\ DontCare \in AllocGroup
  /\ \A t \in Tuple : AgOf(ShapeOf[t]) \in AllocGroup /\ ShapeOf[t] \in Shape
  /\ \A s \in Shape : KeyOf(s) \in {1, 2, 4}
<1>1. \A s \in Shape : KeyOf(s) \in {1, 2, 4} /\ AgOf(s)[1] # "FREE"
  BY DeclaredKey DEF Shape, FgTable, Row, AgOf
<1>2. \A a \in AllocGroup : a[1] # "FREE"
  BY <1>1, ShapeAssumption DEF AllocGroup, DontCare
<1> QED
  BY <1>1, <1>2, ShapeAssumption DEF AllocGroup, DontCare, Free

(* Banks that may leave (out) and join (in) an allocation group.           *)
MayMove(L, ag, out, in) ==
  /\ ag \in AllocGroup
  /\ out \subseteq Bank /\ in \subseteq Bank /\ out \cap in = {}
  /\ \A b \in out : CanRemove(L, b, ag)
  /\ \A b \in in : CanAdd(L, b, ag)

(* Banks change allocation group only as bank_add_to_ag and                *)
(* bank_remove_from_ag allow it, and then the account still balances.      *)
LEMMA MovedOK ==
  ASSUME NEW L, LedgerOK(L), NEW ag, NEW out, NEW in, MayMove(L, ag, out, in)
  PROVE  /\ LedgerOK(Moved(L, ag, out, in))
         /\ Moved(L, ag, out, in).fgs = L.fgs
         /\ Moved(L, ag, out, in).entries = L.entries
         /\ Moved(L, ag, out, in).keys = L.keys
         /\ \A b \in Bank : Moved(L, ag, out, in).banks[b] =
              IF b \in out THEN Removed(L.banks[b])
              ELSE IF b \in in THEN Added(L.banks[b], ag) ELSE L.banks[b]
<1> DEFINE M == Moved(L, ag, out, in)
           freed == {b \in out : L.banks[b].refcnt = 1}
           claimed == {b \in in : L.banks[b].ag # ag}
           Of(K, a) == {b \in Bank : K.banks[b].ag = a}
<1>0. /\ ag \in AllocGroup
      /\ out \in SUBSET Bank /\ in \in SUBSET Bank /\ out \cap in = {}
      /\ \A b \in out : CanRemove(L, b, ag)
      /\ \A b \in in : CanAdd(L, b, ag)
  BY DEF MayMove
<1>1. /\ L \in Ledger
      /\ M.fgs = L.fgs /\ M.entries = L.entries /\ M.keys = L.keys
      /\ M.banks = [b \in Bank |-> IF b \in out THEN Removed(L.banks[b])
                                   ELSE IF b \in in THEN Added(L.banks[b], ag)
                                   ELSE L.banks[b]]
      /\ M.total = [a \in AllocGroup \cup {Free} |->
                      IF a = Free THEN L.total[a] + (KeysIn[freed] - KeysIn[claimed])
                      ELSE IF a = ag THEN L.total[a] - (KeysIn[freed] - KeysIn[claimed])
                      ELSE L.total[a]]
      /\ M = [fgs |-> M.fgs, entries |-> M.entries, keys |-> M.keys,
              banks |-> M.banks, total |-> M.total]
  BY DEF Moved, LedgerOK, Ledger
<1>2. /\ freed \in SUBSET Bank /\ claimed \in SUBSET Bank
      /\ KeysIn[freed] \in Nat /\ KeysIn[claimed] \in Nat
  BY <1>0, SumAssumption
<1>3. ag # Free
  BY <1>0, AgTypes
<1>4. \A b \in Bank : L.banks[b].ag \in AllocGroup \cup {Free} /\ L.banks[b].refcnt \in Nat
  BY <1>0, <1>1 DEF Ledger, BankInfo
<1>6. \A b \in Bank : M.banks[b] \in BankInfo
  <2> SUFFICES ASSUME NEW b \in Bank PROVE M.banks[b] \in BankInfo
    OBVIOUS
  <2>1. CASE b \in out
    <3>1. L.banks[b].refcnt - 1 \in Nat
      BY <1>0, <2>1, <1>4 DEF CanRemove
    <3> QED
      BY <1>0, <3>1, <2>1, <1>1, <1>4 DEF Removed, BankInfo
  <2>2. CASE b \in in /\ b \notin out
    BY <1>0, <2>2, <1>1, <1>4 DEF Added, BankInfo
  <2>3. CASE b \notin in /\ b \notin out
    <3>1. M.banks[b] = L.banks[b]
      BY <1>0, <2>3, <1>1
    <3>2. L.banks[b] \in BankInfo
      BY <1>0, <1>1 DEF Ledger
    <3> QED
      BY <1>0, <3>1, <3>2
  <2> QED
    BY <1>0, <2>1, <2>2, <2>3
<1>7. M \in Ledger
  <2>1. M.total \in [AllocGroup \cup {Free} -> Int]
    <3>1. L.total \in [AllocGroup \cup {Free} -> Int]
      BY <1>0, <1>1 DEF Ledger
    <3> DEFINE x == KeysIn[freed] - KeysIn[claimed]
    <3>2. x \in Int
      BY <1>0, <1>2
    <3>3. M.total = [a \in AllocGroup \cup {Free} |->
                       IF a = Free THEN L.total[a] + x
                       ELSE IF a = ag THEN L.total[a] - x ELSE L.total[a]]
      BY <1>0, <1>1
    <3> HIDE DEF M, x
    <3> QED
      BY <1>0, <3>1, <3>2, <3>3
  <2>2. M.banks \in [Bank -> BankInfo]
    BY <1>0, <1>1, <1>6
  <2> QED
    BY <1>0, <1>1, <2>1, <2>2 DEF Ledger
<1>8. \A b \in Bank : M.banks[b].ag = Free <=> M.banks[b].refcnt = 0
  <2> SUFFICES ASSUME NEW b \in Bank
               PROVE  M.banks[b].ag = Free <=> M.banks[b].refcnt = 0
    OBVIOUS
  <2>1. CASE b \in out
    BY <1>0, <2>1, <1>1, <1>3, <1>4 DEF CanRemove, Removed
  <2>2. CASE b \in in /\ b \notin out
    BY <1>0, <2>2, <1>1, <1>3, <1>4 DEF Added
  <2>3. CASE b \notin in /\ b \notin out
    BY <1>0, <2>3, <1>1 DEF LedgerOK
  <2> QED
    BY <1>0, <2>1, <2>2, <2>3
<1>9. /\ Of(M, Free) = (Of(L, Free) \ claimed) \cup freed
      /\ Of(M, ag) = (Of(L, ag) \ freed) \cup claimed
      /\ \A a \in AllocGroup \ {ag} : Of(M, a) = Of(L, a)
      /\ claimed \subseteq Of(L, Free) /\ freed \subseteq Of(L, ag)
  <2>1. \A b \in Bank :
          M.banks[b].ag = IF b \in freed THEN Free
                          ELSE IF b \in claimed THEN ag ELSE L.banks[b].ag
    BY <1>0, <1>1, <1>3 DEF Removed, Added
  <2>2. claimed \subseteq Of(L, Free) /\ freed \subseteq Of(L, ag)
    BY <1>0 DEF CanAdd, CanRemove
  <2>3. freed \cap claimed = {}
    BY <1>0
  <2> QED
    BY <1>0, <2>1, <2>2, <2>3, <1>3, AgTypes
<1>10. \A a \in AllocGroup \cup {Free} : M.total[a] = KeysIn[Of(M, a)]
  <2> DEFINE F == Of(L, Free) \ claimed
             A == Of(L, ag) \ freed
  <2>1. \A a \in AllocGroup \cup {Free} : L.total[a] = KeysIn[Of(L, a)]
    BY DEF LedgerOK
  <2>2. F \in SUBSET Bank /\ A \in SUBSET Bank /\ KeysIn[F] \in Nat /\ KeysIn[A] \in Nat
    BY <1>0, SumAssumption
  <2>3. KeysIn[Of(L, Free)] = KeysIn[F] + KeysIn[claimed]
    <3>1. Of(L, Free) = F \cup claimed /\ F \cap claimed = {}
      BY <1>9, <1>3
    <3>2. KeysIn[F \cup claimed] = KeysIn[F] + KeysIn[claimed]
      <4> HIDE DEF F, claimed
      <4> QED
        BY <3>1, <1>2, <2>2, SumAssumption
    <3> QED
      BY <3>1, <3>2
  <2>4. KeysIn[Of(L, ag)] = KeysIn[A] + KeysIn[freed]
    <3>1. Of(L, ag) = A \cup freed /\ A \cap freed = {}
      BY <1>9, <1>3
    <3>2. KeysIn[A \cup freed] = KeysIn[A] + KeysIn[freed]
      <4> HIDE DEF A, freed
      <4> QED
        BY <3>1, <1>2, <2>2, SumAssumption
    <3> QED
      BY <3>1, <3>2
  <2>5. KeysIn[Of(M, Free)] = KeysIn[F] + KeysIn[freed]
    <3>1. Of(M, Free) = F \cup freed /\ F \cap freed = {}
      BY <1>9, <1>3
    <3>2. KeysIn[F \cup freed] = KeysIn[F] + KeysIn[freed]
      <4> HIDE DEF F, freed
      <4> QED
        BY <3>1, <1>2, <2>2, SumAssumption
    <3> QED
      BY <3>1, <3>2
  <2>6. KeysIn[Of(M, ag)] = KeysIn[A] + KeysIn[claimed]
    <3>1. Of(M, ag) = A \cup claimed /\ A \cap claimed = {}
      BY <1>9, <1>3
    <3>2. KeysIn[A \cup claimed] = KeysIn[A] + KeysIn[claimed]
      <4> HIDE DEF A, claimed
      <4> QED
        BY <3>1, <1>2, <2>2, SumAssumption
    <3> QED
      BY <3>1, <3>2
  <2>7. M.total[Free] = KeysIn[Of(M, Free)]
    <3>1. M.total[Free] = L.total[Free] + (KeysIn[freed] - KeysIn[claimed])
      BY <1>0, <1>1
    <3>2. L.total[Free] = KeysIn[F] + KeysIn[claimed]
      BY <1>0, <2>1, <2>3
    <3> HIDE DEF F, freed, claimed, M, Of
    <3> QED
      BY <1>0, <3>1, <3>2, <2>2, <1>2, <2>5
  <2>8. M.total[ag] = KeysIn[Of(M, ag)]
    <3>1. M.total[ag] = L.total[ag] - (KeysIn[freed] - KeysIn[claimed])
      BY <1>0, <1>1, <1>3
    <3>2. L.total[ag] = KeysIn[A] + KeysIn[freed]
      BY <1>0, <2>1, <2>4
    <3> HIDE DEF A, freed, claimed, M, Of
    <3> QED
      BY <1>0, <3>1, <3>2, <2>2, <1>2, <2>6
  <2>9. \A a \in AllocGroup \ {ag} : M.total[a] = KeysIn[Of(M, a)]
    <3> SUFFICES ASSUME NEW a \in AllocGroup \ {ag} PROVE M.total[a] = KeysIn[Of(M, a)]
      OBVIOUS
    <3>1. a # Free /\ Of(M, a) = Of(L, a) /\ L.total[a] = KeysIn[Of(L, a)]
      BY <1>0, <1>9, <2>1, AgTypes
    <3>2. M.total[a] = L.total[a]
      BY <1>0, <1>1, <3>1
    <3> QED
      BY <1>0, <3>1, <3>2
  <2> HIDE DEF Of, M
  <2> QED
    BY <1>0, <2>7, <2>8, <2>9
<1> QED
  BY <1>0, <1>1, <1>7, <1>8, <1>10 DEF LedgerOK

(* Up to the first refused bank, an update moves banks that may move.      *)
LEMMA MergedOK ==
  ASSUME NEW L, LedgerOK(L), NEW f \in FgId, NEW now \in SUBSET Bank
  PROVE  /\ LedgerOK(Merged(L, f, now))
         /\ Merged(L, f, now).fgs = L.fgs
         /\ Merged(L, f, now).entries = L.entries
         /\ Merged(L, f, now).keys = L.keys
         /\ Refused(L, f, now) = {} =>
              \A b \in Bank : Merged(L, f, now).banks[b] =
                IF b \in L.fgs[f].banks \ now THEN Removed(L.banks[b])
                ELSE IF b \in now \ L.fgs[f].banks THEN Added(L.banks[b], L.fgs[f].ag)
                ELSE L.banks[b]
<1> DEFINE ag == L.fgs[f].ag
           done == {b \in Differing(L, f, now) : \A r \in Refused(L, f, now) : b < r}
<1>1. L.fgs[f].banks \in SUBSET Bank /\ ag \in AllocGroup
  BY DEF LedgerOK, Ledger, FgInfo
<1>2. Differing(L, f, now) = (L.fgs[f].banks \ now) \cup (now \ L.fgs[f].banks)
  BY DEF Differing, SymDiff
<1>3. /\ done \ now \in SUBSET Bank /\ done \cap now \in SUBSET Bank
      /\ (done \ now) \cap (done \cap now) = {}
  BY <1>1, <1>2
<1>4. \A b \in done : b \notin Refused(L, f, now)
  <2>1. \A b \in done : b \in Nat
    BY <1>3, ConstantsAssumption
  <2>2. \A b \in Nat : ~(b < b)
    OBVIOUS
  <2> QED
    BY <2>1, <2>2
<1>5. /\ \A b \in done \ now : CanRemove(L, b, ag)
      /\ \A b \in done \cap now : CanAdd(L, b, ag)
  BY <1>4 DEF Refused
<1>6. Refused(L, f, now) = {} => done = Differing(L, f, now)
  OBVIOUS
<1>7. Merged(L, f, now) = Moved(L, ag, done \ now, done \cap now)
  BY DEF Merged
<1> DEFINE M == Moved(L, ag, done \ now, done \cap now)
<1>8. /\ LedgerOK(M) /\ M.fgs = L.fgs /\ M.entries = L.entries /\ M.keys = L.keys
      /\ \A b \in Bank : M.banks[b] =
           IF b \in done \ now THEN Removed(L.banks[b])
           ELSE IF b \in done \cap now THEN Added(L.banks[b], ag) ELSE L.banks[b]
  <2> DEFINE out == done \ now
             in == done \cap now
  <2>1. MayMove(L, ag, out, in)
    BY <1>1, <1>3, <1>5 DEF MayMove
  <2>2. /\ LedgerOK(Moved(L, ag, out, in)) /\ Moved(L, ag, out, in).fgs = L.fgs
        /\ Moved(L, ag, out, in).entries = L.entries
        /\ Moved(L, ag, out, in).keys = L.keys
        /\ \A b \in Bank : Moved(L, ag, out, in).banks[b] =
             IF b \in out THEN Removed(L.banks[b])
             ELSE IF b \in in THEN Added(L.banks[b], ag) ELSE L.banks[b]
    <3> HIDE DEF out, in, ag
    <3> QED
      BY <2>1, MovedOK
  <2> HIDE DEF done, ag
  <2> QED
    BY <2>2
<1> HIDE DEF M
<1>9. Refused(L, f, now) = {} => /\ done \ now = L.fgs[f].banks \ now
                                 /\ done \cap now = now \ L.fgs[f].banks
  BY <1>2, <1>6
<1> HIDE DEF done, ag
<1>10. M = Merged(L, f, now)
  BY <1>7 DEF M
<1> QED
  BY <1>8, <1>9, <1>10 DEF ag

(* fg_info_update keeps the account balanced, also when it stops half-way. *)
LEMMA UpdatedOK ==
  ASSUME NEW L, LedgerOK(L), NEW f \in FgId, NEW now \in SUBSET Bank,
         NEW delta \in {-1, 1}
  PROVE  LedgerOK(Updated(L, f, delta, now))
<1> DEFINE M == Merged(L, f, now)
           B == Booked(M, f, delta, now)
           ag == M.fgs[f].ag
<1>1. LedgerOK(M)
  BY MergedOK
<1>2. M \in Ledger /\ M.fgs[f] \in FgInfo /\ ag \in AllocGroup /\ M.fgs[f].nof \in Int
  BY <1>1 DEF LedgerOK, Ledger, FgInfo
<1>3. LedgerOK(B)
  <2>1. delta * M.fgs[f].key \in Int
    BY <1>2 DEF FgInfo
  <2>2. [M.entries EXCEPT ![ag] = @ + delta] \in [AllocGroup -> Int]
    BY <1>2 DEF Ledger
  <2>3. [M.keys EXCEPT ![ag] = @ + delta * M.fgs[f].key] \in [AllocGroup -> Int]
    BY <1>2, <2>1 DEF Ledger
  <2>4. [banks |-> now, nof |-> M.fgs[f].nof + delta, ag |-> ag, key |-> M.fgs[f].key]
          \in FgInfo
    BY <1>2 DEF FgInfo
  <2>5. [M.fgs EXCEPT ![f] = [banks |-> now, nof |-> @.nof + delta,
                              ag |-> ag, key |-> @.key]] \in [FgId -> FgInfo]
    BY <1>2, <2>4 DEF Ledger
  <2>6. B \in Ledger
    BY <1>2, <2>2, <2>3, <2>5 DEF Booked, Ledger
  <2>7. B.banks = M.banks /\ B.total = M.total
    BY DEF Booked
  <2> QED
    BY <1>1, <2>6, <2>7 DEF LedgerOK
<1> QED
  BY <1>1, <1>3 DEF Updated

(* fg_info_destroy keeps it balanced, whichever banks it skips; what it    *)
(* leaves of each bank and group record.                                   *)
LEMMA DroppedOK ==
  ASSUME NEW L, LedgerOK(L), NEW f \in FgId
  PROVE  /\ LedgerOK(Dropped(L, f))
         /\ Dropped(L, f).fgs = [L.fgs EXCEPT ![f] = BlankInfo]
         /\ \A b \in Bank : Dropped(L, f).banks[b] =
              IF b \in L.fgs[f].banks /\ CanRemove(L, b, L.fgs[f].ag)
              THEN Removed(L.banks[b]) ELSE L.banks[b]
<1> DEFINE ag == L.fgs[f].ag
           out == {b \in L.fgs[f].banks : CanRemove(L, b, ag)}
           M == Moved(L, ag, out, {})
<1>1. L.fgs[f].banks \in SUBSET Bank /\ ag \in AllocGroup
  BY DEF LedgerOK, Ledger, FgInfo
<1>2. /\ LedgerOK(M) /\ M.fgs = L.fgs
      /\ \A b \in Bank : M.banks[b] =
           IF b \in out THEN Removed(L.banks[b]) ELSE L.banks[b]
  <2>1. MayMove(L, ag, out, {})
    BY <1>1 DEF MayMove
  <2>2. /\ LedgerOK(Moved(L, ag, out, {})) /\ Moved(L, ag, out, {}).fgs = L.fgs
        /\ \A b \in Bank : Moved(L, ag, out, {}).banks[b] =
             IF b \in out THEN Removed(L.banks[b])
             ELSE IF b \in {} THEN Added(L.banks[b], ag) ELSE L.banks[b]
    <3> HIDE DEF out, ag
    <3> QED
      BY <2>1, MovedOK
  <2> HIDE DEF out, ag
  <2> QED
    BY <2>2
<1>3. Dropped(L, f) = [M EXCEPT !.fgs = [@ EXCEPT ![f] = BlankInfo]]
  BY DEF Dropped
<1>4. M \in Ledger /\ BlankInfo \in FgInfo
  <2>1. M \in Ledger
    BY <1>2 DEF LedgerOK
  <2>2. BlankInfo \in FgInfo
    BY AgTypes DEF BlankInfo, FgInfo, KeyDontCare
  <2> QED
    BY <2>1, <2>2
<1> HIDE DEF M
<1>5. /\ Dropped(L, f) \in Ledger
      /\ Dropped(L, f).fgs = [M.fgs EXCEPT ![f] = BlankInfo]
      /\ Dropped(L, f).banks = M.banks /\ Dropped(L, f).total = M.total
  BY <1>3, <1>4 DEF Ledger
<1> QED
  BY <1>2, <1>5 DEF LedgerOK

(* fg_info_init keeps it balanced: the new record lists no bank.           *)
LEMMA InitialisedOK ==
  ASSUME NEW L, LedgerOK(L), NEW f \in FgId, NEW t \in Tuple,
         NEW key \in {KeyDontCare, KeyOf(ShapeOf[t])}
  PROVE  LedgerOK(Initialised(L, f, ShapeOf[t], key))
<1> DEFINE info == [banks |-> {}, nof |-> 0, ag |-> AgOf(ShapeOf[t]), key |-> key]
           K == Initialised(L, f, ShapeOf[t], key)
<1>1. info \in FgInfo
  BY AgTypes DEF FgInfo, KeyDontCare
<1>2. K = [L EXCEPT !.fgs = [@ EXCEPT ![f] = info]] /\ L \in Ledger
  BY DEF Initialised, LedgerOK
<1> HIDE DEF info, K
<1>3. K \in Ledger /\ K.banks = L.banks /\ K.total = L.total
  BY <1>1, <1>2 DEF Ledger
<1> QED
  <2>1. LedgerOK(K)
    BY <1>3 DEF LedgerOK
  <2> QED
    BY <2>1 DEF K

(***************************************************************************)
(* The hardware: what the placement and removal of an entry do to it.      *)
(***************************************************************************)
Hardware == [FgId -> Group]

(* S2 is S with entry e of f in the banks p.                               *)
IsPut(S, S2, f, e, p) ==
  /\ \A g \in FgId \ {f} : S2[g] = S[g]
  /\ S2[f] = [live |-> S[f].live, shape |-> S[f].shape,
              at |-> [S[f].at EXCEPT ![e] = p]]

(* Placing or removing an entry changes its own group only.                *)
LEMMA PutFacts ==
  ASSUME NEW S \in Hardware, NEW f \in FgId, NEW e \in Entry, NEW p \in SUBSET Bank
  PROVE  Put(S, f, e, p) \in Hardware /\ IsPut(S, Put(S, f, e, p), f, e, p)
<1> DEFINE g == [S[f] EXCEPT !.at = [S[f].at EXCEPT ![e] = p]]
<1>1. /\ S[f] \in Group
      /\ [S[f].at EXCEPT ![e] = p] \in [Entry -> SUBSET Bank]
  BY DEF Hardware, Group
<1>2. g \in Group /\ g = [live |-> S[f].live, shape |-> S[f].shape,
                          at |-> [S[f].at EXCEPT ![e] = p]]
  BY <1>1 DEF Group
<1>3. Put(S, f, e, p) = [S EXCEPT ![f] = g]
  BY DEF Put
<1> HIDE DEF g
<1>4. /\ [S EXCEPT ![f] = g] \in Hardware
      /\ [S EXCEPT ![f] = g][f] = g
      /\ \A h \in FgId \ {f} : [S EXCEPT ![f] = g][h] = S[h]
  BY <1>2 DEF Hardware
<1> QED
  BY <1>2, <1>3, <1>4 DEF IsPut

(* The SDK places entries in banks of the unit.                            *)
LEMMA PlacementsInBanks ==
  ASSUME NEW S, NEW f, NEW p \in Placements(S, f)
  PROVE  p \in SUBSET Bank
BY DEF Placements, Places

(* Groups just created or deleted are well typed and hold no bank.         *)
LEMMA GroupFacts ==
  /\ \A s \in Shape : NewGroup(s) \in Group /\ DeadGroup(s) \in Group
  /\ \A s \in Shape : HwBanks(NewGroup(s)) = {} /\ HwBanks(DeadGroup(s)) = {}
  /\ \A g \in Group : HwBanks(g) \in SUBSET Bank
BY DEF NewGroup, DeadGroup, Group, NoPlaces, HwBanks

(* However the update after an SDK call ends, the account balances.        *)
LEMMA BookResultsOK ==
  ASSUME NEW L, LedgerOK(L), NEW S \in Hardware, NEW f \in FgId,
         NEW delta \in {-1, 1}, NEW r \in BookResults(L, S, f, delta)
  PROVE  /\ LedgerOK(r.tcam) /\ r.sdk = S
         /\ r.trips \subseteq {"fg_id", "refcnt"}
<1>1. HwBanks(S[f]) \in SUBSET Bank
  BY GroupFacts DEF Hardware
<1>2. LedgerOK(Updated(L, f, delta, HwBanks(S[f])))
  BY <1>1, UpdatedOK
<1> QED
  BY <1>2 DEF BookResults, Result, UpdateTrips

(* However the removal of an entry ends, the account balances.             *)
LEMMA RemoveResultsOK ==
  ASSUME NEW L, LedgerOK(L), NEW S \in Hardware, NEW f \in FgId, NEW e \in Entry,
         NEW r \in RemoveResults(L, S, f, e)
  PROVE  /\ LedgerOK(r.tcam) /\ r.trips \subseteq {"fg_id", "refcnt"}
         /\ r.sdk = Put(S, f, e, {}) \/ r.sdk = S
         /\ r.sdk \in Hardware
<1>1. Put(S, f, e, {}) \in Hardware
  BY PutFacts
<1>2. \/ r \in BookResults(L, Put(S, f, e, {}), f, -1)
      \/ r \in BookResults(L, S, f, -1)
  BY DEF RemoveResults
<1> QED
  BY <1>1, <1>2, BookResultsOK

(***************************************************************************)
(* The invariant of part 1, kept by every action.                          *)
(***************************************************************************)
ConsistentInv == TypeOK /\ LedgerOK(tcam)

GtRow == [gid : FgId \cup {NoGroup}, presel : Entry \cup {0}]
(* What every handler leaves behind, seen from part 1.                     *)
StepOK ==
  /\ LedgerOK(tcam') /\ sdk' \in Hardware
  /\ tripped' \subseteq {"fg_id", "refcnt"}

(* An action that takes a sound result leaves a sound ledger and hardware. *)
LEMMA TakeOK ==
  ASSUME TypeOK, NEW r, Take(r), LedgerOK(r.tcam), r.sdk \in Hardware,
         r.trips \subseteq {"fg_id", "refcnt"}
  PROVE  StepOK
BY DEF Take, StepOK, TypeOK

(* The three ways the handlers write a row of a tuple table keep its type. *)
LEMMA GtUpdates ==
  ASSUME TypeOK, NEW t \in Tuple, NEW f \in FgId \cup {NoGroup}, NEW e \in Entry \cup {0}
  PROVE  /\ [gt EXCEPT ![t].gid = f] \in [Tuple -> GtRow]
         /\ [gt EXCEPT ![t].presel = e] \in [Tuple -> GtRow]
         /\ [gt EXCEPT ![t] = [gid |-> f, presel |-> e]] \in [Tuple -> GtRow]
BY DEF TypeOK, GtRow

(* Giving a new group its first entry, or failing to.                      *)
LEMMA PopulateOK ==
  ASSUME TypeOK, NEW t \in Tuple, NEW f \in FgId, NEW L, LedgerOK(L),
         NEW S \in Hardware, Populate(t, f, L, S)
  PROVE  StepOK /\ gt' \in [Tuple -> GtRow]
<1>1. CASE /\ Take(Result(L, S, {}))
           /\ gt' = [gt EXCEPT ![t].gid = f]
  <2>1. StepOK
    BY <1>1, TakeOK DEF Result
  <2>2. 0 \in Entry \cup {0}
    OBVIOUS
  <2> QED
    BY <1>1, <2>1, <2>2, GtUpdates
<1>2. ASSUME NEW e \in Entry \ HwEntries(S[f]), NEW p \in Placements(S, f),
             NEW r \in BookResults(L, Put(S, f, e, p), f, 1), Take(r),
             gt' = [gt EXCEPT ![t] = [gid |-> f, presel |-> e]]
      PROVE  StepOK /\ gt' \in [Tuple -> GtRow]
  <2>1. p \in SUBSET Bank
    BY PlacementsInBanks
  <2>2. Put(S, f, e, p) \in Hardware
    BY <2>1, PutFacts
  <2>3. LedgerOK(r.tcam) /\ r.sdk \in Hardware /\ r.trips \subseteq {"fg_id", "refcnt"}
    BY <2>2, BookResultsOK
  <2> QED
    BY <1>2, <2>3, TakeOK, GtUpdates
<1> QED
  BY <1>1, <1>2 DEF Populate

(* tcam_info_init leaves a balanced account: every bank is free.           *)
LEMMA InitConsistent == Init => ConsistentInv
<1> SUFFICES ASSUME Init PROVE ConsistentInv
  OBVIOUS
<1>1. tcam = InitLedger /\ sdk = [f \in FgId |-> DeadGroup(NoShape)]
  BY DEF Init
<1>2. NoShape \in Shape
  <2>1. <<"IPV4", "INGRESS">> \in Shape
    BY DEF Shape, FgTable, Row
  <2> QED
    BY <2>1 DEF NoShape
<1>3. sdk \in [FgId -> Group]
  BY <1>1, <1>2, GroupFacts
<1>4. KeysIn[Bank] \in Int
  BY SumAssumption
<1>5. /\ InitLedger.fgs \in [FgId -> FgInfo]
      /\ InitLedger.banks \in [Bank -> BankInfo]
      /\ InitLedger.entries \in [AllocGroup -> Int]
      /\ InitLedger.keys \in [AllocGroup -> Int]
      /\ InitLedger.total \in [AllocGroup \cup {Free} -> Int]
  BY <1>4, AgTypes DEF InitLedger, BlankInfo, FgInfo, BankInfo, KeyDontCare
<1>6. InitLedger \in Ledger
  BY <1>5 DEF InitLedger, Ledger
<1>7. \A b \in Bank : InitLedger.banks[b] = [ag |-> Free, refcnt |-> 0]
  BY DEF InitLedger
<1>8. ASSUME NEW a \in AllocGroup \cup {Free}
      PROVE  InitLedger.total[a] = KeysIn[{b \in Bank : InitLedger.banks[b].ag = a}]
  <2>1. CASE a = Free
    <3>1. {b \in Bank : InitLedger.banks[b].ag = a} = Bank
      BY <1>7, <2>1
    <3> QED
      BY <2>1, <3>1 DEF InitLedger
  <2>2. CASE a # Free
    <3>1. {b \in Bank : InitLedger.banks[b].ag = a} = {}
      BY <1>7, <2>2
    <3> QED
      BY <2>2, <3>1, SumAssumption DEF InitLedger
  <2> QED
    BY <2>1, <2>2
<1>9. LedgerOK(tcam)
  BY <1>1, <1>6, <1>7, <1>8 DEF LedgerOK
<1> QED
  BY <1>1, <1>3, <1>6, <1>9 DEF Init, ConsistentInv, TypeOK

(* Setting a row keeps the ledger consistent, wherever fg_create stops.    *)
LEMMA FgSetConsistent ==
  ASSUME ConsistentInv, NEW t \in Tuple, FgSet(t)
  PROVE  ConsistentInv'
<1>1. /\ TypeOK /\ LedgerOK(tcam) /\ sdk \in Hardware
      /\ ids' \in [Tuple -> SUBSET Entry] /\ sweep' = sweep
  BY DEF ConsistentInv, TypeOK, Hardware, FgSet
<1>2. StepOK /\ gt' \in [Tuple -> GtRow]
  <2>1. CASE gt' = [gt EXCEPT ![t].gid = NoGroup] /\ UNCHANGED <<tcam, sdk, tripped>>
    BY <1>1, <2>1, GtUpdates DEF StepOK, TypeOK
  <2>2. ASSUME NEW f \in FgId, NEW new, new = [sdk EXCEPT ![f] = NewGroup(ShapeOf[t])],
               \/ /\ Take(Result(tcam, new, {}))
                  /\ gt' = [gt EXCEPT ![t].gid = f]
               \/ /\ Take(Result(Initialised(tcam, f, ShapeOf[t], KeyDontCare), new, {}))
                  /\ gt' = [gt EXCEPT ![t].gid = f]
               \/ LET L == Initialised(tcam, f, ShapeOf[t], KeyOf(ShapeOf[t]))
                  IN  IF t \in SweptRows
                      THEN Take(Result(L, new, {})) /\ gt' = [gt EXCEPT ![t].gid = f]
                      ELSE Populate(t, f, L, new)
        PROVE  StepOK /\ gt' \in [Tuple -> GtRow]
    <3> DEFINE L0 == Initialised(tcam, f, ShapeOf[t], KeyDontCare)
               L1 == Initialised(tcam, f, ShapeOf[t], KeyOf(ShapeOf[t]))
    <3>1. new \in Hardware
      BY <1>1, <2>2, GroupFacts, AgTypes DEF Hardware
    <3>2. LedgerOK(L0) /\ LedgerOK(L1)
      BY <1>1, InitialisedOK
    <3>3. [gt EXCEPT ![t].gid = f] \in [Tuple -> GtRow]
      <4>1. 0 \in Entry \cup {0}
        OBVIOUS
      <4> QED
        BY <1>1, <4>1, GtUpdates
    <3> HIDE DEF L0, L1
    <3>4. CASE Take(Result(tcam, new, {})) /\ gt' = [gt EXCEPT ![t].gid = f]
      BY <1>1, <3>1, <3>3, <3>4, TakeOK DEF Result
    <3>5. CASE Take(Result(L0, new, {})) /\ gt' = [gt EXCEPT ![t].gid = f]
      BY <1>1, <3>1, <3>2, <3>3, <3>5, TakeOK DEF Result
    <3>6. CASE Take(Result(L1, new, {})) /\ gt' = [gt EXCEPT ![t].gid = f]
      BY <1>1, <3>1, <3>2, <3>3, <3>6, TakeOK DEF Result
    <3>7. CASE Populate(t, f, L1, new)
      BY <1>1, <3>1, <3>2, <3>7, PopulateOK
    <3> QED
      BY <2>2, <3>4, <3>5, <3>6, <3>7 DEF L0, L1
  <2> QED
    BY <2>1, <2>2 DEF FgSet
<1> QED
  BY <1>1, <1>2 DEF ConsistentInv, TypeOK, StepOK, LedgerOK, Hardware, GtRow

(* Adding an entry keeps the ledger consistent.                            *)
LEMMA ScaleUpConsistent ==
  ASSUME ConsistentInv, NEW t \in Tuple, ScaleUp(t)
  PROVE  ConsistentInv'
<1> DEFINE f == gt[t].gid
<1>1. /\ TypeOK /\ LedgerOK(tcam) /\ sdk \in Hardware /\ f \in FgId
      /\ gt' = gt /\ sweep' = sweep
  BY DEF ConsistentInv, TypeOK, Hardware, ScaleUp, Alive
<1>2. PICK e \in Entry \ HwEntries(sdk[f]), p \in Placements(sdk, f) :
        \E r \in BookResults(tcam, Put(sdk, f, e, p), f, 1) :
          /\ Take(r)
          /\ ids' = IF r.tcam.fgs[f].nof = tcam.fgs[f].nof THEN ids
                    ELSE [ids EXCEPT ![t] = @ \cup {e}]
  BY DEF ScaleUp
<1>3. PICK r \in BookResults(tcam, Put(sdk, f, e, p), f, 1) :
        /\ Take(r)
        /\ ids' = ids \/ ids' = [ids EXCEPT ![t] = @ \cup {e}]
  BY <1>2
<1>4. p \in SUBSET Bank
  BY PlacementsInBanks
<1> HIDE DEF f
<1>5. Put(sdk, f, e, p) \in Hardware
  BY <1>1, <1>4, PutFacts
<1>6. LedgerOK(r.tcam) /\ r.sdk \in Hardware /\ r.trips \subseteq {"fg_id", "refcnt"}
  BY <1>1, <1>5, BookResultsOK
<1>7. StepOK
  BY <1>1, <1>3, <1>6, TakeOK
<1>8. ids' \in [Tuple -> SUBSET Entry]
  BY <1>1, <1>3 DEF TypeOK
<1> QED
  BY <1>1, <1>7, <1>8 DEF ConsistentInv, TypeOK, StepOK, LedgerOK, Hardware

(* Removing an entry, owned or not, keeps the ledger consistent.           *)
LEMMA ScaleDownConsistent ==
  ASSUME ConsistentInv, NEW t \in Tuple, NEW e \in Entry, ScaleDown(t, e)
  PROVE  ConsistentInv'
<1> DEFINE f == gt[t].gid
<1>1. /\ TypeOK /\ LedgerOK(tcam) /\ sdk \in Hardware
      /\ gt' = gt /\ sweep' = sweep /\ ids' = [ids EXCEPT ![t] = @ \ {e}]
  BY DEF ConsistentInv, TypeOK, Hardware, ScaleDown
<1>2. ASSUME tripped' = tripped \cup {"fg_id"}, UNCHANGED <<tcam, sdk>> PROVE StepOK
  BY <1>1, <1>2 DEF StepOK, TypeOK
<1>3. ASSUME f \in FgId, NEW r \in RemoveResults(tcam, sdk, f, e), Take(r) PROVE StepOK
  <2> HIDE DEF f
  <2>1. LedgerOK(r.tcam) /\ r.sdk \in Hardware /\ r.trips \subseteq {"fg_id", "refcnt"}
    BY <1>1, <1>3, RemoveResultsOK
  <2> QED
    BY <1>1, <1>3, <2>1, TakeOK
<1>4. StepOK
  BY <1>2, <1>3 DEF ScaleDown, Alive
<1>5. ids' \in [Tuple -> SUBSET Entry]
  BY <1>1 DEF TypeOK
<1> QED
  BY <1>1, <1>4, <1>5 DEF ConsistentInv, TypeOK, StepOK, LedgerOK, Hardware

(* Destroying a row keeps the ledger consistent, on its own or in the      *)
(* sweep of test_fgs_destroy.                                              *)
LEMMA DestroyRowConsistent ==
  ASSUME ConsistentInv, NEW t \in Tuple, DestroyRow(t), sweep' \subseteq sweep
  PROVE  ConsistentInv'
<1> DEFINE f == gt[t].gid
           after == IF gt[t].presel = 0 THEN {Result(tcam, sdk, {})}
                    ELSE RemoveResults(tcam, sdk, f, gt[t].presel)
<1>1. /\ TypeOK /\ LedgerOK(tcam) /\ sdk \in Hardware
      /\ f \in FgId \cup {NoGroup} /\ gt[t].presel \in Entry \cup {0}
  BY DEF ConsistentInv, TypeOK, Hardware
<1>2. CASE /\ tripped' = tripped \cup (IF gt[t].presel # 0 THEN {"fg_id"} ELSE {})
           /\ gt' = [gt EXCEPT ![t].presel = 0]
           /\ UNCHANGED <<tcam, ids, sdk>>
  <2>1. gt' \in [Tuple -> GtRow]
    BY <1>1, <1>2 DEF TypeOK, GtRow
  <2>2. /\ tripped' \subseteq {"fg_id", "refcnt"} /\ sweep' \subseteq Tuple
        /\ tcam' = tcam /\ ids' = ids /\ sdk' = sdk
    BY <1>1, <1>2 DEF TypeOK
  <2>3. LedgerOK(tcam')
    BY <1>1, <2>2
  <2>4. TypeOK'
    BY <1>1, <2>1, <2>2 DEF TypeOK, GtRow
  <2> QED
    BY <2>3, <2>4 DEF ConsistentInv
<1>3. ASSUME f \in FgId, NEW r \in after,
             \/ /\ Take(r)
                /\ gt' = [gt EXCEPT ![t].presel = 0]
                /\ ids' = ids
             \/ /\ Take(Result(Dropped(r.tcam, f),
                               [r.sdk EXCEPT ![f] = DeadGroup(@.shape)],
                               r.trips \cup DropTrips(r.tcam, f)))
                /\ gt' = [gt EXCEPT ![t] = Vacated(@)]
                /\ ids' = [ids EXCEPT ![t] = {}]
      PROVE  ConsistentInv'
  <2>1. LedgerOK(r.tcam) /\ r.sdk \in Hardware /\ r.trips \subseteq {"fg_id", "refcnt"}
    <3>1. CASE gt[t].presel = 0
      BY <1>1, <1>3, <3>1 DEF Result
    <3>2. CASE gt[t].presel # 0
      <4>1. gt[t].presel \in Entry
        BY <1>1, <3>2
      <4> QED
        BY <1>1, <1>3, <3>2, <4>1, RemoveResultsOK
    <3> QED
      BY <3>1, <3>2
  <2> DEFINE gone == [r.sdk EXCEPT ![f] = DeadGroup(@.shape)]
  <2>2. LedgerOK(Dropped(r.tcam, f)) /\ DropTrips(r.tcam, f) \subseteq {"fg_id", "refcnt"}
    BY <1>3, <2>1, DroppedOK DEF DropTrips
  <2>3. gone \in Hardware
    <3>1. r.sdk[f].shape \in Shape
      BY <1>3, <2>1 DEF Hardware, Group
    <3> QED
      BY <1>3, <2>1, <3>1, GroupFacts DEF Hardware
  <2>4. StepOK
    <3>1. CASE Take(r)
      BY <1>1, <2>1, <3>1, TakeOK
    <3>2. CASE Take(Result(Dropped(r.tcam, f), gone, r.trips \cup DropTrips(r.tcam, f)))
      <4> HIDE DEF gone, f
      <4> QED
        BY <1>1, <2>1, <2>2, <2>3, <3>2, TakeOK DEF Result
    <3> QED
      BY <1>3, <3>1, <3>2
  <2>5. gt' \in [Tuple -> GtRow] /\ ids' \in [Tuple -> SUBSET Entry]
    BY <1>1, <1>3 DEF TypeOK, GtRow, Vacated
  <2>6. sweep' \subseteq Tuple
    BY <1>1 DEF TypeOK
  <2> QED
    BY <2>4, <2>5, <2>6 DEF ConsistentInv, TypeOK, StepOK, LedgerOK, Hardware, GtRow
<1>4. \/ /\ tripped' = tripped \cup (IF gt[t].presel # 0 THEN {"fg_id"} ELSE {})
         /\ gt' = [gt EXCEPT ![t].presel = 0]
         /\ UNCHANGED <<tcam, ids, sdk>>
      \/ /\ f \in FgId
         /\ \E r \in after :
             \/ /\ Take(r)
                /\ gt' = [gt EXCEPT ![t].presel = 0]
                /\ ids' = ids
             \/ /\ Take(Result(Dropped(r.tcam, f),
                               [r.sdk EXCEPT ![f] = DeadGroup(@.shape)],
                               r.trips \cup DropTrips(r.tcam, f)))
                /\ gt' = [gt EXCEPT ![t] = Vacated(@)]
                /\ ids' = [ids EXCEPT ![t] = {}]
  <2> USE DEF DestroyRow, Alive
  <2>1. CASE /\ ~Alive(sdk, f)
             /\ tripped' = tripped \cup (IF gt[t].presel # 0 THEN {"fg_id"} ELSE {})
             /\ gt' = [gt EXCEPT ![t].presel = 0]
             /\ UNCHANGED <<tcam, ids, sdk>>
    BY <2>1
  <2>2. CASE /\ Alive(sdk, f)
             /\ \E r \in after :
                  \/ /\ HwEntries(r.sdk[f]) # {} \/ "group_delete" \in Sdk
                     /\ Take(r)
                     /\ gt' = [gt EXCEPT ![t].presel = 0]
                     /\ UNCHANGED ids
                  \/ /\ HwEntries(r.sdk[f]) = {} \/ "drops_entries" \in Sdk
                     /\ Take(Result(Dropped(r.tcam, f),
                                    [r.sdk EXCEPT ![f] = DeadGroup(@.shape)],
                                    r.trips \cup DropTrips(r.tcam, f)))
                     /\ gt' = [gt EXCEPT ![t] = Vacated(@)]
                     /\ ids' = [ids EXCEPT ![t] = {}]
    <3> HIDE DEF after
    <3> QED
      BY <2>2
  <2> QED
    BY <2>1, <2>2
<1> QED
  BY <1>2, <1>3, <1>4

(* The invariant of part 1 is inductive.                                   *)
LEMMA NextConsistent == ConsistentInv /\ [Next]_vars => ConsistentInv'
<1> SUFFICES ASSUME ConsistentInv, [Next]_vars PROVE ConsistentInv'
  OBVIOUS
<1>1. TypeOK /\ LedgerOK(tcam) /\ sdk \in Hardware
  BY DEF ConsistentInv, TypeOK, Hardware
<1>2. ASSUME NEW t \in Tuple, FgSet(t) PROVE ConsistentInv'
  BY <1>2, FgSetConsistent
<1>3. ASSUME NEW t \in Tuple, ScaleUp(t) PROVE ConsistentInv'
  BY <1>3, ScaleUpConsistent
<1>4. ASSUME NEW t \in Tuple, NEW e \in Entry, ScaleDown(t, e) PROVE ConsistentInv'
  BY <1>4, ScaleDownConsistent
<1>5. ASSUME NEW t \in Tuple, DestroyTuple(t) PROVE ConsistentInv'
  BY <1>5, DestroyRowConsistent DEF DestroyTuple
<1>6. ASSUME NEW t \in Tuple, SweepTuple(t) PROVE ConsistentInv'
  BY <1>6, DestroyRowConsistent DEF SweepTuple
<1>7. CASE EntryDeleteAll
  <2>1. sdk' \in Hardware
    BY <1>1, <1>7 DEF EntryDeleteAll, NoPlaces, Hardware, Group
  <2>2. sweep' \subseteq Tuple
    BY <1>7, ConstantsAssumption DEF EntryDeleteAll
  <2> QED
    BY <1>1, <1>7, <2>1, <2>2
    DEF EntryDeleteAll, ConsistentInv, TypeOK, LedgerOK, Hardware
<1>8. ASSUME NEW f \in FgId, UncountedAdd(f) PROVE ConsistentInv'
  <2>1. PICK e \in Entry \ HwEntries(sdk[f]), p \in Placements(sdk, f) :
          sdk' = Put(sdk, f, e, p)
    BY <1>8 DEF UncountedAdd
  <2>2. sdk' \in Hardware
    BY <1>1, <2>1, PlacementsInBanks, PutFacts
  <2> QED
    BY <1>1, <1>8, <2>2 DEF UncountedAdd, ConsistentInv, TypeOK, LedgerOK, Hardware
<1>9. ASSUME NEW f \in FgId, NEW e \in Entry, UncountedRemove(f, e) PROVE ConsistentInv'
  <2>1. sdk' \in Hardware
    BY <1>1, <1>9, PutFacts DEF UncountedRemove
  <2> QED
    BY <1>1, <1>9, <2>1 DEF UncountedRemove, ConsistentInv, TypeOK, LedgerOK, Hardware
<1>10. CASE UNCHANGED vars
  BY <1>10 DEF vars, ConsistentInv, TypeOK, LedgerOK
<1> QED
  BY <1>2, <1>3, <1>4, <1>5, <1>6, <1>7, <1>8, <1>9, <1>10 DEF Next

(* The ledger agrees with itself in every reachable state: the             *)
(* strengthening that the theorems of part 1 follow from.                  *)
THEOREM Consistent == Spec => []ConsistentInv
<1> QED
  BY InitConsistent, NextConsistent, PTL DEF Spec

(* The ledger, the tuple tables and the hardware keep their types, for all *)
(* SDK answers and all callers: no update is lost to a bad index or AG.    *)
THEOREM TypeCorrect == Spec => []TypeOK
<1>1. ConsistentInv => TypeOK
  BY DEF ConsistentInv
<1> QED
  BY <1>1, Consistent, PTL

(* A bank is free exactly when no group references it, however a merge is  *)
(* cut short by a refused bank (bank_add_to_ag, bank_remove_from_ag).      *)
THEOREM FreeBanksUnreferenced == Spec => []FreeIffUnreferenced
<1>1. ConsistentInv => FreeIffUnreferenced
  BY DEF ConsistentInv, LedgerOK, FreeIffUnreferenced
<1> QED
  BY <1>1, Consistent, PTL

(* total_keys_per_alloc_group stays the capacity of the banks of each AG   *)
(* and of the free pool, for banks of any sizes.                           *)
THEOREM TotalsCorrect == Spec => []TotalsMatchBanks
<1>1. ConsistentInv => TotalsMatchBanks
  BY DEF ConsistentInv, LedgerOK, TotalsMatchBanks
<1> QED
  BY <1>1, Consistent, PTL

(***************************************************************************)
(* Part 2: a ledger that is told of every change is exact.                 *)
(*                                                                         *)
(* Callers touch entries only through set, scale up, scale down and clear  *)
(* (they may repeat a set and give back ids they do not own), the SDK      *)
(* answers bcm_field_group_info_get and keeps AGs in banks of their own.   *)
(***************************************************************************)
Told == /\ "info_get" \notin Sdk /\ "shares_banks" \notin Sdk
        /\ "delete_all" \notin Caller /\ "uncounted" \notin Caller

RefsExact(L) ==
  \A b \in Bank :
    /\ L.banks[b].refcnt = Cardinality(Trackers(L, b))
    /\ \A f \in Trackers(L, b) : L.banks[b].ag = L.fgs[f].ag

(* Finitely many groups list a bank.                                       *)
LEMMA TrackersFinite ==
  ASSUME NEW L, NEW b
  PROVE  IsFiniteSet(Trackers(L, b)) /\ Cardinality(Trackers(L, b)) \in Nat
<1>1. Trackers(L, b) \in SUBSET FgId
  BY DEF Trackers
<1>2. IsFiniteSet(Trackers(L, b))
  BY <1>1, FS_Subset, ConstantsAssumption
<1> QED
  BY <1>2, FS_CardinalityType

(* K is L after group f exchanged its bank list for now.                   *)
Retracked(L, K, f, now) ==
  /\ \A g \in FgId \ {f} : K.fgs[g] = L.fgs[g]
  /\ K.fgs[f].banks = now
  /\ now # {} => K.fgs[f].ag = L.fgs[f].ag
  /\ \A b \in now \ L.fgs[f].banks : CanAdd(L, b, L.fgs[f].ag)
  /\ \A b \in Bank :
       K.banks[b] = IF b \in L.fgs[f].banks \ now THEN Removed(L.banks[b])
                    ELSE IF b \in now \ L.fgs[f].banks THEN Added(L.banks[b], L.fgs[f].ag)
                    ELSE L.banks[b]

(* Exchanging one bank list for another keeps the references exact.        *)
LEMMA RetrackedExact ==
  ASSUME NEW L, LedgerOK(L), RefsExact(L), NEW K, NEW f \in FgId, NEW now,
         Retracked(L, K, f, now)
  PROVE  RefsExact(K)
<1> SUFFICES ASSUME NEW b \in Bank
             PROVE  /\ K.banks[b].refcnt = Cardinality(Trackers(K, b))
                    /\ \A g \in Trackers(K, b) : K.banks[b].ag = K.fgs[g].ag
  BY DEF RefsExact
<1> DEFINE T == Trackers(L, b)
           old == L.fgs[f].banks
<1>1. /\ IsFiniteSet(T) /\ Cardinality(T) \in Nat
      /\ L.banks[b].refcnt = Cardinality(T)
      /\ \A g \in T : L.banks[b].ag = L.fgs[g].ag
  BY TrackersFinite DEF RefsExact
<1>2. L.banks[b].ag = Free <=> Cardinality(T) = 0
  BY <1>1 DEF LedgerOK
<1>3. T = {g \in FgId : b \in L.fgs[g].banks}
  BY DEF Trackers
<1>4. Trackers(K, b) = IF b \in now THEN T \cup {f} ELSE T \ {f}
  BY <1>3 DEF Trackers, Retracked
<1>5. \A g \in T \ {f} : L.banks[b].ag = K.fgs[g].ag
  BY <1>1, <1>3 DEF Retracked
<1>6. f \in T <=> b \in old
  BY <1>3
<1> HIDE DEF T
<1>7. CASE b \in old \ now
  <2>1. K.banks[b] = Removed(L.banks[b])
    BY <1>7 DEF Retracked
  <2>2. Trackers(K, b) = T \ {f}
    BY <1>4, <1>7
  <2>3. Cardinality(T \ {f}) = Cardinality(T) - 1 /\ IsFiniteSet(T \ {f})
    BY <1>1, <1>6, <1>7, FS_RemoveElement
  <2>4. Cardinality(T) = 1 => T \ {f} = {}
    BY <2>3, FS_EmptySet
  <2> QED
    BY <1>1, <1>5, <2>1, <2>2, <2>3, <2>4 DEF Removed
<1>8. CASE b \in now \ old
  <2>1. K.banks[b] = Added(L.banks[b], L.fgs[f].ag) /\ CanAdd(L, b, L.fgs[f].ag)
    BY <1>8 DEF Retracked
  <2>2. Trackers(K, b) = T \cup {f}
    BY <1>4, <1>8
  <2>3. Cardinality(T \cup {f}) = Cardinality(T) + 1
    BY <1>1, <1>6, <1>8, FS_AddElement
  <2>4. K.fgs[f].ag = L.fgs[f].ag
    BY <1>8 DEF Retracked
  <2>5. \A g \in T : K.fgs[g].ag = L.fgs[f].ag
    <3>1. L.banks[b].ag = Free => T = {}
      BY <1>1, <1>2, FS_EmptySet
    <3> QED
      BY <1>5, <2>1, <2>4, <3>1 DEF CanAdd
  <2> QED
    BY <1>1, <2>1, <2>2, <2>3, <2>4, <2>5 DEF Added
<1>9. CASE b \notin old \ now /\ b \notin now \ old
  <2>1. K.banks[b] = L.banks[b]
    BY <1>9 DEF Retracked
  <2>2. Trackers(K, b) = T
    BY <1>4, <1>6, <1>9
  <2>3. f \in T => K.fgs[f].ag = L.fgs[f].ag
    BY <1>6, <1>9 DEF Retracked
  <2> QED
    BY <1>1, <1>5, <2>1, <2>2, <2>3
<1> QED
  BY <1>7, <1>8, <1>9

(* Groups that share a bank are of one AG.                                 *)
Apart(S) ==
  \A f, g \in FgId : HwBanks(S[f]) \cap HwBanks(S[g]) # {}
                       => AgOf(S[f].shape) = AgOf(S[g].shape)

(* The ledger's row of f and the group f itself.                           *)
InStep(L, S, f) ==
  /\ L.fgs[f].key # KeyDontCare => /\ S[f].live
                                   /\ L.fgs[f].banks = HwBanks(S[f])
                                   /\ L.fgs[f].ag = AgOf(S[f].shape)
  /\ L.fgs[f].key = KeyDontCare => L.fgs[f].banks = {}
  /\ ~S[f].live => HwBanks(S[f]) = {}

Exact(L, S) ==
  /\ LedgerOK(L) /\ RefsExact(L) /\ S \in Hardware /\ Apart(S)
  /\ \A f \in FgId : InStep(L, S, f)

(* Entries of the live group f came or went: S became S2.                  *)
EntriesMoved(S, S2, f) ==
  /\ S2 \in Hardware /\ Apart(S2)
  /\ \A g \in FgId \ {f} : S2[g] = S[g]
  /\ S[f].live /\ S2[f].live /\ S2[f].shape = S[f].shape

(* A placement the SDK may choose keeps allocation groups apart.           *)
LEMMA PutMoves ==
  ASSUME NEW S \in Hardware, Apart(S), NEW f \in FgId, S[f].live, NEW e \in Entry,
         NEW p \in SUBSET Bank, Compatible(S, f, p)
  PROVE  EntriesMoved(S, Put(S, f, e, p), f)
<1> DEFINE S2 == Put(S, f, e, p)
<1>1. /\ S2 \in Hardware /\ \A g \in FgId \ {f} : S2[g] = S[g]
      /\ S2[f].live /\ S2[f].shape = S[f].shape
      /\ S2[f].at = [S[f].at EXCEPT ![e] = p]
  <2>1. /\ S2 \in Hardware /\ \A g \in FgId \ {f} : S2[g] = S[g]
        /\ S2[f] = [live |-> S[f].live, shape |-> S[f].shape,
                    at |-> [S[f].at EXCEPT ![e] = p]]
    <3>1. p \in SUBSET Bank
      OBVIOUS
    <3>2. S2 \in Hardware /\ IsPut(S, S2, f, e, p)
      BY <3>1, PutFacts
    <3> HIDE DEF S2
    <3> QED
      BY <3>2 DEF IsPut
  <2> HIDE DEF S2
  <2> QED
    BY <2>1
<1>2. S[f].at \in [Entry -> SUBSET Bank]
  BY DEF Hardware, Group
<1>3. HwBanks(S2[f]) \subseteq HwBanks(S[f]) \cup p
  BY <1>1, <1>2 DEF HwBanks
<1>4. ASSUME NEW g \in FgId \ {f}, HwBanks(S2[f]) \cap HwBanks(S2[g]) # {}
      PROVE  AgOf(S2[f].shape) = AgOf(S2[g].shape)
  <2>1. S2[g] = S[g] /\ S2[f].shape = S[f].shape
    BY <1>1
  <2>2. \/ HwBanks(S[g]) \cap p # {}
        \/ HwBanks(S[f]) \cap HwBanks(S[g]) # {}
    BY <1>3, <1>4, <2>1
  <2> QED
    BY <2>1, <2>2 DEF Compatible, Apart
<1>5. ASSUME NEW g \in FgId, NEW h \in FgId, HwBanks(S2[g]) \cap HwBanks(S2[h]) # {}
      PROVE  AgOf(S2[g].shape) = AgOf(S2[h].shape)
  <2>1. CASE g = f \/ h = f
    BY <1>4, <1>5, <2>1
  <2>2. CASE g # f /\ h # f
    BY <1>1, <1>5, <2>2 DEF Apart
  <2> QED
    BY <2>1, <2>2
<1>6. Apart(S2)
  BY <1>5 DEF Apart
<1> HIDE DEF S2
<1>7. EntriesMoved(S, S2, f)
  BY <1>1, <1>6 DEF EntriesMoved
<1> QED
  BY <1>7 DEF S2

(* No bank is refused: what a group newly uses is free or of its AG, what  *)
(* it no longer uses it was counted on.                                    *)
LEMMA NothingRefused ==
  ASSUME NEW L, NEW S, Exact(L, S), NEW f \in FgId, L.fgs[f].key # KeyDontCare,
         NEW S2, EntriesMoved(S, S2, f)
  PROVE  /\ Refused(L, f, HwBanks(S2[f])) = {}
         /\ \A b \in HwBanks(S2[f]) \ L.fgs[f].banks : CanAdd(L, b, L.fgs[f].ag)
<1> DEFINE now == HwBanks(S2[f])
           ag == L.fgs[f].ag
           old == L.fgs[f].banks
<1>1. /\ LedgerOK(L) /\ RefsExact(L) /\ Apart(S2)
      /\ now \in SUBSET Bank /\ old \in SUBSET Bank
      /\ ag = AgOf(S2[f].shape)
  <2>1. now \in SUBSET Bank
    BY GroupFacts DEF EntriesMoved, Hardware
  <2>2. old \in SUBSET Bank
    BY DEF Exact, LedgerOK, Ledger, FgInfo
  <2>3. InStep(L, S, f)
    BY DEF Exact
  <2> QED
    BY <2>1, <2>2, <2>3 DEF Exact, InStep, EntriesMoved
<1>2. ASSUME NEW b \in now \ old PROVE CanAdd(L, b, ag)
  <2>1. CASE L.banks[b].ag # Free
    <3>1. L.banks[b].refcnt # 0
      BY <1>1, <1>2, <2>1 DEF LedgerOK
    <3>2. PICK g \in FgId : b \in L.fgs[g].banks
      <4>1. Trackers(L, b) # {}
        BY <1>1, <1>2, <3>1, FS_EmptySet DEF RefsExact
      <4> QED
        BY <4>1 DEF Trackers
    <3>3. g # f /\ L.banks[b].ag = L.fgs[g].ag
      BY <1>1, <1>2, <3>2 DEF RefsExact, Trackers
    <3>4. InStep(L, S, g)
      BY DEF Exact
    <3>5. b \in HwBanks(S2[g]) /\ L.fgs[g].ag = AgOf(S2[g].shape)
      BY <3>2, <3>3, <3>4 DEF InStep, EntriesMoved
    <3>6. AgOf(S2[g].shape) = AgOf(S2[f].shape)
      BY <1>1, <1>2, <3>5 DEF Apart
    <3> QED
      BY <1>1, <3>3, <3>5, <3>6 DEF CanAdd
  <2>2. CASE L.banks[b].ag = Free
    BY <2>2 DEF CanAdd
  <2> QED
    BY <2>1, <2>2
<1>3. ASSUME NEW b \in old PROVE CanRemove(L, b, ag)
  <2>1. f \in Trackers(L, b)
    BY <1>3 DEF Trackers
  <2>2. /\ L.banks[b].refcnt = Cardinality(Trackers(L, b))
        /\ L.banks[b].ag = ag
    BY <1>1, <1>3, <2>1 DEF RefsExact
  <2>3. Cardinality(Trackers(L, b)) \in Nat /\ Cardinality(Trackers(L, b)) # 0
    BY <2>1, TrackersFinite, FS_EmptySet
  <2> QED
    BY <2>2, <2>3 DEF CanRemove
<1> QED
  BY <1>2, <1>3 DEF Refused, Differing, SymDiff

(* fg_info_update, told where the entries now are, refuses no bank and     *)
(* leaves an exact ledger.                                                 *)
LEMMA UpdateExact ==
  ASSUME NEW L, NEW S, Exact(L, S), NEW f \in FgId, NEW S2, EntriesMoved(S, S2, f),
         NEW delta \in {-1, 1}
  PROVE  /\ Exact(Updated(L, f, delta, HwBanks(S2[f])), S2)
         /\ UpdateTrips(L, f, HwBanks(S2[f])) = {}
<1> DEFINE now == HwBanks(S2[f])
           K == Updated(L, f, delta, now)
           M == Merged(L, f, now)
<1>1. /\ LedgerOK(L) /\ RefsExact(L) /\ InStep(L, S, f)
      /\ S2 \in Hardware /\ Apart(S2)
  BY DEF Exact, EntriesMoved
<1>2. now \in SUBSET Bank
  BY <1>1, GroupFacts DEF Hardware
<1>3. LedgerOK(K)
  BY <1>1, <1>2, UpdatedOK
<1>4. CASE L.fgs[f].key = KeyDontCare
  <2>1. K = L
    BY <1>4 DEF Updated, Succeeds, Updatable
  <2>2. \A g \in FgId : InStep(L, S2, g)
    <3> SUFFICES ASSUME NEW g \in FgId PROVE InStep(L, S2, g)
      OBVIOUS
    <3>1. InStep(L, S, g)
      BY DEF Exact
    <3>2. CASE g = f
      BY <1>4, <3>1, <3>2 DEF InStep, EntriesMoved
    <3>3. CASE g # f
      BY <3>1, <3>3 DEF InStep, EntriesMoved
    <3> QED
      BY <3>2, <3>3
  <2>3. Exact(L, S2)
    BY <1>1, <2>2 DEF Exact
  <2>4. UpdateTrips(L, f, now) = {}
    BY <1>4 DEF UpdateTrips, Updatable
  <2> HIDE DEF K
  <2>5. Exact(K, S2)
    BY <2>1, <2>3
  <2> QED
    BY <2>4, <2>5 DEF K
<1>5. CASE L.fgs[f].key # KeyDontCare
  <2>1. /\ Refused(L, f, now) = {}
        /\ \A b \in now \ L.fgs[f].banks : CanAdd(L, b, L.fgs[f].ag)
    BY <1>5, NothingRefused
  <2>2. K = Booked(M, f, delta, now)
    BY <1>5, <2>1 DEF Updated, Succeeds, Updatable
  <2>3. /\ LedgerOK(M) /\ M.fgs = L.fgs
        /\ \A b \in Bank : M.banks[b] =
             IF b \in L.fgs[f].banks \ now THEN Removed(L.banks[b])
             ELSE IF b \in now \ L.fgs[f].banks THEN Added(L.banks[b], L.fgs[f].ag)
             ELSE L.banks[b]
    BY <1>1, <1>2, <2>1, MergedOK
  <2>4. /\ L.fgs \in [FgId -> FgInfo]
        /\ K.banks = M.banks
        /\ K.fgs = [L.fgs EXCEPT ![f] = [banks |-> now, nof |-> L.fgs[f].nof + delta,
                                         ag |-> L.fgs[f].ag, key |-> L.fgs[f].key]]
    BY <1>1, <2>2, <2>3 DEF Booked, LedgerOK, Ledger
  <2>5. /\ \A g \in FgId \ {f} : K.fgs[g] = L.fgs[g]
        /\ K.fgs[f].banks = now /\ K.fgs[f].ag = L.fgs[f].ag
        /\ K.fgs[f].key = L.fgs[f].key
    BY <2>4
  <2> HIDE DEF K, M
  <2>6. Retracked(L, K, f, now)
    BY <2>1, <2>3, <2>4, <2>5 DEF Retracked
  <2>7. RefsExact(K)
    BY <1>1, <2>6, RetrackedExact
  <2>8. ASSUME NEW g \in FgId PROVE InStep(K, S2, g)
    <3>1. InStep(L, S, g)
      BY DEF Exact
    <3>2. CASE g = f
      BY <1>1, <1>5, <2>5, <3>2 DEF InStep, EntriesMoved
    <3>3. CASE g # f
      BY <2>5, <3>1, <3>3 DEF InStep, EntriesMoved
    <3> QED
      BY <3>2, <3>3
  <2>9. Exact(K, S2)
    BY <1>1, <1>3, <2>7, <2>8 DEF Exact
  <2>10. UpdateTrips(L, f, now) = {}
    BY <2>1 DEF UpdateTrips
  <2> QED
    BY <2>9, <2>10 DEF K
<1> QED
  BY <1>4, <1>5

(* fg_info_destroy of a group that the SDK deleted gives back exactly its  *)
(* banks and leaves an exact ledger.                                       *)
LEMMA DropExact ==
  ASSUME NEW L, NEW S, Exact(L, S), NEW f \in FgId
  PROVE  /\ Exact(Dropped(L, f), [S EXCEPT ![f] = DeadGroup(@.shape)])
         /\ DropTrips(L, f) = {}
<1> DEFINE K == Dropped(L, f)
           S2 == [S EXCEPT ![f] = DeadGroup(@.shape)]
<1>1. /\ LedgerOK(L) /\ RefsExact(L) /\ S \in Hardware /\ Apart(S)
      /\ L.fgs \in [FgId -> FgInfo]
  BY DEF Exact, LedgerOK, Ledger
<1>2. ASSUME NEW b \in L.fgs[f].banks PROVE CanRemove(L, b, L.fgs[f].ag) /\ b \in Bank
  <2>1. f \in Trackers(L, b) /\ b \in Bank
    BY <1>1, <1>2 DEF Trackers, FgInfo
  <2>2. /\ L.banks[b].refcnt = Cardinality(Trackers(L, b))
        /\ L.banks[b].ag = L.fgs[f].ag
    BY <1>1, <2>1 DEF RefsExact
  <2>3. Cardinality(Trackers(L, b)) \in Nat /\ Cardinality(Trackers(L, b)) # 0
    BY <2>1, TrackersFinite, FS_EmptySet
  <2> QED
    BY <2>1, <2>2, <2>3 DEF CanRemove
<1>3. /\ LedgerOK(K) /\ K.fgs = [L.fgs EXCEPT ![f] = BlankInfo]
      /\ \A b \in Bank : K.banks[b] =
           IF b \in L.fgs[f].banks /\ CanRemove(L, b, L.fgs[f].ag)
           THEN Removed(L.banks[b]) ELSE L.banks[b]
  BY <1>1, DroppedOK
<1>4. /\ \A g \in FgId \ {f} : K.fgs[g] = L.fgs[g]
      /\ K.fgs[f] = BlankInfo
  BY <1>1, <1>3
<1>5. S[f].shape \in Shape
  BY <1>1 DEF Hardware, Group
<1>6. /\ S2 \in Hardware /\ \A g \in FgId \ {f} : S2[g] = S[g]
      /\ S2[f] = DeadGroup(S[f].shape) /\ HwBanks(S2[f]) = {}
  BY <1>1, <1>5, GroupFacts DEF Hardware
<1> HIDE DEF K, S2
<1>7. Retracked(L, K, f, {})
  BY <1>2, <1>3, <1>4 DEF Retracked, BlankInfo
<1>8. RefsExact(K)
  BY <1>1, <1>7, RetrackedExact
<1>9. Apart(S2)
  BY <1>1, <1>6 DEF Apart
<1>10. ASSUME NEW g \in FgId PROVE InStep(K, S2, g)
  <2>1. InStep(L, S, g)
    BY DEF Exact
  <2>2. CASE g = f
    <3>1. K.fgs[f].key = KeyDontCare /\ K.fgs[f].banks = {}
      BY <1>4 DEF BlankInfo
    <3>2. HwBanks(S2[f]) = {}
      BY <1>6
    <3> QED
      BY <2>2, <3>1, <3>2 DEF InStep
  <2>3. CASE g # f
    BY <1>4, <1>6, <2>1, <2>3 DEF InStep
  <2> QED
    BY <2>2, <2>3
<1>11. Exact(K, S2)
  BY <1>3, <1>6, <1>8, <1>9, <1>10 DEF Exact
<1>12. DropTrips(L, f) = {}
  BY <1>2 DEF DropTrips
<1> QED
  BY <1>11, <1>12 DEF K, S2

(* A group id the SDK hands out has no banks in the ledger: giving it a    *)
(* new row, or none when the attach failed, keeps the ledger exact.        *)
LEMMA NewGroupExact ==
  ASSUME NEW L, NEW S, Exact(L, S), NEW f \in FgId, ~S[f].live, NEW t \in Tuple
  PROVE  /\ Exact(L, [S EXCEPT ![f] = NewGroup(ShapeOf[t])])
         /\ \A key \in {KeyDontCare, KeyOf(ShapeOf[t])} :
              Exact(Initialised(L, f, ShapeOf[t], key), [S EXCEPT ![f] = NewGroup(ShapeOf[t])])
<1> DEFINE S2 == [S EXCEPT ![f] = NewGroup(ShapeOf[t])]
<1>1. /\ LedgerOK(L) /\ RefsExact(L) /\ S \in Hardware /\ Apart(S) /\ InStep(L, S, f)
      /\ L.fgs \in [FgId -> FgInfo] /\ L \in Ledger
  BY DEF Exact, LedgerOK, Ledger
<1>2. L.fgs[f].banks = {} /\ L.fgs[f].key = KeyDontCare
  BY <1>1 DEF InStep
<1>3. /\ S2 \in Hardware /\ \A g \in FgId \ {f} : S2[g] = S[g]
      /\ S2[f] = NewGroup(ShapeOf[t]) /\ HwBanks(S2[f]) = {}
  BY <1>1, GroupFacts, AgTypes DEF Hardware
<1> HIDE DEF S2
<1>4. Apart(S2)
  BY <1>1, <1>3 DEF Apart
<1>5. ASSUME NEW g \in FgId \ {f} PROVE InStep(L, S2, g)
  <2>1. InStep(L, S, g)
    BY DEF Exact
  <2> QED
    BY <1>3, <2>1 DEF InStep
<1>6. InStep(L, S2, f)
  BY <1>2, <1>3 DEF InStep, NewGroup
<1>7. Exact(L, S2)
  BY <1>1, <1>3, <1>4, <1>5, <1>6 DEF Exact
<1>8. ASSUME NEW key \in {KeyDontCare, KeyOf(ShapeOf[t])}
      PROVE  Exact(Initialised(L, f, ShapeOf[t], key), S2)
  <2> DEFINE K == Initialised(L, f, ShapeOf[t], key)
  <2>1. LedgerOK(K)
    BY <1>1, InitialisedOK
  <2>2. /\ K.banks = L.banks
        /\ K.fgs = [L.fgs EXCEPT ![f] = [banks |-> {}, nof |-> 0,
                                         ag |-> AgOf(ShapeOf[t]), key |-> key]]
    BY <1>1 DEF Initialised, Ledger
  <2>3. /\ \A g \in FgId \ {f} : K.fgs[g] = L.fgs[g]
        /\ K.fgs[f] = [banks |-> {}, nof |-> 0, ag |-> AgOf(ShapeOf[t]), key |-> key]
    BY <1>1, <2>2
  <2> HIDE DEF K
  <2>4. Retracked(L, K, f, {})
    BY <1>2, <2>2, <2>3 DEF Retracked
  <2>5. RefsExact(K)
    BY <1>1, <2>4, RetrackedExact
  <2>6. InStep(K, S2, f)
    <3>1. K.fgs[f].ag = AgOf(ShapeOf[t]) /\ K.fgs[f].banks = {}
      BY <2>3
    <3>2. S2[f].live /\ S2[f].shape = ShapeOf[t]
      BY <1>3 DEF NewGroup
    <3>3. HwBanks(S2[f]) = {}
      BY <1>3
    <3> QED
      BY <3>1, <3>2, <3>3 DEF InStep
  <2>7. ASSUME NEW g \in FgId \ {f} PROVE InStep(K, S2, g)
    BY <1>5, <2>3 DEF InStep
  <2>8. Exact(K, S2)
    BY <1>3, <1>4, <2>1, <2>5, <2>6, <2>7 DEF Exact
  <2> QED
    BY <2>8 DEF K
<1> QED
  BY <1>7, <1>8 DEF S2

(***************************************************************************)
(* The invariant of part 2, kept by every action when the ledger is told.  *)
(***************************************************************************)
ExactInv == ConsistentInv /\ Exact(tcam, sdk) /\ "refcnt" \notin tripped

StepExact == Exact(tcam', sdk') /\ "refcnt" \notin tripped'

(* An entry added and booked leaves the ledger exact.                      *)
LEMMA AddExact ==
  ASSUME Told, NEW L, NEW S, Exact(L, S), NEW f \in FgId, S[f].live,
         NEW e \in Entry, NEW p \in Placements(S, f),
         NEW r \in BookResults(L, Put(S, f, e, p), f, 1)
  PROVE  Exact(r.tcam, r.sdk) /\ r.trips = {}
<1> DEFINE S2 == Put(S, f, e, p)
<1>1. S \in Hardware /\ Apart(S)
  BY DEF Exact
<1>2. p \in SUBSET Bank /\ Compatible(S, f, p)
  BY PlacementsInBanks DEF Placements, Told
<1>3. EntriesMoved(S, S2, f)
  BY <1>1, <1>2, PutMoves
<1>4. r = Result(Updated(L, f, 1, HwBanks(S2[f])), S2, UpdateTrips(L, f, HwBanks(S2[f])))
  BY DEF BookResults, Told
<1> HIDE DEF S2
<1>5. /\ Exact(Updated(L, f, 1, HwBanks(S2[f])), S2)
      /\ UpdateTrips(L, f, HwBanks(S2[f])) = {}
  BY <1>3, UpdateExact
<1> QED
  BY <1>4, <1>5 DEF Result

(* An entry removed and booked leaves the ledger exact, also when the SDK  *)
(* did not remove it.                                                      *)
LEMMA RemoveExact ==
  ASSUME Told, NEW L, NEW S, Exact(L, S), NEW f \in FgId, S[f].live,
         NEW e \in Entry, NEW r \in RemoveResults(L, S, f, e)
  PROVE  Exact(r.tcam, r.sdk) /\ r.trips = {}
<1>1. S \in Hardware /\ Apart(S)
  BY DEF Exact
<1>2. PICK S2 \in {S, Put(S, f, e, {})} : r \in BookResults(L, S2, f, -1)
  BY DEF RemoveResults
<1>3. EntriesMoved(S, S2, f)
  <2>1. CASE S2 = S
    BY <1>1, <2>1 DEF EntriesMoved
  <2>2. CASE S2 = Put(S, f, e, {})
    <3>1. {} \in SUBSET Bank /\ Compatible(S, f, {})
      BY DEF Compatible
    <3> QED
      BY <1>1, <2>2, <3>1, PutMoves
  <2> QED
    BY <1>2, <2>1, <2>2
<1>4. r = Result(Updated(L, f, -1, HwBanks(S2[f])), S2, UpdateTrips(L, f, HwBanks(S2[f])))
  BY <1>2 DEF BookResults, Told
<1>5. /\ Exact(Updated(L, f, -1, HwBanks(S2[f])), S2)
      /\ UpdateTrips(L, f, HwBanks(S2[f])) = {}
  BY <1>3, UpdateExact
<1> QED
  BY <1>4, <1>5 DEF Result

(* An action that takes an exact result leaves an exact ledger.            *)
LEMMA TakeExact ==
  ASSUME ExactInv, NEW r, Take(r), Exact(r.tcam, r.sdk), "refcnt" \notin r.trips
  PROVE  StepExact
BY DEF Take, StepExact, ExactInv

(* Setting a row keeps the ledger exact, wherever fg_create stops.         *)
LEMMA FgSetExact ==
  ASSUME Told, ExactInv, NEW t \in Tuple, FgSet(t)
  PROVE  StepExact
<1>1. CASE UNCHANGED <<tcam, sdk, tripped>>
  BY <1>1 DEF ExactInv, StepExact
<1>2. ASSUME NEW f \in FgId, ~sdk[f].live, NEW new, new = [sdk EXCEPT ![f] = NewGroup(ShapeOf[t])],
             \/ Take(Result(tcam, new, {}))
             \/ Take(Result(Initialised(tcam, f, ShapeOf[t], KeyDontCare), new, {}))
             \/ Take(Result(Initialised(tcam, f, ShapeOf[t], KeyOf(ShapeOf[t])), new, {}))
             \/ Populate(t, f, Initialised(tcam, f, ShapeOf[t], KeyOf(ShapeOf[t])), new)
      PROVE  StepExact
  <2> DEFINE L0 == Initialised(tcam, f, ShapeOf[t], KeyDontCare)
             L1 == Initialised(tcam, f, ShapeOf[t], KeyOf(ShapeOf[t]))
  <2>1. Exact(tcam, new) /\ Exact(L0, new) /\ Exact(L1, new)
    BY <1>2, NewGroupExact DEF ExactInv
  <2>2. new[f].live
    <3>1. sdk \in [FgId -> Group]
      BY DEF ExactInv, Exact, Hardware
    <3>2. new[f] = NewGroup(ShapeOf[t])
      BY <1>2, <3>1
    <3> QED
      BY <3>2 DEF NewGroup
  <2> HIDE DEF L0, L1
  <2>3. CASE Take(Result(tcam, new, {}))
    BY <2>1, <2>3, TakeExact DEF Result
  <2>4. CASE Take(Result(L0, new, {}))
    BY <2>1, <2>4, TakeExact DEF Result
  <2>5. CASE Take(Result(L1, new, {}))
    BY <2>1, <2>5, TakeExact DEF Result
  <2>6. ASSUME NEW e \in Entry \ HwEntries(new[f]), NEW p \in Placements(new, f),
               NEW r \in BookResults(L1, Put(new, f, e, p), f, 1), Take(r)
        PROVE  StepExact
    <3>1. Exact(r.tcam, r.sdk) /\ r.trips = {}
      BY <2>1, <2>2, AddExact
    <3> QED
      BY <2>6, <3>1, TakeExact
  <2>7. CASE Populate(t, f, L1, new)
    BY <2>5, <2>6, <2>7 DEF Populate
  <2> QED
    BY <1>2, <2>3, <2>4, <2>5, <2>7 DEF L0, L1
<1> QED
  BY <1>1, <1>2 DEF FgSet

(* Adding an entry keeps the ledger exact.                                 *)
LEMMA ScaleUpExact ==
  ASSUME Told, ExactInv, NEW t \in Tuple, ScaleUp(t)
  PROVE  StepExact
<1> DEFINE f == gt[t].gid
<1>1. f \in FgId /\ sdk[f].live
  BY DEF ScaleUp, Alive
<1>2. PICK e \in Entry \ HwEntries(sdk[f]), p \in Placements(sdk, f) :
        \E r \in BookResults(tcam, Put(sdk, f, e, p), f, 1) : Take(r)
  BY DEF ScaleUp
<1>3. PICK r \in BookResults(tcam, Put(sdk, f, e, p), f, 1) : Take(r)
  BY <1>2
<1> HIDE DEF f
<1>4. Exact(r.tcam, r.sdk) /\ r.trips = {}
  BY <1>1, AddExact DEF ExactInv
<1> QED
  BY <1>3, <1>4, TakeExact

(* Removing an entry, owned or not, keeps the ledger exact.                *)
LEMMA ScaleDownExact ==
  ASSUME Told, ExactInv, NEW t \in Tuple, NEW e \in Entry, ScaleDown(t, e)
  PROVE  StepExact
<1> DEFINE f == gt[t].gid
<1>1. CASE tripped' = tripped \cup {"fg_id"} /\ UNCHANGED <<tcam, sdk>>
  BY <1>1 DEF ExactInv, StepExact
<1>2. ASSUME Alive(sdk, f), NEW r \in RemoveResults(tcam, sdk, f, e), Take(r)
      PROVE  StepExact
  <2>1. f \in FgId /\ sdk[f].live
    BY <1>2 DEF Alive
  <2> HIDE DEF f
  <2>2. Exact(r.tcam, r.sdk) /\ r.trips = {}
    BY <1>2, <2>1, RemoveExact DEF ExactInv
  <2> QED
    BY <1>2, <2>2, TakeExact
<1> QED
  BY <1>1, <1>2 DEF ScaleDown

(* Destroying a row keeps the ledger exact, also when the SDK keeps the    *)
(* group.                                                                  *)
LEMMA DestroyRowExact ==
  ASSUME Told, ExactInv, NEW t \in Tuple, DestroyRow(t)
  PROVE  StepExact
<1> DEFINE f == gt[t].gid
           after == IF gt[t].presel = 0 THEN {Result(tcam, sdk, {})}
                    ELSE RemoveResults(tcam, sdk, f, gt[t].presel)
<1>1. CASE /\ tripped' = tripped \cup (IF gt[t].presel # 0 THEN {"fg_id"} ELSE {})
           /\ UNCHANGED <<tcam, sdk>>
  BY <1>1 DEF ExactInv, StepExact
<1>2. ASSUME Alive(sdk, f), NEW r \in after,
             \/ Take(r)
             \/ Take(Result(Dropped(r.tcam, f), [r.sdk EXCEPT ![f] = DeadGroup(@.shape)],
                            r.trips \cup DropTrips(r.tcam, f)))
      PROVE  StepExact
  <2>1. gt[t].presel \in Entry \cup {0}
    BY DEF ExactInv, ConsistentInv, TypeOK
  <2>2. f \in FgId /\ sdk[f].live
    BY <1>2 DEF Alive
  <2>3. Exact(r.tcam, r.sdk) /\ r.trips = {}
    <3>1. CASE gt[t].presel = 0
      BY <1>2, <3>1 DEF Result, ExactInv
    <3>2. CASE gt[t].presel # 0
      <4>1. gt[t].presel \in Entry /\ r \in RemoveResults(tcam, sdk, f, gt[t].presel)
        BY <1>2, <2>1, <3>2
      <4> HIDE DEF f, after
      <4> QED
        BY <2>2, <4>1, RemoveExact DEF ExactInv
    <3> QED
      BY <3>1, <3>2
  <2> HIDE DEF f, after
  <2>4. /\ Exact(Dropped(r.tcam, f), [r.sdk EXCEPT ![f] = DeadGroup(@.shape)])
        /\ DropTrips(r.tcam, f) = {}
    BY <2>2, <2>3, DropExact
  <2>5. CASE Take(r)
    BY <2>3, <2>5, TakeExact
  <2>6. CASE Take(Result(Dropped(r.tcam, f), [r.sdk EXCEPT ![f] = DeadGroup(@.shape)],
                         r.trips \cup DropTrips(r.tcam, f)))
    BY <2>3, <2>4, <2>6, TakeExact DEF Result
  <2> QED
    BY <1>2, <2>5, <2>6
<1>3. \/ /\ tripped' = tripped \cup (IF gt[t].presel # 0 THEN {"fg_id"} ELSE {})
         /\ UNCHANGED <<tcam, sdk>>
      \/ /\ Alive(sdk, f)
         /\ \E r \in after :
              \/ Take(r)
              \/ Take(Result(Dropped(r.tcam, f), [r.sdk EXCEPT ![f] = DeadGroup(@.shape)],
                             r.trips \cup DropTrips(r.tcam, f)))
  BY DEF DestroyRow
<1> QED
  BY <1>1, <1>2, <1>3

(* The ledger starts exact: no bank is listed and no entry installed.      *)
LEMMA InitExact == Init => ExactInv
<1> SUFFICES ASSUME Init PROVE ExactInv
  OBVIOUS
<1>1. ConsistentInv
  BY InitConsistent
<1>2. /\ \A f \in FgId : tcam.fgs[f] = BlankInfo
      /\ \A b \in Bank : tcam.banks[b] = [ag |-> Free, refcnt |-> 0]
      /\ \A f \in FgId : sdk[f] = DeadGroup(NoShape)
      /\ tripped = {}
  BY DEF Init, InitLedger
<1>3. \A f \in FgId : HwBanks(sdk[f]) = {}
  <2>1. HwBanks(DeadGroup(NoShape)) = {}
    BY DEF HwBanks, DeadGroup, NoPlaces
  <2> QED
    BY <1>2, <2>1
<1>4. RefsExact(tcam)
  <2> SUFFICES ASSUME NEW b \in Bank PROVE Trackers(tcam, b) = {}
    BY <1>2, FS_EmptySet DEF RefsExact
  <2> QED
    BY <1>2 DEF Trackers, BlankInfo
<1>5. Apart(sdk)
  BY <1>3 DEF Apart
<1>6. \A f \in FgId : InStep(tcam, sdk, f)
  BY <1>2, <1>3 DEF InStep, BlankInfo
<1> QED
  BY <1>1, <1>2, <1>4, <1>5, <1>6 DEF ExactInv, Exact, ConsistentInv, TypeOK, Hardware

(* The invariant of part 2 is inductive.                                   *)
LEMMA NextExact == ASSUME Told PROVE ExactInv /\ [Next]_vars => ExactInv'
<1> SUFFICES ASSUME ExactInv, [Next]_vars PROVE ExactInv'
  OBVIOUS
<1>1. ConsistentInv'
  BY NextConsistent DEF ExactInv
<1>2. StepExact
  <2>1. ASSUME NEW t \in Tuple, FgSet(t) PROVE StepExact
    BY <2>1, FgSetExact
  <2>2. ASSUME NEW t \in Tuple, ScaleUp(t) PROVE StepExact
    BY <2>2, ScaleUpExact
  <2>3. ASSUME NEW t \in Tuple, NEW e \in Entry, ScaleDown(t, e) PROVE StepExact
    BY <2>3, ScaleDownExact
  <2>4. ASSUME NEW t \in Tuple, DestroyTuple(t) \/ SweepTuple(t) PROVE StepExact
    BY <2>4, DestroyRowExact DEF DestroyTuple, SweepTuple
  <2>5. ~EntryDeleteAll
    BY DEF EntryDeleteAll, Told
  <2>6. \A f \in FgId : ~UncountedAdd(f) /\ \A e \in Entry : ~UncountedRemove(f, e)
    BY DEF UncountedAdd, UncountedRemove, Told
  <2>7. CASE UNCHANGED vars
    BY <2>7 DEF vars, ExactInv, StepExact
  <2> QED
    BY <2>1, <2>2, <2>3, <2>4, <2>5, <2>6, <2>7 DEF Next
<1> QED
  BY <1>1, <1>2 DEF ExactInv, StepExact

(* A ledger that is told of every change is exact in every reachable       *)
(* state: the strengthening the last three theorems follow from.           *)
LEMMA AlwaysExact == ASSUME Told PROVE Spec => []ExactInv
<1>1. Init => ExactInv
  BY InitExact
<1>2. ExactInv /\ [Next]_vars => ExactInv'
  BY NextExact
<1> QED
  BY <1>1, <1>2, PTL DEF Spec

(* refcnt is the number of groups that list the bank, all of the AG that   *)
(* owns it, although attaches, key sizes and entry calls may fail, sets be *)
(* repeated and entries be given back that were never owned.               *)
THEOREM RefcntsExact == ASSUME Told PROVE Spec => []RefcntCountsTrackers
<1>1. ExactInv => RefcntCountsTrackers
  BY DEF ExactInv, Exact, RefsExact, RefcntCountsTrackers
<1> QED
  BY <1>1, AlwaysExact, PTL

(* What fg_info_update remembers of a group is where its entries are, so   *)
(* that the next merge starts from the truth.                              *)
THEOREM BanksExact == ASSUME Told PROVE Spec => []BanksMatchHardware
<1>1. ExactInv => BanksMatchHardware
  BY DEF ExactInv, Exact, InStep, BanksMatchHardware
<1> QED
  BY <1>1, AlwaysExact, PTL

(* The assert()s of bank_remove_from_ag never fail.                        *)
THEOREM RefcntAssertsHold == ASSUME Told PROVE Spec => []RefcntAssertHolds
<1>1. ExactInv => RefcntAssertHolds
  BY DEF ExactInv, RefcntAssertHolds
<1> QED
  BY <1>1, AlwaysExact, PTL

(***************************************************************************)
(* Part 3: who owns a field group.  Whatever the SDK refuses and however   *)
(* the callers use the API, the group id in a row is that of a group of    *)
(* the row's own: destroy forgets the id before the SDK can give it out    *)
(* again, and the ledger's record of an id nobody has is blank.            *)
(***************************************************************************)
(* Rows g of the tables, ledger L and groups S of the chip.                *)
Mine(L, S, t, f) ==
  /\ S[f].live /\ S[f].shape = ShapeOf[t]
  /\ L.fgs[f].key # KeyDontCare => L.fgs[f].ag = AgOf(ShapeOf[t])
Owned(g, L, S) ==
  /\ \A u \in Tuple : g[u].gid \in FgId => Mine(L, S, u, g[u].gid)
  /\ \A u, v \in Tuple : g[u].gid \in FgId /\ g[u].gid = g[v].gid => u = v
  /\ \A f \in FgId : ~S[f].live => L.fgs[f].key = KeyDontCare

(* What ownership reads of group f stays.                                  *)
SameRow(L, S, K, R, f) ==
  /\ R[f].live = S[f].live /\ R[f].shape = S[f].shape
  /\ K.fgs[f].key = L.fgs[f].key /\ K.fgs[f].ag = L.fgs[f].ag
SameRows(L, S, K, R) == \A f \in FgId : SameRow(L, S, K, R, f)

OwnInv == ConsistentInv /\ Owned(gt, tcam, sdk)
StepOwned == Owned(gt', tcam', sdk')

(* The rows of the tables and the groups, as the proofs below use them.    *)
LEMMA OwnTypes ==
  ASSUME OwnInv
  PROVE  /\ gt \in [Tuple -> GtRow] /\ sdk \in Hardware
         /\ Owned(gt, tcam, sdk) /\ LedgerOK(tcam)
BY DEF OwnInv, ConsistentInv, TypeOK, GtRow, Hardware

(* An update, and so a booking, writes one row and keeps its key and AG.   *)
LEMMA UpdatedRow ==
  ASSUME NEW L, LedgerOK(L), NEW f \in FgId, NEW now \in SUBSET Bank, NEW delta
  PROVE  /\ \A g \in FgId \ {f} : Updated(L, f, delta, now).fgs[g] = L.fgs[g]
         /\ Updated(L, f, delta, now).fgs[f].key = L.fgs[f].key
         /\ Updated(L, f, delta, now).fgs[f].ag = L.fgs[f].ag
<1> DEFINE M == Merged(L, f, now)
<1>1. L.fgs \in [FgId -> FgInfo]
  BY DEF LedgerOK, Ledger
<1> HIDE DEF M
<1>2. Booked(M, f, delta, now).fgs =
        [M.fgs EXCEPT ![f] = [banks |-> now, nof |-> @.nof + delta,
                              ag |-> M.fgs[f].ag, key |-> @.key]]
  BY DEF Booked
<1>3. M.fgs = L.fgs
  BY MergedOK DEF M
<1>4. /\ \A g \in FgId \ {f} : Booked(M, f, delta, now).fgs[g] = L.fgs[g]
      /\ Booked(M, f, delta, now).fgs[f].key = L.fgs[f].key
      /\ Booked(M, f, delta, now).fgs[f].ag = L.fgs[f].ag
  BY <1>1, <1>2, <1>3
<1> QED
  <2>1. CASE Updated(L, f, delta, now) = Booked(M, f, delta, now)
    BY <1>4, <2>1
  <2>2. CASE Updated(L, f, delta, now).fgs = L.fgs
    BY <2>2
  <2> QED
    BY <1>3, <2>1, <2>2 DEF Updated, M

(* Booking what happened to an entry leaves all groups with their owners.  *)
LEMMA BookKeeps ==
  ASSUME NEW L, LedgerOK(L), NEW S \in Hardware, NEW f \in FgId, NEW delta,
         NEW r \in BookResults(L, S, f, delta)
  PROVE  r.sdk = S /\ SameRows(L, S, r.tcam, r.sdk)
<1>1. HwBanks(S[f]) \in SUBSET Bank
  BY GroupFacts DEF Hardware
<1>2. r.sdk = S /\ (r.tcam = L \/ r.tcam = Updated(L, f, delta, HwBanks(S[f])))
  BY DEF BookResults, Result
<1>3. CASE r.tcam = L
  BY <1>2, <1>3 DEF SameRows, SameRow
<1>4. CASE r.tcam = Updated(L, f, delta, HwBanks(S[f]))
  <2>1. /\ \A g \in FgId \ {f} : r.tcam.fgs[g] = L.fgs[g]
        /\ r.tcam.fgs[f].key = L.fgs[f].key /\ r.tcam.fgs[f].ag = L.fgs[f].ag
    BY <1>1, <1>4, UpdatedRow
  <2>2. ASSUME NEW g \in FgId PROVE SameRow(L, S, r.tcam, S, g)
    BY <2>1 DEF SameRow
  <2> QED
    BY <1>2, <2>2 DEF SameRows
<1> QED
  BY <1>2, <1>3, <1>4

(* So does the entry itself coming or going.                               *)
LEMMA PutKeeps ==
  ASSUME NEW L, NEW S \in Hardware, NEW f \in FgId, NEW e \in Entry, NEW p \in SUBSET Bank
  PROVE  Put(S, f, e, p) \in Hardware /\ SameRows(L, S, L, Put(S, f, e, p))
<1> DEFINE R == Put(S, f, e, p)
<1>1. R \in Hardware /\ IsPut(S, R, f, e, p)
  BY PutFacts
<1> HIDE DEF R
<1>2. R[f].live = S[f].live /\ R[f].shape = S[f].shape
  BY <1>1 DEF IsPut
<1>3. ASSUME NEW g \in FgId PROVE R[g].live = S[g].live /\ R[g].shape = S[g].shape
  BY <1>1, <1>2 DEF IsPut
<1>4. R \in Hardware /\ SameRows(L, S, L, R)
  BY <1>1, <1>3 DEF SameRows, SameRow
<1> QED
  BY <1>4 DEF R

LEMMA AddKeeps ==
  ASSUME NEW L, LedgerOK(L), NEW S \in Hardware, NEW f \in FgId, NEW e \in Entry,
         NEW p \in Placements(S, f), NEW r \in BookResults(L, Put(S, f, e, p), f, 1)
  PROVE  SameRows(L, S, r.tcam, r.sdk)
<1>1. /\ Put(S, f, e, p) \in Hardware
      /\ SameRows(L, S, L, Put(S, f, e, p))
  BY PlacementsInBanks, PutKeeps
<1>2. SameRows(L, Put(S, f, e, p), r.tcam, r.sdk)
  BY <1>1, BookKeeps
<1> QED
  BY <1>1, <1>2 DEF SameRows, SameRow

LEMMA RemoveKeeps ==
  ASSUME NEW L, LedgerOK(L), NEW S \in Hardware, NEW f \in FgId, NEW e \in Entry,
         NEW r \in RemoveResults(L, S, f, e)
  PROVE  SameRows(L, S, r.tcam, r.sdk)
<1>1. /\ Put(S, f, e, {}) \in Hardware
      /\ SameRows(L, S, L, Put(S, f, e, {}))
  BY PutKeeps
<1>2. CASE r \in BookResults(L, Put(S, f, e, {}), f, -1)
  <2>1. SameRows(L, Put(S, f, e, {}), r.tcam, r.sdk)
    BY <1>1, <1>2, BookKeeps
  <2> QED
    BY <1>1, <2>1 DEF SameRows, SameRow
<1>3. CASE r \in BookResults(L, S, f, -1)
  BY <1>3, BookKeeps
<1> QED
  BY <1>2, <1>3 DEF RemoveResults

(* Rows that keep their group or give it up, and groups that stay.         *)
LEMMA KeepOwned ==
  ASSUME OwnInv, \A u \in Tuple : gt'[u].gid \in {gt[u].gid, NoGroup},
         SameRows(tcam, sdk, tcam', sdk')
  PROVE  StepOwned
<1>1. Owned(gt, tcam, sdk) /\ NoGroup \notin FgId
  BY OwnTypes, ConstantsAssumption
<1>2. \A u \in Tuple : gt'[u].gid \in FgId => gt'[u].gid = gt[u].gid
  BY <1>1
<1>3. \A u \in Tuple, f \in FgId : Mine(tcam, sdk, u, f) => Mine(tcam', sdk', u, f)
  BY DEF Mine, SameRows, SameRow
<1>4. \A f \in FgId : ~sdk'[f].live => tcam'.fgs[f].key = KeyDontCare
  BY <1>1 DEF Owned, SameRows, SameRow
<1>5. \A u \in Tuple : gt'[u].gid \in FgId => Mine(tcam', sdk', u, gt'[u].gid)
  BY <1>1, <1>2, <1>3 DEF Owned
<1>6. \A u, v \in Tuple : gt'[u].gid \in FgId /\ gt'[u].gid = gt'[v].gid => u = v
  BY <1>1, <1>2 DEF Owned
<1> QED
  BY <1>4, <1>5, <1>6 DEF Owned, StepOwned

(* A row gets a group that did not exist, whatever group it had.           *)
LEMMA NewOwned ==
  ASSUME OwnInv, NEW t \in Tuple, NEW f \in FgId, ~sdk[f].live,
         gt'[t].gid = f, \A u \in Tuple \ {t} : gt'[u].gid = gt[u].gid,
         Mine(tcam', sdk', t, f),
         \A g \in FgId \ {f} : SameRow(tcam, sdk, tcam', sdk', g)
  PROVE  StepOwned
<1>1. Owned(gt, tcam, sdk)
  BY OwnTypes
<1>2. \A u \in Tuple : gt[u].gid # f
  BY <1>1 DEF Owned, Mine
<1>3. \A u \in Tuple, g \in FgId \ {f} : Mine(tcam, sdk, u, g) => Mine(tcam', sdk', u, g)
  BY DEF Mine, SameRow
<1>4. \A u \in Tuple : gt'[u].gid \in FgId => Mine(tcam', sdk', u, gt'[u].gid)
  BY <1>1, <1>2, <1>3 DEF Owned
<1>5. \A u, v \in Tuple : gt'[u].gid \in FgId /\ gt'[u].gid = gt'[v].gid => u = v
  BY <1>1, <1>2 DEF Owned
<1>6. \A g \in FgId : ~sdk'[g].live => tcam'.fgs[g].key = KeyDontCare
  BY <1>1 DEF Owned, Mine, SameRow
<1> QED
  BY <1>4, <1>5, <1>6 DEF Owned, StepOwned

(* Setting a row, up to whichever of its early returns.                    *)
LEMMA FgSetOwned ==
  ASSUME OwnInv, NEW t \in Tuple, FgSet(t)
  PROVE  StepOwned
<1>1. ASSUME gt' = [gt EXCEPT ![t].gid = NoGroup], UNCHANGED <<tcam, sdk>>
      PROVE  StepOwned
  <2>1. \A u \in Tuple : gt'[u].gid \in {gt[u].gid, NoGroup}
    BY <1>1, OwnTypes DEF GtRow
  <2> QED
    BY <1>1, <2>1, KeepOwned DEF SameRows, SameRow
<1>2. ASSUME NEW f \in FgId, ~sdk[f].live,
             NEW new, new = [sdk EXCEPT ![f] = NewGroup(ShapeOf[t])],
             NEW L, LedgerOK(L), \A g \in FgId \ {f} : L.fgs[g] = tcam.fgs[g],
             L.fgs[f].key # KeyDontCare => L.fgs[f].ag = AgOf(ShapeOf[t]),
             \/ Take(Result(L, new, {})) /\ gt' = [gt EXCEPT ![t].gid = f]
             \/ Populate(t, f, L, new)
      PROVE  StepOwned
  <2>1. /\ new \in Hardware /\ Mine(L, new, t, f)
        /\ \A g \in FgId \ {f} : SameRow(tcam, sdk, L, new, g)
    <3>1. NewGroup(ShapeOf[t]) \in Group
      BY ShapeAssumption, GroupFacts
    <3>2. new \in Hardware /\ new[f] = NewGroup(ShapeOf[t])
          /\ \A g \in FgId \ {f} : new[g] = sdk[g]
      BY <1>2, <3>1, OwnTypes DEF Hardware
    <3>3. new[f].live /\ new[f].shape = ShapeOf[t]
      BY <3>2 DEF NewGroup
    <3> QED
      BY <1>2, <3>2, <3>3 DEF Mine, SameRow
  <2>2. ASSUME gt' = [gt EXCEPT ![t].gid = f] \/ \E e : gt' = [gt EXCEPT ![t] = [gid |-> f, presel |-> e]]
        PROVE  gt'[t].gid = f /\ \A u \in Tuple \ {t} : gt'[u].gid = gt[u].gid
    BY <2>2, OwnTypes DEF GtRow
  <2>3. CASE Take(Result(L, new, {})) /\ gt' = [gt EXCEPT ![t].gid = f]
    <3>1. tcam' = L /\ sdk' = new
      BY <2>3 DEF Take, Result
    <3> QED
      BY <1>2, <2>1, <2>2, <2>3, <3>1, NewOwned
  <2>4. ASSUME NEW e \in Entry \ HwEntries(new[f]), NEW p \in Placements(new, f),
               NEW r \in BookResults(L, Put(new, f, e, p), f, 1), Take(r),
               gt' = [gt EXCEPT ![t] = [gid |-> f, presel |-> e]]
        PROVE  StepOwned
    <3>1. SameRows(L, new, r.tcam, r.sdk)
      BY <1>2, <2>1, AddKeeps
    <3>2. tcam' = r.tcam /\ sdk' = r.sdk
      BY <2>4 DEF Take
    <3>3. Mine(tcam', sdk', t, f)
      BY <2>1, <3>1, <3>2 DEF Mine, SameRows, SameRow
    <3>4. \A g \in FgId \ {f} : SameRow(tcam, sdk, tcam', sdk', g)
      BY <2>1, <3>1, <3>2 DEF SameRows, SameRow
    <3> QED
      BY <1>2, <2>2, <2>4, <3>3, <3>4, NewOwned
  <2> QED
    BY <1>2, <2>3, <2>4 DEF Populate
<1>3. ASSUME NEW f \in FgId, NEW key \in {0, 1, 2, 4}
      PROVE  LET L == Initialised(tcam, f, ShapeOf[t], key)
             IN  /\ \A g \in FgId \ {f} : L.fgs[g] = tcam.fgs[g]
                 /\ L.fgs[f].ag = AgOf(ShapeOf[t])
  <2>1. tcam \in Ledger
    BY OwnTypes DEF LedgerOK
  <2>2. Initialised(tcam, f, ShapeOf[t], key).fgs =
          [tcam.fgs EXCEPT ![f] = [banks |-> {}, nof |-> 0, ag |-> AgOf(ShapeOf[t]), key |-> key]]
    BY <2>1 DEF Initialised, Ledger
  <2> QED
    BY <2>1, <2>2 DEF Ledger
<1>4. ASSUME NEW f \in FgId, ~sdk[f].live, NEW new, new = [sdk EXCEPT ![f] = NewGroup(ShapeOf[t])],
             \/ Take(Result(tcam, new, {})) /\ gt' = [gt EXCEPT ![t].gid = f]
             \/ \E key \in {KeyDontCare, KeyOf(ShapeOf[t])} :
                  \/ /\ Take(Result(Initialised(tcam, f, ShapeOf[t], key), new, {}))
                     /\ gt' = [gt EXCEPT ![t].gid = f]
                  \/ Populate(t, f, Initialised(tcam, f, ShapeOf[t], key), new)
      PROVE  StepOwned
  <2>1. LedgerOK(tcam) /\ tcam.fgs[f].key = KeyDontCare
    BY <1>4, OwnTypes DEF Owned
  <2>2. CASE Take(Result(tcam, new, {})) /\ gt' = [gt EXCEPT ![t].gid = f]
    BY <1>2, <1>4, <2>1, <2>2
  <2>3. ASSUME NEW key \in {KeyDontCare, KeyOf(ShapeOf[t])},
               \/ /\ Take(Result(Initialised(tcam, f, ShapeOf[t], key), new, {}))
                  /\ gt' = [gt EXCEPT ![t].gid = f]
               \/ Populate(t, f, Initialised(tcam, f, ShapeOf[t], key), new)
        PROVE  StepOwned
    <3> DEFINE L == Initialised(tcam, f, ShapeOf[t], key)
    <3>1. key \in {0, 1, 2, 4} /\ LedgerOK(L)
      <4>1. LedgerOK(Initialised(tcam, f, ShapeOf[t], KeyDontCare))
            /\ LedgerOK(Initialised(tcam, f, ShapeOf[t], KeyOf(ShapeOf[t])))
        BY <2>1, InitialisedOK
      <4> QED
        BY <2>3, <4>1, AgTypes DEF KeyDontCare
    <3>2. /\ \A g \in FgId \ {f} : L.fgs[g] = tcam.fgs[g]
          /\ L.fgs[f].ag = AgOf(ShapeOf[t])
      BY <1>3, <3>1
    <3> HIDE DEF L
    <3>3. \/ Take(Result(L, new, {})) /\ gt' = [gt EXCEPT ![t].gid = f]
          \/ Populate(t, f, L, new)
      BY <2>3 DEF L
    <3> QED
      BY <1>2, <1>4, <3>1, <3>2, <3>3
  <2> QED
    BY <1>4, <2>2, <2>3
<1> QED
  BY <1>1, <1>4 DEF FgSet

(* Scaling moves entries, never groups.                                    *)
LEMMA ScaleOwned ==
  ASSUME OwnInv, NEW t \in Tuple,
         ScaleUp(t) \/ \E e \in Entry : ScaleDown(t, e)
  PROVE  StepOwned
<1>1. ASSUME ScaleUp(t) PROVE StepOwned
  <2> DEFINE f == gt[t].gid
  <2>1. f \in FgId /\ gt' = gt
    BY <1>1 DEF ScaleUp, Alive
  <2>2. PICK e \in Entry \ HwEntries(sdk[f]), p \in Placements(sdk, f) :
          \E r \in BookResults(tcam, Put(sdk, f, e, p), f, 1) : Take(r)
    BY <1>1 DEF ScaleUp
  <2>3. PICK r \in BookResults(tcam, Put(sdk, f, e, p), f, 1) : Take(r)
    BY <2>2
  <2> HIDE DEF f
  <2>4. SameRows(tcam, sdk, r.tcam, r.sdk)
    BY <2>1, AddKeeps, OwnTypes
  <2> QED
    BY <2>1, <2>3, <2>4, KeepOwned DEF Take
<1>2. ASSUME NEW e \in Entry, ScaleDown(t, e) PROVE StepOwned
  <2> DEFINE f == gt[t].gid
  <2>1. gt' = gt
    BY <1>2 DEF ScaleDown
  <2>2. CASE UNCHANGED <<tcam, sdk>>
    BY <2>1, <2>2, KeepOwned DEF SameRows, SameRow
  <2>3. ASSUME f \in FgId, NEW r \in RemoveResults(tcam, sdk, f, e), Take(r)
        PROVE  StepOwned
    <3> HIDE DEF f
    <3>1. SameRows(tcam, sdk, r.tcam, r.sdk)
      BY <2>3, RemoveKeeps, OwnTypes
    <3> QED
      BY <2>1, <2>3, <3>1, KeepOwned DEF Take
  <2> QED
    BY <1>2, <2>2, <2>3 DEF ScaleDown, Alive
<1> QED
  BY <1>1, <1>2

(* Destroying a row: its group goes only with the row's own hold on it, and*)
(* no other row holds it.                                                  *)
LEMMA DestroyRowOwned ==
  ASSUME OwnInv, NEW t \in Tuple, DestroyRow(t)
  PROVE  StepOwned
<1> DEFINE f == gt[t].gid
           after == IF gt[t].presel = 0 THEN {Result(tcam, sdk, {})}
                    ELSE RemoveResults(tcam, sdk, f, gt[t].presel)
<1>1. ASSUME gt' = [gt EXCEPT ![t].presel = 0]
      PROVE  \A u \in Tuple : gt'[u].gid \in {gt[u].gid, NoGroup}
  BY <1>1, OwnTypes DEF GtRow
<1>2. CASE gt' = [gt EXCEPT ![t].presel = 0] /\ UNCHANGED <<tcam, sdk>>
  BY <1>1, <1>2, KeepOwned DEF SameRows, SameRow
<1>3. ASSUME Alive(sdk, f), NEW r \in after,
             \/ /\ Take(r)
                /\ gt' = [gt EXCEPT ![t].presel = 0]
             \/ /\ Take(Result(Dropped(r.tcam, f), [r.sdk EXCEPT ![f] = DeadGroup(@.shape)],
                               r.trips \cup DropTrips(r.tcam, f)))
                /\ gt' = [gt EXCEPT ![t] = Vacated(@)]
      PROVE  StepOwned
  <2>1. f \in FgId /\ gt[t].presel \in Entry \cup {0} /\ sdk \in Hardware /\ LedgerOK(tcam)
    BY <1>3, OwnTypes DEF Alive, GtRow
  <2>2. SameRows(tcam, sdk, r.tcam, r.sdk) /\ LedgerOK(r.tcam) /\ r.sdk \in Hardware
    <3>1. CASE gt[t].presel = 0
      BY <1>3, <2>1, <3>1 DEF Result, SameRows, SameRow
    <3>2. CASE gt[t].presel # 0
      <4>1. gt[t].presel \in Entry /\ r \in RemoveResults(tcam, sdk, f, gt[t].presel)
        BY <1>3, <2>1, <3>2
      <4> HIDE DEF f, after
      <4> QED
        BY <2>1, <4>1, RemoveKeeps, RemoveResultsOK
    <3> QED
      BY <3>1, <3>2
  <2>3. CASE Take(r) /\ gt' = [gt EXCEPT ![t].presel = 0]
    BY <1>1, <2>2, <2>3, KeepOwned DEF Take
  <2>4. CASE /\ Take(Result(Dropped(r.tcam, f), [r.sdk EXCEPT ![f] = DeadGroup(@.shape)],
                            r.trips \cup DropTrips(r.tcam, f)))
             /\ gt' = [gt EXCEPT ![t] = Vacated(@)]
    <3>1. /\ sdk' = [r.sdk EXCEPT ![f] = DeadGroup(r.sdk[f].shape)]
          /\ tcam'.fgs = [r.tcam.fgs EXCEPT ![f] = BlankInfo]
          /\ r.tcam.fgs \in [FgId -> FgInfo]
      <4>1. tcam' = Dropped(r.tcam, f)
        BY <2>4 DEF Take, Result
      <4>2. sdk' = [r.sdk EXCEPT ![f] = DeadGroup(r.sdk[f].shape)]
        BY <2>4 DEF Take, Result
      <4> HIDE DEF f
      <4> QED
        BY <2>1, <2>2, <4>1, <4>2, DroppedOK DEF LedgerOK, Ledger
    <3>2. tcam'.fgs[f].key = KeyDontCare
      BY <2>1, <3>1 DEF BlankInfo
    <3>3. \A g \in FgId \ {f} : sdk'[g] = r.sdk[g] /\ tcam'.fgs[g] = r.tcam.fgs[g]
      BY <2>1, <2>2, <3>1 DEF Hardware
    <3>4. \A g \in FgId \ {f} : SameRow(tcam, sdk, tcam', sdk', g)
      BY <2>2, <3>3 DEF SameRows, SameRow
    <3>5. gt'[t].gid = NoGroup /\ \A u \in Tuple \ {t} : gt'[u] = gt[u]
      BY <2>4, OwnTypes DEF GtRow, Vacated
    <3>6. Owned(gt, tcam, sdk) /\ NoGroup \notin FgId
      BY OwnTypes, ConstantsAssumption
    <3>7. \A u \in Tuple \ {t} : gt[u].gid # f
      BY <2>1, <3>6 DEF Owned
    <3> HIDE DEF f
    <3>8. \A u \in Tuple, g \in FgId \ {f} : Mine(tcam, sdk, u, g) => Mine(tcam', sdk', u, g)
      BY <3>4 DEF Mine, SameRow
    <3>9. \A u \in Tuple : gt'[u].gid \in FgId => Mine(tcam', sdk', u, gt'[u].gid)
      BY <3>5, <3>6, <3>7, <3>8 DEF Owned
    <3>10. \A u, v \in Tuple : gt'[u].gid \in FgId /\ gt'[u].gid = gt'[v].gid => u = v
      BY <3>5, <3>6 DEF Owned
    <3>11. \A g \in FgId : ~sdk'[g].live => tcam'.fgs[g].key = KeyDontCare
      BY <3>2, <3>4, <3>6 DEF Owned, SameRow
    <3> QED
      BY <3>9, <3>10, <3>11 DEF Owned, StepOwned
  <2> QED
    BY <1>3, <2>3, <2>4
<1>4. \/ gt' = [gt EXCEPT ![t].presel = 0] /\ UNCHANGED <<tcam, sdk>>
      \/ /\ Alive(sdk, f)
         /\ \E r \in after :
              \/ /\ Take(r)
                 /\ gt' = [gt EXCEPT ![t].presel = 0]
              \/ /\ Take(Result(Dropped(r.tcam, f),
                                [r.sdk EXCEPT ![f] = DeadGroup(@.shape)],
                                r.trips \cup DropTrips(r.tcam, f)))
                 /\ gt' = [gt EXCEPT ![t] = Vacated(@)]
  BY DEF DestroyRow
<1> QED
  BY <1>2, <1>3, <1>4

(* Deleting every entry of the unit, and entries that come and go behind   *)
(* the ledger's back, leave the groups alone too.                          *)
LEMMA UncountedOwned ==
  ASSUME OwnInv,
         \/ EntryDeleteAll
         \/ \E f \in FgId : UncountedAdd(f) \/ \E e \in Entry : UncountedRemove(f, e)
  PROVE  StepOwned
<1>1. ASSUME EntryDeleteAll PROVE StepOwned
  <2>1. /\ sdk' = [f \in FgId |-> [sdk[f] EXCEPT !.at = NoPlaces]]
        /\ gt' = gt /\ tcam' = tcam
    BY <1>1 DEF EntryDeleteAll
  <2>2. \A f \in FgId : sdk[f] \in Group
    BY OwnTypes DEF Hardware
  <2>3. SameRows(tcam, sdk, tcam', sdk')
    BY <2>1, <2>2 DEF SameRows, SameRow, Group
  <2> QED
    BY <2>1, <2>3, KeepOwned
<1>2. ASSUME NEW f \in FgId, UncountedAdd(f) PROVE StepOwned
  <2>1. PICK e \in Entry \ HwEntries(sdk[f]), p \in Placements(sdk, f) : sdk' = Put(sdk, f, e, p)
    BY <1>2 DEF UncountedAdd
  <2>2. SameRows(tcam, sdk, tcam, sdk')
    BY <2>1, PlacementsInBanks, PutKeeps, OwnTypes
  <2> QED
    BY <1>2, <2>2, KeepOwned DEF UncountedAdd
<1>3. ASSUME NEW f \in FgId, NEW e \in Entry, UncountedRemove(f, e) PROVE StepOwned
  <2>1. SameRows(tcam, sdk, tcam, Put(sdk, f, e, {}))
    BY PutKeeps, OwnTypes
  <2> QED
    BY <1>3, <2>1, KeepOwned DEF UncountedRemove
<1> QED
  BY <1>1, <1>2, <1>3

(* No row holds a group to begin with.                                     *)
LEMMA InitOwned == Init => OwnInv
<1> SUFFICES ASSUME Init PROVE OwnInv
  OBVIOUS
<1>1. ConsistentInv
  BY InitConsistent
<1>2. \A u \in Tuple : gt[u].gid \notin FgId
  BY ConstantsAssumption DEF Init
<1>3. \A f \in FgId : tcam.fgs[f].key = KeyDontCare
  BY DEF Init, InitLedger, BlankInfo
<1> QED
  BY <1>1, <1>2, <1>3 DEF OwnInv, Owned

LEMMA NextOwned == OwnInv /\ [Next]_vars => OwnInv'
<1> SUFFICES ASSUME OwnInv, [Next]_vars PROVE OwnInv'
  OBVIOUS
<1>1. ConsistentInv'
  BY NextConsistent DEF OwnInv
<1>2. StepOwned
  <2>1. CASE \E t \in Tuple : FgSet(t)
    BY <2>1, FgSetOwned
  <2>2. CASE \E t \in Tuple : ScaleUp(t) \/ \E e \in Entry : ScaleDown(t, e)
    BY <2>2, ScaleOwned
  <2>3. CASE \E t \in Tuple : DestroyTuple(t) \/ SweepTuple(t)
    BY <2>3, DestroyRowOwned DEF DestroyTuple, SweepTuple
  <2>4. CASE \/ EntryDeleteAll
             \/ \E f \in FgId : UncountedAdd(f) \/ \E e \in Entry : UncountedRemove(f, e)
    BY <2>4, UncountedOwned
  <2>5. CASE UNCHANGED vars
    BY <2>5, KeepOwned DEF vars, SameRows, SameRow
  <2> QED
    BY <2>1, <2>2, <2>3, <2>4, <2>5 DEF Next
<1> QED
  BY <1>1, <1>2 DEF OwnInv, StepOwned

(* A row's group_id never names a group that is gone, or that has passed   *)
(* to another row or another allocation group: on no premise about the     *)
(* SDK or the callers, tables set again and ids given back twice included. *)
THEOREM RowsOwnGroups == Spec => []RowsOwnTheirGroups
<1>1. OwnInv => RowsOwnTheirGroups
  <2> SUFFICES ASSUME OwnInv, NEW t \in Tuple, gt[t].gid # NoGroup
               PROVE  /\ Mine(tcam, sdk, t, gt[t].gid)
                      /\ \A u \in Tuple \ {t} : gt[u].gid # gt[t].gid
    BY DEF RowsOwnTheirGroups, Mine
  <2>1. gt[t].gid \in FgId
    BY OwnTypes DEF GtRow
  <2> QED
    BY <2>1, OwnTypes DEF Owned
<1> QED
  BY <1>1, InitOwned, NextOwned, PTL DEF Spec

(***************************************************************************)
(* Part 4: a ledger that is told of every change implements PmfBanks.      *)
(***************************************************************************)
(* From an exact ledger what a group holds and its class can be read off   *)
(* its row; a bank in a row belongs to the row's AG, any other is free.    *)
LEMMA RowsTell ==
  ASSUME NEW L, NEW S, Exact(L, S)
  PROVE  /\ \A f \in FgId :
              /\ HeldOf(L, S)[f] = L.fgs[f].banks /\ L.fgs[f].banks \in SUBSET Bank
              /\ Known(L, f) => ClassOf(L, S)[f] = L.fgs[f].ag /\ L.fgs[f].ag \in AllocGroup
              /\ ~Known(L, f) => ClassOf(L, S)[f] = Free /\ L.fgs[f].banks = {}
         /\ \A b \in Bank : \A f \in FgId : b \in L.fgs[f].banks => L.banks[b].ag = L.fgs[f].ag
         /\ \A b \in Bank : (\A f \in FgId : b \notin L.fgs[f].banks) => L.banks[b].ag = Free
<1>1. ASSUME NEW f \in FgId
      PROVE  /\ HeldOf(L, S)[f] = L.fgs[f].banks /\ L.fgs[f].banks \in SUBSET Bank
             /\ Known(L, f) => ClassOf(L, S)[f] = L.fgs[f].ag /\ L.fgs[f].ag \in AllocGroup
             /\ ~Known(L, f) => ClassOf(L, S)[f] = Free /\ L.fgs[f].banks = {}
  <2>1. L.fgs[f] \in FgInfo
    BY DEF Exact, LedgerOK, Ledger
  <2>2. InStep(L, S, f)
    BY DEF Exact
  <2> QED
    BY <2>1, <2>2 DEF InStep, Known, HeldOf, ClassOf, FgInfo
<1>2. ASSUME NEW b \in Bank, NEW f \in FgId, b \in L.fgs[f].banks
      PROVE  L.banks[b].ag = L.fgs[f].ag
  BY <1>2 DEF Exact, RefsExact, Trackers
<1>3. ASSUME NEW b \in Bank, \A f \in FgId : b \notin L.fgs[f].banks
      PROVE  L.banks[b].ag = Free
  <2>1. Trackers(L, b) = {}
    BY <1>3 DEF Trackers
  <2>2. L.banks[b].refcnt = 0
    BY <2>1, FS_EmptySet DEF Exact, RefsExact
  <2> QED
    BY <2>2 DEF Exact, LedgerOK
<1> QED
  BY <1>1, <1>2, <1>3

(* No row but that of f changes, and f, if known before and after, stays   *)
(* the group it was.                                                       *)
OnlyRow(L, S, K, S2, f) ==
  /\ \A g \in FgId \ {f} : K.fgs[g] = L.fgs[g] /\ S2[g] = S[g]
  /\ Known(L, f) /\ Known(K, f) => S2[f].shape = S[f].shape

(* Between two exact ledgers that differ in one row, banks change owners   *)
(* as the abstract move of that row's group says.                          *)
RowMoved(L, S, K, S2, f, c) ==
  /\ \A b \in HeldOf(K, S2)[f] \ HeldOf(L, S)[f] : OwnerOf(L)[b] \in {c, Free}
  /\ HeldOf(K, S2) = [HeldOf(L, S) EXCEPT ![f] = HeldOf(K, S2)[f]]
  /\ OwnerOf(K) = [b \in Bank |->
       IF b \in HeldOf(K, S2)[f] THEN c
       ELSE IF \E h \in FgId \ {f} : b \in HeldOf(L, S)[h] THEN OwnerOf(L)[b]
       ELSE Free]
  /\ K.total = [a \in AllocGroup \cup {Free} |->
                  KeysIn[{b \in Bank : OwnerOf(K)[b] = a}]]

LEMMA RowMoves ==
  ASSUME NEW L, NEW S, Exact(L, S), NEW K, NEW S2, Exact(K, S2),
         NEW f \in FgId, OnlyRow(L, S, K, S2, f), NEW c \in AllocGroup,
         Known(L, f) => L.fgs[f].ag = c, Known(K, f) => K.fgs[f].ag = c
  PROVE  RowMoved(L, S, K, S2, f, c)
<1> DEFINE now == K.fgs[f].banks
<1>1. \A g \in FgId \ {f} : K.fgs[g] = L.fgs[g] /\ S2[g] = S[g]
  BY DEF OnlyRow
<1>2. /\ \A g \in FgId : HeldOf(L, S)[g] = L.fgs[g].banks /\ L.fgs[g].banks \in SUBSET Bank
      /\ \A g \in FgId : HeldOf(K, S2)[g] = K.fgs[g].banks /\ K.fgs[g].banks \in SUBSET Bank
      /\ now # {} => K.fgs[f].ag = c
      /\ L.fgs[f].banks # {} => L.fgs[f].ag = c
  <2>1. now # {} => Known(K, f)
    BY RowsTell
  <2>2. L.fgs[f].banks # {} => Known(L, f)
    BY RowsTell
  <2> QED
    BY <2>1, <2>2, RowsTell
<1>3. \A b \in Bank : OwnerOf(L)[b] = L.banks[b].ag /\ OwnerOf(K)[b] = K.banks[b].ag
  BY DEF OwnerOf
<1>4. \A b \in Bank : \A h \in FgId : b \in L.fgs[h].banks => L.banks[b].ag = L.fgs[h].ag
  BY RowsTell
<1>5. \A b \in Bank : \A h \in FgId : b \in K.fgs[h].banks => K.banks[b].ag = K.fgs[h].ag
  BY RowsTell
<1>6. ASSUME NEW b \in now \ L.fgs[f].banks PROVE L.banks[b].ag \in {c, Free}
  <2>1. b \in Bank /\ K.banks[b].ag = c
    BY <1>2, <1>5, <1>6
  <2>2. ASSUME NEW h \in FgId, b \in L.fgs[h].banks PROVE L.banks[b].ag = c
    <3>1. h \in FgId \ {f}
      BY <1>6, <2>2
    <3>2. K.fgs[h] = L.fgs[h]
      BY <1>1, <3>1
    <3> QED
      BY <1>4, <1>5, <2>1, <2>2, <3>2
  <2>3. (\A h \in FgId : b \notin L.fgs[h].banks) => L.banks[b].ag = Free
    BY <2>1, RowsTell
  <2> QED
    BY <2>2, <2>3
<1>7. ASSUME NEW b \in Bank
      PROVE  K.banks[b].ag =
               IF b \in now THEN c
               ELSE IF \E h \in FgId \ {f} : b \in L.fgs[h].banks THEN L.banks[b].ag
               ELSE Free
  <2>1. CASE b \in now
    BY <1>2, <1>5, <2>1
  <2>2. CASE b \notin now /\ \E h \in FgId \ {f} : b \in L.fgs[h].banks
    <3>1. PICK h \in FgId \ {f} : b \in L.fgs[h].banks
      BY <2>2
    <3> QED
      BY <1>1, <1>4, <1>5, <2>2, <3>1
  <2>3. CASE b \notin now /\ ~\E h \in FgId \ {f} : b \in L.fgs[h].banks
    <3>1. \A h \in FgId : b \notin K.fgs[h].banks
      BY <1>1, <2>3
    <3>2. K.banks[b].ag = Free
      BY <3>1, RowsTell
    <3> QED
      BY <2>3, <3>2
  <2> QED
    BY <2>1, <2>2, <2>3
<1>8. HeldOf(K, S2) = [HeldOf(L, S) EXCEPT ![f] = HeldOf(K, S2)[f]]
  BY <1>1 DEF HeldOf, Known
<1>9. K.total = [a \in AllocGroup \cup {Free} |-> KeysIn[{b \in Bank : OwnerOf(K)[b] = a}]]
  <2>1. \A a : {b \in Bank : OwnerOf(K)[b] = a} = {b \in Bank : K.banks[b].ag = a}
    BY <1>3
  <2>2. K.total = [a \in AllocGroup \cup {Free} |-> K.total[a]]
    BY DEF Exact, LedgerOK, Ledger
  <2> QED
    BY <2>1, <2>2 DEF Exact, LedgerOK
<1>10. OwnerOf(K) = [b \in Bank |->
         IF b \in HeldOf(K, S2)[f] THEN c
         ELSE IF \E h \in FgId \ {f} : b \in HeldOf(L, S)[h] THEN OwnerOf(L)[b]
         ELSE Free]
  <2> HIDE DEF now
  <2>1. OwnerOf(K) = [b \in Bank |-> K.banks[b].ag]
    BY DEF OwnerOf
  <2>2. \A b \in Bank : K.banks[b].ag =
          IF b \in HeldOf(K, S2)[f] THEN c
          ELSE IF \E h \in FgId \ {f} : b \in HeldOf(L, S)[h] THEN OwnerOf(L)[b]
          ELSE Free
    BY <1>2, <1>3, <1>7 DEF now
  <2> QED
    BY <2>1, <2>2
<1> QED
  BY <1>2, <1>3, <1>6, <1>8, <1>9, <1>10 DEF RowMoved

(* Such a step is one of the abstract ledger, or leaves it alone.          *)
LEMMA RowSteps ==
  ASSUME Exact(tcam, sdk), Exact(tcam', sdk'), NEW f \in FgId,
         OnlyRow(tcam, sdk, tcam', sdk', f)
  PROVE  [Banks!Next]_(Banks!bankvars)
<1> DEFINE now == HeldOf(tcam', sdk')[f]
<1>1. ASSUME NEW c \in AllocGroup, Known(tcam, f) => tcam.fgs[f].ag = c,
             Known(tcam', f) => tcam'.fgs[f].ag = c
      PROVE  Banks!Move(f, c, now)
  <2>1. RowMoved(tcam, sdk, tcam', sdk', f, c)
    BY <1>1, RowMoves
  <2>2. OwnerOf(tcam)' = OwnerOf(tcam') /\ HeldOf(tcam, sdk)' = HeldOf(tcam', sdk')
    BY DEF OwnerOf, HeldOf, Known
  <2> QED
    BY <2>1, <2>2 DEF RowMoved, Banks!Move
<1>2. now \in SUBSET Bank
  BY RowsTell
<1>3. ClassOf(tcam', sdk') =
        [ClassOf(tcam, sdk) EXCEPT ![f] = ClassOf(tcam', sdk')[f]]
  BY DEF OnlyRow, ClassOf, Known
<1>4. CASE Known(tcam, f) /\ Known(tcam', f)
  <2> DEFINE c == tcam.fgs[f].ag
  <2>1. /\ c \in AllocGroup /\ ClassOf(tcam, sdk)[f] = c /\ c # Free
        /\ ClassOf(tcam', sdk')[f] = tcam'.fgs[f].ag
    BY <1>4, RowsTell, AgTypes
  <2>2. ClassOf(tcam', sdk')[f] = c
    BY <1>4, <2>1 DEF OnlyRow, ClassOf
  <2>3. Banks!Move(f, c, now)
    BY <1>1, <1>4, <2>1, <2>2
  <2>4. ClassOf(tcam', sdk') = ClassOf(tcam, sdk)
    BY <1>3, <2>1, <2>2 DEF ClassOf
  <2> HIDE DEF c, now
  <2>5. Banks!Use(f, now)
    BY <2>1, <2>3, <2>4 DEF Banks!Use
  <2> QED
    BY <1>2, <2>5 DEF Banks!Next
<1>5. CASE ~Known(tcam, f) /\ Known(tcam', f)
  <2> DEFINE c == tcam'.fgs[f].ag
  <2>1. c \in AllocGroup /\ ClassOf(tcam, sdk)[f] = Free /\ ClassOf(tcam', sdk')[f] = c
    BY <1>5, RowsTell
  <2>2. Banks!Move(f, c, now)
    BY <1>1, <1>5, <2>1
  <2> HIDE DEF c, now
  <2>3. Banks!Enter(f, c, now)
    BY <1>3, <2>1, <2>2 DEF Banks!Enter
  <2> QED
    BY <1>2, <2>1, <2>3 DEF Banks!Next
<1>6. CASE Known(tcam, f) /\ ~Known(tcam', f)
  <2> DEFINE c == tcam.fgs[f].ag
  <2>1. /\ c \in AllocGroup /\ ClassOf(tcam, sdk)[f] = c /\ c # Free
        /\ ClassOf(tcam', sdk')[f] = Free /\ now = {}
    BY <1>6, RowsTell, AgTypes
  <2>2. Banks!Move(f, c, now)
    BY <1>1, <1>6, <2>1
  <2> HIDE DEF c, now
  <2>3. Banks!Leave(f)
    BY <1>3, <2>1, <2>2 DEF Banks!Leave
  <2> QED
    BY <2>3 DEF Banks!Next
<1>7. CASE ~Known(tcam, f) /\ ~Known(tcam', f)
  <2>1. /\ ClassOf(tcam, sdk)[f] = Free /\ ClassOf(tcam', sdk')[f] = Free
        /\ HeldOf(tcam, sdk)[f] = {} /\ now = {}
    BY <1>7, RowsTell
  <2>2. ClassOf(tcam', sdk') = ClassOf(tcam, sdk)
    BY <1>3, <2>1 DEF ClassOf
  <2>3. RowMoved(tcam, sdk, tcam', sdk', f, DontCare)
    BY <1>7, AgTypes, RowMoves
  <2>4. HeldOf(tcam', sdk') = HeldOf(tcam, sdk)
    BY <2>1, <2>3 DEF RowMoved, HeldOf
  <2>5. \A b \in Bank : (\A h \in FgId \ {f} : b \notin HeldOf(tcam, sdk)[h])
                          => OwnerOf(tcam)[b] = Free
    BY <2>1, RowsTell DEF OwnerOf
  <2>6. OwnerOf(tcam') = OwnerOf(tcam)
    BY <2>1, <2>3, <2>5 DEF RowMoved, OwnerOf
  <2>7. RowMoved(tcam, sdk, tcam, sdk, f, DontCare)
    <3>1. OnlyRow(tcam, sdk, tcam, sdk, f)
      BY DEF OnlyRow
    <3> QED
      BY <1>7, <3>1, AgTypes, RowMoves
  <2>8. tcam'.total = tcam.total
    <3> DEFINE Total(owner) == [a \in AllocGroup \cup {Free} |->
                                 KeysIn[{b \in Bank : owner[b] = a}]]
    <3>1. tcam'.total = Total(OwnerOf(tcam'))
      BY <2>3 DEF RowMoved
    <3>2. tcam.total = Total(OwnerOf(tcam))
      BY <2>7 DEF RowMoved
    <3> HIDE DEF Total
    <3> QED
      BY <2>6, <3>1, <3>2
  <2> QED
    BY <2>2, <2>4, <2>6, <2>8 DEF Banks!bankvars
<1> QED
  BY <1>4, <1>5, <1>6, <1>7

(* What a booking after a change of f's entries leaves.                    *)
LEMMA BookRow ==
  ASSUME Told, NEW L, LedgerOK(L), NEW f \in FgId, NEW S \in Hardware, NEW S2 \in Hardware,
         NEW delta, NEW r \in BookResults(L, S2, f, delta),
         \A g \in FgId \ {f} : S2[g] = S[g], S2[f].shape = S[f].shape
  PROVE  /\ OnlyRow(L, S, r.tcam, r.sdk, f) /\ r.sdk[f].shape = S[f].shape
         /\ r.tcam.fgs[f].key = L.fgs[f].key
<1>1. HwBanks(S2[f]) \in SUBSET Bank
  BY GroupFacts DEF Hardware
<1>2. r.tcam = Updated(L, f, delta, HwBanks(S2[f])) /\ r.sdk = S2
  BY DEF BookResults, Result, Told
<1> QED
  BY <1>1, <1>2, UpdatedRow DEF OnlyRow

LEMMA AddRow ==
  ASSUME Told, NEW L, LedgerOK(L), NEW f \in FgId, NEW S \in Hardware,
         NEW e \in Entry, NEW p \in Placements(S, f),
         NEW r \in BookResults(L, Put(S, f, e, p), f, 1)
  PROVE  OnlyRow(L, S, r.tcam, r.sdk, f)
<1>1. p \in SUBSET Bank
  BY PlacementsInBanks
<1>2. Put(S, f, e, p) \in Hardware /\ IsPut(S, Put(S, f, e, p), f, e, p)
  BY <1>1, PutFacts
<1> QED
  BY <1>2, BookRow DEF IsPut

LEMMA RemoveRow ==
  ASSUME Told, NEW L, LedgerOK(L), NEW f \in FgId, NEW S \in Hardware,
         NEW e \in Entry, NEW r \in RemoveResults(L, S, f, e)
  PROVE  OnlyRow(L, S, r.tcam, r.sdk, f)
<1>1. Put(S, f, e, {}) \in Hardware /\ IsPut(S, Put(S, f, e, {}), f, e, {})
  BY PutFacts
<1>2. CASE r \in BookResults(L, Put(S, f, e, {}), f, -1)
  BY <1>1, <1>2, BookRow DEF IsPut
<1>3. CASE r \in BookResults(L, S, f, -1)
  BY <1>3, BookRow
<1> QED
  BY <1>2, <1>3 DEF RemoveResults

(* Every action writes the row of one group at most.                       *)
BankStep == \/ UNCHANGED <<tcam, sdk>>
            \/ \E f \in FgId : OnlyRow(tcam, sdk, tcam', sdk', f)

LEMMA FgSetRow == ASSUME Told, ExactInv, NEW t \in Tuple, FgSet(t) PROVE BankStep
<1>1. ASSUME NEW f \in FgId, ~sdk[f].live, NEW new, new = [sdk EXCEPT ![f] = NewGroup(ShapeOf[t])],
             \/ Take(Result(tcam, new, {}))
             \/ Take(Result(Initialised(tcam, f, ShapeOf[t], KeyDontCare), new, {}))
             \/ Take(Result(Initialised(tcam, f, ShapeOf[t], KeyOf(ShapeOf[t])), new, {}))
             \/ Populate(t, f, Initialised(tcam, f, ShapeOf[t], KeyOf(ShapeOf[t])), new)
      PROVE  BankStep
  <2> DEFINE L0 == Initialised(tcam, f, ShapeOf[t], KeyDontCare)
             L1 == Initialised(tcam, f, ShapeOf[t], KeyOf(ShapeOf[t]))
  <2>1. /\ sdk \in Hardware /\ LedgerOK(tcam) /\ InStep(tcam, sdk, f)
        /\ tcam.fgs \in [FgId -> FgInfo]
    BY DEF ExactInv, Exact, LedgerOK, Ledger
  <2>2. ~Known(tcam, f)
    BY <1>1, <2>1 DEF InStep, Known
  <2>3. LedgerOK(L1) /\ new \in Hardware
    <3>1. new \in Hardware
      BY <1>1, <2>1, GroupFacts, AgTypes DEF Hardware
    <3> QED
      BY <2>1, <3>1, InitialisedOK
  <2>4. /\ \A g \in FgId \ {f} : new[g] = sdk[g]
        /\ \A g \in FgId \ {f} : L0.fgs[g] = tcam.fgs[g] /\ L1.fgs[g] = tcam.fgs[g]
    <3>1. tcam \in Ledger
      BY <2>1 DEF LedgerOK
    <3>2. L0.fgs = [tcam.fgs EXCEPT ![f] =
            [banks |-> {}, nof |-> 0, ag |-> AgOf(ShapeOf[t]), key |-> KeyDontCare]]
      BY <3>1 DEF Initialised, Ledger
    <3>3. L1.fgs = [tcam.fgs EXCEPT ![f] =
            [banks |-> {}, nof |-> 0, ag |-> AgOf(ShapeOf[t]), key |-> KeyOf(ShapeOf[t])]]
      BY <3>1 DEF Initialised, Ledger
    <3> HIDE DEF L0, L1
    <3>4. \A g \in FgId \ {f} : L0.fgs[g] = tcam.fgs[g]
      BY <2>1, <3>2
    <3>5. \A g \in FgId \ {f} : L1.fgs[g] = tcam.fgs[g]
      BY <2>1, <3>3
    <3>6. \A g \in FgId \ {f} : new[g] = sdk[g]
      BY <1>1, <2>1 DEF Hardware
    <3> QED
      BY <3>4, <3>5, <3>6
  <2> HIDE DEF L0, L1
  <2>5. CASE Take(Result(tcam, new, {}))
    BY <2>2, <2>4, <2>5 DEF Take, Result, OnlyRow, BankStep
  <2>6. CASE Take(Result(L0, new, {}))
    BY <2>2, <2>4, <2>6 DEF Take, Result, OnlyRow, BankStep
  <2>7. CASE Take(Result(L1, new, {}))
    BY <2>2, <2>4, <2>7 DEF Take, Result, OnlyRow, BankStep
  <2>8. ASSUME NEW e \in Entry \ HwEntries(new[f]), NEW p \in Placements(new, f),
               NEW r \in BookResults(L1, Put(new, f, e, p), f, 1), Take(r)
        PROVE  BankStep
    <3>1. OnlyRow(L1, new, r.tcam, r.sdk, f)
      BY <2>3, AddRow
    <3> QED
      BY <2>2, <2>4, <2>8, <3>1 DEF Take, OnlyRow, BankStep
  <2>9. CASE Populate(t, f, L1, new)
    BY <2>7, <2>8, <2>9 DEF Populate
  <2> QED
    BY <1>1, <2>5, <2>6, <2>7, <2>9 DEF L0, L1
<1> QED
  BY <1>1 DEF FgSet, BankStep

LEMMA ScaleRow ==
  ASSUME Told, ExactInv, NEW t \in Tuple,
         ScaleUp(t) \/ \E e \in Entry : ScaleDown(t, e)
  PROVE  BankStep
<1>1. LedgerOK(tcam) /\ sdk \in Hardware
  BY DEF ExactInv, Exact
<1>2. CASE ScaleUp(t)
  <2> DEFINE f == gt[t].gid
  <2>1. f \in FgId
    BY <1>2 DEF ScaleUp, Alive
  <2>2. PICK e \in Entry \ HwEntries(sdk[f]), p \in Placements(sdk, f) :
          \E r \in BookResults(tcam, Put(sdk, f, e, p), f, 1) : Take(r)
    BY <1>2 DEF ScaleUp
  <2>3. PICK r \in BookResults(tcam, Put(sdk, f, e, p), f, 1) : Take(r)
    BY <2>2
  <2> HIDE DEF f
  <2>4. OnlyRow(tcam, sdk, r.tcam, r.sdk, f)
    BY <1>1, <2>1, AddRow
  <2> QED
    BY <2>1, <2>3, <2>4 DEF Take, BankStep
<1>3. ASSUME NEW e \in Entry, ScaleDown(t, e) PROVE BankStep
  <2> DEFINE f == gt[t].gid
  <2>1. CASE UNCHANGED <<tcam, sdk>>
    BY <2>1 DEF BankStep
  <2>2. ASSUME f \in FgId, NEW r \in RemoveResults(tcam, sdk, f, e), Take(r)
        PROVE  BankStep
    <3> HIDE DEF f
    <3>1. OnlyRow(tcam, sdk, r.tcam, r.sdk, f)
      BY <1>1, <2>2, RemoveRow
    <3> QED
      BY <2>2, <3>1 DEF Take, BankStep
  <2> QED
    BY <1>3, <2>1, <2>2 DEF ScaleDown, Alive
<1> QED
  BY <1>2, <1>3

LEMMA DestroyRowRow == ASSUME Told, ExactInv, NEW t \in Tuple, DestroyRow(t) PROVE BankStep
<1> DEFINE f == gt[t].gid
           after == IF gt[t].presel = 0 THEN {Result(tcam, sdk, {})}
                    ELSE RemoveResults(tcam, sdk, f, gt[t].presel)
<1>1. LedgerOK(tcam) /\ sdk \in Hardware /\ gt[t].presel \in Entry \cup {0}
  BY DEF ExactInv, Exact, ConsistentInv, TypeOK
<1>2. ASSUME Alive(sdk, f), NEW r \in after,
             \/ Take(r)
             \/ Take(Result(Dropped(r.tcam, f), [r.sdk EXCEPT ![f] = DeadGroup(@.shape)],
                            r.trips \cup DropTrips(r.tcam, f)))
      PROVE  BankStep
  <2>1. f \in FgId
    BY <1>2 DEF Alive
  <2>2. OnlyRow(tcam, sdk, r.tcam, r.sdk, f) /\ LedgerOK(r.tcam) /\ r.sdk \in Hardware
    <3>1. CASE gt[t].presel = 0
      <4>1. r.tcam = tcam /\ r.sdk = sdk
        BY <1>2, <3>1 DEF Result
      <4> QED
        BY <1>1, <4>1 DEF OnlyRow
    <3>2. CASE gt[t].presel # 0
      <4>1. gt[t].presel \in Entry /\ r \in RemoveResults(tcam, sdk, f, gt[t].presel)
        BY <1>1, <1>2, <3>2
      <4> HIDE DEF f, after
      <4> QED
        BY <1>1, <2>1, <4>1, RemoveRow, RemoveResultsOK
    <3> QED
      BY <3>1, <3>2
  <2> HIDE DEF f, after
  <2>3. CASE Take(r)
    BY <2>1, <2>2, <2>3 DEF Take, BankStep
  <2>4. CASE Take(Result(Dropped(r.tcam, f), [r.sdk EXCEPT ![f] = DeadGroup(@.shape)],
                         r.trips \cup DropTrips(r.tcam, f)))
    <3>1. /\ tcam'.fgs = [r.tcam.fgs EXCEPT ![f] = BlankInfo]
          /\ r.tcam.fgs \in [FgId -> FgInfo]
      <4>1. tcam' = Dropped(r.tcam, f)
        BY <2>4 DEF Take, Result
      <4> QED
        BY <2>1, <2>2, <4>1, DroppedOK DEF LedgerOK, Ledger
    <3>2. ~Known(tcam', f) /\ \A g \in FgId \ {f} : tcam'.fgs[g] = r.tcam.fgs[g]
      BY <2>1, <3>1 DEF Known, BlankInfo
    <3>3. \A g \in FgId \ {f} : sdk'[g] = r.sdk[g]
      BY <2>2, <2>4 DEF Take, Result, Hardware
    <3> QED
      BY <2>1, <2>2, <3>2, <3>3 DEF OnlyRow, BankStep
  <2> QED
    BY <1>2, <2>3, <2>4
<1>3. \/ UNCHANGED <<tcam, sdk>>
      \/ /\ Alive(sdk, f)
         /\ \E r \in after :
              \/ Take(r)
              \/ Take(Result(Dropped(r.tcam, f), [r.sdk EXCEPT ![f] = DeadGroup(@.shape)],
                             r.trips \cup DropTrips(r.tcam, f)))
  BY DEF DestroyRow
<1> QED
  BY <1>2, <1>3 DEF BankStep

LEMMA NextRow == ASSUME Told, ExactInv, [Next]_vars PROVE BankStep
<1>1. ASSUME NEW t \in Tuple, FgSet(t) PROVE BankStep
  BY <1>1, FgSetRow
<1>2. ASSUME NEW t \in Tuple, ScaleUp(t) \/ \E e \in Entry : ScaleDown(t, e) PROVE BankStep
  BY <1>2, ScaleRow
<1>3. ASSUME NEW t \in Tuple, DestroyTuple(t) \/ SweepTuple(t) PROVE BankStep
  BY <1>3, DestroyRowRow DEF DestroyTuple, SweepTuple
<1>4. ~EntryDeleteAll
  BY DEF EntryDeleteAll, Told
<1>5. \A f \in FgId : ~UncountedAdd(f) /\ \A e \in Entry : ~UncountedRemove(f, e)
  BY DEF UncountedAdd, UncountedRemove, Told
<1>6. CASE UNCHANGED vars
  BY <1>6 DEF vars, BankStep
<1> QED
  BY <1>1, <1>2, <1>3, <1>4, <1>5, <1>6 DEF Next

LEMMA InitBanks == Init => Banks!Init
<1> SUFFICES ASSUME Init PROVE Banks!Init
  OBVIOUS
<1>1. /\ \A f \in FgId : tcam.fgs[f] = BlankInfo
      /\ \A b \in Bank : tcam.banks[b] = [ag |-> Free, refcnt |-> 0]
      /\ tcam.total = [a \in AllocGroup \cup {Free} |-> IF a = Free THEN KeysIn[Bank] ELSE 0]
  BY DEF Init, InitLedger
<1>2. \A f \in FgId : ~Known(tcam, f)
  BY <1>1 DEF Known, BlankInfo
<1>3. /\ ClassOf(tcam, sdk) = [f \in FgId |-> Free]
      /\ HeldOf(tcam, sdk) = [f \in FgId |-> {}]
      /\ OwnerOf(tcam) = [b \in Bank |-> Free]
  BY <1>1, <1>2 DEF ClassOf, HeldOf, OwnerOf
<1>4. ASSUME NEW a \in AllocGroup \cup {Free}
      PROVE  KeysIn[{b \in Bank : a = Free}] = IF a = Free THEN KeysIn[Bank] ELSE 0
  <2>1. CASE a = Free
    <3>1. {b \in Bank : a = Free} = Bank
      BY <2>1
    <3> QED
      BY <2>1, <3>1
  <2>2. CASE a # Free
    <3>1. {b \in Bank : a = Free} = {}
      BY <2>2
    <3> QED
      BY <2>2, <3>1, SumAssumption
  <2> QED
    BY <2>1, <2>2
<1>5. tcam.total = [a \in AllocGroup \cup {Free} |-> KeysIn[{b \in Bank : a = Free}]]
  BY <1>1, <1>4
<1> QED
  BY <1>3, <1>5 DEF Banks!Init

(* Told of every change, the account of reference counts, merged bank lists*)
(* and running totals implements the plain ownership of banks: seen from   *)
(* outside, every handler claims and frees the banks of one group in a     *)
(* single step that nothing refuses, and no bank passes from one AG to     *)
(* another unless it was free.                                             *)
THEOREM LedgerOwnsBanks == ASSUME Told PROVE Spec => ImplementsPmfBanks
<1>1. ExactInv /\ ExactInv' /\ [Next]_vars => [Banks!Next]_(Banks!bankvars)
  <2> SUFFICES ASSUME ExactInv, ExactInv', [Next]_vars PROVE [Banks!Next]_(Banks!bankvars)
    OBVIOUS
  <2>1. Exact(tcam, sdk) /\ Exact(tcam', sdk')
    BY DEF ExactInv
  <2>2. CASE UNCHANGED <<tcam, sdk>>
    BY <2>2 DEF Banks!bankvars, ClassOf, HeldOf, OwnerOf, Known
  <2>3. ASSUME NEW f \in FgId, OnlyRow(tcam, sdk, tcam', sdk', f)
        PROVE  [Banks!Next]_(Banks!bankvars)
    BY <2>1, <2>3, RowSteps
  <2> QED
    BY <2>2, <2>3, NextRow DEF BankStep
<1> QED
  BY <1>1, InitBanks, AlwaysExact, PTL DEF Spec, ImplementsPmfBanks, Banks!Spec
=============================================================================
