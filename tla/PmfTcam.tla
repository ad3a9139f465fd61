------------------------------- MODULE PmfTcam -------------------------------
(***************************************************************************)
(* The TCAM ledger of the PMF/ACL manager, src/lag/cint_j2/acl.c.          *)
(*                                                                         *)
(* The manager keeps, beside the Broadcom SDK, its own account of which    *)
(* TCAM banks each field group (FG) occupies, which allocation group (AG)  *)
(* owns each bank, and how many entries and 80-bit keys each AG uses; from *)
(* it, it tells an operator how many more entries fit.  The variable tcam  *)
(* is that account (struct bcm_dnx_tcam_info_t), gt the static tables of   *)
(* group tuples the callers pass around, ids the entry ids a caller of     *)
(* fe_scale_up holds.  sdk is the SDK and the chip: which groups exist and *)
(* in which banks every entry really sits.                                 *)
(*                                                                         *)
(* The program is a single CINT thread, so an action is a whole handler    *)
(* (for loops over tuples and entries: one iteration).  What varies is     *)
(* what the SDK answers (Sdk: the adverse answers allowed) and how the     *)
(* callers use the API (Caller: the deviations from set, scale, clear).    *)
(* A handler's guard is the handler's own; what its callers see to before  *)
(* they call it stands in the section on the callers and in Next.          *)
(***************************************************************************)
EXTENDS Integers, FiniteSets, FiniteSetsExt

CONSTANTS
  FgId,         \* group ids the SDK hands out, all below BCM_DNX_MAX_FG_ID
  NoGroup,      \* BCM_DNX_INVALID_ID, above it
  Tuple,        \* the rows of the group tuple tables
  ShapeOf,      \* [Tuple -> FG type x direction], the static columns of a row
  BitsOf,       \* bits of the qualifiers and of the actions of each FG type
  SweptRows,    \* the rows of g_gtuple, the table of test_fgs
  Bank,         \* TCAM bank ids
  KeysPerBank,  \* 80-bit keys a bank holds
  KeysIn,       \* 80-bit keys a set of banks holds: the sum of theirs
  Entry,        \* entry ids of a group; 0 is the "no entry" of presel_id
  Sdk,          \* adverse SDK answers that may happen
  Caller,       \* deviations of the callers that may happen
  Limit         \* bound of the model on what the ledger counts

SdkFaults == {"group_add", "attach", "key_size", "info_get", "entry_add",
              "entry_delete", "group_delete", "drops_entries", "shares_banks"}
CallerFaults == {"rerun", "stale_ids", "delete_all", "uncounted"}

ASSUME ConstantsAssumption ==
  /\ FgId \subseteq Nat /\ IsFiniteSet(FgId) /\ NoGroup \notin FgId
  /\ Bank \subseteq Nat /\ IsFiniteSet(Bank)
  /\ KeysPerBank \in [Bank -> Nat]
  /\ Entry \subseteq Nat /\ 0 \notin Entry
  /\ SweptRows \subseteq Tuple
  /\ Sdk \subseteq SdkFaults /\ Caller \subseteq CallerFaults
  /\ Limit \in Nat

(* All the ledger needs to know of the sum: it counts each bank once.      *)
ASSUME SumAssumption ==
  /\ KeysIn \in [SUBSET Bank -> Nat]
  /\ KeysIn[{}] = 0
  /\ \A b \in Bank : KeysIn[{b}] = KeysPerBank[b]
  /\ \A B, C \in SUBSET Bank :
       B \cap C = {} => KeysIn[B \cup C] = KeysIn[B] + KeysIn[C]

(* bcm_dnx_sdk_fgs[]: the allocation group, the declared key size in 80-bit*)
(* units and, for groups that select their bank, the bank.                 *)
Row(ag, key, select) == [ag |-> ag, key |-> key, select |-> select]
FgTable ==
  [IPV4     |-> Row("V4V6", 2, {}),       IPV6     |-> Row("V4V6", 4, {}),
   L2       |-> Row("L2", 2, {}),         QOS_V4   |-> Row("COPP", 2, {}),
   QOS_V6   |-> Row("COPP", 4, {}),       QOS_L2   |-> Row("COPP", 2, {}),
   DEF_COPP |-> Row("DONT_CARE", 4, {12}), USR_COPP |-> Row("COPP", 4, {}),
   TUPLE    |-> Row("V4V6", 4, {}),       TUPLE6   |-> Row("V4V6", 4, {}),
   PRE_COPP |-> Row("DONT_CARE", 2, {14}), COPP_HDR |-> Row("SFLOW", 1, {15})]

Shape == (DOMAIN FgTable) \X {"INGRESS", "EGRESS"}

ASSUME ShapeAssumption == ShapeOf \in [Tuple -> Shape]

Free == <<"FREE", "INGRESS">>
DontCare == <<"DONT_CARE", "INGRESS">>

(* BCM_DNX_AG_x, moved up by BCM_DNX_AG_MAX for an egress group; of the    *)
(* per-AG counters only those of groups in the tables are kept.            *)
AgOf(shape) == <<FgTable[shape[1]].ag, shape[2]>>
AllocGroup == {AgOf(ShapeOf[t]) : t \in Tuple} \cup {DontCare}
WideKey == 4                                   \* BCM_DNX_FG_KEY_320
KeyDontCare == 0                               \* BCM_DNX_FG_KEY_DONT_CARE

(* The key of a group, in units: as many as its qualifiers take, or more if*)
(* its actions do.  Three are rounded up to four; more there are not.      *)
KeySize(bits, base) ==
  LET size == (bits - 1) \div base + 1
  IN  IF bits <= 0 \/ size > WideKey THEN KeyDontCare
      ELSE IF size = 3 THEN WideKey ELSE size
KeyOf(shape) ==
  LET bits == BitsOf[shape[1]]
      quals == KeySize(bits.quals, 80)
      actions == KeySize(bits.actions, 32)
  IN  IF actions > quals THEN actions ELSE quals

(* The qualifiers and actions the tables list fit the declared key size; a *)
(* size that comes out as "don't care" is the SDK's "key_size" answer.     *)
ASSUME BitsAssumption ==
  \A type \in DOMAIN FgTable : KeyOf(<<type, "INGRESS">>) = FgTable[type].key

VARIABLES
  tcam,      \* g_bcm_dnx_tcam_info
  gt,        \* group_id and presel_id of each row of the tuple tables
  ids,       \* the entry ids each row's fe_scale_up caller believes it owns
  sweep,     \* rows bcm_dnx_pmf_test_fgs_destroy still has to visit
  sdk,       \* external: groups that exist, where their entries sit
  tripped    \* the assert()s of the ledger that have failed so far

vars == <<tcam, gt, ids, sweep, sdk, tripped>>

(***************************************************************************)
(* The SDK and the chip (external).                                        *)
(***************************************************************************)
NoPlaces == [e \in Entry |-> {}]
HwBanks(g) == UNION {g.at[e] : e \in Entry}
HwEntries(g) == {e \in Entry : g.at[e] # {}}

(* An entry of a wide group takes half its keys in each bank of an aligned *)
(* pair, any other entry all its keys in one bank.                         *)
Pair(b) == IF b % 2 = 0 THEN {b, b + 1} ELSE {b - 1, b}
Partner(b) == CHOOSE c \in Pair(b) : c # b
Wide(shape) == KeyOf(shape) = WideKey
KeysPerPlace(shape) == IF Wide(shape) THEN WideKey \div 2 ELSE KeyOf(shape)
Places(shape) ==
  LET select  == FgTable[shape[1]].select
      allowed == IF select = {} THEN Bank ELSE select \cap Bank
  IN  IF Wide(shape) THEN {Pair(b) : b \in allowed} \cap SUBSET Bank
                     ELSE {{b} : b \in allowed}
KeysUsed(S, b) ==
  MapThenSumSet(LAMBDA f : KeysPerPlace(S[f].shape)
                             * Cardinality({e \in Entry : b \in S[f].at[e]}), FgId)

(* The application keeps groups that may match one packet out of one bank; *)
(* unless "shares_banks", the SDK's automatic placement respects that.     *)
Compatible(S, f, banks) ==
  \A g \in FgId \ {f} :
    HwBanks(S[g]) \cap banks # {} => AgOf(S[g].shape) = AgOf(S[f].shape)
Placements(S, f) ==
  {p \in Places(S[f].shape) :
     /\ \A b \in p : KeysUsed(S, b) + KeysPerPlace(S[f].shape) <= KeysPerBank[b]
     /\ "shares_banks" \in Sdk \/ Compatible(S, f, p)}

Alive(S, f) == f \in FgId /\ S[f].live
DeadGroup(shape) == [live |-> FALSE, shape |-> shape, at |-> NoPlaces]
NewGroup(shape) == [live |-> TRUE, shape |-> shape, at |-> NoPlaces]
Put(S, f, e, p) == [S EXCEPT ![f].at[e] = p]     \* p = {}: take it out

(***************************************************************************)
(* Plausible bugs: each stands for one definition below in a mutation run. *)
(***************************************************************************)
BlankInfoIsFree == [banks |-> {}, nof |-> 0, ag |-> Free, key |-> KeyDontCare]
CanAddAnyBank(L, b, ag) == TRUE
RemovedAlwaysFrees(r) == [ag |-> Free, refcnt |-> r.refcnt - 1]
RemovedNeverFrees(r) == [ag |-> r.ag, refcnt |-> r.refcnt - 1]
DifferingOnlyAdds(L, f, now) == now \ L.fgs[f].banks
BookedKeepsBanks(L, f, delta, now) ==
  LET ag == L.fgs[f].ag
  IN  [L EXCEPT !.entries[ag] = @ + delta,
                !.keys[ag] = @ + delta * L.fgs[f].key,
                !.fgs[f].nof = @ + delta]
UnpairedAnyNeighbour(ag) ==
  {b \in Bank : LET o == Partner(b)
                IN  o \in Bank /\ tcam.banks[b].ag # tcam.banks[o].ag}
AdjustForNone(f) == 0
RemoveUnbooked(L, S, f, e) ==
  {[tcam |-> L, sdk |-> Put(S, f, e, {}), trips |-> {}]}
VacatedKeepsId(row) == [row EXCEPT !.presel = 0]

(***************************************************************************)
(* The ledger: operators from a ledger to a ledger.                        *)
(***************************************************************************)
BlankInfo == [banks |-> {}, nof |-> 0, ag |-> DontCare, key |-> KeyDontCare]

(* bcm_dnx_pmf_tcam_bank_remove_from_ag / _add_to_ag on one bank: when it  *)
(* is refused, and the record it leaves.                                   *)
CanRemove(L, b, ag) == L.banks[b].refcnt > 0 /\ L.banks[b].ag = ag
CanAdd(L, b, ag) == L.banks[b].ag \in {ag, Free}
Removed(r) == [ag |-> IF r.refcnt = 1 THEN Free ELSE r.ag, refcnt |-> r.refcnt - 1]
Added(r, ag) == [ag |-> ag, refcnt |-> r.refcnt + 1]

(* A set of banks leaves (out) and another joins (in) an allocation group: *)
(* refcounts per bank, and the totals by the banks that became free or     *)
(* stopped being so.                                                       *)
Moved(L, ag, out, in) ==
  LET freed   == {b \in out : L.banks[b].refcnt = 1}
      claimed == {b \in in : L.banks[b].ag # ag}
      gain    == KeysIn[freed] - KeysIn[claimed]
  IN  [fgs |-> L.fgs, entries |-> L.entries, keys |-> L.keys,
       banks |-> [b \in Bank |-> IF b \in out THEN Removed(L.banks[b])
                                 ELSE IF b \in in THEN Added(L.banks[b], ag)
                                 ELSE L.banks[b]],
       total |-> [a \in AllocGroup \cup {Free} |->
                    IF a = Free THEN L.total[a] + gain
                    ELSE IF a = ag THEN L.total[a] - gain
                    ELSE L.total[a]]]

(* bcm_dnx_pmf_tcam_fg_info_update: the merge of the remembered and the    *)
(* current bank list, ascending, stops at the first bank that is refused   *)
(* and leaves what it did before; only a complete merge books the entry.   *)
Differing(L, f, now) == SymDiff(L.fgs[f].banks, now)
Refused(L, f, now) ==
  {b \in Differing(L, f, now) :
     IF b \in now THEN ~CanAdd(L, b, L.fgs[f].ag) ELSE ~CanRemove(L, b, L.fgs[f].ag)}
Merged(L, f, now) ==
  LET done == {b \in Differing(L, f, now) : \A r \in Refused(L, f, now) : b < r}
  IN  Moved(L, L.fgs[f].ag, done \ now, done \cap now)
Booked(L, f, delta, now) ==
  LET ag == L.fgs[f].ag
  IN  [banks |-> L.banks, total |-> L.total,
       entries |-> [L.entries EXCEPT ![ag] = @ + delta],
       keys |-> [L.keys EXCEPT ![ag] = @ + delta * L.fgs[f].key],
       fgs |-> [L.fgs EXCEPT ![f] = [banks |-> now, nof |-> @.nof + delta,
                                     ag |-> ag, key |-> @.key]]]
Updatable(L, f) == L.fgs[f].key # KeyDontCare
Succeeds(L, f, now) == Updatable(L, f) /\ Refused(L, f, now) = {}
Updated(L, f, delta, now) ==
  IF Succeeds(L, f, now) THEN Booked(Merged(L, f, now), f, delta, now)
  ELSE IF Updatable(L, f) THEN Merged(L, f, now)
  ELSE L

(* The assert()s of bank_remove_from_ag the same call trips: the first     *)
(* refused bank is one being given back.                                   *)
UpdateTrips(L, f, now) ==
  IF Updatable(L, f) /\ \E b \in Refused(L, f, now) \ now :
                           \A r \in Refused(L, f, now) : b <= r
  THEN {"refcnt"} ELSE {}

(* bcm_dnx_pmf_tcam_fg_info_destroy: a refused bank is skipped, the FG's   *)
(* row is cleared, its entries stay in the per-AG counters.                *)
Dropped(L, f) ==
  LET ag  == L.fgs[f].ag
      out == {b \in L.fgs[f].banks : CanRemove(L, b, ag)}
  IN  [Moved(L, ag, out, {}) EXCEPT !.fgs = [@ EXCEPT ![f] = BlankInfo]]
DropTrips(L, f) ==
  IF \E b \in L.fgs[f].banks : ~CanRemove(L, b, L.fgs[f].ag) THEN {"refcnt"} ELSE {}

(* bcm_dnx_pmf_tcam_fg_info_init; key is what bcm_dnx_sdk_fg_get_key_size  *)
(* finds, KeyDontCare when it fails.                                       *)
Initialised(L, f, shape, key) ==
  [L EXCEPT !.fgs = [@ EXCEPT ![f] =
     [banks |-> {}, nof |-> 0, ag |-> AgOf(shape), key |-> key]]]

(***************************************************************************)
(* What get and get_max answer.  Quot is the division of C.                *)
(***************************************************************************)
AtLeast0(n) == IF n > 0 THEN n ELSE 0
Quot(n, d) == IF n >= 0 THEN n \div d ELSE -((-n) \div d)
FreeInFreeBanks(f) == tcam.total[Free] \div tcam.fgs[f].key
GuaranteedInUsedBanks(f) ==
  LET ag   == tcam.fgs[f].ag
      held == Max({tcam.entries[ag] * tcam.fgs[f].key, tcam.keys[ag]})
  IN  AtLeast0(tcam.total[ag] - held) \div tcam.fgs[f].key
MaxInUsedBanks(f) ==
  LET ag == tcam.fgs[f].ag
  IN  Quot(tcam.total[ag] - tcam.keys[ag], tcam.fgs[f].key)

(* bcm_dnx_pmf_tcam_fg_info_adjust_320: banks counted as free or as the    *)
(* AG's own that no wide entry can use, their neighbour being another AG's *)
Unpaired(ag) ==
  {b \in Bank : LET o == Partner(b)
                IN  /\ o \in Bank
                    /\ tcam.banks[b].ag # tcam.banks[o].ag
                    /\ \/ tcam.banks[b].ag = Free /\ tcam.banks[o].ag # ag
                       \/ tcam.banks[b].ag = ag /\ tcam.banks[o].ag # Free}
Adjust320(ag) == MapThenSumSet(LAMBDA b : KeysPerBank[b] \div WideKey, Unpaired(ag))
AdjustFor(f) == IF tcam.fgs[f].key = WideKey THEN Adjust320(tcam.fgs[f].ag) ELSE 0

GuaranteedFree(f) ==
  AtLeast0(FreeInFreeBanks(f) - AdjustFor(f) + GuaranteedInUsedBanks(f))
MaxFree(f) == AtLeast0(FreeInFreeBanks(f) - AdjustFor(f) + MaxInUsedBanks(f))
TotalEntries(f) ==
  (tcam.total[tcam.fgs[f].ag] + tcam.total[Free]) \div tcam.fgs[f].key - AdjustFor(f)

(***************************************************************************)
(* Initial state: bcm_dnx_pmf_tcam_info_init has run, no group exists.     *)
(***************************************************************************)
NoShape == CHOOSE s \in Shape : TRUE   \* of an id not handed out yet
InitLedger ==
  [fgs     |-> [f \in FgId |-> BlankInfo],
   banks   |-> [b \in Bank |-> [ag |-> Free, refcnt |-> 0]],
   entries |-> [a \in AllocGroup |-> 0],
   keys    |-> [a \in AllocGroup |-> 0],
   total   |-> [a \in AllocGroup \cup {Free} |-> IF a = Free THEN KeysIn[Bank] ELSE 0]]

Init ==
  /\ tcam = InitLedger
  /\ gt = [t \in Tuple |-> [gid |-> NoGroup, presel |-> 0]]
  /\ ids = [t \in Tuple |-> {}]
  /\ sweep = {}
  /\ sdk = [f \in FgId |-> DeadGroup(NoShape)]
  /\ tripped = {}

(***************************************************************************)
(* The calls the handlers are made of: what they may leave behind.         *)
(***************************************************************************)
Result(L, S, trips) == [tcam |-> L, sdk |-> S, trips |-> trips]
WithinLimit(L) ==
  /\ \A f \in FgId : L.fgs[f].nof \in -Limit .. Limit
  /\ \A a \in AllocGroup :
       /\ L.entries[a] \in -Limit .. Limit
       /\ L.keys[a] \in -(WideKey * Limit) .. WideKey * Limit
  /\ \A b \in Bank : L.banks[b].refcnt <= Limit + 1
Take(r) ==
  /\ WithinLimit(r.tcam)
  /\ tcam' = r.tcam /\ sdk' = r.sdk /\ tripped' = tripped \cup r.trips

(* The update that follows an SDK call on the entries of f: the SDK may    *)
(* not answer bcm_field_group_info_get, and then nothing is booked.        *)
BookResults(L, S, f, delta) ==
  LET now == HwBanks(S[f])
  IN  {Result(Updated(L, f, delta, now), S, UpdateTrips(L, f, now))}
        \cup (IF "info_get" \in Sdk THEN {Result(L, S, {})} ELSE {})

(* bcm_dnx_sdk_fe_destroy, its result ignored, then the update by -1.      *)
RemoveResults(L, S, f, e) ==
  LET gone == Put(S, f, e, {})
  IN  BookResults(L, gone, f, -1)
        \cup (IF "entry_delete" \in Sdk THEN BookResults(L, S, f, -1) ELSE {})

(* bcm_field_entry_add may be refused, or never be reached.                *)
AddRefused(S, f) == Placements(S, f) = {} \/ Sdk \cap {"entry_add", "info_get"} # {}

(* bcm_dnx_pmf_test_fg_populate on group f of row t, from ledger L and     *)
(* hardware S; presel_id is written as soon as the SDK has the entry.      *)
Populate(t, f, L, S) ==
  \/ /\ AddRefused(S, f)
     /\ Take(Result(L, S, {}))
     /\ gt' = [gt EXCEPT ![t].gid = f]
  \/ \E e \in Entry \ HwEntries(S[f]), p \in Placements(S, f) :
       /\ \E r \in BookResults(L, Put(S, f, e, p), f, 1) : Take(r)
       /\ gt' = [gt EXCEPT ![t] = [gid |-> f, presel |-> e]]

(***************************************************************************)
(* The handlers.                                                           *)
(***************************************************************************)
(* One row of bcm_dnx_pmf_test_fg_set: forget the row's group, create one  *)
(* (bcm_dnx_sdk_fg_create), enter it in the ledger, give it a first entry, *)
(* which bcm_dnx_pmf_test_fgs does not do for the rows of g_gtuple.        *)
(* The group id is stored before the attach, which may fail and end it.    *)
(* The row's own ids are none to begin with: those of a group it had before*)
(* are stale now, and that group is nobody's.                              *)
FgSet(t) ==
  /\ sweep = {}
  /\ \/ /\ "group_add" \in Sdk \/ \A f \in FgId : sdk[f].live
        /\ gt' = [gt EXCEPT ![t].gid = NoGroup]
        /\ UNCHANGED <<tcam, sdk, tripped>>
     \/ \E f \in FgId :
          LET new == [sdk EXCEPT ![f] = NewGroup(ShapeOf[t])]
          IN  /\ ~sdk[f].live
              /\ \/ /\ "attach" \in Sdk
                    /\ Take(Result(tcam, new, {}))
                    /\ gt' = [gt EXCEPT ![t].gid = f]
                 \/ /\ "key_size" \in Sdk
                    /\ Take(Result(Initialised(tcam, f, ShapeOf[t], KeyDontCare), new, {}))
                    /\ gt' = [gt EXCEPT ![t].gid = f]
                 \/ LET L == Initialised(tcam, f, ShapeOf[t], KeyOf(ShapeOf[t]))
                    IN  IF t \in SweptRows
                        THEN Take(Result(L, new, {})) /\ gt' = [gt EXCEPT ![t].gid = f]
                        ELSE Populate(t, f, L, new)
  /\ ids' = [ids EXCEPT ![t] = {}]
  /\ UNCHANGED sweep

(* One iteration of bcm_dnx_pmf_fgs_fe_scale_up: populate, but presel_id   *)
(* is put back, and the caller counts the id as its own only on success.   *)
(* Without a group, populate ends before it changes anything.              *)
ScaleUp(t) ==
  LET f == gt[t].gid
  IN  /\ sweep = {} /\ Alive(sdk, f)
      /\ \E e \in Entry \ HwEntries(sdk[f]), p \in Placements(sdk, f) :
           \E r \in BookResults(tcam, Put(sdk, f, e, p), f, 1) :
             /\ Take(r)
             /\ ids' = IF r.tcam.fgs[f].nof = tcam.fgs[f].nof THEN ids
                       ELSE [ids EXCEPT ![t] = @ \cup {e}]
      /\ UNCHANGED <<gt, sweep>>

(* One iteration of bcm_dnx_pmf_fgs_fe_scale_down: the entry goes, if the  *)
(* SDK has it and lets it, and the count drops either way.  On a row whose *)
(* group is gone the deletion fails and the lookup is out of range.        *)
ScaleDown(t, e) ==
  LET f == gt[t].gid
  IN  /\ sweep = {}
      /\ IF Alive(sdk, f)
         THEN \E r \in RemoveResults(tcam, sdk, f, e) : Take(r)
         ELSE /\ tripped' = tripped \cup {"fg_id"}
              /\ UNCHANGED <<tcam, sdk>>
      /\ ids' = [ids EXCEPT ![t] = @ \ {e}]
      /\ UNCHANGED <<gt, sweep>>

(* What destroy_int leaves of a row whose group the SDK has deleted.       *)
Vacated(row) == [row EXCEPT !.gid = NoGroup, !.presel = 0]

(* One row of bcm_dnx_pmf_test_fgs_destroy_int.  A row whose creation      *)
(* failed after a rerun has a presel_id but no group: the lookup is out of *)
(* range.  Otherwise the entry goes, then the group, if the SDK lets it.   *)
DestroyRow(t) ==
  LET f     == gt[t].gid
      after == IF gt[t].presel = 0 THEN {Result(tcam, sdk, {})}
               ELSE RemoveResults(tcam, sdk, f, gt[t].presel)
  IN  \/ /\ ~Alive(sdk, f)
         /\ tripped' = tripped \cup (IF gt[t].presel # 0 THEN {"fg_id"} ELSE {})
         /\ gt' = [gt EXCEPT ![t].presel = 0]
         /\ UNCHANGED <<tcam, ids, sdk>>
      \/ /\ Alive(sdk, f)
         /\ \E r \in after :
              \/ /\ HwEntries(r.sdk[f]) # {} \/ "group_delete" \in Sdk
                 /\ Take(r)
                 /\ gt' = [gt EXCEPT ![t].presel = 0]
                 /\ UNCHANGED ids
              \/ /\ HwEntries(r.sdk[f]) = {} \/ "drops_entries" \in Sdk
                 /\ Take(Result(Dropped(r.tcam, f),
                                [r.sdk EXCEPT ![f] = DeadGroup(@.shape)],
                                r.trips \cup DropTrips(r.tcam, f)))
                 /\ gt' = [gt EXCEPT ![t] = Vacated(@)]
                 /\ ids' = [ids EXCEPT ![t] = {}]

DestroyTuple(t) ==
  /\ sweep = {} /\ gt[t] # [gid |-> NoGroup, presel |-> 0]
  /\ DestroyRow(t)
  /\ UNCHANGED sweep

(* bcm_dnx_pmf_test_fgs_destroy: every entry of the unit goes at once, of  *)
(* whatever table, then the rows of g_gtuple are destroyed in turn.        *)
EntryDeleteAll ==
  /\ "delete_all" \in Caller /\ sweep = {} /\ SweptRows # {}
  /\ sdk' = [f \in FgId |-> [sdk[f] EXCEPT !.at = NoPlaces]]
  /\ sweep' = SweptRows
  /\ UNCHANGED <<tcam, gt, ids, tripped>>
SweepTuple(t) ==
  /\ t \in sweep
  /\ DestroyRow(t)
  /\ sweep' = sweep \ {t}

(* Entries added and removed behind the ledger's back:                     *)
(* bcm_dnx_sdk_blank_fe_action_create and the packet tests'                *)
(* bcm_dnx_sdk_test_add_fe, bcm_dnx_sdk_fe_destroy called on its own.      *)
UncountedAdd(f) ==
  /\ "uncounted" \in Caller /\ sweep = {} /\ sdk[f].live
  /\ \E e \in Entry \ HwEntries(sdk[f]), p \in Placements(sdk, f) :
       sdk' = Put(sdk, f, e, p)
  /\ UNCHANGED <<tcam, gt, ids, sweep, tripped>>
UncountedRemove(f, e) ==
  /\ "uncounted" \in Caller /\ sweep = {}
  /\ sdk[f].at[e] # {}
  /\ sdk' = Put(sdk, f, e, {})
  /\ UNCHANGED <<tcam, gt, ids, sweep, tripped>>

(***************************************************************************)
(* The callers.                                                            *)
(***************************************************************************)
(* fgs_test_all and the _c commands destroy a row before they set it anew, *)
(* which leaves it without a presel_id, whether or not the SDK let the     *)
(* group go; "rerun": a table is set while its first entries stand.        *)
Cleared(t) == gt[t].presel = 0 \/ "rerun" \in Caller

(* The caller of scale_down passes ids that scale_up gave it for the group *)
(* the row has; "stale_ids": any.                                          *)
Owns(t, e) == e \in ids[t] \/ "stale_ids" \in Caller

Next ==
  \/ \E t \in Tuple : Cleared(t) /\ FgSet(t)
  \/ \E t \in Tuple : ScaleUp(t) \/ DestroyTuple(t) \/ SweepTuple(t)
  \/ \E t \in Tuple, e \in Entry : Owns(t, e) /\ ScaleDown(t, e)
  \/ EntryDeleteAll
  \/ \E f \in FgId : UncountedAdd(f)
  \/ \E f \in FgId, e \in Entry : UncountedRemove(f, e)

Spec == Init /\ [][Next]_vars

-----------------------------------------------------------------------------
FgInfo == [banks : SUBSET Bank, nof : Int, ag : AllocGroup, key : {0, 1, 2, 4}]
BankInfo == [ag : AllocGroup \cup {Free}, refcnt : Nat]
Group == [live : BOOLEAN, shape : Shape, at : [Entry -> SUBSET Bank]]
Ledger == [fgs     : [FgId -> FgInfo],
           banks   : [Bank -> BankInfo],
           entries : [AllocGroup -> Int],
           keys    : [AllocGroup -> Int],
           total   : [AllocGroup \cup {Free} -> Int]]

(* Types of the ledger, the tuple tables and the hardware.                 *)
TypeOK ==
  /\ tcam \in Ledger
  /\ gt \in [Tuple -> [gid : FgId \cup {NoGroup}, presel : Entry \cup {0}]]
  /\ ids \in [Tuple -> SUBSET Entry]
  /\ sweep \subseteq Tuple
  /\ sdk \in [FgId -> Group]
  /\ tripped \subseteq {"fg_id", "refcnt"}

(* total_keys_per_alloc_group is, for every AG and for the free pool, the  *)
(* capacity of the banks the ledger gives to it, whatever sequence of      *)
(* merges, half-done merges and teardowns moved banks about.               *)
TotalsMatchBanks ==
  \A a \in AllocGroup \cup {Free} :
    tcam.total[a] = KeysIn[{b \in Bank : tcam.banks[b].ag = a}]

(* A bank is in the free pool exactly when nothing references it: no call  *)
(* sequence strands a bank in an AG with no reference, or frees one that   *)
(* is still referenced.                                                    *)
FreeIffUnreferenced ==
  \A b \in Bank : tcam.banks[b].ag = Free <=> tcam.banks[b].refcnt = 0

(* The groups whose bank list contains b.                                  *)
Trackers(L, b) == {f \in FgId : b \in L.fgs[f].banks}

(* refcnt counts the groups that list the bank, and every group that lists *)
(* it is of the AG that owns it: what bank_remove_from_ag asserts before   *)
(* giving a bank back (acl.c assert(0 < refcnt), assert(alloc_group == ..))*)
RefcntCountsTrackers ==
  \A b \in Bank :
    /\ tcam.banks[b].refcnt = Cardinality(Trackers(tcam, b))
    /\ \A f \in Trackers(tcam, b) : tcam.banks[b].ag = tcam.fgs[f].ag

(* The banks the ledger remembers for an initialised group are those where *)
(* the SDK keeps its entries, so the next merge starts from the truth.     *)
BanksMatchHardware ==
  \A f \in FgId :
    tcam.fgs[f].key # KeyDontCare => tcam.fgs[f].banks = HwBanks(sdk[f])

(* The per-group and per-AG entry and key counters are those of the        *)
(* entries really installed, and no AG is charged for a group that is gone.*)
SumOver(a, F(_)) == MapThenSumSet(F, {f \in FgId : sdk[f].live /\ AgOf(sdk[f].shape) = a})
CountersMatchHardware ==
  /\ \A f \in FgId : sdk[f].live => tcam.fgs[f].nof = Cardinality(HwEntries(sdk[f]))
  /\ \A a \in AllocGroup :
       /\ tcam.entries[a] = SumOver(a, LAMBDA f : Cardinality(HwEntries(sdk[f])))
       /\ tcam.keys[a] = SumOver(a, LAMBDA f : KeyOf(sdk[f].shape)
                                                * Cardinality(HwEntries(sdk[f])))

(* Admission: when get or get_max reports guaranteed_free > 0 for a group, *)
(* the hardware has a place for one more entry of it, whatever bank the    *)
(* SDK picked before, other AGs and half-used bank pairs included.         *)
GuaranteeIsHonest ==
  \A f \in FgId :
    sdk[f].live /\ tcam.fgs[f].key # KeyDontCare /\ GuaranteedFree(f) > 0
      => Placements(sdk, f) # {}

(* The promise as far as it goes: get_max counts all keys of a bank, but a *)
(* wide entry can only use as many as the partner has.  A guarantee beyond *)
(* what the banks have in excess of their partners is kept, for any group  *)
(* that may use every bank.                                                *)
Excess(b) ==
  IF Partner(b) \in Bank THEN AtLeast0(KeysPerBank[b] - KeysPerBank[Partner(b)])
                         ELSE KeysPerBank[b]
Shortfall(f) ==
  IF Wide(sdk[f].shape) THEN MapThenSumSet(Excess, Bank) \div WideKey ELSE 0
AnyBank(f) == FgTable[sdk[f].shape[1]].select = {}
GuaranteeIsKept ==
  \A f \in FgId :
    sdk[f].live /\ tcam.fgs[f].key # KeyDontCare /\ AnyBank(f)
                /\ GuaranteedFree(f) > Shortfall(f)
      => Placements(sdk, f) # {}

(* What get_max calls max_free is an upper bound: no choice of banks lets  *)
(* the hardware take more entries of the group, and what it holds and can  *)
(* still take stays within the total that get reports.                     *)
RoomIn(f, p) ==
  Min({KeysPerBank[b] - KeysUsed(sdk, b) : b \in p}) \div KeysPerPlace(sdk[f].shape)
Capacity(f) ==
  MapThenSumSet(LAMBDA p : RoomIn(f, p),
                {p \in Places(sdk[f].shape) : Compatible(sdk, f, p)})
MaxFreeIsHonest ==
  \A f \in FgId :
    sdk[f].live /\ tcam.fgs[f].key # KeyDontCare
      => /\ Capacity(f) <= MaxFree(f)
         /\ tcam.fgs[f].nof + Capacity(f) <= TotalEntries(f)

(* assert(0 < refcnt) and assert(alloc_group == ...) never fail.           *)
RefcntAssertHolds == "refcnt" \notin tripped
(* assert(BCM_DNX_MAX_FG_ID > group_id) never fails.                       *)
LookupAssertHolds == "fg_id" \notin tripped

(* The group a row of a table names exists, is of the row's own kind and no*)
(* other row's, and the ledger charges it to the row's AG: ids are forgotten*)
(* before the SDK can hand them out again (group_id, BCM_DNX_INVALID_ID),  *)
(* also when tables are set again, deletions refused and attaches fail.    *)
RowsOwnTheirGroups ==
  \A t \in Tuple : LET f == gt[t].gid IN
    f # NoGroup =>
      /\ sdk[f].live /\ sdk[f].shape = ShapeOf[t]
      /\ (tcam.fgs[f].key # KeyDontCare => tcam.fgs[f].ag = AgOf(ShapeOf[t]))
      /\ \A u \in Tuple \ {t} : gt[u].gid # f

(* The account implements the ownership of banks by allocation groups: what*)
(* the chip does to the entries of the groups it knows, and what it says of*)
(* the owner of each bank and of the room that makes, change together, one *)
(* group at a time, and no bank goes from one AG to another without having *)
(* been free (fg_info_init, fg_info_update, fg_info_destroy).              *)
Known(L, f) == L.fgs[f].key # KeyDontCare
ClassOf(L, S) == [f \in FgId |-> IF Known(L, f) THEN AgOf(S[f].shape) ELSE Free]
HeldOf(L, S) == [f \in FgId |-> IF Known(L, f) THEN HwBanks(S[f]) ELSE {}]
OwnerOf(L) == [b \in Bank |-> L.banks[b].ag]
Banks == INSTANCE PmfBanks WITH
  Group <- FgId,
  Class <- AllocGroup,
  class <- ClassOf(tcam, sdk),
  held  <- HeldOf(tcam, sdk),
  owner <- OwnerOf(tcam),
  room  <- tcam.total
ImplementsPmfBanks == Banks!Spec
==============================================================================
