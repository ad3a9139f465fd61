# TLA+ models of the arrcus scripts

The repository is a collection of programs written around Broadcom switches:
scripts for the SDK's C interpreter (CINT) that configure Jericho 2, Tomahawk 5
and other chips, a Linux bonding patch, small test programs, and a great many
logs, notes and configurations. This directory models the programs that keep
state of their own and can get it wrong: their handlers are TLA+ actions, TLC
checks them on small instances, and TLAPS proves the most important properties
for every instance.

## 1. Inventory

| Part | Source | State it keeps | Operations | Status |
|---|---|---|---|---|
| PMF/ACL manager: TCAM ledger | `src/lag/cint_j2/acl.c` 230-326, 2281-3159, 4063-4386 | banks, their allocation group (AG) and reference count; per group its banks, entries and key size; per AG the entries, keys and capacity; the tuple tables (`group_id`, `presel_id`) | `fg_create`, `test_fg_set`, `test_fg_populate`, `fe_scale_up/down`, `test_fgs_destroy(_int)`, `fg_info_init/update/destroy`, `fg_info_get(_max)` | `PmfTcam`, `PmfBanks` |
| PMF/ACL manager: contexts, groups, entries | the rest of `acl.c` | context ids, presel entries, group and entry ids, ranges, traps, snoop and mirror destinations | `contexts_setup/destroy`, `attach_fg_to_contexts`, `copp_presel_set`, `pre_copp_fg`, `fe_replace`, `test_with_etuple`, `run_acl_qual_tests` ... | `AclScripts` in `CintSession`; partly |
| MMU/PFC of a Tomahawk 5 | `src/th5/cints/th5_pfc_final.c` | nothing but the chip's registers | `mmu_init`, `pfc_port_pg_enable`, `pfc_port_pg_disable` | `PfcPort`; partly (the dump is left out) |
| PFC variants | `th5_pfc_only_apis.c`, `th5_pfc_all.c`, `th5_pfc_all_v2.c` | the same | set-up, enable, disable | `PfcScripts` in `CintSession`; partly |
| Trunk and LAG scripts | `src/lag/cint_j2/adv_trunk.c`, `adv_lag.c` | trunk members, TPIDs, LIFs, VSIs, routes, rules | `main_trunk`, `member`, `main_vlan` ... | `TrunkScripts`, `LagScripts` in `CintSession` |
| VLAN/VSI scripts | `adv_vlan.c`, `globals.c`, `vlan_translations.c` there | `vsi_info`: LIFs of each port, flooding groups; translations | `add_vlan`, `del_vlan`, MAC flush, learning | `VlanScripts` in `CintSession` |
| L3 subinterface (RIOT) script | `src/notes/l3_subif/riot_uc2uc_l3subinterface.c` | overlay ports, next hops, two access rules | set-up, `verify` | `RiotScripts` in `CintSession`; partly |
| Field-processor scripts | `src/td4/cints/`, `src/th5/cints/th5_v4_v6.c` | groups, entries, counters, policers | one `execute` each, tests of COPP | `FieldScripts` in `CintSession`; partly |
| Counter and tunnel scripts | `src/td3/cint_td3/`, `src/notes/scratch/` | counters and what they count, tunnels, routes | set-up, verify, clean-up | `StatScripts` in `CintSession`; partly |
| Bonding patch | `src/bond_linux/diff_fwd_state`, `bond_sysfs_slave.c` | `fwd_state` of a slave, a bit beside `backup` and `inactive`; the transmit array | sysfs `store`, enslave, release, array rebuild | `BondFwd` |
| Lock comparison | `src/linux/pthread_locks.c` | `a[]`, `iter`, a lock | `main`, `consumer` | `PthreadLocks`, `AtomicDoubling` (mutex and spinlock builds); partly |
| Everything else | see `PROJECT.json` | | | not modelled, section 6 |

How the parts interact. CINT scripts run to completion, one at a time, in one
interpreter thread; they share the session's global variables and the chip. So
inside a script nothing is concurrent: what is hard is that *every SDK call may
fail*, that handlers return in the middle without undoing what they did, that
some callers bypass the ledger or drop a result, and that the chip outlives the
command: what one leaves half done the next meets. The PFC script keeps no state,
but the chip forwards traffic *between* two of its calls, so each SDK call is a
step and the states in between are observable. The lock program and the bonding
patch have real threads. No two parts call each other: the CINT scripts are
loaded one at a time and are composed here by the engine that runs them.

What makes each part correct:

* *Ledger*: reference counts equal the groups listing a bank; totals equal the
  capacity of the banks owned; remembered banks equal those of the hardware;
  counters equal the installed entries; a positive `guaranteed_free` can be
  honoured; `max_free` and `total` are upper bounds; a row of a table names a group
  that exists and is its own; the `assert()`s hold.
* *PFC*: PFC and Ethernet pause never both transmit; what a call returned
  success for stays programmed; a port is left without MMU traffic only after an
  error was reported; conditional attributes change only while traffic is
  stopped; an initialised port receives PFC.
* *Locks*: no lost update, a bounded overrun, complete work when the time is
  printed, termination; seen from outside, a sequential loop.
* *Scripts*: a script does not get in its own way, takes down what it set up,
  leaves nothing that refers to an object which is gone without having said so,
  and does what a quiet success claims.
* *Bonding*: who transmits is who may, as soon as nothing overlaps; a bit once
  stored stays; no slave is written after its release; a release comes to an end.

`PROJECT.json` lists, under `hazards`, what in this code is hard to test, each at
its line, with the properties that guard it.

## 2. Modules

### PmfTcam - the ledger of acl.c

| TLA+ | Code |
|---|---|
| `tcam.fgs[f]` (`banks`, `nof`, `ag`, `key`) | `bcm_dnx_tcam_fg_info_t`; `banks` is the sorted `tcam_bank_ids` as a set |
| `tcam.banks[b]` | `bcm_dnx_tcam_bank_info_t` |
| `tcam.entries`, `keys`, `total` | the three `..._per_alloc_group` arrays |
| `gt[t]` | `group_id` and `presel_id` of a row of a tuple table; 0 means no entry, as in the code |
| `ids[t]` | the `ids` array a caller of `fe_scale_up` holds |
| `sweep` | progress of `bcm_dnx_pmf_test_fgs_destroy` through `g_gtuple` |
| `sdk` (external) | groups that exist and the banks of every entry |
| `tripped` | which `assert` macro has fired (the macro returns -1 and goes on) |

The operators from a ledger to a ledger - `Moved`, `Merged`, `Booked`,
`Updated`, `Dropped`, `Initialised` - are `bank_add_to_ag`/`bank_remove_from_ag`
and the three `fg_info_*` functions. `Merged` treats the merge of two sorted
lists as: process the symmetric difference in ascending order, up to the first
bank that is refused. Both loops and both tails of the code do exactly that.
`GuaranteedFree`, `MaxFree` and `TotalEntries` are `get_max` and `get`.

Actions: `FgSet` (one iteration of `test_fg_set`: create, attach, enter in the
ledger, first entry; with an early return at each), whatever the row held before, as
in the code: a group whose id is overwritten is nobody's from then on. `ScaleUp` and
`ScaleDown` (one entry; a `ScaleDown` on a row without a group looks the group up all
the same, as the code does), `DestroyTuple` (one row of `destroy_int`), `EntryDeleteAll` then
`SweepTuple` (`test_fgs_destroy`), `UncountedAdd`/`UncountedRemove` (the helpers
that add and delete entries without telling the ledger).

Two constants open and close the adverse behaviour. `Sdk` lists what the SDK may
answer: any call refused, the read-back refused after the entry was added
(`info_get`), a group deleted together with its entries (`drops_entries`), two
AGs placed in one bank (`shares_banks`). `Caller` lists deviations of the
callers: a table set again while its first entries stand (`rerun`; the commands of
the file destroy a row before they set it anew, which may leave it with a group the
SDK would not delete, but not with a first entry: `Cleared`), ids given back that
are not the row's (`stale_ids`), `test_fgs_destroy`, uncounted entries.
The SDK's placement is otherwise arbitrary: any bank, or aligned pair of banks
for a 320-bit key, with room.

Assumptions about the SDK, all external: a wide entry takes half its keys in
each bank of an aligned pair (as `adjust_320` computes); group ids are below 32;
entry ids are not 0. `KeyOf` is what `bcm_dnx_sdk_fg_get_key_size` computes: the
bits of the qualifiers in units of 80 and those of the actions in units of 32, three
rounded up to four, the larger of the two. How many bits there are only the SDK can
say: they are the constant `BitsOf`, and `BitsAssumption` says that they come to the
size the table `bcm_dnx_sdk_fgs` declares (a column nothing in the file reads). More
than 320 bits come out as "don't care" in the code; that outcome, and the
computation's failure, is the answer `key_size`. A lookup out of range (the `assert`
returns -1 as a pointer) is recorded in `tripped` and has no further effect. A row
that was never set holds 0 in the code, which is an id; here it starts with
`NoGroup`, since no command works on a table before it has set it.

`PmfBanks` says what the account is there for, without reference counts, merges
and undoing: a bank belongs to a class of groups (an AG) while a group of the class
has entries in it, and is free otherwise; a group claims and gives back banks in one
step, and no bank passes from one class to another unless it was free.
`ImplementsPmfBanks` maps it to the model: which groups have entered and what they
hold is read off the chip (`ClassOf`, `HeldOf`), who owns a bank and how much room a
class has off the ledger (`OwnerOf`, `tcam.total`). So it says that the account the
code keeps is the one an observer of the chip would draw up.

### PfcPort - th5_pfc_final.c

Each function is a `Script`, the sequence of SDK calls it makes, and one action
performs one call: `StepOk` (it succeeds and programs its register), `StepError`
(it fails, and every function on the way returns the error), `StepIgnored` (it
fails where the code drops the result), `ReturnOk`. `MmuInit`, `PgEnable` and
`PgDisable` start a call. `hw` holds the registers; `last`, `switched`, `reported`
and `initrc` are what the caller of the functions knows: the last promise for each
group, the ports on which a group has been disabled since a success of enable, those
for which an error was returned since MMU traffic was last switched, and how
`mmu_init` ended. Calls that only read, or program
profiles that nothing here depends on, are the step `Other`: it can only fail.
How the SDK classifies each attribute (fixed, conditional, flexible) is the
constant `Dynamic`. `RxVoqsKnown` says whether the session knows the function that
the file calls by one name and defines by another (`MmuInit` ends there in an error
if not). The name `port` that `control_set` uses without declaring it
is the session variable, taken to be the configured port as in the usage note at
the end of the file.

### PthreadLocks - pthread_locks.c

A step is one access to shared memory: `Lock`, `Double`, `Load`, `Store`,
`Unlock`, `Check` (the test of `iter` *after* the unlock), and `Create` and
`Join` of `main`. `Thread` and `LOOPS` are parameters. The memory behind `a[]` is
part of the model (`Slot`), so that the overrun is a state and not an error.
The test reads `iter` while another thread may write it. That is a data race in C;
the opaque unlock call before it forces a load and an aligned 64-bit load is whole
on the targets of these builds, so the outcomes are the values `iter` has had, and
the model reads the one it has when the load takes place.

`AtomicDoubling` says what the lock is there for: one element after the other is
doubled, each in one step, at most `Extra` too many. `PthreadLocks` implements it
(`ImplementsAtomicDoubling`) under the mapping in `PthreadLocks`: an element counts
as soon as it is doubled, although `iter` only moves two accesses later.

### CintScript, CintSession - the shell and its scripts

A CINT function is, but for a few loops over constants, a straight line of SDK
calls with a test of the result after each. `CintScript` gives the vocabulary. A
*fact* is anything the chip or the script's variables may hold: an object that
exists, a setting, an id that has been assigned. A *step* is a call (with the
facts it relies on, those that make it fail, and those it makes and drops), a
test, or an assignment; `skip` says where the function goes on when a call fails,
`says` whether it prints. `Caught`, `Unchecked`, `Ignored`, `Silent`, `OrElse`
and `If` are the forms error handling takes in these files: the function returns
the error, the caller ignores it, nobody looks, nobody prints, something else is
tried. A function of the source is an operator of the same name that returns its
block; a function that calls another contains its block.

`CintSession` runs them. `Begin` is a command typed by the operator, `Perform` a
call that succeeds, `Refuse` one that fails because of what the chip holds,
`Fault` one that fails without the script's doing, `Branch`/`BranchIntoBlock` a
condition (both ways when it reads a variable that nothing was assigned), `Return`
the end. The operator keeps to a protocol: *stages* that commands open and close
(a VLAN is deleted after it was added), and `unless` for commands that do not go
together. What the source does not say - the order in which commands make sense -
is read off the usage comments and the order of the calls in each file's `main`
part, and stands in the commands of each script.

Three things are said of a script. It is *robust* if it works again once the
stage that was hurt is closed; a command is *best effort* if it tries to remove
what may not be there; a command is *unreliable* if its success tells nothing, since
it drops results (21 commands of `adv_trunk`, `adv_lag`, `cosq_map_fp` and
`pfc_init_flexible`, see section 5; the rest is taken at its word). The list is the
constant `Unreliable`.

| Module | Programs |
|---|---|
| `J2Sdk`, `XgsSdk` | external: the SDK calls of Jericho 2, and of Trident and Tomahawk, and what each object refers to |
| `TrunkScripts`, `LagScripts` | `adv_trunk.c`, `adv_lag.c` |
| `VlanScripts` | `adv_vlan.c` in its three use cases, the plain VLANs, `globals.c`, `vlan_translations.c` |
| `AclScripts` | `acl.c`: contexts, groups of a context, tests of every qualifier, COPP, `fe_replace` |
| `FieldScripts`, `StatScripts` | COPP, CPU queue, sampler, counter, tunnel and translation scripts |
| `PfcScripts` | the three earlier PFC scripts, for conditional and for flexible attributes |
| `RiotScripts` | the routed overlay and its test |

The SDK modules are external: an object is created once under an id of the
caller's, cannot be used before it exists, and goes with what is destroyed. What a
call checks was taken from how the scripts use it; where they do not tell, a call
has no precondition, so that no refusal is invented. One guess is needed:
`adv_vlan.c` removes a port from a VLAN with `bcm_vlan_port_remove` (990), then
deletes it there again with `bcm_vlan_gport_delete` (995) and gives up on an error.
The first takes the membership away, and the second is taken to accept a port that is
no member; did the SDK refuse it, no VLAN could ever be deleted by that function.

`acl.c:1250` tests a variable that nothing has set. Most programs take it to be 0, a
fact of their initial state (`RvIsZero`); three, `acl_wc_leftover`,
`acl_test_all_leftover` and `acl_copp_leftover`, start without it, and there each
patched group may fail of itself and its commands count as best effort.

`CintFlow` says what the text of a script tells of the chip, whatever was typed
before. A piece of *knowledge* is a set of facts that hold (`here`), of facts that do
not (`away`) and of references that may be broken (`loose`); a set of pieces are
alternatives, of which one is true. `Ways` are the ways out of a step with what each
tells: success adds what the step makes and relied on; a refusal, or a test that
sends the command past its block, tells that the one fact asked for is missing. There
are three kinds of session, since what may fail decides what is known: `any` session;
`calm` ones, in which no failure was reported (or none happened, of a script with an
unreliable command); those in which nothing that still matters was hurt, `unhurt`.
`Notes` are the alternatives between two commands, by the open stages and, in
`unhurt` sessions, those of them in which a call has failed; `Flow` those at each step
of one command. Both are constants, and nothing is assumed of them but what
`NotesHold` checks step by step: every way out of every step is covered where it leads
to, and every command's end is covered by the notes. `Thorough`, `Fits` and `Tied` are
what the notes must tell for the properties to follow; `TextsBearOut` is all of it.

`CintNotes` works the notes and flows out, for TLC: knowledge is carried from step to
step and from command to command until nothing changes. Alternatives that meet are
merged to what they have in common; only in the eight cases of `Apart`, where a script
asks what is there before it acts on it, are they kept apart, for there what holds is
known only together (an entry is there *or* its id is not set). An error in this
module could only make `TextsBearOut` fail.

### BondFwd - the bonding patch

| TLA+ | Code |
|---|---|
| `bits[s]` | the word of `struct slave` that holds the bit-fields `backup` and `fwd_state` |
| `files` | slaves whose `fwd_state` file exists |
| `FwdStateStore`, `Load`, `Store` | `fwd_state_store` and `bond_set_slave_fwd_state`: the assignment of a bit-field is a load and a store of the word |
| `Visit`, `Publish`, `NoMemory` | `bond_update_slave_arr`: `bond_slave_can_tx` of one slave after the other, then the new array; its failure is not looked at |
| `bond_sysfs_slave_add`, `SlaveAddFails`, `bond_sysfs_slave_del` | the functions of `bond_sysfs_slave.c` |
| `Enslave`, `LinkChange`, `SetBackup`, `Unlink` | the driver under RTNL, external |

The driver's bit `inactive` is in the same word and is stored in the same way as
`backup`; the model keeps one of the two. Removing a sysfs file waits for the
writers that are inside (`Unlink`'s guard), which is what sysfs does.
`want`, `torn` and `unsure` are history variables.

### MC and proof modules

The `MC` modules define the instances. The theorems are in `PmfTcamProofs`,
`PmfCountProofs` and `PmfRoomProofs` (each extends the one before), `PfcPortProofs`,
`PthreadLocksProofs`, `CintSessionProofs` and `BondFwdProofs`; `SeriesLemmas` has the
lemmas about sums and series of scripts that they share. The operators under
"Plausible bugs" are one-line variants of a definition, used to see that each
property notices a bug in it; they play no part in the specifications.

## 3. Runs

| Run | Shows | Bounds |
|---|---|---|
| `pmf_admission` | exact counters, references and banks; `assert`s of the references; what `get` and `get_max` promise; `PmfBanks` is implemented | the tuple tables: 3 rows (two wide, one narrow) over 2 group ids, 2 AGs, 4 banks of 4, 8, 4 and 4 keys (two pairs, the first uneven, as on the chip), 2 entries a group; SDK may refuse to add or delete groups and add entries |
| `pmf_any` | the ledger agrees with itself, rows own their groups | 2 rows, wide and narrow, 2 banks of unequal size; every SDK answer and every deviation of the callers |
| `pmf_guarantee` | *violated*: `guaranteed_free` with mixed key sizes | 3 groups, mixed sizes in one AG, 4 banks of 4 keys |
| `pmf_chip` | *violated*: `guaranteed_free` where bank 0 is smaller than bank 1 | as `pmf_admission`, 3 group ids |
| `pmf_lookup` | *violated*: the `assert` of the lookup, after a table was set again in vain | 2 rows, 2 banks; the SDK may refuse a group |
| `pmf_refcnt` | *violated*: the `assert`s after `test_fgs_destroy` | 2 banks, no SDK failure |
| `pfc_port` | all PFC properties under failure of any call | 1 port, 2 PGs, 1 limit value; every kind of attribute but fixed |
| `locks_mutex` | the lock properties, termination, the refinement of `AtomicDoubling` | 3 threads, 4 elements |
| `locks_bounds` | *violated*: a thread doubles `a[LOOPS]` | 2 threads, 4 elements |
| `cint` | the five script properties, and the conditions of the theorems on their texts (`StagesHold`, `TextsBearOut`), for 45 programs: 42 scripts, and three of them with something in `fset_patch`'s variable | per program 4 commands (2 where a script is one or two commands), 1 fault; 7 VLANs |
| `cint_trunk` | *violated*: `adv_trunk.c` returns success for a trunk it did not make | 3 commands of the script |
| `bond` | the bonding properties, and that a removal ends | 2 slaves, 2 writers and the driver, 4 calls, 1 allocation failure |

Why the bounds are enough. The ledger's cases are: a bank alone in its AG or
shared, its pair neighbour free, of the same AG or of another, and a merge that
gains, loses or is refused; two pairs and three groups of two AGs contain every
combination, and one entry more than fits in a bank forces a second one. Two group
ids are enough, since a group that was lost leaves one to work with. `Limit`
caps what the ledger counts (it would grow without end when a table is set again
and again, or an id is given back again and again); the caps are above what the
cases need. A PG interferes with another through the registers of the port and
through nothing else, so one port with two PGs has all interference; ports only
meet in `mmu_init`, one after the other, and the theorems are about any number of
them. Three threads let two overrun
behind a third; the theorems cover the rest.

A script interferes with itself through what one command leaves for the next:
set-up, something between, tear-down and set-up again are four commands, and that
is the longest cycle a script's protocol has; scripts of one or two commands get
two. One fault at every call of every command shows each half-done state once; two
faults would be two half-done states of which the second is met like the first.
The theorems of `CintSessionProofs` have no such bound, and cover all five properties:
what is left to TLC are two conditions on the text of each script, evaluated once per
program in its initial state. Two slaves tell "another slave" from "the
same"; two writers and the driver on one word make all orders of two stores, and
four calls let two overlap, a third repair and a fourth remove.

Deadlock is checked except in `locks_*`, whose program ends, and in `cint`,
`cint_trunk` and `bond`, where an operator, or a user of the files, may stop.

Fairness. The locks: every thread and `main` are weakly fair; the kernel schedules
a runnable thread. Nothing is assumed of the lock: neither a mutex nor a spinlock
promises who gets it next, and termination holds all the same because whoever
gets it moves `iter`. The bonding patch: a thread that has begun a call goes on
(weak fairness of `Goes` and `DriverGoes`), since nothing suspends a system call
for ever; no call need ever begin. The CINT scripts run when an operator types a
command, so nothing must happen and no fairness is justified there.

## 4. What is proved

`PmfTcamProofs`, for all sets of groups, rows, banks and entries and all bank
sizes (the assumptions are `ConstantsAssumption`, `ShapeAssumption`,
`BitsAssumption`: groups need the key size declared for them, and `SumAssumption`:
the capacity of a set of banks is additive).

*Part 1*, without any condition on SDK or callers: `TypeCorrect`,
`FreeBanksUnreferenced`, `TotalsCorrect`. The inductive invariant
`ConsistentInv` is `TypeOK` together with `LedgerOK`, which holds of *any* ledger
value and so can be carried through `Merged`, `Booked` and `Dropped` separately.
The core is `MovedOK`: if the banks that leave may leave and those that join may
join, the totals move by exactly the banks that become free or cease to be; and
`MergedOK`: the part of a merge before the first refusal satisfies that
premise - which is why a half-done merge leaves the account balanced.

*Part 2*, under `Told` (the SDK always answers the read-back, keeps AGs apart,
and nobody adds or deletes entries behind the ledger's back): `RefcntsExact`,
`BanksExact`, `RefcntAssertsHold`. Neither is inductive alone: that no bank is
refused needs exact references *and* exact banks *and* that no bank of the
hardware holds two AGs, and exactness after a step needs that no bank was
refused. `ExactInv` conjoins them. `Told` allows far more than `pmf_admission`, where
TLC checks the same properties together with those of the counters: tables set again,
stale ids, attaches, key sizes and deletions refused, groups dropped with their
entries. `pmf_refcnt` shows what happens without it.

`LedgerOwnsBanks` (part 4 of the module) is the refinement of `PmfBanks`, under
`Told`. Two facts are enough. Every action writes the row of one group at most, in
the ledger and on the chip (`NextRow`). And between two exact ledgers that differ in
one row, banks change owners as the abstract step of that group says (`RowSteps`):
by `RowsTell` a bank in a row belongs to the row's AG and a bank in none is free, so
a bank that is new in the row was in no row, or in rows of the same AG, before. That
the account is exact after the step is `ExactInv` again. Since the theorem looks at
exact ledgers alone, none of its steps mentions a reference count.

*Part 3*, again without any condition: `RowsOwnGroups`. The id in a row is that of a
live group of the row's own kind, no two rows name one group, and the ledger charges
it to the row's AG (`OwnInv`). `FgSet` may overwrite an id, but only with one the SDK
has just handed out, so the row it takes it for is the only one; destroying takes the
group and the row's hold on it in one step. What does *not* hold is that a lookup
finds the group of the row: a table that is set again, and refused, keeps a
`presel_id` under no group, and the next row destroyed or scaled down looks up
`BCM_DNX_INVALID_ID` (`pmf_lookup`).

`PmfCountProofs` (part 5): `CountersExact`, the property `CountersMatchHardware`.
The counter of an AG is a sum over its groups, kept by adding and subtracting key
sizes; it is exact because an entry is only ever removed from the group that has
it. Who has which entry is known to the callers alone, so `CountInv` conjoins
`ExactInv`, the counters as sums, and the rows: what a row believes it owns, its
group has. `OnlyRefusals` allows every refusal of `bcm_field_group_add`,
`entry_add` and `group_delete`; each of the other answers and deviations makes some
counter wrong (a group without a key size books nothing; an id given back twice is
subtracted twice; the entries of a group that is dropped stay counted), which is why
the run `pmf_admission` has the same condition.

`PmfRoomProofs` (part 6): what an operator is told. `RoomInv` adds to `CountInv`
that every group is a row's, every entry sits where its key size lets it, and no
bank is overfull. The ledger knows what an AG is *charged*, a sum over groups; the
chip refuses for what a *bank* holds, a sum over entries. `ChargedIsHeld` counts the
keys both ways (`CountedTwice`, an exchange of sums) and finds them equal; so what
`total` exceeds `keys` by is exactly the room in the AG's banks. From there:

* `MaxFreeIsABound`, the property `MaxFreeIsHonest`: `max_free` and `total` are upper
  bounds for any sizes of banks, also of those without a partner, and for groups
  that select their bank. Hypothesis `WideApart`: wide and narrow groups have
  different AGs. Without it `max_free` may be too small (section 5).
* `GuaranteeKept`, the property `GuaranteeIsKept`: a `guaranteed_free` beyond the
  `Shortfall` can be honoured, for every group that may use any bank, whatever the
  tables have besides. The shortfall is what banks have in excess of their partners,
  in wide entries; for narrow groups, and where all pairs are even, it is 0 and every
  positive guarantee is kept. On the chip it is the 80 keys of bank 1 that bank 0 does
  not have (4016 against 4096), 20 entries, and `pmf_chip` shows that they really are
  promised and not there. Hypotheses: `WideApart` (`pmf_guarantee` is the
  counterexample without it) and `WholeKeys`, banks of whole multiples of 320 bits, as
  all of `tcam_keys_per_bank` are. The proof shows that `adjust_320` takes off exactly
  the banks whose partner another AG has (`LostExactly`), that the banks of a wide AG
  are filled in step (`PairsTogether`), and that where no place is left the
  keys promised are at most those that banks have in excess of their partners.

`PfcPortProofs`, for any ports, priority groups and limit values: `TypeCorrect`,
`PauseExcludes`, `Backpressure`, `PortsReceive`, `ChangesQuiesced`, `LastPromise`,
`LastCallKept`, `StuckReported`. A call in progress is the sequence of SDK calls still
to make, so the invariant `IInv` speaks about that sequence: `OnCourse` (each goal of
the call is in the registers or still to come), `Begun` (the first step turns the
other flow control off before anything turns this one on), `Quieted` (a conditional
attribute is changed only between a stop and a restart of the port), `Known` (what
the caller may rely on meanwhile). `mmu_init` is a concatenation over all ports; what
such a series does is in `SeriesLemmas`. `LastCallKept` needs `NoFixedLimit`, for
`th5_pfc_final.c:96` reports success for an attribute it refuses as fixed;
`LastPromise` is the unconditional part, the flags and the limits that are not
fixed. `StuckReported` has no hypothesis, and so covers attributes of which some are
conditional and others not. There a success can hide what an error told: if limits
alone are conditional, a failed enable leaves traffic stopped, and a `mmu_init` that
then succeeds neither touches nor mentions it. `reported` therefore remembers an error
until traffic is switched again, not until the next success: the theorem says that the
error has been returned, not that the last call returned it.

`SeriesLemmas` holds what would be inductions: every finite set has a sum, in
whatever order it is taken; sums add, scale, split and exchange; a set of ports is
listed from the smallest up, and what each script of a series does, the series does.
The library's induction theorems cannot be used here, so each is argued from a least
counterexample: a smallest natural number, or a finite set with no smaller one inside
it, of which the claim is false.

`PthreadLocksProofs`, for every finite set of threads and every array:
`TypeCorrect`, `OverrunIsBounded`, `NoUpdateLost`, `ResultIsComplete`. The
invariant adds mutual exclusion, that the loaded value is current while its
owner holds the lock, and the count of threads still inside the loop, which
pays for each step of `iter` past the end.

`LockedLoopIsAtomic` is the safety part of the refinement: every step of the
program is a step of `AtomicDoubling` or leaves its variables alone. It rests on
the same invariant: `Double` is the abstract step, since nobody else is behind while
the lock is held; `Store` is none, since the loaded value is current; and the
concrete bound on the overrun is the abstract bound on doublings.

`CintSessionProofs`, for every set of scripts that satisfies `ProgramAssumption`
and every number of commands and faults: `TypeCorrect` (a command never leaves its
script, wherever its error handling jumps), `StagesStand`, `ScriptsFit`,
`TearDownComplete`, `ReferencesHold` and `QuietDone`. All but the first tie behaviour
to conditions on a script's text, and the run `cint` evaluates these conditions on
every text: that of `StagesStand` can be read off, those of the others are worked out.

*Stages.* A command `Secures` a fact if whoever passes a step that makes it, without
a failure, has made it for good. A stage `Holds` a fact if every command that opens
the stage secures it, and every other command that the protocol allows while the
stage is open makes again what it takes away. If each fact a command keeps is held
by one of its stages, a stage that was set up without a failure stands until it is
torn down, whatever the commands in between do or fail to do. `Undone` (what a
command works on does not count as set up meanwhile) and `Standing` (what a stage
holds is there also while another command runs) are the inductive part. The
condition is about the scripts alone, and the run `cint` evaluates it for all 45
programs (`StagesHold`): for them the theorem removes the bounds on commands and on
faults.

*Knowledge.* The hypothesis of the four theorems is that the notes of each program
follow from its text and tell enough: `Fits` for `ScriptsFit` (every call finds what
it asks for) and `TearDownComplete` (with no stage open, all that is not known to stay
is away), `Tied` for `ReferencesHold` (no reference is loose between two commands),
`Thorough` for `QuietDone` (wherever a command can end in silence, what it promises is
here and what shall be gone is away; but for the commands in `Unreliable`, of which
`QuietMeansDone` says nothing either). `TextsBearOut` evaluates exactly these
conditions, of every program, so for the 45 programs the theorems hold without bounds on commands and
faults. `KindInv` is the inductive invariant, for each kind of session: between two
commands one of the alternatives in the notes is true (`Between`), and within one, one
of those of the flow at the step it has reached (`Within`). `AlongPerform`,
`AlongBranch`, `AlongBranchIntoBlock` and `AlongFailed` say that each step goes along
with any flow that explains the script; `WayLeadsOn` is why. A flow explains only the
failures its kind allows for, so a command of an `unhurt` session has two: one from
which nothing failed but what was refused, as long as its stage is whole, and for a
robust script one that allows for every failure, which is all that is left once the
stage is hurt; the notes say what such a half-done command leaves, and the invariant
switches from the first flow to the second at `Fault`. `ReferencesHold` and
`TearDownComplete` need in addition that nothing is on the chip but what the text
mentions (`ChipInv`); `ScriptsFit` that a command which is `well` met nothing hurt
(`FitInv`); `QuietDone` follows a second flow, from the notes of `any` session, along
which no call fails but in silence, and which the command leaves as soon as it speaks
or raises an error (`QuietInv`).

`BondFwdProofs`, for any slaves, writers, and number of calls and faults:
`TypeCorrect`, `ReleaseIsSafe`, `StoresAreKept`, `ArrayIsRight`. `IInv` adds where
the threads may be: a slave the driver is adding is bonded, one it is draining has
no file any more, a writer's slave is bonded until the writer has left, and - for
the array - a thread that has been alone since its call began is the only one at
work and has counted each slave it has seen as it still is. `ArrayIsRebuilt` alone is not inductive, since the
array is made from what was seen before.

Only model-checked: `StagesHold` and `TextsBearOut`, conditions on the text of the 45
programs, which are finite and which TLC evaluates (what a fixpoint over a text
yields is not a matter of proof); `Termination` and `RemovalEnds` (liveness under
fairness, which the prover cannot treat). `KeysIn` is still a constant with an
additivity assumption; `KeysInIsSum` proves that it is then the sum of the banks.

## 5. Where code and comment disagree

1. `guaranteed_free` is not guaranteed when 160-bit and 320-bit groups share an
   AG (`pmf_guarantee`): room for a narrow key in one bank of a pair is counted,
   but a wide key needs both.
2. `bcm_dnx_pmf_test_fgs_destroy` deletes the entries of every table but updates
   the ledger for one; later the `assert`s of `bank_remove_from_ag` fail
   (`pmf_refcnt`).
3. `guaranteed_free` is not guaranteed to wide groups on this chip either, though
   never mixed with narrow ones (`pmf_chip`): bank 1 has 80 keys more than its partner,
   and up to 20 entries are promised in them. The comment at `acl.c` 4247 knows that
   "bank0 is not fully available", the computation does not.
4. A table that is set again while its first entries stand, and refused by the SDK,
   keeps a `presel_id` under `BCM_DNX_INVALID_ID`; destroying it fails the `assert` of
   the lookup (`pmf_lookup`), and so does `scale_down`.
5. `pthread_locks.c` writes one element past `a[]` (`locks_bounds`); with N
   threads, at most N-1 past.
6. `adv_trunk.c` writes `if (rv = BCM_E_NONE)` in sixteen places: nothing is
   printed, and success is returned, when a trunk or a member was refused
   (`cint_trunk`).

Seen while modelling, and part of the models without a run of its own:

* *PFC.* `bcmsdk_mmu_port_pg_control_set` (`th5_pfc_final.c:96`) returns success
  for an attribute it refuses as fixed. In `th5_pfc_only_apis.c` the result at 590
  is not assigned, and pause is switched for the port, so disabling one PG affects
  the other (374, 414). `th5_pfc_all.c:657` prints a variable that is not there
  for conditional attributes, and 589 is not looked at. `th5_pfc_final.c` defines
  `bcmsk_setup_rx_pfc_to_voqs` (509) and calls `bcmsdk_setup_rx_pfc_to_voqs` (885):
  unless the session has a function of that name, `mmu_init` stops there and none of
  its ports is initialised.
* *What the ledger tells.* Without the hypotheses of the theorems in `PmfRoomProofs`
  TLC has counterexamples. `max_free` is not a maximum when narrow and wide groups
  share an AG: of a bank of the AG whose neighbour is another AG's, `adjust_320`
  takes off all keys, although narrow entries hold some of them and only the rest had
  been counted. The guarantee counts all free banks, also for a group that selects a
  bank (`DEF_COPP`, `PRE_COPP`, `COPP_HDR`); `GuaranteeIsKept` leaves these out.
* *What tables leave behind.* A table that is set again leaves its first groups, their
  entries and their banks to nobody: no command can give them back
  (`acl.c:3036`).
* *ACL.* `fe_replace` deletes, then adds: a failure between loses the rule, with a
  message. `contexts_destroy` ignores the result of its presel calls; a group whose
  deletion failed is forgotten by `test_fgs_destroy`; `fset_patch` tests a variable
  nothing was assigned; `pre_copp_fg` adds a group whatever `detach` is. The egress
  groups cannot all be attached, as a type their tables use has no mapping there.
* *VLAN.* In use case 1 the LIF leaks when its translation is refused; in use case
  2 `del_vlan` does not match what `add_vlan` made; `mac_flush_by_port` removes the
  static addresses of every VSI behind the port. Deleting a VLAN compares its id
  with a PVID that was never assigned if reading it failed, and may then take the
  native VLAN of another (`adv_vlan_native`, where `keeps` leaves the PVID out).
* *LAG.* `adv_lag.c` prints most failures, but not those of VLAN membership,
  outLIFs, member changes and field groups.
* *Other scripts.* An entry whose qualifier was refused is installed all the same
  (`MultiCPUReasonCode.c:220`); `cpu_port_sched` cannot be rerun after a partial
  failure; the RIOT test keeps the id of a rule it destroyed and could not create
  again, so every later verification stops (967-978); `l3_stats.c:712`,
  `l3_stats_in_out.c` 247, 293 and 654 and `xlate_to_l3_iif.c:81` use names that
  are not defined.
* *Bonding.* The file `bond_sysfs_slave.c` as it stands does not look at the result
  of parsing, does not rebuild the array and is not in the list of attributes; the
  patch does. Its comments on the values of the state are swapped
  (`diff_fwd_state` 150-151).

## 6. Not modelled

* *LAG variants and MPLS*: `adv_lag_ingress.c`, `adv_lag_tmp.c` are `adv_lag.c`
  with other constants and fewer tests; `adv_trunk_mpls.c` adds tunnels in the
  style of `adv_trunk.c`. They would be further programs and show nothing new.
* *Of the modelled scripts*: the packets they send and compare, counters they read
  and print, and dumps; the values of attributes, unless a property tells them
  apart; RIOT compiled with `WITH_VPNID`, where the ids are not initialised.
  The name `port` of `th5_pfc_final.c:101`, which the function does not declare, is
  taken to be the configured port, as in the usage note of the file.
* *The futex build of the lock program*: `futex_wait` passes the id of the thread
  as the operation, so one thread sleeps, the other wakes, and a sleeper that
  nobody wakes any more waits for ever. It locks nothing, and what it does depends on
  words that are not initialised for that use; there is no protocol to model.
* *L3, ECMP and SRv6 recipes*: straight calls over the SDK's example libraries,
  run once on a fresh chip; most of what they do is computed inside SDK files the
  repository does not hold.
* *Scripts that do not parse* (`fp_cint.c:64`, `fp_cint_ifp.c:45` and fragments like
  them) have no behaviour.
* *Tools that only read and log*: the preload tracer (`my_malloc.c`), the pmap
  scripts, the sFlow test library. The counter demonstration starts one thread
  only.
* *Vendor examples, configurations, logs, notes and dumps*: copied, or data.

## 7. What is left

1. The composition of `AclScripts` with `PmfTcam`, through `PmfBanks`: in the
   scripts a booking is a call that may fail, the account behind it is checked
   separately.
2. `th5_pfc_final.c` with two ports whose commands share the session's `port`.
3. A refinement of `BondFwd`: `ArrayIsRight` speaks of the moments at which nothing
   overlaps; an abstract array that lags behind would say what holds between them.
