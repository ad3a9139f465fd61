------------------------------ MODULE BondFwd ------------------------------
(***************************************************************************)
(* src/bond_linux/diff_fwd_state: a forwarding state for the slaves of a   *)
(* Linux bond, written through a file of each slave.  A slave transmits if *)
(* it is up, is no backup and is forwarding; those that do are kept in an  *)
(* array, which whoever changes one of the three builds anew.              *)
(*                                                                         *)
(* The bonding driver, which is external, makes its changes one at a time, *)
(* under the RTNL lock.  Who writes to a file takes no lock: fwd_state is  *)
(* a bit of the word that holds the driver's backup bit, so that storing   *)
(* it is a load and a store of both, and two arrays may be in the making.  *)
(* Input that is no state is refused before anything has changed.          *)
(***************************************************************************)
EXTENDS Integers, FiniteSets

CONSTANTS
  Slave, Writer,
  Driver,       \* the thread that holds the RTNL lock
  MaxCalls,     \* calls in a behaviour
  MaxFaults     \* allocations that fail in a behaviour

ASSUME BondAssumption ==
  /\ Driver \notin Writer
  /\ MaxCalls \in Nat /\ MaxFaults \in Nat

Thread == Writer \cup {Driver}
INACTIVE == 0
ACTIVE == 1
Bits == [backup : BOOLEAN, fwd : {INACTIVE, ACTIVE}]

VARIABLES
  bonded,   \* slaves in the bond
  files,    \* slaves whose fwd_state file can be opened
  up,       \* slaves whose link is up
  bits,     \* the word of each slave
  arr,      \* the transmit array
  th,       \* what each thread is doing
  calls, faults,
  want,     \* history: what was last stored, bit by bit
  torn,     \* history: slaves whose word was stored over another store
  unsure    \* history: did the last rebuild overlap another call, or fail?

vars == <<bonded, files, up, bits, arr, th, calls, faults, want, torn, unsure>>

Fresh == [backup |-> FALSE, fwd |-> ACTIVE]
AtRest == [at |-> "idle", slave |-> {}, set |-> Fresh, word |-> Fresh, seen |-> {},
           new |-> {}, alone |-> TRUE]
Busy(t) == th[t].at # "idle"
Resting == \A t \in Thread : ~Busy(t)

CanTx(s) == s \in up /\ ~bits[s].backup /\ bits[s].fwd = ACTIVE

Init ==
  /\ bonded = {} /\ files = {} /\ arr = {}
  /\ up = Slave
  /\ bits = [s \in Slave |-> Fresh] /\ want = bits
  /\ th = [t \in Thread |-> AtRest]
  /\ calls = 0 /\ faults = 0
  /\ torn = {} /\ unsure = FALSE

(* A call begins; from then on those in progress are not alone.            *)
Call(t, at, s, set) ==
  /\ ~Busy(t) /\ calls < MaxCalls
  /\ calls' = calls + 1
  /\ th' = [u \in Thread |->
              IF u = t THEN [AtRest EXCEPT !.at = at, !.slave = {s}, !.set = set, !.alone = Resting]
              ELSE [th[u] EXCEPT !.alone = @ /\ ~Busy(u)]]
  /\ UNCHANGED faults
Step(t, from, to) ==
  /\ th[t].at = from
  /\ th' = [th EXCEPT ![t].at = to]
  /\ UNCHANGED <<calls, faults>>

-----------------------------------------------------------------------------
(* Plausible bugs: each stands for one definition below in a mutation run. *)
StoreWithoutLoad(t) ==
  /\ Step(t, "store", "scan")
  /\ \E s \in th[t].slave :
       /\ bits' = [bits EXCEPT ![s] = th[t].set]
       /\ want' = [want EXCEPT ![s] =
                     IF t = Driver THEN [@ EXCEPT !.backup = th[t].set.backup]
                     ELSE [@ EXCEPT !.fwd = th[t].set.fwd]]
       /\ torn' = IF bits[s] = th[t].word THEN torn ELSE torn \cup {s}
  /\ UNCHANGED <<bonded, files, up, arr, unsure>>
StoreWithoutRebuild(t) ==
  /\ Step(t, "store", IF t = Driver THEN "scan" ELSE "idle")
  /\ \E s \in th[t].slave :
       LET new == IF t = Driver THEN [th[t].word EXCEPT !.backup = th[t].set.backup]
                  ELSE [th[t].word EXCEPT !.fwd = th[t].set.fwd]
       IN  /\ bits' = [bits EXCEPT ![s] = new]
           /\ want' = [want EXCEPT ![s] = new]
           /\ torn' = IF bits[s] = th[t].word THEN torn ELSE torn \cup {s}
  /\ UNCHANGED <<bonded, files, up, arr, unsure>>
SlaveDelKeepsFile(s) ==
  /\ s \in files
  /\ Call(Driver, "drain", s, Fresh)
  /\ UNCHANGED <<bonded, files, up, bits, arr, want, torn, unsure>>
LoadUnderRtnl(t) ==
  /\ t = Driver \/ ~Busy(Driver)
  /\ th[t].at = "load"
  /\ \E s \in th[t].slave : th' = [th EXCEPT ![t].at = "store", ![t].word = bits[s]]
  /\ UNCHANGED <<bonded, files, up, bits, arr, calls, faults, want, torn, unsure>>

-----------------------------------------------------------------------------
(* fwd_state_store: the bit, then the array.                               *)
FwdStateStore(w, s, fwd) ==
  /\ s \in files
  /\ Call(w, "load", s, [Fresh EXCEPT !.fwd = fwd])
  /\ UNCHANGED <<bonded, files, up, bits, arr, want, torn, unsure>>

Load(t) ==
  /\ th[t].at = "load"
  /\ \E s \in th[t].slave : th' = [th EXCEPT ![t].at = "store", ![t].word = bits[s]]
  /\ UNCHANGED <<bonded, files, up, bits, arr, calls, faults, want, torn, unsure>>

Set(t, word) ==
  IF t = Driver THEN [word EXCEPT !.backup = th[t].set.backup]
  ELSE [word EXCEPT !.fwd = th[t].set.fwd]
Store(t) ==
  /\ Step(t, "store", "scan")
  /\ \E s \in th[t].slave :
       /\ bits' = [bits EXCEPT ![s] = Set(t, th[t].word)]
       /\ want' = [want EXCEPT ![s] = Set(t, @)]
       /\ torn' = IF bits[s] = th[t].word THEN torn ELSE torn \cup {s}
  /\ UNCHANGED <<bonded, files, up, arr, unsure>>

(* bond_update_slave_arr: the slaves one by one, then the new array.  Its  *)
(* result is not looked at: when it finds no memory the old array stays.   *)
Visit(t) ==
  /\ th[t].at = "scan"
  /\ \E s \in bonded \ th[t].seen :
       th' = [th EXCEPT ![t].seen = @ \cup {s},
                        ![t].new = IF CanTx(s) THEN @ \cup {s} ELSE @]
  /\ UNCHANGED <<bonded, files, up, bits, arr, calls, faults, want, torn, unsure>>
Publish(t) ==
  /\ th[t].at = "scan" /\ bonded \subseteq th[t].seen
  /\ th' = [th EXCEPT ![t] = AtRest]
  /\ arr' = th[t].new
  /\ unsure' = ~th[t].alone
  /\ UNCHANGED <<bonded, files, up, bits, calls, faults, want, torn>>
NoMemory(t) ==
  /\ th[t].at = "scan" /\ th[t].seen = {} /\ faults < MaxFaults
  /\ th' = [th EXCEPT ![t] = AtRest]
  /\ faults' = faults + 1
  /\ unsure' = TRUE
  /\ UNCHANGED <<bonded, files, up, bits, arr, calls, want, torn>>

-----------------------------------------------------------------------------
(* The driver: a slave joins, forwarding until it is told otherwise; it    *)
(* leaves; its link or its role changes.                                   *)
Enslave(s) ==
  /\ s \notin bonded
  /\ Call(Driver, "add", s, Fresh)
  /\ bonded' = bonded \cup {s}
  /\ \E backup \in BOOLEAN : bits' = [bits EXCEPT ![s] = [Fresh EXCEPT !.backup = backup]]
  /\ want' = [want EXCEPT ![s] = bits'[s]]
  /\ torn' = torn \ {s}
  /\ UNCHANGED <<files, up, arr, unsure>>

(* One file after the other; when one cannot be made, the slave's object   *)
(* is put with those that were.                                            *)
bond_sysfs_slave_add ==
  /\ Step(Driver, "add", "scan")
  /\ files' = files \cup th[Driver].slave
  /\ UNCHANGED <<bonded, up, bits, arr, want, torn, unsure>>
SlaveAddFails ==
  /\ \/ Step(Driver, "add", "partly") /\ files' = files \cup th[Driver].slave
     \/ Step(Driver, "partly", "drain") /\ files' = files \ th[Driver].slave
  /\ UNCHANGED <<bonded, up, bits, arr, want, torn, unsure>>

(* A file that is removed cannot be opened any more; who is inside is      *)
(* waited for.                                                             *)
bond_sysfs_slave_del(s) ==
  /\ s \in files
  /\ Call(Driver, "drain", s, Fresh)
  /\ files' = files \ {s}
  /\ UNCHANGED <<bonded, up, bits, arr, want, torn, unsure>>
Unlink ==
  /\ \A w \in Writer : Busy(w) => th[w].slave # th[Driver].slave
  /\ Step(Driver, "drain", "scan")
  /\ bonded' = bonded \ th[Driver].slave
  /\ UNCHANGED <<files, up, bits, arr, want, torn, unsure>>

LinkChange(s) ==
  /\ s \in bonded
  /\ Call(Driver, "scan", s, Fresh)
  /\ up' = IF s \in up THEN up \ {s} ELSE up \cup {s}
  /\ UNCHANGED <<bonded, files, bits, arr, want, torn, unsure>>
SetBackup(s, backup) ==
  /\ s \in bonded
  /\ Call(Driver, "load", s, [Fresh EXCEPT !.backup = backup])
  /\ UNCHANGED <<bonded, files, up, bits, arr, want, torn, unsure>>

-----------------------------------------------------------------------------
Goes(t) == Load(t) \/ Store(t) \/ Visit(t) \/ Publish(t) \/ NoMemory(t)
DriverGoes == Goes(Driver) \/ bond_sysfs_slave_add \/ SlaveAddFails \/ Unlink

Next ==
  \/ \E w \in Writer, s \in Slave, fwd \in {INACTIVE, ACTIVE} : FwdStateStore(w, s, fwd)
  \/ \E s \in Slave : Enslave(s) \/ bond_sysfs_slave_del(s) \/ LinkChange(s)
  \/ \E s \in Slave, backup \in BOOLEAN : SetBackup(s, backup)
  \/ \E w \in Writer : Goes(w)
  \/ DriverGoes

(* A thread that has begun a call goes on: nothing suspends it for ever.   *)
Fairness == (\A w \in Writer : WF_vars(Goes(w))) /\ WF_vars(DriverGoes)

Spec == Init /\ [][Next]_vars /\ Fairness

-----------------------------------------------------------------------------
(* Types.                                                                  *)
TypeOK ==
  /\ files \subseteq bonded /\ bonded \cup up \cup arr \cup torn \subseteq Slave
  /\ bits \in [Slave -> Bits] /\ want \in [Slave -> Bits]
  /\ \A t \in Thread :
       /\ th[t].at \in {"idle", "load", "store", "scan", "add", "partly", "drain"}
       /\ Busy(t) => \E s \in Slave : th[t].slave = {s}
       /\ th[t].word \in Bits /\ th[t].new \subseteq th[t].seen
  /\ calls \in 0 .. MaxCalls /\ faults \in 0 .. MaxFaults /\ unsure \in BOOLEAN

(* When nothing is in progress, the array holds the slaves that may        *)
(* transmit, unless the last call to rebuild it overlapped another or found *)
(* no memory: whatever went wrong, the next write that is left alone       *)
(* repairs it.                                                             *)
ArrayIsRebuilt == Resting /\ ~unsure => arr = {s \in bonded : CanTx(s)}

(* A slave is as the files and the driver last set it, unless one of them  *)
(* stored its word between the load and the store of the other: writers of *)
(* other slaves never get in the way.                                      *)
StoresHold == \A s \in bonded \ torn : bits[s] = want[s]

(* Who is in a slave's file finds the slave there until it has left.       *)
NoStoreAfterRelease == \A w \in Writer : Busy(w) => th[w].slave \subseteq bonded

(* Removing a slave waits for the writers inside its file, who do not wait *)
(* for the driver: it comes to an end.                                     *)
RemovalEnds == th[Driver].at = "drain" ~> ~Busy(Driver)
=============================================================================
