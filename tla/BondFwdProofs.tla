--------------------------- MODULE BondFwdProofs ---------------------------
(***************************************************************************)
(* Proofs about BondFwd, for any number of slaves, writers and calls.      *)
(***************************************************************************)
EXTENDS BondFwd, TLAPS

Doing ==
  [at : {"idle", "load", "store", "scan", "add", "partly", "drain"}, slave : SUBSET Slave,
   set : Bits, word : Bits, seen : SUBSET Slave, new : SUBSET Slave, alone : BOOLEAN]

(* Types, and that only who scans has seen anything.                       *)
TypeInv ==
  /\ TypeOK
  /\ th \in [Thread -> Doing]
  /\ \A t \in Thread : th[t].at # "scan" => th[t].seen = {}

(* Where the driver is with a slave it adds or removes.                    *)
DriverInv ==
  /\ th[Driver].at \in {"add", "partly"} => th[Driver].slave \subseteq bonded
  /\ th[Driver].at = "drain" => files \cap th[Driver].slave = {}

(* A thread that has been alone since its call began has counted rightly.  *)
AloneInv ==
  \A t \in Thread : Busy(t) /\ th[t].alone =>
    /\ \A u \in Thread \ {t} : ~Busy(u)
    /\ th[t].seen \subseteq bonded
    /\ th[t].new = {s \in th[t].seen : CanTx(s)}

LEMMA DriverIsAThread == Driver \in Thread /\ Driver \notin Writer
BY BondAssumption DEF Thread

LEMMA FreshIsAWord == \A b \in BOOLEAN, f \in {INACTIVE, ACTIVE} :
  /\ Fresh \in Bits /\ [Fresh EXCEPT !.backup = b] \in Bits /\ [Fresh EXCEPT !.fwd = f] \in Bits
BY DEF Fresh, Bits

LEMMA AtRestIsDoing ==
  AtRest \in Doing /\ AtRest.at = "idle" /\ AtRest.seen = {} /\ AtRest.new = {}
BY FreshIsAWord DEF AtRest, Doing

LEMMA OneMore == \A n \in Nat : \A k \in 0 .. n : k < n => k + 1 \in 0 .. n
OBVIOUS

(* What a thread's record is after a call has begun, and after a step.     *)
LEMMA CallFacts ==
  ASSUME th \in [Thread -> Doing], NEW t \in Thread, NEW at, NEW s, NEW set, Call(t, at, s, set)
  PROVE  /\ ~Busy(t) /\ calls < MaxCalls /\ calls' = calls + 1 /\ faults' = faults
         /\ th'[t].at = at /\ th'[t].slave = {s} /\ th'[t].set = set
         /\ th'[t].word = AtRest.word /\ th'[t].seen = {} /\ th'[t].new = {}
         /\ th'[t].alone = Resting
         /\ \A u \in Thread \ {t} :
              /\ th'[u].at = th[u].at /\ th'[u].slave = th[u].slave /\ th'[u].set = th[u].set
              /\ th'[u].word = th[u].word /\ th'[u].seen = th[u].seen /\ th'[u].new = th[u].new
              /\ th'[u].alone = (th[u].alone /\ ~Busy(u))
<1>1. /\ ~Busy(t) /\ calls < MaxCalls /\ calls' = calls + 1 /\ faults' = faults
      /\ th'[t] = [AtRest EXCEPT !.at = at, !.slave = {s}, !.set = set, !.alone = Resting]
      /\ \A u \in Thread \ {t} : th'[u] = [th[u] EXCEPT !.alone = th[u].alone /\ ~Busy(u)]
  BY DEF Call
<1>2. /\ th'[t].at = at /\ th'[t].slave = {s} /\ th'[t].set = set
      /\ th'[t].word = AtRest.word /\ th'[t].seen = {} /\ th'[t].new = {}
      /\ th'[t].alone = Resting
  BY <1>1 DEF AtRest
<1>3. ASSUME NEW u \in Thread \ {t}
      PROVE  /\ th'[u].at = th[u].at /\ th'[u].slave = th[u].slave /\ th'[u].set = th[u].set
             /\ th'[u].word = th[u].word /\ th'[u].seen = th[u].seen /\ th'[u].new = th[u].new
             /\ th'[u].alone = (th[u].alone /\ ~Busy(u))
  <2>1. th[u] \in Doing /\ th'[u] = [th[u] EXCEPT !.alone = th[u].alone /\ ~Busy(u)]
    BY <1>1
  <2> QED
    BY <2>1 DEF Doing
<1> QED
  BY <1>1, <1>2, <1>3

LEMMA CallDoing ==
  ASSUME th \in [Thread -> Doing], NEW t \in Thread, NEW s \in Slave, NEW set \in Bits,
         NEW at \in {"load", "scan", "add", "drain"}, Call(t, at, s, set)
  PROVE  th' \in [Thread -> Doing]
<1>1. [AtRest EXCEPT !.at = at, !.slave = {s}, !.set = set, !.alone = Resting] \in Doing
  BY AtRestIsDoing DEF Doing, Resting
<1>2. \A u \in Thread : [th[u] EXCEPT !.alone = th[u].alone /\ ~Busy(u)] \in Doing
  BY DEF Doing
<1>3. th' = [u \in Thread |->
              IF u = t THEN [AtRest EXCEPT !.at = at, !.slave = {s}, !.set = set, !.alone = Resting]
              ELSE [th[u] EXCEPT !.alone = th[u].alone /\ ~Busy(u)]]
  BY DEF Call
<1> QED
  BY <1>1, <1>2, <1>3

(* A thread that goes on changes its own record only.                      *)
LEMMA StepFacts ==
  ASSUME th \in [Thread -> Doing], NEW t \in Thread, NEW from,
         NEW to \in {"idle", "load", "store", "scan", "add", "partly", "drain"}, Step(t, from, to)
  PROVE  /\ th[t].at = from /\ calls' = calls /\ faults' = faults
         /\ th' \in [Thread -> Doing]
         /\ th'[t].at = to /\ th'[t].slave = th[t].slave /\ th'[t].set = th[t].set
         /\ th'[t].word = th[t].word /\ th'[t].seen = th[t].seen /\ th'[t].new = th[t].new
         /\ th'[t].alone = th[t].alone
         /\ \A u \in Thread \ {t} : th'[u] = th[u]
<1>1. th' = [th EXCEPT ![t].at = to] /\ th[t] \in Doing
  BY DEF Step
<1>2. [th[t] EXCEPT !.at = to] \in Doing
  BY <1>1 DEF Doing
<1>3. th'[t] = [th[t] EXCEPT !.at = to] /\ \A u \in Thread \ {t} : th'[u] = th[u]
  BY <1>1
<1>4. th' \in [Thread -> Doing]
  BY <1>1, <1>2
<1>5. /\ th'[t].at = to /\ th'[t].slave = th[t].slave /\ th'[t].set = th[t].set
      /\ th'[t].word = th[t].word /\ th'[t].seen = th[t].seen /\ th'[t].new = th[t].new
      /\ th'[t].alone = th[t].alone
  BY <1>1, <1>3 DEF Doing
<1> QED
  BY <1>3, <1>4, <1>5 DEF Step

LEMMA LoadFacts ==
  ASSUME TypeInv, NEW t \in Thread, Load(t)
  PROVE  \E s \in Slave :
           /\ th[t].at = "load" /\ th[t].slave = {s}
           /\ th' \in [Thread -> Doing]
           /\ th'[t].at = "store" /\ th'[t].slave = {s} /\ th'[t].set = th[t].set
           /\ th'[t].word = bits[s] /\ th'[t].seen = th[t].seen /\ th'[t].new = th[t].new
           /\ th'[t].alone = th[t].alone
           /\ \A u \in Thread \ {t} : th'[u] = th[u]
<1>1. th \in [Thread -> Doing] /\ th[t] \in Doing /\ th[t].at = "load" /\ Busy(t)
  BY DEF TypeInv, Load, Busy
<1>2. PICK s \in Slave : th[t].slave = {s}
  BY <1>1 DEF TypeInv, TypeOK
<1>3. th' = [th EXCEPT ![t].at = "store", ![t].word = bits[s]]
  BY <1>2 DEF Load
<1>4. bits[s] \in Bits
  BY DEF TypeInv, TypeOK
<1>5. [th[t] EXCEPT !.at = "store", !.word = bits[s]] \in Doing
  BY <1>1, <1>4 DEF Doing
<1>6. th'[t] = [th[t] EXCEPT !.at = "store", !.word = bits[s]]
      /\ \A u \in Thread \ {t} : th'[u] = th[u]
  BY <1>1, <1>3
<1>7. th' \in [Thread -> Doing]
  BY <1>1, <1>3, <1>5
<1>8. /\ th'[t].at = "store" /\ th'[t].slave = th[t].slave /\ th'[t].set = th[t].set
      /\ th'[t].word = bits[s] /\ th'[t].seen = th[t].seen /\ th'[t].new = th[t].new
      /\ th'[t].alone = th[t].alone
  BY <1>1, <1>6 DEF Doing
<1> QED
  BY <1>1, <1>2, <1>6, <1>7, <1>8

LEMMA VisitFacts ==
  ASSUME TypeInv, NEW t \in Thread, Visit(t)
  PROVE  \E s \in bonded \ th[t].seen :
           /\ th[t].at = "scan" /\ s \in Slave
           /\ th' \in [Thread -> Doing]
           /\ th'[t].at = "scan" /\ th'[t].slave = th[t].slave /\ th'[t].set = th[t].set
           /\ th'[t].word = th[t].word /\ th'[t].seen = th[t].seen \cup {s}
           /\ th'[t].new = IF CanTx(s) THEN th[t].new \cup {s} ELSE th[t].new
           /\ th'[t].alone = th[t].alone
           /\ \A u \in Thread \ {t} : th'[u] = th[u]
<1>1. th \in [Thread -> Doing] /\ th[t] \in Doing /\ th[t].at = "scan"
  BY DEF TypeInv, Visit
<1>2. PICK s \in bonded \ th[t].seen :
        th' = [th EXCEPT ![t].seen = @ \cup {s},
                         ![t].new = IF CanTx(s) THEN @ \cup {s} ELSE @]
  BY DEF Visit
<1>3. s \in Slave
  BY DEF TypeInv, TypeOK
<1> DEFINE new == IF CanTx(s) THEN th[t].new \cup {s} ELSE th[t].new
<1>4. th[t].seen \cup {s} \in SUBSET Slave /\ new \in SUBSET Slave
  BY <1>1, <1>3 DEF Doing
<1>5. th' = [th EXCEPT ![t] = [th[t] EXCEPT !.seen = th[t].seen \cup {s}, !.new = new]]
  BY <1>1, <1>2
<1> HIDE DEF new
<1>6. [th[t] EXCEPT !.seen = th[t].seen \cup {s}, !.new = new] \in Doing
  BY <1>1, <1>4 DEF Doing
<1>7. th'[t] = [th[t] EXCEPT !.seen = th[t].seen \cup {s}, !.new = new]
      /\ \A u \in Thread \ {t} : th'[u] = th[u]
  BY <1>1, <1>5
<1>8. th' \in [Thread -> Doing]
  BY <1>1, <1>5, <1>6
<1>9. /\ th'[t].at = "scan" /\ th'[t].slave = th[t].slave /\ th'[t].set = th[t].set
      /\ th'[t].word = th[t].word /\ th'[t].seen = th[t].seen \cup {s} /\ th'[t].new = new
      /\ th'[t].alone = th[t].alone
  BY <1>1, <1>7 DEF Doing
<1> QED
  BY <1>1, <1>3, <1>7, <1>8, <1>9 DEF new

(* A call that comes to its end.                                           *)
LEMMA RestFacts ==
  ASSUME th \in [Thread -> Doing], NEW t \in Thread, th' = [th EXCEPT ![t] = AtRest]
  PROVE  /\ th' \in [Thread -> Doing] /\ th'[t] = AtRest
         /\ \A u \in Thread \ {t} : th'[u] = th[u]
BY AtRestIsDoing

-----------------------------------------------------------------------------
(* Types.                                                                  *)
ThreadOK(d) ==
  /\ d.at # "idle" => \E s \in Slave : d.slave = {s}
  /\ d.new \subseteq d.seen
  /\ d.at # "scan" => d.seen = {}

LEMMA TypeInvGives ==
  ASSUME TypeInv
  PROVE  /\ th \in [Thread -> Doing] /\ \A t \in Thread : ThreadOK(th[t])
         /\ files \subseteq bonded /\ bonded \cup up \cup arr \cup torn \subseteq Slave
         /\ bits \in [Slave -> Bits] /\ want \in [Slave -> Bits]
         /\ calls \in 0 .. MaxCalls /\ faults \in 0 .. MaxFaults /\ unsure \in BOOLEAN
BY DEF TypeInv, TypeOK, ThreadOK, Busy

LEMMA TypeInvFrom ==
  ASSUME th' \in [Thread -> Doing], \A t \in Thread : ThreadOK(th'[t]),
         files' \subseteq bonded', bonded' \cup up' \cup arr' \cup torn' \subseteq Slave,
         bits' \in [Slave -> Bits], want' \in [Slave -> Bits],
         calls' \in 0 .. MaxCalls, faults' \in 0 .. MaxFaults, unsure' \in BOOLEAN
  PROVE  TypeInv'
<1>1. ASSUME NEW t \in Thread
      PROVE  /\ th'[t].at \in {"idle", "load", "store", "scan", "add", "partly", "drain"}
             /\ th'[t].at # "idle" => \E s \in Slave : th'[t].slave = {s}
             /\ th'[t].word \in Bits /\ th'[t].new \subseteq th'[t].seen
             /\ th'[t].at # "scan" => th'[t].seen = {}
  <2>1. th'[t] \in Doing /\ ThreadOK(th'[t])
    OBVIOUS
  <2> QED
    BY <2>1 DEF Doing, ThreadOK
<1> QED
  BY <1>1 DEF TypeInv, TypeOK, Busy

LEMMA CallTypes ==
  ASSUME TypeInv, NEW t \in Thread, NEW s \in Slave, NEW set \in Bits,
         NEW at \in {"load", "scan", "add", "drain"}, Call(t, at, s, set)
  PROVE  /\ th' \in [Thread -> Doing] /\ \A u \in Thread : ThreadOK(th'[u])
         /\ calls' \in 0 .. MaxCalls /\ faults' \in 0 .. MaxFaults
<1>1. /\ th \in [Thread -> Doing] /\ \A u \in Thread : ThreadOK(th[u])
      /\ calls \in 0 .. MaxCalls /\ faults \in 0 .. MaxFaults
  BY TypeInvGives
<1>2. ThreadOK(th'[t])
  BY <1>1, CallFacts DEF ThreadOK
<1>3. ASSUME NEW u \in Thread \ {t} PROVE ThreadOK(th'[u])
  <2>1. ThreadOK(th[u]) /\ th'[u].at = th[u].at /\ th'[u].slave = th[u].slave
        /\ th'[u].seen = th[u].seen /\ th'[u].new = th[u].new
    BY <1>1, CallFacts
  <2> QED
    BY <2>1 DEF ThreadOK
<1>4. calls < MaxCalls /\ calls' = calls + 1 /\ faults' = faults
  BY <1>1, CallFacts
<1>5. calls' \in 0 .. MaxCalls
  BY <1>1, <1>4, OneMore, BondAssumption
<1> QED
  BY <1>1, <1>2, <1>3, <1>4, <1>5, CallDoing

LEMMA StepTypes ==
  ASSUME TypeInv, NEW t \in Thread, NEW from \in {"store", "add", "partly", "drain"},
         NEW to \in {"scan", "partly", "drain"}, Step(t, from, to)
  PROVE  /\ th' \in [Thread -> Doing] /\ \A u \in Thread : ThreadOK(th'[u])
         /\ calls' \in 0 .. MaxCalls /\ faults' \in 0 .. MaxFaults
         /\ \E s \in Slave : th[t].slave = {s}
<1>1. /\ th \in [Thread -> Doing] /\ \A u \in Thread : ThreadOK(th[u])
      /\ calls \in 0 .. MaxCalls /\ faults \in 0 .. MaxFaults
  BY TypeInvGives
<1>2. /\ th[t].at = from /\ calls' = calls /\ faults' = faults
      /\ th' \in [Thread -> Doing]
      /\ th'[t].at = to /\ th'[t].slave = th[t].slave
      /\ th'[t].seen = th[t].seen /\ th'[t].new = th[t].new
      /\ \A u \in Thread \ {t} : th'[u] = th[u]
  BY <1>1, StepFacts
<1>3. \E s \in Slave : th[t].slave = {s}
  BY <1>1, <1>2 DEF ThreadOK
<1>4. ThreadOK(th'[t])
  <2>1. th[t].seen = {} /\ th[t].new \subseteq th[t].seen
    BY <1>1, <1>2 DEF ThreadOK
  <2> QED
    BY <1>2, <1>3, <2>1 DEF ThreadOK
<1> QED
  BY <1>1, <1>2, <1>3, <1>4

LEMMA TypeInvInit == Init => TypeInv
<1> SUFFICES ASSUME Init PROVE TypeInv
  OBVIOUS
<1>1. th = [t \in Thread |-> AtRest] /\ th \in [Thread -> Doing]
  BY AtRestIsDoing DEF Init
<1>2. \A t \in Thread : th[t].at = "idle" /\ th[t].word \in Bits
        /\ th[t].new = {} /\ th[t].seen = {}
  BY <1>1, AtRestIsDoing DEF Doing
<1>3. bits \in [Slave -> Bits] /\ want \in [Slave -> Bits]
  BY FreshIsAWord DEF Init
<1>4. calls \in 0 .. MaxCalls /\ faults \in 0 .. MaxFaults
  BY BondAssumption DEF Init
<1>5. /\ files \subseteq bonded /\ bonded \cup up \cup arr \cup torn \subseteq Slave
      /\ unsure \in BOOLEAN
  BY DEF Init
<1> QED
  BY <1>1, <1>2, <1>3, <1>4, <1>5 DEF TypeInv, TypeOK, Busy

LEMMA TypeInvStep ==
  TypeInv /\ DriverInv /\ NoStoreAfterRelease /\ [Next]_vars => TypeInv'
<1> SUFFICES ASSUME TypeInv, DriverInv, NoStoreAfterRelease, [Next]_vars PROVE TypeInv'
  OBVIOUS
<1>a. /\ th \in [Thread -> Doing] /\ \A t \in Thread : ThreadOK(th[t])
      /\ files \subseteq bonded /\ bonded \cup up \cup arr \cup torn \subseteq Slave
      /\ bits \in [Slave -> Bits] /\ want \in [Slave -> Bits]
      /\ calls \in 0 .. MaxCalls /\ faults \in 0 .. MaxFaults /\ unsure \in BOOLEAN
  BY TypeInvGives
<1>1. ASSUME NEW w \in Writer, NEW s \in Slave, NEW fwd \in {INACTIVE, ACTIVE},
             FwdStateStore(w, s, fwd)
      PROVE  TypeInv'
  <2>1. [Fresh EXCEPT !.fwd = fwd] \in Bits /\ w \in Thread
    BY FreshIsAWord DEF Thread
  <2>2. Call(w, "load", s, [Fresh EXCEPT !.fwd = fwd])
        /\ UNCHANGED <<bonded, files, up, bits, arr, want, torn, unsure>>
    BY <1>1 DEF FwdStateStore
  <2>3. /\ th' \in [Thread -> Doing] /\ \A u \in Thread : ThreadOK(th'[u])
        /\ calls' \in 0 .. MaxCalls /\ faults' \in 0 .. MaxFaults
    BY <2>1, <2>2, CallTypes
  <2> QED
    BY <1>a, <2>2, <2>3, TypeInvFrom
<1>2. ASSUME NEW s \in Slave, Enslave(s) PROVE TypeInv'
  <2>1. /\ Call(Driver, "add", s, Fresh) /\ bonded' = bonded \cup {s}
        /\ torn' = torn \ {s} /\ UNCHANGED <<files, up, arr, unsure>>
    BY <1>2 DEF Enslave
  <2>2. PICK b \in BOOLEAN : bits' = [bits EXCEPT ![s] = [Fresh EXCEPT !.backup = b]]
    BY <1>2 DEF Enslave
  <2>3. [Fresh EXCEPT !.backup = b] \in Bits /\ Fresh \in Bits
    BY FreshIsAWord
  <2>4. bits' \in [Slave -> Bits]
    BY <1>a, <2>2, <2>3
  <2>5. want' = [want EXCEPT ![s] = bits'[s]] /\ bits'[s] \in Bits
    BY <1>2, <2>4 DEF Enslave
  <2>6. want' \in [Slave -> Bits]
    BY <1>a, <2>5
  <2>7. /\ th' \in [Thread -> Doing] /\ \A u \in Thread : ThreadOK(th'[u])
        /\ calls' \in 0 .. MaxCalls /\ faults' \in 0 .. MaxFaults
    BY <2>1, <2>3, CallTypes, DriverIsAThread
  <2> QED
    BY <1>a, <2>1, <2>4, <2>6, <2>7, TypeInvFrom
<1>3. ASSUME NEW s \in Slave, bond_sysfs_slave_del(s) PROVE TypeInv'
  <2>1. /\ Call(Driver, "drain", s, Fresh) /\ files' = files \ {s}
        /\ UNCHANGED <<bonded, up, bits, arr, want, torn, unsure>>
    BY <1>3 DEF bond_sysfs_slave_del
  <2>2. /\ th' \in [Thread -> Doing] /\ \A u \in Thread : ThreadOK(th'[u])
        /\ calls' \in 0 .. MaxCalls /\ faults' \in 0 .. MaxFaults
    BY <2>1, CallTypes, DriverIsAThread, FreshIsAWord
  <2>3. files' \subseteq bonded'
    BY <1>a, <2>1
  <2> QED
    BY <1>a, <2>1, <2>2, <2>3, TypeInvFrom
<1>4. ASSUME NEW s \in Slave, LinkChange(s) PROVE TypeInv'
  <2>1. /\ Call(Driver, "scan", s, Fresh)
        /\ up' = IF s \in up THEN up \ {s} ELSE up \cup {s}
        /\ UNCHANGED <<bonded, files, bits, arr, want, torn, unsure>>
    BY <1>4 DEF LinkChange
  <2>2. /\ th' \in [Thread -> Doing] /\ \A u \in Thread : ThreadOK(th'[u])
        /\ calls' \in 0 .. MaxCalls /\ faults' \in 0 .. MaxFaults
    BY <2>1, CallTypes, DriverIsAThread, FreshIsAWord
  <2>3. bonded' \cup up' \cup arr' \cup torn' \subseteq Slave
    BY <1>a, <2>1
  <2> QED
    BY <1>a, <2>1, <2>2, <2>3, TypeInvFrom
<1>5. ASSUME NEW s \in Slave, NEW backup \in BOOLEAN, SetBackup(s, backup) PROVE TypeInv'
  <2>1. [Fresh EXCEPT !.backup = backup] \in Bits
    BY FreshIsAWord
  <2>2. Call(Driver, "load", s, [Fresh EXCEPT !.backup = backup])
        /\ UNCHANGED <<bonded, files, up, bits, arr, want, torn, unsure>>
    BY <1>5 DEF SetBackup
  <2>3. /\ th' \in [Thread -> Doing] /\ \A u \in Thread : ThreadOK(th'[u])
        /\ calls' \in 0 .. MaxCalls /\ faults' \in 0 .. MaxFaults
    BY <2>1, <2>2, CallTypes, DriverIsAThread
  <2> QED
    BY <1>a, <2>2, <2>3, TypeInvFrom
<1>6. ASSUME NEW t \in Thread, Load(t) PROVE TypeInv'
  <2>1. PICK s \in Slave :
           /\ th[t].at = "load" /\ th[t].slave = {s}
           /\ th' \in [Thread -> Doing]
           /\ th'[t].at = "store" /\ th'[t].slave = {s}
           /\ th'[t].seen = th[t].seen /\ th'[t].new = th[t].new
           /\ \A u \in Thread \ {t} : th'[u] = th[u]
    BY <1>6, LoadFacts
  <2>2. ThreadOK(th[t])
    BY <1>a
  <2>3. ThreadOK(th'[t])
    BY <2>1, <2>2 DEF ThreadOK
  <2> QED
    BY <1>6, <1>a, <2>1, <2>3, TypeInvFrom DEF Load
<1>7. ASSUME NEW t \in Thread, Store(t) PROVE TypeInv'
  <2>1. Step(t, "store", "scan") /\ UNCHANGED <<bonded, files, up, arr, unsure>>
    BY <1>7 DEF Store
  <2>2. /\ th' \in [Thread -> Doing] /\ \A u \in Thread : ThreadOK(th'[u])
        /\ calls' \in 0 .. MaxCalls /\ faults' \in 0 .. MaxFaults
    BY <2>1, StepTypes
  <2>3. PICK s \in th[t].slave :
          /\ bits' = [bits EXCEPT ![s] = Set(t, th[t].word)]
          /\ want' = [want EXCEPT ![s] = Set(t, want[s])]
          /\ torn' = IF bits[s] = th[t].word THEN torn ELSE torn \cup {s}
    BY <1>7 DEF Store
  <2>4. th[t] \in Doing
    BY <1>a
  <2>5. s \in Slave /\ th[t].word \in Bits /\ th[t].set \in Bits /\ want[s] \in Bits
    BY <1>a, <2>4 DEF Doing
  <2>6. Set(t, th[t].word) \in Bits /\ Set(t, want[s]) \in Bits
    BY <2>5 DEF Set, Bits
  <2>7. bits' \in [Slave -> Bits] /\ want' \in [Slave -> Bits] /\ torn' \subseteq Slave
    BY <1>a, <2>3, <2>5, <2>6
  <2> QED
    BY <1>a, <2>1, <2>2, <2>7, TypeInvFrom
<1>8. ASSUME NEW t \in Thread, Visit(t) PROVE TypeInv'
  <2>1. PICK s \in bonded \ th[t].seen :
           /\ th[t].at = "scan" /\ s \in Slave
           /\ th' \in [Thread -> Doing]
           /\ th'[t].at = "scan" /\ th'[t].slave = th[t].slave
           /\ th'[t].seen = th[t].seen \cup {s}
           /\ th'[t].new = IF CanTx(s) THEN th[t].new \cup {s} ELSE th[t].new
           /\ \A u \in Thread \ {t} : th'[u] = th[u]
    BY <1>8, VisitFacts
  <2>2. ThreadOK(th[t])
    BY <1>a
  <2>3. ThreadOK(th'[t])
    BY <2>1, <2>2 DEF ThreadOK
  <2> QED
    BY <1>8, <1>a, <2>1, <2>3, TypeInvFrom DEF Visit
<1>9. ASSUME NEW t \in Thread, th' = [th EXCEPT ![t] = AtRest],
             UNCHANGED <<bonded, files, up, bits, calls, want, torn>>,
             arr' \subseteq Slave, faults' \in 0 .. MaxFaults, unsure' \in BOOLEAN
      PROVE  TypeInv'
  <2>1. /\ th' \in [Thread -> Doing] /\ th'[t] = AtRest
        /\ \A u \in Thread \ {t} : th'[u] = th[u]
    BY <1>9, <1>a, RestFacts
  <2>2. ThreadOK(th'[t])
    BY <2>1, AtRestIsDoing DEF ThreadOK
  <2> QED
    BY <1>9, <1>a, <2>1, <2>2, TypeInvFrom
<1>10. ASSUME NEW t \in Thread, Publish(t) PROVE TypeInv'
  <2>1. th[t] \in Doing
    BY <1>a
  <2>2. th[t].new \subseteq Slave /\ th[t].alone \in BOOLEAN
    BY <2>1 DEF Doing
  <2> QED
    BY <1>10, <1>9, <1>a, <2>2 DEF Publish
<1>11. ASSUME NEW t \in Thread, NoMemory(t) PROVE TypeInv'
  <2>1. faults' \in 0 .. MaxFaults
    BY <1>11, <1>a, OneMore, BondAssumption DEF NoMemory
  <2> QED
    BY <1>11, <1>9, <1>a, <2>1 DEF NoMemory
<1>12. CASE bond_sysfs_slave_add
  <2>1. /\ Step(Driver, "add", "scan") /\ files' = files \cup th[Driver].slave
        /\ UNCHANGED <<bonded, up, bits, arr, want, torn, unsure>>
    BY <1>12 DEF bond_sysfs_slave_add
  <2>2. files' \subseteq bonded'
    BY <1>a, <2>1 DEF DriverInv, Step
  <2> QED
    BY <1>a, <2>1, <2>2, StepTypes, TypeInvFrom, DriverIsAThread
<1>13. CASE SlaveAddFails
  <2>1. UNCHANGED <<bonded, up, bits, arr, want, torn, unsure>>
    BY <1>13 DEF SlaveAddFails
  <2>2. CASE Step(Driver, "add", "partly") /\ files' = files \cup th[Driver].slave
    <3>1. files' \subseteq bonded'
      BY <1>a, <2>1, <2>2 DEF DriverInv, Step
    <3> QED
      BY <1>a, <2>1, <2>2, <3>1, StepTypes, TypeInvFrom, DriverIsAThread
  <2>3. CASE Step(Driver, "partly", "drain") /\ files' = files \ th[Driver].slave
    <3>1. files' \subseteq bonded'
      BY <1>a, <2>1, <2>3
    <3> QED
      BY <1>a, <2>1, <2>3, <3>1, StepTypes, TypeInvFrom, DriverIsAThread
  <2> QED
    BY <1>13, <2>2, <2>3 DEF SlaveAddFails
<1>14. CASE Unlink
  <2>1. /\ Step(Driver, "drain", "scan") /\ bonded' = bonded \ th[Driver].slave
        /\ UNCHANGED <<files, up, bits, arr, want, torn, unsure>>
    BY <1>14 DEF Unlink
  <2>2. files' \subseteq bonded'
    BY <1>a, <2>1 DEF DriverInv, Step
  <2>3. bonded' \cup up' \cup arr' \cup torn' \subseteq Slave
    BY <1>a, <2>1
  <2> QED
    BY <1>a, <2>1, <2>2, <2>3, StepTypes, TypeInvFrom, DriverIsAThread
<1>15. CASE UNCHANGED vars
  BY <1>15, <1>a, TypeInvFrom DEF vars
<1>16. ASSUME NEW t \in Thread, Goes(t) PROVE TypeInv'
  BY <1>16, <1>6, <1>7, <1>8, <1>10, <1>11 DEF Goes
<1> QED
  BY <1>1, <1>2, <1>3, <1>4, <1>5, <1>12, <1>13, <1>14, <1>15, <1>16, DriverIsAThread
     DEF Next, DriverGoes, Thread

-----------------------------------------------------------------------------
(* Where slaves are.                                                       *)
PlaceInv == DriverInv /\ NoStoreAfterRelease

(* A thread that goes on within a call, or ends it, among bonded slaves.   *)
LEMMA PlaceGoes ==
  ASSUME TypeInv, PlaceInv, NEW t \in Thread, Busy(t),
         \A u \in Thread \ {t} : th'[u] = th[u],
         \/ th'[t].at = "idle"
         \/ th'[t].at \in {"load", "store", "scan"} /\ th'[t].slave = th[t].slave,
         UNCHANGED <<bonded, files>>
  PROVE  PlaceInv'
<1>1. DriverInv'
  BY DriverIsAThread DEF PlaceInv, DriverInv
<1>2. NoStoreAfterRelease'
  BY DEF PlaceInv, NoStoreAfterRelease, Thread, Busy
<1> QED
  BY <1>1, <1>2 DEF PlaceInv

(* A call of the driver's begins.                                          *)
LEMMA PlaceCall ==
  ASSUME TypeInv, PlaceInv, NEW s \in Slave, NEW set, NEW at \in {"load", "scan", "add", "drain"},
         Call(Driver, at, s, set),
         bonded \subseteq bonded', at = "add" => s \in bonded', at = "drain" => s \notin files'
  PROVE  PlaceInv'
<1>1. /\ th'[Driver].at = at /\ th'[Driver].slave = {s}
      /\ \A u \in Thread \ {Driver} : th'[u].at = th[u].at /\ th'[u].slave = th[u].slave
  BY CallFacts, TypeInvGives, DriverIsAThread
<1>2. DriverInv'
  BY <1>1 DEF DriverInv
<1>3. NoStoreAfterRelease'
  BY <1>1, DriverIsAThread DEF PlaceInv, NoStoreAfterRelease, Thread, Busy
<1> QED
  BY <1>2, <1>3 DEF PlaceInv

LEMMA PlaceInit == Init => PlaceInv
<1> SUFFICES ASSUME Init PROVE PlaceInv
  OBVIOUS
<1>1. \A t \in Thread : th[t].at = "idle"
  BY AtRestIsDoing DEF Init
<1> QED
  BY <1>1, DriverIsAThread DEF PlaceInv, DriverInv, NoStoreAfterRelease, Busy, Thread

LEMMA PlaceStep == TypeInv /\ PlaceInv /\ [Next]_vars => PlaceInv'
<1> SUFFICES ASSUME TypeInv, PlaceInv, [Next]_vars PROVE PlaceInv'
  OBVIOUS
<1>a. /\ th \in [Thread -> Doing] /\ \A t \in Thread : ThreadOK(th[t])
      /\ files \subseteq bonded /\ bonded \subseteq Slave
  BY TypeInvGives
<1>1. ASSUME NEW w \in Writer, NEW s \in Slave, NEW fwd \in {INACTIVE, ACTIVE},
             FwdStateStore(w, s, fwd)
      PROVE  PlaceInv'
  <2>1. /\ s \in files /\ Call(w, "load", s, [Fresh EXCEPT !.fwd = fwd])
        /\ UNCHANGED <<bonded, files>> /\ w \in Thread /\ w # Driver
    BY <1>1, DriverIsAThread DEF FwdStateStore, Thread
  <2>2. /\ th'[w].slave = {s}
        /\ \A u \in Thread \ {w} : th'[u].at = th[u].at /\ th'[u].slave = th[u].slave
    BY <1>a, <2>1, CallFacts
  <2>3. DriverInv'
    BY <2>1, <2>2, DriverIsAThread DEF PlaceInv, DriverInv
  <2>4. NoStoreAfterRelease'
    BY <1>a, <2>1, <2>2 DEF PlaceInv, NoStoreAfterRelease, Thread, Busy
  <2> QED
    BY <2>3, <2>4 DEF PlaceInv
<1>2. ASSUME NEW s \in Slave, Enslave(s) PROVE PlaceInv'
  BY <1>2, PlaceCall DEF Enslave
<1>3. ASSUME NEW s \in Slave, bond_sysfs_slave_del(s) PROVE PlaceInv'
  BY <1>3, PlaceCall DEF bond_sysfs_slave_del
<1>4. ASSUME NEW s \in Slave, LinkChange(s) PROVE PlaceInv'
  BY <1>4, PlaceCall DEF LinkChange
<1>5. ASSUME NEW s \in Slave, NEW backup \in BOOLEAN, SetBackup(s, backup) PROVE PlaceInv'
  BY <1>5, PlaceCall DEF SetBackup
<1>6. ASSUME NEW t \in Thread, Load(t) PROVE PlaceInv'
  <2>1. Busy(t) /\ UNCHANGED <<bonded, files>>
    BY <1>6 DEF Load, Busy
  <2> QED
    BY <1>6, <2>1, LoadFacts, PlaceGoes
<1>7. ASSUME NEW t \in Thread, Store(t) PROVE PlaceInv'
  <2>1. Step(t, "store", "scan") /\ UNCHANGED <<bonded, files>>
    BY <1>7 DEF Store
  <2>2. Busy(t) /\ th'[t].at = "scan" /\ th'[t].slave = th[t].slave
        /\ \A u \in Thread \ {t} : th'[u] = th[u]
    BY <1>a, <2>1, StepFacts DEF Step, Busy
  <2> QED
    BY <2>1, <2>2, PlaceGoes
<1>8. ASSUME NEW t \in Thread, Visit(t) PROVE PlaceInv'
  <2>1. Busy(t) /\ UNCHANGED <<bonded, files>>
    BY <1>8 DEF Visit, Busy
  <2> QED
    BY <1>8, <2>1, VisitFacts, PlaceGoes
<1>9. ASSUME NEW t \in Thread, Publish(t) \/ NoMemory(t) PROVE PlaceInv'
  <2>1. Busy(t) /\ UNCHANGED <<bonded, files>> /\ th' = [th EXCEPT ![t] = AtRest]
    BY <1>9 DEF Publish, NoMemory, Busy
  <2>2. th'[t].at = "idle" /\ \A u \in Thread \ {t} : th'[u] = th[u]
    BY <1>a, <2>1, RestFacts, AtRestIsDoing
  <2> QED
    BY <2>1, <2>2, PlaceGoes
<1>10. CASE bond_sysfs_slave_add
  <2>1. Step(Driver, "add", "scan") /\ bonded' = bonded
    BY <1>10 DEF bond_sysfs_slave_add
  <2>2. th'[Driver].at = "scan" /\ \A u \in Thread \ {Driver} : th'[u] = th[u]
    BY <1>a, <2>1, StepFacts, DriverIsAThread
  <2>3. DriverInv' /\ NoStoreAfterRelease'
    BY <2>1, <2>2, DriverIsAThread DEF PlaceInv, DriverInv, NoStoreAfterRelease, Thread, Busy
  <2> QED
    BY <2>3 DEF PlaceInv
<1>11. CASE SlaveAddFails
  <2>1. PICK from \in {"add", "partly"}, to \in {"partly", "drain"} :
          /\ Step(Driver, from, to) /\ bonded' = bonded
          /\ to = "partly" => from = "add"
          /\ to = "drain" => files' = files \ th[Driver].slave
    BY <1>11 DEF SlaveAddFails
  <2>2. /\ th[Driver].at = from /\ th'[Driver].at = to /\ th'[Driver].slave = th[Driver].slave
        /\ \A u \in Thread \ {Driver} : th'[u] = th[u]
    BY <1>a, <2>1, StepFacts, DriverIsAThread
  <2>3. DriverInv'
    BY <2>1, <2>2 DEF PlaceInv, DriverInv
  <2>4. NoStoreAfterRelease'
    BY <2>1, <2>2, DriverIsAThread DEF PlaceInv, NoStoreAfterRelease, Thread, Busy
  <2> QED
    BY <2>3, <2>4 DEF PlaceInv
<1>12. CASE Unlink
  <2>1. /\ \A w \in Writer : Busy(w) => th[w].slave # th[Driver].slave
        /\ Step(Driver, "drain", "scan") /\ bonded' = bonded \ th[Driver].slave
    BY <1>12 DEF Unlink
  <2>2. /\ th[Driver].at = "drain" /\ th'[Driver].at = "scan"
        /\ \A u \in Thread \ {Driver} : th'[u] = th[u]
    BY <1>a, <2>1, StepFacts, DriverIsAThread
  <2>3. PICK d \in Slave : th[Driver].slave = {d}
    BY <1>a, <2>2, DriverIsAThread DEF ThreadOK
  <2>4. ASSUME NEW w \in Writer, Busy(w)' PROVE th'[w].slave \subseteq bonded'
    <3>1. w \in Thread /\ th'[w] = th[w] /\ Busy(w)
      BY <2>2, <2>4, DriverIsAThread DEF Thread, Busy
    <3>2. PICK s \in Slave : th[w].slave = {s}
      BY <1>a, <3>1 DEF ThreadOK, Busy
    <3>3. s \in bonded /\ s # d
      BY <2>1, <2>3, <3>1, <3>2 DEF PlaceInv, NoStoreAfterRelease
    <3> QED
      BY <2>1, <2>3, <3>1, <3>2, <3>3
  <2>5. DriverInv'
    BY <2>2 DEF DriverInv
  <2> QED
    BY <2>4, <2>5 DEF PlaceInv, NoStoreAfterRelease
<1>13. CASE UNCHANGED vars
  BY <1>13 DEF vars, PlaceInv, DriverInv, NoStoreAfterRelease, Busy
<1>14. ASSUME NEW t \in Thread, Goes(t) PROVE PlaceInv'
  BY <1>14, <1>6, <1>7, <1>8, <1>9 DEF Goes
<1> QED
  BY <1>1, <1>2, <1>3, <1>4, <1>5, <1>10, <1>11, <1>12, <1>13, <1>14, DriverIsAThread
     DEF Next, DriverGoes, Thread

-----------------------------------------------------------------------------
(* What is stored.                                                         *)
LEMMA StoresUnchanged ==
  ASSUME StoresHold, bonded' \subseteq bonded, UNCHANGED <<bits, want, torn>>
  PROVE  StoresHold'
BY DEF StoresHold

(* A store over the word that was loaded sets one bit and keeps the other. *)
LEMMA StoresStore == ASSUME TypeInv, StoresHold, NEW t \in Thread, Store(t) PROVE StoresHold'
<1>1. PICK d \in th[t].slave :
        /\ bits' = [bits EXCEPT ![d] = Set(t, th[t].word)]
        /\ want' = [want EXCEPT ![d] = Set(t, want[d])]
        /\ torn' = IF bits[d] = th[t].word THEN torn ELSE torn \cup {d}
        /\ bonded' = bonded
  BY DEF Store
<1>2. /\ bits \in [Slave -> Bits] /\ want \in [Slave -> Bits] /\ bonded \subseteq Slave
      /\ th[t] \in Doing
  BY TypeInvGives
<1>3. d \in Slave
  BY <1>1, <1>2 DEF Doing
<1>4. ASSUME NEW s \in bonded', s \notin torn' PROVE bits'[s] = want'[s]
  <2>1. CASE s = d
    <3>1. bits[d] = th[t].word /\ d \notin torn /\ d \in bonded
      BY <1>1, <1>4, <2>1
    <3>2. bits[d] = want[d]
      BY <3>1 DEF StoresHold
    <3> QED
      BY <1>1, <1>2, <1>3, <2>1, <3>1, <3>2
  <2>2. CASE s # d
    <3>1. s \in Slave /\ s \in bonded /\ s \notin torn
      BY <1>1, <1>2, <1>4
    <3> QED
      BY <1>1, <1>2, <2>2, <3>1 DEF StoresHold
  <2> QED
    BY <2>1, <2>2
<1> QED
  BY <1>4 DEF StoresHold

LEMMA StoresEnslave == ASSUME TypeInv, StoresHold, NEW s \in Slave, Enslave(s) PROVE StoresHold'
<1>1. /\ bits \in [Slave -> Bits] /\ want \in [Slave -> Bits] /\ bonded \subseteq Slave
  BY TypeInvGives
<1>2. PICK b \in BOOLEAN : bits' = [bits EXCEPT ![s] = [Fresh EXCEPT !.backup = b]]
  BY DEF Enslave
<1>3. want' = [want EXCEPT ![s] = bits'[s]] /\ bonded' = bonded \cup {s} /\ torn' = torn \ {s}
  BY DEF Enslave
<1>4. ASSUME NEW x \in bonded', x \notin torn' PROVE bits'[x] = want'[x]
  <2>1. CASE x = s
    BY <1>1, <1>3, <2>1
  <2>2. CASE x # s
    BY <1>1, <1>2, <1>3, <1>4, <2>2 DEF StoresHold
  <2> QED
    BY <2>1, <2>2
<1> QED
  BY <1>4 DEF StoresHold

LEMMA StoresStep == TypeInv /\ StoresHold /\ [Next]_vars => StoresHold'
<1> SUFFICES ASSUME TypeInv, StoresHold, [Next]_vars PROVE StoresHold'
  OBVIOUS
<1>1. ASSUME NEW t \in Thread, Goes(t) PROVE StoresHold'
  BY <1>1, StoresStore, StoresUnchanged DEF Goes, Load, Visit, Publish, NoMemory
<1>2. CASE \E w \in Writer, s \in Slave, fwd \in {INACTIVE, ACTIVE} : FwdStateStore(w, s, fwd)
  BY <1>2, StoresUnchanged DEF FwdStateStore
<1>3. CASE \E s \in Slave :
             Enslave(s) \/ bond_sysfs_slave_del(s) \/ LinkChange(s)
  BY <1>3, StoresEnslave, StoresUnchanged DEF bond_sysfs_slave_del, LinkChange
<1>4. CASE \E s \in Slave, backup \in BOOLEAN : SetBackup(s, backup)
  BY <1>4, StoresUnchanged DEF SetBackup
<1>5. CASE bond_sysfs_slave_add \/ SlaveAddFails \/ Unlink
  BY <1>5, StoresUnchanged DEF bond_sysfs_slave_add, SlaveAddFails, Unlink
<1>6. CASE UNCHANGED vars
  BY <1>6, StoresUnchanged DEF vars
<1> QED
  BY <1>1, <1>2, <1>3, <1>4, <1>5, <1>6, DriverIsAThread DEF Next, DriverGoes, Thread

-----------------------------------------------------------------------------
(* The array.                                                              *)
ArrayInv == AloneInv /\ ArrayIsRebuilt

(* A call begins: it is alone if nothing else is in progress, and nothing  *)
(* else is alone any more.                                                 *)
LEMMA ArrayCall ==
  ASSUME TypeInv, NEW t \in Thread, NEW at \in {"load", "scan", "add", "drain"}, NEW s, NEW set,
         Call(t, at, s, set)
  PROVE  ArrayInv'
<1>1. /\ ~Busy(t) /\ th'[t].at = at /\ th'[t].seen = {} /\ th'[t].new = {}
      /\ th'[t].alone = Resting
      /\ \A u \in Thread \ {t} : th'[u].at = th[u].at /\ th'[u].alone = (th[u].alone /\ ~Busy(u))
  BY CallFacts, TypeInvGives
<1>2. Busy(t)' /\ \A u \in Thread \ {t} : Busy(u)' = Busy(u)
  BY <1>1 DEF Busy
<1>3. ASSUME NEW u \in Thread, Busy(u)', th'[u].alone
      PROVE  /\ \A v \in Thread \ {u} : ~Busy(v)'
             /\ th'[u].seen \subseteq bonded'
             /\ th'[u].new = {x \in th'[u].seen : CanTx(x)'}
  <2>1. u = t /\ Resting
    BY <1>1, <1>2, <1>3
  <2> QED
    BY <1>1, <1>2, <2>1 DEF Resting
<1>4. AloneInv'
  BY <1>3 DEF AloneInv
<1>5. ~Resting'
  BY <1>2 DEF Resting
<1> QED
  BY <1>4, <1>5 DEF ArrayInv, ArrayIsRebuilt

(* A call goes on before anything is seen.                                 *)
LEMMA ArrayGoes ==
  ASSUME TypeInv, ArrayInv, NEW t \in Thread, Busy(t), Busy(t)', th'[t].seen = {}, th'[t].new = {},
         th'[t].alone = th[t].alone, \A u \in Thread \ {t} : th'[u] = th[u]
  PROVE  ArrayInv'
<1>1. \A u \in Thread \ {t} : Busy(u)' = Busy(u)
  BY DEF Busy
<1>2. ASSUME NEW u \in Thread, Busy(u)', th'[u].alone
      PROVE  /\ \A v \in Thread \ {u} : ~Busy(v)'
             /\ th'[u].seen \subseteq bonded'
             /\ th'[u].new = {x \in th'[u].seen : CanTx(x)'}
  <2>1. u = t
    BY <1>1, <1>2 DEF ArrayInv, AloneInv
  <2>2. \A v \in Thread \ {t} : ~Busy(v)
    BY <1>2, <2>1 DEF ArrayInv, AloneInv
  <2> QED
    BY <1>1, <2>1, <2>2
<1>3. AloneInv'
  BY <1>2 DEF AloneInv
<1> QED
  BY <1>3 DEF ArrayInv, ArrayIsRebuilt, Resting

LEMMA ArrayGoesOn ==
  ASSUME TypeInv, ArrayInv, NEW t \in Thread, NEW from \in {"store", "add", "partly", "drain"},
         NEW to \in {"scan", "partly", "drain"}, Step(t, from, to)
  PROVE  ArrayInv'
<1>1. th \in [Thread -> Doing] /\ ThreadOK(th[t])
  BY TypeInvGives
<1>2. /\ th[t].at = from /\ th'[t].at = to /\ th'[t].seen = th[t].seen /\ th'[t].new = th[t].new
      /\ th'[t].alone = th[t].alone /\ \A u \in Thread \ {t} : th'[u] = th[u]
  BY <1>1, StepFacts
<1>3. th[t].seen = {} /\ th[t].new = {}
  BY <1>1, <1>2 DEF ThreadOK
<1>4. Busy(t) /\ Busy(t)'
  BY <1>2 DEF Busy
<1> QED
  BY <1>2, <1>3, <1>4, ArrayGoes

LEMMA ArrayLoad == ASSUME TypeInv, ArrayInv, NEW t \in Thread, Load(t) PROVE ArrayInv'
<1>1. /\ th[t].at = "load" /\ th'[t].at = "store"
      /\ th'[t].seen = th[t].seen /\ th'[t].new = th[t].new
      /\ th'[t].alone = th[t].alone /\ \A u \in Thread \ {t} : th'[u] = th[u]
  BY LoadFacts
<1>2. th[t].seen = {} /\ th[t].new = {}
  BY <1>1, TypeInvGives DEF ThreadOK
<1>3. Busy(t) /\ Busy(t)'
  BY <1>1 DEF Busy
<1> QED
  BY <1>1, <1>2, <1>3, ArrayGoes

(* One more slave is seen, and counted if it may transmit.                 *)
LEMMA ArrayVisit == ASSUME TypeInv, ArrayInv, NEW t \in Thread, Visit(t) PROVE ArrayInv'
<1>1. PICK s \in bonded \ th[t].seen :
        /\ th[t].at = "scan" /\ th'[t].at = "scan" /\ th'[t].seen = th[t].seen \cup {s}
        /\ th'[t].new = IF CanTx(s) THEN th[t].new \cup {s} ELSE th[t].new
        /\ th'[t].alone = th[t].alone
        /\ \A u \in Thread \ {t} : th'[u] = th[u]
  BY VisitFacts
<1>2. bonded' = bonded /\ \A x : CanTx(x)' = CanTx(x)
  BY DEF Visit, CanTx
<1>3. Busy(t) /\ \A u \in Thread : Busy(u)' = Busy(u)
  BY <1>1 DEF Busy
<1>4. ASSUME NEW u \in Thread, Busy(u)', th'[u].alone
      PROVE  /\ \A v \in Thread \ {u} : ~Busy(v)'
             /\ th'[u].seen \subseteq bonded'
             /\ th'[u].new = {x \in th'[u].seen : CanTx(x)'}
  <2>1. u = t
    BY <1>1, <1>3, <1>4 DEF ArrayInv, AloneInv
  <2>2. /\ \A v \in Thread \ {t} : ~Busy(v) /\ th[t].seen \subseteq bonded
        /\ th[t].seen \subseteq bonded
        /\ th[t].new = {x \in th[t].seen : CanTx(x)}
    BY <1>1, <1>3, <1>4, <2>1 DEF ArrayInv, AloneInv
  <2>3. th'[t].new = {x \in th'[t].seen : CanTx(x)}
    BY <1>1, <2>2
  <2> QED
    BY <1>1, <1>2, <1>3, <2>1, <2>2, <2>3
<1>5. AloneInv'
  BY <1>4 DEF AloneInv
<1>6. ~Resting'
  BY <1>3 DEF Resting
<1> QED
  BY <1>5, <1>6 DEF ArrayInv, ArrayIsRebuilt

(* A call ends: the others that are in progress were not alone.            *)
LEMMA ArrayRest ==
  ASSUME TypeInv, ArrayInv, NEW t \in Thread, Busy(t), th' = [th EXCEPT ![t] = AtRest]
  PROVE  AloneInv'
<1>1. ~Busy(t)' /\ \A u \in Thread \ {t} : th'[u] = th[u] /\ Busy(u)' = Busy(u)
  BY RestFacts, AtRestIsDoing, TypeInvGives DEF Busy
<1>2. \A u \in Thread \ {t} : ~(Busy(u) /\ th[u].alone)
  BY DEF ArrayInv, AloneInv
<1> QED
  BY <1>1, <1>2 DEF AloneInv

LEMMA ArrayPublish == ASSUME TypeInv, ArrayInv, NEW t \in Thread, Publish(t) PROVE ArrayInv'
<1>1. /\ Busy(t) /\ th' = [th EXCEPT ![t] = AtRest] /\ bonded \subseteq th[t].seen
      /\ arr' = th[t].new /\ unsure' = ~th[t].alone /\ bonded' = bonded
      /\ \A x : CanTx(x)' = CanTx(x)
  BY DEF Publish, Busy, CanTx
<1>2. ASSUME ~unsure' PROVE arr' = {s \in bonded' : CanTx(s)'}
  <2>1. th[t] \in Doing
    BY TypeInvGives
  <2>2. th[t].alone
    BY <1>1, <1>2, <2>1 DEF Doing
  <2>3. th[t].seen = bonded /\ th[t].new = {s \in th[t].seen : CanTx(s)}
    BY <1>1, <2>2 DEF ArrayInv, AloneInv
  <2> QED
    BY <1>1, <2>3
<1> QED
  BY <1>1, <1>2, ArrayRest DEF ArrayInv, ArrayIsRebuilt

LEMMA ArrayNoMemory == ASSUME TypeInv, ArrayInv, NEW t \in Thread, NoMemory(t) PROVE ArrayInv'
<1>1. Busy(t) /\ th' = [th EXCEPT ![t] = AtRest] /\ unsure'
  BY DEF NoMemory, Busy
<1> QED
  BY <1>1, ArrayRest DEF ArrayInv, ArrayIsRebuilt

LEMMA ArrayInit == Init => ArrayInv
<1> SUFFICES ASSUME Init PROVE ArrayInv
  OBVIOUS
<1>1. \A t \in Thread : ~Busy(t)
  BY AtRestIsDoing DEF Init, Busy
<1>2. arr = {} /\ bonded = {}
  BY DEF Init
<1> QED
  BY <1>1, <1>2 DEF ArrayInv, AloneInv, ArrayIsRebuilt

LEMMA ArrayStep == TypeInv /\ ArrayInv /\ [Next]_vars => ArrayInv'
<1> SUFFICES ASSUME TypeInv, ArrayInv, [Next]_vars PROVE ArrayInv'
  OBVIOUS
<1>1. ASSUME NEW w \in Writer, NEW s \in Slave, NEW fwd \in {INACTIVE, ACTIVE},
             FwdStateStore(w, s, fwd)
      PROVE  ArrayInv'
  BY <1>1, ArrayCall DEF FwdStateStore, Thread
<1>2. ASSUME NEW s \in Slave, Enslave(s) \/ bond_sysfs_slave_del(s) \/ LinkChange(s)
      PROVE  ArrayInv'
  BY <1>2, ArrayCall, DriverIsAThread DEF Enslave, bond_sysfs_slave_del, LinkChange
<1>3. ASSUME NEW s \in Slave, NEW backup \in BOOLEAN, SetBackup(s, backup) PROVE ArrayInv'
  BY <1>3, ArrayCall, DriverIsAThread DEF SetBackup
<1>4. ASSUME NEW t \in Thread, Store(t) PROVE ArrayInv'
  BY <1>4, ArrayGoesOn DEF Store
<1>5. ASSUME NEW t \in Thread, Goes(t) PROVE ArrayInv'
  BY <1>4, <1>5, ArrayLoad, ArrayVisit, ArrayPublish, ArrayNoMemory DEF Goes
<1>6. CASE bond_sysfs_slave_add \/ SlaveAddFails \/ Unlink
  BY <1>6, ArrayGoesOn, DriverIsAThread DEF bond_sysfs_slave_add, SlaveAddFails, Unlink
<1>7. CASE UNCHANGED vars
  BY <1>7 DEF vars, ArrayInv, AloneInv, ArrayIsRebuilt, Resting, Busy, CanTx
<1> QED
  BY <1>1, <1>2, <1>3, <1>5, <1>6, <1>7, DriverIsAThread DEF Next, DriverGoes, Thread

-----------------------------------------------------------------------------
IInv == TypeInv /\ PlaceInv /\ StoresHold /\ ArrayInv

LEMMA IInvHolds == Spec => []IInv
<1>1. Init => IInv
  <2>1. Init => StoresHold
    BY DEF Init, StoresHold
  <2> QED
    BY <2>1, TypeInvInit, PlaceInit, ArrayInit DEF IInv
<1>2. IInv /\ [Next]_vars => IInv'
  BY TypeInvStep, PlaceStep, StoresStep, ArrayStep DEF IInv, PlaceInv
<1> QED
  BY <1>1, <1>2, PTL DEF Spec

(* Types: whatever overlaps, a slave whose file can be opened is bonded.   *)
THEOREM TypeCorrect == Spec => []TypeOK
<1>1. IInv => TypeOK
  BY DEF IInv, TypeInv
<1> QED
  BY <1>1, IInvHolds, PTL

(* Nothing is stored in a slave that was released: the wait in the removal *)
(* of its file covers every writer, however many there are.                *)
THEOREM ReleaseIsSafe == Spec => []NoStoreAfterRelease
<1>1. IInv => NoStoreAfterRelease
  BY DEF IInv, PlaceInv
<1> QED
  BY <1>1, IInvHolds, PTL

(* A slave's two bits are as they were last set, unless two stores of its  *)
(* own word overlapped: writers of other slaves cannot disturb it.         *)
THEOREM StoresAreKept == Spec => []StoresHold
<1>1. IInv => StoresHold
  BY DEF IInv
<1> QED
  BY <1>1, IInvHolds, PTL

(* At rest the array is right, unless the last rebuild overlapped another  *)
(* call or found no memory: one call that is left alone repairs whatever   *)
(* the overlapping ones before it did.                                     *)
THEOREM ArrayIsRight == Spec => []ArrayIsRebuilt
<1>1. IInv => ArrayIsRebuilt
  BY DEF IInv, ArrayInv
<1> QED
  BY <1>1, IInvHolds, PTL
=============================================================================
