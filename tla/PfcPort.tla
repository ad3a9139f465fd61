------------------------------ MODULE PfcPort ------------------------------
(***************************************************************************)
(* Lossless traffic classes on a Tomahawk 5,                               *)
(* src/th5/cints/th5_pfc_final.c: mmu_init puts every priority group (PG)  *)
(* of every port in the lossy state, pfc_port_pg_enable / _disable make    *)
(* one PG lossless and back.                                               *)
(*                                                                         *)
(* Every function is a straight line of SDK calls that returns the first   *)
(* error, with no rollback: a Script.  The chip forwards traffic between   *)
(* any two calls, so one SDK call is one step.  The CINT shell runs one    *)
(* function at a time; hw is what the calls have programmed so far.        *)
(* bcmsdk_mmu_port_pg_control_set names a `port' that is none of its       *)
(* parameters: the session's variable, which the usage note at the end of  *)
(* the file sets to the port being configured.                             *)
(***************************************************************************)
EXTENDS Integers, FiniteSets, Sequences, SequencesExt

CONSTANTS
  Port, Pg,       \* 800G ports, priority groups
  Value,          \* limits an operator asks for; 0 is the chip's default
  Dynamic,        \* what the SDK says of each attribute: Fixed, ...
  Faults,         \* may SDK calls fail?
  RxVoqsKnown     \* may the session know bcmsdk_setup_rx_pfc_to_voqs?

Limit == {"PGMin", "PGHeadroom", "PGShared"}
Profile == {"PGProperties", "IntPriToPGMap", "Pfc"}

ASSUME ConstantsAssumption ==
  /\ Port \subseteq Nat /\ Pg \subseteq Nat /\ Value \subseteq Nat \ {0}
  /\ IsFiniteSet(Port) /\ IsFiniteSet(Pg)
  /\ Dynamic \in [Limit \cup Profile -> {"Fixed", "Conditional", "Flexible"}]
  /\ Faults \in BOOLEAN /\ RxVoqsKnown \in SUBSET BOOLEAN

(* Registers: of a port, of a PG of a port (PAUSE is a field of            *)
(* TM_ING_PORT, one for the port, though it is set through a PG).          *)
PortReg == ({"pause", "PFCTransmit", "PFCReceive", "MmuTraffic", "PAUSE"} \cup Profile)
             \X Port
FlagReg == {"LOSSLESS", "PFC"} \X Port \X Pg
LimitReg == Limit \X Port \X Pg

VARIABLES
  hw,       \* the value of every register
  call,     \* the call in progress: what, where, and the steps left
  last,     \* per PG: how its last call ended, as its caller knows it
  switched, \* ports with a disable begun since their last successful enable
  reported, \* ports with an error returned since their traffic was last programmed
  initrc    \* how the last bcmsdk_mmu_init to end has ended

vars == <<hw, call, last, switched, reported, initrc>>

(***************************************************************************)
(* Scripts.  A step: an SDK call that programs reg, one whose failure is   *)
(* not looked at, one that programs nothing kept here, a certain error.    *)
(***************************************************************************)
Set(reg, v) == [kind |-> "set", reg |-> reg, val |-> v]
Ignored(reg, v) == [kind |-> "ignored", reg |-> reg, val |-> v]
Other == [kind |-> "other"]
Error == [kind |-> "error"]

(* Plausible bugs: each stands for one definition below in a mutation run. *)
QuiescedNotRestarted(p, step) == <<Set(<<"MmuTraffic", p>>, FALSE), step>>
QuiescedNever(p, step) == <<step>>
ControlSetUnchecked(p, g, type, v) ==
  <<Other, Ignored(<<type, p, g>>, v)>>
ControlSetInCells(p, g, type, v) ==
  <<Other, Set(<<type, p, g>>, 254 * v)>>
EnableWithoutTx(p, g, v) ==
  <<Set(<<"pause", p>>, FALSE), Set(<<"LOSSLESS", p, g>>, TRUE),
    Set(<<"PAUSE", p>>, TRUE), Set(<<"PFC", p, g>>, TRUE)>>
DisablePausesFirst(p, g) ==
  <<Set(<<"pause", p>>, TRUE), Set(<<"PFCTransmit", p>>, FALSE),
    Set(<<"LOSSLESS", p, g>>, FALSE), Set(<<"PAUSE", p>>, FALSE),
    Set(<<"PFC", p, g>>, FALSE)>>
PortInitWithoutRx(p) == <<Other>>

(* Setting a Conditional attribute: stop the port's traffic around it.     *)
Quiesced(p, step) ==
  <<Set(<<"MmuTraffic", p>>, FALSE), step, Set(<<"MmuTraffic", p>>, TRUE)>>

(* bcmsdk_mmu_port_pg_control_set: its Fixed case sets rv = BCM_E_INTERNAL *)
(* and then returns BCM_E_NONE.                                            *)
ControlSet(p, g, type, v) ==
  LET set == Set(<<type, p, g>>, v)
  IN  <<Other>> \o (CASE Dynamic[type] = "Fixed" -> <<>>
                      [] Dynamic[type] = "Conditional" -> Quiesced(p, set)
                      [] Dynamic[type] = "Flexible" -> <<set>>)

(* bcmsdk_mmu_port_profile_set: its Flexible case drops the result.        *)
ProfileSet(p, type) ==
  <<Other>> \o (CASE Dynamic[type] = "Fixed" -> <<Error>>
                  [] Dynamic[type] = "Conditional" -> Quiesced(p, Set(<<type, p>>, TRUE))
                  [] Dynamic[type] = "Flexible" -> <<Ignored(<<type, p>>, TRUE)>>)

PgAttrs(p, g, v) ==
  <<Other>> \o ControlSet(p, g, "PGMin", v) \o ControlSet(p, g, "PGHeadroom", v)
            \o ControlSet(p, g, "PGShared", v)

EnableScript(p, g, v) ==
  <<Set(<<"pause", p>>, FALSE)>> \o PgAttrs(p, g, v)
    \o <<Other, Set(<<"PFCTransmit", p>>, TRUE), Set(<<"LOSSLESS", p, g>>, TRUE),
         Set(<<"PAUSE", p>>, TRUE), Other, Set(<<"PFC", p, g>>, TRUE)>>

DisableScript(p, g) ==
  <<Set(<<"PFCTransmit", p>>, FALSE), Set(<<"LOSSLESS", p, g>>, FALSE),
    Set(<<"PAUSE", p>>, FALSE), Other, Set(<<"PFC", p, g>>, FALSE),
    Set(<<"pause", p>>, TRUE)>>

Ascending(S) ==
  CHOOSE s \in [1 .. Cardinality(S) -> S] :
    \A i, j \in 1 .. Cardinality(S) : i < j => s[i] < s[j]
ForAll(S, Body(_)) ==
  FlattenSeq([i \in 1 .. Len(Ascending(S)) |-> Body(Ascending(S)[i])])

(* bcmsdk_mmu_initialize_port.                                             *)
LossyPgs(p) ==
  ForAll(Pg, LAMBDA g : <<Set(<<"LOSSLESS", p, g>>, FALSE), Set(<<"PAUSE", p>>, FALSE)>>)
PortInit(p) ==
  LossyPgs(p) \o ProfileSet(p, "PGProperties") \o ProfileSet(p, "IntPriToPGMap")
    \o ProfileSet(p, "Pfc") \o <<Set(<<"PFCReceive", p>>, TRUE)>>

(* The profiles of the unit, set before those of any port.  The file       *)
(* defines the last function as bcmsk_..., not by the name it is called    *)
(* by: known says whether the session has one of that name.                *)
HdrmPool == <<Other>>
TxPfcPri == <<Other>>
SpHpMapping == <<Other, Other>> \o TxPfcPri
LocalTcToPg == <<Other, Other>>
RxPfcToVoqs(known) == IF known THEN <<Other>> ELSE <<Error>>
InitProfiles(known) == SpHpMapping \o LocalTcToPg \o RxPfcToVoqs(known)

(* bcmsdk_mmu_init: headroom pool, profiles, then port after port.         *)
InitAllPorts == <<Other>> \o ForAll(Port, PortInit)
InitScript(known) == HdrmPool \o InitProfiles(known) \o InitAllPorts

(***************************************************************************)
Unknown == -1    \* no call yet, or the last one failed or is running
Off == 0         \* disabled; a Value v: enabled with v
None == [op |-> "none", steps |-> <<>>]

Init ==
  /\ \E paused \in SUBSET Port :
       hw = [r \in PortReg \cup FlagReg \cup LimitReg |->
               IF r \in LimitReg THEN 0
               ELSE r[1] = "MmuTraffic" \/ (r[1] = "pause" /\ r[2] \in paused)]
  /\ call = None
  /\ last = [p \in Port |-> [g \in Pg |-> Unknown]]
  /\ switched = {}
  /\ reported = {}
  /\ initrc = "none"

Idle == call = None

(* The call at the end of the file, made whenever the file is loaded.      *)
MmuInit ==
  /\ Idle
  /\ \E known \in RxVoqsKnown : call' = [op |-> "init", steps |-> InitScript(known)]
  /\ last' = [p \in Port |-> [g \in Pg |-> Unknown]]
  /\ UNCHANGED <<hw, switched, reported, initrc>>

PgEnable(p, g, v) ==
  /\ Idle
  /\ call' = [op |-> "enable", port |-> p, pg |-> g, value |-> v,
              steps |-> EnableScript(p, g, v)]
  /\ last' = [last EXCEPT ![p][g] = Unknown]
  /\ UNCHANGED <<hw, switched, reported, initrc>>

PgDisable(p, g) ==
  /\ Idle
  /\ call' = [op |-> "disable", port |-> p, pg |-> g, steps |-> DisableScript(p, g)]
  /\ last' = [last EXCEPT ![p][g] = Unknown]
  /\ switched' = switched \cup {p}
  /\ UNCHANGED <<hw, reported, initrc>>

Proceed ==
  /\ call' = [call EXCEPT !.steps = Tail(@)]
  /\ UNCHANGED <<last, switched, initrc>>

(* The next SDK call succeeds.                                             *)
StepOk ==
  /\ call.steps # <<>>
  /\ LET s == Head(call.steps)
     IN  \/ /\ s.kind \in {"set", "ignored"}
            /\ hw' = [hw EXCEPT ![s.reg] = s.val]
            /\ reported' = reported \ {p \in Port : s.reg = <<"MmuTraffic", p>>}
         \/ s.kind = "other" /\ UNCHANGED <<hw, reported>>
  /\ Proceed

(* It fails, and is not looked at.                                         *)
StepIgnored ==
  /\ call.steps # <<>> /\ Faults /\ Head(call.steps).kind = "ignored"
  /\ UNCHANGED <<hw, reported>>
  /\ Proceed

(* It fails, and every function on the way returns the error.              *)
StepError ==
  /\ call.steps # <<>>
  /\ \/ Head(call.steps).kind = "error"
     \/ Faults /\ Head(call.steps).kind \in {"set", "other"}
  /\ call' = None
  /\ initrc' = IF call.op = "init" THEN "error" ELSE initrc
  /\ reported' = reported \cup (IF call.op = "init" THEN Port ELSE {call.port})
  /\ UNCHANGED <<hw, last, switched>>

ReturnOk ==
  /\ ~Idle /\ call.steps = <<>>
  /\ call' = None
  /\ \/ /\ call.op = "init"
        /\ initrc' = "ok"
        /\ UNCHANGED <<last, switched>>
     \/ /\ call.op = "enable"
        /\ last' = [last EXCEPT ![call.port][call.pg] = call.value]
        /\ switched' = switched \ {call.port}
        /\ UNCHANGED initrc
     \/ /\ call.op = "disable"
        /\ last' = [last EXCEPT ![call.port][call.pg] = Off]
        /\ UNCHANGED <<switched, initrc>>
  /\ UNCHANGED <<hw, reported>>

Next ==
  \/ MmuInit
  \/ \E p \in Port, g \in Pg : PgDisable(p, g) \/ \E v \in Value : PgEnable(p, g, v)
  \/ StepOk \/ StepIgnored \/ StepError \/ ReturnOk

Spec == Init /\ [][Next]_vars

-----------------------------------------------------------------------------
(* Types of the registers and of what the callers know.                    *)
TypeOK ==
  /\ \A r \in PortReg \cup FlagReg : hw[r] \in BOOLEAN
  /\ \A r \in LimitReg : hw[r] \in Value \cup {0}
  /\ last \in [Port -> [Pg -> Value \cup {Off, Unknown}]]
  /\ switched \subseteq Port /\ reported \subseteq Port
  /\ initrc \in {"none", "ok", "error"}

(* Ethernet pause and PFC are never transmitted together by a port, not    *)
(* between two steps either, nor after a call that failed half-way.        *)
PauseExcludesPfc == \A p \in Port : ~(hw[<<"pause", p>>] /\ hw[<<"PFCTransmit", p>>])

(* What the last successful call on a PG promised is still in the chip,    *)
(* whatever calls on other PGs and ports did or failed to do since.        *)
LastCallHolds ==
  \A p \in Port, g \in Pg :
    last[p][g] # Unknown =>
      /\ hw[<<"LOSSLESS", p, g>>] = (last[p][g] # Off)
      /\ hw[<<"PFC", p, g>>] = (last[p][g] # Off)
      /\ last[p][g] # Off => \A type \in Limit : hw[<<type, p, g>>] = last[p][g]

(* The port of an enabled PG can push back (PFC on, Ethernet pause off),   *)
(* unless another PG of it was being disabled since: _disable switches the *)
(* whole port over.                                                        *)
EnabledMeansBackpressure ==
  \A p \in Port :
    (\E g \in Pg : last[p][g] \in Value) /\ p \notin switched =>
      hw[<<"PFCTransmit", p>>] /\ hw[<<"PAUSE", p>>] /\ ~hw[<<"pause", p>>]

(* No call leaves the MMU traffic of a port stopped and reports success:   *)
(* where it stands disabled between calls, an error was returned after the *)
(* traffic was last programmed, and not only by some earlier call.         *)
StuckTrafficWasReported ==
  \A p \in Port : Idle /\ ~hw[<<"MmuTraffic", p>>] => p \in reported

(* "Mapping can be changed as long as the port has no traffic in MMU": a   *)
(* Conditional limit or profile only changes while traffic is disabled.    *)
ConditionalChangesQuiesced ==
  [][\A r \in LimitReg \cup PortReg :
       /\ r[1] \in Limit \cup Profile
       /\ Dynamic[r[1]] = "Conditional" /\ hw'[r] # hw[r]
       => ~hw[<<"MmuTraffic", r[2]>>]]_vars

(* "Keep PFC Rx enabled on all ports": once an mmu_init has reported       *)
(* success every port receives PFC and has its checked profiles.           *)
InitialisedPortsReceive ==
  initrc = "ok" => \A p \in Port :
    /\ hw[<<"PFCReceive", p>>]
    /\ \A type \in Profile : Dynamic[type] # "Flexible" => hw[<<type, p>>]
=============================================================================
