--------------------------- MODULE PfcPortProofs ---------------------------
(***************************************************************************)
(* Theorems about the lossless traffic classes of a Tomahawk 5, for any    *)
(* ports, priority groups and limits, whatever the SDK says of the         *)
(* attributes and whichever of its calls fail.                             *)
(*                                                                         *)
(* A script is known by the set of its steps (what it may do and what it   *)
(* must do) and by what stands right before and after a step: both of a    *)
(* part of a script and of a script made of parts.  mmu_init is a series   *)
(* over the ports; SeriesLemmas says what holds of such a series.          *)
(***************************************************************************)
EXTENDS PfcPort, SeriesLemmas

-----------------------------------------------------------------------------
(***************************************************************************)
(* What a call may do, and what it must have done when it returns success. *)
(***************************************************************************)
Reg == PortReg \cup FlagReg \cup LimitReg
AnyConditional(types) == \E type \in types : Dynamic[type] = "Conditional"
TrafficOn(types, p) ==
  {Set(<<"MmuTraffic", q>>, TRUE) : q \in {r \in {p} : AnyConditional(types)}}
TrafficOff(types, p) ==
  {Set(<<"MmuTraffic", q>>, FALSE) : q \in {r \in {p} : AnyConditional(types)}}

EnableGoals(p, g, v) ==
  {Set(<<"pause", p>>, FALSE), Set(<<"PFCTransmit", p>>, TRUE), Set(<<"PAUSE", p>>, TRUE),
   Set(<<"LOSSLESS", p, g>>, TRUE), Set(<<"PFC", p, g>>, TRUE)}
    \cup {Set(<<type, p, g>>, v) : type \in {t \in Limit : Dynamic[t] # "Fixed"}}
    \cup TrafficOn(Limit, p)
EnableSteps(p, g, v) == {Other} \cup EnableGoals(p, g, v) \cup TrafficOff(Limit, p)

DisableGoals(p, g) ==
  {Set(<<"pause", p>>, TRUE), Set(<<"PFCTransmit", p>>, FALSE), Set(<<"PAUSE", p>>, FALSE),
   Set(<<"LOSSLESS", p, g>>, FALSE), Set(<<"PFC", p, g>>, FALSE)}
DisableSteps(p, g) == {Other} \cup DisableGoals(p, g)

(* mmu_init, of one port; a Fixed profile is an error no call gets past.   *)
InitGoals(p) ==
  {Set(<<"PFCReceive", p>>, TRUE)}
    \cup {Set(<<type, p>>, TRUE) : type \in {t \in Profile : Dynamic[t] = "Conditional"}}
    \cup TrafficOn(Profile, p)
    \cup {e \in {Error} : \E type \in Profile : Dynamic[type] = "Fixed"}
InitSteps(p) ==
  {Other, Error, Set(<<"PAUSE", p>>, FALSE)} \cup InitGoals(p) \cup TrafficOff(Profile, p)
    \cup {Set(<<"LOSSLESS", p, g>>, FALSE) : g \in Pg}
    \cup {Ignored(<<type, p>>, TRUE) : type \in {t \in Profile : Dynamic[t] = "Flexible"}}
AllInitSteps == {Other, Error} \cup UNION {InitSteps(p) : p \in Port}

Goals(c) ==
  IF c.op = "init" THEN UNION {InitGoals(p) : p \in Port}
  ELSE IF c.op = "enable" THEN EnableGoals(c.port, c.pg, c.value)
  ELSE IF c.op = "disable" THEN DisableGoals(c.port, c.pg)
  ELSE {}

(* A step that reprograms a Conditional attribute.                         *)
Delicate(s) ==
  /\ s.kind \in {"set", "ignored"}
  /\ s.reg[1] \in Limit \cup Profile
  /\ Dynamic[s.reg[1]] = "Conditional"
Stop(p) == Set(<<"MmuTraffic", p>>, FALSE)
Restart(p) == Set(<<"MmuTraffic", p>>, TRUE)

(* In a script, traffic that is stopped is restarted two steps later, and  *)
(* a delicate step other than the first follows the stop of its port.      *)
Restarts(s) ==
  \A i \in 1 .. Len(s), p \in Port :
    s[i] = Stop(p) => i + 2 <= Len(s) /\ s[i + 2] = Restart(p)
Quiesces(s) ==
  \A i \in 2 .. Len(s) : Delicate(s[i]) => s[i - 1] = Stop(s[i].reg[2])

-----------------------------------------------------------------------------
(***************************************************************************)
(* The inductive invariant.                                                *)
(***************************************************************************)
IsInit(c) == c = [op |-> "init", steps |-> c.steps] /\ c.steps \in Seq(AllInitSteps)
IsEnable(c, p, g, v) ==
  /\ c = [op |-> "enable", port |-> p, pg |-> g, value |-> v, steps |-> c.steps]
  /\ c.steps \in Seq(EnableSteps(p, g, v))
IsDisable(c, p, g) ==
  /\ c = [op |-> "disable", port |-> p, pg |-> g, steps |-> c.steps]
  /\ c.steps \in Seq(DisableSteps(p, g))
CallOK(c) ==
  \/ c = None
  \/ IsInit(c)
  \/ \E p \in Port, g \in Pg, v \in Value : IsEnable(c, p, g, v)
  \/ \E p \in Port, g \in Pg : IsDisable(c, p, g)

TypeInv == TypeOK /\ hw = [r \in Reg |-> hw[r]] /\ CallOK(call)

(* What the call in progress must do has been done or is still to come.    *)
Done(s) == s.kind = "set" /\ hw[s.reg] = s.val
OnCourse == \A s \in Goals(call) : Done(s) \/ s \in Range(call.steps)

(* enable begins by turning Ethernet pause off, disable by turning PFC off.*)
Begun ==
  /\ call.op = "enable" =>
       \/ ~hw[<<"pause", call.port>>]
       \/ call.steps # <<>> /\ Head(call.steps) = Set(<<"pause", call.port>>, FALSE)
  /\ call.op = "disable" =>
       \/ ~hw[<<"PFCTransmit", call.port>>]
       \/ call.steps # <<>> /\ Head(call.steps) = Set(<<"PFCTransmit", call.port>>, FALSE)

Quieted ==
  /\ Restarts(call.steps) /\ Quiesces(call.steps)
  /\ call.steps # <<>> /\ Delicate(Head(call.steps)) =>
       ~hw[<<"MmuTraffic", Head(call.steps).reg[2]>>]

(* What a caller knows while its call runs.                                *)
Known ==
  /\ call.op = "init" => last = [p \in Port |-> [g \in Pg |-> Unknown]]
  /\ call.op \in {"enable", "disable"} => last[call.port][call.pg] = Unknown
  /\ call.op = "disable" => call.port \in switched

IInv == TypeInv /\ OnCourse /\ Begun /\ Quieted /\ Known
          /\ PauseExcludesPfc /\ EnabledMeansBackpressure /\ InitialisedPortsReceive

(* What a PG's last call promised, but for the limits that the SDK calls   *)
(* Fixed: the code reports their error as success.                         *)
NoFixedLimit == \A type \in Limit : Dynamic[type] # "Fixed"
PromiseHolds ==
  \A p \in Port, g \in Pg :
    last[p][g] # Unknown =>
      /\ hw[<<"LOSSLESS", p, g>>] = (last[p][g] # Off)
      /\ hw[<<"PFC", p, g>>] = (last[p][g] # Off)
      /\ last[p][g] # Off =>
           \A type \in Limit : Dynamic[type] # "Fixed" => hw[<<type, p, g>>] = last[p][g]

(* Traffic that is stopped is about to be restarted, unless a call failed. *)
StoppedInv ==
  \A p \in Port :
    ~hw[<<"MmuTraffic", p>>] => p \in reported \/ Restart(p) \in Range(call.steps)

-----------------------------------------------------------------------------
(***************************************************************************)
(* Steps and scripts.                                                      *)
(***************************************************************************)
LEMMA StepFacts ==
  /\ \A r, v : /\ Set(r, v).kind = "set" /\ Set(r, v).reg = r /\ Set(r, v).val = v
               /\ Ignored(r, v).kind = "ignored"
               /\ Ignored(r, v).reg = r /\ Ignored(r, v).val = v
  /\ Other.kind = "other" /\ Error.kind = "error"
BY DEF Set, Ignored, Other, Error

(* No two of these strings are equal.                                      *)
LEMMA Names ==
  /\ \A type \in Limit : type \in {"PGMin", "PGHeadroom", "PGShared"}
  /\ \A type \in Profile : type \in {"PGProperties", "IntPriToPGMap", "Pfc"}
BY DEF Limit, Profile

LEMMA TrafficSteps ==
  ASSUME NEW p
  PROVE  /\ Stop(p).kind = "set" /\ Stop(p).reg = <<"MmuTraffic", p>> /\ Stop(p).val = FALSE
         /\ Restart(p).kind = "set" /\ Restart(p).reg = <<"MmuTraffic", p>>
         /\ Restart(p).val = TRUE
         /\ ~Delicate(Stop(p)) /\ ~Delicate(Restart(p))
         /\ \A q : Restart(p) # Stop(q)
         /\ \A q : Stop(p) = Stop(q) => p = q
<1>1. Stop(p).kind = "set" /\ Stop(p).reg = <<"MmuTraffic", p>> /\ Stop(p).val = FALSE
  BY DEF Stop, Set
<1>2. /\ Restart(p).kind = "set" /\ Restart(p).reg = <<"MmuTraffic", p>>
      /\ Restart(p).val = TRUE
  BY DEF Restart, Set
<1>3. ~Delicate(Stop(p)) /\ ~Delicate(Restart(p))
  BY <1>1, <1>2, Names DEF Delicate
<1>4. ASSUME NEW q PROVE Restart(p) # Stop(q)
  BY DEF Stop, Restart, Set
<1>5. ASSUME NEW q, Stop(p) = Stop(q) PROVE p = q
  <2>1. Stop(q).reg = <<"MmuTraffic", q>>
    BY DEF Stop, Set
  <2>2. <<"MmuTraffic", p>> = <<"MmuTraffic", q>>
    BY <1>1, <1>5, <2>1
  <2> QED
    BY <2>2
<1> QED
  BY <1>1, <1>2, <1>3, <1>4, <1>5

(* Whole scripts of steps of A that quiesce what they must.                *)
StartsPlainly(s) == \A i \in 1 .. Len(s) : i = 1 => ~Delicate(s[i])
Quieting(A) == {s \in Seq(A) : Restarts(s) /\ Quiesces(s) /\ StartsPlainly(s)}

(* Steps that neither stop traffic nor need it stopped.                    *)
Plain(s) == ~Delicate(s) /\ \A p \in Port : s # Stop(p)

LEMMA PlainScripts ==
  ASSUME NEW A, NEW s \in Seq(A), \A i \in 1 .. Len(s) : Plain(s[i])
  PROVE  s \in Quieting(A)
<1>1. Len(s) \in Nat
  BY LenProperties
<1> QED
  BY <1>1 DEF Quieting, Restarts, Quiesces, StartsPlainly, Plain

LEMMA QuietedSteps ==
  ASSUME NEW A, NEW p \in Port, NEW s \in A, Stop(p) \in A, Restart(p) \in A,
         Delicate(s) => s.reg[2] = p, \A q \in Port : s # Stop(q)
  PROVE  Quiesced(p, s) \in Quieting(A)
<1> DEFINE t == Quiesced(p, s)
<1>1. t \in Seq(A) /\ Len(t) = 3 /\ t[1] = Stop(p) /\ t[2] = s /\ t[3] = Restart(p)
  <2>1. t = <<Stop(p), s, Restart(p)>>
    BY DEF Quiesced, Stop, Restart
  <2> HIDE DEF t
  <2> QED
    BY <2>1
<1> HIDE DEF t
<1>0. /\ ~Delicate(Stop(p)) /\ ~Delicate(Restart(p))
      /\ \A q : Restart(p) # Stop(q)
      /\ \A q : Stop(p) = Stop(q) => p = q
  BY TrafficSteps
<1>2. \A i \in 1 .. 3 : i = 1 \/ i = 2 \/ i = 3
  OBVIOUS
<1>3. Restarts(t)
  <2> SUFFICES ASSUME NEW i \in 1 .. 3, NEW q \in Port, t[i] = Stop(q)
               PROVE  i + 2 <= 3 /\ t[i + 2] = Restart(q)
    BY <1>1 DEF Restarts
  <2>1. i = 1
    BY <1>0, <1>1, <1>2
  <2>2. q = p
    BY <1>0, <1>1, <2>1
  <2> QED
    BY <1>1, <2>1, <2>2
<1>4. Quiesces(t)
  <2> SUFFICES ASSUME NEW i \in 2 .. 3, Delicate(t[i]) PROVE t[i - 1] = Stop(t[i].reg[2])
    BY <1>1 DEF Quiesces
  <2>1. i = 2
    BY <1>0, <1>1
  <2> QED
    BY <1>1, <2>1
<1>5. StartsPlainly(t)
  BY <1>0, <1>1 DEF StartsPlainly
<1> QED
  BY <1>1, <1>3, <1>4, <1>5 DEF Quieting, t

(* One script after the other.                                             *)
LEMMA QuietingChains ==
  ASSUME NEW A
  PROVE  Chains(Quieting(A), A)
<1>1. <<>> \in Quieting(A)
  <2>1. <<>> \in Seq(A) /\ \A i \in 1 .. Len(<<>>) : Plain((<<>>)[i])
    BY EmptySeq
  <2> QED
    BY <2>1, PlainScripts
<1>2. ASSUME NEW s \in Quieting(A), NEW t \in Quieting(A) PROVE s \o t \in Quieting(A)
  <2> DEFINE u == s \o t
  <2>1. /\ s \in Seq(A) /\ t \in Seq(A) /\ Len(s) \in Nat /\ Len(t) \in Nat
        /\ u \in Seq(A) /\ Len(u) = Len(s) + Len(t)
        /\ \A i \in 1 .. Len(s) + Len(t) : u[i] = IF i <= Len(s) THEN s[i] ELSE t[i - Len(s)]
    BY ConcatProperties, LenProperties DEF Quieting
  <2> HIDE DEF u
  <2>2. Restarts(u)
    <3> SUFFICES ASSUME NEW i \in 1 .. Len(u), NEW p \in Port, u[i] = Stop(p)
                 PROVE  i + 2 <= Len(u) /\ u[i + 2] = Restart(p)
      BY DEF Restarts
    <3>1. CASE i <= Len(s)
      <4>1. i \in 1 .. Len(s) /\ s[i] = Stop(p)
        BY <2>1, <3>1
      <4>2. i + 2 <= Len(s) /\ s[i + 2] = Restart(p)
        BY <4>1 DEF Quieting, Restarts
      <4>3. i + 2 \in 1 .. Len(s) + Len(t) /\ i + 2 <= Len(u)
        BY <2>1, <4>2
      <4> QED
        BY <2>1, <4>2, <4>3
    <3>2. CASE ~(i <= Len(s))
      <4> DEFINE j == i - Len(s)
      <4>1. j \in 1 .. Len(t) /\ t[j] = Stop(p)
        BY <2>1, <3>2
      <4>2. j + 2 <= Len(t) /\ t[j + 2] = Restart(p)
        BY <4>1 DEF Quieting, Restarts
      <4>3. i + 2 \in 1 .. Len(s) + Len(t) /\ ~(i + 2 <= Len(s)) /\ (i + 2) - Len(s) = j + 2
        BY <2>1, <3>2, <4>2
      <4>4. u[i + 2] = t[(i + 2) - Len(s)] /\ i + 2 <= Len(u)
        BY <2>1, <4>3
      <4> QED
        BY <4>2, <4>3, <4>4
    <3> QED
      BY <3>1, <3>2
  <2>3. Quiesces(u)
    <3> SUFFICES ASSUME NEW i \in 2 .. Len(u), Delicate(u[i])
                 PROVE  u[i - 1] = Stop(u[i].reg[2])
      BY DEF Quiesces
    <3>1. CASE i <= Len(s)
      <4>1. i \in 2 .. Len(s) /\ u[i] = s[i] /\ u[i - 1] = s[i - 1]
        BY <2>1, <3>1
      <4> QED
        BY <4>1 DEF Quieting, Quiesces
    <3>2. CASE i > Len(s)
      <4> DEFINE j == i - Len(s)
      <4>1. j \in 1 .. Len(t) /\ u[i] = t[j]
        BY <2>1, <3>2
      <4>2. j \in 2 .. Len(t)
        BY <4>1 DEF Quieting, StartsPlainly
      <4>3. t[j - 1] = Stop(t[j].reg[2])
        BY <4>1, <4>2 DEF Quieting, Quiesces
      <4>4. i - 1 \in 1 .. Len(s) + Len(t) /\ ~(i - 1 <= Len(s)) /\ (i - 1) - Len(s) = j - 1
        BY <2>1, <3>2, <4>2
      <4> QED
        BY <2>1, <4>1, <4>3, <4>4
    <3> QED
      BY <2>1, <3>1, <3>2
  <2>4. StartsPlainly(u)
    <3> SUFFICES ASSUME NEW i \in 1 .. Len(u), i = 1 PROVE ~Delicate(u[i])
      BY DEF StartsPlainly
    <3>1. CASE i <= Len(s)
      BY <2>1, <3>1 DEF Quieting, StartsPlainly
    <3>2. CASE ~(i <= Len(s))
      <4>1. i - Len(s) \in 1 .. Len(t) /\ i - Len(s) = 1 /\ u[i] = t[i - Len(s)]
        BY <2>1, <3>2
      <4> QED
        BY <4>1 DEF Quieting, StartsPlainly
    <3> QED
      BY <3>1, <3>2
  <2> QED
    BY <2>1, <2>2, <2>3, <2>4 DEF Quieting, u
<1> QED
  BY <1>1, <1>2 DEF Chains, Quieting

LEMMA Joined ==
  ASSUME NEW A, NEW s \in Quieting(A), NEW t \in Quieting(A)
  PROVE  /\ s \o t \in Quieting(A)
         /\ Range(s \o t) = Range(s) \cup Range(t)
         /\ s # <<>> => s \o t # <<>> /\ Head(s \o t) = Head(s)
<1>1. s \o t \in Quieting(A)
  BY QuietingChains DEF Chains
<1>2. s \in Seq(A) /\ t \in Seq(A)
  BY DEF Quieting
<1>3. Range(s \o t) = Range(s) \cup Range(t)
  BY <1>2, RangeConcatenation
<1>4. ASSUME s # <<>> PROVE s \o t # <<>> /\ Head(s \o t) = Head(s)
  <2>1. /\ s \o t \in Seq(A) /\ Len(s \o t) = Len(s) + Len(t) /\ Len(t) \in Nat
        /\ \A i \in 1 .. Len(s) + Len(t) : (s \o t)[i] = IF i <= Len(s) THEN s[i] ELSE t[i - Len(s)]
    BY <1>2, ConcatProperties, LenProperties
  <2>2. Len(s) \in Nat /\ Len(s) # 0
    BY <1>2, <1>4, EmptySeq
  <2>3. (s \o t)[1] = s[1] /\ Len(s \o t) # 0
    BY <2>1, <2>2
  <2>4. s \o t # <<>>
    BY <2>3
  <2> QED
    BY <2>3, <2>4
<1> QED
  BY <1>1, <1>3, <1>4

(* Scripts of one step, and what any script does.                          *)
LEMMA OneStep ==
  ASSUME NEW A, NEW s \in A, Plain(s)
  PROVE  /\ <<s>> \in Quieting(A) /\ Range(<<s>>) = {s}
         /\ <<s>> # <<>> /\ Head(<<s>>) = s
<1>1. <<s>> \in Seq(A) /\ Len(<<s>>) = 1 /\ (<<s>>)[1] = s
  OBVIOUS
<1>2. <<s>> \in Quieting(A)
  BY <1>1, PlainScripts
<1>3. Range(<<s>>) = {s}
  <2> DEFINE t == <<s>>
  <2> HIDE DEF t
  <2>1. Range(t) = {t[i] : i \in 1 .. Len(t)}
    BY <1>1, RangeEquality DEF t
  <2>2. Len(t) = 1 /\ t[1] = s
    BY <1>1 DEF t
  <2> QED
    BY <2>1, <2>2 DEF t
<1> QED
  BY <1>1, <1>2, <1>3

LEMMA NoStep ==
  ASSUME NEW A
  PROVE  <<>> \in Quieting(A) /\ Range(<<>>) = {}
<1>1. <<>> \in Quieting(A)
  BY QuietingChains DEF Chains
<1>2. Range(<<>>) = {}
  <2>1. <<>> \in Seq(A) /\ Len(<<>>) = 0
    BY EmptySeq
  <2>2. Range(<<>>) = {(<<>>)[i] : i \in 1 .. Len(<<>>)}
    BY <2>1, RangeEquality
  <2> QED
    BY <2>1, <2>2
<1> QED
  BY <1>1, <1>2

LEMMA QuietedRange ==
  ASSUME NEW A, NEW p \in Port, NEW s \in A, Stop(p) \in A, Restart(p) \in A
  PROVE  Range(Quiesced(p, s)) = {Stop(p), s, Restart(p)}
<1> DEFINE t == <<Stop(p), s, Restart(p)>>
<1>1. Quiesced(p, s) = t
  BY DEF Quiesced, Stop, Restart
<1>2. t \in Seq(A) /\ Len(t) = 3 /\ t[1] = Stop(p) /\ t[2] = s /\ t[3] = Restart(p)
  OBVIOUS
<1> HIDE DEF t
<1>3. Range(t) = {t[i] : i \in 1 .. 3}
  BY <1>2, RangeEquality
<1> QED
  BY <1>1, <1>2, <1>3

(* The registers a plain step may program.                                 *)
LEMMA PlainSteps ==
  /\ Plain(Other) /\ Plain(Error)
  /\ \A r, v : r[1] \notin Limit \cup Profile \cup {"MmuTraffic"} =>
                 Plain(Set(r, v)) /\ Plain(Ignored(r, v))
  /\ \A r, v : r[1] \in Limit \cup Profile /\ Dynamic[r[1]] # "Conditional" =>
                 Plain(Set(r, v)) /\ Plain(Ignored(r, v))
<1>1. \A p : Stop(p).kind = "set" /\ Stop(p).reg = <<"MmuTraffic", p>>
  BY TrafficSteps
<1>2. Plain(Other) /\ Plain(Error)
  BY <1>1, StepFacts DEF Plain, Delicate
<1>3. "MmuTraffic" \notin Limit \cup Profile
  BY Names
<1>4. ASSUME NEW r, NEW v, r[1] \notin Limit \cup Profile \cup {"MmuTraffic"}
      PROVE  Plain(Set(r, v)) /\ Plain(Ignored(r, v))
  BY <1>1, <1>4, StepFacts DEF Plain, Delicate
<1>5. ASSUME NEW r, NEW v, r[1] \in Limit \cup Profile, Dynamic[r[1]] # "Conditional"
      PROVE  Plain(Set(r, v)) /\ Plain(Ignored(r, v))
  BY <1>1, <1>3, <1>5, StepFacts DEF Plain, Delicate
<1> QED
  BY <1>2, <1>4, <1>5

(***************************************************************************)
(* The scripts: what they do, all they must do, and how they begin.        *)
(***************************************************************************)
LEMMA DynamicIs ==
  /\ \A type \in Limit : Dynamic[type] \in {"Fixed", "Conditional", "Flexible"}
  /\ \A type \in Profile : Dynamic[type] \in {"Fixed", "Conditional", "Flexible"}
BY ConstantsAssumption

LEMMA ControlSetFacts ==
  ASSUME NEW p \in Port, NEW g \in Pg, NEW v \in Value, NEW type \in Limit
  PROVE  LET s == ControlSet(p, g, type, v)
         IN  /\ s \in Quieting(EnableSteps(p, g, v))
             /\ Dynamic[type] # "Fixed" => Set(<<type, p, g>>, v) \in Range(s)
             /\ Dynamic[type] = "Conditional" => Restart(p) \in Range(s)
<1> DEFINE A == EnableSteps(p, g, v)
           x == Set(<<type, p, g>>, v)
           s == ControlSet(p, g, type, v)
           o == <<Other>>
           xs == <<x>>
           quieted == Quiesced(p, x)
<1>1. Other \in A /\ Plain(Other) /\ (Dynamic[type] # "Fixed" => x \in A)
  BY PlainSteps DEF EnableSteps, EnableGoals
<1>2. x.kind = "set" /\ x.reg = <<type, p, g>> /\ x.reg[1] = type /\ x.reg[2] = p
  BY StepFacts
<1>3. Dynamic[type] = "Conditional" => Stop(p) \in A /\ Restart(p) \in A
  BY DEF EnableSteps, EnableGoals, TrafficOn, TrafficOff, AnyConditional, Stop, Restart
<1> HIDE DEF A, x
<1>4. o \in Quieting(A)
  BY <1>1, OneStep
<1> HIDE DEF o, s, xs, quieted
<1>5. CASE Dynamic[type] = "Fixed"
  <2>1. s = o \o <<>>
    BY <1>5 DEF ControlSet, s, o
  <2>2. s \in Quieting(A)
    BY <1>4, <2>1, NoStep, Joined
  <2> QED
    BY <1>5, <2>2 DEF A, s
<1>6. CASE Dynamic[type] = "Conditional"
  <2>1. s = o \o quieted
    BY <1>6 DEF ControlSet, x, s, o, quieted
  <2>2. \A q \in Port : x # Stop(q)
    <3>1. \A q \in Port : Stop(q).reg[1] = "MmuTraffic"
      BY DEF Stop, Set
    <3> QED
      BY <1>2, <3>1, Names
  <2>3. quieted \in Quieting(A) /\ Range(quieted) = {Stop(p), x, Restart(p)}
    BY <1>1, <1>2, <1>3, <1>6, <2>2, QuietedSteps, QuietedRange DEF quieted
  <2>4. s \in Quieting(A) /\ Range(s) = Range(o) \cup Range(quieted)
    BY <1>4, <2>1, <2>3, Joined
  <2> QED
    BY <2>3, <2>4 DEF A, x, s
<1>7. CASE Dynamic[type] = "Flexible"
  <2>1. s = o \o xs
    BY <1>7 DEF ControlSet, x, s, o, xs
  <2>2. Plain(x)
    BY <1>7, PlainSteps DEF x
  <2>3. xs \in Quieting(A) /\ Range(xs) = {x}
    BY <1>1, <1>7, <2>2, OneStep DEF xs
  <2>4. s \in Quieting(A) /\ Range(s) = Range(o) \cup Range(xs)
    BY <1>4, <2>1, <2>3, Joined
  <2> QED
    BY <1>7, <2>3, <2>4 DEF A, x, s
<1> QED
  BY <1>5, <1>6, <1>7, DynamicIs DEF A, x, s

(* What a call must have done, by what its script does.                    *)
LEMMA EnableScriptFacts ==
  ASSUME NEW p \in Port, NEW g \in Pg, NEW v \in Value
  PROVE  LET s == EnableScript(p, g, v)
         IN  /\ s \in Quieting(EnableSteps(p, g, v))
             /\ EnableGoals(p, g, v) \subseteq Range(s)
             /\ s # <<>> /\ Head(s) = Set(<<"pause", p>>, FALSE)
<1> DEFINE A == EnableSteps(p, g, v)
           C(type) == ControlSet(p, g, type, v)
           pause == Set(<<"pause", p>>, FALSE)
           tx == Set(<<"PFCTransmit", p>>, TRUE)
           lossless == Set(<<"LOSSLESS", p, g>>, TRUE)
           PAUSE == Set(<<"PAUSE", p>>, TRUE)
           pfc == Set(<<"PFC", p, g>>, TRUE)
           begin == <<pause>>
           attrs == PgAttrs(p, g, v)
           end == <<Other, tx, lossless, PAUSE, Other, pfc>>
           s == EnableScript(p, g, v)
<1>1. {Other, pause, tx, lossless, PAUSE, pfc} \subseteq A
  BY DEF EnableSteps, EnableGoals
<1>2. Plain(Other) /\ Plain(pause) /\ Plain(tx) /\ Plain(lossless) /\ Plain(PAUSE) /\ Plain(pfc)
  BY PlainSteps, Names
<1>3. EnableGoals(p, g, v) =
        {pause, tx, PAUSE, lossless, pfc}
          \cup {Set(<<type, p, g>>, v) : type \in {t \in Limit : Dynamic[t] # "Fixed"}}
          \cup TrafficOn(Limit, p)
  BY DEF EnableGoals
<1>4. s = (begin \o attrs) \o end
  BY DEF EnableScript
<1>5. attrs = ((<<Other>> \o C("PGMin")) \o C("PGHeadroom")) \o C("PGShared")
  BY DEF PgAttrs
<1>6. \A type \in Limit :
        /\ C(type) \in Quieting(A)
        /\ Dynamic[type] # "Fixed" => Set(<<type, p, g>>, v) \in Range(C(type))
        /\ Dynamic[type] = "Conditional" => Restart(p) \in Range(C(type))
  BY ControlSetFacts
<1> HIDE DEF A, C, pause, tx, lossless, PAUSE, pfc, attrs, s
<1>7. "PGMin" \in Limit /\ "PGHeadroom" \in Limit /\ "PGShared" \in Limit
  BY DEF Limit
<1>8. <<Other>> \in Quieting(A)
  BY <1>1, <1>2, OneStep
<1>9. /\ attrs \in Quieting(A)
      /\ \A type \in Limit : Range(C(type)) \subseteq Range(attrs)
  <2> DEFINE o == <<Other>>
             c1 == C("PGMin")
             c2 == C("PGHeadroom")
             c3 == C("PGShared")
             a1 == o \o c1
             a2 == a1 \o c2
  <2>1. o \in Quieting(A) /\ c1 \in Quieting(A) /\ c2 \in Quieting(A) /\ c3 \in Quieting(A)
    BY <1>6, <1>7, <1>8
  <2>2. attrs = a2 \o c3
    BY <1>5
  <2>3. \A type \in Limit : C(type) = c1 \/ C(type) = c2 \/ C(type) = c3
    BY Names
  <2> HIDE DEF o, c1, c2, c3
  <2>4. a1 \in Quieting(A) /\ Range(a1) = Range(o) \cup Range(c1)
    BY <2>1, Joined
  <2> HIDE DEF a1
  <2>5. a2 \in Quieting(A) /\ Range(a2) = Range(a1) \cup Range(c2)
    BY <2>1, <2>4, Joined
  <2> HIDE DEF a2
  <2>6. attrs \in Quieting(A) /\ Range(attrs) = Range(a2) \cup Range(c3)
    BY <2>1, <2>2, <2>5, Joined
  <2> QED
    BY <2>3, <2>4, <2>5, <2>6
<1>10. begin \in Quieting(A) /\ Range(begin) = {pause} /\ begin # <<>> /\ Head(begin) = pause
  BY <1>1, <1>2, OneStep
<1>11. end \in Quieting(A) /\ {tx, lossless, PAUSE, pfc} \subseteq Range(end)
  <2>1. /\ end \in Seq(A) /\ Len(end) = 6
        /\ end[1] = Other /\ end[2] = tx /\ end[3] = lossless
        /\ end[4] = PAUSE /\ end[5] = Other /\ end[6] = pfc
    BY <1>1
  <2> HIDE DEF end
  <2>2. \A i \in 1 .. Len(end) : Plain(end[i])
    BY <1>2, <2>1
  <2>3. Range(end) = {end[i] : i \in 1 .. 6}
    BY <2>1, RangeEquality
  <2> QED
    BY <2>1, <2>2, <2>3, PlainScripts
<1> HIDE DEF begin, end
<1>12. /\ begin \o attrs \in Quieting(A) /\ Range(begin \o attrs) = Range(begin) \cup Range(attrs)
       /\ begin \o attrs # <<>> /\ Head(begin \o attrs) = pause
  BY <1>9, <1>10, Joined
<1>13. /\ s \in Quieting(A) /\ Range(s) = Range(begin) \cup Range(attrs) \cup Range(end)
       /\ s # <<>> /\ Head(s) = pause
  BY <1>4, <1>11, <1>12, Joined
<1>14. \A x \in TrafficOn(Limit, p) : x \in Range(attrs)
  BY <1>6, <1>9 DEF TrafficOn, AnyConditional, Restart
<1>15. \A type \in Limit : Dynamic[type] # "Fixed" => Set(<<type, p, g>>, v) \in Range(attrs)
  BY <1>6, <1>9
<1>16. EnableGoals(p, g, v) \subseteq Range(s)
  BY <1>3, <1>10, <1>11, <1>13, <1>14, <1>15
<1> QED
  BY <1>13, <1>16 DEF A, s, pause

LEMMA DisableScriptFacts ==
  ASSUME NEW p \in Port, NEW g \in Pg
  PROVE  LET s == DisableScript(p, g)
         IN  /\ s \in Quieting(DisableSteps(p, g))
             /\ DisableGoals(p, g) \subseteq Range(s)
             /\ s # <<>> /\ Head(s) = Set(<<"PFCTransmit", p>>, FALSE)
<1> DEFINE A == DisableSteps(p, g)
           pause == Set(<<"pause", p>>, TRUE)
           tx == Set(<<"PFCTransmit", p>>, FALSE)
           lossless == Set(<<"LOSSLESS", p, g>>, FALSE)
           PAUSE == Set(<<"PAUSE", p>>, FALSE)
           pfc == Set(<<"PFC", p, g>>, FALSE)
           s == DisableScript(p, g)
<1>1. {Other, pause, tx, lossless, PAUSE, pfc} \subseteq A
  BY DEF DisableSteps, DisableGoals
<1>2. Plain(Other) /\ Plain(pause) /\ Plain(tx) /\ Plain(lossless) /\ Plain(PAUSE) /\ Plain(pfc)
  BY PlainSteps, Names
<1>3. DisableGoals(p, g) = {pause, tx, PAUSE, lossless, pfc}
  BY DEF DisableGoals
<1>4. s = <<tx, lossless, PAUSE, Other, pfc, pause>>
  BY DEF DisableScript
<1> HIDE DEF A, pause, tx, lossless, PAUSE, pfc, s
<1>5. /\ s \in Seq(A) /\ Len(s) = 6
      /\ s[1] = tx /\ s[2] = lossless /\ s[3] = PAUSE
      /\ s[4] = Other /\ s[5] = pfc /\ s[6] = pause
  BY <1>1, <1>4
<1>6. \A i \in 1 .. Len(s) : Plain(s[i])
  BY <1>2, <1>5
<1>7. Range(s) = {s[i] : i \in 1 .. 6}
  BY <1>5, RangeEquality
<1>8. s \in Quieting(A) /\ DisableGoals(p, g) \subseteq Range(s)
  BY <1>3, <1>5, <1>6, <1>7, PlainScripts
<1>9. s # <<>> /\ Head(s) = tx
  BY <1>4
<1> QED
  BY <1>8, <1>9 DEF A, s, tx

(* What mmu_init may do to a port, it may do.                              *)
LEMMA InitMay == \A p \in Port : InitSteps(p) \subseteq AllInitSteps /\ InitGoals(p) \subseteq InitSteps(p)
<1>1. \A p \in Port : InitSteps(p) \subseteq AllInitSteps
  BY DEF AllInitSteps
<1>2. \A p \in Port : InitGoals(p) \subseteq InitSteps(p)
  BY DEF InitSteps
<1> QED
  BY <1>1, <1>2

LEMMA ProfileSetFacts ==
  ASSUME NEW p \in Port, NEW type \in Profile
  PROVE  LET s == ProfileSet(p, type)
         IN  /\ s \in Quieting(AllInitSteps)
             /\ Dynamic[type] = "Fixed" => Error \in Range(s)
             /\ Dynamic[type] = "Conditional" =>
                  Restart(p) \in Range(s) /\ Set(<<type, p>>, TRUE) \in Range(s)
<1> DEFINE A == AllInitSteps
           x == Set(<<type, p>>, TRUE)
           y == Ignored(<<type, p>>, TRUE)
           s == ProfileSet(p, type)
           o == <<Other>>
           es == <<Error>>
           ys == <<y>>
           quieted == Quiesced(p, x)
<1>1. Other \in A /\ Error \in A /\ Plain(Other) /\ Plain(Error)
  BY PlainSteps DEF AllInitSteps
<1>2. x.kind = "set" /\ x.reg = <<type, p>> /\ x.reg[1] = type /\ x.reg[2] = p
  BY DEF Set
<1>3. Dynamic[type] = "Conditional" => x \in A /\ Stop(p) \in A /\ Restart(p) \in A
  <2> HAVE Dynamic[type] = "Conditional"
  <2>1. x \in InitGoals(p)
    BY DEF InitGoals
  <2>2. Restart(p) \in InitGoals(p)
    BY DEF InitGoals, TrafficOn, AnyConditional, Restart
  <2>3. Stop(p) \in InitSteps(p)
    BY DEF InitSteps, TrafficOff, AnyConditional, Stop
  <2> QED
    BY <2>1, <2>2, <2>3, InitMay
<1>4. Dynamic[type] = "Flexible" => y \in A
  <2> HAVE Dynamic[type] = "Flexible"
  <2>1. y \in InitSteps(p)
    BY DEF InitSteps
  <2> QED
    BY <2>1, InitMay
<1> HIDE DEF A, x, y
<1>5. o \in Quieting(A) /\ es \in Quieting(A) /\ Range(es) = {Error}
  BY <1>1, OneStep
<1> HIDE DEF o, s, es, ys, quieted
<1>6. CASE Dynamic[type] = "Fixed"
  <2>1. s = o \o es
    BY <1>6 DEF ProfileSet, s, o, es
  <2>2. s \in Quieting(A) /\ Range(s) = Range(o) \cup Range(es)
    BY <1>5, <2>1, Joined
  <2> QED
    BY <1>5, <1>6, <2>2 DEF A, s
<1>7. CASE Dynamic[type] = "Conditional"
  <2>1. s = o \o quieted
    BY <1>7 DEF ProfileSet, x, s, o, quieted
  <2>2. \A q \in Port : x # Stop(q)
    <3>1. \A q \in Port : Stop(q).reg[1] = "MmuTraffic"
      BY DEF Stop, Set
    <3> QED
      BY <1>2, <3>1, Names
  <2>3. quieted \in Quieting(A) /\ Range(quieted) = {Stop(p), x, Restart(p)}
    BY <1>2, <1>3, <1>7, <2>2, QuietedSteps, QuietedRange DEF quieted
  <2>4. s \in Quieting(A) /\ Range(s) = Range(o) \cup Range(quieted)
    BY <1>5, <2>1, <2>3, Joined
  <2> QED
    BY <1>7, <2>3, <2>4 DEF A, x, s
<1>8. CASE Dynamic[type] = "Flexible"
  <2>1. s = o \o ys
    BY <1>8 DEF ProfileSet, y, s, o, ys
  <2>2. Plain(y)
    BY <1>8, PlainSteps DEF y
  <2>3. ys \in Quieting(A)
    BY <1>4, <1>8, <2>2, OneStep DEF ys
  <2>4. s \in Quieting(A)
    BY <1>5, <2>1, <2>3, Joined
  <2> QED
    BY <1>8, <2>4 DEF A, s
<1> QED
  BY <1>6, <1>7, <1>8, DynamicIs DEF A, x, s

-----------------------------------------------------------------------------
(* Ascending lists every member of a set of numbers.                       *)
LEMMA AscendingFacts ==
  ASSUME NEW S \in SUBSET Nat, IsFiniteSet(S)
  PROVE  /\ Ascending(S) \in Seq(S)
         /\ \A x \in S : \E i \in 1 .. Len(Ascending(S)) : Ascending(S)[i] = x
<1>1. PICK s : Lists(s, S)
  BY SomeListing
<1> DEFINE a == Ascending(S)
<1>2. Lists(a, S)
  BY <1>1 DEF Lists, Ascending
<1> HIDE DEF a
<1>3. a \in Seq(S) /\ \A x \in S : \E i \in 1 .. Len(a) : a[i] = x
  BY <1>2, ListingIsComplete
<1> QED
  BY <1>3 DEF a

LEMMA LossyPgsFacts ==
  ASSUME NEW p \in Port
  PROVE  LossyPgs(p) \in Quieting(AllInitSteps)
<1> DEFINE A == AllInitSteps
           order == Ascending(Pg)
           lossy(g) == <<Set(<<"LOSSLESS", p, g>>, FALSE), Set(<<"PAUSE", p>>, FALSE)>>
           series == [i \in 1 .. Len(order) |-> lossy(order[i])]
<1>1. order \in Seq(Pg) /\ Len(order) \in Nat /\ \A i \in 1 .. Len(order) : order[i] \in Pg
  BY AscendingFacts, ConstantsAssumption, LenProperties, ElementOfSeq
<1>2. ASSUME NEW g \in Pg PROVE lossy(g) \in Quieting(A)
  <2> DEFINE x == Set(<<"LOSSLESS", p, g>>, FALSE)
             y == Set(<<"PAUSE", p>>, FALSE)
             t == <<x, y>>
  <2>1. x \in A /\ y \in A
    <3>1. x \in InitSteps(p) /\ y \in InitSteps(p)
      BY DEF InitSteps
    <3> QED
      BY <3>1, InitMay
  <2>2. Plain(x) /\ Plain(y)
    BY PlainSteps, Names
  <2> HIDE DEF x, y, A
  <2>3. t \in Seq(A) /\ Len(t) = 2 /\ t[1] = x /\ t[2] = y
    BY <2>1
  <2> HIDE DEF t
  <2>4. t \in Quieting(A)
    BY <2>2, <2>3, PlainScripts
  <2> QED
    BY <2>4 DEF t, x, y
<1> HIDE DEF A, order, lossy
<1>3. series \in Seq(Quieting(A))
  BY <1>1, <1>2
<1>4. LossyPgs(p) = FlattenSeq(series)
  BY DEF LossyPgs, ForAll, order, lossy
<1> HIDE DEF series
<1> QED
  BY <1>3, <1>4, QuietingChains, Flattened DEF A

LEMMA PortInitFacts ==
  ASSUME NEW p \in Port
  PROVE  PortInit(p) \in Quieting(AllInitSteps) /\ InitGoals(p) \subseteq Range(PortInit(p))
<1> DEFINE A == AllInitSteps
           x == Set(<<"PFCReceive", p>>, TRUE)
           rx == <<x>>
           lossy == LossyPgs(p)
           c(type) == ProfileSet(p, type)
           s == PortInit(p)
<1>1. /\ InitGoals(p) =
           {x} \cup {Set(<<type, p>>, TRUE) : type \in {t \in Profile : Dynamic[t] = "Conditional"}}
             \cup TrafficOn(Profile, p)
             \cup {e \in {Error} : \E type \in Profile : Dynamic[type] = "Fixed"}
  BY DEF InitGoals
<1>2. s = (((lossy \o c("PGProperties")) \o c("IntPriToPGMap")) \o c("Pfc")) \o rx
  BY DEF PortInit
<1>3. \A type \in Profile :
        /\ c(type) \in Quieting(A)
        /\ Dynamic[type] = "Fixed" => Error \in Range(c(type))
        /\ Dynamic[type] = "Conditional" =>
             Restart(p) \in Range(c(type)) /\ Set(<<type, p>>, TRUE) \in Range(c(type))
  BY ProfileSetFacts
<1>4. x \in A /\ Plain(x) /\ lossy \in Quieting(A)
  <2>1. Plain(x)
    BY PlainSteps, Names
  <2>2. x \in InitGoals(p)
    BY DEF InitGoals
  <2> QED
    BY <2>1, <2>2, InitMay, LossyPgsFacts
<1>5. rx \in Quieting(A) /\ Range(rx) = {x}
  BY <1>4, OneStep
<1>6. "PGProperties" \in Profile /\ "IntPriToPGMap" \in Profile /\ "Pfc" \in Profile
  BY DEF Profile
<1> HIDE DEF A, x, rx, lossy, s
<1>7. /\ s \in Quieting(A) /\ x \in Range(s)
      /\ \A type \in Profile : Range(c(type)) \subseteq Range(s)
  <2> DEFINE c1 == c("PGProperties")
             c2 == c("IntPriToPGMap")
             c3 == c("Pfc")
             a1 == lossy \o c1
             a2 == a1 \o c2
             a3 == a2 \o c3
  <2>1. c1 \in Quieting(A) /\ c2 \in Quieting(A) /\ c3 \in Quieting(A)
    BY <1>3, <1>6
  <2>2. s = a3 \o rx
    BY <1>2
  <2>3. \A type \in Profile : c(type) = c1 \/ c(type) = c2 \/ c(type) = c3
    BY Names
  <2> HIDE DEF c1, c2, c3
  <2>4. a1 \in Quieting(A) /\ Range(a1) = Range(lossy) \cup Range(c1)
    BY <1>4, <2>1, Joined
  <2> HIDE DEF a1
  <2>5. a2 \in Quieting(A) /\ Range(a2) = Range(a1) \cup Range(c2)
    BY <2>1, <2>4, Joined
  <2> HIDE DEF a2
  <2>6. a3 \in Quieting(A) /\ Range(a3) = Range(a2) \cup Range(c3)
    BY <2>1, <2>5, Joined
  <2> HIDE DEF a3
  <2>7. s \in Quieting(A) /\ Range(s) = Range(a3) \cup Range(rx)
    BY <1>5, <2>2, <2>6, Joined
  <2> QED
    BY <1>5, <2>3, <2>4, <2>5, <2>6, <2>7
<1> HIDE DEF c
<1>8. \A y \in TrafficOn(Profile, p) : y \in Range(s)
  BY <1>3, <1>7 DEF TrafficOn, AnyConditional, Restart
<1>9. \A type \in Profile : Dynamic[type] = "Conditional" => Set(<<type, p>>, TRUE) \in Range(s)
  BY <1>3, <1>7
<1>10. \A e \in {f \in {Error} : \E type \in Profile : Dynamic[type] = "Fixed"} : e \in Range(s)
  BY <1>3, <1>7
<1>11. InitGoals(p) \subseteq Range(s)
  BY <1>1, <1>7, <1>8, <1>9, <1>10
<1> QED
  BY <1>7, <1>11 DEF A, s

(* mmu_init does of every port all it must.                                *)
LEMMA InitScriptFacts ==
  ASSUME NEW known \in BOOLEAN
  PROVE  /\ InitScript(known) \in Quieting(AllInitSteps)
         /\ \A p \in Port : InitGoals(p) \subseteq Range(InitScript(known))
<1> DEFINE A == AllInitSteps
           order == Ascending(Port)
           series == [i \in 1 .. Len(order) |-> PortInit(order[i])]
           all == FlattenSeq(series)
           o == <<Other>>
           oo == <<Other, Other>>
           rx == RxPfcToVoqs(known)
           s == InitScript(known)
<1>1. Other \in A /\ Error \in A /\ Plain(Other) /\ Plain(Error)
  BY PlainSteps DEF AllInitSteps
<1>2. /\ order \in Seq(Port) /\ Len(order) \in Nat
      /\ \A i \in 1 .. Len(order) : order[i] \in Port
      /\ \A p \in Port : \E i \in 1 .. Len(order) : order[i] = p
  BY AscendingFacts, ConstantsAssumption, LenProperties, ElementOfSeq
<1>3. \A p \in Port : PortInit(p) \in Quieting(A) /\ InitGoals(p) \subseteq Range(PortInit(p))
  BY PortInitFacts
<1>4. s = (o \o (((oo \o o) \o oo) \o rx)) \o (o \o all)
  BY DEF InitScript, HdrmPool, InitProfiles, SpHpMapping, TxPfcPri, LocalTcToPg,
         InitAllPorts, ForAll
<1> HIDE DEF A, order
<1>5. series \in Seq(Quieting(A)) /\ Len(series) = Len(order)
      /\ \A i \in 1 .. Len(order) : series[i] = PortInit(order[i])
  BY <1>2, <1>3
<1> HIDE DEF series
<1>6. all \in Quieting(A) /\ \A i \in 1 .. Len(order) : Range(series[i]) \subseteq Range(all)
  BY <1>5, QuietingChains, Flattened
<1>7. \A p \in Port : InitGoals(p) \subseteq Range(all)
  <2> TAKE p \in Port
  <2>1. PICK i \in 1 .. Len(order) : order[i] = p
    BY <1>2
  <2> QED
    BY <1>3, <1>5, <1>6, <2>1
<1>8. o \in Quieting(A)
  BY <1>1, OneStep
<1>9. oo \in Quieting(A)
  <2>1. oo \in Seq(A) /\ Len(oo) = 2 /\ oo[1] = Other /\ oo[2] = Other
    BY <1>1
  <2> HIDE DEF oo
  <2>2. \A i \in 1 .. Len(oo) : Plain(oo[i])
    BY <1>1, <2>1
  <2> QED
    BY <2>1, <2>2, PlainScripts
<1>10. rx \in Quieting(A)
  BY <1>1, OneStep DEF RxPfcToVoqs
<1> HIDE DEF all, o, oo, rx, s
<1> DEFINE b1 == oo \o o
           b2 == b1 \o oo
           b3 == b2 \o rx
           b4 == o \o b3
           b5 == o \o all
<1>11. s = b4 \o b5
  BY <1>4
<1>12. b1 \in Quieting(A)
  BY <1>8, <1>9, Joined
<1> HIDE DEF b1
<1>13. b2 \in Quieting(A)
  BY <1>9, <1>12, Joined
<1> HIDE DEF b2
<1>14. b3 \in Quieting(A)
  BY <1>10, <1>13, Joined
<1> HIDE DEF b3
<1>15. b4 \in Quieting(A)
  BY <1>8, <1>14, Joined
<1> HIDE DEF b4
<1>16. b5 \in Quieting(A) /\ Range(b5) = Range(o) \cup Range(all)
  BY <1>6, <1>8, Joined
<1> HIDE DEF b5
<1>17. s \in Quieting(A) /\ Range(s) = Range(b4) \cup Range(b5)
  BY <1>11, <1>15, <1>16, Joined
<1>18. \A p \in Port : InitGoals(p) \subseteq Range(s)
  BY <1>7, <1>16, <1>17
<1> QED
  BY <1>17, <1>18 DEF A, s

-----------------------------------------------------------------------------
(***************************************************************************)
(* What a step of each call programs: which registers of which port and    *)
(* group, and to which value.                                              *)
(***************************************************************************)
Programs(s) == s.kind \in {"set", "ignored"}

(* The values of a switch, by a name: a prover of sets and numbers takes   *)
(* one for any other value.                                                *)
Yes == TRUE
No == FALSE

LEMMA EnableDoes ==
  ASSUME NEW p \in Port, NEW g \in Pg, NEW v \in Value,
         NEW s \in EnableSteps(p, g, v), Programs(s)
  PROVE  /\ s.kind = "set" /\ s.reg \in Reg
         /\ \/ s.reg = <<"pause", p>> /\ s.val = No
            \/ s.reg = <<"PFCTransmit", p>> /\ s.val = Yes
            \/ s.reg = <<"PAUSE", p>> /\ s.val = Yes
            \/ s.reg = <<"LOSSLESS", p, g>> /\ s.val = Yes
            \/ s.reg = <<"PFC", p, g>> /\ s.val = Yes
            \/ \E type \in Limit : s.reg = <<type, p, g>> /\ s.val = v
            \/ AnyConditional(Limit) /\ s.reg = <<"MmuTraffic", p>> /\ s = Restart(p)
            \/ AnyConditional(Limit) /\ s.reg = <<"MmuTraffic", p>> /\ s = Stop(p)
<1>1. s # Other
  BY StepFacts DEF Programs
<1>2. CASE s = Set(<<"pause", p>>, FALSE)
  BY <1>2 DEF Yes, No, Set, Reg, PortReg
<1>3. CASE s = Set(<<"PFCTransmit", p>>, TRUE)
  BY <1>3 DEF Yes, No, Set, Reg, PortReg
<1>4. CASE s = Set(<<"PAUSE", p>>, TRUE)
  BY <1>4 DEF Yes, No, Set, Reg, PortReg
<1>5. CASE s = Set(<<"LOSSLESS", p, g>>, TRUE)
  BY <1>5 DEF Yes, No, Set, Reg, FlagReg
<1>6. CASE s = Set(<<"PFC", p, g>>, TRUE)
  BY <1>6 DEF Yes, No, Set, Reg, FlagReg
<1>7. CASE \E type \in Limit : s = Set(<<type, p, g>>, v)
  BY <1>7 DEF Yes, No, Set, Reg, LimitReg
<1>8. CASE AnyConditional(Limit) /\ s = Restart(p)
  <2>1. s.kind = "set" /\ s.reg = <<"MmuTraffic", p>>
    BY <1>8, TrafficSteps
  <2>2. s.reg \in Reg
    BY <2>1 DEF Reg, PortReg
  <2> QED
    BY <1>8, <2>1, <2>2
<1>9. CASE AnyConditional(Limit) /\ s = Stop(p)
  <2>1. s.kind = "set" /\ s.reg = <<"MmuTraffic", p>>
    BY <1>9, TrafficSteps
  <2>2. s.reg \in Reg
    BY <2>1 DEF Reg, PortReg
  <2> QED
    BY <1>9, <2>1, <2>2
<1> QED
  BY <1>1, <1>2, <1>3, <1>4, <1>5, <1>6, <1>7, <1>8, <1>9
     DEF EnableSteps, EnableGoals, TrafficOn, TrafficOff, Stop, Restart

LEMMA DisableDoes ==
  ASSUME NEW p \in Port, NEW g \in Pg, NEW s \in DisableSteps(p, g), Programs(s)
  PROVE  /\ s.kind = "set" /\ s.reg \in Reg
         /\ \/ s.reg = <<"pause", p>> /\ s.val = Yes
            \/ s.reg = <<"PFCTransmit", p>> /\ s.val = No
            \/ s.reg = <<"PAUSE", p>> /\ s.val = No
            \/ s.reg = <<"LOSSLESS", p, g>> /\ s.val = No
            \/ s.reg = <<"PFC", p, g>> /\ s.val = No
<1>1. s # Other
  BY StepFacts DEF Programs
<1>2. CASE s = Set(<<"pause", p>>, TRUE)
  BY <1>2 DEF Yes, No, Set, Reg, PortReg
<1>3. CASE s = Set(<<"PFCTransmit", p>>, FALSE)
  BY <1>3 DEF Yes, No, Set, Reg, PortReg
<1>4. CASE s = Set(<<"PAUSE", p>>, FALSE)
  BY <1>4 DEF Yes, No, Set, Reg, PortReg
<1>5. CASE s = Set(<<"LOSSLESS", p, g>>, FALSE)
  BY <1>5 DEF Yes, No, Set, Reg, FlagReg
<1>6. CASE s = Set(<<"PFC", p, g>>, FALSE)
  BY <1>6 DEF Yes, No, Set, Reg, FlagReg
<1> QED
  BY <1>1, <1>2, <1>3, <1>4, <1>5, <1>6 DEF DisableSteps, DisableGoals

LEMMA InitDoes ==
  ASSUME NEW s \in AllInitSteps, Programs(s)
  PROVE  /\ s.reg \in Reg
         /\ \E p \in Port :
              \/ s.reg = <<"PAUSE", p>> /\ s.val = No
              \/ s.reg = <<"PFCReceive", p>> /\ s.val = Yes
              \/ \E g \in Pg : s.reg = <<"LOSSLESS", p, g>> /\ s.val = No
              \/ \E type \in Profile : s.reg = <<type, p>> /\ s.val = Yes
              \/ AnyConditional(Profile) /\ s.reg = <<"MmuTraffic", p>> /\ s = Restart(p)
              \/ AnyConditional(Profile) /\ s.reg = <<"MmuTraffic", p>> /\ s = Stop(p)
<1>1. s # Other /\ s # Error
  BY StepFacts DEF Programs
<1>2. PICK p \in Port : s \in InitSteps(p)
  BY <1>1 DEF AllInitSteps
<1>3. CASE s = Set(<<"PAUSE", p>>, FALSE)
  BY <1>3 DEF Yes, No, Set, Reg, PortReg
<1>4. CASE s = Set(<<"PFCReceive", p>>, TRUE)
  BY <1>4 DEF Yes, No, Set, Reg, PortReg
<1>5. CASE \E g \in Pg : s = Set(<<"LOSSLESS", p, g>>, FALSE)
  BY <1>5 DEF Yes, No, Set, Reg, FlagReg
<1>6. CASE \E type \in Profile : s = Set(<<type, p>>, TRUE) \/ s = Ignored(<<type, p>>, TRUE)
  BY <1>6 DEF Yes, No, Set, Ignored, Reg, PortReg
<1>7. CASE AnyConditional(Profile) /\ s = Restart(p)
  <2>1. s.kind = "set" /\ s.reg = <<"MmuTraffic", p>>
    BY <1>7, TrafficSteps
  <2>2. s.reg \in Reg
    BY <2>1 DEF Reg, PortReg
  <2> QED
    BY <1>7, <2>1, <2>2
<1>8. CASE AnyConditional(Profile) /\ s = Stop(p)
  <2>1. s.kind = "set" /\ s.reg = <<"MmuTraffic", p>>
    BY <1>8, TrafficSteps
  <2>2. s.reg \in Reg
    BY <2>1 DEF Reg, PortReg
  <2> QED
    BY <1>8, <2>1, <2>2
<1> QED
  BY <1>1, <1>2, <1>3, <1>4, <1>5, <1>6, <1>7, <1>8
     DEF InitSteps, InitGoals, TrafficOn, TrafficOff, Stop, Restart

(* The rest of a script, after its first step.                             *)
LEMMA TailFacts ==
  ASSUME NEW A, NEW s \in Seq(A), s # <<>>, Restarts(s), Quiesces(s)
  PROVE  /\ Head(s) \in A /\ Tail(s) \in Seq(A)
         /\ Range(s) = {Head(s)} \cup Range(Tail(s))
         /\ Restarts(Tail(s)) /\ Quiesces(Tail(s))
         /\ \A p \in Port : Head(s) = Stop(p) => Restart(p) \in Range(Tail(s))
         /\ Tail(s) # <<>> /\ Delicate(Head(Tail(s))) => Head(s) = Stop(Head(Tail(s)).reg[2])
<1> DEFINE t == Tail(s)
           n == Len(s)
<1>1. /\ Head(s) \in A /\ t \in Seq(A) /\ Len(t) = n - 1 /\ n \in Nat /\ n # 0
      /\ Head(s) = s[1] /\ \A i \in 1 .. n - 1 : t[i] = s[i + 1]
  BY HeadTailProperties, LenProperties, EmptySeq
<1>2. Range(s) = {s[i] : i \in 1 .. n} /\ Range(t) = {t[i] : i \in 1 .. n - 1}
  BY <1>1, RangeEquality
<1> HIDE DEF t, n
<1>3. Range(s) = {Head(s)} \cup Range(t)
  <2>1. ASSUME NEW x \in Range(s) PROVE x \in {Head(s)} \cup Range(t)
    <3>1. PICK i \in 1 .. n : x = s[i]
      BY <1>2
    <3>2. i # 1 => i - 1 \in 1 .. n - 1 /\ t[i - 1] = s[i]
      BY <1>1
    <3> QED
      BY <1>1, <1>2, <3>1, <3>2
  <2>2. ASSUME NEW x \in {Head(s)} \cup Range(t) PROVE x \in Range(s)
    <3>1. CASE x = Head(s)
      BY <1>1, <1>2, <3>1
    <3>2. CASE x \in Range(t)
      <4>1. PICK i \in 1 .. n - 1 : x = t[i]
        BY <1>2, <3>2
      <4>2. i + 1 \in 1 .. n /\ t[i] = s[i + 1]
        BY <1>1
      <4> QED
        BY <1>2, <4>1, <4>2
    <3> QED
      BY <3>1, <3>2
  <2> QED
    BY <2>1, <2>2
<1>4. Restarts(t)
  <2> SUFFICES ASSUME NEW i \in 1 .. n - 1, NEW p \in Port, t[i] = Stop(p)
               PROVE  i + 2 <= n - 1 /\ t[i + 2] = Restart(p)
    BY <1>1 DEF Restarts
  <2>1. i + 1 \in 1 .. n /\ s[i + 1] = Stop(p)
    BY <1>1
  <2>2. (i + 1) + 2 <= n /\ s[(i + 1) + 2] = Restart(p)
    BY <2>1 DEF Restarts, n
  <2>3. i + 2 \in 1 .. n - 1 /\ (i + 1) + 2 = (i + 2) + 1
    BY <1>1, <2>2
  <2> QED
    BY <1>1, <2>2, <2>3
<1>5. Quiesces(t)
  <2> SUFFICES ASSUME NEW i \in 2 .. n - 1, Delicate(t[i]) PROVE t[i - 1] = Stop(t[i].reg[2])
    BY <1>1 DEF Quiesces
  <2>1. i + 1 \in 2 .. n /\ t[i] = s[i + 1] /\ (i + 1) - 1 = i /\ i - 1 \in 1 .. n - 1
        /\ (i - 1) + 1 = i
    BY <1>1
  <2>2. s[(i + 1) - 1] = Stop(s[i + 1].reg[2])
    BY <2>1 DEF Quiesces, n
  <2> QED
    BY <1>1, <2>1, <2>2
<1>6. ASSUME NEW p \in Port, Head(s) = Stop(p) PROVE Restart(p) \in Range(t)
  <2>1. 1 \in 1 .. n /\ s[1] = Stop(p)
    BY <1>1, <1>6
  <2>2. 1 + 2 <= n /\ s[1 + 2] = Restart(p)
    BY <2>1 DEF Restarts, n
  <2>3. 2 \in 1 .. n - 1 /\ t[2] = Restart(p)
    BY <1>1, <2>2
  <2> QED
    BY <1>2, <2>3
<1>7. ASSUME t # <<>>, Delicate(Head(t)) PROVE Head(s) = Stop(Head(t).reg[2])
  <2>1. Len(t) # 0 /\ Head(t) = t[1]
    BY <1>1, <1>7, EmptySeq
  <2>2. 2 \in 2 .. n /\ 1 \in 1 .. n - 1 /\ t[1] = s[2]
    BY <1>1, <2>1
  <2>3. s[2 - 1] = Stop(s[2].reg[2])
    BY <1>7, <2>1, <2>2 DEF Quiesces, n
  <2> QED
    BY <1>1, <2>1, <2>2, <2>3
<1> QED
  BY <1>1, <1>3, <1>4, <1>5, <1>6, <1>7 DEF t

-----------------------------------------------------------------------------
(***************************************************************************)
(* A step of a script that does not end it: StepOk and StepIgnored.        *)
(***************************************************************************)
Advance(s) ==
  /\ call.steps # <<>> /\ s = Head(call.steps)
  /\ \/ /\ Programs(s) /\ hw' = [hw EXCEPT ![s.reg] = s.val]
        /\ reported' = reported \ {p \in Port : s.reg = <<"MmuTraffic", p>>}
     \/ s.kind \in {"other", "ignored"} /\ UNCHANGED <<hw, reported>>
  /\ call' = [call EXCEPT !.steps = Tail(@)]
  /\ UNCHANGED <<last, switched, initrc>>

LEMMA StepsAdvance == StepOk \/ StepIgnored => Advance(Head(call.steps))
<1>1. StepOk => Advance(Head(call.steps))
  BY DEF StepOk, Proceed, Advance, Programs
<1>2. StepIgnored => Advance(Head(call.steps))
  BY DEF StepIgnored, Proceed, Advance
<1> QED
  BY <1>1, <1>2

(* A call with steps left is one of the three.                             *)
LEMMA CallCases ==
  ASSUME CallOK(call)
  PROVE  /\ Idle <=> call.op \notin {"init", "enable", "disable"}
         /\ Idle => call.steps = <<>> /\ call.op = "none"
         /\ call.op = "init" => IsInit(call)
         /\ call.op = "enable" => /\ call.port \in Port /\ call.pg \in Pg /\ call.value \in Value
                                  /\ IsEnable(call, call.port, call.pg, call.value)
         /\ call.op = "disable" => /\ call.port \in Port /\ call.pg \in Pg
                                   /\ IsDisable(call, call.port, call.pg)
<1>1. CASE call = None
  BY <1>1 DEF None, Idle
<1>2. CASE IsInit(call)
  BY <1>2 DEF IsInit, None, Idle
<1>3. CASE \E p \in Port, g \in Pg, v \in Value : IsEnable(call, p, g, v)
  <2>1. PICK p \in Port, g \in Pg, v \in Value : IsEnable(call, p, g, v)
    BY <1>3
  <2>2. call.op = "enable" /\ call.port = p /\ call.pg = g /\ call.value = v
    BY <2>1 DEF IsEnable
  <2> QED
    BY <2>1, <2>2 DEF None, Idle
<1>4. CASE \E p \in Port, g \in Pg : IsDisable(call, p, g)
  <2>1. PICK p \in Port, g \in Pg : IsDisable(call, p, g)
    BY <1>4
  <2>2. call.op = "disable" /\ call.port = p /\ call.pg = g
    BY <2>1 DEF IsDisable
  <2> QED
    BY <2>1, <2>2 DEF None, Idle
<1> QED
  BY <1>1, <1>2, <1>3, <1>4 DEF CallOK

(* Only the steps of a call change while it runs.                          *)
LEMMA NextCall ==
  ASSUME NEW p, NEW g, NEW v, NEW t, NEW u
  PROVE  /\ [[op |-> "init", steps |-> t] EXCEPT !.steps = u] = [op |-> "init", steps |-> u]
         /\ [[op |-> "enable", port |-> p, pg |-> g, value |-> v, steps |-> t]
               EXCEPT !.steps = u]
              = [op |-> "enable", port |-> p, pg |-> g, value |-> v, steps |-> u]
         /\ [[op |-> "disable", port |-> p, pg |-> g, steps |-> t] EXCEPT !.steps = u]
              = [op |-> "disable", port |-> p, pg |-> g, steps |-> u]
OBVIOUS

(* The call goes on with the rest of its script.                           *)
LEMMA AdvanceCall ==
  ASSUME CallOK(call), Quieted, NEW s, Advance(s)
  PROVE  /\ CallOK(call') /\ ~Idle /\ call'.op = call.op /\ call'.steps = Tail(call.steps)
         /\ call.op \in {"enable", "disable"} => call'.port = call.port /\ call'.pg = call.pg
         /\ Goals(call') = Goals(call)
         /\ call.op = "init" => s \in AllInitSteps
         /\ call.op = "enable" => s \in EnableSteps(call.port, call.pg, call.value)
         /\ call.op = "disable" => s \in DisableSteps(call.port, call.pg)
         /\ Range(call.steps) = {s} \cup Range(call'.steps)
         /\ Restarts(call'.steps) /\ Quiesces(call'.steps)
         /\ \A p \in Port : s = Stop(p) => Restart(p) \in Range(call'.steps)
         /\ call'.steps # <<>> /\ Delicate(Head(call'.steps)) =>
              s = Stop(Head(call'.steps).reg[2])
<1>1. /\ call.steps # <<>> /\ s = Head(call.steps)
      /\ call' = [call EXCEPT !.steps = Tail(@)]
      /\ Restarts(call.steps) /\ Quiesces(call.steps)
  BY DEF Advance, Quieted
<1>2. ~Idle
  BY <1>1, CallCases
<1>3. ASSUME NEW A, call.steps \in Seq(A)
      PROVE  /\ s \in A /\ Tail(call.steps) \in Seq(A)
             /\ Range(call.steps) = {s} \cup Range(Tail(call.steps))
             /\ Restarts(Tail(call.steps)) /\ Quiesces(Tail(call.steps))
             /\ \A p \in Port : s = Stop(p) => Restart(p) \in Range(Tail(call.steps))
             /\ Tail(call.steps) # <<>> /\ Delicate(Head(Tail(call.steps))) =>
                  s = Stop(Head(Tail(call.steps)).reg[2])
  BY <1>1, <1>3, TailFacts
<1>4. CASE call.op = "init"
  <2>1. call = [op |-> "init", steps |-> call.steps] /\ call.steps \in Seq(AllInitSteps)
    BY <1>4, CallCases DEF IsInit
  <2>2. call' = [op |-> "init", steps |-> Tail(call.steps)]
    <3> DEFINE t == call.steps
               u == Tail(call.steps)
    <3>1. call = [op |-> "init", steps |-> t]
      BY <2>1
    <3>2. call' = [call EXCEPT !.steps = u]
      BY <1>1
    <3>3. call' = [op |-> "init", steps |-> u]
      <4> HIDE DEF t, u
      <4> QED
        BY <3>1, <3>2, NextCall
    <3> QED
      BY <3>3
  <2>3. call'.op = "init" /\ call'.steps = Tail(call.steps)
    BY <2>2
  <2>4. Tail(call.steps) \in Seq(AllInitSteps) /\ s \in AllInitSteps
    BY <1>3, <2>1
  <2>5. IsInit(call')
    BY <2>2, <2>3, <2>4 DEF IsInit
  <2>6. Goals(call') = Goals(call)
    BY <1>4, <2>3 DEF Goals
  <2> QED
    BY <1>2, <1>3, <1>4, <2>1, <2>3, <2>4, <2>5, <2>6 DEF CallOK
<1>5. CASE call.op = "enable"
  <2> DEFINE p == call.port
             g == call.pg
             v == call.value
  <2>1. /\ p \in Port /\ g \in Pg /\ v \in Value
        /\ call = [op |-> "enable", port |-> p, pg |-> g, value |-> v, steps |-> call.steps]
        /\ call.steps \in Seq(EnableSteps(p, g, v))
    BY <1>5, CallCases DEF IsEnable
  <2> HIDE DEF p, g, v
  <2>2. call' = [op |-> "enable", port |-> p, pg |-> g, value |-> v, steps |-> Tail(call.steps)]
    <3> DEFINE t == call.steps
               u == Tail(call.steps)
    <3>1. call = [op |-> "enable", port |-> p, pg |-> g, value |-> v, steps |-> t]
      BY <2>1
    <3>2. call' = [call EXCEPT !.steps = u]
      BY <1>1
    <3>3. call' = [op |-> "enable", port |-> p, pg |-> g, value |-> v, steps |-> u]
      <4> HIDE DEF t, u
      <4> QED
        BY <3>1, <3>2, NextCall
    <3> QED
      BY <3>3
  <2>3. /\ call'.op = "enable" /\ call'.steps = Tail(call.steps)
        /\ call'.port = p /\ call'.pg = g /\ call'.value = v
    BY <2>2
  <2>4. Tail(call.steps) \in Seq(EnableSteps(p, g, v)) /\ s \in EnableSteps(p, g, v)
    BY <1>3, <2>1
  <2>5. IsEnable(call', p, g, v)
    BY <2>2, <2>3, <2>4 DEF IsEnable
  <2>6. Goals(call') = Goals(call)
    BY <1>5, <2>3 DEF Goals, p, g, v
  <2> QED
    BY <1>2, <1>3, <1>5, <2>1, <2>3, <2>4, <2>5, <2>6 DEF CallOK, p, g, v
<1>6. CASE call.op = "disable"
  <2> DEFINE p == call.port
             g == call.pg
  <2>1. /\ p \in Port /\ g \in Pg
        /\ call = [op |-> "disable", port |-> p, pg |-> g, steps |-> call.steps]
        /\ call.steps \in Seq(DisableSteps(p, g))
    BY <1>6, CallCases DEF IsDisable
  <2> HIDE DEF p, g
  <2>2. call' = [op |-> "disable", port |-> p, pg |-> g, steps |-> Tail(call.steps)]
    <3> DEFINE t == call.steps
               u == Tail(call.steps)
    <3>1. call = [op |-> "disable", port |-> p, pg |-> g, steps |-> t]
      BY <2>1
    <3>2. call' = [call EXCEPT !.steps = u]
      BY <1>1
    <3>3. call' = [op |-> "disable", port |-> p, pg |-> g, steps |-> u]
      <4> HIDE DEF t, u
      <4> QED
        BY <3>1, <3>2, NextCall
    <3> QED
      BY <3>3
  <2>3. /\ call'.op = "disable" /\ call'.steps = Tail(call.steps)
        /\ call'.port = p /\ call'.pg = g
    BY <2>2
  <2>4. Tail(call.steps) \in Seq(DisableSteps(p, g)) /\ s \in DisableSteps(p, g)
    BY <1>3, <2>1
  <2>5. IsDisable(call', p, g)
    BY <2>2, <2>3, <2>4 DEF IsDisable
  <2>6. Goals(call') = Goals(call)
    BY <1>6, <2>3 DEF Goals, p, g
  <2> QED
    BY <1>2, <1>3, <1>6, <2>1, <2>3, <2>4, <2>5, <2>6 DEF CallOK, p, g
<1> QED
  BY <1>2, <1>4, <1>5, <1>6, CallCases

(***************************************************************************)
(* What a running call may write into a register, whichever step it is at. *)
(***************************************************************************)
EnableWrites(p, g, v, r, x) ==
  \/ r = <<"pause", p>> /\ x = No
  \/ r = <<"PFCTransmit", p>> /\ x = Yes
  \/ r = <<"PAUSE", p>> /\ x = Yes
  \/ r = <<"LOSSLESS", p, g>> /\ x = Yes
  \/ r = <<"PFC", p, g>> /\ x = Yes
  \/ \E type \in Limit : r = <<type, p, g>> /\ x = v
  \/ r = <<"MmuTraffic", p>> /\ x \in BOOLEAN
DisableWrites(p, g, r, x) ==
  \/ r = <<"pause", p>> /\ x = Yes
  \/ r = <<"PFCTransmit", p>> /\ x = No
  \/ r = <<"PAUSE", p>> /\ x = No
  \/ r = <<"LOSSLESS", p, g>> /\ x = No
  \/ r = <<"PFC", p, g>> /\ x = No
InitWrites(p, r, x) ==
  \/ r = <<"PAUSE", p>> /\ x = No
  \/ r = <<"PFCReceive", p>> /\ x = Yes
  \/ \E g \in Pg : r = <<"LOSSLESS", p, g>> /\ x = No
  \/ \E type \in Profile : r = <<type, p>> /\ x = Yes
  \/ r = <<"MmuTraffic", p>> /\ x \in BOOLEAN
Writes(r, x) ==
  \/ call.op = "enable" /\ EnableWrites(call.port, call.pg, call.value, r, x)
  \/ call.op = "disable" /\ DisableWrites(call.port, call.pg, r, x)
  \/ call.op = "init" /\ \E p \in Port : InitWrites(p, r, x)

(* A step changes at most the register it names.                           *)
LEMMA Effect ==
  ASSUME TypeInv, Quieted, NEW s, Advance(s)
  PROVE  /\ hw' = [r \in Reg |-> hw'[r]]
         /\ Programs(s) => s.reg \in Reg /\ Writes(s.reg, s.val)
         /\ s.kind = "set" => hw'[s.reg] = s.val
         /\ \A r \in Reg : \/ hw'[r] = hw[r]
                           \/ Programs(s) /\ s.reg = r /\ hw'[r] = s.val
<1>1. /\ CallOK(call) /\ hw = [r \in Reg |-> hw[r]]
      /\ \/ Programs(s) /\ hw' = [hw EXCEPT ![s.reg] = s.val]
         \/ s.kind \in {"other", "ignored"} /\ hw' = hw
  BY DEF TypeInv, Advance
<1>2. \A p : Restart(p).val \in BOOLEAN /\ Stop(p).val \in BOOLEAN
  BY DEF Restart, Stop, Set
<1>3. ASSUME Programs(s) PROVE s.reg \in Reg /\ Writes(s.reg, s.val)
  <2>1. CASE call.op = "enable"
    <3>1. /\ call.port \in Port /\ call.pg \in Pg /\ call.value \in Value
          /\ s \in EnableSteps(call.port, call.pg, call.value)
      BY <1>1, <2>1, AdvanceCall, CallCases
    <3>2. s.reg \in Reg /\ EnableWrites(call.port, call.pg, call.value, s.reg, s.val)
      BY <1>2, <1>3, <3>1, EnableDoes DEF EnableWrites
    <3> QED
      BY <2>1, <3>2 DEF Writes
  <2>2. CASE call.op = "disable"
    <3>1. /\ call.port \in Port /\ call.pg \in Pg
          /\ s \in DisableSteps(call.port, call.pg)
      BY <1>1, <2>2, AdvanceCall, CallCases
    <3>2. s.reg \in Reg /\ DisableWrites(call.port, call.pg, s.reg, s.val)
      BY <1>3, <3>1, DisableDoes DEF DisableWrites
    <3> QED
      BY <2>2, <3>2 DEF Writes
  <2>3. CASE call.op = "init"
    <3>1. s \in AllInitSteps
      BY <1>1, <2>3, AdvanceCall
    <3>2. s.reg \in Reg /\ \E p \in Port : InitWrites(p, s.reg, s.val)
      BY <1>2, <1>3, <3>1, InitDoes DEF InitWrites
    <3> QED
      BY <2>3, <3>2 DEF Writes
  <2> QED
    BY <1>1, <2>1, <2>2, <2>3, AdvanceCall, CallCases
<1>4. CASE Programs(s) /\ hw' = [hw EXCEPT ![s.reg] = s.val]
  <2>1. s.reg \in Reg
    BY <1>3, <1>4
  <2>2. hw' = [r \in Reg |-> IF r = s.reg THEN s.val ELSE hw[r]]
    BY <1>1, <1>4, <2>1
  <2> QED
    BY <1>3, <1>4, <2>1, <2>2
<1>5. CASE s.kind \in {"other", "ignored"} /\ hw' = hw
  BY <1>1, <1>3, <1>5
<1> QED
  BY <1>1, <1>4, <1>5

LEMMA StepWrites ==
  ASSUME TypeInv, Quieted, NEW s, Advance(s)
  PROVE  \A r \in Reg : hw'[r] = hw[r] \/ Writes(r, hw'[r])
BY Effect

(* Limits and switches are never confused.                                 *)
LEMMA Kinds ==
  /\ \A r \in PortReg \cup FlagReg : r \in Reg /\ r[1] \notin Limit
  /\ \A r \in LimitReg : r \in Reg /\ r[1] \in Limit
<1>1. \A r \in PortReg : r[1] \notin Limit
  BY Names DEF PortReg
<1>2. \A r \in FlagReg : r[1] \notin Limit
  BY Names DEF FlagReg
<1>3. \A r \in LimitReg : r[1] \in Limit
  BY DEF LimitReg
<1> QED
  BY <1>1, <1>2, <1>3 DEF Reg

LEMMA WritesTyped ==
  ASSUME CallOK(call), NEW r, NEW x, Writes(r, x)
  PROVE  /\ r[1] \in Limit => x \in Value
         /\ r[1] \notin Limit => x \in BOOLEAN
<1>0. Yes \in BOOLEAN /\ No \in BOOLEAN
  BY DEF Yes, No
<1>1. CASE call.op = "enable" /\ EnableWrites(call.port, call.pg, call.value, r, x)
  <2>1. call.value \in Value
    BY <1>1, CallCases
  <2> QED
    BY <1>0, <1>1, <2>1, Names DEF EnableWrites
<1>2. CASE call.op = "disable" /\ DisableWrites(call.port, call.pg, r, x)
  BY <1>0, <1>2, Names DEF DisableWrites
<1>3. CASE call.op = "init" /\ \E p \in Port : InitWrites(p, r, x)
  BY <1>0, <1>3, Names DEF InitWrites
<1> QED
  BY <1>1, <1>2, <1>3 DEF Writes

(* Who writes the switches of a port, and how.                             *)
LEMMA SwitchWrites ==
  ASSUME NEW q, NEW x
  PROVE  /\ Writes(<<"pause", q>>, x) =>
              \/ call.op = "enable" /\ q = call.port /\ x = No
              \/ call.op = "disable" /\ q = call.port /\ x = Yes
         /\ Writes(<<"PFCTransmit", q>>, x) =>
              \/ call.op = "enable" /\ q = call.port /\ x = Yes
              \/ call.op = "disable" /\ q = call.port /\ x = No
         /\ Writes(<<"PAUSE", q>>, x) =>
              \/ call.op = "enable" /\ q = call.port /\ x = Yes
              \/ call.op = "disable" /\ q = call.port
              \/ call.op = "init"
         /\ Writes(<<"PFCReceive", q>>, x) => x = Yes
         /\ \A type \in Profile : Writes(<<type, q>>, x) => x = Yes
BY Names DEF Writes, EnableWrites, DisableWrites, InitWrites

(* Who writes what one PG has of its own.                                  *)
LEMMA GroupWrites ==
  ASSUME NEW q, NEW h, NEW x
  PROVE  /\ \A name \in {"LOSSLESS", "PFC"} \cup Limit :
              Writes(<<name, q, h>>, x) =>
                \/ call.op = "init"
                \/ call.op \in {"enable", "disable"} /\ q = call.port /\ h = call.pg
BY Names DEF Writes, EnableWrites, DisableWrites, InitWrites

LEMMA Registers ==
  ASSUME NEW p \in Port
  PROVE  /\ \A name \in {"pause", "PFCTransmit", "PFCReceive", "MmuTraffic", "PAUSE"} \cup Profile :
              <<name, p>> \in PortReg /\ <<name, p>> \in Reg
         /\ \A g \in Pg : \A name \in {"LOSSLESS", "PFC"} \cup Limit : <<name, p, g>> \in Reg
<1>1. \A name \in {"pause", "PFCTransmit", "PFCReceive", "MmuTraffic", "PAUSE"} \cup Profile :
        <<name, p>> \in PortReg
  BY DEF PortReg
<1>2. \A g \in Pg, name \in {"LOSSLESS", "PFC"} : <<name, p, g>> \in FlagReg
  BY DEF FlagReg
<1>3. \A g \in Pg, name \in Limit : <<name, p, g>> \in LimitReg
  BY DEF LimitReg
<1> QED
  BY <1>1, <1>2, <1>3 DEF Reg

(* A goal of a call is only undone by the stop that its restart follows.   *)
LEMMA GoalsAgree ==
  ASSUME CallOK(call), NEW a \in Goals(call), NEW s, Programs(a), Programs(s), s.reg = a.reg,
         call.op = "init" => s \in AllInitSteps,
         call.op = "enable" => s \in EnableSteps(call.port, call.pg, call.value),
         call.op = "disable" => s \in DisableSteps(call.port, call.pg)
  PROVE  \/ s.val = a.val
         \/ \E p \in Port : s = Stop(p) /\ a = Restart(p)
<1>0. \A p, q : /\ Stop(p).reg = <<"MmuTraffic", p>> /\ Restart(p).reg = <<"MmuTraffic", p>>
                /\ Restart(p) # Stop(q) /\ (<<"MmuTraffic", p>> = <<"MmuTraffic", q>> => p = q)
  BY TrafficSteps
<1>1. CASE call.op = "enable"
  <2> DEFINE p == call.port
             g == call.pg
             v == call.value
             cond == AnyConditional(Limit)
  <2>1. p \in Port /\ g \in Pg /\ v \in Value
    BY <1>1, CallCases
  <2>2. a \in EnableGoals(p, g, v) /\ a \in EnableSteps(p, g, v) /\ s \in EnableSteps(p, g, v)
    BY <1>1 DEF Goals, EnableSteps
  <2>3. a # Stop(p)
    BY <2>2, TrafficSteps, Names
       DEF EnableGoals, TrafficOn, Stop, Set
  <2> HIDE DEF p, g, v
  <2>4. \/ s.reg = <<"pause", p>> /\ s.val = No
        \/ s.reg = <<"PFCTransmit", p>> /\ s.val = Yes
        \/ s.reg = <<"PAUSE", p>> /\ s.val = Yes
        \/ s.reg = <<"LOSSLESS", p, g>> /\ s.val = Yes
        \/ s.reg = <<"PFC", p, g>> /\ s.val = Yes
        \/ \E type \in Limit : s.reg = <<type, p, g>> /\ s.val = v
        \/ s.reg = <<"MmuTraffic", p>> /\ s \in {Stop(p), Restart(p)}
    BY <2>1, <2>2, EnableDoes
  <2>5. \/ a.reg = <<"pause", p>> /\ a.val = No
        \/ a.reg = <<"PFCTransmit", p>> /\ a.val = Yes
        \/ a.reg = <<"PAUSE", p>> /\ a.val = Yes
        \/ a.reg = <<"LOSSLESS", p, g>> /\ a.val = Yes
        \/ a.reg = <<"PFC", p, g>> /\ a.val = Yes
        \/ \E type \in Limit : a.reg = <<type, p, g>> /\ a.val = v
        \/ a.reg = <<"MmuTraffic", p>> /\ a = Restart(p)
    BY <2>1, <2>2, <2>3, EnableDoes
  <2> QED
    BY <2>1, <2>4, <2>5, Names
<1>2. CASE call.op = "disable"
  <2> DEFINE p == call.port
             g == call.pg
  <2>1. p \in Port /\ g \in Pg
    BY <1>2, CallCases
  <2>2. a \in DisableSteps(p, g) /\ s \in DisableSteps(p, g)
    BY <1>2 DEF Goals, DisableSteps
  <2> HIDE DEF p, g
  <2> QED
    BY <2>1, <2>2, DisableDoes
<1>3. CASE call.op = "init"
  <2>1. PICK p \in Port : a \in InitGoals(p)
    BY <1>3 DEF Goals
  <2>2. a \in AllInitSteps /\ s \in AllInitSteps
    BY <1>3, <2>1, InitMay
  <2>3. a # Error
    BY StepFacts DEF Programs
  <2>4. \/ a.reg = <<"PFCReceive", p>> /\ a.val = Yes
        \/ \E type \in Profile : a.reg = <<type, p>> /\ a.val = Yes
        \/ a.reg = <<"MmuTraffic", p>> /\ a = Restart(p)
    <3>1. CASE a = Set(<<"PFCReceive", p>>, TRUE)
      BY <3>1 DEF Set, Yes
    <3>2. CASE \E type \in Profile : a = Set(<<type, p>>, TRUE)
      BY <3>2 DEF Set, Yes
    <3>3. CASE a = Restart(p)
      BY <1>0, <3>3
    <3> QED
      BY <2>1, <2>3, <3>1, <3>2, <3>3 DEF InitGoals, TrafficOn, Restart
  <2>5. PICK q \in Port :
          \/ s.reg = <<"PAUSE", q>> /\ s.val = No
          \/ s.reg = <<"PFCReceive", q>> /\ s.val = Yes
          \/ \E g \in Pg : s.reg = <<"LOSSLESS", q, g>> /\ s.val = No
          \/ \E type \in Profile : s.reg = <<type, q>> /\ s.val = Yes
          \/ s.reg = <<"MmuTraffic", q>> /\ s \in {Stop(q), Restart(q)}
    BY <2>2, InitDoes
  <2>6. s.reg = <<"MmuTraffic", p>> => s \in {Stop(p), Restart(p)}
    BY <2>5, Names
  <2> QED
    BY <2>4, <2>5, <2>6, Names
<1> QED
  BY <1>1, <1>2, <1>3 DEF Goals

-----------------------------------------------------------------------------
(***************************************************************************)
(* What each part of the invariant keeps while a call runs.                *)
(***************************************************************************)
LEMMA AdvanceType ==
  ASSUME TypeInv, Quieted, NEW s, Advance(s)
  PROVE  TypeInv'
<1>1. /\ CallOK(call') /\ hw' = [r \in Reg |-> hw'[r]]
      /\ \A r \in Reg : hw'[r] = hw[r] \/ Writes(r, hw'[r])
  BY AdvanceCall, Effect, StepWrites DEF TypeInv
<1>2. ASSUME NEW r \in PortReg \cup FlagReg PROVE hw'[r] \in BOOLEAN
  <2>1. r \in Reg /\ r[1] \notin Limit
    BY Kinds
  <2>2. Writes(r, hw'[r]) => hw'[r] \in BOOLEAN
    BY <2>1, WritesTyped DEF TypeInv
  <2>3. hw[r] \in BOOLEAN
    BY DEF TypeInv, TypeOK
  <2>4. CASE hw'[r] = hw[r]
    BY <2>3, <2>4, Zenon
  <2> QED
    BY <1>1, <2>1, <2>2, <2>4, Zenon
<1>3. ASSUME NEW r \in LimitReg PROVE hw'[r] \in Value \cup {0}
  <2>1. r \in Reg /\ r[1] \in Limit
    BY Kinds
  <2>2. Writes(r, hw'[r]) => hw'[r] \in Value
    BY <2>1, WritesTyped DEF TypeInv
  <2>3. hw[r] \in Value \cup {0}
    BY DEF TypeInv, TypeOK
  <2> QED
    BY <1>1, <2>1, <2>2, <2>3
<1>4. /\ last' \in [Port -> [Pg -> Value \cup {Off, Unknown}]]
      /\ switched' \subseteq Port /\ reported' \subseteq Port
      /\ initrc' \in {"none", "ok", "error"}
  BY DEF TypeInv, TypeOK, Advance
<1> QED
  BY <1>1, <1>2, <1>3, <1>4 DEF TypeInv, TypeOK

LEMMA AdvanceOnCourse ==
  ASSUME TypeInv, Quieted, OnCourse, NEW s, Advance(s)
  PROVE  OnCourse'
<1>1. /\ CallOK(call) /\ Goals(call') = Goals(call)
      /\ Range(call.steps) = {s} \cup Range(call'.steps)
      /\ \A p \in Port : s = Stop(p) => Restart(p) \in Range(call'.steps)
      /\ call.op = "init" => s \in AllInitSteps
      /\ call.op = "enable" => s \in EnableSteps(call.port, call.pg, call.value)
      /\ call.op = "disable" => s \in DisableSteps(call.port, call.pg)
  BY AdvanceCall DEF TypeInv
<1>2. /\ s.kind = "set" => hw'[s.reg] = s.val
      /\ \A r \in Reg : \/ hw'[r] = hw[r]
                        \/ Programs(s) /\ s.reg = r /\ hw'[r] = s.val
      /\ s.kind \in {"set", "ignored", "other"}
  BY Effect DEF Advance, Programs
<1> SUFFICES ASSUME NEW a \in Goals(call), a \notin Range(call'.steps)
             PROVE  a.kind = "set" /\ hw'[a.reg] = a.val
  BY <1>1 DEF OnCourse, Done
<1>3. a.kind \in {"set", "error"} /\ (a.kind = "set" => a.reg \in Reg)
  <2>1. CASE call.op = "enable"
    <3>1. a \in EnableSteps(call.port, call.pg, call.value)
      BY <2>1 DEF Goals, EnableSteps
    <3>2. a # Other
      BY <2>1 DEF Goals, EnableGoals, TrafficOn, Other, Set
    <3>3. Programs(a)
      BY <2>1 DEF Goals, EnableGoals, TrafficOn, Set, Programs
    <3> QED
      BY <1>1, <2>1, <3>1, <3>3, CallCases, EnableDoes
  <2>2. CASE call.op = "disable"
    <3>1. a \in DisableSteps(call.port, call.pg) /\ Programs(a)
      BY <2>2 DEF Goals, DisableSteps, DisableGoals, Set, Programs
    <3> QED
      BY <1>1, <2>2, <3>1, CallCases, DisableDoes
  <2>3. CASE call.op = "init"
    <3>1. PICK p \in Port : a \in InitGoals(p)
      BY <2>3 DEF Goals
    <3>2. a \in AllInitSteps
      BY <3>1, InitMay
    <3>3. a = Error \/ a.kind = "set"
      BY <3>1 DEF InitGoals, TrafficOn, Set
    <3> QED
      BY <3>2, <3>3, InitDoes, StepFacts DEF Programs
  <2> QED
    BY <2>1, <2>2, <2>3 DEF Goals
<1>4. CASE a = s
  BY <1>2, <1>3, <1>4
<1>5. CASE a # s
  <2>1. a.kind = "set" /\ hw[a.reg] = a.val /\ a.reg \in Reg
    BY <1>1, <1>3, <1>5 DEF OnCourse, Done
  <2>2. CASE hw'[a.reg] = hw[a.reg]
    BY <2>1, <2>2
  <2>3. CASE Programs(s) /\ s.reg = a.reg /\ hw'[a.reg] = s.val
    <3>1. s.val = a.val \/ \E p \in Port : s = Stop(p) /\ a = Restart(p)
      BY <1>1, <2>1, <2>3, GoalsAgree DEF Programs
    <3>2. s.val = a.val
      BY <1>1, <3>1
    <3> QED
      BY <2>1, <2>3, <3>2
  <2> QED
    BY <1>2, <2>1, <2>2, <2>3
<1> QED
  BY <1>4, <1>5

(* After its first step enable has pause off, disable has PFC off.         *)
LEMMA AdvanceBegun ==
  ASSUME TypeInv, Quieted, Begun, NEW s, Advance(s)
  PROVE  /\ Begun'
         /\ call.op = "enable" => ~hw'[<<"pause", call.port>>]
         /\ call.op = "disable" => ~hw'[<<"PFCTransmit", call.port>>]
<1>1. /\ call'.op = call.op /\ CallOK(call) /\ s = Head(call.steps)
      /\ call.op \in {"enable", "disable"} => call'.port = call.port
      /\ s.kind = "set" => hw'[s.reg] = s.val
      /\ \A r \in Reg : hw'[r] = hw[r] \/ Writes(r, hw'[r])
  BY AdvanceCall, Effect, StepWrites DEF TypeInv, Advance
<1>2. ASSUME call.op = "enable" PROVE ~hw'[<<"pause", call.port>>]
  <2> DEFINE r == <<"pause", call.port>>
  <2>1. r \in Reg
    BY <1>1, <1>2, CallCases, Registers
  <2>2. Writes(r, hw'[r]) => hw'[r] = No
    BY <1>2, SwitchWrites
  <2>3. CASE s = Set(r, FALSE)
    <3>1. s.kind = "set" /\ s.reg = r /\ s.val = No
      BY <2>3 DEF Set, No
    <3>2. hw'[r] = No
      BY <1>1, <3>1
    <3> QED
      BY <3>2 DEF No
  <2>4. CASE ~hw[r]
    <3>1. CASE hw'[r] = hw[r]
      BY <2>4, <3>1, Zenon
    <3>2. CASE hw'[r] = No
      BY <3>2 DEF No
    <3> HIDE DEF r
    <3> QED
      BY <1>1, <2>1, <2>2, <3>1, <3>2, Zenon DEF r
  <2> QED
    BY <1>1, <1>2, <2>3, <2>4, Zenon DEF Begun
<1>3. ASSUME call.op = "disable" PROVE ~hw'[<<"PFCTransmit", call.port>>]
  <2> DEFINE r == <<"PFCTransmit", call.port>>
  <2>1. r \in Reg
    BY <1>1, <1>3, CallCases, Registers
  <2>2. Writes(r, hw'[r]) => hw'[r] = No
    BY <1>3, SwitchWrites
  <2>3. CASE s = Set(r, FALSE)
    <3>1. s.kind = "set" /\ s.reg = r /\ s.val = No
      BY <2>3 DEF Set, No
    <3>2. hw'[r] = No
      BY <1>1, <3>1
    <3> QED
      BY <3>2 DEF No
  <2>4. CASE ~hw[r]
    <3>1. CASE hw'[r] = hw[r]
      BY <2>4, <3>1, Zenon
    <3>2. CASE hw'[r] = No
      BY <3>2 DEF No
    <3> HIDE DEF r
    <3> QED
      BY <1>1, <2>1, <2>2, <3>1, <3>2, Zenon DEF r
  <2> QED
    BY <1>1, <1>3, <2>3, <2>4, Zenon DEF Begun
<1> QED
  BY <1>1, <1>2, <1>3, Zenon DEF Begun

LEMMA AdvanceQuieted ==
  ASSUME TypeInv, Quieted, NEW s, Advance(s)
  PROVE  Quieted'
<1>1. /\ Restarts(call'.steps) /\ Quiesces(call'.steps)
      /\ call'.steps # <<>> /\ Delicate(Head(call'.steps)) =>
           s = Stop(Head(call'.steps).reg[2])
      /\ s.kind = "set" => hw'[s.reg] = s.val
  BY AdvanceCall, Effect DEF TypeInv
<1>2. ASSUME call'.steps # <<>>, Delicate(Head(call'.steps))
      PROVE  ~hw'[<<"MmuTraffic", Head(call'.steps).reg[2]>>]
  <2> DEFINE q == Head(call'.steps).reg[2]
  <2>1. s = Stop(q)
    BY <1>1, <1>2
  <2> HIDE DEF q
  <2>2. s.kind = "set" /\ s.reg = <<"MmuTraffic", q>> /\ s.val = No
    BY <2>1 DEF Stop, Set, No
  <2>3. hw'[<<"MmuTraffic", q>>] = No
    BY <1>1, <2>2
  <2> QED
    BY <2>3 DEF q, No
<1> QED
  BY <1>1, <1>2 DEF Quieted, Restarts, Quiesces, Delicate

LEMMA AdvanceKnown ==
  ASSUME TypeInv, Quieted, Known, NEW s, Advance(s)
  PROVE  Known'
<1>1. /\ call'.op = call.op /\ UNCHANGED <<last, switched>>
      /\ call.op \in {"enable", "disable"} => call'.port = call.port /\ call'.pg = call.pg
  BY AdvanceCall DEF TypeInv, Advance
<1> QED
  BY <1>1 DEF Known

LEMMA AdvancePause ==
  ASSUME TypeInv, Quieted, Begun, PauseExcludesPfc, NEW s, Advance(s)
  PROVE  PauseExcludesPfc'
<1> SUFFICES ASSUME NEW p \in Port PROVE ~(hw'[<<"pause", p>>] /\ hw'[<<"PFCTransmit", p>>])
  BY DEF PauseExcludesPfc
<1> DEFINE a == <<"pause", p>>
           b == <<"PFCTransmit", p>>
<1>1. ~(hw[a] /\ hw[b])
  BY DEF PauseExcludesPfc
<1>2. /\ call.op = "enable" => ~hw'[<<"pause", call.port>>]
      /\ call.op = "disable" => ~hw'[<<"PFCTransmit", call.port>>]
  BY AdvanceBegun
<1>3. \/ call.op \in {"enable", "disable"} /\ p = call.port
      \/ hw'[a] = hw[a] /\ hw'[b] = hw[b]
  BY StepWrites, SwitchWrites, Registers
<1>4. CASE call.op \in {"enable", "disable"} /\ p = call.port
  BY <1>2, <1>4
<1>5. CASE hw'[a] = hw[a] /\ hw'[b] = hw[b]
  <2> HIDE DEF a, b
  <2> QED
    BY <1>1, <1>5, Zenon DEF a, b
<1> QED
  BY <1>3, <1>4, <1>5, Zenon

(* Only a disable may take backpressure from a port with an enabled PG.    *)
LEMMA AdvanceBackpressure ==
  ASSUME TypeInv, Quieted, Known, EnabledMeansBackpressure, NEW s, Advance(s)
  PROVE  EnabledMeansBackpressure'
<1>1. UNCHANGED <<last, switched>>
  BY DEF Advance
<1> SUFFICES ASSUME NEW p \in Port, NEW g \in Pg, last[p][g] \in Value, p \notin switched
             PROVE  hw'[<<"PFCTransmit", p>>] /\ hw'[<<"PAUSE", p>>] /\ ~hw'[<<"pause", p>>]
  BY <1>1 DEF EnabledMeansBackpressure
<1> DEFINE a == <<"pause", p>>
           b == <<"PFCTransmit", p>>
           c == <<"PAUSE", p>>
<1>2. ~hw[a] /\ hw[b] /\ hw[c]
  BY DEF EnabledMeansBackpressure
<1>3. call.op # "init"
  <2>1. CASE call.op = "init"
    <3>1. last[p][g] = -1
      BY <2>1 DEF Known, Unknown
    <3> QED
      BY <3>1, ConstantsAssumption
  <2> QED
    BY <2>1
<1>4. ~(call.op = "disable" /\ p = call.port)
  BY DEF Known
<1>5. /\ hw'[a] = hw[a] \/ hw'[a] = No
      /\ hw'[b] = hw[b] \/ hw'[b] = Yes
      /\ hw'[c] = hw[c] \/ hw'[c] = Yes
  BY <1>3, <1>4, StepWrites, SwitchWrites, Registers
<1> HIDE DEF a, b, c
<1>6. ~hw'[a]
  BY <1>2, <1>5, Zenon DEF No
<1>7. hw'[b]
  BY <1>2, <1>5, Zenon DEF Yes
<1>8. hw'[c]
  BY <1>2, <1>5, Zenon DEF Yes
<1> QED
  BY <1>6, <1>7, <1>8, Zenon DEF a, b, c

(* No call turns off the reception of PFC or takes a profile back.         *)
LEMMA AdvanceReceive ==
  ASSUME TypeInv, Quieted, InitialisedPortsReceive, NEW s, Advance(s)
  PROVE  InitialisedPortsReceive'
<1>1. initrc' = initrc
  BY DEF Advance
<1>2. ASSUME NEW p \in Port, NEW name \in {"PFCReceive"} \cup Profile, hw[<<name, p>>]
      PROVE  hw'[<<name, p>>]
  <2> DEFINE r == <<name, p>>
  <2>1. r \in Reg
    BY Registers
  <2>2. Writes(r, hw'[r]) => hw'[r] = Yes
    BY SwitchWrites
  <2>3. hw'[r] = hw[r] \/ hw'[r] = Yes
    BY <2>1, <2>2, StepWrites
  <2> HIDE DEF r
  <2> QED
    BY <1>2, <2>3, Zenon DEF r, Yes
<1> QED
  BY <1>1, <1>2, Zenon DEF InitialisedPortsReceive

(* What the last call on a PG promised, no other call takes back.          *)
LEMMA AdvancePromise ==
  ASSUME TypeInv, Quieted, Known, PromiseHolds, NEW s, Advance(s)
  PROVE  PromiseHolds'
<1>1. UNCHANGED last
  BY DEF Advance
<1>2. ASSUME NEW p \in Port, NEW g \in Pg, last[p][g] # Unknown,
             NEW name \in {"LOSSLESS", "PFC"} \cup Limit
      PROVE  hw'[<<name, p, g>>] = hw[<<name, p, g>>]
  <2>1. call.op # "init" /\ ~(call.op \in {"enable", "disable"} /\ p = call.port /\ g = call.pg)
    BY <1>2 DEF Known
  <2>2. <<name, p, g>> \in Reg
    BY Registers
  <2> QED
    BY <2>1, <2>2, StepWrites, GroupWrites
<1> SUFFICES ASSUME NEW p \in Port, NEW g \in Pg, last[p][g] # Unknown
             PROVE  /\ hw'[<<"LOSSLESS", p, g>>] = (last[p][g] # Off)
                    /\ hw'[<<"PFC", p, g>>] = (last[p][g] # Off)
                    /\ last[p][g] # Off =>
                         \A type \in Limit : Dynamic[type] # "Fixed" =>
                           hw'[<<type, p, g>>] = last[p][g]
  BY <1>1 DEF PromiseHolds
<1>3. /\ hw[<<"LOSSLESS", p, g>>] = (last[p][g] # Off)
      /\ hw[<<"PFC", p, g>>] = (last[p][g] # Off)
      /\ last[p][g] # Off =>
           \A type \in Limit : Dynamic[type] # "Fixed" => hw[<<type, p, g>>] = last[p][g]
  BY DEF PromiseHolds
<1>4. hw'[<<"LOSSLESS", p, g>>] = hw[<<"LOSSLESS", p, g>>]
  BY <1>2
<1>5. hw'[<<"PFC", p, g>>] = hw[<<"PFC", p, g>>]
  BY <1>2
<1>6. \A type \in Limit : hw'[<<type, p, g>>] = hw[<<type, p, g>>]
  BY <1>2
<1> QED
  BY <1>3, <1>4, <1>5, <1>6, Zenon

(* Traffic is stopped only when its restart is the step but one.           *)
LEMMA AdvanceStopped ==
  ASSUME TypeInv, Quieted, StoppedInv, NEW s, Advance(s)
  PROVE  StoppedInv'
<1>1. /\ CallOK(call)
      /\ Range(call.steps) = {s} \cup Range(call'.steps)
      /\ \A p \in Port : s = Stop(p) => Restart(p) \in Range(call'.steps)
      /\ call.op = "init" => s \in AllInitSteps
      /\ call.op = "enable" => s \in EnableSteps(call.port, call.pg, call.value)
      /\ call.op = "disable" => s \in DisableSteps(call.port, call.pg)
      /\ call.op \in {"init", "enable", "disable"}
  BY AdvanceCall, CallCases DEF Advance, TypeInv
<1> SUFFICES ASSUME NEW p \in Port, ~hw'[<<"MmuTraffic", p>>]
             PROVE  p \in reported' \/ Restart(p) \in Range(call'.steps)
  BY Zenon DEF StoppedInv, Restart, Set
<1> DEFINE r == <<"MmuTraffic", p>>
<1>2. r \in Reg
  BY Registers
<1>3. Restart(p).kind = "set" /\ Restart(p).reg = r /\ Restart(p).val = Yes
  BY DEF Restart, Set, Yes
<1>4. s # Restart(p)
  <2>1. CASE s = Restart(p)
    <3>1. hw'[r] = Yes
      BY <1>3, <2>1, Effect
    <3> QED
      BY <3>1 DEF Yes
  <2> QED
    BY <2>1
<1>5. CASE ~(Programs(s) /\ s.reg = r)
  <2>1. ~hw[r]
    BY <1>2, <1>5, Effect
  <2>2. p \in reported \/ Restart(p) \in Range(call.steps)
    BY <2>1 DEF StoppedInv
  <2>3. p \in reported => p \in reported'
    BY <1>5 DEF Advance
  <2> QED
    BY <1>1, <1>4, <2>2, <2>3
<1>6. CASE Programs(s) /\ s.reg = r
  <2>1. s = Stop(p)
    <3>1. CASE call.op = "enable"
      <4>1. call.port \in Port /\ call.pg \in Pg /\ call.value \in Value
        BY <1>1, <3>1, CallCases
      <4>2. s \in {Stop(call.port), Restart(call.port)} /\ p = call.port
        BY <1>1, <1>6, <3>1, <4>1, EnableDoes, Names
      <4> QED
        BY <1>4, <4>2
    <3>2. CASE call.op = "disable"
      <4>1. call.port \in Port /\ call.pg \in Pg
        BY <1>1, <3>2, CallCases
      <4> QED
        BY <1>1, <1>6, <3>2, <4>1, DisableDoes
    <3>3. CASE call.op = "init"
      <4>1. s \in {Stop(p), Restart(p)}
        BY <1>1, <1>6, <3>3, InitDoes, Names
      <4> QED
        BY <1>4, <4>1
    <3> QED
      BY <1>1, <3>1, <3>2, <3>3
  <2> QED
    BY <1>1, <2>1
<1> QED
  BY <1>5, <1>6

-----------------------------------------------------------------------------
(***************************************************************************)
(* The calls: how they begin and how they end.                             *)
(***************************************************************************)
LEMMA NoCall ==
  /\ None.op = "none" /\ None.steps = <<>> /\ CallOK(None) /\ Goals(None) = {}
  /\ Restarts(<<>>) /\ Quiesces(<<>>)
<1>1. None.op = "none" /\ None.steps = <<>> /\ CallOK(None)
  BY DEF None, CallOK
<1>2. Goals(None) = {}
  BY <1>1 DEF Goals
<1>3. Restarts(<<>>) /\ Quiesces(<<>>)
  BY DEF Restarts, Quiesces
<1> QED
  BY <1>1, <1>2, <1>3

(* A new call: everything it must do is still to come.                     *)
LEMMA NewCall ==
  ASSUME NEW A, call'.steps \in Quieting(A), Goals(call') \subseteq Range(call'.steps)
  PROVE  OnCourse' /\ Quieted'
<1>1. OnCourse'
  BY DEF OnCourse
<1>2. call'.steps \in Seq(A) /\ Restarts(call'.steps) /\ Quiesces(call'.steps)
      /\ StartsPlainly(call'.steps)
  BY DEF Quieting
<1>3. call'.steps # <<>> => ~Delicate(Head(call'.steps))
  <2>1. ASSUME call'.steps # <<>> PROVE 1 \in 1 .. Len(call'.steps) /\ Head(call'.steps) = call'.steps[1]
    BY <1>2, <2>1, HeadTailProperties, LenProperties, EmptySeq
  <2> QED
    BY <1>2, <2>1 DEF StartsPlainly
<1> QED
  BY <1>1, <1>2, <1>3 DEF Quieted, Restarts, Quiesces, Delicate

LEMMA MmuInitCall ==
  ASSUME IInv, MmuInit
  PROVE  /\ CallOK(call') /\ OnCourse' /\ Begun' /\ Quieted' /\ Known'
         /\ last' = [p \in Port |-> [g \in Pg |-> Unknown]]
<1>1. PICK known \in BOOLEAN : call' = [op |-> "init", steps |-> InitScript(known)]
  BY ConstantsAssumption DEF MmuInit
<1> DEFINE t == InitScript(known)
<1>2. t \in Quieting(AllInitSteps) /\ \A p \in Port : InitGoals(p) \subseteq Range(t)
  BY InitScriptFacts
<1> HIDE DEF t
<1>3. call' = [op |-> "init", steps |-> t]
  BY <1>1 DEF t
<1>4. call'.op = "init" /\ call'.steps = t
  BY <1>3
<1>5. CallOK(call')
  BY <1>2, <1>3, <1>4 DEF CallOK, IsInit, Quieting
<1>6. Goals(call') \subseteq Range(t)
  BY <1>2, <1>4 DEF Goals
<1>7. last' = [p \in Port |-> [g \in Pg |-> Unknown]]
  BY DEF MmuInit
<1> QED
  BY <1>2, <1>4, <1>5, <1>6, <1>7, NewCall DEF Begun, Known

LEMMA PgEnableCall ==
  ASSUME IInv, NEW p \in Port, NEW g \in Pg, NEW v \in Value, PgEnable(p, g, v)
  PROVE  /\ CallOK(call') /\ OnCourse' /\ Begun' /\ Quieted' /\ Known'
         /\ last' = [last EXCEPT ![p][g] = Unknown]
<1> DEFINE t == EnableScript(p, g, v)
<1>1. call' = [op |-> "enable", port |-> p, pg |-> g, value |-> v, steps |-> t]
  BY DEF PgEnable
<1>2. /\ t \in Quieting(EnableSteps(p, g, v)) /\ EnableGoals(p, g, v) \subseteq Range(t)
      /\ t # <<>> /\ Head(t) = Set(<<"pause", p>>, FALSE)
  BY EnableScriptFacts
<1> HIDE DEF t
<1>3. /\ call'.op = "enable" /\ call'.steps = t
      /\ call'.port = p /\ call'.pg = g /\ call'.value = v
  BY <1>1
<1>4. CallOK(call')
  BY <1>1, <1>2, <1>3 DEF CallOK, IsEnable, Quieting
<1>5. Goals(call') \subseteq Range(t)
  BY <1>2, <1>3 DEF Goals
<1>6. last' = [last EXCEPT ![p][g] = Unknown]
  BY DEF PgEnable
<1>7. last'[p][g] = Unknown
  BY <1>6 DEF IInv, TypeInv, TypeOK
<1>8. OnCourse' /\ Quieted'
  BY <1>2, <1>3, <1>5, NewCall
<1>9. Begun'
  BY <1>2, <1>3 DEF Begun
<1> QED
  BY <1>3, <1>4, <1>6, <1>7, <1>8, <1>9 DEF Known

LEMMA PgDisableCall ==
  ASSUME IInv, NEW p \in Port, NEW g \in Pg, PgDisable(p, g)
  PROVE  /\ CallOK(call') /\ OnCourse' /\ Begun' /\ Quieted' /\ Known'
         /\ last' = [last EXCEPT ![p][g] = Unknown]
         /\ switched' = switched \cup {p}
<1> DEFINE t == DisableScript(p, g)
<1>1. call' = [op |-> "disable", port |-> p, pg |-> g, steps |-> t]
  BY DEF PgDisable
<1>2. /\ t \in Quieting(DisableSteps(p, g)) /\ DisableGoals(p, g) \subseteq Range(t)
      /\ t # <<>> /\ Head(t) = Set(<<"PFCTransmit", p>>, FALSE)
  BY DisableScriptFacts
<1> HIDE DEF t
<1>3. call'.op = "disable" /\ call'.steps = t /\ call'.port = p /\ call'.pg = g
  BY <1>1
<1>4. CallOK(call')
  BY <1>1, <1>2, <1>3 DEF CallOK, IsDisable, Quieting
<1>5. Goals(call') \subseteq Range(t)
  BY <1>2, <1>3 DEF Goals
<1>6. /\ last' = [last EXCEPT ![p][g] = Unknown]
      /\ switched' = switched \cup {p}
  BY DEF PgDisable
<1>7. last'[p][g] = Unknown
  BY <1>6 DEF IInv, TypeInv, TypeOK
<1>8. p \in switched'
  BY <1>6
<1>9. OnCourse' /\ Quieted'
  BY <1>2, <1>3, <1>5, NewCall
<1>10. Begun'
  BY <1>2, <1>3 DEF Begun
<1> QED
  BY <1>3, <1>4, <1>6, <1>7, <1>8, <1>9, <1>10 DEF Known

(* A call that has ended has nothing left to do.                           *)
LEMMA Ended ==
  ASSUME call' = None
  PROVE  CallOK(call') /\ OnCourse' /\ Begun' /\ Quieted' /\ Known'
<1>1. call'.op = "none" /\ call'.steps = <<>> /\ CallOK(call') /\ Goals(call') = {}
  BY NoCall
<1>2. OnCourse'
  BY <1>1 DEF OnCourse
<1>3. Quieted'
  BY <1>1, NoCall DEF Quieted, Restarts, Quiesces, Delicate
<1> QED
  BY <1>1, <1>2, <1>3 DEF Begun, Known

(* A call that returns success has done all it must.                       *)
LEMMA AllDone ==
  ASSUME TypeInv, OnCourse, ReturnOk
  PROVE  /\ \A a \in Goals(call) : a.kind = "set" /\ hw[a.reg] = a.val
         /\ call' = None /\ UNCHANGED hw /\ ~Idle /\ call.steps = <<>>
<1>1. call' = None /\ UNCHANGED hw /\ ~Idle /\ call.steps = <<>>
  BY DEF ReturnOk
<1>2. Range(call.steps) = {}
  BY <1>1, NoStep
<1> QED
  BY <1>1, <1>2 DEF OnCourse, Done

LEMMA EnableDone ==
  ASSUME TypeInv, OnCourse, ReturnOk, call.op = "enable"
  PROVE  LET p == call.port
             g == call.pg
         IN  /\ p \in Port /\ g \in Pg /\ call.value \in Value
             /\ ~hw[<<"pause", p>>] /\ hw[<<"PFCTransmit", p>>] /\ hw[<<"PAUSE", p>>]
             /\ hw[<<"LOSSLESS", p, g>>] /\ hw[<<"PFC", p, g>>]
             /\ \A type \in Limit : Dynamic[type] # "Fixed" => hw[<<type, p, g>>] = call.value
             /\ AnyConditional(Limit) => hw[<<"MmuTraffic", p>>]
<1> DEFINE p == call.port
           g == call.pg
           v == call.value
<1>1. p \in Port /\ g \in Pg /\ v \in Value
  BY CallCases DEF TypeInv
<1>2. \A a \in EnableGoals(p, g, v) : hw[a.reg] = a.val
  BY AllDone DEF Goals
<1> HIDE DEF p, g, v
<1>3. ASSUME NEW r, NEW x, Set(r, x) \in EnableGoals(p, g, v) PROVE hw[r] = x
  <2>1. Set(r, x).reg = r /\ Set(r, x).val = x
    BY DEF Set
  <2> QED
    BY <1>2, <1>3, <2>1
<1>4. hw[<<"pause", p>>] = FALSE
  BY <1>3 DEF EnableGoals
<1>5. hw[<<"PFCTransmit", p>>] = TRUE
  BY <1>3 DEF EnableGoals
<1>6. hw[<<"PAUSE", p>>] = TRUE
  BY <1>3 DEF EnableGoals
<1>7. hw[<<"LOSSLESS", p, g>>] = TRUE
  BY <1>3 DEF EnableGoals
<1>8. hw[<<"PFC", p, g>>] = TRUE
  BY <1>3 DEF EnableGoals
<1>9. ASSUME NEW type \in Limit, Dynamic[type] # "Fixed" PROVE hw[<<type, p, g>>] = v
  <2>1. Set(<<type, p, g>>, v) \in EnableGoals(p, g, v)
    BY <1>9 DEF EnableGoals
  <2> QED
    BY <1>3, <2>1
<1>10. AnyConditional(Limit) => hw[<<"MmuTraffic", p>>] = TRUE
  BY <1>3 DEF EnableGoals, TrafficOn
<1> QED
  BY <1>1, <1>4, <1>5, <1>6, <1>7, <1>8, <1>9, <1>10, Zenon DEF p, g, v

LEMMA DisableDone ==
  ASSUME TypeInv, OnCourse, ReturnOk, call.op = "disable"
  PROVE  LET p == call.port
             g == call.pg
         IN  /\ p \in Port /\ g \in Pg
             /\ hw[<<"LOSSLESS", p, g>>] = FALSE /\ hw[<<"PFC", p, g>>] = FALSE
<1> DEFINE p == call.port
           g == call.pg
<1>1. p \in Port /\ g \in Pg
  BY CallCases DEF TypeInv
<1>2. \A a \in DisableGoals(p, g) : hw[a.reg] = a.val
  BY AllDone DEF Goals
<1> HIDE DEF p, g
<1>3. ASSUME NEW r, NEW x, Set(r, x) \in DisableGoals(p, g) PROVE hw[r] = x
  <2>1. Set(r, x).reg = r /\ Set(r, x).val = x
    BY DEF Set
  <2> QED
    BY <1>2, <1>3, <2>1
<1>4. hw[<<"LOSSLESS", p, g>>] = FALSE
  <2>1. Set(<<"LOSSLESS", p, g>>, FALSE) \in DisableGoals(p, g)
    BY DEF DisableGoals
  <2> QED
    BY <1>3, <2>1
<1>5. hw[<<"PFC", p, g>>] = FALSE
  <2>1. Set(<<"PFC", p, g>>, FALSE) \in DisableGoals(p, g)
    BY DEF DisableGoals
  <2> QED
    BY <1>3, <2>1
<1> QED
  BY <1>1, <1>4, <1>5 DEF p, g

LEMMA InitDone ==
  ASSUME TypeInv, OnCourse, ReturnOk, call.op = "init", NEW p \in Port
  PROVE  /\ hw[<<"PFCReceive", p>>]
         /\ \A type \in Profile : Dynamic[type] # "Flexible" => hw[<<type, p>>]
         /\ AnyConditional(Profile) => hw[<<"MmuTraffic", p>>]
<1>1. \A a \in InitGoals(p) : a.kind = "set" /\ hw[a.reg] = a.val
  BY AllDone DEF Goals
<1>2. ASSUME NEW r, NEW x, Set(r, x) \in InitGoals(p) PROVE hw[r] = x
  <2>1. Set(r, x).reg = r /\ Set(r, x).val = x
    BY DEF Set
  <2> QED
    BY <1>1, <1>2, <2>1
<1>3. hw[<<"PFCReceive", p>>] = TRUE
  BY <1>2 DEF InitGoals
<1>4. AnyConditional(Profile) => hw[<<"MmuTraffic", p>>] = TRUE
  BY <1>2 DEF InitGoals, TrafficOn
<1>5. ASSUME NEW type \in Profile, Dynamic[type] # "Flexible" PROVE hw[<<type, p>>] = TRUE
  <2>1. Dynamic[type] # "Fixed"
    <3>1. Dynamic[type] = "Fixed" => Error \in InitGoals(p)
      BY DEF InitGoals
    <3> QED
      BY <1>1, <3>1, StepFacts
  <2>2. Dynamic[type] = "Conditional"
    BY <1>5, <2>1, DynamicIs
  <2> QED
    BY <1>2, <2>2 DEF InitGoals
<1> QED
  BY <1>3, <1>4, <1>5, Zenon

-----------------------------------------------------------------------------
(***************************************************************************)
(* The invariant.                                                          *)
(***************************************************************************)
LEMMA InitInv ==
  Init => IInv
<1> SUFFICES ASSUME Init PROVE IInv
  OBVIOUS
<1>1. PICK paused \in SUBSET Port :
        hw = [r \in PortReg \cup FlagReg \cup LimitReg |->
                IF r \in LimitReg THEN 0
                ELSE r[1] = "MmuTraffic" \/ (r[1] = "pause" /\ r[2] \in paused)]
  BY DEF Init
<1>2. /\ call = None /\ switched = {} /\ reported = {} /\ initrc = "none"
      /\ last = [p \in Port |-> [g \in Pg |-> Unknown]]
  BY DEF Init
<1>3. /\ call.op = "none" /\ call.steps = <<>> /\ CallOK(call) /\ Goals(call) = {}
      /\ Restarts(<<>>) /\ Quiesces(<<>>)
  BY <1>2, NoCall
<1>4. ASSUME NEW r \in PortReg \cup FlagReg
      PROVE  /\ hw[r] \in BOOLEAN
             /\ r[1] = "PFCTransmit" => ~hw[r]
  <2>1. r \in Reg /\ r \notin LimitReg
    BY Kinds
  <2>2. hw[r] = (r[1] = "MmuTraffic" \/ (r[1] = "pause" /\ r[2] \in paused))
    BY <1>1, <2>1 DEF Reg
  <2>3. hw[r] \in BOOLEAN
    BY <2>2, Zenon
  <2>4. r[1] = "PFCTransmit" => ~(r[1] = "MmuTraffic" \/ (r[1] = "pause" /\ r[2] \in paused))
    OBVIOUS
  <2> QED
    BY <2>2, <2>3, <2>4, Zenon
<1>5. \A r \in LimitReg : hw[r] \in Value \cup {0}
  BY <1>1
<1>6. hw = [r \in Reg |-> hw[r]]
  BY <1>1 DEF Reg
<1>7. TypeInv
  BY <1>2, <1>3, <1>4, <1>5, <1>6 DEF TypeInv, TypeOK
<1>8. PauseExcludesPfc
  <2> SUFFICES ASSUME NEW p \in Port PROVE ~hw[<<"PFCTransmit", p>>]
    BY DEF PauseExcludesPfc
  <2>1. <<"PFCTransmit", p>> \in PortReg
    BY Registers
  <2> QED
    BY <1>4, <2>1
<1>9. EnabledMeansBackpressure
  BY <1>2, ConstantsAssumption DEF EnabledMeansBackpressure, Unknown
<1>10. InitialisedPortsReceive
  BY <1>2 DEF InitialisedPortsReceive
<1>11. OnCourse /\ Begun /\ Quieted /\ Known
  BY <1>2, <1>3 DEF OnCourse, Begun, Quieted, Known
<1> QED
  BY <1>7, <1>8, <1>9, <1>10, <1>11 DEF IInv

(* An invariant of the registers and the callers' knowledge survives any   *)
(* step that leaves the registers alone and forgets knowledge at most.     *)
LEMMA Forgetting ==
  ASSUME TypeInv, UNCHANGED <<hw, initrc>>,
         EnabledMeansBackpressure, PauseExcludesPfc, InitialisedPortsReceive,
         switched \subseteq switched',
         \A p \in Port, g \in Pg : last'[p][g] # Unknown => last'[p][g] = last[p][g]
  PROVE  EnabledMeansBackpressure' /\ PauseExcludesPfc' /\ InitialisedPortsReceive'
<1>1. PauseExcludesPfc' /\ InitialisedPortsReceive'
  BY DEF PauseExcludesPfc, InitialisedPortsReceive
<1>2. Unknown \notin Value
  BY ConstantsAssumption DEF Unknown
<1>3. EnabledMeansBackpressure'
  <2> SUFFICES ASSUME NEW p \in Port, NEW g \in Pg, last'[p][g] \in Value, p \notin switched'
               PROVE  hw[<<"PFCTransmit", p>>] /\ hw[<<"PAUSE", p>>] /\ ~hw[<<"pause", p>>]
    BY DEF EnabledMeansBackpressure
  <2>1. last[p][g] \in Value /\ p \notin switched
    BY <1>2
  <2> QED
    BY <2>1 DEF EnabledMeansBackpressure
<1> QED
  BY <1>1, <1>3

LEMMA AdvanceInv ==
  ASSUME IInv, NEW s, Advance(s)
  PROVE  IInv'
<1>1. TypeInv' /\ OnCourse' /\ Begun' /\ Quieted' /\ Known'
  BY AdvanceType, AdvanceOnCourse, AdvanceBegun, AdvanceQuieted, AdvanceKnown DEF IInv
<1>2. PauseExcludesPfc' /\ EnabledMeansBackpressure' /\ InitialisedPortsReceive'
  BY AdvancePause, AdvanceBackpressure, AdvanceReceive DEF IInv
<1> QED
  BY <1>1, <1>2 DEF IInv

LEMMA MmuInitInv ==
  ASSUME IInv, MmuInit
  PROVE  IInv'
<1>1. /\ CallOK(call') /\ OnCourse' /\ Begun' /\ Quieted' /\ Known'
      /\ last' = [p \in Port |-> [g \in Pg |-> Unknown]] /\ UNCHANGED <<hw, switched, reported, initrc>>
  BY MmuInitCall DEF MmuInit
<1>2. TypeInv'
  BY <1>1 DEF IInv, TypeInv, TypeOK
<1>3. EnabledMeansBackpressure' /\ PauseExcludesPfc' /\ InitialisedPortsReceive'
  BY <1>1, Forgetting DEF IInv
<1> QED
  BY <1>1, <1>2, <1>3 DEF IInv

LEMMA PgEnableInv ==
  ASSUME IInv, NEW p \in Port, NEW g \in Pg, NEW v \in Value, PgEnable(p, g, v)
  PROVE  IInv'
<1>1. /\ CallOK(call') /\ OnCourse' /\ Begun' /\ Quieted' /\ Known'
      /\ last' = [last EXCEPT ![p][g] = Unknown] /\ UNCHANGED <<hw, switched, reported, initrc>>
  BY PgEnableCall DEF PgEnable
<1>2. TypeInv'
  BY <1>1 DEF IInv, TypeInv, TypeOK
<1>3. \A q \in Port, h \in Pg : last'[q][h] # Unknown => last'[q][h] = last[q][h]
  BY <1>1 DEF IInv, TypeInv, TypeOK
<1>4. EnabledMeansBackpressure' /\ PauseExcludesPfc' /\ InitialisedPortsReceive'
  BY <1>1, <1>3, Forgetting DEF IInv
<1> QED
  BY <1>1, <1>2, <1>4 DEF IInv

LEMMA PgDisableInv ==
  ASSUME IInv, NEW p \in Port, NEW g \in Pg, PgDisable(p, g)
  PROVE  IInv'
<1>1. /\ CallOK(call') /\ OnCourse' /\ Begun' /\ Quieted' /\ Known'
      /\ last' = [last EXCEPT ![p][g] = Unknown]
      /\ switched' = switched \cup {p} /\ UNCHANGED <<hw, reported, initrc>>
  BY PgDisableCall DEF PgDisable
<1>2. TypeInv'
  BY <1>1 DEF IInv, TypeInv, TypeOK
<1>3. \A q \in Port, h \in Pg : last'[q][h] # Unknown => last'[q][h] = last[q][h]
  BY <1>1 DEF IInv, TypeInv, TypeOK
<1>4. switched \subseteq switched'
  BY <1>1
<1>5. EnabledMeansBackpressure' /\ PauseExcludesPfc' /\ InitialisedPortsReceive'
  BY <1>1, <1>3, <1>4, Forgetting DEF IInv
<1> QED
  BY <1>1, <1>2, <1>5 DEF IInv

LEMMA StepErrorInv ==
  ASSUME IInv, StepError
  PROVE  IInv'
<1>1. /\ call' = None /\ UNCHANGED <<hw, last, switched>> /\ initrc' \in {"error", initrc}
  BY DEF StepError
<1>2. CallOK(call') /\ OnCourse' /\ Begun' /\ Quieted' /\ Known'
  BY <1>1, Ended
<1>3. TypeInv'
  <2>1. call.steps # <<>> /\ CallOK(call)
    BY DEF StepError, IInv, TypeInv
  <2>2. call.op # "init" => call.port \in Port
    BY <2>1, CallCases
  <2>3. reported' \subseteq Port
    BY <2>2 DEF StepError, IInv, TypeInv, TypeOK
  <2> QED
    BY <1>1, <1>2, <2>3 DEF IInv, TypeInv, TypeOK
<1>5. PauseExcludesPfc' /\ EnabledMeansBackpressure' /\ InitialisedPortsReceive'
  BY <1>1 DEF IInv, PauseExcludesPfc, EnabledMeansBackpressure, InitialisedPortsReceive
<1> QED
  BY <1>2, <1>3, <1>5 DEF IInv

LEMMA ReturnOkInv ==
  ASSUME IInv, ReturnOk
  PROVE  IInv'
<1>0. /\ TypeInv /\ OnCourse /\ call' = None /\ UNCHANGED <<hw, reported>> /\ ~Idle
      /\ EnabledMeansBackpressure /\ PauseExcludesPfc /\ InitialisedPortsReceive
  BY AllDone DEF IInv, ReturnOk
<1>1. CallOK(call') /\ OnCourse' /\ Begun' /\ Quieted' /\ Known'
  BY <1>0, Ended
<1>2. PauseExcludesPfc'
  BY <1>0 DEF PauseExcludesPfc
<1>3. CASE call.op = "init"
  <2>1. initrc' = "ok" /\ UNCHANGED <<last, switched>>
    BY <1>3 DEF ReturnOk
  <2>2. TypeInv'
    BY <1>0, <1>1, <2>1 DEF TypeInv, TypeOK
  <2>4. EnabledMeansBackpressure'
    BY <1>0, <2>1 DEF EnabledMeansBackpressure
  <2>5. InitialisedPortsReceive'
    <3>1. ASSUME NEW p \in Port
          PROVE  /\ hw[<<"PFCReceive", p>>]
                 /\ \A type \in Profile : Dynamic[type] # "Flexible" => hw[<<type, p>>]
      BY <1>0, <1>3, InitDone
    <3> QED
      BY <1>0, <3>1 DEF InitialisedPortsReceive
  <2> QED
    BY <1>1, <1>2, <2>2, <2>4, <2>5 DEF IInv
<1>4. CASE call.op = "enable"
  <2> DEFINE p == call.port
             g == call.pg
  <2>1. /\ last' = [last EXCEPT ![p][g] = call.value] /\ switched' = switched \ {p}
        /\ UNCHANGED initrc
    BY <1>4 DEF ReturnOk
  <2>2. /\ p \in Port /\ g \in Pg /\ call.value \in Value
        /\ ~hw[<<"pause", p>>] /\ hw[<<"PFCTransmit", p>>] /\ hw[<<"PAUSE", p>>]
    BY <1>0, <1>4, EnableDone
  <2> HIDE DEF p, g
  <2>3. TypeInv'
    BY <1>0, <1>1, <2>1, <2>2 DEF TypeInv, TypeOK
  <2>4. \A q \in Port : q # p => /\ q \in switched' <=> q \in switched
                                 /\ \A h \in Pg : last'[q][h] = last[q][h]
    BY <1>0, <2>1, <2>2 DEF TypeInv, TypeOK
  <2>5. EnabledMeansBackpressure'
    <3> SUFFICES ASSUME NEW q \in Port, NEW h \in Pg, last'[q][h] \in Value, q \notin switched'
                 PROVE  hw[<<"PFCTransmit", q>>] /\ hw[<<"PAUSE", q>>] /\ ~hw[<<"pause", q>>]
      BY <1>0 DEF EnabledMeansBackpressure
    <3>1. CASE q = p
      BY <2>2, <3>1, Zenon
    <3>2. CASE q # p
      <4>1. last[q][h] \in Value /\ q \notin switched
        BY <2>4, <3>2
      <4> QED
        BY <1>0, <4>1 DEF EnabledMeansBackpressure
    <3> QED
      BY <3>1, <3>2
  <2>6. InitialisedPortsReceive'
    BY <1>0, <2>1 DEF InitialisedPortsReceive
  <2> QED
    BY <1>1, <1>2, <2>3, <2>5, <2>6 DEF IInv
<1>5. CASE call.op = "disable"
  <2> DEFINE p == call.port
             g == call.pg
  <2>1. last' = [last EXCEPT ![p][g] = Off] /\ UNCHANGED <<switched, initrc>>
    BY <1>5 DEF ReturnOk
  <2>2. p \in Port /\ g \in Pg
    BY <1>0, <1>5, DisableDone
  <2> HIDE DEF p, g
  <2>3. TypeInv'
    BY <1>0, <1>1, <2>1, <2>2 DEF TypeInv, TypeOK
  <2>4. \A q \in Port, h \in Pg : last'[q][h] \in Value => last[q][h] \in Value
    <3>1. Off \notin Value
      BY ConstantsAssumption DEF Off
    <3> QED
      BY <1>0, <2>1, <2>2, <3>1 DEF TypeInv, TypeOK
  <2>5. EnabledMeansBackpressure'
    BY <1>0, <2>1, <2>4 DEF EnabledMeansBackpressure
  <2>6. InitialisedPortsReceive'
    BY <1>0, <2>1 DEF InitialisedPortsReceive
  <2> QED
    BY <1>1, <1>2, <2>3, <2>5, <2>6 DEF IInv
<1> QED
  BY <1>0, <1>3, <1>4, <1>5, CallCases DEF TypeInv

LEMMA NextInv ==
  IInv /\ [Next]_vars => IInv'
<1> SUFFICES ASSUME IInv, [Next]_vars PROVE IInv'
  OBVIOUS
<1>1. CASE MmuInit
  BY <1>1, MmuInitInv
<1>2. ASSUME NEW p \in Port, NEW g \in Pg, PgDisable(p, g) PROVE IInv'
  BY <1>2, PgDisableInv
<1>3. ASSUME NEW p \in Port, NEW g \in Pg, NEW v \in Value, PgEnable(p, g, v) PROVE IInv'
  BY <1>3, PgEnableInv
<1>4. CASE StepOk \/ StepIgnored
  BY <1>4, StepsAdvance, AdvanceInv
<1>5. CASE StepError
  BY <1>5, StepErrorInv
<1>6. CASE ReturnOk
  BY <1>6, ReturnOkInv
<1>7. CASE UNCHANGED vars
  <2>1. /\ hw' = hw /\ call' = call /\ last' = last
        /\ switched' = switched /\ reported' = reported /\ initrc' = initrc
    BY <1>7 DEF vars
  <2>2. /\ TypeInv /\ OnCourse /\ Begun /\ Quieted /\ Known
        /\ PauseExcludesPfc /\ EnabledMeansBackpressure /\ InitialisedPortsReceive
    BY DEF IInv
  <2>3. TypeInv'
    BY <2>1, <2>2 DEF TypeInv, TypeOK
  <2>4. OnCourse'
    BY <2>1, <2>2 DEF OnCourse, Done
  <2>5. Begun'
    BY <2>1, <2>2 DEF Begun
  <2>6. Quieted'
    BY <2>1, <2>2 DEF Quieted
  <2>7. Known'
    BY <2>1, <2>2 DEF Known
  <2>8. PauseExcludesPfc' /\ EnabledMeansBackpressure' /\ InitialisedPortsReceive'
    BY <2>1, <2>2 DEF PauseExcludesPfc, EnabledMeansBackpressure, InitialisedPortsReceive
  <2> QED
    BY <2>3, <2>4, <2>5, <2>6, <2>7, <2>8 DEF IInv
<1> QED
  BY <1>1, <1>2, <1>3, <1>4, <1>5, <1>6, <1>7 DEF Next

LEMMA Invariant == Spec => []IInv
BY InitInv, NextInv, PTL DEF Spec

-----------------------------------------------------------------------------
(***************************************************************************)
(* The theorems.                                                           *)
(***************************************************************************)
(* Registers, the callers' knowledge and the call in progress are always   *)
(* of their types, whichever SDK calls of the three functions fail.        *)
THEOREM TypeCorrect == Spec => []TypeOK
<1>1. IInv => TypeOK
  BY DEF IInv, TypeInv
<1> QED
  BY <1>1, Invariant, PTL

(* pfc_port_pg_enable turns Ethernet pause off before it turns PFC on, and *)
(* _disable PFC off before pause on: a port never transmits both, between  *)
(* any two SDK calls and after a call that failed half-way.                *)
THEOREM PauseExcludes == Spec => []PauseExcludesPfc
<1>1. IInv => PauseExcludesPfc
  BY DEF IInv
<1> QED
  BY <1>1, Invariant, PTL

(* While the last call on some PG of a port is a successful enable, and no *)
(* other PG of it was being disabled since, the port can push back.        *)
THEOREM Backpressure == Spec => []EnabledMeansBackpressure
<1>1. IInv => EnabledMeansBackpressure
  BY DEF IInv
<1> QED
  BY <1>1, Invariant, PTL

(* An mmu_init that returned BCM_E_NONE has left PFC Rx on, and every      *)
(* checked profile set, on every port, and nothing undoes that.            *)
THEOREM PortsReceive == Spec => []InitialisedPortsReceive
<1>1. IInv => InitialisedPortsReceive
  BY DEF IInv
<1> QED
  BY <1>1, Invariant, PTL

(* A Conditional limit or profile only changes while the MMU traffic of    *)
(* its port is disabled, as the SDK asks.                                  *)
THEOREM ChangesQuiesced == Spec => ConditionalChangesQuiesced
<1> DEFINE Rule == \A r \in LimitReg \cup PortReg :
                     /\ r[1] \in Limit \cup Profile
                     /\ Dynamic[r[1]] = "Conditional" /\ hw'[r] # hw[r]
                     => ~hw[<<"MmuTraffic", r[2]>>]
<1>1. IInv /\ [Next]_vars => [Rule]_vars
  <2> SUFFICES ASSUME IInv, Next,
                      NEW r \in LimitReg \cup PortReg, r[1] \in Limit \cup Profile,
                      Dynamic[r[1]] = "Conditional", hw'[r] # hw[r]
               PROVE  ~hw[<<"MmuTraffic", r[2]>>]
    BY DEF vars
  <2>1. StepOk \/ StepIgnored
    BY DEF Next, MmuInit, PgEnable, PgDisable, StepError, ReturnOk
  <2>2. PICK s : Advance(s)
    BY <2>1, StepsAdvance
  <2>3. r \in Reg
    BY Kinds
  <2>4. Programs(s) /\ s.reg = r /\ call.steps # <<>> /\ s = Head(call.steps)
    BY <2>2, <2>3, Effect DEF IInv, Advance
  <2>5. Delicate(s)
    BY <2>4 DEF Delicate, Programs
  <2> QED
    BY <2>4, <2>5 DEF IInv, Quieted
<1>2. Spec => [][Rule]_vars
  BY <1>1, Invariant, PTL DEF Spec
<1> QED
  BY <1>2 DEF ConditionalChangesQuiesced

LEMMA PromiseForgotten ==
  ASSUME PromiseHolds, UNCHANGED hw,
         \A p \in Port, g \in Pg : last'[p][g] # Unknown => last'[p][g] = last[p][g]
  PROVE  PromiseHolds'
<1> SUFFICES ASSUME NEW p \in Port, NEW g \in Pg, last'[p][g] # Unknown
             PROVE  /\ hw[<<"LOSSLESS", p, g>>] = (last'[p][g] # Off)
                    /\ hw[<<"PFC", p, g>>] = (last'[p][g] # Off)
                    /\ last'[p][g] # Off =>
                         \A type \in Limit : Dynamic[type] # "Fixed" =>
                           hw[<<type, p, g>>] = last'[p][g]
  BY Zenon DEF PromiseHolds
<1>1. last'[p][g] = last[p][g] /\ last[p][g] # Unknown
  OBVIOUS
<1> QED
  BY <1>1, Zenon DEF PromiseHolds

LEMMA PromiseStep ==
  IInv /\ PromiseHolds /\ [Next]_vars => PromiseHolds'
<1> SUFFICES ASSUME IInv, PromiseHolds, [Next]_vars PROVE PromiseHolds'
  OBVIOUS
<1>0. last \in [Port -> [Pg -> Value \cup {Off, Unknown}]]
  BY DEF IInv, TypeInv, TypeOK
<1>1. CASE MmuInit
  BY <1>1, PromiseForgotten DEF MmuInit
<1>2. ASSUME NEW p \in Port, NEW g \in Pg, last' = [last EXCEPT ![p][g] = Unknown], UNCHANGED hw
      PROVE  PromiseHolds'
  <2>1. \A q \in Port, h \in Pg : last'[q][h] # Unknown => last'[q][h] = last[q][h]
    BY <1>0, <1>2
  <2> QED
    BY <1>2, <2>1, PromiseForgotten
<1>3. ASSUME NEW p \in Port, NEW g \in Pg, PgDisable(p, g) PROVE PromiseHolds'
  BY <1>2, <1>3 DEF PgDisable
<1>4. ASSUME NEW p \in Port, NEW g \in Pg, NEW v \in Value, PgEnable(p, g, v) PROVE PromiseHolds'
  BY <1>2, <1>4 DEF PgEnable
<1>5. CASE StepOk \/ StepIgnored
  BY <1>5, StepsAdvance, AdvancePromise DEF IInv
<1>6. CASE StepError
  BY <1>6, PromiseForgotten DEF StepError
<1>7. CASE ReturnOk
  <2>0. TypeInv /\ OnCourse /\ UNCHANGED hw /\ call.op \in {"init", "enable", "disable"}
    BY <1>7, AllDone, CallCases DEF IInv, TypeInv
  <2>1. CASE call.op = "init"
    BY <1>7, <2>0, <2>1, PromiseForgotten DEF ReturnOk
  <2>2. CASE call.op \in {"enable", "disable"}
    <3> DEFINE p == call.port
               g == call.pg
               x == IF call.op = "enable" THEN call.value ELSE Off
    <3>1. p \in Port /\ g \in Pg /\ last' = [last EXCEPT ![p][g] = x]
      BY <1>7, <2>0, <2>2, EnableDone, DisableDone DEF ReturnOk
    <3>2. /\ hw[<<"LOSSLESS", p, g>>] = (x # Off)
          /\ hw[<<"PFC", p, g>>] = (x # Off)
          /\ x # Off =>
               \A type \in Limit : Dynamic[type] # "Fixed" => hw[<<type, p, g>>] = x
      <4>1. CASE call.op = "enable"
        <5>1. /\ x = call.value /\ x \in Value
              /\ hw[<<"LOSSLESS", p, g>>] /\ hw[<<"PFC", p, g>>]
              /\ \A type \in Limit : Dynamic[type] # "Fixed" => hw[<<type, p, g>>] = x
          BY <1>7, <2>0, <4>1, EnableDone
        <5>2. x # Off
          BY <5>1, ConstantsAssumption DEF Off
        <5>3. hw[<<"LOSSLESS", p, g>>] \in BOOLEAN /\ hw[<<"PFC", p, g>>] \in BOOLEAN
          <6>1. <<"LOSSLESS", p, g>> \in FlagReg /\ <<"PFC", p, g>> \in FlagReg
            BY <3>1 DEF FlagReg
          <6> QED
            BY <2>0, <6>1 DEF TypeInv, TypeOK
        <5> HIDE DEF p, g, x
        <5> QED
          BY <5>1, <5>2, <5>3, Zenon
      <4>2. CASE call.op = "disable"
        <5>1. x = Off /\ hw[<<"LOSSLESS", p, g>>] = FALSE /\ hw[<<"PFC", p, g>>] = FALSE
          BY <1>7, <2>0, <4>2, DisableDone
        <5> HIDE DEF p, g, x
        <5> QED
          BY <5>1, Zenon
      <4> QED
        BY <2>2, <4>1, <4>2
    <3> HIDE DEF p, g, x
    <3>3. \A q \in Port, h \in Pg : last'[q][h] = IF q = p /\ h = g THEN x ELSE last[q][h]
      BY <1>0, <3>1
    <3> SUFFICES ASSUME NEW q \in Port, NEW h \in Pg, last'[q][h] # Unknown
                 PROVE  /\ hw[<<"LOSSLESS", q, h>>] = (last'[q][h] # Off)
                        /\ hw[<<"PFC", q, h>>] = (last'[q][h] # Off)
                        /\ last'[q][h] # Off =>
                             \A type \in Limit : Dynamic[type] # "Fixed" =>
                               hw[<<type, q, h>>] = last'[q][h]
      BY <2>0, Zenon DEF PromiseHolds
    <3>4. CASE q = p /\ h = g
      <4>1. last'[q][h] = x
        BY <3>3, <3>4
      <4> QED
        BY <3>2, <3>4, <4>1, Zenon
    <3>5. CASE ~(q = p /\ h = g)
      <4>1. last'[q][h] = last[q][h] /\ last[q][h] # Unknown
        BY <3>3, <3>5
      <4> QED
        BY <4>1, Zenon DEF PromiseHolds
    <3> QED
      BY <3>4, <3>5
  <2> QED
    BY <2>0, <2>1, <2>2
<1>8. CASE UNCHANGED vars
  BY <1>8, PromiseForgotten DEF vars
<1> QED
  BY <1>1, <1>3, <1>4, <1>5, <1>6, <1>7, <1>8 DEF Next

(* What a PG's last successful call promised is in the chip, whatever      *)
(* calls on other PGs and ports did or failed to do since: its flags       *)
(* always, its limits where the SDK does not call them Fixed.              *)
THEOREM LastPromise == Spec => []PromiseHolds
<1>1. Init => PromiseHolds
  BY DEF Init, PromiseHolds
<1>2. Spec => []PromiseHolds
  BY <1>1, PromiseStep, Invariant, PTL DEF Spec
<1> QED
  BY <1>2

(* And its limits too when no limit is Fixed, where                        *)
(* bcmsdk_mmu_port_pg_control_set drops BCM_E_INTERNAL.                    *)
THEOREM LastCallKept ==
  ASSUME NoFixedLimit
  PROVE  Spec => []LastCallHolds
<1>1. PromiseHolds => LastCallHolds
  BY Zenon DEF PromiseHolds, LastCallHolds, NoFixedLimit
<1> QED
  BY <1>1, LastPromise, PTL

(* A step that ends no stop keeps what is known of stopped traffic.        *)
LEMMA StoppedKept ==
  ASSUME StoppedInv, call.steps = <<>>, UNCHANGED hw, reported \subseteq reported'
  PROVE  StoppedInv'
<1>1. Range(call.steps) = {}
  BY NoStep
<1>2. \A p \in Port : ~hw[<<"MmuTraffic", p>>] => p \in reported
  BY <1>1, Zenon DEF StoppedInv
<1> SUFFICES ASSUME NEW p \in Port, ~hw[<<"MmuTraffic", p>>]
             PROVE  p \in reported'
  BY Zenon DEF StoppedInv, Restart, Set
<1> QED
  BY <1>2

LEMMA StoppedStep ==
  IInv /\ StoppedInv /\ [Next]_vars => StoppedInv'
<1> SUFFICES ASSUME IInv, StoppedInv, [Next]_vars PROVE StoppedInv'
  OBVIOUS
<1>0. TypeInv /\ OnCourse /\ CallOK(call) /\ (Idle => call.steps = <<>>)
  BY CallCases DEF IInv, TypeInv, TypeOK
<1>1. CASE MmuInit
  BY <1>0, <1>1, StoppedKept DEF MmuInit
<1>2. ASSUME NEW p \in Port, NEW g \in Pg, PgDisable(p, g) PROVE StoppedInv'
  BY <1>0, <1>2, StoppedKept DEF PgDisable
<1>3. ASSUME NEW p \in Port, NEW g \in Pg, NEW v \in Value, PgEnable(p, g, v) PROVE StoppedInv'
  BY <1>0, <1>3, StoppedKept DEF PgEnable
<1>4. CASE StepOk \/ StepIgnored
  BY <1>0, <1>4, StepsAdvance, AdvanceStopped DEF IInv
<1>5. CASE StepError
  <2>1. /\ UNCHANGED hw /\ call.steps # <<>>
        /\ reported' = reported \cup (IF call.op = "init" THEN Port ELSE {call.port})
    BY <1>5 DEF StepError
  <2> SUFFICES ASSUME NEW p \in Port, ~hw[<<"MmuTraffic", p>>]
               PROVE  p \in reported'
    BY <2>1, Zenon DEF StoppedInv, Restart, Set
  <2>2. p \in reported \/ Restart(p) \in Range(call.steps)
    BY DEF StoppedInv
  <2>3. ASSUME Restart(p) \in Range(call.steps) PROVE call.op = "init" \/ call.port = p
    <3>0. call.op \in {"init", "enable", "disable"}
      BY <1>0, <2>1, CallCases
    <3>1. Programs(Restart(p)) /\ Restart(p).reg = <<"MmuTraffic", p>>
      BY DEF Restart, Set, Programs
    <3>2. CASE call.op = "enable"
      <4>1. /\ call.port \in Port /\ call.pg \in Pg /\ call.value \in Value
            /\ call.steps \in Seq(EnableSteps(call.port, call.pg, call.value))
        BY <1>0, <3>2, CallCases DEF IsEnable
      <4>2. Restart(p) \in EnableSteps(call.port, call.pg, call.value)
        BY <2>3, <4>1, RangeOfSeq
      <4> QED
        BY <3>1, <4>1, <4>2, EnableDoes, Names
    <3>3. CASE call.op = "disable"
      <4>1. /\ call.port \in Port /\ call.pg \in Pg
            /\ call.steps \in Seq(DisableSteps(call.port, call.pg))
        BY <1>0, <3>3, CallCases DEF IsDisable
      <4>2. Restart(p) \in DisableSteps(call.port, call.pg)
        BY <2>3, <4>1, RangeOfSeq
      <4> QED
        BY <3>1, <4>1, <4>2, DisableDoes
    <3> QED
      BY <3>0, <3>2, <3>3
  <2> QED
    BY <2>1, <2>2, <2>3
<1>6. CASE ReturnOk
  BY <1>6, StoppedKept DEF ReturnOk
<1>7. CASE UNCHANGED vars
  BY <1>7, Zenon DEF vars, StoppedInv, Restart, Set
<1> QED
  BY <1>1, <1>2, <1>3, <1>4, <1>5, <1>6, <1>7 DEF Next

(* No call leaves a port's MMU traffic stopped and reports success,        *)
(* whichever attributes the SDK calls Conditional and whichever call fails:*)
(* where traffic stands disabled between calls, an error was returned after*)
(* it was last programmed.                                                 *)
THEOREM StuckReported == Spec => []StuckTrafficWasReported
<1>1. Init => StoppedInv
  <2> SUFFICES ASSUME Init, NEW p \in Port PROVE hw[<<"MmuTraffic", p>>]
    BY DEF StoppedInv
  <2> DEFINE r == <<"MmuTraffic", p>>
  <2>1. r \in PortReg /\ r \in Reg /\ r \notin LimitReg /\ r[1] = "MmuTraffic"
    BY Registers, Kinds, Names
  <2> HIDE DEF r
  <2> QED
    BY <2>1 DEF Init, Reg, r
<1>2. Spec => []StoppedInv
  BY <1>1, StoppedStep, Invariant, PTL DEF Spec
<1>3. IInv /\ StoppedInv => StuckTrafficWasReported
  <2> SUFFICES ASSUME IInv, StoppedInv, NEW p \in Port, Idle, ~hw[<<"MmuTraffic", p>>]
               PROVE  p \in reported
    BY DEF StuckTrafficWasReported
  <2>1. Range(call.steps) = {}
    BY CallCases, NoStep DEF IInv, TypeInv
  <2> QED
    BY <2>1 DEF StoppedInv
<1> QED
  BY <1>2, <1>3, Invariant, PTL
=============================================================================
