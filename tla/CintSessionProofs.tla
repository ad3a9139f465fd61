------------------------- MODULE CintSessionProofs -------------------------
(***************************************************************************)
(* Proofs about CintSession, for scripts of any number, length and content.*)
(***************************************************************************)
EXTENDS CintFlow, TLAPS

(* Types need two facts more: while a command runs, the stages it opens are*)
(* open, and none of those it closes counts as done any more.              *)
InProgress ==
  Running => Command.opens \subseteq open /\ done \cap Command.closes = {}
TypeInv == TypeOK /\ InProgress

(* What the assumption says of one command, and of one of its steps.       *)
LEMMA CommandFacts ==
  ASSUME NEW p \in Name, NEW c \in DOMAIN Commands(p)
  PROVE  /\ c # ""
         /\ Commands(p)[c].opens \cap Commands(p)[c].closes = {}
         /\ Len(Commands(p)[c].script) \in Nat
         /\ DOMAIN Commands(p)[c].script = 1 .. Len(Commands(p)[c].script)
BY ProgramAssumption

LEMMA StepFacts ==
  ASSUME NEW p \in Name, NEW c \in DOMAIN Commands(p),
         NEW i \in DOMAIN Commands(p)[c].script
  PROVE  /\ Commands(p)[c].script[i].kind \in {"call", "try", "test", "let"}
         /\ Commands(p)[c].script[i].says \in BOOLEAN
         /\ Commands(p)[c].script[i].skip \in -1 .. Len(Commands(p)[c].script) - i
BY ProgramAssumption

LEMMA BoundsAreNaturals ==
  ASSUME NEW p \in Name PROVE MaxCommands[p] \in Nat /\ MaxFaults[p] \in Nat
BY ProgramAssumption

(* Arithmetic, kept apart from records for the provers' sake.              *)
LEMMA OneMore == \A n \in Nat : \A k \in 0 .. n : k < n => k + 1 \in 0 .. n
OBVIOUS
LEMMA FirstStep == \A n \in Nat : 1 \in 1 .. n + 1 /\ 0 \in 0 .. n
OBVIOUS

LEMMA IdleIsARun == Idle \in RunType /\ Idle.cmd = "" /\ Idle.at = 0
BY DEF Idle, RunType

LEMMA IdleHasNoCommand == ASSUME NEW p \in Name PROVE "" \notin DOMAIN Commands(p)
BY ProgramAssumption

(* The step in progress is a step of its script.                           *)
LEMMA NowFacts ==
  ASSUME TypeOK, InStep
  PROVE  /\ run.cmd \in DOMAIN Commands(prog) /\ run.at \in 1 .. Len(Command.script)
         /\ Len(Command.script) \in Nat
         /\ Now.kind \in {"call", "try", "test", "let"}
         /\ Now.says \in BOOLEAN
         /\ Now.skip \in -1 .. Len(Command.script) - run.at
<1>1. prog \in Name /\ run.cmd \in DOMAIN Commands(prog)
      /\ run.at \in 1 .. Len(Command.script) + 1 /\ run.at <= Len(Command.script)
  BY DEF TypeOK, InStep
<1>2. Len(Command.script) \in Nat /\ DOMAIN Command.script = 1 .. Len(Command.script)
  BY <1>1, CommandFacts DEF Command
<1>3. run.at \in DOMAIN Command.script
  BY <1>1, <1>2
<1> QED
  BY <1>1, <1>2, <1>3, StepFacts DEF Command, Now

-----------------------------------------------------------------------------
(* Types.                                                                  *)
LEMMA TypeInvInit == Init => TypeInv
<1> SUFFICES ASSUME Init PROVE TypeInv
  OBVIOUS
<1>1. prog \in Name /\ run = Idle /\ last = Idle /\ typed = 0 /\ faults = 0
  BY DEF Init
<1>2. typed \in 0 .. MaxCommands[prog] /\ faults \in 0 .. MaxFaults[prog]
  BY <1>1, BoundsAreNaturals, FirstStep
<1>3. ~Running /\ run \in RunType /\ last \in RunType
  BY <1>1, IdleIsARun DEF Running
<1>4. hurt \cup done \subseteq open /\ {lost, alarm} \subseteq BOOLEAN
  BY DEF Init
<1> QED
  BY <1>1, <1>2, <1>3, <1>4 DEF TypeInv, TypeOK, InProgress

(* A step within the command in progress that leaves the stages alone keeps*)
(* the types if it stays in the script.                                    *)
LEMMA TypeInvWithin ==
  ASSUME TypeInv, InStep,
         UNCHANGED <<prog, open, last, typed, done>>,
         run' \in RunType, run'.cmd = run.cmd,
         run'.at \in 1 .. Len(Command.script) + 1,
         faults' \in 0 .. MaxFaults[prog],
         hurt' \subseteq hurt \cup Command.opens,
         {lost', alarm'} \subseteq BOOLEAN
  PROVE  TypeInv'
<1>1. run.cmd \in DOMAIN Commands(prog) /\ Running
  BY NowFacts DEF TypeInv, InStep
<1>2. Command' = Command
  BY DEF Command, Commands
<1>3. Command.opens \subseteq open /\ done \cap Command.closes = {}
  BY <1>1 DEF TypeInv, InProgress
<1>4. TypeOK'
  <2>1. prog' \in Name /\ last' \in RunType /\ typed' \in 0 .. MaxCommands[prog]'
        /\ faults' \in 0 .. MaxFaults[prog]'
    BY DEF TypeInv, TypeOK
  <2>2. run'.cmd \in DOMAIN Commands(prog)' /\ run'.at \in 1 .. Len(Command.script)' + 1
    BY <1>1, <1>2 DEF Commands
  <2>3. (hurt \cup done)' \subseteq open'
    BY <1>3 DEF TypeInv, TypeOK
  <2> QED
    BY <2>1, <2>2, <2>3 DEF TypeOK
<1>5. InProgress'
  BY <1>2, <1>3 DEF InProgress
<1> QED
  BY <1>4, <1>5 DEF TypeInv

LEMMA TypeInvBegin == ASSUME TypeInv, NEW c \in DOMAIN Commands(prog), Begin(c) PROVE TypeInv'
<1> DEFINE cmd == Commands(prog)[c]
<1>1. /\ prog \in Name /\ prog' = prog /\ c # ""
      /\ Len(cmd.script) \in Nat /\ cmd.opens \cap cmd.closes = {}
  BY CommandFacts DEF TypeInv, TypeOK, Begin
<1>2. /\ run' = [cmd |-> c, at |-> 1, failed |-> FALSE, said |-> FALSE, raised |-> FALSE,
                 well |-> Unhurt]
      /\ last' = Idle
  BY DEF Begin, Idle
<1>3. Command' = cmd
  BY <1>1, <1>2 DEF Command, Commands
<1>4. Unhurt \in BOOLEAN
  BY DEF Unhurt
<1>5. run' \in RunType /\ last' \in RunType
  BY <1>1, <1>2, <1>4, IdleIsARun DEF RunType
<1>6. typed' \in 0 .. MaxCommands[prog]
  <2>1. /\ typed \in 0 .. MaxCommands[prog] /\ typed < MaxCommands[prog]
        /\ typed' = typed + 1
    BY DEF TypeInv, TypeOK, Begin
  <2>2. MaxCommands[prog] \in Nat
    BY <1>1, BoundsAreNaturals
  <2> QED
    BY <2>1, <2>2, OneMore
<1>7. open' = open \cup cmd.opens /\ done' = done \ cmd.closes /\ hurt' = hurt
  BY DEF Begin
<1>8. TypeOK'
  <2>1. (hurt \cup done)' \subseteq open'
    BY <1>7 DEF TypeInv, TypeOK
  <2>2. run'.cmd \in DOMAIN Commands(prog)' /\ run'.at \in 1 .. Len(Command.script)' + 1
    <3>1. Commands(prog)' = Commands(prog) /\ run'.cmd = c /\ run'.at = 1
      BY <1>1, <1>2 DEF Commands
    <3>2. 1 \in 1 .. Len(cmd.script) + 1
      BY <1>1, FirstStep
    <3> HIDE DEF cmd
    <3> QED
      BY <1>3, <3>1, <3>2
  <2>3. faults' \in 0 .. MaxFaults[prog]' /\ {lost', alarm'} \subseteq BOOLEAN
    BY DEF TypeInv, TypeOK, Begin
  <2> QED
    BY <1>1, <1>5, <1>6, <2>1, <2>2, <2>3 DEF TypeOK
<1>9. InProgress'
  BY <1>3, <1>7 DEF InProgress
<1> QED
  BY <1>8, <1>9 DEF TypeInv

LEMMA TypeInvPerform == ASSUME TypeInv, Perform PROVE TypeInv'
<1>1. InStep /\ TypeOK /\ run \in RunType
  BY DEF Perform, TypeInv, TypeOK
<1>2. run.at + 1 \in 1 .. Len(Command.script) + 1 /\ run.at + 1 \in Nat
  BY <1>1, NowFacts
<1>3. run' = [run EXCEPT !.at = @ + 1]
  BY DEF Perform
<1>4. run' \in RunType /\ run'.cmd = run.cmd /\ run'.at = run.at + 1
  BY <1>1, <1>2, <1>3 DEF RunType
<1> QED
  BY <1>1, <1>2, <1>4, TypeInvWithin DEF Perform, TypeInv, TypeOK

LEMMA TypeInvBranch == ASSUME TypeInv, Branch PROVE TypeInv'
<1>1. InStep /\ TypeOK /\ run \in RunType
  BY DEF Branch, TypeInv, TypeOK
<1>2. run.at + 1 + Now.skip \in 1 .. Len(Command.script) + 1 /\ run.at + 1 + Now.skip \in Nat
  BY <1>1, NowFacts
<1>3. run' = [run EXCEPT !.at = @ + 1 + Now.skip]
  BY DEF Branch
<1>4. run' \in RunType /\ run'.cmd = run.cmd /\ run'.at = run.at + 1 + Now.skip
  BY <1>1, <1>2, <1>3 DEF RunType
<1> QED
  BY <1>1, <1>2, <1>4, TypeInvWithin DEF Branch, TypeInv, TypeOK

LEMMA TypeInvBranchIntoBlock == ASSUME TypeInv, BranchIntoBlock PROVE TypeInv'
<1>1. InStep /\ TypeOK /\ run \in RunType
  BY DEF BranchIntoBlock, TypeInv, TypeOK
<1>2. run.at + 1 \in 1 .. Len(Command.script) + 1 /\ run.at + 1 \in Nat
  BY <1>1, NowFacts
<1>3. run' = [run EXCEPT !.at = @ + 1]
  BY DEF BranchIntoBlock
<1>4. run' \in RunType /\ run'.cmd = run.cmd /\ run'.at = run.at + 1
  BY <1>1, <1>2, <1>3 DEF RunType
<1> QED
  BY <1>1, <1>2, <1>4, TypeInvWithin DEF BranchIntoBlock, TypeInv, TypeOK

(* Where a failed call leaves the command.                                 *)
LEMMA FailedFacts ==
  ASSUME TypeOK, InStep, NEW well \in BOOLEAN, Failed(well)
  PROVE  /\ run' \in RunType /\ run'.cmd = run.cmd
         /\ run'.at = IF Now.skip = -1 THEN Len(Command.script) + 1 ELSE run.at + 1 + Now.skip
         /\ run'.at \in 1 .. Len(Command.script) + 1
         /\ run'.said = (run.said \/ Now.says)
         /\ run'.raised = (run.raised \/ Now.skip = -1)
         /\ alarm' \in BOOLEAN
         /\ UNCHANGED <<prog, chip, open, last, typed, done>>
<1> DEFINE at == IF Now.skip = -1 THEN Len(Command.script) + 1 ELSE run.at + 1 + Now.skip
<1>1. run \in RunType
  BY DEF TypeOK
<1>2. at \in 1 .. Len(Command.script) + 1 /\ at \in Nat
  BY NowFacts
<1>3. /\ (run.well /\ well) \in BOOLEAN /\ (run.failed \/ Now.kind = "call") \in BOOLEAN
      /\ (run.said \/ Now.says) \in BOOLEAN /\ (run.raised \/ Now.skip = -1) \in BOOLEAN
      /\ (alarm \/ Now.says \/ Now.skip = -1) \in BOOLEAN
  OBVIOUS
<1>4. run' = [run EXCEPT !.well = run.well /\ well, !.at = at,
                !.failed = run.failed \/ Now.kind = "call",
                !.said = run.said \/ Now.says, !.raised = run.raised \/ Now.skip = -1]
  BY <1>1 DEF Failed, RunType
<1> HIDE DEF at
<1>5. /\ run' \in RunType /\ run'.cmd = run.cmd /\ run'.at = at
      /\ run'.said = (run.said \/ Now.says) /\ run'.raised = (run.raised \/ Now.skip = -1)
  BY <1>1, <1>2, <1>3, <1>4 DEF RunType
<1> QED
  BY <1>2, <1>3, <1>5 DEF Failed, at

LEMMA TypeInvRefuse == ASSUME TypeInv, Refuse PROVE TypeInv'
<1>1. InStep /\ TypeOK /\ Failed(TRUE) /\ UNCHANGED <<faults, hurt, lost>>
  BY DEF Refuse, TypeInv
<1>2. faults' \in 0 .. MaxFaults[prog] /\ lost' \in BOOLEAN
  BY <1>1 DEF TypeOK
<1> QED
  BY <1>1, <1>2, FailedFacts, TypeInvWithin

LEMMA TypeInvFault == ASSUME TypeInv, Fault PROVE TypeInv'
<1>1. /\ InStep /\ TypeOK /\ Failed(FALSE) /\ hurt' = hurt \cup Command.opens
      /\ lost' \in BOOLEAN
  BY DEF Fault, TypeInv
<1>2. faults' \in 0 .. MaxFaults[prog]
  <2>1. /\ prog \in Name /\ faults \in 0 .. MaxFaults[prog] /\ faults < MaxFaults[prog]
        /\ faults' = faults + 1
    BY DEF Fault, TypeInv, TypeOK
  <2> QED
    BY <2>1, BoundsAreNaturals
<1> QED
  BY <1>1, <1>2, FailedFacts, TypeInvWithin

LEMMA TypeInvReturn == ASSUME TypeInv, Return PROVE TypeInv'
<1>1. Running /\ run' = Idle /\ last' = run
  BY DEF Return, Ended
<1>2. /\ run.cmd \in DOMAIN Commands(prog) /\ prog \in Name
      /\ Command.opens \subseteq open /\ done \cap Command.closes = {}
      /\ hurt \cup done \subseteq open
  BY <1>1 DEF TypeInv, TypeOK, InProgress
<1>3. Command.opens \cap Command.closes = {}
  BY <1>2, CommandFacts DEF Command
<1>4. (hurt \cup done)' \subseteq open'
  BY <1>2, <1>3 DEF Return
<1>5. ~Running'
  BY <1>1 DEF Running, Idle
<1>6. TypeOK'
  BY <1>1, <1>4, <1>5, IdleIsARun DEF TypeInv, TypeOK, Return
<1> QED
  BY <1>5, <1>6 DEF TypeInv, InProgress

LEMMA TypeInvStep == TypeInv /\ [Next]_vars => TypeInv'
<1> SUFFICES ASSUME TypeInv, [Next]_vars PROVE TypeInv'
  OBVIOUS
<1>1. CASE UNCHANGED vars
  BY <1>1 DEF vars, TypeInv, TypeOK, InProgress, Running, Command, Commands
<1>2. CASE Next
  BY <1>2, TypeInvBegin, TypeInvPerform, TypeInvBranch, TypeInvBranchIntoBlock,
     TypeInvRefuse, TypeInvFault, TypeInvReturn DEF Next
<1> QED
  BY <1>1, <1>2

(* A session never leaves its types: whatever the scripts are, a command   *)
(* stays inside its script, error handling that leaves a function included,*)
(* and the stages that count as set up or as hurt are open ones.           *)
THEOREM TypeCorrect == Spec => []TypeOK
<1>1. TypeInv => TypeOK
  BY DEF TypeInv
<1> QED
  BY <1>1, TypeInvInit, TypeInvStep, PTL DEF Spec

-----------------------------------------------------------------------------
(* Assured tests.  Whoever reaches one finds what it looks for.            *)
Ready == InStep /\ Assured(Command.script, run.at) => Now.need \cup Now.known \subseteq chip
ReadyInv == TypeInv /\ Ready

(* The next step is a step of a sequence of steps.                         *)
LEMMA StepNumbers ==
  ASSUME TypeInv, InStep, NEW i \in DOMAIN Command.script
  PROVE  /\ i \in Nat /\ i >= 1 /\ i <= Len(Command.script)
         /\ run.at \in Nat /\ run.at >= 1 /\ run.at <= Len(Command.script)
         /\ Now.skip \in Int /\ Now.skip >= -1
         /\ Len(Command.script) \in Nat
<1>1. /\ run.at \in 1 .. Len(Command.script) /\ Len(Command.script) \in Nat
      /\ Now.skip \in -1 .. Len(Command.script) - run.at
  BY NowFacts DEF TypeInv
<1>2. DOMAIN Command.script = 1 .. Len(Command.script)
  BY NowFacts, CommandFacts DEF TypeInv, TypeOK, Command
<1> QED
  BY <1>1, <1>2

(* A jump never ends at an assured test, and no way leads to it but past   *)
(* the assignment before it.                                               *)
LEMMA AssuredFacts ==
  ASSUME NEW script, NEW j, Assured(script, j)
  PROVE  /\ j > 1 /\ script[j].kind = "test" /\ script[j].absent = {}
         /\ script[j - 1].kind = "let"
         /\ script[j].need \cup script[j].known \subseteq script[j - 1].make
         /\ \A k \in 1 .. j - 2 : k + 1 + script[k].skip # j
BY DEF Assured

(* A step that moves on without an assignment, or that jumps, leads to no  *)
(* assured test.                                                           *)
LEMMA ReadyWithin ==
  ASSUME ReadyInv, InStep, TypeInv', prog' = prog, run'.cmd = run.cmd,
         \/ run'.at = run.at /\ chip' = chip
         \/ run'.at = run.at + 1 + Now.skip /\ Now.skip # -1 /\ Now.kind # "let"
         \/ run'.at = run.at + 1 /\ (Now.kind = "let" => Now.make \subseteq chip')
         \/ run'.at = Len(Command.script) + 1
  PROVE  ReadyInv'
<1> DEFINE s == Command.script
<1>1. Command' = Command
  BY DEF Command, Commands
<1>2. SUFFICES ASSUME InStep', Assured(s, run'.at) PROVE (Now.need \cup Now.known)' \subseteq chip'
  BY <1>1 DEF ReadyInv, Ready
<1>3. /\ run'.at \in Nat /\ run'.at <= Len(s) /\ run'.at > 1
      /\ s[run'.at].kind = "test" /\ s[run'.at - 1].kind = "let"
      /\ Now' = s[run'.at]
      /\ s[run'.at].need \cup s[run'.at].known \subseteq s[run'.at - 1].make
      /\ \A k \in 1 .. run'.at - 2 : k + 1 + s[k].skip # run'.at
  <2>1. run'.at \in Nat
    BY DEF TypeInv, TypeOK, RunType
  <2>2. run'.at <= Len(s) /\ Now' = s[run'.at]
    BY <1>1, <1>2 DEF InStep, Now
  <2> HIDE DEF s
  <2> QED
    BY <1>2, <2>1, <2>2, AssuredFacts
<1>4. /\ run.at \in Nat /\ run.at >= 1 /\ run.at <= Len(s) /\ Len(s) \in Nat
      /\ Now.skip \in Int /\ Now.skip >= -1 /\ Now = s[run.at]
  BY NowFacts DEF ReadyInv, TypeInv, Now
<1> HIDE DEF s
<1>5. CASE run'.at = run.at /\ chip' = chip
  <2>1. Assured(s, run.at)
    BY <1>2, <1>5
  <2>2. Now.need \cup Now.known \subseteq chip
    BY <2>1 DEF ReadyInv, Ready, s
  <2> QED
    BY <1>3, <1>4, <1>5, <2>2
<1>6. CASE run'.at = run.at + 1 + Now.skip /\ Now.skip # -1 /\ Now.kind # "let"
  <2>1. run.at = run'.at - 1 \/ run.at \in 1 .. run'.at - 2
    BY <1>3, <1>4, <1>6
  <2>2. run.at # run'.at - 1
    BY <1>3, <1>4, <1>6
  <2> QED
    BY <1>3, <1>4, <1>6, <2>1, <2>2
<1>7. CASE run'.at = run.at + 1 /\ (Now.kind = "let" => Now.make \subseteq chip')
  <2>1. run'.at - 1 = run.at
    BY <1>4, <1>7
  <2>2. Now.kind = "let" /\ s[run'.at].need \cup s[run'.at].known \subseteq Now.make
    BY <1>3, <1>4, <2>1
  <2> QED
    BY <1>3, <1>7, <2>2
<1>8. CASE run'.at = Len(s) + 1
  BY <1>3, <1>4, <1>8
<1> QED
  BY <1>5, <1>6, <1>7, <1>8 DEF s

LEMMA ReadyFailed ==
  ASSUME ReadyInv, TypeInv', InStep, NEW well \in BOOLEAN, Failed(well),
         Now.kind \in {"call", "try"}
  PROVE  ReadyInv'
<1>1. /\ run'.cmd = run.cmd /\ prog' = prog
      /\ run'.at = IF Now.skip = -1 THEN Len(Command.script) + 1 ELSE run.at + 1 + Now.skip
  BY FailedFacts DEF ReadyInv, TypeInv
<1>2. CASE Now.skip = -1
  BY <1>1, <1>2, ReadyWithin
<1>3. CASE Now.skip # -1
  BY <1>1, <1>3, ReadyWithin
<1> QED
  BY <1>2, <1>3

LEMMA ReadyInit == Init => ReadyInv
BY TypeInvInit DEF Init, ReadyInv, Ready, InStep, Running

LEMMA ReadyStep == ReadyInv /\ [Next]_vars => ReadyInv'
<1> SUFFICES ASSUME ReadyInv, [Next]_vars PROVE ReadyInv'
  OBVIOUS
<1>1. TypeInv' /\ TypeInv /\ run \in RunType
  BY TypeInvStep DEF ReadyInv, TypeInv, TypeOK
<1>2. CASE UNCHANGED vars
  BY <1>1, <1>2 DEF vars, ReadyInv, Ready, InStep, Running, Now, Command, Commands
<1>3. ASSUME NEW c \in DOMAIN Commands(prog), Begin(c) PROVE ReadyInv'
  <2>1. run'.at = 1
    BY <1>3 DEF Begin, Idle
  <2>2. ~Assured(Command.script, run.at)'
    BY <2>1 DEF Assured
  <2> QED
    BY <1>1, <2>2 DEF ReadyInv, Ready
<1>4. CASE Perform
  <2>1. /\ InStep /\ prog' = prog /\ run'.cmd = run.cmd /\ run'.at = run.at + 1
        /\ Now.make \subseteq chip'
    BY <1>1, <1>4 DEF Perform, RunType
  <2> QED
    BY <1>1, <2>1, ReadyWithin
<1>5. CASE Branch
  <2>1. /\ InStep /\ prog' = prog /\ run'.cmd = run.cmd /\ chip' = chip
        /\ run'.at = run.at + 1 + Now.skip /\ Now.kind = "test"
    BY <1>1, <1>5 DEF Branch, RunType
  <2>2. CASE Now.skip = -1
    <3>1. run.at \in Nat
      BY <1>1 DEF RunType
    <3>2. run'.at = run.at
      BY <2>1, <2>2, <3>1
    <3> QED
      BY <1>1, <2>1, <3>2, ReadyWithin
  <2>3. CASE Now.skip # -1
    BY <1>1, <2>1, <2>3, ReadyWithin
  <2> QED
    BY <2>2, <2>3
<1>6. CASE BranchIntoBlock
  <2>1. /\ InStep /\ prog' = prog /\ run'.cmd = run.cmd /\ run'.at = run.at + 1
        /\ Now.kind = "test"
    BY <1>1, <1>6 DEF BranchIntoBlock, RunType
  <2> QED
    BY <1>1, <2>1, ReadyWithin
<1>7. CASE Refuse
  BY <1>1, <1>7, ReadyFailed DEF Refuse
<1>8. CASE Fault
  BY <1>1, <1>8, ReadyFailed DEF Fault
<1>9. CASE Return
  <2>1. ~InStep'
    BY <1>9 DEF Return, InStep, Running
  <2> QED
    BY <1>1, <2>1 DEF ReadyInv, Ready
<1> QED
  BY <1>2, <1>3, <1>4, <1>5, <1>6, <1>7, <1>8, <1>9 DEF Next

(* A test that is left without entering its block was no assured one.      *)
LEMMA BranchLeadsPast ==
  ASSUME ReadyInv, Branch, NEW i \in DOMAIN Command.script, run.at < i,
         LeadsTo(Command.script, run.at, i)
  PROVE  run'.at <= i
<1>1. /\ InStep /\ TypeInv /\ run \in RunType
  BY DEF Branch, ReadyInv, TypeInv, TypeOK
<1>2. run'.at = run.at + 1 + Now.skip
  BY <1>1 DEF Branch, RunType
<1>3. ASSUME Assured(Command.script, run.at) PROVE FALSE
  <2>1. Now.need \cup Now.known \subseteq chip /\ Now.absent = {}
    BY <1>1, <1>3 DEF ReadyInv, Ready, Assured, Now, Branch
  <2> QED
    BY <2>1 DEF Branch, Accepts
<1>4. run.at + Now.skip < i
  BY <1>3 DEF LeadsTo, Now
<1> QED
  BY <1>1, <1>2, <1>4, StepNumbers

-----------------------------------------------------------------------------
(* Stages.  A command that no call has failed has made what the steps      *)
(* behind it secure; the stages a command works on do not count as set up  *)
(* while it runs; and what a stage that is set up holds is on the chip,    *)
(* also while some other command runs.                                     *)
SecuredSoFar ==
  Running /\ ~run.failed =>
    \A i \in DOMAIN Command.script : i < run.at =>
      \A fact : Secures(Command.script, i, fact) => fact \in chip
Undone == Running => done \cap (Command.opens \cup Command.closes \cup Command.unless) = {}
Standing == \A stage \in done : \A fact : Holds(prog, stage, fact) => fact \in chip
StandInv == ReadyInv /\ SecuredSoFar /\ Undone /\ Standing

(* What one step of a command must do to keep the invariant.               *)
LEMMA StandWithin ==
  ASSUME StandInv, InStep, ReadyInv', UNCHANGED <<prog, done>>, run'.cmd = run.cmd,
         \A fact : fact \in chip /\ (fact \in Now.drop => fact \in Now.make) => fact \in chip',
         ~run'.failed =>
           /\ ~run.failed
           /\ \A i \in DOMAIN Command.script : \A fact :
                Secures(Command.script, i, fact) /\ i < run'.at /\ (i < run.at => fact \in chip)
                  => fact \in chip'
  PROVE  StandInv'
<1>1. Running /\ prog \in Name /\ run.cmd \in DOMAIN Commands(prog)
      /\ run.at \in DOMAIN Command.script
  <2>1. run.at \in 1 .. Len(Command.script) /\ Running
    BY NowFacts DEF StandInv, ReadyInv, TypeInv, InStep
  <2>2. prog \in Name /\ run.cmd \in DOMAIN Commands(prog)
    BY NowFacts DEF StandInv, ReadyInv, TypeInv, TypeOK
  <2> QED
    BY <2>1, <2>2, CommandFacts DEF Command
<1>2. Command' = Command
  BY DEF Command, Commands
<1>3. SecuredSoFar'
  <2>1. SUFFICES ASSUME ~run'.failed, NEW i \in DOMAIN Command.script, i < run'.at,
                        NEW fact, Secures(Command.script, i, fact)
                 PROVE  fact \in chip'
    BY <1>2 DEF SecuredSoFar
  <2>2. i < run.at => fact \in chip
    BY <1>1, <2>1 DEF StandInv, SecuredSoFar
  <2> QED
    BY <2>1, <2>2
<1>4. Undone'
  BY <1>1, <1>2 DEF StandInv, Undone
<1>5. Standing'
  <2>1. SUFFICES ASSUME NEW stage \in done, NEW fact, Holds(prog, stage, fact)
                 PROVE  fact \in chip'
    BY DEF Standing, Holds, Commands
  <2>2. fact \in chip
    BY <2>1 DEF StandInv, Standing
  <2>3. stage \notin Command.opens /\ stage \notin Command.closes \cup Command.unless
    BY <1>1 DEF StandInv, Undone
  <2>4. fact \in Now.drop => fact \in Now.make
    BY <1>1, <2>1, <2>3 DEF Holds, Command, Now
  <2> QED
    BY <2>2, <2>4
<1> QED
  BY <1>3, <1>4, <1>5 DEF StandInv

LEMMA StandPerform == ASSUME StandInv, Perform, ReadyInv' PROVE StandInv'
<1>1. /\ InStep /\ TypeInv /\ run \in RunType /\ UNCHANGED <<prog, done>>
      /\ run' = [run EXCEPT !.at = @ + 1] /\ chip' = (chip \ Now.drop) \cup Now.make
  BY DEF Perform, StandInv, ReadyInv, TypeInv, TypeOK
<1>2. run'.cmd = run.cmd /\ run'.failed = run.failed /\ run'.at = run.at + 1
  BY <1>1 DEF RunType
<1>3. ASSUME NEW i \in DOMAIN Command.script, NEW fact, Secures(Command.script, i, fact),
             i < run'.at, i < run.at => fact \in chip
      PROVE  fact \in chip'
  <2>1. i = run.at \/ (i < run.at /\ run.at \in i + 1 .. Len(Command.script))
    BY <1>1, <1>2, <1>3, StepNumbers
  <2>2. CASE i = run.at
    BY <1>1, <1>3, <2>2 DEF Secures, Now
  <2>3. CASE i < run.at /\ run.at \in i + 1 .. Len(Command.script)
    <3>1. fact \in Now.drop => fact \in Now.make
      BY <1>3, <2>3 DEF Secures, Now
    <3> QED
      BY <1>1, <1>3, <2>3, <3>1
  <2> QED
    BY <2>1, <2>2, <2>3
<1> QED
  BY <1>1, <1>2, <1>3, StandWithin

(* A test leads past no step that secures a fact.                          *)
LEMMA StandBranch == ASSUME StandInv, Branch, ReadyInv' PROVE StandInv'
<1>1. /\ InStep /\ TypeInv /\ ReadyInv /\ run \in RunType /\ UNCHANGED <<prog, done, chip>>
      /\ run' = [run EXCEPT !.at = @ + 1 + Now.skip] /\ Now.kind = "test"
  BY DEF Branch, StandInv, ReadyInv, TypeInv, TypeOK
<1>2. run'.cmd = run.cmd /\ run'.failed = run.failed /\ run'.at = run.at + 1 + Now.skip
  BY <1>1 DEF RunType
<1>3. ASSUME NEW i \in DOMAIN Command.script, NEW fact, Secures(Command.script, i, fact),
             i < run'.at, i < run.at => fact \in chip
      PROVE  fact \in chip'
  <2>1. CASE i < run.at
    BY <1>1, <1>3, <2>1
  <2>2. CASE i = run.at
    BY <1>1, <1>3, <2>2 DEF Secures, Now
  <2>3. CASE run.at < i
    <3>1. run.at \in 1 .. i - 1
      BY <1>1, <2>3, StepNumbers
    <3>2. LeadsTo(Command.script, run.at, i)
      BY <1>1, <1>3, <3>1 DEF Secures, Now
    <3>3. run'.at <= i
      BY <1>1, <2>3, <3>2, BranchLeadsPast
    <3> QED
      BY <1>1, <1>2, <1>3, <3>3, StepNumbers
  <2> QED
    BY <1>1, <2>1, <2>2, <2>3, StepNumbers
<1> QED
  BY <1>1, <1>2, <1>3, StandWithin

LEMMA StandBranchIntoBlock == ASSUME StandInv, BranchIntoBlock, ReadyInv' PROVE StandInv'
<1>1. /\ InStep /\ TypeInv /\ run \in RunType /\ UNCHANGED <<prog, done, chip>>
      /\ run' = [run EXCEPT !.at = @ + 1] /\ Now.kind = "test"
  BY DEF BranchIntoBlock, StandInv, ReadyInv, TypeInv, TypeOK
<1>2. run'.cmd = run.cmd /\ run'.failed = run.failed /\ run'.at = run.at + 1
  BY <1>1 DEF RunType
<1>3. ASSUME NEW i \in DOMAIN Command.script, NEW fact, Secures(Command.script, i, fact),
             i < run'.at, i < run.at => fact \in chip
      PROVE  fact \in chip'
  <2>1. CASE i = run.at
    BY <1>1, <1>3, <2>1 DEF Secures, Now
  <2>2. CASE i < run.at
    BY <1>1, <1>3, <2>2
  <2> QED
    BY <1>1, <1>2, <1>3, <2>1, <2>2, StepNumbers
<1> QED
  BY <1>1, <1>2, <1>3, StandWithin

(* A call whose result is kept makes the command a failed one; one that is *)
(* only tried leads past no step that secures a fact.                      *)
LEMMA StandFailed ==
  ASSUME StandInv, ReadyInv', InStep, NEW well \in BOOLEAN, Failed(well),
         Now.kind \in {"call", "try"}
  PROVE  StandInv'
<1>1. /\ TypeInv /\ run \in RunType /\ run'.cmd = run.cmd /\ UNCHANGED <<prog, done, chip>>
      /\ Now.skip # -1 => run'.at = run.at + 1 + Now.skip
  BY FailedFacts DEF StandInv, ReadyInv, TypeInv, TypeOK
<1>2. ~run'.failed => ~run.failed /\ Now.kind = "try"
  BY <1>1 DEF Failed, RunType
<1>3. ASSUME ~run'.failed, NEW i \in DOMAIN Command.script,
             NEW fact, Secures(Command.script, i, fact),
             i < run'.at, i < run.at => fact \in chip
      PROVE  fact \in chip'
  <2>1. CASE i < run.at
    BY <1>1, <1>3, <2>1
  <2>2. CASE i = run.at
    BY <1>2, <1>3, <2>2 DEF Secures, Now
  <2>3. CASE run.at < i
    <3>1. run.at \in 1 .. i - 1
      BY <1>1, <2>3, StepNumbers
    <3>2. Now.skip # -1 /\ LeadsTo(Command.script, run.at, i)
      BY <1>2, <1>3, <3>1 DEF Secures, Now
    <3>3. run.at + Now.skip < i
      BY <1>2, <1>3, <3>2 DEF LeadsTo, Assured, Now
    <3> QED
      BY <1>1, <1>3, <3>2, <3>3, StepNumbers
  <2> QED
    BY <1>1, <2>1, <2>2, <2>3, StepNumbers
<1> QED
  BY <1>1, <1>2, <1>3, StandWithin

(* A stage that a command has just set up holds what the command secured.  *)
LEMMA StandReturn == ASSUME StandInv, Return, ReadyInv' PROVE StandInv'
<1>1. /\ Running /\ run.at > Len(Command.script) /\ run' = Idle /\ prog' = prog
      /\ chip' = {fact \in chip : fact[1] # "local"}
      /\ done' = done \cup (IF run.failed THEN {} ELSE Command.opens)
  BY DEF Return, Ended
<1>2. /\ prog \in Name /\ run.cmd \in DOMAIN Commands(prog)
      /\ run.at \in 1 .. Len(Command.script) + 1
  BY <1>1 DEF StandInv, ReadyInv, TypeInv, TypeOK
<1>3. Len(Command.script) \in Nat /\ DOMAIN Command.script = 1 .. Len(Command.script)
  BY <1>2, CommandFacts DEF Command
<1>4. ~Running'
  BY <1>1 DEF Running, Idle
<1>5. Standing'
  <2>1. SUFFICES ASSUME NEW stage \in done', NEW fact, Holds(prog, stage, fact)
                 PROVE  fact \in chip'
    BY <1>1 DEF Standing, Holds, Commands
  <2>2. fact[1] # "local"
    BY <2>1 DEF Holds
  <2>3. fact \in chip
    <3>1. CASE stage \in done
      BY <2>1, <3>1 DEF StandInv, Standing
    <3>2. CASE ~run.failed /\ stage \in Command.opens
      <4>1. PICK i \in DOMAIN Command.script : Secures(Command.script, i, fact)
        BY <1>2, <2>1, <3>2 DEF Holds, Command
      <4>2. i < run.at
        BY <1>1, <1>2, <1>3, <4>1
      <4> QED
        BY <1>1, <3>2, <4>1, <4>2 DEF StandInv, SecuredSoFar
    <3> QED
      BY <1>1, <2>1, <3>1, <3>2
  <2> QED
    BY <1>1, <2>2, <2>3
<1> QED
  BY <1>4, <1>5 DEF StandInv, SecuredSoFar, Undone

LEMMA StandBegin ==
  ASSUME StandInv, NEW c \in DOMAIN Commands(prog), Begin(c), ReadyInv' PROVE StandInv'
<1>1. /\ prog \in Name /\ prog' = prog /\ run'.at = 1 /\ run'.cmd = c /\ chip' = chip
      /\ done \subseteq open
  BY DEF StandInv, ReadyInv, TypeInv, TypeOK, Begin, Idle
<1>2. Command' = Commands(prog)[c]
  BY <1>1 DEF Command, Commands
<1>3. DOMAIN Commands(prog)[c].script = 1 .. Len(Commands(prog)[c].script)
      /\ Len(Commands(prog)[c].script) \in Nat
  BY <1>1, CommandFacts
<1>4. \A i \in DOMAIN Commands(prog)[c].script : ~(i < 1)
  BY <1>3
<1>5. SecuredSoFar'
  BY <1>1, <1>2, <1>4 DEF SecuredSoFar
<1>6. /\ (Commands(prog)[c].opens \cup Commands(prog)[c].unless) \cap open = {}
      /\ done' = done \ Commands(prog)[c].closes
  BY DEF Begin
<1>7. Undone'
  BY <1>1, <1>2, <1>6 DEF Undone
<1>8. Standing'
  BY <1>1, <1>6 DEF StandInv, Standing, Holds, Commands
<1> QED
  BY <1>5, <1>7, <1>8 DEF StandInv

LEMMA StandInit == Init => StandInv
BY ReadyInit DEF Init, StandInv, SecuredSoFar, Undone, Standing, Running

LEMMA StandStep == StandInv /\ [Next]_vars => StandInv'
<1> SUFFICES ASSUME StandInv, [Next]_vars PROVE StandInv'
  OBVIOUS
<1>1. ReadyInv'
  BY ReadyStep DEF StandInv
<1>2. CASE UNCHANGED vars
  BY <1>1, <1>2
     DEF vars, StandInv, SecuredSoFar, Undone, Standing, Holds, Running, Command, Commands
<1>3. CASE \E c \in DOMAIN Commands(prog) : Begin(c)
  BY <1>1, <1>3, StandBegin
<1>4. CASE Perform
  BY <1>1, <1>4, StandPerform
<1>5. CASE Branch
  BY <1>1, <1>5, StandBranch
<1>6. CASE BranchIntoBlock
  BY <1>1, <1>6, StandBranchIntoBlock
<1>7. CASE Refuse
  BY <1>1, <1>7, StandFailed DEF Refuse
<1>8. CASE Fault
  BY <1>1, <1>8, StandFailed DEF Fault
<1>9. CASE Return
  BY <1>1, <1>9, StandReturn
<1> QED
  BY <1>2, <1>3, <1>4, <1>5, <1>6, <1>7, <1>8, <1>9 DEF Next

(* If each fact that is to stay while the stages of a command are open is  *)
(* held by one of them - a condition on the text of the scripts, which     *)
(* StagesHold evaluates - then a stage that was set up without a failure   *)
(* stands until it is torn down: in a session of any length, with any      *)
(* number of calls that fail, whichever commands run meanwhile.            *)
THEOREM StagesStand ==
  ASSUME \A p \in Name : \A c \in DOMAIN Commands(p) : \A fact \in Commands(p)[c].keeps :
           \E stage \in Commands(p)[c].opens : Holds(p, stage, fact)
  PROVE  Spec => []OpenStagesStand
<1>1. TypeInv => prog \in Name
  BY DEF TypeInv, TypeOK
<1>2. StandInv => OpenStagesStand
  BY <1>1 DEF StandInv, ReadyInv, Standing, OpenStagesStand
<1> QED
  BY <1>2, StandInit, StandStep, PTL DEF Spec

-----------------------------------------------------------------------------
(* Knowledge.  What follows from knowledge that is true is true; so is what*)
(* is known after a success, and after a step that is not accepted.        *)
LEMMA KnowingHolds ==
  ASSUME NEW here, NEW away, NEW loose, NEW ties, NEW facts,
         here \subseteq facts, away \cap facts = {},
         \A t \in ties : t[1] \in facts /\ t \notin loose => t[2] \in facts
  PROVE  /\ Tells(Knowing(here, away, loose), facts)
         /\ Binds(ties, Knowing(here, away, loose), facts)
<1>1. Tells(Knowing(here, away, loose), facts)
  BY DEF Tells, Knowing
<1>2. ASSUME NEW t \in ties, t[1] \in facts, t \notin Knowing(here, away, loose).loose
      PROVE  t[2] \in facts
  <2>1. t \notin loose \/ t[1] \in away \/ t[2] \in here
    BY <1>2 DEF Knowing
  <2> QED
    BY <1>2, <2>1
<1> QED
  BY <1>1, <1>2 DEF Binds

LEMMA SuccessHolds ==
  ASSUME NEW step, NEW k, NEW ties, NEW facts, NEW more,
         Tells(k, facts), Binds(ties, k, facts),
         step.need \subseteq facts, step.absent \cap facts = {},
         more = (facts \ step.drop) \cup step.make
  PROVE  Tells(Success(step, k, ties), more) /\ Binds(ties, Success(step, k, ties), more)
<1> DEFINE here == ((k.here \cup step.need) \ step.drop) \cup step.make
           away == (k.away \cup step.absent \cup step.drop) \ step.make
           loose == k.loose \cup {t \in ties : t[1] \in step.make \/ t[2] \in step.drop \ step.make}
<1>1. here \subseteq more /\ away \cap more = {}
  BY DEF Tells
<1>2. ASSUME NEW t \in ties, t[1] \in more, t \notin loose PROVE t[2] \in more
  <2>1. t \notin k.loose /\ t[1] \notin step.make /\ t[2] \notin step.drop \ step.make
    BY <1>2
  <2>2. t[1] \in facts
    BY <1>2, <2>1
  <2>3. t[2] \in facts
    BY <2>1, <2>2 DEF Binds
  <2> QED
    BY <2>1, <2>3
<1> HIDE DEF here, away, loose
<1>3. /\ Tells(Knowing(here, away, loose), more)
      /\ Binds(ties, Knowing(here, away, loose), more)
  BY <1>1, <1>2, KnowingHolds
<1> QED
  BY <1>3 DEF Success, here, away, loose

LEMMA RefusedHolds ==
  ASSUME NEW step, NEW k, NEW ties, NEW facts, Tells(k, facts), Binds(ties, k, facts),
         ~(step.need \subseteq facts /\ step.absent \cap facts = {})
  PROVE  Tells(Refused(step, k), facts) /\ Binds(ties, Refused(step, k), facts)
<1>1. /\ k.here \subseteq facts /\ k.away \cap facts = {}
      /\ \A t \in ties : t[1] \in facts /\ t \notin k.loose => t[2] \in facts
  BY DEF Tells, Binds
<1>2. CASE step.absent = {} /\ Single(step.need)
  <2>1. (k.away \cup step.need) \cap facts = {}
    BY <1>1, <1>2 DEF Single
  <2>2. Refused(step, k) = Knowing(k.here, k.away \cup step.need, k.loose)
    BY <1>2 DEF Refused
  <2> QED
    BY <1>1, <2>1, <2>2, KnowingHolds
<1>3. CASE ~(step.absent = {} /\ Single(step.need)) /\ step.need = {} /\ Single(step.absent)
  <2>1. k.here \cup step.absent \subseteq facts
    BY <1>1, <1>3 DEF Single
  <2>2. Refused(step, k) = Knowing(k.here \cup step.absent, k.away, k.loose)
    BY <1>3 DEF Refused
  <2> QED
    BY <1>1, <2>1, <2>2, KnowingHolds
<1>4. CASE /\ ~(step.absent = {} /\ Single(step.need))
           /\ ~(step.need = {} /\ Single(step.absent))
  BY <1>4 DEF Refused
<1> QED
  BY <1>2, <1>3, <1>4

LEMMA FollowsHolds ==
  ASSUME NEW l, NEW k, NEW ties, NEW facts, Follows(l, k), Tells(k, facts), Binds(ties, k, facts)
  PROVE  Tells(l, facts) /\ Binds(ties, l, facts)
BY DEF Follows, Tells, Binds

LEMMA CoversHolds ==
  ASSUME NEW ls, NEW k, NEW ties, NEW facts, Covers(ls, k), Tells(k, facts), Binds(ties, k, facts)
  PROVE  OneIsTrue(ls, ties, facts)
<1>1. CASE k \in ls
  BY <1>1 DEF OneIsTrue
<1>2. CASE \E l \in ls : Follows(l, k)
  BY <1>2, FollowsHolds DEF OneIsTrue
<1> QED
  BY <1>1, <1>2 DEF Covers

(* A way out of a step along which what is known is true leads to one of   *)
(* which what is said is true.                                             *)
LEMMA WayLeadsOn ==
  ASSUME NEW flow, NEW script, NEW first, NEW fails, NEW ties, NEW facts,
         Explains(flow, script, first, fails, ties),
         NEW i \in DOMAIN script, NEW k \in flow[i],
         NEW to, NEW l, <<to, l>> \in Ways(script, i, k, fails, ties),
         Tells(l, facts), Binds(ties, l, facts)
  PROVE  OneIsTrue(flow[to], ties, facts)
<1>1. \A way \in Ways(script, i, k, fails, ties) : Covers(flow[way[1]], way[2])
  BY DEF Explains
<1>2. <<to, l>>[1] = to /\ <<to, l>>[2] = l
  OBVIOUS
<1>3. Covers(flow[to], l)
  BY <1>1, <1>2
<1> QED
  BY <1>3, CoversHolds

(* The ways out of a step, one by one.                                     *)
LEMMA WaySucceeds ==
  ASSUME NEW script, NEW i, NEW k, NEW fails, NEW ties, Possible(script[i], k)
  PROVE  <<i + 1, Success(script[i], k, ties)>> \in Ways(script, i, k, fails, ties)
BY DEF Ways, Way

LEMMA WayRefusesTest ==
  ASSUME NEW script, NEW i, NEW k, NEW fails, NEW ties, script[i].kind = "test",
         script[i].known \subseteq k.here, ~Certain(script[i], k)
  PROVE  <<i + 1 + script[i].skip, Refused(script[i], k)>> \in Ways(script, i, k, fails, ties)
BY DEF Ways, Way

LEMMA WayDoubtsTest ==
  ASSUME NEW script, NEW i, NEW k, NEW fails, NEW ties, script[i].kind = "test",
         ~(script[i].known \subseteq k.here)
  PROVE  /\ <<i + 1 + script[i].skip, k>> \in Ways(script, i, k, fails, ties)
         /\ <<i + 1, k>> \in Ways(script, i, k, fails, ties)
BY DEF Ways, Way

LEMMA WayFails ==
  ASSUME NEW script, NEW i, NEW k, NEW fails, NEW ties, script[i].kind \in {"call", "try"},
         MayFail(script[i], k, fails)
  PROVE  <<IF script[i].skip = -1 THEN Len(script) + 1 ELSE i + 1 + script[i].skip,
           IF fails = "refused" THEN Refused(script[i], k) ELSE k>>
           \in Ways(script, i, k, fails, ties)
BY DEF Ways, Way

LEMMA CertainIsAccepted ==
  ASSUME NEW step, NEW k, NEW facts, Tells(k, facts)
  PROVE  /\ Certain(step, k) => step.need \subseteq facts /\ step.absent \cap facts = {}
         /\ step.need \subseteq facts /\ step.absent \cap facts = {} => Possible(step, k)
BY DEF Certain, Possible, Tells

LEMMA PositionFacts ==
  ASSUME TypeInv, InStep
  PROVE  run.at \in DOMAIN Command.script /\ Now = Command.script[run.at]
<1>1. prog \in Name /\ run.cmd \in DOMAIN Commands(prog) /\ run.at \in 1 .. Len(Command.script)
  BY NowFacts DEF TypeInv, TypeOK
<1> QED
  BY <1>1, CommandFacts DEF Command, Now

(* Each step of a command goes along with a flow that explains it; a call  *)
(* that fails, if the flow allows for its failing so.                      *)
AlongRun(flow, ties) == OneIsTrue(flow[run.at], ties, chip)

LEMMA AlongPerform ==
  ASSUME TypeInv, Perform, NEW flow, NEW first, NEW fails, NEW ties,
         Explains(flow, Command.script, first, fails, ties), AlongRun(flow, ties)
  PROVE  OneIsTrue(flow[run'.at], ties, chip')
<1>1. /\ InStep /\ run \in RunType /\ run' = [run EXCEPT !.at = @ + 1]
      /\ chip' = (chip \ Now.drop) \cup Now.make
      /\ Now.need \subseteq chip /\ Now.absent \cap chip = {}
  BY DEF Perform, Accepts, TypeInv, TypeOK
<1>2. run'.at = run.at + 1
  BY <1>1 DEF RunType
<1>3. run.at \in DOMAIN Command.script /\ Now = Command.script[run.at]
  BY <1>1, PositionFacts
<1>4. PICK k \in flow[run.at] : Tells(k, chip) /\ Binds(ties, k, chip)
  BY DEF AlongRun, OneIsTrue
<1>5. Possible(Now, k)
  BY <1>1, <1>4, CertainIsAccepted
<1>6. Tells(Success(Now, k, ties), chip') /\ Binds(ties, Success(Now, k, ties), chip')
  BY <1>1, <1>4, SuccessHolds
<1>7. <<run.at + 1, Success(Now, k, ties)>> \in Ways(Command.script, run.at, k, fails, ties)
  BY <1>3, <1>5, WaySucceeds
<1> QED
  BY <1>2, <1>3, <1>4, <1>6, <1>7, WayLeadsOn

LEMMA AlongBranch ==
  ASSUME TypeInv, Branch, NEW flow, NEW first, NEW fails, NEW ties,
         Explains(flow, Command.script, first, fails, ties), AlongRun(flow, ties)
  PROVE  OneIsTrue(flow[run'.at], ties, chip')
<1>1. /\ InStep /\ run \in RunType /\ run' = [run EXCEPT !.at = @ + 1 + Now.skip]
      /\ chip' = chip /\ Now.kind = "test"
      /\ ~(Now.need \subseteq chip /\ Now.absent \cap chip = {}) \/ ~(Now.known \subseteq chip)
  BY DEF Branch, Accepts, TypeInv, TypeOK
<1>2. run'.at = run.at + 1 + Now.skip
  BY <1>1 DEF RunType
<1>3. run.at \in DOMAIN Command.script /\ Now = Command.script[run.at]
  BY <1>1, PositionFacts
<1>4. PICK k \in flow[run.at] : Tells(k, chip) /\ Binds(ties, k, chip)
  BY DEF AlongRun, OneIsTrue
<1>5. CASE ~(Now.known \subseteq k.here)
  <2>1. <<run.at + 1 + Now.skip, k>> \in Ways(Command.script, run.at, k, fails, ties)
    BY <1>1, <1>3, <1>5, WayDoubtsTest
  <2> QED
    BY <1>1, <1>2, <1>3, <1>4, <2>1, WayLeadsOn
<1>6. CASE Now.known \subseteq k.here
  <2>1. ~(Now.need \subseteq chip /\ Now.absent \cap chip = {})
    BY <1>1, <1>4, <1>6 DEF Tells
  <2>2. ~Certain(Now, k)
    BY <1>4, <2>1, CertainIsAccepted
  <2>3. Tells(Refused(Now, k), chip) /\ Binds(ties, Refused(Now, k), chip)
    BY <1>4, <2>1, RefusedHolds
  <2>4. <<run.at + 1 + Now.skip, Refused(Now, k)>> \in Ways(Command.script, run.at, k, fails, ties)
    BY <1>1, <1>3, <1>6, <2>2, WayRefusesTest
  <2> QED
    BY <1>1, <1>2, <1>3, <1>4, <2>3, <2>4, WayLeadsOn
<1> QED
  BY <1>5, <1>6

LEMMA AlongBranchIntoBlock ==
  ASSUME TypeInv, BranchIntoBlock, NEW flow, NEW first, NEW fails, NEW ties,
         Explains(flow, Command.script, first, fails, ties), AlongRun(flow, ties)
  PROVE  OneIsTrue(flow[run'.at], ties, chip')
<1>1. /\ InStep /\ run \in RunType /\ run' = [run EXCEPT !.at = @ + 1]
      /\ chip' = chip /\ Now.kind = "test" /\ ~(Now.known \subseteq chip)
  BY DEF BranchIntoBlock, TypeInv, TypeOK
<1>2. run'.at = run.at + 1
  BY <1>1 DEF RunType
<1>3. run.at \in DOMAIN Command.script /\ Now = Command.script[run.at]
  BY <1>1, PositionFacts
<1>4. PICK k \in flow[run.at] : Tells(k, chip) /\ Binds(ties, k, chip)
  BY DEF AlongRun, OneIsTrue
<1>5. ~(Now.known \subseteq k.here)
  BY <1>1, <1>4 DEF Tells
<1>6. <<run.at + 1, k>> \in Ways(Command.script, run.at, k, fails, ties)
  BY <1>1, <1>3, <1>5, WayDoubtsTest
<1> QED
  BY <1>1, <1>2, <1>3, <1>4, <1>6, WayLeadsOn

AllowsFor(fails) ==
  /\ fails = "silent" => ~Now.says /\ Now.skip # -1
  /\ fails = "refused" => ~Accepts(Now)

LEMMA AlongFailed ==
  ASSUME TypeInv, InStep, NEW well \in BOOLEAN, Failed(well), Now.kind \in {"call", "try"},
         NEW flow, NEW first, NEW fails, NEW ties, AllowsFor(fails),
         Explains(flow, Command.script, first, fails, ties), AlongRun(flow, ties)
  PROVE  OneIsTrue(flow[run'.at], ties, chip')
<1> DEFINE to == IF Now.skip = -1 THEN Len(Command.script) + 1 ELSE run.at + 1 + Now.skip
<1>1. run'.at = to /\ chip' = chip
  BY FailedFacts DEF TypeInv
<1>3. run.at \in DOMAIN Command.script /\ Now = Command.script[run.at]
  BY PositionFacts
<1>4. PICK k \in flow[run.at] : Tells(k, chip) /\ Binds(ties, k, chip)
  BY DEF AlongRun, OneIsTrue
<1> DEFINE after == IF fails = "refused" THEN Refused(Now, k) ELSE k
<1>5. fails = "refused" => ~(Now.need \subseteq chip /\ Now.absent \cap chip = {})
  BY DEF AllowsFor, Accepts
<1>6. MayFail(Now, k, fails)
  BY <1>4, <1>5, CertainIsAccepted DEF MayFail, AllowsFor
<1>7. Tells(after, chip) /\ Binds(ties, after, chip)
  BY <1>4, <1>5, RefusedHolds
<1>8. <<to, after>> \in Ways(Command.script, run.at, k, fails, ties)
  BY <1>3, <1>6, WayFails
<1> HIDE DEF after, to
<1> QED
  BY <1>1, <1>3, <1>4, <1>7, <1>8, WayLeadsOn

-----------------------------------------------------------------------------
(* Notes.  In a session of a kind, as long as it is one, what the notes say*)
(* is true between two commands, and what the flow from them says is true  *)
(* within one: as long as no call has failed in it the flow of those the   *)
(* kind allows for, of a command a robust program recovers from any flow.  *)
Relevant(kind) ==
  CASE kind = "calm" -> Reassuring
    [] kind = "unhurt" -> IF Program[prog].robust THEN ~lost ELSE faults = 0
    [] OTHER -> TRUE
Whole(kind) == kind = "unhurt" => hurt \cap Command.opens = {}
Was(kind) == View(kind, open \ Command.opens, hurt \ Command.opens)
RunFlow(kind, fails) == Flow(prog, run.cmd, kind, Notes(prog, kind)[Was(kind)], fails)
Noted(notes, view, ties, facts) == view \in DOMAIN notes /\ OneIsTrue(notes[view], ties, facts)
Between(kind) ==
  ~Running /\ Relevant(kind) =>
    Noted(Notes(prog, kind), View(kind, open, hurt), TiesOf(prog, kind), chip)
Within(kind) ==
  Running /\ Relevant(kind) =>
    /\ Was(kind) \in DOMAIN Notes(prog, kind) /\ Typable(Command, kind, Was(kind).open)
    /\ Whole(kind) => AlongRun(RunFlow(kind, Fails(prog, kind)), TiesOf(prog, kind))
    /\ Recovers(prog, Command, kind) => AlongRun(RunFlow(kind, "any"), TiesOf(prog, kind))
    /\ ~Whole(kind) => Recovers(prog, Command, kind) /\ Command.opens \subseteq hurt
KindInv(kind) ==
  /\ TypeInv
  /\ faults = 0 => hurt = {}
  /\ NotesHold(prog, kind) => Between(kind) /\ Within(kind)

(* What the notes promise of a command.                                    *)
LEMMA NotesExplain ==
  ASSUME NEW p, NEW kind, NotesHold(p, kind), NEW view \in DOMAIN Notes(p, kind),
         NEW c \in DOMAIN Commands(p), Typable(Commands(p)[c], kind, view.open)
  PROVE  /\ Explains(Flow(p, c, kind, Notes(p, kind)[view], Fails(p, kind)),
                     Commands(p)[c].script, Notes(p, kind)[view], Fails(p, kind), TiesOf(p, kind))
         /\ Recovers(p, Commands(p)[c], kind) =>
              Explains(Flow(p, c, kind, Notes(p, kind)[view], "any"),
                       Commands(p)[c].script, Notes(p, kind)[view], "any", TiesOf(p, kind))
<1>1. /\ Carries(p, c, kind, Notes(p, kind), view, Fails(p, kind), view.hurt)
      /\ Recovers(p, Commands(p)[c], kind) =>
           Carries(p, c, kind, Notes(p, kind), view, "any", view.hurt \cup Commands(p)[c].opens)
  BY DEF NotesHold
<1> QED
  BY <1>1 DEF Carries

(* One step of a command advances along every flow that allows for it.     *)
Advances(fails) ==
  \A flow, first, ties :
    Explains(flow, Command.script, first, fails, ties) /\ AlongRun(flow, ties) =>
      OneIsTrue(flow[run'.at], ties, chip')

LEMMA StepsAdvance ==
  ASSUME TypeInv, Perform \/ Branch \/ BranchIntoBlock, NEW fails
  PROVE  Advances(fails)
BY AlongPerform, AlongBranch, AlongBranchIntoBlock DEF Advances

LEMMA FailuresAdvance ==
  ASSUME TypeInv, InStep, NEW well \in BOOLEAN, Failed(well), Now.kind \in {"call", "try"},
         NEW fails, AllowsFor(fails)
  PROVE  Advances(fails)
BY AlongFailed DEF Advances

LEMMA RunFlowExplains ==
  ASSUME NEW kind, TypeInv, Running, NotesHold(prog, kind),
         Was(kind) \in DOMAIN Notes(prog, kind), Typable(Command, kind, Was(kind).open)
  PROVE  /\ Explains(RunFlow(kind, Fails(prog, kind)), Command.script,
                     Notes(prog, kind)[Was(kind)], Fails(prog, kind), TiesOf(prog, kind))
         /\ Recovers(prog, Command, kind) =>
              Explains(RunFlow(kind, "any"), Command.script,
                       Notes(prog, kind)[Was(kind)], "any", TiesOf(prog, kind))
<1>1. run.cmd \in DOMAIN Commands(prog)
  BY DEF TypeInv, TypeOK
<1> QED
  BY <1>1, NotesExplain DEF RunFlow, Command

(* A step within a command, of a session that is still of the kind.        *)
LEMMA KindWithin ==
  ASSUME NEW kind, KindInv(kind), InStep, TypeInv', Running',
         prog' = prog, open' = open, run'.cmd = run.cmd,
         faults' = 0 => hurt' = {},
         hurt' \ Command.opens = hurt \ Command.opens,
         Relevant(kind)' => Relevant(kind),
         Relevant(kind)' /\ Whole(kind)' => Whole(kind) /\ Advances(Fails(prog, kind)),
         Recovers(prog, Command, kind) => Advances("any"),
         NotesHold(prog, kind) /\ Relevant(kind)' /\ ~Whole(kind)' =>
           Recovers(prog, Command, kind) /\ Command.opens \subseteq hurt'
  PROVE  KindInv(kind)'
<1>1. Command' = Command
  BY DEF Command, Commands
<1>2. Was(kind)' = Was(kind)
  BY <1>1 DEF Was, View
<1>3. /\ Notes(prog, kind)' = Notes(prog, kind) /\ TiesOf(prog, kind)' = TiesOf(prog, kind)
      /\ Fails(prog, kind)' = Fails(prog, kind) /\ NotesHold(prog, kind)' = NotesHold(prog, kind)
  OBVIOUS
<1>4. /\ RunFlow(kind, Fails(prog, kind))' = RunFlow(kind, Fails(prog, kind))
      /\ RunFlow(kind, "any")' = RunFlow(kind, "any")
  BY <1>1, <1>2, <1>3 DEF RunFlow
<1>5. ASSUME NotesHold(prog, kind), Relevant(kind)' PROVE Within(kind)'
  <2>1. Running /\ Relevant(kind)
    BY <1>5 DEF InStep
  <2>2. /\ Was(kind) \in DOMAIN Notes(prog, kind) /\ Typable(Command, kind, Was(kind).open)
        /\ Whole(kind) => AlongRun(RunFlow(kind, Fails(prog, kind)), TiesOf(prog, kind))
        /\ Recovers(prog, Command, kind) => AlongRun(RunFlow(kind, "any"), TiesOf(prog, kind))
    BY <1>5, <2>1 DEF KindInv, Within
  <2>3. /\ Explains(RunFlow(kind, Fails(prog, kind)), Command.script,
                    Notes(prog, kind)[Was(kind)], Fails(prog, kind), TiesOf(prog, kind))
        /\ Recovers(prog, Command, kind) =>
             Explains(RunFlow(kind, "any"), Command.script,
                      Notes(prog, kind)[Was(kind)], "any", TiesOf(prog, kind))
    BY <1>5, <2>1, <2>2, RunFlowExplains DEF KindInv
  <2>4. Whole(kind)' =>
          OneIsTrue(RunFlow(kind, Fails(prog, kind))[run'.at], TiesOf(prog, kind), chip')
    BY <1>5, <2>2, <2>3 DEF Advances
  <2>5. Recovers(prog, Command, kind) =>
          OneIsTrue(RunFlow(kind, "any")[run'.at], TiesOf(prog, kind), chip')
    BY <2>2, <2>3 DEF Advances
  <2>6. /\ Was(kind)' \in DOMAIN Notes(prog, kind)'
        /\ Typable(Command, kind, Was(kind).open)'
        /\ Recovers(prog, Command, kind)' = Recovers(prog, Command, kind)
    BY <1>1, <1>2, <1>3, <2>2
  <2>7. Whole(kind)' => AlongRun(RunFlow(kind, Fails(prog, kind)), TiesOf(prog, kind))'
    BY <1>3, <1>4, <2>4 DEF AlongRun
  <2>8. Recovers(prog, Command, kind)' => AlongRun(RunFlow(kind, "any"), TiesOf(prog, kind))'
    BY <1>3, <1>4, <2>5, <2>6 DEF AlongRun
  <2>9. ~Whole(kind)' => Recovers(prog, Command, kind)' /\ (Command.opens \subseteq hurt)'
    BY <1>1, <1>5, <2>6
  <2> QED
    BY <2>6, <2>7, <2>8, <2>9 DEF Within
<1>6. NotesHold(prog, kind) => Between(kind)' /\ Within(kind)'
  BY <1>5 DEF Between, Within
<1> QED
  BY <1>3, <1>6 DEF KindInv

LEMMA KindSteps ==
  ASSUME NEW kind, KindInv(kind), Perform \/ Branch \/ BranchIntoBlock, TypeInv'
  PROVE  KindInv(kind)'
<1>1. /\ InStep /\ TypeInv /\ run \in RunType
      /\ UNCHANGED <<prog, open, faults, hurt, lost, alarm>>
  BY DEF Perform, Branch, BranchIntoBlock, KindInv, TypeInv, TypeOK
<1>2. run'.cmd = run.cmd
  BY <1>1 DEF Perform, Branch, BranchIntoBlock, RunType
<1>3. run.cmd \in DOMAIN Commands(prog) /\ prog \in Name
  BY <1>1, NowFacts DEF TypeInv, TypeOK
<1>4. Running'
  BY <1>2, <1>3, IdleIsARun, IdleHasNoCommand DEF Running
<1>5. Command' = Command
  BY <1>1, <1>2 DEF Command, Commands
<1>6. Relevant(kind)' = Relevant(kind) /\ Whole(kind)' = Whole(kind)
  BY <1>1, <1>5 DEF Relevant, Reassuring, Whole
<1>7. Advances(Fails(prog, kind)) /\ Advances("any")
  BY <1>1, StepsAdvance
<1>8. NotesHold(prog, kind) /\ Relevant(kind) /\ ~Whole(kind) =>
        Recovers(prog, Command, kind) /\ Command.opens \subseteq hurt
  BY <1>1 DEF KindInv, Within, InStep
<1>9. faults' = 0 => hurt' = {}
  BY <1>1 DEF KindInv
<1> QED
  BY <1>1, <1>2, <1>4, <1>6, <1>7, <1>8, <1>9, KindWithin

(* A failed call keeps the command in progress, and is a failure the       *)
(* stricter kinds of flow allow for if it is one of theirs.                *)
LEMMA FailedGoesOn ==
  ASSUME TypeInv, InStep, NEW well \in BOOLEAN, Failed(well), Now.kind \in {"call", "try"}
  PROVE  /\ UNCHANGED <<prog, open>> /\ run'.cmd = run.cmd /\ Running' /\ Command' = Command
         /\ Advances("any")
         /\ ~alarm' => ~alarm /\ Advances("silent")
         /\ ~Accepts(Now) => Advances("refused")
<1>1. UNCHANGED <<prog, open>> /\ run'.cmd = run.cmd
  BY FailedFacts DEF TypeInv
<1>2. run.cmd \in DOMAIN Commands(prog) /\ prog \in Name
  BY NowFacts DEF TypeInv, TypeOK
<1>3. Running'
  BY <1>1, <1>2, IdleIsARun, IdleHasNoCommand DEF Running
<1>4. Command' = Command
  BY <1>1 DEF Command, Commands
<1>5. Advances("any")
  BY FailuresAdvance DEF AllowsFor
<1>6. ~alarm' => ~alarm /\ ~Now.says /\ Now.skip # -1
  BY DEF Failed
<1>7. ~alarm' => Advances("silent")
  BY <1>6, FailuresAdvance DEF AllowsFor
<1>8. ~Accepts(Now) => Advances("refused")
  BY FailuresAdvance DEF AllowsFor
<1> QED
  BY <1>1, <1>3, <1>4, <1>5, <1>6, <1>7, <1>8

LEMMA KindRefuse ==
  ASSUME NEW kind \in Kinds, KindInv(kind), Refuse, TypeInv' PROVE KindInv(kind)'
<1>1. /\ InStep /\ TypeInv /\ Failed(TRUE) /\ UNCHANGED <<faults, hurt, lost>>
      /\ Now.kind \in {"call", "try"} /\ ~Accepts(Now)
  BY DEF Refuse, KindInv
<1>2. /\ UNCHANGED <<prog, open>> /\ run'.cmd = run.cmd /\ Running' /\ Command' = Command
      /\ Advances("any") /\ Advances("refused")
      /\ ~alarm' => ~alarm /\ Advances("silent")
  BY <1>1, FailedGoesOn
<1>3. Relevant(kind)' => Relevant(kind)
  BY <1>1, <1>2 DEF Relevant, Reassuring
<1>4. Whole(kind)' = Whole(kind)
  BY <1>1, <1>2 DEF Whole
<1>5. Relevant(kind)' => Advances(Fails(prog, kind))
  <2>1. CASE kind = "any"
    BY <1>2, <2>1 DEF Fails
  <2>2. CASE kind = "calm" /\ Reliable(prog)
    BY <1>2, <2>2 DEF Fails, Relevant, Reassuring
  <2>3. CASE kind # "any" /\ ~(kind = "calm" /\ Reliable(prog))
    <3>1. Fails(prog, kind) = "refused"
      BY <2>3 DEF Fails
    <3> QED
      BY <1>2, <3>1
  <2> QED
    BY <2>1, <2>2, <2>3
<1>6. NotesHold(prog, kind) /\ Relevant(kind) /\ ~Whole(kind) =>
        Recovers(prog, Command, kind) /\ Command.opens \subseteq hurt
  BY <1>1 DEF KindInv, Within, InStep
<1>7. faults' = 0 => hurt' = {}
  BY <1>1 DEF KindInv
<1> QED
  BY <1>1, <1>2, <1>3, <1>4, <1>5, <1>6, <1>7, KindWithin

LEMMA KindFault ==
  ASSUME NEW kind \in Kinds, KindInv(kind), Fault, TypeInv' PROVE KindInv(kind)'
<1>1. /\ InStep /\ TypeInv /\ Failed(FALSE) /\ Now.kind \in {"call", "try"}
      /\ faults' = faults + 1
      /\ hurt' = hurt \cup Command.opens
      /\ lost' = (lost \/ Command.opens = {})
  BY DEF Fault, KindInv
<1>2. /\ UNCHANGED <<prog, open>> /\ run'.cmd = run.cmd /\ Running' /\ Command' = Command
      /\ Advances("any")
      /\ ~alarm' => ~alarm /\ Advances("silent")
  BY <1>1, FailedGoesOn
<1>3. faults' # 0
  <2>1. prog \in Name /\ faults \in 0 .. MaxFaults[prog]
    BY <1>1 DEF TypeInv, TypeOK
  <2> QED
    BY <1>1, <2>1, BoundsAreNaturals
<1>4. hurt' \ Command.opens = hurt \ Command.opens
  BY <1>1
<1>5. CASE kind = "any"
  <2>1. /\ Relevant(kind) /\ Whole(kind) /\ Whole(kind)' /\ Fails(prog, kind) = "any"
    BY <1>5 DEF Relevant, Whole, Fails
  <2> QED
    BY <1>1, <1>2, <1>3, <1>4, <2>1, KindWithin
<1>6. CASE kind = "calm"
  <2>1. Whole(kind) /\ Whole(kind)' /\ ~Recovers(prog, Command, kind)
    BY <1>6 DEF Whole, Recovers
  <2>2. Relevant(kind)' => Reliable(prog) /\ Relevant(kind) /\ ~alarm'
    BY <1>2, <1>3, <1>6 DEF Relevant, Reassuring
  <2>3. Relevant(kind)' => Advances(Fails(prog, kind))
    BY <1>2, <1>6, <2>2 DEF Fails
  <2> QED
    BY <1>1, <1>2, <1>3, <1>4, <2>1, <2>2, <2>3, KindWithin
<1>7. CASE kind = "unhurt"
  <2>1. Relevant(kind)' => Program[prog].robust /\ ~lost /\ Command.opens # {}
    BY <1>1, <1>2, <1>3, <1>7 DEF Relevant
  <2>2. Relevant(kind)' => Relevant(kind) /\ Recovers(prog, Command, kind) /\ ~Whole(kind)'
    BY <1>1, <1>2, <1>7, <2>1 DEF Relevant, Recovers, Whole
  <2> QED
    BY <1>1, <1>2, <1>3, <1>4, <2>2, KindWithin
<1> QED
  BY <1>5, <1>6, <1>7 DEF Kinds

(* A command starts from what the notes say, and leaves what they say.     *)
LEMMA AlongStart ==
  ASSUME NEW flow, NEW script, NEW first, NEW fails, NEW ties, NEW facts,
         Explains(flow, script, first, fails, ties), OneIsTrue(first, ties, facts)
  PROVE  OneIsTrue(flow[1], ties, facts)
<1>1. PICK k \in first : Tells(k, facts) /\ Binds(ties, k, facts)
  BY DEF OneIsTrue
<1>2. Covers(flow[1], k)
  BY <1>1 DEF Explains
<1> QED
  BY <1>1, <1>2, CoversHolds

LEMMA OutlastsHolds ==
  ASSUME NEW l, NEW k, NEW ties, NEW facts, Outlasts(l, k), Tells(k, facts), Binds(ties, k, facts),
         \A t \in ties : t[2][1] # "local"
  PROVE  Tells(l, Lasting(facts)) /\ Binds(ties, l, Lasting(facts))
<1>1. l.here \subseteq Lasting(k.here) /\ Lasting(l.away) \subseteq k.away /\ k.loose \subseteq l.loose
  BY DEF Outlasts
<1>2. Tells(l, Lasting(facts))
  BY <1>1 DEF Tells, Lasting
<1>3. Binds(ties, l, Lasting(facts))
  BY <1>1 DEF Binds, Lasting
<1> QED
  BY <1>2, <1>3

LEMMA AlongEnd ==
  ASSUME NEW p, NEW c, NEW kind, NEW notes, NEW view, NEW fails, NEW harmed, NEW facts,
         Carries(p, c, kind, notes, view, fails, harmed),
         OneIsTrue(Flow(p, c, kind, notes[view], fails)[Len(Commands(p)[c].script) + 1],
                   TiesOf(p, kind), facts),
         \A t \in TiesOf(p, kind) : t[2][1] # "local"
  PROVE  Noted(notes, View(kind, (view.open \cup Commands(p)[c].opens) \ Commands(p)[c].closes,
                           harmed \ Commands(p)[c].closes),
               TiesOf(p, kind), Lasting(facts))
<1> DEFINE end == Flow(p, c, kind, notes[view], fails)[Len(Commands(p)[c].script) + 1]
           next == View(kind, (view.open \cup Commands(p)[c].opens) \ Commands(p)[c].closes,
                        harmed \ Commands(p)[c].closes)
<1>1. PICK k \in end : Tells(k, facts) /\ Binds(TiesOf(p, kind), k, facts)
  BY DEF OneIsTrue
<1>2. next \in DOMAIN notes /\ \E l \in notes[next] : Outlasts(l, k)
  BY <1>1 DEF Carries
<1> HIDE DEF next, end
<1>3. PICK l \in notes[next] : Outlasts(l, k)
  BY <1>2
<1>4. Tells(l, Lasting(facts)) /\ Binds(TiesOf(p, kind), l, Lasting(facts))
  BY <1>1, <1>3, OutlastsHolds
<1> QED
  BY <1>2, <1>3, <1>4 DEF Noted, OneIsTrue, next

LEMMA KindBegin ==
  ASSUME NEW kind \in Kinds, KindInv(kind), NEW c \in DOMAIN Commands(prog), Begin(c), TypeInv'
  PROVE  KindInv(kind)'
<1> DEFINE cmd == Commands(prog)[c]
           view == View(kind, open, hurt)
<1>1. /\ prog \in Name /\ c # "" /\ run = Idle /\ hurt \subseteq open
      /\ UNCHANGED <<prog, chip, faults, hurt, lost, alarm>>
      /\ open' = open \cup cmd.opens
      /\ cmd.needs \cup cmd.closes \subseteq open
      /\ (cmd.opens \cup cmd.unless) \cap open = {}
  BY CommandFacts DEF KindInv, TypeInv, TypeOK, Begin
<1>2. run'.cmd = c /\ run'.at = 1
  BY DEF Begin, Idle
<1>3. Running' /\ ~Running
  BY <1>1, <1>2, IdleIsARun DEF Running
<1>4. Command' = cmd
  BY <1>1, <1>2 DEF Command, Commands
<1>5. open' \ cmd.opens = open /\ hurt' \ cmd.opens = hurt /\ hurt' \cap cmd.opens = {}
  BY <1>1
<1>6. Was(kind)' = view
  BY <1>4, <1>5 DEF Was, View
<1>7. Relevant(kind)' = Relevant(kind) /\ Whole(kind)'
  BY <1>1, <1>4, <1>5 DEF Relevant, Reassuring, Whole
<1>8. Typable(cmd, kind, view.open)
  <2>1. kind # "any" => view.open = open
    BY DEF View
  <2> QED
    BY <1>1, <2>1 DEF Typable
<1>9. ASSUME NotesHold(prog, kind), Relevant(kind) PROVE Within(kind)'
  <2> DEFINE notes == Notes(prog, kind)
             ties == TiesOf(prog, kind)
  <2>1. view \in DOMAIN notes /\ OneIsTrue(notes[view], ties, chip)
    BY <1>3, <1>9 DEF KindInv, Between, Noted
  <2>2. /\ Explains(Flow(prog, c, kind, notes[view], Fails(prog, kind)), cmd.script,
                    notes[view], Fails(prog, kind), ties)
        /\ Recovers(prog, cmd, kind) =>
             Explains(Flow(prog, c, kind, notes[view], "any"), cmd.script,
                      notes[view], "any", ties)
    BY <1>8, <1>9, <2>1, NotesExplain
  <2>3. /\ OneIsTrue(Flow(prog, c, kind, notes[view], Fails(prog, kind))[1], ties, chip)
        /\ Recovers(prog, cmd, kind) =>
             OneIsTrue(Flow(prog, c, kind, notes[view], "any")[1], ties, chip)
    <3> HIDE DEF notes, ties, view, cmd
    <3> QED
      BY <2>1, <2>2, AlongStart
  <2>4. /\ RunFlow(kind, Fails(prog, kind))' = Flow(prog, c, kind, notes[view], Fails(prog, kind))
        /\ RunFlow(kind, "any")' = Flow(prog, c, kind, notes[view], "any")
    BY <1>1, <1>2, <1>6 DEF RunFlow
  <2>5. Was(kind)' \in DOMAIN Notes(prog, kind)' /\ Typable(Command, kind, Was(kind).open)'
    BY <1>1, <1>4, <1>6, <1>8, <2>1
  <2>6. AlongRun(RunFlow(kind, Fails(prog, kind)), TiesOf(prog, kind))'
    BY <1>1, <1>2, <2>3, <2>4 DEF AlongRun
  <2>7. Recovers(prog, Command, kind)' =>
          AlongRun(RunFlow(kind, "any"), TiesOf(prog, kind))'
    BY <1>1, <1>2, <1>4, <2>3, <2>4 DEF AlongRun
  <2> QED
    BY <1>7, <2>5, <2>6, <2>7 DEF Within
<1>10. NotesHold(prog, kind)' => Between(kind)' /\ Within(kind)'
  BY <1>1, <1>3, <1>7, <1>9 DEF Between, Within
<1> QED
  BY <1>1, <1>10 DEF KindInv

LEMMA KindReturn ==
  ASSUME NEW kind \in Kinds, KindInv(kind), Return, TypeInv' PROVE KindInv(kind)'
<1> DEFINE was == Was(kind)
           notes == Notes(prog, kind)
           ties == TiesOf(prog, kind)
           end == Len(Command.script) + 1
           harmed == IF Whole(kind) THEN was.hurt ELSE was.hurt \cup Command.opens
           next == View(kind, (was.open \cup Command.opens) \ Command.closes, harmed \ Command.closes)
<1>1. /\ Running /\ run.at > Len(Command.script) /\ run' = Idle
      /\ UNCHANGED <<prog, faults, lost, alarm>>
      /\ open' = open \ Command.closes /\ hurt' = hurt \ Command.closes
      /\ chip' = {fact \in chip : fact[1] # "local"}
  BY DEF Return, Ended
<1>2. /\ run.cmd \in DOMAIN Commands(prog) /\ prog \in Name /\ Command.opens \subseteq open
      /\ run.at \in 1 .. Len(Command.script) + 1
  BY <1>1 DEF KindInv, TypeInv, TypeOK, InProgress
<1>3. run.at = end
  <2>1. Len(Command.script) \in Nat
    BY <1>2, CommandFacts DEF Command
  <2> QED
    BY <1>1, <1>2, <2>1
<1>4. ~Running'
  BY <1>1 DEF Running, Idle
<1>5. Relevant(kind)' = Relevant(kind)
  BY <1>1 DEF Relevant, Reassuring
<1>6. (faults = 0 => hurt = {})'
  BY <1>1 DEF KindInv
<1>7. ASSUME NotesHold(prog, kind), Relevant(kind) PROVE Noted(notes, View(kind, open, hurt)', ties, chip')
  <2>1. /\ was \in DOMAIN notes /\ Typable(Command, kind, was.open)
        /\ Whole(kind) =>
             OneIsTrue(Flow(prog, run.cmd, kind, notes[was], Fails(prog, kind))[end], ties, chip)
        /\ Recovers(prog, Command, kind) =>
             OneIsTrue(Flow(prog, run.cmd, kind, notes[was], "any")[end], ties, chip)
        /\ ~Whole(kind) => Recovers(prog, Command, kind) /\ Command.opens \subseteq hurt
    BY <1>1, <1>3, <1>7 DEF KindInv, Within, AlongRun, RunFlow
  <2>2. /\ Carries(prog, run.cmd, kind, notes, was, Fails(prog, kind), was.hurt)
        /\ Recovers(prog, Command, kind) =>
             Carries(prog, run.cmd, kind, notes, was, "any", was.hurt \cup Command.opens)
        /\ \A t \in ties : t[2][1] # "local"
    BY <1>2, <1>7, <2>1 DEF NotesHold, Command
  <2>3. Noted(notes, next, ties, chip')
    <3>1. chip' = Lasting(chip) /\ Command = Commands(prog)[run.cmd]
      BY <1>1 DEF Lasting, Command
    <3>2. CASE Whole(kind)
      <4>1. harmed = was.hurt
        BY <3>2
      <4> HIDE DEF harmed, was, notes
      <4> QED
        BY <2>1, <2>2, <3>2, <3>1, <4>1, AlongEnd
    <3>3. CASE ~Whole(kind)
      <4>1. harmed = was.hurt \cup Command.opens
        BY <3>3
      <4> HIDE DEF harmed, was, notes
      <4> QED
        BY <2>1, <2>2, <3>3, <3>1, <4>1, AlongEnd
    <3> QED
      BY <3>2, <3>3
  <2>4. next = View(kind, open', hurt')
    <3>1. kind # "any" => (was.open \cup Command.opens) \ Command.closes = open'
      BY <1>1, <1>2 DEF Was, View
    <3>2. kind = "unhurt" => harmed \ Command.closes = hurt'
      BY <1>1, <2>1 DEF Was, View, Whole
    <3> HIDE DEF was, harmed
    <3> QED
      BY <3>1, <3>2 DEF View
  <2>5. View(kind, open, hurt)' = View(kind, open', hurt')
    BY DEF View
  <2> QED
    BY <2>3, <2>4, <2>5
<1>8. (NotesHold(prog, kind) => Between(kind) /\ Within(kind))'
  BY <1>1, <1>4, <1>5, <1>7 DEF Between, Within
<1> QED
  BY <1>6, <1>8 DEF KindInv

LEMMA KindInit == ASSUME NEW kind, Init PROVE KindInv(kind)
<1>1. TypeInv /\ chip = Program[prog].boot /\ hurt = {} /\ open = {} /\ ~Running
  BY TypeInvInit DEF Init, Running
<1>2. NotesHold(prog, kind) => Between(kind)
  BY <1>1 DEF NotesHold, Between, Noted, Start
<1> QED
  BY <1>1, <1>2 DEF KindInv, Within

LEMMA KindStep == ASSUME NEW kind \in Kinds, KindInv(kind), [Next]_vars PROVE KindInv(kind)'
<1>1. TypeInv' /\ TypeInv
  BY TypeInvStep DEF KindInv
<1>2. CASE UNCHANGED vars
  <2>1. Command' = Command /\ Running' = Running
    BY <1>2 DEF vars, Command, Commands, Running
  <2>2. /\ Was(kind)' = Was(kind) /\ Relevant(kind)' = Relevant(kind)
        /\ Whole(kind)' = Whole(kind)
    BY <1>2, <2>1 DEF vars, Was, View, Relevant, Reassuring, Whole
  <2>3. NotesHold(prog, kind)' = NotesHold(prog, kind) /\ Between(kind)' = Between(kind)
    BY <1>2, <2>1, <2>2 DEF vars, Between, Noted, View
  <2>4. /\ RunFlow(kind, Fails(prog, kind))' = RunFlow(kind, Fails(prog, kind))
        /\ RunFlow(kind, "any")' = RunFlow(kind, "any")
    BY <1>2, <2>1, <2>2 DEF vars, RunFlow
  <2>5. Within(kind)' = Within(kind)
    BY <1>2, <2>1, <2>2, <2>4 DEF vars, Within, AlongRun
  <2> QED
    BY <1>1, <1>2, <2>3, <2>5 DEF vars, KindInv
<1>3. CASE \E c \in DOMAIN Commands(prog) : Begin(c)
  BY <1>1, <1>3, KindBegin
<1>4. CASE Perform \/ Branch \/ BranchIntoBlock
  BY <1>1, <1>4, KindSteps
<1>5. CASE Refuse
  BY <1>1, <1>5, KindRefuse
<1>6. CASE Fault
  BY <1>1, <1>6, KindFault
<1>7. CASE Return
  BY <1>1, <1>7, KindReturn
<1> QED
  BY <1>2, <1>3, <1>4, <1>5, <1>6, <1>7 DEF Next

-----------------------------------------------------------------------------
(* References and tear-down.  Nothing is ever on the chip but what a       *)
(* program starts from and what its steps make, and between two commands no*)
(* variable of a script.                                                   *)
ChipInv ==
  /\ TypeInv
  /\ chip \subseteq Facts(prog)
  /\ ~Running => chip \subseteq Program[prog].boot \cup Lasting(Facts(prog))

LEMMA NowMakesFacts == ASSUME TypeInv, InStep PROVE Now.make \subseteq Facts(prog)
<1>1. run.cmd \in DOMAIN Commands(prog)
  BY NowFacts DEF TypeInv
<1>2. run.at \in DOMAIN Command.script /\ Now = Command.script[run.at]
  BY PositionFacts
<1> QED
  BY <1>1, <1>2 DEF Facts, Command

LEMMA ChipInit == Init => ChipInv
BY TypeInvInit DEF Init, ChipInv, Facts

LEMMA ChipStep == ChipInv /\ [Next]_vars => ChipInv'
<1> SUFFICES ASSUME ChipInv, [Next]_vars PROVE ChipInv'
  OBVIOUS
<1>1. TypeInv' /\ TypeInv /\ chip \subseteq Facts(prog)
  BY TypeInvStep DEF ChipInv
<1>2. CASE UNCHANGED vars
  BY <1>1, <1>2 DEF vars, ChipInv, Running
<1>3. ASSUME prog' = prog, chip' \subseteq Facts(prog), Running' PROVE ChipInv'
  BY <1>1, <1>3 DEF ChipInv
<1>4. ASSUME NEW c \in DOMAIN Commands(prog), Begin(c) PROVE ChipInv'
  <2>1. /\ c # "" /\ run'.cmd = c /\ UNCHANGED <<prog, chip>>
    BY <1>1, <1>4, CommandFacts DEF TypeInv, TypeOK, Begin, Idle
  <2>2. Running'
    BY <2>1, IdleIsARun DEF Running
  <2> QED
    BY <1>1, <1>3, <2>1, <2>2
<1>5. CASE Perform \/ Branch \/ BranchIntoBlock
  <2>1. InStep /\ prog' = prog /\ run \in RunType
    BY <1>1, <1>5 DEF Perform, Branch, BranchIntoBlock, TypeInv, TypeOK
  <2>2. run'.cmd = run.cmd
    BY <1>5, <2>1 DEF Perform, Branch, BranchIntoBlock, RunType
  <2>3. Running'
    BY <1>1, <2>1, <2>2, NowFacts, IdleIsARun, IdleHasNoCommand DEF Running, TypeInv, TypeOK
  <2>4. chip' \subseteq Facts(prog)
    BY <1>1, <1>5, <2>1, NowMakesFacts DEF Perform, Branch, BranchIntoBlock
  <2> QED
    BY <1>3, <2>1, <2>3, <2>4
<1>6. CASE Refuse \/ Fault
  <2>1. PICK well \in BOOLEAN : InStep /\ Failed(well) /\ Now.kind \in {"call", "try"}
    BY <1>6 DEF Refuse, Fault
  <2>2. UNCHANGED <<prog, chip>> /\ Running'
    BY <1>1, <2>1, FailedGoesOn DEF Failed
  <2> QED
    BY <1>1, <1>3, <2>2
<1>7. CASE Return
  <2>1. /\ prog' = prog /\ chip' = {fact \in chip : fact[1] # "local"}
    BY <1>7 DEF Return
  <2> QED
    BY <1>1, <2>1 DEF ChipInv, Lasting
<1> QED
  BY <1>2, <1>4, <1>5, <1>6, <1>7 DEF Next

(* If the notes of the scripts in calm sessions follow from their text and *)
(* leave no reference loose between two commands - conditions on the text, *)
(* which TextsBearOut evaluates - then in a session of any length no object*)
(* is ever gone while something still refers to it, unless a failure was   *)
(* reported (or, of a script that does not report them, a call has failed).*)
THEOREM ReferencesHold ==
  ASSUME \A p \in Name : NotesHold(p, "calm") /\ Tied(p)
  PROVE  Spec => []NothingDanglesSilently
<1>1. ASSUME KindInv("calm"), ChipInv PROVE NothingDanglesSilently
  <2>1. SUFFICES ASSUME ~Running, Reassuring,
                        NEW fact \in chip, NEW other \in RefersTo(prog, fact)
                 PROVE  other \in chip
    BY DEF NothingDanglesSilently
  <2> DEFINE notes == Notes(prog, "calm")
             view == View("calm", open, hurt)
  <2>2. prog \in Name
    BY <1>1 DEF ChipInv, TypeInv, TypeOK
  <2>3. Noted(notes, view, TiesOf(prog, "calm"), chip)
    BY <1>1, <2>1, <2>2 DEF KindInv, Between, Relevant
  <2>4. PICK k \in notes[view] : Binds(Ties(prog), k, chip)
    BY <2>3 DEF Noted, OneIsTrue, TiesOf
  <2>5. k.loose = {}
    BY <2>2, <2>3, <2>4 DEF Tied, Noted
  <2>6. <<fact, other>> \in Ties(prog)
    BY <1>1, <2>1 DEF ChipInv, Ties
  <2>7. <<fact, other>>[1] = fact /\ <<fact, other>>[2] = other
    OBVIOUS
  <2> QED
    BY <2>1, <2>4, <2>5, <2>6, <2>7 DEF Binds
<1>2. Init => KindInv("calm")
  BY KindInit
<1>3. KindInv("calm") /\ [Next]_vars => KindInv("calm")'
  BY KindStep DEF Kinds
<1> QED
  BY <1>1, <1>2, <1>3, ChipInit, ChipStep, PTL DEF Spec

(* If the notes of the scripts in sessions in which nothing that matters   *)
(* was hurt follow from their text, and know that all a script does not    *)
(* leave behind is gone with no stage open, then its tear-down is complete:*)
(* in a session of any length, and of a robust script also after any number*)
(* of failures in stages that were closed since.                           *)
THEOREM TearDownComplete ==
  ASSUME \A p \in Name : NotesHold(p, "unhurt") /\ Fits(p)
  PROVE  Spec => []TearDownIsComplete
<1>1. ASSUME KindInv("unhurt"), ChipInv PROVE TearDownIsComplete
  <2>1. SUFFICES ASSUME ~Running, open = {}, Unhurt, NEW fact \in chip
                 PROVE  fact \in Program[prog].boot \cup Program[prog].stays
    BY DEF TearDownIsComplete
  <2>2. hurt = {} /\ Relevant("unhurt")
    BY <1>1, <2>1 DEF KindInv, Unhurt, Relevant
  <2>3. prog \in Name
    BY <1>1 DEF ChipInv, TypeInv, TypeOK
  <2>4. View("unhurt", open, hurt) = Start("unhurt")
    BY <2>1, <2>2 DEF Start
  <2>5. Noted(Notes(prog, "unhurt"), Start("unhurt"), TiesOf(prog, "unhurt"), chip)
    BY <1>1, <2>1, <2>2, <2>3, <2>4 DEF KindInv, Between
  <2>6. PICK k \in Notes(prog, "unhurt")[Start("unhurt")] : Tells(k, chip)
    BY <2>5 DEF Noted, OneIsTrue
  <2>7. Lasting(Facts(prog)) \ (Program[prog].boot \cup Program[prog].stays) \subseteq k.away
    BY <2>3, <2>6 DEF Fits
  <2>8. fact \in Program[prog].boot \cup Lasting(Facts(prog))
    BY <1>1, <2>1 DEF ChipInv
  <2> QED
    BY <2>1, <2>6, <2>7, <2>8 DEF Tells
<1>2. Init => KindInv("unhurt")
  BY KindInit
<1>3. KindInv("unhurt") /\ [Next]_vars => KindInv("unhurt")'
  BY KindStep DEF Kinds
<1> QED
  BY <1>1, <1>2, <1>3, ChipInit, ChipStep, PTL DEF Spec

-----------------------------------------------------------------------------
(* Fit.  A command that is well has met nothing that was hurt; its calls   *)
(* then find what they ask for.                                            *)
FitInv ==
  /\ KindInv("unhurt")
  /\ Running /\ run.well => Unhurt
  /\ ScriptsFitTogether

LEMMA CallsFit ==
  ASSUME FitInv, NotesHold(prog, "unhurt"), Fits(prog), InStep, run.well,
         Now.kind = "call", ~Command.besteffort
  PROVE  Accepts(Now)
<1>1. TypeInv /\ Running /\ Unhurt
  BY DEF FitInv, KindInv, InStep
<1>2. run.cmd \in DOMAIN Commands(prog) /\ run.at \in DOMAIN Command.script
      /\ Now = Command.script[run.at]
  BY <1>1, NowFacts, PositionFacts DEF TypeInv
<1>3. hurt = {} /\ Relevant("unhurt")
  BY <1>1 DEF FitInv, KindInv, Unhurt, Relevant
<1>4. Whole("unhurt") /\ Was("unhurt").hurt = {}
  BY <1>3 DEF Whole, Was, View
<1>5. Fails(prog, "unhurt") = "refused" /\ TiesOf(prog, "unhurt") = {}
  BY DEF Fails, TiesOf
<1> DEFINE view == Was("unhurt")
           flow == Flow(prog, run.cmd, "unhurt", Notes(prog, "unhurt")[view], "refused")
<1>6. /\ view \in DOMAIN Notes(prog, "unhurt") /\ Typable(Command, "unhurt", view.open)
      /\ AlongRun(RunFlow("unhurt", Fails(prog, "unhurt")), TiesOf(prog, "unhurt"))
  BY <1>1, <1>3, <1>4 DEF FitInv, KindInv, Within
<1>7. PICK k \in flow[run.at] : Tells(k, chip)
  BY <1>5, <1>6 DEF AlongRun, OneIsTrue, RunFlow
<1>8. Certain(Now, k)
  BY <1>2, <1>4, <1>6, <1>7 DEF Fits, Command
<1> QED
  BY <1>7, <1>8, CertainIsAccepted DEF Accepts

LEMMA FitInit == Init => FitInv
<1> SUFFICES ASSUME Init PROVE FitInv
  OBVIOUS
<1>1. KindInv("unhurt") /\ ~Running /\ run = Idle /\ last = Idle
  BY KindInit DEF Init, Running
<1>2. ~Idle.failed
  BY DEF Idle
<1> QED
  BY <1>1, <1>2 DEF FitInv, ScriptsFitTogether

LEMMA FitStep ==
  ASSUME NotesHold(prog, "unhurt") /\ Fits(prog), FitInv, [Next]_vars PROVE FitInv'
<1>1. KindInv("unhurt")' /\ TypeInv /\ run \in RunType /\ last \in RunType
  BY KindStep DEF FitInv, Kinds, KindInv, TypeInv, TypeOK
<1>2. CASE UNCHANGED vars
  BY <1>1, <1>2
     DEF vars, FitInv, ScriptsFitTogether, BestEffort, Unhurt, Running, Command, Commands
<1>3. ASSUME NEW c \in DOMAIN Commands(prog), Begin(c) PROVE FitInv'
  <2>1. ~run'.failed /\ ~last'.failed /\ run'.well = Unhurt /\ Unhurt' = Unhurt
    BY <1>3 DEF Begin, Idle, Unhurt
  <2> QED
    BY <1>1, <2>1 DEF FitInv, ScriptsFitTogether
<1>4. CASE Perform \/ Branch \/ BranchIntoBlock
  <2>1. UNCHANGED <<prog, last, faults, hurt, lost>> /\ Running
    BY <1>4 DEF Perform, Branch, BranchIntoBlock, InStep
  <2>2. run'.cmd = run.cmd /\ run'.failed = run.failed /\ run'.well = run.well
    BY <1>1, <1>4 DEF Perform, Branch, BranchIntoBlock, RunType
  <2>3. Unhurt' = Unhurt
    BY <2>1 DEF Unhurt
  <2>4. ScriptsFitTogether'
    BY <2>1, <2>2 DEF FitInv, ScriptsFitTogether, BestEffort, Commands
  <2> QED
    BY <1>1, <2>1, <2>2, <2>3, <2>4 DEF FitInv
<1>5. CASE Refuse
  <2>1. /\ UNCHANGED <<prog, last, faults, hurt, lost>> /\ InStep /\ Running /\ Failed(TRUE)
        /\ ~Accepts(Now) /\ Now.kind \in {"call", "try"}
    BY <1>5 DEF Refuse, Failed, InStep
  <2>2. run'.cmd = run.cmd /\ run'.failed = (run.failed \/ Now.kind = "call")
    BY <1>1, <2>1 DEF Failed, RunType
  <2>3. run'.well => run.well
    BY <1>1, <2>1 DEF Failed, RunType
  <2>4. Unhurt' = Unhurt
    BY <2>1 DEF Unhurt
  <2>5. run.cmd # "" /\ run.cmd \in DOMAIN Commands(prog)
    BY <1>1, <2>1, NowFacts, IdleHasNoCommand DEF TypeInv, TypeOK
  <2>6. ScriptsFitTogether'
    <3>1. run'.well /\ run'.failed => BestEffort(run'.cmd)
      <4>1. CASE Now.kind = "call" /\ ~Command.besteffort
        BY <2>1, <2>3, <4>1, CallsFit
      <4>2. CASE Command.besteffort
        BY <2>2, <2>5, <4>2 DEF BestEffort, Command
      <4>3. CASE Now.kind # "call"
        BY <2>2, <2>3, <4>3 DEF FitInv, ScriptsFitTogether
      <4> QED
        BY <4>1, <4>2, <4>3
    <3>2. last.well /\ last.failed => BestEffort(last.cmd)
      BY DEF FitInv, ScriptsFitTogether
    <3> QED
      BY <2>1, <3>1, <3>2 DEF ScriptsFitTogether, BestEffort, Commands
  <2> QED
    BY <1>1, <2>1, <2>3, <2>4, <2>6 DEF FitInv
<1>6. CASE Fault
  <2>1. Failed(FALSE) /\ UNCHANGED <<prog, last>>
    BY <1>6 DEF Fault, Failed
  <2>2. ~run'.well
    BY <1>1, <2>1 DEF Failed, RunType
  <2>3. ScriptsFitTogether'
    BY <2>1, <2>2 DEF FitInv, ScriptsFitTogether, BestEffort, Commands
  <2> QED
    BY <1>1, <2>2, <2>3 DEF FitInv
<1>7. CASE Return
  <2>1. prog' = prog /\ run' = Idle /\ last' = run /\ ~Running' /\ ~Idle.failed
    BY <1>7 DEF Return, Running, Idle
  <2>2. ScriptsFitTogether'
    BY <2>1 DEF FitInv, ScriptsFitTogether, BestEffort, Commands
  <2> QED
    BY <1>1, <2>1, <2>2 DEF FitInv
<1> QED
  BY <1>2, <1>3, <1>4, <1>5, <1>6, <1>7 DEF Next

(* If the notes of the scripts in such sessions follow from their text, and*)
(* know at every call of a command that nothing was hurt in that what it   *)
(* asks for is there, then a script's calls never get in each other's way: *)
(* in a session of any length, whatever was set up and torn down before.   *)
THEOREM ScriptsFit ==
  ASSUME \A p \in Name : NotesHold(p, "unhurt") /\ Fits(p)
  PROVE  Spec => []ScriptsFitTogether
<1>1. FitInv /\ [Next]_vars => FitInv'
  <2>1. FitInv => prog \in Name
    BY DEF FitInv, KindInv, TypeInv, TypeOK
  <2> QED
    BY <2>1, FitStep
<1>2. FitInv => ScriptsFitTogether
  BY DEF FitInv
<1> QED
  BY <1>1, <1>2, FitInit, PTL DEF Spec

-----------------------------------------------------------------------------
(* Quiet.  While a command has neither spoken nor raised an error, it goes *)
(* along with the flow of what is known of any chip it may meet.           *)
QuietFlow == Flow(prog, run.cmd, "any", Notes(prog, "any")[Start("any")], "silent")
Looks == <<prog, run.cmd>> \notin Unreliable
QuietInv ==
  /\ KindInv("any")
  /\ Running => last = Idle
  /\ NotesHold(prog, "any") /\ Thorough(prog) =>
       /\ Running /\ Looks /\ ~run.said /\ ~run.raised => AlongRun(QuietFlow, {})
       /\ QuietMeansDone

LEMMA ThoroughExplains ==
  ASSUME TypeInv, Running, Looks, Thorough(prog)
  PROVE  /\ Explains(QuietFlow, Command.script, Notes(prog, "any")[Start("any")], "silent", {})
         /\ \A k \in QuietFlow[Len(Command.script) + 1] :
              Command.promise \subseteq Lasting(k.here) /\ Command.gone \subseteq k.away
<1>1. run.cmd \in DOMAIN Commands(prog)
  BY DEF TypeInv, TypeOK
<1> QED
  BY <1>1 DEF Thorough, QuietFlow, Command, Looks

LEMMA QuietWithin ==
  ASSUME QuietInv, InStep, KindInv("any")', UNCHANGED <<prog, last>>, run'.cmd = run.cmd,
         ~run'.said /\ ~run'.raised => ~run.said /\ ~run.raised /\ Advances("silent")
  PROVE  QuietInv'
<1>1. Running /\ TypeInv /\ last' = Idle
  BY DEF QuietInv, InStep, KindInv
<1>2. QuietFlow' = QuietFlow /\ Looks' = Looks
  BY DEF QuietFlow, Looks, Command, Commands
<1>3. ASSUME Thorough(prog), NotesHold(prog, "any"), Looks, ~run'.said, ~run'.raised
      PROVE  AlongRun(QuietFlow, {})'
  <2>1. AlongRun(QuietFlow, {})
    BY <1>1, <1>3 DEF QuietInv
  <2>2. OneIsTrue(QuietFlow[run'.at], {}, chip')
    BY <1>1, <1>3, <2>1, ThoroughExplains DEF Advances
  <2> QED
    BY <1>2, <2>2 DEF AlongRun
<1>4. QuietMeansDone'
  BY <1>1 DEF QuietMeansDone
<1> QED
  BY <1>1, <1>2, <1>3, <1>4 DEF QuietInv

LEMMA QuietInit == Init => QuietInv
<1> SUFFICES ASSUME Init PROVE QuietInv
  OBVIOUS
<1>1. KindInv("any") /\ ~Running /\ last = Idle
  BY KindInit DEF Init, Running
<1> QED
  BY <1>1 DEF QuietInv, QuietMeansDone

LEMMA QuietBegin ==
  ASSUME QuietInv, NEW c \in DOMAIN Commands(prog), Begin(c), KindInv("any")' PROVE QuietInv'
<1> DEFINE first == Notes(prog, "any")[Start("any")]
           script == Commands(prog)[c].script
<1>1. /\ run = Idle /\ UNCHANGED <<prog, chip>> /\ last' = Idle
      /\ run'.cmd = c /\ run'.at = 1
  BY DEF Begin, Idle
<1>2. ASSUME NotesHold(prog, "any"), Thorough(prog), <<prog, c>> \notin Unreliable
      PROVE  AlongRun(QuietFlow, {})'
  <2>1. Noted(Notes(prog, "any"), View("any", open, hurt), TiesOf(prog, "any"), chip)
    BY <1>1, <1>2 DEF QuietInv, KindInv, Between, Relevant, Running
  <2>2. View("any", open, hurt) = Start("any") /\ TiesOf(prog, "any") = {}
    BY DEF View, Start, TiesOf
  <2>3. OneIsTrue(first, {}, chip)
    BY <2>1, <2>2 DEF Noted
  <2>4. Explains(Flow(prog, c, "any", first, "silent"), script, first, "silent", {})
    BY <1>2 DEF Thorough
  <2>5. OneIsTrue(Flow(prog, c, "any", first, "silent")[1], {}, chip)
    <3> HIDE DEF first, script
    <3> QED
      BY <2>3, <2>4, AlongStart
  <2>6. QuietFlow' = Flow(prog, c, "any", first, "silent")
    BY <1>1 DEF QuietFlow
  <2> QED
    BY <1>1, <2>5, <2>6 DEF AlongRun
<1>3. QuietMeansDone'
  BY <1>1 DEF QuietMeansDone
<1>4. Looks' => <<prog, c>> \notin Unreliable
  BY <1>1 DEF Looks
<1> QED
  BY <1>1, <1>2, <1>3, <1>4 DEF QuietInv

LEMMA QuietReturn == ASSUME QuietInv, Return, KindInv("any")' PROVE QuietInv'
<1> DEFINE end == Len(Command.script) + 1
<1>1. /\ Running /\ run.at > Len(Command.script) /\ run' = Idle /\ last' = run
      /\ prog' = prog /\ chip' = {fact \in chip : fact[1] # "local"}
  BY DEF Return, Ended
<1>2. /\ TypeInv /\ run.cmd \in DOMAIN Commands(prog) /\ prog \in Name
      /\ run.at \in 1 .. Len(Command.script) + 1
  BY <1>1 DEF QuietInv, KindInv, TypeInv, TypeOK
<1>3. run.at = end
  <2>1. Len(Command.script) \in Nat
    BY <1>2, CommandFacts DEF Command
  <2> QED
    BY <1>1, <1>2, <2>1
<1>4. ~Running'
  BY <1>1 DEF Running, Idle
<1>5. ASSUME NotesHold(prog, "any"), Thorough(prog), Looks, ~run.said, ~run.raised
      PROVE  Command.promise \subseteq chip' /\ Command.gone \cap chip' = {}
  <2>1. PICK k \in QuietFlow[end] : Tells(k, chip)
    BY <1>1, <1>3, <1>5 DEF QuietInv, AlongRun, OneIsTrue
  <2>2. Command.promise \subseteq Lasting(k.here) /\ Command.gone \subseteq k.away
    BY <1>1, <1>2, <1>5, <2>1, ThoroughExplains
  <2> QED
    BY <1>1, <2>1, <2>2 DEF Tells, Lasting
<1>6. ASSUME NotesHold(prog, "any"), Thorough(prog) PROVE QuietMeansDone'
  BY <1>1, <1>5, <1>6 DEF QuietMeansDone, Looks, Command, Commands
<1> QED
  BY <1>1, <1>4, <1>6 DEF QuietInv

LEMMA QuietStep == QuietInv /\ [Next]_vars => QuietInv'
<1> SUFFICES ASSUME QuietInv, [Next]_vars PROVE QuietInv'
  OBVIOUS
<1>1. KindInv("any")' /\ TypeInv /\ run \in RunType
  BY KindStep DEF QuietInv, Kinds, KindInv, TypeInv, TypeOK
<1>2. CASE UNCHANGED vars
  <2>1. /\ QuietFlow' = QuietFlow /\ Looks' = Looks /\ Running' = Running
        /\ QuietMeansDone' = QuietMeansDone
    BY <1>2 DEF vars, QuietFlow, Looks, Running, Command, Commands, QuietMeansDone
  <2>2. AlongRun(QuietFlow, {})' = AlongRun(QuietFlow, {})
    BY <1>2, <2>1 DEF vars, AlongRun
  <2> QED
    BY <1>1, <1>2, <2>1, <2>2 DEF vars, QuietInv
<1>3. CASE \E c \in DOMAIN Commands(prog) : Begin(c)
  BY <1>1, <1>3, QuietBegin
<1>4. CASE Perform \/ Branch \/ BranchIntoBlock
  <2>1. UNCHANGED <<prog, last>> /\ InStep
    BY <1>4 DEF Perform, Branch, BranchIntoBlock
  <2>2. run'.cmd = run.cmd /\ run'.said = run.said /\ run'.raised = run.raised
    BY <1>1, <1>4 DEF Perform, Branch, BranchIntoBlock, RunType
  <2>3. Advances("silent")
    BY <1>1, <1>4, StepsAdvance
  <2> QED
    BY <1>1, <2>1, <2>2, <2>3, QuietWithin
<1>5. CASE Refuse \/ Fault
  <2>1. PICK well \in BOOLEAN : InStep /\ Failed(well) /\ Now.kind \in {"call", "try"}
    BY <1>5 DEF Refuse, Fault
  <2>2. /\ UNCHANGED <<prog, last>> /\ run'.cmd = run.cmd
        /\ run'.said = (run.said \/ Now.says) /\ run'.raised = (run.raised \/ Now.skip = -1)
    BY <1>1, <2>1, FailedFacts DEF TypeInv
  <2>3. ~run'.said /\ ~run'.raised => AllowsFor("silent")
    BY <2>2 DEF AllowsFor
  <2>4. ~run'.said /\ ~run'.raised => Advances("silent")
    BY <1>1, <2>1, <2>3, FailuresAdvance
  <2> QED
    BY <1>1, <2>1, <2>2, <2>4, QuietWithin
<1>6. CASE Return
  BY <1>1, <1>6, QuietReturn
<1> QED
  BY <1>2, <1>3, <1>4, <1>5, <1>6 DEF Next

(* If the notes of the scripts follow from their text and the commands are *)
(* thorough - those that are not known not to look have done all they are  *)
(* there for wherever they can end in silence - then a command that returns*)
(* success without a message has done it: in a session of any length,      *)
(* however its calls fail, and whatever the commands before it left behind.*)
THEOREM QuietDone ==
  ASSUME \A p \in Name : NotesHold(p, "any") /\ Thorough(p)
  PROVE  Spec => []QuietMeansDone
<1>1. QuietInv => QuietMeansDone
  <2>1. QuietInv => prog \in Name
    BY DEF QuietInv, KindInv, TypeInv, TypeOK
  <2> QED
    BY <2>1 DEF QuietInv
<1> QED
  BY <1>1, QuietInit, QuietStep, PTL DEF Spec
=============================================================================
