---------------------------- MODULE CintSession ----------------------------
(***************************************************************************)
(* A session of the CINT shell: an operator types the commands of a script *)
(* one after the other, each runs to its end, and any SDK call may fail.   *)
(* The chip outlives the commands: what one leaves half done the next ones *)
(* meet.                                                                   *)
(*                                                                         *)
(* A program is the set of commands of one script: the facts it starts     *)
(* from (boot), those its tear-down is known to leave (stays), and for     *)
(* each command its script, the facts it is there to establish (promise)   *)
(* or to remove (gone) and those that stay for as long as its stage is open*)
(* (keeps).  The operator keeps to the script's protocol: a command is     *)
(* typed when the stages in needs are open and those in unless are not, and*)
(* opens or closes stages of its own, whether or not it succeeds.  A best- *)
(* effort command tries to remove what may not be there.                   *)
(***************************************************************************)
EXTENDS Integers, Sequences

CONSTANTS
  Program,      \* the scripts, by name
  RefersTo(_, _), \* the facts a fact of a program is about
  Unreliable,   \* <<script, command>>: those whose success tells nothing
  MaxCommands,  \* commands typed in a session, per program
  MaxFaults     \* calls that fail without the script's doing, per program

Name == DOMAIN Program
Commands(p) == Program[p].commands
Reliable(p) == \A c \in DOMAIN Commands(p) : <<p, c>> \notin Unreliable

ASSUME ProgramAssumption ==
  \A p \in Name :
    /\ MaxCommands[p] \in Nat /\ MaxFaults[p] \in Nat
    /\ Program[p].robust \in BOOLEAN
    /\ \A c \in DOMAIN Commands(p) : "" # c
    /\ \A c \in DOMAIN Commands(p) :
         LET script == Commands(p)[c].script
         IN  /\ Commands(p)[c].opens \cap Commands(p)[c].closes = {}
             /\ Len(script) \in Nat /\ DOMAIN script = 1 .. Len(script)
             /\ \A i \in DOMAIN script :
                  /\ script[i].kind \in {"call", "try", "test", "let"}
                  /\ script[i].says \in BOOLEAN
                  /\ script[i].skip \in -1 .. Len(script) - i

VARIABLES
  prog,      \* the script that is loaded
  chip,      \* the facts that hold
  open,      \* stages of the operator's protocol
  run,       \* the command in progress
  last,      \* how the command before it ended, as the operator knows it
  typed,     \* commands so far
  faults,    \* calls that failed without the script's doing
  done,      \* stages whose command ended with no failure
  hurt,      \* stages opened by a command that had such a failure
  lost,      \* has a command that closes a stage had one?
  alarm      \* has any failure been reported since the chip was reset?

vars == <<prog, chip, open, run, last, typed, faults, done, hurt, lost, alarm>>

Idle == [cmd |-> "", at |-> 0, failed |-> FALSE, said |-> FALSE, raised |-> FALSE,
         well |-> FALSE]

Command == Commands(prog)[run.cmd]
Running == run # Idle
Ended == Running /\ run.at > Len(Command.script)
Now == Command.script[run.at]
InStep == Running /\ run.at <= Len(Command.script)

Init ==
  /\ prog \in Name
  /\ chip = Program[prog].boot
  /\ open = {} /\ done = {} /\ hurt = {} /\ lost = FALSE /\ alarm = FALSE
  /\ run = Idle /\ last = Idle
  /\ typed = 0 /\ faults = 0

(* No call has failed without the script's doing; of a robust script: none *)
(* that still matters, since closing a stage repairs what happened in it.  *)
Unhurt == IF Program[prog].robust THEN ~lost /\ hurt = {} ELSE faults = 0

(* The operator types a command.                                           *)
Begin(c) ==
  /\ run = Idle /\ typed < MaxCommands[prog]
  /\ LET cmd == Commands(prog)[c]
     IN  /\ cmd.needs \cup cmd.closes \subseteq open
         /\ (cmd.opens \cup cmd.unless) \cap open = {}
         /\ open' = open \cup cmd.opens
         /\ done' = done \ cmd.closes
  /\ run' = [Idle EXCEPT !.cmd = c, !.at = 1, !.well = Unhurt]
  /\ last' = Idle
  /\ typed' = typed + 1
  /\ UNCHANGED <<prog, chip, faults, hurt, lost, alarm>>

Accepts(step) == step.need \subseteq chip /\ step.absent \cap chip = {}

(* The next call succeeds, the test holds, the variable is assigned.       *)
Perform ==
  /\ InStep /\ Accepts(Now)
  /\ chip' = (chip \ Now.drop) \cup Now.make
  /\ run' = [run EXCEPT !.at = @ + 1]
  /\ UNCHANGED <<prog, open, last, typed, faults, done, hurt, lost, alarm>>

(* The condition does not hold, or reads a variable nothing was assigned.  *)
Branch ==
  /\ InStep /\ Now.kind = "test"
  /\ ~Accepts(Now) \/ ~(Now.known \subseteq chip)
  /\ run' = [run EXCEPT !.at = @ + 1 + Now.skip]
  /\ UNCHANGED <<prog, chip, open, last, typed, faults, done, hurt, lost, alarm>>
BranchIntoBlock ==
  /\ InStep /\ Now.kind = "test"
  /\ ~Accepts(Now) /\ ~(Now.known \subseteq chip)
  /\ run' = [run EXCEPT !.at = @ + 1]
  /\ UNCHANGED <<prog, chip, open, last, typed, faults, done, hurt, lost, alarm>>

(* A plausible bug: it stands for Failed in a mutation run.                *)
FailedPastTheEnd(well) ==
  /\ run' = [run EXCEPT
               !.well = @ /\ well,
               !.at = IF Now.skip = -1 THEN Len(Command.script) + 2 ELSE @ + 2 + Now.skip,
               !.failed = @ \/ Now.kind = "call",
               !.said = @ \/ Now.says,
               !.raised = @ \/ Now.skip = -1]
  /\ alarm' = (alarm \/ Now.says \/ Now.skip = -1)
  /\ UNCHANGED <<prog, chip, open, last, typed, done>>

(* The call fails: the script goes on where its error handling leads.      *)
Failed(well) ==
  /\ run' = [run EXCEPT
               !.well = @ /\ well,
               !.at = IF Now.skip = -1 THEN Len(Command.script) + 1 ELSE @ + 1 + Now.skip,
               !.failed = @ \/ Now.kind = "call",
               !.said = @ \/ Now.says,
               !.raised = @ \/ Now.skip = -1]
  /\ alarm' = (alarm \/ Now.says \/ Now.skip = -1)
  /\ UNCHANGED <<prog, chip, open, last, typed, done>>

Refuse ==
  /\ InStep /\ Now.kind \in {"call", "try"} /\ ~Accepts(Now)
  /\ Failed(TRUE)
  /\ UNCHANGED <<faults, hurt, lost>>

Fault ==
  /\ InStep /\ Now.kind \in {"call", "try"} /\ Accepts(Now)
  /\ faults < MaxFaults[prog]
  /\ faults' = faults + 1
  /\ hurt' = hurt \cup Command.opens
  /\ lost' = (lost \/ Command.opens = {})
  /\ Failed(FALSE)

Return ==
  /\ Ended
  /\ run' = Idle /\ last' = run
  /\ open' = open \ Command.closes
  /\ done' = done \cup (IF run.failed THEN {} ELSE Command.opens)
  /\ hurt' = hurt \ Command.closes
  /\ chip' = {fact \in chip : fact[1] # "local"}
  /\ UNCHANGED <<prog, typed, faults, lost, alarm>>

Next ==
  \/ \E c \in DOMAIN Commands(prog) : Begin(c)
  \/ Perform \/ Branch \/ BranchIntoBlock \/ Refuse \/ Fault \/ Return

Spec == Init /\ [][Next]_vars

-----------------------------------------------------------------------------
(* Types; a command never leaves its script.                               *)
RunType ==
  [cmd : {""} \cup UNION {DOMAIN Commands(p) : p \in Name}, at : Nat,
   failed : BOOLEAN, said : BOOLEAN, raised : BOOLEAN, well : BOOLEAN]
TypeOK ==
  /\ prog \in Name
  /\ run \in RunType /\ last \in RunType
  /\ Running => run.cmd \in DOMAIN Commands(prog) /\ run.at \in 1 .. Len(Command.script) + 1
  /\ typed \in 0 .. MaxCommands[prog] /\ faults \in 0 .. MaxFaults[prog]
  /\ hurt \cup done \subseteq open
  /\ {lost, alarm} \subseteq BOOLEAN

(* A script's own calls never get in each other's way: unless a call has   *)
(* failed without the script's doing, none fails, whatever was set up and  *)
(* torn down before, but for those a best-effort command makes in vain.  A *)
(* robust script also recovers: once the stage that was hurt is closed,    *)
(* everything works again.                                                 *)
BestEffort(cmd) == cmd # "" /\ Commands(prog)[cmd].besteffort
ScriptsFitTogether ==
  \A r \in {run, last} : r.well /\ r.failed => BestEffort(r.cmd)

(* Closing what was opened leaves nothing behind, except what the script   *)
(* is known to leave; a robust script cleans up after a set-up that failed *)
(* half-way.                                                               *)
TearDownIsComplete ==
  ~Running /\ open = {} /\ Unhurt => chip \subseteq Program[prog].boot \cup Program[prog].stays

(* A stage that was set up without a failure stands until it is torn down, *)
(* whatever the commands of other stages do, or fail to do, meanwhile.     *)
OpenStagesStand ==
  ~Running =>
    \A c \in DOMAIN Commands(prog) :
      Commands(prog)[c].opens \subseteq done => Commands(prog)[c].keeps \subseteq chip

(* Nothing refers to an object that is gone, unless a failure was reported;*)
(* of a script that does not report them, unless a call has failed.        *)
Reassuring == IF Reliable(prog) THEN ~alarm ELSE faults = 0
NothingDanglesSilently ==
  ~Running /\ Reassuring => \A fact \in chip : RefersTo(prog, fact) \subseteq chip

(* A command that returns success without a message has done what it is    *)
(* there for, whatever the commands before it left behind and whichever of *)
(* its calls failed; but for those that are known not to look.             *)
QuietMeansDone ==
  last # Idle /\ <<prog, last.cmd>> \notin Unreliable /\ ~last.said /\ ~last.raised =>
    /\ Commands(prog)[last.cmd].promise \subseteq chip
    /\ Commands(prog)[last.cmd].gone \cap chip = {}

(* What a stage rests on.  A test is assured if the assignment before it,  *)
(* the only way to it, sets what it looks for.  Step j of a script leads to*)
(* step i if it does not skip it.                                          *)
Assured(script, j) ==
  /\ j > 1 /\ script[j].kind = "test" /\ script[j].absent = {}
  /\ script[j - 1].kind = "let"
  /\ script[j].need \cup script[j].known \subseteq script[j - 1].make
  /\ \A k \in 1 .. j - 2 : k + 1 + script[k].skip # j
LeadsTo(script, j, i) == j + script[j].skip < i \/ Assured(script, j)

(* A step secures a fact if a command that passes it without a failure has *)
(* made the fact, for good.  A stage holds one if every command that opens *)
(* the stage secures the fact, and no other command that may be typed while*)
(* it is open takes the fact away, nor does the end of a command.          *)
Secures(script, i, fact) ==
  /\ script[i].kind \in {"call", "let"} /\ fact \in script[i].make
  /\ \A j \in 1 .. i - 1 :
       \/ script[j].kind \in {"call", "let"}
       \/ script[j].skip # -1 /\ LeadsTo(script, j, i)
  /\ \A j \in i + 1 .. Len(script) : fact \in script[j].drop => fact \in script[j].make
Holds(p, stage, fact) ==
  /\ fact[1] # "local"
  /\ \A c \in DOMAIN Commands(p) :
       LET cmd == Commands(p)[c]
       IN  \/ stage \in cmd.opens /\ \E i \in DOMAIN cmd.script : Secures(cmd.script, i, fact)
           \/ stage \notin cmd.opens /\ stage \in cmd.closes \cup cmd.unless
           \/ stage \notin cmd.opens /\ \A i \in DOMAIN cmd.script :
                fact \in cmd.script[i].drop => fact \in cmd.script[i].make

(* Every fact that is to stay while the stages of a command are open is    *)
(* held by one of them: of each script, whatever becomes of its calls.     *)
StagesHold ==
  typed = 0 =>
    \A c \in DOMAIN Commands(prog) : \A fact \in Commands(prog)[c].keeps :
      \E stage \in Commands(prog)[c].opens : Holds(prog, stage, fact)
=============================================================================
