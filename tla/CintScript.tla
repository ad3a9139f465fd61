----------------------------- MODULE CintScript -----------------------------
(***************************************************************************)
(* The functions of a CINT script are straight lines of SDK calls with a   *)
(* test of the result after each: a block, a sequence of steps.  A fact is *)
(* anything the chip or the script's own variables may hold: an object     *)
(* that exists, a setting, a variable that has been assigned.              *)
(*                                                                         *)
(* kind   "call" may fail, and so may "try", whose failure the script makes *)
(*        up for; "test" and "let" cannot                                  *)
(* need   facts a call relies on; facts a test looks for                   *)
(* absent facts that make the call fail, or the test                       *)
(* known  a test whose variables these are not all assigned goes either way*)
(* make, drop   the effect of a success                                    *)
(* skip   steps left out when a call or test fails; Raise: the function    *)
(*        returns the error, and so do its callers, up to one that does    *)
(*        not look                                                         *)
(* says   a message is printed when the call fails                         *)
(***************************************************************************)
EXTENDS Integers, SequencesExt

Raise == -1

Step == [kind |-> "call", need |-> {}, absent |-> {}, known |-> {},
         make |-> {}, drop |-> {}, skip |-> Raise, says |-> TRUE]

(* SDK calls: one that relies on facts and makes others, one that creates  *)
(* an object under an id of the caller's, one that destroys an object and  *)
(* what goes with it, one that overwrites a setting.                       *)
Call(need, make) == <<[Step EXCEPT !.need = need, !.make = make]>>
Create(need, object) ==
  <<[Step EXCEPT !.need = need, !.absent = {object}, !.make = {object}]>>
Destroy(object, parts) ==
  <<[Step EXCEPT !.need = {object}, !.drop = {object} \cup parts]>>
Replace(need, old, new) ==
  <<[Step EXCEPT !.need = need, !.drop = old, !.make = new]>>
Drop(need, old) == Replace(need, old, {})
Query == Call({}, {})

(* The script's variables: declaring a local one leaves it with no value,  *)
(* and a command's own end with it.                                        *)
Local(variable) == <<"local", variable>>
Declare(variable) == <<[Step EXCEPT !.kind = "let", !.drop = {Local(variable)}]>>
Let(old, new) == <<[Step EXCEPT !.kind = "let", !.drop = old, !.make = new]>>

(* Conditions around a block.                                              *)
Test(facts, others, vars, n) ==
  <<[Step EXCEPT !.kind = "test", !.need = facts, !.absent = others, !.known = vars,
                 !.skip = n]>>
If(facts, block) == Test(facts, {}, {}, Len(block)) \o block
IfNot(others, block) == Test({}, others, {}, Len(block)) \o block
IfKnown(facts, vars, block) == Test(facts, {}, vars, Len(block)) \o block

(* A call, and what is done instead when it fails.                         *)
Never == <<"never">>
OrElse(call, block) ==
  <<[call[1] EXCEPT !.kind = "try", !.skip = 1, !.says = FALSE]>>
  \o Test({Never}, {}, {}, Len(block)) \o block

(* A block whose errors its caller does not pass on, one no result of which *)
(* is looked at, and one whose failures print nothing.  (SubSeq gives TLC a *)
(* sequence rather than a function to be applied again and again.)         *)
Steps(block) == SubSeq(block, 1, Len(block))
Caught(block) ==
  Steps([i \in DOMAIN block |->
           IF block[i].skip = Raise THEN [block[i] EXCEPT !.skip = Len(block) - i] ELSE block[i]])
Unchecked(block) ==
  Steps([i \in DOMAIN block |->
           IF block[i].skip = Raise THEN [block[i] EXCEPT !.skip = 0] ELSE block[i]])
Silent(block) == Steps([i \in DOMAIN block |-> [block[i] EXCEPT !.says = FALSE]])

Ignored(block) == Silent(Unchecked(block))

(* Body(x) for every member of a sequence, in its order.                   *)
Each(s, Body(_)) == FlattenSeq([i \in DOMAIN s |-> Body(s[i])])

(* What a block leaves when all goes well and every test holds.            *)
Made(block) ==
  {fact \in UNION {block[i].make : i \in DOMAIN block} :
     \E i \in DOMAIN block :
       /\ fact \in block[i].make
       /\ \A j \in i + 1 .. Len(block) : fact \in block[j].drop => fact \in block[j].make}

(* Commands: one that is typed when the stages in needs are open, one that *)
(* opens a stage of its own, which keeps facts for as long as it is open,  *)
(* one that closes a stage, after which facts are gone; one that is not    *)
(* typed while some stage is open; a best-effort one, some call of which is *)
(* known to be made in vain.                                               *)
Does(needs, script) ==
  [script |-> script, promise |-> {fact \in Made(script) : fact[1] # "local"}, gone |-> {},
   keeps |-> {}, needs |-> needs, opens |-> {}, closes |-> {}, unless |-> {}, besteffort |-> FALSE]
Opens(stage, needs, script, keeps) ==
  [Does(needs, script) EXCEPT !.opens = {stage}, !.keeps = keeps]
Closes(stage, needs, script, gone) ==
  [Does(needs, script) EXCEPT !.closes = {stage}, !.promise = {}, !.gone = gone]
Unless(stages, command) == [command EXCEPT !.unless = stages]
BestEffort(command) == [command EXCEPT !.besteffort = TRUE]
Promising(command, facts) == [command EXCEPT !.promise = facts]

(* A script that takes nothing down: whatever it made may stay.            *)
Lasting(boot, commands) ==
  [boot |-> boot, robust |-> FALSE, commands |-> commands,
   stays |-> UNION {UNION {commands[c].script[i].make : i \in DOMAIN commands[c].script} :
                      c \in DOMAIN commands}]
(* One that is a single command, typed as often as one likes, and one whose*)
(* command works only the first time.                                      *)
Demo(script) == Lasting({}, [execute |-> Does({}, script)])
Once(script) == Lasting({}, [execute |-> Opens("executed", {}, script, {})])
=============================================================================
