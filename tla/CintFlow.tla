------------------------------ MODULE CintFlow ------------------------------
(***************************************************************************)
(* What the text of a script tells of the chip, for sessions of any length.*)
(*                                                                         *)
(* A piece of knowledge is a set of facts that hold (here), of facts that  *)
(* do not (away), and of references that may be broken (loose).  Several   *)
(* pieces are alternatives: one of them is true.  Notes hold what is known *)
(* between two commands, and Flow says what is known at each step of one.  *)
(* Where both come from does not matter: the conditions below check, step  *)
(* by step, that they follow from the text, and those conditions are what  *)
(* the theorems about sessions assume.                                     *)
(***************************************************************************)
EXTENDS CintSession

CONSTANTS
  Notes(_, _),        \* of a program, in a kind of session: alternatives, by the
                      \* open and the hurt stages
  Flow(_, _, _, _, _) \* of a program's command, in a kind of session, from the
                      \* alternatives known first: alternatives, by the step

(* A tie is a fact and one it is about.                                    *)
Facts(p) ==
  Program[p].boot \cup
  UNION {UNION {Commands(p)[c].script[i].make : i \in DOMAIN Commands(p)[c].script} :
           c \in DOMAIN Commands(p)}
Ties(p) == UNION {{<<fact, other>> : other \in RefersTo(p, fact)} : fact \in Facts(p)}

Tells(k, facts) == k.here \subseteq facts /\ k.away \cap facts = {}
Binds(ties, k, facts) == \A t \in ties : t[1] \in facts /\ t \notin k.loose => t[2] \in facts
OneIsTrue(ks, ties, facts) == \E k \in ks : Tells(k, facts) /\ Binds(ties, k, facts)

Follows(l, k) == l.here \subseteq k.here /\ l.away \subseteq k.away /\ k.loose \subseteq l.loose
Covers(ls, k) == k \in ls \/ \E l \in ls : Follows(l, k)

Knowing(here, away, loose) ==
  [here |-> here, away |-> away, loose |-> {t \in loose : t[1] \notin away /\ t[2] \notin here}]
Success(step, k, ties) ==
  Knowing(((k.here \cup step.need) \ step.drop) \cup step.make,
          (k.away \cup step.absent \cup step.drop) \ step.make,
          k.loose \cup {t \in ties : t[1] \in step.make \/ t[2] \in step.drop \ step.make})

(* What a step that is not accepted tells, if it asks for one fact.        *)
Single(facts) == \A x, y \in facts : x = y
Refused(step, k) ==
  CASE step.absent = {} /\ Single(step.need) -> Knowing(k.here, k.away \cup step.need, k.loose)
    [] step.need = {} /\ Single(step.absent) -> Knowing(k.here \cup step.absent, k.away, k.loose)
    [] OTHER -> k

(* The ways out of a step, when calls may fail in any way, in silence only,*)
(* or only when they are refused.                                          *)
Certain(step, k) == step.need \subseteq k.here /\ step.absent \subseteq k.away
Possible(step, k) == step.need \cap k.away = {} /\ step.absent \cap k.here = {}
MayFail(step, k, fails) ==
  /\ fails = "silent" => ~step.says /\ step.skip # -1
  /\ fails = "refused" => ~Certain(step, k)
Way(condition, to, k) == IF condition THEN {<<to, k>>} ELSE {}
Ways(script, i, k, fails, ties) ==
  LET step == script[i]
      known == step.known \subseteq k.here
      past == i + 1 + step.skip
  IN  Way(Possible(step, k), i + 1, Success(step, k, ties))
      \cup (IF step.kind = "test"
            THEN Way(known /\ ~Certain(step, k), past, Refused(step, k))
                 \cup Way(~known, past, k) \cup Way(~known, i + 1, k)
            ELSE Way(step.kind # "let" /\ MayFail(step, k, fails),
                     IF step.skip = -1 THEN Len(script) + 1 ELSE past,
                     IF fails = "refused" THEN Refused(step, k) ELSE k))

(* A flow explains a script if it covers all that is known first, and at   *)
(* each step all that the ways which lead to it bring along.               *)
Explains(flow, script, first, fails, ties) ==
  /\ \A k \in first : Covers(flow[1], k)
  /\ \A i \in DOMAIN script : \A k \in flow[i] : \A way \in Ways(script, i, k, fails, ties) :
       Covers(flow[way[1]], way[2])

-----------------------------------------------------------------------------
(* Three kinds of session: all of them; those that are reassuring; those in*)
(* which nothing that still matters was hurt.                              *)
Kinds == {"any", "calm", "unhurt"}
View(kind, opened, harmed) ==
  [open |-> IF kind = "any" THEN {} ELSE opened, hurt |-> IF kind = "unhurt" THEN harmed ELSE {}]
Start(kind) == View(kind, {}, {})
Fails(p, kind) ==
  CASE kind = "any" -> "any"
    [] kind = "calm" /\ Reliable(p) -> "silent"
    [] OTHER -> "refused"
TiesOf(p, kind) == IF kind = "calm" THEN Ties(p) ELSE {}

Typable(cmd, kind, opened) ==
  kind # "any" => /\ cmd.needs \cup cmd.closes \subseteq opened
                  /\ (cmd.opens \cup cmd.unless) \cap opened = {}
Recovers(p, cmd, kind) == kind = "unhurt" /\ Program[p].robust /\ cmd.opens # {}
Lasting(facts) == {fact \in facts : fact[1] # "local"}

(* The notes cover what a command leaves, without the script's variables.  *)
Outlasts(l, k) ==
  /\ l.here \subseteq Lasting(k.here) /\ Lasting(l.away) \subseteq k.away
  /\ k.loose \subseteq l.loose
Carries(p, c, kind, notes, view, fails, harmed) ==
  LET cmd == Commands(p)[c]
      flow == Flow(p, c, kind, notes[view], fails)
      next == View(kind, (view.open \cup cmd.opens) \ cmd.closes, harmed \ cmd.closes)
  IN  /\ Explains(flow, cmd.script, notes[view], fails, TiesOf(p, kind))
      /\ \A k \in flow[Len(cmd.script) + 1] :
           next \in DOMAIN notes /\ \E l \in notes[next] : Outlasts(l, k)

(* The notes of a program follow from its text.  Of a robust one they also *)
(* tell what a command leaves that some call has failed in.                *)
NotesHold(p, kind) ==
  LET notes == Notes(p, kind)
  IN  /\ Start(kind) \in DOMAIN notes
      /\ OneIsTrue(notes[Start(kind)], TiesOf(p, kind), Program[p].boot)
      /\ \A t \in TiesOf(p, kind) : t[2][1] # "local"
      /\ \A view \in DOMAIN notes : \A c \in DOMAIN Commands(p) :
           LET cmd == Commands(p)[c]
           IN  Typable(cmd, kind, view.open) =>
                 /\ Carries(p, c, kind, notes, view, Fails(p, kind), view.hurt)
                 /\ Recovers(p, cmd, kind) =>
                      Carries(p, c, kind, notes, view, "any", view.hurt \cup cmd.opens)

(* The commands of a thorough program have done what they are there for    *)
(* where they end in silence; but for those that are known not to look.    *)
Thorough(p) ==
  LET first == Notes(p, "any")[Start("any")]
  IN  \A c \in DOMAIN Commands(p) :
        LET cmd == Commands(p)[c]
            flow == Flow(p, c, "any", first, "silent")
        IN  <<p, c>> \notin Unreliable =>
            /\ Explains(flow, cmd.script, first, "silent", {})
            /\ \A k \in flow[Len(cmd.script) + 1] :
                 cmd.promise \subseteq Lasting(k.here) /\ cmd.gone \subseteq k.away

(* The calls of a fitting one are never refused, and with all its stages   *)
(* closed nothing is left of it but what is known to stay.                 *)
Fits(p) ==
  LET notes == Notes(p, "unhurt")
  IN  /\ \A view \in DOMAIN notes : \A c \in DOMAIN Commands(p) :
           LET cmd == Commands(p)[c]
               flow == Flow(p, c, "unhurt", notes[view], "refused")
           IN  view.hurt = {} /\ Typable(cmd, "unhurt", view.open) /\ ~cmd.besteffort =>
                 \A i \in DOMAIN cmd.script : \A k \in flow[i] :
                   cmd.script[i].kind = "call" => Certain(cmd.script[i], k)
      /\ \A k \in notes[Start("unhurt")] :
           Lasting(Facts(p)) \ (Program[p].boot \cup Program[p].stays) \subseteq k.away

(* In a tied one no reference is loose between two commands.               *)
Tied(p) ==
  LET notes == Notes(p, "calm")
  IN  \A view \in DOMAIN notes : \A k \in notes[view] : k.loose = {}

(* The text of every script bears out what is said of it: what TLC checks  *)
(* of sessions of a few commands then holds in sessions of any length, and *)
(* with any number of failing calls.                                       *)
TextsBearOut ==
  typed = 0 =>
    /\ NotesHold(prog, "any") /\ Thorough(prog)
    /\ NotesHold(prog, "unhurt") /\ Fits(prog)
    /\ NotesHold(prog, "calm") /\ Tied(prog)
=============================================================================
