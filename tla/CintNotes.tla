----------------------------- MODULE CintNotes -----------------------------
(***************************************************************************)
(* The notes of CintFlow, worked out from the text: knowledge flows from   *)
(* the first step of a command to its end, and from command to command     *)
(* until nothing changes any more.  Where several ways meet, what they     *)
(* bring along is merged to what they have in common; only of the programs *)
(* in Apart, in those kinds of session, are the alternatives kept apart.   *)
(***************************************************************************)
EXTENDS CintFlow, TLC

CONSTANT Apart

Common(sets) == {fact \in UNION sets : \A facts \in sets : fact \in facts}
Merged(ks) ==
  IF ks = {} THEN {}
  ELSE {[here |-> Common({k.here : k \in ks}), away |-> Common({k.away : k \in ks}),
         loose |-> UNION {k.loose : k \in ks}]}
Arranged(p, kind, ks) == IF <<p, kind>> \in Apart THEN ks ELSE Merged(ks)

(* The ways that lead on, and what is known of the steps so far, once steps*)
(* lo .. hi have been left.  (Halving keeps TLC's stack short; the test of *)
(* the first half has it left before the second.)                          *)
Leave(p, c, kind, fails, i, s) ==
  LET script == Commands(p)[c].script
      ties == TiesOf(p, kind)
      known == Arranged(p, kind, {way[2] : way \in {w \in s.ahead : w[1] = i}})
  IN  [ahead |-> {way \in s.ahead : way[1] # i}
                 \cup (IF i > Len(script) THEN {}
                       ELSE UNION {Ways(script, i, k, fails, ties) : k \in known}),
       known |-> Append(s.known, known)]
RECURSIVE LeaveAll(_, _, _, _, _, _, _)
LeaveAll(p, c, kind, fails, lo, hi, s) ==
  IF lo = hi THEN Leave(p, c, kind, fails, lo, s)
  ELSE LET middle == (lo + hi) \div 2
           half == LeaveAll(p, c, kind, fails, lo, middle, s)
       IN  IF half.known = <<>> THEN half
           ELSE LeaveAll(p, c, kind, fails, middle + 1, hi, half)
WorkedOutFlow(p, c, kind, first, fails) ==
  LeaveAll(p, c, kind, fails, 1, Len(Commands(p)[c].script) + 1,
           [ahead |-> {<<1, k>> : k \in first}, known |-> <<>>]).known

(* What a program's text mentions, and what is known of the chip at first. *)
Mentioned(p) ==
  Facts(p) \cup UNION {UNION {LET step == Commands(p)[c].script[i]
                              IN  step.need \cup step.absent \cup step.known \cup step.drop :
                                i \in DOMAIN Commands(p)[c].script} : c \in DOMAIN Commands(p)}
AtBoot(p, mentioned) ==
  [here |-> Program[p].boot, away |-> mentioned \ Program[p].boot, loose |-> {}]

(* What typing a command tells of the views it leads to.                   *)
Leaving(p, c, kind, view, first, mentioned, fails, harmed) ==
  LET cmd == Commands(p)[c]
      next == View(kind, (view.open \cup cmd.opens) \ cmd.closes, harmed \ cmd.closes)
  IN  {<<next, [here |-> Lasting(k.here),
                away |-> k.away \cup (mentioned \ Lasting(mentioned)), loose |-> k.loose]>> :
         k \in WorkedOutFlow(p, c, kind, first, fails)[Len(cmd.script) + 1]}
LeavingView(p, kind, view, first, mentioned) ==
  UNION {LET cmd == Commands(p)[c]
         IN  IF ~Typable(cmd, kind, view.open) THEN {}
             ELSE Leaving(p, c, kind, view, first, mentioned, Fails(p, kind), view.hurt)
                  \cup (IF Recovers(p, cmd, kind)
                        THEN Leaving(p, c, kind, view, first, mentioned, "any",
                                     view.hurt \cup cmd.opens)
                        ELSE {}) :
           c \in DOMAIN Commands(p)}

(* The notes after a round in which the views that have changed are left.  *)
Round(p, kind, mentioned, s) ==
  LET leaving == UNION {LeavingView(p, kind, view, s.notes[view], mentioned) : view \in s.work}
      notes == [v \in {l[1] : l \in leaving} |->
                  Arranged(p, kind, {l[2] : l \in {x \in leaving : x[1] = v}}
                             \cup (IF v \in DOMAIN s.notes THEN s.notes[v] ELSE {}))] @@ s.notes
  IN  [notes |-> notes,
       work |-> {v \in DOMAIN notes : v \notin DOMAIN s.notes \/ notes[v] # s.notes[v]}]
RECURSIVE Spread(_, _, _, _)
Spread(p, kind, mentioned, s) ==
  IF s.work = {} THEN s.notes
  ELSE Spread(p, kind, mentioned, Round(p, kind, mentioned, s))

WorkedOutNotes(p, kind) ==
  LET mentioned == Mentioned(p)
  IN  Spread(p, kind, mentioned,
             [notes |-> Start(kind) :> {AtBoot(p, mentioned)}, work |-> {Start(kind)}])
=============================================================================
