------------------------------ MODULE PmfBanks ------------------------------
(***************************************************************************)
(* What the ledger of src/lag/cint_j2/acl.c is there for, without reference*)
(* counts, merges of sorted lists and undoing: TCAM banks belong to classes*)
(* of field groups (allocation groups).  A bank belongs to a class while a *)
(* group of the class has entries in it, to nobody otherwise, and never    *)
(* passes from one class to another without having been free; the room of  *)
(* a class is that of its banks.                                           *)
(***************************************************************************)
CONSTANTS
  Group,    \* field groups
  Bank,     \* TCAM banks
  Class,    \* allocation groups
  Free,     \* the owner of a bank nobody uses, the class of no group
  KeysIn    \* keys a set of banks holds

VARIABLES
  class,    \* the class of each group that has been entered
  held,     \* the banks that hold entries of each group
  owner,    \* the class each bank belongs to
  room      \* keys in the banks of each class, and in the free ones

bankvars == <<class, held, owner, room>>

Init ==
  /\ class = [g \in Group |-> Free]
  /\ held = [g \in Group |-> {}]
  /\ owner = [b \in Bank |-> Free]
  /\ room = [c \in Class \cup {Free} |-> KeysIn[{b \in Bank : c = Free}]]

(* Group g of class c now has its entries in the banks now.                *)
Move(g, c, now) ==
  /\ \A b \in now \ held[g] : owner[b] \in {c, Free}
  /\ held' = [held EXCEPT ![g] = now]
  /\ owner' = [b \in Bank |->
                 IF b \in now THEN c
                 ELSE IF \E h \in Group \ {g} : b \in held[h] THEN owner[b]
                 ELSE Free]
  /\ room' = [a \in Class \cup {Free} |-> KeysIn[{b \in Bank : owner'[b] = a}]]

(* A new group is entered, perhaps with its first entry.                   *)
Enter(g, c, now) ==
  /\ class[g] = Free
  /\ class' = [class EXCEPT ![g] = c]
  /\ Move(g, c, now)

(* Entries come and go.                                                    *)
Use(g, now) ==
  /\ class[g] # Free
  /\ Move(g, class[g], now)
  /\ UNCHANGED class

(* A group goes, and with it what it held.                                 *)
Leave(g) ==
  /\ class[g] # Free
  /\ class' = [class EXCEPT ![g] = Free]
  /\ Move(g, class[g], {})

Next ==
  \E g \in Group :
    \/ \E c \in Class, now \in SUBSET Bank : Enter(g, c, now)
    \/ \E now \in SUBSET Bank : Use(g, now)
    \/ Leave(g)

Spec == Init /\ [][Next]_bankvars
=============================================================================
