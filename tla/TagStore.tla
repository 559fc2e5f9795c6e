------------------------------- MODULE TagStore -------------------------------
(***************************************************************************)
(* What a tagged pointer promises, whatever it is packed into: fields that   *)
(* do not disturb one another, and a zombie state in which nothing is left    *)
(* but the flags and calls that need a pointer throw.                        *)
(***************************************************************************)
EXTENDS FiniteSets

CONSTANTS Objects, None

VARIABLES
  val,    \* the fields of each object; those of a zombie are blank but for the flags
  thrown  \* what the last call threw, or None

vars == <<val, thrown>>

Blank == [zombie |-> FALSE, ptr |-> {}, alloc |-> {}, data |-> {}, flags |-> {}, mask |-> {}]


\* init, reset: whatever the object was, it is alive and has neither flags nor mask.
Start(o) ==
  /\ \A q \in Objects \ {o} : val'[q] = val[q]
  /\ ~val'[o].zombie /\ val'[o].flags = {} /\ val'[o].mask = {}
  /\ thrown' = None

\* A setter changes its own field.
Write(o, f) ==
  /\ ~val[o].zombie \/ f = "flags"
  /\ val' = [val EXCEPT ![o][f] = val'[o][f]]
  /\ thrown' = None

Bury(o) ==
  /\ val' = [val EXCEPT ![o] = [Blank EXCEPT !.zombie = TRUE, !.flags = val[o].flags]]
  /\ thrown' = None

Dead(o, from) == val[o].zombie \/ val[from].zombie

Copy(o, from) ==
  /\ ~Dead(o, from)
  /\ val' = [val EXCEPT ![o] = val[from]]
  /\ thrown' = None

Move(o, from) ==
  /\ ~Dead(o, from)
  /\ val' = [val EXCEPT ![o] = val[from], ![from] = Blank]
  /\ thrown' = None

Swap(o, from) ==
  /\ ~Dead(o, from)
  /\ val' = [val EXCEPT ![o] = val[from], ![from] = val[o]]
  /\ thrown' = None

\* The three calls above, with a zombie on either side; set_data of a zombie.
Refuse(o, from) ==
  /\ Dead(o, from)
  /\ val' = val
  /\ thrown' # None

Init == val = [o \in Objects |-> Blank] /\ thrown = None

Next ==
  \E o \in Objects :
    \/ Start(o) \/ Bury(o)
    \/ \E f \in {"ptr", "alloc", "data", "flags", "mask"} : Write(o, f)
    \/ \E from \in Objects : Copy(o, from) \/ Move(o, from) \/ Swap(o, from) \/ Refuse(o, from)

Spec == Init /\ [][Next]_vars
===============================================================================
