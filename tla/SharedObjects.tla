--------------------------- MODULE SharedObjects ---------------------------
(***************************************************************************)
(* What counted references promise of each object: a reference to it is    *)
(* taken only where there is one already, so that an object nobody holds   *)
(* is lost for good, and it dies then and once.  An owner that misuses its *)
(* reference forfeits the promise for this object, and for no other.       *)
(***************************************************************************)
CONSTANTS
  Objects,
  Owners   \* who may hold a reference

VARIABLES
  life,    \* of an object: "none", "live", "dead" or "misused"
  holders  \* the owners that have a reference to it

objects == <<life, holders>>

Init ==
  /\ life = [o \in Objects |-> "none"]
  /\ holders = [o \in Objects |-> {}]

Hold(o, set) == holders' = [holders EXCEPT ![o] = set]

Become(o, stage) == life' = [life EXCEPT ![o] = stage]

Create(o, h) ==
  /\ life[o] = "none"
  /\ Become(o, "live")
  /\ Hold(o, {h})

Share(o, h) ==
  /\ life[o] = "live"
  /\ holders[o] # {}
  /\ h \notin holders[o]
  /\ Hold(o, holders[o] \cup {h})
  /\ UNCHANGED life

HandOver(o, g, h) ==
  /\ life[o] = "live"
  /\ g \in holders[o]
  /\ h \notin holders[o]
  /\ Hold(o, (holders[o] \ {g}) \cup {h})
  /\ UNCHANGED life

Drop(o, h) ==
  /\ life[o] = "live"
  /\ h \in holders[o]
  /\ Hold(o, holders[o] \ {h})
  /\ UNCHANGED life

Die(o) ==
  /\ life[o] = "live"
  /\ holders[o] = {}
  /\ Become(o, "dead")
  /\ UNCHANGED holders

Misuse(o) ==
  /\ life[o] = "live"
  /\ holders[o] # {}
  /\ Become(o, "misused")
  /\ Hold(o, {})

Next ==
  \E o \in Objects :
    \/ \E h \in Owners : Create(o, h) \/ Share(o, h) \/ Drop(o, h)
    \/ \E g, h \in Owners : HandOver(o, g, h)
    \/ Die(o)
    \/ Misuse(o)

Spec == Init /\ [][Next]_objects
=============================================================================
