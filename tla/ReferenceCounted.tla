-------------------------- MODULE ReferenceCounted --------------------------
(***************************************************************************)
(* QuicheReferenceCountedImpl and QuicheReferenceCountedPointerImpl: the   *)
(* objects that several threads hold by counted pointers, such as the      *)
(* certificate chain that the proof source shares with QUICHE.             *)
(*                                                                         *)
(* An operation on a pointer runs in steps, one for each access to a       *)
(* shared count and one for the deletion; what it does to its own pointers *)
(* goes with the step before or after.  As for any object of C++, callers  *)
(* keep a pointer that one thread writes from every other thread; threads  *)
(* may copy one pointer at a time.  What comes after the use of a deleted  *)
(* object is undefined: its memory is left as it was here, and the         *)
(* properties about deletion set such an object aside.                     *)
(***************************************************************************)
EXTENDS Naturals, FiniteSets

CONSTANTS
  Threads,
  Pointers,   \* a pointer that is not constructed is one that holds Null
  Objects,    \* those that are created, each once
  Null

ASSUME SetsAssumption ==
  /\ IsFiniteSet(Threads)
  /\ IsFiniteSet(Pointers)
  /\ Threads \cap Pointers = {}
  /\ Null \notin Objects

VARIABLES
  state,      \* of an object
  ref_count,  \* ref_count_ of an object
  object,     \* object_ of a pointer
  op,         \* what a thread is doing to its pointers
  selfCopied  \* history: objects whose pointer was copied to itself

vars == <<state, ref_count, object, op, selfCopied>>

(* "copy": copy construction and assignment; "move": moves within a type;  *)
(* "convert": moves from a pointer of another type; "raw": assignment of a *)
(* new object or of nullptr, and destruction.                              *)
Kinds == {"copy", "move", "convert", "raw"}

(* new_object is the parameter of AssignObject, read from src at once.     *)
Op == [at : {"remove", "delete", "assign"}, kind : Kinds, dst : Pointers,
       src : Pointers, new_object : Objects \cup {Null},
       dying : Objects \cup {Null}]

Idle == [at |-> "idle"]

TypeOK ==
  /\ state \in [Objects -> {"none", "live", "deleted"}]
  /\ ref_count \in [Objects -> Nat]
  /\ object \in [Pointers -> Objects \cup {Null}]
  /\ op \in [Threads -> Op \cup {Idle}]
  /\ selfCopied \in SUBSET Objects

Init ==
  /\ state = [o \in Objects |-> "none"]
  /\ ref_count = [o \in Objects |-> 0]
  /\ object = [p \in Pointers |-> Null]
  /\ op = [t \in Threads |-> Idle]
  /\ selfCopied = {}

----------------------------------------------------------------------------
Busy(t) == op[t].at # "idle"

Writes(kind, dst, src) == IF kind \in {"move", "convert"} THEN {dst, src} ELSE {dst}

(* No thread writes what another one uses.                                 *)
MayUse(kind, dst, src) ==
  \A t \in Threads : Busy(t) =>
    /\ Writes(kind, dst, src) \cap {op[t].dst, op[t].src} = {}
    /\ {dst, src} \cap Writes(op[t].kind, op[t].dst, op[t].src) = {}

Doing(kind, dst, src, new_object) ==
  [at |-> "remove", kind |-> kind, dst |-> dst, src |-> src,
   new_object |-> new_object, dying |-> Null]

(* A copy or a move.  Pointers of two types are two pointers.              *)
Assign(t, kind, dst, src) ==
  /\ ~Busy(t)
  /\ kind # "raw"
  /\ kind = "convert" => dst # src
  /\ MayUse(kind, dst, src)
  /\ op' = [op EXCEPT ![t] = Doing(kind, dst, src, object[src])]
  /\ selfCopied' = IF kind = "copy" /\ dst = src
                     THEN selfCopied \cup ({object[src]} \ {Null})
                     ELSE selfCopied
  /\ UNCHANGED <<state, ref_count, object>>

(* A new object comes with a count of one.                                 *)
AssignNew(t, dst, o) ==
  /\ ~Busy(t)
  /\ MayUse("raw", dst, dst)
  /\ state[o] = "none"
  /\ state' = [state EXCEPT ![o] = "live"]
  /\ ref_count' = [ref_count EXCEPT ![o] = 1]
  /\ op' = [op EXCEPT ![t] = Doing("raw", dst, dst, o)]
  /\ UNCHANGED <<object, selfCopied>>

(* The destructor, or nullptr.                                             *)
Release(t, dst) ==
  /\ ~Busy(t)
  /\ MayUse("raw", dst, dst)
  /\ op' = [op EXCEPT ![t] = Doing("raw", dst, dst, Null)]
  /\ UNCHANGED <<state, ref_count, object, selfCopied>>

(* Mutant: the count before the subtraction is taken for the one after it. *)
RemoveReference_OldCount(t) ==
  LET o == object[op[t].dst]
  IN  /\ op[t].at = "remove"
      /\ IF o = Null
           THEN /\ op' = [op EXCEPT ![t].at = "assign"]
                /\ UNCHANGED <<ref_count, object>>
           ELSE /\ ref_count' = [ref_count EXCEPT ![o] = @ - 1]
                /\ object' = [object EXCEPT ![op[t].dst] = Null]
                /\ op' = IF ref_count[o] = 0
                           THEN [op EXCEPT ![t].at = "delete", ![t].dying = o]
                           ELSE [op EXCEPT ![t].at = "assign"]
      /\ UNCHANGED <<state, selfCopied>>

(* fetch_sub; the thread that takes the count to 0 deletes the object.     *)
RemoveReference(t) ==
  LET o == object[op[t].dst]
  IN  /\ op[t].at = "remove"
      /\ IF o = Null
           THEN /\ op' = [op EXCEPT ![t].at = "assign"]
                /\ UNCHANGED <<ref_count, object>>
           ELSE /\ ref_count' = [ref_count EXCEPT ![o] = @ - 1]
                /\ object' = [object EXCEPT ![op[t].dst] = Null]
                /\ op' = IF ref_count[o] = 1
                           THEN [op EXCEPT ![t].at = "delete", ![t].dying = o]
                           ELSE [op EXCEPT ![t].at = "assign"]
      /\ UNCHANGED <<state, selfCopied>>

Delete(t) ==
  /\ op[t].at = "delete"
  /\ state' = [state EXCEPT ![op[t].dying] = "deleted"]
  /\ op' = [op EXCEPT ![t].at = "assign"]
  /\ UNCHANGED <<ref_count, object, selfCopied>>

(* Mutant: a copy is not counted when its object has one reference.        *)
AddReference_Shared(o) ==
  IF o = Null \/ ref_count[o] = 1 THEN ref_count
  ELSE [ref_count EXCEPT ![o] = @ + 1]

(* fetch_add.                                                              *)
AddReference(o) ==
  IF o = Null THEN ref_count ELSE [ref_count EXCEPT ![o] = @ + 1]

(* Mutant: a moved pointer keeps its object.                               *)
AssignObject_KeepsSource(t) ==
  LET dst == op[t].dst
      src == op[t].src
      new == op[t].new_object
  IN  /\ op[t].at = "assign"
      /\ object' = [object EXCEPT ![dst] = new]
      /\ ref_count' = IF op[t].kind \in {"copy", "convert"} THEN AddReference(new)
                                                            ELSE ref_count
      /\ op' = [op EXCEPT ![t] = IF @.kind = "convert"
                                   THEN Doing("raw", src, src, Null)
                                   ELSE Idle]
      /\ UNCHANGED <<state, selfCopied>>

(* What is left of AssignObject, and what follows it.  A move from another *)
(* type counts its own reference and then clears its source.               *)
AssignObject(t) ==
  LET dst == op[t].dst
      src == op[t].src
      new == op[t].new_object
  IN  /\ op[t].at = "assign"
      /\ object' = IF op[t].kind = "move"
                     THEN [object EXCEPT ![dst] = new, ![src] = Null]
                     ELSE [object EXCEPT ![dst] = new]
      /\ ref_count' = IF op[t].kind \in {"copy", "convert"} THEN AddReference(new)
                                                            ELSE ref_count
      /\ op' = [op EXCEPT ![t] = IF @.kind = "convert"
                                   THEN Doing("raw", src, src, Null)
                                   ELSE Idle]
      /\ UNCHANGED <<state, selfCopied>>

HasUniqueReference(o) == ref_count[o] = 1

Next ==
  \E t \in Threads :
    \/ \E kind \in Kinds, dst, src \in Pointers : Assign(t, kind, dst, src)
    \/ \E dst \in Pointers, o \in Objects : AssignNew(t, dst, o)
    \/ \E dst \in Pointers : Release(t, dst)
    \/ RemoveReference(t)
    \/ Delete(t)
    \/ AssignObject(t)

Spec == Init /\ [][Next]_vars
----------------------------------------------------------------------------
(* Who has a reference: pointers, and a thread that assigns a new object.  *)
Holders(o) ==
  {p \in Pointers : object[p] = o} \cup
  {t \in Threads : Busy(t) /\ op[t].kind = "raw" /\ op[t].new_object = o}

Deleting(o) == {t \in Threads : op[t].at = "delete" /\ op[t].dying = o}

(* No increment is lost and none is made twice, whatever the threads are   *)
(* doing.                                                                  *)
CountsHolders == \A o \in Objects : ref_count[o] = Cardinality(Holders(o))

(* "QUICHE_DCHECK_EQ(ref_count_, 0)" of the destructor                     *)
(* (quiche_reference_counted_impl.h:19), and what it is for: an object is  *)
(* deleted once, by one thread, when nothing holds it, and nothing gets    *)
(* hold of it any more.  Copying a pointer to itself breaks that:          *)
(* AssignObject gives the reference up before AddReference takes it.       *)
NeverUsedDeleted ==
  \A o \in Objects \ selfCopied :
    /\ Holders(o) # {} => state[o] = "live" /\ Deleting(o) = {}
    /\ \A t, u \in Deleting(o) : t = u
    /\ Deleting(o) # {} => state[o] = "live"

(* An object that lost its last holder is deleted, or about to be.         *)
NeverLeaks ==
  \A o \in Objects :
    state[o] = "live" => Holders(o) # {} \/ Deleting(o) # {}

(* HasUniqueReference tells a thread that its pointer is the only one, and *)
(* that stays so: nobody is about to take a reference unless it copies or  *)
(* moves this very pointer.  (A pointer moved to itself takes none.)       *)
UniqueIsAlone ==
  \A o \in Objects \ selfCopied, p \in Pointers :
    object[p] = o /\ HasUniqueReference(o) =>
      /\ \A q \in Pointers : object[q] = o => q = p
      /\ \A t \in Threads :
           Busy(t) /\ op[t].kind # "move" /\ op[t].new_object = o =>
             op[t].kind # "raw" /\ op[t].src = p

(* What is promised of an object whose pointer was copied to itself is     *)
(* that its fate touches no other.                                         *)
Life == [o \in Objects |-> IF o \in selfCopied THEN "misused"
                           ELSE IF state[o] = "deleted" THEN "dead" ELSE state[o]]

HeldBy == [o \in Objects |-> IF o \in selfCopied THEN {} ELSE Holders(o)]

Shared == INSTANCE SharedObjects WITH
            Objects <- Objects, Owners <- Threads \cup Pointers,
            life <- Life, holders <- HeldBy

(* Whatever copies, moves, conversions and releases the threads interleave,*)
(* each step takes or gives up one reference to one object at most, takes  *)
(* it where another one is still held, and an object dies when the last is *)
(* given up and not again: what the objects see is counted references.     *)
RefinesShared == Shared!Spec
=============================================================================
