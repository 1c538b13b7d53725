----------------------- MODULE ReferenceCountedProofs -----------------------
(***************************************************************************)
(* Theorems about ReferenceCounted, for any number of threads, pointers    *)
(* and objects.                                                            *)
(***************************************************************************)
EXTENDS ReferenceCounted, FiniteSetTheorems, TLAPS

(* What an operation under way can rely on: its source has the object it   *)
(* was given, and its target has given up its own.                         *)
Sources ==
  \A t \in Threads : Busy(t) =>
    /\ op[t].kind # "raw" /\ op[t].dst # op[t].src =>
         object[op[t].src] = op[t].new_object
    /\ op[t].kind = "copy" /\ op[t].dst = op[t].src /\ op[t].new_object # Null =>
         op[t].new_object \in selfCopied
    /\ op[t].kind = "convert" => op[t].dst # op[t].src
    /\ op[t].at # "remove" => object[op[t].dst] = Null
    /\ op[t].at = "delete" => op[t].dying \in Objects

(* No thread writes a pointer that another one uses.                       *)
Exclusive ==
  \A t, u \in Threads : Busy(t) /\ Busy(u) /\ t # u =>
    Writes(op[t].kind, op[t].dst, op[t].src) \cap {op[u].dst, op[u].src} = {}

(* Nothing holds an object that does not exist yet.                        *)
Unborn ==
  \A o \in Objects : state[o] = "none" =>
    Holders(o) = {} /\ Deleting(o) = {} /\ o \notin selfCopied

Counting == CountsHolders /\ NeverUsedDeleted /\ NeverLeaks /\ Unborn

IInv == TypeOK /\ Sources /\ Exclusive /\ Counting

-----------------------------------------------------------------------------
(* A busy thread's operation has all its fields.                           *)
LEMMA BusyOp ==
  ASSUME TypeOK, NEW t \in Threads, Busy(t)
  PROVE  op[t] \in Op
BY DEF TypeOK, Busy, Idle

(* Cardinality behaves as a count only on finite sets, and holders are.    *)
LEMMA HoldersFinite ==
  ASSUME NEW o
  PROVE  /\ IsFiniteSet(Holders(o))
         /\ Cardinality(Holders(o)) \in Nat
         /\ Cardinality(Holders(o)) = 0 <=> Holders(o) = {}
<1>1. Holders(o) \in SUBSET (Pointers \cup Threads)
  BY DEF Holders
<1>2. IsFiniteSet(Pointers \cup Threads)
  BY SetsAssumption, FS_Union
<1>3. IsFiniteSet(Holders(o))
  BY <1>1, <1>2, FS_Subset
<1>4. QED
  BY <1>3, FS_CardinalityType, FS_EmptySet

(* A reference that changes hands, as in a move, leaves the count alone.   *)
LEMMA Replaced ==
  ASSUME NEW S, IsFiniteSet(S), NEW a \in S, NEW b, b \notin S
  PROVE  Cardinality((S \ {a}) \cup {b}) = Cardinality(S)
<1>1. /\ IsFiniteSet(S \ {a})
      /\ Cardinality(S \ {a}) = Cardinality(S) - 1
  BY FS_RemoveElement
<1>2. b \notin S \ {a}
  OBVIOUS
<1>3. Cardinality((S \ {a}) \cup {b}) = Cardinality(S \ {a}) + 1
  BY <1>1, <1>2, FS_AddElement
<1>4. Cardinality(S) \in Nat
  BY FS_CardinalityType
<1>5. QED
  BY <1>1, <1>3, <1>4

(* A step that neither takes a reference nor gives one up.                 *)
LEMMA CountingSame ==
  ASSUME Counting, selfCopied \subseteq selfCopied',
         state' = state, ref_count' = ref_count,
         \A o \in selfCopied' \ selfCopied : Holders(o) # {},
         \A o \in Objects : Holders(o)' = Holders(o) /\ Deleting(o)' = Deleting(o)
  PROVE  Counting'
<1>1. CountsHolders'
  BY DEF Counting, CountsHolders
<1>2. NeverUsedDeleted'
  BY DEF Counting, NeverUsedDeleted
<1>3. NeverLeaks'
  BY DEF Counting, NeverLeaks
<1>4. Unborn'
  BY DEF Counting, Unborn
<1>5. QED
  BY <1>1, <1>2, <1>3, <1>4 DEF Counting

-----------------------------------------------------------------------------
(* A thread that starts an operation: nobody uses what it will write.      *)
LEMMA ExclusiveBegins ==
  ASSUME TypeOK, Exclusive, NEW t \in Threads, NEW kind, NEW dst, NEW src,
         NEW new_object, MayUse(kind, dst, src), ~Busy(t),
         op' = [op EXCEPT ![t] = Doing(kind, dst, src, new_object)]
  PROVE  Exclusive'
<1>1. /\ op'[t].kind = kind /\ op'[t].dst = dst /\ op'[t].src = src
      /\ \A u \in Threads : u # t => op'[u] = op[u]
  BY DEF TypeOK, Doing
<1>2. SUFFICES ASSUME NEW u \in Threads, NEW v \in Threads,
                      Busy(u)', Busy(v)', u # v
               PROVE  Writes(op'[u].kind, op'[u].dst, op'[u].src)
                        \cap {op'[v].dst, op'[v].src} = {}
  BY DEF Exclusive, Writes
<1>3. CASE u = t
  <2>1. Busy(v) /\ op'[v] = op[v]
    BY <1>1, <1>2, <1>3 DEF Busy
  <2>2. QED
    BY <1>1, <1>3, <2>1 DEF MayUse
<1>4. CASE v = t
  <2>1. Busy(u) /\ op'[u] = op[u]
    BY <1>1, <1>2, <1>4 DEF Busy
  <2>2. QED
    BY <1>1, <1>4, <2>1 DEF MayUse
<1>5. CASE u # t /\ v # t
  BY <1>1, <1>2, <1>5 DEF Exclusive, Busy
<1>6. QED
  BY <1>3, <1>4, <1>5

(* A thread that goes on writes what it wrote, or less.                    *)
LEMMA ExclusiveGoesOn ==
  ASSUME TypeOK, Exclusive, NEW t \in Threads, Busy(t),
         \A u \in Threads : u # t => op'[u] = op[u],
         Busy(t)' => /\ Writes(op'[t].kind, op'[t].dst, op'[t].src)
                          \subseteq Writes(op[t].kind, op[t].dst, op[t].src)
                     /\ {op'[t].dst, op'[t].src} \subseteq {op[t].dst, op[t].src}
  PROVE  Exclusive'
<1>1. SUFFICES ASSUME NEW u \in Threads, NEW v \in Threads,
                      Busy(u)', Busy(v)', u # v
               PROVE  Writes(op'[u].kind, op'[u].dst, op'[u].src)
                        \cap {op'[v].dst, op'[v].src} = {}
  BY DEF Exclusive, Writes
<1>2. CASE u = t
  <2>1. Busy(v) /\ op'[v] = op[v]
    BY <1>1, <1>2 DEF Busy
  <2>2. Writes(op[t].kind, op[t].dst, op[t].src) \cap {op[v].dst, op[v].src} = {}
    BY <1>1, <1>2, <2>1 DEF Exclusive
  <2>3. QED
    BY <1>1, <1>2, <2>1, <2>2
<1>3. CASE v = t
  <2>1. Busy(u) /\ op'[u] = op[u]
    BY <1>1, <1>3 DEF Busy
  <2>2. Writes(op[u].kind, op[u].dst, op[u].src) \cap {op[t].dst, op[t].src} = {}
    BY <1>1, <1>3, <2>1 DEF Exclusive
  <2>3. QED
    BY <1>1, <1>3, <2>1, <2>2
<1>4. CASE u # t /\ v # t
  BY <1>1, <1>4 DEF Exclusive, Busy
<1>5. QED
  BY <1>2, <1>3, <1>4

(* The other threads' sources and targets are not written.                 *)
LEMMA SourcesOfOthers ==
  ASSUME TypeOK, Sources, Exclusive, NEW t \in Threads, Busy(t),
         selfCopied' = selfCopied,
         \A u \in Threads : u # t => op'[u] = op[u],
         \A p \in Pointers \ Writes(op[t].kind, op[t].dst, op[t].src) :
           object'[p] = object[p],
         NEW u \in Threads, u # t, Busy(u)'
  PROVE  /\ op'[u].kind # "raw" /\ op'[u].dst # op'[u].src =>
              object'[op'[u].src] = op'[u].new_object
         /\ op'[u].kind = "copy" /\ op'[u].dst = op'[u].src
              /\ op'[u].new_object # Null => op'[u].new_object \in selfCopied'
         /\ op'[u].kind = "convert" => op'[u].dst # op'[u].src
         /\ op'[u].at # "remove" => object'[op'[u].dst] = Null
         /\ op'[u].at = "delete" => op'[u].dying \in Objects
<1>1. op'[u] = op[u] /\ Busy(u)
  BY DEF Busy
<1>2. op[u].dst \in Pointers /\ op[u].src \in Pointers
  BY <1>1, BusyOp DEF Op
<1>3. Writes(op[t].kind, op[t].dst, op[t].src) \cap {op[u].dst, op[u].src} = {}
  BY <1>1 DEF Exclusive
<1>4. object'[op[u].dst] = object[op[u].dst] /\ object'[op[u].src] = object[op[u].src]
  BY <1>2, <1>3
<1>5. QED
  BY <1>1, <1>4 DEF Sources

-----------------------------------------------------------------------------
(* A copy or a move begins: nothing is counted yet.                        *)
LEMMA AssignStep ==
  ASSUME IInv, NEW t \in Threads, NEW kind \in Kinds, NEW dst \in Pointers,
         NEW src \in Pointers, Assign(t, kind, dst, src)
  PROVE  IInv'
<1> USE DEF IInv
<1>1. /\ op' = [op EXCEPT ![t] = Doing(kind, dst, src, object[src])]
      /\ UNCHANGED <<state, ref_count, object>>
      /\ ~Busy(t) /\ kind # "raw" /\ MayUse(kind, dst, src)
      /\ kind = "convert" => dst # src
  BY DEF Assign
<1>2. /\ selfCopied \subseteq selfCopied' /\ selfCopied' \subseteq Objects
      /\ kind = "copy" /\ dst = src /\ object[src] # Null => object[src] \in selfCopied'
  BY DEF Assign, TypeOK
<1>3. /\ object[src] \in Objects \cup {Null}
      /\ Doing(kind, dst, src, object[src]) \in Op
  BY DEF TypeOK, Doing, Op
<1>4. TypeOK'
  BY <1>1, <1>2, <1>3 DEF TypeOK
<1>5. /\ op'[t] = Doing(kind, dst, src, object[src])
      /\ \A u \in Threads : u # t => op'[u] = op[u]
  BY <1>1 DEF TypeOK
<1>6. Sources'
  <2> SUFFICES ASSUME NEW u \in Threads, Busy(u)'
               PROVE  /\ op'[u].kind # "raw" /\ op'[u].dst # op'[u].src =>
                           object'[op'[u].src] = op'[u].new_object
                      /\ op'[u].kind = "copy" /\ op'[u].dst = op'[u].src
                           /\ op'[u].new_object # Null =>
                             op'[u].new_object \in selfCopied'
                      /\ op'[u].kind = "convert" => op'[u].dst # op'[u].src
                      /\ op'[u].at # "remove" => object'[op'[u].dst] = Null
                      /\ op'[u].at = "delete" => op'[u].dying \in Objects
    BY DEF Sources
  <2>1. CASE u = t
    BY <1>1, <1>2, <1>5, <2>1 DEF Doing
  <2>2. CASE u # t
    <3>1. op'[u] = op[u] /\ Busy(u)
      BY <1>5, <2>2 DEF Busy
    <3>2. QED
      BY <1>1, <1>2, <3>1 DEF Sources
  <2>3. QED
    BY <2>1, <2>2
<1>7. Exclusive'
  BY <1>1, ExclusiveBegins
<1>8. ASSUME NEW o \in Objects
      PROVE  Holders(o)' = Holders(o) /\ Deleting(o)' = Deleting(o)
  <2>1. \A u \in Threads :
          (Busy(u) /\ op[u].kind = "raw" /\ op[u].new_object = o)'
            <=> Busy(u) /\ op[u].kind = "raw" /\ op[u].new_object = o
    BY <1>1, <1>5 DEF Busy, Doing
  <2>2. \A u \in Threads : (op[u].at = "delete" /\ op[u].dying = o)'
                           <=> op[u].at = "delete" /\ op[u].dying = o
    BY <1>1, <1>5 DEF Busy, Doing
  <2>3. QED
    BY <1>1, <2>1, <2>2 DEF Holders, Deleting
<1>9. Counting'
  <2>1. \A o \in selfCopied' \ selfCopied : Holders(o) # {}
    BY DEF Assign, Holders
  <2>2. QED
    BY <1>1, <1>2, <1>8, <2>1, CountingSame
<1>10. QED
  BY <1>4, <1>6, <1>7, <1>9

(* Destruction begins, or the assignment of nullptr.                       *)
LEMMA ReleaseStep ==
  ASSUME IInv, NEW t \in Threads, NEW dst \in Pointers, Release(t, dst)
  PROVE  IInv'
<1> USE DEF IInv
<1>1. /\ op' = [op EXCEPT ![t] = Doing("raw", dst, dst, Null)]
      /\ UNCHANGED <<state, ref_count, object, selfCopied>>
      /\ ~Busy(t) /\ MayUse("raw", dst, dst)
  BY DEF Release
<1>2. Doing("raw", dst, dst, Null) \in Op
  BY DEF Doing, Op, Kinds
<1>3. TypeOK'
  BY <1>1, <1>2 DEF TypeOK
<1>4. /\ op'[t] = Doing("raw", dst, dst, Null)
      /\ \A u \in Threads : u # t => op'[u] = op[u]
  BY <1>1 DEF TypeOK
<1>5. Sources'
  <2> SUFFICES ASSUME NEW u \in Threads, Busy(u)'
               PROVE  /\ op'[u].kind # "raw" /\ op'[u].dst # op'[u].src =>
                           object'[op'[u].src] = op'[u].new_object
                      /\ op'[u].kind = "copy" /\ op'[u].dst = op'[u].src
                           /\ op'[u].new_object # Null =>
                             op'[u].new_object \in selfCopied'
                      /\ op'[u].kind = "convert" => op'[u].dst # op'[u].src
                      /\ op'[u].at # "remove" => object'[op'[u].dst] = Null
                      /\ op'[u].at = "delete" => op'[u].dying \in Objects
    BY DEF Sources
  <2>1. CASE u = t
    BY <1>4, <2>1 DEF Doing
  <2>2. CASE u # t
    <3>1. op'[u] = op[u] /\ Busy(u)
      BY <1>4, <2>2 DEF Busy
    <3>2. QED
      BY <1>1, <3>1 DEF Sources
  <2>3. QED
    BY <2>1, <2>2
<1>6. Exclusive'
  BY <1>1, ExclusiveBegins
<1>7. ASSUME NEW o \in Objects
      PROVE  Holders(o)' = Holders(o) /\ Deleting(o)' = Deleting(o)
  <2>1. \A u \in Threads :
          (Busy(u) /\ op[u].kind = "raw" /\ op[u].new_object = o)'
            <=> Busy(u) /\ op[u].kind = "raw" /\ op[u].new_object = o
    BY <1>1, <1>4, SetsAssumption DEF Busy, Doing
  <2>2. \A u \in Threads : (op[u].at = "delete" /\ op[u].dying = o)'
                           <=> op[u].at = "delete" /\ op[u].dying = o
    BY <1>1, <1>4 DEF Busy, Doing
  <2>3. QED
    BY <1>1, <2>1, <2>2 DEF Holders, Deleting
<1>8. Counting'
  BY <1>1, <1>7, CountingSame
<1>9. QED
  BY <1>3, <1>5, <1>6, <1>8

(* A new object has one holder, the thread that assigns it.                *)
LEMMA AssignNewStep ==
  ASSUME IInv, NEW t \in Threads, NEW dst \in Pointers, NEW n \in Objects,
         AssignNew(t, dst, n)
  PROVE  IInv'
<1> USE DEF IInv
<1>1. /\ op' = [op EXCEPT ![t] = Doing("raw", dst, dst, n)]
      /\ state[n] = "none"
      /\ state' = [state EXCEPT ![n] = "live"]
      /\ ref_count' = [ref_count EXCEPT ![n] = 1]
      /\ UNCHANGED <<object, selfCopied>>
      /\ ~Busy(t) /\ MayUse("raw", dst, dst)
  BY DEF AssignNew
<1>2. Doing("raw", dst, dst, n) \in Op
  BY DEF Doing, Op, Kinds
<1>3. TypeOK'
  BY <1>1, <1>2 DEF TypeOK
<1>4. /\ op'[t] = Doing("raw", dst, dst, n)
      /\ \A u \in Threads : u # t => op'[u] = op[u]
  BY <1>1 DEF TypeOK
<1>5. Sources'
  <2> SUFFICES ASSUME NEW u \in Threads, Busy(u)'
               PROVE  /\ op'[u].kind # "raw" /\ op'[u].dst # op'[u].src =>
                           object'[op'[u].src] = op'[u].new_object
                      /\ op'[u].kind = "copy" /\ op'[u].dst = op'[u].src
                           /\ op'[u].new_object # Null =>
                             op'[u].new_object \in selfCopied'
                      /\ op'[u].kind = "convert" => op'[u].dst # op'[u].src
                      /\ op'[u].at # "remove" => object'[op'[u].dst] = Null
                      /\ op'[u].at = "delete" => op'[u].dying \in Objects
    BY DEF Sources
  <2>1. CASE u = t
    BY <1>4, <2>1 DEF Doing
  <2>2. CASE u # t
    <3>1. op'[u] = op[u] /\ Busy(u)
      BY <1>4, <2>2 DEF Busy
    <3>2. QED
      BY <1>1, <3>1 DEF Sources
  <2>3. QED
    BY <2>1, <2>2
<1>6. Exclusive'
  BY <1>1, ExclusiveBegins
<1>7. \A o \in Objects : Deleting(o)' = Deleting(o)
  <2>1. \A o \in Objects : \A u \in Threads :
          (op[u].at = "delete" /\ op[u].dying = o)'
            <=> op[u].at = "delete" /\ op[u].dying = o
    BY <1>1, <1>4 DEF Busy, Doing
  <2>2. QED
    BY <2>1 DEF Deleting
<1>8. ASSUME NEW o \in Objects, o # n
      PROVE  /\ Holders(o)' = Holders(o)
             /\ state'[o] = state[o] /\ ref_count'[o] = ref_count[o]
  <2>1. \A u \in Threads :
          (Busy(u) /\ op[u].kind = "raw" /\ op[u].new_object = o)'
            <=> Busy(u) /\ op[u].kind = "raw" /\ op[u].new_object = o
    BY <1>1, <1>4, <1>8 DEF Busy, Doing
  <2>2. Holders(o)' = Holders(o)
    BY <1>1, <2>1 DEF Holders
  <2>3. QED
    BY <1>1, <1>8, <2>2 DEF TypeOK
<1>9. /\ Holders(n)' = {t} /\ Deleting(n)' = {}
      /\ state'[n] = "live" /\ ref_count'[n] = 1
  <2>1. Holders(n) = {} /\ Deleting(n) = {}
    BY <1>1 DEF Counting, Unborn
  <2>2. Busy(t)' /\ op'[t].kind = "raw" /\ op'[t].new_object = n
    BY <1>4 DEF Busy, Doing
  <2>3. \A u \in Threads :
          (Busy(u) /\ op[u].kind = "raw" /\ op[u].new_object = n)'
            <=> u = t
    BY <1>4, <2>1, <2>2 DEF Busy, Holders
  <2>4. \A p \in Pointers : object'[p] # n
    BY <1>1, <2>1 DEF Holders
  <2>5. Holders(n)' = {t}
    BY <2>3, <2>4 DEF Holders
  <2>6. QED
    BY <1>1, <1>7, <2>1, <2>5 DEF TypeOK
<1>10. Cardinality({t}) = 1
  BY FS_Singleton
<1>11. CountsHolders'
  BY <1>8, <1>9, <1>10 DEF Counting, CountsHolders
<1>12. NeverUsedDeleted'
  BY <1>1, <1>7, <1>8, <1>9 DEF Counting, NeverUsedDeleted
<1>13. NeverLeaks'
  BY <1>7, <1>8, <1>9 DEF Counting, NeverLeaks
<1>14. Unborn'
  BY <1>1, <1>7, <1>8, <1>9 DEF Counting, Unborn
<1>15. QED
  BY <1>3, <1>5, <1>6, <1>11, <1>12, <1>13, <1>14 DEF Counting

(* The target gives its reference up; who takes the count to 0 deletes.    *)
LEMMA RemoveReferenceStep ==
  ASSUME IInv, NEW t \in Threads, RemoveReference(t)
  PROVE  IInv'
<1> USE DEF IInv
<1>1. Busy(t) /\ op[t] \in Op /\ op[t].at = "remove"
  BY BusyOp DEF RemoveReference, Busy
<1> PICK d, o : d = op[t].dst /\ o = object[d]
  OBVIOUS
<1>2. d \in Pointers /\ o \in Objects \cup {Null} /\ op[t].src \in Pointers
  BY <1>1 DEF Op, TypeOK
<1>3. UNCHANGED <<state, selfCopied>>
  BY DEF RemoveReference
<1>4. CASE o = Null
  <2>1. /\ op' = [op EXCEPT ![t].at = "assign"]
        /\ UNCHANGED <<ref_count, object>>
    BY <1>4 DEF RemoveReference
  <2>2. /\ op'[t] = [op[t] EXCEPT !.at = "assign"]
        /\ \A u \in Threads : u # t => op'[u] = op[u]
    BY <2>1 DEF TypeOK
  <2>3. op'[t] \in Op
    BY <1>1, <2>2 DEF Op
  <2>4. /\ op'[t].at = "assign" /\ op'[t].kind = op[t].kind
        /\ op'[t].dst = op[t].dst /\ op'[t].src = op[t].src
        /\ op'[t].new_object = op[t].new_object
    BY <1>1, <2>2 DEF Op
  <2>5. TypeOK'
    BY <1>3, <2>1, <2>2, <2>3 DEF TypeOK
  <2>6. Exclusive'
    BY <1>1, <2>2, <2>4, ExclusiveGoesOn
  <2>7. Sources'
    <3> SUFFICES ASSUME NEW u \in Threads, Busy(u)'
                 PROVE  /\ op'[u].kind # "raw" /\ op'[u].dst # op'[u].src =>
                             object'[op'[u].src] = op'[u].new_object
                        /\ op'[u].kind = "copy" /\ op'[u].dst = op'[u].src
                             /\ op'[u].new_object # Null =>
                               op'[u].new_object \in selfCopied'
                        /\ op'[u].kind = "convert" => op'[u].dst # op'[u].src
                        /\ op'[u].at # "remove" => object'[op'[u].dst] = Null
                        /\ op'[u].at = "delete" => op'[u].dying \in Objects
      BY DEF Sources
    <3>1. CASE u = t
      <4>1. object'[d] = Null
        BY <1>4, <2>1
      <4>2. QED
        BY <1>1, <1>3, <2>1, <2>4, <3>1, <4>1 DEF Sources
    <3>2. CASE u # t
      BY <1>1, <1>3, <2>1, <2>2, <3>2, SourcesOfOthers
    <3>3. QED
      BY <3>1, <3>2
  <2>8. ASSUME NEW x \in Objects
        PROVE  Holders(x)' = Holders(x) /\ Deleting(x)' = Deleting(x)
    <3>1. \A u \in Threads :
            (Busy(u) /\ op[u].kind = "raw" /\ op[u].new_object = x)'
              <=> Busy(u) /\ op[u].kind = "raw" /\ op[u].new_object = x
      BY <1>1, <2>2, <2>4 DEF Busy
    <3>2. \A u \in Threads : (op[u].at = "delete" /\ op[u].dying = x)'
                             <=> op[u].at = "delete" /\ op[u].dying = x
      BY <1>1, <2>2, <2>4
    <3>3. QED
      BY <2>1, <3>1, <3>2 DEF Holders, Deleting
  <2>9. Counting'
    BY <1>3, <2>1, <2>8, CountingSame
  <2>10. QED
    BY <2>5, <2>6, <2>7, <2>9
<1>5. CASE o # Null
  <2>1. o \in Objects
    BY <1>2, <1>5
  <2>2. /\ ref_count' = [ref_count EXCEPT ![o] = @ - 1]
        /\ object' = [object EXCEPT ![d] = Null]
        /\ op' = IF ref_count[o] = 1
                   THEN [op EXCEPT ![t].at = "delete", ![t].dying = o]
                   ELSE [op EXCEPT ![t].at = "assign"]
    BY <1>5 DEF RemoveReference
  <2>3. /\ op'[t] = IF ref_count[o] = 1
                      THEN [op[t] EXCEPT !.at = "delete", !.dying = o]
                      ELSE [op[t] EXCEPT !.at = "assign"]
        /\ \A u \in Threads : u # t => op'[u] = op[u]
        /\ op' \in [Threads -> Op \cup {Idle}]
    <3>1. CASE ref_count[o] = 1
      <4>1. [op[t] EXCEPT !.at = "delete", !.dying = o] \in Op
        BY <1>1, <2>1 DEF Op
      <4>2. op' = [op EXCEPT ![t] = [op[t] EXCEPT !.at = "delete", !.dying = o]]
        BY <1>1, <2>2, <3>1 DEF TypeOK
      <4>3. QED
        BY <3>1, <4>1, <4>2 DEF TypeOK
    <3>2. CASE ref_count[o] # 1
      <4>1. [op[t] EXCEPT !.at = "assign"] \in Op
        BY <1>1 DEF Op
      <4>2. op' = [op EXCEPT ![t] = [op[t] EXCEPT !.at = "assign"]]
        BY <2>2, <3>2
      <4>3. QED
        BY <3>2, <4>1, <4>2 DEF TypeOK
    <3>3. QED
      BY <3>1, <3>2
  <2>4. /\ op'[t].kind = op[t].kind /\ op'[t].dst = d
        /\ op'[t].src = op[t].src /\ op'[t].new_object = op[t].new_object
        /\ ref_count[o] = 1 => op'[t].at = "delete" /\ op'[t].dying = o
        /\ ref_count[o] # 1 => op'[t].at = "assign"
        /\ Busy(t)'
    BY <1>1, <2>3 DEF Op, Busy
  <2>5. d \in Holders(o)
    BY <1>2 DEF Holders
  <2>6. /\ ref_count[o] = Cardinality(Holders(o))
        /\ ref_count[o] \in Nat \ {0}
    BY <2>1, <2>5, HoldersFinite DEF Counting, CountsHolders
  <2>7. ref_count' \in [Objects -> Nat] /\ object' \in [Pointers -> Objects \cup {Null}]
    <3>1. ref_count[o] - 1 \in Nat
      BY <2>6
    <3>2. QED
      BY <2>1, <2>2, <3>1 DEF TypeOK
  <2>8. TypeOK'
    BY <1>3, <2>3, <2>7 DEF TypeOK
  <2>9. Exclusive'
    BY <1>1, <2>3, <2>4, ExclusiveGoesOn
  <2>10. \A p \in Pointers : object'[p] = IF p = d THEN Null ELSE object[p]
    BY <1>2, <2>2 DEF TypeOK
  <2>11. Sources'
    <3> SUFFICES ASSUME NEW u \in Threads, Busy(u)'
                 PROVE  /\ op'[u].kind # "raw" /\ op'[u].dst # op'[u].src =>
                             object'[op'[u].src] = op'[u].new_object
                        /\ op'[u].kind = "copy" /\ op'[u].dst = op'[u].src
                             /\ op'[u].new_object # Null =>
                               op'[u].new_object \in selfCopied'
                        /\ op'[u].kind = "convert" => op'[u].dst # op'[u].src
                        /\ op'[u].at # "remove" => object'[op'[u].dst] = Null
                        /\ op'[u].at = "delete" => op'[u].dying \in Objects
      BY DEF Sources
    <3>1. CASE u = t
      <4>1. d # op[t].src => object'[op[t].src] = object[op[t].src]
        BY <1>2, <2>10
      <4>2. object'[d] = Null
        BY <1>2, <2>10
      <4>3. op'[t].at = "delete" => op'[t].dying \in Objects
        BY <2>1, <2>4
      <4>4. QED
        BY <1>1, <1>3, <2>4, <3>1, <4>1, <4>2, <4>3 DEF Sources
    <3>2. CASE u # t
      <4>1. \A p \in Pointers \ Writes(op[t].kind, op[t].dst, op[t].src) :
              object'[p] = object[p]
        BY <2>10 DEF Writes
      <4>2. QED
        BY <1>1, <1>3, <2>3, <3>2, <4>1, SourcesOfOthers
    <3>3. QED
      BY <3>1, <3>2
  <2>12. /\ \A x \in Objects : x # o => Holders(x)' = Holders(x)
         /\ Holders(o)' = Holders(o) \ {d}
    <3>1. \A x \in Objects, u \in Threads :
            (Busy(u) /\ op[u].kind = "raw" /\ op[u].new_object = x)'
              <=> Busy(u) /\ op[u].kind = "raw" /\ op[u].new_object = x
      BY <1>1, <2>3, <2>4 DEF Busy
    <3>2. d \notin Threads
      BY <1>2, SetsAssumption
    <3>3. \A x \in Objects, p \in Pointers :
            object'[p] = x <=> object[p] = x /\ p # d
      BY <2>10, SetsAssumption
    <3>4. ASSUME NEW x \in Objects, x # o
          PROVE  Holders(x)' = Holders(x)
      <4>1. \A p \in Pointers : object'[p] = x <=> object[p] = x
        BY <3>3, <3>4
      <4>2. QED
        BY <3>1, <4>1 DEF Holders
    <3>5. Holders(o)' = Holders(o) \ {d}
      BY <2>1, <3>1, <3>2, <3>3 DEF Holders
    <3>6. QED
      BY <3>4, <3>5
  <2>13. \A x \in Objects :
           Deleting(x)' = IF x = o /\ ref_count[o] = 1 THEN Deleting(x) \cup {t}
                                                      ELSE Deleting(x)
    BY <1>1, <2>3, <2>4 DEF Deleting
  <2>14. /\ ref_count'[o] = ref_count[o] - 1
         /\ \A x \in Objects : x # o => ref_count'[x] = ref_count[x]
         /\ state' = state
    BY <1>3, <2>1, <2>2 DEF TypeOK
  <2>15. /\ Cardinality(Holders(o)') = Cardinality(Holders(o)) - 1
         /\ Cardinality(Holders(o)') = 0 <=> Holders(o)' = {}
    <3>1. /\ Cardinality(Holders(o) \ {d}) = Cardinality(Holders(o)) - 1
          /\ IsFiniteSet(Holders(o) \ {d})
      BY <2>5, HoldersFinite, FS_RemoveElement
    <3>2. Cardinality(Holders(o) \ {d}) = 0 <=> Holders(o) \ {d} = {}
      BY <3>1, FS_EmptySet
    <3>3. QED
      BY <2>12, <3>1, <3>2
  <2>16. CountsHolders'
    <3> SUFFICES ASSUME NEW x \in Objects
                 PROVE  ref_count'[x] = Cardinality(Holders(x)')
      BY DEF CountsHolders
    <3>1. CASE x = o
      BY <2>6, <2>14, <2>15, <3>1
    <3>2. CASE x # o
      <4>1. ref_count[x] = Cardinality(Holders(x))
        BY DEF Counting, CountsHolders
      <4>2. Holders(x)' = Holders(x) /\ ref_count'[x] = ref_count[x]
        BY <2>12, <2>14, <3>2
      <4>3. QED
        BY <4>1, <4>2
    <3>3. QED
      BY <3>1, <3>2
  <2>17. /\ ref_count[o] = 1 => Holders(o)' = {}
         /\ ref_count[o] # 1 => Holders(o)' # {}
    BY <2>6, <2>15
  <2>18. state[o] # "none" /\ (o \notin selfCopied => state[o] = "live" /\ Deleting(o) = {})
    BY <2>1, <2>5 DEF Counting, Unborn, NeverUsedDeleted
  <2>19. NeverUsedDeleted'
    <3> SUFFICES ASSUME NEW x \in Objects \ selfCopied
                 PROVE  /\ Holders(x)' # {} => state'[x] = "live" /\ Deleting(x)' = {}
                        /\ \A u, v \in Deleting(x)' : u = v
                        /\ Deleting(x)' # {} => state'[x] = "live"
      BY <1>3 DEF NeverUsedDeleted
    <3>1. CASE x = o
      <4>1. state'[o] = "live" /\ Deleting(o) = {}
        BY <2>14, <2>18, <3>1
      <4>2. CASE ref_count[o] = 1
        <5>1. Holders(o)' = {} /\ Deleting(o)' = {t}
          BY <2>1, <2>13, <2>17, <4>1, <4>2
        <5>2. QED
          BY <3>1, <4>1, <5>1
      <4>3. CASE ref_count[o] # 1
        <5>1. Deleting(o)' = {}
          BY <2>1, <2>13, <4>1, <4>3
        <5>2. QED
          BY <3>1, <4>1, <5>1
      <4>4. QED
        BY <4>2, <4>3
    <3>2. CASE x # o
      <4>1. /\ Holders(x)' = Holders(x) /\ Deleting(x)' = Deleting(x)
            /\ state'[x] = state[x]
        BY <2>12, <2>13, <2>14, <3>2
      <4>2. QED
        BY <4>1 DEF Counting, NeverUsedDeleted
    <3>3. QED
      BY <3>1, <3>2
  <2>20. NeverLeaks'
    <3> SUFFICES ASSUME NEW x \in Objects, state'[x] = "live"
                 PROVE  Holders(x)' # {} \/ Deleting(x)' # {}
      BY DEF NeverLeaks
    <3>1. CASE x = o /\ ref_count[o] = 1
      BY <2>13, <3>1
    <3>2. CASE x = o /\ ref_count[o] # 1
      BY <2>17, <3>2
    <3>3. CASE x # o
      <4>1. /\ Holders(x)' = Holders(x) /\ Deleting(x)' = Deleting(x)
            /\ state'[x] = state[x]
        BY <2>12, <2>13, <2>14, <3>3
      <4>2. QED
        BY <4>1 DEF Counting, NeverLeaks
    <3>4. QED
      BY <3>1, <3>2, <3>3
  <2>21. Unborn'
    BY <1>3, <2>12, <2>13, <2>14, <2>18 DEF Counting, Unborn
  <2>22. QED
    BY <2>8, <2>9, <2>11, <2>16, <2>19, <2>20, <2>21 DEF Counting
<1>6. QED
  BY <1>4, <1>5

(* An object is deleted when nothing holds it.                             *)
LEMMA DeleteStep ==
  ASSUME IInv, NEW t \in Threads, Delete(t)
  PROVE  IInv'
<1> USE DEF IInv
<1> DEFINE o == op[t].dying
<1>1. Busy(t) /\ op[t] \in Op /\ op[t].at = "delete"
  BY BusyOp DEF Delete, Busy
<1>2. /\ state' = [state EXCEPT ![o] = "deleted"]
      /\ op' = [op EXCEPT ![t].at = "assign"]
      /\ UNCHANGED <<ref_count, object, selfCopied>>
  BY DEF Delete
<1>3. o \in Objects
  BY <1>1 DEF Sources
<1>4. /\ op'[t] = [op[t] EXCEPT !.at = "assign"]
      /\ \A u \in Threads : u # t => op'[u] = op[u]
  BY <1>2 DEF TypeOK
<1>5. op'[t] \in Op
  BY <1>1, <1>4 DEF Op
<1>6. /\ op'[t].at = "assign" /\ op'[t].kind = op[t].kind
      /\ op'[t].dst = op[t].dst /\ op'[t].src = op[t].src
      /\ op'[t].new_object = op[t].new_object
  BY <1>1, <1>4 DEF Op
<1>7. TypeOK'
  BY <1>2, <1>3, <1>4, <1>5 DEF TypeOK
<1>8. Exclusive'
  BY <1>1, <1>4, <1>6, ExclusiveGoesOn
<1>9. Sources'
  <2> SUFFICES ASSUME NEW u \in Threads, Busy(u)'
               PROVE  /\ op'[u].kind # "raw" /\ op'[u].dst # op'[u].src =>
                           object'[op'[u].src] = op'[u].new_object
                      /\ op'[u].kind = "copy" /\ op'[u].dst = op'[u].src
                           /\ op'[u].new_object # Null =>
                             op'[u].new_object \in selfCopied'
                      /\ op'[u].kind = "convert" => op'[u].dst # op'[u].src
                      /\ op'[u].at # "remove" => object'[op'[u].dst] = Null
                      /\ op'[u].at = "delete" => op'[u].dying \in Objects
    BY DEF Sources
  <2>1. CASE u = t
    BY <1>1, <1>2, <1>6, <2>1 DEF Sources
  <2>2. CASE u # t
    BY <1>1, <1>2, <1>4, <2>2, SourcesOfOthers
  <2>3. QED
    BY <2>1, <2>2
<1>10. ASSUME NEW x \in Objects
       PROVE  /\ Holders(x)' = Holders(x)
              /\ Deleting(x)' = Deleting(x) \ {t}
              /\ x # o => Deleting(x)' = Deleting(x)
  <2>1. \A u \in Threads :
          (Busy(u) /\ op[u].kind = "raw" /\ op[u].new_object = x)'
            <=> Busy(u) /\ op[u].kind = "raw" /\ op[u].new_object = x
    BY <1>1, <1>4, <1>6 DEF Busy
  <2>2. Holders(x)' = Holders(x)
    BY <1>2, <2>1 DEF Holders
  <2>3. Deleting(x)' = Deleting(x) \ {t}
    BY <1>4, <1>6 DEF Deleting
  <2>4. x # o => t \notin Deleting(x)
    BY DEF Deleting
  <2>5. QED
    BY <2>2, <2>3, <2>4
<1>11. /\ state'[o] = "deleted" /\ t \in Deleting(o)
       /\ \A x \in Objects : x # o => state'[x] = state[x]
  BY <1>1, <1>2, <1>3 DEF TypeOK, Deleting
<1> HIDE DEF o
<1>12. CountsHolders'
  BY <1>2, <1>10 DEF Counting, CountsHolders
<1>13. NeverUsedDeleted'
  <2> SUFFICES ASSUME NEW x \in Objects \ selfCopied
               PROVE  /\ Holders(x)' # {} => state'[x] = "live" /\ Deleting(x)' = {}
                      /\ \A u, v \in Deleting(x)' : u = v
                      /\ Deleting(x)' # {} => state'[x] = "live"
    BY <1>2 DEF NeverUsedDeleted
  <2>1. CASE x = o
    <3>1. Holders(o) = {} /\ \A u, v \in Deleting(o) : u = v
      BY <1>11, <2>1 DEF Counting, NeverUsedDeleted
    <3>2. QED
      BY <1>10, <1>11, <2>1, <3>1
  <2>2. CASE x # o
    BY <1>10, <1>11, <2>2 DEF Counting, NeverUsedDeleted
  <2>3. QED
    BY <2>1, <2>2
<1>14. NeverLeaks'
  BY <1>10, <1>11 DEF Counting, NeverLeaks
<1>15. Unborn'
  BY <1>2, <1>10, <1>11 DEF Counting, Unborn
<1>16. QED
  BY <1>7, <1>8, <1>9, <1>12, <1>13, <1>14, <1>15 DEF Counting

(* Where the target's new reference comes from: the source still has one,  *)
(* or gives it up for it, or it came with the object.                      *)
LEMMA TakenFrom ==
  ASSUME IInv, NEW t \in Threads, op[t].at = "assign",
         op[t].new_object # Null, op[t].new_object \notin selfCopied,
         ~(op[t].kind = "move" /\ op[t].dst = op[t].src)
  PROVE  Holders(op[t].new_object) # {}
<1> USE DEF IInv
<1>1. Busy(t) /\ op[t] \in Op
  BY BusyOp DEF Busy
<1>2. CASE op[t].kind = "raw"
  BY <1>1, <1>2 DEF Holders
<1>3. CASE op[t].kind # "raw" /\ op[t].dst # op[t].src
  BY <1>1, <1>3 DEF Sources, Holders, Op
<1>4. CASE op[t].kind # "raw" /\ op[t].dst = op[t].src
  BY <1>1, <1>4 DEF Sources, Op, Kinds
<1>5. QED
  BY <1>2, <1>3, <1>4

(* How the holders change as a target gets its object.                     *)
LEMMA AssignHolders ==
  ASSUME IInv, NEW t \in Threads, AssignObject(t), NEW o \in Objects
  PROVE  LET n == op[t].new_object
             d == op[t].dst
             s == op[t].src
         IN  /\ o # n => Holders(o)' = Holders(o)
             /\ o = n /\ op[t].kind \in {"copy", "convert"} =>
                  Holders(o)' = Holders(o) \cup {d} /\ d \notin Holders(o)
             /\ o = n /\ op[t].kind = "raw" =>
                  /\ Holders(o)' = (Holders(o) \ {t}) \cup {d}
                  /\ t \in Holders(o) /\ d \notin Holders(o)
             /\ o = n /\ op[t].kind = "move" /\ d # s =>
                  /\ Holders(o)' = (Holders(o) \ {s}) \cup {d}
                  /\ s \in Holders(o) /\ d \notin Holders(o)
             /\ o = n /\ op[t].kind = "move" /\ d = s =>
                  Holders(o)' = Holders(o)
<1> USE DEF IInv
<1> DEFINE n == op[t].new_object
           d == op[t].dst
           s == op[t].src
           k == op[t].kind
<1>1. Busy(t) /\ op[t] \in Op /\ op[t].at = "assign"
  BY BusyOp DEF AssignObject, Busy
<1>2. /\ d \in Pointers /\ s \in Pointers /\ k \in Kinds
      /\ d \notin Threads /\ s \notin Threads /\ t \notin Pointers
  BY <1>1, SetsAssumption DEF Op
<1>3. /\ object[d] = Null
      /\ k # "raw" /\ d # s => object[s] = n
      /\ k = "convert" => d # s
  BY <1>1 DEF Sources
<1>4. \A p \in Pointers :
        object'[p] = IF k = "move" /\ p = s THEN Null
                     ELSE IF p = d THEN n ELSE object[p]
  BY <1>2 DEF AssignObject, TypeOK
<1>5. /\ op'[t] = IF k = "convert" THEN Doing("raw", s, s, Null) ELSE Idle
      /\ \A u \in Threads : u # t => op'[u] = op[u]
  BY DEF AssignObject, TypeOK
<1>6. \A u \in Threads :
        (Busy(u) /\ op[u].kind = "raw" /\ op[u].new_object = o)'
          <=> Busy(u) /\ op[u].kind = "raw" /\ op[u].new_object = o /\ u # t
  BY <1>1, <1>5, SetsAssumption DEF Busy, Doing, Idle
<1>7. Holders(o) =
        {p \in Pointers : object[p] = o} \cup
        {u \in Threads : Busy(u) /\ op[u].kind = "raw" /\ op[u].new_object = o}
  BY DEF Holders
<1>8. Holders(o)' =
        {p \in Pointers : object'[p] = o} \cup
        {u \in Threads : Busy(u) /\ op[u].kind = "raw" /\ op[u].new_object = o
                         /\ u # t}
  BY <1>6 DEF Holders
<1>9. d \notin Holders(o)
  BY <1>2, <1>3, <1>7, SetsAssumption
<1>10. t \in Holders(o) <=> k = "raw" /\ n = o
  BY <1>1, <1>2, <1>7
<1> HIDE DEF n, d, s, k
<1>11. \A x : x \in Pointers => x \notin Threads
  BY SetsAssumption
<1>12. \A p \in Pointers : p \in Holders(o) <=> object[p] = o
  BY <1>7, <1>11
<1>13. \A p \in Pointers : p \in Holders(o)' <=> object'[p] = o
  BY <1>8, <1>11
<1>14. \A u \in Threads : u \in Holders(o)' <=> u \in Holders(o) /\ u # t
  BY <1>7, <1>8, <1>11
<1>15. /\ Holders(o) \subseteq Pointers \cup Threads
       /\ Holders(o)' \subseteq Pointers \cup Threads
  BY <1>7, <1>8
<1>16. o # Null
  BY SetsAssumption
<1>17. CASE o # n
  <2>1. \A p \in Pointers : object'[p] = o <=> object[p] = o
    BY <1>3, <1>4, <1>16, <1>17, <1>2 DEF Kinds
  <2>2. t \notin Holders(o)
    BY <1>10, <1>17
  <2>3. \A x : x \in Holders(o)' <=> x \in Holders(o)
    BY <1>12, <1>13, <1>14, <1>15, <2>1, <2>2
  <2>4. Holders(o)' = Holders(o)
    BY <2>3
  <2>5. QED
    BY <1>17, <2>4 DEF n, d, s, k
<1>18. CASE o = n /\ k \in {"copy", "convert"}
  <2>1. \A p \in Pointers : object'[p] = o <=> object[p] = o \/ p = d
    BY <1>2, <1>4, <1>18
  <2>2. t \notin Holders(o)
    BY <1>10, <1>18
  <2>3. \A x : x \in Holders(o)' <=> x \in Holders(o) \/ x = d
    BY <1>2, <1>12, <1>13, <1>14, <1>15, <2>1, <2>2
  <2>4. Holders(o)' = Holders(o) \cup {d}
    BY <2>3
  <2>5. QED
    BY <1>9, <1>18, <2>4 DEF n, d, s, k
<1>19. CASE o = n /\ k = "raw"
  <2>1. \A p \in Pointers : object'[p] = o <=> object[p] = o \/ p = d
    BY <1>2, <1>4, <1>19
  <2>2. \A x : x \in Holders(o)' <=> (x \in Holders(o) /\ x # t) \/ x = d
    BY <1>2, <1>12, <1>13, <1>14, <1>15, <2>1
  <2>3. Holders(o)' = (Holders(o) \ {t}) \cup {d}
    BY <2>2
  <2>4. QED
    BY <1>9, <1>10, <1>19, <2>3 DEF n, d, s, k
<1>20. CASE o = n /\ k = "move" /\ d # s
  <2>1. \A p \in Pointers :
          object'[p] = o <=> (object[p] = o /\ p # s) \/ p = d
    BY <1>2, <1>4, <1>16, <1>20
  <2>2. t \notin Holders(o)
    BY <1>10, <1>20
  <2>3. \A x : x \in Holders(o)' <=> (x \in Holders(o) /\ x # s) \/ x = d
    BY <1>2, <1>12, <1>13, <1>14, <1>15, <2>1, <2>2
  <2>4. Holders(o)' = (Holders(o) \ {s}) \cup {d}
    BY <2>3
  <2>5. s \in Holders(o)
    BY <1>2, <1>3, <1>12, <1>20
  <2>6. QED
    BY <1>9, <1>20, <2>4, <2>5 DEF n, d, s, k
<1>21. CASE o = n /\ k = "move" /\ d = s
  <2>1. \A p \in Pointers : object'[p] = o <=> object[p] = o
    BY <1>2, <1>3, <1>4, <1>16, <1>21
  <2>2. t \notin Holders(o)
    BY <1>10, <1>21
  <2>3. \A x : x \in Holders(o)' <=> x \in Holders(o)
    BY <1>12, <1>13, <1>14, <1>15, <2>1, <2>2
  <2>4. Holders(o)' = Holders(o)
    BY <2>3
  <2>5. QED
    BY <1>21, <2>4 DEF n, d, s, k
<1>22. QED
  BY <1>2, <1>17, <1>18, <1>19, <1>20, <1>21 DEF Kinds, n, d, s, k

(* The target gets its object, and the count follows the kind of the       *)
(* assignment.                                                             *)
LEMMA AssignObjectStep ==
  ASSUME IInv, NEW t \in Threads, AssignObject(t)
  PROVE  IInv'
<1> USE DEF IInv
<1> PICK n, d, s, k : /\ n = op[t].new_object /\ d = op[t].dst
                      /\ s = op[t].src /\ k = op[t].kind
  OBVIOUS
<1>1. Busy(t) /\ op[t] \in Op /\ op[t].at = "assign"
  BY BusyOp DEF AssignObject, Busy
<1>2. /\ d \in Pointers /\ s \in Pointers /\ k \in Kinds
      /\ n \in Objects \cup {Null}
  BY <1>1 DEF Op
<1>3. /\ object' = IF k = "move" THEN [object EXCEPT ![d] = n, ![s] = Null]
                                 ELSE [object EXCEPT ![d] = n]
      /\ ref_count' = IF k \in {"copy", "convert"} THEN AddReference(n)
                                                    ELSE ref_count
      /\ UNCHANGED <<state, selfCopied>>
  BY DEF AssignObject
<1>4. /\ op'[t] = IF k = "convert" THEN Doing("raw", s, s, Null) ELSE Idle
      /\ \A u \in Threads : u # t => op'[u] = op[u]
      /\ op' \in [Threads -> Op \cup {Idle}]
  <2>1. Doing("raw", s, s, Null) \in Op
    BY <1>2 DEF Doing, Op, Kinds
  <2>2. op' = [op EXCEPT ![t] = IF k = "convert" THEN Doing("raw", s, s, Null)
                                                 ELSE Idle]
    BY DEF AssignObject
  <2>3. QED
    BY <2>1, <2>2 DEF TypeOK
<1>5. TypeOK'
  <2>1. object' \in [Pointers -> Objects \cup {Null}]
    BY <1>2, <1>3 DEF TypeOK
  <2>2. ref_count' \in [Objects -> Nat]
    BY <1>2, <1>3 DEF AddReference, TypeOK
  <2>3. QED
    BY <1>3, <1>4, <2>1, <2>2 DEF TypeOK
<1>6. Busy(t)' => /\ k = "convert" /\ op'[t].kind = "raw"
                  /\ op'[t].dst = s /\ op'[t].src = s
                  /\ op'[t].at = "remove"
  BY <1>4 DEF Busy, Doing, Idle
<1>7. Exclusive'
  <2>1. Busy(t)' => /\ Writes(op'[t].kind, op'[t].dst, op'[t].src)
                         \subseteq Writes(op[t].kind, op[t].dst, op[t].src)
                    /\ {op'[t].dst, op'[t].src} \subseteq {op[t].dst, op[t].src}
    BY <1>6 DEF Writes
  <2>2. QED
    BY <1>1, <1>4, <2>1, ExclusiveGoesOn
<1>8. Sources'
  <2> SUFFICES ASSUME NEW u \in Threads, Busy(u)'
               PROVE  /\ op'[u].kind # "raw" /\ op'[u].dst # op'[u].src =>
                           object'[op'[u].src] = op'[u].new_object
                      /\ op'[u].kind = "copy" /\ op'[u].dst = op'[u].src
                           /\ op'[u].new_object # Null =>
                             op'[u].new_object \in selfCopied'
                      /\ op'[u].kind = "convert" => op'[u].dst # op'[u].src
                      /\ op'[u].at # "remove" => object'[op'[u].dst] = Null
                      /\ op'[u].at = "delete" => op'[u].dying \in Objects
    BY DEF Sources
  <2>1. CASE u = t
    BY <1>6, <2>1
  <2>2. CASE u # t
    <3>1. \A p \in Pointers \ Writes(op[t].kind, op[t].dst, op[t].src) :
            object'[p] = object[p]
      BY <1>2, <1>3 DEF Writes, TypeOK
    <3>2. QED
      BY <1>1, <1>3, <1>4, <2>2, <3>1, SourcesOfOthers
  <2>3. QED
    BY <2>1, <2>2
<1>9. ASSUME NEW o \in Objects
      PROVE  Deleting(o)' = Deleting(o)
  <2>1. \A u \in Threads : (op[u].at = "delete" /\ op[u].dying = o)'
                           <=> op[u].at = "delete" /\ op[u].dying = o
    BY <1>1, <1>4 DEF Doing, Idle
  <2>2. QED
    BY <2>1 DEF Deleting
<1>10. \A o \in Objects :
         ref_count'[o] = IF k \in {"copy", "convert"} /\ o = n
                           THEN ref_count[o] + 1 ELSE ref_count[o]
  BY <1>2, <1>3, SetsAssumption DEF AddReference, TypeOK
<1>11. ASSUME NEW o \in Objects
       PROVE  /\ o # n => Holders(o)' = Holders(o)
              /\ o = n /\ k \in {"copy", "convert"} =>
                   Holders(o)' = Holders(o) \cup {d} /\ d \notin Holders(o)
              /\ o = n /\ k = "raw" =>
                   /\ Holders(o)' = (Holders(o) \ {t}) \cup {d}
                   /\ t \in Holders(o) /\ d \notin Holders(o)
              /\ o = n /\ k = "move" /\ d # s =>
                   /\ Holders(o)' = (Holders(o) \ {s}) \cup {d}
                   /\ s \in Holders(o) /\ d \notin Holders(o)
              /\ o = n /\ k = "move" /\ d = s => Holders(o)' = Holders(o)
  BY AssignHolders
<1>12. CountsHolders'
  <2> SUFFICES ASSUME NEW o \in Objects
               PROVE  ref_count'[o] = Cardinality(Holders(o)')
    BY DEF CountsHolders
  <2>1. ref_count[o] = Cardinality(Holders(o)) /\ IsFiniteSet(Holders(o))
    BY HoldersFinite DEF Counting, CountsHolders
  <2>2. CASE o = n /\ k \in {"copy", "convert"}
    <3>1. Cardinality(Holders(o) \cup {d}) = Cardinality(Holders(o)) + 1
      BY <1>11, <2>1, <2>2, FS_AddElement
    <3>2. QED
      BY <1>10, <1>11, <2>1, <2>2, <3>1
  <2>3. CASE o = n /\ k = "raw"
    <3>1. Cardinality((Holders(o) \ {t}) \cup {d}) = Cardinality(Holders(o))
      BY <1>11, <2>1, <2>3, Replaced
    <3>2. QED
      BY <1>10, <1>11, <2>1, <2>3, <3>1
  <2>4. CASE o = n /\ k = "move" /\ d # s
    <3>1. Cardinality((Holders(o) \ {s}) \cup {d}) = Cardinality(Holders(o))
      BY <1>11, <2>1, <2>4, Replaced
    <3>2. QED
      BY <1>10, <1>11, <2>1, <2>4, <3>1
  <2>5. CASE o # n \/ (k = "move" /\ d = s)
    <3>1. Holders(o)' = Holders(o) /\ ref_count'[o] = ref_count[o]
      BY <1>10, <1>11, <2>5
    <3>2. QED
      BY <2>1, <3>1
  <2>6. QED
    BY <1>2, <2>2, <2>3, <2>4, <2>5 DEF Kinds
<1>13. ASSUME NEW o \in Objects
       PROVE  /\ Holders(o) # {} => Holders(o)' # {}
              /\ o \notin selfCopied /\ Holders(o)' # {} => Holders(o) # {}
  <2>1. CASE Holders(o)' = Holders(o)
    BY <2>1
  <2>2. CASE Holders(o)' # Holders(o)
    <3>1. o = n /\ ~(k = "move" /\ d = s) /\ n # Null
      BY <1>11, <2>2, SetsAssumption
    <3>2. d \in Holders(o)'
      BY <1>2, <1>11, <3>1 DEF Kinds
    <3>3. o \notin selfCopied => Holders(o) # {}
      BY <1>1, <3>1, TakenFrom
    <3>4. QED
      BY <3>2, <3>3
  <2>3. QED
    BY <2>1, <2>2
<1>14. NeverUsedDeleted'
  BY <1>3, <1>9, <1>13 DEF Counting, NeverUsedDeleted
<1>15. NeverLeaks'
  BY <1>3, <1>9, <1>13 DEF Counting, NeverLeaks
<1>16. Unborn'
  <2> SUFFICES ASSUME NEW o \in Objects, state'[o] = "none"
               PROVE  Holders(o)' = {} /\ Deleting(o)' = {} /\ o \notin selfCopied'
    BY DEF Unborn
  <2>1. Holders(o) = {} /\ Deleting(o) = {} /\ o \notin selfCopied
    BY <1>3 DEF Counting, Unborn
  <2>2. QED
    BY <1>3, <1>9, <1>13, <2>1
<1>17. QED
  BY <1>5, <1>7, <1>8, <1>12, <1>14, <1>15, <1>16 DEF Counting

-----------------------------------------------------------------------------
(* The invariant holds at first, and every step keeps it.                  *)
LEMMA Invariant == Spec => []IInv
<1>1. Init => IInv
  <2> SUFFICES ASSUME Init
               PROVE  IInv
    OBVIOUS
  <2>1. \A t \in Threads : ~Busy(t)
    BY DEF Init, Busy, Idle
  <2>2. \A o \in Objects : Holders(o) = {} /\ Deleting(o) = {}
    BY <2>1, SetsAssumption DEF Init, Holders, Deleting, Busy
  <2>3. TypeOK /\ Sources /\ Exclusive
    BY <2>1 DEF Init, TypeOK, Sources, Exclusive
  <2>4. Cardinality({}) = 0
    BY FS_EmptySet
  <2>5. CountsHolders
    BY <2>2, <2>4 DEF Init, CountsHolders
  <2>6. NeverUsedDeleted /\ NeverLeaks /\ Unborn
    BY <2>2 DEF Init, NeverUsedDeleted, NeverLeaks, Unborn
  <2>7. QED
    BY <2>3, <2>5, <2>6 DEF IInv, Counting
<1>2. IInv /\ [Next]_vars => IInv'
  <2> SUFFICES ASSUME IInv, [Next]_vars
               PROVE  IInv'
    OBVIOUS
  <2>1. ASSUME NEW t \in Threads, NEW kind \in Kinds, NEW dst \in Pointers,
               NEW src \in Pointers, Assign(t, kind, dst, src)
        PROVE  IInv'
    BY <2>1, AssignStep
  <2>2. ASSUME NEW t \in Threads, NEW dst \in Pointers, NEW o \in Objects,
               AssignNew(t, dst, o)
        PROVE  IInv'
    BY <2>2, AssignNewStep
  <2>3. ASSUME NEW t \in Threads, NEW dst \in Pointers, Release(t, dst)
        PROVE  IInv'
    BY <2>3, ReleaseStep
  <2>4. ASSUME NEW t \in Threads, RemoveReference(t)
        PROVE  IInv'
    BY <2>4, RemoveReferenceStep
  <2>5. ASSUME NEW t \in Threads, Delete(t)
        PROVE  IInv'
    BY <2>5, DeleteStep
  <2>6. ASSUME NEW t \in Threads, AssignObject(t)
        PROVE  IInv'
    BY <2>6, AssignObjectStep
  <2>7. ASSUME UNCHANGED vars
        PROVE  IInv'
    <3>1. /\ state' = state /\ ref_count' = ref_count /\ object' = object
          /\ op' = op /\ selfCopied' = selfCopied
      BY <2>7 DEF vars
    <3>2. TypeOK' /\ Sources' /\ Exclusive'
      BY <3>1 DEF IInv, TypeOK, Sources, Exclusive, Busy
    <3>3. \A o : Holders(o)' = Holders(o) /\ Deleting(o)' = Deleting(o)
      BY <3>1 DEF Holders, Deleting, Busy
    <3>4. Counting'
      BY <3>1, <3>3, CountingSame DEF IInv
    <3>5. QED
      BY <3>2, <3>4 DEF IInv
  <2>8. QED
    BY <2>1, <2>2, <2>3, <2>4, <2>5, <2>6, <2>7 DEF Next
<1>3. QED
  BY <1>1, <1>2, PTL DEF Spec

(* No count drops below zero, as "QUICHE_DCHECK_GE(new_count, 0)" of       *)
(* RemoveReference asks.                                                   *)
THEOREM TypeCorrect == Spec => []TypeOK
<1>1. IInv => TypeOK
  BY DEF IInv
<1>2. QED
  BY <1>1, Invariant, PTL

(* The atomic fetch_add and fetch_sub lose no reference, whatever runs     *)
(* between them and the stores to object_.                                 *)
THEOREM CountExact == Spec => []CountsHolders
<1>1. IInv => CountsHolders
  BY DEF IInv, Counting
<1>2. QED
  BY <1>1, Invariant, PTL

(* An object is deleted once, and never while or before it is held, unless *)
(* a pointer to it was copied to itself.                                   *)
THEOREM DeletedOnce == Spec => []NeverUsedDeleted
<1>1. IInv => NeverUsedDeleted
  BY DEF IInv, Counting
<1>2. QED
  BY <1>1, Invariant, PTL

(* The last holder's RemoveReference deletes the object.                   *)
THEOREM NoLeak == Spec => []NeverLeaks
<1>1. IInv => NeverLeaks
  BY DEF IInv, Counting
<1>2. QED
  BY <1>1, Invariant, PTL

(* HasUniqueReference can be relied on: who holds the only reference is    *)
(* the only one to use the object.                                         *)
THEOREM UniqueCorrect == Spec => []UniqueIsAlone
<1>1. IInv => UniqueIsAlone
  <2> SUFFICES ASSUME IInv, NEW o \in Objects \ selfCopied, NEW p \in Pointers,
                      object[p] = o, ref_count[o] = 1
               PROVE  /\ \A q \in Pointers : object[q] = o => q = p
                      /\ \A t \in Threads :
                           Busy(t) /\ op[t].kind # "move" /\ op[t].new_object = o =>
                             op[t].kind # "raw" /\ op[t].src = p
    BY DEF UniqueIsAlone, HasUniqueReference
  <2>1. p \in Holders(o) /\ p \notin Threads
    BY SetsAssumption DEF Holders
  <2>2. \A x \in Holders(o) : x = p
    <3>1. Cardinality(Holders(o)) = 1
      BY DEF IInv, Counting, CountsHolders
    <3>2. /\ IsFiniteSet(Holders(o) \ {p})
          /\ Cardinality(Holders(o) \ {p}) = Cardinality(Holders(o)) - 1
      BY <2>1, HoldersFinite, FS_RemoveElement
    <3>3. Holders(o) \ {p} = {}
      BY <3>1, <3>2, FS_EmptySet
    <3>4. QED
      BY <3>3
  <2>3. ASSUME NEW q \in Pointers, object[q] = o
        PROVE  q = p
    BY <2>2, <2>3 DEF Holders
  <2>4. ASSUME NEW t \in Threads, Busy(t), op[t].kind # "move",
               op[t].new_object = o
        PROVE  op[t].kind # "raw" /\ op[t].src = p
    <3>1. op[t] \in Op
      BY <2>4, BusyOp DEF IInv
    <3>2. op[t].kind # "raw"
      BY <2>1, <2>2, <2>4 DEF Holders
    <3>3. op[t].dst # op[t].src
      <4>1. op[t].kind \in {"copy", "convert"} /\ o # Null
        BY <2>4, <3>1, <3>2, SetsAssumption DEF Op, Kinds
      <4>2. QED
        BY <2>4, <4>1 DEF IInv, Sources
    <3>4. object[op[t].src] = o /\ op[t].src \in Pointers
      BY <2>4, <3>1, <3>2, <3>3 DEF IInv, Sources, Op
    <3>5. QED
      BY <2>3, <3>2, <3>4
  <2>5. QED
    BY <2>3, <2>4
<1>2. QED
  BY <1>1, Invariant, PTL

-----------------------------------------------------------------------------
(* A step seen as one of SharedObjects: all objects but one stay as they   *)
(* are.                                                                    *)
LEMMA OneObject ==
  ASSUME NEW o \in Objects,
         \A x \in Objects : x # o => Life'[x] = Life[x] /\ HeldBy'[x] = HeldBy[x]
  PROVE  /\ Life' = [Life EXCEPT ![o] = Life'[o]]
         /\ HeldBy' = [HeldBy EXCEPT ![o] = HeldBy'[o]]
BY DEF Life, HeldBy

(* A step that changes no holders and no state does nothing to the objects.*)
LEMMA SharedSame ==
  ASSUME selfCopied' = selfCopied, state' = state,
         \A o \in Objects : Holders(o)' = Holders(o)
  PROVE  UNCHANGED Shared!objects
<1>1. Life' = Life
  BY DEF Life
<1>2. HeldBy' = HeldBy
  BY DEF HeldBy
<1>3. QED
  BY <1>1, <1>2 DEF Shared!objects

(* An operation that begins, or a pause between its steps, moves no        *)
(* reference, as long as no raw assignment of an object begins or ends.    *)
LEMMA HoldersSame ==
  ASSUME TypeOK, NEW t \in Threads, \A u \in Threads : u # t => op'[u] = op[u],
         object' = object, NEW o \in Objects,
         (Busy(t) /\ op[t].kind = "raw" /\ op[t].new_object = o)'
           <=> Busy(t) /\ op[t].kind = "raw" /\ op[t].new_object = o
  PROVE  Holders(o)' = Holders(o)
<1>1. \A u \in Threads :
        (Busy(u) /\ op[u].kind = "raw" /\ op[u].new_object = o)'
          <=> Busy(u) /\ op[u].kind = "raw" /\ op[u].new_object = o
  BY DEF Busy
<1>2. QED
  BY <1>1 DEF Holders

(* An object that is held, and was not misused, is alive.                  *)
LEMMA HeldIsLive ==
  ASSUME IInv, NEW o \in Objects, o \notin selfCopied, Holders(o) # {}
  PROVE  Life[o] = "live" /\ HeldBy[o] = Holders(o) /\ state[o] = "live"
BY DEF IInv, Counting, NeverUsedDeleted, Life, HeldBy

(* A copy to itself misuses the object; nothing else moves a reference yet.*)
LEMMA AssignShared ==
  ASSUME IInv, NEW t \in Threads, NEW kind \in Kinds, NEW dst \in Pointers,
         NEW src \in Pointers, Assign(t, kind, dst, src)
  PROVE  [Shared!Next]_(Shared!objects)
<1> DEFINE o == object[src]
<1>1. /\ op' = [op EXCEPT ![t] = Doing(kind, dst, src, o)]
      /\ UNCHANGED <<state, object>>
      /\ ~Busy(t) /\ kind # "raw"
  BY DEF Assign
<1>2. op'[t] = Doing(kind, dst, src, o) /\ \A u \in Threads : u # t => op'[u] = op[u]
  BY <1>1 DEF IInv, TypeOK
<1>3. \A x \in Objects : Holders(x)' = Holders(x)
  BY <1>1, <1>2, HoldersSame DEF IInv, Busy, Doing
<1>4. CASE selfCopied' = selfCopied
  BY <1>1, <1>3, <1>4, SharedSame
<1>5. CASE selfCopied' # selfCopied
  <2>1. o \in Objects /\ selfCopied' = selfCopied \cup {o} /\ o \notin selfCopied
    BY <1>5 DEF Assign, IInv, TypeOK
  <2>2. src \in Holders(o)
    BY DEF Holders
  <2>3. Life[o] = "live" /\ HeldBy[o] # {}
    BY <2>1, <2>2, HeldIsLive
  <2>4. Life'[o] = "misused" /\ HeldBy'[o] = {}
    BY <2>1 DEF Life, HeldBy
  <2>5. \A x \in Objects : x # o => Life'[x] = Life[x] /\ HeldBy'[x] = HeldBy[x]
    BY <1>1, <1>3, <2>1 DEF Life, HeldBy
  <2>6. Shared!Misuse(o)
    <3> HIDE DEF o
    <3>1. /\ Life' = [Life EXCEPT ![o] = "misused"]
          /\ HeldBy' = [HeldBy EXCEPT ![o] = {}]
      BY <2>1, <2>4, <2>5, OneObject
    <3>2. QED
      BY <2>3, <3>1 DEF Shared!Misuse, Shared!Become, Shared!Hold
  <2>7. QED
    BY <2>1, <2>6 DEF Shared!Next
<1>6. QED
  BY <1>4, <1>5

(* The thread that assigns a new object is its first holder.               *)
LEMMA AssignNewShared ==
  ASSUME IInv, NEW t \in Threads, NEW dst \in Pointers, NEW n \in Objects,
         AssignNew(t, dst, n)
  PROVE  [Shared!Next]_(Shared!objects)
<1>1. /\ op' = [op EXCEPT ![t] = Doing("raw", dst, dst, n)]
      /\ state[n] = "none" /\ state' = [state EXCEPT ![n] = "live"]
      /\ UNCHANGED <<object, selfCopied>>
      /\ ~Busy(t)
  BY DEF AssignNew
<1>2. /\ op'[t] = Doing("raw", dst, dst, n)
      /\ \A u \in Threads : u # t => op'[u] = op[u]
      /\ state'[n] = "live" /\ \A x \in Objects : x # n => state'[x] = state[x]
  BY <1>1 DEF IInv, TypeOK
<1>3. \A x \in Objects : x # n => Holders(x)' = Holders(x)
  BY <1>1, <1>2, HoldersSame DEF IInv, Busy, Doing
<1>4. Holders(n) = {} /\ n \notin selfCopied
  BY <1>1 DEF IInv, Counting, Unborn
<1>5. Holders(n)' = {t}
  <2>1. \A u \in Threads :
          (Busy(u) /\ op[u].kind = "raw" /\ op[u].new_object = n)' <=> u = t
    BY <1>2, <1>4 DEF Busy, Holders, Doing
  <2>2. \A p \in Pointers : object'[p] # n
    BY <1>1, <1>4 DEF Holders
  <2>3. QED
    BY <2>1, <2>2 DEF Holders
<1>6. /\ Life[n] = "none"
      /\ Life'[n] = "live" /\ HeldBy'[n] = {t}
      /\ \A x \in Objects : x # n => Life'[x] = Life[x] /\ HeldBy'[x] = HeldBy[x]
  BY <1>1, <1>2, <1>3, <1>4, <1>5 DEF Life, HeldBy
<1>7. Shared!Create(n, t)
  BY <1>6, OneObject DEF Shared!Create, Shared!Become, Shared!Hold
<1>8. QED
  BY <1>7 DEF Shared!Next

(* Destruction begins without a change.                                    *)
LEMMA ReleaseShared ==
  ASSUME IInv, NEW t \in Threads, NEW dst \in Pointers, Release(t, dst)
  PROVE  UNCHANGED Shared!objects
<1>1. /\ op' = [op EXCEPT ![t] = Doing("raw", dst, dst, Null)]
      /\ UNCHANGED <<state, object, selfCopied>>
      /\ ~Busy(t)
  BY DEF Release
<1>2. /\ op'[t] = Doing("raw", dst, dst, Null)
      /\ \A u \in Threads : u # t => op'[u] = op[u]
  BY <1>1 DEF IInv, TypeOK
<1>3. \A x \in Objects : Holders(x)' = Holders(x)
  BY <1>1, <1>2, HoldersSame, SetsAssumption DEF IInv, Busy, Doing
<1>4. QED
  BY <1>1, <1>3, SharedSame

(* The target drops its reference, whoever is left.                        *)
LEMMA RemoveReferenceShared ==
  ASSUME IInv, NEW t \in Threads, RemoveReference(t)
  PROVE  [Shared!Next]_(Shared!objects)
<1>1. Busy(t) /\ op[t] \in Op /\ op[t].at = "remove"
  BY BusyOp DEF RemoveReference, Busy, IInv
<1> PICK d, o : d = op[t].dst /\ o = object[d]
  OBVIOUS
<1>2. d \in Pointers /\ o \in Objects \cup {Null}
  BY <1>1 DEF Op, TypeOK, IInv
<1>3. UNCHANGED <<state, selfCopied>>
  BY DEF RemoveReference
<1>4. \/ op' = [op EXCEPT ![t].at = "assign"]
      \/ op' = [op EXCEPT ![t].at = "delete", ![t].dying = o]
  BY DEF RemoveReference
<1>5. /\ \A u \in Threads : u # t => op'[u] = op[u]
      /\ op'[t].kind = op[t].kind /\ op'[t].new_object = op[t].new_object
      /\ Busy(t)'
  <2>1. CASE op' = [op EXCEPT ![t].at = "assign"]
    <3>1. /\ op'[t] = [op[t] EXCEPT !.at = "assign"]
          /\ \A u \in Threads : u # t => op'[u] = op[u]
      BY <2>1 DEF TypeOK, IInv
    <3>2. QED
      BY <1>1, <3>1 DEF Op, Busy
  <2>2. CASE op' = [op EXCEPT ![t].at = "delete", ![t].dying = o]
    <3>1. /\ op'[t] = [op[t] EXCEPT !.at = "delete", !.dying = o]
          /\ \A u \in Threads : u # t => op'[u] = op[u]
      BY <1>1, <2>2 DEF TypeOK, IInv
    <3>2. QED
      BY <1>1, <3>1 DEF Op, Busy
  <2>3. QED
    BY <1>4, <2>1, <2>2
<1>6. CASE o = Null
  <2>1. object' = object
    BY <1>6 DEF RemoveReference
  <2>2. \A x \in Objects : Holders(x)' = Holders(x)
    BY <1>1, <1>5, <2>1, HoldersSame DEF IInv
  <2>3. QED
    BY <1>3, <2>2, SharedSame
<1>7. CASE o # Null
  <2>1. o \in Objects /\ object' = [object EXCEPT ![d] = Null]
    BY <1>2, <1>7 DEF RemoveReference
  <2>2. ASSUME NEW x \in Objects
        PROVE  Holders(x)' = IF x = o THEN Holders(x) \ {d} ELSE Holders(x)
    <3>1. \A u \in Threads :
            (Busy(u) /\ op[u].kind = "raw" /\ op[u].new_object = x)'
              <=> Busy(u) /\ op[u].kind = "raw" /\ op[u].new_object = x
      BY <1>1, <1>5 DEF Busy
    <3>2. \A p \in Pointers :
            object'[p] = x <=> object[p] = x /\ (x = o => p # d)
      BY <1>2, <2>1, SetsAssumption DEF TypeOK, IInv
    <3>3. d \notin Threads
      BY <1>2, SetsAssumption
    <3>4. QED
      BY <3>1, <3>2, <3>3 DEF Holders
  <2>3. d \in Holders(o)
    BY <1>2 DEF Holders
  <2>4. CASE o \in selfCopied
    <3>1. Life' = Life /\ HeldBy' = HeldBy
      BY <1>3, <2>2, <2>4 DEF Life, HeldBy
    <3>2. QED
      BY <3>1 DEF Shared!objects
  <2>5. CASE o \notin selfCopied
    <3>1. Life[o] = "live" /\ HeldBy[o] = Holders(o)
      BY <2>1, <2>3, <2>5, HeldIsLive
    <3>2. /\ Life' = Life
          /\ HeldBy'[o] = Holders(o) \ {d}
          /\ \A x \in Objects : x # o => HeldBy'[x] = HeldBy[x]
      BY <1>3, <2>1, <2>2, <2>5 DEF Life, HeldBy
    <3>3. HeldBy' = [HeldBy EXCEPT ![o] = Holders(o) \ {d}]
      BY <2>1, <3>2, OneObject
    <3>4. Shared!Drop(o, d)
      BY <2>3, <3>1, <3>2, <3>3 DEF Shared!Drop, Shared!Hold
    <3>5. QED
      BY <1>2, <2>1, <3>4 DEF Shared!Next
  <2>6. QED
    BY <2>4, <2>5
<1>8. QED
  BY <1>6, <1>7

(* The object that nobody holds dies.                                      *)
LEMMA DeleteShared ==
  ASSUME IInv, NEW t \in Threads, Delete(t)
  PROVE  [Shared!Next]_(Shared!objects)
<1> PICK o : o = op[t].dying
  OBVIOUS
<1>1. Busy(t) /\ op[t] \in Op /\ op[t].at = "delete" /\ o \in Objects
  BY BusyOp DEF Delete, Busy, IInv, Sources
<1>2. /\ state' = [state EXCEPT ![o] = "deleted"]
      /\ op' = [op EXCEPT ![t].at = "assign"]
      /\ UNCHANGED <<object, selfCopied>>
  BY DEF Delete
<1>3. /\ op'[t] = [op[t] EXCEPT !.at = "assign"]
      /\ \A u \in Threads : u # t => op'[u] = op[u]
      /\ state'[o] = "deleted" /\ \A x \in Objects : x # o => state'[x] = state[x]
  BY <1>1, <1>2 DEF TypeOK, IInv
<1>4. op'[t].kind = op[t].kind /\ op'[t].new_object = op[t].new_object /\ Busy(t)'
  BY <1>1, <1>3 DEF Op, Busy
<1>5. \A x \in Objects : Holders(x)' = Holders(x)
  BY <1>1, <1>2, <1>3, <1>4, HoldersSame DEF IInv
<1>6. \A x \in Objects : x # o => Life'[x] = Life[x]
  BY <1>2, <1>3 DEF Life
<1>7. HeldBy' = HeldBy
  BY <1>2, <1>5 DEF HeldBy
<1>8. CASE o \in selfCopied
  <2>1. Life' = Life
    BY <1>2, <1>6, <1>8 DEF Life
  <2>2. QED
    BY <1>7, <2>1 DEF Shared!objects
<1>9. CASE o \notin selfCopied
  <2>1. t \in Deleting(o)
    BY <1>1 DEF Deleting
  <2>2. state[o] = "live" /\ Holders(o) = {}
    BY <1>1, <1>9, <2>1 DEF IInv, Counting, NeverUsedDeleted
  <2>3. Life[o] = "live" /\ HeldBy[o] = {} /\ Life'[o] = "dead"
    BY <1>1, <1>2, <1>3, <1>9, <2>2 DEF Life, HeldBy
  <2>4. Shared!Die(o)
    BY <1>1, <1>6, <1>7, <2>3, OneObject DEF Shared!Die, Shared!Become
  <2>5. QED
    BY <1>1, <2>4 DEF Shared!Next
<1>10. QED
  BY <1>8, <1>9

(* The target takes a reference where its source, or the thread, has one.  *)
LEMMA AssignObjectShared ==
  ASSUME IInv, NEW t \in Threads, AssignObject(t)
  PROVE  [Shared!Next]_(Shared!objects)
<1> PICK n, d, s, k : /\ n = op[t].new_object /\ d = op[t].dst
                      /\ s = op[t].src /\ k = op[t].kind
  OBVIOUS
<1>1. Busy(t) /\ op[t] \in Op /\ op[t].at = "assign"
  BY BusyOp DEF AssignObject, Busy, IInv
<1>2. /\ n \in Objects \cup {Null} /\ d \in Pointers /\ s \in Pointers
      /\ k \in Kinds
  BY <1>1 DEF Op
<1>3. UNCHANGED <<state, selfCopied>>
  BY DEF AssignObject
<1>4. Life' = Life
  BY <1>3 DEF Life
<1>5. \A x \in Objects : x # n => Holders(x)' = Holders(x)
  BY AssignHolders
<1>6. CASE n = Null \/ n \in selfCopied \/ (k = "move" /\ d = s)
  <2>1. HeldBy' = HeldBy
    <3>1. ASSUME NEW x \in Objects
          PROVE  x \in selfCopied \/ Holders(x)' = Holders(x)
      <4>1. CASE n = x /\ k = "move" /\ d = s
        BY <4>1, AssignHolders
      <4>2. QED
        BY <1>5, <1>6, <4>1, SetsAssumption
    <3>2. QED
      BY <1>3, <3>1 DEF HeldBy
  <2>2. QED
    BY <1>4, <2>1 DEF Shared!objects
<1>7. CASE n # Null /\ n \notin selfCopied /\ ~(k = "move" /\ d = s)
  <2>1. n \in Objects /\ Holders(n) # {}
    BY <1>1, <1>2, <1>7, TakenFrom
  <2>2. Life[n] = "live" /\ HeldBy[n] = Holders(n)
    BY <1>7, <2>1, HeldIsLive
  <2>3. HeldBy'[n] = Holders(n)'
    BY <1>3, <1>7, <2>1 DEF HeldBy
  <2>4. \A x \in Objects : x # n => HeldBy'[x] = HeldBy[x]
    BY <1>3, <1>5 DEF HeldBy
  <2>5. HeldBy' = [HeldBy EXCEPT ![n] = Holders(n)']
    BY <1>4, <2>1, <2>3, <2>4, OneObject
  <2>6. CASE k \in {"copy", "convert"}
    <3>1. Holders(n)' = Holders(n) \cup {d} /\ d \notin Holders(n)
      BY <2>1, <2>6, AssignHolders
    <3>2. Shared!Share(n, d)
      BY <1>4, <2>1, <2>2, <2>5, <3>1 DEF Shared!Share, Shared!Hold
    <3>3. QED
      BY <1>2, <2>1, <3>2 DEF Shared!Next
  <2>7. CASE k = "raw"
    <3>1. /\ Holders(n)' = (Holders(n) \ {t}) \cup {d}
          /\ t \in Holders(n) /\ d \notin Holders(n)
      BY <2>1, <2>7, AssignHolders
    <3>2. Shared!HandOver(n, t, d)
      BY <1>4, <2>2, <2>5, <3>1 DEF Shared!HandOver, Shared!Hold
    <3>3. QED
      BY <1>2, <2>1, <3>2 DEF Shared!Next
  <2>8. CASE k = "move"
    <3>1. /\ Holders(n)' = (Holders(n) \ {s}) \cup {d}
          /\ s \in Holders(n) /\ d \notin Holders(n)
      BY <1>7, <2>1, <2>8, AssignHolders
    <3>2. Shared!HandOver(n, s, d)
      BY <1>4, <2>2, <2>5, <3>1 DEF Shared!HandOver, Shared!Hold
    <3>3. QED
      BY <1>2, <2>1, <3>2 DEF Shared!Next
  <2>9. QED
    BY <1>2, <2>6, <2>7, <2>8 DEF Kinds
<1>8. QED
  BY <1>6, <1>7

(* For any threads and pointers, the objects are shared as SharedObjects   *)
(* says: the interleaved steps of copies, moves and releases are, to each  *)
(* object, references taken, handed over and dropped one at a time.        *)
THEOREM ImplementsShared == Spec => RefinesShared
<1>1. Init => Shared!Init
  <2> SUFFICES ASSUME Init
               PROVE  Shared!Init
    OBVIOUS
  <2>1. \A o \in Objects : Holders(o) = {}
    BY SetsAssumption DEF Init, Holders, Busy, Idle
  <2>2. Life = [o \in Objects |-> "none"]
    BY DEF Init, Life
  <2>3. HeldBy = [o \in Objects |-> {}]
    BY <2>1 DEF HeldBy
  <2>4. QED
    BY <2>2, <2>3 DEF Shared!Init
<1>2. IInv /\ [Next]_vars => [Shared!Next]_(Shared!objects)
  <2> SUFFICES ASSUME IInv, [Next]_vars
               PROVE  [Shared!Next]_(Shared!objects)
    OBVIOUS
  <2>1. CASE UNCHANGED vars
    <3>1. state' = state /\ selfCopied' = selfCopied
      BY <2>1 DEF vars
    <3>2. \A o \in Objects : Holders(o)' = Holders(o)
      BY <2>1 DEF vars, Holders, Busy
    <3>3. QED
      BY <3>1, <3>2, SharedSame
  <2>2. CASE Next
    BY <2>2, AssignShared, AssignNewShared, ReleaseShared,
       RemoveReferenceShared, DeleteShared, AssignObjectShared DEF Next
  <2>3. QED
    BY <2>1, <2>2
<1>3. QED
  BY <1>1, <1>2, Invariant, PTL DEF Spec, RefinesShared, Shared!Spec
=============================================================================
