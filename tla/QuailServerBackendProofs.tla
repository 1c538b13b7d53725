---------------------- MODULE QuailServerBackendProofs ----------------------
(***************************************************************************)
(* Theorems about QuailServerBackend, for every directory and every order  *)
(* of its files, of registrations and of requests.                         *)
(***************************************************************************)
EXTENDS QuailServerBackend, SequenceTheorems, WellFoundedInduction, TLAPS

(* A set of positions that is not empty has a first one, and that is Min.  *)
LEMMA FirstPosition ==
  ASSUME NEW I, I \subseteq Nat, I # {}
  PROVE  \E i \in I : \A j \in I : i <= j
<1>1. PICK i \in I : \A j \in I : <<j, i>> \notin OpToRel(<, Nat)
  BY WFMin, NatLessThanWellFounded
<1>2. \A j \in I : ~(j < i)
  BY <1>1 DEF OpToRel
<1>3. QED
  BY <1>2

(* Min, by which Find and End choose a position, is the first of its set.  *)
LEMMA MinFacts ==
  ASSUME NEW I, I \subseteq Nat, I # {}
  PROVE  Min(I) \in I /\ \A j \in I : Min(I) <= j
<1>1. PICK i \in I : \A j \in I : i <= j
  BY FirstPosition
<1>2. QED
  BY <1>1 DEF Min

(* Find gives a position of the name, or 0 when the character is nowhere.  *)
LEMMA FindFacts ==
  ASSUME NEW s \in Seq(Chars), NEW c
  PROVE  /\ Find(s, c) \in 0..Len(s)
         /\ (\A i \in 1..Len(s) : s[i] # c) => Find(s, c) = 0
<1> DEFINE I == {i \in 1..Len(s) : s[i] = c}
<1>1. Find(s, c) = IF I # {} THEN Min(I) ELSE 0
  BY DEF Find, SelectInSeq
<1>2. I # {} => Min(I) \in I
  <2>1. SUFFICES ASSUME I # {} PROVE Min(I) \in I
    OBVIOUS
  <2>2. I \subseteq Nat
    OBVIOUS
  <2>3. QED
    BY <2>1, <2>2, MinFacts, Zenon
<1>3. QED
  BY <1>1, <1>2

(* The path starts at the slash, so that host and path of a name without   *)
(* comma are the name, cut in two.                                         *)
LEMMA HostPathOfName ==
  ASSUME NEW s \in Seq(Chars), Find(s, "comma") = 0
  PROVE  /\ SetHostPathFromBase(s).host \in Seq(Chars)
         /\ SetHostPathFromBase(s).host \o SetHostPathFromBase(s).path = s
         /\ Len(SetHostPathFromBase(s).host) <= Len(s)
         /\ \A i \in 1..Len(SetHostPathFromBase(s).host) :
              SetHostPathFromBase(s).host[i] = s[i]
<1>1. PICK k \in 0..Len(s) : k = Find(s, "slash")
  BY FindFacts
<1>2. CASE k = 0
  <2>1. SetHostPathFromBase(s) = [host |-> s, path |-> <<>>]
    BY <1>1, <1>2 DEF SetHostPathFromBase
  <2>2. s \o <<>> = s
    BY ConcatEmptySeq
  <2>3. /\ SetHostPathFromBase(s).host = s
        /\ SetHostPathFromBase(s).path = <<>>
    BY <2>1
  <2>4. QED
    BY <2>2, <2>3
<1>3. CASE k # 0
  <2>1. SetHostPathFromBase(s) = [host |-> SubSeq(s, 1, k - 1),
                                  path |-> SubSeq(s, k, Len(s))]
    <3>1. \A e : (IF Find(s, "comma") <= 1 \/ e > Len(s) THEN Len(s) ELSE e)
                   = Len(s)
      OBVIOUS
    <3>2. QED
      BY <1>1, <1>3, <3>1, Zenon DEF SetHostPathFromBase
  <2>2. SubSeq(s, 1, k - 1) \o SubSeq(s, (k - 1) + 1, Len(s)) = SubSeq(s, 1, Len(s))
    <3>1. PICK m \in 0..Len(s) : m = k - 1
      BY <1>1, <1>3
    <3>2. 1 \in 1..(Len(s) + 1) /\ m \in (1 - 1)..Len(s) /\ Len(s) \in m..Len(s)
      BY <3>1
    <3>3. SubSeq(s, 1, m) \o SubSeq(s, m + 1, Len(s)) = SubSeq(s, 1, Len(s))
      BY <3>2, ConcatAdjacentSubSeq, Zenon
    <3>4. QED
      BY <3>1, <3>3
  <2>3. SubSeq(s, 1, Len(s)) = s
    BY SubSeqFull
  <2>4. /\ SubSeq(s, 1, k - 1) \in Seq(Chars)
        /\ Len(SubSeq(s, 1, k - 1)) = k - 1
        /\ \A i \in 1..(k - 1) : SubSeq(s, 1, k - 1)[i] = s[i]
    BY <1>1, <1>3, SubSeqProperties
  <2>5. (k - 1) + 1 = k
    BY <1>1
  <2>6. /\ SetHostPathFromBase(s).host = SubSeq(s, 1, k - 1)
        /\ SetHostPathFromBase(s).path = SubSeq(s, k, Len(s))
    BY <2>1
  <2>7. k - 1 <= Len(s)
    BY <1>1
  <2>8. SetHostPathFromBase(s).host \o SetHostPathFromBase(s).path = s
    BY <2>2, <2>3, <2>5, <2>6, Zenon
  <2>9. QED
    BY <2>4, <2>6, <2>7, <2>8
<1>4. QED
  BY <1>2, <1>3

(* A plain name is its own key, so that two of them never meet.            *)
LEMMA PlainKey ==
  ASSUME NEW f \in Files, Plain(f)
  PROVE  Key(f) = f.base
<1>1. f.base \in Seq(Chars)
  BY FilesAssumption DEF LegalFile
<1>2. Base(f) = f.base
  <2>1. Base(f) = [i \in 1..Len(f.base) |->
                     IF f.base[i] = "backslash" THEN "slash" ELSE f.base[i]]
    BY DEF Base, ReplaceAll
  <2>2. \A i \in 1..Len(f.base) : f.base[i] # "backslash"
    BY DEF Plain
  <2>3. QED
    BY <1>1, <2>1, <2>2
<1>3. HostPath(f) = SetHostPathFromBase(f.base)
  BY <1>2 DEF HostPath, Plain
<1>4. Find(f.base, "comma") = 0
  <2>1. \A i \in 1..Len(f.base) : f.base[i] # "comma"
    BY DEF Plain
  <2>2. QED
    BY <1>1, <2>1, FindFacts
<1>5. PICK h, p : /\ h = HostPath(f).host
                  /\ p = HostPath(f).path
  OBVIOUS
<1>6. /\ h \in Seq(Chars)
      /\ h \o p = f.base
      /\ Len(h) <= Len(f.base)
      /\ \A i \in 1..Len(h) : h[i] = f.base[i]
  <2>1. h = SetHostPathFromBase(f.base).host /\ p = SetHostPathFromBase(f.base).path
    BY <1>3, <1>5
  <2>2. QED
    BY <1>1, <1>4, <2>1, HostPathOfName
<1>7. Find(h, "colon") = 0
  <2>1. \A i \in 1..Len(h) : h[i] # "colon"
    <3>1. \A i \in 1..Len(f.base) : f.base[i] # "colon"
      BY DEF Plain
    <3>2. \A i \in 1..Len(h) : i \in 1..Len(f.base)
      BY <1>1, <1>6
    <3>3. QED
      BY <1>6, <3>1, <3>2
  <2>2. QED
    BY <1>6, <2>1, FindFacts
<1>8. QED
  BY <1>5, <1>6, <1>7 DEF Key, GetKey

-----------------------------------------------------------------------------
(* Host and path are made of the characters of the name.                   *)
LEMMA HostPathType ==
  ASSUME NEW s \in Seq(Chars)
  PROVE  /\ SetHostPathFromBase(s).host \in Seq(Chars)
         /\ SetHostPathFromBase(s).path \in Seq(Chars)
<1>1. PICK k \in 0..Len(s) : k = Find(s, "slash")
  BY FindFacts
<1>2. PICK c \in 0..Len(s) : c = Find(s, "comma")
  BY FindFacts
<1>3. CASE k = 0
  <2>1. SetHostPathFromBase(s) = [host |-> s, path |-> <<>>]
    BY <1>1, <1>3 DEF SetHostPathFromBase
  <2>2. QED
    BY <2>1
<1>4. CASE k # 0
  <2>1. PICK e \in Int : /\ e <= Len(s)
                         /\ e = IF c <= 1 \/ k + c - 3 > Len(s) THEN Len(s)
                               ELSE k + c - 3
    OBVIOUS
  <2>2. SetHostPathFromBase(s) = [host |-> SubSeq(s, 1, k - 1),
                                  path |-> SubSeq(s, k, e)]
    BY <1>1, <1>2, <1>4, <2>1, Zenon DEF SetHostPathFromBase
  <2>3. /\ k \in Int /\ 1 \in Int /\ k - 1 \in Int
        /\ \A i \in 1..(k - 1) : s[i] \in Chars
        /\ \A i \in k..e : s[i] \in Chars
    BY <1>4, <2>1
  <2>4. SubSeq(s, 1, k - 1) \in Seq(Chars) /\ SubSeq(s, k, e) \in Seq(Chars)
    BY <2>1, <2>3, SubSeqProperties
  <2>5. QED
    BY <2>2, <2>4
<1>5. QED
  BY <1>3, <1>4

(* So are the names Read is given, with and without an X-Original-Url.     *)
LEMMA NameType ==
  ASSUME NEW f \in Files
  PROVE  Base(f) \in Seq(Chars) /\ RemoveScheme(f.url) \in Seq(Chars)
<1>1. f.base \in Seq(Chars) /\ f.url \in Seq(Chars)
  BY FilesAssumption DEF LegalFile
<1>2. Base(f) \in Seq(Chars)
  <2>1. Base(f) = [i \in 1..Len(f.base) |->
                     IF f.base[i] = "backslash" THEN "slash" ELSE f.base[i]]
    BY DEF Base, ReplaceAll
  <2>2. QED
    BY <1>1, <2>1, CharsAssumption
<1>3. RemoveScheme(f.url) \in Seq(Chars)
  BY <1>1, HeadTailProperties DEF RemoveScheme
<1>4. QED
  BY <1>2, <1>3

(* The headers end at the first line that ends them: what the loop has to  *)
(* find, one line at a time.                                               *)
LEMMA EndFacts ==
  ASSUME NEW f \in Files
  PROVE  /\ Len(f.lines) \in Nat
         /\ End(f) \in 1..(Len(f.lines) + 1)
         /\ \A i \in 1..End(f) : i = End(f) <=> i > Len(f.lines) \/ i \in Ends(f)
<1>1. Len(f.lines) \in Nat
  BY FilesAssumption DEF LegalFile
<1>2. Ends(f) \subseteq 1..Len(f.lines)
  BY DEF Ends
<1>3. Ends(f) \subseteq Nat
  BY <1>1, <1>2
<1>4. CASE Ends(f) = {}
  BY <1>1, <1>4 DEF End
<1>5. CASE Ends(f) # {}
  <2>1. End(f) \in Ends(f) /\ \A i \in Ends(f) : End(f) <= i
    BY <1>3, <1>5, MinFacts DEF End
  <2>2. QED
    BY <1>1, <1>2, <2>1
<1>6. QED
  BY <1>1, <1>4, <1>5

(* What is to be served of a file.                                         *)
Served(f) == [file |-> f,
              headers |-> IF Malformed(f) THEN Headers(f)
                          ELSE Headers(f) \ {"connection"},
              body |-> Body(f)]

(* The loop of Read: up to the line it has reached it has seen headers     *)
(* only, and no further than where they end; when it is over, the file is  *)
(* read as it is written.                                                  *)
Underway(r) ==
  /\ r.file.kind # "unreadable"
  /\ r.start \in 1..End(r.file)
  /\ r.headers = {r.file.lines[i] : i \in 1..(r.start - 1)}
  /\ r.body = 0
  /\ r.host = SetHostPathFromBase(Base(r.file)).host
  /\ r.path = SetHostPathFromBase(Base(r.file)).path

Done(r) ==
  /\ r.headers = Served(r.file).headers
  /\ r.body = Body(r.file)
  /\ r.host = HostPath(r.file).host
  /\ r.path = HostPath(r.file).path

ReadingInv ==
  resource # NoResource =>
    /\ phase = "loading"
    /\ resource.file \in toLoad
    /\ IF resource.stage = "reading" THEN Underway(resource) ELSE Done(resource)

(* What Read does behind its loop, with a file that was not broken off.    *)
LEMMA FinishFacts ==
  ASSUME NEW r \in Resource, ~Malformed(r.file),
         r.headers = Headers(r.file), r.body = Body(r.file),
         r.host = SetHostPathFromBase(Base(r.file)).host,
         r.path = SetHostPathFromBase(Base(r.file)).path
  PROVE  LET t == Finish(r)
         IN  /\ t \in Resource /\ t.file = r.file
             /\ t.stage = "whole" /\ Done(t)
<1> DEFINE f    == r.file
           name == SetHostPathFromBase(RemoveScheme(f.url))
           t    == Finish(r)
<1>1. f \in Files
  BY DEF Resource
<1>2. name.host \in Seq(Chars) /\ name.path \in Seq(Chars)
  BY <1>1, NameType, HostPathType
<1>3. HostPath(f) = IF "url" \in r.headers THEN name ELSE SetHostPathFromBase(Base(f))
  BY DEF HostPath
<1> HIDE DEF name
<1>4. t = [r EXCEPT !.stage = "whole", !.headers = @ \ {"connection"},
                    !.host = IF "url" \in r.headers THEN name.host ELSE @,
                    !.path = IF "url" \in r.headers THEN name.path ELSE @]
  BY DEF Finish, name
<1> HIDE DEF t
<1>5. t \in Resource /\ t.file = r.file /\ t.stage = "whole"
  BY <1>2, <1>4 DEF Resource
<1>6. /\ t.headers = r.headers \ {"connection"} /\ t.body = r.body
      /\ t.host = HostPath(f).host /\ t.path = HostPath(f).path
  <2>1. CASE "url" \in r.headers
    BY <1>3, <1>4, <2>1 DEF Resource
  <2>2. CASE "url" \notin r.headers
    BY <1>3, <1>4, <2>2 DEF Resource
  <2>3. QED
    BY <2>1, <2>2
<1>7. Done(t)
  BY <1>5, <1>6 DEF Done, Served
<1>8. QED
  BY <1>5, <1>7 DEF t

(* One line: the loop goes on, or it is over with all that was to be read. *)
LEMMA ReadLineFacts ==
  ASSUME NEW r \in Resource, r.stage = "reading", Underway(r)
  PROVE  LET t == ReadLine(r)
         IN  /\ t \in Resource /\ t.file = r.file
             /\ IF t.stage = "reading" THEN Underway(t) ELSE Done(t)
<1> DEFINE f     == r.file
           n     == Len(f.lines)
           line  == f.lines[r.start]
           bad   == (r.start = n /\ ~f.ended) \/ line \in {"nocode", "text"}
<1>1. /\ f \in Files /\ n \in Nat /\ r.start \in Nat
      /\ f.lines \in Seq(LineKinds)
      /\ ~f.ended => n > 0 /\ f.lines[n] # "empty"
  BY EndFacts, FilesAssumption DEF Resource, LegalFile
<1>2. /\ r.start \in 1..End(f) /\ End(f) \in 1..(n + 1)
      /\ r.start = End(f) <=> r.start > n \/ r.start \in Ends(f)
  BY <1>1, EndFacts DEF Underway
<1>3. r.start \in 1..n => (r.start \in Ends(f) <=> bad \/ line = "empty")
  BY DEF Ends
<1>4. r.start = End(f) => r.headers = Headers(f)
  BY DEF Underway, Headers
<1>5. CASE r.start > n
  <2>1. End(f) = n + 1 /\ r.start = End(f)
    BY <1>1, <1>2, <1>5
  <2>2. ~Malformed(f) /\ Body(f) = 0
    BY <1>1, <2>1 DEF Malformed, Body, Underway
  <2>3. ReadLine(r) = Finish(r)
    BY <1>5 DEF ReadLine
  <2>4. QED
    BY <1>4, <2>1, <2>2, <2>3, FinishFacts DEF Underway
<1>6. CASE r.start <= n /\ bad
  <2>1. r.start = End(f) /\ line # "empty" /\ r.start <= n
    BY <1>1, <1>2, <1>3, <1>6
  <2>2. Malformed(f)
    BY <2>1 DEF Malformed
  <2>3. ReadLine(r) = [r EXCEPT !.stage = "broken"]
    BY <1>1, <1>6 DEF ReadLine, BreakOff
  <2>4. HostPath(f) = SetHostPathFromBase(Base(f)) /\ Body(f) = 0
    BY <2>2 DEF HostPath, Body
  <2>5. LET t == [r EXCEPT !.stage = "broken"]
        IN  t \in Resource /\ t.file = f /\ t.stage = "broken" /\ Done(t)
    BY <1>4, <2>1, <2>2, <2>4 DEF Done, Served, Underway, Resource
  <2>6. QED
    BY <2>3, <2>5
<1>7. CASE r.start <= n /\ ~bad /\ line = "empty"
  <2> DEFINE q == [r EXCEPT !.body = n - r.start]
  <2>1. r.start = End(f) /\ r.start \in 1..n
    BY <1>1, <1>2, <1>3, <1>7
  <2>2. ~Malformed(f) /\ Body(f) = n - r.start
    BY <1>1, <1>7, <2>1 DEF Malformed, Body, Underway
  <2>3. ReadLine(r) = Finish(q)
    BY <1>1, <1>7, <2>1 DEF ReadLine
  <2>4. /\ q \in Resource /\ q.file = f /\ q.body = Body(f)
        /\ q.headers = r.headers /\ q.host = r.host /\ q.path = r.path
    BY <1>1, <2>1, <2>2 DEF Resource
  <2> HIDE DEF q
  <2>5. QED
    BY <1>4, <2>1, <2>2, <2>3, <2>4, FinishFacts DEF Underway
<1>8. CASE r.start <= n /\ ~bad /\ line # "empty"
  <2> DEFINE t == [r EXCEPT !.headers = @ \cup {line}, !.start = @ + 1]
  <2>1. r.start \in 1..n /\ r.start + 1 \in 1..End(f) /\ r.start + 1 \in Nat
    BY <1>1, <1>2, <1>3, <1>8
  <2>2. line \in HeaderKinds
    BY <1>1, <1>8, <2>1 DEF LineKinds, HeaderKinds
  <2>3. ReadLine(r) = t
    BY <1>1, <1>8, <2>1 DEF ReadLine
  <2>4. /\ t \in Resource /\ t.stage = "reading" /\ t.file = f
        /\ t.headers = r.headers \cup {line} /\ t.start = r.start + 1
        /\ t.body = r.body /\ t.host = r.host /\ t.path = r.path
    BY <2>1, <2>2 DEF Resource
  <2> HIDE DEF t
  <2>5. {f.lines[i] : i \in 1..(t.start - 1)} = r.headers \cup {line}
    <3>1. 1..(t.start - 1) = 1..(r.start - 1) \cup {r.start}
      BY <2>1, <2>4
    <3>2. r.headers = {f.lines[i] : i \in 1..(r.start - 1)}
      BY DEF Underway
    <3>3. QED
      BY <3>1, <3>2
  <2>6. QED
    BY <2>1, <2>3, <2>4, <2>5 DEF Underway
<1>9. QED
  BY <1>1, <1>5, <1>6, <1>7, <1>8

-----------------------------------------------------------------------------
(* What LoadFile does, told by the file alone.                             *)
Loads(f) ==
  /\ phase = "loading"
  /\ f \in toLoad
  /\ toLoad' = toLoad \ {f}
  /\ loaded' = Append(loaded, f)
  /\ responses' = Insert(responses, Key(f), Served(f))
  /\ UNCHANGED <<directory, phase, fetched, callbacks, registered, sessions>>

LEMMA ServedType ==
  ASSUME NEW f \in Files
  PROVE  /\ Served(f).file = f
         /\ Body(f) \in Nat
         /\ Served(f).headers \subseteq HeaderKinds => Served(f) \in Response
<1>1. Body(f) \in Nat
  BY EndFacts DEF Body
<1>2. QED
  BY <1>1 DEF Served, Response

(* Read is over when a file is added, so that what is added is what the    *)
(* file says.                                                              *)
LEMMA LoadFileLoads ==
  ASSUME TypeOK, ReadingInv, LoadFile
  PROVE  Loads(resource.file) /\ Served(resource.file) \in Response
<1> DEFINE f == resource.file
<1>1. /\ resource # NoResource /\ resource.stage # "reading"
      /\ resource \in Resource /\ f \in Files
  BY DEF LoadFile, NoResource, TypeOK, Resource
<1>2. phase = "loading" /\ f \in toLoad /\ Done(resource)
  BY <1>1 DEF ReadingInv
<1>3. GetKey(resource.host, resource.path) = Key(f)
  BY <1>2 DEF Done, Key
<1>4. [file |-> f, headers |-> resource.headers, body |-> resource.body] = Served(f)
  BY <1>2 DEF Done, Served
<1>5. Served(f) \in Response
  <2>1. resource.headers \subseteq HeaderKinds /\ Served(f).headers = resource.headers
    BY <1>1, <1>2 DEF Done, Resource
  <2>2. QED
    BY <1>1, <2>1, ServedType
<1>6. QED
  BY <1>2, <1>3, <1>4, <1>5 DEF LoadFile, AddResponse, Loads

(* The state stays in its types, and a file is read as it is written.      *)
Reads == TypeOK /\ ReadingInv

LEMMA ReadsStep == Reads /\ [Next]_vars => Reads'
<1> SUFFICES ASSUME TypeOK, ReadingInv, [Next]_vars
             PROVE  TypeOK' /\ ReadingInv'
  BY DEF Reads
<1> USE DEF TypeOK
<1>s. ASSUME UNCHANGED <<phase, toLoad, resource>>
      PROVE  ReadingInv'
  BY <1>s DEF ReadingInv
<1>1. CASE InitializeBackend
  <2>1. resource = NoResource /\ resource' = resource
    BY <1>1 DEF InitializeBackend, ReadingInv
  <2>2. ReadingInv'
    BY <2>1 DEF ReadingInv
  <2>3. TypeOK'
    BY <1>1 DEF InitializeBackend
  <2>4. QED
    BY <2>2, <2>3
<1>2. ASSUME NEW f \in toLoad, OpenFile(f)
      PROVE  TypeOK' /\ ReadingInv'
  <2> DEFINE name == SetHostPathFromBase(Base(f))
  <2>1. f \in Files
    OBVIOUS
  <2>2. name.host \in Seq(Chars) /\ name.path \in Seq(Chars)
    BY <2>1, NameType, HostPathType
  <2>3. resource' = [stage |-> IF f.kind = "unreadable" THEN "broken" ELSE "reading",
                     file |-> f, host |-> name.host, path |-> name.path,
                     start |-> 1, headers |-> {}, body |-> 0]
    BY <1>2 DEF OpenFile
  <2>4. phase' = phase /\ toLoad' = toLoad /\ phase = "loading"
    BY <1>2 DEF OpenFile
  <2> HIDE DEF name
  <2>5. resource' \in Resource
    BY <2>1, <2>2, <2>3 DEF Resource
  <2>6. CASE f.kind = "unreadable"
    <3>1. Malformed(f) /\ Headers(f) = {} /\ Body(f) = 0
          /\ HostPath(f) = SetHostPathFromBase(Base(f))
      BY <2>6 DEF Malformed, Headers, Body, HostPath
    <3>2. Done(resource')
      BY <2>3, <3>1 DEF Done, Served, name
    <3>3. QED
      BY <1>2, <2>3, <2>4, <2>5, <2>6, <3>2 DEF OpenFile, ReadingInv
  <2>7. CASE f.kind # "unreadable"
    <3>1. 1 \in 1..End(f) /\ {f.lines[i] : i \in 1..(1 - 1)} = {}
      BY <2>1, EndFacts
    <3>2. Underway(resource')
      BY <2>3, <2>7, <3>1 DEF Underway, name
    <3>3. QED
      BY <1>2, <2>3, <2>4, <2>5, <2>7, <3>2 DEF OpenFile, ReadingInv
  <2>8. QED
    BY <2>6, <2>7
<1>3. CASE Read
  <2>1. /\ resource \in Resource /\ resource.stage = "reading"
        /\ resource # NoResource /\ Underway(resource)
    BY <1>3 DEF Read, NoResource, ReadingInv
  <2>2. /\ resource' \in Resource /\ resource'.file = resource.file
        /\ IF resource'.stage = "reading" THEN Underway(resource')
                                          ELSE Done(resource')
    BY <1>3, <2>1, ReadLineFacts DEF Read
  <2>3. QED
    BY <1>3, <2>1, <2>2 DEF Read, ReadingInv
<1>4. CASE LoadFile
  <2> DEFINE f == resource.file
  <2>1. Loads(f) /\ Served(f) \in Response
    BY <1>4, LoadFileLoads
  <2> HIDE DEF f
  <2>2. f \in Files /\ Key(f) \in Keys
    BY <2>1 DEF Loads, Keys
  <2>3. /\ DOMAIN responses \subseteq DOMAIN responses'
        /\ DOMAIN responses' \subseteq Keys
        /\ \A k \in DOMAIN responses' : responses'[k] \in Response
    <3>1. responses' = [k \in DOMAIN responses \cup {Key(f)} |->
                          IF k \in DOMAIN responses THEN responses[k]
                                                    ELSE Served(f)]
      BY <2>1, Zenon DEF Loads, Insert
    <3>2. QED
      BY <2>1, <2>2, <3>1, Zenon
  <2>4. loaded' \in Seq(Files)
    BY <2>1, <2>2, AppendProperties DEF Loads
  <2>5. resource' = NoResource
    BY <1>4 DEF LoadFile
  <2>6. ReadingInv'
    BY <2>5 DEF ReadingInv
  <2>7. QED
    BY <2>1, <2>3, <2>4, <2>5, <2>6 DEF Loads
<1>5. CASE DirectoryLoaded
  <2>1. resource = NoResource /\ resource' = resource
    BY <1>5 DEF DirectoryLoaded, ReadingInv
  <2>2. ReadingInv'
    BY <2>1 DEF ReadingInv
  <2>3. TypeOK'
    BY <1>5 DEF DirectoryLoaded
  <2>4. QED
    BY <2>2, <2>3
<1>6. ASSUME NEW r \in Requests, FetchResponseFromBackend(r)
      PROVE  TypeOK' /\ ReadingInv'
  BY <1>6, <1>s DEF FetchResponseFromBackend, GetResponse
<1>7. ASSUME NEW path \in Paths, NEW callback \in Callbacks, On(path, callback)
      PROVE  TypeOK' /\ ReadingInv'
  <2>1. registered' \in Seq([path : Paths, callback : Callbacks])
    BY <1>7, AppendProperties DEF On
  <2>2. callbacks' = [p \in DOMAIN callbacks \cup {path} |->
                        IF p \in DOMAIN callbacks THEN callbacks[p] ELSE callback]
    BY <1>7, Zenon DEF On, Insert
  <2>3. QED
    BY <1>7, <1>s, <2>1, <2>2 DEF On
<1>8. ASSUME NEW path \in Paths, NEW given \in BOOLEAN,
             ProcessWebTransportRequest(path, given)
      PROVE  TypeOK' /\ ReadingInv'
  <2>1. Len(registered) \in Nat
    OBVIOUS
  <2>2. [path |-> path, seen |-> Len(registered),
         answer |-> IF ~given THEN "400"
                    ELSE IF path \in DOMAIN callbacks THEN callbacks[path]
                    ELSE "404"]
          \in [path : Paths, seen : Nat, answer : Callbacks \cup Refusals]
    BY <2>1 DEF Refusals
  <2>3. sessions' \in Seq([path : Paths, seen : Nat,
                          answer : Callbacks \cup Refusals])
    BY <1>8, <2>2, AppendProperties, Zenon DEF ProcessWebTransportRequest
  <2>4. QED
    BY <1>8, <1>s, <2>3 DEF ProcessWebTransportRequest
<1>9. CASE UNCHANGED vars
  BY <1>9, <1>s DEF vars
<1>10. QED
  BY <1>1, <1>2, <1>3, <1>4, <1>5, <1>6, <1>7, <1>8, <1>9 DEF Next

LEMMA ReadsInvariant == Spec => []Reads
<1>1. Init => Reads
  BY DEF Init, Reads, ReadingInv, TypeOK, NoRequest
<1>2. QED
  BY <1>1, ReadsStep, PTL DEF Spec

(* What Init and ReadsStep give together.                                  *)
THEOREM TypeCorrect == Spec => []TypeOK
<1>1. Reads => TypeOK
  BY DEF Reads
<1>2. QED
  BY <1>1, ReadsInvariant, PTL

-----------------------------------------------------------------------------
(* What holds while a directory is loaded: no file is loaded twice, and    *)
(* every response is what a loaded file says, under its key.               *)
LoadInv ==
  /\ \A f, g \in directory : f.base = g.base => f = g
  /\ phase = "new" => loaded = <<>>
  /\ \A j \in 1..Len(loaded) : loaded[j] \in directory \ toLoad
  /\ \A k \in DOMAIN responses :
       /\ responses[k] = Served(responses[k].file)
       /\ Key(responses[k].file) = k
       /\ \E i \in 1..Len(loaded) : responses[k].file = loaded[i]
  /\ FilesShadowOnlyAliases

(* Two files with plain names that meet in a key are one.                  *)
LEMMA PlainFilesApart ==
  ASSUME TypeOK, LoadInv, NEW f \in directory, NEW g \in directory,
         Key(f) = Key(g), Plain(f), Plain(g)
  PROVE  f = g
<1>1. f \in Files /\ g \in Files
  BY DEF TypeOK
<1>2. f.base = g.base
  BY <1>1, PlainKey
<1>3. QED
  BY <1>2 DEF LoadInv

(* A file that is loaded gets its key, or meets an earlier one there.      *)
LEMMA LoadStep ==
  ASSUME TypeOK, TypeOK', LoadInv, NEW f, Loads(f)
  PROVE  LoadInv'
<1> DEFINE n == Len(loaded)
           key == Key(f)
<1>1. n \in Nat /\ f \in directory /\ f \in Files
  BY DEF TypeOK, Loads
<1>2. /\ Len(loaded') = n + 1
      /\ loaded'[n + 1] = f
      /\ \A i \in 1..n : loaded'[i] = loaded[i]
  BY <1>1, AppendProperties DEF TypeOK, Loads
<1>3. responses' = [k \in DOMAIN responses \cup {key} |->
                      IF k \in DOMAIN responses THEN responses[k] ELSE Served(f)]
  BY Zenon DEF Loads, Insert
<1>4. /\ toLoad' = toLoad \ {f}
      /\ directory' = directory /\ phase' = phase /\ phase = "loading"
  BY DEF Loads
<1>5. Served(f).file = f
  BY <1>1, ServedType
<1> HIDE DEF n, key
<1>6. \A j \in 1..(n + 1) : loaded'[j] \in directory' \ toLoad'
  <2>1. \A j \in 1..n : loaded'[j] \in directory' \ toLoad'
    BY <1>2, <1>4 DEF LoadInv, n
  <2>2. \A j \in 1..(n + 1) : j \in 1..n \/ j = n + 1
    BY <1>1 DEF n
  <2>3. QED
    BY <1>1, <1>2, <1>4, <2>1, <2>2
<1>7. \A k \in DOMAIN responses' :
        /\ responses'[k] = Served(responses'[k].file)
        /\ Key(responses'[k].file) = k
        /\ \E i \in 1..(n + 1) : responses'[k].file = loaded'[i]
  <2>1. SUFFICES ASSUME NEW k \in DOMAIN responses'
                 PROVE  /\ responses'[k] = Served(responses'[k].file)
                        /\ Key(responses'[k].file) = k
                        /\ \E i \in 1..(n + 1) : responses'[k].file = loaded'[i]
    OBVIOUS
  <2>2. CASE k \in DOMAIN responses
    <3>1. responses'[k] = responses[k]
      BY <1>3, <2>2
    <3>2. PICK i \in 1..n : responses[k].file = loaded[i]
      BY <2>2 DEF LoadInv, n
    <3>3. i \in 1..(n + 1) /\ loaded'[i] = loaded[i]
      BY <1>1, <1>2, <3>2 DEF n
    <3>4. responses[k] = Served(responses[k].file) /\ Key(responses[k].file) = k
      BY <2>2 DEF LoadInv
    <3>5. QED
      BY <3>1, <3>2, <3>3, <3>4
  <2>3. CASE k \notin DOMAIN responses
    <3>1. k = key /\ responses'[k] = Served(f)
      BY <1>3, <2>1, <2>3
    <3>2. n + 1 \in 1..(n + 1)
      BY <1>1 DEF n
    <3>3. QED
      BY <1>2, <1>5, <3>1, <3>2 DEF key
  <2>4. QED
    BY <2>2, <2>3
<1>8. ASSUME NEW j \in 1..(n + 1)
      PROVE  /\ Key(loaded'[j]) \in DOMAIN responses'
             /\ \/ responses'[Key(loaded'[j])].file = loaded'[j]
                \/ \E i \in 1..(j - 1) :
                     /\ responses'[Key(loaded'[j])].file = loaded'[i]
                     /\ ~Plain(loaded'[j]) \/ ~Plain(loaded'[i])
  <2>1. CASE j \in 1..n
    <3>1. /\ Key(loaded[j]) \in DOMAIN responses
          /\ \/ responses[Key(loaded[j])].file = loaded[j]
             \/ \E i \in 1..(j - 1) :
                  /\ responses[Key(loaded[j])].file = loaded[i]
                  /\ ~Plain(loaded[j]) \/ ~Plain(loaded[i])
      BY <2>1 DEF LoadInv, FilesShadowOnlyAliases, n
    <3>2. loaded'[j] = loaded[j] /\ \A i \in 1..(j - 1) : loaded'[i] = loaded[i]
      <4>1. \A i \in 1..(j - 1) : i \in 1..n
        BY <1>1, <2>1 DEF n
      <4>2. QED
        BY <1>2, <2>1, <4>1
    <3>3. /\ Key(loaded[j]) \in DOMAIN responses'
          /\ responses'[Key(loaded[j])] = responses[Key(loaded[j])]
      BY <1>3, <3>1
    <3>4. QED
      BY <3>1, <3>2, <3>3
  <2>2. CASE j = n + 1
    <3>1. loaded'[j] = f /\ key \in DOMAIN responses'
      BY <1>2, <1>3, <2>2
    <3>2. CASE key \notin DOMAIN responses
      <4>1. responses'[key] = Served(f)
        BY <1>3, <3>2
      <4>2. QED
        BY <1>5, <3>1, <4>1 DEF key
    <3>3. CASE key \in DOMAIN responses
      <4>1. responses'[key] = responses[key] /\ Key(responses[key].file) = key
        BY <1>3, <3>3 DEF LoadInv
      <4>2. PICK i \in 1..n : responses[key].file = loaded[i]
        BY <3>3 DEF LoadInv, n
      <4>3. loaded[i] \in directory /\ loaded[i] \notin toLoad
        BY <4>2 DEF LoadInv, n
      <4>4. ~Plain(f) \/ ~Plain(loaded[i])
        <5>1. loaded[i] # f
          BY <4>3 DEF Loads
        <5>2. Key(loaded[i]) = Key(f)
          BY <4>1, <4>2 DEF key
        <5>3. QED
          BY <1>1, <4>3, <5>1, <5>2, PlainFilesApart
      <4>5. i \in 1..(j - 1) /\ loaded'[i] = loaded[i]
        BY <1>1, <1>2, <2>2, <4>2 DEF n
      <4>6. QED
        BY <3>1, <4>1, <4>2, <4>4, <4>5 DEF key
    <3>4. QED
      BY <3>2, <3>3
  <2>3. QED
    BY <1>1, <2>1, <2>2 DEF n
<1>9. FilesShadowOnlyAliases'
  BY <1>2, <1>8 DEF FilesShadowOnlyAliases
<1>10. QED
  BY <1>2, <1>4, <1>6, <1>7, <1>9 DEF LoadInv

(* No other step touches what was loaded.                                  *)
LEMMA LoadInvStep == Reads /\ Reads' /\ LoadInv /\ [Next]_vars => LoadInv'
<1> SUFFICES ASSUME TypeOK, ReadingInv, TypeOK', LoadInv, [Next]_vars
             PROVE  LoadInv'
  BY DEF Reads
<1> DEFINE Same == UNCHANGED <<directory, phase, toLoad, responses, loaded>>
<1>1. Same => LoadInv'
  <2> SUFFICES ASSUME Same
               PROVE  LoadInv'
    OBVIOUS
  <2>1. UNCHANGED <<directory, phase, toLoad, responses, loaded>>
    OBVIOUS
  <2> HIDE DEF Same
  <2>2. /\ directory' = directory
        /\ phase' = phase
        /\ toLoad' = toLoad
        /\ responses' = responses
        /\ loaded' = loaded
    BY <2>1
  <2>3. FilesShadowOnlyAliases'
    BY <2>2, Zenon DEF LoadInv, FilesShadowOnlyAliases
  <2>4. QED
    BY <2>2, <2>3, Zenon DEF LoadInv
<1>2. CASE InitializeBackend
  <2>1. /\ loaded = <<>> /\ phase' # "new"
        /\ UNCHANGED <<directory, responses, loaded>>
    BY <1>2 DEF InitializeBackend, LoadInv
  <2>2. \A j \in 1..Len(loaded) : FALSE
    BY <2>1
  <2>3. \A j \in 1..Len(loaded') : loaded'[j] \in directory' \ toLoad'
    BY <2>1, <2>2, Zenon
  <2>4. \A k \in DOMAIN responses' :
          /\ responses'[k] = Served(responses'[k].file)
          /\ Key(responses'[k].file) = k
          /\ \E i \in 1..Len(loaded') : responses'[k].file = loaded'[i]
    BY <2>1, Zenon DEF LoadInv
  <2>5. FilesShadowOnlyAliases'
    BY <2>1, Zenon DEF LoadInv, FilesShadowOnlyAliases
  <2>6. \A f, g \in directory' : f.base = g.base => f = g
    BY <2>1, Zenon DEF LoadInv
  <2>7. QED
    BY <2>1, <2>3, <2>4, <2>5, <2>6 DEF LoadInv
<1>r. CASE (\E f \in toLoad : OpenFile(f)) \/ Read
  BY <1>1, <1>r DEF OpenFile, Read
<1>3. CASE LoadFile
  BY <1>3, LoadFileLoads, LoadStep
<1>4. CASE DirectoryLoaded
  <2>1. phase' # "new" /\ UNCHANGED <<directory, toLoad, responses, loaded>>
    BY <1>4 DEF DirectoryLoaded
  <2>2. QED
    BY <2>1, Zenon DEF LoadInv, FilesShadowOnlyAliases
<1>5. ASSUME NEW r \in Requests, FetchResponseFromBackend(r)
      PROVE  LoadInv'
  BY <1>1, <1>5 DEF FetchResponseFromBackend
<1>6. ASSUME NEW path \in Paths, NEW callback \in Callbacks, On(path, callback)
      PROVE  LoadInv'
  BY <1>1, <1>6 DEF On
<1>7. ASSUME NEW path \in Paths, NEW given \in BOOLEAN,
             ProcessWebTransportRequest(path, given)
      PROVE  LoadInv'
  BY <1>1, <1>7 DEF ProcessWebTransportRequest
<1>8. CASE UNCHANGED vars
  BY <1>1, <1>8 DEF vars
<1>9. QED
  BY <1>2, <1>r, <1>3, <1>4, <1>5, <1>6, <1>7, <1>8 DEF Next

(* Whatever the directory holds and in which order its files come.         *)
LEMMA LoadInvariant == Spec => []LoadInv
<1>1. Init => LoadInv
  BY DEF Init, LoadInv, FilesShadowOnlyAliases
<1>2. QED
  BY <1>1, LoadInvStep, ReadsInvariant, PTL DEF Spec

(* AddResponse keeps the first response of a key: no file is lost to a     *)
(* later or an earlier one, except to an alias by '\', ',', ':' or an      *)
(* X-Original-Url.                                                         *)
THEOREM OnlyAliasesShadow == Spec => []FilesShadowOnlyAliases
<1>1. LoadInv => FilesShadowOnlyAliases
  BY DEF LoadInv
<1>2. QED
  BY <1>1, LoadInvariant, PTL

(* What is enumerated is loaded, and only that.                            *)
EnumerationInv ==
  /\ phase = "new" => DOMAIN responses = {}
  /\ phase # "new" => /\ toLoad \subseteq Loadable
                      /\ DOMAIN responses = {Key(f) : f \in Loadable \ toLoad}
  /\ phase = "new" \/ phase = "ready" => toLoad = {}

LEMMA EnumerationStep == Reads /\ EnumerationInv /\ [Next]_vars => EnumerationInv'
<1> SUFFICES ASSUME TypeOK, ReadingInv, EnumerationInv, [Next]_vars
             PROVE  EnumerationInv'
  BY DEF Reads
<1> USE DEF EnumerationInv
<1>1. ASSUME UNCHANGED <<directory, phase, toLoad, responses>>
      PROVE  EnumerationInv'
  BY <1>1 DEF Loadable
<1>2. CASE InitializeBackend
  <2>1. /\ DOMAIN responses = {} /\ toLoad = {}
        /\ phase' # "new"
        /\ directory' = directory /\ responses' = responses
    BY <1>2 DEF InitializeBackend
  <2>2. Loadable' = Loadable
    BY <2>1 DEF Loadable
  <2>3. CASE \E f \in directory : f.kind = "broken"
    <3>1. Loadable = {} /\ toLoad' = {}
      BY <1>2, <2>1, <2>3 DEF InitializeBackend, Loadable
    <3>2. QED
      BY <2>1, <2>2, <3>1
  <2>4. CASE \A f \in directory : f.kind # "broken"
    <3>1. toLoad' = Loadable /\ phase' = "loading"
      BY <1>2, <2>4 DEF InitializeBackend, Loadable
    <3>2. QED
      BY <2>1, <2>2, <3>1
  <2>5. QED
    BY <2>3, <2>4
<1>r. CASE (\E f \in toLoad : OpenFile(f)) \/ Read
  BY <1>1, <1>r DEF OpenFile, Read
<1>3. CASE LoadFile
  <2> DEFINE f == resource.file
  <2>0. Loads(f)
    BY <1>3, LoadFileLoads
  <2> HIDE DEF f
  <2>1. /\ phase = "loading" /\ phase' = "loading"
        /\ toLoad' = toLoad \ {f}
        /\ directory' = directory
        /\ DOMAIN responses' = DOMAIN responses \cup {Key(f)}
    BY <2>0 DEF Loads, Insert
  <2>2. Loadable' = Loadable /\ f \in Loadable
    BY <2>0, <2>1 DEF Loads, Loadable
  <2>3. {Key(g) : g \in Loadable \ toLoad} \cup {Key(f)} =
          {Key(g) : g \in Loadable \ (toLoad \ {f})}
    BY <2>2
  <2>4. QED
    BY <2>1, <2>2, <2>3
<1>4. CASE DirectoryLoaded
  <2>1. /\ phase = "loading" /\ phase' = "ready" /\ toLoad = {}
        /\ UNCHANGED <<directory, toLoad, responses>>
    BY <1>4 DEF DirectoryLoaded
  <2>2. QED
    BY <2>1 DEF Loadable
<1>5. ASSUME NEW r \in Requests, FetchResponseFromBackend(r)
      PROVE  EnumerationInv'
  BY <1>1, <1>5 DEF FetchResponseFromBackend
<1>6. ASSUME NEW path \in Paths, NEW callback \in Callbacks, On(path, callback)
      PROVE  EnumerationInv'
  BY <1>1, <1>6 DEF On
<1>7. ASSUME NEW path \in Paths, NEW given \in BOOLEAN,
             ProcessWebTransportRequest(path, given)
      PROVE  EnumerationInv'
  BY <1>1, <1>7 DEF ProcessWebTransportRequest
<1>8. CASE UNCHANGED vars
  BY <1>1, <1>8 DEF vars
<1>9. QED
  BY <1>2, <1>r, <1>3, <1>4, <1>5, <1>6, <1>7, <1>8 DEF Next

(* EnumerateDirectoryRecursively fails as a whole: a directory is loaded   *)
(* with all its files, or with none because of one entry.                  *)
THEOREM DirectoryAsAWhole == Spec => []AllOrNothing
<1>1. Init => EnumerationInv
  BY DEF Init, EnumerationInv
<1>2. EnumerationInv => AllOrNothing
  BY DEF EnumerationInv, AllOrNothing
<1>3. QED
  BY <1>1, <1>2, EnumerationStep, ReadsInvariant, PTL DEF Spec

(* Read, line by line, takes from a file what is to be served of it, and   *)
(* its name in the cache: the loop invariant, carried on to the responses. *)
THEOREM FilesReadAsWritten == Spec => []ServedAsWritten
<1>1. LoadInv => ServedAsWritten
  <2> SUFFICES ASSUME LoadInv, NEW k \in DOMAIN responses
               PROVE  LET f == responses[k].file
                      IN  /\ k = Key(f)
                          /\ responses[k].headers = Served(f).headers
                          /\ responses[k].body = Served(f).body
    BY DEF ServedAsWritten, Served
  <2>1. responses[k] = Served(responses[k].file) /\ Key(responses[k].file) = k
    BY DEF LoadInv
  <2>2. QED
    BY <2>1
<1>2. QED
  BY <1>1, LoadInvariant, PTL

-----------------------------------------------------------------------------
(* What holds of the table of paths: it has exactly the paths that were    *)
(* registered, each with the callback that was given for it first; and a   *)
(* session saw registrations that were made.                               *)
PathInv ==
  /\ \A p \in Paths :
       \/ p \notin DOMAIN callbacks /\ \A i \in 1..Len(registered) :
                                       registered[i].path # p
       \/ /\ p \in DOMAIN callbacks
          /\ \E i \in 1..Len(registered) :
               /\ registered[i].path = p
               /\ callbacks[p] = registered[i].callback
               /\ \A j \in 1..Len(registered) : registered[j].path = p => i <= j
  /\ \A n \in 1..Len(sessions) : sessions[n].seen <= Len(registered)
  /\ SessionsGetFirstCallback

(* The registrations a session saw are not changed by a later one.         *)
LEMMA OnStep ==
  ASSUME TypeOK, PathInv, NEW path \in Paths, NEW callback \in Callbacks,
         On(path, callback)
  PROVE  PathInv'
<1> DEFINE n == Len(registered)
<1>1. /\ n \in Nat
      /\ Len(registered') = n + 1
      /\ \A i \in 1..n : registered'[i] = registered[i]
      /\ registered'[n + 1] = [path |-> path, callback |-> callback]
      /\ sessions' = sessions
  <2>1. registered \in Seq([path : Paths, callback : Callbacks])
    BY DEF TypeOK
  <2>2. registered' = Append(registered, [path |-> path, callback |-> callback])
        /\ sessions' = sessions
    BY DEF On
  <2>3. QED
    BY <2>1, <2>2, AppendProperties
<1>2. callbacks' = [p \in DOMAIN callbacks \cup {path} |->
                      IF p \in DOMAIN callbacks THEN callbacks[p] ELSE callback]
  BY Zenon DEF On, Insert
<1> HIDE DEF n
<1>3. ASSUME NEW p \in Paths
      PROVE  \/ p \notin DOMAIN callbacks' /\ \A i \in 1..(n + 1) :
                                              registered'[i].path # p
             \/ /\ p \in DOMAIN callbacks'
                /\ \E i \in 1..(n + 1) :
                     /\ registered'[i].path = p
                     /\ callbacks'[p] = registered'[i].callback
                     /\ \A j \in 1..(n + 1) :
                          registered'[j].path = p => i <= j
  <2>1. CASE p \in DOMAIN callbacks
    <3>1. PICK i \in 1..n :
                 /\ registered[i].path = p
                 /\ callbacks[p] = registered[i].callback
                 /\ \A j \in 1..n : registered[j].path = p => i <= j
      BY <2>1 DEF PathInv, n
    <3>2. p \in DOMAIN callbacks' /\ callbacks'[p] = callbacks[p]
      BY <1>2, <2>1
    <3>3. /\ i \in 1..(n + 1)
          /\ \A j \in 1..(n + 1) : registered'[j].path = p => i <= j
      BY <1>1, <3>1
    <3>4. QED
      BY <1>1, <3>1, <3>2, <3>3
  <2>2. CASE p \notin DOMAIN callbacks /\ p = path
    <3>1. \A i \in 1..n : registered[i].path # p
      BY <2>2 DEF PathInv, n
    <3>2. p \in DOMAIN callbacks' /\ callbacks'[p] = callback
      BY <1>2, <2>2
    <3>3. registered'[n + 1].path = p /\ registered'[n + 1].callback = callback
      BY <1>1, <2>2
    <3>4. \A j \in 1..(n + 1) : registered'[j].path = p => n + 1 <= j
      BY <1>1, <3>1
    <3>5. n + 1 \in 1..(n + 1)
      BY <1>1
    <3>6. QED
      BY <3>2, <3>3, <3>4, <3>5
  <2>3. CASE p \notin DOMAIN callbacks /\ p # path
    <3>1. \A i \in 1..n : registered[i].path # p
      BY <2>3 DEF PathInv, n
    <3>2. p \notin DOMAIN callbacks'
      BY <1>2, <2>3
    <3>3. \A i \in 1..(n + 1) : registered'[i].path # p
      BY <1>1, <2>3, <3>1
    <3>4. QED
      BY <3>2, <3>3
  <2>4. QED
    BY <2>1, <2>2, <2>3
<1>4. ASSUME NEW k \in 1..Len(sessions)
      PROVE  /\ sessions[k].seen <= n
             /\ sessions[k].seen \in Nat
  <2>1. sessions[k].seen <= n
    BY DEF PathInv, n
  <2>2. sessions[k] \in [path : Paths, seen : Nat,
                         answer : Callbacks \cup Refusals]
    <3>1. \A S : \A s \in Seq(S) : \A i \in 1..Len(s) : s[i] \in S
      OBVIOUS
    <3>2. sessions \in Seq([path : Paths, seen : Nat,
                            answer : Callbacks \cup Refusals])
      BY DEF TypeOK
    <3>3. QED
      BY <3>1, <3>2, Zenon
  <2>3. QED
    BY <2>1, <2>2
<1>5. SessionsGetFirstCallback'
  <2> SUFFICES ASSUME NEW k \in 1..Len(sessions)
               PROVE  LET on == {i \in 1..sessions[k].seen :
                                   registered'[i].path = sessions[k].path}
                      IN  \/ sessions[k].answer = "400"
                          \/ sessions[k].answer = "404" /\ on = {}
                          \/ \E i \in on :
                               /\ \A j \in on : i <= j
                               /\ sessions[k].answer = registered'[i].callback
    BY <1>1 DEF SessionsGetFirstCallback
  <2>1. \A i \in 1..sessions[k].seen : registered'[i] = registered[i]
    BY <1>1, <1>4
  <2>2. {i \in 1..sessions[k].seen : registered'[i].path = sessions[k].path}
        = {i \in 1..sessions[k].seen : registered[i].path = sessions[k].path}
    BY <2>1
  <2>3. LET on == {i \in 1..sessions[k].seen :
                     registered[i].path = sessions[k].path}
        IN  \/ sessions[k].answer = "400"
            \/ sessions[k].answer = "404" /\ on = {}
            \/ \E i \in on : /\ \A j \in on : i <= j
                              /\ sessions[k].answer = registered[i].callback
    BY DEF PathInv, SessionsGetFirstCallback
  <2>4. QED
    BY <2>1, <2>2, <2>3
<1>6. \A k \in 1..Len(sessions') : sessions'[k].seen <= n + 1
  BY <1>1, <1>4
<1>7. QED
  BY <1>1, <1>3, <1>5, <1>6 DEF PathInv

(* A session is answered from the table as it is.                          *)
LEMMA RequestStep ==
  ASSUME TypeOK, PathInv, NEW path \in Paths, NEW given \in BOOLEAN,
         ProcessWebTransportRequest(path, given)
  PROVE  PathInv'
<1> DEFINE n == Len(sessions)
           answer == IF ~given THEN "400"
                     ELSE IF path \in DOMAIN callbacks THEN callbacks[path]
                     ELSE "404"
<1>1. /\ n \in Nat
      /\ Len(sessions') = n + 1
      /\ \A k \in 1..n : sessions'[k] = sessions[k]
      /\ sessions'[n + 1] = [path |-> path, seen |-> Len(registered),
                             answer |-> answer]
      /\ Len(registered) \in Nat
  <2>1. sessions \in Seq([path : Paths, seen : Nat,
                          answer : Callbacks \cup Refusals])
        /\ registered \in Seq([path : Paths, callback : Callbacks])
    BY DEF TypeOK
  <2>2. [path |-> path, seen |-> Len(registered), answer |-> answer]
          \in [path : Paths, seen : Nat, answer : Callbacks \cup Refusals]
    BY <2>1 DEF TypeOK, Refusals
  <2>3. sessions' = Append(sessions, [path |-> path, seen |-> Len(registered),
                                      answer |-> answer])
    BY Zenon DEF ProcessWebTransportRequest
  <2> HIDE DEF answer
  <2>4. QED
    BY <2>1, <2>2, <2>3, AppendProperties
<1>2. UNCHANGED <<registered, callbacks>>
  BY DEF ProcessWebTransportRequest
<1>3. LET on == {i \in 1..Len(registered) : registered[i].path = path}
      IN  \/ answer = "400"
          \/ answer = "404" /\ on = {}
          \/ \E i \in on : /\ \A j \in on : i <= j
                            /\ answer = registered[i].callback
  BY DEF PathInv
<1> HIDE DEF answer, n
<1>4. \A k \in 1..(n + 1) : k \in 1..n \/ k = n + 1
  BY <1>1
<1>5. SessionsGetFirstCallback'
  <2> SUFFICES ASSUME NEW k \in 1..(n + 1)
               PROVE  LET s  == sessions'[k]
                          on == {i \in 1..s.seen : registered[i].path = s.path}
                      IN  \/ s.answer = "400"
                          \/ s.answer = "404" /\ on = {}
                          \/ \E i \in on :
                               /\ \A j \in on : i <= j
                               /\ s.answer = registered[i].callback
    BY <1>1, <1>2 DEF SessionsGetFirstCallback
  <2>1. CASE k \in 1..n
    BY <1>1, <2>1 DEF PathInv, SessionsGetFirstCallback, n
  <2>2. CASE k = n + 1
    BY <1>1, <1>3, <2>2
  <2>3. QED
    BY <1>4, <2>1, <2>2
<1>6. \A k \in 1..(n + 1) : sessions'[k].seen <= Len(registered)
  <2>1. \A k \in 1..n : sessions[k].seen <= Len(registered)
    BY DEF PathInv, n
  <2>2. QED
    BY <1>1, <1>4, <2>1
<1>7. QED
  BY <1>1, <1>2, <1>5, <1>6 DEF PathInv

(* No other step touches the table.                                        *)
LEMMA PathInvStep == TypeOK /\ PathInv /\ [Next]_vars => PathInv'
<1> SUFFICES ASSUME TypeOK, PathInv, [Next]_vars
             PROVE  PathInv'
  OBVIOUS
<1>1. ASSUME UNCHANGED <<callbacks, registered, sessions>>
      PROVE  PathInv'
  <2>1. /\ callbacks' = callbacks
        /\ registered' = registered
        /\ sessions' = sessions
    BY <1>1
  <2>2. SessionsGetFirstCallback'
    BY <2>1 DEF PathInv, SessionsGetFirstCallback
  <2>3. QED
    BY <2>1, <2>2, Zenon DEF PathInv
<1>2. CASE InitializeBackend
  BY <1>1, <1>2 DEF InitializeBackend
<1>3. CASE (\E f \in toLoad : OpenFile(f)) \/ Read \/ LoadFile
  BY <1>1, <1>3 DEF OpenFile, Read, LoadFile
<1>4. CASE DirectoryLoaded
  BY <1>1, <1>4 DEF DirectoryLoaded
<1>5. ASSUME NEW r \in Requests, FetchResponseFromBackend(r)
      PROVE  PathInv'
  BY <1>1, <1>5 DEF FetchResponseFromBackend
<1>6. ASSUME NEW path \in Paths, NEW callback \in Callbacks, On(path, callback)
      PROVE  PathInv'
  BY <1>6, OnStep
<1>7. ASSUME NEW path \in Paths, NEW given \in BOOLEAN,
             ProcessWebTransportRequest(path, given)
      PROVE  PathInv'
  BY <1>7, RequestStep
<1>8. CASE UNCHANGED vars
  BY <1>1, <1>8 DEF vars
<1>9. QED
  BY <1>2, <1>3, <1>4, <1>5, <1>6, <1>7, <1>8 DEF Next

(* However registrations and sessions are ordered, a session runs the      *)
(* callback that was registered first for its path.                        *)
THEOREM FirstCallback == Spec => []SessionsGetFirstCallback
<1>1. Init => PathInv
  BY DEF Init, PathInv, SessionsGetFirstCallback
<1>2. PathInv => SessionsGetFirstCallback
  BY DEF PathInv
<1>3. QED
  BY <1>1, <1>2, PathInvStep, TypeCorrect, PTL DEF Spec
=============================================================================
