------------------------- MODULE QuailServerBackend -------------------------
(***************************************************************************)
(* QuailServerBackend: the cache of responses that its constructor's owner *)
(* loads from a directory, one file after the other, the requests that are *)
(* answered from it, and the table of paths for WebTransport sessions.     *)
(*                                                                         *)
(* Names are sequences of characters, since a file's place in the cache is *)
(* computed from the positions of '/', ',' and ':' in its name; a file's   *)
(* text is a sequence of lines, told apart by what Read does with them,    *)
(* one step a line.  Nothing comes between these steps: the constructor    *)
(* has not returned, and nobody else knows the backend.                    *)
(* Release build: a failed QUICHE_DCHECK, a QUIC_BUG and a log of level    *)
(* DFATAL let execution continue.                                          *)
(***************************************************************************)
EXTENDS Integers, Sequences, SequencesExt

CONSTANTS
  Chars,       \* what names are made of
  Files,       \* files the cache directory may hold
  MaxFiles,    \* bound: files it holds
  Requests,    \* what ordinary requests may ask for
  LocalKey,    \* "local2/index.html"
  Paths,       \* paths of WebTransport sessions
  Callbacks,   \* what an application may register
  MaxCalls     \* bound: registrations, and sessions asked for

(* A line of a file: the first line of an HTTP response, with or without a *)
(* space in it, a header ("connection", "x-original-url" and others), text *)
(* that is no header, or nothing.                                          *)
LineKinds == {"status", "nocode", "connection", "url", "field", "text", "empty"}

Schemes == {"https", "http"}

(* A file is found under its base, the name with the directory stripped.   *)
(* "broken": stat fails, "special": neither a file nor a directory,        *)
(* "unreadable": cannot be opened.  ended: the last line has its '\n'.     *)
LegalFile(f) ==
  /\ f.kind \in {"regular", "unreadable", "broken", "special"}
  /\ f.base \in Seq(Chars) \ {<<>>}
  /\ f.url \in Seq(Chars)
  /\ f.ended \in BOOLEAN
  /\ f.lines \in Seq(LineKinds)
  /\ ~f.ended => f.lines # <<>> /\ f.lines[Len(f.lines)] # "empty"
  /\ \A i, j \in 1..Len(f.lines) :
       f.lines[i] = "url" /\ f.lines[j] = "url" => i = j

ASSUME FilesAssumption == \A f \in Files : LegalFile(f)

ASSUME CharsAssumption == "slash" \in Chars

ASSUME BoundsAssumption == MaxFiles \in Nat /\ MaxCalls \in Nat

VARIABLES
  directory,   \* what the cache directory holds
  phase,       \* of the constructor: "new", "loading"; then "ready"
  toLoad,      \* files still to be loaded
  resource,    \* the ResourceFile that is read
  responses,   \* responses_
  loaded,      \* history: files in the order they were loaded
  fetched,     \* the last ordinary request and where its answer was found
  callbacks,   \* callbacks_
  registered,  \* history: what On was called with
  sessions     \* history: the answers to WebTransport requests

vars == <<directory, phase, toLoad, resource, responses, loaded, fetched,
          callbacks, registered, sessions>>

----------------------------------------------------------------------------
(* Positions count from 1; 0 stands for npos.                              *)
Find(s, c) == SelectInSeq(s, LAMBDA x : x = c)

(* The path ends query_start - 1 characters after its start (and not at    *)
(* query_start), or with the name; npos is positive too.                   *)
SetHostPathFromBase(base) ==
  LET slash == Find(base, "slash")
      comma == Find(base, "comma")
      end   == slash + comma - 3
  IN  IF slash = 0
        THEN [host |-> base, path |-> <<>>]
        ELSE [host |-> SubSeq(base, 1, slash - 1),
              path |-> SubSeq(base, slash, IF comma <= 1 \/ end > Len(base)
                                             THEN Len(base) ELSE end)]

RemoveScheme(url) ==
  IF url # <<>> /\ url[1] \in Schemes THEN Tail(url) ELSE url

(* The port is cut off.                                                    *)
GetKey(host, path) ==
  (IF Find(host, "colon") = 0 THEN host ELSE SubSeq(host, 1, Find(host, "colon") - 1))
    \o path

----------------------------------------------------------------------------
(* Windows separators become slashes.                                      *)
Base(f) == ReplaceAll(f.base, "backslash", "slash")

HeaderKinds == {"status", "connection", "url", "field"}

(* start counts lines, not bytes.  "whole": Read has come to its end,      *)
(* "broken": it has returned early.                                        *)
Resource == [stage : {"reading", "whole", "broken"}, file : Files,
             host : Seq(Chars), path : Seq(Chars),
             start : Nat, headers : SUBSET HeaderKinds, body : Nat]

NoResource == [stage |-> "none"]

Response == [file : Files, headers : SUBSET HeaderKinds, body : Nat]

(* No key is empty: the null pointer.                                      *)
NoKey == <<>>

Refusals == {"400", "404"}

NoRequest == [asked |-> FALSE, host |-> <<>>, path |-> <<>>, answer |-> NoKey]

(* No two files have one name.                                             *)
Init ==
  /\ directory \in {d \in SUBSET Files : Cardinality(d) <= MaxFiles}
  /\ \A f, g \in directory : f.base = g.base => f = g
  /\ phase = "new"
  /\ toLoad = {}
  /\ resource = NoResource
  /\ responses = <<>>
  /\ loaded = <<>>
  /\ fetched = NoRequest
  /\ callbacks = <<>>
  /\ registered = <<>>
  /\ sessions = <<>>

(* Mutant: what was enumerated before a failure is loaded.                 *)
InitializeBackend_KeepsSeen ==
  /\ phase = "new"
  /\ phase' = "loading"
  /\ toLoad' \in SUBSET {f \in directory : f.kind \notin {"special", "broken"}}
  /\ (\A f \in directory : f.kind # "broken") =>
        toLoad' = {f \in directory : f.kind # "special"}
  /\ UNCHANGED <<directory, resource, responses, loaded, fetched, callbacks,
                 registered, sessions>>

(* EnumerateDirectoryImpl fails when the status of an entry cannot be had, *)
(* and passes over what is neither a file nor a directory; the entries     *)
(* come in any order.                                                      *)
InitializeBackend ==
  /\ phase = "new"
  /\ \/ /\ \E f \in directory : f.kind = "broken"
        /\ phase' = "ready"
        /\ UNCHANGED toLoad
     \/ /\ \A f \in directory : f.kind # "broken"
        /\ phase' = "loading"
        /\ toLoad' = {f \in directory : f.kind # "special"}
  /\ UNCHANGED <<directory, resource, responses, loaded, fetched, callbacks,
                 registered, sessions>>

(* The name gives host and path before the text is read.                   *)
OpenFile(f) ==
  /\ phase = "loading"
  /\ resource = NoResource
  /\ LET name == SetHostPathFromBase(Base(f))
     IN  resource' = [stage |-> IF f.kind = "unreadable" THEN "broken"
                                                         ELSE "reading",
                      file |-> f, host |-> name.host, path |-> name.path,
                      start |-> 1, headers |-> {}, body |-> 0]
  /\ UNCHANGED <<directory, phase, toLoad, responses, loaded, fetched,
                 callbacks, registered, sessions>>

(* Read behind its loop: a whole file is cleared of its connection header, *)
(* and found under its X-Original-Url.                                     *)
Finish(r) ==
  LET name == SetHostPathFromBase(RemoveScheme(r.file.url))
      found == "url" \in r.headers
  IN  [r EXCEPT !.stage = "whole", !.headers = @ \ {"connection"},
                !.host = IF found THEN name.host ELSE @,
                !.path = IF found THEN name.path ELSE @]

(* Mutant: a line that is no header is passed over.                        *)
BreakOff_Skips(r) == [r EXCEPT !.start = @ + 1]

(* Read returns, with the headers it has so far.                           *)
BreakOff(r) == [r EXCEPT !.stage = "broken"]

(* Read at one line: the last one without its '\n' or one that is no       *)
(* header, an empty one, a header; or behind the last one.                 *)
ReadLine(r) ==
  LET lines == r.file.lines
      line  == lines[r.start]
  IN  IF r.start > Len(lines) THEN Finish(r)
      ELSE IF (r.start = Len(lines) /\ ~r.file.ended) \/ line \in {"nocode", "text"}
        THEN BreakOff(r)
      ELSE IF line = "empty"
        THEN Finish([r EXCEPT !.body = Len(lines) - r.start])
      ELSE [r EXCEPT !.headers = @ \cup {line}, !.start = @ + 1]

Read ==
  /\ resource.stage = "reading"
  /\ resource' = ReadLine(resource)
  /\ UNCHANGED <<directory, phase, toLoad, responses, loaded, fetched,
                 callbacks, registered, sessions>>

(* A table with an entry more; one that is there already stays.            *)
Insert(table, k, v) ==
  [x \in DOMAIN table \cup {k} |-> IF x \in DOMAIN table THEN table[x] ELSE v]

(* Mutant: a response of the same key is replaced.                         *)
AddResponse_Replaces(key, response) ==
  responses' = [k \in DOMAIN responses \cup {key} |->
                  IF k = key THEN response ELSE responses[k]]

(* A key that is taken keeps its response.                                 *)
AddResponse(key, response) == responses' = Insert(responses, key, response)

(* What Read has made of the file is added, broken off or not.             *)
LoadFile ==
  /\ resource.stage \in {"whole", "broken"}
  /\ toLoad' = toLoad \ {resource.file}
  /\ loaded' = Append(loaded, resource.file)
  /\ AddResponse(GetKey(resource.host, resource.path),
                 [file |-> resource.file, headers |-> resource.headers,
                  body |-> resource.body])
  /\ resource' = NoResource
  /\ UNCHANGED <<directory, phase, fetched, callbacks, registered, sessions>>

DirectoryLoaded ==
  /\ phase = "loading"
  /\ toLoad = {}
  /\ phase' = "ready"
  /\ UNCHANGED <<directory, toLoad, resource, responses, loaded, fetched,
                 callbacks, registered, sessions>>

----------------------------------------------------------------------------
(* One key is looked up whatever is asked for; neither the default nor the *)
(* generated response is ever set.                                         *)
GetResponse(host, path) ==
  IF LocalKey \in DOMAIN responses THEN LocalKey ELSE NoKey

(* Only a request with :authority and :path is looked up.                  *)
FetchResponseFromBackend(r) ==
  /\ phase = "ready"
  /\ fetched' = [asked |-> TRUE, host |-> r.host, path |-> r.path,
                 answer |-> IF r.complete THEN GetResponse(r.host, r.path)
                                          ELSE NoKey]
  /\ UNCHANGED <<directory, phase, toLoad, resource, responses, loaded,
                 callbacks, registered, sessions>>

----------------------------------------------------------------------------
(* Mutant: the last registration of a path wins.                           *)
On_Replaces(path, callback) ==
  /\ phase = "ready"
  /\ Len(registered) < MaxCalls
  /\ registered' = Append(registered, [path |-> path, callback |-> callback])
  /\ callbacks' = [p \in DOMAIN callbacks \cup {path} |->
                    IF p = path THEN callback ELSE callbacks[p]]
  /\ UNCHANGED <<directory, phase, toLoad, resource, responses, loaded,
                 fetched, sessions>>

(* insert leaves a path alone that is registered.                          *)
On(path, callback) ==
  /\ phase = "ready"
  /\ Len(registered) < MaxCalls
  /\ registered' = Append(registered, [path |-> path, callback |-> callback])
  /\ callbacks' = Insert(callbacks, path, callback)
  /\ UNCHANGED <<directory, phase, toLoad, resource, responses, loaded,
                 fetched, sessions>>

(* ProcessWebTransportRequest, with the path as GURL gives it, without the *)
(* query: the session's callback, or the status that refuses it.           *)
ProcessWebTransportRequest(path, given) ==
  /\ phase = "ready"
  /\ Len(sessions) < MaxCalls
  /\ sessions' = Append(sessions,
       [path |-> path, seen |-> Len(registered),
        answer |-> IF ~given THEN "400"
                   ELSE IF path \in DOMAIN callbacks THEN callbacks[path]
                   ELSE "404"])
  /\ UNCHANGED <<directory, phase, toLoad, resource, responses, loaded,
                 fetched, callbacks, registered>>

Next ==
  \/ InitializeBackend
  \/ \E f \in toLoad : OpenFile(f)
  \/ Read
  \/ LoadFile
  \/ DirectoryLoaded
  \/ \E r \in Requests : FetchResponseFromBackend(r)
  \/ \E path \in Paths, callback \in Callbacks : On(path, callback)
  \/ \E path \in Paths, given \in BOOLEAN :
       ProcessWebTransportRequest(path, given)

Spec == Init /\ [][Next]_vars
----------------------------------------------------------------------------
(* What a file says, of its text as a whole: its headers end at the first  *)
(* line that is empty, is no header or has no '\n', and the file is well   *)
(* formed only when that line is empty or there is none.                   *)
Ends(f) == {i \in 1..Len(f.lines) : \/ f.lines[i] \in {"empty", "nocode", "text"}
                                    \/ i = Len(f.lines) /\ ~f.ended}

End(f) == IF Ends(f) = {} THEN Len(f.lines) + 1 ELSE Min(Ends(f))

Malformed(f) ==
  \/ f.kind = "unreadable"
  \/ End(f) <= Len(f.lines) /\ f.lines[End(f)] # "empty"

Headers(f) == IF f.kind = "unreadable" THEN {}
              ELSE {f.lines[i] : i \in 1..(End(f) - 1)}

(* The lines behind the end of the headers.                                *)
Body(f) == IF Malformed(f) \/ End(f) > Len(f.lines) THEN 0
           ELSE Len(f.lines) - End(f)

HostPath(f) ==
  SetHostPathFromBase(IF "url" \in Headers(f) /\ ~Malformed(f)
                        THEN RemoveScheme(f.url) ELSE Base(f))

Key(f) == GetKey(HostPath(f).host, HostPath(f).path)

Keys == {Key(f) : f \in Files}

TypeOK ==
  /\ directory \in SUBSET Files
  /\ phase \in {"new", "loading", "ready"}
  /\ toLoad \in SUBSET directory
  /\ resource \in Resource \cup {NoResource}
  /\ DOMAIN responses \in SUBSET Keys
  /\ \A k \in DOMAIN responses : responses[k] \in Response
  /\ loaded \in Seq(Files)
  /\ fetched.answer \in DOMAIN responses \cup {NoKey}
  /\ DOMAIN callbacks \in SUBSET Paths
  /\ \A p \in DOMAIN callbacks : callbacks[p] \in Callbacks
  /\ registered \in Seq([path : Paths, callback : Callbacks])
  /\ sessions \in Seq([path : Paths, seen : Nat, answer : Callbacks \cup Refusals])

(* Names without '\', ',' or ':', and without an X-Original-Url.           *)
Plain(f) ==
  /\ \A i \in 1..Len(f.base) :
       f.base[i] \notin {"backslash", "comma", "colon"}
  /\ "url" \notin Headers(f) \/ Malformed(f)

(* No file is lost unnoticed: each file that was loaded is in the cache,   *)
(* or an earlier one is under its key, and that happens only to names that *)
(* are changed on their way to the key.                                    *)
FilesShadowOnlyAliases ==
  \A j \in 1..Len(loaded) :
    LET f == loaded[j]
    IN  /\ Key(f) \in DOMAIN responses
        /\ \/ responses[Key(f)].file = f
           \/ \E i \in 1..(j - 1) :
                /\ responses[Key(f)].file = loaded[i]
                /\ ~Plain(f) \/ ~Plain(loaded[i])

(* What a directory offers: no file if there is an entry it fails for.     *)
Loadable ==
  {f \in directory : f.kind # "special" /\ \A g \in directory : g.kind # "broken"}

(* The cache has every file of the directory or, with a single entry whose *)
(* status cannot be had, no file at all, and never some of them: nobody    *)
(* looks at what InitializeBackend returns, so that the server runs on     *)
(* with what is there.                                                     *)
AllOrNothing ==
  phase = "ready" => DOMAIN responses = {Key(f) : f \in Loadable}

(* What is served under a key is what its file says, read line by line:    *)
(* the headers down to where they end, and the text behind them.  "The     *)
(* connection header is prohibited in HTTP/2"                              *)
(* (quail_server_backend.cc:79), and no whole file keeps its; but one      *)
(* whose reading broke off is added with the headers read until then, the  *)
(* connection among them, without a body, and under its name even when it  *)
(* has an X-Original-Url.                                                  *)
ServedAsWritten ==
  \A k \in DOMAIN responses :
    LET f == responses[k].file
    IN  /\ k = Key(f)
        /\ responses[k].headers = IF Malformed(f) THEN Headers(f)
                                  ELSE Headers(f) \ {"connection"}
        /\ responses[k].body = Body(f)

(* However registrations and sessions follow each other, a session gets    *)
(* the callback that was the first one registered for its path, and is     *)
(* refused when there was none.                                            *)
SessionsGetFirstCallback ==
  \A n \in 1..Len(sessions) :
    LET s  == sessions[n]
        on == {i \in 1..s.seen : registered[i].path = s.path}
    IN  \/ s.answer = "400"
        \/ s.answer = "404" /\ on = {}
        \/ \E i \in on : /\ \A j \in on : i <= j
                          /\ s.answer = registered[i].callback

(* "Retrieve a response from this cache for a given host and path.. If no  *)
(* appropriate response exists, nullptr is returned."                      *)
(* (quail_server_backend.h:68).                                            *)
RetrievesGiven ==
  fetched.asked =>
    LET key == GetKey(fetched.host, fetched.path)
    IN  fetched.answer = IF key \in DOMAIN responses THEN key ELSE NoKey
=============================================================================
