------------------------ MODULE MCQuailServerBackend ------------------------
(***************************************************************************)
(* Files whose names meet in one key by each of the ways there are, and    *)
(* texts that are whole or broken off.                                     *)
(***************************************************************************)
EXTENDS QuailServerBackend

MCChars == {"l", "i", "a", "b", "p", "q", "o", "t", "n", "e", "u", "v", "r",
            "x", "s", "slash", "backslash", "colon", "comma", "https"}

File(kind, base, lines, ended, url) ==
  [kind |-> kind, base |-> base, lines |-> lines, ended |-> ended, url |-> url]

Page == <<"status", "connection", "field", "empty", "text">>

Whole(base) == File("regular", base, Page, TRUE, <<>>)

(* local2/index.html, a/b, a\b, a:p/b, a/b,q, aa/b,q, a/b/b, a,b/b, a.     *)
MCNames ==
  { <<"l", "slash", "i">>, <<"a", "slash", "b">>, <<"a", "backslash", "b">>,
    <<"a", "colon", "p", "slash", "b">>, <<"a", "slash", "b", "comma", "q">>,
    <<"a", "a", "slash", "b", "comma", "q">>, <<"a", "slash", "b", "slash", "b">>,
    <<"a", "comma", "b", "slash", "b">>, <<"a">> }

(* Without an end of the headers, with text in them, without a space in    *)
(* the first line, without the last '\n', and with a URL of their own.     *)
MCTexts ==
  { File("regular", <<"o">>, <<"status", "connection">>, TRUE, <<>>),
    File("regular", <<"t">>, <<"status", "connection", "text", "empty", "text">>,
         TRUE, <<>>),
    File("regular", <<"n">>, <<"nocode", "empty", "text">>, TRUE, <<>>),
    File("regular", <<"e">>, <<"connection", "status">>, FALSE, <<>>),
    File("regular", <<"u">>, <<"url", "status", "empty", "text">>, TRUE,
         <<"https", "a", "slash", "b">>),
    File("regular", <<"v">>, <<"connection", "url", "text">>, TRUE,
         <<"a", "slash", "b">>),
    File("unreadable", <<"r">>, <<>>, TRUE, <<>>),
    File("broken", <<"x">>, <<>>, TRUE, <<>>),
    File("special", <<"s">>, <<>>, TRUE, <<>>) }

MCFiles == {Whole(base) : base \in MCNames} \cup MCTexts

MCLocalKey == <<"l", "slash", "i">>

Request(complete, host, path) ==
  [complete |-> complete, host |-> host, path |-> path]

MCRequests ==
  { Request(TRUE, <<"l">>, <<"slash", "i">>),
    Request(TRUE, <<"a", "colon", "p">>, <<"slash", "b">>),
    Request(FALSE, <<"l">>, <<>>) }

(* Paths are alike, and so are callbacks.                                  *)
Symmetry == Permutations(Paths) \cup Permutations(Callbacks)
=============================================================================
