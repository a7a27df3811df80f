---------------------------- MODULE MCSession ----------------------------
(***************************************************************************)
(* Small sessions for TLC.  Buffers of 2 and 3 bytes stand for 3072 and    *)
(* 4096, so that a file takes several reads, an answer several receives    *)
(* and a receive can span two sends; 2^32 becomes Modulus.                 *)
(***************************************************************************)
EXTENDS Session

File(n, s) == [name |-> n, size |-> s, isdir |-> FALSE]

\* "ab" is part of the listing line of "abc"; "none" is part of no line.
MCNames     == {"abc", "b", "ab", "none"}
MCFirstWord == [n \in MCNames |-> n]
MCOccurs    == {<<n, n>> : n \in MCNames} \cup {<<"ab", "abc">>, <<"b", "abc">>}

\* Two files of several buffers.
CleanDir    == <<File("abc", 5), File("b", 3)>>

\* An upload directory with a file longer than Modulus, a subdirectory, and a
\* name with a blank in it, which the client reads as "two".
OddNames     == {"two words", "two", "sub", "big"}
OddFirstWord == [n \in OddNames |-> IF n = "two words" THEN "two" ELSE n]
OddOccurs    == {<<n, n>> : n \in OddNames} \cup {<<"two", "two words">>}
OddDir       == <<File("big", 5), [name |-> "sub", size |-> 0, isdir |-> TRUE],
                  File("two words", 2)>>

\* A file longer than Modulus, and a file without bytes.
BigDir       == <<File("big", 5)>>
EmptyFileDir == <<File("abc", 0), File("b", 1)>>

\* One file; a second may appear under "none", which no other line contains.
OneFileDir   == <<File("abc", 2)>>
=============================================================================
