----------------------------- MODULE MCHashMap -----------------------------
(***************************************************************************)
(* Three indices for 100, an unsigned long of 3 bits and a size_t of 6: the *)
(* names share chains, the hash wraps around, one of its characters is     *)
(* negative, and what a filesize held before has bits in both halves.      *)
(***************************************************************************)
EXTENDS HashMap

MCNames     == {"a", "ba", "ab", "a b"}
MCChars     == [n \in MCNames |-> CASE n = "a"   -> <<97>>
                                    [] n = "ba"  -> <<-29, 97>>
                                    [] n = "ab"  -> <<97, -29>>
                                    [] n = "a b" -> <<97, 32, -29>>]
MCFirstWord == [n \in MCNames |-> IF n = "a b" THEN "a" ELSE n]

F(n, s) == [name |-> n, size |-> s]

\* Three hosts: the same names with other sizes, a blank, a size past Long.
MCListings  == {<<F("a", 1), F("ba", 2)>>, <<F("ba", 3), F("ab", 65)>>,
                <<F("a", 5), F("a b", 7), F("ab", 2)>>}
=============================================================================
