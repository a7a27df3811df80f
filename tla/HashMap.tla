------------------------------ MODULE HashMap ------------------------------
(***************************************************************************)
(* The hash map in which the first version (tomypeers.c) keeps the sizes   *)
(* of files, and the part of main that fills it: one listing after the     *)
(* other, of different hosts, into the same map.  Its nodes are allocated  *)
(* and never freed or changed, so a chain is the sequence of its nodes.    *)
(***************************************************************************)
EXTENDS Integers, Sequences

CONSTANTS
  Names,      \* words a listing can hold, and names with blanks
  Chars,      \* Chars[n]: the characters of n, as the signed char of the code
  FirstWord,  \* FirstWord[n]: n up to its first blank (all "%s" keeps)
  Listings,   \* what a host may send: sequences of names and sizes
  Held,       \* bound: what an uninitialised filesize may hold
  HASH_SIZE,  \* 100 in the code
  Long,       \* 2^32: unsigned long, and the DWORD nFileSizeLow
  Halves,     \* what the rest of a size_t can hold: 2^32 values on x64, 1 on x86
  MaxConnects \* bound: connections made

\* size_t, in which the hash is computed and a node keeps its size.
Word == Long * Halves

ASSUME HashAssumption ==
  /\ HASH_SIZE \in Nat \ {0} /\ MaxConnects \in Nat
  /\ Long \in Nat \ {0} /\ Halves \in Nat \ {0}
  /\ Chars \in [Names -> Seq(-128..127)] /\ FirstWord \in [Names -> Names]
  /\ Listings \subseteq Seq([name : Names, size : Nat])
  /\ Held \subseteq 0..(Word - 1)

VARIABLES
  pc,        \* at the command prompt, in the strtok loop, downloading, ended
  file_info, \* the lines one recv returned
  token,     \* how many of them strtok has passed
  hashmap,   \* the chain at each index
  connects   \* connections made

vars == <<pc, file_info, token, hashmap, connects>>

Slots == 0..(HASH_SIZE - 1)
Node  == [filename : Names, filesize : 0..(Word - 1)]

\* A line as it arrived; of one that is cut, any part of its name may be left.
Line == [name : Names, size : Nat, whole : BOOLEAN]
-----------------------------------------------------------------------------
\* 31 * hash + filename[i] in size_t, then % HASH_SIZE.
hash_function(n) ==
  LET hash[i \in 0..Len(Chars[n])] ==
        IF i = 0 THEN 0 ELSE (31 * hash[i - 1] + Chars[n][i]) % Word
  IN  hash[Len(Chars[n])] % HASH_SIZE

\* Mutant: strcmp is left out, the first node of the chain is taken.
AnyOfChain(n, chain) == 1..Len(chain)

Matches(n, chain) == {k \in 1..Len(chain) : chain[k].filename = n}

\* The first match in the chain of n's index; 0 if there is none.
get_filesize(n) ==
  LET chain == hashmap[hash_function(n)]
      found == Matches(n, chain)
  IN  IF found = {} THEN 0
      ELSE chain[CHOOSE k \in found : \A j \in found : k <= j].filesize

\* Mutant: the node goes to the end of its chain.
AtTail(node, chain) == Append(chain, node)

\* Mutant: newNode->next stays NULL.
Alone(node, chain) == <<node>>

\* newNode->next = hashmap[index]; hashmap[index] = newNode.
AtHead(node, chain) == <<node>> \o chain

\* What the host prints of a file's size, and "%lu" reads.
Low(size) == size % Long

\* "%lu" writes an unsigned long: the rest of the size_t at its address stays.
Scanned(held, size) == Long * (held \div Long) + Low(size)

\* filesize after sscanf: a name with a blank, or a cut line, leaves it alone
\* or gives it the digits that arrived.
Sizes(line) ==
  IF line.whole /\ FirstWord[line.name] = line.name
  THEN {Scanned(held, line.size) : held \in Held} ELSE Held

\* Mutant: strtok(NULL, "\n") for the first line too: it goes on where it was.
Onwards == token

\* strtok(file_info, "\n") begins with the first line.
Restart == 0
-----------------------------------------------------------------------------
Init ==
  /\ pc = "menu"
  /\ file_info = <<>>
  /\ token = 0
  /\ hashmap = [i \in Slots |-> <<>>]
  /\ connects = 0

Whole(l) == [i \in 1..Len(l) |-> [name |-> l[i].name, size |-> l[i].size, whole |-> TRUE]]

\* The first k lines of a listing, and perhaps a piece of the next.
Arrived(l) ==
  LET piece == {[name |-> n, size |-> 0, whole |-> FALSE] : n \in Names}
  IN  {Whole(SubSeq(l, 1, k)) : k \in 0..Len(l)}
        \cup UNION {{Append(Whole(SubSeq(l, 1, k)), c) : c \in piece} : k \in 0..(Len(l) - 1)}

\* connect and recv.  No line: recv returned 0 or failed.
connect ==
  /\ pc = "menu"
  /\ connects < MaxConnects
  /\ \E l \in Listings : file_info' \in Arrived(l)
  /\ token' = Restart
  /\ connects' = connects + 1
  /\ pc' = "parse"
  /\ UNCHANGED hashmap

\* Without a socket or a connection main returns, as after exit.
connectFails ==
  /\ pc = "menu"
  /\ pc' = "ended"
  /\ UNCHANGED <<file_info, token, hashmap, connects>>

\* sscanf and insert, for the next line.
insert ==
  /\ pc = "parse"
  /\ token < Len(file_info)
  /\ LET line == file_info[token + 1]
         name == FirstWord[line.name]
     IN  \E size \in Sizes(line) :
           hashmap' = [hashmap EXCEPT ![hash_function(name)] =
                         AtHead([filename |-> name, filesize |-> size], @)]
  /\ token' = token + 1
  /\ UNCHANGED <<pc, file_info, connects>>

\* malloc fails: exit(1).
mallocFails ==
  /\ pc = "parse"
  /\ token < Len(file_info)
  /\ pc' = "ended"
  /\ UNCHANGED <<file_info, token, hashmap, connects>>

\* strtok returns NULL.
parsed ==
  /\ pc = "parse"
  /\ token = Len(file_info)
  /\ pc' = "download"
  /\ UNCHANGED <<file_info, token, hashmap, connects>>

\* The user types exit, after any number of downloads: closesocket.
leave ==
  /\ pc = "download"
  /\ pc' = "menu"
  /\ UNCHANGED <<file_info, token, hashmap, connects>>

Next == connect \/ connectFails \/ insert \/ mallocFails \/ parsed \/ leave

Spec == Init /\ [][Next]_vars
-----------------------------------------------------------------------------
\* Types: a node's size is any size_t, and strtok never passes the last line.
TypeOK ==
  /\ pc \in {"menu", "parse", "download", "ended"}
  /\ file_info \in Seq(Line)
  /\ token \in 0..Len(file_info)
  /\ hashmap \in [Slots -> Seq(Node)]
  /\ connects \in Nat

(***************************************************************************)
(* In a session the size get_filesize returns for a file of this host is   *)
(* the one this host listed, whatever other hosts listed before, whichever *)
(* names share an index and however the listing was cut: the exception is  *)
(* a name that a later line repeats up to a blank or a cut (main, insert). *)
(* It is that size modulo 2^32: where a size_t is longer, its upper half   *)
(* is not written by sscanf.                                               *)
(***************************************************************************)
ListedSizeWins ==
  pc = "download" =>
    \A i \in 1..Len(file_info) :
      LET line == file_info[i]
      IN  (/\ line.whole /\ FirstWord[line.name] = line.name
           /\ \A j \in (i + 1)..Len(file_info) : FirstWord[file_info[j].name] # line.name)
          => Low(get_filesize(line.name)) = Low(line.size)

(***************************************************************************)
(* A step changes the size of no name but the one it inserts, though       *)
(* chains are shared, and a size once known is kept: the map only forgets  *)
(* what a newer listing replaces (insert and get_filesize).                *)
(***************************************************************************)
OthersKeepSize ==
  [][\A n \in Names :
       \/ get_filesize(n)' = get_filesize(n)
       \/ pc = "parse" /\ n = FirstWord[file_info[token + 1].name]]_vars
=============================================================================
