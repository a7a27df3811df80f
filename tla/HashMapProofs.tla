--------------------------- MODULE HashMapProofs ---------------------------
(***************************************************************************)
(* For any size of the table, any names and any number of hosts: the size  *)
(* get_filesize returns is the one the host listed, modulo 2^32.           *)
(***************************************************************************)
EXTENDS HashMap, DataLemmas
-----------------------------------------------------------------------------
(***************************************************************************)
(* The two halves of a size_t.                                             *)
(***************************************************************************)
LEMMA WordType == Word \in Nat \ {0}
<1>1. Long \in Nat \ {0} /\ Halves \in Nat \ {0}
  BY HashAssumption
<1>2. Long * Halves \in Nat \ {0}
  BY <1>1
<1> QED
  BY <1>2 DEF Word

\* sscanf gives filesize the low half it reads, and keeps it a size_t.
LEMMA ScannedHalves ==
  ASSUME NEW held \in 0..(Word - 1), NEW size \in Nat
  PROVE  /\ Scanned(held, size) \in 0..(Word - 1)
         /\ Low(Scanned(held, size)) = Low(size)
<1> DEFINE q == held \div Long
           r == size % Long
<1>1. Long \in Nat \ {0} /\ Halves \in Nat \ {0}
  BY HashAssumption
<1>2. held \in Nat /\ held < Long * Halves
  BY <1>1, WordType DEF Word
<1>3. q \in Nat /\ held % Long \in 0..(Long - 1) /\ held = Long * q + (held % Long)
  BY <1>1, <1>2, DivMod
<1>4. r \in 0..(Long - 1)
  BY <1>1, DivMod
<1>5. Scanned(held, size) = Long * q + r /\ Low(size) = r
  BY DEF Scanned, Low
<1> HIDE DEF q, r
<1>6. q < Halves
  <2> SUFFICES ASSUME q >= Halves
               PROVE  FALSE
    BY <1>1, <1>3
  <2>1. Long * q >= Long * Halves
    BY <1>1, <1>3
  <2>2. Long * q \in Nat /\ Long * Halves \in Nat
    BY <1>1, <1>3
  <2> QED
    BY <1>1, <1>2, <1>3, <2>1, <2>2
<1>7. Long * q + Long <= Long * Halves
  <2>1. q + 1 <= Halves
    BY <1>1, <1>3, <1>6
  <2>2. Long * (q + 1) <= Long * Halves
    BY <1>1, <1>3, <2>1
  <2>3. Long * (q + 1) = Long * q + Long
    BY <1>1, <1>3
  <2> QED
    BY <2>2, <2>3
<1>8. Long * q \in Nat /\ Long * Halves \in Nat
  BY <1>1, <1>3
<1>9. Long * q + r \in 0..(Word - 1)
  BY <1>1, <1>4, <1>7, <1>8 DEF Word
<1>10. (Long * q + r) % Long = r
  <2>1. r \in Nat /\ r < Long
    BY <1>1, <1>4
  <2> QED
    BY <1>1, <1>3, <2>1, ModUnique
<1> QED
  BY <1>5, <1>9, <1>10 DEF Low
-----------------------------------------------------------------------------
(***************************************************************************)
(* hash_function.  Its loop is a recursive function; that there is one,    *)
(* and that it stays in a word, goes by the least index where it would     *)
(* not.                                                                    *)
(***************************************************************************)

\* f is what the loop computes for the first m characters of n.
IsHash(f, n, m) ==
  f = [i \in 0..m |-> IF i = 0 THEN 0 ELSE (31 * f[i - 1] + Chars[n][i]) % Word]

LEMMA CharType ==
  ASSUME NEW n \in Names
  PROVE  Len(Chars[n]) \in Nat /\ \A i \in 1..Len(Chars[n]) : Chars[n][i] \in Int
<1>1. Chars[n] \in Seq(-128..127)
  BY HashAssumption
<1>2. Len(Chars[n]) \in Nat
  BY <1>1, LenProperties
<1>3. \A i \in 1..Len(Chars[n]) : Chars[n][i] \in -128..127
  BY <1>1, ElementOfSeq
<1>4. \A c \in -128..127 : c \in Int
  OBVIOUS
<1> QED
  BY <1>2, <1>3, <1>4, Zenon

LEMMA HashExists ==
  ASSUME NEW n \in Names
  PROVE  \E f : IsHash(f, n, Len(Chars[n]))
<1> DEFINE Bad == {m \in Nat : ~ \E f : IsHash(f, n, m)}
<1>1. Bad = {}
  <2> SUFFICES ASSUME Bad # {}
               PROVE  FALSE
    OBVIOUS
  <2>1. Bad \in SUBSET Nat
    OBVIOUS
  <2> HIDE DEF Bad
  <2>2. PICK m \in Bad : \A k \in Bad : m <= k
    BY <2>1, LeastIndex
  <2> USE DEF Bad
  <2>3. m # 0
    <3>1. IsHash([i \in 0..0 |-> 0], n, 0)
      BY DEF IsHash
    <3> QED
      BY <3>1
  <2>4. m \in Nat /\ m - 1 \in Nat /\ m - 1 \notin Bad
    BY <2>2, <2>3
  <2>5. PICK f : IsHash(f, n, m - 1)
    BY <2>4
  <2> DEFINE g == [i \in 0..m |-> IF i = m THEN (31 * f[m - 1] + Chars[n][m]) % Word ELSE f[i]]
  <2>6. \A i \in 0..m : g[i] = IF i = 0 THEN 0 ELSE (31 * g[i - 1] + Chars[n][i]) % Word
    <3> SUFFICES ASSUME NEW i \in 0..m
                 PROVE  g[i] = IF i = 0 THEN 0 ELSE (31 * g[i - 1] + Chars[n][i]) % Word
      OBVIOUS
    <3>1. CASE i = m
      <4>1. g[m - 1] = f[m - 1] /\ g[m] = (31 * f[m - 1] + Chars[n][m]) % Word
        BY <2>4
      <4> QED
        BY <2>3, <3>1, <4>1
    <3>2. CASE i # m
      <4>1. i \in 0..(m - 1) /\ g[i] = f[i] /\ (i # 0 => g[i - 1] = f[i - 1])
        BY <2>4, <3>2
      <4>2. f[i] = IF i = 0 THEN 0 ELSE (31 * f[i - 1] + Chars[n][i]) % Word
        BY <2>5, <4>1 DEF IsHash
      <4> QED
        BY <4>1, <4>2
    <3> QED
      BY <3>1, <3>2
  <2>7. IsHash(g, n, m)
    BY <2>6 DEF IsHash
  <2> QED
    BY <2>2, <2>7
<1>2. Len(Chars[n]) \in Nat
  BY CharType
<1> QED
  BY <1>1, <1>2

\* The index is one of the table.
LEMMA HashType ==
  ASSUME NEW n \in Names
  PROVE  hash_function(n) \in Slots
<1> DEFINE N == Len(Chars[n])
           hash == CHOOSE f : IsHash(f, n, N)
<1>1. IsHash(hash, n, N)
  BY HashExists
<1>2. hash_function(n) = hash[N] % HASH_SIZE
  BY DEF hash_function, IsHash
<1>3. N \in Nat /\ \A i \in 1..N : Chars[n][i] \in Int
  BY CharType
<1>4. \A i \in 0..N : hash[i] = IF i = 0 THEN 0 ELSE (31 * hash[i - 1] + Chars[n][i]) % Word
  BY <1>1 DEF IsHash
<1> HIDE DEF hash, N
<1> DEFINE Bad == {i \in 0..N : hash[i] \notin 0..(Word - 1)}
<1>5. Bad = {}
  <2> SUFFICES ASSUME Bad # {}
               PROVE  FALSE
    OBVIOUS
  <2>1. Bad \in SUBSET Nat
    BY <1>3
  <2> HIDE DEF Bad
  <2>2. PICK m \in Bad : \A k \in Bad : m <= k
    BY <2>1, LeastIndex
  <2> USE DEF Bad
  <2>3. Word \in Nat \ {0}
    BY WordType
  <2>4. m # 0
    BY <1>3, <1>4, <2>3
  <2>5. m \in 1..N /\ m - 1 \in 0..N /\ m - 1 \notin Bad
    BY <1>3, <2>2, <2>4
  <2>6. hash[m - 1] \in Int /\ Chars[n][m] \in Int
    BY <1>3, <2>3, <2>5
  <2>7. 31 * hash[m - 1] + Chars[n][m] \in Int
    BY <2>6
  <2>8. (31 * hash[m - 1] + Chars[n][m]) % Word \in 0..(Word - 1)
    BY <2>3, <2>7, ModType
  <2> QED
    BY <1>4, <2>4, <2>5, <2>8
<1>6. hash[N] \in Int
  BY <1>3, <1>5, WordType
<1>7. hash[N] % HASH_SIZE \in 0..(HASH_SIZE - 1)
  BY <1>6, ModType, HashAssumption
<1> QED
  BY <1>2, <1>7 DEF Slots
-----------------------------------------------------------------------------
(***************************************************************************)
(* Chains.                                                                 *)
(***************************************************************************)

\* What get_filesize does with the chain it has found.
Lookup(n, chain) ==
  LET found == Matches(n, chain)
  IN  IF found = {} THEN 0
      ELSE chain[CHOOSE k \in found : \A j \in found : k <= j].filesize

LEMMA FilesizeIsLookup ==
  ASSUME NEW n
  PROVE  /\ get_filesize(n) = Lookup(n, hashmap[hash_function(n)])
         /\ get_filesize(n)' = Lookup(n, hashmap'[hash_function(n)])
  BY DEF get_filesize, Lookup, Matches

\* The search stops at the first node with the name.
LEMMA LookupFirst ==
  ASSUME NEW n, NEW chain \in Seq(Node), NEW k \in Matches(n, chain),
         \A j \in Matches(n, chain) : k <= j
  PROVE  Lookup(n, chain) = chain[k].filesize
<1> DEFINE found == Matches(n, chain)
           c == CHOOSE i \in found : \A j \in found : i <= j
<1>1. c \in found /\ \A j \in found : c <= j
  OBVIOUS
<1>2. c \in Nat /\ k \in Nat
  BY <1>1 DEF Matches
<1>3. c <= k /\ k <= c
  BY <1>1
<1>4. c = k
  BY <1>2, <1>3
<1>5. found # {}
  OBVIOUS
<1>6. Lookup(n, chain) = chain[c].filesize
  BY <1>5 DEF Lookup
<1> QED
  BY <1>4, <1>6

\* A node at the head answers for its own name and hides no other.
LEMMA LookupAtHead ==
  ASSUME NEW n, NEW chain \in Seq(Node), NEW node \in Node
  PROVE  /\ AtHead(node, chain) \in Seq(Node)
         /\ Lookup(n, AtHead(node, chain)) =
              IF node.filename = n THEN node.filesize ELSE Lookup(n, chain)
<1> DEFINE longer == AtHead(node, chain)
<1>1. Len(chain) \in Nat
  OBVIOUS
<1>2. <<node>> \in Seq(Node) /\ Len(<<node>>) = 1 /\ <<node>>[1] = node
  OBVIOUS
<1>3. /\ longer \in Seq(Node)
      /\ Len(longer) = Len(chain) + 1
      /\ longer[1] = node
      /\ \A i \in 1..Len(chain) : longer[i + 1] = chain[i]
  <2>1. longer \in Seq(Node) /\ Len(longer) = 1 + Len(chain)
    BY <1>1, <1>2, ConcatProperties DEF AtHead
  <2>2. \A i \in 1..(1 + Len(chain)) :
          longer[i] = IF i <= 1 THEN <<node>>[i] ELSE chain[i - 1]
    BY <1>1, <1>2, ConcatProperties DEF AtHead
  <2> QED
    BY <1>1, <1>2, <2>1, <2>2
<1> HIDE DEF longer
<1>4. \A i \in Matches(n, longer) : i \in 1..(Len(chain) + 1) /\ longer[i].filename = n
  BY <1>3 DEF Matches
<1>5. CASE node.filename = n
  <2>1. 1 \in Matches(n, longer) /\ \A j \in Matches(n, longer) : 1 <= j
    BY <1>1, <1>3, <1>4, <1>5 DEF Matches
  <2>2. Lookup(n, longer) = longer[1].filesize
    BY <1>3, <2>1, LookupFirst
  <2> QED
    BY <1>3, <1>5, <2>2 DEF longer
<1>6. CASE node.filename # n
  <2>1. \A i \in Matches(n, longer) : i - 1 \in Matches(n, chain)
    <3> SUFFICES ASSUME NEW i \in Matches(n, longer)
                 PROVE  i - 1 \in Matches(n, chain)
      OBVIOUS
    <3>1. i \in 1..(Len(chain) + 1) /\ longer[i].filename = n /\ i # 1
      BY <1>3, <1>4, <1>6
    <3>2. i - 1 \in 1..Len(chain) /\ (i - 1) + 1 = i
      BY <1>1, <3>1
    <3>3. longer[i] = chain[i - 1]
      BY <1>3, <3>2
    <3> QED
      BY <3>1, <3>2, <3>3 DEF Matches
  <2>2. \A i \in Matches(n, chain) : i \in 1..Len(chain) /\ i + 1 \in Matches(n, longer)
    BY <1>1, <1>3 DEF Matches
  <2>3. CASE Matches(n, chain) = {}
    <3>1. Matches(n, longer) = {}
      BY <2>1, <2>3
    <3>2. Lookup(n, longer) = 0
      BY <3>1 DEF Lookup
    <3>3. Lookup(n, chain) = 0
      BY <2>3 DEF Lookup
    <3> QED
      BY <1>3, <1>6, <3>2, <3>3 DEF longer
  <2>4. CASE Matches(n, chain) # {}
    <3>1. Matches(n, chain) \in SUBSET Nat
      BY DEF Matches
    <3>2. PICK k \in Matches(n, chain) : \A j \in Matches(n, chain) : k <= j
      BY <2>4, <3>1, LeastIndex
    <3>3. k \in 1..Len(chain) /\ k + 1 \in Matches(n, longer)
      BY <2>2
    <3>4. \A j \in Matches(n, longer) : k + 1 <= j
      <4> SUFFICES ASSUME NEW j \in Matches(n, longer)
                   PROVE  k + 1 <= j
        OBVIOUS
      <4>1. j \in 1..(Len(chain) + 1) /\ k <= j - 1
        BY <1>4, <2>1, <3>2
      <4> QED
        BY <1>1, <3>3, <4>1
    <3>5. Lookup(n, longer) = longer[k + 1].filesize
      BY <1>3, <3>3, <3>4, LookupFirst
    <3>6. Lookup(n, chain) = chain[k].filesize
      BY <3>2, LookupFirst
    <3> QED
      BY <1>3, <1>6, <3>3, <3>5, <3>6 DEF longer
  <2> QED
    BY <2>3, <2>4
<1> QED
  BY <1>3, <1>5, <1>6 DEF longer
-----------------------------------------------------------------------------
(***************************************************************************)
(* Types.                                                                  *)
(***************************************************************************)
LEMMA WholeType ==
  ASSUME NEW l \in Seq([name : Names, size : Nat]), NEW k \in 0..Len(l)
  PROVE  Whole(SubSeq(l, 1, k)) \in Seq(Line)
<1> DEFINE s == SubSeq(l, 1, k)
<1>1. s \in Seq([name : Names, size : Nat])
  BY CutType
<1> HIDE DEF s
<1>2. Len(s) \in Nat
  BY <1>1, LenProperties
<1>3. ASSUME NEW i \in 1..Len(s)
      PROVE  [name |-> s[i].name, size |-> s[i].size, whole |-> TRUE] \in Line
  <2>1. s[i] \in [name : Names, size : Nat]
    BY <1>1, <1>3, ElementOfSeq
  <2> QED
    BY <2>1 DEF Line
<1>4. [i \in 1..Len(s) |-> [name |-> s[i].name, size |-> s[i].size, whole |-> TRUE]] \in Seq(Line)
  BY <1>2, <1>3
<1> QED
  BY <1>4 DEF Whole, s

LEMMA ArrivedType ==
  ASSUME NEW l \in Listings
  PROVE  Arrived(l) \subseteq Seq(Line)
<1>1. l \in Seq([name : Names, size : Nat])
  BY HashAssumption
<1>2. Len(l) \in Nat
  BY <1>1, LenProperties
<1>3. \A k \in 0..Len(l) : Whole(SubSeq(l, 1, k)) \in Seq(Line)
  BY <1>1, WholeType
<1> DEFINE piece == {[name |-> n, size |-> 0, whole |-> FALSE] : n \in Names}
<1>4. ASSUME NEW c \in piece
      PROVE  c \in Line
  <2>1. PICK n \in Names : c = [name |-> n, size |-> 0, whole |-> FALSE]
    OBVIOUS
  <2> QED
    BY <2>1 DEF Line
<1> HIDE DEF piece
<1>5. ASSUME NEW k \in 0..(Len(l) - 1), NEW c \in piece
      PROVE  Append(Whole(SubSeq(l, 1, k)), c) \in Seq(Line)
  <2>1. k \in 0..Len(l)
    BY <1>2
  <2>2. Whole(SubSeq(l, 1, k)) \in Seq(Line)
    BY <1>3, <2>1
  <2> QED
    BY <1>4, <2>2, AppendProperties
<1>6. Arrived(l) = {Whole(SubSeq(l, 1, k)) : k \in 0..Len(l)}
        \cup UNION {{Append(Whole(SubSeq(l, 1, k)), c) : c \in piece} : k \in 0..(Len(l) - 1)}
  BY DEF Arrived, piece
<1>7. ASSUME NEW x \in Arrived(l)
      PROVE  x \in Seq(Line)
  <2>1. CASE x \in {Whole(SubSeq(l, 1, k)) : k \in 0..Len(l)}
    BY <1>3, <2>1
  <2>2. CASE x \in UNION {{Append(Whole(SubSeq(l, 1, k)), c) : c \in piece} : k \in 0..(Len(l) - 1)}
    <3>1. PICK k \in 0..(Len(l) - 1) : x \in {Append(Whole(SubSeq(l, 1, k)), c) : c \in piece}
      BY <2>2, Zenon
    <3> QED
      BY <1>5, <3>1
  <2> QED
    BY <1>6, <1>7, <2>1, <2>2
<1> QED
  BY <1>7

\* The node insert makes, and the table it leaves.
LEMMA InsertNode ==
  ASSUME TypeOK, token < Len(file_info)
  PROVE  LET line == file_info[token + 1]
         IN  /\ line \in Line
             /\ FirstWord[line.name] \in Names
             /\ \A size \in Sizes(line) :
                  [filename |-> FirstWord[line.name], filesize |-> size] \in Node
<1> DEFINE line == file_info[token + 1]
<1>1. file_info \in Seq(Line) /\ token + 1 \in 1..Len(file_info)
  BY DEF TypeOK
<1>2. line \in Line
  BY <1>1, ElementOfSeq
<1> HIDE DEF line
<1>3. line.name \in Names /\ line.size \in Nat
  BY <1>2 DEF Line
<1>4. FirstWord[line.name] \in Names
  BY <1>3, HashAssumption
<1>5. \A held \in Held : Scanned(held, line.size) \in 0..(Word - 1)
  BY <1>3, ScannedHalves, HashAssumption
<1>6. Sizes(line) \subseteq 0..(Word - 1)
  <2>1. Held \subseteq 0..(Word - 1)
    BY HashAssumption
  <2>2. {Scanned(held, line.size) : held \in Held} \subseteq 0..(Word - 1)
    BY <1>5
  <2> QED
    BY <2>1, <2>2 DEF Sizes
<1>7. \A size \in Sizes(line) : [filename |-> FirstWord[line.name], filesize |-> size] \in Node
  BY <1>4, <1>6 DEF Node
<1> QED
  BY <1>2, <1>4, <1>7 DEF line

\* insert, in terms of the size every name has before and after.
LEMMA InsertLookup ==
  ASSUME TypeOK, insert
  PROVE  /\ hashmap' \in [Slots -> Seq(Node)]
         /\ \E size \in Sizes(file_info[token + 1]) :
              \A n \in Names :
                get_filesize(n)' = IF n = FirstWord[file_info[token + 1].name]
                                   THEN size ELSE get_filesize(n)
<1> DEFINE line == file_info[token + 1]
           name == FirstWord[line.name]
           slot == hash_function(name)
<1>1. token < Len(file_info)
  BY DEF insert
<1>2. /\ name \in Names
      /\ \A size \in Sizes(line) : [filename |-> name, filesize |-> size] \in Node
  BY <1>1, InsertNode
<1>3. slot \in Slots
  BY <1>2, HashType
<1>4. PICK size \in Sizes(line) :
        hashmap' = [hashmap EXCEPT ![slot] =
                      AtHead([filename |-> name, filesize |-> size], hashmap[slot])]
  BY DEF insert
<1> DEFINE node == [filename |-> name, filesize |-> size]
<1>5. node \in Node /\ node.filename = name /\ node.filesize = size
  BY <1>2
<1> HIDE DEF node, name, slot, line
<1>6. hashmap \in [Slots -> Seq(Node)]
  BY DEF TypeOK
<1>7. hashmap' = [hashmap EXCEPT ![slot] = AtHead(node, hashmap[slot])]
  BY <1>4 DEF node, name, slot
<1>8. AtHead(node, hashmap[slot]) \in Seq(Node)
  BY <1>3, <1>5, <1>6, LookupAtHead
<1>9. hashmap' \in [Slots -> Seq(Node)]
  BY <1>6, <1>7, <1>8
<1>10. ASSUME NEW n \in Names
       PROVE  get_filesize(n)' = IF n = name THEN size ELSE get_filesize(n)
  <2>1. hash_function(n) \in Slots
    BY HashType
  <2>2. /\ get_filesize(n) = Lookup(n, hashmap[hash_function(n)])
        /\ get_filesize(n)' = Lookup(n, hashmap'[hash_function(n)])
    BY FilesizeIsLookup
  <2>3. CASE hash_function(n) = slot
    <3>1. hashmap'[slot] = AtHead(node, hashmap[slot])
      BY <1>3, <1>6, <1>7
    <3>2. Lookup(n, AtHead(node, hashmap[slot])) =
            IF node.filename = n THEN node.filesize ELSE Lookup(n, hashmap[slot])
      BY <1>3, <1>5, <1>6, LookupAtHead
    <3> QED
      BY <1>5, <2>2, <2>3, <3>1, <3>2
  <2>4. CASE hash_function(n) # slot
    <3>1. n # name
      BY <2>4 DEF slot
    <3>2. hashmap'[hash_function(n)] = hashmap[hash_function(n)]
      BY <1>6, <1>7, <2>1, <2>4
    <3> QED
      BY <2>2, <3>1, <3>2
  <2> QED
    BY <2>3, <2>4
<1> QED
  BY <1>9, <1>10 DEF name, line

LEMMA MapTypeStep ==
  ASSUME TypeOK, [Next]_vars
  PROVE  TypeOK'
<1>1. CASE connect
  <2>1. PICK l \in Listings : file_info' \in Arrived(l)
    BY <1>1 DEF connect
  <2>2. file_info' \in Seq(Line)
    BY <2>1, ArrivedType
  <2>3. Len(file_info') \in Nat
    BY <2>2, LenProperties
  <2> QED
    BY <1>1, <2>2, <2>3 DEF connect, Restart, TypeOK
<1>2. CASE insert
  <2>1. hashmap' \in [Slots -> Seq(Node)]
    BY <1>2, InsertLookup
  <2>2. token + 1 \in 0..Len(file_info)
    BY <1>2 DEF insert, TypeOK
  <2> QED
    BY <1>2, <2>1, <2>2 DEF insert, TypeOK
<1>3. CASE connectFails \/ mallocFails \/ parsed \/ leave
  BY <1>3 DEF connectFails, mallocFails, parsed, leave, TypeOK
<1>4. CASE UNCHANGED vars
  BY <1>4 DEF vars, TypeOK
<1> QED
  BY <1>1, <1>2, <1>3, <1>4 DEF Next

LEMMA MapTypeInit == Init => TypeOK
  BY DEF Init, TypeOK

(***************************************************************************)
(* For any table, any names and any width of size_t, hash_function never   *)
(* leaves the table whatever the sign of the characters, and strtok never  *)
(* passes the last line (main, insert, hash_function).                     *)
(***************************************************************************)
THEOREM MapTypes == Spec => []TypeOK
  BY MapTypeInit, MapTypeStep, PTL DEF Spec
-----------------------------------------------------------------------------
(***************************************************************************)
(* Sizes.                                                                  *)
(***************************************************************************)

\* A step that leaves the table alone changes no size.
LEMMA SameSizes ==
  ASSUME hashmap' = hashmap
  PROVE  \A n \in Names : get_filesize(n)' = get_filesize(n)
  BY FilesizeIsLookup

LEMMA KeepStep ==
  ASSUME TypeOK, [Next]_vars
  PROVE  \A n \in Names :
           \/ get_filesize(n)' = get_filesize(n)
           \/ pc = "parse" /\ n = FirstWord[file_info[token + 1].name]
<1>1. CASE insert
  <2>1. pc = "parse"
    BY <1>1 DEF insert
  <2> QED
    BY <1>1, <2>1, InsertLookup
<1>2. CASE connect \/ connectFails \/ mallocFails \/ parsed \/ leave \/ UNCHANGED vars
  <2>1. hashmap' = hashmap
    BY <1>2 DEF connect, connectFails, mallocFails, parsed, leave, vars
  <2> QED
    BY <2>1, SameSizes
<1> QED
  BY <1>1, <1>2 DEF Next

(***************************************************************************)
(* For any table, any names that share an index and any number of hosts:   *)
(* no step changes the size of a name but the one it inserts (insert and   *)
(* get_filesize).                                                          *)
(***************************************************************************)
THEOREM KeepTheorem == Spec => OthersKeepSize
<1>1. TypeOK /\ [Next]_vars =>
        [\A n \in Names :
           \/ get_filesize(n)' = get_filesize(n)
           \/ pc = "parse" /\ n = FirstWord[file_info[token + 1].name]]_vars
  BY KeepStep
<1> QED
  BY <1>1, MapTypes, PTL DEF Spec, OthersKeepSize

\* While the listing is read, ListedSizeWins for the lines strtok has passed.
Wins(m) ==
  \A i \in 1..m :
    LET line == file_info[i]
    IN  (/\ line.whole /\ FirstWord[line.name] = line.name
         /\ \A j \in (i + 1)..m : FirstWord[file_info[j].name] # line.name)
        => Low(get_filesize(line.name)) = Low(line.size)

WinsInv ==
  /\ pc \in {"parse", "download"} => Wins(token)
  /\ pc = "download" => token = Len(file_info)

LEMMA WinsStep ==
  ASSUME TypeOK, WinsInv, [Next]_vars
  PROVE  WinsInv'
<1>1. CASE insert
  <2>1. /\ pc = "parse" /\ pc' = "parse" /\ token < Len(file_info)
        /\ token' = token + 1 /\ file_info' = file_info
    BY <1>1 DEF insert
  <2>2. file_info \in Seq(Line) /\ token \in Nat /\ Len(file_info) \in Nat
    BY DEF TypeOK
  <2>3. \A i \in 1..(token + 1) : file_info[i] \in Line /\ file_info[i].name \in Names
    <3> SUFFICES ASSUME NEW i \in 1..(token + 1)
                 PROVE  file_info[i] \in Line /\ file_info[i].name \in Names
      OBVIOUS
    <3>1. i \in 1..Len(file_info)
      BY <2>1, <2>2
    <3>2. file_info[i] \in Line
      BY <2>2, <3>1, ElementOfSeq
    <3> QED
      BY <3>2 DEF Line
  <2>4. PICK size \in Sizes(file_info[token + 1]) :
          \A n \in Names : get_filesize(n)' = IF n = FirstWord[file_info[token + 1].name]
                                              THEN size ELSE get_filesize(n)
    BY <1>1, InsertLookup
  <2>5. ASSUME NEW i \in 1..(token + 1),
               file_info[i].whole, FirstWord[file_info[i].name] = file_info[i].name,
               \A j \in (i + 1)..(token + 1) :
                 FirstWord[file_info[j].name] # file_info[i].name
        PROVE  Low(get_filesize(file_info[i].name)') = Low(file_info[i].size)
    <3> DEFINE name == file_info[i].name
    <3>1. name \in Names
      BY <2>3
    <3>2. get_filesize(name)' = IF name = FirstWord[file_info[token + 1].name]
                                THEN size ELSE get_filesize(name)
      BY <2>1, <2>4, <3>1
    <3>3. CASE i = token + 1
      <4>1. size \in {Scanned(held, file_info[i].size) : held \in Held}
        BY <2>4, <2>5, <3>3 DEF Sizes
      <4>2. PICK held \in Held : size = Scanned(held, file_info[i].size)
        BY <4>1
      <4>3. held \in 0..(Word - 1) /\ file_info[i].size \in Nat
        BY <2>3, HashAssumption DEF Line
      <4>4. Low(size) = Low(file_info[i].size)
        BY <4>2, <4>3, ScannedHalves
      <4>5. name = FirstWord[file_info[token + 1].name]
        BY <2>5, <3>3
      <4> QED
        BY <3>2, <4>4, <4>5
    <3>4. CASE i # token + 1
      <4>1. i \in 1..token /\ token + 1 \in (i + 1)..(token + 1)
        BY <2>2, <3>4
      <4>2. name # FirstWord[file_info[token + 1].name]
        BY <2>5, <4>1
      <4>3. \A j \in (i + 1)..token : j \in (i + 1)..(token + 1)
        BY <2>2, <4>1
      <4>4. Wins(token)
        BY <2>1 DEF WinsInv
      <4>5. Low(get_filesize(name)) = Low(file_info[i].size)
        BY <2>5, <4>1, <4>3, <4>4 DEF Wins
      <4> QED
        BY <3>2, <4>2, <4>5
    <3> QED
      BY <3>3, <3>4
  <2>6. Wins(token)'
    BY <2>1, <2>5 DEF Wins, Low
  <2> QED
    BY <2>1, <2>6 DEF WinsInv
<1>2. CASE connect
  <2>1. pc' = "parse" /\ token' = 0
    BY <1>2 DEF connect, Restart
  <2> QED
    BY <2>1 DEF WinsInv, Wins
<1>3. CASE connectFails \/ mallocFails \/ leave
  BY <1>3 DEF connectFails, mallocFails, leave, WinsInv
<1>4. CASE parsed \/ UNCHANGED vars
  <2>1. /\ file_info' = file_info /\ token' = token /\ hashmap' = hashmap
        /\ pc' \in {"parse", "download"} => pc \in {"parse", "download"}
        /\ pc' = "download" => token = Len(file_info)
    BY <1>4 DEF parsed, vars, WinsInv
  <2>2. file_info \in Seq(Line) /\ token \in 0..Len(file_info) /\ Len(file_info) \in Nat
    BY DEF TypeOK
  <2>3. \A i \in 1..token : file_info[i].name \in Names
    <3> SUFFICES ASSUME NEW i \in 1..token
                 PROVE  file_info[i].name \in Names
      OBVIOUS
    <3>1. i \in 1..Len(file_info)
      BY <2>2
    <3>2. file_info[i] \in Line
      BY <2>2, <3>1, ElementOfSeq
    <3> QED
      BY <3>2 DEF Line
  <2>4. \A n \in Names : get_filesize(n)' = get_filesize(n)
    BY <2>1, SameSizes
  <2>5. Wins(token) => Wins(token)'
    BY <2>1, <2>3, <2>4 DEF Wins, Low
  <2> QED
    BY <2>1, <2>5 DEF WinsInv
<1> QED
  BY <1>1, <1>2, <1>3, <1>4 DEF Next

(***************************************************************************)
(* For any table, names, listings and number of hosts: at the prompt of a  *)
(* session get_filesize returns for a file of this host the size this host *)
(* listed, modulo 2^32, however many hosts listed the name before, however *)
(* recv cut the listing and whatever an uninitialised filesize held,       *)
(* unless a later line repeats the name (main, insert).                    *)
(***************************************************************************)
THEOREM ListedSizeTheorem == Spec => []ListedSizeWins
<1>1. Init => TypeOK /\ WinsInv
  BY MapTypeInit DEF Init, WinsInv
<1>2. TypeOK /\ WinsInv /\ [Next]_vars => (TypeOK /\ WinsInv)'
  BY MapTypeStep, WinsStep
<1>3. TypeOK /\ WinsInv => ListedSizeWins
  BY DEF WinsInv, Wins, ListedSizeWins
<1> QED
  BY <1>1, <1>2, <1>3, PTL DEF Spec
=============================================================================
