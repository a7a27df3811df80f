--------------------------- MODULE SessionProofs ---------------------------
(***************************************************************************)
(* Theorems about a session in any environment: types, and the size of     *)
(* what the client reports as downloaded.                                  *)
(***************************************************************************)
EXTENDS Session, DataLemmas

-----------------------------------------------------------------------------
(***************************************************************************)
(* Bytes, the upload directory and the client's list.                      *)
(***************************************************************************)

\* A piece of a file or of the message is a sequence of b - a bytes.
LEMMA PartType ==
  ASSUME NEW kind \in {"data", "msg"}, NEW n \in Names \cup {NoName},
         NEW a \in Nat, NEW b \in Nat, a <= b
  PROVE  /\ Part(kind, n, a, b) \in Seq(Byte)
         /\ Len(Part(kind, n, a, b)) = b - a
<1>1. b - a \in Nat
  OBVIOUS
<1>2. \A i \in 1..(b - a) : [kind |-> kind, name |-> n, at |-> a + i] \in Byte
  BY DEF Byte
<1> QED
  BY <1>1, <1>2 DEF Part

LEMMA DataType ==
  ASSUME NEW n \in Names \cup {NoName}, NEW a \in Nat, NEW b \in Nat, a <= b
  PROVE  /\ Data(n, a, b) \in Seq(Byte)
         /\ Len(Data(n, a, b)) = b - a
  BY PartType DEF Data

LEMMA MsgType ==
  ASSUME NEW a \in Nat, NEW b \in Nat, a <= b
  PROVE  /\ MsgPart(a, b) \in Seq(Byte)
         /\ Len(MsgPart(a, b)) = b - a
  BY PartType DEF MsgPart

\* A piece cut out of a piece, and two pieces put together.
LEMMA PartCut ==
  ASSUME NEW kind \in {"data", "msg"}, NEW n \in Names \cup {NoName},
         NEW a \in Nat, NEW b \in Nat, a <= b, NEW k \in 0..(b - a)
  PROVE  /\ SubSeq(Part(kind, n, a, b), 1, k) = Part(kind, n, a, a + k)
         /\ SubSeq(Part(kind, n, a, b), k + 1, b - a) = Part(kind, n, a + k, b)
<1> DEFINE s == Part(kind, n, a, b)
           p == Part(kind, n, a, a + k)
           q == Part(kind, n, a + k, b)
           Byt(i) == [kind |-> kind, name |-> n, at |-> i]
<1>1. /\ s \in Seq(Byte) /\ Len(s) = b - a
      /\ \A i \in 1..(b - a) : s[i] = Byt(a + i)
  <2>1. \A i \in 1..(b - a) : s[i] = Byt(a + i)
    BY DEF Part
  <2> QED
    BY <2>1, PartType
<1>2. /\ p \in Seq(Byte) /\ Len(p) = k
      /\ \A i \in 1..k : p[i] = Byt(a + i)
  <2>1. a + k \in Nat /\ a <= a + k /\ (a + k) - a = k
    OBVIOUS
  <2>2. \A i \in 1..k : p[i] = Byt(a + i)
    BY <2>1 DEF Part
  <2> QED
    BY <2>1, <2>2, PartType
<1>3. /\ q \in Seq(Byte) /\ Len(q) = (b - a) - k
      /\ \A i \in 1..((b - a) - k) : q[i] = Byt((a + k) + i)
  <2>1. a + k \in Nat /\ a + k <= b /\ b - (a + k) = (b - a) - k
    OBVIOUS
  <2>2. \A i \in 1..((b - a) - k) : q[i] = Byt((a + k) + i)
    BY <2>1 DEF Part
  <2> QED
    BY <2>1, <2>2, PartType
<1> HIDE DEF s, p, q, Byt
<1>4. /\ SubSeq(s, 1, k) \in Seq(Byte)
      /\ Len(SubSeq(s, 1, k)) = k
      /\ \A i \in 1..k : SubSeq(s, 1, k)[i] = s[i]
      /\ SubSeq(s, k + 1, Len(s)) \in Seq(Byte)
      /\ Len(SubSeq(s, k + 1, Len(s))) = Len(s) - k
      /\ \A i \in 1..(Len(s) - k) : SubSeq(s, k + 1, Len(s))[i] = s[k + i]
  BY <1>1, CutType
<1>5. SubSeq(s, 1, k) = p
  <2>1. \A i \in 1..k : SubSeq(s, 1, k)[i] = p[i]
    BY <1>1, <1>2, <1>4
  <2> QED
    BY <2>1, <1>2, <1>4, SeqEqual
<1>6. SubSeq(s, k + 1, Len(s)) = q
  <2>1. \A i \in 1..((b - a) - k) : s[k + i] = q[i]
    <3> TAKE i \in 1..((b - a) - k)
    <3>1. k + i \in 1..(b - a) /\ a + (k + i) = (a + k) + i
      OBVIOUS
    <3> QED
      BY <3>1, <1>1, <1>3
  <2> QED
    BY <2>1, <1>1, <1>3, <1>4, SeqEqual
<1> QED
  BY <1>1, <1>5, <1>6 DEF s, p, q

LEMMA PartJoin ==
  ASSUME NEW kind \in {"data", "msg"}, NEW n \in Names \cup {NoName},
         NEW a \in Nat, NEW b \in Nat, NEW c \in Nat, a <= b, b <= c
  PROVE  Part(kind, n, a, b) \o Part(kind, n, b, c) = Part(kind, n, a, c)
<1> DEFINE s == Part(kind, n, a, c)
           p == Part(kind, n, a, b)
           q == Part(kind, n, b, c)
           Byt(i) == [kind |-> kind, name |-> n, at |-> i]
<1>0. a <= c
  OBVIOUS
<1>1. /\ s \in Seq(Byte) /\ Len(s) = c - a
      /\ \A i \in 1..(c - a) : s[i] = Byt(a + i)
  <2>1. \A i \in 1..(c - a) : s[i] = Byt(a + i)
    BY DEF Part
  <2>2. s \in Seq(Byte) /\ Len(s) = c - a
    BY <1>0, PartType
  <2> QED
    BY <2>1, <2>2
<1>2. /\ p \in Seq(Byte) /\ Len(p) = b - a
      /\ \A i \in 1..(b - a) : p[i] = Byt(a + i)
  <2>1. \A i \in 1..(b - a) : p[i] = Byt(a + i)
    BY DEF Part
  <2>2. p \in Seq(Byte) /\ Len(p) = b - a
    BY PartType
  <2> QED
    BY <2>1, <2>2
<1>3. /\ q \in Seq(Byte) /\ Len(q) = c - b
      /\ \A i \in 1..(c - b) : q[i] = Byt(b + i)
  <2>1. \A i \in 1..(c - b) : q[i] = Byt(b + i)
    BY DEF Part
  <2>2. q \in Seq(Byte) /\ Len(q) = c - b
    BY PartType
  <2> QED
    BY <2>1, <2>2
<1> HIDE DEF s, p, q, Byt
<1>4. /\ p \o q \in Seq(Byte)
      /\ Len(p \o q) = Len(p) + Len(q)
      /\ \A i \in 1..(Len(p) + Len(q)) :
           (p \o q)[i] = IF i <= Len(p) THEN p[i] ELSE q[i - Len(p)]
  BY <1>2, <1>3, ConcatProperties
<1>5. Len(p \o q) = c - a
  BY <1>2, <1>3, <1>4
<1>6. \A i \in 1..(c - a) : (p \o q)[i] = s[i]
  <2> TAKE i \in 1..(c - a)
  <2>1. CASE i <= b - a
    BY <2>1, <1>1, <1>2, <1>3, <1>4
  <2>2. CASE ~ (i <= b - a)
    <3>1. i - (b - a) \in 1..(c - b) /\ b + (i - (b - a)) = a + i
      BY <2>2
    <3>2. (p \o q)[i] = q[i - (b - a)]
      BY <2>2, <1>2, <1>3, <1>4
    <3> QED
      BY <3>1, <3>2, <1>1, <1>3
  <2> QED
    BY <2>1, <2>2
<1>7. p \o q = s
  BY <1>1, <1>4, <1>5, <1>6, SeqEqual
<1> QED
  BY <1>7 DEF s, p, q

\* A line of the listing names an entry and fits a size in 32 bits.
LEMMA ListingType ==
  ASSUME NEW d \in Seq(Entry)
  PROVE  /\ Listing(d) \in Seq(Byte)
         /\ Len(Listing(d)) = Len(d)
         /\ \A i \in 1..Len(d) : /\ Listing(d)[i].name \in Names
                                 /\ Listing(d)[i].at \in 0..(Modulus - 1)
<1>1. Len(d) \in Nat
  BY LenProperties
<1>2. ASSUME NEW i \in 1..Len(d)
      PROVE  d[i].name \in Names /\ d[i].size % Modulus \in 0..(Modulus - 1)
  <2>1. d[i] \in Entry
    BY <1>2, ElementOfSeq
  <2>2. d[i].name \in Names /\ d[i].size \in Nat
    BY <2>1 DEF Entry
  <2>3. Modulus \in Nat \ {0}
    BY BufferAssumption
  <2>4. d[i].size % Modulus \in 0..(Modulus - 1)
    BY <2>2, <2>3
  <2> QED
    BY <2>2, <2>4
<1>3. \A i \in 1..Len(d) :
        [kind |-> "line", name |-> d[i].name, at |-> d[i].size % Modulus] \in Byte
  BY <1>2, BufferAssumption DEF Byte
<1>4. Listing(d) \in Seq(Byte) /\ Len(Listing(d)) = Len(d)
  BY <1>1, <1>3 DEF Listing
<1> QED
  BY <1>2, <1>4 DEF Listing

\* A file the directory has is one of its entries.
LEMMA EntryType ==
  ASSUME dir \in Seq(Entry), NEW n, Present(dir, n)
  PROVE  /\ EntryOf(dir, n) \in Entry
         /\ EntryOf(dir, n).name = n
         /\ EntryOf(dir, n).size \in Nat
<1>1. PICK i \in 1..Len(dir) : EntryOf(dir, n) = dir[i] /\ dir[i].name = n
  BY DEF Present, EntryOf
<1>2. dir[i] \in Entry
  BY <1>1, ElementOfSeq
<1> QED
  BY <1>1, <1>2 DEF Entry

\* fread returns at most a buffer, and never reads past the end of the file.
LEMMA NextReadType ==
  ASSUME dir \in Seq(Entry), Present(dir, file), offset \in Nat
  PROVE  /\ NextRead \in Int
         /\ offset + NextRead <= EntryOf(dir, file).size
         /\ NextRead <= 0 => EntryOf(dir, file).size <= offset
<1>1. EntryOf(dir, file).size \in Nat
  BY EntryType
<1> QED
  BY <1>1, BufferAssumption DEF NextRead

\* get_filesize returns the size in a node of the list, or 0.
LEMMA FirstNode ==
  ASSUME NEW list \in Seq(Node), NEW n,
         \E i \in 1..Len(list) : list[i].filename = n
  PROVE  \E i \in 1..Len(list) :
           /\ list[i].filename = n
           /\ \A j \in 1..(i - 1) : list[j].filename # n
           /\ get_filesize(n, list) = list[i].filesize
<1> DEFINE T == {i \in 1..Len(list) : list[i].filename = n}
           First(i) == list[i].filename = n /\ \A j \in 1..(i - 1) : ~ (list[j].filename = n)
<1>1. Len(list) \in Nat
  BY LenProperties
<1>2. T \in SUBSET Nat /\ T # {}
  BY <1>1
<1>3. PICK x \in T : \A y \in T : x <= y
  <2> HIDE DEF T
  <2> QED
    BY <1>2, LeastIndex
<1>4. x \in 1..Len(list) /\ First(x)
  BY <1>1, <1>3
<1>5. get_filesize(n, list) = list[CHOOSE i \in 1..Len(list) : First(i)].filesize
  BY DEF get_filesize
<1>6. \E i \in 1..Len(list) : First(i)
  BY <1>4
<1>7. PICK c \in 1..Len(list) : c = (CHOOSE i \in 1..Len(list) : First(i)) /\ First(c)
  <2> HIDE DEF First
  <2> QED
    BY <1>6
<1> QED
  BY <1>5, <1>7

LEMMA FilesizeType ==
  ASSUME NEW list \in Seq(Node), NEW n
  PROVE  get_filesize(n, list) \in 0..(Modulus - 1)
<1>1. CASE \E i \in 1..Len(list) : list[i].filename = n
  <2>1. PICK i \in 1..Len(list) : get_filesize(n, list) = list[i].filesize
    BY <1>1, FirstNode
  <2>2. list[i] \in Node
    BY ElementOfSeq
  <2> QED
    BY <2>1, <2>2 DEF Node
<1>2. CASE ~ \E i \in 1..Len(list) : list[i].filename = n
  <2>1. get_filesize(n, list) = 0
    BY <1>2 DEF get_filesize
  <2> QED
    BY <2>1, BufferAssumption
<1> QED
  BY <1>1, <1>2

\* sscanf and appendNode make a node of every line.
LEMMA ParseType ==
  ASSUME NEW line, line.name \in Names, line.at \in 0..(Modulus - 1),
         NEW held \in 0..(Modulus - 1)
  PROVE  ParseLine(line, held) \in Node
  BY NamesAssumption DEF ParseLine, Node

\* total_bytes_recv has 32 bits.
LEMMA CountType ==
  ASSUME total \in 0..(Modulus - 1), NEW k \in Int
  PROVE  Count(k) \in 0..(Modulus - 1)
<1>1. total + k \in Int
  BY BufferAssumption
<1> QED
  BY <1>1, ModType, BufferAssumption DEF Count
-----------------------------------------------------------------------------
(***************************************************************************)
(* The types are not inductive by themselves.  A line becomes a node, so   *)
(* that before the client has read the listing nothing else may be on the  *)
(* stream; the host reads the file it opened, which is still there; and    *)
(* the client writes to the file the user named.                           *)
(***************************************************************************)
ListingOnly ==
  cpc \in {"menu", "list"} =>
    /\ c2s = <<>>
    /\ spc # "send"
    /\ \A i \in 1..Len(s2c) : s2c[i].name \in Names /\ s2c[i].at \in 0..(Modulus - 1)

TypeInv ==
  /\ TypeOK
  /\ ListingOnly
  /\ cpc \in {"first", "rest"} => want \in Names
  /\ spc = "send" => Present(dir, file)
-----------------------------------------------------------------------------
LEMMA TypeInit == Init => TypeInv
<1> SUFFICES ASSUME Init
             PROVE  TypeInv
  OBVIOUS
<1> USE DEF Init
<1>1. TypeOK
  BY BufferAssumption, DirAssumption DEF TypeOK
<1>2. ListingOnly
  BY DEF ListingOnly
<1> QED
  BY <1>1, <1>2 DEF TypeInv

\* Steps that leave the streams, the list and the counters alone.
LEMMA TypeQuiet ==
  ASSUME TypeInv,
         \/ Connect \/ ConnectFails \/ NoListing \/ Spin \/ Exit \/ NoReply
         \/ Accept \/ AcceptFails \/ EndOfFile \/ SendFails \/ Disconnect \/ ClientDies
  PROVE  TypeInv'
<1> USE DEF TypeInv, TypeOK, ListingOnly, Present, clientVars, serverVars, dirVars
<1>1. CASE Connect
  BY <1>1 DEF Connect
<1>2. CASE ConnectFails
  BY <1>2 DEF ConnectFails
<1>3. CASE NoListing
  BY <1>3 DEF NoListing
<1>4. CASE Spin
  BY <1>4 DEF Spin
<1>5. CASE Exit
  BY <1>5 DEF Exit
<1>6. CASE NoReply
  <2>0. -1 \in Int /\ total \in 0..(Modulus - 1)
    OBVIOUS
  <2>1. Count(-1) \in 0..(Modulus - 1)
    BY <2>0, CountType
  <2>2. total' \in 0..(Modulus - 1)
    BY <1>6, <2>0, <2>1 DEF NoReply
  <2> QED
    BY <1>6, <2>2 DEF NoReply
<1>7. CASE Accept
  BY <1>7 DEF Accept
<1>8. CASE AcceptFails
  BY <1>8 DEF AcceptFails
<1>9. CASE EndOfFile
  BY <1>9 DEF EndOfFile
<1>10. CASE SendFails
  BY <1>10 DEF SendFails
<1>11. CASE Disconnect
  BY <1>11 DEF Disconnect
<1>12. CASE ClientDies
  BY <1>12 DEF ClientDies
<1> QED
  BY <1>1, <1>2, <1>3, <1>4, <1>5, <1>6, <1>7, <1>8, <1>9, <1>10, <1>11, <1>12

\* Reading the listing.
LEMMA TypeListing ==
  ASSUME TypeInv, recv_and_display_file_list
  PROVE  TypeInv'
<1> USE DEF TypeInv, TypeOK, recv_and_display_file_list
<1>0. PICK k \in 1..Len(s2c) : \E held \in [1..k -> 0..(Modulus - 1)] :
        /\ start' = start \o [i \in 1..k |-> ParseLine(s2c[i], held[i])]
        /\ s2c' = SubSeq(s2c, k + 1, Len(s2c))
  OBVIOUS
<1>1. PICK held \in [1..k -> 0..(Modulus - 1)] :
        /\ start' = start \o [i \in 1..k |-> ParseLine(s2c[i], held[i])]
        /\ s2c' = SubSeq(s2c, k + 1, Len(s2c))
  BY <1>0
<1>2. Len(s2c) \in Nat /\ k \in Nat /\ k \in 0..Len(s2c)
  BY LenProperties
<1>3. s2c' \in Seq(Byte)
  BY <1>1, <1>2, CutType
<1>4. \A i \in 1..k : ParseLine(s2c[i], held[i]) \in Node
  <2> TAKE i \in 1..k
  <2>1. s2c[i].name \in Names /\ s2c[i].at \in 0..(Modulus - 1)
    BY <1>2 DEF ListingOnly
  <2>2. held[i] \in 0..(Modulus - 1)
    OBVIOUS
  <2> QED
    BY <2>1, <2>2, ParseType
<1>5. [i \in 1..k |-> ParseLine(s2c[i], held[i])] \in Seq(Node)
  BY <1>2, <1>4
<1>6. start' \in Seq(Node)
  BY <1>1, <1>5, ConcatProperties
<1> QED
  BY <1>3, <1>6 DEF ListingOnly, Present, clientVars, serverVars, dirVars

LEMMA TypeRequest ==
  ASSUME TypeInv, NEW n \in Typed, Request(n)
  PROVE  TypeInv'
<1> USE DEF TypeInv, TypeOK, Request
<1>1. n \in Names
  BY NamesAssumption
<1>2. c2s' \in Seq(Names)
  <2>1. Append(c2s, n) \in Seq(Names)
    BY <1>1, AppendProperties
  <2> QED
    BY <2>1
<1>3. total' \in 0..(Modulus - 1)
  BY BufferAssumption DEF ResetCount
<1> QED
  BY <1>1, <1>2, <1>3 DEF ListingOnly, Present, clientVars, serverVars, dirVars

\* What recv does to the stream.
LEMMA TypeReceive ==
  ASSUME TypeInv, NEW k \in 1..Len(s2c), Receive(k)
  PROVE  /\ s2c' \in Seq(Byte)
         /\ SubSeq(s2c, 1, k) \in Seq(Byte)
         /\ Count(k) \in 0..(Modulus - 1)
<1>1. s2c \in Seq(Byte) /\ total \in 0..(Modulus - 1)
  BY DEF TypeInv, TypeOK
<1>2. Len(s2c) \in Nat /\ k \in 0..Len(s2c) /\ k \in Int
  BY <1>1, LenProperties
<1> QED
  BY <1>1, <1>2, CutType, CountType DEF Receive

\* The answers that do not open a file.
LEMMA TypeReply ==
  ASSUME TypeInv, ReplyMissing \/ CreateFails
  PROVE  TypeInv'
<1>1. PICK k \in 1..Len(s2c) : Receive(k) /\ total' = Count(k)
  BY DEF ReplyMissing, CreateFails
<1>2. s2c' \in Seq(Byte) /\ total' \in 0..(Modulus - 1)
  BY <1>1, TypeReceive
<1> QED
  BY <1>2 DEF ReplyMissing, CreateFails, TypeInv, TypeOK, ListingOnly, Present,
              clientVars, serverVars, dirVars

\* The data of a file: the first bytes, the following ones, and an error.
LEMMA TypeFirstChunk ==
  ASSUME TypeInv, FirstChunk
  PROVE  TypeInv'
<1> USE DEF TypeInv, TypeOK
<1>1. PICK k \in 1..Len(s2c) :
        /\ Receive(k)
        /\ download' = [download EXCEPT ![want] = SubSeq(s2c, 1, k)]
        /\ total' = Count(k)
  BY DEF FirstChunk
<1>2. /\ s2c' \in Seq(Byte)
      /\ total' \in 0..(Modulus - 1)
      /\ SubSeq(s2c, 1, k) \in Seq(Byte)
  BY <1>1, TypeReceive
<1>3. want \in Names
  BY DEF FirstChunk
<1>4. download' \in [Names -> Seq(Byte)]
  BY <1>1, <1>2, <1>3
<1>5. filesize' \in 0..(Modulus - 1)
  BY FilesizeType DEF FirstChunk
<1>6. cpc' \in {"prompt", "rest"} /\ reported' \in SUBSET Names
  BY <1>3 DEF FirstChunk, CheckTotal
<1> QED
  BY <1>2, <1>3, <1>4, <1>5, <1>6
  DEF FirstChunk, ListingOnly, Present, clientVars, serverVars, dirVars

LEMMA TypeNextChunk ==
  ASSUME TypeInv, NextChunk
  PROVE  TypeInv'
<1> USE DEF TypeInv, TypeOK
<1>1. PICK k \in 1..Len(s2c) :
        /\ Receive(k)
        /\ download' = [download EXCEPT ![want] = @ \o SubSeq(s2c, 1, k)]
        /\ total' = Count(k)
  BY DEF NextChunk
<1>2. /\ s2c' \in Seq(Byte)
      /\ total' \in 0..(Modulus - 1)
      /\ SubSeq(s2c, 1, k) \in Seq(Byte)
  BY <1>1, TypeReceive
<1>3. want \in Names
  BY DEF NextChunk
<1>4. download[want] \o SubSeq(s2c, 1, k) \in Seq(Byte)
  BY <1>2, <1>3, ConcatProperties
<1>5. download' \in [Names -> Seq(Byte)]
  BY <1>1, <1>3, <1>4
<1>6. cpc' \in {"prompt", "rest"} /\ reported' \in SUBSET Names
  BY <1>3 DEF NextChunk, CheckTotal
<1> QED
  BY <1>2, <1>3, <1>5, <1>6
  DEF NextChunk, ListingOnly, Present, clientVars, serverVars, dirVars

LEMMA TypeRecvError ==
  ASSUME TypeInv, RecvError
  PROVE  TypeInv'
<1> USE DEF TypeInv, TypeOK
<1>1. want \in Names
  BY DEF RecvError
<1>2. CASE cpc' = "crashed" /\ clientEnd' = "closed" /\ UNCHANGED <<total, download, reported>>
  BY <1>2 DEF RecvError, ListingOnly, Present, clientVars, serverVars, dirVars
<1>3. ASSUME NEW written \in {<<>>, <<Junk>>},
             total' = Count(-1),
             download' = [download EXCEPT ![want] = @ \o written],
             CheckTotal(filesize, total'),
             UNCHANGED clientEnd
      PROVE  TypeInv'
  <2>1. total' \in 0..(Modulus - 1)
    <3>1. -1 \in Int /\ total \in 0..(Modulus - 1)
      OBVIOUS
    <3>2. Count(-1) \in 0..(Modulus - 1)
      BY <3>1, CountType
    <3> QED
      BY <1>3, <3>2
  <2>2. Junk \in Byte
    BY DEF Junk, Byte
  <2>3. written \in Seq(Byte)
    <3>1. <<>> \in Seq(Byte) /\ <<Junk>> \in Seq(Byte)
      BY <2>2
    <3> QED
      BY <3>1
  <2>4. download[want] \o written \in Seq(Byte)
    BY <1>1, <2>3, ConcatProperties
  <2>5. download' \in [Names -> Seq(Byte)]
    BY <1>1, <1>3, <2>4
  <2>6. cpc' \in {"prompt", "rest"} /\ reported' \in SUBSET Names
    BY <1>1, <1>3 DEF CheckTotal
  <2> QED
    BY <1>1, <1>3, <2>1, <2>5, <2>6
    DEF RecvError, ListingOnly, Present, clientVars, serverVars, dirVars
<1> QED
  BY <1>2, <1>3 DEF RecvError

\* The host's side of the connection.
LEMMA TypeSendList ==
  ASSUME TypeInv, send_file_list
  PROVE  TypeInv'
<1> USE DEF TypeInv, TypeOK
<1>1. /\ Listing(dir) \in Seq(Byte)
      /\ Len(Listing(dir)) = Len(dir)
      /\ \A i \in 1..Len(dir) : /\ Listing(dir)[i].name \in Names
                                /\ Listing(dir)[i].at \in 0..(Modulus - 1)
  BY ListingType
<1>2. /\ s2c' \in Seq(Byte)
      /\ Len(s2c') = Len(s2c) + Len(dir)
      /\ \A i \in 1..(Len(s2c) + Len(dir)) :
           s2c'[i] = IF i <= Len(s2c) THEN s2c[i] ELSE Listing(dir)[i - Len(s2c)]
  <2> DEFINE t == Listing(dir)
  <2>1. /\ t \in Seq(Byte) /\ Len(t) = Len(dir)
        /\ s2c \in Seq(Byte)
        /\ s2c' = s2c \o t
    BY <1>1 DEF send_file_list
  <2> HIDE DEF t
  <2>2. /\ s2c \o t \in Seq(Byte)
        /\ Len(s2c \o t) = Len(s2c) + Len(t)
        /\ \A i \in 1..(Len(s2c) + Len(t)) :
             (s2c \o t)[i] = IF i <= Len(s2c) THEN s2c[i] ELSE t[i - Len(s2c)]
    <3> HIDE DEF TypeInv, TypeOK
    <3> QED
      BY <2>1, ConcatProperties
  <2>3. /\ s2c' \in Seq(Byte)
        /\ Len(s2c') = Len(s2c) + Len(dir)
        /\ \A i \in 1..(Len(s2c) + Len(dir)) :
             s2c'[i] = IF i <= Len(s2c) THEN s2c[i] ELSE t[i - Len(s2c)]
    <3> HIDE DEF TypeInv, TypeOK
    <3> QED
      BY <2>1, <2>2, Zenon
  <2> QED
    BY <2>3 DEF t
<1>3. ListingOnly'
  <2> SUFFICES ASSUME cpc \in {"menu", "list"}, NEW i \in 1..Len(s2c')
               PROVE  s2c'[i].name \in Names /\ s2c'[i].at \in 0..(Modulus - 1)
    BY DEF ListingOnly, send_file_list
  <2>1. Len(s2c) \in Nat /\ Len(dir) \in Nat
    BY LenProperties
  <2>2. CASE i <= Len(s2c)
    <3>1. i \in 1..Len(s2c) /\ s2c'[i] = s2c[i]
      BY <1>2, <2>1, <2>2
    <3> QED
      BY <3>1 DEF ListingOnly
  <2>3. CASE ~ (i <= Len(s2c))
    <3>1. i - Len(s2c) \in 1..Len(dir) /\ s2c'[i] = Listing(dir)[i - Len(s2c)]
      BY <1>2, <2>1, <2>3
    <3> QED
      BY <3>1, <1>1
  <2> QED
    BY <2>2, <2>3
<1> QED
  BY <1>2, <1>3 DEF send_file_list, Present, clientVars, serverVars, dirVars

LEMMA TypeMakeList ==
  ASSUME TypeInv, create_file_list
  PROVE  TypeInv'
<1> USE DEF TypeInv, TypeOK
<1>1. \A i \in 1..Len(dir) : dir[i].name \in Names
  <2> TAKE i \in 1..Len(dir)
  <2>1. dir[i] \in Entry
    BY ElementOfSeq
  <2> QED
    BY <2>1 DEF Entry
<1>2. slist' \in SUBSET Names
  BY <1>1 DEF create_file_list
<1> QED
  BY <1>2 DEF create_file_list, ListingOnly, Present, clientVars, serverVars, dirVars

\* The three ways to treat a request.
LEMMA TypeHandle ==
  ASSUME TypeInv, SendMessage \/ OpenFile \/ OpenFails
  PROVE  TypeInv'
<1> USE DEF TypeInv, TypeOK
<1>1. PICK j \in 1..Len(c2s) : TakeRequest(j) /\ (OpenFile => CanOpen(dir, FileName(j)) /\ file' = FileName(j))
  BY DEF SendMessage, OpenFile, OpenFails
<1>2. Len(c2s) \in Nat /\ j \in 0..Len(c2s)
  BY LenProperties
<1>3. c2s' \in Seq(Names)
  BY <1>1, <1>2, CutType DEF TakeRequest
<1>4. c2s # <<>>
  BY <1>2
<1>5. FileName(j) \in Names \cup {NoName}
  BY <1>2, ElementOfSeq DEF FileName
<1>6. CASE SendMessage
  <2>1. Msg \in Seq(Byte)
    BY MsgType, BufferAssumption DEF Msg
  <2>2. s2c' \in Seq(Byte)
    BY <1>6, <2>1, ConcatProperties DEF SendMessage
  <2> QED
    BY <1>3, <1>4, <1>6, <2>2
    DEF SendMessage, ListingOnly, Present, clientVars, serverVars, dirVars
<1>7. CASE OpenFile
  BY <1>1, <1>3, <1>4, <1>5, <1>7
  DEF OpenFile, CanOpen, ListingOnly, Present, clientVars, dirVars
<1>8. CASE OpenFails
  BY <1>3, <1>4, <1>8 DEF OpenFails, ListingOnly, Present, clientVars, serverVars, dirVars
<1> QED
  BY <1>6, <1>7, <1>8

LEMMA TypeSendChunk ==
  ASSUME TypeInv, SendChunk
  PROVE  TypeInv'
<1> USE DEF TypeInv, TypeOK
<1>1. NextRead \in Nat
  BY NextReadType DEF SendChunk
<1>2. offset + NextRead \in Nat /\ offset <= offset + NextRead
  BY <1>1
<1>3. Data(file, offset, offset + NextRead) \in Seq(Byte)
  <2> HIDE DEF TypeInv
  <2>1. file \in Names \cup {NoName} /\ offset \in Nat
    BY DEF TypeInv
  <2> QED
    BY <1>2, <2>1, DataType
<1>4. s2c' \in Seq(Byte)
  BY <1>3, ConcatProperties DEF SendChunk
<1> QED
  BY <1>2, <1>4 DEF SendChunk, ListingOnly, Present, clientVars, dirVars

LEMMA TypeHostDies ==
  ASSUME TypeInv, NEW how \in {"fin", "rst"}, HostDies(how)
  PROVE  TypeInv'
  BY DEF TypeInv, TypeOK, HostDies, ListingOnly, Present, clientVars, serverVars, dirVars

\* A file that is open is not removed.
LEMMA TypeEdit ==
  ASSUME TypeInv, EditDir
  PROVE  TypeInv'
<1> USE DEF TypeInv, TypeOK
<1>0. Len(dir) \in Nat
  BY LenProperties
<1> DEFINE StillThere == Present(dir, file) => \E j \in 1..Len(dir') : dir'[j].name = file
<1>1. ASSUME NEW i \in 1..Len(dir), NEW s \in EditSizes, dir' = [dir EXCEPT ![i].size = s]
      PROVE  dir' \in Seq(Entry) /\ StillThere
  <2>1. dir[i] \in Entry /\ s \in Nat
    BY ElementOfSeq, EnvironmentAssumption
  <2>2. [dir[i] EXCEPT !.size = s] \in Entry
    BY <2>1 DEF Entry
  <2>3. dir' = [dir EXCEPT ![i] = [dir[i] EXCEPT !.size = s]]
    BY <1>1
  <2>4. dir' \in Seq(Entry) /\ Len(dir') = Len(dir)
    BY <2>2, <2>3, ExceptSeq
  <2>5. \A j \in 1..Len(dir) : dir'[j].name = dir[j].name
    BY <2>1, <2>3 DEF Entry
  <2> QED
    BY <2>4, <2>5 DEF Present
<1>2. ASSUME NEW i \in 1..Len(dir), dir' = RemoveAt(dir, i), spc = "send" => file # dir[i].name
      PROVE  dir' \in Seq(Entry) /\ (spc = "send" => StillThere)
  <2>1. /\ dir' \in Seq(Entry)
        /\ \A j \in 1..Len(dir) : j # i => \E l \in 1..Len(dir') : dir'[l] = dir[j]
    BY <1>2, RemoveAtType
  <2> QED
    BY <1>2, <2>1 DEF Present
<1>3. ASSUME NEW n \in Names, NEW s \in EditSizes, NEW i \in 1..(Len(dir) + 1),
             dir' = InsertAt(dir, i, [name |-> n, size |-> s, isdir |-> FALSE])
      PROVE  dir' \in Seq(Entry) /\ StillThere
  <2> DEFINE e == [name |-> n, size |-> s, isdir |-> FALSE]
  <2>1. e \in Entry
    BY EnvironmentAssumption DEF Entry
  <2>2. dir' = InsertAt(dir, i, e)
    BY <1>3
  <2> HIDE DEF e
  <2>3. /\ dir' \in Seq(Entry)
        /\ \A j \in 1..Len(dir) : \E l \in 1..Len(dir') : dir'[l] = dir[j]
    <3> DEFINE d == InsertAt(dir, i, e)
    <3>1. /\ d \in Seq(Entry)
          /\ \A j \in 1..Len(dir) : \E l \in 1..Len(d) : d[l] = dir[j]
      BY <2>1, InsertAtType
    <3> HIDE DEF d
    <3>2. dir' = d
      BY <2>2 DEF d
    <3> QED
      BY <3>1, <3>2
  <2> QED
    BY <2>3 DEF Present
<1>4. dir' \in Seq(Entry) /\ (spc = "send" => StillThere)
  <2> HIDE DEF StillThere
  <2> QED
    BY <1>1, <1>2, <1>3 DEF EditDir
<1>5. edits' \in Nat
  BY DEF EditDir
<1>6. spc' = "send" => Present(dir, file)'
  BY <1>4 DEF EditDir, Present, serverVars
<1>7. ListingOnly'
  BY DEF EditDir, ListingOnly
<1> HIDE DEF StillThere
<1> QED
  BY <1>4, <1>5, <1>6, <1>7 DEF EditDir, clientVars, serverVars
-----------------------------------------------------------------------------
LEMMA TypeStep ==
  ASSUME TypeInv, [Next]_vars
  PROVE  TypeInv'
<1>1. CASE ClientStep
  BY <1>1, TypeListing, TypeQuiet, TypeReply, TypeFirstChunk, TypeNextChunk, TypeRecvError
  DEF ClientStep
<1>2. CASE UserStep
  BY <1>2, TypeQuiet, TypeRequest DEF UserStep
<1>3. CASE ServerStep
  BY <1>3, TypeQuiet, TypeSendList, TypeMakeList, TypeHandle, TypeSendChunk DEF ServerStep
<1>4. CASE Environment
  BY <1>4, TypeQuiet, TypeEdit, TypeHostDies DEF Environment
<1>5. CASE UNCHANGED vars
  BY <1>5 DEF vars, clientVars, serverVars, dirVars, TypeInv, TypeOK, ListingOnly, Present
<1> QED
  BY <1>1, <1>2, <1>3, <1>4, <1>5 DEF Next

\* Every reachable state is well typed: whatever fails, the counter of
\* download_files and the sizes keep to 32 bits, the host reads only a file that
\* is there, and what the client writes came over the connection.
THEOREM TypeCorrect == Spec => []TypeOK
<1>1. Init => TypeInv
  BY TypeInit
<1>2. TypeInv /\ [Next]_vars => TypeInv'
  BY TypeStep
<1>3. TypeInv => TypeOK
  BY DEF TypeInv
<1> QED
  BY <1>1, <1>2, <1>3, PTL DEF Spec
-----------------------------------------------------------------------------
(***************************************************************************)
(* Why the sizes agree.  In the loop of download_files the counter is the  *)
(* length of the file so far, modulo 2^32, and the size it waits for is    *)
(* the listing's, until a reset makes the counts negative.                 *)
(***************************************************************************)
LoopInv ==
  /\ cpc = "first" => total = 0
  /\ cpc = "rest" => filesize = get_filesize(want, start)
  /\ (cpc = "rest" /\ clientEnd = "open" /\ conn # "rst") =>
       total = Len(download[want]) % Modulus
  /\ cpc \in {"menu", "list"} => reported = {}
  /\ cpc \in {"menu", "list", "prompt", "first", "rest", "spin"} => clientEnd = "open"

SizeInv == SizeAgrees /\ LoopInv

LEMMA SizeInit == Init => SizeInv
  BY DEF Init, SizeInv, SizeAgrees, LoopInv

\* Steps that neither read the stream nor write a file.
LEMMA SizeQuiet ==
  ASSUME TypeInv, SizeInv,
         \/ Connect \/ ConnectFails \/ NoListing \/ Spin \/ Exit \/ NoReply \/ ClientDies
         \/ \E n \in Typed : Request(n)
         \/ ServerStep
         \/ AcceptFails \/ EditDir
         \/ \E how \in {"fin", "rst"} : HostDies(how)
  PROVE  SizeInv'
<1> USE DEF SizeInv, SizeAgrees, LoopInv, clientVars, serverVars, dirVars
<1>1. CASE Connect
  BY <1>1 DEF Connect
<1>2. CASE ConnectFails
  BY <1>2 DEF ConnectFails
<1>3. CASE NoListing
  BY <1>3 DEF NoListing
<1>4. CASE Spin
  BY <1>4 DEF Spin
<1>5. CASE Exit
  BY <1>5 DEF Exit
<1>6. CASE NoReply
  BY <1>6 DEF NoReply
<1>7. CASE ClientDies
  BY <1>7 DEF ClientDies
<1>8. ASSUME NEW n \in Typed, Request(n)
      PROVE  SizeInv'
  BY <1>8 DEF Request, ResetCount
<1>9. CASE ServerStep
  <2>1. CASE Accept
    BY <1>9, <2>1 DEF Accept
  <2>2. CASE send_file_list
    BY <1>9, <2>2 DEF send_file_list
  <2>3. CASE create_file_list
    BY <1>9, <2>3 DEF create_file_list
  <2>4. CASE SendMessage
    BY <1>9, <2>4 DEF SendMessage
  <2>5. CASE OpenFile
    BY <1>9, <2>5 DEF OpenFile
  <2>6. CASE OpenFails
    BY <1>9, <2>6 DEF OpenFails
  <2>7. CASE SendChunk
    BY <1>9, <2>7 DEF SendChunk
  <2>8. CASE EndOfFile
    BY <1>9, <2>8 DEF EndOfFile
  <2>9. CASE SendFails
    BY <1>9, <2>9 DEF SendFails
  <2>10. CASE Disconnect
    BY <1>9, <2>10 DEF Disconnect, ClientGone
  <2> QED
    BY <1>9, <2>1, <2>2, <2>3, <2>4, <2>5, <2>6, <2>7, <2>8, <2>9, <2>10 DEF ServerStep
<1>10. CASE AcceptFails
  BY <1>10 DEF AcceptFails
<1>11. CASE EditDir
  BY <1>11 DEF EditDir
<1>12. ASSUME NEW how \in {"fin", "rst"}, HostDies(how)
       PROVE  SizeInv'
  BY <1>12 DEF HostDies
<1> QED
  BY <1>1, <1>2, <1>3, <1>4, <1>5, <1>6, <1>7, <1>8, <1>9, <1>10, <1>11, <1>12

\* Reading the listing, a message, or an answer that cannot be stored.
LEMMA SizeRead ==
  ASSUME TypeInv, SizeInv, recv_and_display_file_list \/ ReplyMissing \/ CreateFails
  PROVE  SizeInv'
<1> USE DEF SizeInv, SizeAgrees, LoopInv
<1>0. s2c # <<>>
  <2>1. \E k \in 1..Len(s2c) : TRUE
    BY DEF recv_and_display_file_list, ReplyMissing, CreateFails
  <2>2. s2c = <<>> => Len(s2c) = 0
    OBVIOUS
  <2> QED
    BY <2>1, <2>2
<1>1. CASE recv_and_display_file_list
  BY <1>0, <1>1 DEF recv_and_display_file_list
<1>2. CASE ReplyMissing
  BY <1>0, <1>2 DEF ReplyMissing
<1>3. CASE CreateFails
  BY <1>0, <1>3 DEF CreateFails
<1> QED
  BY <1>1, <1>2, <1>3

\* The data of a file.
LEMMA SizeChunk ==
  ASSUME TypeInv, SizeInv, FirstChunk \/ NextChunk
  PROVE  SizeInv'
<1> USE DEF SizeInv, TypeInv, TypeOK
<1>1. /\ want \in Names
      /\ want' = want
      /\ start' = start
      /\ cpc \in {"first", "rest"}
      /\ UNCHANGED <<conn, spc, clientEnd>>
      /\ s2c # <<>>
  BY DEF FirstChunk, NextChunk, serverVars, dirVars
<1>2. /\ filesize' = get_filesize(want, start)
      /\ CheckTotal(filesize', total')
  BY DEF FirstChunk, NextChunk, LoopInv
<1>3. \E b \in Seq(Byte) :
        /\ download' = [download EXCEPT ![want] = b]
        /\ conn # "rst" => total' = Len(b) % Modulus
  <2>1. CASE FirstChunk
    <3>1. PICK k \in 1..Len(s2c) :
            /\ download' = [download EXCEPT ![want] = SubSeq(s2c, 1, k)]
            /\ total' = Count(k)
      BY <2>1 DEF FirstChunk
    <3>2. k \in 0..Len(s2c)
      BY LenProperties
    <3>3. SubSeq(s2c, 1, k) \in Seq(Byte) /\ Len(SubSeq(s2c, 1, k)) = k
      BY <3>2, CutType
    <3>4. total' = k % Modulus
      BY <2>1, <3>1 DEF FirstChunk, LoopInv, Count
    <3> QED
      BY <3>1, <3>3, <3>4
  <2>2. CASE NextChunk
    <3>1. PICK k \in 1..Len(s2c) :
            /\ download' = [download EXCEPT ![want] = @ \o SubSeq(s2c, 1, k)]
            /\ total' = Count(k)
      BY <2>2 DEF NextChunk
    <3>2. k \in 0..Len(s2c) /\ k \in Nat
      BY LenProperties
    <3>3. SubSeq(s2c, 1, k) \in Seq(Byte) /\ Len(SubSeq(s2c, 1, k)) = k
      BY <3>2, CutType
    <3>4. download[want] \in Seq(Byte) /\ Len(download[want]) \in Nat
      BY <1>1, LenProperties
    <3> DEFINE b == download[want] \o SubSeq(s2c, 1, k)
    <3>5. b \in Seq(Byte) /\ Len(b) = Len(download[want]) + k
      BY <3>3, <3>4, ConcatProperties
    <3>6. ((Len(download[want]) % Modulus) + k) % Modulus = (Len(download[want]) + k) % Modulus
      <4>1. Modulus \in Nat \ {0}
        BY BufferAssumption
      <4> QED
        BY <3>2, <3>4, <4>1, ModAdd, Zenon
    <3>7. conn # "rst" => total' = Len(b) % Modulus
      BY <2>2, <3>1, <3>5, <3>6 DEF NextChunk, LoopInv, Count
    <3>8. download' = [download EXCEPT ![want] = b]
      BY <1>1, <3>1
    <3> QED
      BY <3>5, <3>7, <3>8
  <2> QED
    BY <2>1, <2>2
<1>4. PICK b \in Seq(Byte) : /\ download' = [download EXCEPT ![want] = b]
                             /\ conn # "rst" => total' = Len(b) % Modulus
  BY <1>3
<1>5. /\ download'[want] = b
      /\ \A n \in Names \ {want} : download'[n] = download[n]
  BY <1>1, <1>4
<1>6. SizeAgrees'
  <2> SUFFICES ASSUME clientEnd = "open", conn # "rst", NEW n \in reported'
               PROVE  Len(download'[n]) % Modulus = get_filesize(n, start)
    BY <1>1 DEF SizeAgrees
  <2>1. CASE n = want
    BY <2>1, <1>2, <1>4, <1>5 DEF CheckTotal
  <2>2. CASE n # want
    <3>1. n \in reported /\ n \in Names
      BY <2>2, <1>2 DEF CheckTotal
    <3> QED
      BY <2>2, <3>1, <1>5 DEF SizeAgrees
  <2> QED
    BY <2>1, <2>2
<1>7. LoopInv'
  BY <1>1, <1>2, <1>4, <1>5 DEF LoopInv, CheckTotal
<1> QED
  BY <1>6, <1>7

LEMMA SizeStep ==
  ASSUME TypeInv, SizeInv, [Next]_vars
  PROVE  SizeInv'
<1>1. CASE ClientStep
  <2>1. RecvError => SizeInv'
    BY DEF RecvError, SizeInv, SizeAgrees, LoopInv, CheckTotal, TypeInv, TypeOK
  <2> QED
    BY <1>1, <2>1, SizeQuiet, SizeRead, SizeChunk DEF ClientStep
<1>2. CASE UserStep
  BY <1>2, SizeQuiet DEF UserStep
<1>3. CASE ServerStep
  BY <1>3, SizeQuiet
<1>4. CASE Environment
  BY <1>4, SizeQuiet DEF Environment
<1>5. CASE UNCHANGED vars
  BY <1>5 DEF vars, clientVars, serverVars, dirVars, SizeInv, SizeAgrees, LoopInv
<1> QED
  BY <1>1, <1>2, <1>3, <1>4, <1>5 DEF Next

\* Until the connection is reset, a file that download_files reports as
\* downloaded has the size the listing gave it, modulo 2^32: with every fault,
\* for every upload directory and every change made to it, every file size and
\* buffer size, and however TCP cuts the stream of answers.
THEOREM SizeTheorem == Spec => []SizeAgrees
<1>1. Init => TypeInv /\ SizeInv
  BY TypeInit, SizeInit
<1>2. TypeInv /\ SizeInv /\ [Next]_vars => (TypeInv /\ SizeInv)'
  BY TypeStep, SizeStep
<1>3. SizeInv => SizeAgrees
  BY DEF SizeInv
<1> QED
  BY <1>1, <1>2, <1>3, PTL DEF Spec
=============================================================================
