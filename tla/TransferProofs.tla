--------------------------- MODULE TransferProofs ---------------------------
(***************************************************************************)
(* What a session transfers when its environment is the one the program    *)
(* was written for (CleanEnvironment): the bytes of the file, and nothing  *)
(* else.                                                                   *)
(***************************************************************************)
EXTENDS SessionProofs

-----------------------------------------------------------------------------
(***************************************************************************)
(* The pieces of an answer, and the list the client works with.            *)
(***************************************************************************)

LEMMA DataCut ==
  ASSUME NEW n \in Names, NEW a \in Nat, NEW b \in Nat, a <= b, NEW k \in 0..(b - a)
  PROVE  /\ SubSeq(Data(n, a, b), 1, k) = Data(n, a, a + k)
         /\ SubSeq(Data(n, a, b), k + 1, b - a) = Data(n, a + k, b)
<1>0. "data" \in {"data", "msg"} /\ n \in Names \cup {NoName}
  OBVIOUS
<1>1. /\ SubSeq(Part("data", n, a, b), 1, k) = Part("data", n, a, a + k)
      /\ SubSeq(Part("data", n, a, b), k + 1, b - a) = Part("data", n, a + k, b)
  BY <1>0, PartCut, Zenon
<1> QED
  BY <1>1 DEF Data

LEMMA DataJoin ==
  ASSUME NEW n \in Names, NEW a \in Nat, NEW b \in Nat, NEW c \in Nat, a <= b, b <= c
  PROVE  Data(n, a, b) \o Data(n, b, c) = Data(n, a, c)
  BY PartJoin DEF Data

LEMMA MsgCut ==
  ASSUME NEW a \in Nat, NEW b \in Nat, a <= b, NEW k \in 0..(b - a)
  PROVE  /\ SubSeq(MsgPart(a, b), 1, k) = MsgPart(a, a + k)
         /\ SubSeq(MsgPart(a, b), k + 1, b - a) = MsgPart(a + k, b)
<1>0. "msg" \in {"data", "msg"} /\ NoName \in Names \cup {NoName}
  OBVIOUS
<1>1. /\ SubSeq(Part("msg", NoName, a, b), 1, k) = Part("msg", NoName, a, a + k)
      /\ SubSeq(Part("msg", NoName, a, b), k + 1, b - a) = Part("msg", NoName, a + k, b)
  BY <1>0, PartCut, Zenon
<1> QED
  BY <1>1 DEF MsgPart

\* Nothing is left after the last byte.
LEMMA NothingLeft ==
  ASSUME NEW n \in Names, NEW a \in Nat
  PROVE  Data(n, a, a) = <<>> /\ MsgPart(a, a) = <<>>
<1>1. Data(n, a, a) \in Seq(Byte) /\ Len(Data(n, a, a)) = 0
  BY DataType
<1>2. MsgPart(a, a) \in Seq(Byte) /\ Len(MsgPart(a, a)) = 0
  BY MsgType
<1> QED
  BY <1>1, <1>2, EmptySeq

\* Bytes of a file are not the bytes of the message.
LEMMA DataIsNotMsg ==
  ASSUME NEW n \in Names, NEW k \in Nat \ {0}
  PROVE  Data(n, 0, k) # Msg
<1>1. MsgLen \in Nat \ {0}
  BY BufferAssumption
<1>2. Data(n, 0, k)[1].kind = "data"
  BY DEF Data, Part
<1>3. Msg[1].kind = "msg"
  BY <1>1 DEF Msg, MsgPart, Part
<1> QED
  BY <1>2, <1>3

\* A receive that is shorter than the message is not the message.
LEMMA PartOfMsg ==
  ASSUME NEW k \in 0..MsgLen
  PROVE  MsgPart(0, k) = Msg <=> k = MsgLen
<1>1. MsgLen \in Nat /\ k \in Nat
  BY BufferAssumption
<1>2. Len(MsgPart(0, k)) = k /\ Len(Msg) = MsgLen
  <2>1. Len(MsgPart(0, k)) = k - 0
    BY <1>1, MsgType
  <2>2. Len(Msg) = MsgLen - 0
    BY <1>1, MsgType DEF Msg
  <2> QED
    BY <1>1, <2>1, <2>2
<1> QED
  BY <1>2 DEF Msg

\* Names are unique: an entry is the one under its name.
LEMMA EntryUnique ==
  ASSUME NEW i \in 1..Len(InitDir)
  PROVE  EntryOf(InitDir, InitDir[i].name) = InitDir[i]
<1>1. PICK c \in 1..Len(InitDir) :
        /\ EntryOf(InitDir, InitDir[i].name) = InitDir[c]
        /\ InitDir[c].name = InitDir[i].name
  BY DEF EntryOf
<1> QED
  BY <1>1, DirAssumption

LEMMA InitEntryType ==
  ASSUME NEW n, Present(InitDir, n)
  PROVE  /\ n \in Names
         /\ EntryOf(InitDir, n).size \in Nat
         /\ CleanEnvironment => EntryOf(InitDir, n).size < Modulus
<1>1. PICK i \in 1..Len(InitDir) : InitDir[i].name = n
  BY DEF Present
<1>2. EntryOf(InitDir, n) = InitDir[i]
  BY <1>1, EntryUnique
<1>3. InitDir[i] \in Entry
  BY DirAssumption, ElementOfSeq
<1> QED
  BY <1>1, <1>2, <1>3 DEF Entry, CleanEnvironment

LEMMA FullListType ==
  ASSUME CleanEnvironment
  PROVE  /\ FullList \in Seq(Node)
         /\ Len(FullList) = Len(InitDir)
<1>1. Len(InitDir) \in Nat
  BY DirAssumption, LenProperties
<1>2. \A i \in 1..Len(InitDir) :
        [filename |-> InitDir[i].name, filesize |-> InitDir[i].size] \in Node
  <2> TAKE i \in 1..Len(InitDir)
  <2>1. InitDir[i] \in Entry
    BY DirAssumption, ElementOfSeq
  <2>2. InitDir[i].size \in Nat /\ InitDir[i].size < Modulus /\ InitDir[i].name \in Names
    BY <2>1 DEF Entry, CleanEnvironment
  <2>3. InitDir[i].size \in 0..(Modulus - 1)
    BY <2>2, BufferAssumption
  <2> QED
    BY <2>2, <2>3 DEF Node
<1> QED
  BY <1>1, <1>2 DEF FullList

\* get_filesize finds the size of a file that is there, and 0 for any other.
LEMMA FullListSize ==
  ASSUME CleanEnvironment, NEW n
  PROVE  get_filesize(n, FullList) =
           IF Present(InitDir, n) THEN EntryOf(InitDir, n).size ELSE 0
<1>1. FullList \in Seq(Node) /\ Len(FullList) = Len(InitDir)
  BY FullListType
<1>2. \A i \in 1..Len(InitDir) : /\ FullList[i].filename = InitDir[i].name
                                 /\ FullList[i].filesize = InitDir[i].size
  BY DEF FullList
<1>3. CASE Present(InitDir, n)
  <2>1. \E i \in 1..Len(FullList) : FullList[i].filename = n
    BY <1>1, <1>2, <1>3 DEF Present
  <2>2. PICK i \in 1..Len(FullList) :
          FullList[i].filename = n /\ get_filesize(n, FullList) = FullList[i].filesize
    BY <1>1, <2>1, FirstNode
  <2>3. EntryOf(InitDir, n) = InitDir[i]
    BY <1>1, <1>2, <2>2, EntryUnique
  <2> QED
    BY <1>1, <1>2, <1>3, <2>2, <2>3
<1>4. CASE ~ Present(InitDir, n)
  <2>1. ~ \E i \in 1..Len(FullList) : FullList[i].filename = n
    BY <1>1, <1>2, <1>4 DEF Present
  <2> QED
    BY <1>4, <2>1 DEF get_filesize
<1> QED
  BY <1>3, <1>4

\* The nodes recv_and_display_file_list makes of the whole listing.
LEMMA ParsedListing ==
  ASSUME CleanEnvironment, NEW held
  PROVE  [i \in 1..Len(Listing(InitDir)) |-> ParseLine(Listing(InitDir)[i], held[i])]
           = FullList
<1>1. Len(Listing(InitDir)) = Len(InitDir)
  BY ListingType, DirAssumption
<1>2. ASSUME NEW i \in 1..Len(InitDir)
      PROVE  ParseLine(Listing(InitDir)[i], held[i])
               = [filename |-> InitDir[i].name, filesize |-> InitDir[i].size]
  <2>1. InitDir[i] \in Entry
    BY DirAssumption, ElementOfSeq
  <2>2. InitDir[i].size \in Nat /\ InitDir[i].size < Modulus /\ InitDir[i].name \in Names
    BY <2>1 DEF Entry, CleanEnvironment
  <2>3. InitDir[i].size % Modulus = InitDir[i].size
    <3>1. Modulus \in Nat \ {0}
      BY BufferAssumption
    <3> QED
      BY <2>2, <3>1
  <2>4. /\ Listing(InitDir)[i].name = InitDir[i].name
        /\ Listing(InitDir)[i].at = InitDir[i].size
    BY <2>3 DEF Listing
  <2>5. FirstWord[InitDir[i].name] = InitDir[i].name
    BY <2>2 DEF CleanEnvironment
  <2> QED
    BY <2>4, <2>5 DEF ParseLine
<1> QED
  BY <1>1, <1>2 DEF FullList
-----------------------------------------------------------------------------
(***************************************************************************)
(* No connection is reset once data is under way: one in state rst was     *)
(* refused or never accepted, and the loop never sees a negative count.    *)
(***************************************************************************)
NeverReset ==
  /\ cpc = "menu" => conn = "none"
  /\ conn \in {"none", "rst"} => spc \in {"accept", "dead"}
  /\ conn \in {"none", "rst"} \/ (conn = "open" /\ spc = "accept") =>
       s2c = <<>> /\ cpc # "rest"

LEMMA NeverResetStep ==
  ASSUME TypeInv, NeverReset, "rst" \notin Faults, [Next]_vars
  PROVE  NeverReset'
<1> USE DEF NeverReset, clientVars, serverVars, dirVars
<1>0. \A k \in 1..Len(s2c) : s2c # <<>>
  OBVIOUS
<1>1. CASE ClientStep
  BY <1>0, <1>1
  DEF ClientStep, recv_and_display_file_list, NoListing, ReplyMissing, CreateFails, FirstChunk,
      NoReply, NextChunk, Spin, RecvError, CheckTotal
<1>2. CASE UserStep
  BY <1>2 DEF UserStep, Connect, ConnectFails, Exit, Request
<1>3. CASE ServerStep
  BY <1>3 DEF ServerStep, Accept, send_file_list, create_file_list, SendMessage, OpenFile,
              OpenFails, SendChunk, EndOfFile, SendFails, Disconnect
<1>4. CASE Environment
  BY <1>4 DEF Environment, AcceptFails, ClientDies, EditDir, HostDies
<1>5. CASE UNCHANGED vars
  BY <1>5 DEF vars
<1> QED
  BY <1>1, <1>2, <1>3, <1>4, <1>5 DEF Next

\* The induction: TransferInv and DownloadFaithful together.
Inv == TypeInv /\ SizeInv /\ NeverReset /\ TransferInv /\ DownloadFaithful

LEMMA TransferInit == Init => TransferInv /\ DownloadFaithful
  BY DEF Init, TransferInv, DownloadFaithful, HostInv, ListPhase, PromptPhase, FirstPhase,
         RestPhase

\* A connection the client still uses is open, or the host is not serving it.
LEMMA Served ==
  ASSUME Inv, cpc \in {"list", "prompt", "first", "rest"},
         spc \notin {"accept", "dead"}
  PROVE  conn = "open"
  BY DEF Inv, TransferInv, HostInv, TypeInv, TypeOK

\* Steps that write no file and leave the streams alone.
LEMMA TransferQuiet ==
  ASSUME CleanEnvironment, Inv,
         \/ Connect \/ ConnectFails \/ NoListing \/ NoReply \/ Spin \/ Exit \/ ClientDies
         \/ Accept \/ AcceptFails \/ create_file_list \/ EndOfFile \/ SendFails \/ Disconnect
         \/ \E how \in {"fin", "rst"} : HostDies(how)
  PROVE  (TransferInv /\ DownloadFaithful)'
<1> USE DEF Inv, TransferInv, DownloadFaithful, HostInv, ListPhase, PromptPhase, FirstPhase,
            RestPhase, DataOnWay, MsgOnWay, NoAnswer, Unread, Idle,
            clientVars, serverVars, dirVars
<1>0. clientEnd \in {"open", "closed"} /\ (conn = "rst" => s2c = <<>>)
  BY DEF TypeInv, TypeOK, NeverReset
<1>1. CASE Connect
  BY <1>1 DEF Connect
<1>2. CASE ConnectFails
  BY <1>2 DEF ConnectFails
<1>3. CASE NoListing
  BY <1>0, <1>3 DEF NoListing, EndOfStream
<1>4. CASE NoReply
  BY <1>0, <1>4 DEF NoReply, EndOfStream
<1>5. CASE Spin
  BY <1>5 DEF Spin
<1>6. CASE Exit
  BY <1>6 DEF Exit
<1>7. CASE ClientDies
  BY <1>7 DEF ClientDies
<1>8. CASE Accept
  BY <1>8 DEF Accept
<1>9. CASE AcceptFails
  BY <1>9 DEF AcceptFails
<1>10. CASE create_file_list
  BY <1>10 DEF create_file_list
<1>11. CASE EndOfFile
  <2>1. offset = EntryOf(InitDir, file).size
    <3>1. EntryOf(InitDir, file).size <= offset
      BY <1>11, NextReadType DEF EndOfFile, TypeInv, TypeOK
    <3>2. offset \in Nat /\ EntryOf(InitDir, file).size \in Nat
      BY <1>11, InitEntryType DEF EndOfFile, TypeInv, TypeOK
    <3>3. offset <= EntryOf(InitDir, file).size
      BY <1>11 DEF EndOfFile
    <3> QED
      BY <3>1, <3>2, <3>3
  <2> QED
    BY <1>11, <2>1 DEF EndOfFile
<1>12. CASE SendFails
  BY <1>12 DEF SendFails
<1>13. CASE Disconnect
  BY <1>13 DEF Disconnect, ClientGone
<1>14. ASSUME NEW how \in {"fin", "rst"}, HostDies(how)
       PROVE  (TransferInv /\ DownloadFaithful)'
  BY <1>14 DEF HostDies, CleanEnvironment
<1> QED
  BY <1>1, <1>2, <1>3, <1>4, <1>5, <1>6, <1>7, <1>8, <1>9, <1>10, <1>11, <1>12, <1>13, <1>14

\* The listing: sent into an empty stream, received whole.
LEMMA TransferSendList ==
  ASSUME CleanEnvironment, Inv, send_file_list
  PROVE  (TransferInv /\ DownloadFaithful)'
<1> USE DEF Inv, TransferInv, send_file_list
<1>1. Listing(InitDir) \in Seq(Byte)
  BY ListingType, DirAssumption
<1>2. <<>> \o Listing(InitDir) = Listing(InitDir)
  BY <1>1, ConcatEmptySeq
<1>3. cpc \in {"menu", "list"} => s2c' = Listing(InitDir)
  BY <1>2 DEF HostInv, ListPhase
<1> QED
  BY <1>3
  DEF HostInv, ListPhase, PromptPhase, FirstPhase, RestPhase, DownloadFaithful,
      clientVars, serverVars, dirVars

LEMMA TransferListing ==
  ASSUME CleanEnvironment, Inv, recv_and_display_file_list
  PROVE  (TransferInv /\ DownloadFaithful)'
<1> USE DEF Inv, TransferInv, recv_and_display_file_list
<1>0. PICK k \in 1..Len(s2c) :
        /\ k = Len(s2c)
        /\ s2c' = SubSeq(s2c, k + 1, Len(s2c))
        /\ \E held \in [1..k -> 0..(Modulus - 1)] :
             start' = start \o [i \in 1..k |-> ParseLine(s2c[i], held[i])]
  BY DEF CleanEnvironment
<1>1. PICK held \in [1..k -> 0..(Modulus - 1)] :
        start' = start \o [i \in 1..k |-> ParseLine(s2c[i], held[i])]
  BY <1>0
<1>2. s2c \in Seq(Byte) /\ Len(s2c) \in Nat
  BY LenProperties DEF TypeInv, TypeOK
<1>3. s2c # <<>>
  BY <1>0, <1>2
<1>4. s2c = Listing(InitDir) /\ start = <<>> /\ spc \notin {"accept", "list", "send"}
  BY <1>3 DEF ListPhase
<1>5. start' = FullList
  <2>1. [i \in 1..k |-> ParseLine(s2c[i], held[i])] = FullList
    BY <1>0, <1>4, ParsedListing
  <2>2. <<>> \o FullList = FullList
    BY FullListType, ConcatEmptySeq
  <2> QED
    BY <1>1, <1>4, <2>1, <2>2
<1>6. s2c' = <<>>
  BY <1>0, <1>2, SubSeqEmpty
<1>7. spc \in {"accept", "list", "mklist", "recv", "send", "dead"}
  BY DEF TypeInv, TypeOK
<1> QED
  BY <1>4, <1>5, <1>6, <1>7
  DEF HostInv, ListPhase, PromptPhase, FirstPhase, RestPhase, DownloadFaithful, Idle,
      serverVars, dirVars

\* A request goes into an empty stream.
LEMMA TransferRequest ==
  ASSUME CleanEnvironment, Inv, NEW n \in Typed, Request(n)
  PROVE  (TransferInv /\ DownloadFaithful)'
<1> USE DEF Inv, TransferInv, Request
<1>1. conn # "open" \/ c2s' = <<n>>
  <2>1. conn = "open" => c2s = <<>> /\ c2s' = Append(c2s, n)
    BY DEF PromptPhase
  <2>2. Append(<<>>, n) = <<n>>
    OBVIOUS
  <2> QED
    BY <2>1, <2>2
<1>2. Unread'
  BY <1>1 DEF PromptPhase, Unread, Idle, serverVars, dirVars
<1> QED
  BY <1>2 DEF HostInv, ListPhase, PromptPhase, FirstPhase, RestPhase, DownloadFaithful,
              ResetCount, serverVars, dirVars

\* The host takes a request: the only one there is, for the file the client waits for.
LEMMA TheRequest ==
  ASSUME Inv, spc = "recv", NEW j \in 1..Len(c2s), TakeRequest(j), cpc' = cpc
  PROVE  /\ cpc \notin {"menu", "list", "prompt", "rest"}
         /\ cpc = "first" => /\ FileName(j) = want
                             /\ c2s' = <<>>
                             /\ s2c = <<>>
                             /\ start = FullList
<1> USE DEF Inv, TransferInv
<1>1. c2s \in Seq(Names) /\ Len(c2s) \in Nat
  BY LenProperties DEF TypeInv, TypeOK
<1>2. c2s # <<>>
  BY <1>1
<1>3. cpc \in {"list", "prompt", "first", "rest"} => conn = "open"
  BY Served
<1>4. cpc \notin {"menu", "list", "prompt", "rest"}
  BY <1>2, <1>3 DEF ListPhase, PromptPhase, RestPhase
<1>5. ASSUME cpc = "first"
      PROVE  c2s = <<want>> /\ s2c = <<>> /\ start = FullList
  BY <1>2, <1>3, <1>5 DEF FirstPhase, Unread, HostInv
<1>6. ASSUME cpc = "first"
      PROVE  FileName(j) = want /\ c2s' = <<>>
  <2>0. c2s = <<want>> /\ Len(<<want>>) = 1
    BY <1>5, <1>6
  <2>1. c2s = <<want>> /\ Len(c2s) = 1 /\ j = 1
    BY <2>0
  <2>2. SubSeq(c2s, 2, 1) = <<>>
    BY SubSeqEmpty
  <2> QED
    BY <2>1, <2>2 DEF FileName, TakeRequest
<1> QED
  BY <1>4, <1>5, <1>6

LEMMA TransferHandle ==
  ASSUME CleanEnvironment, Inv, SendMessage \/ OpenFile \/ OpenFails
  PROVE  (TransferInv /\ DownloadFaithful)'
<1> USE DEF Inv
<1>0. /\ dir = InitDir /\ spc = "recv"
      /\ slist = {InitDir[i].name : i \in 1..Len(InitDir)}
      /\ cpc' = cpc /\ start' = start /\ want' = want /\ conn' = conn /\ total' = total
      /\ clientEnd' = clientEnd /\ download' = download /\ reported' = reported
      /\ dir' = dir /\ slist' = slist
  BY DEF SendMessage, OpenFile, OpenFails, TransferInv, HostInv, clientVars, serverVars, dirVars
<1>1. CASE SendMessage
  <2>1. PICK j \in 1..Len(c2s) : TakeRequest(j) /\ ~ InList(FileName(j))
    BY <1>1 DEF SendMessage
  <2>2. /\ cpc \notin {"menu", "list", "prompt", "rest"}
        /\ cpc = "first" => /\ FileName(j) = want
                            /\ c2s' = <<>>
                            /\ s2c = <<>>
                            /\ start = FullList
    BY <1>0, <2>1, TheRequest
  <2>3. spc' = spc /\ file' = file /\ offset' = offset /\ s2c' = s2c \o Msg
    BY <1>1 DEF SendMessage, serverVars
  <2>4. ASSUME cpc = "first"
        PROVE  MsgOnWay(0)'
    <3>1. want \in Names
      BY <2>4 DEF TypeInv
    <3>2. ~ Present(InitDir, want)
      BY <1>0, <2>1, <2>2, <2>4, <3>1, NamesAssumption DEF InList, Present
    <3>3. MsgLen \in Nat
      BY BufferAssumption
    <3>4. Msg \in Seq(Byte)
      BY <3>3, MsgType DEF Msg
    <3>5. <<>> \o Msg = Msg
      BY <3>4, ConcatEmptySeq
    <3>6. s2c' = MsgPart(0, MsgLen)
      BY <2>2, <2>3, <2>4, <3>5 DEF Msg
    <3> QED
      BY <1>0, <2>2, <2>3, <2>4, <3>2, <3>3, <3>6 DEF MsgOnWay
  <2> QED
    BY <1>0, <2>2, <2>3, <2>4
    DEF TransferInv, HostInv, ListPhase, PromptPhase, FirstPhase, RestPhase, DownloadFaithful
<1>2. CASE OpenFile
  <2>1. PICK j \in 1..Len(c2s) :
          TakeRequest(j) /\ CanOpen(dir, FileName(j)) /\ file' = FileName(j)
    BY <1>2 DEF OpenFile
  <2>2. /\ cpc \notin {"menu", "list", "prompt", "rest"}
        /\ cpc = "first" => /\ FileName(j) = want
                            /\ c2s' = <<>>
                            /\ s2c = <<>>
                            /\ start = FullList
    BY <1>0, <2>1, TheRequest
  <2>3. spc' = "send" /\ offset' = 0 /\ s2c' = s2c
    BY <1>2 DEF OpenFile
  <2>4. /\ CanOpen(InitDir, file') /\ Present(InitDir, file')
        /\ EntryOf(InitDir, file').size \in Nat
    BY <1>0, <2>1, InitEntryType DEF CanOpen
  <2>5. ASSUME cpc = "first"
        PROVE  DataOnWay(0)'
    <3>1. file' = want /\ want \in Names
      BY <2>1, <2>2, <2>5 DEF TypeInv
    <3>2. Data(want, 0, 0) = <<>>
      BY <3>1, NothingLeft
    <3>3. 0 \in 0..EntryOf(InitDir, want).size
      BY <2>4, <3>1
    <3> QED
      BY <1>0, <2>2, <2>3, <2>4, <2>5, <3>1, <3>2, <3>3 DEF DataOnWay
  <2> QED
    BY <1>0, <2>2, <2>3, <2>4, <2>5
    DEF TransferInv, HostInv, ListPhase, PromptPhase, FirstPhase, RestPhase, DownloadFaithful
<1>3. CASE OpenFails
  <2>1. PICK j \in 1..Len(c2s) :
          TakeRequest(j) /\ InList(FileName(j)) /\ ~ CanOpen(dir, FileName(j))
    BY <1>3 DEF OpenFails
  <2>2. /\ cpc \notin {"menu", "list", "prompt", "rest"}
        /\ cpc = "first" => /\ FileName(j) = want
                            /\ c2s' = <<>>
                            /\ s2c = <<>>
                            /\ start = FullList
    BY <1>0, <2>1, TheRequest
  <2>3. spc' = spc /\ file' = file /\ offset' = offset /\ s2c' = s2c
    BY <1>3 DEF OpenFails, serverVars
  <2>4. cpc = "first" => \E i \in 1..Len(InitDir) : <<want, InitDir[i].name>> \in Occurs
    BY <1>0, <2>1, <2>2 DEF InList
  <2>5. cpc = "first" => NoAnswer'
    BY <1>0, <2>1, <2>2, <2>3, <2>4 DEF NoAnswer
  <2> QED
    BY <1>0, <2>2, <2>3, <2>5
    DEF TransferInv, HostInv, ListPhase, PromptPhase, FirstPhase, RestPhase, DownloadFaithful
<1> QED
  BY <1>1, <1>2, <1>3

\* The host reads on in the file the client waits for, and never past its end.
LEMMA TransferSendChunk ==
  ASSUME CleanEnvironment, Inv, SendChunk
  PROVE  (TransferInv /\ DownloadFaithful)'
<1> USE DEF Inv
<1> DEFINE m2 == offset + NextRead
<1>0. /\ dir = InitDir /\ spc = "send" /\ Present(InitDir, file)
      /\ cpc' = cpc /\ start' = start /\ want' = want /\ conn' = conn /\ total' = total
      /\ clientEnd' = clientEnd /\ download' = download /\ reported' = reported
      /\ dir' = dir /\ slist' = slist /\ spc' = spc /\ file' = file /\ c2s' = c2s
      /\ filesize' = filesize
      /\ offset' = m2
      /\ s2c' = s2c \o Data(file, offset, m2)
  BY DEF SendChunk, TransferInv, HostInv, clientVars, dirVars
<1>1. /\ offset \in Nat /\ m2 \in Nat /\ offset < m2 /\ m2 <= EntryOf(InitDir, file).size
      /\ file \in Names /\ EntryOf(InitDir, file).size \in Nat
  <2>1. offset \in Nat /\ dir \in Seq(Entry)
    BY DEF TypeInv, TypeOK
  <2>2. NextRead \in Int /\ m2 <= EntryOf(InitDir, file).size
    BY <1>0, <2>1, NextReadType
  <2>3. NextRead > 0
    BY DEF SendChunk
  <2> QED
    BY <1>0, <2>1, <2>2, <2>3, InitEntryType
<1> HIDE DEF m2
<1>2. ~ Idle
  BY <1>0, <1>1 DEF Idle
<1>3. cpc \notin {"menu", "list", "prompt"}
  BY <1>0, <1>2 DEF TransferInv, ListPhase, PromptPhase
<1>4. ASSUME NEW k \in Nat, DataOnWay(k)
      PROVE  /\ s2c' = Data(want, k, m2)
             /\ file = want
             /\ m2 \in k..EntryOf(InitDir, want).size
  <2>1. PICK m \in k..EntryOf(InitDir, want).size :
          s2c = Data(want, k, m) /\ file = want /\ offset = m
    BY <1>0, <1>4 DEF DataOnWay
  <2>2. Data(file, k, offset) \o Data(file, offset, m2) = Data(file, k, m2)
    <3>1. k <= offset /\ offset <= m2
      BY <1>1, <2>1
    <3> QED
      BY <1>1, <3>1, DataJoin, Zenon
  <2> QED
    BY <1>0, <1>1, <2>1, <2>2
<1>5. ASSUME cpc = "first"
      PROVE  c2s = <<>> /\ DataOnWay(0)'
  <2>1. c2s = <<>> /\ DataOnWay(0)
    BY <1>0, <1>2, <1>5 DEF TransferInv, FirstPhase, Unread, MsgOnWay, NoAnswer
  <2>2. s2c' = Data(want, 0, m2) /\ file = want /\ m2 \in 0..EntryOf(InitDir, want).size
    BY <1>4, <2>1
  <2> QED
    BY <1>0, <2>1, <2>2 DEF DataOnWay
<1>6. ASSUME cpc = "rest"
      PROVE  DataOnWay(total) /\ DataOnWay(total)'
  <2>1. DataOnWay(total) /\ total \in Nat
    BY <1>0, <1>6, BufferAssumption DEF TransferInv, RestPhase, MsgOnWay, TypeInv, TypeOK
  <2>2. s2c' = Data(want, total, m2) /\ file = want /\ m2 \in total..EntryOf(InitDir, want).size
    BY <1>4, <2>1
  <2> QED
    BY <1>0, <2>1, <2>2 DEF DataOnWay
<1>7. RestPhase'
  <2> SUFFICES ASSUME cpc = "rest"
               PROVE  RestPhase'
    BY <1>0 DEF RestPhase
  <2>1. /\ want \in Typed /\ want \notin reported /\ c2s = <<>>
        /\ total = Len(download[want])
        /\ download[want] = Data(want, 0, total)
        /\ total < EntryOf(InitDir, want).size
        /\ filesize = EntryOf(InitDir, want).size
    BY <1>6 DEF TransferInv, RestPhase, MsgOnWay, DataOnWay, CanOpen
  <2> QED
    BY <1>0, <1>6, <2>1 DEF RestPhase
<1>8. HostInv'
  BY <1>0, <1>1 DEF TransferInv, HostInv
<1>9. FirstPhase'
  BY <1>0, <1>5 DEF TransferInv, FirstPhase
<1> QED
  BY <1>0, <1>3, <1>7, <1>8, <1>9
  DEF TransferInv, ListPhase, PromptPhase, DownloadFaithful

\* What the first receive of an answer can hold.
LEMMA FirstAnswer ==
  ASSUME CleanEnvironment, Inv, cpc = "first", NEW k \in 1..Len(s2c)
  PROVE  /\ c2s = <<>> /\ start = FullList
         /\ \/ DataOnWay(0) /\ SubSeq(s2c, 1, k) = Data(want, 0, k)
            \/ MsgOnWay(0) /\ SubSeq(s2c, 1, k) = MsgPart(0, k) /\ k <= MsgLen
<1> USE DEF Inv
<1>1. s2c \in Seq(Byte) /\ Len(s2c) \in Nat /\ k \in Nat /\ k >= 1
  BY LenProperties DEF TypeInv, TypeOK
<1>2. s2c # <<>>
  BY <1>1
<1>3. c2s = <<>> /\ (DataOnWay(0) \/ MsgOnWay(0))
  BY <1>2 DEF TransferInv, FirstPhase, Unread, NoAnswer
<1>4. CASE DataOnWay(0)
  <2>1. PICK m \in 0..EntryOf(InitDir, want).size : s2c = Data(want, 0, m)
    BY <1>4 DEF DataOnWay
  <2>2. want \in Names /\ EntryOf(InitDir, want).size \in Nat
    BY <1>4, InitEntryType DEF DataOnWay, CanOpen
  <2>3. m \in Nat /\ Len(s2c) = m
    BY <2>1, <2>2, DataType
  <2>4. SubSeq(Data(want, 0, m), 1, k) = Data(want, 0, 0 + k)
    <3>1. 0 \in Nat /\ 0 <= m /\ k \in 0..(m - 0)
      BY <1>1, <2>3
    <3> QED
      BY <2>2, <2>3, <3>1, DataCut, Zenon
  <2> QED
    BY <1>1, <1>3, <1>4, <2>1, <2>4 DEF DataOnWay
<1>5. CASE MsgOnWay(0)
  <2>1. s2c = MsgPart(0, MsgLen) /\ MsgLen \in Nat
    BY <1>5, BufferAssumption DEF MsgOnWay
  <2>2. Len(s2c) = MsgLen
    BY <2>1, MsgType
  <2>3. SubSeq(MsgPart(0, MsgLen), 1, k) = MsgPart(0, 0 + k)
    <3>1. 0 \in Nat /\ 0 <= MsgLen /\ k \in 0..(MsgLen - 0)
      BY <1>1, <2>1, <2>2
    <3> QED
      BY <2>1, <3>1, MsgCut, Zenon
  <2> QED
    BY <1>1, <1>3, <1>5, <2>1, <2>2, <2>3 DEF MsgOnWay
<1> QED
  BY <1>3, <1>4, <1>5

\* A receive advances in the answer it reads from.
LEMMA Advance ==
  ASSUME Inv, NEW t \in Nat, DataOnWay(t), NEW k \in 1..Len(s2c), Receive(k),
         UNCHANGED <<start, want, spc, file, offset>>
  PROVE  /\ SubSeq(s2c, 1, k) = Data(want, t, t + k)
         /\ t + k <= EntryOf(InitDir, want).size
         /\ DataOnWay(t + k)'
<1>1. PICK m \in t..EntryOf(InitDir, want).size :
        /\ s2c = Data(want, t, m)
        /\ spc = "send" => file = want /\ offset = m
        /\ spc = "recv" => m = EntryOf(InitDir, want).size
  BY DEF DataOnWay
<1>2. want \in Names /\ EntryOf(InitDir, want).size \in Nat
  BY InitEntryType DEF DataOnWay, CanOpen
<1>3. m \in Nat /\ t <= m /\ Len(s2c) = m - t
  <2>1. m \in Nat /\ t <= m /\ want \in Names \cup {NoName}
    BY <1>1, <1>2
  <2>2. Len(Data(want, t, m)) = m - t
    BY <2>1, DataType, Zenon
  <2> QED
    BY <1>1, <2>1, <2>2
<1>4. k \in 0..(m - t) /\ t + k \in Nat /\ m \in (t + k)..EntryOf(InitDir, want).size
  BY <1>1, <1>2, <1>3
<1>5. /\ SubSeq(Data(want, t, m), 1, k) = Data(want, t, t + k)
      /\ SubSeq(Data(want, t, m), k + 1, m - t) = Data(want, t + k, m)
  BY <1>2, <1>3, <1>4, DataCut, Zenon
<1>6. s2c' = Data(want, t + k, m)
  BY <1>1, <1>3, <1>5 DEF Receive
<1>7. DataOnWay(t + k)'
  BY <1>1, <1>4, <1>6 DEF DataOnWay
<1> QED
  BY <1>1, <1>2, <1>4, <1>5, <1>7

LEMMA AdvanceMsg ==
  ASSUME Inv, NEW t \in Nat, MsgOnWay(t), NEW k \in 1..Len(s2c), Receive(k),
         UNCHANGED <<start, want, spc>>
  PROVE  /\ t + k <= MsgLen
         /\ MsgOnWay(t + k)'
<1>1. MsgLen \in Nat /\ t <= MsgLen /\ s2c = MsgPart(t, MsgLen)
  BY BufferAssumption DEF MsgOnWay
<1>2. Len(s2c) = MsgLen - t
  BY <1>1, MsgType
<1>3. k \in 0..(MsgLen - t) /\ t + k <= MsgLen
  BY <1>1, <1>2
<1>4. SubSeq(MsgPart(t, MsgLen), k + 1, MsgLen - t) = MsgPart(t + k, MsgLen)
  BY <1>1, <1>3, MsgCut, Zenon
<1>5. s2c' = MsgPart(t + k, MsgLen)
  BY <1>1, <1>2, <1>4 DEF Receive
<1> QED
  BY <1>1, <1>3, <1>5 DEF MsgOnWay

\* The message arrived whole.
LEMMA TransferMissing ==
  ASSUME CleanEnvironment, Inv, ReplyMissing
  PROVE  (TransferInv /\ DownloadFaithful)'
<1> USE DEF Inv
<1>1. PICK k \in 1..Len(s2c) : Receive(k) /\ SubSeq(s2c, 1, k) = Msg
  BY DEF ReplyMissing
<1>2. cpc = "first" /\ k \in Nat \ {0}
  BY LenProperties DEF ReplyMissing, TypeInv, TypeOK
<1>3. c2s = <<>> /\ start = FullList
  BY <1>2, FirstAnswer
<1>4. want \in Names
  BY <1>2 DEF TypeInv
<1>5. MsgOnWay(0) /\ k = MsgLen
  <2>1. Data(want, 0, k) # Msg
    BY <1>2, <1>4, DataIsNotMsg
  <2>2. MsgOnWay(0) /\ SubSeq(s2c, 1, k) = MsgPart(0, k) /\ k <= MsgLen
    BY <1>1, <1>2, <2>1, FirstAnswer
  <2>3. k \in 0..MsgLen
    BY <1>2, <2>2, BufferAssumption
  <2> QED
    BY <1>1, <2>2, <2>3, PartOfMsg
<1>6. /\ UNCHANGED <<start, want, filesize, download, reported, spc, slist, file, offset>>
      /\ UNCHANGED <<c2s, conn, clientEnd, dir>>
      /\ cpc' = "prompt"
  BY DEF ReplyMissing, serverVars, dirVars
<1>7. s2c' = <<>>
  <2>1. MsgOnWay(0 + k)'
    BY <1>1, <1>5, <1>6, AdvanceMsg
  <2>2. 0 + k = MsgLen
    BY <1>2, <1>5
  <2>3. s2c' = MsgPart(MsgLen, MsgLen)
    BY <2>1, <2>2 DEF MsgOnWay
  <2> QED
    BY <1>4, <1>5, <1>2, <2>3, NothingLeft
<1>8. spc \in {"recv", "dead"}
  BY <1>5 DEF MsgOnWay
<1> QED
  BY <1>2, <1>3, <1>6, <1>7, <1>8
  DEF TransferInv, HostInv, ListPhase, PromptPhase, FirstPhase, RestPhase, DownloadFaithful, Idle

\* Bytes of the file were received and stored, t of them so far.
LEMMA TransferStored ==
  ASSUME CleanEnvironment, Inv, FirstChunk \/ NextChunk,
         c2s = <<>>, start = FullList,
         NEW t \in Nat \ {0},
         Present(InitDir, want), t <= EntryOf(InitDir, want).size,
         DataOnWay(t)', total' = t, filesize' = EntryOf(InitDir, want).size,
         download' = [download EXCEPT ![want] = Data(want, 0, t)]
  PROVE  (TransferInv /\ DownloadFaithful)'
<1> USE DEF Inv
<1> DEFINE size == EntryOf(InitDir, want).size
<1>0. want \in Names /\ size \in Nat
  BY InitEntryType
<1>1. /\ UNCHANGED <<start, want, spc, slist, file, offset, c2s, conn, clientEnd, dir>>
      /\ cpc \in {"first", "rest"}
      /\ CheckTotal(size, t)
  BY DEF FirstChunk, NextChunk, serverVars, dirVars
<1>2. /\ download'[want] = Data(want, 0, t) /\ Len(download'[want]) = t
      /\ \A n \in Names \ {want} : download'[n] = download[n]
  <2>1. download \in [Names -> Seq(Byte)]
    BY DEF TypeInv, TypeOK
  <2>2. Len(Data(want, 0, t)) = t - 0
    <3>1. want \in Names \cup {NoName} /\ 0 \in Nat /\ t \in Nat /\ 0 <= t
      BY <1>0
    <3> QED
      BY <3>1, DataType, Zenon
  <2> QED
    BY <1>0, <2>1, <2>2
<1>3. want \in Typed
  BY <1>1 DEF TransferInv, FirstPhase, RestPhase
<1>4. dir = InitDir /\ reported \subseteq Names
  BY DEF TransferInv, HostInv, TypeInv, TypeOK
<1>5. CASE size = t
  <2>1. cpc' = "prompt" /\ reported' = reported \cup {want}
    BY <1>1, <1>5 DEF CheckTotal
  <2>2. (s2c = <<>> /\ Idle)'
    <3>1. PICK m \in t..EntryOf(InitDir, want').size :
            /\ s2c' = Data(want', t, m)
            /\ spc' = "send" => file' = want' /\ offset' = m
      BY DEF DataOnWay
    <3>2. m = t /\ EntryOf(InitDir, want').size = t
      BY <1>0, <1>1, <1>5, <3>1
    <3>3. Data(want, t, t) = <<>>
      BY <1>0, NothingLeft
    <3> QED
      BY <1>1, <3>1, <3>2, <3>3 DEF Idle
  <2>3. DownloadFaithful'
    BY <1>1, <1>2, <1>4, <1>5, <2>1 DEF DownloadFaithful
  <2>4. HostInv' /\ ListPhase' /\ FirstPhase' /\ RestPhase'
    BY <1>1, <2>1 DEF TransferInv, HostInv, ListPhase, FirstPhase, RestPhase
  <2>5. PromptPhase'
    BY <1>1, <2>1, <2>2 DEF PromptPhase
  <2> QED
    BY <2>3, <2>4, <2>5 DEF TransferInv
<1>6. CASE size # t
  <2>1. cpc' = "rest" /\ reported' = reported \ {want}
    BY <1>1, <1>6 DEF CheckTotal
  <2>2. t < size
    BY <1>0, <1>6
  <2>3. DownloadFaithful'
    BY <1>1, <1>2, <1>4, <2>1 DEF DownloadFaithful
  <2>4. HostInv' /\ ListPhase' /\ PromptPhase' /\ FirstPhase'
    BY <1>1, <2>1 DEF TransferInv, HostInv, ListPhase, FirstPhase, PromptPhase
  <2>5. DataOnWay(total)'
    BY DEF DataOnWay
  <2>6. RestPhase'
    BY <1>1, <1>2, <1>3, <2>1, <2>2, <2>5 DEF RestPhase
  <2> QED
    BY <2>3, <2>4, <2>6 DEF TransferInv
<1> QED
  BY <1>5, <1>6

\* A part of the message was stored in place of the file.
LEMMA TransferMistaken ==
  ASSUME CleanEnvironment, Inv, FirstChunk \/ NextChunk,
         c2s = <<>>, start = FullList,
         NEW t \in Nat \ {0}, want \in Names, MsgOnWay(t)', total' = t, filesize' = 0,
         NEW b \in Seq(Byte), Len(b) = t, download' = [download EXCEPT ![want] = b]
  PROVE  (TransferInv /\ DownloadFaithful)'
<1> USE DEF Inv
<1>1. /\ UNCHANGED <<start, want, spc, slist, file, offset, c2s, conn, clientEnd, dir>>
      /\ cpc \in {"first", "rest"}
      /\ CheckTotal(0, t)
  BY DEF FirstChunk, NextChunk, serverVars, dirVars
<1>2. /\ Len(download'[want]) = t
      /\ \A n \in Names \ {want} : download'[n] = download[n]
  BY DEF TypeInv, TypeOK
<1>3. want \in Typed
  BY <1>1 DEF TransferInv, FirstPhase, RestPhase
<1>4. cpc' = "rest" /\ reported' = reported \ {want}
  BY <1>1 DEF CheckTotal
<1>5. DownloadFaithful'
  BY <1>1, <1>2, <1>4 DEF DownloadFaithful, TypeInv, TypeOK
<1>6. HostInv' /\ ListPhase' /\ PromptPhase' /\ FirstPhase'
  BY <1>1, <1>4 DEF TransferInv, HostInv, ListPhase, FirstPhase, PromptPhase
<1>7. MsgOnWay(total)'
  BY DEF MsgOnWay
<1>8. RestPhase'
  BY <1>1, <1>2, <1>3, <1>4, <1>7 DEF RestPhase
<1> QED
  BY <1>5, <1>6, <1>8 DEF TransferInv

LEMMA TransferFirstChunk ==
  ASSUME CleanEnvironment, Inv, FirstChunk
  PROVE  (TransferInv /\ DownloadFaithful)'
<1> USE DEF Inv
<1>1. PICK k \in 1..Len(s2c) :
        /\ Receive(k)
        /\ SubSeq(s2c, 1, k) # Msg
        /\ download' = [download EXCEPT ![want] = SubSeq(s2c, 1, k)]
        /\ total' = Count(k)
  BY DEF FirstChunk
<1>2. /\ cpc = "first" /\ total = 0
      /\ s2c \in Seq(Byte) /\ k \in Nat \ {0} /\ k \in 0..Len(s2c) /\ 0 + k = k
      /\ want \in Names
      /\ UNCHANGED <<start, want, spc, file, offset>>
      /\ filesize' = get_filesize(want, start)
  BY LenProperties DEF FirstChunk, TypeInv, TypeOK, SizeInv, LoopInv, serverVars
<1>3. c2s = <<>> /\ start = FullList
  BY <1>2, FirstAnswer
<1>4. ASSUME k < Modulus
      PROVE  total' = k
  BY <1>1, <1>2, <1>4, ModSmall, BufferAssumption DEF Count
<1>5. CASE DataOnWay(0) /\ SubSeq(s2c, 1, k) = Data(want, 0, k)
  <2>1. k <= EntryOf(InitDir, want).size /\ DataOnWay(k)'
    BY <1>1, <1>2, <1>5, Advance
  <2>2. Present(InitDir, want) /\ EntryOf(InitDir, want).size \in Nat
        /\ EntryOf(InitDir, want).size < Modulus
    BY <1>5, InitEntryType DEF DataOnWay, CanOpen
  <2>3. total' = k
    BY <1>2, <1>4, <2>1, <2>2, BufferAssumption
  <2>4. filesize' = EntryOf(InitDir, want).size
    BY <1>2, <1>3, <2>2, FullListSize
  <2>5. download' = [download EXCEPT ![want] = Data(want, 0, k)]
    BY <1>1, <1>5
  <2> QED
    BY <1>2, <1>3, <2>1, <2>2, <2>3, <2>4, <2>5, TransferStored
<1>6. CASE MsgOnWay(0) /\ SubSeq(s2c, 1, k) = MsgPart(0, k) /\ k <= MsgLen
  <2>1. MsgOnWay(k)' /\ ~ Present(InitDir, want)
    BY <1>1, <1>2, <1>6, AdvanceMsg DEF MsgOnWay
  <2>2. total' = k
    BY <1>2, <1>4, <1>6, BufferAssumption DEF CleanEnvironment
  <2>3. filesize' = 0
    BY <1>2, <1>3, <2>1, FullListSize
  <2>4. SubSeq(s2c, 1, k) \in Seq(Byte) /\ Len(SubSeq(s2c, 1, k)) = k
    BY <1>2, CutType
  <2> QED
    BY <1>1, <1>2, <1>3, <2>1, <2>2, <2>3, <2>4, TransferMistaken
<1> QED
  BY <1>2, <1>5, <1>6, FirstAnswer

LEMMA TransferNextChunk ==
  ASSUME CleanEnvironment, Inv, NextChunk
  PROVE  (TransferInv /\ DownloadFaithful)'
<1> USE DEF Inv
<1>1. PICK k \in 1..Len(s2c) :
        /\ Receive(k)
        /\ download' = [download EXCEPT ![want] = @ \o SubSeq(s2c, 1, k)]
        /\ total' = Count(k)
  BY DEF NextChunk
<1>2. /\ cpc = "rest"
      /\ s2c \in Seq(Byte) /\ k \in Nat \ {0} /\ k \in 0..Len(s2c)
      /\ want \in Names /\ download[want] \in Seq(Byte)
      /\ UNCHANGED <<start, want, spc, file, offset, filesize>>
  BY LenProperties DEF NextChunk, TypeInv, TypeOK, serverVars
<1>3. PICK t \in Nat : t = total
  BY BufferAssumption DEF TypeInv, TypeOK
<1>4. c2s = <<>> /\ t = Len(download[want]) /\ start = FullList /\ t + k \in Nat \ {0}
  BY <1>2, <1>3 DEF TransferInv, RestPhase, DataOnWay, MsgOnWay
<1>5. ASSUME t + k < Modulus
      PROVE  total' = t + k
  BY <1>1, <1>3, <1>4, <1>5, ModSmall, BufferAssumption DEF Count
<1>6. download' = [download EXCEPT ![want] = download[want] \o SubSeq(s2c, 1, k)]
  BY <1>1
<1>7. CASE /\ DataOnWay(total) /\ download[want] = Data(want, 0, total)
           /\ filesize = EntryOf(InitDir, want).size
  <2>1. /\ SubSeq(s2c, 1, k) = Data(want, t, t + k)
        /\ t + k <= EntryOf(InitDir, want).size
        /\ DataOnWay(t + k)'
    BY <1>1, <1>2, <1>3, <1>7, Advance
  <2>2. Present(InitDir, want) /\ EntryOf(InitDir, want).size \in Nat
        /\ EntryOf(InitDir, want).size < Modulus
    BY <1>7, InitEntryType DEF DataOnWay, CanOpen
  <2>3. total' = t + k
    BY <1>4, <1>5, <2>1, <2>2, BufferAssumption
  <2>4. Data(want, 0, t) \o Data(want, t, t + k) = Data(want, 0, t + k)
    <3>1. 0 \in Nat /\ t + k \in Nat /\ 0 <= t /\ t <= t + k
      BY <1>2, <1>3
    <3> QED
      BY <1>2, <3>1, DataJoin, Zenon
  <2>5. download' = [download EXCEPT ![want] = Data(want, 0, t + k)]
    BY <1>3, <1>6, <1>7, <2>1, <2>4
  <2>6. filesize' = EntryOf(InitDir, want).size
    BY <1>2, <1>7
  <2> QED
    BY <1>4, <2>1, <2>2, <2>3, <2>5, <2>6, TransferStored
<1>8. CASE MsgOnWay(total) /\ filesize = 0
  <2>1. t + k <= MsgLen /\ MsgOnWay(t + k)'
    BY <1>1, <1>2, <1>3, <1>8, AdvanceMsg
  <2>2. total' = t + k
    BY <1>4, <1>5, <2>1, BufferAssumption DEF CleanEnvironment
  <2>3. SubSeq(s2c, 1, k) \in Seq(Byte) /\ Len(SubSeq(s2c, 1, k)) = k
    BY <1>2, CutType
  <2> DEFINE b == download[want] \o SubSeq(s2c, 1, k)
  <2>4. b \in Seq(Byte) /\ Len(b) = t + k
    BY <1>2, <1>4, <2>3, ConcatProperties
  <2>5. filesize' = 0
    BY <1>2, <1>8
  <2>6. download' = [download EXCEPT ![want] = b]
    BY <1>6
  <2> HIDE DEF b
  <2> QED
    BY <1>2, <1>4, <2>1, <2>2, <2>4, <2>5, <2>6, TransferMistaken
<1> QED
  BY <1>2, <1>7, <1>8 DEF TransferInv, RestPhase
-----------------------------------------------------------------------------
LEMMA TransferStep ==
  ASSUME CleanEnvironment, Inv, [Next]_vars
  PROVE  Inv'
<1>0. "rst" \notin Faults
  BY DEF CleanEnvironment
<1>1. TypeInv' /\ SizeInv' /\ NeverReset'
  BY <1>0, TypeStep, SizeStep, NeverResetStep DEF Inv
<1>2. CASE ClientStep
  <2>1. ~ RecvError /\ ~ CreateFails
    BY DEF RecvError, CreateFails, Inv, NeverReset, CleanEnvironment
  <2> QED
    BY <1>1, <1>2, <2>1, TransferListing, TransferQuiet, TransferMissing, TransferFirstChunk,
       TransferNextChunk
    DEF ClientStep, Inv
<1>3. CASE UserStep
  BY <1>1, <1>3, TransferQuiet, TransferRequest DEF UserStep, Inv
<1>4. CASE ServerStep
  BY <1>1, <1>4, TransferQuiet, TransferSendList, TransferHandle, TransferSendChunk
  DEF ServerStep, Inv
<1>5. CASE Environment
  <2>1. ~ EditDir
    BY DEF EditDir, CleanEnvironment, Inv, TypeInv, TypeOK
  <2> QED
    BY <1>1, <1>5, <2>1, TransferQuiet DEF Environment, Inv
<1>6. CASE UNCHANGED vars
  <2>1. (TransferInv /\ DownloadFaithful)'
    BY <1>6 DEF vars, clientVars, serverVars, dirVars, Inv, TransferInv, DownloadFaithful,
                HostInv, ListPhase, PromptPhase, FirstPhase, RestPhase, DataOnWay, MsgOnWay,
                NoAnswer, Unread, Idle
  <2> QED
    BY <1>1, <2>1 DEF Inv
<1> QED
  BY <1>2, <1>3, <1>4, <1>5, <1>6 DEF Next

LEMMA InvInit == Init => Inv
  BY TypeInit, SizeInit, TransferInit DEF Inv, Init, NeverReset

\* In a clean environment the streams hold the answer to the last request and
\* nothing else at every point of download_files and of the listener's loop.
THEOREM TransferTheorem ==
  ASSUME CleanEnvironment
  PROVE  Spec => []TransferInv
<1>1. Inv /\ [Next]_vars => Inv'
  BY TransferStep
<1>2. Inv => TransferInv
  BY DEF Inv
<1> QED
  BY InvInit, <1>1, <1>2, PTL DEF Spec

\* In a clean environment a file reported "downloaded successfully" holds the
\* bytes of the host's file: for every upload directory, every size of file and
\* buffer, every way TCP cuts the host's answers (names of requests arrive whole),
\* and a client or a host that goes away.
THEOREM DownloadTheorem ==
  ASSUME CleanEnvironment
  PROVE  Spec => []DownloadFaithful
<1>1. Inv /\ [Next]_vars => Inv'
  BY TransferStep
<1>2. Inv => DownloadFaithful
  BY DEF Inv
<1> QED
  BY InvInit, <1>1, <1>2, PTL DEF Spec

(***************************************************************************)
(* What a user must ask for so that the two sides never wait for each      *)
(* other: upload/ is not empty, and every name typed is that of a file     *)
(* with at least one byte.                                                 *)
(***************************************************************************)
SafeRequests ==
  /\ InitDir # <<>>
  /\ \A n \in Typed : CanOpen(InitDir, n) /\ EntryOf(InitDir, n).size > 0

LEMMA NoWait ==
  ASSUME CleanEnvironment, SafeRequests, Inv
  PROVE  NoMutualWait
<1> SUFFICES ASSUME cpc \in {"list", "first", "rest"}, s2c = <<>>,
                    spc = "recv", c2s = <<>>, conn = "open"
             PROVE  FALSE
  BY DEF NoMutualWait
<1> USE DEF Inv, TransferInv
<1>1. CASE cpc = "list"
  <2>1. s2c = Listing(InitDir)
    BY <1>1 DEF ListPhase
  <2>2. Len(s2c) = Len(InitDir)
    BY <2>1, ListingType, DirAssumption
  <2>3. Len(InitDir) # 0
    BY DirAssumption, EmptySeq DEF SafeRequests
  <2> QED
    BY <2>2, <2>3
<1>2. ASSUME NEW t \in Nat, want \in Typed, DataOnWay(t), t < EntryOf(InitDir, want).size
      PROVE  FALSE
  <2>1. s2c = Data(want, t, EntryOf(InitDir, want).size)
    BY <1>2 DEF DataOnWay
  <2>2. want \in Names \cup {NoName} /\ EntryOf(InitDir, want).size \in Nat
        /\ t <= EntryOf(InitDir, want).size
    BY <1>2, InitEntryType DEF DataOnWay, CanOpen
  <2>3. Len(Data(want, t, EntryOf(InitDir, want).size)) = EntryOf(InitDir, want).size - t
    BY <2>2, DataType, Zenon
  <2>4. Len(s2c) = 0
    OBVIOUS
  <2> QED
    BY <1>2, <2>1, <2>2, <2>3, <2>4
<1>3. want \in Typed => CanOpen(InitDir, want) /\ Present(InitDir, want)
                        /\ 0 < EntryOf(InitDir, want).size
  BY InitEntryType DEF SafeRequests, CanOpen
<1>4. CASE cpc = "first"
  <2>1. want \in Typed /\ DataOnWay(0)
    BY <1>3, <1>4 DEF FirstPhase, Unread, MsgOnWay, NoAnswer
  <2> QED
    BY <1>2, <1>3, <2>1
<1>5. CASE cpc = "rest"
  <2>1. want \in Typed /\ DataOnWay(total) /\ total < EntryOf(InitDir, want).size
    BY <1>3, <1>5 DEF RestPhase, MsgOnWay
  <2>2. total \in Nat
    BY BufferAssumption DEF TypeInv, TypeOK
  <2> QED
    BY <1>2, <2>1, <2>2
<1> QED
  BY <1>1, <1>4, <1>5

\* In a clean environment, when only the names of non-empty files are typed, the
\* client's recv and the host's recv never wait for each other, whatever the
\* lengths of files and buffers and however the stream of answers is cut.
THEOREM NoMutualWaitTheorem ==
  ASSUME CleanEnvironment, SafeRequests
  PROVE  Spec => []NoMutualWait
<1>1. Inv /\ [Next]_vars => Inv'
  BY TransferStep
<1>2. Inv => NoMutualWait
  BY NoWait
<1> QED
  BY InvInit, <1>1, <1>2, PTL DEF Spec
(***************************************************************************)
(* What a user may ask for so that every answer comes: the name of a file, *)
(* or a word that occurs nowhere in the listing.  What remains is the name *)
(* of a subdirectory and a part of another name, which the host finds with *)
(* strstr and then cannot open.                                            *)
(***************************************************************************)
PlainRequests ==
  \A n \in Typed :
    \/ CanOpen(InitDir, n)
    \/ \A i \in 1..Len(InitDir) : <<n, InitDir[i].name>> \notin Occurs

LEMMA Answered ==
  ASSUME CleanEnvironment, PlainRequests, Inv
  PROVE  MissingIsAnswered
<1> SUFFICES ASSUME cpc = "first", conn = "open", spc = "recv", c2s = <<>>,
                    ~ CanOpen(dir, want), s2c = <<>>
             PROVE  FALSE
  BY DEF MissingIsAnswered
<1> USE DEF Inv, TransferInv
<1>1. dir = InitDir /\ want \in Typed
  BY DEF HostInv, FirstPhase
<1>2. ~ CanOpen(InitDir, want)
  BY <1>1
<1>3. ~ Unread
  BY DEF Unread
<1>4. ~ DataOnWay(0)
  BY <1>2 DEF DataOnWay
<1>5. ~ NoAnswer
  BY <1>1, <1>2 DEF NoAnswer, PlainRequests
<1>6. ~ MsgOnWay(0)
  <2>1. MsgLen \in Nat \ {0}
    BY BufferAssumption
  <2>2. Len(MsgPart(0, MsgLen)) = MsgLen - 0
    BY <2>1, MsgType
  <2>3. Len(s2c) = 0
    OBVIOUS
  <2> QED
    BY <2>1, <2>2, <2>3 DEF MsgOnWay
<1> QED
  BY <1>3, <1>4, <1>5, <1>6 DEF FirstPhase

\* In a clean environment, when every name typed is that of a file or occurs
\* nowhere in the listing, "File does not exist." is on the stream as soon as the
\* listener has handled a request for a file that it cannot open.
THEOREM MissingTheorem ==
  ASSUME CleanEnvironment, PlainRequests
  PROVE  Spec => []MissingIsAnswered
<1>1. Inv /\ [Next]_vars => Inv'
  BY TransferStep
<1>2. Inv => MissingIsAnswered
  BY Answered
<1> QED
  BY InvInit, <1>1, <1>2, PTL DEF Spec
=============================================================================
