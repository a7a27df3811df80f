------------------------------ MODULE Session ------------------------------
(***************************************************************************)
(* One session between two peers running tomypeersV2.c.  The main thread   *)
(* of the client peer connects, reads the listing of the host's upload/    *)
(* directory and downloads files (main, recv_and_display_file_list,        *)
(* download_files); the listener thread of the host peer accepts, sends    *)
(* the listing and serves requests (listen_for_connections).  They share   *)
(* nothing but a TCP connection, which carries two byte streams without    *)
(* message boundaries: recv returns any non-empty prefix of what arrived.  *)
(*                                                                         *)
(* The client's linked list is here the sequence it stands for; module     *)
(* FileList models its nodes, and what freelist leaves behind.             *)
(***************************************************************************)
EXTENDS Integers, SequencesExt

CONSTANTS
  Names,       \* file names, and words a user can type
  NoName,      \* what two requests read by one recv make: no file's name
  InitDir,     \* upload/ at the start, in the order FindNextFile gives
  Typed,       \* what the downloading user may type at the prompt
  FirstWord,   \* FirstWord[n]: n up to its first blank (all "%s" keeps)
  Occurs,      \* <<w, n>>: strstr finds w in the listing line of n
  FileBuffer,  \* sizeof(file_buffer): 3072 in the code
  RecvBuffer,  \* sizeof(recv_buffer): 4096 in the code
  MsgLen,      \* strlen("File does not exist."): 20 in the code
  Modulus,     \* 2^32: nFileSizeLow, int and unsigned long have 32 bits
  WireCap,     \* bytes TCP buffers before the host's send blocks
  ReqCap,      \* requests TCP buffers before the client's send blocks
  MaxRequests, \* bound: names the user types in the session
  Faults,      \* what may go wrong in the environment (see FaultKinds)
  MaxEdits,    \* bound: changes to upload/ during the session
  EditSizes    \* bound: the sizes such a change gives a file

(***************************************************************************)
(* refused: connect fails.  accept: accept fails.  fin, rst: the host's    *)
(* process ends and its socket closes in order, or with a reset.  kill:    *)
(* the client's process ends.  create: fopen of the downloaded file fails. *)
(* split: the listing arrives in more than one piece.                      *)
(***************************************************************************)
FaultKinds == {"refused", "accept", "fin", "rst", "kill", "create", "split"}

\* An entry of upload/; a subdirectory is listed like a file but not opened.
Entry == [name : Names, size : Nat, isdir : BOOLEAN]

ASSUME BufferAssumption ==
  /\ FileBuffer \in Nat \ {0}
  /\ RecvBuffer \in Nat \ {0}
  /\ MsgLen \in Nat \ {0}
  /\ Modulus \in Nat \ {0}
  /\ WireCap \in Nat
  /\ ReqCap \in Nat

ASSUME DirAssumption ==
  /\ InitDir \in Seq(Entry)
  /\ \A i, j \in 1..Len(InitDir) : InitDir[i].name = InitDir[j].name => i = j

ASSUME NamesAssumption ==
  /\ NoName \notin Names
  /\ Typed \subseteq Names
  /\ FirstWord \in [Names -> Names]
  /\ \A n \in Typed : FirstWord[n] = n   \* scanf("%s") reads one word
  /\ Occurs \subseteq Names \X Names
  /\ \A n \in Names : <<n, n>> \in Occurs

ASSUME EnvironmentAssumption ==
  /\ Faults \subseteq FaultKinds
  /\ MaxRequests \in Nat
  /\ MaxEdits \in Nat
  /\ EditSizes \subseteq Nat

VARIABLES
  cpc,       \* where the client's main thread is
  start,     \* the client's list of names and sizes
  want,      \* send_buffer: the name the user typed last
  asked,     \* how many names the user has typed
  filesize,  \* filesize of download_files
  total,     \* total_bytes_recv, modulo 2^32
  download,  \* the client's download/ directory: bytes of each file
  reported,  \* the files last reported "downloaded successfully"
  spc,       \* where the host's listener thread is
  slist,     \* file_list of listen_for_connections: the names it mentions
  file,      \* the file the host has open
  offset,    \* how far the host has read it
  s2c, c2s,  \* bytes from host to client, requests from client to host
  conn,      \* the connection as the client's recv sees it
  clientEnd, \* the client's socket
  dir,       \* the host's upload/ directory
  edits      \* changes made to it

clientVars == <<start, want, asked, filesize, total, download, reported>>
serverVars == <<slist, file, offset>>
dirVars    == <<dir, edits>>
vars == <<cpc, clientVars, spc, serverVars, s2c, c2s, conn, clientEnd, dirVars>>
-----------------------------------------------------------------------------
(***************************************************************************)
(* Bytes.  A byte knows where it came from: position at of file name, of   *)
(* the message, or a whole line of the listing with the size it prints.    *)
(***************************************************************************)
Byte == [kind : {"data", "line", "msg", "junk"},
         name : Names \cup {NoName}, at : Nat]

\* Bytes a+1 to b of something.
Part(kind, n, a, b) ==
  [i \in 1..(b - a) |-> [kind |-> kind, name |-> n, at |-> a + i]]

\* Bytes a+1 to b of file n, as fread returns them.
Data(n, a, b) == Part("data", n, a, b)

\* Bytes a+1 to b of "File does not exist."
MsgPart(a, b) == Part("msg", NoName, a, b)
Msg == MsgPart(0, MsgLen)

\* A byte of the client's stack, written when recv's -1 becomes a count.
Junk == [kind |-> "junk", name |-> NoName, at |-> 0]
-----------------------------------------------------------------------------
(***************************************************************************)
(* The upload directory.                                                   *)
(***************************************************************************)
EntryOf(d, n) == d[CHOOSE i \in 1..Len(d) : d[i].name = n]
Present(d, n) == \E i \in 1..Len(d) : d[i].name = n

\* fopen(upload_path, "rb") succeeds.
CanOpen(d, n) == Present(d, n) /\ ~ EntryOf(d, n).isdir

\* The text send_file_list builds: one line an entry, with nFileSizeLow.
Listing(d) == [i \in 1..Len(d) |->
                 [kind |-> "line", name |-> d[i].name, at |-> d[i].size % Modulus]]

\* Mutant: the check of the name against the listing is left out.
AnyName(w) == TRUE

\* strstr(file_list, file_name) # NULL.
InList(w) == \E n \in slist : <<w, n>> \in Occurs

\* Mutant: fread returns the number of whole buffers, and drops the last bytes.
WholeBufferRead == IF EntryOf(dir, file).size - offset < FileBuffer THEN 0 ELSE FileBuffer

\* What fread reads next: a full buffer, or what is left of the file.
NextRead == LET left == EntryOf(dir, file).size - offset
            IN  IF left < FileBuffer THEN left ELSE FileBuffer
-----------------------------------------------------------------------------
(***************************************************************************)
(* The client's list.                                                      *)
(***************************************************************************)
Node == [filename : Names, filesize : 0..(Modulus - 1)]

(***************************************************************************)
(* The node sscanf(token, "%s (%d bytes)") and appendNode make of a line.  *)
(* After a name with a blank in it the pattern does not match and the      *)
(* local variable filesize keeps whatever it held.                         *)
(***************************************************************************)
ParseLine(line, held) ==
  [filename |-> FirstWord[line.name],
   filesize |-> IF FirstWord[line.name] = line.name THEN line.at ELSE held]

\* The size in the first node with that name, 0 if there is none.
get_filesize(n, list) ==
  LET Found(i) == list[i].filename = n
  IN  IF \E i \in 1..Len(list) : Found(i)
      THEN list[CHOOSE i \in 1..Len(list) :
                  Found(i) /\ \A j \in 1..(i - 1) : ~ Found(j)].filesize
      ELSE 0
-----------------------------------------------------------------------------
Init ==
  /\ cpc = "menu"
  /\ start = <<>>
  /\ want = NoName
  /\ asked = 0
  /\ filesize = 0
  /\ total = 0
  /\ download = [n \in Names |-> <<>>]
  /\ reported = {}
  /\ spc = "accept"
  /\ slist = {}
  /\ file = NoName
  /\ offset = 0
  /\ s2c = <<>>
  /\ c2s = <<>>
  /\ conn = "none"
  /\ clientEnd = "open"
  /\ dir = InitDir
  /\ edits = 0
-----------------------------------------------------------------------------
(***************************************************************************)
(* The client's main thread.                                               *)
(***************************************************************************)

\* establish_connection: connect returns once the host's backlog has it.
Connect ==
  /\ cpc = "menu"
  /\ spc # "dead"
  /\ cpc' = "list"
  /\ conn' = "open"
  /\ UNCHANGED <<clientVars, spc, serverVars, s2c, c2s, clientEnd, dirVars>>

\* connect fails; the code goes on with the socket, on which all calls fail.
ConnectFails ==
  /\ cpc = "menu"
  /\ "refused" \in Faults \/ spc = "dead"
  /\ cpc' = "list"
  /\ conn' = "rst"
  /\ UNCHANGED <<clientVars, spc, serverVars, s2c, c2s, clientEnd, dirVars>>

\* Mutant: the counter is declared outside the loop and never reset.
KeepCount == total

\* unsigned long total_bytes_recv = 0, for every request.
ResetCount == 0

\* Mutant: a counter of more than 32 bits.
WideCount(k) == total + k

\* Mutant: the size of the buffer is counted, not the bytes in it.
BufferCount(k) == (total + RecvBuffer) % Modulus

\* total_bytes_recv += bytes_received.
Count(k) == (total + k) % Modulus

\* recv returns the first k bytes of the stream.
Receive(k) ==
  /\ k <= RecvBuffer
  /\ s2c' = SubSeq(s2c, k + 1, Len(s2c))

\* recv returns 0: the host closed and everything it sent was read.
EndOfStream == conn = "fin" /\ s2c = <<>>

\* recv_and_display_file_list: one recv, one node for each line in it.
recv_and_display_file_list ==
  /\ cpc = "list"
  /\ \E k \in 1..Len(s2c) : \E held \in [1..k -> 0..(Modulus - 1)] :
       /\ k = Len(s2c) \/ "split" \in Faults
       /\ start' = start \o [i \in 1..k |-> ParseLine(s2c[i], held[i])]
       /\ s2c' = SubSeq(s2c, k + 1, Len(s2c))
  /\ cpc' = "prompt"
  /\ UNCHANGED <<want, asked, filesize, total, download, reported, spc, serverVars,
                 c2s, conn, clientEnd, dirVars>>

\* The same when recv returns 0 or an error: no node is made.
NoListing ==
  /\ cpc = "list"
  /\ EndOfStream \/ conn = "rst"
  /\ cpc' = "prompt"
  /\ UNCHANGED <<clientVars, spc, serverVars, s2c, c2s, conn, clientEnd, dirVars>>

\* download_files: the user types a name and it is sent.
Request(n) ==
  /\ cpc = "prompt"
  /\ asked < MaxRequests
  /\ asked' = asked + 1
  /\ want' = n
  /\ total' = ResetCount
  /\ \/ conn = "open" /\ Len(c2s) < ReqCap /\ c2s' = Append(c2s, n)
     \/ conn # "open" /\ UNCHANGED c2s
  /\ cpc' = "first"
  /\ UNCHANGED <<start, filesize, download, reported, spc, serverVars, s2c, conn,
                 clientEnd, dirVars>>

\* Mutant: the loop ends when enough has arrived, not when exactly that has.
CheckAtLeast(size, count) ==
  /\ cpc' = IF size <= count THEN "prompt" ELSE "rest"
  /\ reported' = IF size <= count THEN reported \cup {want} ELSE reported \ {want}

\* while (filesize != total_bytes_recv), and what follows the loop.
CheckTotal(size, count) ==
  /\ cpc' = IF size = count THEN "prompt" ELSE "rest"
  /\ reported' = IF size = count THEN reported \cup {want} ELSE reported \ {want}

\* The first recv returns exactly "File does not exist."
ReplyMissing ==
  /\ cpc = "first"
  /\ \E k \in 1..Len(s2c) :
       /\ Receive(k)
       /\ SubSeq(s2c, 1, k) = Msg
       /\ total' = Count(k)
  /\ cpc' = "prompt"
  /\ UNCHANGED <<start, want, asked, filesize, download, reported, spc, serverVars, c2s,
                 conn, clientEnd, dirVars>>

\* The first recv returns other bytes, but the file cannot be created.
CreateFails ==
  /\ cpc = "first"
  /\ "create" \in Faults
  /\ \E k \in 1..Len(s2c) :
       /\ Receive(k)
       /\ SubSeq(s2c, 1, k) # Msg
       /\ total' = Count(k)
  /\ cpc' = "prompt"
  /\ UNCHANGED <<start, want, asked, filesize, download, reported, spc, serverVars, c2s,
                 conn, clientEnd, dirVars>>

\* The first recv returns other bytes: the file is created and they go to it.
FirstChunk ==
  /\ cpc = "first"
  /\ \E k \in 1..Len(s2c) :
       /\ Receive(k)
       /\ SubSeq(s2c, 1, k) # Msg
       /\ download' = [download EXCEPT ![want] = SubSeq(s2c, 1, k)]
       /\ total' = Count(k)
  /\ filesize' = get_filesize(want, start)
  /\ CheckTotal(filesize', total')
  /\ UNCHANGED <<start, want, asked, spc, serverVars, c2s, conn, clientEnd, dirVars>>

\* The first recv returns 0 or -1: back to the prompt.
NoReply ==
  /\ cpc = "first"
  /\ \/ EndOfStream /\ total' = total
     \/ conn = "rst" /\ total' = Count(-1)
  /\ cpc' = "prompt"
  /\ UNCHANGED <<start, want, asked, filesize, download, reported, spc, serverVars, s2c,
                 c2s, conn, clientEnd, dirVars>>

\* One pass through the loop that fetches the rest of the file.
NextChunk ==
  /\ cpc = "rest"
  /\ \E k \in 1..Len(s2c) :
       /\ Receive(k)
       /\ download' = [download EXCEPT ![want] = @ \o SubSeq(s2c, 1, k)]
       /\ total' = Count(k)
  /\ CheckTotal(filesize, total')
  /\ UNCHANGED <<start, want, asked, filesize, spc, serverVars, c2s, conn, clientEnd, dirVars>>

\* recv returns 0 in that loop: it will for ever, and nothing else changes.
Spin ==
  /\ cpc = "rest"
  /\ EndOfStream
  /\ cpc' = "spin"
  /\ UNCHANGED <<clientVars, spc, serverVars, s2c, c2s, conn, clientEnd, dirVars>>

(***************************************************************************)
(* recv returns -1 in that loop.  fwrite is asked for (size_t)-1 bytes:    *)
(* the process faults, or the call fails with or without bytes written,    *)
(* and the total counts down.                                              *)
(***************************************************************************)
RecvError ==
  /\ cpc = "rest"
  /\ conn = "rst"
  /\ \/ /\ cpc' = "crashed"
        /\ clientEnd' = "closed"
        /\ UNCHANGED <<total, download, reported>>
     \/ /\ total' = Count(-1)
        /\ \E written \in {<<>>, <<Junk>>} :
             download' = [download EXCEPT ![want] = @ \o written]
        /\ CheckTotal(filesize, total')
        /\ UNCHANGED clientEnd
  /\ UNCHANGED <<start, want, asked, filesize, spc, serverVars, s2c, c2s, conn, dirVars>>

\* The user types exit: download_files returns, closesocket and freelist.
Exit ==
  /\ cpc = "prompt"
  /\ cpc' = "closed"
  /\ start' = <<>>
  /\ clientEnd' = "closed"
  /\ UNCHANGED <<want, asked, filesize, total, download, reported, spc, serverVars, s2c, c2s,
                 conn, dirVars>>
-----------------------------------------------------------------------------
(***************************************************************************)
(* The host's listener thread.                                             *)
(***************************************************************************)

Accept ==
  /\ spc = "accept"
  /\ conn = "open"
  /\ spc' = "list"
  /\ UNCHANGED <<cpc, clientVars, serverVars, s2c, c2s, conn, clientEnd, dirVars>>

\* accept fails: the listening socket is closed and the thread returns.
AcceptFails ==
  /\ spc = "accept"
  /\ "accept" \in Faults
  /\ spc' = "dead"
  /\ conn' = IF conn = "open" THEN "rst" ELSE conn
  /\ UNCHANGED <<cpc, clientVars, serverVars, s2c, c2s, clientEnd, dirVars>>

\* An empty listing puts no byte on the stream.
send_file_list ==
  /\ spc = "list"
  /\ s2c' = s2c \o Listing(dir)
  /\ spc' = "mklist"
  /\ UNCHANGED <<cpc, clientVars, serverVars, c2s, conn, clientEnd, dirVars>>

\* The directory is read a second time, for the host's own use.
create_file_list ==
  /\ spc = "mklist"
  /\ slist' = {dir[i].name : i \in 1..Len(dir)}
  /\ spc' = "recv"
  /\ UNCHANGED <<cpc, clientVars, file, offset, s2c, c2s, conn, clientEnd, dirVars>>

\* recv returns a request, or several that arrived together.
TakeRequest(j) == c2s' = SubSeq(c2s, j + 1, Len(c2s))
FileName(j)    == IF j = 1 THEN c2s[1] ELSE NoName

\* The name does not occur in the listing: the message is sent.
SendMessage ==
  /\ spc = "recv"
  /\ \E j \in 1..Len(c2s) : TakeRequest(j) /\ ~ InList(FileName(j))
  /\ s2c' = s2c \o Msg
  /\ UNCHANGED <<cpc, clientVars, spc, serverVars, conn, clientEnd, dirVars>>

\* The name occurs in the listing and the file opens.
OpenFile ==
  /\ spc = "recv"
  /\ \E j \in 1..Len(c2s) :
       /\ TakeRequest(j)
       /\ InList(FileName(j))
       /\ CanOpen(dir, FileName(j))
       /\ file' = FileName(j)
  /\ offset' = 0
  /\ spc' = "send"
  /\ UNCHANGED <<cpc, clientVars, slist, s2c, conn, clientEnd, dirVars>>

\* The name occurs in the listing but the file does not open: no answer.
OpenFails ==
  /\ spc = "recv"
  /\ \E j \in 1..Len(c2s) :
       /\ TakeRequest(j)
       /\ InList(FileName(j))
       /\ ~ CanOpen(dir, FileName(j))
  /\ UNCHANGED <<cpc, clientVars, spc, serverVars, s2c, conn, clientEnd, dirVars>>

\* fread fills the buffer and send puts it on the stream when there is room.
SendChunk ==
  /\ spc = "send"
  /\ NextRead > 0
  /\ Len(s2c) + NextRead <= WireCap
  /\ s2c' = s2c \o Data(file, offset, offset + NextRead)
  /\ offset' = offset + NextRead
  /\ UNCHANGED <<cpc, clientVars, spc, slist, file, c2s, conn, clientEnd, dirVars>>

\* fread returns 0.
EndOfFile ==
  /\ spc = "send"
  /\ NextRead <= 0
  /\ spc' = "recv"
  /\ UNCHANGED <<cpc, clientVars, serverVars, s2c, c2s, conn, clientEnd, dirVars>>

\* send fails because the client is gone: break.
SendFails ==
  /\ spc = "send"
  /\ NextRead > 0
  /\ clientEnd = "closed"
  /\ spc' = "recv"
  /\ UNCHANGED <<cpc, clientVars, serverVars, s2c, c2s, conn, clientEnd, dirVars>>

\* Mutant: only an error of recv ends the inner loop, not its 0.
ClientReset == clientEnd = "closed" /\ s2c # <<>>

\* The host's recv returns 0, or -1 if the client left bytes unread.
ClientGone == clientEnd = "closed" /\ (c2s = <<>> \/ s2c # <<>>)

\* recv returns 0 or -1: closesocket(client_socket), back to accept.
Disconnect ==
  /\ spc = "recv"
  /\ ClientGone
  /\ spc' = "accept"
  /\ conn' = "fin"
  /\ UNCHANGED <<cpc, clientVars, serverVars, s2c, c2s, clientEnd, dirVars>>
-----------------------------------------------------------------------------
(***************************************************************************)
(* The environment.                                                        *)
(***************************************************************************)

\* The host's process ends; a reset also discards what was not yet read.
HostDies(how) ==
  /\ how \in Faults \cap {"fin", "rst"}
  /\ conn = "open"
  /\ conn' = how
  /\ spc' = "dead"
  /\ s2c' = IF how = "rst" THEN <<>> ELSE s2c
  /\ UNCHANGED <<cpc, clientVars, serverVars, c2s, clientEnd, dirVars>>

\* The client's process is ended from outside during the session.
ClientDies ==
  /\ "kill" \in Faults
  /\ cpc \in {"list", "prompt", "first", "rest", "spin"}
  /\ cpc' = "crashed"
  /\ clientEnd' = "closed"
  /\ UNCHANGED <<clientVars, spc, serverVars, s2c, c2s, conn, dirVars>>

\* Somebody changes a file of upload/, removes one that is not open, adds one.
EditDir ==
  /\ edits < MaxEdits
  /\ edits' = edits + 1
  /\ \/ \E i \in 1..Len(dir), s \in EditSizes :
          ~ dir[i].isdir /\ dir' = [dir EXCEPT ![i].size = s]
     \/ \E i \in 1..Len(dir) :
          ~ (spc = "send" /\ file = dir[i].name) /\ dir' = RemoveAt(dir, i)
     \/ \E n \in Names, s \in EditSizes, i \in 1..(Len(dir) + 1) :
          /\ ~ Present(dir, n)
          /\ dir' = InsertAt(dir, i, [name |-> n, size |-> s, isdir |-> FALSE])
  /\ UNCHANGED <<cpc, clientVars, spc, serverVars, s2c, c2s, conn, clientEnd>>
-----------------------------------------------------------------------------
\* What the client's thread does on its own, and what its user decides.
ClientStep ==
  \/ recv_and_display_file_list \/ NoListing
  \/ ReplyMissing \/ CreateFails \/ FirstChunk \/ NoReply
  \/ NextChunk \/ Spin \/ RecvError

UserStep == Connect \/ ConnectFails \/ Exit \/ \E n \in Typed : Request(n)

ServerStep ==
  \/ Accept \/ send_file_list \/ create_file_list
  \/ SendMessage \/ OpenFile \/ OpenFails
  \/ SendChunk \/ EndOfFile \/ SendFails \/ Disconnect

Environment ==
  \/ AcceptFails \/ ClientDies \/ EditDir
  \/ \E how \in {"fin", "rst"} : HostDies(how)

Next == ClientStep \/ UserStep \/ ServerStep \/ Environment

Spec == Init /\ [][Next]_vars

(***************************************************************************)
(* Both threads are scheduled and TCP delivers; nobody makes a user type.  *)
(***************************************************************************)
FairSpec == Spec /\ WF_vars(ClientStep) /\ WF_vars(ServerStep)
-----------------------------------------------------------------------------
(***************************************************************************)
(* Properties.                                                             *)
(***************************************************************************)

(***************************************************************************)
(* Type invariant: in particular the counter and the sizes stay inside 32  *)
(* bits, and every byte of a downloaded file is a byte somebody sent.      *)
(***************************************************************************)
TypeOK ==
  /\ cpc \in {"menu", "list", "prompt", "first", "rest", "spin", "crashed", "closed"}
  /\ start \in Seq(Node)
  /\ want \in Names \cup {NoName}
  /\ asked \in Nat
  /\ filesize \in 0..(Modulus - 1)
  /\ total \in 0..(Modulus - 1)
  /\ download \in [Names -> Seq(Byte)]
  /\ reported \in SUBSET Names
  /\ spc \in {"accept", "list", "mklist", "recv", "send", "dead"}
  /\ slist \in SUBSET Names
  /\ file \in Names \cup {NoName}
  /\ offset \in Nat
  /\ s2c \in Seq(Byte)
  /\ c2s \in Seq(Names)
  /\ conn \in {"none", "open", "fin", "rst"}
  /\ clientEnd \in {"open", "closed"}
  /\ dir \in Seq(Entry)
  /\ edits \in Nat

(***************************************************************************)
(* A file reported "downloaded successfully" has, modulo 2^32, as many     *)
(* bytes as the listing gave it, whatever happens to the upload directory  *)
(* and however the stream of answers is cut (download_files, the           *)
(* total_bytes_recv loop), as long as the connection is not reset.         *)
(***************************************************************************)
SizeAgrees ==
  clientEnd = "open" /\ conn # "rst" =>
    \A n \in reported : Len(download[n]) % Modulus = get_filesize(n, start)

(***************************************************************************)
(* A file reported "downloaded successfully" holds exactly the bytes of    *)
(* the host's file: none lost, none added, none of another answer, in      *)
(* their order (download_files against the send loop of the listener).     *)
(***************************************************************************)
DownloadFaithful ==
  \A n \in reported :
    Present(dir, n) /\ download[n] = Data(n, 0, EntryOf(dir, n).size)

(***************************************************************************)
(* Once the host has handled the request for a file it cannot open, its    *)
(* answer is on the stream (the branches after strstr in the listener).    *)
(***************************************************************************)
MissingIsAnswered ==
  (cpc = "first" /\ conn = "open" /\ spc = "recv" /\ c2s = <<>> /\ ~ CanOpen(dir, want))
    => s2c # <<>>

(***************************************************************************)
(* The two recv calls never wait for each other: the client for a listing  *)
(* or a file that will not be sent, the host for a request.                *)
(***************************************************************************)
NoMutualWait ==
  ~ /\ cpc \in {"list", "first", "rest"} /\ s2c = <<>>
    /\ spc = "recv" /\ c2s = <<>>
    /\ conn = "open"

(***************************************************************************)
(* get_filesize is asked for the size of a file only if the client's list  *)
(* has it ("File not found should never trip").                            *)
(***************************************************************************)
NotFoundNeverTrips ==
  cpc = "rest" => \E i \in 1..Len(start) : start[i].filename = want

\* A request is answered: the user gets the prompt back (download_files).
RequestAnswered == cpc \in {"first", "rest"} ~> cpc = "prompt"

(***************************************************************************)
(* When the client is gone, however it went and whatever was under way,    *)
(* the listener gets back to accept (listen_for_connections).              *)
(***************************************************************************)
ListenerRecovers == clientEnd = "closed" ~> spc \in {"accept", "dead"}

(***************************************************************************)
(* The session seen by its user.  A file counts as stored only if it was   *)
(* reported and holds the bytes of the host's file.                        *)
(***************************************************************************)
Phase ==
  CASE cpc \in {"menu", "list"}          -> "away"
    [] cpc = "prompt"                    -> "idle"
    [] cpc \in {"first", "rest", "spin"} -> "waiting"
    [] cpc \in {"closed", "crashed"}     -> "gone"

Stored == {n \in reported : Present(dir, n) /\ download[n] = Data(n, 0, EntryOf(dir, n).size)}

Abstract == INSTANCE Transfer WITH
  Files <- {n \in Names : Present(InitDir, n)},
  phase <- Phase, wanted <- want, store <- Stored, up <- (conn = "open")

(***************************************************************************)
(* The two threads implement the abstract transfer: no cut of the answers, *)
(* no interleaving and no end of either side lets a request end otherwise  *)
(* (download_files and listen_for_connections).                            *)
(***************************************************************************)
TransferRefines == Abstract!Spec
-----------------------------------------------------------------------------
(***************************************************************************)
(* The inductive invariant behind DownloadFaithful and NoMutualWait, and   *)
(* the environment it needs: upload/ does not change, its sizes fit in 32  *)
(* bits and its names have no blanks, the listing arrives in one piece,    *)
(* downloaded files can be created, and the host's socket is not reset.    *)
(***************************************************************************)
CleanEnvironment ==
  /\ Faults \subseteq {"refused", "accept", "fin", "kill"}
  /\ MaxEdits = 0
  /\ MsgLen < Modulus
  /\ \A i \in 1..Len(InitDir) : InitDir[i].size < Modulus
  /\ \A n \in Names : FirstWord[n] = n

\* The list the client makes of the whole listing.
FullList == [i \in 1..Len(InitDir) |-> [filename |-> InitDir[i].name,
                                        filesize |-> InitDir[i].size]]

\* The host has sent all of the file it last opened.
Idle == spc # "send" \/ offset = EntryOf(InitDir, file).size

\* After the first k bytes of the wanted file, the stream goes on with the
\* next ones, as far as the host has read.
DataOnWay(k) ==
  /\ start = FullList
  /\ CanOpen(InitDir, want)
  /\ \E m \in k..EntryOf(InitDir, want).size :
       /\ s2c = Data(want, k, m)
       /\ spc = "send" => file = want /\ offset = m
       /\ spc = "recv" => m = EntryOf(InitDir, want).size
       /\ spc \in {"send", "recv", "dead"}

\* The stream holds the rest of "File does not exist." after k bytes of it.
MsgOnWay(k) ==
  /\ start = FullList
  /\ ~ Present(InitDir, want)
  /\ k <= MsgLen
  /\ s2c = MsgPart(k, MsgLen)
  /\ spc \in {"recv", "dead"}

\* The host found the name in the listing, could not open the file and said nothing.
NoAnswer ==
  /\ start = FullList
  /\ s2c = <<>>
  /\ spc \in {"recv", "dead"}
  /\ ~ CanOpen(InitDir, want)
  /\ \E i \in 1..Len(InitDir) : <<want, InitDir[i].name>> \in Occurs

\* The wanted name is still to be read by the host, or never will be.
Unread ==
  /\ conn # "open" \/ c2s = <<want>>
  /\ s2c = <<>>
  /\ Idle

HostInv ==
  /\ dir = InitDir
  /\ spc \in {"recv", "send"} => slist = {InitDir[i].name : i \in 1..Len(InitDir)}
  /\ spc = "send" => Present(InitDir, file) /\ offset <= EntryOf(InitDir, file).size
  /\ (conn \in {"fin", "rst"} /\ clientEnd = "open") => spc \in {"accept", "dead"}
  /\ cpc \in {"crashed", "closed"} <=> clientEnd = "closed"
  /\ cpc \in {"prompt", "first", "rest"} /\ conn = "open" =>
       start = FullList /\ spc \in {"mklist", "recv", "send"}
  /\ cpc \in {"prompt", "first", "rest"} => spc # "list"
  /\ conn = "none" => cpc = "menu"
  /\ spc = "dead" => conn # "open"

ListPhase ==
  cpc \in {"menu", "list"} =>
    /\ start = <<>> /\ c2s = <<>> /\ reported = {}
    /\ spc # "send"
    /\ spc \in {"accept", "list"} => s2c = <<>>
    /\ spc \in {"mklist", "recv"} => s2c = Listing(InitDir)
    /\ s2c \in {<<>>, Listing(InitDir)}
    /\ cpc = "menu" => conn = "none" /\ s2c = <<>> /\ spc \in {"accept", "dead"}

PromptPhase ==
  cpc = "prompt" => s2c = <<>> /\ Idle /\ (conn # "open" \/ c2s = <<>>)

FirstPhase ==
  cpc = "first" =>
    /\ want \in Typed
    /\ total = 0
    /\ \/ Unread
       \/ c2s = <<>> /\ (DataOnWay(0) \/ MsgOnWay(0) \/ NoAnswer)

RestPhase ==
  cpc = "rest" =>
    /\ want \in Typed
    /\ want \notin reported
    /\ c2s = <<>>
    /\ total = Len(download[want])
    /\ \/ /\ DataOnWay(total)
          /\ download[want] = Data(want, 0, total)
          /\ total < EntryOf(InitDir, want).size
          /\ filesize = EntryOf(InitDir, want).size
       \/ /\ MsgOnWay(total)
          /\ total > 0
          /\ filesize = 0

(***************************************************************************)
(* What is on the two streams at each point of the client's program: the   *)
(* answer to the last request and nothing else, so that no byte of one     *)
(* answer is read as part of another (download_files and the listener).    *)
(***************************************************************************)
TransferInv ==
  HostInv /\ ListPhase /\ PromptPhase /\ FirstPhase /\ RestPhase
=============================================================================
