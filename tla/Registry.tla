------------------------------ MODULE Registry ------------------------------
(***************************************************************************)
(* run_registry of the multi-threaded version: one thread that waits in    *)
(* select for its listening socket and for the sockets of the peers, and   *)
(* keeps a table of them.  Peers connect, send, close or fail and come     *)
(* back at any time, also between select and the calls that rely on it.    *)
(***************************************************************************)
EXTENDS Integers, Sequences, FiniteSets

CONSTANTS
  Peers,         \* the processes in run_peer
  Numbers,       \* what accept may return
  Listen,        \* listen_socket
  MAX_PENDING,   \* entries of peer[], and the backlog
  MaxData,       \* bound: data of a peer that waits for recv
  Faults         \* which of the failing calls may fail

NoSocket == -1   \* INVALID_SOCKET

ASSUME RegistryAssumption ==
  /\ Numbers \subseteq Nat /\ Listen \in Nat \ Numbers
  /\ \A n \in Numbers \cup {Listen} : n >= 3
  /\ MAX_PENDING \in Nat \ {0} /\ MaxData \in Nat
  /\ Faults \subseteq {"accept", "select"}

VARIABLES
  pc,            \* in select, in the for loop, returned, or memory overrun
  all_sockets, call_set, max_socket, numOfSocket,
  peer,          \* peer[i].socket_descriptor
  s,             \* the for loop's variable
  pending,       \* connections that accept has not returned yet
  sock,          \* the registry's socket of each peer
  far,           \* the peer's end of the connection
  data,          \* what recv can return of it
  left           \* ghost: a peer has left others behind in the table

registry == <<pc, all_sockets, call_set, max_socket, numOfSocket, peer, s, left>>
network  == <<pending, sock, far, data>>
vars     == <<registry, network>>

Sockets == Numbers \cup {Listen}
Slots   == 0..(MAX_PENDING - 1)
-----------------------------------------------------------------------------
\* The sockets of peers that are open.
Open == {n \in Numbers : \E p \in Peers : sock[p] = n}

\* accept or recv on this socket returns at once.
Ready(n) ==
  IF n = Listen THEN pending # <<>>
  ELSE \E p \in Peers : sock[p] = n /\ (data[p] > 0 \/ far[p] \in {"fin", "rst"})

\* Mutant: s < max_socket.
ShortRest == {n \in call_set : s <= n /\ n < max_socket}

\* The sockets of call_set the loop still comes to.
Rest == {n \in call_set : s <= n /\ n <= max_socket}

\* The loop reads no entry of peer[] before it writes it: any value will do.
Init ==
  /\ pc = "select"
  /\ all_sockets = {Listen}
  /\ call_set = {Listen}
  /\ max_socket = Listen
  /\ numOfSocket = 0
  /\ peer = [i \in Slots |-> NoSocket]
  /\ s = 3
  /\ left = FALSE
  /\ pending = <<>>
  /\ sock = [p \in Peers |-> NoSocket]
  /\ far = [p \in Peers |-> "none"]
  /\ data = [p \in Peers |-> 0]
-----------------------------------------------------------------------------
\* Mutant: call_set is not what select returned.
NotFiltered == call_set

\* call_set after select.
Readable == {n \in call_set : Ready(n)}

Select ==
  /\ pc = "select"
  /\ \E n \in call_set : Ready(n)
  /\ call_set' = Readable
  /\ pc' = "scan"
  /\ UNCHANGED <<all_sockets, max_socket, numOfSocket, peer, s, left, network>>

\* The thread returns and main calls WSACleanup.
SelectFails ==
  /\ pc = "select"
  /\ "select" \in Faults
  /\ pc' = "ended"
  /\ UNCHANGED <<all_sockets, call_set, max_socket, numOfSocket, peer, s, left, network>>

\* The loop comes to socket n, which FD_ISSET finds in call_set.
Visit(n) == pc = "scan" /\ n \in Rest /\ \A m \in Rest : n <= m

\* Mutant: the last socket is the largest.
LastSocket(n) == n

MaxWith(n) == IF n > max_socket THEN n ELSE max_socket

accept ==
  /\ Visit(Listen)
  /\ pending # <<>>
  /\ numOfSocket < MAX_PENDING
  /\ far[Head(pending)] # "rst"
  /\ \E n \in Numbers :
       /\ \A p \in Peers : sock[p] # n
       /\ sock' = [sock EXCEPT ![Head(pending)] = n]
       /\ peer' = [peer EXCEPT ![numOfSocket] = n]
       /\ all_sockets' = all_sockets \cup {n}
       /\ max_socket' = MaxWith(n)
  /\ numOfSocket' = numOfSocket + 1
  /\ pending' = Tail(pending)
  /\ s' = Listen + 1
  /\ UNCHANGED <<pc, call_set, far, data, left>>

\* Mutant: numOfSocket++ also when accept failed.
CountAnyway == numOfSocket + 1

\* Mutant: numOfSocket-- as for a socket that was closed.
CountDown == numOfSocket - 1

AfterFailure == numOfSocket

\* The peer was gone already, or the call failed for another reason (addrlen
\* is not initialised, there is no socket left) and the connection waits on.
acceptFails ==
  /\ Visit(Listen)
  /\ pending # <<>>
  /\ numOfSocket < MAX_PENDING
  /\ \/ /\ far[Head(pending)] = "rst"
        /\ pending' = Tail(pending)
        /\ far' = [far EXCEPT ![Head(pending)] = "none"]
     \/ /\ "accept" \in Faults
        /\ UNCHANGED <<pending, far>>
  /\ peer' = [peer EXCEPT ![numOfSocket] = NoSocket]
  /\ numOfSocket' = AfterFailure
  /\ s' = Listen + 1
  /\ UNCHANGED <<pc, all_sockets, call_set, max_socket, sock, data, left>>

\* peer[MAX_PENDING] is written: what follows is not defined.
Overrun ==
  /\ Visit(Listen)
  /\ pending # <<>>
  /\ numOfSocket >= MAX_PENDING
  /\ pc' = "overrun"
  /\ UNCHANGED <<all_sockets, call_set, max_socket, numOfSocket, peer, s, left, network>>

\* recv returns data, which nothing is done with.
recv(p) ==
  /\ sock[p] # NoSocket
  /\ Visit(sock[p])
  /\ data[p] > 0
  /\ \E k \in 1..data[p] : data' = [data EXCEPT ![p] = @ - k]
  /\ s' = sock[p] + 1
  /\ UNCHANGED <<pc, all_sockets, call_set, max_socket, numOfSocket, peer, left,
                 pending, sock, far>>

\* Mutant: numOfSocket-- only when recv returned 0.
CountOrderly(p) == IF far[p] = "fin" THEN numOfSocket - 1 ELSE numOfSocket

AfterClose(p) == numOfSocket - 1

\* recv returns 0 or -1.
closesocket(p) ==
  /\ sock[p] # NoSocket
  /\ Visit(sock[p])
  /\ data[p] = 0 /\ far[p] \in {"fin", "rst"}
  /\ sock' = [sock EXCEPT ![p] = NoSocket]
  /\ far' = [far EXCEPT ![p] = "none"]
  /\ numOfSocket' = AfterClose(p)
  /\ all_sockets' = all_sockets \ {sock[p]}
  /\ s' = sock[p] + 1
  /\ left' = (numOfSocket' > 0)
  /\ UNCHANGED <<pc, call_set, max_socket, peer, pending, data>>

\* The loop variable goes out of scope, and while (1) begins again.
LoopEnds ==
  /\ pc = "scan"
  /\ Rest = {}
  /\ pc' = "select"
  /\ call_set' = all_sockets
  /\ s' = 3
  /\ UNCHANGED <<all_sockets, max_socket, numOfSocket, peer, left, network>>
-----------------------------------------------------------------------------
(***************************************************************************)
(* The peers: lookup_and_connect, which fails when the backlog is full,    *)
(* and the end of the process.  run_peer itself sends nothing yet.         *)
(***************************************************************************)
Connect(p) ==
  /\ far[p] = "none"
  /\ Len(pending) < MAX_PENDING
  /\ pc \in {"select", "scan"}
  /\ far' = [far EXCEPT ![p] = "up"]
  /\ data' = [data EXCEPT ![p] = 0]
  /\ pending' = Append(pending, p)
  /\ UNCHANGED <<registry, sock>>

Send(p) ==
  /\ far[p] = "up"
  /\ data[p] < MaxData
  /\ data' = [data EXCEPT ![p] = @ + 1]
  /\ UNCHANGED <<registry, pending, sock, far>>

Close(p) ==
  /\ far[p] = "up"
  /\ far' = [far EXCEPT ![p] = "fin"]
  /\ UNCHANGED <<registry, pending, sock, data>>

\* A reset discards what was not read.
Reset(p) ==
  /\ far[p] \in {"up", "fin"}
  /\ far' = [far EXCEPT ![p] = "rst"]
  /\ data' = [data EXCEPT ![p] = 0]
  /\ UNCHANGED <<registry, pending, sock>>
-----------------------------------------------------------------------------
Loop ==
  \/ Select \/ SelectFails \/ accept \/ acceptFails \/ Overrun \/ LoopEnds
  \/ \E p \in Peers : recv(p) \/ closesocket(p)

Next == Loop \/ \E p \in Peers : Connect(p) \/ Send(p) \/ Close(p) \/ Reset(p)

Spec == Init /\ [][Next]_vars

\* The thread is scheduled.
FairSpec == Spec /\ WF_vars(Loop)
-----------------------------------------------------------------------------
\* Types.
TypeOK ==
  /\ pc \in {"select", "scan", "ended", "overrun"}
  /\ all_sockets \subseteq Sockets /\ call_set \subseteq Sockets
  /\ max_socket \in Sockets /\ s \in Nat
  /\ numOfSocket \in 0..MAX_PENDING
  /\ peer \in [Slots -> Numbers \cup {NoSocket}]
  /\ pending \in Seq(Peers)
  /\ sock \in [Peers -> Numbers \cup {NoSocket}]
  /\ far \in [Peers -> {"none", "up", "fin", "rst"}]
  /\ data \in [Peers -> 0..MaxData]
  /\ left \in BOOLEAN

(***************************************************************************)
(* The thread never waits outside select: a socket of call_set the loop    *)
(* has not come to is still open, and accept or recv on it returns at      *)
(* once, whatever was closed, opened again under the same number or reset  *)
(* since select (the for loop of run_registry).                            *)
(***************************************************************************)
NeverBlocks ==
  pc = "scan" => \A n \in Rest : n \in all_sockets /\ Ready(n)

(***************************************************************************)
(* The sockets select waits for are the open ones, each below max_socket,  *)
(* and numOfSocket is their number: the next entry of peer[] to use and    *)
(* all that keeps accept inside the array.                                 *)
(***************************************************************************)
CountMatches ==
  /\ all_sockets = Open \cup {Listen}
  /\ numOfSocket = Cardinality(Open)
  /\ \A n \in all_sockets : n <= max_socket

\* Until a peer leaves others behind, the table holds the connected ones:
\* accept, also a failing one, writes past their entries (run_registry).
TableHolds ==
  ~ left => {peer[i] : i \in 0..(numOfSocket - 1)} = all_sockets \ {Listen}

\* The thread has ended, or is beyond what C defines.
Over == pc \in {"ended", "overrun"}

\* A peer that has gone is forgotten: recv finds out and its socket is closed
\* (the else branch of the for loop), while the registry runs.
GoneIsForgotten ==
  \A p \in Peers :
    (sock[p] # NoSocket /\ far[p] \in {"fin", "rst"}) ~> (sock[p] = NoSocket \/ Over)

\* Nobody waits for accept for ever, however busy the others are, unless
\* accept keeps failing: each round comes to the listening socket (select and
\* the for loop).
WaitingIsAccepted ==
  \/ []<><<acceptFails>>_vars
  \/ \A p \in Peers : (sock[p] = NoSocket /\ far[p] = "up")
                         ~> (sock[p] # NoSocket \/ far[p] = "none" \/ Over)
=============================================================================
