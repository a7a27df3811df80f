--------------------------- MODULE RegistryProofs ---------------------------
(***************************************************************************)
(* The registry's loop for any number of peers and sockets: it never waits *)
(* outside select, and its count of sockets is right.                      *)
(***************************************************************************)
EXTENDS Registry, FiniteSetTheorems, TLAPS

\* A connection is in the backlog or has a socket, and only its own.
Connections ==
  /\ \A p \in Peers : sock[p] # NoSocket => far[p] # "none"
  /\ \A p, q \in Peers : sock[p] = sock[q] /\ sock[p] # NoSocket => p = q
  /\ \A i \in 1..Len(pending) : sock[pending[i]] = NoSocket /\ far[pending[i]] # "none"
  /\ \A i, j \in 1..Len(pending) : pending[i] = pending[j] => i = j

\* The inductive invariant.
RegistryInv ==
  /\ TypeOK
  /\ Connections
  /\ IsFiniteSet(Open)
  /\ CountMatches
  /\ \A n \in call_set : n <= max_socket
  /\ NeverBlocks
  /\ pc = "select" => call_set = all_sockets

\* The sockets are numbers; NoSocket and Listen are not a peer's.
LEMMA SocketFacts ==
  /\ Numbers \subseteq Nat /\ Listen \in Nat /\ Listen \notin Numbers
  /\ NoSocket \notin Numbers /\ Listen # NoSocket
  /\ \A n \in Sockets : n \in Nat /\ n + 1 \in Nat
  /\ MAX_PENDING \in Nat \ {0} /\ MaxData \in Nat
BY RegistryAssumption DEF NoSocket, Sockets

\* What accept takes off the backlog, and what it leaves there.
LEMMA TailFacts ==
  ASSUME NEW S, NEW q \in Seq(S), q # <<>>
  PROVE  /\ Len(q) \in Nat /\ Len(q) >= 1 /\ Head(q) = q[1] /\ Head(q) \in S
         /\ Tail(q) \in Seq(S) /\ Len(Tail(q)) = Len(q) - 1
         /\ \A i \in 1..Len(Tail(q)) : Tail(q)[i] = q[i + 1] /\ i + 1 \in 1..Len(q)
         /\ \A i \in 1..Len(q) : q[i] \in S
OBVIOUS

\* The state after main has called bind_and_listen.
LEMMA InitRegistry == Init => RegistryInv
<1> SUFFICES ASSUME Init PROVE RegistryInv
  OBVIOUS
<1> USE SocketFacts
<1>1. Open = {}
  BY DEF Init, Open
<1>2. IsFiniteSet(Open) /\ Cardinality(Open) = 0
  BY <1>1, FS_EmptySet
<1>3. TypeOK
  <2>1. left \in BOOLEAN
    BY DEF Init
  <2>2. pending \in Seq(Peers)
    BY DEF Init
  <2> QED
    BY <2>1, <2>2 DEF Init, TypeOK, Sockets, Slots
<1>4. Connections
  BY DEF Init, Connections
<1>5. CountMatches
  BY <1>1, <1>2 DEF Init, CountMatches
<1>6. /\ NeverBlocks /\ \A n \in call_set : n <= max_socket
      /\ pc = "select" => call_set = all_sockets
  BY DEF Init, NeverBlocks
<1> QED
  BY <1>2, <1>3, <1>4, <1>5, <1>6 DEF RegistryInv

\* A socket the loop comes to is at or past s, and the loop goes on past it.
LEMMA VisitFacts ==
  ASSUME TypeOK, NEW n, Visit(n)
  PROVE  /\ n \in Rest /\ n \in call_set /\ n \in Nat /\ s <= n
         /\ \A m \in Nat : n + 1 <= m => s <= m /\ m # n
BY SocketFacts DEF TypeOK, Visit, Rest, Sockets

\* Steps of the loop that leave the connections alone.
LEMMA LoopSteps ==
  ASSUME RegistryInv, Select \/ SelectFails \/ Overrun \/ LoopEnds
  PROVE  RegistryInv'
<1> USE SocketFacts DEF RegistryInv
<1>1. UNCHANGED <<all_sockets, max_socket, numOfSocket, peer, left, network>>
  BY DEF Select, SelectFails, Overrun, LoopEnds
<1>2. TypeOK'
  BY <1>1 DEF TypeOK, Select, SelectFails, Overrun, LoopEnds, Readable, network
<1>3. Connections' /\ Open' = Open
  BY <1>1 DEF Connections, Open, network
<1>4. CountMatches'
  BY <1>1, <1>3 DEF CountMatches
<1>5. \A n : Ready(n)' <=> Ready(n)
  BY <1>1 DEF Ready, network
<1>6. NeverBlocks'
  BY <1>1, <1>5 DEF NeverBlocks, Rest, Readable, Select, SelectFails, Overrun, LoopEnds
<1>7. /\ \A n \in call_set' : n <= max_socket'
      /\ pc' = "select" => call_set' = all_sockets'
  BY <1>1 DEF Select, SelectFails, Overrun, LoopEnds, Readable, CountMatches
<1> QED
  BY <1>2, <1>3, <1>4, <1>6, <1>7

\* accept returns a new socket.
LEMMA AcceptStep == ASSUME RegistryInv, accept PROVE RegistryInv'
<1> USE SocketFacts DEF RegistryInv
<1> DEFINE h == Head(pending)
<1>1. /\ h \in Peers /\ sock[h] = NoSocket /\ far[h] # "none"
      /\ Len(pending) \in Nat /\ Len(pending) >= 1 /\ h = pending[1]
  BY TailFacts DEF accept, Connections, TypeOK
<1>2. PICK n \in Numbers : /\ \A p \in Peers : sock[p] # n
                           /\ sock' = [sock EXCEPT ![h] = n]
                           /\ peer' = [peer EXCEPT ![numOfSocket] = n]
                           /\ all_sockets' = all_sockets \cup {n}
                           /\ max_socket' = MaxWith(n)
  BY DEF accept
<1>3. /\ numOfSocket' = numOfSocket + 1 /\ numOfSocket < MAX_PENDING
      /\ pending' = Tail(pending) /\ s' = Listen + 1 /\ Visit(Listen)
      /\ UNCHANGED <<pc, call_set, far, data, left>>
  BY DEF accept
<1>4. TypeOK'
  <2>1. /\ pending' \in Seq(Peers)
        /\ numOfSocket' \in 0..MAX_PENDING
    BY <1>1, <1>3 DEF TypeOK
  <2>2. sock' \in [Peers -> Numbers \cup {NoSocket}] /\ all_sockets' \subseteq Sockets
    BY <1>1, <1>2 DEF TypeOK, Sockets
  <2>3. peer' = [peer EXCEPT ![numOfSocket] = n] /\ max_socket' = MaxWith(n) /\ n \in Numbers
    BY <1>2
  <2> QED
    BY <1>3, <2>1, <2>2, <2>3 DEF TypeOK, MaxWith, Sockets, Slots
<1>5. Open' = Open \cup {n} /\ n \notin Open
  BY <1>1, <1>2 DEF Open, TypeOK
<1>6. IsFiniteSet(Open') /\ Cardinality(Open') = Cardinality(Open) + 1
  BY <1>5, FS_AddElement
<1>7. CountMatches'
  BY <1>2, <1>3, <1>5, <1>6 DEF CountMatches, TypeOK, MaxWith, Sockets
<1>8. Connections'
  <2>1. /\ Len(pending') = Len(pending) - 1
        /\ \A i \in 1..Len(pending') : pending'[i] = pending[i + 1] /\ i + 1 \in 1..Len(pending)
    BY <1>3, TailFacts DEF TypeOK, accept
  <2>2. \A i \in 1..Len(pending') : pending'[i] # h
    BY <1>1, <2>1 DEF Connections
  <2>3. \A i \in 1..Len(pending) : pending[i] \in Peers
    BY DEF TypeOK
  <2>4. \A q \in Peers : sock'[q] = IF q = h THEN n ELSE sock[q]
    BY <1>1, <1>2 DEF TypeOK
  <2>5. \A q \in Peers : sock'[q] # NoSocket => far'[q] # "none"
    BY <1>1, <1>3, <2>4 DEF Connections
  <2>6. \A p, q \in Peers : sock'[p] = sock'[q] /\ sock'[p] # NoSocket => p = q
    BY <1>2, <2>4 DEF Connections
  <2>7. \A i \in 1..Len(pending') : sock'[pending'[i]] = NoSocket /\ far'[pending'[i]] # "none"
    BY <1>3, <2>1, <2>2, <2>3, <2>4 DEF Connections
  <2>8. \A i, j \in 1..Len(pending') : pending'[i] = pending'[j] => i = j
    BY <1>1, <2>1 DEF Connections
  <2> QED
    BY <2>5, <2>6, <2>7, <2>8 DEF Connections
<1>9. NeverBlocks'
  <2> SUFFICES ASSUME pc = "scan", NEW m \in Rest' PROVE m \in all_sockets' /\ Ready(m)'
    BY <1>3 DEF NeverBlocks
  <2>1. m \in call_set /\ m \in Nat /\ Listen + 1 <= m /\ m <= max_socket'
    BY <1>3 DEF Rest, TypeOK, Sockets
  <2>2. m # Listen /\ s <= m
    BY <1>3, <2>1, VisitFacts
  <2>3. m <= max_socket
    BY <2>1
  <2>4. m \in Rest
    BY <2>1, <2>2, <2>3 DEF Rest
  <2>5. m \in all_sockets /\ Ready(m)
    BY <2>4 DEF NeverBlocks
  <2>6. PICK p \in Peers : sock[p] = m /\ (data[p] > 0 \/ far[p] \in {"fin", "rst"})
    BY <2>2, <2>5 DEF Ready
  <2>7. sock'[p] = m
    <3>1. p # h
      BY <1>1, <2>1, <2>6 DEF NoSocket
    <3> QED
      BY <1>2, <2>6, <3>1 DEF TypeOK
  <2> QED
    BY <1>2, <1>3, <2>2, <2>5, <2>6, <2>7 DEF Ready
<1>10. \A m \in call_set' : m <= max_socket'
  BY <1>2, <1>3 DEF MaxWith, TypeOK, Sockets
<1>11. pc = "scan" /\ pc' = pc
  BY <1>3 DEF Visit
<1> QED
  BY <1>4, <1>6, <1>7, <1>8, <1>9, <1>10, <1>11

\* accept returns INVALID_SOCKET; the connection is lost or still waits.
LEMMA AcceptFailsStep == ASSUME RegistryInv, acceptFails PROVE RegistryInv'
<1> USE SocketFacts DEF RegistryInv
<1> DEFINE h == Head(pending)
<1>1. /\ h \in Peers /\ sock[h] = NoSocket
      /\ Len(pending) \in Nat /\ Len(pending) >= 1 /\ h = pending[1]
  BY TailFacts DEF acceptFails, Connections, TypeOK
<1>2. /\ Visit(Listen) /\ numOfSocket' = numOfSocket /\ numOfSocket < MAX_PENDING
      /\ peer' = [peer EXCEPT ![numOfSocket] = NoSocket] /\ s' = Listen + 1
      /\ UNCHANGED <<pc, all_sockets, call_set, max_socket, sock, data, left>>
  BY DEF acceptFails, AfterFailure
<1>3. \/ /\ pending' = Tail(pending) /\ pending # <<>>
         /\ far' = [far EXCEPT ![h] = "none"]
      \/ UNCHANGED <<pending, far>>
  BY DEF acceptFails
<1>4. TypeOK'
  <2>1. pending' \in Seq(Peers) /\ far' \in [Peers -> {"none", "up", "fin", "rst"}]
    <3>1. pending' \in Seq(Peers)
      <4>1. pending \in Seq(Peers)
        BY DEF TypeOK
      <4>2. pending # <<>> => Tail(pending) \in Seq(Peers)
        BY <4>1, TailFacts
      <4> QED
        BY <1>3, <4>1, <4>2
    <3>2. far' \in [Peers -> {"none", "up", "fin", "rst"}]
      BY <1>1, <1>3 DEF TypeOK
    <3> QED
      BY <3>1, <3>2
  <2> QED
    BY <1>2, <2>1 DEF TypeOK, Slots
<1>5. Connections'
  <2>1. CASE UNCHANGED <<pending, far>>
    BY <1>2, <2>1 DEF Connections
  <2>2. CASE /\ pending' = Tail(pending) /\ pending # <<>>
             /\ far' = [far EXCEPT ![h] = "none"]
    <3>1. /\ Len(pending') = Len(pending) - 1
          /\ \A i \in 1..Len(pending') : pending'[i] = pending[i + 1] /\ i + 1 \in 1..Len(pending)
          /\ \A i \in 1..Len(pending) : pending[i] \in Peers
      BY <2>2, TailFacts DEF TypeOK
    <3>2. \A i \in 1..Len(pending') : pending'[i] # h
      BY <1>1, <3>1 DEF Connections
    <3> QED
      BY <1>1, <1>2, <2>2, <3>1, <3>2 DEF Connections, TypeOK
  <2> QED
    BY <1>3, <2>1, <2>2
<1>6. Open' = Open /\ CountMatches'
  BY <1>2 DEF Open, CountMatches
<1>7. NeverBlocks'
  <2> SUFFICES ASSUME pc = "scan", NEW m \in Rest' PROVE m \in all_sockets' /\ Ready(m)'
    BY <1>2 DEF NeverBlocks
  <2>1. m \in call_set /\ m \in Nat /\ Listen + 1 <= m /\ m <= max_socket
    BY <1>2 DEF Rest, TypeOK, Sockets
  <2>2. m # Listen /\ m \in Rest
    BY <1>2, <2>1, VisitFacts DEF Rest
  <2>3. m \in all_sockets /\ Ready(m)
    BY <2>2 DEF NeverBlocks
  <2>4. PICK p \in Peers : sock[p] = m /\ (data[p] > 0 \/ far[p] \in {"fin", "rst"})
    BY <2>2, <2>3 DEF Ready
  <2>5. p # h
    BY <1>1, <2>1, <2>4 DEF NoSocket
  <2>6. far'[p] = far[p]
    BY <1>3, <2>5 DEF TypeOK
  <2> QED
    BY <1>2, <2>2, <2>3, <2>4, <2>6 DEF Ready
<1>8. pc = "scan" /\ pc' = pc
  BY <1>2 DEF Visit
<1> QED
  BY <1>2, <1>4, <1>5, <1>6, <1>7, <1>8

\* recv returns data.
LEMMA RecvStep == ASSUME RegistryInv, NEW p \in Peers, recv(p) PROVE RegistryInv'
<1> USE SocketFacts DEF RegistryInv
<1>1. PICK k \in 1..data[p] : data' = [data EXCEPT ![p] = data[p] - k]
  BY DEF recv
<1>2. /\ Visit(sock[p]) /\ s' = sock[p] + 1 /\ sock[p] \in Numbers
      /\ UNCHANGED <<pc, all_sockets, call_set, max_socket, numOfSocket, peer, left,
                     pending, sock, far>>
  BY DEF recv, TypeOK
<1>3. data' \in [Peers -> 0..MaxData]
  BY <1>1 DEF TypeOK
<1>4. TypeOK'
  BY <1>2, <1>3 DEF TypeOK, Sockets
<1>5. Connections' /\ Open' = Open /\ CountMatches'
  BY <1>2 DEF Connections, Open, CountMatches
<1>6. NeverBlocks'
  <2> SUFFICES ASSUME pc = "scan", NEW m \in Rest' PROVE m \in all_sockets' /\ Ready(m)'
    BY <1>2 DEF NeverBlocks
  <2>1. m \in call_set /\ m \in Nat /\ sock[p] + 1 <= m /\ m <= max_socket
    BY <1>2 DEF Rest, TypeOK, Sockets
  <2>2. m # sock[p] /\ m \in Rest
    BY <1>2, <2>1, VisitFacts DEF Rest
  <2>3. m \in all_sockets /\ Ready(m)
    BY <2>2 DEF NeverBlocks
  <2>4. \A q \in Peers : sock[q] = m => data'[q] = data[q]
    BY <1>1, <2>2 DEF TypeOK
  <2> QED
    BY <1>2, <2>3, <2>4 DEF Ready
<1>7. pc = "scan" /\ pc' = pc
  BY <1>2 DEF Visit
<1> QED
  BY <1>2, <1>4, <1>5, <1>6, <1>7

\* recv returns 0 or -1, and the socket is closed.
LEMMA CloseStep == ASSUME RegistryInv, NEW p \in Peers, closesocket(p) PROVE RegistryInv'
<1> USE SocketFacts DEF RegistryInv
<1> DEFINE c == sock[p]
<1>1. /\ Visit(c) /\ c \in Numbers /\ s' = c + 1
      /\ sock' = [sock EXCEPT ![p] = NoSocket]
      /\ far' = [far EXCEPT ![p] = "none"]
      /\ numOfSocket' = numOfSocket - 1
      /\ all_sockets' = all_sockets \ {c}
      /\ UNCHANGED <<pc, call_set, max_socket, peer, pending, data>>
  BY DEF closesocket, AfterClose, TypeOK
<1>2. left' \in BOOLEAN
  BY DEF closesocket
<1>3. c \in Open /\ Open' = Open \ {c}
  <2>1. \A q \in Peers : q # p => sock[q] # c
    BY <1>1 DEF Connections
  <2> QED
    BY <1>1, <2>1 DEF Open, TypeOK
<1>4. /\ IsFiniteSet(Open') /\ Cardinality(Open') = Cardinality(Open) - 1
      /\ Cardinality(Open') \in Nat
  BY <1>3, FS_RemoveElement, FS_CardinalityType
<1>5. numOfSocket' = Cardinality(Open') /\ numOfSocket' \in 0..MAX_PENDING
  BY <1>1, <1>4 DEF CountMatches, TypeOK
<1>6. TypeOK'
  BY <1>1, <1>2, <1>5 DEF TypeOK, Sockets
<1>7. CountMatches'
  BY <1>1, <1>3, <1>5 DEF CountMatches
<1>8. Connections'
  <2>1. \A i \in 1..Len(pending) : pending[i] \in Peers /\ pending[i] # p
    BY <1>1 DEF TypeOK, Connections
  <2> QED
    BY <1>1, <2>1 DEF Connections, TypeOK
<1>9. NeverBlocks'
  <2> SUFFICES ASSUME pc = "scan", NEW m \in Rest' PROVE m \in all_sockets' /\ Ready(m)'
    BY <1>1 DEF NeverBlocks
  <2>1. m \in call_set /\ m \in Nat /\ c + 1 <= m /\ m <= max_socket
    BY <1>1 DEF Rest, TypeOK, Sockets
  <2>2. m # c /\ m \in Rest
    BY <1>1, <2>1, VisitFacts DEF Rest
  <2>3. m \in all_sockets /\ Ready(m)
    BY <2>2 DEF NeverBlocks
  <2>4. \A q \in Peers : sock[q] = m => sock'[q] = m /\ far'[q] = far[q]
    BY <1>1, <2>2 DEF TypeOK
  <2> QED
    BY <1>1, <2>2, <2>3, <2>4 DEF Ready
<1>10. pc = "scan" /\ pc' = pc
  BY <1>1 DEF Visit
<1> QED
  BY <1>1, <1>4, <1>6, <1>7, <1>8, <1>9, <1>10

\* Steps of a peer: a socket that is ready stays ready.
LEMMA PeerStep ==
  ASSUME RegistryInv, NEW p \in Peers, Connect(p) \/ Send(p) \/ Close(p) \/ Reset(p)
  PROVE  RegistryInv'
<1> USE SocketFacts DEF RegistryInv
<1>1. UNCHANGED <<pc, all_sockets, call_set, max_socket, numOfSocket, peer, s, left, sock>>
  BY DEF Connect, Send, Close, Reset, registry
<1>2. pending' = pending \/ (Connect(p) /\ pending' = Append(pending, p))
  BY DEF Connect, Send, Close, Reset
<1>3. /\ far' \in [Peers -> {"none", "up", "fin", "rst"}]
      /\ data' \in [Peers -> 0..MaxData]
  <2>1. CASE Connect(p)
    BY <2>1 DEF Connect, TypeOK
  <2>2. CASE Send(p)
    BY <2>2 DEF Send, TypeOK
  <2>3. CASE Close(p)
    BY <2>3 DEF Close, TypeOK
  <2>4. CASE Reset(p)
    BY <2>4 DEF Reset, TypeOK
  <2> QED
    BY <2>1, <2>2, <2>3, <2>4
<1>4. pending' \in Seq(Peers)
  <2>1. pending \in Seq(Peers)
    BY DEF TypeOK
  <2>2. Append(pending, p) \in Seq(Peers)
    BY <2>1
  <2> QED
    BY <1>2, <2>1, <2>2
<1>5. TypeOK'
  BY <1>1, <1>3, <1>4 DEF TypeOK
<1>6. /\ \A q \in Peers : far[q] # "none" => far'[q] # "none"
      /\ far'[p] # "none"
      /\ \A q \in Peers : q # p => far'[q] = far[q] /\ data'[q] = data[q]
  BY DEF Connect, Send, Close, Reset, TypeOK
<1>7. Connections'
  <2>1. \A i \in 1..Len(pending) : pending[i] \in Peers
    BY DEF TypeOK
  <2>2. CASE pending' = pending
    BY <1>1, <1>6, <2>1, <2>2 DEF Connections, TypeOK
  <2>3. CASE Connect(p) /\ pending' = Append(pending, p)
    <3>1. far[p] = "none" /\ sock[p] = NoSocket
      BY <2>3 DEF Connect, Connections
    <3>2. \A i \in 1..Len(pending) : pending[i] # p
      BY <3>1 DEF Connections
    <3>3. /\ Len(pending) \in Nat /\ Len(pending') = Len(pending) + 1
          /\ pending'[Len(pending) + 1] = p
          /\ \A i \in 1..Len(pending) : pending'[i] = pending[i]
      BY <2>3 DEF TypeOK
    <3>4. \A i \in 1..Len(pending') : i \in 1..Len(pending) \/ i = Len(pending) + 1
      BY <3>3
    <3>5. \A i \in 1..Len(pending') : sock'[pending'[i]] = NoSocket /\ far'[pending'[i]] # "none"
      BY <1>1, <1>6, <2>1, <3>1, <3>3, <3>4 DEF Connections
    <3>6. \A i, j \in 1..Len(pending') : pending'[i] = pending'[j] => i = j
      BY <3>2, <3>3, <3>4 DEF Connections
    <3> QED
      BY <1>1, <1>6, <3>5, <3>6 DEF Connections
  <2> QED
    BY <1>2, <2>2, <2>3
<1>8. Open' = Open /\ CountMatches'
  BY <1>1 DEF Open, CountMatches
<1>9. ASSUME NEW n \in all_sockets, Ready(n) PROVE Ready(n)'
  <2>1. CASE n = Listen
    <3>1. pending # <<>>
      BY <1>9, <2>1 DEF Ready
    <3>2. pending' # <<>>
      BY <1>2, <3>1 DEF TypeOK
    <3> QED
      BY <2>1, <3>2 DEF Ready
  <2>2. CASE n # Listen
    <3>1. PICK q \in Peers : sock[q] = n /\ (data[q] > 0 \/ far[q] \in {"fin", "rst"})
      BY <1>9, <2>2 DEF Ready
    <3>2. n \in Numbers /\ far[q] # "none"
      BY <2>2, <3>1 DEF Connections, TypeOK, Sockets
    <3>3. data'[q] > 0 \/ far'[q] \in {"fin", "rst"}
      BY <1>6, <3>1, <3>2 DEF Connect, Send, Close, Reset, TypeOK
    <3> QED
      BY <1>1, <2>2, <3>1, <3>3 DEF Ready
  <2> QED
    BY <2>1, <2>2
<1>10. NeverBlocks'
  BY <1>1, <1>9 DEF NeverBlocks, Rest
<1> QED
  BY <1>1, <1>5, <1>7, <1>8, <1>10

\* RegistryInv is an invariant.
LEMMA RegistryInvariant == Spec => []RegistryInv
<1>1. RegistryInv /\ [Next]_vars => RegistryInv'
  <2> SUFFICES ASSUME RegistryInv, [Next]_vars PROVE RegistryInv'
    OBVIOUS
  <2>1. CASE UNCHANGED vars
    BY <2>1 DEF RegistryInv, TypeOK, Connections, CountMatches, NeverBlocks, Open, Ready,
                Rest, vars, registry, network
  <2>2. CASE Next
    BY <2>2, LoopSteps, AcceptStep, AcceptFailsStep, RecvStep, CloseStep, PeerStep
       DEF Next, Loop
  <2> QED
    BY <2>1, <2>2
<1> QED
  BY <1>1, InitRegistry, PTL DEF Spec

(***************************************************************************)
(* Types hold in every reachable state of run_registry: numOfSocket in     *)
(* particular is never negative.                                           *)
(***************************************************************************)
THEOREM RegistryTypes == Spec => []TypeOK
<1>1. Spec => []RegistryInv
  BY RegistryInvariant
<1> QED
  BY <1>1, PTL DEF RegistryInv

(***************************************************************************)
(* For any number of peers that connect, send, close and are reset at any  *)
(* moment, accept and recv of run_registry never wait: only select does.   *)
(***************************************************************************)
THEOREM NeverBlocksTheorem == Spec => []NeverBlocks
<1>1. Spec => []RegistryInv
  BY RegistryInvariant
<1> QED
  BY <1>1, PTL DEF RegistryInv

(***************************************************************************)
(* The sets of run_registry and its count of sockets agree with the        *)
(* connections that are open.                                              *)
(***************************************************************************)
THEOREM CountTheorem == Spec => []CountMatches
<1>1. Spec => []RegistryInv
  BY RegistryInvariant
<1> QED
  BY <1>1, PTL DEF RegistryInv

\* Only accept and closesocket change what the table is compared with.
LEMMA TableStep ==
  ASSUME RegistryInv, RegistryInv', TableHolds, [Next]_vars
  PROVE  TableHolds'
<1> USE SocketFacts DEF RegistryInv
<1>0. numOfSocket \in 0..MAX_PENDING /\ peer \in [Slots -> Numbers \cup {NoSocket}]
  BY DEF TypeOK
<1>1. CASE UNCHANGED <<numOfSocket, peer, all_sockets, left>>
  BY <1>1 DEF TableHolds
<1>2. CASE accept
  <2>1. PICK n \in Numbers : /\ peer' = [peer EXCEPT ![numOfSocket] = n]
                             /\ all_sockets' = all_sockets \cup {n}
    BY <1>2 DEF accept
  <2>2. numOfSocket' = numOfSocket + 1 /\ numOfSocket < MAX_PENDING /\ left' = left
    BY <1>2 DEF accept
  <2>3. /\ \A i \in 0..(numOfSocket - 1) : peer'[i] = peer[i]
        /\ peer'[numOfSocket] = n
    BY <1>0, <2>1, <2>2 DEF Slots
  <2>4. \A i : i \in 0..numOfSocket <=> i \in 0..(numOfSocket - 1) \/ i = numOfSocket
    BY <1>0
  <2>5. {peer'[i] : i \in 0..numOfSocket} = {peer[i] : i \in 0..(numOfSocket - 1)} \cup {n}
    BY <2>3, <2>4
  <2>6. numOfSocket' - 1 = numOfSocket
    BY <1>0, <2>2
  <2> QED
    BY <2>1, <2>2, <2>5, <2>6 DEF TableHolds
<1>3. CASE acceptFails
  <2>1. /\ peer' = [peer EXCEPT ![numOfSocket] = NoSocket]
        /\ UNCHANGED <<numOfSocket, all_sockets, left>>
    BY <1>3 DEF acceptFails, AfterFailure
  <2>2. \A i \in 0..(numOfSocket - 1) : peer'[i] = peer[i]
    BY <1>0, <2>1 DEF Slots
  <2> QED
    BY <2>1, <2>2 DEF TableHolds
<1>4. ASSUME NEW p \in Peers, closesocket(p) PROVE TableHolds'
  <2> SUFFICES ASSUME ~ left'
               PROVE  {peer'[i] : i \in 0..(numOfSocket' - 1)} = all_sockets' \ {Listen}
    BY DEF TableHolds
  <2>1. numOfSocket' = 0
    <3>1. ~ (numOfSocket' > 0)
      BY <1>4, Zenon DEF closesocket
    <3> QED
      BY <3>1 DEF TypeOK
  <2>2. Open' = {}
    BY <2>1, FS_EmptySet DEF CountMatches, Open
  <2>3. all_sockets' = {Listen}
    BY <2>2 DEF CountMatches
  <2> QED
    BY <2>1, <2>3
<1>5. CASE Select \/ SelectFails \/ Overrun \/ LoopEnds
  BY <1>1, <1>5 DEF Select, SelectFails, Overrun, LoopEnds
<1>6. ASSUME NEW p \in Peers, recv(p) \/ Connect(p) \/ Send(p) \/ Close(p) \/ Reset(p)
      PROVE  TableHolds'
  BY <1>1, <1>6 DEF recv, Connect, Send, Close, Reset, registry
<1>7. CASE UNCHANGED vars
  BY <1>1, <1>7 DEF vars, registry
<1> QED
  BY <1>2, <1>3, <1>4, <1>5, <1>6, <1>7 DEF Next, Loop

(***************************************************************************)
(* Until a peer leaves others behind, the first numOfSocket entries of     *)
(* run_registry's table are the connected peers, whatever accept did.      *)
(***************************************************************************)
THEOREM TableTheorem == Spec => []TableHolds
<1>1. Spec => []RegistryInv
  BY RegistryInvariant
<1>2. Init => TableHolds
  BY DEF Init, TableHolds
<1>3. RegistryInv /\ RegistryInv' /\ TableHolds /\ [Next]_vars => TableHolds'
  BY TableStep
<1> QED
  BY <1>1, <1>2, <1>3, PTL DEF Spec
=============================================================================
