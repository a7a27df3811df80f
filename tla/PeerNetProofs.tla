--------------------------- MODULE PeerNetProofs ---------------------------
(***************************************************************************)
(* For any number of peers, whoever knows whom, and any backlog: what the  *)
(* listeners hold is what their clients hold, and nobody waits in a        *)
(* circle.                                                                 *)
(***************************************************************************)
EXTENDS PeerNet, SequenceTheorems, TLAPS

\* A main thread has a connection between its two prompts, and a process that
\* ended has no listener.
MainInv ==
  \A p \in Peers :
    /\ main[p] \in {"ended", "menu"} => link[p] = "none"
    /\ main[p] \in {"ended", "menu"} <=> at[p] = Nobody
    /\ main[p] = "ended" => lpc[p] = "dead"
    /\ main[p] = "spin" => link[p] # "open"

\* A client that is served and waits has asked, or has its answer, or its host
\* is one that sends nothing.
ServedInv ==
  \A h \in Peers :
    LET c == client[h]
    IN  lpc[h] = "recv" /\ c \in Peers /\ main[c] \in {"list", "recv"} =>
          \/ ask[c] /\ main[c] = "recv"
          \/ reply[c]
          \/ h \in Silent

NetInv == Types /\ Placed /\ ListenerInv /\ MainInv /\ ServedInv
-----------------------------------------------------------------------------
(***************************************************************************)
(* Types.                                                                  *)
(***************************************************************************)
LEMMA TypeInit == Init => NetInv
  BY PeersAssumption
  DEF Init, NetInv, Types, Placed, ListenerInv, MainInv, ServedInv

\* What a listener holds, with the connection of p closed, has its type.
LEMMA WithoutType ==
  ASSUME Types, NEW p \in Peers
  PROVE  /\ ClientWithout(p) \in [Peers -> Peers \cup {Nobody, Gone, GoneAsked}]
         /\ BacklogWithout(p) \in [Peers -> Seq(Peers \cup {Gone, GoneAsked})]
<1> USE DEF Types
<1>1. Closed(p) \in {Gone, GoneAsked}
  BY DEF Closed
<1>2. ClientWithout(p) \in [Peers -> Peers \cup {Nobody, Gone, GoneAsked}]
  BY <1>1 DEF ClientWithout
<1>3. ASSUME NEW h \in Peers
      PROVE  BacklogWithout(p)[h] \in Seq(Peers \cup {Gone, GoneAsked})
  <2>1. backlog[h] \in Seq(Peers \cup {Gone, GoneAsked}) /\ Len(backlog[h]) \in Nat
    OBVIOUS
  <2>2. \A i \in 1..Len(backlog[h]) : backlog[h][i] \in Peers \cup {Gone, GoneAsked}
    BY <2>1, ElementOfSeq
  <2>3. [i \in 1..Len(backlog[h]) |-> IF backlog[h][i] = p THEN Closed(p) ELSE backlog[h][i]]
          \in Seq(Peers \cup {Gone, GoneAsked})
    BY <1>1, <2>1, <2>2
  <2> QED
    BY <2>3 DEF BacklogWithout
<1>4. BacklogWithout(p) \in [Peers -> Seq(Peers \cup {Gone, GoneAsked})]
  BY <1>3 DEF BacklogWithout
<1> QED
  BY <1>2, <1>4

LEMMA TypeEnd ==
  ASSUME Types, NEW p \in Peers, EndProcess(p)
  PROVE  Types'
<1>1. main' \in [Peers -> {"ended", "menu", "list", "prompt", "recv", "spin"}]
      /\ at' \in [Peers -> Peers \cup {Nobody}]
      /\ lpc' \in [Peers -> {"accept", "list", "recv", "dead"}]
  BY DEF EndProcess, Types
<1>2. link' \in [Peers -> {"none", "open", "fin", "rst"}]
  BY DEF EndProcess, Types, LinksCut
<1>3. ask' \in [Peers -> BOOLEAN] /\ reply' \in [Peers -> BOOLEAN]
  BY DEF EndProcess, Types, RepliesLeft
<1>4. client' \in [Peers -> Peers \cup {Nobody, Gone, GoneAsked}]
  BY WithoutType DEF EndProcess
<1>5. backlog' \in [Peers -> Seq(Peers \cup {Gone, GoneAsked})]
  <2>1. <<>> \in Seq(Peers \cup {Gone, GoneAsked})
    OBVIOUS
  <2> QED
    BY <2>1, WithoutType DEF EndProcess
<1> QED
  BY <1>1, <1>2, <1>3, <1>4, <1>5 DEF Types

LEMMA TypeMain ==
  ASSUME Types, NEW p \in Peers, MainStep(p) \/ UserStep(p) \/ Killed(p)
  PROVE  Types'
<1>1. CASE MainStep(p)
  BY <1>1 DEF Types, MainStep, RecvList, Answered, Spin, listenerVars
<1>2. CASE Start(p)
  BY <1>2 DEF Types, Start, SetUp
<1>3. CASE Quit(p) \/ Killed(p)
  BY <1>3, TypeEnd DEF Quit, Killed
<1>4. CASE Request(p)
  BY <1>4 DEF Types, Request, listenerVars
<1>5. CASE Leave(p)
  BY <1>5, WithoutType DEF Types, Leave
<1>6. ASSUME NEW h \in Peers, Connect(p, h)
      PROVE  Types'
  <2>1. backlog[h] \in Seq(Peers \cup {Gone, GoneAsked})
    BY DEF Types
  <2>2. Append(backlog[h], p) \in Seq(Peers \cup {Gone, GoneAsked})
    BY <2>1
  <2> QED
    BY <1>6, <2>2 DEF Types, Connect
<1> QED
  BY <1>1, <1>2, <1>3, <1>4, <1>5, <1>6 DEF UserStep

LEMMA TypeListener ==
  ASSUME Types, NEW h \in Peers, ListenerStep(h) \/ AcceptFails(h)
  PROVE  Types'
<1>0. backlog[h] \in Seq(Peers \cup {Gone, GoneAsked}) /\ <<>> \in Seq(Peers \cup {Gone, GoneAsked})
  BY DEF Types
<1>1. CASE Accept(h)
  <2>1. backlog[h] # <<>>
    BY <1>1 DEF Accept
  <2>2. /\ Head(backlog[h]) \in Peers \cup {Gone, GoneAsked}
        /\ Tail(backlog[h]) \in Seq(Peers \cup {Gone, GoneAsked})
    BY <1>0, <2>1, HeadTailProperties
  <2> QED
    BY <1>1, <2>2 DEF Types, Accept, mainVars
<1>2. CASE AcceptFails(h)
  BY <1>0, <1>2 DEF Types, AcceptFails, LinksCut
<1>3. CASE SendList(h)
  BY <1>3 DEF Types, SendList, Sent
<1>4. CASE Serve(h)
  <2>1. ask' \in [Peers -> BOOLEAN]
    BY <1>4 DEF Types, Serve
  <2>2. reply' \in [Peers -> BOOLEAN]
    <3>1. reply' = Sent(client[h]) \/ reply' = reply
      BY <1>4 DEF Serve
    <3>2. Sent(client[h]) \in [Peers -> BOOLEAN]
      BY DEF Sent
    <3> QED
      BY <3>1, <3>2 DEF Types
  <2>3. client' \in [Peers -> Peers \cup {Nobody, Gone, GoneAsked}]
    BY <1>4 DEF Types, Serve
  <2> QED
    BY <1>4, <2>1, <2>2, <2>3 DEF Types, Serve
<1>5. CASE Disconnect(h)
  BY <1>5 DEF Types, Disconnect, mainVars
<1> QED
  BY <1>1, <1>2, <1>3, <1>4, <1>5 DEF ListenerStep

LEMMA TypeStep ==
  ASSUME Types, [Next]_vars
  PROVE  Types'
<1>1. CASE UNCHANGED vars
  BY <1>1 DEF Types, vars, mainVars, listenerVars
<1> QED
  BY <1>1, TypeMain, TypeListener DEF Next
-----------------------------------------------------------------------------
(***************************************************************************)
(* Who holds which connection.                                             *)
(***************************************************************************)

\* Where the connection of p stands in the backlog of h.
Line(h, p) == {i \in 1..Len(backlog[h]) : backlog[h][i] = p}

\* Placed, for one client and one host.
PlacedAt(p, h) ==
  /\ (client[h] = p \/ Line(h, p) # {}) <=> (at[p] = h /\ link[p] = "open")
  /\ client[h] = p => Line(h, p) = {}
  /\ \A i, j \in Line(h, p) : i = j

LEMMA PlacedParts == Placed <=> \A p, h \in Peers : PlacedAt(p, h)
  BY DEF Placed, PlacedAt, Line

LEMMA PlacedPartsNext == Placed' <=> \A p, h \in Peers : PlacedAt(p, h)'
  BY DEF Placed, PlacedAt, Line

\* A connection that closes leaves its host, and no other is touched.
LEMMA WithoutLine ==
  ASSUME Types, NEW p \in Peers, NEW q \in Peers, NEW h \in Peers
  PROVE  /\ ClientWithout(p)[h] = q <=> client[h] = q /\ q # p
         /\ {i \in 1..Len(BacklogWithout(p)[h]) : BacklogWithout(p)[h][i] = q}
              = IF q = p THEN {} ELSE Line(h, q)
<1>1. Closed(p) \in {Gone, GoneAsked} /\ Closed(p) \notin Peers
  BY PeersAssumption DEF Closed
<1>2. ClientWithout(p)[h] = q <=> client[h] = q /\ q # p
  BY <1>1 DEF ClientWithout
<1>3. Len(backlog[h]) \in Nat
  BY DEF Types
<1>4. BacklogWithout(p)[h] =
        [i \in 1..Len(backlog[h]) |-> IF backlog[h][i] = p THEN Closed(p) ELSE backlog[h][i]]
  BY DEF BacklogWithout
<1>5. Len(BacklogWithout(p)[h]) = Len(backlog[h])
  BY <1>3, <1>4
<1>6. \A i \in 1..Len(backlog[h]) :
        BacklogWithout(p)[h][i] = q <=> backlog[h][i] = q /\ q # p
  BY <1>1, <1>4
<1> QED
  BY <1>2, <1>5, <1>6 DEF Line

LEMMA PlacedEnd ==
  ASSUME Types, Placed, NEW p \in Peers, EndProcess(p)
  PROVE  Placed'
<1> SUFFICES ASSUME NEW q \in Peers, NEW h \in Peers
             PROVE  PlacedAt(q, h)'
  BY PlacedPartsNext
<1>1. PlacedAt(q, h)
  BY PlacedParts
<1>2. CASE h = p
  <2>1. client'[h] = Nobody /\ backlog'[h] = <<>>
    BY <1>2, WithoutType DEF EndProcess
  <2>2. client'[h] # q /\ Line(h, q)' = {}
    BY <2>1, PeersAssumption DEF Line
  <2>3. ~ (at'[q] = h /\ link'[q] = "open")
    BY <1>2, PeersAssumption DEF EndProcess, Types, LinksCut, ClientsOf
  <2> QED
    BY <2>2, <2>3 DEF PlacedAt
<1>3. CASE h # p
  <2>1. client'[h] = ClientWithout(p)[h] /\ backlog'[h] = BacklogWithout(p)[h]
    BY <1>3, WithoutType DEF EndProcess
  <2>2. /\ client'[h] = q <=> client[h] = q /\ q # p
        /\ Line(h, q)' = IF q = p THEN {} ELSE Line(h, q)
    BY <2>1, WithoutLine DEF Line
  <2>3. (at'[q] = h /\ link'[q] = "open") <=> (at[q] = h /\ link[q] = "open" /\ q # p)
    BY <1>3, PeersAssumption DEF EndProcess, Types, LinksCut, ClientsOf
  <2> QED
    BY <1>1, <2>2, <2>3 DEF PlacedAt
<1> QED
  BY <1>2, <1>3

LEMMA PlacedLeave ==
  ASSUME Types, Placed, NEW p \in Peers, Leave(p)
  PROVE  Placed'
<1> SUFFICES ASSUME NEW q \in Peers, NEW h \in Peers
             PROVE  PlacedAt(q, h)'
  BY PlacedPartsNext
<1>1. PlacedAt(q, h)
  BY PlacedParts
<1>2. /\ client'[h] = q <=> client[h] = q /\ q # p
      /\ Line(h, q)' = IF q = p THEN {} ELSE Line(h, q)
  BY WithoutLine DEF Leave, Line
<1>3. (at'[q] = h /\ link'[q] = "open") <=> (at[q] = h /\ link[q] = "open" /\ q # p)
  BY PeersAssumption DEF Leave, Types
<1> QED
  BY <1>1, <1>2, <1>3 DEF PlacedAt

LEMMA PlacedConnect ==
  ASSUME Types, Placed, MainInv, NEW p \in Peers, NEW g \in Peers, Connect(p, g)
  PROVE  Placed'
<1> SUFFICES ASSUME NEW q \in Peers, NEW h \in Peers
             PROVE  PlacedAt(q, h)'
  BY PlacedPartsNext
<1>1. PlacedAt(q, h) /\ PlacedAt(p, h)
  BY PlacedParts
<1>2. backlog[g] \in Seq(Peers \cup {Gone, GoneAsked}) /\ Len(backlog[g]) \in Nat
  BY DEF Types
<1>3. /\ client' = client
      /\ \A k \in Peers : at'[k] = IF k = p THEN g ELSE at[k]
      /\ \A k \in Peers : link'[k] = IF k = p THEN "open" ELSE link[k]
      /\ \A k \in Peers : backlog'[k] = IF k = g THEN Append(backlog[g], p) ELSE backlog[k]
  BY DEF Connect, Types
<1>4. client[h] # p /\ Line(h, p) = {}
  BY <1>1 DEF MainInv, Connect, PlacedAt
<1>5. /\ Len(Append(backlog[g], p)) = Len(backlog[g]) + 1
      /\ \A i \in 1..(Len(backlog[g]) + 1) :
           Append(backlog[g], p)[i] = IF i <= Len(backlog[g]) THEN backlog[g][i] ELSE p
  BY <1>2
<1>6. Line(h, q)' = IF h = g /\ q = p THEN {Len(backlog[g]) + 1} ELSE Line(h, q)
  <2>1. CASE h = g
    <3>1. backlog'[h] = Append(backlog[g], p)
      BY <1>3, <2>1
    <3>2. \A i : i \in Line(h, q)' <=> i \in 1..(Len(backlog[g]) + 1) /\ Append(backlog[g], p)[i] = q
      BY <1>5, <3>1 DEF Line
    <3>3. \A i : i \in 1..(Len(backlog[g]) + 1) <=> i \in 1..Len(backlog[g]) \/ i = Len(backlog[g]) + 1
      BY <1>2
    <3>4. \A i : i \in Line(h, q)' <=> i \in Line(h, q) \/ (q = p /\ i = Len(backlog[g]) + 1)
      BY <1>2, <1>5, <2>1, <3>2, <3>3 DEF Line
    <3> QED
      BY <1>4, <2>1, <3>4
  <2>2. CASE h # g
    BY <1>3, <2>2 DEF Line
  <2> QED
    BY <2>1, <2>2
<1>7. CASE q = p
  BY <1>3, <1>4, <1>6, <1>7 DEF PlacedAt
<1>8. CASE q # p
  BY <1>1, <1>3, <1>6, <1>8 DEF PlacedAt
<1> QED
  BY <1>7, <1>8

LEMMA PlacedAccept ==
  ASSUME Types, Placed, ListenerInv, NEW g \in Peers, Accept(g)
  PROVE  Placed'
<1> SUFFICES ASSUME NEW q \in Peers, NEW h \in Peers
             PROVE  PlacedAt(q, h)'
  BY PlacedPartsNext
<1>1. PlacedAt(q, h)
  BY PlacedParts
<1>2. backlog[g] \in Seq(Peers \cup {Gone, GoneAsked}) /\ backlog[g] # <<>>
  BY DEF Types, Accept
<1>3. /\ at' = at /\ link' = link
      /\ \A k \in Peers : client'[k] = IF k = g THEN Head(backlog[g]) ELSE client[k]
      /\ \A k \in Peers : backlog'[k] = IF k = g THEN Tail(backlog[g]) ELSE backlog[k]
  BY DEF Accept, Types, mainVars
<1>4. CASE h # g
  BY <1>1, <1>3, <1>4 DEF PlacedAt, Line
<1>5. CASE h = g
  <2>1. client[g] = Nobody /\ client[g] # q
    BY PeersAssumption DEF ListenerInv, Accept
  <2>2. /\ Len(backlog[g]) \in Nat \ {0} /\ Head(backlog[g]) = backlog[g][1]
        /\ Len(Tail(backlog[g])) = Len(backlog[g]) - 1
        /\ \A i \in 1..(Len(backlog[g]) - 1) : Tail(backlog[g])[i] = backlog[g][i + 1]
    BY <1>2, HeadTailProperties
  <2>3. \A i : i \in Line(g, q)' <=> i \in 1..(Len(backlog[g]) - 1) /\ i + 1 \in Line(g, q)
    <3>1. backlog'[g] = Tail(backlog[g])
      BY <1>3
    <3>2. \A i : i \in Line(g, q)' <=>
                   i \in 1..(Len(backlog[g]) - 1) /\ Tail(backlog[g])[i] = q
      BY <2>2, <3>1 DEF Line
    <3>3. \A i \in 1..(Len(backlog[g]) - 1) :
            i + 1 \in 1..Len(backlog[g]) /\ Tail(backlog[g])[i] = backlog[g][i + 1]
      BY <2>2
    <3> QED
      BY <3>2, <3>3 DEF Line
  <2>4. Head(backlog[g]) = q <=> 1 \in Line(g, q)
    BY <2>2 DEF Line
  <2>5. \A i \in Line(g, q) : i \in 1..Len(backlog[g]) /\ (i = 1 \/ i - 1 \in Line(g, q)')
    <3> SUFFICES ASSUME NEW i \in Line(g, q), i # 1
                 PROVE  i \in 1..Len(backlog[g]) /\ i - 1 \in Line(g, q)'
      BY <2>2 DEF Line
    <3>1. i \in 1..Len(backlog[g])
      BY DEF Line
    <3>2. i - 1 \in 1..(Len(backlog[g]) - 1) /\ (i - 1) + 1 = i
      BY <2>2, <3>1
    <3> QED
      BY <2>3, <3>1, <3>2
  <2>6. \A i, j \in Line(g, q) : i = j
    BY <1>1, <1>5 DEF PlacedAt
  <2>7. (Head(backlog[g]) = q \/ Line(g, q)' # {}) <=> Line(g, q) # {}
    BY <2>3, <2>4, <2>5
  <2>8. Head(backlog[g]) = q => Line(g, q)' = {}
    <3>1. ASSUME 1 \in Line(g, q), NEW i \in Line(g, q)'
          PROVE  FALSE
      BY <2>2, <2>3, <2>6, <3>1
    <3> QED
      BY <2>4, <3>1
  <2>9. \A i, j \in Line(g, q)' : i = j
    <3> SUFFICES ASSUME NEW i \in Line(g, q)', NEW j \in Line(g, q)'
                 PROVE  i = j
      OBVIOUS
    <3>1. i + 1 = j + 1 /\ i \in Int /\ j \in Int
      BY <2>2, <2>3, <2>6
    <3> QED
      BY <3>1
  <2>10. client'[g] = Head(backlog[g])
    BY <1>3
  <2> QED
    BY <1>1, <1>3, <1>5, <2>1, <2>7, <2>8, <2>9, <2>10 DEF PlacedAt
<1> QED
  BY <1>4, <1>5

\* Steps that leave the listeners' connections alone, and who is connected.
LEMMA PlacedQuiet ==
  ASSUME Placed, client' = client, backlog' = backlog, at' = at, link' = link
  PROVE  Placed'
<1> SUFFICES ASSUME NEW q \in Peers, NEW h \in Peers
             PROVE  PlacedAt(q, h)'
  BY PlacedPartsNext
<1> QED
  BY PlacedParts DEF PlacedAt, Line

LEMMA PlacedServe ==
  ASSUME Types, Placed, NEW g \in Peers, Serve(g) \/ Disconnect(g)
  PROVE  Placed'
<1> SUFFICES ASSUME NEW q \in Peers, NEW h \in Peers
             PROVE  PlacedAt(q, h)'
  BY PlacedPartsNext
<1>1. PlacedAt(q, h)
  BY PlacedParts
<1>2. backlog' = backlog /\ at' = at /\ link' = link
  BY DEF Serve, Disconnect, mainVars
<1>3. client'[h] = q <=> client[h] = q
  BY PeersAssumption DEF Serve, Disconnect, Ended, Types
<1> QED
  BY <1>1, <1>2, <1>3 DEF PlacedAt, Line

LEMMA PlacedAcceptFails ==
  ASSUME Types, Placed, ListenerInv, NEW g \in Peers, AcceptFails(g)
  PROVE  Placed'
<1> SUFFICES ASSUME NEW q \in Peers, NEW h \in Peers
             PROVE  PlacedAt(q, h)'
  BY PlacedPartsNext
<1>1. PlacedAt(q, h)
  BY PlacedParts
<1>2. /\ client' = client /\ at' = at
      /\ \A k \in Peers : backlog'[k] = IF k = g THEN <<>> ELSE backlog[k]
      /\ link'[q] = IF at[q] = g /\ link[q] = "open" THEN "rst" ELSE link[q]
  BY DEF AcceptFails, Types, LinksCut, ClientsOf
<1>3. CASE h = g
  <2>1. client[g] # q
    BY PeersAssumption DEF ListenerInv, AcceptFails
  <2>2. Line(h, q)' = {}
    BY <1>2, <1>3 DEF Line
  <2>3. ~ (at'[q] = h /\ link'[q] = "open")
    BY <1>2, <1>3
  <2> QED
    BY <1>2, <1>3, <2>1, <2>2, <2>3 DEF PlacedAt
<1>4. CASE h # g
  BY <1>1, <1>2, <1>4 DEF PlacedAt, Line
<1> QED
  BY <1>3, <1>4

LEMMA PlacedStep ==
  ASSUME NetInv, [Next]_vars
  PROVE  Placed'
<1>0. Types /\ Placed /\ ListenerInv /\ MainInv
  BY DEF NetInv
<1>1. ASSUME NEW p \in Peers, MainStep(p) \/ UserStep(p) \/ Killed(p)
      PROVE  Placed'
  <2>1. CASE MainStep(p) \/ Start(p) \/ Request(p)
    BY <1>0, <2>1, PlacedQuiet
    DEF MainStep, RecvList, Answered, Spin, Start, Request, listenerVars
  <2>2. CASE Quit(p) \/ Killed(p)
    BY <1>0, <2>2, PlacedEnd DEF Quit, Killed
  <2>3. CASE Leave(p)
    BY <1>0, <2>3, PlacedLeave
  <2>4. ASSUME NEW h \in Peers, Connect(p, h)
        PROVE  Placed'
    BY <1>0, <2>4, PlacedConnect
  <2> QED
    BY <1>1, <2>1, <2>2, <2>3, <2>4 DEF UserStep
<1>2. ASSUME NEW h \in Peers, ListenerStep(h) \/ AcceptFails(h)
      PROVE  Placed'
  <2>1. CASE SendList(h)
    BY <1>0, <2>1, PlacedQuiet DEF SendList
  <2>2. CASE Accept(h)
    BY <1>0, <2>2, PlacedAccept
  <2>3. CASE Serve(h) \/ Disconnect(h)
    BY <1>0, <2>3, PlacedServe
  <2>4. CASE AcceptFails(h)
    BY <1>0, <2>4, PlacedAcceptFails
  <2> QED
    BY <1>2, <2>1, <2>2, <2>3, <2>4 DEF ListenerStep
<1>3. CASE UNCHANGED vars
  BY <1>0, <1>3, PlacedQuiet DEF vars, mainVars, listenerVars
<1> QED
  BY <1>1, <1>2, <1>3 DEF Next
-----------------------------------------------------------------------------
(***************************************************************************)
(* Listeners, main threads, and clients that wait.                         *)
(***************************************************************************)
LEMMA ListenerEnd ==
  ASSUME Types, ListenerInv, NEW p \in Peers, EndProcess(p) \/ Leave(p)
  PROVE  ListenerInv'
<1> SUFFICES ASSUME NEW h \in Peers
             PROVE  /\ lpc'[h] \in {"list", "recv"} <=> client'[h] # Nobody
                    /\ lpc'[h] = "dead" => backlog'[h] = <<>>
  BY DEF ListenerInv
<1>1. ClientWithout(p)[h] = Nobody <=> client[h] = Nobody
  BY PeersAssumption DEF ClientWithout, Closed
<1>2. backlog[h] = <<>> => BacklogWithout(p)[h] = <<>>
  BY DEF BacklogWithout
<1>3. CASE Leave(p)
  BY <1>1, <1>2, <1>3 DEF Leave, ListenerInv
<1>4. CASE EndProcess(p)
  <2>1. /\ lpc'[h] = IF h = p THEN "dead" ELSE lpc[h]
        /\ client'[h] = IF h = p THEN Nobody ELSE ClientWithout(p)[h]
        /\ backlog'[h] = IF h = p THEN <<>> ELSE BacklogWithout(p)[h]
    BY <1>4, WithoutType DEF EndProcess, Types
  <2> QED
    BY <1>1, <1>2, <2>1 DEF ListenerInv
<1> QED
  BY <1>3, <1>4

LEMMA ListenerInvStep ==
  ASSUME Types, ListenerInv, MainInv, [Next]_vars
  PROVE  ListenerInv'
<1>1. ASSUME NEW p \in Peers, MainStep(p) \/ UserStep(p) \/ Killed(p)
      PROVE  ListenerInv'
  <2>1. CASE MainStep(p) \/ Request(p)
    BY <2>1 DEF MainStep, RecvList, Answered, Spin, Request, listenerVars, ListenerInv
  <2>2. CASE Quit(p) \/ Killed(p) \/ Leave(p)
    BY <2>2, ListenerEnd DEF Quit, Killed
  <2>3. CASE Start(p)
    BY <2>3 DEF Start, SetUp, Types, ListenerInv, MainInv
  <2>4. ASSUME NEW h \in Peers, Connect(p, h)
        PROVE  ListenerInv'
    BY <2>4 DEF Connect, Types, ListenerInv
  <2> QED
    BY <1>1, <2>1, <2>2, <2>3, <2>4 DEF UserStep
<1>2. ASSUME NEW g \in Peers, ListenerStep(g) \/ AcceptFails(g)
      PROVE  ListenerInv'
  <2>1. CASE SendList(g)
    BY <2>1 DEF SendList, Types, ListenerInv
  <2>2. CASE Accept(g)
    <3>1. backlog[g] \in Seq(Peers \cup {Gone, GoneAsked}) /\ backlog[g] # <<>>
      BY <2>2 DEF Types, Accept
    <3>2. Head(backlog[g]) \in Peers \cup {Gone, GoneAsked}
      BY <3>1, HeadTailProperties
    <3>3. Head(backlog[g]) # Nobody
      BY <3>2, PeersAssumption
    <3> QED
      BY <2>2, <3>3 DEF Accept, Types, ListenerInv
  <2>3. CASE Serve(g) \/ Disconnect(g)
    BY <2>3, PeersAssumption DEF Serve, Disconnect, Types, ListenerInv
  <2>4. CASE AcceptFails(g)
    BY <2>4 DEF AcceptFails, Types, ListenerInv
  <2> QED
    BY <1>2, <2>1, <2>2, <2>3, <2>4 DEF ListenerStep
<1>3. CASE UNCHANGED vars
  BY <1>3 DEF vars, mainVars, listenerVars, ListenerInv
<1> QED
  BY <1>1, <1>2, <1>3 DEF Next

LEMMA MainInvStep ==
  ASSUME Types, MainInv, [Next]_vars
  PROVE  MainInv'
<1>1. ASSUME NEW p \in Peers, MainStep(p) \/ UserStep(p) \/ Killed(p)
      PROVE  MainInv'
  <2>1. CASE MainStep(p) \/ Request(p)
    BY <2>1 DEF MainStep, RecvList, Answered, Spin, Request, listenerVars, Types, MainInv
  <2>2. CASE Quit(p) \/ Killed(p)
    <3>1. /\ main' = [main EXCEPT ![p] = "ended"] /\ at' = [at EXCEPT ![p] = Nobody]
          /\ lpc' = [lpc EXCEPT ![p] = "dead"]
      BY <2>2 DEF Quit, Killed, EndProcess
    <3>2. PICK how \in {"fin", "rst"} :
            link' = [LinksCut(ClientsOf(p), how) EXCEPT ![p] = "none"]
      BY <2>2 DEF Quit, Killed, EndProcess
    <3>3. /\ link'[p] = "none"
          /\ \A q \in Peers : q # p /\ link'[q] # link[q] => link[q] = "open" /\ link'[q] # "open"
      BY <3>2 DEF LinksCut, ClientsOf, Types
    <3> QED
      BY <3>1, <3>3 DEF Types, MainInv
  <2>3. CASE Start(p) \/ Leave(p)
    BY <2>3 DEF Start, Leave, Types, MainInv
  <2>4. ASSUME NEW h \in Peers, Connect(p, h)
        PROVE  MainInv'
    BY <2>4, PeersAssumption DEF Connect, Types, MainInv
  <2> QED
    BY <1>1, <2>1, <2>2, <2>3, <2>4 DEF UserStep
<1>2. ASSUME NEW g \in Peers, ListenerStep(g) \/ AcceptFails(g)
      PROVE  MainInv'
  <2>1. CASE AcceptFails(g)
    BY <2>1 DEF AcceptFails, LinksCut, ClientsOf, Types, MainInv
  <2>2. CASE ListenerStep(g)
    BY <2>2 DEF ListenerStep, Accept, SendList, Serve, Disconnect, mainVars, Types, MainInv
  <2> QED
    BY <1>2, <2>1, <2>2
<1>3. CASE UNCHANGED vars
  BY <1>3 DEF vars, mainVars, listenerVars, MainInv
<1> QED
  BY <1>1, <1>2, <1>3 DEF Next

\* ServedInv, for one listener.
ServedAt(h) ==
  lpc[h] = "recv" /\ client[h] \in Peers /\ main[client[h]] \in {"list", "recv"} =>
    \/ ask[client[h]] /\ main[client[h]] = "recv"
    \/ reply[client[h]]
    \/ h \in Silent

LEMMA ServedParts == ServedInv <=> \A h \in Peers : ServedAt(h)
  BY DEF ServedInv, ServedAt

LEMMA ServedPartsNext == ServedInv' <=> \A h \in Peers : ServedAt(h)'
  BY DEF ServedInv, ServedAt

\* The client a listener serves is connected to it.
LEMMA ClientIsConnected ==
  ASSUME Placed, NEW h \in Peers, client[h] \in Peers
  PROVE  at[client[h]] = h /\ link[client[h]] = "open"
<1>1. PlacedAt(client[h], h)
  BY PlacedParts
<1> QED
  BY <1>1 DEF PlacedAt

LEMMA ServedMain ==
  ASSUME NetInv, NEW p \in Peers, MainStep(p) \/ UserStep(p) \/ Killed(p)
  PROVE  ServedInv'
<1> SUFFICES ASSUME NEW h \in Peers, lpc'[h] = "recv", client'[h] \in Peers,
                    main'[client'[h]] \in {"list", "recv"}
             PROVE  ServedAt(h)'
  BY ServedPartsNext DEF ServedAt
<1> DEFINE c == client'[h]
<1>0. Types /\ Placed /\ MainInv /\ ServedAt(h)
  BY ServedParts DEF NetInv
<1>1. client[h] \in Peers => at[client[h]] = h /\ link[client[h]] = "open"
  BY <1>0, ClientIsConnected
<1>2. CASE MainStep(p)
  BY <1>0, <1>2
  DEF MainStep, RecvList, Answered, Spin, listenerVars, Types, ServedAt
<1>3. CASE Request(p)
  BY <1>0, <1>1, <1>3 DEF Request, listenerVars, Types, ServedAt
<1>4. CASE Start(p)
  BY <1>0, <1>4 DEF Start, SetUp, Types, ServedAt
<1>5. ASSUME NEW g \in Peers, Connect(p, g)
      PROVE  ServedAt(h)'
  BY <1>0, <1>1, <1>5 DEF Connect, Types, MainInv, ServedAt
<1>6. CASE Leave(p)
  <2>1. client[h] = c /\ c # p
    BY <1>0, <1>6, WithoutLine DEF Leave
  <2> QED
    BY <1>0, <1>6, <2>1 DEF Leave, Types, ServedAt
<1>7. CASE EndProcess(p)
  <2>1. h # p /\ lpc'[h] = lpc[h] /\ client'[h] = ClientWithout(p)[h]
    BY <1>0, <1>7, WithoutType DEF EndProcess, Types
  <2>2. client[h] = c /\ c # p
    BY <1>0, <2>1, WithoutLine
  <2>3. at[c] # p
    BY <1>1, <2>1, <2>2
  <2>4. ask'[c] = ask[c] /\ main'[c] = main[c]
    BY <1>0, <1>7, <2>2 DEF EndProcess, Types
  <2>5. reply[c] => reply'[c]
    <3>1. PICK how : reply' = [RepliesLeft(ClientsOf(p), how) EXCEPT ![p] = FALSE]
      BY <1>7 DEF EndProcess
    <3>2. c \notin ClientsOf(p)
      BY <2>3 DEF ClientsOf
    <3>3. reply'[c] = (reply[c] /\ ~ (c \in ClientsOf(p) /\ how = "rst"))
      BY <2>2, <3>1 DEF RepliesLeft
    <3> QED
      BY <3>2, <3>3
  <2> QED
    BY <1>0, <2>1, <2>2, <2>4, <2>5 DEF ServedAt
<1> QED
  BY <1>2, <1>3, <1>4, <1>5, <1>6, <1>7 DEF UserStep, Quit, Killed

LEMMA ServedListener ==
  ASSUME NetInv, NEW g \in Peers, ListenerStep(g) \/ AcceptFails(g)
  PROVE  ServedInv'
<1> SUFFICES ASSUME NEW h \in Peers, lpc'[h] = "recv", client'[h] \in Peers
             PROVE  ServedAt(h)'
  BY ServedPartsNext DEF ServedAt
<1>0. Types /\ Placed /\ ServedAt(h)
  BY ServedParts DEF NetInv
<1>1. CASE Accept(g) \/ Disconnect(g)
  <2>1. /\ main' = main /\ ask' = ask /\ reply' = reply
        /\ \A q \in Peers \ {g} : lpc'[q] = lpc[q] /\ client'[q] = client[q]
        /\ lpc'[g] # "recv"
    BY <1>0, <1>1 DEF Accept, Disconnect, mainVars, Types
  <2> QED
    BY <1>0, <2>1 DEF ServedAt
<1>2. CASE AcceptFails(g)
  BY <1>0, <1>2 DEF AcceptFails, Types, ServedAt
<1>3. ASSUME reply' = Sent(client[g]) \/ (g \in Silent /\ reply' = reply)
      PROVE  /\ \A q \in Peers : reply[q] => reply'[q]
             /\ client[g] \in Peers => reply'[client[g]] \/ g \in Silent
  BY <1>3 DEF Sent
<1>4. CASE SendList(g)
  <2>1. /\ client' = client /\ main' = main /\ ask' = ask
        /\ reply' = Sent(client[g]) \/ (g \in Silent /\ reply' = reply)
        /\ h # g => lpc[h] = "recv"
    BY <1>0, <1>4 DEF SendList, Types
  <2>2. CASE h = g
    BY <1>3, <2>1, <2>2 DEF ServedAt
  <2>3. CASE h # g
    BY <1>0, <1>3, <2>1, <2>3 DEF ServedAt
  <2> QED
    BY <2>2, <2>3
<1>5. CASE Serve(g)
  <2>1. CASE client[g] = GoneAsked
    <3>1. h # g /\ client'[h] = client[h] /\ ask' = ask /\ reply' = reply
      BY <1>0, <1>5, <2>1, PeersAssumption DEF Serve, Types
    <3> QED
      BY <1>0, <1>5, <3>1 DEF Serve, ServedAt
  <2>2. CASE client[g] \in Peers /\ client[g] # GoneAsked
    <3>1. /\ client' = client /\ lpc' = lpc /\ main' = main
          /\ reply' = Sent(client[g]) \/ (g \in Silent /\ reply' = reply)
          /\ ask' = [ask EXCEPT ![client[g]] = FALSE]
      BY <1>5, <2>2 DEF Serve
    <3>2. CASE h = g
      BY <1>3, <2>2, <3>1, <3>2 DEF ServedAt
    <3>3. CASE h # g
      <4>1. client[h] # client[g]
        BY <1>0, <2>2, <3>1, <3>3, ClientIsConnected
      <4>2. ask'[client[h]] = ask[client[h]]
        BY <1>0, <3>1, <4>1 DEF Types
      <4> QED
        BY <1>0, <1>3, <3>1, <4>2 DEF ServedAt
    <3> QED
      BY <3>2, <3>3
  <2> QED
    BY <1>5, <2>1, <2>2 DEF Serve
<1> QED
  BY <1>1, <1>2, <1>4, <1>5 DEF ListenerStep

LEMMA NetStep ==
  ASSUME NetInv, [Next]_vars
  PROVE  NetInv'
<1>1. Types' /\ Placed' /\ ListenerInv' /\ MainInv'
  BY TypeStep, PlacedStep, ListenerInvStep, MainInvStep DEF NetInv
<1>2. ASSUME UNCHANGED vars
      PROVE  ServedInv'
  BY <1>2 DEF vars, mainVars, listenerVars, NetInv, ServedInv
<1>3. ServedInv'
  <2>1. ASSUME NEW p \in Peers, MainStep(p) \/ UserStep(p) \/ Killed(p)
        PROVE  ServedInv'
    BY <2>1, ServedMain
  <2>2. ASSUME NEW h \in Peers, ListenerStep(h) \/ AcceptFails(h)
        PROVE  ServedInv'
    BY <2>2, ServedListener
  <2> QED
    BY <1>2, <2>1, <2>2 DEF Next
<1> QED
  BY <1>1, <1>3 DEF NetInv

(***************************************************************************)
(* For any number of peers, at every point of every thread: a listener is  *)
(* in its inner loop with a connection in client_socket and never without  *)
(* one, and a thread that returned holds no connection, whoever is killed  *)
(* or closes meanwhile (listen_for_connections).                           *)
(***************************************************************************)
THEOREM NetTypes == Spec => []TypeOK
<1>1. NetInv /\ [Next]_vars => NetInv'
  BY NetStep
<1>2. NetInv => TypeOK
  BY DEF NetInv, TypeOK
<1> QED
  BY TypeInit, <1>1, <1>2, PTL DEF Spec

(***************************************************************************)
(* For any number of peers, with clients and hosts that are killed and     *)
(* come back at any point: a connection that is open for its client is     *)
(* held exactly once by the listener it was made to, and a listener holds  *)
(* no other (accept and the closesocket calls of both threads).            *)
(***************************************************************************)
THEOREM PlacedTheorem == Spec => []Placed
<1>1. NetInv /\ [Next]_vars => NetInv'
  BY NetStep
<1>2. NetInv => Placed
  BY DEF NetInv
<1> QED
  BY TypeInit, <1>1, <1>2, PTL DEF Spec

LEMMA NoCircle ==
  ASSUME NetInv
  PROVE  NoCircularWait
<1> SUFFICES ASSUME NEW p \in Peers, main[p] \in {"list", "recv"}, link[p] = "open",
                    ~ reply[p]
             PROVE  LET h == at[p]
                        c == client[h]
                    IN  \/ lpc[h] \in {"accept", "list"}
                        \/ c \in {Gone, GoneAsked}
                        \/ c \in Peers /\ (ask[c] \/ reply[c] \/ main[c] = "prompt")
                        \/ c \in Peers /\ h \in Silent /\ main[c] \in {"list", "recv"}
  BY DEF NoCircularWait
<1>0. Types /\ Placed /\ ListenerInv /\ MainInv /\ ServedInv
  BY DEF NetInv
<1> DEFINE h == at[p]
           c == client[h]
<1>1. h \in Peers
  <2>1. at[p] \in Peers \cup {Nobody} /\ \A g \in Peers : PlacedAt(p, g)
    BY <1>0, PlacedParts DEF Types
  <2> QED
    BY <1>0, <2>1 DEF MainInv
<1>2. lpc[h] # "dead"
  <2>1. PlacedAt(p, h)
    BY <1>0, <1>1, PlacedParts
  <2>2. client[h] = p \/ Line(h, p) # {}
    BY <2>1 DEF PlacedAt
  <2> QED
    BY <1>0, <1>1, <2>2, PeersAssumption DEF ListenerInv, Line
<1>3. CASE lpc[h] = "recv"
  <2>1. c # Nobody /\ c \in Peers \cup {Nobody, Gone, GoneAsked}
    BY <1>0, <1>1, <1>3 DEF ListenerInv, Types
  <2>2. CASE c \in Peers
    <3>1. link[c] = "open"
      BY <1>0, <1>1, <2>2, ClientIsConnected
    <3>2. main[c] \in {"list", "prompt", "recv"}
      BY <1>0, <2>2, <3>1 DEF MainInv, Types
    <3> QED
      BY <1>0, <1>1, <1>3, <2>2, <3>2 DEF ServedInv
  <2> QED
    BY <2>1, <2>2
<1>4. lpc[h] \in {"accept", "list", "recv", "dead"}
  BY <1>0, <1>1 DEF Types
<1> QED
  BY <1>2, <1>3, <1>4

(***************************************************************************)
(* For any number of peers connected in any way, to themselves included:   *)
(* main threads never wait in a circle.  One that waits has a listener     *)
(* that can go on, or waits behind a client that can, or whose user is at  *)
(* the prompt, or its host is one that sends nothing.                      *)
(***************************************************************************)
THEOREM NoCircularWaitTheorem == Spec => []NoCircularWait
<1>1. NetInv /\ [Next]_vars => NetInv'
  BY NetStep
<1> QED
  BY TypeInit, <1>1, NoCircle, PTL DEF Spec
=============================================================================
