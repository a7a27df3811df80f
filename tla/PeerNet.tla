------------------------------ MODULE PeerNet ------------------------------
(***************************************************************************)
(* Several peers running tomypeers.c.  Each is a process of two threads:   *)
(* main, in which its user connects to some peer, itself included, and     *)
(* listen_for_connections, which serves one client at a time while the     *)
(* others wait in the backlog.  Listings and answers are whole here (see   *)
(* Session for their bytes); what counts is who waits for whom.            *)
(***************************************************************************)
EXTENDS Integers, Sequences

CONSTANTS
  Peers,
  Knows,      \* <<p, h>>: the user of p knows the address of h
  Nobody,     \* no client, no host
  Gone,       \* a connection its client has closed
  GoneAsked,  \* the same, with a name that the listener has not read yet
  Backlog,    \* SOMAXCONN: connections that can wait for accept
  Silent      \* hosts that may send nothing: no upload directory, or an empty one,
              \* a file that is empty, cannot be opened or is not of the size that the
              \* client waits for

ASSUME PeersAssumption ==
  /\ Backlog \in Nat \ {0} /\ Silent \subseteq Peers /\ Knows \subseteq Peers \X Peers
  /\ {Nobody, Gone, GoneAsked} \cap Peers = {}
  /\ Nobody # Gone /\ Nobody # GoneAsked /\ Gone # GoneAsked

VARIABLES
  main,     \* where the main thread is
  at,       \* the host it is connected to
  link,     \* its connection, as its recv sees it
  ask,      \* a name it sent is not read yet
  reply,    \* bytes wait for its recv
  lpc,      \* where the listener is
  client,   \* the connection client_socket stands for
  backlog   \* the connections accept has not returned yet

mainVars     == <<main, at, link, ask, reply>>
listenerVars == <<lpc, client, backlog>>
vars         == <<mainVars, listenerVars>>

Init ==
  /\ main = [p \in Peers |-> "ended"]
  /\ at = [p \in Peers |-> Nobody]
  /\ link = [p \in Peers |-> "none"]
  /\ ask = [p \in Peers |-> FALSE]
  /\ reply = [p \in Peers |-> FALSE]
  /\ lpc = [p \in Peers |-> "dead"]
  /\ client = [p \in Peers |-> Nobody]
  /\ backlog = [p \in Peers |-> <<>>]
-----------------------------------------------------------------------------
(***************************************************************************)
(* Ends of connections and of processes.                                   *)
(***************************************************************************)

\* What becomes of p's connection in its host's listener.
Closed(p) == IF ask[p] THEN GoneAsked ELSE Gone

\* Mutant: the socket is not closed, and the listener keeps its client.
KeepOpen(p) == client

\* closesocket(connection): the listener's side of it.
ClientWithout(p) == [h \in Peers |-> IF client[h] = p THEN Closed(p) ELSE client[h]]
BacklogWithout(p) ==
  [h \in Peers |-> [i \in 1..Len(backlog[h]) |->
                      IF backlog[h][i] = p THEN Closed(p) ELSE backlog[h][i]]]

\* The clients of h, served or waiting, and their connections when h is gone.
ClientsOf(h) == {p \in Peers : at[p] = h /\ link[p] = "open"}
LinksCut(S, how) == [p \in Peers |-> IF p \in S THEN how ELSE link[p]]
RepliesLeft(S, how) == [p \in Peers |-> reply[p] /\ ~ (p \in S /\ how = "rst")]

\* The process of p ends, and both its threads and all its sockets with it.
EndProcess(p) ==
  /\ main' = [main EXCEPT ![p] = "ended"]
  /\ at' = [at EXCEPT ![p] = Nobody]
  /\ \E how \in {"fin", "rst"} :
       /\ link' = [LinksCut(ClientsOf(p), how) EXCEPT ![p] = "none"]
       /\ reply' = [RepliesLeft(ClientsOf(p), how) EXCEPT ![p] = FALSE]
  /\ ask' = [ask EXCEPT ![p] = FALSE]
  /\ lpc' = [lpc EXCEPT ![p] = "dead"]
  /\ client' = [ClientWithout(p) EXCEPT ![p] = Nobody]
  /\ backlog' = [BacklogWithout(p) EXCEPT ![p] = <<>>]
-----------------------------------------------------------------------------
(***************************************************************************)
(* The main thread.                                                        *)
(***************************************************************************)

\* The listener gets to its loop, or a call of its set-up fails and it returns.
SetUp == {"accept", "dead"}

\* main starts, for the first time or again, and starts the listener.
Start(p) ==
  /\ main[p] = "ended"
  /\ main' = [main EXCEPT ![p] = "menu"]
  /\ \E l \in SetUp : lpc' = [lpc EXCEPT ![p] = l]
  /\ UNCHANGED <<at, link, ask, reply, client, backlog>>

Connect(p, h) ==
  /\ main[p] = "menu"
  /\ <<p, h>> \in Knows
  /\ lpc[h] # "dead"
  /\ Len(backlog[h]) < Backlog
  /\ main' = [main EXCEPT ![p] = "list"]
  /\ at' = [at EXCEPT ![p] = h]
  /\ link' = [link EXCEPT ![p] = "open"]
  /\ backlog' = [backlog EXCEPT ![h] = Append(@, p)]
  /\ UNCHANGED <<ask, reply, lpc, client>>

\* The user types exit; or an address where nobody accepts, and main returns
\* just the same, whoever the listener is serving.
Quit(p) ==
  /\ main[p] = "menu"
  /\ EndProcess(p)

\* recv of the listing returns; 0 and an error lead to the prompt as well.
RecvList(p) ==
  /\ main[p] = "list"
  /\ reply[p] \/ link[p] # "open"
  /\ reply' = [reply EXCEPT ![p] = FALSE]
  /\ main' = [main EXCEPT ![p] = "prompt"]
  /\ UNCHANGED <<at, link, ask, listenerVars>>

Request(p) ==
  /\ main[p] = "prompt"
  /\ main' = [main EXCEPT ![p] = "recv"]
  /\ ask' = [ask EXCEPT ![p] = (link[p] = "open")]
  /\ UNCHANGED <<at, link, reply, listenerVars>>

\* The answer is there, or the first recv returns 0 or an error.
Answered(p) ==
  /\ main[p] = "recv"
  /\ reply[p] \/ link[p] # "open"
  /\ reply' = [reply EXCEPT ![p] = FALSE]
  /\ main' = [main EXCEPT ![p] = "prompt"]
  /\ UNCHANGED <<at, link, ask, listenerVars>>

\* The host was gone before the end of the file: the loop never ends.
Spin(p) ==
  /\ main[p] = "recv"
  /\ link[p] = "rst" \/ (link[p] = "fin" /\ reply[p])
  /\ reply' = [reply EXCEPT ![p] = FALSE]
  /\ main' = [main EXCEPT ![p] = "spin"]
  /\ UNCHANGED <<at, link, ask, listenerVars>>

\* The user types exit at the second prompt: closesocket(connection).
Leave(p) ==
  /\ main[p] = "prompt"
  /\ main' = [main EXCEPT ![p] = "menu"]
  /\ at' = [at EXCEPT ![p] = Nobody]
  /\ link' = [link EXCEPT ![p] = "none"]
  /\ ask' = [ask EXCEPT ![p] = FALSE]
  /\ client' = ClientWithout(p)
  /\ backlog' = BacklogWithout(p)
  /\ UNCHANGED <<reply, lpc>>

\* The process is ended from outside, or by fwrite of (size_t)-1 bytes.
Killed(p) ==
  /\ main[p] \in {"list", "prompt", "recv", "spin"}
  /\ EndProcess(p)
-----------------------------------------------------------------------------
(***************************************************************************)
(* The listener.                                                           *)
(***************************************************************************)

Accept(h) ==
  /\ lpc[h] = "accept"
  /\ backlog[h] # <<>>
  /\ client' = [client EXCEPT ![h] = Head(backlog[h])]
  /\ backlog' = [backlog EXCEPT ![h] = Tail(@)]
  /\ lpc' = [lpc EXCEPT ![h] = "list"]
  /\ UNCHANGED mainVars

\* Mutant: INVALID_SOCKET is not checked, and a client is served that is none.
Unchecked(h) ==
  /\ lpc[h] = "accept"
  /\ lpc' = [lpc EXCEPT ![h] = "list"]
  /\ UNCHANGED <<mainVars, client, backlog>>

\* closesocket(listen_socket) resets the connections that wait.
AcceptFails(h) ==
  /\ lpc[h] = "accept"
  /\ lpc' = [lpc EXCEPT ![h] = "dead"]
  /\ link' = LinksCut(ClientsOf(h), "rst")
  /\ backlog' = [backlog EXCEPT ![h] = <<>>]
  /\ UNCHANGED <<main, at, ask, reply, client>>

\* Mutant: nothing is sent.
NotSent(q) == reply

\* send: bytes for the client, if it is still there.
Sent(q) == [p \in Peers |-> reply[p] \/ p = q]

\* send_file_list and create_file_list.  An empty listing puts no byte on the
\* stream, and without the directory there is no send.
SendList(h) ==
  /\ lpc[h] = "list"
  /\ lpc' = [lpc EXCEPT ![h] = "recv"]
  /\ reply' = Sent(client[h]) \/ (h \in Silent /\ reply' = reply)
  /\ UNCHANGED <<main, at, link, ask, client, backlog>>

\* recv returns a name, and the file or the message is sent, or nothing.
Serve(h) ==
  /\ lpc[h] = "recv"
  /\ \/ /\ client[h] \in Peers /\ ask[client[h]]
        /\ ask' = [ask EXCEPT ![client[h]] = FALSE]
        /\ reply' = Sent(client[h]) \/ (h \in Silent /\ reply' = reply)
        /\ UNCHANGED client
     \/ /\ client[h] = GoneAsked
        /\ client' = [client EXCEPT ![h] = Gone]
        /\ UNCHANGED <<ask, reply>>
  /\ UNCHANGED <<main, at, link, lpc, backlog>>

\* Mutant: only an error ends the inner loop, not the 0 of a client that closed.
OnlyError(c) == FALSE

\* recv returns 0 or an error.
Ended(c) == c = Gone

\* closesocket(client_socket), back to accept.
Disconnect(h) ==
  /\ lpc[h] = "recv"
  /\ Ended(client[h])
  /\ client' = [client EXCEPT ![h] = Nobody]
  /\ lpc' = [lpc EXCEPT ![h] = "accept"]
  /\ UNCHANGED <<mainVars, backlog>>
-----------------------------------------------------------------------------
MainStep(p)     == RecvList(p) \/ Answered(p) \/ Spin(p)
ListenerStep(h) == Accept(h) \/ SendList(h) \/ Serve(h) \/ Disconnect(h)
UserStep(p)     == Start(p) \/ Quit(p) \/ Request(p) \/ Leave(p) \/ \E h \in Peers : Connect(p, h)

Next ==
  \E p \in Peers : MainStep(p) \/ ListenerStep(p) \/ UserStep(p) \/ Killed(p) \/ AcceptFails(p)

Spec == Init /\ [][Next]_vars

\* Every thread is scheduled; users are free.
FairSpec == Spec /\ \A p \in Peers : WF_vars(MainStep(p)) /\ WF_vars(ListenerStep(p))
-----------------------------------------------------------------------------
\* Types of the variables.
Types ==
  /\ main \in [Peers -> {"ended", "menu", "list", "prompt", "recv", "spin"}]
  /\ at \in [Peers -> Peers \cup {Nobody}]
  /\ link \in [Peers -> {"none", "open", "fin", "rst"}]
  /\ ask \in [Peers -> BOOLEAN] /\ reply \in [Peers -> BOOLEAN]
  /\ lpc \in [Peers -> {"accept", "list", "recv", "dead"}]
  /\ client \in [Peers -> Peers \cup {Nobody, Gone, GoneAsked}]
  /\ backlog \in [Peers -> Seq(Peers \cup {Gone, GoneAsked})]

\* A listener in its inner loop has a client, and only then; one that returned
\* has no connection left.
ListenerInv ==
  \A h \in Peers :
    /\ lpc[h] \in {"list", "recv"} <=> client[h] # Nobody
    /\ lpc[h] = "dead" => backlog[h] = <<>>

\* Types, and what the position of a listener says of its sockets: client_socket
\* is a connection in the inner loop of listen_for_connections and only there,
\* and a thread that returned has closed both.
TypeOK == Types /\ ListenerInv

(***************************************************************************)
(* Every connection a client holds to be open is known to the listener it  *)
(* was made to, exactly once, and no listener serves or keeps a client     *)
(* that has closed, was killed, or is connected elsewhere by now (accept   *)
(* and the two closesocket calls of the listener, closesocket of main).    *)
(***************************************************************************)
Placed ==
  \A p, h \in Peers :
    LET line == {i \in 1..Len(backlog[h]) : backlog[h][i] = p}
    IN  /\ (client[h] = p \/ line # {}) <=> (at[p] = h /\ link[p] = "open")
        /\ client[h] = p => line = {}
        /\ \A i, j \in line : i = j

(***************************************************************************)
(* Peers that serve each other never wait in a circle: when a main thread  *)
(* waits, the listener it waits for can go on, or the client served there  *)
(* can, or that client's user is at the prompt.  Only a host that sends no *)
(* listing or no answer stops its own clients (main and the listeners).    *)
(***************************************************************************)
NoCircularWait ==
  \A p \in Peers :
    main[p] \in {"list", "recv"} /\ link[p] = "open" /\ ~ reply[p] =>
      LET h == at[p]
          c == client[h]
      IN  \/ lpc[h] \in {"accept", "list"}
          \/ c \in {Gone, GoneAsked}
          \/ c \in Peers /\ (ask[c] \/ reply[c] \/ main[c] = "prompt")
          \/ c \in Peers /\ h \in Silent /\ main[c] \in {"list", "recv"}

\* No user who is at the prompt again and again stays there for good.
UsersLeave ==
  \A p \in Peers : []<>(main[p] = "prompt") => []<><<Leave(p)>>_vars

(***************************************************************************)
(* If users leave some time, every client of a host that answers gets to   *)
(* its prompt, however many come, are killed and come back before and      *)
(* after it, and whatever becomes of its host: the one listener thread     *)
(* serves all (the accept loop of listen_for_connections).                 *)
(***************************************************************************)
WaitingIsServed ==
  UsersLeave =>
    \A p \in Peers : (main[p] = "list" /\ at[p] \notin Silent) ~> main[p] # "list"
=============================================================================
