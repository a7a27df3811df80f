------------------------------ MODULE FileList ------------------------------
(***************************************************************************)
(* The main loop of tomypeersV2.c and its linked list of files: nodes that *)
(* createNode takes from the heap, appendNode links and freelist returns,  *)
(* and the variable start of main, which freelist cannot reset.  Reading   *)
(* the listing and the user's session are one step each; module Session    *)
(* models them.                                                            *)
(***************************************************************************)
EXTENDS Integers, Sequences, FiniteSets

CONSTANTS
  Addr,        \* addresses malloc may return
  NULL,        \* no address
  Files,       \* what sscanf makes of a line: a name and a size
  Listings,    \* the listings a host may send, line by line
  MaxConnects  \* bound: how often the user connects

ASSUME HeapAssumption ==
  /\ IsFiniteSet(Addr) /\ NULL \notin Addr
  /\ <<>> \in Listings /\ Listings \subseteq Seq(Files)
  /\ MaxConnects \in Nat

VARIABLES
  pc,        \* where the main thread is
  start,     \* start of main
  heap,      \* the memory behind each address: its node, and if it is in use
  new,       \* newNode of appendNode
  temp,      \* temp of appendNode, start of freelist
  todo,      \* tokens strtok has not returned yet
  listing,   \* the listing of this connection
  connects,  \* connections made
  stale      \* ghost: a connection has found a list that was freed

vars == <<pc, start, heap, new, temp, todo, listing, connects, stale>>

Pointer == Addr \cup {NULL}
Memory  == [live : BOOLEAN, file : Files, next : Pointer]
-----------------------------------------------------------------------------
(***************************************************************************)
(* Following next from address a in memory h, as far as there are          *)
(* addresses.                                                              *)
(***************************************************************************)
Steps == 0..Cardinality(Addr)

Follow(h, a) ==
  LET at[k \in Steps] == IF k = 0 THEN a
                         ELSE IF at[k - 1] = NULL THEN NULL ELSE h[at[k - 1]].next
  IN  at

\* while (temp != NULL) ends.
Ends(h, a) == \E k \in Steps : Follow(h, a)[k] = NULL

\* The nodes such a loop visits, and what they store.
Visited(h, a) == {k \in Steps : Follow(h, a)[k] # NULL}
Contents(h, a) == [i \in 1..Cardinality(Visited(h, a)) |-> h[Follow(h, a)[i - 1]].file]

\* It reads memory that was freed.
Dangling(h, a) == \E k \in Visited(h, a) : ~ h[Follow(h, a)[k]].live
-----------------------------------------------------------------------------
\* Memory that malloc has not returned yet holds anything.
Init ==
  /\ pc = "menu"
  /\ start = NULL
  /\ heap \in [Addr -> {m \in Memory : ~ m.live}]
  /\ new = NULL
  /\ temp = NULL
  /\ todo = <<>>
  /\ listing = <<>>
  /\ connects = 0
  /\ stale = FALSE

(***************************************************************************)
(* command_selection.  upload_list only prints.  For any word but these    *)
(* two, exit included, strcmp is given command[0], a character, as an      *)
(* address.                                                                *)
(***************************************************************************)
CommandConnect ==
  /\ pc = "menu"
  /\ connects < MaxConnects
  /\ connects' = connects + 1
  /\ stale' = (stale \/ start # NULL)
  /\ pc' = "recv"
  /\ UNCHANGED <<start, heap, new, temp, todo, listing>>

CommandOther ==
  /\ pc = "menu"
  /\ pc' = "crashed"
  /\ UNCHANGED <<start, heap, new, temp, todo, listing, connects, stale>>

\* The recv of recv_and_display_file_list; no line if it returns 0 or -1.
RecvList ==
  /\ pc = "recv"
  /\ listing' \in Listings
  /\ todo' = listing'
  /\ pc' = "append"
  /\ UNCHANGED <<start, heap, new, temp, connects, stale>>

\* Mutant: newNode->next is not set.
NodeWithoutNext(a, f) == [live |-> TRUE, file |-> f, next |-> heap[a].next]

\* createNode: the fields of the new node.
NodeFor(a, f) == [live |-> TRUE, file |-> f, next |-> NULL]

createNode ==
  /\ pc = "append"
  /\ todo # <<>>
  /\ \E a \in Addr : /\ ~ heap[a].live
                     /\ new' = a
                     /\ heap' = [heap EXCEPT ![a] = NodeFor(a, Head(todo))]
  /\ todo' = Tail(todo)
  /\ pc' = "link"
  /\ UNCHANGED <<start, temp, listing, connects, stale>>

\* malloc returns NULL: exit(EXIT_FAILURE).
MallocFails ==
  /\ pc = "append"
  /\ todo # <<>>
  /\ pc' = "exited"
  /\ UNCHANGED <<start, heap, new, temp, todo, listing, connects, stale>>

\* appendNode on an empty list, and the start of its walk on another.
LinkFirst ==
  /\ pc = "link"
  /\ start = NULL
  /\ start' = new
  /\ pc' = "append"
  /\ UNCHANGED <<heap, new, temp, todo, listing, connects, stale>>

StartWalk ==
  /\ pc = "link"
  /\ start # NULL
  /\ temp' = start
  /\ pc' = "walk"
  /\ UNCHANGED <<start, heap, new, todo, listing, connects, stale>>

\* Mutant: the new node goes behind the first one.
AtFirst(a) == TRUE

\* Mutant: the walk stops at temp == NULL.
PastEnd(a) == FALSE

\* temp->next == NULL.
AtEnd(a) == heap[a].next = NULL

\* temp = temp->next.
Walk ==
  /\ pc = "walk"
  /\ ~ AtEnd(temp)
  /\ temp' = heap[temp].next
  /\ UNCHANGED <<pc, start, heap, new, todo, listing, connects, stale>>

\* temp->next = newNode.
LinkLast ==
  /\ pc = "walk"
  /\ AtEnd(temp)
  /\ heap' = [heap EXCEPT ![temp].next = new]
  /\ pc' = "append"
  /\ UNCHANGED <<start, new, temp, todo, listing, connects, stale>>

\* printlist, at the end of recv_and_display_file_list and in download_files.
PrintList ==
  /\ pc = "append"
  /\ todo = <<>>
  /\ pc' = IF Ends(heap, start) THEN "download" ELSE "hung"
  /\ UNCHANGED <<start, heap, new, temp, todo, listing, connects, stale>>

\* The user leaves download_files; freelist gets a copy of start.
Leave ==
  /\ pc = "download"
  /\ temp' = start
  /\ pc' = "free"
  /\ UNCHANGED <<start, heap, new, todo, listing, connects, stale>>

\* Mutant: free only the first node.
FreeOnce(a) == NULL

\* Mutant: next is read after free.
NextOfFreed(a) == heap'[a].next

\* start = start->next, in freelist.
NextToFree(a) == heap[a].next

\* What free leaves in the memory is up to the allocator.
freelist ==
  /\ pc = "free"
  /\ temp # NULL
  /\ \E m \in Memory : ~ m.live /\ heap' = [heap EXCEPT ![temp] = m]
  /\ temp' = NextToFree(temp)
  /\ UNCHANGED <<pc, start, new, todo, listing, connects, stale>>

FreeDone ==
  /\ pc = "free"
  /\ temp = NULL
  /\ pc' = "menu"
  /\ UNCHANGED <<start, heap, new, temp, todo, listing, connects, stale>>

(***************************************************************************)
(* Memory that was freed is read, written or freed again.  The program may *)
(* fault; where it does not, the actions above go on with what is there.   *)
(***************************************************************************)
UsesFreed ==
  \/ pc \in {"walk", "free"} /\ temp # NULL /\ ~ heap[temp].live
  \/ pc = "append" /\ todo = <<>> /\ Dangling(heap, start)

UseAfterFree ==
  /\ UsesFreed
  /\ pc' = "crashed"
  /\ UNCHANGED <<start, heap, new, temp, todo, listing, connects, stale>>

Program ==
  \/ RecvList \/ createNode \/ MallocFails \/ LinkFirst \/ StartWalk \/ Walk \/ LinkLast
  \/ PrintList \/ freelist \/ FreeDone \/ UseAfterFree

Next == Program \/ CommandConnect \/ CommandOther \/ Leave

Spec == Init /\ [][Next]_vars

\* The thread is scheduled; nobody makes the user type.
FairSpec == Spec /\ WF_vars(Program)
-----------------------------------------------------------------------------
\* Types; appendNode and freelist never follow a null pointer.
TypeOK ==
  /\ pc \in {"menu", "recv", "append", "link", "walk", "download", "free",
             "crashed", "exited", "hung"}
  /\ start \in Pointer /\ new \in Pointer
  /\ temp \in IF pc = "walk" THEN Addr ELSE Pointer
  /\ heap \in [Addr -> Memory]
  /\ todo \in Seq(Files) /\ listing \in Seq(Files)
  /\ connects \in 0..MaxConnects
  /\ stale \in BOOLEAN

(***************************************************************************)
(* At the prompt of download_files the list holds the files of the         *)
(* listing, in its order, in memory that is in use: this is what           *)
(* get_filesize searches (recv_and_display_file_list, appendNode).         *)
(***************************************************************************)
ListIsListing ==
  pc = "download" => Contents(heap, start) = listing /\ ~ Dangling(heap, start)

\* It does in each connection that found main's list empty: the first one, or
\* one after listings without files (appendNode, freelist).
FreshListIsListing == ~ stale => ListIsListing

\* In such a connection appendNode, printlist and freelist touch no memory that
\* was freed, free nothing twice, and printlist comes to the end of the list.
FreshListIsSafe == ~ stale => ~ UsesFreed /\ pc # "hung"

\* Between such connections no node is in use: freelist gives back all of them.
NothingLeaks == ~ stale /\ pc = "menu" => \A a \in Addr : ~ heap[a].live


\* The list main can use: freelist takes its first node first.
Reached == IF stale \/ Dangling(heap, start) THEN <<>> ELSE Contents(heap, start)

\* In these connections the linked list implements a sequence that grows at
\* its end and is cleared as a whole (appendNode, freelist).
L == INSTANCE ListSpec WITH list <- Reached
ListRefines == L!ListSafety
=============================================================================
