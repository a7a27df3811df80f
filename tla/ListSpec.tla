------------------------------ MODULE ListSpec ------------------------------
(***************************************************************************)
(* What main expects of the linked list of tomypeersV2.c: a sequence that  *)
(* grows at its end while a listing is read, and is empty again when the   *)
(* connection is closed.  Session uses this list.                          *)
(***************************************************************************)
EXTENDS Sequences

CONSTANT Files   \* what a node stores: a name and a size

VARIABLE list

ListInit == list = <<>>

\* appendNode: the node goes to the end.
Append1(f) == list' = Append(list, f)

\* freelist: all nodes go.
Clear == list' = <<>>

ListNext == Clear \/ \E f \in Files : Append1(f)

ListSafety == ListInit /\ [][ListNext]_list
=============================================================================
