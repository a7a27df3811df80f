------------------------------ MODULE Transfer ------------------------------
(***************************************************************************)
(* What a session promises its user, without streams, buffers or threads:  *)
(* a request ends with the whole file stored, with the word that there is  *)
(* no such file, or because the connection is gone, and with nothing else. *)
(* Module Session implements it (download_files and the listener).         *)
(***************************************************************************)
CONSTANTS
  Names,   \* what can be asked for
  NoName,  \* nothing has been asked for yet
  Files    \* the names in the host's upload directory

VARIABLES
  phase,   \* of the user: not connected, at the prompt, waiting, gone
  wanted,  \* the name asked for last
  store,   \* the files stored whole and reported so
  up       \* the connection stands

vars == <<phase, wanted, store, up>>

Init == phase = "away" /\ wanted = NoName /\ store = {} /\ up = FALSE

Connect == phase = "away" /\ up' = TRUE /\ UNCHANGED <<phase, wanted, store>>

Break == up /\ up' = FALSE /\ UNCHANGED <<phase, wanted, store>>

Join == phase = "away" /\ phase' = "idle" /\ UNCHANGED <<wanted, store, up>>

Leave == phase # "gone" /\ phase' = "gone" /\ UNCHANGED <<wanted, store, up>>

Ask(n) ==
  phase = "idle" /\ phase' = "waiting" /\ wanted' = n /\ UNCHANGED <<store, up>>

\* What was stored under that name is lost when the new copy begins.
Begin == phase = "waiting" /\ store' = store \ {wanted} /\ UNCHANGED <<phase, wanted, up>>

Deliver ==
  /\ phase = "waiting" /\ wanted \in Files
  /\ phase' = "idle" /\ store' = store \cup {wanted}
  /\ UNCHANGED <<wanted, up>>

\* There is no such file, or the connection is gone.
Refuse ==
  /\ phase = "waiting" /\ (wanted \notin Files \/ ~ up)
  /\ phase' = "idle"
  /\ UNCHANGED <<wanted, store, up>>

Next ==
  \/ Connect \/ Break \/ Join \/ Leave \/ Begin \/ Deliver \/ Refuse
  \/ \E n \in Names : Ask(n)

Spec == Init /\ [][Next]_vars
=============================================================================
