----------------------------- MODULE MCRegistry -----------------------------
(***************************************************************************)
(* The instance of Registry.  The listening socket lies between the        *)
(* numbers accept may return: the loop meets sockets before and after it,  *)
(* and a number closed in one round may be used again in the same round.   *)
(***************************************************************************)
EXTENDS Registry
=============================================================================
