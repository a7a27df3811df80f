----------------------------- MODULE MCFileList -----------------------------
(***************************************************************************)
(* Instances of FileList: a few addresses, two files and every listing of  *)
(* up to MaxLines of them.  A file may be listed twice: strtok and sscanf  *)
(* do not look.                                                            *)
(***************************************************************************)
EXTENDS FileList, SequencesExt

CONSTANTS MaxLines   \* bound: lines of a listing

MCListings == BoundedSeq(Files, MaxLines)
=============================================================================
