------------------------------ MODULE MCRssPush -----------------------------
(***************************************************************************)
(* Instances of RssPush for TLC.                                           *)
(***************************************************************************)
EXTENDS RssPush

AllWanted == [u \in Users |-> Articles]
=============================================================================
