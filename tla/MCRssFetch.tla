----------------------------- MODULE MCRssFetch -----------------------------
(***************************************************************************)
(* Instances of RssFetch for TLC.                                          *)
(***************************************************************************)
EXTENDS RssFetch, TLC

CONSTANTS f1, f2, e1, e2, e3

OwnUuid == [e \in Entries |-> e]

\* The feeds share one entry.
Overlap == [f \in Feeds |-> IF f = f1 THEN {e1, e2} ELSE {e1, e3}]

\* No updaterate in the database.
NoRate == [f \in Feeds |-> 0]
=============================================================================
