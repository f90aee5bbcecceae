-------------------------- MODULE MCAccessControl --------------------------
(***************************************************************************)
(* Instances of AccessControl for TLC.  Times are in ms; ExpireAge stands  *)
(* for the code's 60000 and is scaled down together with the bursts, so    *)
(* that "older than ExpireAge" and "drained" are independent as they are   *)
(* in the code, where a burst of up to 100 s outlives the 60 s.            *)
(***************************************************************************)
EXTENDS AccessControl, TLC

CONSTANTS slow, fast

\* Two limits over the same table; "fast" has a quota above one per second.
SameTable == [z \in Limits |-> [k \in Keys |-> IF k = fast THEN 4000 ELSE 3600]]

\* The row of "slow" was withdrawn before the last directive read the table.
ChangedTable ==
  [z \in Limits |-> [k \in Keys |-> IF k = slow /\ z = NLimits THEN 0 ELSE 3600]]

BurstOne == [z \in Limits |-> 1]
DelayFirst == [z \in Limits |-> z # 1]

Symmetry == Permutations(Workers) \cup Permutations(Requests)
=============================================================================
