-------------------------- MODULE MCSubscriptions --------------------------
(***************************************************************************)
(* Instances of Subscriptions for TLC.                                     *)
(***************************************************************************)
EXTENDS Subscriptions, TLC

\* Every user and keyword make a job name of their own.
OwnIdentity == [u \in Users |-> [k \in Words |-> <<u, k>>]]

\* Every article is news for every word.
AllMatch == [a \in Articles |-> Words]

\* Every article is news for one word only.
OneMatch == [a \in Articles |-> {CHOOSE k \in Words : TRUE}]

\* Words are alike when AllMatch holds, not with OneMatch.
SymmetryIds == UNION {Permutations(S) : S \in {Ids, Articles, Reqs}}
Symmetry ==
  UNION {Permutations(S) : S \in {Ids, Articles, Reqs, Words}}
=============================================================================
