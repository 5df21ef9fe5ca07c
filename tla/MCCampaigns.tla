---------------------------- MODULE MCCampaigns ----------------------------
(* Two sessions contend for a revision, a Run, a Campaign and the rows of  *)
(* two Runs, one of which is there from the start.                         *)
EXTENDS Campaigns, TLC

MCKeys == {"v1", "v2"}
MCDocuments == {"d1", "d2"}
MCCatalog == [d \in MCDocuments |-> {"f1"}]

\* Run 2 is of the revision of Run 1 or of another one; c1 has two contents,
\* with the Runs in opposite order, and c2 wants one of them.
MCRequests ==
  { [kind |-> "revision", key |-> "v2", document |-> "d1"],
    [kind |-> "revision", key |-> "v2", document |-> "d2"],
    [kind |-> "run", run |-> 2, key |-> "v1", document |-> "d1"],
    [kind |-> "run", run |-> 2, key |-> "v2", document |-> "d2"],
    [kind |-> "plan", campaign |-> "c1", faults |-> {}, runs |-> <<2, 1>>],
    [kind |-> "plan", campaign |-> "c1", faults |-> {"f1"}, runs |-> <<1, 2>>],
    [kind |-> "plan", campaign |-> "c2", faults |-> {"f1"}, runs |-> <<1>>] }

MCSeeded ==
  [revisions |-> [k \in MCKeys |-> IF k = "v1" THEN <<"d1">> ELSE <<>>],
   runs |-> [r \in Runs |-> IF r = 1 THEN <<"v1">> ELSE <<>>]]

MCEngines == {<<>>, <<{"f1"}>>}
MCMaxClaims == [r \in Runs |-> 1]

Symmetry == Permutations(Sessions) \cup Permutations(Verdicts)
=============================================================================
