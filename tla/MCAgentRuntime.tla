--------------------------- MODULE MCAgentRuntime ---------------------------
(* Instances of AgentRuntime for TLC: a lookup, a refund that needs an     *)
(* approval, a ticket update, and a different update under the same key.   *)
EXTENDS AgentRuntime

lookup == "lookup"
refund == "refund"
update == "update"
clash == "clash"

MCRequests == {lookup, refund, update, clash}
MCMutations == {refund, update, clash}
MCKey == [q \in MCMutations |-> IF q = refund THEN "k1" ELSE "k2"]
MCPolicy == [q \in MCRequests |-> IF q = refund THEN "require_approval" ELSE "allow"]

\* One step asks for nothing, for a read, for a mutation, or for two of them.
RefundTurns == {<<>>, <<refund>>, <<lookup>>}
UpdateTurns == {<<>>, <<update>>, <<clash>>, <<lookup, refund>>}

Symmetry == Permutations(Executors)
=============================================================================
