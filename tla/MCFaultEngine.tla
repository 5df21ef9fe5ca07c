--------------------------- MODULE MCFaultEngine ---------------------------
(* Instances of FaultEngine for TLC: a lookup, a refund that needs an       *)
(* approval and a ticket update, under a few small fault plans.             *)
EXTENDS FaultEngine

lookup == "lookup"
refund == "refund"
update == "update"

MCRequests == {lookup, refund, update}
MCMutations == {refund, update}
MCToolOf == [q \in MCRequests |-> q]

Declared(id, q, phase, kind) ==
  [id |-> id, tool |-> q, phase |-> phase, kind |-> kind, ordinal |-> 0,
   args |-> {q}, max_occurrences |-> 1, sure |-> TRUE]

Ambiguous(id, q) == Declared(id, q, "after_commit", "ambiguous_post_commit_timeout")
Unsure(r) == [r EXCEPT !.sure = FALSE]
Nth(r, n) == [r EXCEPT !.ordinal = n]

\* A delayed read whose answer may be withheld or replaced.
Reading ==
  <<Declared("a", lookup, "before_tool", "delay"),
    [Unsure(Declared("b", lookup, "after_tool", "malformed_response")) EXCEPT !.max_occurrences = 2],
    Declared("c", update, "before_tool", "http_error")>>

\* The second call's acknowledgement is lost, and the one of an update perhaps.
Losing == <<Nth(Ambiguous("a", refund), 2), Unsure(Ambiguous("b", update)),
            Declared("c", lookup, "after_tool", "stale_field")>>

\* Two rules for one acknowledgement, or for one failure.
Contradicting == <<Declared("a", update, "before_tool", "timeout"),
                   Declared("b", update, "before_tool", "auth_error"),
                   Ambiguous("c", refund), Ambiguous("d", refund)>>

\* A delay and a lost acknowledgement of the same update.
Sharing == <<Declared("a", update, "before_tool", "delay"), Ambiguous("b", update)>>

\* An after_commit rule for a read, which the compiler does not refuse.
Misplaced == <<Ambiguous("a", lookup), Declared("b", update, "after_tool", "stale_field")>>

MCPlans == {Reading, Losing, Contradicting, Sharing, Misplaced}
ContradictingPlans == {Contradicting}
=============================================================================
