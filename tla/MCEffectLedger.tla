--------------------------- MODULE MCEffectLedger ---------------------------
(* An instance of EffectLedger for TLC: one payment the fixture already gave *)
(* a part of back, and one ticket.                                         *)
EXTENDS EffectLedger, TLC

CONSTANTS p1, t1

MCCaptured == p1 :> 3
MCFixtureStatus == p1 :> "partially_refunded"
MCFixtureRefunds == p1 :> 1
MCTickets == t1 :> "open"

\* Sessions and keys are interchangeable.
Symmetry == Permutations(Sessions) \cup Permutations(Keys)
=============================================================================
