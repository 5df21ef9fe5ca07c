---------------------------- MODULE RunOwnership ----------------------------
(***************************************************************************)
(* What the lease protocol promises its callers, without rows, versions,   *)
(* clocks, transactions or retries: a Run waits, is held under exactly one *)
(* generation, or is done.  A generation (a lease token) is granted once,  *)
(* to one Run, and is worthless as soon as it is released.                 *)
(***************************************************************************)
CONSTANTS Runs, Generations, NoGeneration

VARIABLES
  phase,   \* "waiting" for a worker, "held" by one, or "done"
  holder,  \* the generation a held Run is held under
  spent    \* generations granted so far, to whichever Run

ownershipVars == <<phase, holder, spent>>

Init ==
  /\ phase = [r \in Runs |-> "waiting"]
  /\ holder = [r \in Runs |-> NoGeneration]
  /\ spent = {}

Grant(r, g) ==
  /\ phase[r] = "waiting"
  /\ g \notin spent
  /\ phase' = [phase EXCEPT ![r] = "held"]
  /\ holder' = [holder EXCEPT ![r] = g]
  /\ spent' = spent \cup {g}

\* The lease is taken back and the Run waits for another holder.
Release(r) ==
  /\ phase[r] = "held"
  /\ phase' = [phase EXCEPT ![r] = "waiting"]
  /\ holder' = [holder EXCEPT ![r] = NoGeneration]
  /\ UNCHANGED spent

\* By its holder, or while nobody holds it.
Finish(r) ==
  /\ phase[r] # "done"
  /\ phase' = [phase EXCEPT ![r] = "done"]
  /\ holder' = [holder EXCEPT ![r] = NoGeneration]
  /\ UNCHANGED spent

Next == \E r \in Runs : (\E g \in Generations : Grant(r, g)) \/ Release(r) \/ Finish(r)

Spec == Init /\ [][Next]_ownershipVars
=============================================================================
