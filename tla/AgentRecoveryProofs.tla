------------------------- MODULE AgentRecoveryProofs ------------------------
(***************************************************************************)
(* Whatever was interrupted, the next holder of a lease can load the Run   *)
(* again: AgentRuntime's Resumable, for any number of calls, requests,     *)
(* claims and steps.  The argument: the checkpoint follows from its own    *)
(* trajectory (Planned), the trajectory from the evidence (Logged), and    *)
(* what evidence has after the checkpoint is in the one order the load     *)
(* accepts (Later).  Each action keeps that of a Run that has not ended    *)
(* (AccountedStep); the load's four validations then hold of the Run it    *)
(* finds, and of the one it has reconciled (Reconciles).                   *)
(***************************************************************************)
EXTENDS AgentRuntimeProofs

-----------------------------------------------------------------------------
(* What a load finds: the checkpoint follows from its own trajectory, the  *)
(* trajectory from the evidence, and what came after it is the first       *)
(* pending call's attempt, the answer to its approval, or the lease's.     *)

\* The calls of the last step, and the attempts at one of them.
Spoken(c) == {i \in DOMAIN c.trajectory : Assistant(c.trajectory[i])}

LastAsked(c) == IF steps(c) = 0 THEN <<>> ELSE c.trajectory[Max(Spoken(c))].calls

Tries(c, i) == {k \in DOMAIN c.trajectory :
                  Tool(c.trajectory[k]) /\ c.trajectory[k].call = <<steps(c), i>>}

Over(c, i) == \E k \in Tries(c, i) : c.trajectory[k].code \notin WAITS

\* What is pending of a call, and from a call on.
Due(c, i) == [call |-> <<steps(c), i>>, request |-> LastAsked(c)[i],
              attempt |-> Cardinality(Tries(c, i)) + 1, approval |-> Tries(c, i) # {}]

Suffix(c, f) == [k \in 1 .. Len(LastAsked(c)) - f + 1 |-> Due(c, f + k - 1)]

\* The calls are made in order: those before f are over, those after it not begun.
InOrder(c, f) ==
  /\ f \in 1 .. Len(LastAsked(c)) + 1
  /\ \A i \in DOMAIN LastAsked(c) : /\ Over(c, i) <=> i < f
                                    /\ i > f => Tries(c, i) = {}

Planned(c) ==
  /\ LastAsked(c) \in Seq(Requests) /\ (steps(c) # 0 => Max(Spoken(c)) \in Spoken(c))
  /\ \A k \in DOMAIN c.trajectory : Tool(c.trajectory[k]) => c.trajectory[k].call[1] <= steps(c)
  /\ \E f \in 1 .. Len(LastAsked(c)) + 1 : InOrder(c, f) /\ c.pending = Suffix(c, f)

\* The status of a checkpoint is that of its last turn and its first pending call.
Meant(c) ==
  /\ c.status = "final" => final_intent(c) /\ c.pending = <<>>
  /\ final_intent(c) /\ c.status # "final" => c.spent # {}
  /\ c.status = "waiting_for_approval" <=> c.pending # <<>> /\ Head(c.pending).approval

\* An open attempt is counted before it is stored.
Affordable(d) == tool_attempts(d.checkpoint) + (IF Open(d) THEN 1 ELSE 0) <= MaxToolCalls

TurnsOf(c) == {i \in DOMAIN c.trajectory : Tool(c.trajectory[i])}

\* A turn stands for two events up to m, and says what they say.
Shows(d, t, m) ==
  /\ t.request \in 1 .. m /\ t.result \in 1 .. m /\ t.request < t.result
  /\ d.events[t.result].info = t.code
  /\ d.events[t.request].type = "tool.requested" /\ d.events[t.result].type = "tool.result"
  /\ d.events[t.request].call = t.call /\ d.events[t.result].call = t.call

StepsLogged(d) ==
  LET c == d.checkpoint
  IN /\ \A i \in DOMAIN d.events : d.events[i].type = "agent.step" =>
          i <= c.last_event_sequence /\ d.events[i].call[1] \in 1 .. steps(c)
     /\ \A n \in 1 .. steps(c) : \E i \in DOMAIN d.events :
          d.events[i].type = "agent.step" /\ d.events[i].call[1] = n

ToolsLogged(d) ==
  LET c == d.checkpoint
  IN \A i \in 1 .. c.last_event_sequence :
       d.events[i].type \in {"tool.requested", "tool.result"} =>
         \E k \in TurnsOf(c) : i \in {c.trajectory[k].request, c.trajectory[k].result}

TurnsLogged(d) ==
  LET c == d.checkpoint
  IN \A k \in TurnsOf(c) : Shows(d, c.trajectory[k], c.last_event_sequence)

\* Every agent step, and up to the checkpoint every tool event, is in the trajectory.
Logged(d) ==
  /\ d.checkpoint.last_event_sequence \in 0 .. Len(d.events)
  /\ d.checkpoint.last_event_sequence = 0 => d.checkpoint = NoCheckpoint
  /\ StepsLogged(d) /\ ToolsLogged(d) /\ TurnsLogged(d)

\* The first pending call waits for an operator, in its checkpoint or in evidence.
Asking(d) == d.checkpoint.pending # <<>> /\ (First(d).approval \/ Answered(d, First(d)) # {})

\* What may follow the checkpoint in evidence.
Belongs(d, e) ==
  \/ e.type = "run.lifecycle"
  \/ e.type = "approval.resolved" /\ Asking(d) /\ First(d).request = e.info
  \/ /\ e.type = "approval.requested"
     /\ d.checkpoint.pending # <<>> /\ Answered(d, First(d)) # {}
  \/ /\ e.type \in ToolTypes /\ d.checkpoint.pending # <<>>
     /\ e.call = First(d).call /\ e.attempt = First(d).attempt

Later(d) ==
  \A i \in d.checkpoint.last_event_sequence + 1 .. Len(d.events) : Belongs(d, d.events[i])

Expected(d) ==
  \A q \in Requests : d.approvals[q] = "pending" => Asking(d) /\ First(d).request = q

\* What an answer of the first pending call says of the ledger.
Truthful(d, p, j) ==
  /\ d.events[j].info = "read" => p.request \notin Mutations
  /\ d.events[j].info = "newly_applied" => Effect(p) \in d.effects

\* An open attempt can be adopted: it is marked, or answered as the ledger says.
Adoptable(d) ==
  Open(d) =>
    /\ Marked(d, First(d)) \/ Answered(d, First(d)) # {}
    /\ \A i \in Requested(d, First(d)), j \in Answered(d, First(d)) : i < j
    /\ \A j \in Answered(d, First(d)) : Truthful(d, First(d), j)

Accounted(d) ==
  /\ Planned(d.checkpoint) /\ Meant(d.checkpoint) /\ Affordable(d) /\ Logged(d)
  /\ Later(d) /\ Expected(d) /\ Adoptable(d)
-----------------------------------------------------------------------------
(* A trajectory and what it leaves pending.                                *)

\* A new agent step is the last one, and nothing was tried in it.
LEMMA StepAsks ==
  ASSUME NEW c \in Checkpoints, NEW x \in Checkpoints, Planned(c), NEW a \in ATurns,
         x.trajectory = Append(c.trajectory, a)
  PROVE  /\ steps(x) = steps(c) + 1 /\ LastAsked(x) = a.calls /\ Max(Spoken(x)) \in Spoken(x)
         /\ \A i : Tries(x, i) = {}
         /\ \A k \in DOMAIN x.trajectory : Tool(x.trajectory[k]) =>
              x.trajectory[k].call[1] <= steps(x)
<1> DEFINE n == Len(c.trajectory)
<1>1. /\ c.trajectory \in Seq(ATurns \cup TTurns) /\ n \in Nat
      /\ DOMAIN c.trajectory = 1 .. n /\ DOMAIN x.trajectory = 1 .. n + 1
      /\ \A i \in 1 .. n : x.trajectory[i] = c.trajectory[i]
      /\ x.trajectory[n + 1] = a
  <2>1. c.trajectory \in Seq(ATurns \cup TTurns) /\ a \in ATurns \cup TTurns
    BY DEF Checkpoints
  <2>2. QED
    BY <2>1, Appended
<1>2. Assistant(a) /\ ~Tool(a)
  BY DEF Assistant, Tool, ATurns
<1>3. steps(x) = steps(c) + 1 /\ steps(c) \in Nat
  BY StepsAppend, Counts
<1> HIDE DEF n
<1>4. n + 1 \in Spoken(x) /\ \A i \in Spoken(x) : i \in 1 .. n + 1
  BY <1>1, <1>2 DEF Spoken
<1>5. Max(Spoken(x)) = n + 1
  BY <1>1, <1>4 DEF Max
<1>6. LastAsked(x) = a.calls
  BY <1>1, <1>3, <1>5 DEF LastAsked
<1>7. \A k \in DOMAIN x.trajectory : Tool(x.trajectory[k]) =>
        /\ x.trajectory[k].call[1] <= steps(c) /\ x.trajectory[k].call[1] \in Nat
  <2> TAKE k \in DOMAIN x.trajectory
  <2> HAVE Tool(x.trajectory[k])
  <2>1. k \in 1 .. n /\ x.trajectory[k] = c.trajectory[k]
    BY <1>1, <1>2
  <2>2. c.trajectory[k] \in TTurns
    BY <1>1, <2>1 DEF Tool, ATurns, TTurns
  <2>3. c.trajectory[k].call[1] \in Nat
    BY <2>2, Constants DEF TTurns, Calls, Attempts
  <2>4. QED
    BY <1>1, <2>1, <2>3 DEF Planned
<1>8. \A i : Tries(x, i) = {}
  BY <1>3, <1>7 DEF Tries
<1>9. QED
  BY <1>3, <1>4, <1>5, <1>6, <1>7, <1>8

\* A call was tried once more; the others were not.
OneMoreTry(c, x, f, code) ==
  /\ steps(x) = steps(c) /\ LastAsked(x) = LastAsked(c)
  /\ steps(x) # 0 => Max(Spoken(x)) \in Spoken(x)
  /\ \A i : i # f => Tries(x, i) = Tries(c, i) /\ (Over(x, i) <=> Over(c, i))
  /\ Tries(x, f) # {} /\ Cardinality(Tries(x, f)) = Cardinality(Tries(c, f)) + 1
  /\ Cardinality(Tries(c, f)) \in Nat
  /\ Over(x, f) <=> Over(c, f) \/ code \notin WAITS
  /\ \A k \in DOMAIN x.trajectory : Tool(x.trajectory[k]) =>
       x.trajectory[k].call[1] <= steps(x)

\* A tool turn keeps the step; it is one more try of the call it is about.
LEMMA TurnTries ==
  ASSUME NEW c \in Checkpoints, NEW x \in Checkpoints, Planned(c), NEW t \in TTurns,
         x.trajectory = Append(c.trajectory, t), NEW f, t.call = <<steps(c), f>>
  PROVE  OneMoreTry(c, x, f, t.code)
<1> DEFINE n == Len(c.trajectory)
<1>1. /\ c.trajectory \in Seq(ATurns \cup TTurns) /\ n \in Nat
      /\ DOMAIN c.trajectory = 1 .. n /\ DOMAIN x.trajectory = 1 .. n + 1
      /\ \A i \in 1 .. n : x.trajectory[i] = c.trajectory[i]
      /\ x.trajectory[n + 1] = t
  <2>1. c.trajectory \in Seq(ATurns \cup TTurns) /\ t \in ATurns \cup TTurns
    BY DEF Checkpoints
  <2>2. QED
    BY <2>1, Appended
<1>2. Tool(t) /\ ~Assistant(t)
  BY DEF Assistant, Tool, TTurns
<1>3. steps(x) = steps(c) /\ steps(c) \in Nat
  BY StepsAppend, Counts
<1>4. IsFiniteSet(Tries(c, f))
  <2>1. IsFiniteSet({i \in DOMAIN c.trajectory : Tool(c.trajectory[i])})
    BY Counts
  <2>2. Tries(c, f) \subseteq {i \in DOMAIN c.trajectory : Tool(c.trajectory[i])}
    BY DEF Tries
  <2>3. QED
    BY <2>1, <2>2, FS_Subset
<1> HIDE DEF n
<1>5. Spoken(x) = Spoken(c)
  BY <1>1, <1>2 DEF Spoken
<1>6. LastAsked(x) = LastAsked(c) /\ (steps(x) # 0 => Max(Spoken(x)) \in Spoken(x))
  <2>1. CASE steps(c) = 0
    BY <1>3, <2>1 DEF LastAsked
  <2>2. CASE steps(c) # 0
    <3>1. Max(Spoken(c)) \in Spoken(c)
      BY <2>2 DEF Planned
    <3>2. x.trajectory[Max(Spoken(c))] = c.trajectory[Max(Spoken(c))]
      BY <1>1, <3>1 DEF Spoken
    <3>3. QED
      BY <1>3, <1>5, <2>2, <3>1, <3>2 DEF LastAsked
  <2>3. QED
    BY <2>1, <2>2
<1>7. \A i : Tries(x, i) = IF i = f THEN Tries(c, i) \cup {n + 1} ELSE Tries(c, i)
  <2> TAKE i
  <2>1. <<steps(c), i>> = t.call <=> i = f
    OBVIOUS
  <2>2. \A k \in 1 .. n + 1 : k \in 1 .. n \/ k = n + 1
    BY <1>1
  <2>3. QED
    BY <1>1, <1>2, <1>3, <2>1, <2>2 DEF Tries
<1>8. n + 1 \notin Tries(c, f) /\ \A i : \A k \in Tries(c, i) : x.trajectory[k] = c.trajectory[k]
  BY <1>1 DEF Tries
<1>9. /\ Cardinality(Tries(x, f)) = Cardinality(Tries(c, f)) + 1
      /\ Cardinality(Tries(c, f)) \in Nat
  BY <1>4, <1>7, <1>8, OneMore, FS_CardinalityType
<1>10. \A i : i # f => (Over(x, i) <=> Over(c, i))
  BY <1>7, <1>8 DEF Over
<1>11. Over(x, f) <=> Over(c, f) \/ t.code \notin WAITS
  BY <1>1, <1>7, <1>8 DEF Over
<1>12. \A k \in DOMAIN x.trajectory : Tool(x.trajectory[k]) =>
         x.trajectory[k].call[1] <= steps(x)
  <2> TAKE k \in DOMAIN x.trajectory
  <2> HAVE Tool(x.trajectory[k])
  <2>1. CASE k \in 1 .. n
    BY <1>1, <1>3, <2>1 DEF Planned
  <2>2. CASE k = n + 1
    BY <1>1, <1>3, <2>2
  <2>3. QED
    BY <1>1, <2>1, <2>2
<1>13. QED
  BY <1>3, <1>6, <1>7, <1>9, <1>10, <1>11, <1>12 DEF OneMoreTry

\* The elements of a suffix.
LEMMA SuffixIs ==
  ASSUME NEW c, NEW f \in Nat \ {0}, LastAsked(c) \in Seq(Requests), f <= Len(LastAsked(c)) + 1
  PROVE  /\ Len(LastAsked(c)) - f + 1 \in Nat
         /\ DOMAIN Suffix(c, f) = 1 .. Len(LastAsked(c)) - f + 1
         /\ \A k \in DOMAIN Suffix(c, f) :
              Suffix(c, f)[k] = Due(c, f + k - 1) /\ f + k - 1 \in DOMAIN LastAsked(c)
<1>1. Len(LastAsked(c)) \in Nat /\ DOMAIN LastAsked(c) = 1 .. Len(LastAsked(c))
  OBVIOUS
<1>2. QED
  BY <1>1 DEF Suffix

\* Each field of a pending call.
LEMMA DueFields ==
  ASSUME NEW c, NEW i
  PROVE  /\ Due(c, i).call = <<steps(c), i>> /\ Due(c, i).request = LastAsked(c)[i]
         /\ Due(c, i).attempt = Cardinality(Tries(c, i)) + 1
         /\ Due(c, i).approval <=> Tries(c, i) # {}
BY DEF Due

\* The calls of a new step are what it leaves pending.
LEMMA PlannedStep ==
  ASSUME NEW c \in Checkpoints, NEW x \in Checkpoints, Planned(c), NEW a \in ATurns,
         x.trajectory = Append(c.trajectory, a), steps(c) < MaxSteps,
         x.pending = Asked(steps(c) + 1, a.calls)
  PROVE  Planned(x)
<1>1. /\ steps(x) = steps(c) + 1 /\ LastAsked(x) = a.calls /\ Max(Spoken(x)) \in Spoken(x)
      /\ \A i : Tries(x, i) = {}
      /\ \A k \in DOMAIN x.trajectory : Tool(x.trajectory[k]) =>
           x.trajectory[k].call[1] <= steps(x)
  BY StepAsks
<1>2. LastAsked(x) \in Seq(Requests) /\ Len(LastAsked(x)) \in Nat
      /\ DOMAIN LastAsked(x) = 1 .. Len(LastAsked(x))
  BY <1>1 DEF ATurns
<1>3. InOrder(x, 1)
  BY <1>1, <1>2 DEF InOrder, Over
<1>4. x.pending = Suffix(x, 1)
  <2>1. Cardinality({}) = 0
    BY FS_EmptySet
  <2>2. DOMAIN Suffix(x, 1) = 1 .. Len(LastAsked(x))
        /\ \A k \in 1 .. Len(LastAsked(x)) : Suffix(x, 1)[k] = Due(x, k)
    BY <1>2, SuffixIs
  <2>3. \A k : Due(x, k) = [call |-> <<steps(x), k>>, request |-> LastAsked(x)[k],
                            attempt |-> 1, approval |-> FALSE]
    <3> TAKE k
    <3>0. Tries(x, k) = {}
      BY <1>1
    <3>1. Cardinality(Tries(x, k)) + 1 = 1 /\ Tries(x, k) = {}
      BY <2>1, <3>0
    <3>2. QED
      BY <3>1 DEF Due
  <2>4. x.pending = [k \in 1 .. Len(LastAsked(x)) |->
                       [call |-> <<steps(x), k>>, request |-> LastAsked(x)[k],
                        attempt |-> 1, approval |-> FALSE]]
    BY <1>1, <1>2 DEF Asked
  <2>5. Suffix(x, 1) = [k \in 1 .. Len(LastAsked(x)) |-> Due(x, k)]
    BY <2>2 DEF Suffix
  <2>6. QED
    BY <2>3, <2>4, <2>5
<1>5. QED
  BY <1>1, <1>2, <1>3, <1>4 DEF Planned

\* What is due of a call that was tried once more, or was not.
LEMMA DueAgain ==
  ASSUME NEW c, NEW x, NEW i, steps(x) = steps(c), LastAsked(x) = LastAsked(c)
  PROVE  /\ Tries(x, i) = Tries(c, i) => Due(x, i) = Due(c, i)
         /\ Due(c, i) \in Pendings /\ Tries(x, i) # {}
            /\ Cardinality(Tries(x, i)) = Cardinality(Tries(c, i)) + 1
              => Due(x, i) = retried(Due(c, i))
<1>1. Tries(x, i) = Tries(c, i) => Due(x, i) = Due(c, i)
  BY DEF Due
<1>2. ASSUME Due(c, i) \in Pendings, Tries(x, i) # {},
             Cardinality(Tries(x, i)) = Cardinality(Tries(c, i)) + 1
      PROVE  Due(x, i) = retried(Due(c, i))
  <2>1. PICK p \in Pendings : p = Due(c, i)
    BY <1>2
  <2>2. p.call = <<steps(c), i>> /\ p.request = LastAsked(c)[i]
        /\ p.attempt = Cardinality(Tries(c, i)) + 1
    BY <2>1, DueFields
  <2>3. retried(p) = [call |-> p.call, request |-> p.request,
                      attempt |-> p.attempt + 1, approval |-> TRUE]
    <3>1. retried(p) = [p EXCEPT !.attempt = p.attempt + 1, !.approval = TRUE]
      BY DEF retried
    <3>2. QED
      BY <3>1 DEF Pendings
  <2>4. (Tries(x, i) # {}) = TRUE /\ Cardinality(Tries(x, i)) + 1 = p.attempt + 1
    BY <1>2, <2>2
  <2>5. Due(x, i) = [call |-> p.call, request |-> p.request,
                     attempt |-> p.attempt + 1, approval |-> TRUE]
    BY <2>2, <2>4 DEF Due
  <2>6. QED
    BY <2>1, <2>3, <2>5
<1>3. QED
  BY <1>1, <1>2

\* An interval from 1 has one upper end.
LEMMA SameInterval ==
  ASSUME NEW m \in Nat \ {0}, NEW n \in Nat, 1 .. m = 1 .. n
  PROVE  m = n
<1>1. m \in 1 .. n
  OBVIOUS
<1>2. n \in 1 .. m
  BY <1>1
<1>3. QED
  BY <1>1, <1>2

\* The calls that are left after a tool attempt are those the trajectory leaves.
LEMMA PlannedStore ==
  ASSUME NEW d \in Databases, NEW c \in Checkpoints, Planned(c), c.pending # <<>>,
         NEW r \in Results
  PROVE  Planned(checkpoint_after_tool(d, c, r))
<1> DEFINE p == Head(c.pending)
           t == Turn(p, r)
           A == LastAsked(c)
<1>x. PICK x : x = checkpoint_after_tool(d, c, r)
  OBVIOUS
<1>1. /\ x \in Checkpoints /\ t \in TTurns /\ x.trajectory = Append(c.trajectory, t)
      /\ x.pending = Left(c, r)
  BY <1>x, AfterTool
<1>2. PICK f \in 1 .. Len(A) + 1 : InOrder(c, f) /\ c.pending = Suffix(c, f)
  BY DEF Planned
<1>3. A \in Seq(Requests) /\ Len(A) \in Nat /\ DOMAIN A = 1 .. Len(A)
  BY DEF Planned
<1>4. /\ p \in Pendings /\ p = c.pending[1] /\ Len(c.pending) \in Nat \ {0}
      /\ DOMAIN c.pending = 1 .. Len(c.pending) /\ c.pending \in Seq(Pendings)
  BY Heads
<1>5. /\ DOMAIN c.pending = 1 .. Len(A) - f + 1 /\ Len(A) - f + 1 \in Nat
      /\ \A k \in DOMAIN c.pending : c.pending[k] = Due(c, f + k - 1) /\ f + k - 1 \in DOMAIN A
  BY <1>2, <1>3, SuffixIs
<1>6. f \in DOMAIN A /\ p = Due(c, f) /\ Len(c.pending) = Len(A) - f + 1
  <2>1. f + 1 - 1 = f /\ f \in Nat
    BY <1>2, <1>3
  <2>2. 1 \in DOMAIN c.pending
    BY <1>4
  <2>3. c.pending[1] = Due(c, f + 1 - 1) /\ f + 1 - 1 \in DOMAIN A
    BY <1>5, <2>2
  <2>4. Len(c.pending) = Len(A) - f + 1
    BY <1>4, <1>5, SameInterval
  <2>5. QED
    BY <1>4, <2>1, <2>3, <2>4
<1>7. t.call = <<steps(c), f>> /\ t.code = r.code
  BY <1>6, DueFields DEF Turn
<1> HIDE DEF p, t, A
<1>o. OneMoreTry(c, x, f, r.code)
  <2>1. OneMoreTry(c, x, f, t.code)
    BY <1>1, <1>7, TurnTries
  <2>2. QED
    BY <1>7, <2>1
<1>8. /\ steps(x) = steps(c) /\ LastAsked(x) = A
      /\ steps(x) # 0 => Max(Spoken(x)) \in Spoken(x)
      /\ \A i : i # f => Tries(x, i) = Tries(c, i) /\ (Over(x, i) <=> Over(c, i))
      /\ Tries(x, f) # {} /\ Cardinality(Tries(x, f)) = Cardinality(Tries(c, f)) + 1
      /\ Over(x, f) <=> Over(c, f) \/ r.code \notin WAITS
      /\ \A k \in DOMAIN x.trajectory : Tool(x.trajectory[k]) =>
           x.trajectory[k].call[1] <= steps(x)
  BY <1>o DEF OneMoreTry, A
<1>9. /\ \A i : i # f => Due(x, i) = Due(c, i)
      /\ Due(x, f) = retried(Due(c, f))
  <2>1. LastAsked(x) = LastAsked(c) /\ Due(c, f) \in Pendings
    BY <1>4, <1>6, <1>8 DEF A
  <2>2. \A i : i # f => Due(x, i) = Due(c, i)
    BY <1>8, <2>1, DueAgain
  <2>3. Due(x, f) = retried(Due(c, f))
    BY <1>8, <2>1, DueAgain
  <2>4. QED
    BY <2>2, <2>3
<1>10. /\ \A i \in DOMAIN A : (Over(c, i) <=> i < f) /\ (i > f => Tries(c, i) = {})
  BY <1>2 DEF InOrder, A
<1> DEFINE g == IF r.code \in WAITS THEN f ELSE f + 1
<1>11. g \in 1 .. Len(A) + 1 /\ f \in Nat /\ g \in Nat \ {0} /\ g <= Len(A) + 1
  BY <1>2, <1>3, <1>6
<1>12. InOrder(x, g)
  <2>1. \A i \in DOMAIN A : (Over(x, i) <=> i < g) /\ (i > g => Tries(x, i) = {})
    <3> TAKE i \in DOMAIN A
    <3>1. i \in Nat
      BY <1>3
    <3>2. CASE i = f
      BY <1>7, <1>8, <1>10, <1>11, <3>1, <3>2
    <3>3. CASE i # f
      BY <1>8, <1>10, <1>11, <3>1, <3>3
    <3>4. QED
      BY <3>2, <3>3
  <2>2. QED
    BY <1>8, <1>11, <2>1 DEF InOrder
<1>13. x.pending = Suffix(x, g)
  <2>1. /\ DOMAIN Suffix(x, g) = 1 .. Len(A) - g + 1
        /\ \A k \in DOMAIN Suffix(x, g) : Suffix(x, g)[k] = Due(x, g + k - 1)
    BY <1>3, <1>8, <1>11, SuffixIs
  <2>2. Suffix(x, g) = [k \in 1 .. Len(A) - g + 1 |-> Due(x, g + k - 1)]
    BY <1>8 DEF Suffix
  <2>3. x.pending = [k \in DOMAIN x.pending |-> x.pending[k]]
    BY <1>1 DEF Checkpoints
  <2>4. DOMAIN x.pending = 1 .. Len(A) - g + 1
        /\ \A k \in 1 .. Len(A) - g + 1 : x.pending[k] = Due(x, g + k - 1)
    <3>1. CASE r.code \in WAITS
      <4>1. /\ DOMAIN x.pending = DOMAIN c.pending /\ x.pending[1] = retried(p)
            /\ \A k \in DOMAIN c.pending \ {1} : x.pending[k] = c.pending[k]
        BY <1>1, <3>1, LeftIs DEF p
      <4>2. DOMAIN x.pending = 1 .. Len(A) - g + 1 /\ g = f
        BY <1>5, <3>1, <4>1
      <4>3. ASSUME NEW k \in 1 .. Len(A) - g + 1
            PROVE  x.pending[k] = Due(x, g + k - 1)
        <5>1. CASE k = 1
          <6>1. g + k - 1 = f
            BY <1>11, <4>2, <5>1
          <6>2. QED
            BY <1>6, <1>9, <4>1, <5>1, <6>1
        <5>2. CASE k # 1
          <6>1. f + k - 1 # f /\ k \in DOMAIN c.pending \ {1}
            BY <1>5, <1>11, <4>2, <5>2
          <6>2. QED
            BY <1>5, <1>9, <4>1, <4>2, <6>1
        <5>3. QED
          BY <5>1, <5>2
      <4>4. QED
        BY <4>2, <4>3
    <3>2. CASE r.code \notin WAITS
      <4>1. /\ DOMAIN x.pending = 1 .. Len(c.pending) - 1
            /\ \A k \in DOMAIN x.pending : x.pending[k] = c.pending[k + 1]
        BY <1>1, <3>2, LeftIs
      <4>2. DOMAIN x.pending = 1 .. Len(A) - g + 1 /\ g = f + 1
        BY <1>3, <1>6, <1>11, <3>2, <4>1
      <4>3. ASSUME NEW k \in 1 .. Len(A) - g + 1
            PROVE  x.pending[k] = Due(x, g + k - 1)
        <5>1. k + 1 \in DOMAIN c.pending /\ f + (k + 1) - 1 # f /\ f + (k + 1) - 1 = g + k - 1
          BY <1>3, <1>5, <1>11, <4>2
        <5>2. x.pending[k] = Due(c, f + (k + 1) - 1)
          BY <1>5, <4>1, <4>2, <5>1
        <5>3. QED
          BY <1>9, <5>1, <5>2
      <4>4. QED
        BY <4>2, <4>3
    <3>3. QED
      BY <3>1, <3>2
  <2>5. QED
    BY <2>2, <2>3, <2>4
<1>14. LastAsked(x) \in Seq(Requests) /\ g \in 1 .. Len(LastAsked(x)) + 1
  BY <1>3, <1>8, <1>11
<1> HIDE DEF g
<1>15. Planned(x)
  BY <1>8, <1>12, <1>13, <1>14 DEF Planned
<1>16. QED
  BY <1>15, <1>x

\* The pending calls are those the load computes from the trajectory.
LEMMA PlannedExact ==
  ASSUME NEW c \in Checkpoints, Planned(c)
  PROVE  c.pending = ExactSuffix(c)
<1> DEFINE A == LastAsked(c)
           F == Cardinality({i \in DOMAIN A : Over(c, i)}) + 1
<1>1. PICK f \in 1 .. Len(A) + 1 : InOrder(c, f) /\ c.pending = Suffix(c, f)
  BY DEF Planned
<1>2. Len(A) \in Nat /\ DOMAIN A = 1 .. Len(A) /\ f - 1 \in Nat
  BY DEF Planned
<1>3. {i \in DOMAIN A : Over(c, i)} = 1 .. f - 1
  BY <1>1, <1>2 DEF InOrder
<1>4. Cardinality(1 .. f - 1) = f - 1
  BY <1>2, FS_Interval
<1>5. F = f
  <2>1. F = (f - 1) + 1
    BY <1>3, <1>4
  <2>2. QED
    BY <1>2, <2>1
<1>6. ExactSuffix(c) = Suffix(c, F)
  BY DEF ExactSuffix, Suffix, Due, LastAsked, Spoken, Over, Tries
<1>7. QED
  BY <1>1, <1>5, <1>6

\* A call that was not tried before.
Anew(p) == p.approval = FALSE

\* Only the first pending call was tried before.
LEMMA OnlyFirst ==
  ASSUME NEW c \in Checkpoints, Planned(c), NEW k \in DOMAIN c.pending, k # 1
  PROVE  Anew(c.pending[k])
<1>1. PICK f \in 1 .. Len(LastAsked(c)) + 1 : InOrder(c, f) /\ c.pending = Suffix(c, f)
  BY DEF Planned
<1>2. /\ LastAsked(c) \in Seq(Requests) /\ Len(LastAsked(c)) \in Nat
      /\ DOMAIN LastAsked(c) = 1 .. Len(LastAsked(c)) /\ f \in Nat \ {0}
  BY DEF Planned
<1>3. /\ c.pending[k] = Due(c, f + k - 1) /\ f + k - 1 \in DOMAIN LastAsked(c)
      /\ k \in 1 .. Len(LastAsked(c)) - f + 1
  BY <1>1, <1>2, SuffixIs
<1>4. f + k - 1 > f
  BY <1>2, <1>3
<1>5. Tries(c, f + k - 1) = {}
  BY <1>1, <1>3, <1>4 DEF InOrder
<1>6. Due(c, f + k - 1).approval = FALSE
  BY <1>5 DEF Due
<1>7. QED
  BY <1>3, <1>6 DEF Anew

\* The last turn of a longer trajectory is the new one.
LEMMA LastTurn ==
  ASSUME NEW c \in Checkpoints, NEW x \in Checkpoints, NEW t \in ATurns \cup TTurns,
         x.trajectory = Append(c.trajectory, t)
  PROVE  x.trajectory # <<>> /\ Last(x.trajectory) = t
<1>1. /\ Len(x.trajectory) = Len(c.trajectory) + 1 /\ Len(c.trajectory) \in Nat
      /\ x.trajectory[Len(c.trajectory) + 1] = t
  BY Appended DEF Checkpoints
<1>2. x.trajectory # <<>>
  <2>1. x.trajectory \in Seq(ATurns \cup TTurns)
    BY DEF Checkpoints
  <2>2. PICK s \in Seq(ATurns \cup TTurns) : s = x.trajectory
    BY <2>1
  <2>3. Len(s) # 0
    BY <1>1, <2>2
  <2>4. s # <<>>
    BY <2>3
  <2>5. QED
    BY <2>2, <2>4
<1>3. Last(x.trajectory) = x.trajectory[Len(x.trajectory)]
  BY DEF Last
<1>4. QED
  BY <1>1, <1>2, <1>3

\* An agent's turn ends the Run, or it does not and is not final within the budgets.
Concludes(x, a) ==
  \/ a.final /\ x.status = "final" /\ x.pending = <<>>
  \/ x.status = "active" /\ (a.final => x.spent # {})

\* The status of a checkpoint after an agent step.
LEMMA MeantStep ==
  ASSUME NEW c \in Checkpoints, NEW x \in Checkpoints, NEW a \in ATurns, NEW n \in 1 .. MaxSteps,
         x.trajectory = Append(c.trajectory, a), x.pending = Asked(n, a.calls),
         Concludes(x, a)
  PROVE  Meant(x)
<1>1. x.trajectory # <<>> /\ Last(x.trajectory) = a
  BY LastTurn
<1>2. a.kind = "assistant" /\ a.calls \in Seq(Requests)
  BY DEF ATurns
<1>3. final_intent(x) <=> a.final
  BY <1>1, <1>2 DEF final_intent
<1>4. x.pending # <<>> => Head(x.pending).approval = FALSE
  <2>1. ASSUME x.pending # <<>> PROVE Head(x.pending).approval = FALSE
    <3>1. Head(x.pending) = x.pending[1] /\ 1 \in DOMAIN x.pending
      BY <2>1, Heads
    <3>2. PICK s : s = Asked(n, a.calls)
      OBVIOUS
    <3>3. \A i \in DOMAIN s : s[i].approval = FALSE
      <4>1. DOMAIN s = DOMAIN a.calls
        BY <1>2, <3>2, AskedIs
      <4>2. QED
        BY <3>2, <4>1 DEF Asked
    <3>4. QED
      BY <3>1, <3>2, <3>3
  <2>2. QED
    BY <2>1
<1>5. CASE a.final /\ x.status = "final" /\ x.pending = <<>>
  BY <1>3, <1>5 DEF Meant
<1>6. CASE x.status = "active" /\ (a.final => x.spent # {})
  BY <1>3, <1>4, <1>6 DEF Meant
<1>7. QED
  BY <1>5, <1>6 DEF Concludes

\* The status of a checkpoint after a tool attempt.
LEMMA MeantStore ==
  ASSUME NEW d \in Databases, NEW c \in Checkpoints, Planned(c), c.pending # <<>>,
         NEW r \in Results
  PROVE  Meant(checkpoint_after_tool(d, c, r))
<1>x. PICK x : x = checkpoint_after_tool(d, c, r)
  OBVIOUS
<1>t. PICK t : t = Turn(Head(c.pending), r)
  OBVIOUS
<1>1. /\ x \in Checkpoints /\ t \in TTurns /\ x.trajectory = Append(c.trajectory, t)
      /\ x.pending = Left(c, r)
      /\ x.status = IF r.code \in WAITS THEN "waiting_for_approval" ELSE "active"
  BY <1>x, <1>t, AfterTool
<1>2. ~final_intent(x)
  <2>1. Last(x.trajectory) = t /\ t.kind = "tool"
    BY <1>1, LastTurn DEF TTurns
  <2>2. QED
    BY <2>1 DEF final_intent
<1>3. CASE r.code \in WAITS
  <2>1. x.pending # <<>> /\ Head(x.pending).approval = TRUE
    <3>1. /\ DOMAIN x.pending = DOMAIN c.pending /\ x.pending[1] = retried(Head(c.pending))
          /\ 1 \in DOMAIN c.pending
      BY <1>1, <1>3, LeftIs, Heads
    <3>2. x.pending # <<>>
      BY <3>1
    <3>3. retried(Head(c.pending)).approval = TRUE
      BY Heads, Retries
    <3>4. QED
      BY <1>1, <3>1, <3>2, <3>3, Heads
  <2>2. Meant(x)
    BY <1>1, <1>2, <1>3, <2>1 DEF Meant
  <2>3. QED
    BY <1>x, <2>2
<1>4. CASE r.code \notin WAITS
  <2>1. ASSUME x.pending # <<>> PROVE Head(x.pending).approval = FALSE
    <3>1. /\ DOMAIN x.pending = 1 .. Len(c.pending) - 1 /\ Len(c.pending) \in Nat
          /\ DOMAIN c.pending = 1 .. Len(c.pending)
          /\ \A k \in DOMAIN x.pending : x.pending[k] = c.pending[k + 1]
      BY <1>1, <1>4, LeftIs, Heads
    <3>2. Head(x.pending) = x.pending[1] /\ 1 \in DOMAIN x.pending
      BY <1>1, <2>1, Heads
    <3>3. x.pending[1] = c.pending[2] /\ 2 \in DOMAIN c.pending
      BY <3>1, <3>2
    <3>4. Anew(c.pending[2])
      BY <3>3, OnlyFirst
    <3>5. QED
      BY <3>2, <3>3, <3>4 DEF Anew
  <2>2. Meant(x)
    BY <1>1, <1>2, <1>4, <2>1 DEF Meant
  <2>3. QED
    BY <1>x, <2>2
<1>5. QED
  BY <1>3, <1>4

-----------------------------------------------------------------------------
(* The checkpoint stays, evidence grows.                                   *)

\* Evidence grew without an agent step: the trajectory still accounts for it.
LEMMA LoggedKeeps ==
  ASSUME NEW d \in Databases, NEW x \in Databases, Grows(d, x), x.checkpoint = d.checkpoint,
         \A i \in News(d, x) : x.events[i].type # "agent.step", Logged(d)
  PROVE  Logged(x)
<1>1. PICK c, m : c = d.checkpoint /\ m = c.last_event_sequence
  OBVIOUS
<1>2. /\ x.checkpoint = c /\ m \in 0 .. Len(d.events) /\ (m = 0 => c = NoCheckpoint)
      /\ Len(d.events) \in Nat /\ DOMAIN d.events = 1 .. Len(d.events)
      /\ Len(x.events) \in Nat /\ Len(d.events) <= Len(x.events)
  BY <1>1, Sizes DEF Logged, Grows
<1>3. /\ m \in 0 .. Len(x.events) /\ \A i \in 1 .. m : i \in DOMAIN d.events /\ x.events[i] = d.events[i]
  BY <1>2 DEF Grows
<1>4. StepsLogged(x)
  <2>1. \A i \in DOMAIN x.events : x.events[i].type = "agent.step" =>
          i \in DOMAIN d.events /\ x.events[i] = d.events[i]
    BY OldOrNew
  <2>2. \A i \in DOMAIN d.events : i \in DOMAIN x.events /\ x.events[i] = d.events[i]
    BY OldOrNew
  <2>3. QED
    BY <1>1, <1>2, <2>1, <2>2 DEF Logged, StepsLogged
<1>5. ToolsLogged(x)
  BY <1>1, <1>2, <1>3 DEF Logged, ToolsLogged
<1>6. TurnsLogged(x)
  <2>1. ASSUME NEW k \in TurnsOf(c) PROVE Shows(x, c.trajectory[k], m)
    <3>1. Shows(d, c.trajectory[k], m)
      BY <1>1, <2>1 DEF Logged, TurnsLogged
    <3>2. QED
      BY <1>3, <3>1 DEF Shows
  <2>2. QED
    BY <1>1, <1>2, <2>1 DEF TurnsLogged
<1>7. QED
  BY <1>1, <1>2, <1>3, <1>4, <1>5, <1>6 DEF Logged

\* What could follow the checkpoint before still can.
LEMMA BelongsKeeps ==
  ASSUME NEW d \in Databases, NEW x \in Databases, x.checkpoint = d.checkpoint,
         d.checkpoint.pending # <<>> => Answered(d, First(d)) \subseteq Answered(x, First(d))
  PROVE  /\ First(x) = First(d) /\ (Asking(d) => Asking(x))
         /\ \A e : Belongs(d, e) => Belongs(x, e)
<1>1. First(x) = First(d)
  BY DEF First
<1>2. Asking(d) => Asking(x)
  BY <1>1 DEF Asking
<1>3. ASSUME NEW e, Belongs(d, e) PROVE Belongs(x, e)
  BY <1>1, <1>2, <1>3 DEF Belongs
<1>4. QED
  BY <1>1, <1>2, <1>3

\* So what follows the checkpoint is in order when the new events are.
LEMMA LaterKeeps ==
  ASSUME NEW d \in Databases, NEW x \in Databases, Grows(d, x), Later(d),
         x.checkpoint = d.checkpoint, d.checkpoint.last_event_sequence \in 0 .. Len(d.events),
         \A e : Belongs(d, e) => Belongs(x, e),
         \A i \in News(d, x) : Belongs(x, x.events[i])
  PROVE  Later(x)
<1>1. PICK m : m = d.checkpoint.last_event_sequence
  OBVIOUS
<1>2. m \in Nat /\ Len(d.events) \in Nat /\ Len(x.events) \in Nat
  BY <1>1, Sizes
<1>3. ASSUME NEW i \in m + 1 .. Len(x.events) PROVE Belongs(x, x.events[i])
  <2>1. CASE i \in m + 1 .. Len(d.events)
    <3>1. Belongs(d, d.events[i]) /\ x.events[i] = d.events[i]
      BY <1>1, <1>2, <2>1 DEF Later, Grows
    <3>2. QED
      BY <3>1
  <2>2. CASE i \notin m + 1 .. Len(d.events)
    <3>1. i \in News(d, x)
      BY <1>2, <2>2 DEF News
    <3>2. QED
      BY <3>1
  <2>3. QED
    BY <2>1, <2>2
<1>4. QED
  BY <1>1, <1>3 DEF Later

\* What a step in which no tool runs may record after the checkpoint.
Remarks(d, x, e) ==
  \/ e.type = "run.lifecycle"
  \/ e.type = "approval.resolved" /\ e.info \in Requests /\ d.approvals[e.info] = "pending"

Attends(d, x) ==
  /\ Quiet(d, x)
  /\ \A i \in News(d, x) : Remarks(d, x, x.events[i])

\* Leases, operators and the evaluator leave the checkpoint accounted for.
LEMMA QuietAccounted ==
  ASSUME NEW d \in Databases, NEW x \in Databases, Attends(d, x), Accounted(d)
  PROVE  Accounted(x)
<1>1. /\ Quiet(d, x) /\ Calm(d, x) /\ Grows(d, x) /\ x.checkpoint = d.checkpoint
      /\ x.effects = d.effects /\ x.markers = d.markers
      /\ \A i \in News(d, x) : x.events[i].type # "agent.step"
  BY DEF Attends, Quiet, Calm
<1>2. /\ \A y : Requested(x, y) = Requested(d, y) /\ Answered(x, y) = Answered(d, y)
      /\ \A y : \A i \in Requested(d, y) \cup Answered(d, y) : x.events[i] = d.events[i]
  BY <1>1, CalmSame
<1>3. First(x) = First(d) /\ (Open(x) <=> Open(d)) /\ \A y : Marked(x, y) <=> Marked(d, y)
  BY <1>1, <1>2 DEF First, Open, Marked
<1>4. (Asking(d) => Asking(x)) /\ \A e : Belongs(d, e) => Belongs(x, e)
  BY <1>1, <1>2, BelongsKeeps
<1>5. Planned(x.checkpoint) /\ Meant(x.checkpoint)
  BY <1>1 DEF Accounted
<1>6. Affordable(x)
  BY <1>1, <1>3 DEF Accounted, Affordable
<1>7. Logged(x)
  BY <1>1, LoggedKeeps DEF Accounted
<1>8. Later(x)
  <2>1. ASSUME NEW i \in News(d, x) PROVE Belongs(x, x.events[i])
    <3>1. PICK e : e = x.events[i]
      OBVIOUS
    <3>2. Remarks(d, x, e)
      BY <2>1, <3>1 DEF Attends
    <3>3. CASE e.type = "approval.resolved" /\ e.info \in Requests /\ d.approvals[e.info] = "pending"
      <4>1. Asking(d) /\ First(d).request = e.info
        BY <3>3 DEF Accounted, Expected
      <4>2. QED
        BY <1>3, <1>4, <3>1, <3>3, <4>1 DEF Belongs
    <3>4. QED
      BY <3>1, <3>2, <3>3 DEF Remarks, Belongs
  <2>2. QED
    BY <1>1, <1>4, <2>1, LaterKeeps DEF Accounted, Logged
<1>9. Expected(x)
  <2>1. ASSUME NEW q \in Requests, x.approvals[q] = "pending" PROVE Asking(x) /\ First(x).request = q
    <3>1. d.approvals[q] = "pending"
      BY <1>1, <2>1, CalmPending
    <3>2. QED
      BY <1>3, <1>4, <3>1 DEF Accounted, Expected
  <2>2. QED
    BY <2>1 DEF Expected
<1>10. Adoptable(x)
  BY <1>1, <1>2, <1>3 DEF Accounted, Adoptable, Truthful
<1>11. QED
  BY <1>5, <1>6, <1>7, <1>8, <1>9, <1>10 DEF Accounted

\* A status change.
LEMMA MoveAttends ==
  ASSUME NEW d \in Databases, NEW status \in Statuses
  PROVE  Attends(d, Move(d, status)) /\ Attends(d, Ended(d, status))
<1>1. PICK x, y : x = Move(d, status) /\ y = Ended(d, status)
  OBVIOUS
<1>2. PICK v \in Events : v = Event("run.lifecycle", NoCall, 0, status)
  BY EventTypes
<1>3. /\ x \in Databases /\ x.status = status /\ x.events = Append(d.events, v)
      /\ y \in Databases /\ y.status = status /\ y.events = Append(d.events, v)
  BY <1>1, <1>2, Moves, Ends
<1>4. v.type = "run.lifecycle"
  BY <1>2, EventFields
<1>5. /\ \A i \in News(d, x) : x.events[i].type = "run.lifecycle"
      /\ \A i \in News(d, y) : y.events[i].type = "run.lifecycle"
  BY <1>3, <1>4, GrowsBy
<1>6. Quiet(d, x) /\ Quiet(d, y)
  BY <1>1, QuietMove
<1>7. QED
  BY <1>1, <1>3, <1>5, <1>6 DEF Attends, Remarks

\* The same, with other columns of the Run row.
LEMMA SameAttends ==
  ASSUME NEW d \in Databases, NEW y \in Databases, Attends(d, y), NEW x, Quiet(d, x),
         x.events = y.events
  PROVE  Attends(d, x)
BY DEF Attends, Remarks, News

\* Leases, operators and the evaluator.
LEMMA EnvironmentAttends ==
  ASSUME Sound,
         \/ claim_next_run \/ lease_expires \/ requeue_expired_run \/ cancel_queued_run
         \/ resolve_approval_request \/ evaluate_leased_run
  PROVE  Attends(db, db')
<1>1. Typed /\ db \in Databases
  BY DEF Sound, Typed
<1>2. CASE claim_next_run
  <2>1. PICK y : y = Move(db, "provisioning")
    OBVIOUS
  <2>2. y \in Databases /\ Attends(db, y)
    BY <1>1, <2>1, Moves, MoveAttends DEF Statuses
  <2>3. db' = [y EXCEPT !.attempt = @ + 1, !.lease = "live"]
    BY <1>2, <2>1 DEF claim_next_run
  <2>4. db'.events = y.events
    BY <2>2, <2>3 DEF Databases
  <2>5. QED
    BY <1>1, <1>2, <2>2, <2>4, Claims, SameAttends
<1>3. CASE lease_expires
  <2>1. Quiet(db, db')
    BY <1>1, <1>3, Expires
  <2>2. db'.events = db.events
    BY <1>1, <1>3 DEF lease_expires, Databases
  <2>3. News(db, db') = {}
    BY <1>1, <2>2, Sizes DEF News
  <2>4. QED
    BY <2>1, <2>3 DEF Attends
<1>4. CASE requeue_expired_run
  BY <1>1, <1>4, MoveAttends DEF requeue_expired_run, Statuses
<1>5. CASE resolve_approval_request
  <2>1. PICK q \in Requests, answer \in {"approved", "denied"} :
          /\ db.approvals[q] = "pending"
          /\ db' = Add([db EXCEPT !.approvals[q] = answer], Event("approval.resolved", NoCall, 0, q))
    BY <1>5 DEF resolve_approval_request
  <2>2. PICK v \in Events : v = Event("approval.resolved", NoCall, 0, q)
    BY EventTypes
  <2>3. PICK y \in Databases : y = [db EXCEPT !.approvals[q] = answer]
    <3>1. [db EXCEPT !.approvals[q] = answer] \in Databases
      BY <1>1 DEF Databases
    <3>2. QED
      BY <3>1
  <2>4. y.events = db.events
    BY <1>1, <2>3 DEF Databases
  <2>5. db'.events = Append(db.events, v) /\ db' \in Databases
    <3>1. db' = Add(y, v)
      BY <2>1, <2>2, <2>3
    <3>2. Add(y, v) \in Databases /\ Add(y, v).events = Append(y.events, v)
      BY Adds
    <3>3. QED
      BY <2>4, <3>1, <3>2
  <2>6. Quiet(db, db')
    BY <1>1, <1>5, Resolves
  <2>7. v.type = "approval.resolved" /\ v.info = q
    BY <2>2, EventFields
  <2>8. \A i \in News(db, db') : db'.events[i] = v
    BY <1>1, <2>5, GrowsBy
  <2>9. QED
    BY <2>1, <2>6, <2>7, <2>8 DEF Attends, Remarks
<1>6. CASE evaluate_leased_run
  <2>1. PICK status \in {"completed", "infra_error"} : db' = Ended(db, status)
    BY <1>6 DEF evaluate_leased_run
  <2>2. status \in Statuses
    BY DEF Statuses, TERMINAL_STATUSES
  <2>3. QED
    BY <1>1, <2>1, <2>2, MoveAttends
<1>7. CASE cancel_queued_run
  BY <1>1, <1>7, MoveAttends DEF cancel_queued_run, Statuses, TERMINAL_STATUSES
<1>8. QED
  BY <1>2, <1>3, <1>4, <1>5, <1>6, <1>7

\* A Run is entered.
LEMMA EnterAttends ==
  ASSUME Typed
  PROVE  Attends(db, Entered(db)) /\ Enters(Entered(db))
<1>1. Enters(Entered(db)) /\ db \in Databases
  BY Entering DEF Typed
<1>2. CASE db.status = "provisioning"
  BY <1>1, <1>2, MoveAttends DEF Entered, Statuses
<1>3. CASE db.status # "provisioning"
  <2>1. Entered(db) = db
    BY <1>3 DEF Entered
  <2>2. News(db, db) = {}
    BY <1>1, Sizes DEF News
  <2>3. QED
    BY <1>1, <2>1, <2>2 DEF Attends, Enters
<1>4. QED
  BY <1>1, <1>2, <1>3

-----------------------------------------------------------------------------
(* An agent step.                                                          *)

\* A turn stays shown by longer evidence.
LEMMA ShowsKeeps ==
  ASSUME NEW d \in Databases, NEW x \in Databases, Grows(d, x), NEW t, NEW m \in 0 .. Len(d.events),
         NEW n \in Nat, m <= n, Shows(d, t, m)
  PROVE  Shows(x, t, n)
<1>1. Len(d.events) \in Nat /\ \A i \in 1 .. m : x.events[i] = d.events[i] /\ i \in 1 .. n
  BY Sizes DEF Grows
<1>2. QED
  BY <1>1 DEF Shows

\* The turns of a longer trajectory.
LEMMA TurnsAppend ==
  ASSUME NEW c \in Checkpoints, NEW x \in Checkpoints, NEW t \in ATurns \cup TTurns,
         x.trajectory = Append(c.trajectory, t)
  PROVE  /\ Len(c.trajectory) \in Nat
         /\ x.trajectory[Len(c.trajectory) + 1] = t
         /\ t \in ATurns => TurnsOf(x) = TurnsOf(c)
         /\ t \in TTurns => TurnsOf(x) = TurnsOf(c) \cup {Len(c.trajectory) + 1}
         /\ \A k \in TurnsOf(c) : x.trajectory[k] = c.trajectory[k]
<1>1. /\ c.trajectory \in Seq(ATurns \cup TTurns) /\ Len(c.trajectory) \in Nat
      /\ DOMAIN c.trajectory = 1 .. Len(c.trajectory)
      /\ DOMAIN x.trajectory = 1 .. Len(c.trajectory) + 1
      /\ \A i \in 1 .. Len(c.trajectory) : x.trajectory[i] = c.trajectory[i]
      /\ x.trajectory[Len(c.trajectory) + 1] = t
  BY Appended DEF Checkpoints
<1>2. PICK n \in Nat : n = Len(c.trajectory)
  BY <1>1
<1>3. (t \in ATurns => ~Tool(t)) /\ (t \in TTurns => Tool(t))
  BY DEF Tool, ATurns, TTurns
<1>4. \A k \in 1 .. n + 1 : k \in 1 .. n \/ k = n + 1
  BY <1>2
<1>5. n + 1 \in 1 .. n + 1 /\ 1 .. n \subseteq 1 .. n + 1
  BY <1>2
<1>6. QED
  BY <1>1, <1>2, <1>3, <1>4, <1>5 DEF TurnsOf

\* An agent step accounts for itself, and leaves nothing of the last one open.
LEMMA StepAccounted ==
  ASSUME NEW d \in Databases, NEW x \in Databases, Accounted(d), Calm(d, x), Spoke(d, x),
         d.checkpoint.pending = <<>>, steps(d.checkpoint) < MaxSteps, NEW a \in ATurns,
         x.checkpoint.trajectory = Append(d.checkpoint.trajectory, a),
         x.checkpoint.pending = Asked(steps(d.checkpoint) + 1, a.calls),
         Concludes(x.checkpoint, a), ~Open(x)
  PROVE  Accounted(x)
<1>0. PICK c, y, n : c = d.checkpoint /\ y = x.checkpoint /\ n = Len(d.events) + 1
  OBVIOUS
<1>1. /\ c \in Checkpoints /\ y \in Checkpoints /\ steps(c) \in Nat /\ tool_attempts(c) \in Nat
      /\ n \in Nat /\ Len(d.events) \in Nat /\ Len(x.events) \in Nat /\ Grows(d, x)
      /\ DOMAIN d.events = 1 .. Len(d.events) /\ DOMAIN x.events = 1 .. Len(x.events)
      /\ steps(c) + 1 \in 1 .. MaxSteps
  <2>1. c \in Checkpoints /\ y \in Checkpoints
    BY <1>0, Sizes
  <2>2. steps(c) \in Nat /\ tool_attempts(c) \in Nat
    BY <2>1, Counts
  <2>3. steps(c) + 1 \in 1 .. MaxSteps
    BY <1>0, <2>2, Constants DEF Attempts
  <2>4. QED
    BY <1>0, <2>1, <2>2, <2>3, Sizes DEF Calm
<1>2. steps(y) = steps(c) + 1 /\ tool_attempts(y) = tool_attempts(c)
  BY <1>0, <1>1, StepsAppend
<1>3. /\ y.last_event_sequence = n /\ n \in News(d, x) /\ n \in DOMAIN x.events
      /\ x.events[n].type = "agent.step" /\ x.events[n].call = <<steps(c) + 1, 0>>
      /\ \A i \in News(d, x) : i = n \/ x.events[i].type = "run.lifecycle"
  BY <1>0, <1>1 DEF Spoke, News
<1>4. Planned(y)
  <2>1. Planned(c)
    BY <1>0 DEF Accounted
  <2>2. QED
    BY <1>0, <1>1, <2>1, PlannedStep
<1>5. Meant(y)
  BY <1>0, <1>1, MeantStep
<1>6. Affordable(x)
  <2>1. tool_attempts(c) <= MaxToolCalls
    <3>1. ~Open(d)
      BY DEF Open
    <3>2. QED
      BY <1>0, <1>1, <3>1 DEF Accounted, Affordable
  <2>2. QED
    BY <1>0, <1>1, <1>2, <2>1 DEF Affordable
<1>7. /\ TurnsOf(y) = TurnsOf(c) /\ \A k \in TurnsOf(c) : y.trajectory[k] = c.trajectory[k]
  BY <1>0, <1>1, TurnsAppend
<1>8. /\ c.last_event_sequence \in 0 .. Len(d.events) /\ StepsLogged(d) /\ ToolsLogged(d)
      /\ TurnsLogged(d) /\ Later(d)
  BY <1>0 DEF Accounted, Logged
<1>9. \A i \in DOMAIN x.events : i = n \/ x.events[i].type = "run.lifecycle"
                                 \/ (i \in DOMAIN d.events /\ x.events[i] = d.events[i])
  BY <1>1, <1>3, OldOrNew
<1>10. StepsLogged(x)
  <2>1. \A i \in DOMAIN x.events : x.events[i].type = "agent.step" =>
          i <= n /\ x.events[i].call[1] \in 1 .. steps(y)
    <3> TAKE i \in DOMAIN x.events
    <3> HAVE x.events[i].type = "agent.step"
    <3>1. CASE i = n
      BY <1>1, <1>2, <1>3, <3>1
    <3>2. CASE i # n
      <4>1. i \in DOMAIN d.events /\ x.events[i] = d.events[i]
        BY <1>9, <3>2
      <4>2. d.events[i].call[1] \in 1 .. steps(c)
        BY <1>0, <1>8, <4>1 DEF StepsLogged
      <4>3. QED
        BY <1>0, <1>1, <1>2, <4>1, <4>2
    <3>3. QED
      BY <3>1, <3>2
  <2>2. ASSUME NEW m \in 1 .. steps(y)
        PROVE  \E i \in DOMAIN x.events :
                 x.events[i].type = "agent.step" /\ x.events[i].call[1] = m
    <3>1. CASE m = steps(c) + 1
      BY <1>3, <3>1
    <3>2. CASE m # steps(c) + 1
      <4>1. m \in 1 .. steps(c)
        BY <1>1, <1>2, <3>2
      <4>2. PICK i \in DOMAIN d.events : d.events[i].type = "agent.step" /\ d.events[i].call[1] = m
        BY <1>0, <1>8, <4>1 DEF StepsLogged
      <4>3. i \in DOMAIN x.events /\ x.events[i] = d.events[i]
        BY <1>1, OldOrNew
      <4>4. QED
        BY <4>2, <4>3
    <3>3. QED
      BY <3>1, <3>2
  <2>3. QED
    BY <1>0, <1>3, <2>1, <2>2 DEF StepsLogged
<1>11. ToolsLogged(x)
  <2>1. ASSUME NEW i \in 1 .. n, x.events[i].type \in {"tool.requested", "tool.result"}
        PROVE  \E k \in TurnsOf(y) : i \in {y.trajectory[k].request, y.trajectory[k].result}
    <3>1. i \in DOMAIN x.events /\ i # n
      <4>1. i \in DOMAIN x.events
        BY <1>1, <1>3
      <4>2. QED
        BY <1>3, <2>1, <4>1
    <3>2. i \in DOMAIN d.events /\ x.events[i] = d.events[i]
      BY <1>9, <2>1, <3>1
    <3>3. i <= c.last_event_sequence
      <4> SUFFICES ASSUME ~(i <= c.last_event_sequence) PROVE FALSE
        OBVIOUS
      <4>1. i \in c.last_event_sequence + 1 .. Len(d.events)
        BY <1>1, <1>8, <3>2
      <4>2. Belongs(d, d.events[i])
        BY <1>0, <1>8, <4>1 DEF Later
      <4>3. QED
        BY <2>1, <3>2, <4>2 DEF Belongs, Asking
    <3>4. i \in 1 .. c.last_event_sequence
      BY <1>8, <3>3
    <3>5. PICK k \in TurnsOf(c) : i \in {c.trajectory[k].request, c.trajectory[k].result}
      BY <1>0, <1>8, <2>1, <3>2, <3>4 DEF ToolsLogged
    <3>6. QED
      BY <1>7, <3>5
  <2>2. QED
    BY <1>0, <1>3, <2>1 DEF ToolsLogged
<1>12. TurnsLogged(x)
  <2>1. ASSUME NEW k \in TurnsOf(y) PROVE Shows(x, y.trajectory[k], n)
    <3>1. k \in TurnsOf(c) /\ y.trajectory[k] = c.trajectory[k]
      BY <1>7
    <3>2. PICK m \in 0 .. Len(d.events) : m = c.last_event_sequence
      BY <1>8
    <3>3. Shows(d, c.trajectory[k], m) /\ m <= n
      BY <1>0, <1>1, <1>8, <3>1, <3>2 DEF TurnsLogged
    <3>4. QED
      BY <1>1, <3>1, <3>3, ShowsKeeps
  <2>2. QED
    BY <1>0, <1>3, <2>1 DEF TurnsLogged
<1>13. Logged(x)
  <2>1. n \in 0 .. Len(x.events) /\ n # 0
    BY <1>0, <1>1, <1>3
  <2>2. QED
    BY <1>0, <1>3, <1>10, <1>11, <1>12, <2>1 DEF Logged
<1>14. Later(x)
  <2>1. ASSUME NEW i \in n + 1 .. Len(x.events) PROVE x.events[i].type = "run.lifecycle"
    <3>1. i \in News(d, x) /\ i # n
      BY <1>0, <1>1 DEF News
    <3>2. QED
      BY <1>3, <3>1
  <2>2. QED
    BY <1>0, <1>3, <2>1 DEF Later, Belongs
<1>15. Expected(x)
  <2>1. \A q \in Requests : x.approvals[q] = "pending" => d.approvals[q] = "pending"
    BY CalmPending
  <2>2. \A q \in Requests : d.approvals[q] # "pending"
    BY DEF Accounted, Expected, Asking
  <2>3. QED
    BY <2>1, <2>2 DEF Expected
<1>16. Adoptable(x)
  BY DEF Adoptable
<1>17. QED
  BY <1>0, <1>4, <1>5, <1>6, <1>13, <1>14, <1>15, <1>16 DEF Accounted

-----------------------------------------------------------------------------
(* The checkpoint that follows from an attempt.                            *)

\* The result stored is that of the first pending call, and the turn shows it.
LEMMA StoreShows ==
  ASSUME NEW d \in Databases, Adoptable(d), d.checkpoint.pending # <<>>,
         NEW r, Found(d, First(d), r)
  PROVE  /\ Open(d) /\ Shows(d, Turn(First(d), r), Len(d.events))
<1>0. PICK p, t : p = First(d) /\ t = Turn(p, r)
  OBVIOUS
<1>1. /\ r \in Results /\ r.request \in Requested(d, p) /\ r.result \in Answered(d, p)
      /\ r.code = d.events[r.result].info
  BY <1>0 DEF Found
<1>2. Open(d) /\ r.request < r.result
  BY <1>0, <1>1 DEF Open, Adoptable
<1>3. t.request = r.request /\ t.result = r.result /\ t.call = p.call /\ t.code = r.code
  BY <1>0 DEF Turn
<1>4. /\ r.request \in 1 .. Len(d.events) /\ r.result \in 1 .. Len(d.events)
      /\ d.events[r.request].type = "tool.requested" /\ d.events[r.request].call = p.call
      /\ d.events[r.result].type = "tool.result" /\ d.events[r.result].call = p.call
  BY <1>1, Sizes DEF Requested, Answered, Positions
<1>5. Shows(d, t, Len(d.events))
  BY <1>1, <1>2, <1>3, <1>4 DEF Shows
<1>6. QED
  BY <1>0, <1>2, <1>5

\* Storing a result closes the open attempt and accounts for it.
LEMMA StoreAccounted ==
  ASSUME NEW d \in Databases, Orderly(d), Accounted(d), d.checkpoint.pending # <<>>,
         NEW r, Found(d, First(d), r), NEW x, x = Stored(d, d.checkpoint, r)
  PROVE  Accounted(x)
<1>0. PICK c, y, p, t, n : /\ c = d.checkpoint /\ y = x.checkpoint /\ p = First(d)
                           /\ t = Turn(p, r) /\ n = Len(d.events)
  OBVIOUS
<1>1. /\ r \in Results /\ r.request \in Requested(d, p) /\ r.result \in Answered(d, p)
      /\ r.code = d.events[r.result].info
  BY <1>0 DEF Found
<1>2. /\ c \in Checkpoints /\ p \in Pendings /\ n \in Nat /\ p = Head(c.pending)
      /\ DOMAIN d.events = 1 .. n /\ tool_attempts(c) \in Nat
  BY <1>0, Sizes, Heads, Counts DEF First
<1>3. /\ x \in Databases /\ y = checkpoint_after_tool(d, c, r) /\ x.events = d.events
      /\ x.approvals = d.approvals /\ x.status = d.status
  BY <1>0, <1>1, <1>2, Storing DEF Stored, Databases
<1>4. /\ y \in Checkpoints /\ t \in TTurns /\ y.trajectory = Append(c.trajectory, t)
      /\ y.pending = Left(c, r) /\ y.last_event_sequence = n
  <2>1. c.pending # <<>> /\ t = Turn(Head(c.pending), r)
    BY <1>0, <1>2
  <2>2. PICK z : z = checkpoint_after_tool(d, c, r)
    OBVIOUS
  <2>3. /\ z \in Checkpoints /\ t \in TTurns /\ z.trajectory = Append(c.trajectory, t)
        /\ z.pending = Left(c, r) /\ z.last_event_sequence = Len(d.events)
    BY <1>1, <1>2, <2>1, <2>2, AfterTool
  <2>4. QED
    BY <1>0, <1>3, <2>2, <2>3
<1>5. ~Open(x)
  BY StoreOrderly
<1>6. Planned(y) /\ Meant(y)
  <2>1. Planned(c)
    BY <1>0 DEF Accounted
  <2>2. QED
    BY <1>0, <1>1, <1>2, <1>3, <2>1, PlannedStore, MeantStore
<1>7. Open(d) /\ Shows(d, t, n)
  BY <1>0, StoreShows DEF Accounted
<1>8. steps(y) = steps(c) /\ tool_attempts(y) = tool_attempts(c) + 1
  BY <1>2, <1>4, StepsAppend
<1>9. Affordable(x)
  <2>1. tool_attempts(c) + 1 <= MaxToolCalls
    BY <1>0, <1>7 DEF Accounted, Affordable
  <2>2. QED
    BY <1>0, <1>2, <1>5, <1>8, <2>1, Constants DEF Affordable, Attempts
<1>10. /\ c.last_event_sequence \in 0 .. n /\ StepsLogged(d) /\ ToolsLogged(d)
       /\ TurnsLogged(d) /\ Later(d)
  BY <1>0 DEF Accounted, Logged
<1>11. PICK m \in 0 .. n : m = c.last_event_sequence
  BY <1>10
<1>12. PICK k0 : k0 = Len(c.trajectory) + 1
  OBVIOUS
<1>13. /\ TurnsOf(y) = TurnsOf(c) \cup {k0} /\ y.trajectory[k0] = t
       /\ \A k \in TurnsOf(c) : y.trajectory[k] = c.trajectory[k]
  <2>1. t \in ATurns \cup TTurns
    BY <1>4
  <2>2. /\ y.trajectory[Len(c.trajectory) + 1] = t
        /\ t \in TTurns => TurnsOf(y) = TurnsOf(c) \cup {Len(c.trajectory) + 1}
        /\ \A k \in TurnsOf(c) : y.trajectory[k] = c.trajectory[k]
    BY <1>2, <1>4, <2>1, TurnsAppend
  <2>3. QED
    BY <1>4, <1>12, <2>2
<1>14. StepsLogged(x)
  <2>1. \A i \in DOMAIN d.events : d.events[i].type = "agent.step" =>
          i <= n /\ d.events[i].call[1] \in 1 .. steps(c)
    BY <1>0, <1>2, <1>10 DEF StepsLogged
  <2>2. QED
    BY <1>0, <1>3, <1>4, <1>8, <1>10, <2>1 DEF StepsLogged
<1>15. ToolsLogged(x)
  <2>1. ASSUME NEW i \in 1 .. n, d.events[i].type \in {"tool.requested", "tool.result"}
        PROVE  \E k \in TurnsOf(y) : i \in {y.trajectory[k].request, y.trajectory[k].result}
    <3>1. CASE i <= m
      <4>1. i \in 1 .. c.last_event_sequence
        BY <1>2, <1>11, <3>1
      <4>2. PICK k \in TurnsOf(c) : i \in {c.trajectory[k].request, c.trajectory[k].result}
        BY <1>0, <1>10, <2>1, <4>1 DEF ToolsLogged
      <4>3. QED
        BY <1>13, <4>2
    <3>2. CASE ~(i <= m)
      <4>1. i \in c.last_event_sequence + 1 .. Len(d.events)
        BY <1>0, <1>2, <1>11, <3>2
      <4>2. Belongs(d, d.events[i])
        BY <1>0, <1>10, <4>1 DEF Later
      <4>3. d.events[i].call = p.call /\ d.events[i].attempt = p.attempt
        BY <1>0, <2>1, <4>2 DEF Belongs
      <4>4. i \in DOMAIN d.events
        BY <1>2
      <4>5. /\ r.request \in DOMAIN d.events /\ d.events[r.request].type = "tool.requested"
            /\ d.events[r.request].call = p.call /\ d.events[r.request].attempt = p.attempt
            /\ r.result \in DOMAIN d.events /\ d.events[r.result].type = "tool.result"
            /\ d.events[r.result].call = p.call /\ d.events[r.result].attempt = p.attempt
        BY <1>1 DEF Requested, Answered, Positions
      <4>6. i = r.request \/ i = r.result
        BY <2>1, <4>3, <4>4, <4>5 DEF Orderly, StreamValid
      <4>7. t.request = r.request /\ t.result = r.result
        BY <1>0 DEF Turn
      <4>8. QED
        BY <1>13, <4>6, <4>7
    <3>3. QED
      BY <3>1, <3>2
  <2>2. QED
    BY <1>0, <1>3, <1>4, <2>1 DEF ToolsLogged
<1>16. TurnsLogged(x)
  <2>1. ASSUME NEW k \in TurnsOf(y) PROVE Shows(x, y.trajectory[k], n)
    <3>1. \A s : Shows(d, s, n) => Shows(x, s, n)
      BY <1>3 DEF Shows
    <3>2. CASE k = k0
      BY <1>7, <1>13, <3>1, <3>2
    <3>3. CASE k \in TurnsOf(c)
      <4>1. Shows(d, c.trajectory[k], m)
        BY <1>0, <1>10, <1>11, <3>3 DEF TurnsLogged
      <4>2. Grows(d, d) /\ m <= n
        BY <1>2, <1>11 DEF Grows
      <4>3. Shows(d, c.trajectory[k], n)
        BY <1>0, <1>2, <1>11, <4>1, <4>2, ShowsKeeps
      <4>4. QED
        BY <1>13, <3>1, <3>3, <4>3
    <3>4. QED
      BY <1>13, <3>2, <3>3
  <2>2. QED
    BY <1>0, <1>4, <2>1 DEF TurnsLogged
<1>17. Logged(x)
  <2>1. n \in 0 .. Len(x.events) /\ n # 0
    BY <1>0, <1>1, <1>2, <1>3 DEF Requested, Positions
  <2>2. QED
    BY <1>0, <1>4, <1>14, <1>15, <1>16, <2>1 DEF Logged
<1>18. Later(x)
  <2>1. n + 1 .. Len(x.events) = {}
    BY <1>0, <1>2, <1>3
  <2>2. QED
    BY <1>0, <1>4, <2>1 DEF Later
<1>19. Expected(x)
  <2>1. ASSUME NEW q \in Requests, x.approvals[q] = "pending" PROVE Asking(x) /\ First(x).request = q
    <3>1. d.approvals[q] = "pending" /\ p.request = q
      BY <1>0, <1>3, <2>1 DEF Accounted, Expected
    <3>2. r.code \in WAITS
      <4> SUFFICES ASSUME r.code \notin WAITS PROVE FALSE
        OBVIOUS
      <4>1. d.approvals[p.request] # "pending"
        BY <1>0, <1>1, <1>7 DEF Orderly, Awaited
      <4>2. QED
        BY <3>1, <4>1
    <3>3. /\ DOMAIN y.pending = DOMAIN c.pending /\ y.pending[1] = retried(p) /\ 1 \in DOMAIN c.pending
      BY <1>0, <1>1, <1>2, <1>4, <3>2, LeftIs, Heads
    <3>4. y.pending # <<>>
      BY <3>3
    <3>5. Head(y.pending) = y.pending[1]
      BY <1>4, <3>4, Heads
    <3>6. retried(p).request = p.request /\ retried(p).approval = TRUE
      BY <1>2, Retries
    <3>7. QED
      BY <1>0, <3>1, <3>3, <3>4, <3>5, <3>6 DEF Asking, First
  <2>2. QED
    BY <2>1 DEF Expected
<1>20. Adoptable(x)
  BY <1>5 DEF Adoptable
<1>21. QED
  BY <1>0, <1>6, <1>9, <1>17, <1>18, <1>19, <1>20 DEF Accounted

-----------------------------------------------------------------------------
(* An attempt of the first pending call.                                   *)

\* An answer that says of the ledger what is so.
Told(p, x, e) ==
  /\ e.type = "tool.result"
  /\ e.info = "read" => p.request \notin Mutations
  /\ e.info = "newly_applied" => Effect(p) \in x.effects

\* An attempt leaves its answer or, before it, a marker.
Owed(d, p, x) ==
  /\ Marked(x, p) /\ x.approvals = d.approvals
  /\ \A i \in News(d, x) : x.events[i].type \notin {"approval.requested", "tool.result"}

Witnessed(d, p, x) == Owed(d, p, x) \/ \E j \in News(d, x) : Told(p, x, x.events[j])

\* An attempt that left evidence left its answer or a marker.
LEMMA WitnessedIs ==
  ASSUME NEW d \in Databases, NEW p \in Pendings, NEW o \in execute(d, p), ~Rejects(d, o)
  PROVE  Witnessed(d, p, o.db)
<1>0. PICK x, q, k, w : x = o.db /\ q = ReqE(p) /\ k = AskE(p) /\ w = EvdE(p)
  OBVIOUS
<1>1. x \in Databases
  BY <1>0, Executed DEF Frame
<1>2. \/ Refuses(d, p, o) \/ Reads(d, p, o) \/ Applies(d, p, o) \/ Marks(d, p, o)
  BY Executed
<1>3. /\ q \in Events /\ k \in Events /\ w \in Events
      /\ \A code \in Codes, slow \in Slow : ResE(p, code, slow) \in Events
  BY <1>0, EventTypes
<1>4. /\ q.type = "tool.requested" /\ k.type = "approval.requested"
      /\ w.type = "state.evidence_recorded"
      /\ \A code, slow : /\ ResE(p, code, slow).type = "tool.result"
                         /\ ResE(p, code, slow).info = code
  BY <1>0, EventFields DEF ReqE, AskE, EvdE
<1>5. CASE Refuses(d, p, o)
  <2>1. gate(d, p) \in Codes
    BY <1>5 DEF Refuses
  <2>2. gate(d, p) \notin {"read", "newly_applied"}
    BY DEF gate
  <2>3. CASE gate(d, p) = "approval_required"
    <3>1. PICK slow \in Slow :
            x.events = Append(Append(Append(d.events, q), k), ResE(p, gate(d, p), slow))
      BY <1>0, <1>5, <2>3 DEF Refuses
    <3>2. PICK v : v = ResE(p, gate(d, p), slow)
      OBVIOUS
    <3>3. v \in Events
      BY <1>3, <2>1, <3>2
    <3>4. /\ News(d, x) = {Len(d.events) + 1, Len(d.events) + 2, Len(d.events) + 3}
          /\ x.events[Len(d.events) + 3] = v
      <4>1. Three(d.events, q, k, v, x.events)
        BY <3>1, <3>2 DEF Three
      <4>2. QED
        BY <1>1, <1>3, <3>3, <4>1, ThreeNews
    <3>5. Told(p, x, v)
      BY <1>4, <2>2, <3>2 DEF Told
    <3>6. QED
      BY <1>0, <3>4, <3>5 DEF Witnessed
  <2>4. CASE gate(d, p) # "approval_required"
    <3>1. PICK slow \in Slow :
            x.events = Append(Append(d.events, q), ResE(p, gate(d, p), slow))
      BY <1>0, <1>5, <2>4 DEF Refuses
    <3>2. PICK v : v = ResE(p, gate(d, p), slow)
      OBVIOUS
    <3>3. v \in Events
      BY <1>3, <2>1, <3>2
    <3>4. /\ News(d, x) = {Len(d.events) + 1, Len(d.events) + 2}
          /\ x.events[Len(d.events) + 2] = v
      BY <1>1, <1>3, <3>1, <3>2, <3>3, TwoNews
    <3>5. Told(p, x, v)
      BY <1>4, <2>2, <3>2 DEF Told
    <3>6. QED
      BY <1>0, <3>4, <3>5 DEF Witnessed
  <2>5. QED
    BY <2>3, <2>4
<1>6. CASE Reads(d, p, o)
  <2>1. PICK code \in {"failed", "infrastructure_error", "read", "already_applied"}, slow \in Slow :
          /\ x.events = Append(Append(d.events, q), ResE(p, code, slow))
          /\ code = "read" => p.request \notin Mutations
    BY <1>0, <1>6 DEF Reads
  <2>2. PICK v : v = ResE(p, code, slow)
    OBVIOUS
  <2>3. v \in Events
    BY <1>3, <2>2 DEF Codes, SUCCESSES
  <2>4. /\ News(d, x) = {Len(d.events) + 1, Len(d.events) + 2}
        /\ x.events[Len(d.events) + 2] = v
    BY <1>1, <1>3, <2>1, <2>2, <2>3, TwoNews
  <2>5. Told(p, x, v)
    BY <1>4, <2>1, <2>2 DEF Told
  <2>6. QED
    BY <1>0, <2>4, <2>5 DEF Witnessed
<1>7. CASE Applies(d, p, o)
  <2>1. PICK slow \in Slow :
          x.events = Append(Append(Append(d.events, q), ResE(p, "newly_applied", slow)), w)
    BY <1>0, <1>7 DEF Applies
  <2>2. PICK v : v = ResE(p, "newly_applied", slow)
    OBVIOUS
  <2>3. v \in Events
    BY <1>3, <2>2 DEF Codes, SUCCESSES
  <2>4. /\ News(d, x) = {Len(d.events) + 1, Len(d.events) + 2, Len(d.events) + 3}
        /\ x.events[Len(d.events) + 2] = v
    <3>1. Three(d.events, q, v, w, x.events)
      BY <2>1, <2>2 DEF Three
    <3>2. QED
      BY <1>1, <1>3, <2>3, <3>1, ThreeNews
  <2>5. Effect(p) \in x.effects
    BY <1>0, <1>7 DEF Applies, Mutates
  <2>6. Told(p, x, v)
    BY <1>4, <2>2, <2>5 DEF Told
  <2>7. QED
    BY <1>0, <2>4, <2>6 DEF Witnessed
<1>8. CASE Marks(d, p, o)
  <2>1. /\ News(d, x) = {Len(d.events) + 1, Len(d.events) + 2}
        /\ x.events[Len(d.events) + 1] = q /\ x.events[Len(d.events) + 2] = w
    <3>1. x.events = Append(Append(d.events, q), w)
      BY <1>0, <1>8 DEF Marks
    <3>2. QED
      BY <1>1, <1>3, <3>1, TwoNews
  <2>2. Marked(x, p) /\ x.approvals = d.approvals
    BY <1>0, <1>8 DEF Marks, Mutates, Marked, Marker
  <2>3. Owed(d, p, x)
    BY <1>4, <2>1, <2>2 DEF Owed
  <2>4. QED
    BY <1>0, <2>3 DEF Witnessed
<1>9. QED
  BY <1>2, <1>5, <1>6, <1>7, <1>8

\* An attempt of the first pending call, where none is open, can be adopted.
LEMMA TryAccounted ==
  ASSUME NEW d \in Databases, Grounded(d), Accounted(d), d.checkpoint.pending # <<>>, ~Open(d),
         tool_attempts(d.checkpoint) < MaxToolCalls,
         NEW x \in Databases, Tried(d, First(d), x), Witnessed(d, First(d), x)
  PROVE  Accounted(x)
<1>0. PICK p, c, n : p = First(d) /\ c = d.checkpoint /\ n = Len(d.events) + 1
  OBVIOUS
<1>1. /\ Grows(d, x) /\ x.checkpoint = c /\ x.status = d.status /\ First(x) = p
      /\ n \in News(d, x) /\ x.events[n] = ReqE(p)
      /\ c \in Checkpoints /\ n \in Nat /\ Len(d.events) \in Nat /\ p \in Pendings
  <2>1. Len(d.events) \in Nat /\ c \in Checkpoints /\ Len(x.events) \in Nat
    BY <1>0, Sizes
  <2>2. p \in Pendings
    BY <1>0, <2>1, Heads DEF First
  <2>3. Len(d.events) < Len(x.events) /\ Grows(d, x) /\ x.checkpoint = c /\ x.status = d.status
        /\ x.events[n] = ReqE(p)
    BY <1>0 DEF Tried, Frame
  <2>4. n \in News(d, x) /\ n \in Nat
    BY <1>0, <2>1, <2>3 DEF News
  <2>5. QED
    BY <1>0, <2>1, <2>2, <2>3, <2>4 DEF First
<1>2. \A i \in News(d, x) :
        /\ x.events[i].type \in ToolTypes \cup {"approval.requested"}
        /\ x.events[i].call = p.call /\ x.events[i].attempt = p.attempt
        /\ \A j \in News(d, x) : x.events[i].type = x.events[j].type => i = j
  BY <1>0 DEF Tried
<1>3. Requested(d, p) = {} /\ Answered(d, p) = {}
  BY <1>0, Untouched DEF Grounded
<1>4. x.events[n].type = "tool.requested"
  BY <1>1, EventFields DEF ReqE
<1>5. /\ Requested(x, p) = {n} /\ Answered(x, p) \subseteq News(d, x)
      /\ \A j \in News(d, x) : x.events[j].type = "tool.result" => j \in Answered(x, p)
      /\ \A j \in Answered(x, p) : x.events[j].type = "tool.result" /\ n < j
  <2>1. \A i \in DOMAIN x.events :
          \/ i \in News(d, x)
          \/ i \in DOMAIN d.events /\ x.events[i] = d.events[i]
    BY <1>1, OldOrNew
  <2>2. \A i \in News(d, x) : i \in DOMAIN x.events /\ i >= n /\ i \in Nat
    <3>1. DOMAIN x.events = 1 .. Len(x.events) /\ Len(x.events) \in Nat
      BY Sizes
    <3>2. QED
      BY <1>0, <1>1, <3>1 DEF News
  <2>3. Requested(x, p) \subseteq News(d, x) /\ Answered(x, p) \subseteq News(d, x)
    BY <1>3, <2>1 DEF Requested, Answered, Positions
  <2>4. n \in Requested(x, p)
    BY <1>1, <1>2, <1>4, <2>2 DEF Requested, Positions
  <2>5. \A i \in Requested(x, p) : i = n
    BY <1>1, <1>2, <1>4, <2>3 DEF Requested, Positions
  <2>6. \A j \in News(d, x) : x.events[j].type = "tool.result" => j \in Answered(x, p)
    BY <1>2, <2>2 DEF Answered, Positions
  <2>7. \A j \in Answered(x, p) : x.events[j].type = "tool.result"
    BY DEF Answered, Positions
  <2>8. \A j \in Answered(x, p) : n < j
    <3> TAKE j \in Answered(x, p)
    <3>1. j \in News(d, x) /\ j # n
      BY <1>4, <2>3, <2>7
    <3>2. j >= n /\ j \in Nat
      BY <2>2, <3>1
    <3>3. QED
      BY <1>1, <3>1, <3>2
  <2>9. QED
    BY <2>3, <2>4, <2>5, <2>6, <2>7, <2>8
<1>6. /\ (Asking(d) => Asking(x)) /\ \A e : Belongs(d, e) => Belongs(x, e)
  <2>1. Answered(d, p) \subseteq Answered(x, p)
    BY <1>3
  <2>2. QED
    BY <1>0, <1>1, <2>1, BelongsKeeps
<1>7. ASSUME Owed(d, p, x)
      PROVE  /\ Expected(x) /\ Adoptable(x)
             /\ \A i \in News(d, x) : x.events[i].type = "approval.requested" => Answered(x, p) # {}
  <2>1. Marked(x, p) /\ x.approvals = d.approvals
    BY <1>7 DEF Owed
  <2>2. Answered(x, p) = {}
    BY <1>5, <1>7 DEF Owed
  <2>3. \A i \in News(d, x) : x.events[i].type # "approval.requested"
    BY <1>7 DEF Owed
  <2>4. Expected(x)
    BY <1>0, <1>1, <1>6, <2>1 DEF Accounted, Expected
  <2>5. Adoptable(x)
    BY <1>1, <2>1, <2>2 DEF Adoptable
  <2>6. Expected(x) /\ Adoptable(x)
        /\ \A i \in News(d, x) : x.events[i].type = "approval.requested" => Answered(x, p) # {}
    BY <2>3, <2>4, <2>5
  <2>7. QED
    BY <2>6
<1>8. ASSUME \E j \in News(d, x) : Told(p, x, x.events[j])
      PROVE  /\ Expected(x) /\ Adoptable(x)
             /\ \A i \in News(d, x) : x.events[i].type = "approval.requested" => Answered(x, p) # {}
  <2>1. PICK j \in News(d, x) : Told(p, x, x.events[j])
    BY <1>8
  <2>2. Answered(x, p) = {j}
    BY <1>2, <1>5, <2>1 DEF Told
  <2>3. ASSUME NEW q \in Requests, x.approvals[q] = "pending"
        PROVE  Asking(x) /\ First(x).request = q
    <3>1. CASE d.approvals[q] = "pending"
      BY <1>0, <1>1, <1>6, <2>3, <3>1 DEF Accounted, Expected
    <3>2. CASE d.approvals[q] # "pending"
      <4>1. x.approvals = [d.approvals EXCEPT ![p.request] = "pending"]
        BY <1>0, <2>3, <3>2 DEF Tried
      <4>2. d.approvals \in [Requests -> {"none", "pending", "approved", "denied"}]
        BY DEF Databases
      <4>3. q = p.request
        BY <2>3, <3>2, <4>1, <4>2
      <4>4. QED
        BY <1>0, <1>1, <2>2, <4>3 DEF Asking
    <3>3. QED
      BY <3>1, <3>2
  <2>4. Truthful(x, p, j)
    BY <2>1 DEF Told, Truthful
  <2>5. Adoptable(x)
    BY <1>1, <1>5, <2>2, <2>4 DEF Adoptable
  <2>6. Expected(x)
    BY <2>3 DEF Expected
  <2>7. QED
    BY <2>2, <2>5, <2>6
<1>9. /\ Expected(x) /\ Adoptable(x)
      /\ \A i \in News(d, x) : x.events[i].type = "approval.requested" => Answered(x, p) # {}
  BY <1>0, <1>7, <1>8 DEF Witnessed
<1>10. Planned(x.checkpoint) /\ Meant(x.checkpoint)
  BY <1>0, <1>1 DEF Accounted
<1>11. Affordable(x)
  <2>1. tool_attempts(c) \in Nat /\ MaxToolCalls \in Nat
    BY <1>1, Counts, Constants DEF Attempts
  <2>2. QED
    BY <1>0, <1>1, <2>1 DEF Affordable
<1>12. Logged(x)
  <2>1. \A i \in News(d, x) : x.events[i].type # "agent.step"
    BY <1>2 DEF ToolTypes
  <2>2. Logged(d)
    BY DEF Accounted
  <2>3. QED
    BY <1>0, <1>1, <2>1, <2>2, LoggedKeeps
<1>13. Later(x)
  <2>1. \A i \in News(d, x) : Belongs(x, x.events[i])
    BY <1>0, <1>1, <1>2, <1>9 DEF Belongs
  <2>2. Later(d) /\ c.last_event_sequence \in 0 .. Len(d.events)
    BY <1>0 DEF Accounted, Logged
  <2>3. QED
    BY <1>0, <1>1, <1>6, <2>1, <2>2, LaterKeeps
<1>14. QED
  BY <1>9, <1>10, <1>11, <1>12, <1>13 DEF Accounted

\* The late answer to a marked attempt is accounted for like the attempt.
LEMMA AckAccounted ==
  ASSUME NEW d \in Databases, Accounted(d), Open(d), Marked(d, First(d)),
         Answered(d, First(d)) = {}, NEW x \in Databases, Frame(d, x),
         NEW v \in Events, AckE(First(d), v),
         x.events = Append(d.events, v), x.effects = d.effects,
         x.markers = d.markers, x.approvals = d.approvals
  PROVE  Accounted(x)
<1>0. PICK p, c, n : p = First(d) /\ c = d.checkpoint /\ n = Len(d.events) + 1
  OBVIOUS
<1>1. /\ Grows(d, x) /\ News(d, x) = {n} /\ x.events[n] = v
      /\ x.checkpoint = c /\ x.status = d.status /\ First(x) = p
  BY <1>0, GrowsBy DEF Frame, First
<1>2. /\ v.type = "tool.result" /\ v.call = p.call /\ v.attempt = p.attempt
      /\ v.info = "fault_timeout"
  BY <1>0 DEF AckE
<1>3. /\ Requested(x, p) = Requested(d, p) /\ Answered(x, p) = {n}
      /\ \A i \in Requested(d, p) : i < n
  <2>1. \A i \in DOMAIN x.events :
          i = n \/ (i \in DOMAIN d.events /\ x.events[i] = d.events[i])
    BY <1>1, OldOrNew
  <2>2. /\ n \in DOMAIN x.events
        /\ \A i \in DOMAIN d.events : i \in DOMAIN x.events /\ x.events[i] = d.events[i]
    BY <1>1, OldOrNew
  <2>3. \A i \in DOMAIN d.events : i < n
    BY <1>0, Sizes
  <2>4. Requested(x, p) = Requested(d, p)
    BY <1>1, <1>2, <2>1, <2>2 DEF Requested, Positions
  <2>5. Answered(x, p) = {n}
    BY <1>0, <1>1, <1>2, <2>1, <2>2 DEF Answered, Positions
  <2>6. QED
    BY <2>3, <2>4, <2>5 DEF Requested, Positions
<1>4. /\ (Asking(d) => Asking(x)) /\ \A e : Belongs(d, e) => Belongs(x, e)
  <2>1. Answered(d, p) \subseteq Answered(x, p)
    BY <1>0
  <2>2. QED
    BY <1>0, <1>1, <2>1, BelongsKeeps
<1>5. Marked(x, p) /\ Open(x) /\ c.pending # <<>>
  BY <1>0, <1>1, <1>3 DEF Marked, Open
<1>6. Planned(x.checkpoint) /\ Meant(x.checkpoint)
  BY <1>0, <1>1 DEF Accounted
<1>7. Affordable(x)
  BY <1>0, <1>1, <1>5 DEF Accounted, Affordable
<1>8. Logged(x)
  <2>1. \A i \in News(d, x) : x.events[i].type # "agent.step"
    BY <1>1, <1>2
  <2>2. Logged(d)
    BY DEF Accounted
  <2>3. QED
    BY <1>0, <1>1, <2>1, <2>2, LoggedKeeps
<1>9. Later(x)
  <2>1. \A i \in News(d, x) : Belongs(x, x.events[i])
    BY <1>1, <1>2, <1>5 DEF Belongs, ToolTypes
  <2>2. Later(d) /\ c.last_event_sequence \in 0 .. Len(d.events)
    BY <1>0 DEF Accounted, Logged
  <2>3. QED
    BY <1>0, <1>1, <1>4, <2>1, <2>2, LaterKeeps
<1>10. Expected(x)
  BY <1>0, <1>1, <1>4 DEF Accounted, Expected
<1>11. Adoptable(x)
  <2>1. \A j \in Answered(x, p) : Truthful(x, p, j)
    BY <1>1, <1>2, <1>3 DEF Truthful
  <2>2. QED
    BY <1>1, <1>3, <1>5, <2>1 DEF Adoptable
<1>12. QED
  BY <1>6, <1>7, <1>8, <1>9, <1>10, <1>11 DEF Accounted

-----------------------------------------------------------------------------
(* Every step keeps the checkpoint accounted for.                          *)

\* Leases, operators and the evaluator.
LEMMA AccountedEnvironment ==
  ASSUME Ordered, Accounted(db),
         \/ claim_next_run \/ lease_expires \/ requeue_expired_run \/ cancel_queued_run
         \/ resolve_approval_request \/ evaluate_leased_run
  PROVE  Accounted(db')
<1>1. Sound /\ db \in Databases
  BY DEF Ordered, Sound, Typed
<1>2. Attends(db, db')
  BY <1>1, EnvironmentAttends
<1>3. db' \in Databases
  BY <1>2 DEF Attends, Quiet, Calm, Grows
<1>4. QED
  BY <1>1, <1>2, <1>3, QuietAccounted

\* The Run as the load sees it, before and after it is reconciled.
LEMMA AccountedEntered ==
  ASSUME Ordered, Accounted(db), NEW z, z = Entered(db)
  PROVE  /\ z \in Databases /\ Orderly(z) /\ Durable(z) /\ Accounted(z) /\ Quiet(db, z)
         /\ Enters(z)
<1>1. Typed /\ db \in Databases
  BY DEF Ordered, Sound, Typed
<1>2. Attends(db, z) /\ Enters(z)
  BY <1>1, EnterAttends
<1>3. /\ z \in Databases /\ Quiet(db, z)
      /\ z.status \in {"evaluating", "completed"} => db.status \in {"evaluating", "completed"}
      /\ db.status \in TERMINAL_STATUSES => z.status \in TERMINAL_STATUSES
  BY <1>2 DEF Enters, TERMINAL_STATUSES
<1>4. Orderly(z) /\ Durable(z)
  BY <1>1, <1>3, QuietOrderly DEF Ordered
<1>5. Accounted(z)
  BY <1>1, <1>2, <1>3, QuietAccounted
<1>6. QED
  BY <1>2, <1>3, <1>4, <1>5

\* A load stores at most the one recorded answer that was not adopted yet.
LEMMA AccountedLoad ==
  ASSUME Ordered, Accounted(db), NEW e \in Executors, load(e)
  PROVE  Accounted(db')
<1>1. Typed /\ Grounded(db)
  BY DEF Ordered, Sound
<1>2. PICK z : z = Entered(db)
  OBVIOUS
<1>3. db' = db \/ db' = z \/ Adopted(z)
  BY <1>1, <1>2, Loaded
<1>4. z \in Databases /\ Orderly(z) /\ Accounted(z)
  BY <1>2, AccountedEntered
<1>5. CASE Adopted(z)
  <2>1. PICK r : r = Recorded(z, Head(z.checkpoint.pending))
    OBVIOUS
  <2>2. /\ z.checkpoint.pending # <<>> /\ Found(z, First(z), r)
        /\ db' = Stored(z, z.checkpoint, r)
    BY <1>5, <2>1 DEF Adopted, First
  <2>3. QED
    BY <1>4, <2>2, StoreAccounted
<1>6. QED
  BY <1>3, <1>4, <1>5

\* An agent step and its checkpoint, in one transaction.
LEMMA AccountedPersist ==
  ASSUME Ordered, Accounted(db), NEW e \in Executors, persist_agent_output(e)
  PROVE  Accounted(db')
<1>1. Typed /\ Views /\ Sound' /\ db \in Databases /\ db' \in Databases
  BY SoundPersist DEF Ordered, Sound, Typed
<1>2. /\ Owns(e) /\ db.checkpoint.pending = <<>> /\ steps(db.checkpoint) < MaxSteps
  BY <1>1, Persists
<1>3. PICK a \in ATurns, ready \in BOOLEAN : Stepped(e, a, ready)
  BY <1>1, Persists
<1>4. db.status = "running"
  BY <1>2 DEF Owns
<1>5. /\ Calm(db, db') /\ Spoke(db, db')
      /\ db'.checkpoint.trajectory = Append(db.checkpoint.trajectory, a)
      /\ db'.checkpoint.pending = Asked(steps(db.checkpoint) + 1, a.calls)
  BY <1>3 DEF Stepped
<1>6. db'.status \in {"evaluating", "completed"} =>
        /\ a.final /\ db'.checkpoint.status = "final" /\ db'.checkpoint.spent = {}
        /\ db'.checkpoint.pending = <<>>
  BY <1>3, <1>4 DEF Stepped
<1>7. ~Open(db')
  <2>1. db.status \notin TERMINAL_STATUSES
    BY <1>4 DEF TERMINAL_STATUSES
  <2>2. QED
    BY <1>1, <1>2, <1>5, <1>6, <2>1, StepOrderly DEF Ordered
<1>8. Concludes(db'.checkpoint, a)
  BY <1>3 DEF Stepped, Concludes
<1>9. QED
  BY <1>1, <1>2, <1>5, <1>7, <1>8, StepAccounted

\* An attempt and its checkpoint, in one transaction.
LEMMA AccountedDispatch ==
  ASSUME Ordered, Accounted(db), NEW e \in Executors, dispatch_pending(e)
  PROVE  Accounted(db')
<1>1. Typed /\ Views /\ db \in Databases /\ Grounded(db)
  BY DEF Ordered, Sound, Typed
<1>2. /\ db.checkpoint.pending # <<>> /\ tool_attempts(db.checkpoint) < MaxToolCalls
      /\ First(db).request \notin AfterCommit
      /\ db' = db \/ Dispatched(e)
  BY <1>1, Dispatches DEF First
<1>3. CASE Dispatched(e)
  <2>1. PICK o \in execute(db, First(db)) : \E r \in o.result :
          /\ ~Rejects(db, o) /\ Found(o.db, First(db), r)
          /\ db' = Stored(o.db, db.checkpoint, r)
    BY <1>3 DEF Dispatched, First
  <2>2. PICK r : /\ ~Rejects(db, o) /\ Found(o.db, First(db), r)
                 /\ db' = Stored(o.db, db.checkpoint, r)
    BY <2>1
  <2>3. PICK x : x = o.db
    OBVIOUS
  <2>4. First(db) \in Pendings
    BY <1>1, <1>2, Heads, Sizes DEF First
  <2>5. /\ Attempted(db, First(db), x) /\ Witnessed(db, First(db), x)
        /\ x \in Databases /\ x.checkpoint = db.checkpoint
    BY <1>1, <2>2, <2>3, <2>4, AttemptedIs, WitnessedIs, Executed DEF Frame
  <2>6. ~Open(db)
    BY <1>2 DEF Ordered, Durable
  <2>7. Orderly(x) /\ First(x) = First(db)
    BY <1>1, <1>2, <2>5, <2>6, TryOrderly DEF Ordered
  <2>8. Accounted(x)
    BY <1>1, <1>2, <2>5, <2>6, TryAccounted DEF Attempted
  <2>9. /\ x.checkpoint.pending # <<>> /\ Found(x, First(x), r)
        /\ db' = Stored(x, x.checkpoint, r)
    BY <1>2, <2>2, <2>3, <2>5, <2>7
  <2>10. QED
    BY <2>5, <2>7, <2>8, <2>9, StoreAccounted
<1>4. QED
  BY <1>2, <1>3

\* The effect transaction.
LEMMA AccountedExecute ==
  ASSUME Ordered, Accounted(db), NEW e \in Executors, execute_durable_post_commit(e)
  PROVE  Accounted(db')
<1>1. Typed /\ Views /\ Places /\ Sound' /\ db \in Databases /\ db' \in Databases /\ Grounded(db)
  BY SoundExecute DEF Ordered, Sound, Typed
<1>2. PICK p : p = Head(exec[e].checkpoint.pending)
  OBVIOUS
<1>3. /\ exec[e].pc = "effect" /\ Owns(e) /\ p \in Pendings
      /\ db' = db \/ (~Marked(db, p) /\ Effected(e))
  BY <1>1, <1>2, Executes
<1>4. Knows(db, exec[e])
  BY <1>3, Holder DEF Owns, Ordered, Hands
<1>5. /\ exec[e].checkpoint = db.checkpoint /\ p = First(db) /\ db.checkpoint.pending # <<>>
      /\ tool_attempts(db.checkpoint) < MaxToolCalls
  BY <1>1, <1>2, <1>3, <1>4 DEF Knows, First, Places, Place
<1>6. CASE ~Marked(db, p) /\ Effected(e)
  <2>1. PICK o \in execute(db, p) : ~Rejects(db, o) /\ db' = o.db
    BY <1>2, <1>6 DEF Effected
  <2>2. Attempted(db, p, db') /\ Witnessed(db, p, db')
    BY <1>1, <1>3, <2>1, AttemptedIs, WitnessedIs
  <2>3. ~Open(db)
    BY <1>3, <1>4, <1>5, <1>6 DEF Knows
  <2>4. QED
    BY <1>1, <1>5, <2>2, <2>3, TryAccounted DEF Attempted
<1>7. QED
  BY <1>3, <1>6

\* The late answer to an attempt whose effect is already committed.
LEMMA AccountedAcknowledge ==
  ASSUME Ordered, Accounted(db), NEW e \in Executors, acknowledge_post_commit(e)
  PROVE  Accounted(db')
<1>1. Typed /\ Views /\ Places /\ Sound' /\ db \in Databases /\ db' \in Databases /\ Grounded(db)
  BY SoundAcknowledge DEF Ordered, Sound, Typed
<1>2. PICK p : p = Head(exec[e].checkpoint.pending)
  OBVIOUS
<1>3. /\ exec[e].pc = "acknowledge" /\ Owns(e) /\ p \in Pendings /\ Marked(db, p)
      /\ Requested(db, p) # {}
      /\ \/ db' = db
         \/ /\ Answered(db, p) = {} /\ Frame(db, db')
            /\ \E v \in Events : AckE(p, v) /\ db'.events = Append(db.events, v)
            /\ db'.effects = db.effects
            /\ db'.markers = db.markers /\ db'.approvals = db.approvals
  BY <1>1, <1>2, Acknowledges
<1>4. Knows(db, exec[e])
  BY <1>3, Holder DEF Owns, Ordered, Hands
<1>5. p = First(db) /\ Open(db)
  BY <1>1, <1>2, <1>3, <1>4 DEF Knows, First, Places, Place, Open
<1>6. CASE db' # db
  <2>1. PICK v \in Events : AckE(p, v) /\ db'.events = Append(db.events, v)
    BY <1>3, <1>6
  <2>2. /\ Answered(db, First(db)) = {} /\ Frame(db, db') /\ db'.effects = db.effects
        /\ db'.markers = db.markers /\ db'.approvals = db.approvals
    BY <1>3, <1>5, <1>6
  <2>3. Marked(db, First(db)) /\ AckE(First(db), v)
    BY <1>3, <1>5, <2>1
  <2>4. QED
    BY <1>1, <1>5, <2>1, <2>2, <2>3, AckAccounted
<1>7. QED
  BY <1>6

\* The checkpoint of a persisted result, in a transaction of its own.
LEMMA AccountedCheckpoint ==
  ASSUME Ordered, Accounted(db), NEW e \in Executors, checkpoint_post_commit(e)
  PROVE  Accounted(db')
<1>1. Typed /\ Views /\ Places /\ db \in Databases
  BY DEF Ordered, Sound, Typed
<1>2. PICK r \in exec[e].result :
        /\ exec[e].pc = "checkpoint" /\ Owns(e) /\ exec[e].checkpoint = db.checkpoint
        /\ db.checkpoint.pending # <<>> /\ db' = Stored(db, db.checkpoint, r)
  BY <1>1, StoresResult
<1>3. Knows(db, exec[e])
  BY <1>2, Holder DEF Owns, Ordered, Hands
<1>4. Found(db, First(db), r)
  BY <1>2, <1>3 DEF Knows, First
<1>5. QED
  BY <1>1, <1>2, <1>4, StoreAccounted DEF Ordered

\* A step that finds a Run ended leaves it ended.
LEMMA StaysEnded ==
  ASSUME Ordered, [Next]_vars, db.status \in TERMINAL_STATUSES
  PROVE  db'.status \in TERMINAL_STATUSES
<1>1. db.lease = "none" /\ Typed /\ \A e \in Executors : ~Holds(db, e)
  BY DEF Ordered, Sound, Leases, Holds, TERMINAL_STATUSES
<1>2. CASE \/ claim_next_run \/ lease_expires \/ requeue_expired_run \/ cancel_queued_run
           \/ evaluate_leased_run
  BY <1>1, <1>2 DEF claim_next_run, lease_expires, requeue_expired_run, cancel_queued_run,
     evaluate_leased_run, TERMINAL_STATUSES
<1>3. CASE resolve_approval_request
  BY <1>1, <1>3, Resolves
<1>4. ASSUME NEW e \in Executors, start(e) \/ crash(e) \/ transaction_fails(e) \/ Running(e) PROVE db' = db
  BY <1>1, <1>4 DEF start, crash, Running, load, stop_at_budget, adapter_fails,
     persist_agent_output, dispatch_pending, validate_post_commit, execute_durable_post_commit,
     acknowledge_post_commit, checkpoint_post_commit, transaction_fails, terminate, give_up,
     Current, Owns
<1>5. QED
  BY <1>2, <1>3, <1>4 DEF Next, vars

\* A Run that has not ended is accounted for: an ended one is not loaded again.
Alive == db.status \notin TERMINAL_STATUSES => Accounted(db)

\* Every step keeps the checkpoint accounted for.
LEMMA AccountedStep ==
  ASSUME Ordered, Alive, [Next]_vars
  PROVE  Alive'
<1> SUFFICES ASSUME db'.status \notin TERMINAL_STATUSES PROVE Accounted(db')
  BY DEF Alive
<1>1. Accounted(db)
  BY StaysEnded DEF Alive
<1>2. CASE db' = db
  BY <1>1, <1>2
<1>3. CASE \/ claim_next_run \/ lease_expires \/ requeue_expired_run \/ cancel_queued_run
           \/ resolve_approval_request \/ evaluate_leased_run
  BY <1>1, <1>3, AccountedEnvironment
<1>4. ASSUME NEW e \in Executors, start(e) \/ crash(e) \/ transaction_fails(e) \/ Running(e) PROVE Accounted(db')
  <2>1. CASE \/ start(e) \/ crash(e) \/ give_up(e) \/ stop_at_budget(e) \/ adapter_fails(e)
             \/ transaction_fails(e) \/ validate_post_commit(e)
    <3>1. db' = db
      BY <2>1 DEF start, crash, give_up, stop_at_budget, adapter_fails, transaction_fails,
         validate_post_commit
    <3>2. QED
      BY <1>1, <3>1
  <2>2. ~terminate(e)
    <3> SUFFICES ASSUME terminate(e) PROVE db'.status \in TERMINAL_STATUSES
      OBVIOUS
    <3>1. db'.status \in Targets
      BY Terminates DEF Ordered, Sound
    <3>2. QED
      BY <3>1 DEF Targets, TERMINAL_STATUSES
  <2>3. QED
    BY <1>1, <1>4, <2>1, <2>2, AccountedLoad, AccountedPersist, AccountedDispatch,
       AccountedExecute, AccountedAcknowledge, AccountedCheckpoint DEF Running
<1>5. QED
  BY <1>2, <1>3, <1>4 DEF Next, vars

\* An empty Run is accounted for.
LEMMA AccountedInit == Init => Accounted(db)
<1> SUFFICES ASSUME Init PROVE Accounted(db)
  OBVIOUS
<1>1. /\ db.events = <<>> /\ db.checkpoint = NoCheckpoint /\ db \in Databases
      /\ db.approvals = [q \in Requests |-> "none"]
  BY SoundInit DEF Init, Sound, Typed
<1>2. PICK c \in Checkpoints : c = NoCheckpoint
  BY Idles
<1>3. /\ c.pending = <<>> /\ c.trajectory = <<>> /\ c.status = "active"
      /\ c.last_event_sequence = 0 /\ c.spent = {}
  BY <1>2 DEF NoCheckpoint
<1>4. steps(c) = 0 /\ tool_attempts(c) = 0
  <2>1. /\ {i \in DOMAIN c.trajectory : Assistant(c.trajectory[i])} = {}
        /\ {i \in DOMAIN c.trajectory : Tool(c.trajectory[i])} = {}
    BY <1>3
  <2>2. QED
    BY <2>1, FS_EmptySet DEF steps, tool_attempts
<1>5. LastAsked(c) = <<>> /\ Len(<<>>) = 0 /\ DOMAIN <<>> = {}
  BY <1>4 DEF LastAsked
<1>6. Planned(c)
  <2>1. InOrder(c, 1) /\ 1 \in 1 .. Len(LastAsked(c)) + 1
    BY <1>5 DEF InOrder
  <2>2. Suffix(c, 1) = <<>>
    <3>1. Suffix(c, 1) = [k \in 1 .. 0 |-> Due(c, 1 + k - 1)]
      BY <1>5 DEF Suffix
    <3>2. 1 .. 0 = {}
      OBVIOUS
    <3>3. QED
      BY <3>1, <3>2
  <2>3. \A k \in DOMAIN c.trajectory : FALSE
    BY <1>3
  <2>4. QED
    BY <1>3, <1>4, <1>5, <2>1, <2>2, <2>3 DEF Planned
<1>7. Meant(c)
  BY <1>3 DEF Meant, final_intent
<1>8. ~Open(db)
  BY <1>1, <1>2, <1>3 DEF Open
<1>9. Affordable(db)
  BY <1>1, <1>2, <1>4, <1>8, Constants DEF Affordable, Attempts
<1>10. Logged(db)
  <2>1. TurnsOf(c) = {} /\ 1 .. 0 = {} /\ Len(db.events) = 0 /\ DOMAIN db.events = {}
    BY <1>1, <1>3 DEF TurnsOf
  <2>2. QED
    BY <1>1, <1>2, <1>3, <1>4, <2>1 DEF Logged, StepsLogged, ToolsLogged, TurnsLogged
<1>11. Later(db)
  BY <1>1, <1>2, <1>3 DEF Later
<1>12. Expected(db)
  BY <1>1 DEF Expected
<1>13. Adoptable(db)
  BY <1>8 DEF Adoptable
<1>14. QED
  BY <1>1, <1>2, <1>6, <1>7, <1>9, <1>10, <1>11, <1>12, <1>13 DEF Accounted

\* The checkpoint is accounted for where the attempts of a lease are made by one call.
LEMMA AlwaysAccounted ==
  ASSUME Exclusive
  PROVE  Spec => [](Ordered /\ Alive)
<1>1. Init => Ordered /\ Alive
  BY OrderedInit, AccountedInit DEF Alive
<1>2. Ordered /\ Alive /\ [Next]_vars => (Ordered /\ Alive)'
  BY OrderedStep, AccountedStep
<1>3. QED
  BY <1>1, <1>2, PTL DEF Spec

-----------------------------------------------------------------------------
(* What the load makes of rows that are accounted for.                     *)

\* UnadoptedReplay, of any rows.
Replayed(d) ==
  /\ d.checkpoint.pending # <<>>
  /\ \E i \in Answered(d, First(d)) : d.events[i].info = "already_applied"

\* One request and one answer at most.
LEMMA OnePosition ==
  ASSUME NEW d \in Databases, StreamValid(d), NEW p
  PROVE  /\ Requested(d, p) # {} => Cardinality(Requested(d, p)) = 1
         /\ Answered(d, p) # {} => Cardinality(Answered(d, p)) = 1
<1>1. /\ \A i, j \in Requested(d, p) : i = j
      /\ \A i, j \in Answered(d, p) : i = j
  BY DEF StreamValid, Requested, Answered, Positions
<1>2. \A S : S # {} /\ (\A i, j \in S : i = j) => Cardinality(S) = 1
  <2> SUFFICES ASSUME NEW S, S # {}, \A i, j \in S : i = j PROVE Cardinality(S) = 1
    OBVIOUS
  <2>1. PICK i : S = {i}
    OBVIOUS
  <2>2. QED
    BY <2>1, FS_Singleton
<1>3. QED
  BY <1>1, <1>2

\* An answer has a request, and the attempt is one the ledger can answer for.
LEMMA AnswersAreOpen ==
  ASSUME NEW d \in Databases, Grounded(d), Durable(d), d.checkpoint.pending # <<>>,
         Requested(d, First(d)) # {} \/ Answered(d, First(d)) # {}
  PROVE  Open(d) /\ First(d) \in Pendings /\ First(d).request \in Mutations
<1>1. PICK p : p = First(d)
  OBVIOUS
<1>2. p \in Pendings
  BY <1>1, Heads, Sizes DEF First
<1>3. Requested(d, p) # {}
  <2>1. CASE Answered(d, p) # {}
    <3>1. PICK i \in Answered(d, p) : TRUE
      BY <2>1
    <3>2. /\ i \in DOMAIN d.events /\ d.events[i].type = "tool.result"
          /\ d.events[i].call = p.call /\ d.events[i].attempt = p.attempt
      BY <3>1 DEF Answered, Positions
    <3>3. Requested(d, d.events[i]) # {}
      BY <3>2 DEF Grounded, Traced
    <3>4. QED
      BY <3>2, <3>3 DEF Requested
  <2>2. QED
    BY <1>1, <2>1
<1>4. QED
  BY <1>1, <1>2, <1>3, Constants DEF Open, Durable

\* Recovery refuses nothing but a replay, and adopts every answer.
LEMMA Recovers ==
  ASSUME NEW d \in Databases, Orderly(d), Durable(d), Grounded(d), Accounted(d), ~Replayed(d)
  PROVE  /\ Recovery(d) # "refuse"
         /\ d.checkpoint.pending # <<>> /\ Recovery(d) # "adopt" =>
              Answered(d, First(d)) = {} /\ (Open(d) => Marked(d, First(d)))
<1>1. PICK p : p = First(d)
  OBVIOUS
<1>2. CASE d.checkpoint.pending = <<>>
  BY <1>2 DEF Recovery
<1>3. CASE d.checkpoint.pending # <<>> /\ Marked(d, p)
  <2>1. Recovery(d) = IF Answered(d, p) # {} THEN "adopt" ELSE "wait"
    BY <1>1, <1>3 DEF Recovery, First, recover_post_commit_attempt
  <2>2. QED
    BY <1>1, <1>3, <2>1
<1>4. CASE d.checkpoint.pending # <<>> /\ ~Marked(d, p) /\ Requested(d, p) = {} /\ Answered(d, p) = {}
  <2>1. Recovery(d) = "none"
    BY <1>1, <1>4 DEF Recovery, First, recover_committed_tool_attempt
  <2>2. ~Open(d)
    BY <1>1, <1>4 DEF Open
  <2>3. QED
    BY <1>1, <1>4, <2>1, <2>2
<1>5. CASE /\ d.checkpoint.pending # <<>> /\ ~Marked(d, p)
           /\ Requested(d, p) # {} \/ Answered(d, p) # {}
  <2>1. Open(d) /\ p \in Pendings /\ p.request \in Mutations
    BY <1>1, <1>5, AnswersAreOpen
  <2>2. /\ Requested(d, p) # {} /\ Answered(d, p) # {}
        /\ \A j \in Answered(d, p) : Truthful(d, p, j)
    BY <1>1, <1>5, <2>1 DEF Accounted, Adoptable, Open
  <2>3. Cardinality(Requested(d, p)) = 1 /\ Cardinality(Answered(d, p)) = 1 /\ StreamValid(d)
    BY <2>2, OnePosition DEF Orderly
  <2>4. PICK r : r = Recorded(d, p)
    OBVIOUS
  <2>5. r.result \in Answered(d, p) /\ r.code = d.events[r.result].info
    BY <2>1, <2>2, <2>4, RecordedIs
  <2>6. ASSUME r.code \in SUCCESSES
        PROVE  \E f \in d.effects : f.request = p.request /\ f.call = p.call /\ f.attempt = p.attempt
    <3>1. Truthful(d, p, r.result)
      BY <2>2, <2>5
    <3>2. r.code # "already_applied"
      BY <1>1, <1>5, <2>5 DEF Replayed
    <3>3. r.code # "read"
      BY <2>1, <2>5, <3>1 DEF Truthful
    <3>4. r.code = "newly_applied"
      BY <2>6, <3>2, <3>3 DEF SUCCESSES
    <3>5. Effect(p) \in d.effects
      BY <2>5, <3>1, <3>4 DEF Truthful
    <3>6. QED
      BY <3>5 DEF Effect
  <2>7. recover_committed_tool_attempt(d, p) = "adopt"
    BY <2>2, <2>3, <2>4, <2>6 DEF recover_committed_tool_attempt
  <2>8. Recovery(d) = "adopt"
    BY <1>1, <1>5, <2>1, <2>7 DEF Recovery, First
  <2>9. QED
    BY <2>8
<1>6. QED
  BY <1>2, <1>3, <1>4, <1>5

\* Nothing is left to reconcile, and what is open is marked.
Clear(d) ==
  d.checkpoint.pending # <<>> =>
    Answered(d, First(d)) = {} /\ (Open(d) => Marked(d, First(d)))

\* What the load reconciles stays accounted for.
LEMMA Reconciles ==
  ASSUME NEW d \in Databases, Orderly(d), Durable(d), Grounded(d), Accounted(d), ~Replayed(d),
         NEW l, l = Reconciled(d)
  PROVE  /\ l \in Databases /\ Orderly(l) /\ Accounted(l) /\ Traced(l) /\ Clear(l)
         /\ l.status = d.status
         /\ l.checkpoint.status = "final" => d.checkpoint.status = "final"
<1>1. CASE Recovery(d) # "adopt"
  <2>1. l = d
    BY <1>1 DEF Reconciled
  <2>2. Clear(d)
    BY <1>1, Recovers DEF Clear
  <2>3. QED
    BY <2>1, <2>2 DEF Grounded
<1>2. CASE Recovery(d) = "adopt"
  <2>1. PICK p, r : p = First(d) /\ r = Recorded(d, p)
    OBVIOUS
  <2>2. d.checkpoint.pending # <<>> /\ p \in Pendings /\ Requested(d, p) # {} /\ Answered(d, p) # {}
    BY <1>2, <2>1, Adopts DEF First
  <2>3. Found(d, p, r) /\ r \in Results
    BY <2>1, <2>2, RecordedIs DEF Found
  <2>4. l = Stored(d, d.checkpoint, r)
    BY <1>2, <2>1 DEF Reconciled, Advance, Stored, First
  <2>5. l \in Databases /\ Orderly(l) /\ ~Open(l) /\ Accounted(l)
    BY <2>1, <2>2, <2>3, <2>4, StoreOrderly, StoreAccounted
  <2>6. /\ l.events = d.events /\ l.status = d.status /\ l.effects = d.effects
        /\ l.markers = d.markers /\ l.checkpoint = checkpoint_after_tool(d, d.checkpoint, r)
    BY <2>4 DEF Stored, Databases
  <2>7. Traced(l)
    BY <2>6 DEF Grounded, Traced, Requested, Positions
  <2>8. Clear(l)
    <3>1. ASSUME l.checkpoint.pending # <<>> PROVE Answered(l, First(l)) = {}
      BY <2>5, <2>7, <3>1, Untouched
    <3>2. QED
      BY <2>5, <3>1 DEF Clear
  <2>9. l.checkpoint.status # "final"
    <3>1. d.checkpoint \in Checkpoints
      BY Sizes
    <3>2. PICK c \in Checkpoints : c = d.checkpoint
      BY <3>1
    <3>3. PICK z : z = checkpoint_after_tool(d, c, r)
      OBVIOUS
    <3>4. z.status = IF r.code \in WAITS THEN "waiting_for_approval" ELSE "active"
      BY <2>2, <2>3, <3>2, <3>3, AfterTool
    <3>5. l.checkpoint = z
      BY <2>6, <3>2, <3>3
    <3>6. QED
      BY <3>4, <3>5
  <2>10. QED
    BY <2>5, <2>6, <2>7, <2>8, <2>9
<1>3. QED
  BY <1>1, <1>2

\* A checkpoint that is accounted for passes _validate_checkpoint_semantics.
LEMMA SemanticsHold ==
  ASSUME NEW l \in Databases, Orderly(l), Accounted(l),
         l.checkpoint.status = "final" => l.status = "evaluating"
  PROVE  validate_checkpoint_semantics(l, l.checkpoint)
<1>1. PICK c \in Checkpoints : c = l.checkpoint
  BY Sizes
<1>2. steps(c) <= MaxSteps
  BY <1>1 DEF Orderly, Counted, Numbered
<1>3. tool_attempts(c) <= MaxToolCalls
  <2>1. tool_attempts(c) \in Nat /\ MaxToolCalls \in Nat
    BY Counts, Constants DEF Attempts
  <2>2. QED
    BY <1>1, <2>1 DEF Accounted, Affordable
<1>4. c.pending = ExactSuffix(c) /\ Meant(c)
  BY <1>1, PlannedExact DEF Accounted
<1>5. c.status = "final" => final_intent(c) /\ l.status = "evaluating"
  BY <1>1, <1>4 DEF Meant
<1>6. l.status = "evaluating" => c.status = "final"
  BY <1>1 DEF Orderly, Finished
<1>7. final_intent(c) /\ c.status # "final" => c.spent # {}
  BY <1>4 DEF Meant
<1>8. c.status = "waiting_for_approval" <=> c.pending # <<>> /\ Head(c.pending).approval
  BY <1>4 DEF Meant
<1>9. QED
  BY <1>1, <1>2, <1>3, <1>4, <1>5, <1>6, <1>7, <1>8 DEF validate_checkpoint_semantics

\* And _validate_checkpoint_evidence.
LEMMA EvidenceHolds ==
  ASSUME NEW l \in Databases, Accounted(l), l.checkpoint # NoCheckpoint
  PROVE  validate_checkpoint_evidence(l, l.checkpoint)
<1>1. PICK c \in Checkpoints : c = l.checkpoint
  BY Sizes
<1>2. PICK m \in 0 .. Len(l.events) : m = c.last_event_sequence /\ m # 0
  BY <1>1 DEF Accounted, Logged
<1>3. Len(l.events) \in Nat /\ DOMAIN l.events = 1 .. Len(l.events) /\ m \in DOMAIN l.events
  BY <1>2, Sizes
<1>4. StepsLogged(l) /\ ToolsLogged(l) /\ TurnsLogged(l)
  BY DEF Accounted, Logged
<1> DEFINE turns == {c.trajectory[k] : k \in {i \in DOMAIN c.trajectory : Tool(c.trajectory[i])}}
<1>5. {l.events[i].call[1] : i \in {j \in 1 .. m : l.events[j].type \in {"agent.step"}}} = 1 .. steps(c)
  <2>1. ASSUME NEW i \in 1 .. m, l.events[i].type = "agent.step"
        PROVE  l.events[i].call[1] \in 1 .. steps(c)
    BY <1>1, <1>3, <1>4, <2>1 DEF StepsLogged
  <2>2. ASSUME NEW n \in 1 .. steps(c)
        PROVE  \E i \in 1 .. m : l.events[i].type = "agent.step" /\ l.events[i].call[1] = n
    <3>1. PICK i \in DOMAIN l.events : l.events[i].type = "agent.step" /\ l.events[i].call[1] = n
      BY <1>1, <1>4 DEF StepsLogged
    <3>2. i <= c.last_event_sequence
      BY <1>1, <1>4, <3>1 DEF StepsLogged
    <3>3. i \in 1 .. m
      BY <1>2, <1>3, <3>2
    <3>4. QED
      BY <3>1, <3>3
  <2>3. QED
    BY <2>1, <2>2
<1>6. \A t \in turns : Shows(l, t, m)
  BY <1>1, <1>2, <1>4 DEF TurnsLogged, TurnsOf
<1>7. {j \in 1 .. m : l.events[j].type \in {"tool.requested", "tool.result"}}
        = UNION {{t.request, t.result} : t \in turns}
  <2>1. ASSUME NEW i \in 1 .. m, l.events[i].type \in {"tool.requested", "tool.result"}
        PROVE  \E t \in turns : i \in {t.request, t.result}
    <3>1. PICK k \in TurnsOf(c) : i \in {c.trajectory[k].request, c.trajectory[k].result}
      BY <1>1, <1>2, <1>4, <2>1 DEF ToolsLogged
    <3>2. c.trajectory[k] \in turns
      BY <3>1 DEF TurnsOf
    <3>3. QED
      BY <3>1, <3>2
  <2>2. ASSUME NEW t \in turns, NEW i \in {t.request, t.result}
        PROVE  i \in 1 .. m /\ l.events[i].type \in {"tool.requested", "tool.result"}
    BY <1>6, <2>2 DEF Shows
  <2> HIDE DEF turns
  <2>3. QED
    BY <2>1, <2>2
<1>8. \A t \in turns : /\ t.request < t.result /\ l.events[t.result].info = t.code
                       /\ l.events[t.request].call = t.call /\ l.events[t.result].call = t.call
  BY <1>6 DEF Shows
<1>9. QED
  BY <1>1, <1>2, <1>3, <1>5, <1>7, <1>8 DEF validate_checkpoint_evidence

\* And _validate_evidence_after_checkpoint.
LEMMA LaterHolds ==
  ASSUME NEW l \in Databases, Accounted(l), Traced(l), Clear(l)
  PROVE  validate_evidence_after_checkpoint(l, l.checkpoint)
<1>1. PICK c, m : c = l.checkpoint /\ m = c.last_event_sequence
  OBVIOUS
<1>2. Len(l.events) \in Nat /\ DOMAIN l.events = 1 .. Len(l.events) /\ m \in 0 .. Len(l.events)
  BY <1>1, Sizes DEF Accounted, Logged
<1>3. ASSUME NEW i \in m + 1 .. Len(l.events), NEW e, e = l.events[i]
      PROVE  \/ e.type = "run.lifecycle"
             \/ /\ e.type = "approval.resolved" /\ c.pending # <<>>
                /\ Head(c.pending).approval /\ Head(c.pending).request = e.info
             \/ /\ e.type \in {"tool.requested", "state.evidence_recorded"} /\ c.pending # <<>>
                /\ e.call = Head(c.pending).call /\ e.attempt = Head(c.pending).attempt
                /\ Marked(l, Head(c.pending))
  <2>1. Belongs(l, e) /\ i \in DOMAIN l.events
    BY <1>1, <1>2, <1>3 DEF Accounted, Later
  <2>2. PICK p : p = First(l) /\ p = Head(c.pending)
    BY <1>1 DEF First
  <2>3. CASE e.type = "approval.resolved" /\ Asking(l) /\ First(l).request = e.info
    BY <1>1, <2>2, <2>3 DEF Asking, Clear
  <2>4. CASE /\ e.type = "approval.requested"
             /\ l.checkpoint.pending # <<>> /\ Answered(l, First(l)) # {}
    BY <2>4 DEF Clear
  <2>5. CASE /\ e.type \in ToolTypes /\ l.checkpoint.pending # <<>>
             /\ e.call = First(l).call /\ e.attempt = First(l).attempt
    <3>1. e.type # "tool.result"
      <4> SUFFICES ASSUME e.type = "tool.result" PROVE FALSE
        OBVIOUS
      <4>1. i \in Answered(l, p)
        BY <1>3, <2>1, <2>2, <2>5 DEF Answered, Positions
      <4>2. QED
        BY <2>2, <2>5, <4>1 DEF Clear
    <3>2. Requested(l, p) # {}
      <4>1. CASE e.type = "tool.requested"
        BY <1>3, <2>1, <2>2, <2>5, <4>1 DEF Requested, Positions
      <4>2. CASE e.type = "state.evidence_recorded"
        <5>1. Requested(l, e) # {}
          BY <1>3, <2>1, <4>2 DEF Traced
        <5>2. QED
          BY <2>2, <2>5, <5>1 DEF Requested
      <4>3. QED
        BY <2>5, <3>1, <4>1, <4>2 DEF ToolTypes
    <3>3. Marked(l, p)
      BY <2>2, <2>5, <3>2 DEF Clear, Open
    <3>4. QED
      BY <1>1, <2>2, <2>5, <3>1, <3>3 DEF ToolTypes
  <2>6. QED
    BY <2>1, <2>3, <2>4, <2>5 DEF Belongs
<1>4. QED
  BY <1>1, <1>3 DEF validate_evidence_after_checkpoint

\* Whatever was interrupted, the next holder of a lease can load the Run.
THEOREM Resumes ==
  ASSUME Exclusive
  PROVE  Spec => []Resumable
<1>1. ASSUME Ordered, Alive PROVE Resumable
  <2> SUFFICES ASSUME Leased, ~RestartedFinal, ~UnadoptedReplay PROVE Loads(db)
    BY DEF Resumable
  <2>0. Accounted(db)
    BY <1>1 DEF Alive, Leased, TERMINAL_STATUSES, Ordered, Sound, Leases
  <2>1. PICK z : z = Entered(db)
    OBVIOUS
  <2>2. /\ z \in Databases /\ Orderly(z) /\ Durable(z) /\ Accounted(z) /\ Quiet(db, z)
        /\ Enters(z) /\ db \in Databases /\ Grounded(db)
    BY <1>1, <2>0, <2>1, AccountedEntered DEF Ordered, Sound, Typed
  <2>3. db.status \in {"provisioning", "running", "evaluating"}
    <3>1. db.status \in Statuses /\ (db.lease = "none" <=> db.status \in TERMINAL_STATUSES \cup {"queued"})
      BY <1>1, <2>2 DEF Ordered, Sound, Leases, Databases
    <3>2. QED
      BY <3>1 DEF Leased, Statuses
  <2>4. z.status = IF db.status = "provisioning" THEN "running" ELSE db.status
    BY <2>2 DEF Enters
  <2>5. Grounded(z) /\ z.checkpoint = db.checkpoint
    BY <2>2, CalmGrounded DEF Quiet
  <2>6. ~Replayed(db) /\ ~Replayed(z)
    <3>1. ~Replayed(db)
      BY DEF UnadoptedReplay, Replayed, First
    <3>2. First(z) = First(db) /\ Answered(z, First(z)) = Answered(db, First(db))
          /\ \A i \in Answered(db, First(db)) : z.events[i] = db.events[i]
      BY <2>2, <2>5, CalmSame DEF First, Quiet
    <3>3. QED
      BY <2>5, <3>1, <3>2 DEF Replayed
  <2>7. PICK l : l = Reconciled(z)
    OBVIOUS
  <2>8. /\ l \in Databases /\ Orderly(l) /\ Accounted(l) /\ Traced(l) /\ Clear(l)
        /\ l.status = z.status
        /\ l.checkpoint.status = "final" => db.checkpoint.status = "final"
    BY <2>2, <2>5, <2>6, <2>7, Reconciles
  <2>9. l.checkpoint.status = "final" <=> l.status = "evaluating"
    <3>1. l.checkpoint.status = "final" => l.status = "evaluating"
      BY <2>3, <2>4, <2>8 DEF RestartedFinal
    <3>2. l.status = "evaluating" => l.checkpoint.status = "final"
      BY <2>8 DEF Orderly, Finished
    <3>3. QED
      BY <3>1, <3>2
  <2>10. validate_checkpoint_semantics(l, l.checkpoint)
    BY <2>8, <2>9, SemanticsHold
  <2>11. l.checkpoint # NoCheckpoint => validate_checkpoint_evidence(l, l.checkpoint)
    BY <2>8, EvidenceHolds
  <2>12. validate_evidence_after_checkpoint(l, l.checkpoint)
    BY <2>8, LaterHolds
  <2>13. Recovery(db) # "refuse"
    BY <1>1, <2>0, <2>2, <2>6, Recovers DEF Ordered
  <2>14. l = load_state(db)
    BY <2>1, <2>7 DEF load_state
  <2>15. QED
    BY <2>9, <2>10, <2>11, <2>12, <2>13, <2>14 DEF Loads
<1>2. Spec => [](Ordered /\ Alive)
  BY AlwaysAccounted
<1>3. QED
  BY <1>1, <1>2, PTL
=============================================================================
