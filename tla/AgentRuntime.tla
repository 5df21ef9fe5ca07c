---------------------------- MODULE AgentRuntime ----------------------------
(***************************************************************************)
(* execute_run of the agent runtime (runtime.py) for one Run, with the     *)
(* part of the tool gateway it drives (gateway.py): load and validate the  *)
(* durable checkpoint, ask the adapter, persist its output, dispatch the   *)
(* requested tools, stop at a budget, an approval or a final answer.       *)
(*                                                                         *)
(* One action is one database transaction of one execute_run call.         *)
(* Between two of them the lease may expire, the Run may be requeued and   *)
(* claimed again, an operator may resolve an approval, other calls of      *)
(* execute_run may run, and the process may die with all it had in memory. *)
(* A tool the fault plan may answer after its commit is dispatched in      *)
(* three transactions (validation, effect and marker, acknowledgement)     *)
(* before the one that stores the checkpoint.                              *)
(*                                                                         *)
(* Lease tokens and coordination versions are RunLifecycle's, amounts and  *)
(* company rows EffectLedger's: here a lease is its attempt number, and    *)
(* the ledger says which request was applied by which physical attempt.    *)
(***************************************************************************)
EXTENDS Naturals, Sequences, FiniteSets, SequencesExt

CONSTANTS
  Executors,     \* calls of execute_run that may be in flight
  Requests,      \* tool requests an agent may ask for, a tool and its arguments
  Turns,         \* the sequences of requests an agent may ask for in one step
  Mutations,     \* requests of mutation tools
  Key,           \* mutation -> its idempotency key
  Policy,        \* request -> decision of the frozen policy
  AfterCommit,   \* mutations whose tool has an after_commit rule in the plan
  Overruns,      \* budgets an output may exceed: "cost", "wall"
  MaxSteps,      \* Scenario budget max_steps
  MaxToolCalls,  \* Scenario budget max_tool_calls
  MaxPerLease,   \* execute_run calls a worker makes at a time with one lease
  MaxClaims      \* bound: claims of the Run

ASSUME RuntimeAssumption ==
  /\ Turns \subseteq Seq(Requests) /\ AfterCommit \subseteq Mutations
  /\ Mutations \subseteq Requests /\ DOMAIN Key = Mutations
  /\ Policy \in [Requests -> {"allow", "deny", "require_approval"}]
  /\ \A q \in Requests \ Mutations : Policy[q] # "require_approval"
  /\ Overruns \subseteq {"cost", "wall"}
  /\ {MaxSteps, MaxToolCalls, MaxPerLease, MaxClaims} \subseteq Nat \ {0}
  /\ IsFiniteSet(Executors)

VARIABLES
  db,    \* the committed rows of the Run
  exec   \* what each execute_run call holds in memory

vars == <<db, exec>>

-----------------------------------------------------------------------------
(* Evidence and checkpoint.                                                *)

TERMINAL_STATUSES == {"completed", "failed", "timed_out", "cancelled", "infra_error"}

\* A logical call is <<step, call_index>>; <<0, 0>> where an event has none.
NoCall == <<0, 0>>

Event(type, call, attempt, info) ==
  [type |-> type, call |-> call, attempt |-> attempt, info |-> info, slow |-> FALSE]

\* Result codes the runtime tells apart.
WAITS == {"approval_required", "approval_pending"}
SUCCESSES == {"read", "newly_applied", "already_applied"}

Add(d, e) == [d EXCEPT !.events = Append(@, e)]

Move(d, status) ==
  Add([d EXCEPT !.status = status], Event("run.lifecycle", NoCall, 0, status))

\* Mutant: the Run ends, its lease columns stay.
Ended_KeepsLease(d, status) == Move(d, status)

\* The Run in a status without a lease.
Ended(d, status) == [Move(d, status) EXCEPT !.lease = "none"]

\* Positions, that is sequence numbers, of the events of one type and attempt.
Positions(d, type, call, attempt) ==
  {i \in DOMAIN d.events : /\ d.events[i].type = type
                           /\ d.events[i].call = call /\ d.events[i].attempt = attempt}

Assistant(turn) == turn.kind = "assistant"
Tool(turn) == turn.kind = "tool"
steps(c) == Cardinality({i \in DOMAIN c.trajectory : Assistant(c.trajectory[i])})
tool_attempts(c) == Cardinality({i \in DOMAIN c.trajectory : Tool(c.trajectory[i])})

\* Stands for "no checkpoint yet", as the first step sees it.
NoCheckpoint == [version |-> 0, last_event_sequence |-> 0, trajectory |-> <<>>,
                 pending |-> <<>>, status |-> "active", spent |-> {}]

\* What execute_run holds: the lease it was given, the checkpoint it loaded,
\* the pending tool result it still has to store, the status to stop with.
Idle == [pc |-> "idle", lease |-> 0, checkpoint |-> NoCheckpoint, result |-> {}, target |-> ""]

Init ==
  /\ db = [status |-> "queued", attempt |-> 0, lease |-> "none", events |-> <<>>,
           checkpoint |-> NoCheckpoint, effects |-> {}, markers |-> {},
           approvals |-> [q \in Requests |-> "none"]]
  /\ exec = [e \in Executors |-> Idle]

-----------------------------------------------------------------------------
(* Leases, as the runtime sees them.                                       *)

\* Mutant: any live lease of the Run will do, its attempt is not compared.
Holds_AnyAttempt(d, e) ==
  /\ d.lease = "live"
  /\ d.status \in {"provisioning", "running", "evaluating"}

\* lock_current_lease succeeds.
Holds(d, e) ==
  /\ d.lease = "live" /\ d.attempt = exec[e].lease
  /\ d.status \in {"provisioning", "running", "evaluating"}

\* Mutant: the lease proved by the load is trusted by the later transactions.
Owns_Trusted(e) == exec[e].lease # 0

Owns(e) == Holds(db, e) /\ db.status = "running"

\* Mutant: the checkpoint's version is not compared before an agent output is stored.
Current_Any(e) == Owns(e)

\* The guard of every transaction that stores progress: lease, status, CAS.
Current(e) == Owns(e) /\ db.checkpoint.version = exec[e].checkpoint.version

Return(e) == exec' = [exec EXCEPT ![e] = Idle]
Goto(e, pc) == exec' = [exec EXCEPT ![e].pc = pc]
Stop(e, target) == exec' = [exec EXCEPT ![e].pc = "terminating", ![e].target = target]
\* As Stop, after an adapter's failure: its step is put into evidence first.
Fail(e, target) == exec' = [exec EXCEPT ![e].pc = "failing", ![e].target = target]

\* Every other session and the passing of time.
claim_next_run ==
  /\ db.status = "queued" /\ db.attempt < MaxClaims
  /\ db' = [Move(db, "provisioning") EXCEPT !.attempt = @ + 1, !.lease = "live"]
  /\ UNCHANGED exec

lease_expires ==
  /\ db.lease = "live"
  /\ db' = [db EXCEPT !.lease = "expired"]
  /\ UNCHANGED exec

requeue_expired_run ==
  /\ db.lease = "expired"
  /\ db' = Ended(db, "queued")
  /\ UNCHANGED exec

\* An operator cancels a Run that nobody holds, checkpoint or not.
cancel_queued_run ==
  /\ db.status = "queued"
  /\ db' = Move(db, "cancelled")
  /\ UNCHANGED exec

\* An operator answers a pending approval, whatever the Run is doing.
resolve_approval_request ==
  \E q \in Requests, answer \in {"approved", "denied"} :
    /\ db.approvals[q] = "pending"
    /\ db' = Add([db EXCEPT !.approvals[q] = answer], Event("approval.resolved", NoCall, 0, q))
    /\ UNCHANGED exec

\* The evaluator ends an evaluating Run, with a verdict or with its failure.
evaluate_leased_run ==
  /\ db.status = "evaluating" /\ db.lease = "live"
  /\ \E status \in {"completed", "infra_error"} :
       db' = Ended(db, status)
  /\ UNCHANGED exec

-----------------------------------------------------------------------------
(* The checkpoint after a tool attempt.                                    *)

\* Mutant: the retry of a request that waited reuses its attempt number.
retried_SameAttempt(p) == [p EXCEPT !.approval = TRUE]

\* The pending call that waits for its approval, at its next physical attempt.
retried(p) == [p EXCEPT !.attempt = @ + 1, !.approval = TRUE]

checkpoint_after_tool(d, c, r) ==
  LET p == Head(c.pending)
      turn == [kind |-> "tool", call |-> p.call, attempt |-> p.attempt, code |-> r.code,
               request |-> r.request, result |-> r.result]
      waits == r.code \in WAITS
  IN [c EXCEPT
        !.version = @ + 1,
        !.last_event_sequence = Len(d.events),
        !.trajectory = Append(@, turn),
        !.pending = IF waits THEN <<retried(p)>> \o Tail(@) ELSE Tail(@),
        !.status = IF waits THEN "waiting_for_approval" ELSE "active",
        !.spent = IF r.slow THEN @ \cup {"wall"} ELSE @]

Advance(d, r) == [d EXCEPT !.checkpoint = checkpoint_after_tool(d, @, r)]

-----------------------------------------------------------------------------
(* Loading: reconcile what an earlier worker committed, then validate the  *)
(* checkpoint against the evidence.  The whole transaction rolls back and  *)
(* the call returns run_not_ready when any of it fails.                    *)

Marked(d, p) == [call |-> p.call, attempt |-> p.attempt] \in d.markers

\* A tool attempt that is in evidence and not in the checkpoint.
Requested(d, p) == Positions(d, "tool.requested", p.call, p.attempt)
Answered(d, p) == Positions(d, "tool.result", p.call, p.attempt)

Recorded(d, p) ==
  LET i == CHOOSE k \in Requested(d, p) : TRUE
      j == CHOOSE k \in Answered(d, p) : TRUE
  IN [code |-> d.events[j].info, slow |-> d.events[j].slow, request |-> i, result |-> j]

\* validate_run_event_stream_v0: one request and one result per physical attempt.
StreamValid(d) ==
  \A i, j \in DOMAIN d.events :
    /\ d.events[i].type \in {"tool.requested", "tool.result"}
    /\ <<d.events[i].type, d.events[i].call, d.events[i].attempt>>
         = <<d.events[j].type, d.events[j].call, d.events[j].attempt>>
    => i = j

\* What recovery finds for the first pending call: nothing to do, a result to
\* adopt, or evidence it does not accept.
recover_post_commit_attempt(d, p) ==
  IF Answered(d, p) # {} THEN "adopt" ELSE "wait"

recover_committed_tool_attempt(d, p) ==
  IF Requested(d, p) = {} /\ Answered(d, p) = {} THEN "none"
  ELSE IF /\ Cardinality(Requested(d, p)) = 1 /\ Cardinality(Answered(d, p)) = 1
          /\ StreamValid(d)
          /\ Recorded(d, p).code \in SUCCESSES =>
               \E f \in d.effects : /\ f.request = p.request
                                    /\ f.call = p.call /\ f.attempt = p.attempt
       THEN "adopt"
       ELSE "refuse"

Recovery(d) ==
  IF d.checkpoint.pending = <<>> THEN "none"
  ELSE LET p == Head(d.checkpoint.pending)
       IN CASE Marked(d, p) -> recover_post_commit_attempt(d, p)
            [] ~Marked(d, p) /\ p.request \in Mutations -> recover_committed_tool_attempt(d, p)
            [] OTHER -> "none"

\* The pending calls the trajectory itself implies.
ExactSuffix(c) ==
  LET step == steps(c)
      asked == IF step = 0 THEN <<>>
               ELSE c.trajectory[Max({i \in DOMAIN c.trajectory : Assistant(c.trajectory[i])})].calls
      mine(i) == {k \in DOMAIN c.trajectory :
                    Tool(c.trajectory[k]) /\ c.trajectory[k].call = <<step, i>>}
      done(i) == \E k \in mine(i) : c.trajectory[k].code \notin WAITS
      first == Cardinality({i \in DOMAIN asked : done(i)}) + 1
  IN [k \in 1 .. Len(asked) - first + 1 |->
        LET i == first + k - 1
        IN [call |-> <<step, i>>, request |-> asked[i],
            attempt |-> Cardinality(mine(i)) + 1, approval |-> mine(i) # {}]]

final_intent(c) ==
  c.trajectory # <<>> /\ Last(c.trajectory).kind = "assistant" /\ Last(c.trajectory).final

validate_checkpoint_semantics(d, c) ==
  /\ steps(c) <= MaxSteps /\ tool_attempts(c) <= MaxToolCalls
  /\ c.pending = ExactSuffix(c)
  /\ c.status = "final" => final_intent(c) /\ d.status = "evaluating"
  /\ d.status = "evaluating" => c.status = "final"
  /\ final_intent(c) /\ c.status # "final" => c.spent # {}
  /\ c.status = "waiting_for_approval" <=> c.pending # <<>> /\ Head(c.pending).approval

\* Every agent step and every tool attempt up to the boundary is in the
\* trajectory, and the other way round.
validate_checkpoint_evidence(d, c) ==
  LET upto(types) == {i \in 1 .. c.last_event_sequence : d.events[i].type \in types}
      turns == {c.trajectory[k] : k \in {i \in DOMAIN c.trajectory : Tool(c.trajectory[i])}}
  IN /\ c.last_event_sequence \in DOMAIN d.events
     /\ {d.events[i].call[1] : i \in upto({"agent.step"})} = 1 .. steps(c)
     /\ upto({"tool.requested", "tool.result"}) = UNION {{t.request, t.result} : t \in turns}
     /\ \A t \in turns : /\ t.request < t.result
                         /\ d.events[t.result].info = t.code
                         /\ d.events[t.request].call = t.call /\ d.events[t.result].call = t.call

\* After it only lifecycle events, the answer to the approval the checkpoint
\* waits for, and what a marker still waiting for its acknowledgement announced.
validate_evidence_after_checkpoint(d, c) ==
  \A i \in c.last_event_sequence + 1 .. Len(d.events) :
    LET e == d.events[i]
    IN \/ e.type = "run.lifecycle"
       \/ /\ e.type = "approval.resolved" /\ c.pending # <<>>
          /\ Head(c.pending).approval /\ Head(c.pending).request = e.info
       \/ /\ e.type \in {"tool.requested", "state.evidence_recorded"} /\ c.pending # <<>>
          /\ e.call = Head(c.pending).call /\ e.attempt = Head(c.pending).attempt
          /\ Marked(d, Head(c.pending))

\* Mutant: a Run that starts over from provisioning forgets its progress.
Entered_Afresh(d) ==
  IF d.status = "provisioning" THEN [Move(d, "running") EXCEPT !.checkpoint = NoCheckpoint]
  ELSE d

\* The Run as the load sees it: running, and its checkpoint reconciled.
Entered(d) == IF d.status = "provisioning" THEN Move(d, "running") ELSE d

Reconciled(d) ==
  IF Recovery(d) = "adopt" THEN Advance(d, Recorded(d, Head(d.checkpoint.pending))) ELSE d

load_state(d) == Reconciled(Entered(d))

Loads(d) ==
  LET l == load_state(d)
      c == l.checkpoint
  IN /\ Recovery(d) # "refuse"
     /\ c # NoCheckpoint =>
          /\ validate_checkpoint_semantics(l, c)
          /\ validate_checkpoint_evidence(l, c)
          /\ validate_evidence_after_checkpoint(l, c)
     /\ c.status = "final" <=> l.status = "evaluating"

-----------------------------------------------------------------------------
(* execute_run.                                                            *)

\* Called with the lease of the latest claim; a worker runs MaxPerLease calls.
start(e) ==
  /\ exec[e].pc = "idle" /\ db.lease = "live"
  /\ Cardinality({o \in Executors : exec[o].pc # "idle" /\ exec[o].lease = db.attempt})
       < MaxPerLease
  /\ exec' = [exec EXCEPT ![e] = [Idle EXCEPT !.pc = "loading", !.lease = db.attempt]]
  /\ UNCHANGED db

\* An evaluating Run is ready already; a refused load changes nothing.
load(e) ==
  /\ exec[e].pc = "loading" /\ Holds(db, e)
  /\ IF ~Loads(db) THEN UNCHANGED db /\ Return(e)
     ELSE /\ db' = load_state(db)
          /\ IF db'.status = "evaluating" THEN Return(e)
             ELSE exec' = [exec EXCEPT ![e].pc = "ready", ![e].checkpoint = db'.checkpoint]

\* Mutant: only the limit itself is refused, so one attempt too many is made.
tools_spent_OffByOne(c) == tool_attempts(c) > MaxToolCalls

tools_spent(c) == tool_attempts(c) >= MaxToolCalls

steps_spent(c) == steps(c) >= MaxSteps

overrun(c) == c.spent # {}

\* Budgets are checked before a tool (attempts and wall time) and before a step.
stop_at_budget(e) ==
  LET c == exec[e].checkpoint
  IN /\ exec[e].pc = "ready"
     /\ IF c.pending # <<>> THEN tools_spent(c) \/ "wall" \in c.spent
                            ELSE steps_spent(c) \/ overrun(c)
     /\ Stop(e, "timed_out")
     /\ UNCHANGED db

MayAsk(e) ==
  LET c == exec[e].checkpoint
  IN exec[e].pc = "ready" /\ c.pending = <<>> /\ ~steps_spent(c) /\ ~overrun(c)

MayDispatch(e) ==
  LET c == exec[e].checkpoint
  IN exec[e].pc = "ready" /\ c.pending # <<>> /\ ~tools_spent(c) /\ "wall" \notin c.spent

\* The adapter times out, fails, or answers something invalid; or what it
\* answered cannot be stored, and that transaction rolled back.
adapter_fails(e) ==
  /\ MayAsk(e)
  /\ \E target \in {"failed", "timed_out", "infra_error"} : Fail(e, target)
  /\ UNCHANGED db

\* Mutant: a final answer is judged by what was spent before it.
within_budgets_Before(c, spends) == c.spent = {}

within_budgets(c, spends) == c.spent \cup spends = {}

\* The adapter answered long after the state it was shown was loaded.
persist_agent_output(e) ==
  LET c == exec[e].checkpoint
      step == steps(c) + 1
  IN /\ MayAsk(e) /\ Current(e)
     /\ \E calls \in Turns, final \in BOOLEAN, spends \in SUBSET Overruns :
          LET asked == [i \in DOMAIN calls |-> [call |-> <<step, i>>, request |-> calls[i],
                                                attempt |-> 1, approval |-> FALSE]]
              ready == final /\ within_budgets(c, spends)
              stepped == Add(db, Event("agent.step", <<step, 0>>, 0, "completed"))
              stored == [stepped EXCEPT !.checkpoint =
                [version |-> c.version + 1, last_event_sequence |-> Len(stepped.events),
                 trajectory |-> Append(c.trajectory, [kind |-> "assistant", calls |-> calls,
                                                      final |-> final]),
                 pending |-> asked, status |-> IF ready THEN "final" ELSE "active",
                 spent |-> c.spent \cup spends]]
          IN /\ final => calls = <<>>
             /\ db' = IF ready THEN Move(stored, "evaluating") ELSE stored
             /\ IF overrun(stored.checkpoint) THEN Stop(e, "timed_out")
                ELSE IF ready THEN Return(e)
                ELSE exec' = [exec EXCEPT ![e].checkpoint = stored.checkpoint]

-----------------------------------------------------------------------------
(* The gateway: one physical attempt of one pending call.  Each operator   *)
(* yields the possible outcomes, the rows and the result handed back.      *)

\* A request that leaves no evidence, its savepoint rolled back.
Rejected(d) == [db |-> d, result |-> {}]

\* The attempt's result, with the sequence numbers of its two events.
Answer(d, p, code, slow) ==
  LET answered == Add(d, [Event("tool.result", p.call, p.attempt, code) EXCEPT !.slow = slow])
  IN [db |-> answered,
      result |-> {[code |-> code, slow |-> slow, result |-> Len(answered.events),
                   request |-> CHOOSE i \in Requested(d, p) :
                                 \A j \in Requested(d, p) : j <= i]}]

StateEvidence(d, p) == Add(d, Event("state.evidence_recorded", p.call, p.attempt, p.request))

Opened(d, p) == Add(d, Event("tool.requested", p.call, p.attempt, p.request))

\* Mutant: any resolution of the approval lets the request through.
gate_AnyResolution(d, p) ==
  CASE Policy[p.request] = "deny" -> "policy_denied"
    [] Policy[p.request] = "require_approval" /\ d.approvals[p.request] = "none" -> "approval_required"
    [] Policy[p.request] = "require_approval" /\ d.approvals[p.request] = "pending" -> "approval_pending"
    [] OTHER -> "pass"

\* The frozen policy and, where it asks for one, the approval of this request.
gate(d, p) ==
  CASE Policy[p.request] = "deny" -> "policy_denied"
    [] Policy[p.request] = "require_approval" /\ d.approvals[p.request] = "none" -> "approval_required"
    [] Policy[p.request] = "require_approval" /\ d.approvals[p.request] = "pending" -> "approval_pending"
    [] Policy[p.request] = "require_approval" /\ d.approvals[p.request] = "denied" -> "approval_denied"
    [] OTHER -> "pass"

\* A request that waits for the first time opens its approval.
Gated(d, p) ==
  IF gate(d, p) = "approval_required"
  THEN Add([d EXCEPT !.approvals[p.request] = "pending"],
           Event("approval.requested", p.call, p.attempt, p.request))
  ELSE d

\* Mutant: the ledger is searched by request, not by idempotency key.
Existing_SameRequest(d, q) == {f \in d.effects : f.request = q}

\* The ledger entry under the idempotency key of a mutation.
Existing(d, q) == {f \in d.effects : Key[f.request] = Key[q]}

Applied(d, p) ==
  [d EXCEPT !.effects = @ \cup {[request |-> p.request, call |-> p.call, attempt |-> p.attempt]}]

\* What an authorised attempt can come to: a fault, a missing entity or a
\* business rule fails it, a handler breaks, or it reads or mutates.
Performed(d, p, slow) ==
  {Answer(d, p, "failed", slow), Answer(d, p, "infrastructure_error", slow)}
  \cup IF p.request \notin Mutations THEN {Answer(d, p, "read", slow)}
       ELSE IF Existing(d, p.request) = {} THEN
         LET answer == Answer(Applied(d, p), p, "newly_applied", slow)
         IN {[answer EXCEPT !.db = StateEvidence(@, p)]}
       ELSE IF \E f \in Existing(d, p.request) : f.request = p.request
         THEN {Answer(d, p, "already_applied", slow)}
       ELSE {}

\* A new effect the plan answers after its commit: evidence and a marker, no result.
Ambiguous(d, p) ==
  IF p.request \in AfterCommit /\ Existing(d, p.request) = {}
  THEN {[db |-> [StateEvidence(Applied(d, p), p) EXCEPT
                   !.markers = @ \cup {[call |-> p.call, attempt |-> p.attempt]}],
         result |-> {}]}
  ELSE {}

\* May an attempt's duration use up the wall budget?
Slow == IF "wall" \in Overruns THEN BOOLEAN ELSE {FALSE}

\* Faults are selected from the Run's history, which has to be coherent.
execute(d, p) ==
  LET opened == Opened(d, p)
  IN UNION {
       IF gate(d, p) # "pass" THEN {Answer(Gated(opened, p), p, gate(d, p), slow)}
       ELSE IF ~StreamValid(opened) THEN {Rejected(d)}
       ELSE Performed(opened, p, slow) \cup Ambiguous(opened, p)
       : slow \in Slow}

-----------------------------------------------------------------------------
(* Dispatch of the first pending call.                                     *)

Broken(o) == o.result = {} \/ \E r \in o.result : r.code = "infrastructure_error"

\* The evidence of an attempt and the checkpoint that follows from it.
store(e, d, r) ==
  /\ db' = [d EXCEPT !.checkpoint = checkpoint_after_tool(d, exec[e].checkpoint, r)]
  /\ IF r.code \in WAITS THEN Return(e)
     ELSE exec' = [exec EXCEPT ![e] = [Idle EXCEPT !.pc = "loading", !.lease = exec[e].lease]]

\* Gateway and checkpoint in one transaction; a failure rolls both back.
dispatch_pending(e) ==
  LET p == Head(exec[e].checkpoint.pending)
  IN /\ MayDispatch(e) /\ p.request \notin AfterCommit /\ Current(e)
     /\ \E o \in execute(db, p) :
          IF Broken(o) THEN Stop(e, "infra_error") /\ UNCHANGED db
          ELSE \E r \in o.result : store(e, o.db, r)

\* The transaction that only proves lease, status and checkpoint version.
validate_post_commit(e) ==
  /\ MayDispatch(e) /\ Head(exec[e].checkpoint.pending).request \in AfterCommit /\ Current(e)
  /\ Goto(e, "effect")
  /\ UNCHANGED db

\* The Run-wide advisory lock covers the effect and its acknowledgement.
AdvisoryLockFree(e) == \A o \in Executors \ {e} : exec[o].pc # "acknowledge"

\* The effect transaction.  An attempt with a marker is not executed again.
execute_durable_post_commit(e) ==
  LET p == Head(exec[e].checkpoint.pending)
      done(r) == exec' = [exec EXCEPT ![e].pc = "checkpoint", ![e].result = {r}]
  IN /\ exec[e].pc = "effect" /\ Owns(e) /\ AdvisoryLockFree(e)
     /\ IF Marked(db, p)
        THEN /\ UNCHANGED db
             /\ IF Answered(db, p) = {} THEN Goto(e, "acknowledge") ELSE done(Recorded(db, p))
        ELSE \E o \in execute(db, p) :
               /\ db' = o.db
               /\ IF o.db.markers # db.markers THEN Goto(e, "acknowledge")
                  ELSE IF Broken(o) THEN Stop(e, "infra_error")
                  ELSE \E r \in o.result : done(r)

\* The acknowledgement transaction: fault evidence and the ambiguous result.
acknowledge_post_commit(e) ==
  LET p == Head(exec[e].checkpoint.pending)
  IN /\ exec[e].pc = "acknowledge" /\ Owns(e)
     /\ \E slow \in Slow :
          db' = IF Answered(db, p) = {} THEN Answer(db, p, "fault_timeout", slow).db ELSE db
     /\ exec' = [exec EXCEPT ![e].pc = "checkpoint", ![e].result = {Recorded(db', p)}]

checkpoint_post_commit(e) ==
  /\ exec[e].pc = "checkpoint" /\ Current(e)
  /\ \E r \in exec[e].result : store(e, db, r)

\* A dispatch transaction fails for want of infrastructure and is rolled back.
\* (Where the load or the termination fails so, the call just returns: crash.)
transaction_fails(e) ==
  /\ MayDispatch(e) \/ exec[e].pc \in {"effect", "acknowledge", "checkpoint"}
  /\ Stop(e, "infra_error")
  /\ UNCHANGED db

\* Mutant: the failed step is numbered from the checkpoint the call had loaded.
failed_step_Loaded(e) == steps(exec[e].checkpoint) + 1

\* The failed step's number is the next one of the checkpoint stored by now.
failed_step(e) == steps(db.checkpoint) + 1

\* The failed step where an adapter failed, run.error and the terminal status;
\* it looks at the lease, not at the version of the checkpoint.
terminate(e) ==
  LET stepped == IF exec[e].pc = "failing"
                 THEN Add(db, Event("agent.step", <<failed_step(e), 0>>, 0, "failed")) ELSE db
      target == exec[e].target
  IN /\ exec[e].pc \in {"terminating", "failing"} /\ Owns(e)
     /\ db' = Ended(Add(stepped, Event("run.error", NoCall, 0, target)), target)
     /\ Return(e)

\* Mutant: a checkpoint conflict is not answered by returning.
give_up_NoConflict(e) ==
  /\ \/ exec[e].pc = "loading" /\ ~Holds(db, e)
     \/ exec[e].pc \in {"effect", "acknowledge", "checkpoint", "terminating", "failing"} /\ ~Owns(e)
     \/ (MayAsk(e) \/ MayDispatch(e)) /\ ~Owns(e)
  /\ Return(e)
  /\ UNCHANGED db

\* Any transaction that finds its guard false returns stale_lease, writing nothing.
give_up(e) ==
  /\ \/ exec[e].pc = "loading" /\ ~Holds(db, e)
     \/ exec[e].pc \in {"effect", "acknowledge", "terminating", "failing"} /\ ~Owns(e)
     \/ exec[e].pc = "checkpoint" /\ ~Current(e)
     \/ (MayAsk(e) \/ MayDispatch(e)) /\ ~Current(e)
  /\ Return(e)
  /\ UNCHANGED db

\* The process dies, with everything it held.
crash(e) ==
  /\ exec[e].pc # "idle"
  /\ Return(e)
  /\ UNCHANGED db

Running(e) ==
  \/ load(e)
  \/ stop_at_budget(e)
  \/ adapter_fails(e)
  \/ persist_agent_output(e)
  \/ dispatch_pending(e)
  \/ validate_post_commit(e)
  \/ execute_durable_post_commit(e)
  \/ acknowledge_post_commit(e)
  \/ checkpoint_post_commit(e)
  \/ terminate(e)
  \/ give_up(e)

Next ==
  \/ claim_next_run
  \/ lease_expires
  \/ requeue_expired_run
  \/ cancel_queued_run
  \/ resolve_approval_request
  \/ evaluate_leased_run
  \/ \E e \in Executors : start(e) \/ crash(e) \/ transaction_fails(e) \/ Running(e)

Spec == Init /\ [][Next]_vars

\* A call that was made goes on while its process lives; no failure is counted on.
FairSpec == Spec /\ \A e \in Executors : WF_vars(Running(e))

-----------------------------------------------------------------------------
(* Properties.                                                             *)

EVENT_TYPES == {"run.lifecycle", "agent.step", "tool.requested", "tool.result",
                "approval.requested", "approval.resolved", "state.evidence_recorded", "run.error"}

TypeOK ==
  LET Calls == (0 .. MaxSteps) \X Nat
      Codes == WAITS \cup SUCCESSES \cup {"policy_denied", "approval_denied", "failed",
                                          "infrastructure_error", "fault_timeout"}
      Results == [code : Codes, slow : BOOLEAN, request : Nat, result : Nat]
      Pending == [call : Calls, request : Requests, attempt : Nat \ {0}, approval : BOOLEAN]
      CheckpointOK(c) ==
        /\ DOMAIN c = DOMAIN NoCheckpoint
        /\ c.version \in Nat /\ c.last_event_sequence \in Nat
        /\ c.status \in {"active", "waiting_for_approval", "final"}
        /\ c.spent \subseteq Overruns
        /\ \A i \in DOMAIN c.pending : c.pending[i] \in Pending
        /\ \A i \in DOMAIN c.trajectory : c.trajectory[i].kind \in {"assistant", "tool"}
  IN /\ db.status \in TERMINAL_STATUSES \cup {"queued", "provisioning", "running", "evaluating"}
     /\ db.attempt \in 0 .. MaxClaims
     /\ db.lease \in {"none", "live", "expired"}
     /\ db.lease = "none" <=> db.status \in TERMINAL_STATUSES \cup {"queued"}
     /\ \A i \in DOMAIN db.events : db.events[i].type \in EVENT_TYPES /\ db.events[i].call \in Nat \X Nat
     /\ db.effects \subseteq [request : Mutations, call : Calls, attempt : Nat \ {0}]
     /\ db.markers \subseteq [call : Calls, attempt : Nat \ {0}]
     /\ db.approvals \in [Requests -> {"none", "pending", "approved", "denied"}]
     /\ CheckpointOK(db.checkpoint)
     /\ \A e \in Executors :
          /\ exec[e].pc \in {"idle", "loading", "ready", "effect", "acknowledge", "checkpoint",
                             "terminating", "failing"}
          /\ exec[e].lease \in 0 .. db.attempt
          /\ exec[e].result \subseteq Results
          /\ CheckpointOK(exec[e].checkpoint)

Leased == db.lease = "live"

\* The two states from which the runtime is known not to recover: a final
\* checkpoint in a Run requeued from evaluating, and a replay whose result was
\* committed before its checkpoint.
RestartedFinal == db.status \in {"provisioning", "running"} /\ db.checkpoint.status = "final"
UnadoptedReplay ==
  /\ db.checkpoint.pending # <<>>
  /\ LET p == Head(db.checkpoint.pending)
     IN \E i \in Answered(db, p) : db.events[i].info = "already_applied"

\* Whatever was interrupted, and wherever, the next holder of a lease can load
\* the Run and go on: what the last transaction left, with everything operators
\* and the claim added since, passes every check of _load_state.
Resumable == Leased /\ ~RestartedFinal /\ ~UnadoptedReplay => Loads(db)

\* A Run requeued from evaluating restarts from provisioning.
EvaluatingRestarts == Leased /\ RestartedFinal => Loads(db)

\* One physical attempt is requested once and answered once: crashes, reclaims
\* and competing calls never put the same attempt into evidence again.
AttemptsOnce == StreamValid(db)

\* What is in evidence stays within the budgets, over all attempts of the Run:
\* the tool attempts dispatched, the steps the adapter completed and, where a
\* worker makes one call at a time, the failed step that ends the Run too.  A
\* competing call may put a failed step just above the limit.  An adapter's
\* answer that a crash or a conflict discarded is not in evidence: no budget
\* counts it.
WithinBudgets ==
  LET asked == {i \in DOMAIN db.events : db.events[i].type = "agent.step"}
      completed == {i \in asked : db.events[i].info = "completed"}
      requested == {i \in DOMAIN db.events : db.events[i].type = "tool.requested"}
  IN /\ Cardinality(requested) <= MaxToolCalls /\ Cardinality(completed) <= MaxSteps
     /\ MaxPerLease = 1 => Cardinality(asked) <= MaxSteps

\* A step number is in evidence once, completed or failed, although the call
\* that fails a step has not loaded what a competing call stored meanwhile.
StepsOnce ==
  \A i, j \in DOMAIN db.events :
    /\ db.events[i].type = "agent.step" /\ db.events[j].type = "agent.step"
    /\ db.events[i].call = db.events[j].call
    => i = j

\* A request the policy wants approved has an effect only after an operator
\* approved that very request; a denied one never has any.
ApprovalBeforeEffect ==
  \A i \in DOMAIN db.events :
    LET e == db.events[i]
    IN e.type = "state.evidence_recorded" /\ Policy[e.info] # "allow" =>
         /\ Policy[e.info] = "require_approval" /\ db.approvals[e.info] = "approved"
         /\ \E j \in 1 .. i - 1 : /\ db.events[j].type = "approval.resolved"
                                  /\ db.events[j].info = e.info

\* Ledger and evidence agree: one effect per idempotency key, each announced by
\* exactly one attempt, and that attempt ended as applied, as ambiguous, or not
\* yet, in which case a marker stands for the acknowledgement it still owes.
EffectsAnnounced ==
  LET announced == {i \in DOMAIN db.events : db.events[i].type = "state.evidence_recorded"}
  IN /\ \A f, g \in db.effects : Key[f.request] = Key[g.request] => f = g
     /\ Cardinality(announced) = Cardinality(db.effects)
     /\ \A f \in db.effects :
          LET said == {db.events[i].info : i \in Positions(db, "tool.result", f.call, f.attempt)}
              owed == [call |-> f.call, attempt |-> f.attempt] \in db.markers
          IN /\ \E i \in announced : /\ db.events[i].info = f.request
                                     /\ db.events[i].call = f.call
                                     /\ db.events[i].attempt = f.attempt
             /\ IF owed THEN said \subseteq {"fault_timeout"} ELSE said = {"newly_applied"}

\* Only an agent that stayed within its budgets, answered, and had every request
\* of its own answered gets to be evaluated.
EvaluatedWhenDone ==
  db.status \in {"evaluating", "completed"} =>
    LET c == db.checkpoint
    IN /\ c.status = "final" /\ c.spent = {} /\ final_intent(c)
       /\ \A i \in DOMAIN db.events : db.events[i].type = "tool.requested" =>
            LET codes == {db.events[k].info : k \in {j \in DOMAIN db.events :
                            /\ db.events[j].type = "tool.result"
                            /\ db.events[j].call = db.events[i].call}}
            IN codes \ WAITS # {}

\* Progress is never lost or rewritten: evidence and trajectory only grow, and
\* every change of the checkpoint is the next version of the one before.
ProgressOnlyExtends ==
  [][/\ IsPrefix(db.events, db'.events)
     /\ IsPrefix(db.checkpoint.trajectory, db'.checkpoint.trajectory)
     /\ db'.checkpoint # db.checkpoint => db'.checkpoint.version = db.checkpoint.version + 1]_vars

\* Nothing but an operator's late answer is recorded once the Run has ended,
\* whatever calls were still in flight; and not even that once it has completed,
\* so that the evaluator's events stay its last ones.
EndedIsQuiet ==
  [][db.status \in TERMINAL_STATUSES =>
       /\ db'.status = db.status /\ db'.checkpoint = db.checkpoint /\ db'.effects = db.effects
       /\ \A i \in DOMAIN db'.events \ DOMAIN db.events :
            db.status # "completed" /\ db'.events[i].type = "approval.resolved"]_vars

\* A call of execute_run returns: budgets, waits and failures leave no loop open.
Returns == \A e \in Executors : exec[e].pc # "idle" ~> exec[e].pc = "idle"
=============================================================================
