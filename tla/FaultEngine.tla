----------------------------- MODULE FaultEngine -----------------------------
(***************************************************************************)
(* Declared faults and the calls they disturb: the matcher (matcher.py),   *)
(* the engine that applies what it selects (application.py), the history   *)
(* that counts earlier applications (history.py), and the parts of the     *)
(* tool gateway and of the runtime that record faults as evidence, carry   *)
(* an ambiguous acknowledgement across a crash and load the Run again.     *)
(*                                                                         *)
(* One Run and one execute_run call at a time, in a process that may die   *)
(* or lose its lease between two transactions; leases and competing calls  *)
(* are AgentRuntime's.  A fault engine is a plan, its rules in the order   *)
(* of their ids, and a seed.  The hash of seed, rule, call and attempt is  *)
(* the set of the draws it selects, chosen once.                           *)
(*                                                                         *)
(* An event names the tool.requested event of its attempt by sequence      *)
(* number, so that an activation is a rule and that number.  The policy    *)
(* decision and the approval's events stand in the request event.          *)
(***************************************************************************)
EXTENDS Naturals, Sequences, FiniteSets, SequencesExt, FiniteSetsExt

CONSTANTS
  Requests,      \* tool requests an agent may ask for, a tool and its arguments
  ToolOf,        \* request -> tool
  Mutations,     \* requests of mutation tools
  NeedsApproval, \* requests the frozen policy lets through after an approval
  Plans,         \* compiled fault plans, sequences of rules in fault id order
  MaxTools       \* Scenario budget max_tool_calls

KINDS_BY_PHASE ==
  [before_tool |-> {"delay", "timeout", "http_error", "auth_error"},
   after_commit |-> {"ambiguous_post_commit_timeout"},
   after_tool |-> {"delay", "timeout", "malformed_response", "stale_field",
                   "indirect_prompt_injection", "duplicate_response"}]

\* A compiled rule: ordinal 0 where it names none, args the requests its
\* argument predicate holds of, sure when its probability is one million ppm.
CompiledFaultRules ==
  {r \in [id : STRING \ {""}, tool : STRING, phase : DOMAIN KINDS_BY_PHASE, kind : STRING,
          ordinal : Nat, args : SUBSET Requests, max_occurrences : Nat \ {0},
          sure : BOOLEAN] : r.kind \in KINDS_BY_PHASE[r.phase]}

ASSUME FaultAssumption ==
  /\ Mutations \subseteq Requests /\ NeedsApproval \subseteq Mutations
  /\ ToolOf \in [Requests -> STRING] /\ MaxTools \in Nat
  /\ Plans \subseteq Seq(CompiledFaultRules)
  /\ \A p \in Plans : \A i, j \in DOMAIN p : p[i].id = p[j].id => i = j

VARIABLES
  plan,  \* the compiled plan of the Run's fault engine
  draws, \* the draws the seed selects for the rules that are not sure
  run,   \* the committed rows of the Run
  proc   \* what the execute_run call holds in memory

vars == <<plan, draws, run, proc>>

-----------------------------------------------------------------------------
(* Evidence.                                                               *)

\* The statuses this module follows a Run to: what the evaluator does adds no fault.
Terminal == {"evaluating", "timed_out", "infra_error"}
WAITS == {"approval_required", "approval_pending"}
SUCCESSES == {"read", "newly_applied", "already_applied"}

Positions(d, type, request) ==
  {i \in DOMAIN d.events : d.events[i].type = type /\ d.events[i].request = request}

\* Mutant: only calls with an effect count.
logical_call_ordinal_Effects(d) == Cardinality(d.effects) + 1

\* The logical calls of all tools are numbered in the order they were asked for;
\* ordinals are recomputed from the trajectory, which a waiting call enters repeatedly.
logical_call_ordinal(d) ==
  LET seen == {d.turns[i].call : i \in DOMAIN d.turns}
  IN IF d.pending[1].call \in seen THEN Cardinality({c \in seen : c <= d.pending[1].call})
     ELSE Cardinality(seen) + 1

\* One physical attempt: the sequence number of its request event, its
\* logical call, attempt number, ordinal and request.
Attempt(d, at) ==
  LET p == d.pending[1]
  IN [at |-> at, call |-> p.call, attempt |-> p.attempt, q |-> p.q,
      ordinal |-> logical_call_ordinal(d)]

Event(type, a, rule, cause, info) ==
  [type |-> type, request |-> a.at, call |-> a.call, attempt |-> a.attempt,
   rule |-> rule, cause |-> cause, info |-> info]

Add(d, es) == [d EXCEPT !.events = @ \o es]

Opened(d) ==
  LET at == Len(d.events) + 1
  IN Add(d, <<Event("tool.requested", Attempt(d, at), "", 0, d.pending[1].q)>>)

-----------------------------------------------------------------------------
(* History: what earlier attempts applied, authenticated before it counts. *)

Rule(id) == plan[CHOOSE i \in DOMAIN plan : plan[i].id = id]

Sampled(r, call, attempt) == r.sure \/ <<r.id, call, attempt>> \in draws

\* Applications of a rule by any other attempt.
Occurrences(d, r, ignored) ==
  Cardinality({i \in DOMAIN d.events : /\ d.events[i].type = "fault.applied"
                                       /\ d.events[i].rule = r.id
                                       /\ d.events[i].request # ignored})

Activations(d, type, request) == {d.events[i].rule : i \in Positions(d, type, request)}

\* The activation of a rule is at most once in the attempt's events of a type.
Once(d, type, request) ==
  Cardinality(Positions(d, type, request)) = Cardinality(Activations(d, type, request))

Chained(d, request) ==
  LET events == d.events
      matched == Positions(d, "fault.matched", request)
      applied == Positions(d, "fault.applied", request)
      observed == Positions(d, "fault.observed", request)
      result == Positions(d, "tool.result", request)
  IN \A i \in applied :
       /\ \E m \in matched : /\ events[m].rule = events[i].rule
                             /\ events[i].cause = m /\ m < i
       /\ Cardinality(result) = 1
       /\ \E r \in result, o \in observed :
            /\ events[o].rule = events[i].rule /\ events[o].cause = r
            /\ events[r].cause = Max(applied) /\ i < r /\ r < o

authenticate_fault_history(d, ignored) ==
  LET requests == {d.events[i].request : i \in DOMAIN d.events} \ {ignored}
  IN /\ \A q \in requests :
          /\ \A type \in {"fault.matched", "fault.applied", "fault.observed"} : Once(d, type, q)
          /\ Chained(d, q)
          /\ Activations(d, "fault.matched", q) = Activations(d, "fault.applied", q)
          /\ Activations(d, "fault.observed", q) = Activations(d, "fault.applied", q)
          /\ \A id \in Activations(d, "fault.matched", q) :
               /\ Rule(id).tool = ToolOf[d.events[q].info]
               /\ Sampled(Rule(id), d.events[q].call, d.events[q].attempt)
     /\ \A i \in DOMAIN plan : Occurrences(d, plan[i], ignored) <= plan[i].max_occurrences

-----------------------------------------------------------------------------
(* Matching and applying.                                                  *)

\* Mutant: the cap is compared after the application it should prevent.
Capped_Late(d, r, a) == Occurrences(d, r, a.at) > r.max_occurrences

Capped(d, r, a) == Occurrences(d, r, a.at) >= r.max_occurrences

\* The elements of a sequence at the positions of a set, in their order.
Picked(s, I) ==
  [k \in 1 .. Cardinality(I) |-> s[CHOOSE i \in I : Cardinality({j \in I : j < i}) = k - 1]]

match_fault_rule(d, r, a, phase) ==
  /\ r.tool = ToolOf[a.q] /\ r.phase = phase
  /\ r.ordinal \in {0, a.ordinal}
  /\ a.q \in r.args
  /\ ~Capped(d, r, a)
  /\ Sampled(r, a.call, a.attempt)

select(d, a, phase) ==
  Picked(plan, {i \in DOMAIN plan : match_fault_rule(d, plan[i], a, phase)})

\* Declarations for this tool and phase that were not selected are reported.
reportable_not_matched(d, a, phase) ==
  Picked(plan, {i \in DOMAIN plan : /\ plan[i].tool = ToolOf[a.q] /\ plan[i].phase = phase
                                    /\ ~match_fault_rule(d, plan[i], a, phase)})

record_fault_selection(d, a, phase, matched) ==
  LET missed == reportable_not_matched(d, a, phase)
  IN Add(d, [i \in DOMAIN missed |-> Event("fault.not_matched", a, missed[i].id, a.at, "")]
         \o [i \in DOMAIN matched |-> Event("fault.matched", a, matched[i].id, a.at, "")])

\* Every delay, and the first directive that is not one.
apply(matched) ==
  LET directives == {i \in DOMAIN matched : matched[i].kind # "delay"}
  IN Picked(matched, {i \in DOMAIN matched : i \in directives => \A j \in directives : i <= j})

\* Only the first replaces the acknowledgement of a committed effect.
apply_post_commit(matched) == IF matched = <<>> THEN <<>> ELSE <<matched[1]>>

\* Mutant: an application names the request as its cause, not the match.
record_applied_faults_NoMatch(d, a, applied) ==
  Add(d, [i \in DOMAIN applied |-> Event("fault.applied", a, applied[i].id, a.at, "")])

record_applied_faults(d, a, applied) ==
  LET match(r) == CHOOSE m \in Positions(d, "fault.matched", a.at) : d.events[m].rule = r.id
  IN Add(d, [i \in DOMAIN applied |->
               Event("fault.applied", a, applied[i].id, match(applied[i]), "")])

failure_code(r) ==
  CASE r.kind = "timeout" -> "fault_timeout"
    [] r.kind = "http_error" -> "fault_http_error"
    [] r.kind = "auth_error" -> "fault_auth_error"
    [] r.kind = "malformed_response" -> "fault_malformed_response"
    [] OTHER -> ""

\* Mutant: the first applied fault decides, although it may be a delay.
replaced_First(applied, code) ==
  IF applied = <<>> THEN code ELSE failure_code(applied[1])

\* The code the applied faults replace the tool's own answer with.
replaced(applied, code) ==
  LET fails == {i \in DOMAIN applied : failure_code(applied[i]) # ""}
  IN IF fails = {} THEN code ELSE failure_code(applied[Min(fails)])

\* The result and, per fault the call applied, its observation.
answer(d, a, code, applied) ==
  LET mine == Positions(d, "fault.applied", a.at)
      answered == Add(d, <<Event("tool.result", a, "",
                                 IF applied = <<>> THEN a.at ELSE Max(mine), code)>>)
      at == Len(answered.events)
  IN Add(answered, [i \in DOMAIN applied |-> Event("fault.observed", a, applied[i].id, at, "")])

append_state_evidence(d, a, cause) ==
  Add(d, <<Event("state.evidence_recorded", a, "", cause, "")>>)

\* Nothing is selected without an engine, or before the phases that need one.
select_faults(d, a, phase, engine) == IF engine THEN select(d, a, phase) ELSE <<>>

record_selection(d, a, phase, matched, engine) ==
  IF engine THEN record_fault_selection(d, a, phase, matched) ELSE d

\* The attempt's own events are not its history; what is, counts when it is whole.
authoritative_fault_history(d, a, engine) == engine => authenticate_fault_history(d, a.at)

-----------------------------------------------------------------------------
(* The gateway: one physical attempt, in the transaction of its caller.    *)
(* An outcome is the rows after it, and the matched rules of an            *)
(* acknowledgement still owed.                                             *)

Outcome(d) == [db |-> d, owed |-> <<>>]

Applied(d, a) ==
  [d EXCEPT !.effects = @ \cup {[q |-> a.q, call |-> a.call, attempt |-> a.attempt]}]

\* The ledger holds an effect under the request's idempotency key already.
Established(d, q) == \E f \in d.effects : f.q = q

\* The gate every request passes first, and what it answers otherwise.
gate(d, q) ==
  IF q \notin NeedsApproval \/ d.approvals[q] = "approved" THEN "pass"
  ELSE CASE d.approvals[q] = "none" -> "approval_required"
         [] d.approvals[q] = "pending" -> "approval_pending"
         [] OTHER -> "approval_denied"

Gated(d, a) ==
  LET waiting == IF gate(d, a.q) = "approval_required"
                 THEN [d EXCEPT !.approvals[a.q] = "pending"] ELSE d
  IN answer(waiting, a, gate(d, a.q), <<>>)

\* A read: faults change how its validated output is delivered.
Read(d, a, before, engine) ==
  LET matched == select_faults(d, a, "after_tool", engine)
      chosen == record_selection(d, a, "after_tool", matched, engine)
      after == apply(matched)
  IN answer(record_applied_faults(chosen, a, after), a, replaced(after, "read"), before \o after)

\* A mutation that had its effect before, in an earlier attempt.
Replayed(d, a, before) == answer(d, a, "already_applied", before)

\* The immutable marker: the effect is committed, its acknowledgement is owed.
create_post_commit_acknowledgement(d, a, r) ==
  [d EXCEPT !.markers = @ \cup {[call |-> a.call, attempt |-> a.attempt, ordinal |-> a.ordinal,
                                 at |-> a.at, rule |-> r.id, state |-> Len(d.events)]}]

\* A new effect; in the durable phase an after_commit rule may take its
\* acknowledgement, and then only request, effect and marker are committed.
Mutate(d, a, before, durable) ==
  LET changed == Applied(d, a)
      matched == select_faults(changed, a, "after_commit", durable)
      told == answer(record_selection(changed, a, "after_commit", <<>>, durable),
                     a, "newly_applied", before)
  IN IF matched # <<>>
     THEN [db |-> create_post_commit_acknowledgement(append_state_evidence(changed, a, a.at), a,
                                                     matched[1]),
           owed |-> matched]
     ELSE Outcome(append_state_evidence(told, a, Max(Positions(told, "tool.result", a.at))))

\* Mutant: a declared failure is reported after the handler ran.
Handled_Despite(d, a, before, durable, engine) ==
  IF a.q \notin Mutations THEN {Outcome(Read(d, a, before, engine))}
  ELSE IF Established(d, a.q) THEN {Outcome(Replayed(d, a, before))}
  ELSE {Mutate(d, a, before, durable)}

\* What an authorised attempt can come to after the before_tool phase: the
\* declared failure; a broken rule or a broken handler; the tool's answer.
Handled(d, a, before, durable, engine) ==
  IF replaced(before, "") # "" THEN {Outcome(answer(d, a, replaced(before, ""), before))}
  ELSE {Outcome(answer(d, a, code, before)) : code \in {"failed", "infrastructure_error"}}
       \cup IF a.q \notin Mutations THEN {Outcome(Read(d, a, before, engine))}
            ELSE IF Established(d, a.q) THEN {Outcome(Replayed(d, a, before))}
            ELSE {Mutate(d, a, before, durable)}

\* No outcome when the attempt is rejected: its savepoint rolls back and the
\* runtime hears of an infrastructure error.
execute(d, durable, engine) ==
  LET opened == Opened(d)
      a == Attempt(d, Len(d.events) + 1)
      matched == select_faults(opened, a, "before_tool", engine)
      chosen == record_selection(opened, a, "before_tool", matched, engine)
      before == apply(matched)
  IN IF gate(d, a.q) # "pass" THEN {Outcome(Gated(opened, a))}
     ELSE IF ~authoritative_fault_history(d, a, engine) THEN {}
     ELSE Handled(record_applied_faults(chosen, a, before), a, before, durable, engine)

-----------------------------------------------------------------------------
(* Markers, checkpoint and loading.                                        *)

Marker(d) == {m \in d.markers : m.call = d.pending[1].call /\ m.attempt = d.pending[1].attempt}

\* The request event and the result of the pending attempt.
Requested(d) ==
  {i \in DOMAIN d.events : /\ d.events[i].type = "tool.requested"
                           /\ d.events[i].call = d.pending[1].call
                           /\ d.events[i].attempt = d.pending[1].attempt}
Answered(d) == UNION {Positions(d, "tool.result", i) : i \in Requested(d)}

checkpoint_after_tool(d) ==
  LET p == d.pending[1]
      result == CHOOSE i \in Answered(d) : TRUE
      turn == [call |-> p.call, attempt |-> p.attempt, code |-> d.events[result].info,
               result |-> result]
  IN [d EXCEPT !.turns = Append(@, turn),
               !.pending = IF turn.code \in WAITS THEN <<[p EXCEPT !.attempt = @ + 1]>> ELSE <<>>,
               !.boundary = Len(d.events)]

\* The marker binds this request, a rule that still wants it, its own effect, an
\* approval where one is needed, and the evidence of request and effect.
validate_post_commit_marker(d, m) ==
  LET p == d.pending[1]
      r == Rule(m.rule)
      request == d.events[m.at]
      state == d.events[m.state]
  IN /\ m.call = p.call /\ m.attempt = p.attempt /\ m.ordinal = logical_call_ordinal(d)
     /\ r.phase = "after_commit" /\ r.tool = ToolOf[p.q]
     /\ r.ordinal \in {0, m.ordinal} /\ p.q \in r.args /\ Sampled(r, m.call, m.attempt)
     /\ [q |-> p.q, call |-> m.call, attempt |-> m.attempt] \in d.effects
     /\ gate(d, p.q) = "pass"
     /\ request.type = "tool.requested" /\ request.info = p.q
     /\ request.call = m.call /\ request.attempt = m.attempt
     /\ state.type = "state.evidence_recorded" /\ state.cause = m.at /\ m.at < m.state

\* The planned evidence of a marker is there as a whole or not at all: matched,
\* applied, a timed-out result and observed, each the cause of the next.
acknowledged(d, m) ==
  \E i \in DOMAIN d.events :
    /\ d.events[i].type = "fault.matched" /\ d.events[i].cause = m.at /\ m.state < i
    /\ \E j, k, o \in i + 1 .. Len(d.events) :
         /\ j < k /\ k < o
         /\ d.events[j].type = "fault.applied" /\ d.events[j].cause = i
         /\ d.events[k].type = "tool.result" /\ d.events[k].cause = j
         /\ d.events[k].info = "fault_timeout"
         /\ d.events[o].type = "fault.observed" /\ d.events[o].cause = k
         /\ \A e \in {i, j, o} : d.events[e].rule = m.rule

recover_post_commit_attempt(d, m) ==
  IF ~validate_post_commit_marker(d, m) THEN "refuse"
  ELSE IF acknowledged(d, m) THEN "adopt"
  ELSE IF Answered(d) = {} THEN "wait" ELSE "refuse"

\* A result without a marker: one for its one request; a success has the effect
\* of this very attempt, a new one has its state evidence after the result.
recover_committed_tool_attempt(d) ==
  LET result == CHOOSE i \in Answered(d) : TRUE
      p == d.pending[1]
      code == d.events[result].info
      whole ==
        /\ Cardinality(Requested(d)) = 1 /\ Cardinality(Answered(d)) = 1
        /\ code \in SUCCESSES => [q |-> p.q, call |-> p.call, attempt |-> p.attempt] \in d.effects
        /\ code = "newly_applied" =>
             Cardinality({i \in result + 1 .. Len(d.events) :
                            /\ d.events[i].type = "state.evidence_recorded"
                            /\ d.events[i].cause = result}) = 1
  IN IF Requested(d) = {} THEN "none" ELSE IF whole THEN "adopt" ELSE "refuse"

\* Without a fault engine the load looks neither for a marker nor for a result.
recovery(d, engine) ==
  IF d.pending = <<>> \/ ~engine THEN "none"
  ELSE IF Marker(d) # {} THEN recover_post_commit_attempt(d, CHOOSE m \in Marker(d) : TRUE)
  ELSE IF d.pending[1].q \in Mutations THEN recover_committed_tool_attempt(d)
  ELSE "none"

\* A result is caused by its request (policy, approval) or by its last fault,
\* and then each application of the attempt has its one observation.
fault_causation_is_valid(d, result) ==
  LET request == d.events[result].request
      applied == Positions(d, "fault.applied", request)
      observed == Positions(d, "fault.observed", request)
  IN d.events[result].cause = request
     \/ /\ applied # {} /\ d.events[result].cause = Max(applied)
        /\ \A i \in applied :
             /\ d.events[i].cause \in Positions(d, "fault.matched", request)
             /\ Cardinality({o \in observed : /\ d.events[o].rule = d.events[i].rule
                                              /\ d.events[o].cause = result /\ o > result}) = 1
        /\ Cardinality(observed) = Cardinality(applied)

allowed_event_ids(d, engine) ==
  IF recovery(d, engine) = "wait" THEN UNION {{m.at, m.state} : m \in Marker(d)} ELSE {}

load_state(d, engine) ==
  IF recovery(d, engine) = "adopt" THEN checkpoint_after_tool(d) ELSE d

Loads(d, engine) ==
  LET l == load_state(d, engine)
  IN /\ recovery(d, engine) # "refuse"
     /\ \A i \in DOMAIN l.turns : fault_causation_is_valid(l, l.turns[i].result)
     /\ l.boundary + 1 .. Len(l.events) \subseteq allowed_event_ids(d, engine)

-----------------------------------------------------------------------------
(* execute_run, as far as faults can tell.                                 *)

Idle == [pc |-> "idle", engine |-> FALSE, owed |-> <<>>]

\* The attempts the budget leaves room for; only a call that waits has a second.
Drawn(r) ==
  {<<r.id, pair[1], pair[2]>> : pair \in
     {c \in (1 .. MaxTools) \X (1 .. MaxTools) :
        /\ c[1] + c[2] <= MaxTools + 1
        /\ c[2] > 1 => r.args \cap NeedsApproval # {}}}

Init ==
  /\ plan \in Plans
  /\ draws \in SUBSET UNION {Drawn(plan[i]) : i \in {k \in DOMAIN plan : ~plan[k].sure}}
  /\ run = [status |-> "running", events |-> <<>>, effects |-> {}, markers |-> {},
            turns |-> <<>>, pending |-> <<>>, boundary |-> 0,
            approvals |-> [q \in Requests |-> "none"]]
  /\ proc = Idle

Goto(pc) == proc' = [proc EXCEPT !.pc = pc]
Ends(status) == run' = [run EXCEPT !.status = status]

has_after_commit_rule(q) ==
  proc.engine /\ \E i \in DOMAIN plan : plan[i].tool = ToolOf[q] /\ plan[i].phase = "after_commit"

\* A worker with the Run's fault engine, or one without any, takes the Run over.
execute_run ==
  /\ proc.pc = "idle" /\ run.status = "running"
  /\ \E engine \in BOOLEAN : proc' = [Idle EXCEPT !.pc = "loading", !.engine = engine]
  /\ UNCHANGED run

\* A load that is refused rolls back; its worker returns run_not_ready.
load ==
  /\ proc.pc = "loading"
  /\ IF Loads(run, proc.engine) THEN run' = load_state(run, proc.engine) /\ Goto("ready")
     ELSE UNCHANGED run /\ proc' = Idle

NextCall == Cardinality({run.turns[i].call : i \in DOMAIN run.turns}) + 1

\* The agent asks for a tool, or answers finally.
persist_agent_output ==
  /\ proc.pc = "ready" /\ run.pending = <<>>
  /\ \/ /\ \E q \in Requests :
             run' = [run EXCEPT !.pending = <<[call |-> NextCall, attempt |-> 1, q |-> q]>>]
        /\ UNCHANGED proc
     \/ Ends("evaluating") /\ proc' = Idle

stop_at_budget ==
  /\ proc.pc = "ready" /\ run.pending # <<>> /\ Len(run.turns) >= MaxTools
  /\ Ends("timed_out") /\ proc' = Idle

MayDispatch == proc.pc = "ready" /\ run.pending # <<>> /\ Len(run.turns) < MaxTools

Broken(o) == \E i \in Answered(o.db) : o.db.events[i].info = "infrastructure_error"

\* The checkpoint after a tool attempt; a call that waits for approval returns.
store(d) ==
  /\ run' = checkpoint_after_tool(d)
  /\ proc' = IF run'.pending = <<>> THEN [proc EXCEPT !.pc = "loading", !.owed = <<>>] ELSE Idle

dispatch_pending ==
  /\ MayDispatch /\ ~has_after_commit_rule(run.pending[1].q)
  /\ \/ \E o \in execute(run, FALSE, proc.engine) :
           IF Broken(o) THEN Ends("infra_error") /\ proc' = Idle ELSE store(o.db)
     \/ Ends("infra_error") /\ proc' = Idle

\* Transaction one of the durable path: the attempt as far as its effect.  An
\* attempt that has a marker is not executed again, its faults are selected anew.
\* A read has no effect to be durable: it is executed in a session nobody commits,
\* and then its evidence is missed.
execute_durable_post_commit ==
  /\ MayDispatch /\ has_after_commit_rule(run.pending[1].q)
  /\ LET m == CHOOSE k \in Marker(run) : TRUE
         a == Attempt(run, m.at)
         matched == select(run, a, "after_commit")
         owe(rules) == proc' = [proc EXCEPT !.pc = "acknowledge", !.owed = rules]
         resumes == /\ validate_post_commit_marker(run, m)
                    /\ authoritative_fault_history(run, a, TRUE) /\ matched # <<>>
     IN \/ /\ Marker(run) # {} /\ resumes
           /\ owe(matched) /\ UNCHANGED run
        \/ /\ Marker(run) = {} /\ run.pending[1].q \in Mutations
           /\ \E o \in execute(run, TRUE, TRUE) :
                /\ run' = o.db
                /\ IF o.owed # <<>> THEN owe(o.owed)
                   ELSE Goto(IF Broken(o) THEN "terminating" ELSE "checkpoint")
        \/ Goto("terminating") /\ UNCHANGED run

\* Transaction two: matched, applied, timed-out result and observed together.
acknowledge_post_commit ==
  /\ proc.pc = "acknowledge"
  /\ LET a == Attempt(run, (CHOOSE k \in Marker(run) : TRUE).at)
         chosen == record_fault_selection(run, a, "after_commit", proc.owed)
         applied == apply_post_commit(proc.owed)
     IN \/ /\ run' = answer(record_applied_faults(chosen, a, applied), a, "fault_timeout", applied)
           /\ Goto("checkpoint")
        \/ Goto("terminating") /\ UNCHANGED run

checkpoint_post_commit == proc.pc = "checkpoint" /\ store(run)

terminate == proc.pc = "terminating" /\ Ends("infra_error") /\ proc' = Idle

\* The process dies or loses its lease: the open transaction is rolled back.
crash == proc.pc # "idle" /\ proc' = Idle /\ UNCHANGED run

\* An operator answers.
resolve_approval_request ==
  \E q \in NeedsApproval, resolution \in {"approved", "denied"} :
    /\ run.approvals[q] = "pending"
    /\ run' = [run EXCEPT !.approvals[q] = resolution]
    /\ UNCHANGED proc

Running ==
  \/ load
  \/ persist_agent_output
  \/ stop_at_budget
  \/ dispatch_pending
  \/ execute_durable_post_commit
  \/ acknowledge_post_commit
  \/ checkpoint_post_commit
  \/ terminate

Next ==
  /\ execute_run \/ Running \/ crash \/ resolve_approval_request
  /\ UNCHANGED <<plan, draws>>

Spec == Init /\ [][Next]_vars

-----------------------------------------------------------------------------
(* Properties.                                                             *)

TypeOK ==
  LET Codes == WAITS \cup SUCCESSES \cup {"approval_denied", "failed", "infrastructure_error",
                 "fault_timeout", "fault_http_error", "fault_auth_error",
                 "fault_malformed_response"}
      Types == {"tool.requested", "fault.not_matched", "fault.matched", "fault.applied",
                "tool.result", "fault.observed", "state.evidence_recorded"}
      Calls == 1 .. MaxTools + 1
      Rules == {plan[i] : i \in DOMAIN plan}
      Ids == {r.id : r \in Rules}
  IN /\ run.status \in Terminal \cup {"running"}
     /\ \A i \in DOMAIN run.events :
          LET e == run.events[i]
          IN /\ e.type \in Types /\ e.request \in 1 .. i /\ e.cause \in 0 .. i - 1
             /\ e.call \in Calls /\ e.rule \in Ids \cup {""}
             /\ e.type = "tool.result" => e.info \in Codes
     /\ run.effects \subseteq [q : Mutations, call : Calls, attempt : Calls]
     /\ \A m \in run.markers : m.at \in DOMAIN run.events /\ m.rule \in Ids
     /\ \A i \in DOMAIN run.turns : run.turns[i].code \in Codes
     /\ Len(run.pending) <= 1 /\ run.boundary \in 0 .. Len(run.events)
     /\ run.approvals \in [Requests -> {"none", "pending", "approved", "denied"}]
     /\ proc.pc \in {"idle", "loading", "ready", "acknowledge", "checkpoint", "terminating"}
     /\ Range(proc.owed) \subseteq Rules

\* The attempt whose evidence is not complete, if there is one.
Open == IF run.pending # <<>> /\ Requested(run) # {} /\ Answered(run) = {}
        THEN CHOOSE i \in Requested(run) : TRUE ELSE 0

\* An attempt two rules of one phase wanted to fail: one of them is matched only.
Contradicted ==
  \E i \in DOMAIN run.events :
    /\ run.events[i].type = "fault.matched" /\ run.events[i].request # Open
    /\ run.events[i].rule \notin Activations(run, "fault.applied", run.events[i].request)

\* A marker's attempt with evidence of the before_tool phase beside it.
Shared(m) == \E i \in m.at + 1 .. m.state - 1 : run.events[i].request = m.at
SharedMarker == \E m \in run.markers : Shared(m)

\* A rule is applied at most as often as it was declared, whatever crashed or
\* was retried in between (the cap is rebuilt from evidence at every match), and
\* one with an ordinal n disturbs no other logical call than the n-th of the Run,
\* over all its tools, although a call that waits for its approval makes several
\* attempts.  Per tool, as FAULT_MATCHER_V0.md:53 counts, it would not hold.
AppliedAsDeclared ==
  /\ \A i \in DOMAIN plan : Occurrences(run, plan[i], 0) <= plan[i].max_occurrences
  /\ \A i \in DOMAIN run.events :
       run.events[i].type = "fault.applied" /\ Rule(run.events[i].rule).ordinal # 0
       => run.events[i].call = Rule(run.events[i].rule).ordinal

\* What is committed authenticates, so that the next match can be made: every
\* application has its match before it, its result and one observation after
\* it, in transactions that may have been interrupted anywhere.
HistoryAuthentic ==
  ~Contradicted /\ ~SharedMarker => authenticate_fault_history(run, Open)

\* A replayed effect whose result was committed before its checkpoint.
UnadoptedReplay ==
  run.pending # <<>> /\ \E i \in Answered(run) : run.events[i].info = "already_applied"

\* Wherever the process died, a worker with the Run's engine loads it again; an
\* acknowledgement still owed is owed for the same rule when that worker matches
\* the attempt anew: its marker does not depend on what came since.
Recoverable ==
  run.status = "running" =>
    /\ ~SharedMarker /\ ~UnadoptedReplay => Loads(run, TRUE)
    /\ run.pending # <<>> /\ Answered(run) = {} =>
         \A m \in Marker(run) :
           LET again == select(run, Attempt(run, m.at), "after_commit")
           IN again # <<>> /\ again[1].id = m.rule

\* A fault's consequence is the declared one and no other: an answer says
\* fault_timeout (or another fault) exactly when a rule of that kind was applied,
\* an attempt failed before its tool has no effect, one whose acknowledgement
\* timed out has, and no request ever has two.
FaultsFelt ==
  /\ \A f, g \in run.effects : f.q = g.q => f = g
  /\ \A i \in DOMAIN run.events : run.events[i].type = "tool.result" =>
       LET e == run.events[i]
           rules == {Rule(id) : id \in Activations(run, "fault.applied", e.request)}
           ambiguous == \E r \in rules : r.phase = "after_commit"
           declared == {failure_code(r) : r \in rules} \ {""}
           mine == {f \in run.effects : f.call = e.call /\ f.attempt = e.attempt}
       IN /\ IF ambiguous THEN e.info = "fault_timeout"
             ELSE IF declared # {} THEN {e.info} = declared
             ELSE e.info \notin {"fault_timeout", "fault_http_error", "fault_auth_error",
                                 "fault_malformed_response"}
          /\ mine # {} <=> ambiguous \/ e.info = "newly_applied"

\* FAULT_APPLICATION_V0: declarations selected beside the one that is applied
\* remain fault.matched, and deterministic behaviour is preserved.
ContradictionTolerated == authenticate_fault_history(run, Open)
=============================================================================
