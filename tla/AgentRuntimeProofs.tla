------------------------- MODULE AgentRuntimeProofs -------------------------
(***************************************************************************)
(* Theorems about AgentRuntime for any number of calls, requests, claims   *)
(* and steps.  Two invariants carry them.  Sound holds however many calls  *)
(* a worker makes with one lease: rows and calls keep their shapes, a      *)
(* checkpoint version names one checkpoint, every sign of an effect goes   *)
(* back to a request that the policy or an operator let through.  Ordered  *)
(* needs the attempts of a lease to be made by one call (Exclusive): an    *)
(* attempt that is in evidence and not in the checkpoint is that of the    *)
(* first pending call, it is marked or answered, and whoever holds the     *)
(* lease knows that before it makes another.                               *)
(***************************************************************************)
EXTENDS AgentRuntime, TLAPS, FiniteSetTheorems, SequenceTheorems

Statuses == TERMINAL_STATUSES \cup {"queued", "provisioning", "running", "evaluating"}
Codes == WAITS \cup SUCCESSES \cup {"policy_denied", "approval_denied", "failed",
                                    "infrastructure_error", "fault_timeout"}

\* Calls an agent made: a step and an index.
Calls == (1 .. MaxSteps) \X (Nat \ {0})
Attempts == Nat \ {0}

Events ==
  {e \in [type : EVENT_TYPES, call : Nat \X Nat, attempt : Nat,
          info : Requests \cup Codes \cup Statuses, slow : Slow] :
     /\ e.type \in {"tool.requested", "tool.result", "state.evidence_recorded"} =>
          e.call \in Calls /\ e.attempt \in Attempts
     /\ e.type = "tool.result" => e.info \in Codes
     /\ e.type \in {"tool.requested", "state.evidence_recorded", "approval.resolved"} =>
          e.info \in Requests}

Results == [code : Codes, slow : Slow, request : Nat, result : Nat]
Pendings == [call : Calls, request : Requests, attempt : Attempts, approval : BOOLEAN]
ATurns == [kind : {"assistant"}, calls : Seq(Requests), final : BOOLEAN]
TTurns == [kind : {"tool"}, call : Calls, attempt : Attempts, code : Codes,
           request : Nat, result : Nat]
Checkpoints ==
  [version : Nat, last_event_sequence : Nat, trajectory : Seq(ATurns \cup TTurns),
   pending : Seq(Pendings), status : {"active", "waiting_for_approval", "final"},
   spent : SUBSET Overruns]

Effects == [request : Mutations, call : Calls, attempt : Attempts]
Markers == [call : Calls, attempt : Attempts]

Databases ==
  [status : Statuses, attempt : 0 .. MaxClaims, lease : {"none", "live", "expired"},
   events : Seq(Events), checkpoint : Checkpoints, effects : SUBSET Effects,
   markers : SUBSET Markers,
   approvals : [Requests -> {"none", "pending", "approved", "denied"}]]

Targets == {"failed", "timed_out", "infra_error"}
Execs ==
  [pc : {"idle", "loading", "ready", "effect", "acknowledge", "checkpoint", "terminating",
         "failing"},
   lease : 0 .. MaxClaims, checkpoint : Checkpoints, result : SUBSET Results,
   target : Targets \cup {""}]

-----------------------------------------------------------------------------
(* Rows and their events.                                                  *)

Frame(d, x) ==
  /\ x \in Databases
  /\ x.status = d.status /\ x.attempt = d.attempt /\ x.lease = d.lease
  /\ x.checkpoint = d.checkpoint

ReqE(p) == Event("tool.requested", p.call, p.attempt, p.request)
AskE(p) == Event("approval.requested", p.call, p.attempt, p.request)
EvdE(p) == Event("state.evidence_recorded", p.call, p.attempt, p.request)
ResE(p, code, slow) == [Event("tool.result", p.call, p.attempt, code) EXCEPT !.slow = slow]

\* What RuntimeAssumption says of each constant.
LEMMA Constants ==
  /\ MaxSteps \in Attempts /\ MaxToolCalls \in Attempts /\ MaxPerLease \in Attempts
  /\ MaxClaims \in Attempts /\ AfterCommit \subseteq Mutations /\ Mutations \subseteq Requests
  /\ Turns \subseteq Seq(Requests) /\ IsFiniteSet(Executors)
  /\ Policy \in [Requests -> {"allow", "deny", "require_approval"}]
BY RuntimeAssumption DEF RuntimeAssumption, Attempts

\* The events the actions write are events.
LEMMA EventTypes ==
  /\ FALSE \in Slow /\ Slow \subseteq BOOLEAN
  /\ \A p \in Pendings :
       /\ ReqE(p) \in Events /\ AskE(p) \in Events /\ EvdE(p) \in Events
       /\ \A code \in Codes, slow \in Slow : ResE(p, code, slow) \in Events
  /\ \A status \in Statuses, type \in {"run.lifecycle", "run.error"} : Event(type, NoCall, 0, status) \in Events
  /\ \A q \in Requests : Event("approval.resolved", NoCall, 0, q) \in Events
  /\ \A n \in Nat, info \in {"completed", "failed"} : Event("agent.step", <<n, 0>>, 0, info) \in Events
<1>1. FALSE \in Slow /\ Slow \subseteq BOOLEAN
  BY DEF Slow
<1>2. ASSUME NEW p \in Pendings
      PROVE  /\ ReqE(p) \in Events /\ AskE(p) \in Events /\ EvdE(p) \in Events
             /\ \A code \in Codes, slow \in Slow : ResE(p, code, slow) \in Events
  <2>1. /\ p.call \in Calls /\ p.attempt \in Attempts /\ p.request \in Requests
        /\ p.call \in Nat \X Nat /\ p.attempt \in Nat
    BY DEF Pendings, Calls, Attempts
  <2>2. QED
    BY <1>1, <2>1 DEF ReqE, AskE, EvdE, ResE, Event, Events, EVENT_TYPES
<1>3. NoCall \in Nat \X Nat /\ "completed" \in Statuses /\ "failed" \in Statuses
      /\ \A n \in Nat : <<n, 0>> \in Nat \X Nat
  BY DEF NoCall, Statuses, TERMINAL_STATUSES
<1>4. QED
  BY <1>1, <1>2, <1>3 DEF Event, Events, EVENT_TYPES

\* The fields of an event are those it was made of.
LEMMA EventFields ==
  /\ \A type, call, attempt, info :
       /\ Event(type, call, attempt, info).type = type
       /\ Event(type, call, attempt, info).call = call
       /\ Event(type, call, attempt, info).attempt = attempt
       /\ Event(type, call, attempt, info).info = info
       /\ Event(type, call, attempt, info).slow = FALSE
  /\ \A p, code, slow :
       /\ ResE(p, code, slow).type = "tool.result"
       /\ ResE(p, code, slow).call = p.call
       /\ ResE(p, code, slow).attempt = p.attempt
       /\ ResE(p, code, slow).info = code
       /\ ResE(p, code, slow).slow = slow
BY DEF Event, ResE

\* One more event.
LEMMA Adds ==
  ASSUME NEW d \in Databases, NEW e \in Events
  PROVE  /\ Add(d, e) \in Databases /\ Frame(d, Add(d, e))
         /\ Add(d, e).events = Append(d.events, e)
         /\ Add(d, e).effects = d.effects /\ Add(d, e).markers = d.markers
         /\ Add(d, e).approvals = d.approvals
<1>1. Append(d.events, e) \in Seq(Events)
  BY DEF Databases
<1>2. QED
  BY <1>1 DEF Add, Frame, Databases

\* The events that were there, and the new one.
LEMMA Appended ==
  ASSUME NEW S, NEW s \in Seq(S), NEW e \in S
  PROVE  /\ Append(s, e) \in Seq(S) /\ Len(Append(s, e)) = Len(s) + 1 /\ Len(s) \in Nat
         /\ DOMAIN s = 1 .. Len(s) /\ DOMAIN Append(s, e) = 1 .. Len(s) + 1
         /\ \A i \in 1 .. Len(s) : Append(s, e)[i] = s[i]
         /\ Append(s, e)[Len(s) + 1] = e
OBVIOUS

\* A status change writes its lifecycle event and nothing else.
LEMMA Moves ==
  ASSUME NEW d \in Databases, NEW status \in Statuses
  PROVE  LET e == Event("run.lifecycle", NoCall, 0, status)
             x == Move(d, status)
         IN /\ x \in Databases /\ e \in Events
            /\ x.status = status /\ x.attempt = d.attempt /\ x.lease = d.lease
            /\ x.checkpoint = d.checkpoint /\ x.effects = d.effects /\ x.markers = d.markers
            /\ x.approvals = d.approvals /\ x.events = Append(d.events, e)
<1>1. [d EXCEPT !.status = status] \in Databases
  BY DEF Databases
<1>2. PICK y \in Databases : y = [d EXCEPT !.status = status]
  BY <1>1
<1>3. /\ y.status = status /\ y.attempt = d.attempt /\ y.lease = d.lease
      /\ y.checkpoint = d.checkpoint /\ y.effects = d.effects /\ y.markers = d.markers
      /\ y.approvals = d.approvals /\ y.events = d.events
  BY <1>2 DEF Databases
<1>4. Event("run.lifecycle", NoCall, 0, status) \in Events
  BY EventTypes
<1>5. Move(d, status) = Add(y, Event("run.lifecycle", NoCall, 0, status))
  BY <1>2 DEF Move
<1>6. QED
  BY <1>3, <1>4, <1>5, Adds DEF Frame

\* A status change that also gives the lease columns up.
LEMMA Ends ==
  ASSUME NEW d \in Databases, NEW status \in Statuses
  PROVE  LET e == Event("run.lifecycle", NoCall, 0, status)
             x == Ended(d, status)
         IN /\ x \in Databases /\ e \in Events
            /\ x.status = status /\ x.attempt = d.attempt /\ x.lease = "none"
            /\ x.checkpoint = d.checkpoint /\ x.effects = d.effects /\ x.markers = d.markers
            /\ x.approvals = d.approvals /\ x.events = Append(d.events, e)
<1>1. PICK y \in Databases : y = Move(d, status)
  BY Moves
<1>2. Ended(d, status) = [y EXCEPT !.lease = "none"]
  BY <1>1 DEF Ended
<1>3. /\ Ended(d, status) \in Databases
      /\ Ended(d, status).status = y.status /\ Ended(d, status).attempt = y.attempt
      /\ Ended(d, status).lease = "none" /\ Ended(d, status).checkpoint = y.checkpoint
      /\ Ended(d, status).effects = y.effects /\ Ended(d, status).markers = y.markers
      /\ Ended(d, status).approvals = y.approvals /\ Ended(d, status).events = y.events
  BY <1>2 DEF Databases
<1>4. QED
  BY <1>1, <1>3, Moves

-----------------------------------------------------------------------------
(* Physical attempts.                                                      *)

Effect(p) == [request |-> p.request, call |-> p.call, attempt |-> p.attempt]
Marker(p) == [call |-> p.call, attempt |-> p.attempt]
Said(code, slow, i, j) == [code |-> code, slow |-> slow, result |-> j, request |-> i]

\* The answer to the last request.
LEMMA Answers ==
  ASSUME NEW d \in Databases, NEW p \in Pendings, NEW code \in Codes, NEW slow \in Slow,
         NEW n \in Requested(d, p), \A j \in Requested(d, p) : j <= n
  PROVE  /\ Answer(d, p, code, slow).db = Add(d, ResE(p, code, slow))
         /\ Answer(d, p, code, slow).result = {Said(code, slow, n, Len(d.events) + 1)}
         /\ n \in Nat
<1>1. n \in Nat /\ Requested(d, p) \subseteq Nat
  BY DEF Requested, Positions, Databases
<1>2. (CHOOSE i \in Requested(d, p) : \A j \in Requested(d, p) : j <= i) = n
  BY <1>1
<1>3. Add(d, [Event("tool.result", p.call, p.attempt, code) EXCEPT !.slow = slow]).events
        = Append(d.events, ResE(p, code, slow))
  BY EventTypes, Adds DEF ResE
<1>4. Len(Append(d.events, ResE(p, code, slow))) = Len(d.events) + 1
  BY EventTypes DEF Databases
<1>5. QED
  BY <1>1, <1>2, <1>3, <1>4 DEF Answer, ResE, Said

\* What execute leaves in the rows, in evidence and in the caller's hands.
Rejects(d, o) == o.db = d /\ o.result = {}

Refuses(d, p, o) ==
  /\ gate(d, p) # "pass" /\ gate(d, p) \in Codes
  /\ o.db.effects = d.effects /\ o.db.markers = d.markers
  /\ IF gate(d, p) = "approval_required"
     THEN /\ o.db.approvals = [d.approvals EXCEPT ![p.request] = "pending"]
          /\ \E slow \in Slow :
               /\ o.db.events = Append(Append(Append(d.events, ReqE(p)), AskE(p)),
                                       ResE(p, gate(d, p), slow))
               /\ o.result = {Said(gate(d, p), slow, Len(d.events) + 1, Len(d.events) + 3)}
     ELSE /\ o.db.approvals = d.approvals
          /\ \E slow \in Slow :
               /\ o.db.events = Append(Append(d.events, ReqE(p)), ResE(p, gate(d, p), slow))
               /\ o.result = {Said(gate(d, p), slow, Len(d.events) + 1, Len(d.events) + 2)}

Reads(d, p, o) ==
  /\ gate(d, p) = "pass" /\ o.db.effects = d.effects /\ o.db.markers = d.markers
  /\ o.db.approvals = d.approvals
  /\ \E code \in {"failed", "infrastructure_error", "read", "already_applied"}, slow \in Slow :
       /\ o.db.events = Append(Append(d.events, ReqE(p)), ResE(p, code, slow))
       /\ o.result = {Said(code, slow, Len(d.events) + 1, Len(d.events) + 2)}
       /\ code = "read" => p.request \notin Mutations
       /\ code = "already_applied" => p.request \in Mutations

Mutates(d, p, o) ==
  /\ gate(d, p) = "pass" /\ p.request \in Mutations /\ Existing(d, p.request) = {}
  /\ o.db.effects = d.effects \cup {Effect(p)} /\ o.db.approvals = d.approvals

Applies(d, p, o) ==
  /\ Mutates(d, p, o) /\ o.db.markers = d.markers
  /\ \E slow \in Slow :
       /\ o.db.events = Append(Append(Append(d.events, ReqE(p)), ResE(p, "newly_applied", slow)),
                               EvdE(p))
       /\ o.result = {Said("newly_applied", slow, Len(d.events) + 1, Len(d.events) + 2)}

Marks(d, p, o) ==
  /\ Mutates(d, p, o) /\ p.request \in AfterCommit
  /\ o.db.markers = d.markers \cup {Marker(p)}
  /\ o.db.events = Append(Append(d.events, ReqE(p)), EvdE(p))
  /\ o.result = {}

\* The request is the last one of its attempt.
LEMMA Opens ==
  ASSUME NEW d \in Databases, NEW p \in Pendings
  PROVE  /\ Opened(d, p) \in Databases /\ Frame(d, Opened(d, p))
         /\ Opened(d, p).events = Append(d.events, ReqE(p))
         /\ Opened(d, p).effects = d.effects /\ Opened(d, p).markers = d.markers
         /\ Opened(d, p).approvals = d.approvals
         /\ Len(d.events) + 1 \in Requested(Opened(d, p), p)
         /\ \A j \in Requested(Opened(d, p), p) : j <= Len(d.events) + 1
<1>1. PICK x : x = Opened(d, p)
  OBVIOUS
<1>2. /\ x \in Databases /\ Frame(d, x) /\ x.events = Append(d.events, ReqE(p))
      /\ x.effects = d.effects /\ x.markers = d.markers /\ x.approvals = d.approvals
  BY <1>1, EventTypes, Adds DEF Opened, ReqE
<1>3. d.events \in Seq(Events) /\ ReqE(p) \in Events
  BY EventTypes DEF Databases
<1>4. /\ DOMAIN x.events = 1 .. Len(d.events) + 1 /\ x.events[Len(d.events) + 1] = ReqE(p)
      /\ Len(d.events) \in Nat
  BY <1>2, <1>3, Appended
<1>5. Len(d.events) + 1 \in Requested(x, p)
  BY <1>4, EventFields DEF Requested, Positions, ReqE
<1>6. \A j \in Requested(x, p) : j <= Len(d.events) + 1
  BY <1>4 DEF Requested, Positions
<1>7. QED
  BY <1>1, <1>2, <1>5, <1>6

\* Another event that is no request keeps it the last one.
LEMMA StaysLast ==
  ASSUME NEW d \in Databases, NEW p \in Pendings, NEW n \in Requested(d, p),
         \A j \in Requested(d, p) : j <= n, NEW e \in Events, e.type # "tool.requested",
         NEW x \in Databases, x.events = Append(d.events, e)
  PROVE  n \in Requested(x, p) /\ \A j \in Requested(x, p) : j <= n
<1>1. d.events \in Seq(Events)
  BY DEF Databases
<1>2. /\ DOMAIN d.events = 1 .. Len(d.events) /\ DOMAIN x.events = 1 .. Len(d.events) + 1
      /\ \A i \in 1 .. Len(d.events) : x.events[i] = d.events[i]
      /\ x.events[Len(d.events) + 1] = e /\ Len(d.events) \in Nat
  BY <1>1, Appended
<1>3. Requested(x, p) = Requested(d, p)
  BY <1>2 DEF Requested, Positions
<1>4. QED
  BY <1>3

\* The gate lets a request pass or answers it with a code.
LEMMA GateCodes ==
  ASSUME NEW d \in Databases, NEW p \in Pendings
  PROVE  gate(d, p) \in Codes \cup {"pass"}
BY DEF gate, Codes, WAITS

\* The effect of an attempt, and nothing else.
LEMMA Applying ==
  ASSUME NEW d \in Databases, NEW p \in Pendings, p.request \in Mutations
  PROVE  /\ Applied(d, p) \in Databases /\ Frame(d, Applied(d, p))
         /\ Applied(d, p).events = d.events
         /\ Applied(d, p).effects = d.effects \cup {Effect(p)}
         /\ Applied(d, p).markers = d.markers /\ Applied(d, p).approvals = d.approvals
<1>1. Effect(p) \in Effects
  BY DEF Effect, Effects, Pendings
<1>2. Applied(d, p) = [d EXCEPT !.effects = @ \cup {Effect(p)}]
  BY DEF Applied, Effect
<1>3. QED
  BY <1>1, <1>2 DEF Databases, Frame

\* A marker is added to the rows, nothing else.
LEMMA Marking ==
  ASSUME NEW d \in Databases, NEW p \in Pendings, NEW x,
         x = [d EXCEPT !.markers = @ \cup {Marker(p)}]
  PROVE  /\ x \in Databases /\ Frame(d, x) /\ x.events = d.events /\ x.effects = d.effects
         /\ x.markers = d.markers \cup {Marker(p)} /\ x.approvals = d.approvals
<1>1. Marker(p) \in Markers
  BY DEF Marker, Markers, Pendings
<1>2. QED
  BY <1>1 DEF Databases, Frame

\* Every outcome of an attempt is one of these.
LEMMA Executed ==
  ASSUME NEW d \in Databases, NEW p \in Pendings, NEW o \in execute(d, p)
  PROVE  /\ Frame(d, o.db)
         /\ Rejects(d, o) \/ Refuses(d, p, o) \/ Reads(d, p, o) \/ Applies(d, p, o) \/ Marks(d, p, o)
<1> DEFINE x == Opened(d, p)
           n == Len(d.events) + 1
<1>1. /\ x \in Databases /\ Frame(d, x) /\ x.events = Append(d.events, ReqE(p))
      /\ x.effects = d.effects /\ x.markers = d.markers /\ x.approvals = d.approvals
      /\ n \in Requested(x, p) /\ \A j \in Requested(x, p) : j <= n
  BY Opens
<1>2. Len(x.events) = n /\ n \in Nat
  BY <1>1, EventTypes DEF Databases
<1>3. gate(d, p) \in Codes \cup {"pass"}
  BY GateCodes
<1>4. gate(x, p) = gate(d, p) /\ Existing(x, p.request) = Existing(d, p.request)
  BY <1>1 DEF gate, Existing
<1>5. PICK slow \in Slow :
        o \in IF gate(d, p) # "pass" THEN {Answer(Gated(x, p), p, gate(d, p), slow)}
              ELSE IF ~StreamValid(x) THEN {Rejected(d)}
              ELSE Performed(x, p, slow) \cup Ambiguous(x, p)
  BY DEF execute, Slow
<1> HIDE DEF x, n
<1>r. \A code \in Codes : ResE(p, code, slow) \in Events
  BY EventTypes
<1>e. EvdE(p) \in Events
  BY EventTypes
<1>6. CASE gate(d, p) # "pass"
  <2>1. o = Answer(Gated(x, p), p, gate(d, p), slow)
    BY <1>5, <1>6
  <2>2. CASE gate(d, p) = "approval_required"
    <3> DEFINE y == [x EXCEPT !.approvals[p.request] = "pending"]
               z == Add(y, AskE(p))
    <3>1. Gated(x, p) = z
      BY <1>4, <2>2 DEF Gated, AskE
    <3>2. /\ y \in Databases /\ Frame(d, y) /\ y.events = x.events /\ y.effects = x.effects
          /\ y.markers = x.markers
          /\ y.approvals = [d.approvals EXCEPT ![p.request] = "pending"]
      BY <1>1 DEF Databases, Frame
    <3> HIDE DEF y
    <3>3. AskE(p) \in Events /\ AskE(p).type # "tool.requested"
      BY EventTypes, EventFields DEF AskE
    <3>4. /\ z \in Databases /\ Frame(y, z) /\ z.events = Append(x.events, AskE(p))
          /\ z.effects = y.effects /\ z.markers = y.markers /\ z.approvals = y.approvals
      BY <3>2, <3>3, Adds
    <3> HIDE DEF z
    <3>5. n \in Requested(z, p) /\ \A j \in Requested(z, p) : j <= n
      BY <1>1, <3>3, <3>4, StaysLast
    <3>6. /\ o.db = Add(z, ResE(p, gate(d, p), slow))
          /\ o.result = {Said(gate(d, p), slow, n, Len(z.events) + 1)}
      BY <1>3, <1>6, <2>1, <3>1, <3>4, <3>5, Answers
    <3>7. /\ Frame(z, o.db) /\ o.db.events = Append(z.events, ResE(p, gate(d, p), slow))
          /\ o.db.effects = z.effects /\ o.db.markers = z.markers /\ o.db.approvals = z.approvals
      <4>1. ResE(p, gate(d, p), slow) \in Events
        BY <1>3, <1>6, <1>r
      <4>2. QED
        BY <4>1, <3>4, <3>6, Adds
    <3>8. Len(z.events) + 1 = n + 2 /\ n + 2 = Len(d.events) + 3
      <4>1. Len(z.events) = Len(x.events) + 1 /\ Len(d.events) \in Nat
        BY <1>1, <3>3, <3>4, Appended DEF Databases
      <4>2. QED
        BY <1>2, <4>1 DEF n
    <3>9. Refuses(d, p, o)
      BY <1>1, <1>3, <1>6, <2>2, <3>2, <3>4, <3>6, <3>7, <3>8 DEF Refuses, n
    <3>10. QED
      BY <3>2, <3>4, <3>7, <3>9 DEF Frame
  <2>3. CASE gate(d, p) # "approval_required"
    <3>1. Gated(x, p) = x
      BY <1>4, <2>3 DEF Gated
    <3>2. /\ o.db = Add(x, ResE(p, gate(d, p), slow))
          /\ o.result = {Said(gate(d, p), slow, n, Len(x.events) + 1)}
      BY <1>1, <1>3, <1>6, <2>1, <3>1, Answers
    <3>3. /\ Frame(x, o.db) /\ o.db.events = Append(x.events, ResE(p, gate(d, p), slow))
          /\ o.db.effects = x.effects /\ o.db.markers = x.markers /\ o.db.approvals = x.approvals
      <4>1. ResE(p, gate(d, p), slow) \in Events
        BY <1>3, <1>6, <1>r
      <4>2. QED
        BY <4>1, <1>1, <3>2, Adds
    <3>4. Len(x.events) + 1 = Len(d.events) + 2
      BY <1>2 DEF n, Databases
    <3>5. Refuses(d, p, o)
      BY <1>1, <1>3, <1>6, <2>3, <3>2, <3>3, <3>4 DEF Refuses, n
    <3>6. QED
      BY <1>1, <3>3, <3>5 DEF Frame
  <2>4. QED
    BY <2>2, <2>3
<1>7. CASE gate(d, p) = "pass" /\ o = Rejected(d)
  BY <1>7 DEF Rejected, Rejects, Frame
<1>8. CASE gate(d, p) = "pass" /\ o \in Performed(x, p, slow)
  <2>1. PICK code \in {"failed", "infrastructure_error", "read", "already_applied", "newly_applied"} :
          /\ code = "read" => p.request \notin Mutations
          /\ code = "already_applied" => p.request \in Mutations
          /\ code = "newly_applied" => p.request \in Mutations /\ Existing(d, p.request) = {}
          /\ IF code = "newly_applied"
             THEN o = [Answer(Applied(x, p), p, code, slow) EXCEPT !.db = StateEvidence(@, p)]
             ELSE o = Answer(x, p, code, slow)
    BY <1>4, <1>8 DEF Performed
  <2>2. code \in Codes
    BY DEF Codes, SUCCESSES
  <2>3. CASE code # "newly_applied"
    <3>1. o.db = Add(x, ResE(p, code, slow)) /\ o.result = {Said(code, slow, n, Len(x.events) + 1)}
      BY <1>1, <2>1, <2>2, <2>3, Answers
    <3>2. /\ Frame(x, o.db) /\ o.db.events = Append(x.events, ResE(p, code, slow))
          /\ o.db.effects = x.effects /\ o.db.markers = x.markers /\ o.db.approvals = x.approvals
      <4>1. ResE(p, code, slow) \in Events
        BY <2>2, <1>r
      <4>2. QED
        BY <4>1, <1>1, <3>1, Adds
    <3>3. Len(x.events) + 1 = Len(d.events) + 2
      BY <1>2 DEF n, Databases
    <3>4. Reads(d, p, o)
      BY <1>1, <1>8, <2>1, <2>3, <3>1, <3>2, <3>3 DEF Reads, n
    <3>5. QED
      BY <1>1, <3>2, <3>4 DEF Frame
  <2>4. CASE code = "newly_applied"
    <3> DEFINE y == Applied(x, p)
               a == Answer(y, p, code, slow)
    <3>1. /\ y \in Databases /\ Frame(x, y) /\ y.events = x.events
          /\ y.effects = x.effects \cup {Effect(p)} /\ y.markers = x.markers
          /\ y.approvals = x.approvals
      BY <1>1, <2>1, <2>4, Applying
    <3> HIDE DEF y
    <3>2. n \in Requested(y, p) /\ \A j \in Requested(y, p) : j <= n
      BY <1>1, <3>1 DEF Requested, Positions
    <3>3. /\ a.db = Add(y, ResE(p, code, slow)) /\ a.result = {Said(code, slow, n, Len(y.events) + 1)}
      BY <2>2, <3>1, <3>2, Answers
    <3>4. /\ a.db \in Databases /\ Frame(y, a.db) /\ a.db.events = Append(y.events, ResE(p, code, slow))
          /\ a.db.effects = y.effects /\ a.db.markers = y.markers /\ a.db.approvals = y.approvals
      <4>1. ResE(p, code, slow) \in Events
        BY <2>2, <1>r
      <4>2. QED
        BY <4>1, <3>1, <3>3, Adds
    <3>5. o.db = StateEvidence(a.db, p) /\ o.result = a.result
      <4>1. o = [a EXCEPT !.db = StateEvidence(@, p)]
        BY <2>1, <2>4 DEF y
      <4>2. /\ DOMAIN a = {"db", "result"}
        BY DEF Answer
      <4> HIDE DEF a
      <4>3. QED
        BY <4>1, <4>2
    <3> HIDE DEF a
    <3>6. /\ Frame(a.db, o.db) /\ o.db.events = Append(a.db.events, EvdE(p))
          /\ o.db.effects = a.db.effects /\ o.db.markers = a.db.markers
          /\ o.db.approvals = a.db.approvals
      <4>1. PICK w \in Databases : w = a.db
        BY <3>4
      <4>2. o.db = Add(w, EvdE(p))
        BY <3>5, <4>1 DEF StateEvidence, EvdE
      <4>3. QED
        BY <1>e, <4>1, <4>2, Adds
    <3>7. Len(y.events) + 1 = Len(d.events) + 2
      BY <1>2, <3>1 DEF n, Databases
    <3>8. Applies(d, p, o)
      <4>1. Mutates(d, p, o) /\ o.db.markers = d.markers
        BY <1>1, <1>8, <2>1, <2>4, <3>1, <3>4, <3>6 DEF Mutates
      <4>2. o.db.events = Append(Append(Append(d.events, ReqE(p)), ResE(p, "newly_applied", slow)),
                                 EvdE(p))
        BY <1>1, <2>4, <3>1, <3>4, <3>6
      <4>3. o.result = {Said("newly_applied", slow, Len(d.events) + 1, Len(d.events) + 2)}
        BY <2>4, <3>3, <3>5, <3>7 DEF n
      <4>4. QED
        BY <4>1, <4>2, <4>3 DEF Applies
    <3>9. QED
      BY <1>1, <3>1, <3>4, <3>6, <3>8 DEF Frame
  <2>5. QED
    BY <2>3, <2>4
<1>9. CASE gate(d, p) = "pass" /\ o \in Ambiguous(x, p)
  <2> DEFINE y == Applied(x, p)
             z == StateEvidence(y, p)
  <2>1. /\ p.request \in AfterCommit /\ Existing(d, p.request) = {} /\ o.result = {}
        /\ o.db = [z EXCEPT !.markers = @ \cup {Marker(p)}]
    BY <1>4, <1>9 DEF Ambiguous, Marker
  <2>2. /\ y \in Databases /\ Frame(x, y) /\ y.events = x.events
        /\ y.effects = x.effects \cup {Effect(p)} /\ y.markers = x.markers
        /\ y.approvals = x.approvals
    BY <1>1, <2>1, Constants, Applying
  <2> HIDE DEF y
  <2>3. /\ z \in Databases /\ Frame(y, z) /\ z.events = Append(y.events, EvdE(p))
        /\ z.effects = y.effects /\ z.markers = y.markers /\ z.approvals = y.approvals
    <3>1. z = Add(y, EvdE(p))
      BY DEF StateEvidence, EvdE
    <3>2. QED
      BY <1>e, <3>1, <2>2, Adds
  <2> HIDE DEF z
  <2>4. /\ Frame(z, o.db) /\ o.db.events = z.events /\ o.db.effects = z.effects
        /\ o.db.markers = z.markers \cup {Marker(p)} /\ o.db.approvals = z.approvals
    <3>2. PICK w \in Databases : w = z
      BY <2>3
    <3>3. o.db = [w EXCEPT !.markers = @ \cup {Marker(p)}]
      BY <2>1, <3>2
    <3>4. QED
      BY <3>2, <3>3, Marking
  <2>5. Marks(d, p, o)
    BY <1>1, <1>9, <2>1, <2>2, <2>3, <2>4, Constants DEF Marks, Mutates
  <2>6. QED
    BY <1>1, <2>2, <2>3, <2>4, <2>5 DEF Frame
<1>10. QED
  BY <1>5, <1>6, <1>7, <1>8, <1>9
-----------------------------------------------------------------------------
(* Checkpoints.                                                            *)

Turn(p, r) == [kind |-> "tool", call |-> p.call, attempt |-> p.attempt, code |-> r.code,
               request |-> r.request, result |-> r.result]

\* The pending calls after the first one was answered.
Left(c, r) == IF r.code \in WAITS THEN <<retried(Head(c.pending))>> \o Tail(c.pending)
                                  ELSE Tail(c.pending)

\* The first pending call, and the rest.
LEMMA Heads ==
  ASSUME NEW c \in Checkpoints, c.pending # <<>>
  PROVE  /\ Head(c.pending) \in Pendings /\ Tail(c.pending) \in Seq(Pendings)
         /\ c.pending \in Seq(Pendings) /\ Len(c.pending) \in Nat \ {0}
         /\ Head(c.pending) = c.pending[1] /\ DOMAIN c.pending = 1 .. Len(c.pending)
         /\ Len(Tail(c.pending)) = Len(c.pending) - 1
         /\ DOMAIN Tail(c.pending) = 1 .. Len(c.pending) - 1
         /\ \A k \in 1 .. Len(c.pending) - 1 : Tail(c.pending)[k] = c.pending[k + 1]
BY DEF Checkpoints

\* A call that waited keeps its identity and gets the next attempt.
LEMMA Retries ==
  ASSUME NEW p \in Pendings
  PROVE  /\ retried(p) \in Pendings /\ retried(p).call = p.call
         /\ retried(p).request = p.request /\ retried(p).attempt = p.attempt + 1
         /\ retried(p).approval = TRUE
<1>1. p.attempt + 1 \in Attempts /\ TRUE \in BOOLEAN
  BY DEF Pendings, Attempts
<1>2. retried(p) = [p EXCEPT !.attempt = p.attempt + 1, !.approval = TRUE]
  BY DEF retried
<1>3. QED
  BY <1>1, <1>2 DEF Pendings

\* Steps and tool attempts are counted.
LEMMA Counts ==
  ASSUME NEW c \in Checkpoints
  PROVE  /\ steps(c) \in Nat /\ tool_attempts(c) \in Nat
         /\ IsFiniteSet({i \in DOMAIN c.trajectory : Assistant(c.trajectory[i])})
         /\ IsFiniteSet({i \in DOMAIN c.trajectory : Tool(c.trajectory[i])})
<1>1. DOMAIN c.trajectory = 1 .. Len(c.trajectory) /\ Len(c.trajectory) \in Nat
  BY DEF Checkpoints
<1>2. IsFiniteSet(DOMAIN c.trajectory)
  BY <1>1, FS_Interval
<1>3. /\ IsFiniteSet({i \in DOMAIN c.trajectory : Assistant(c.trajectory[i])})
      /\ IsFiniteSet({i \in DOMAIN c.trajectory : Tool(c.trajectory[i])})
  BY <1>2, FS_Subset
<1>4. QED
  BY <1>3, FS_CardinalityType DEF steps, tool_attempts

\* What is left of the pending calls, one by one.
LEMMA LeftIs ==
  ASSUME NEW c \in Checkpoints, c.pending # <<>>, NEW r \in Results
  PROVE  /\ Left(c, r) \in Seq(Pendings)
         /\ r.code \in WAITS =>
              /\ DOMAIN Left(c, r) = DOMAIN c.pending
              /\ Left(c, r)[1] = retried(Head(c.pending))
              /\ \A k \in DOMAIN c.pending \ {1} : Left(c, r)[k] = c.pending[k]
         /\ r.code \notin WAITS =>
              /\ DOMAIN Left(c, r) = 1 .. Len(c.pending) - 1
              /\ \A k \in DOMAIN Left(c, r) : Left(c, r)[k] = c.pending[k + 1]
<1>1. PICK t \in Seq(Pendings) : t = Tail(c.pending)
  BY Heads
<1>2. PICK q \in Pendings : q = retried(Head(c.pending))
  BY Heads, Retries
<1>3. /\ Len(t) = Len(c.pending) - 1 /\ Len(c.pending) \in Nat \ {0}
      /\ DOMAIN c.pending = 1 .. Len(c.pending)
      /\ \A k \in 1 .. Len(c.pending) - 1 : t[k] = c.pending[k + 1]
  BY <1>1, Heads
<1>4. CASE r.code \in WAITS
  <2>1. Left(c, r) = <<q>> \o t
    BY <1>1, <1>2, <1>4 DEF Left
  <2>2. /\ Left(c, r) \in Seq(Pendings) /\ DOMAIN Left(c, r) = 1 .. Len(t) + 1
        /\ Left(c, r)[1] = q /\ \A k \in 2 .. Len(t) + 1 : Left(c, r)[k] = t[k - 1]
    BY <2>1
  <2>3. ASSUME NEW k \in DOMAIN c.pending \ {1}
        PROVE  Left(c, r)[k] = c.pending[k]
    <3>1. k \in 2 .. Len(t) + 1 /\ k - 1 \in 1 .. Len(c.pending) - 1 /\ (k - 1) + 1 = k
      BY <1>3
    <3>2. Left(c, r)[k] = t[k - 1] /\ t[k - 1] = c.pending[(k - 1) + 1]
      BY <1>3, <2>2, <3>1
    <3>3. QED
      BY <3>1, <3>2
  <2>4. DOMAIN Left(c, r) = DOMAIN c.pending
    BY <1>3, <2>2
  <2>5. QED
    BY <1>2, <1>4, <2>2, <2>3, <2>4
<1>5. CASE r.code \notin WAITS
  BY <1>1, <1>3, <1>5 DEF Left
<1>6. QED
  BY <1>4, <1>5

\* The checkpoint after a tool attempt, field by field.
LEMMA AfterTool ==
  ASSUME NEW d \in Databases, NEW c \in Checkpoints, c.pending # <<>>, NEW r \in Results
  PROVE  LET x == checkpoint_after_tool(d, c, r)
         IN /\ x \in Checkpoints /\ Turn(Head(c.pending), r) \in TTurns
            /\ x.version = c.version + 1 /\ x.last_event_sequence = Len(d.events)
            /\ x.trajectory = Append(c.trajectory, Turn(Head(c.pending), r))
            /\ x.pending = Left(c, r)
            /\ x.status = IF r.code \in WAITS THEN "waiting_for_approval" ELSE "active"
            /\ x.spent = IF r.slow THEN c.spent \cup {"wall"} ELSE c.spent
<1> DEFINE t == Turn(Head(c.pending), r)
           s == IF r.slow THEN c.spent \cup {"wall"} ELSE c.spent
           v == IF r.code \in WAITS THEN "waiting_for_approval" ELSE "active"
<1>1. t \in TTurns
  BY Heads DEF Turn, TTurns, Results, Pendings
<1>2. Append(c.trajectory, t) \in Seq(ATurns \cup TTurns)
  BY <1>1 DEF Checkpoints
<1>3. Left(c, r) \in Seq(Pendings)
  BY LeftIs
<1>4. s \in SUBSET Overruns
  BY DEF Results, Slow, Checkpoints
<1>5. Len(d.events) \in Nat /\ c.version + 1 \in Nat
  BY DEF Databases, Checkpoints
<1>6. v \in {"active", "waiting_for_approval", "final"}
  OBVIOUS
<1>7. checkpoint_after_tool(d, c, r) =
        [c EXCEPT !.version = c.version + 1, !.last_event_sequence = Len(d.events),
                  !.trajectory = Append(c.trajectory, t), !.pending = Left(c, r),
                  !.status = v, !.spent = s]
  BY DEF checkpoint_after_tool, Turn, Left
<1> HIDE DEF t, s, v
<1>8. /\ checkpoint_after_tool(d, c, r) \in Checkpoints
      /\ checkpoint_after_tool(d, c, r).version = c.version + 1
      /\ checkpoint_after_tool(d, c, r).last_event_sequence = Len(d.events)
      /\ checkpoint_after_tool(d, c, r).trajectory = Append(c.trajectory, t)
      /\ checkpoint_after_tool(d, c, r).pending = Left(c, r)
      /\ checkpoint_after_tool(d, c, r).status = v
      /\ checkpoint_after_tool(d, c, r).spent = s
  BY <1>2, <1>3, <1>4, <1>5, <1>6, <1>7 DEF Checkpoints
<1>9. QED
  BY <1>1, <1>8 DEF t, s, v

\* The result recovery finds is that of the two events.
LEMMA RecordedIs ==
  ASSUME NEW d \in Databases, NEW p \in Pendings, Requested(d, p) # {}, Answered(d, p) # {}
  PROVE  /\ Recorded(d, p) \in Results
         /\ Recorded(d, p).request \in Requested(d, p)
         /\ Recorded(d, p).result \in Answered(d, p)
         /\ Recorded(d, p).code = d.events[Recorded(d, p).result].info
<1> DEFINE i == CHOOSE k \in Requested(d, p) : TRUE
           j == CHOOSE k \in Answered(d, p) : TRUE
<1>1. i \in Requested(d, p) /\ j \in Answered(d, p)
  OBVIOUS
<1>2. Recorded(d, p) = [code |-> d.events[j].info, slow |-> d.events[j].slow,
                        request |-> i, result |-> j]
  BY DEF Recorded
<1> HIDE DEF i, j
<1>3. i \in DOMAIN d.events /\ j \in DOMAIN d.events /\ d.events[j].type = "tool.result"
  BY <1>1 DEF Requested, Answered, Positions
<1>4. d.events[j] \in Events /\ i \in Nat /\ j \in Nat
  BY <1>3 DEF Databases
<1>5. d.events[j].info \in Codes /\ d.events[j].slow \in Slow
  BY <1>3, <1>4 DEF Events
<1>6. QED
  BY <1>1, <1>2, <1>4, <1>5 DEF Results

-----------------------------------------------------------------------------
(* How the rows may grow.                                                  *)

Grows(d, x) ==
  /\ x \in Databases /\ Len(d.events) <= Len(x.events)
  /\ \A i \in 1 .. Len(d.events) : x.events[i] = d.events[i]

News(d, x) == Len(d.events) + 1 .. Len(x.events)

ToolTypes == {"tool.requested", "tool.result", "state.evidence_recorded"}

\* No tool runs: leases, operators, agent steps, the end of the Run.
Calm(d, x) ==
  /\ Grows(d, x) /\ x.effects = d.effects /\ x.markers = d.markers
  /\ \A i \in News(d, x) : x.events[i].type \notin ToolTypes
  /\ \A q \in Requests : x.approvals[q] # d.approvals[q] =>
       /\ d.approvals[q] = "pending" /\ x.approvals[q] \in {"approved", "denied"}
       /\ \E i \in News(d, x) : x.events[i].type = "approval.resolved" /\ x.events[i].info = q

\* And no agent either.
Quiet(d, x) ==
  /\ Calm(d, x) /\ x.checkpoint = d.checkpoint
  /\ \A i \in News(d, x) : x.events[i].type # "agent.step"

\* The events of any rows, and their positions.
LEMMA Sizes ==
  ASSUME NEW d \in Databases
  PROVE  /\ d.events \in Seq(Events) /\ Len(d.events) \in Nat
         /\ DOMAIN d.events = 1 .. Len(d.events)
         /\ \A i \in DOMAIN d.events : d.events[i] \in Events /\ i \in Nat
         /\ d.checkpoint \in Checkpoints
BY DEF Databases

\* Rows that grew by one event.
LEMMA GrowsBy ==
  ASSUME NEW d \in Databases, NEW x \in Databases, NEW e \in Events,
         x.events = Append(d.events, e)
  PROVE  /\ Grows(d, x) /\ News(d, x) = {Len(d.events) + 1}
         /\ x.events[Len(d.events) + 1] = e /\ Len(x.events) = Len(d.events) + 1
<1>1. /\ Len(x.events) = Len(d.events) + 1 /\ Len(d.events) \in Nat
      /\ \A i \in 1 .. Len(d.events) : x.events[i] = d.events[i]
      /\ x.events[Len(d.events) + 1] = e
  BY Sizes, Appended
<1>2. QED
  BY <1>1 DEF Grows, News

\* A lifecycle event, and columns of the Run row.
LEMMA QuietMove ==
  ASSUME NEW d \in Databases, NEW status \in Statuses
  PROVE  Quiet(d, Move(d, status)) /\ Quiet(d, Ended(d, status))
<1>1. /\ Move(d, status) \in Databases /\ Ended(d, status) \in Databases
      /\ Move(d, status).events = Append(d.events, Event("run.lifecycle", NoCall, 0, status))
      /\ Ended(d, status).events = Append(d.events, Event("run.lifecycle", NoCall, 0, status))
      /\ Event("run.lifecycle", NoCall, 0, status) \in Events
  BY Moves, Ends
<1>2. Event("run.lifecycle", NoCall, 0, status).type \notin ToolTypes \cup {"agent.step"}
  BY EventFields DEF ToolTypes
<1>3. /\ Grows(d, Move(d, status)) /\ Grows(d, Ended(d, status))
      /\ \A i \in News(d, Move(d, status)) :
           Move(d, status).events[i].type \notin ToolTypes \cup {"agent.step"}
      /\ \A i \in News(d, Ended(d, status)) :
           Ended(d, status).events[i].type \notin ToolTypes \cup {"agent.step"}
  BY <1>1, <1>2, GrowsBy
<1>4. QED
  BY <1>3, Moves, Ends DEF Quiet, Calm

\* Two quiet steps are a quiet step.
LEMMA QuietSteps ==
  ASSUME NEW d \in Databases, NEW x \in Databases, NEW y \in Databases, Quiet(d, x), Quiet(x, y)
  PROVE  Quiet(d, y)
<1>1. Grows(d, y) /\ News(d, y) = News(d, x) \cup News(x, y)
  BY Sizes DEF Quiet, Calm, Grows, News
<1>2. \A i \in News(d, x) : y.events[i] = x.events[i]
  BY Sizes DEF Quiet, Calm, Grows, News
<1>3. QED
  BY <1>1, <1>2 DEF Quiet, Calm

-----------------------------------------------------------------------------
(* What an attempt adds.                                                   *)

\* Two more elements.
LEMMA AppendedTwo ==
  ASSUME NEW S, NEW s \in Seq(S), NEW a \in S, NEW b \in S,
         NEW t, t = Append(Append(s, a), b)
  PROVE  /\ Len(t) = Len(s) + 2 /\ \A i \in 1 .. Len(s) : t[i] = s[i]
         /\ t[Len(s) + 1] = a /\ t[Len(s) + 2] = b
OBVIOUS

\* Three more elements.
LEMMA AppendedThree ==
  ASSUME NEW S, NEW s \in Seq(S), NEW a \in S, NEW b \in S, NEW c \in S,
         NEW t, t = Append(Append(Append(s, a), b), c)
  PROVE  /\ Len(t) = Len(s) + 3 /\ \A i \in 1 .. Len(s) : t[i] = s[i]
         /\ t[Len(s) + 1] = a /\ t[Len(s) + 2] = b /\ t[Len(s) + 3] = c
OBVIOUS

\* An attempt that left evidence: its request first, each type of event once.
Tried(d, p, x) ==
  /\ Grows(d, x) /\ Frame(d, x) /\ Len(d.events) < Len(x.events)
  /\ x.events[Len(d.events) + 1] = ReqE(p)
  /\ \A i \in News(d, x) :
       /\ x.events[i].type \in ToolTypes \cup {"approval.requested"}
       /\ x.events[i].call = p.call /\ x.events[i].attempt = p.attempt
       /\ x.events[i].type = "state.evidence_recorded" =>
            x.events[i].info = p.request /\ gate(d, p) = "pass"
       /\ \A j \in News(d, x) : x.events[i].type = x.events[j].type => i = j
  /\ d.effects \subseteq x.effects /\ x.effects \subseteq d.effects \cup {Effect(p)}
  /\ d.markers \subseteq x.markers /\ x.markers \subseteq d.markers \cup {Marker(p)}
  /\ \/ x.approvals = d.approvals
     \/ /\ gate(d, p) = "approval_required"
        /\ x.approvals = [d.approvals EXCEPT ![p.request] = "pending"]

\* The result handed back is the one in evidence.
Found(x, p, r) ==
  /\ r \in Results /\ r.request \in Requested(x, p) /\ r.result \in Answered(x, p)
  /\ r.code = x.events[r.result].info

\* An attempt of two events: the request, and its result or its effect.
LEMMA TriedTwo ==
  ASSUME NEW d \in Databases, NEW p \in Pendings, NEW x, Frame(d, x), NEW b \in Events,
         b.call = p.call, b.attempt = p.attempt,
         b.type \in {"tool.result", "state.evidence_recorded"},
         b.type = "state.evidence_recorded" => b.info = p.request /\ gate(d, p) = "pass",
         x.events = Append(Append(d.events, ReqE(p)), b),
         d.effects \subseteq x.effects, x.effects \subseteq d.effects \cup {Effect(p)},
         d.markers \subseteq x.markers, x.markers \subseteq d.markers \cup {Marker(p)},
         x.approvals = d.approvals
  PROVE  /\ Tried(d, p, x) /\ DOMAIN x.events = 1 .. Len(d.events) + 2
         /\ x.events[Len(d.events) + 2] = b /\ Len(d.events) + 1 \in Requested(x, p)
         /\ b.type = "tool.result" => Len(d.events) + 2 \in Answered(x, p)
<1> DEFINE n == Len(d.events)
<1>1. ReqE(p) \in Events /\ x \in Databases /\ n \in Nat /\ d.events \in Seq(Events)
  BY EventTypes, Sizes DEF Frame
<1>2. /\ Len(x.events) = n + 2 /\ \A i \in 1 .. n : x.events[i] = d.events[i]
      /\ x.events[n + 1] = ReqE(p) /\ x.events[n + 2] = b
  BY <1>1, AppendedTwo
<1>3. /\ ReqE(p).type = "tool.requested" /\ ReqE(p).call = p.call /\ ReqE(p).attempt = p.attempt
  BY EventFields DEF ReqE
<1> HIDE DEF n
<1>4. Grows(d, x) /\ News(d, x) = {n + 1, n + 2}
  BY <1>1, <1>2 DEF Grows, News, n
<1>5. DOMAIN x.events = 1 .. n + 2
  BY <1>1, <1>2, Sizes
<1>6. n + 1 \in Requested(x, p) /\ (b.type = "tool.result" => n + 2 \in Answered(x, p))
  BY <1>1, <1>2, <1>3, <1>5 DEF Requested, Answered, Positions
<1>7. Tried(d, p, x)
  BY <1>1, <1>2, <1>3, <1>4 DEF Tried, ToolTypes, n
<1>8. QED
  BY <1>2, <1>5, <1>6, <1>7 DEF n

AsksFirst(d, p, x, b, c) ==
  /\ b.type = "approval.requested" /\ c.type = "tool.result" /\ gate(d, p) = "approval_required"
  /\ x.approvals = [d.approvals EXCEPT ![p.request] = "pending"]
ShowsLast(d, p, x, b, c) ==
  /\ b.type = "tool.result" /\ c.type = "state.evidence_recorded" /\ c.info = p.request
  /\ gate(d, p) = "pass" /\ x.approvals = d.approvals

\* An attempt of three events: the request, and an approval or an effect with the result.
LEMMA TriedThree ==
  ASSUME NEW d \in Databases, NEW p \in Pendings, NEW x, Frame(d, x),
         NEW b \in Events, NEW c \in Events,
         b.call = p.call, b.attempt = p.attempt, c.call = p.call, c.attempt = p.attempt,
         AsksFirst(d, p, x, b, c) \/ ShowsLast(d, p, x, b, c),
         x.events = Append(Append(Append(d.events, ReqE(p)), b), c),
         d.effects \subseteq x.effects, x.effects \subseteq d.effects \cup {Effect(p)},
         x.markers = d.markers
  PROVE  /\ Tried(d, p, x) /\ DOMAIN x.events = 1 .. Len(d.events) + 3
         /\ x.events[Len(d.events) + 2] = b /\ x.events[Len(d.events) + 3] = c
         /\ Len(d.events) + 1 \in Requested(x, p)
         /\ b.type = "tool.result" => Len(d.events) + 2 \in Answered(x, p)
         /\ c.type = "tool.result" => Len(d.events) + 3 \in Answered(x, p)
<1> DEFINE n == Len(d.events)
<1>1. ReqE(p) \in Events /\ x \in Databases /\ n \in Nat /\ d.events \in Seq(Events)
  BY EventTypes, Sizes DEF Frame
<1>2. /\ Len(x.events) = n + 3 /\ \A i \in 1 .. n : x.events[i] = d.events[i]
      /\ x.events[n + 1] = ReqE(p) /\ x.events[n + 2] = b /\ x.events[n + 3] = c
  BY <1>1, AppendedThree
<1>3. /\ ReqE(p).type = "tool.requested" /\ ReqE(p).call = p.call /\ ReqE(p).attempt = p.attempt
  BY EventFields DEF ReqE
<1> HIDE DEF n
<1>4. Grows(d, x) /\ News(d, x) = {n + 1, n + 2, n + 3}
  <2>1. Grows(d, x)
    BY <1>1, <1>2 DEF Grows, n
  <2>2. News(d, x) = n + 1 .. n + 3
    BY <1>2 DEF News, n
  <2>3. n + 1 .. n + 3 = {n + 1, n + 2, n + 3}
    BY <1>1
  <2>4. QED
    BY <2>1, <2>2, <2>3
<1>5. DOMAIN x.events = 1 .. n + 3
  BY <1>1, <1>2, Sizes
<1>6. /\ n + 1 \in Requested(x, p) /\ (b.type = "tool.result" => n + 2 \in Answered(x, p))
      /\ (c.type = "tool.result" => n + 3 \in Answered(x, p))
  BY <1>1, <1>2, <1>3, <1>5 DEF Requested, Answered, Positions, AsksFirst, ShowsLast
<1>7. Tried(d, p, x)
  BY <1>1, <1>2, <1>3, <1>4 DEF Tried, ToolTypes, n, AsksFirst, ShowsLast
<1>8. QED
  BY <1>2, <1>5, <1>6, <1>7 DEF n

\* The fields of a result handed back.
LEMMA SaidFields ==
  \A code, slow, i, j : /\ Said(code, slow, i, j).code = code /\ Said(code, slow, i, j).request = i
                        /\ Said(code, slow, i, j).result = j
                        /\ (code \in Codes /\ slow \in Slow /\ i \in Nat /\ j \in Nat
                              => Said(code, slow, i, j) \in Results)
BY DEF Said, Results

\* Whatever comes of an attempt that leaves evidence, its request comes first.
LEMMA TriedIs ==
  ASSUME NEW d \in Databases, NEW p \in Pendings, NEW o \in execute(d, p), ~Rejects(d, o)
  PROVE  /\ Tried(d, p, o.db)
         /\ \A r \in o.result : Found(o.db, p, r)
         /\ o.result = {} \/ o.db.markers # d.markers => Marks(d, p, o)
<1> DEFINE n == Len(d.events)
           x == o.db
<1>1. /\ Frame(d, x)
      /\ Refuses(d, p, o) \/ Reads(d, p, o) \/ Applies(d, p, o) \/ Marks(d, p, o)
  BY Executed
<1>2. /\ AskE(p) \in Events /\ EvdE(p) \in Events
      /\ \A code \in Codes, slow \in Slow : ResE(p, code, slow) \in Events
  BY EventTypes
<1>3. /\ AskE(p).type = "approval.requested" /\ AskE(p).call = p.call
      /\ AskE(p).attempt = p.attempt
      /\ EvdE(p).type = "state.evidence_recorded" /\ EvdE(p).call = p.call
      /\ EvdE(p).attempt = p.attempt /\ EvdE(p).info = p.request
  BY EventFields DEF AskE, EvdE
<1>4. n \in Nat
  BY Sizes
<1>5. "failed" \in Codes /\ "infrastructure_error" \in Codes /\ "read" \in Codes
      /\ "already_applied" \in Codes /\ "newly_applied" \in Codes
  BY DEF Codes, SUCCESSES
<1>6. ASSUME NEW code \in Codes, NEW slow \in Slow, NEW i \in {n + 2, n + 3},
             n + 1 \in Requested(x, p), i \in Answered(x, p), x.events[i] = ResE(p, code, slow)
      PROVE  Found(x, p, Said(code, slow, n + 1, i))
  BY <1>4, <1>6, SaidFields, EventFields DEF Found
<1> HIDE DEF x, n
<1>7. CASE Refuses(d, p, o) /\ gate(d, p) = "approval_required"
  <2>1. PICK slow \in Slow :
          /\ x.events = Append(Append(Append(d.events, ReqE(p)), AskE(p)), ResE(p, gate(d, p), slow))
          /\ o.result = {Said(gate(d, p), slow, n + 1, n + 3)}
    BY <1>7 DEF Refuses, x, n
  <2>2. gate(d, p) \in Codes /\ x.effects = d.effects /\ x.markers = d.markers
        /\ x.approvals = [d.approvals EXCEPT ![p.request] = "pending"]
    BY <1>7 DEF Refuses, x
  <2>3. PICK c \in Events : c = ResE(p, gate(d, p), slow)
    BY <1>2, <2>2
  <2>4. c.type = "tool.result" /\ c.call = p.call /\ c.attempt = p.attempt
    BY <2>3, EventFields
  <2>5. Tried(d, p, x) /\ n + 1 \in Requested(x, p) /\ n + 3 \in Answered(x, p)
        /\ x.events[n + 3] = c
    <3>1. /\ x.events = Append(Append(Append(d.events, ReqE(p)), AskE(p)), c)
          /\ d.effects \subseteq x.effects /\ x.effects \subseteq d.effects \cup {Effect(p)}
      BY <2>1, <2>2, <2>3
    <3>2. PICK q \in Events : q = AskE(p)
      BY <1>2
    <3>3. /\ x.events = Append(Append(Append(d.events, ReqE(p)), q), c)
          /\ q.type = "approval.requested" /\ q.call = p.call /\ q.attempt = p.attempt
      BY <1>3, <3>1, <3>2
    <3>4. AsksFirst(d, p, x, q, c)
      BY <1>7, <2>2, <2>4, <3>3 DEF AsksFirst
    <3>5. QED
      BY <1>1, <2>2, <2>4, <3>1, <3>3, <3>4, TriedThree DEF n
  <2>6. Found(x, p, Said(gate(d, p), slow, n + 1, n + 3))
    BY <1>6, <2>2, <2>3, <2>5
  <2>7. o.result # {} /\ \A r \in o.result : r = Said(gate(d, p), slow, n + 1, n + 3)
    BY <2>1
  <2>8. QED
    BY <2>2, <2>5, <2>6, <2>7 DEF x
<1>8. CASE Refuses(d, p, o) /\ gate(d, p) # "approval_required"
  <2>1. PICK slow \in Slow :
          /\ x.events = Append(Append(d.events, ReqE(p)), ResE(p, gate(d, p), slow))
          /\ o.result = {Said(gate(d, p), slow, n + 1, n + 2)}
    BY <1>8 DEF Refuses, x, n
  <2>2. gate(d, p) \in Codes /\ x.effects = d.effects /\ x.markers = d.markers
        /\ x.approvals = d.approvals
    BY <1>8 DEF Refuses, x
  <2>3. PICK c \in Events : c = ResE(p, gate(d, p), slow)
    BY <1>2, <2>2
  <2>4. c.type = "tool.result" /\ c.call = p.call /\ c.attempt = p.attempt
    BY <2>3, EventFields
  <2>5. Tried(d, p, x) /\ n + 1 \in Requested(x, p) /\ n + 2 \in Answered(x, p)
        /\ x.events[n + 2] = c
    BY <1>1, <2>1, <2>2, <2>3, <2>4, TriedTwo DEF n
  <2>6. QED
    BY <1>6, <2>1, <2>2, <2>3, <2>5 DEF x
<1>9. CASE Reads(d, p, o)
  <2>1. PICK code \in {"failed", "infrastructure_error", "read", "already_applied"}, slow \in Slow :
          /\ x.events = Append(Append(d.events, ReqE(p)), ResE(p, code, slow))
          /\ o.result = {Said(code, slow, n + 1, n + 2)}
    BY <1>9 DEF Reads, x, n
  <2>2. code \in Codes /\ x.effects = d.effects /\ x.markers = d.markers
        /\ x.approvals = d.approvals
    BY <1>5, <1>9 DEF Reads, x
  <2>3. PICK c \in Events : c = ResE(p, code, slow)
    BY <1>2, <2>2
  <2>4. c.type = "tool.result" /\ c.call = p.call /\ c.attempt = p.attempt
    BY <2>3, EventFields
  <2>5. Tried(d, p, x) /\ n + 1 \in Requested(x, p) /\ n + 2 \in Answered(x, p)
        /\ x.events[n + 2] = c
    BY <1>1, <2>1, <2>2, <2>3, <2>4, TriedTwo DEF n
  <2>6. QED
    BY <1>6, <2>1, <2>2, <2>3, <2>5 DEF x
<1>10. CASE Applies(d, p, o)
  <2>1. PICK slow \in Slow :
          /\ x.events = Append(Append(Append(d.events, ReqE(p)), ResE(p, "newly_applied", slow)), EvdE(p))
          /\ o.result = {Said("newly_applied", slow, n + 1, n + 2)}
    BY <1>10 DEF Applies, x, n
  <2>2. gate(d, p) = "pass" /\ x.effects = d.effects \cup {Effect(p)} /\ x.markers = d.markers
        /\ x.approvals = d.approvals
    BY <1>10 DEF Applies, Mutates, x
  <2>3. PICK c \in Events : c = ResE(p, "newly_applied", slow)
    BY <1>2, <1>5
  <2>4. c.type = "tool.result" /\ c.call = p.call /\ c.attempt = p.attempt
    BY <2>3, EventFields
  <2>5. Tried(d, p, x) /\ n + 1 \in Requested(x, p) /\ n + 2 \in Answered(x, p)
        /\ x.events[n + 2] = c
    <3>1. /\ x.events = Append(Append(Append(d.events, ReqE(p)), c), EvdE(p))
          /\ d.effects \subseteq x.effects /\ x.effects \subseteq d.effects \cup {Effect(p)}
      BY <2>1, <2>2, <2>3
    <3>2. PICK q \in Events : q = EvdE(p)
      BY <1>2
    <3>3. /\ x.events = Append(Append(Append(d.events, ReqE(p)), c), q)
          /\ q.type = "state.evidence_recorded" /\ q.call = p.call /\ q.attempt = p.attempt
          /\ q.info = p.request
      BY <1>3, <3>1, <3>2
    <3>4. ShowsLast(d, p, x, c, q)
      BY <2>2, <2>4, <3>3 DEF ShowsLast
    <3>5. QED
      BY <1>1, <2>2, <2>4, <3>1, <3>3, <3>4, TriedThree DEF n
  <2>6. QED
    BY <1>5, <1>6, <2>1, <2>2, <2>3, <2>5 DEF x
<1>11. CASE Marks(d, p, o)
  <2>1. /\ gate(d, p) = "pass" /\ x.effects = d.effects \cup {Effect(p)}
        /\ x.markers = d.markers \cup {Marker(p)} /\ x.approvals = d.approvals
        /\ x.events = Append(Append(d.events, ReqE(p)), EvdE(p)) /\ o.result = {}
    BY <1>11 DEF Marks, Mutates, x
  <2>2. Tried(d, p, x)
    BY <1>1, <1>2, <1>3, <2>1, TriedTwo
  <2>3. QED
    BY <1>11, <2>1, <2>2 DEF x
<1>12. QED
  BY <1>1, <1>7, <1>8, <1>9, <1>10, <1>11
-----------------------------------------------------------------------------
(* What holds of the rows however many calls share a lease.                *)

\* Every result, every sign of an effect, every effect and marker has a request.
Traced(d) ==
  /\ \A i \in DOMAIN d.events : d.events[i].type \in {"tool.result", "state.evidence_recorded"} =>
       Requested(d, d.events[i]) # {}
  /\ \A f \in d.effects : Requested(d, f) # {}
  /\ \A m \in d.markers : Requested(d, m) # {}

\* Approvals belong to requests that need one; an answered one is in evidence.
Answerable(d) ==
  \A q \in Requests :
    /\ d.approvals[q] # "none" => Policy[q] = "require_approval"
    /\ d.approvals[q] \in {"approved", "denied"} =>
         \E i \in DOMAIN d.events : /\ d.events[i].type = "approval.resolved"
                                    /\ d.events[i].info = q

\* ApprovalBeforeEffect, of any rows.
Approves(d) ==
  \A i \in DOMAIN d.events :
    LET e == d.events[i]
    IN e.type = "state.evidence_recorded" /\ Policy[e.info] # "allow" =>
         /\ Policy[e.info] = "require_approval" /\ d.approvals[e.info] = "approved"
         /\ \E j \in 1 .. i - 1 : /\ d.events[j].type = "approval.resolved"
                                  /\ d.events[j].info = e.info

Grounded(d) == Traced(d) /\ Answerable(d) /\ Approves(d)

\* Evidence is never lost.
LEMMA Keeps ==
  ASSUME NEW d \in Databases, NEW x, Grows(d, x), NEW y
  PROVE  Requested(d, y) \subseteq Requested(x, y) /\ Answered(d, y) \subseteq Answered(x, y)
<1>1. /\ DOMAIN d.events = 1 .. Len(d.events) /\ DOMAIN x.events = 1 .. Len(x.events)
      /\ Len(d.events) \in Nat /\ Len(x.events) \in Nat /\ Len(d.events) <= Len(x.events)
      /\ \A i \in 1 .. Len(d.events) : x.events[i] = d.events[i]
  BY Sizes DEF Grows
<1>2. QED
  BY <1>1 DEF Requested, Answered, Positions

\* An event of the later rows is an old one or a new one.
LEMMA OldOrNew ==
  ASSUME NEW d \in Databases, NEW x, Grows(d, x)
  PROVE  /\ DOMAIN d.events \subseteq DOMAIN x.events
         /\ \A i \in DOMAIN x.events : \/ i \in DOMAIN d.events /\ x.events[i] = d.events[i]
                                       \/ i \in News(d, x)
         /\ \A i \in DOMAIN d.events : x.events[i] = d.events[i] /\ i \notin News(d, x)
         /\ News(d, x) \subseteq DOMAIN x.events
         /\ \A i \in DOMAIN d.events, j \in News(d, x) : i < j
BY Sizes DEF Grows, News

\* Steps in which no tool runs keep the evidence grounded.
LEMMA CalmGrounded ==
  ASSUME NEW d \in Databases, NEW x \in Databases, Calm(d, x), Grounded(d)
  PROVE  Grounded(x)
<1>1. Grows(d, x)
  BY DEF Calm
<1>2. Traced(x)
  BY <1>1, OldOrNew, Keeps DEF Grounded, Traced, Calm, ToolTypes
<1>3. Answerable(x)
  BY <1>1, OldOrNew DEF Grounded, Answerable, Calm
<1>4. Approves(x)
  <2> SUFFICES ASSUME NEW i \in DOMAIN x.events, x.events[i].type = "state.evidence_recorded",
                      Policy[x.events[i].info] # "allow"
               PROVE  /\ Policy[x.events[i].info] = "require_approval"
                      /\ x.approvals[x.events[i].info] = "approved"
                      /\ \E j \in 1 .. i - 1 : /\ x.events[j].type = "approval.resolved"
                                               /\ x.events[j].info = x.events[i].info
    BY DEF Approves
  <2>1. i \in DOMAIN d.events /\ x.events[i] = d.events[i]
    BY <1>1, OldOrNew DEF Calm, ToolTypes
  <2>2. d.events[i].info \in Requests
    BY <2>1, Sizes DEF Events
  <2>3. /\ Policy[d.events[i].info] = "require_approval"
        /\ d.approvals[d.events[i].info] = "approved"
    BY <2>1 DEF Grounded, Approves
  <2>4. PICK j \in 1 .. i - 1 : /\ d.events[j].type = "approval.resolved"
                                /\ d.events[j].info = d.events[i].info
    BY <2>1 DEF Grounded, Approves
  <2>5. x.events[j] = d.events[j]
    <3>1. j \in DOMAIN d.events
      BY <2>1, <2>4, Sizes
    <3>2. QED
      BY <1>1, <3>1, OldOrNew
  <2>6. QED
    BY <2>1, <2>2, <2>3, <2>4, <2>5 DEF Calm
<1>5. QED
  BY <1>2, <1>3, <1>4 DEF Grounded

\* What lets a request through.
LEMMA Passes ==
  ASSUME NEW d \in Databases, NEW p \in Pendings, gate(d, p) = "pass"
  PROVE  Policy[p.request] # "allow" =>
           Policy[p.request] = "require_approval" /\ d.approvals[p.request] = "approved"
<1>1. /\ p.request \in Requests /\ Policy[p.request] \in {"allow", "deny", "require_approval"}
      /\ d.approvals[p.request] \in {"none", "pending", "approved", "denied"}
  BY Constants DEF Pendings, Databases
<1>2. QED
  BY <1>1 DEF gate

\* Only a request nobody asked about opens an approval.
LEMMA Waits ==
  ASSUME NEW d \in Databases, NEW p \in Pendings, gate(d, p) = "approval_required"
  PROVE  d.approvals[p.request] = "none" /\ Policy[p.request] = "require_approval"
BY DEF gate

\* An attempt keeps the evidence grounded.
LEMMA TriedGrounded ==
  ASSUME NEW d \in Databases, NEW p \in Pendings, NEW x \in Databases, Tried(d, p, x), Grounded(d)
  PROVE  Grounded(x)
<1> DEFINE n == Len(d.events)
<1>1. Grows(d, x) /\ n + 1 \in News(d, x) /\ n \in Nat
  BY Sizes DEF Tried, Grows, News
<1>2. n + 1 \in Requested(x, p)
  <2>1. x.events[n + 1] = ReqE(p) /\ n + 1 \in DOMAIN x.events
    BY <1>1, OldOrNew DEF Tried
  <2>2. QED
    BY <2>1, EventFields DEF Requested, Positions, ReqE
<1>3. \A y : y.call = p.call /\ y.attempt = p.attempt => n + 1 \in Requested(x, y)
  BY <1>2 DEF Requested
<1> HIDE DEF n
<1>4. Traced(x)
  <2>1. \A i \in DOMAIN x.events : x.events[i].type \in {"tool.result", "state.evidence_recorded"} =>
          Requested(x, x.events[i]) # {}
    <3> TAKE i \in DOMAIN x.events
    <3>1. CASE i \in DOMAIN d.events /\ x.events[i] = d.events[i]
      BY <1>1, <3>1, Keeps DEF Grounded, Traced
    <3>2. CASE i \in News(d, x)
      BY <1>3, <3>2 DEF Tried
    <3>3. QED
      BY <1>1, <3>1, <3>2, OldOrNew
  <2>2. \A f \in x.effects : Requested(x, f) # {}
    BY <1>1, <1>3, Keeps DEF Grounded, Traced, Tried, Effect
  <2>3. \A m \in x.markers : Requested(x, m) # {}
    BY <1>1, <1>3, Keeps DEF Grounded, Traced, Tried, Marker
  <2>4. QED
    BY <2>1, <2>2, <2>3 DEF Traced
<1>5. p.request \in Requests /\ d.approvals \in [Requests -> {"none", "pending", "approved", "denied"}]
  BY DEF Pendings, Databases
<1>6. \A q \in Requests : \/ x.approvals[q] = d.approvals[q]
                          \/ /\ q = p.request /\ d.approvals[q] = "none"
                             /\ x.approvals[q] = "pending" /\ Policy[q] = "require_approval"
  BY <1>5, Waits DEF Tried
<1>7. Answerable(x)
  BY <1>1, <1>6, OldOrNew DEF Grounded, Answerable
<1>8. Approves(x)
  <2> SUFFICES ASSUME NEW i \in DOMAIN x.events, x.events[i].type = "state.evidence_recorded",
                      Policy[x.events[i].info] # "allow"
               PROVE  /\ Policy[x.events[i].info] = "require_approval"
                      /\ x.approvals[x.events[i].info] = "approved"
                      /\ \E j \in 1 .. i - 1 : /\ x.events[j].type = "approval.resolved"
                                               /\ x.events[j].info = x.events[i].info
    BY DEF Approves
  <2>1. x.events[i].info \in Requests /\ i \in Nat
    BY Sizes DEF Events
  <2>2. \E j \in DOMAIN d.events :
          /\ j < i /\ d.events[j].type = "approval.resolved" /\ d.events[j].info = x.events[i].info
          /\ Policy[x.events[i].info] = "require_approval"
          /\ d.approvals[x.events[i].info] = "approved"
    <3>1. CASE i \in DOMAIN d.events /\ x.events[i] = d.events[i]
      <4>1. /\ Policy[d.events[i].info] = "require_approval"
            /\ d.approvals[d.events[i].info] = "approved"
        BY <3>1 DEF Grounded, Approves
      <4>2. PICK j \in 1 .. i - 1 : /\ d.events[j].type = "approval.resolved"
                                    /\ d.events[j].info = d.events[i].info
        BY <3>1 DEF Grounded, Approves
      <4>3. j \in DOMAIN d.events /\ j < i
        BY <3>1, <4>2, Sizes
      <4>4. QED
        BY <3>1, <4>1, <4>2, <4>3
    <3>2. CASE i \in News(d, x)
      <4>1. x.events[i].info = p.request /\ gate(d, p) = "pass"
        BY <3>2 DEF Tried
      <4>2. Policy[p.request] = "require_approval" /\ d.approvals[p.request] = "approved"
        BY <4>1, Passes
      <4>3. PICK j \in DOMAIN d.events : /\ d.events[j].type = "approval.resolved"
                                         /\ d.events[j].info = p.request
        BY <1>5, <4>2 DEF Grounded, Answerable
      <4>4. j < i
        BY <1>1, <3>2, OldOrNew
      <4>5. QED
        BY <4>1, <4>2, <4>3, <4>4
    <3>3. QED
      BY <1>1, <3>1, <3>2, OldOrNew
  <2>3. PICK j \in DOMAIN d.events :
          /\ j < i /\ d.events[j].type = "approval.resolved" /\ d.events[j].info = x.events[i].info
          /\ Policy[x.events[i].info] = "require_approval"
          /\ d.approvals[x.events[i].info] = "approved"
    BY <2>2
  <2>4. j \in 1 .. i - 1 /\ x.events[j] = d.events[j]
    BY <1>1, <2>1, <2>3, OldOrNew, Sizes
  <2>5. x.approvals[x.events[i].info] = "approved"
    BY <1>6, <2>1, <2>3
  <2>6. QED
    BY <2>3, <2>4, <2>5
<1>9. QED
  BY <1>4, <1>7, <1>8 DEF Grounded

\* The result of a request that is in evidence.
LEMMA AnsweredGrounded ==
  ASSUME NEW d \in Databases, NEW x \in Databases, NEW e \in Events, e.type = "tool.result",
         Requested(d, e) # {}, x.events = Append(d.events, e), x.effects = d.effects,
         x.markers = d.markers, x.approvals = d.approvals, Grounded(d)
  PROVE  Grounded(x)
<1>1. Grows(d, x) /\ \A i \in News(d, x) : x.events[i] = e
  BY GrowsBy
<1>2. Traced(x)
  BY <1>1, OldOrNew, Keeps DEF Grounded, Traced
<1>3. Answerable(x)
  BY <1>1, OldOrNew DEF Grounded, Answerable
<1>4. Approves(x)
  <2> SUFFICES ASSUME NEW i \in DOMAIN x.events, x.events[i].type = "state.evidence_recorded",
                      Policy[x.events[i].info] # "allow"
               PROVE  /\ Policy[x.events[i].info] = "require_approval"
                      /\ x.approvals[x.events[i].info] = "approved"
                      /\ \E j \in 1 .. i - 1 : /\ x.events[j].type = "approval.resolved"
                                               /\ x.events[j].info = x.events[i].info
    BY DEF Approves
  <2>1. i \in DOMAIN d.events /\ x.events[i] = d.events[i]
    BY <1>1, OldOrNew
  <2>2. /\ Policy[d.events[i].info] = "require_approval"
        /\ d.approvals[d.events[i].info] = "approved"
    BY <2>1 DEF Grounded, Approves
  <2>3. PICK j \in 1 .. i - 1 : /\ d.events[j].type = "approval.resolved"
                                /\ d.events[j].info = d.events[i].info
    BY <2>1 DEF Grounded, Approves
  <2>4. x.events[j] = d.events[j]
    BY <1>1, <2>1, <2>3, OldOrNew, Sizes
  <2>5. QED
    BY <2>1, <2>2, <2>3, <2>4
<1>5. QED
  BY <1>2, <1>3, <1>4 DEF Grounded
-----------------------------------------------------------------------------
(* Calls of execute_run.                                                   *)

Typed == db \in Databases /\ exec \in [Executors -> Execs]

Leases ==
  /\ db.lease = "none" <=> db.status \in TERMINAL_STATUSES \cup {"queued"}
  /\ \A e \in Executors : exec[e].lease <= db.attempt

\* A version names one checkpoint: what a call holds is an old version or the
\* checkpoint of the Run.
Views ==
  /\ db.checkpoint.version = 0 => db.checkpoint = NoCheckpoint
  /\ \A e \in Executors :
       /\ exec[e].checkpoint.version <= db.checkpoint.version
       /\ exec[e].checkpoint.version = db.checkpoint.version => exec[e].checkpoint = db.checkpoint

\* What a call has to have done to be where it is.
Place(d, x) ==
  /\ x.pc \in {"effect", "acknowledge", "checkpoint"} =>
       x.checkpoint.pending # <<>> /\ Head(x.checkpoint.pending).request \in AfterCommit
  /\ x.pc = "effect" => tool_attempts(x.checkpoint) < MaxToolCalls
  /\ x.pc = "acknowledge" => Marked(d, Head(x.checkpoint.pending))
  /\ x.pc \in {"terminating", "failing"} => x.target \in Targets
  /\ x.pc = "failing" => steps(x.checkpoint) < MaxSteps

Places == \A e \in Executors : Place(db, exec[e])

Sound == Typed /\ Leases /\ Views /\ Places /\ Grounded(db)

\* The step of one call.
Puts(e, y) ==
  /\ exec' \in [Executors -> Execs] /\ y \in Execs /\ exec'[e] = y
  /\ \A o \in Executors \ {e} : exec'[o] = exec[o]

Stopped(e, target) == [exec[e] EXCEPT !.pc = "terminating", !.target = target]
Failing(e, target) == [exec[e] EXCEPT !.pc = "failing", !.target = target]
Gone(e, pc) == [exec[e] EXCEPT !.pc = pc]
Again(e) == [Idle EXCEPT !.pc = "loading", !.lease = exec[e].lease]
Done(e, r) == [exec[e] EXCEPT !.pc = "checkpoint", !.result = {r}]

\* An assignment to the memory of one call is a step of that call.
LEMMA Writes ==
  ASSUME Typed, NEW e \in Executors, NEW y \in Execs, exec' = [exec EXCEPT ![e] = y]
  PROVE  Puts(e, y)
BY DEF Typed, Puts

\* What a call holds before and after it runs.
LEMMA Idles == NoCheckpoint \in Checkpoints /\ Idle \in Execs
<1>1. NoCheckpoint \in Checkpoints
  <2>1. <<>> \in Seq(ATurns \cup TTurns) /\ <<>> \in Seq(Pendings) /\ {} \in SUBSET Overruns
    OBVIOUS
  <2>2. QED
    BY <2>1 DEF NoCheckpoint, Checkpoints
<1>2. 0 \in 0 .. MaxClaims /\ {} \in SUBSET Results
  BY Constants DEF Attempts
<1>3. QED
  BY <1>1, <1>2 DEF Idle, Execs

\* Return is a step of the call.
LEMMA PutsIdle ==
  ASSUME Typed, NEW e \in Executors, Return(e)
  PROVE  Puts(e, Idle)
BY Idles, Writes DEF Return

\* Stop is a step of the call.
LEMMA PutsStopped ==
  ASSUME Typed, NEW e \in Executors, NEW target \in Targets, Stop(e, target)
  PROVE  Puts(e, Stopped(e, target))
<1>1. Stopped(e, target) \in Execs
  BY DEF Typed, Stopped, Execs
<1>2. exec' = [exec EXCEPT ![e] = Stopped(e, target)]
  BY DEF Stop, Stopped, Typed
<1>3. QED
  BY <1>1, <1>2, Writes

\* Fail is a step of the call.
LEMMA PutsFailing ==
  ASSUME Typed, NEW e \in Executors, NEW target \in Targets, Fail(e, target)
  PROVE  Puts(e, Failing(e, target))
<1>1. Failing(e, target) \in Execs
  BY DEF Typed, Failing, Execs
<1>2. exec' = [exec EXCEPT ![e] = Failing(e, target)]
  BY DEF Fail, Failing, Typed
<1>3. QED
  BY <1>1, <1>2, Writes

\* Goto is a step of the call.
LEMMA PutsGone ==
  ASSUME Typed, NEW e \in Executors, NEW pc \in {"effect", "acknowledge"}, Goto(e, pc)
  PROVE  Puts(e, Gone(e, pc))
<1>1. Gone(e, pc) \in Execs
  BY DEF Typed, Gone, Execs
<1>2. exec' = [exec EXCEPT ![e] = Gone(e, pc)]
  BY DEF Goto, Gone, Typed
<1>3. QED
  BY <1>1, <1>2, Writes

\* The next round of the loop is a step of the call.
LEMMA PutsAgain ==
  ASSUME Typed, NEW e \in Executors, exec' = [exec EXCEPT ![e] = Again(e)]
  PROVE  Puts(e, Again(e))
<1>1. Again(e) \in Execs
  BY Idles DEF Typed, Again, Execs
<1>2. QED
  BY <1>1, Writes

\* Keeping a result to store is a step of the call.
LEMMA PutsDone ==
  ASSUME Typed, NEW e \in Executors, NEW r \in Results,
         exec' = [exec EXCEPT ![e].pc = "checkpoint", ![e].result = {r}]
  PROVE  Puts(e, Done(e, r))
<1>1. Done(e, r) \in Execs
  BY DEF Typed, Done, Execs
<1>2. exec' = [exec EXCEPT ![e] = Done(e, r)]
  BY DEF Done, Typed
<1>3. QED
  BY <1>1, <1>2, Writes

\* What a call holds after each kind of step.
LEMMA Fields ==
  ASSUME Typed, NEW e \in Executors
  PROVE  /\ exec[e] \in Execs /\ exec[e].checkpoint \in Checkpoints /\ exec[e].lease \in Nat
         /\ Idle.pc = "idle" /\ Idle.lease = 0 /\ Idle.checkpoint = NoCheckpoint /\ Idle.result = {}
         /\ Again(e).pc = "loading" /\ Again(e).lease = exec[e].lease
         /\ Again(e).checkpoint = NoCheckpoint /\ Again(e).result = {}
         /\ \A target : /\ Stopped(e, target).pc = "terminating"
                        /\ Stopped(e, target).target = target
                        /\ Stopped(e, target).lease = exec[e].lease
                        /\ Stopped(e, target).checkpoint = exec[e].checkpoint
                        /\ Stopped(e, target).result = exec[e].result
                        /\ Failing(e, target).pc = "failing"
                        /\ Failing(e, target).target = target
                        /\ Failing(e, target).lease = exec[e].lease
                        /\ Failing(e, target).checkpoint = exec[e].checkpoint
                        /\ Failing(e, target).result = exec[e].result
         /\ \A pc : /\ Gone(e, pc).pc = pc /\ Gone(e, pc).lease = exec[e].lease
                    /\ Gone(e, pc).checkpoint = exec[e].checkpoint
                    /\ Gone(e, pc).result = exec[e].result
         /\ \A r : /\ Done(e, r).pc = "checkpoint" /\ Done(e, r).lease = exec[e].lease
                   /\ Done(e, r).checkpoint = exec[e].checkpoint /\ Done(e, r).result = {r}
<1>1. exec[e] \in Execs
  BY DEF Typed
<1>2. /\ Idle.pc = "idle" /\ Idle.lease = 0 /\ Idle.checkpoint = NoCheckpoint /\ Idle.result = {}
      /\ Again(e).pc = "loading" /\ Again(e).lease = exec[e].lease
      /\ Again(e).checkpoint = NoCheckpoint /\ Again(e).result = {}
  BY DEF Idle, Again
<1>3. exec[e].checkpoint \in Checkpoints /\ exec[e].lease \in Nat
  <2>1. exec[e].checkpoint \in Checkpoints /\ exec[e].lease \in 0 .. MaxClaims
    BY <1>1 DEF Execs
  <2>2. MaxClaims \in Nat
    BY Constants DEF Attempts
  <2>3. QED
    BY <2>1, <2>2
<1>4. \A target : /\ Stopped(e, target).pc = "terminating"
                  /\ Stopped(e, target).target = target
                  /\ Stopped(e, target).lease = exec[e].lease
                  /\ Stopped(e, target).checkpoint = exec[e].checkpoint
                  /\ Stopped(e, target).result = exec[e].result
                  /\ Failing(e, target).pc = "failing"
                  /\ Failing(e, target).target = target
                  /\ Failing(e, target).lease = exec[e].lease
                  /\ Failing(e, target).checkpoint = exec[e].checkpoint
                  /\ Failing(e, target).result = exec[e].result
  BY <1>1 DEF Execs, Stopped, Failing
<1>5. \A pc : /\ Gone(e, pc).pc = pc /\ Gone(e, pc).lease = exec[e].lease
              /\ Gone(e, pc).checkpoint = exec[e].checkpoint
              /\ Gone(e, pc).result = exec[e].result
  BY <1>1 DEF Execs, Gone
<1>6. \A r : /\ Done(e, r).pc = "checkpoint" /\ Done(e, r).lease = exec[e].lease
             /\ Done(e, r).checkpoint = exec[e].checkpoint /\ Done(e, r).result = {r}
  BY <1>1 DEF Execs, Done
<1>7. QED
  BY <1>1, <1>2, <1>3, <1>4, <1>5, <1>6

\* A checkpoint stored with its rows.
Stored(d, c, r) == [d EXCEPT !.checkpoint = checkpoint_after_tool(d, c, r)]

\* Storing a checkpoint changes no other row.
LEMMA Storing ==
  ASSUME NEW d \in Databases, NEW c \in Checkpoints, c.pending # <<>>, NEW r \in Results
  PROVE  LET x == Stored(d, c, r)
         IN /\ x \in Databases /\ x.checkpoint = checkpoint_after_tool(d, c, r)
            /\ x.status = d.status /\ x.attempt = d.attempt /\ x.lease = d.lease
            /\ x.events = d.events /\ x.effects = d.effects /\ x.markers = d.markers
            /\ x.approvals = d.approvals /\ Calm(d, x) /\ News(d, x) = {}
<1>1. checkpoint_after_tool(d, c, r) \in Checkpoints
  BY AfterTool
<1>2. PICK v \in Checkpoints : v = checkpoint_after_tool(d, c, r)
  BY <1>1
<1>3. PICK x : x = [d EXCEPT !.checkpoint = v]
  OBVIOUS
<1>4. /\ x \in Databases /\ x.checkpoint = v
      /\ x.status = d.status /\ x.attempt = d.attempt /\ x.lease = d.lease
      /\ x.events = d.events /\ x.effects = d.effects /\ x.markers = d.markers
      /\ x.approvals = d.approvals
  BY <1>3 DEF Databases
<1>5. Calm(d, x) /\ News(d, x) = {}
  BY <1>4, Sizes DEF Calm, Grows, News
<1>6. QED
  BY <1>2, <1>3, <1>4, <1>5 DEF Stored

-----------------------------------------------------------------------------
(* What each action does to the rows.                                      *)

\* A claim is quiet: the next attempt number, a live lease.
LEMMA Claims ==
  ASSUME Typed, claim_next_run
  PROVE  /\ Quiet(db, db') /\ db'.status = "provisioning" /\ db'.attempt = db.attempt + 1
         /\ db'.lease = "live" /\ exec' = exec /\ db.status = "queued"
<1>1. PICK y : y = Move(db, "provisioning")
  OBVIOUS
<1>2. /\ y \in Databases /\ Quiet(db, y) /\ y.status = "provisioning" /\ y.attempt = db.attempt
  BY <1>1, Moves, QuietMove DEF Typed, Statuses
<1>3. db' = [y EXCEPT !.attempt = @ + 1, !.lease = "live"] /\ db.attempt < MaxClaims /\ exec' = exec
  BY <1>1 DEF claim_next_run
<1>4. db.attempt + 1 \in 0 .. MaxClaims
  BY <1>3, Constants DEF Typed, Databases, Attempts
<1>5. /\ db' \in Databases /\ db'.status = y.status /\ db'.attempt = y.attempt + 1
      /\ db'.lease = "live" /\ db'.checkpoint = y.checkpoint /\ db'.effects = y.effects
      /\ db'.markers = y.markers /\ db'.approvals = y.approvals /\ db'.events = y.events
  BY <1>2, <1>3, <1>4 DEF Databases
<1>6. Quiet(y, db')
  BY <1>2, <1>5, Sizes DEF Quiet, Calm, Grows, News
<1>7. QED
  BY <1>2, <1>3, <1>5, <1>6, QuietSteps DEF Typed, claim_next_run

\* A lease expires quietly.
LEMMA Expires ==
  ASSUME Typed, lease_expires
  PROVE  /\ Quiet(db, db') /\ db'.status = db.status /\ db'.attempt = db.attempt
         /\ db.lease = "live" /\ db'.lease = "expired" /\ exec' = exec
<1>1. db' = [db EXCEPT !.lease = "expired"] /\ db.lease = "live" /\ exec' = exec
  BY DEF lease_expires
<1>2. /\ db' \in Databases /\ db'.status = db.status /\ db'.attempt = db.attempt
      /\ db'.lease = "expired" /\ db'.checkpoint = db.checkpoint /\ db'.effects = db.effects
      /\ db'.markers = db.markers /\ db'.approvals = db.approvals /\ db'.events = db.events
  BY <1>1 DEF Databases, Typed
<1>3. Quiet(db, db')
  BY <1>2, Sizes DEF Quiet, Calm, Grows, News, Typed
<1>4. QED
  BY <1>1, <1>2, <1>3

\* A requeued Run keeps its rows.
LEMMA Requeues ==
  ASSUME Typed, requeue_expired_run
  PROVE  /\ Quiet(db, db') /\ db'.status = "queued" /\ db'.attempt = db.attempt
         /\ db'.lease = "none" /\ exec' = exec /\ db.lease = "expired"
BY Ends, QuietMove DEF Typed, Statuses, requeue_expired_run

\* A cancelled Run keeps its rows too.
LEMMA Cancels ==
  ASSUME Typed, cancel_queued_run
  PROVE  /\ Quiet(db, db') /\ db'.status = "cancelled" /\ db'.attempt = db.attempt
         /\ db'.lease = db.lease /\ exec' = exec /\ db.status = "queued"
BY Moves, QuietMove DEF Typed, Statuses, TERMINAL_STATUSES, cancel_queued_run

\* An operator resolves a pending approval and records that, nothing else.
LEMMA Resolves ==
  ASSUME Typed, resolve_approval_request
  PROVE  /\ Quiet(db, db') /\ db'.status = db.status /\ db'.attempt = db.attempt
         /\ db'.lease = db.lease /\ exec' = exec
         /\ \E q \in Requests : db.approvals[q] = "pending"
         /\ \A i \in News(db, db') : db'.events[i].type = "approval.resolved"
<1>1. PICK q \in Requests, answer \in {"approved", "denied"} :
        /\ db.approvals[q] = "pending" /\ exec' = exec
        /\ db' = Add([db EXCEPT !.approvals[q] = answer], Event("approval.resolved", NoCall, 0, q))
  BY DEF resolve_approval_request
<1>2. PICK y : y = [db EXCEPT !.approvals[q] = answer]
  OBVIOUS
<1>3. /\ y \in Databases /\ y.status = db.status /\ y.attempt = db.attempt
      /\ y.lease = db.lease /\ y.checkpoint = db.checkpoint /\ y.effects = db.effects
      /\ y.markers = db.markers /\ y.events = db.events
      /\ y.approvals = [db.approvals EXCEPT ![q] = answer]
  BY <1>2 DEF Databases, Typed
<1>4. PICK e \in Events : e = Event("approval.resolved", NoCall, 0, q)
  BY EventTypes
<1>5. e.type = "approval.resolved" /\ e.info = q
  BY <1>4, EventFields
<1>6. /\ db' \in Databases /\ db'.status = y.status /\ db'.attempt = y.attempt
      /\ db'.lease = y.lease /\ db'.checkpoint = y.checkpoint /\ db'.effects = y.effects
      /\ db'.markers = y.markers /\ db'.approvals = y.approvals
      /\ db'.events = Append(y.events, e)
  BY <1>1, <1>2, <1>3, <1>4, Adds DEF Frame
<1>7. /\ Grows(db, db') /\ News(db, db') = {Len(db.events) + 1}
      /\ db'.events[Len(db.events) + 1] = e
  BY <1>3, <1>6, GrowsBy DEF Typed
<1>8. \A i \in News(db, db') : db'.events[i].type = "approval.resolved" /\ db'.events[i].info = q
  BY <1>5, <1>7
<1>9. \A o \in Requests : o # q => db'.approvals[o] = db.approvals[o]
  BY <1>3, <1>6 DEF Databases, Typed
<1>10. db'.approvals[q] = answer
  BY <1>3, <1>6 DEF Databases, Typed
<1>11. Calm(db, db')
  BY <1>1, <1>3, <1>6, <1>7, <1>8, <1>9, <1>10 DEF Calm, ToolTypes
<1>12. QED
  BY <1>1, <1>3, <1>6, <1>8, <1>11 DEF Quiet

\* The evaluator ends an evaluating Run.
LEMMA Evaluates ==
  ASSUME Typed, evaluate_leased_run
  PROVE  /\ Quiet(db, db') /\ db'.attempt = db.attempt /\ db'.lease = "none" /\ exec' = exec
         /\ db.status = "evaluating" /\ db'.status \in {"completed", "infra_error"}
<1>1. PICK status \in {"completed", "infra_error"} : db' = Ended(db, status)
  BY DEF evaluate_leased_run
<1>2. status \in Statuses
  BY DEF Statuses, TERMINAL_STATUSES
<1>3. /\ Quiet(db, db') /\ db'.status = status /\ db'.attempt = db.attempt /\ db'.lease = "none"
  BY <1>1, <1>2, Ends, QuietMove DEF Typed
<1>4. QED
  BY <1>3 DEF evaluate_leased_run

\* A failed step, the next one of the stored checkpoint.
Fails(d, x) ==
  /\ Len(d.events) < Len(x.events)
  /\ x.events[Len(d.events) + 1] = Event("agent.step", <<steps(d.checkpoint) + 1, 0>>, 0, "failed")
  /\ \A i \in News(d, x) \ {Len(d.events) + 1} : x.events[i].type # "agent.step"

\* A call ends the Run whose lease it holds, with a failed step or without one.
LEMMA Terminates ==
  ASSUME Typed, Places, NEW e \in Executors, terminate(e)
  PROVE  /\ Calm(db, db') /\ db'.checkpoint = db.checkpoint /\ db'.attempt = db.attempt
         /\ db'.lease = "none" /\ Owns(e) /\ db'.status \in Targets /\ Puts(e, Idle)
         /\ Quiet(db, db') \/ (exec[e].pc = "failing" /\ Fails(db, db'))
<1> DEFINE w == Event("agent.step", <<failed_step(e), 0>>, 0, "failed")
<1>1. /\ exec[e].target \in Targets /\ Owns(e) /\ Puts(e, Idle) /\ db \in Databases
      /\ exec[e].pc \in {"terminating", "failing"}
  BY PutsIdle DEF terminate, Places, Place, Typed
<1>2. PICK target \in Statuses : target = exec[e].target
  BY <1>1 DEF Targets, Statuses, TERMINAL_STATUSES
<1>3. PICK v \in Events : v = Event("run.error", NoCall, 0, target)
  BY EventTypes
<1>4. v.type \notin ToolTypes \cup {"agent.step"}
  BY <1>3, EventFields DEF ToolTypes
<1>5. PICK z : z = IF exec[e].pc = "failing" THEN Add(db, w) ELSE db
  OBVIOUS
<1>6. db' = Ended(Add(z, v), target)
  BY <1>2, <1>3, <1>5 DEF terminate
<1>7. w \in Events /\ w.type = "agent.step" /\ w = Event("agent.step", <<steps(db.checkpoint) + 1, 0>>, 0, "failed")
  <2>1. db.checkpoint \in Checkpoints
    BY <1>1, Sizes
  <2>2. steps(db.checkpoint) \in Nat
    BY <2>1, Counts
  <2>3. steps(db.checkpoint) + 1 \in Nat
    BY <2>2
  <2>4. QED
    BY <2>3, EventTypes, EventFields DEF failed_step
<1> HIDE DEF w
<1>8. ASSUME NEW x \in Databases, z = x
      PROVE  Quiet(x, db') /\ db'.status = target /\ db'.lease = "none" /\ db'.attempt = x.attempt
  <2>1. PICK y : y = Add(x, v)
    OBVIOUS
  <2>2. /\ y \in Databases /\ Frame(x, y) /\ y.events = Append(x.events, v)
        /\ y.effects = x.effects /\ y.markers = x.markers /\ y.approvals = x.approvals
    BY <2>1, Adds
  <2>3. Quiet(x, y)
    BY <1>4, <2>2, GrowsBy DEF Quiet, Calm, Frame
  <2>4. db' = Ended(y, target)
    BY <1>6, <1>8, <2>1
  <2>5. /\ db' \in Databases /\ db'.status = target /\ db'.lease = "none" /\ db'.attempt = y.attempt
        /\ Quiet(y, db')
    BY <2>2, <2>4, Ends, QuietMove
  <2>6. QED
    BY <2>2, <2>3, <2>5, QuietSteps DEF Frame
<1>9. CASE exec[e].pc # "failing"
  <2>1. z = db
    BY <1>5, <1>9
  <2>2. Quiet(db, db') /\ db'.status = target /\ db'.lease = "none" /\ db'.attempt = db.attempt
    BY <1>1, <1>8, <2>1
  <2>3. QED
    BY <1>1, <1>2, <2>2 DEF Quiet
<1>10. CASE exec[e].pc = "failing"
  <2>1. PICK x : x = Add(db, w)
    OBVIOUS
  <2>2. /\ x \in Databases /\ Frame(db, x) /\ x.events = Append(db.events, w)
        /\ x.effects = db.effects /\ x.markers = db.markers /\ x.approvals = db.approvals
    BY <1>1, <1>7, <2>1, Adds
  <2>3. /\ Grows(db, x) /\ News(db, x) = {Len(db.events) + 1}
        /\ x.events[Len(db.events) + 1] = w /\ Len(x.events) = Len(db.events) + 1
    BY <1>1, <1>7, <2>2, GrowsBy
  <2>4. Quiet(x, db') /\ db'.status = target /\ db'.lease = "none" /\ db'.attempt = x.attempt
    BY <1>5, <1>8, <1>10, <2>1, <2>2
  <2>5. /\ db' \in Databases /\ Len(x.events) <= Len(db'.events)
        /\ \A i \in 1 .. Len(x.events) : db'.events[i] = x.events[i]
        /\ \A i \in Len(x.events) + 1 .. Len(db'.events) :
             db'.events[i].type \notin ToolTypes \cup {"agent.step"}
        /\ db'.effects = x.effects /\ db'.markers = x.markers /\ db'.checkpoint = x.checkpoint
    BY <2>4 DEF Quiet, Calm, Grows, News
  <2>6. /\ Len(db.events) \in Nat /\ Len(x.events) \in Nat /\ Len(db'.events) \in Nat
        /\ \A i \in 1 .. Len(db.events) : x.events[i] = db.events[i]
    BY <1>1, <2>2, <2>3, <2>5, Sizes DEF Grows
  <2>7. /\ Grows(db, db') /\ Len(db.events) < Len(db'.events)
        /\ db'.events[Len(db.events) + 1] = w
        /\ \A i \in News(db, db') \ {Len(db.events) + 1} :
             db'.events[i].type \notin ToolTypes \cup {"agent.step"}
    BY <2>3, <2>5, <2>6 DEF Grows, News
  <2>8. \A q \in Requests : db'.approvals[q] # db.approvals[q] =>
          /\ db.approvals[q] = "pending" /\ db'.approvals[q] \in {"approved", "denied"}
          /\ \E i \in News(db, db') : /\ db'.events[i].type = "approval.resolved"
                                      /\ db'.events[i].info = q
    <3>1. News(x, db') \subseteq News(db, db')
      BY <2>3, <2>6 DEF News
    <3>2. QED
      BY <2>2, <2>4, <3>1 DEF Quiet, Calm
  <2>9. \A i \in News(db, db') : db'.events[i].type \notin ToolTypes
    BY <1>7, <2>7 DEF ToolTypes
  <2>10. Calm(db, db')
    BY <2>2, <2>5, <2>7, <2>8, <2>9 DEF Calm
  <2>11. Fails(db, db')
    BY <1>7, <2>7 DEF Fails
  <2>12. QED
    BY <1>1, <1>2, <1>10, <2>2, <2>4, <2>5, <2>10, <2>11 DEF Frame
<1>11. QED
  BY <1>9, <1>10

\* Whether, and what, the load has to reconcile.
LEMMA Adopts ==
  ASSUME NEW d \in Databases, Grounded(d), Recovery(d) = "adopt"
  PROVE  /\ d.checkpoint.pending # <<>> /\ Head(d.checkpoint.pending) \in Pendings
         /\ Requested(d, Head(d.checkpoint.pending)) # {}
         /\ Answered(d, Head(d.checkpoint.pending)) # {}
<1> DEFINE p == Head(d.checkpoint.pending)
<1>1. d.checkpoint.pending # <<>>
  BY DEF Recovery
<1>2. p \in Pendings
  BY <1>1, Sizes, Heads
<1>3. CASE Marked(d, p)
  <2>1. Marker(p) \in d.markers
    BY <1>3 DEF Marked, Marker
  <2>2. Requested(d, Marker(p)) # {}
    BY <2>1 DEF Grounded, Traced
  <2>3. Requested(d, p) # {}
    BY <2>2 DEF Requested, Marker
  <2>4. Answered(d, p) # {}
    BY <1>1, <1>3 DEF Recovery, recover_post_commit_attempt
  <2>5. QED
    BY <1>1, <1>2, <2>3, <2>4
<1>4. CASE ~Marked(d, p)
  <2>1. recover_committed_tool_attempt(d, p) = "adopt"
    BY <1>1, <1>4 DEF Recovery
  <2>2. Cardinality(Requested(d, p)) = 1 /\ Cardinality(Answered(d, p)) = 1
    BY <2>1 DEF recover_committed_tool_attempt
  <2>3. Requested(d, p) # {} /\ Answered(d, p) # {}
    BY <2>2, FS_EmptySet
  <2>4. QED
    BY <1>1, <1>2, <2>3
<1>5. QED
  BY <1>3, <1>4

Enters(y) ==
  /\ y \in Databases /\ Quiet(db, y) /\ y.attempt = db.attempt /\ y.lease = db.lease
  /\ y.status = IF db.status = "provisioning" THEN "running" ELSE db.status

Readied(e) == [exec[e] EXCEPT !.pc = "ready", !.checkpoint = db'.checkpoint]

\* A Run is entered quietly.
LEMMA Entering ==
  ASSUME Typed
  PROVE  Enters(Entered(db))
<1>1. CASE db.status = "provisioning"
  <2>1. Entered(db) = Move(db, "running") /\ "running" \in Statuses
    BY <1>1 DEF Entered, Statuses
  <2>2. QED
    BY <1>1, <2>1, Moves, QuietMove DEF Typed, Enters
<1>2. CASE db.status # "provisioning"
  <2>1. Entered(db) = db
    BY <1>2 DEF Entered
  <2>2. Quiet(db, db)
    BY Sizes DEF Quiet, Calm, Grows, News, Typed
  <2>3. QED
    BY <1>2, <2>1, <2>2 DEF Typed, Enters
<1>3. QED
  BY <1>1, <1>2

\* The load: refused, or the rows reconciled after the Run was entered.
Adopted(y) ==
  LET p == Head(y.checkpoint.pending)
  IN /\ Recovery(y) = "adopt" /\ y.checkpoint.pending # <<>>
     /\ Found(y, p, Recorded(y, p)) /\ db' = Stored(y, y.checkpoint, Recorded(y, p))

\* A load is refused, or leaves the entered rows, or reconciles them.
LEMMA Loaded ==
  ASSUME Typed, Grounded(db), NEW e \in Executors, load(e)
  PROVE  /\ Holds(db, e) /\ exec[e].pc = "loading"
         /\ \/ db' = db /\ Puts(e, Idle)
            \/ /\ Loads(db) /\ Enters(Entered(db)) /\ Grounded(Entered(db))
               /\ (Recovery(Entered(db)) # "adopt" /\ db' = Entered(db)) \/ Adopted(Entered(db))
               /\ db' \in Databases
               /\ Puts(e, Idle) \/ (db'.status # "evaluating" /\ Puts(e, Readied(e)))
<1>1. Holds(db, e) /\ exec[e].pc = "loading"
  BY DEF load
<1>2. CASE ~Loads(db)
  BY <1>1, <1>2, PutsIdle DEF load
<1>3. CASE Loads(db)
  <2>1. PICK y : y = Entered(db)
    OBVIOUS
  <2>2. Enters(y) /\ Grounded(y) /\ y \in Databases
    BY <2>1, Entering, CalmGrounded DEF Enters, Quiet, Typed
  <2>3. db' = Reconciled(y)
    BY <1>3, <2>1 DEF load, load_state
  <2>4. /\ (Recovery(y) # "adopt" /\ db' = y) \/ Adopted(y)
        /\ db' \in Databases
    <3>1. CASE Recovery(y) # "adopt"
      BY <2>2, <2>3, <3>1 DEF Reconciled
    <3>2. CASE Recovery(y) = "adopt"
      <4> DEFINE p == Head(y.checkpoint.pending)
      <4>1. /\ y.checkpoint.pending # <<>> /\ p \in Pendings
            /\ Requested(y, p) # {} /\ Answered(y, p) # {}
        BY <2>2, <3>2, Adopts
      <4>2. Found(y, p, Recorded(y, p))
        BY <2>2, <4>1, RecordedIs DEF Found
      <4>3. db' = Stored(y, y.checkpoint, Recorded(y, p))
        BY <2>3, <3>2 DEF Reconciled, Advance, Stored
      <4>4. db' \in Databases
        BY <2>2, <4>1, <4>2, <4>3, Storing, Sizes DEF Found
      <4>5. QED
        BY <3>2, <4>1, <4>2, <4>3, <4>4 DEF Adopted
    <3>3. QED
      BY <3>1, <3>2
  <2>5. ASSUME db'.status = "evaluating"
        PROVE  Puts(e, Idle)
    BY <1>3, <2>5, PutsIdle DEF load
  <2>6. ASSUME db'.status # "evaluating"
        PROVE  Puts(e, Readied(e))
    <3>1. exec' = [exec EXCEPT ![e].pc = "ready", ![e].checkpoint = db'.checkpoint]
      BY <1>3, <2>6 DEF load
    <3>2. db'.checkpoint \in Checkpoints
      BY <2>4, Sizes
    <3>3. Readied(e) \in Execs
      BY <3>2 DEF Typed, Readied, Execs
    <3>4. exec' = [exec EXCEPT ![e] = Readied(e)]
      BY <3>1 DEF Readied, Typed
    <3>5. QED
      BY <3>3, <3>4, Writes
  <2>7. Puts(e, Idle) \/ (db'.status # "evaluating" /\ Puts(e, Readied(e)))
    BY <2>5, <2>6
  <2>8. QED
    BY <1>1, <1>3, <2>1, <2>2, <2>4, <2>7
<1>4. QED
  BY <1>2, <1>3

\* What a call holds after a load.
LEMMA ReadiedFields ==
  ASSUME Typed, NEW e \in Executors
  PROVE  /\ Readied(e).pc = "ready" /\ Readied(e).lease = exec[e].lease
         /\ Readied(e).checkpoint = db'.checkpoint
BY DEF Typed, Execs, Readied

\* Every call holds the checkpoint it was loaded with, or stores none.
LEMMA CurrentIs ==
  ASSUME Views, NEW e \in Executors, Current(e)
  PROVE  exec[e].checkpoint = db.checkpoint /\ Owns(e)
BY DEF Views, Current

\* One attempt and its checkpoint in one transaction.
Dispatched(e) ==
  LET c == db.checkpoint
      p == Head(c.pending)
  IN \E o \in execute(db, p) : \E r \in o.result :
       /\ ~Rejects(db, o) /\ Tried(db, p, o.db) /\ Found(o.db, p, r) /\ o.db.markers = db.markers
       /\ r.code # "infrastructure_error" /\ db' = Stored(o.db, c, r)
       /\ Puts(e, Idle) \/ (r.code \notin WAITS /\ Puts(e, Again(e)))

\* A dispatch makes one attempt and stores it, or stops.
LEMMA Dispatches ==
  ASSUME Typed, Views, NEW e \in Executors, dispatch_pending(e)
  PROVE  /\ exec[e].pc = "ready" /\ Owns(e) /\ exec[e].checkpoint = db.checkpoint
         /\ db.checkpoint.pending # <<>> /\ tool_attempts(db.checkpoint) < MaxToolCalls
         /\ Head(db.checkpoint.pending).request \notin AfterCommit
         /\ (db' = db /\ Puts(e, Stopped(e, "infra_error"))) \/ Dispatched(e)
<1> DEFINE c == db.checkpoint
           p == Head(c.pending)
<1>1. Owns(e) /\ exec[e].checkpoint = c
  BY CurrentIs DEF dispatch_pending
<1>2. exec[e].pc = "ready" /\ c.pending # <<>> /\ p.request \notin AfterCommit
  BY <1>1 DEF dispatch_pending, MayDispatch
<1>3. tool_attempts(c) < MaxToolCalls
  <2>1. tool_attempts(c) \in Nat /\ MaxToolCalls \in Nat
    BY Counts, Constants, Sizes DEF Typed, Attempts
  <2>2. ~(tool_attempts(c) >= MaxToolCalls)
    BY <1>1 DEF dispatch_pending, MayDispatch, tools_spent
  <2>3. QED
    BY <2>1, <2>2
<1>4. p \in Pendings /\ c \in Checkpoints /\ db \in Databases
  BY <1>2, Sizes, Heads DEF Typed
<1>5. PICK o \in execute(db, p) :
        IF Broken(o) THEN Stop(e, "infra_error") /\ UNCHANGED db
        ELSE \E r \in o.result : store(e, o.db, r)
  BY <1>1 DEF dispatch_pending
<1>6. CASE Broken(o)
  <2>1. db' = db /\ Puts(e, Stopped(e, "infra_error"))
    BY <1>5, <1>6, PutsStopped DEF Targets
  <2>2. QED
    BY <1>1, <1>2, <1>3, <2>1
<1>7. CASE ~Broken(o)
  <2>1. PICK r \in o.result : store(e, o.db, r)
    BY <1>5, <1>7
  <2>2. o.result # {} /\ r.code # "infrastructure_error"
    BY <1>7, <2>1 DEF Broken
  <2>3. ~Rejects(db, o)
    BY <2>2 DEF Rejects
  <2>4. /\ Tried(db, p, o.db) /\ Found(o.db, p, r)
        /\ o.db.markers # db.markers => Marks(db, p, o)
    BY <1>4, <2>3, TriedIs
  <2>5. o.db.markers = db.markers
    BY <2>2, <2>4 DEF Marks
  <2>6. db' = Stored(o.db, c, r)
    BY <1>1, <2>1 DEF store, Stored
  <2>7. Puts(e, Idle) \/ (r.code \notin WAITS /\ Puts(e, Again(e)))
    BY <2>1, PutsIdle, PutsAgain DEF store, Again
  <2>8. Dispatched(e)
    BY <2>2, <2>3, <2>4, <2>5, <2>6, <2>7 DEF Dispatched
  <2>9. QED
    BY <1>1, <1>2, <1>3, <2>8
<1>8. QED
  BY <1>6, <1>7

\* A validation writes nothing.
LEMMA Validates ==
  ASSUME Typed, Views, NEW e \in Executors, validate_post_commit(e)
  PROVE  /\ exec[e].pc = "ready" /\ Owns(e) /\ exec[e].checkpoint = db.checkpoint
         /\ db.checkpoint.pending # <<>> /\ tool_attempts(db.checkpoint) < MaxToolCalls
         /\ Head(db.checkpoint.pending).request \in AfterCommit
         /\ db' = db /\ Puts(e, Gone(e, "effect"))
<1>1. Owns(e) /\ exec[e].checkpoint = db.checkpoint
  BY CurrentIs DEF validate_post_commit
<1>2. tool_attempts(db.checkpoint) \in Nat /\ MaxToolCalls \in Nat
  BY Counts, Constants, Sizes DEF Typed, Attempts
<1>3. ~(tool_attempts(db.checkpoint) >= MaxToolCalls)
  BY <1>1 DEF validate_post_commit, MayDispatch, tools_spent
<1>4. tool_attempts(db.checkpoint) < MaxToolCalls
  BY <1>2, <1>3
<1>5. Puts(e, Gone(e, "effect"))
  BY PutsGone DEF validate_post_commit
<1>6. QED
  BY <1>1, <1>4, <1>5 DEF validate_post_commit, MayDispatch

\* The effect transaction of an attempt without a marker.
Effected(e) ==
  LET p == Head(exec[e].checkpoint.pending)
  IN \E o \in execute(db, p) :
       /\ ~Rejects(db, o) /\ Tried(db, p, o.db) /\ db' = o.db
       /\ \/ Marks(db, p, o) /\ Puts(e, Gone(e, "acknowledge"))
          \/ /\ o.db.markers = db.markers /\ o.result # {}
             /\ \/ Puts(e, Stopped(e, "infra_error"))
                \/ \E r \in o.result : Found(o.db, p, r) /\ Puts(e, Done(e, r))

\* The effect transaction finds a marker, fails, or makes the attempt.
LEMMA Executes ==
  ASSUME Typed, Places, Grounded(db), NEW e \in Executors, execute_durable_post_commit(e)
  PROVE  LET p == Head(exec[e].checkpoint.pending)
         IN /\ exec[e].pc = "effect" /\ Owns(e) /\ p \in Pendings
            /\ \/ /\ Marked(db, p) /\ db' = db
                  /\ \/ Puts(e, Gone(e, "acknowledge"))
                     \/ \E r : Found(db, p, r) /\ Puts(e, Done(e, r))
               \/ ~Marked(db, p) /\ db' = db /\ Puts(e, Stopped(e, "infra_error"))
               \/ ~Marked(db, p) /\ Effected(e)
<1> DEFINE p == Head(exec[e].checkpoint.pending)
<1>1. exec[e].pc = "effect" /\ Owns(e)
  BY DEF execute_durable_post_commit
<1>2. exec[e].checkpoint.pending # <<>>
  BY <1>1 DEF Places, Place
<1>3. p \in Pendings /\ db \in Databases
  BY <1>2, Fields, Heads DEF Typed
<1>4. CASE Marked(db, p)
  <2>1. db' = db
    BY <1>4 DEF execute_durable_post_commit
  <2>2. CASE Answered(db, p) = {}
    <3>1. Goto(e, "acknowledge")
      BY <1>4, <2>2 DEF execute_durable_post_commit
    <3>2. Puts(e, Gone(e, "acknowledge"))
      BY <3>1, PutsGone
    <3>3. QED
      BY <1>1, <1>3, <1>4, <2>1, <3>2
  <2>3. CASE Answered(db, p) # {}
    <3>1. Requested(db, p) # {}
      <4>1. Marker(p) \in db.markers
        BY <1>4 DEF Marked, Marker
      <4>2. Requested(db, Marker(p)) # {}
        BY <4>1 DEF Grounded, Traced
      <4>3. QED
        BY <4>2 DEF Requested, Marker
    <3>2. Found(db, p, Recorded(db, p))
      BY <1>3, <2>3, <3>1, RecordedIs DEF Found
    <3>3. exec' = [exec EXCEPT ![e].pc = "checkpoint", ![e].result = {Recorded(db, p)}]
      BY <1>4, <2>3 DEF execute_durable_post_commit
    <3>4. Puts(e, Done(e, Recorded(db, p)))
      BY <3>2, <3>3, PutsDone DEF Found
    <3>5. QED
      BY <1>1, <1>3, <1>4, <2>1, <3>2, <3>4
  <2>4. QED
    BY <2>2, <2>3
<1>5. CASE ~Marked(db, p)
  <2>1. PICK o \in execute(db, p) :
          /\ db' = o.db
          /\ IF o.db.markers # db.markers THEN Goto(e, "acknowledge")
             ELSE IF Broken(o) THEN Stop(e, "infra_error")
             ELSE \E r \in o.result :
                    exec' = [exec EXCEPT ![e].pc = "checkpoint", ![e].result = {r}]
    BY <1>5 DEF execute_durable_post_commit
  <2>2. CASE Rejects(db, o)
    <3>1. db' = db /\ Broken(o) /\ o.db.markers = db.markers
      BY <2>1, <2>2 DEF Rejects, Broken
    <3>2. Puts(e, Stopped(e, "infra_error"))
      BY <2>1, <3>1, PutsStopped DEF Targets
    <3>3. QED
      BY <1>1, <1>3, <1>5, <3>1, <3>2
  <2>3. CASE ~Rejects(db, o)
    <3>1. /\ Tried(db, p, o.db) /\ \A r \in o.result : Found(o.db, p, r)
          /\ o.result = {} \/ o.db.markers # db.markers => Marks(db, p, o)
      BY <1>3, <2>3, TriedIs
    <3>2. Marks(db, p, o) => o.db.markers # db.markers
      BY <1>5 DEF Marks, Marked, Marker
    <3>3. CASE o.db.markers # db.markers
      <4>1. Puts(e, Gone(e, "acknowledge"))
        BY <2>1, <3>3, PutsGone
      <4>2. Effected(e)
        BY <2>1, <2>3, <3>1, <3>3, <4>1 DEF Effected
      <4>3. QED
        BY <1>1, <1>3, <1>5, <4>2
    <3>4. CASE o.db.markers = db.markers /\ Broken(o)
      <4>1. Puts(e, Stopped(e, "infra_error"))
        BY <2>1, <3>4, PutsStopped DEF Targets
      <4>2. Effected(e)
        BY <2>1, <2>3, <3>1, <3>2, <3>4, <4>1 DEF Effected
      <4>3. QED
        BY <1>1, <1>3, <1>5, <4>2
    <3>5. CASE o.db.markers = db.markers /\ ~Broken(o)
      <4>1. PICK r \in o.result : exec' = [exec EXCEPT ![e].pc = "checkpoint", ![e].result = {r}]
        BY <2>1, <3>5
      <4>2. Found(o.db, p, r)
        BY <3>1
      <4>3. Puts(e, Done(e, r))
        BY <4>1, <4>2, PutsDone DEF Found
      <4>4. Effected(e)
        BY <2>1, <2>3, <3>1, <3>2, <3>5, <4>2, <4>3 DEF Effected
      <4>5. QED
        BY <1>1, <1>3, <1>5, <4>4
    <3>6. QED
      BY <3>3, <3>4, <3>5
  <2>4. QED
    BY <2>2, <2>3
<1>6. QED
  BY <1>4, <1>5

Asked(step, calls) ==
  [i \in DOMAIN calls |-> [call |-> <<step, i>>, request |-> calls[i],
                           attempt |-> 1, approval |-> FALSE]]

\* The calls of a step are pending under its number, at their first attempt.
LEMMA AskedIs ==
  ASSUME NEW step \in 1 .. MaxSteps, NEW calls \in Seq(Requests)
  PROVE  /\ Asked(step, calls) \in Seq(Pendings) /\ DOMAIN Asked(step, calls) = DOMAIN calls
         /\ \A i \in DOMAIN calls :
              /\ Asked(step, calls)[i].call = <<step, i>> /\ Asked(step, calls)[i].request = calls[i]
              /\ Asked(step, calls)[i].attempt = 1 /\ Asked(step, calls)[i].approval = FALSE
<1>1. DOMAIN calls = 1 .. Len(calls) /\ Len(calls) \in Nat
  OBVIOUS
<1>2. \A i \in DOMAIN calls : [call |-> <<step, i>>, request |-> calls[i],
                               attempt |-> 1, approval |-> FALSE] \in Pendings
  BY <1>1 DEF Pendings, Calls, Attempts
<1>3. Asked(step, calls) \in [1 .. Len(calls) -> Pendings]
  BY <1>1, <1>2 DEF Asked
<1>4. \A i \in DOMAIN calls :
        /\ Asked(step, calls)[i].call = <<step, i>> /\ Asked(step, calls)[i].request = calls[i]
        /\ Asked(step, calls)[i].attempt = 1 /\ Asked(step, calls)[i].approval = FALSE
  BY DEF Asked
<1>5. QED
  BY <1>1, <1>3, <1>4

Seen(e) == [exec[e] EXCEPT !.checkpoint = db'.checkpoint]

\* What a call holds after it stored an agent output.
LEMMA SeenFields ==
  ASSUME Typed, NEW e \in Executors
  PROVE  /\ Seen(e).pc = exec[e].pc /\ Seen(e).lease = exec[e].lease
         /\ Seen(e).checkpoint = db'.checkpoint
BY DEF Typed, Execs, Seen

\* The step is the event its checkpoint ends at; only the lifecycle's may follow.
Spoke(d, x) ==
  LET n == Len(d.events) + 1
  IN /\ x.checkpoint.last_event_sequence = n /\ n \in News(d, x)
     /\ x.events[n].type = "agent.step" /\ x.events[n].call = <<steps(d.checkpoint) + 1, 0>>
     /\ \A i \in News(d, x) : i = n \/ x.events[i].type = "run.lifecycle"

\* An agent output in evidence, in the checkpoint, and in what the call holds.
Stepped(e, a, ready) ==
  LET c == db.checkpoint
      x == db'.checkpoint
  IN /\ Calm(db, db') /\ db'.attempt = db.attempt /\ db'.lease = db.lease
     /\ db'.status = IF ready THEN "evaluating" ELSE db.status
     /\ \A i, j \in News(db, db') :
          db'.events[i].type = "agent.step" /\ db'.events[j].type = "agent.step" => i = j
     /\ x.version = c.version + 1 /\ x.trajectory = Append(c.trajectory, a)
     /\ x.pending = Asked(steps(c) + 1, a.calls)
     /\ ready => a.final /\ x.status = "final" /\ x.spent = {} /\ x.pending = <<>>
     /\ ~ready => x.status = "active" /\ (a.final => x.spent # {})
     /\ Spoke(db, db')
     /\ \/ Puts(e, Stopped(e, "timed_out"))
        \/ Puts(e, Idle)
        \/ Puts(e, Seen(e))

\* persist_agent_output, of the checkpoint c.
Output(e, c, calls, final, spends) ==
  LET step == steps(c) + 1
      ready == final /\ within_budgets(c, spends)
      stepped == Add(db, Event("agent.step", <<step, 0>>, 0, "completed"))
      stored == [stepped EXCEPT !.checkpoint =
        [version |-> c.version + 1, last_event_sequence |-> Len(stepped.events),
         trajectory |-> Append(c.trajectory, [kind |-> "assistant", calls |-> calls,
                                              final |-> final]),
         pending |-> Asked(step, calls), status |-> IF ready THEN "final" ELSE "active",
         spent |-> c.spent \cup spends]]
  IN /\ final => calls = <<>>
     /\ db' = IF ready THEN Move(stored, "evaluating") ELSE stored
     /\ IF overrun(stored.checkpoint) THEN Stop(e, "timed_out")
        ELSE IF ready THEN Return(e)
        ELSE exec' = [exec EXCEPT ![e].checkpoint = stored.checkpoint]

Outputs(e, c) ==
  \E calls \in Turns, final \in BOOLEAN, spends \in SUBSET Overruns :
    Output(e, c, calls, final, spends)

\* An agent output is one step in evidence and in the checkpoint.
LEMMA Persists ==
  ASSUME Typed, Views, NEW e \in Executors, persist_agent_output(e)
  PROVE  /\ exec[e].pc = "ready" /\ Owns(e) /\ exec[e].checkpoint = db.checkpoint
         /\ db.checkpoint.pending = <<>> /\ steps(db.checkpoint) < MaxSteps
         /\ \E a \in ATurns, ready \in BOOLEAN : Stepped(e, a, ready)
<1> DEFINE c == db.checkpoint
           step == steps(c) + 1
<1>1. Owns(e) /\ exec[e].checkpoint = c
  BY CurrentIs DEF persist_agent_output
<1>2. exec[e].pc = "ready" /\ c.pending = <<>>
  BY <1>1 DEF persist_agent_output, MayAsk
<1>3. steps(c) < MaxSteps /\ step \in 1 .. MaxSteps
  <2>1. steps(c) \in Nat /\ MaxSteps \in Nat
    BY Counts, Constants, Sizes DEF Typed, Attempts
  <2>2. ~(steps(c) >= MaxSteps)
    BY <1>1 DEF persist_agent_output, MayAsk, steps_spent
  <2>3. QED
    BY <2>1, <2>2
<1> HIDE DEF c, step
<1>o. Outputs(e, exec[e].checkpoint)
  BY DEF persist_agent_output, Outputs, Output, Asked
<1>p. Outputs(e, c)
  BY <1>1, <1>o
<1>4. PICK calls \in Turns, final \in BOOLEAN, spends \in SUBSET Overruns :
        Output(e, c, calls, final, spends)
  BY <1>p DEF Outputs
<1> DEFINE a == [kind |-> "assistant", calls |-> calls, final |-> final]
           ready == final /\ within_budgets(c, spends)
           stepped == Add(db, Event("agent.step", <<step, 0>>, 0, "completed"))
           v == [version |-> c.version + 1, last_event_sequence |-> Len(stepped.events),
                 trajectory |-> Append(c.trajectory, a),
                 pending |-> Asked(step, calls), status |-> IF ready THEN "final" ELSE "active",
                 spent |-> c.spent \cup spends]
           stored == [stepped EXCEPT !.checkpoint = v]
<1>5. /\ final => calls = <<>>
      /\ db' = IF ready THEN Move(stored, "evaluating") ELSE stored
      /\ IF overrun(stored.checkpoint) THEN Stop(e, "timed_out")
         ELSE IF ready THEN Return(e)
         ELSE exec' = [exec EXCEPT ![e].checkpoint = stored.checkpoint]
  BY <1>4 DEF Output, step
<1>6. a \in ATurns /\ calls \in Seq(Requests) /\ ready \in BOOLEAN
  BY Constants DEF ATurns, within_budgets
<1>7. a.calls = calls /\ a.final = final
  OBVIOUS
<1>8. PICK s \in Events : s = Event("agent.step", <<step, 0>>, 0, "completed")
  BY <1>3, EventTypes
<1>9. s.type = "agent.step" /\ s.call = <<step, 0>>
  BY <1>8, EventFields
<1>10. /\ stepped \in Databases /\ Frame(db, stepped) /\ stepped.events = Append(db.events, s)
       /\ stepped.effects = db.effects /\ stepped.markers = db.markers
       /\ stepped.approvals = db.approvals
  BY <1>8, Adds DEF Typed
<1>11. c \in Checkpoints
  BY Sizes DEF Typed, c
<1> HIDE DEF stepped, a, ready
<1>12. v \in Checkpoints
  <2>1. c.version + 1 \in Nat /\ Append(c.trajectory, a) \in Seq(ATurns \cup TTurns)
        /\ c.spent \cup spends \in SUBSET Overruns
    BY <1>6, <1>11 DEF Checkpoints
  <2>2. Len(stepped.events) \in Nat
    BY <1>10, Sizes
  <2>3. Asked(step, calls) \in Seq(Pendings)
    BY <1>3, <1>6, AskedIs
  <2>4. QED
    BY <2>1, <2>2, <2>3 DEF Checkpoints
<1>13. /\ v.version = c.version + 1 /\ v.trajectory = Append(c.trajectory, a)
       /\ v.pending = Asked(step, calls) /\ v.status = IF ready THEN "final" ELSE "active"
       /\ v.spent = c.spent \cup spends /\ v.last_event_sequence = Len(stepped.events)
  OBVIOUS
<1> HIDE DEF v
<1>14. /\ stored \in Databases /\ stored.checkpoint = v
       /\ stored.status = db.status /\ stored.attempt = db.attempt /\ stored.lease = db.lease
       /\ stored.events = Append(db.events, s) /\ stored.effects = db.effects
       /\ stored.markers = db.markers /\ stored.approvals = db.approvals
  <2>1. PICK w \in Databases : w = stepped
    BY <1>10
  <2>2. stored = [w EXCEPT !.checkpoint = v]
    BY <2>1
  <2>3. /\ stored \in Databases /\ stored.checkpoint = v
        /\ stored.status = w.status /\ stored.attempt = w.attempt /\ stored.lease = w.lease
        /\ stored.events = w.events /\ stored.effects = w.effects
        /\ stored.markers = w.markers /\ stored.approvals = w.approvals
    BY <1>12, <2>2 DEF Databases
  <2>4. QED
    BY <1>10, <2>1, <2>3 DEF Frame
<1> HIDE DEF stored
<1>15. /\ Calm(db, stored) /\ News(db, stored) = {Len(db.events) + 1} /\ Len(db.events) \in Nat
       /\ Len(stored.events) = Len(db.events) + 1
  <2>1. /\ Grows(db, stored) /\ News(db, stored) = {Len(db.events) + 1}
        /\ stored.events[Len(db.events) + 1] = s /\ Len(stored.events) = Len(db.events) + 1
    BY <1>14, GrowsBy DEF Typed
  <2>2. QED
    BY <1>9, <1>14, <2>1, Sizes DEF Calm, ToolTypes, Typed
<1>s. Spoke(db, stored)
  <2>1. /\ stored.events[Len(db.events) + 1] = s
        /\ Len(stepped.events) = Len(db.events) + 1
    BY <1>10, <1>14, GrowsBy DEF Typed
  <2>2. QED
    BY <1>9, <1>13, <1>14, <1>15, <2>1 DEF Spoke, c, step
<1>16. CASE ready
  <2>1. db' = Move(stored, "evaluating")
    BY <1>5, <1>16
  <2>2. /\ db' \in Databases /\ db'.status = "evaluating" /\ db'.attempt = db.attempt
        /\ db'.lease = db.lease /\ db'.checkpoint = v /\ Quiet(stored, db')
    BY <1>14, <2>1, Moves, QuietMove DEF Statuses
  <2>3. Calm(db, db') /\ News(db, db') = News(db, stored) \cup News(stored, db')
    <3>1. Grows(db, db') /\ News(db, db') = News(db, stored) \cup News(stored, db')
      BY <1>14, <1>15, <2>2, Sizes DEF Typed, Quiet, Calm, Grows, News
    <3>2. \A i \in News(db, stored) : db'.events[i] = stored.events[i]
      BY <1>14, <1>15, <2>2, Sizes DEF Typed, Quiet, Calm, Grows, News
    <3>3. QED
      BY <1>14, <1>15, <2>2, <3>1, <3>2 DEF Quiet, Calm
  <2>4. \A i, j \in News(db, db') :
          db'.events[i].type = "agent.step" /\ db'.events[j].type = "agent.step" => i = j
    BY <1>15, <2>2, <2>3 DEF Quiet
  <2>5. a.final /\ v.status = "final" /\ v.spent = {} /\ v.pending = <<>>
    <3>1. final /\ c.spent \cup spends = {}
      BY <1>16 DEF ready, within_budgets
    <3>2. calls = <<>>
      BY <1>5, <3>1
    <3>3. DOMAIN Asked(step, calls) = DOMAIN calls /\ Asked(step, calls) \in Seq(Pendings)
      BY <1>3, <1>6, AskedIs
    <3>4. Asked(step, calls) = <<>>
      BY <3>2, <3>3
    <3>5. QED
      BY <1>7, <1>13, <1>16, <3>1, <3>4
  <2>6. Puts(e, Idle)
    <3>1. ~overrun(stored.checkpoint)
      BY <1>14, <2>5 DEF overrun
    <3>2. QED
      BY <1>5, <1>16, <3>1, PutsIdle
  <2>s. Spoke(db, db')
    <3>1. \A i \in News(db, stored) : db'.events[i] = stored.events[i]
      BY <1>14, <1>15, <2>2, Sizes DEF Typed, Quiet, Calm, Grows, News
    <3>2. \A i \in News(stored, db') : db'.events[i].type = "run.lifecycle"
      <4>1. PICK w \in Events : w = Event("run.lifecycle", NoCall, 0, "evaluating")
        BY EventTypes DEF Statuses
      <4>2. w.type = "run.lifecycle" /\ db'.events = Append(stored.events, w)
        BY <1>14, <2>1, <4>1, EventFields, Moves DEF Statuses
      <4>3. QED
        BY <1>14, <2>2, <4>2, GrowsBy
    <3>3. QED
      BY <1>s, <1>14, <2>2, <2>3, <3>1, <3>2 DEF Spoke
  <2>7. Stepped(e, a, TRUE)
    BY <1>7, <1>13, <2>2, <2>3, <2>4, <2>5, <2>6, <2>s DEF Stepped, c, step
  <2>8. QED
    BY <1>1, <1>2, <1>3, <1>6, <2>7 DEF c
<1>17. CASE ~ready
  <2>1. db' = stored
    BY <1>5, <1>17
  <2>2. \A i, j \in News(db, db') :
          db'.events[i].type = "agent.step" /\ db'.events[j].type = "agent.step" => i = j
    BY <1>15, <2>1
  <2>s. Spoke(db, db') /\ (a.final => v.spent # {})
    BY <1>7, <1>13, <1>17, <1>s, <2>1 DEF ready, within_budgets
  <2>3. CASE overrun(v)
    <3>1. Puts(e, Stopped(e, "timed_out"))
      BY <1>5, <1>14, <2>3, PutsStopped DEF Targets
    <3>2. Stepped(e, a, FALSE)
      BY <1>7, <1>13, <1>14, <1>15, <1>17, <2>1, <2>2, <2>s, <3>1 DEF Stepped, c, step
    <3>3. QED
      BY <1>1, <1>2, <1>3, <1>6, <3>2 DEF c
  <2>4. CASE ~overrun(v)
    <3>1. exec' = [exec EXCEPT ![e].checkpoint = v]
      BY <1>5, <1>14, <1>17, <2>4
    <3>2. Seen(e) = [exec[e] EXCEPT !.checkpoint = v]
      BY <1>14, <2>1 DEF Seen
    <3>3. /\ Seen(e) \in Execs
          /\ exec' = [exec EXCEPT ![e] = Seen(e)]
      <4>1. Seen(e) \in Execs
        <5>1. db'.checkpoint \in Checkpoints
          BY <1>12, <1>14, <2>1
        <5>2. QED
          BY <5>1 DEF Typed, Seen, Execs
      <4>2. exec' = [exec EXCEPT ![e] = Seen(e)]
        BY <3>1, <3>2 DEF Typed
      <4>3. QED
        BY <4>1, <4>2
    <3>4. Puts(e, Seen(e))
      BY <3>3, Writes
    <3>5. Stepped(e, a, FALSE)
      BY <1>7, <1>13, <1>14, <1>15, <1>17, <2>1, <2>2, <2>s, <3>4 DEF Stepped, c, step
    <3>6. QED
      BY <1>1, <1>2, <1>3, <1>6, <3>5 DEF c
  <2>5. QED
    BY <2>3, <2>4
<1>18. QED
  BY <1>16, <1>17

\* The event of an acknowledgement.
AckE(p, v) ==
  /\ v.type = "tool.result" /\ v.call = p.call /\ v.attempt = p.attempt
  /\ v.info = "fault_timeout"

\* The acknowledgement, once.
LEMMA Acknowledges ==
  ASSUME Typed, Places, Grounded(db), NEW e \in Executors, acknowledge_post_commit(e)
  PROVE  LET p == Head(exec[e].checkpoint.pending)
         IN /\ exec[e].pc = "acknowledge" /\ Owns(e) /\ p \in Pendings /\ Marked(db, p)
            /\ Requested(db, p) # {} /\ db' \in Databases
            /\ \/ Answered(db, p) # {} /\ db' = db
               \/ /\ Answered(db, p) = {} /\ Frame(db, db')
                  /\ \E v \in Events : AckE(p, v) /\ db'.events = Append(db.events, v)
                  /\ db'.effects = db.effects
                  /\ db'.markers = db.markers /\ db'.approvals = db.approvals
            /\ \E r : Found(db', p, r) /\ Puts(e, Done(e, r))
<1> DEFINE p == Head(exec[e].checkpoint.pending)
<1>1. exec[e].pc = "acknowledge" /\ Owns(e)
  BY DEF acknowledge_post_commit
<1>2. exec[e].checkpoint.pending # <<>> /\ Marked(db, p)
  BY <1>1 DEF Places, Place
<1>3. p \in Pendings /\ db \in Databases
  BY <1>2, Fields, Heads DEF Typed
<1>4. Requested(db, p) # {}
  <2>1. Marker(p) \in db.markers
    BY <1>2 DEF Marked, Marker
  <2>2. Requested(db, Marker(p)) # {}
    BY <2>1 DEF Grounded, Traced
  <2>3. QED
    BY <2>2 DEF Requested, Marker
<1>5. FALSE \in Slow /\ "fault_timeout" \in Codes
  BY DEF Slow, Codes
<1>6. PICK slow \in Slow :
        db' = IF Answered(db, p) = {} THEN Answer(db, p, "fault_timeout", slow).db ELSE db
  BY DEF acknowledge_post_commit
<1>7. PICK v \in Events : v = ResE(p, "fault_timeout", slow)
  BY <1>3, <1>5, EventTypes
<1> HIDE DEF p
<1>14. AckE(p, v) /\ v.type = "tool.result" /\ v.call = p.call /\ v.attempt = p.attempt
  BY <1>7, EventFields DEF AckE
<1>8. /\ db' \in Databases /\ Answered(db', p) # {} /\ Grows(db, db')
      /\ \/ Answered(db, p) # {} /\ db' = db
         \/ /\ Answered(db, p) = {} /\ Frame(db, db')
            /\ db'.events = Append(db.events, v) /\ db'.effects = db.effects
            /\ db'.markers = db.markers /\ db'.approvals = db.approvals
  <2>1. CASE Answered(db, p) # {}
    <3>1. db' = db
      BY <1>6, <2>1
    <3>2. Grows(db, db)
      BY <1>3, Sizes DEF Grows
    <3>3. QED
      BY <1>3, <2>1, <3>1, <3>2
  <2>2. CASE Answered(db, p) = {}
    <3>1. db' = Add(db, v)
      BY <1>6, <1>7, <2>2 DEF Answer, ResE
    <3>2. /\ db' \in Databases /\ Frame(db, db') /\ db'.events = Append(db.events, v)
          /\ db'.effects = db.effects /\ db'.markers = db.markers /\ db'.approvals = db.approvals
      BY <1>3, <3>1, Adds
    <3>3. /\ Grows(db, db') /\ db'.events[Len(db.events) + 1] = v
          /\ Len(db'.events) = Len(db.events) + 1
      BY <1>3, <3>2, GrowsBy
    <3>4. Len(db.events) + 1 \in DOMAIN db'.events
      BY <1>3, <3>2, <3>3, Sizes
    <3>5. Len(db.events) + 1 \in Answered(db', p)
      BY <1>14, <3>3, <3>4 DEF Answered, Positions
    <3>6. QED
      BY <2>2, <3>2, <3>3, <3>5
  <2>3. QED
    BY <2>1, <2>2
<1>9. Requested(db', p) # {}
  BY <1>3, <1>4, <1>8, Keeps
<1>10. Found(db', p, Recorded(db', p))
  BY <1>3, <1>8, <1>9, RecordedIs DEF Found
<1>11. exec' = [exec EXCEPT ![e].pc = "checkpoint", ![e].result = {Recorded(db', p)}]
  BY DEF acknowledge_post_commit, p
<1>12. Puts(e, Done(e, Recorded(db', p)))
  BY <1>10, <1>11, PutsDone DEF Found
<1>13. QED
  BY <1>1, <1>2, <1>3, <1>4, <1>8, <1>10, <1>12, <1>14 DEF p

\* A result is stored with the checkpoint that follows from it.
LEMMA StoresResult ==
  ASSUME Typed, Views, Places, NEW e \in Executors, checkpoint_post_commit(e)
  PROVE  /\ exec[e].pc = "checkpoint" /\ Owns(e) /\ exec[e].checkpoint = db.checkpoint
         /\ db.checkpoint.pending # <<>>
         /\ \E r \in exec[e].result :
              /\ r \in Results /\ db' = Stored(db, db.checkpoint, r)
              /\ Puts(e, Idle) \/ (r.code \notin WAITS /\ Puts(e, Again(e)))
<1>1. exec[e].pc = "checkpoint" /\ Owns(e) /\ exec[e].checkpoint = db.checkpoint
  BY CurrentIs DEF checkpoint_post_commit
<1>2. db.checkpoint.pending # <<>>
  BY <1>1 DEF Places, Place
<1>3. PICK r \in exec[e].result : store(e, db, r)
  BY DEF checkpoint_post_commit
<1>4. r \in Results
  BY <1>3 DEF Typed, Execs
<1>5. db' = Stored(db, db.checkpoint, r)
  BY <1>1, <1>3 DEF store, Stored
<1>6. Puts(e, Idle) \/ (r.code \notin WAITS /\ Puts(e, Again(e)))
  BY <1>3, PutsIdle, PutsAgain DEF store, Again
<1>7. QED
  BY <1>1, <1>2, <1>3, <1>4, <1>5, <1>6
-----------------------------------------------------------------------------
(* Every step keeps Sound and only extends what is there.                  *)

Progresses ==
  /\ Grows(db, db') /\ db.markers \subseteq db'.markers
  /\ \/ db'.checkpoint = db.checkpoint
     \/ /\ db'.checkpoint.version = db.checkpoint.version + 1
        /\ \E t \in ATurns \cup TTurns :
             db'.checkpoint.trajectory = Append(db.checkpoint.trajectory, t)

LeaseShown(d) == d.lease = "none" <=> d.status \in TERMINAL_STATUSES \cup {"queued"}

\* A step of one call keeps Sound when it keeps the parts of it that it touches.
LEMMA SoundPut ==
  ASSUME Sound, NEW e \in Executors, NEW y, Puts(e, y), Progresses, Grounded(db'), LeaseShown(db'),
         y.checkpoint \in {exec[e].checkpoint, NoCheckpoint, db'.checkpoint},
         db'.attempt = db.attempt, y.lease <= db.attempt, Place(db', y)
  PROVE  Sound'
<1>1. /\ Typed' /\ exec'[e] = y /\ \A o \in Executors \ {e} : exec'[o] = exec[o]
      /\ db' \in Databases
  BY DEF Puts, Progresses, Grows, Typed
<1>2. Leases'
  BY <1>1 DEF Sound, Leases, LeaseShown
<1>3. Views'
  <2>1. db.checkpoint \in Checkpoints /\ db'.checkpoint \in Checkpoints
    BY <1>1, Sizes DEF Sound, Typed
  <2>2. db.checkpoint.version \in Nat /\ db'.checkpoint.version \in Nat
    BY <2>1 DEF Checkpoints
  <2>3. \A o \in Executors : exec[o].checkpoint.version \in Nat
    BY Fields DEF Sound, Checkpoints
  <2>4. /\ db'.checkpoint.version = 0 => db'.checkpoint = NoCheckpoint
        /\ db.checkpoint.version <= db'.checkpoint.version
        /\ db.checkpoint.version = db'.checkpoint.version => db'.checkpoint = db.checkpoint
    BY <2>2 DEF Sound, Views, Progresses
  <2>5. NoCheckpoint.version = 0
    BY DEF NoCheckpoint
  <2>6. ASSUME NEW o \in Executors
        PROVE  /\ exec'[o].checkpoint.version <= db'.checkpoint.version
               /\ exec'[o].checkpoint.version = db'.checkpoint.version
                    => exec'[o].checkpoint = db'.checkpoint
    <3>1. exec'[o].checkpoint \in {exec[o].checkpoint, NoCheckpoint, db'.checkpoint}
      BY <1>1
    <3>2. CASE exec'[o].checkpoint = exec[o].checkpoint
      BY <2>2, <2>3, <2>4, <3>2 DEF Sound, Views
    <3>3. CASE exec'[o].checkpoint = NoCheckpoint
      BY <2>2, <2>4, <2>5, <3>3
    <3>4. CASE exec'[o].checkpoint = db'.checkpoint
      BY <2>2, <3>4
    <3>5. QED
      BY <3>1, <3>2, <3>3, <3>4
  <2>7. QED
    BY <2>4, <2>6 DEF Views
<1>4. Places'
  <2>1. ASSUME NEW o \in Executors
        PROVE  Place(db', exec'[o])
    <3>1. CASE o = e
      BY <1>1, <3>1
    <3>2. CASE o # e
      BY <1>1, <3>2 DEF Sound, Places, Place, Progresses, Marked
    <3>3. QED
      BY <3>1, <3>2
  <2>2. QED
    BY <2>1 DEF Places
<1>5. QED
  BY <1>1, <1>2, <1>3, <1>4 DEF Sound

\* A step of no call.
LEMMA SoundQuiet ==
  ASSUME Sound, Quiet(db, db'), exec' = exec, LeaseShown(db'),
         db'.attempt \in {db.attempt, db.attempt + 1}
  PROVE  Sound' /\ Progresses
<1>1. Progresses /\ Typed'
  BY DEF Quiet, Calm, Progresses, Grows, Sound, Typed
<1>2. Grounded(db')
  BY <1>1, CalmGrounded DEF Sound, Typed, Quiet
<1>3. Leases'
  <2>1. db.attempt \in Nat
    BY DEF Sound, Typed, Databases
  <2>2. \A e \in Executors : exec[e].lease \in Nat
    BY Fields DEF Sound
  <2>3. QED
    BY <2>1, <2>2 DEF Sound, Leases, LeaseShown
<1>4. Views'
  BY DEF Sound, Views, Quiet
<1>5. Places'
  BY DEF Sound, Places, Place, Quiet, Calm, Marked
<1>6. QED
  BY <1>1, <1>2, <1>3, <1>4, <1>5 DEF Sound

\* Rows that stay as they are.
LEMMA SoundUnchanged ==
  ASSUME Sound, db' = db
  PROVE  Progresses /\ Grounded(db') /\ LeaseShown(db') /\ Grows(db, db')
BY Sizes DEF Sound, Typed, Leases, LeaseShown, Progresses, Grows

\* A call that returns, loads again, or stops.
LEMMA PlaceEasy ==
  ASSUME Typed, NEW e \in Executors, NEW d
  PROVE  /\ Place(d, Idle) /\ Place(d, Again(e))
         /\ \A target \in Targets :
              /\ Place(d, Stopped(e, target))
              /\ steps(exec[e].checkpoint) < MaxSteps => Place(d, Failing(e, target))
BY Fields DEF Place

\* Who holds the lease holds that of a Run in progress.
LEMMA Owning ==
  ASSUME NEW e \in Executors, Holds(db, e)
  PROVE  /\ db.lease = "live" /\ db.attempt = exec[e].lease
         /\ db.status \notin TERMINAL_STATUSES \cup {"queued"}
BY DEF Holds, TERMINAL_STATUSES

\* A call that returns or stops without a write.
LEMMA SoundIdle ==
  ASSUME Sound, NEW e \in Executors, db' = db, NEW y, Puts(e, y),
         \/ y = Idle
         \/ \E target \in Targets :
              y = Stopped(e, target) \/ (y = Failing(e, target) /\ steps(exec[e].checkpoint) < MaxSteps)
  PROVE  Sound' /\ Progresses
<1>1. Progresses /\ Grounded(db') /\ LeaseShown(db')
  BY SoundUnchanged
<1>2. Typed /\ exec[e].lease <= db.attempt /\ db.attempt \in Nat
  BY DEF Sound, Leases, Typed, Databases
<1>3. y.checkpoint \in {exec[e].checkpoint, NoCheckpoint} /\ y.lease \in {0, exec[e].lease}
  BY <1>2, Fields
<1>4. Place(db', y)
  BY <1>2, PlaceEasy
<1>5. y.lease <= db.attempt
  BY <1>2, <1>3
<1>6. QED
  BY <1>1, <1>3, <1>4, <1>5, SoundPut

\* Leases, operators and the evaluator keep Sound.
LEMMA SoundEnvironment ==
  ASSUME Sound,
         \/ claim_next_run \/ lease_expires \/ requeue_expired_run \/ cancel_queued_run
         \/ resolve_approval_request \/ evaluate_leased_run
  PROVE  Sound' /\ Progresses
<1>1. Typed /\ LeaseShown(db) /\ db.attempt \in Nat
  BY DEF Sound, Leases, LeaseShown, Typed, Databases
<1>2. CASE claim_next_run
  BY <1>1, <1>2, Claims, SoundQuiet DEF LeaseShown, TERMINAL_STATUSES
<1>3. CASE lease_expires
  BY <1>1, <1>3, Expires, SoundQuiet DEF LeaseShown
<1>4. CASE requeue_expired_run
  BY <1>1, <1>4, Requeues, SoundQuiet DEF LeaseShown
<1>5. CASE resolve_approval_request
  BY <1>1, <1>5, Resolves, SoundQuiet DEF LeaseShown
<1>6. CASE evaluate_leased_run
  BY <1>1, <1>6, Evaluates, SoundQuiet DEF LeaseShown, TERMINAL_STATUSES
<1>7. CASE cancel_queued_run
  BY <1>1, <1>7, Cancels, SoundQuiet DEF LeaseShown, TERMINAL_STATUSES
<1>8. QED
  BY <1>2, <1>3, <1>4, <1>5, <1>6, <1>7

\* A new call keeps Sound.
LEMMA SoundStart ==
  ASSUME Sound, NEW e \in Executors, start(e)
  PROVE  Sound' /\ Progresses
<1> DEFINE y == [Idle EXCEPT !.pc = "loading", !.lease = db.attempt]
<1>1. Typed /\ db.attempt \in 0 .. MaxClaims /\ db.attempt \in Nat
  BY DEF Sound, Typed, Databases
<1>2. y \in Execs /\ y.lease = db.attempt /\ y.checkpoint = NoCheckpoint /\ y.pc = "loading"
  <2>1. y \in Execs
    BY <1>1, Idles DEF Execs
  <2>2. y.lease = db.attempt /\ y.checkpoint = NoCheckpoint /\ y.pc = "loading"
    BY DEF Idle
  <2>3. QED
    BY <2>1, <2>2
<1>3. db' = db /\ exec' = [exec EXCEPT ![e] = y]
  BY DEF start
<1> HIDE DEF y
<1>4. Puts(e, y)
  BY <1>1, <1>2, <1>3, Writes
<1>5. Place(db', y)
  BY <1>2 DEF Place
<1>6. QED
  BY <1>1, <1>2, <1>3, <1>4, <1>5, SoundUnchanged, SoundPut

\* An adapter is asked while steps are left.
LEMMA Unspent ==
  ASSUME Typed, NEW e \in Executors, MayAsk(e)
  PROVE  steps(exec[e].checkpoint) < MaxSteps
<1>1. steps(exec[e].checkpoint) \in Nat /\ MaxSteps \in Nat
  BY Fields, Counts, Constants DEF Attempts
<1>2. ~(steps(exec[e].checkpoint) >= MaxSteps)
  BY DEF MayAsk, steps_spent
<1>3. QED
  BY <1>1, <1>2

\* Actions that leave the rows alone and the call nothing to do.
LEMMA SoundGiveUp ==
  ASSUME Sound, NEW e \in Executors,
         crash(e) \/ give_up(e) \/ stop_at_budget(e) \/ adapter_fails(e) \/ transaction_fails(e)
  PROVE  Sound' /\ Progresses
<1>1. Typed
  BY DEF Sound
<1>2. CASE crash(e) \/ give_up(e)
  BY <1>1, <1>2, PutsIdle, SoundIdle DEF crash, give_up
<1>3. CASE stop_at_budget(e) \/ transaction_fails(e)
  <2>1. PICK target \in Targets : Stop(e, target) /\ db' = db
    BY <1>3 DEF stop_at_budget, transaction_fails, Targets
  <2>2. Puts(e, Stopped(e, target))
    BY <1>1, <2>1, PutsStopped
  <2>3. QED
    BY <2>1, <2>2, SoundIdle
<1>4. CASE adapter_fails(e)
  <2>1. PICK target \in Targets : Fail(e, target) /\ db' = db
    BY <1>4 DEF adapter_fails, Targets
  <2>2. Puts(e, Failing(e, target))
    BY <1>1, <2>1, PutsFailing
  <2>3. steps(exec[e].checkpoint) < MaxSteps
    BY <1>1, <1>4, Unspent DEF adapter_fails
  <2>4. QED
    BY <2>1, <2>2, <2>3, SoundIdle
<1>5. QED
  BY <1>2, <1>3, <1>4

\* The end of the Run keeps Sound.
LEMMA SoundTerminate ==
  ASSUME Sound, NEW e \in Executors, terminate(e)
  PROVE  Sound' /\ Progresses
<1>1. /\ Typed /\ Calm(db, db') /\ db'.attempt = db.attempt /\ db'.lease = "none"
      /\ db'.status \in Targets /\ Puts(e, Idle) /\ db.attempt \in Nat
      /\ db'.checkpoint = db.checkpoint
  BY Terminates DEF Sound, Typed, Databases
<1>2. LeaseShown(db')
  BY <1>1 DEF LeaseShown, Targets, TERMINAL_STATUSES
<1>3. Progresses /\ Grounded(db')
  BY <1>1, CalmGrounded DEF Calm, Progresses, Grows, Sound, Typed
<1>4. Idle.lease = 0 /\ Idle.checkpoint = NoCheckpoint /\ Place(db', Idle)
  BY <1>1, Fields, PlaceEasy
<1>5. QED
  BY <1>1, <1>2, <1>3, <1>4, SoundPut

\* A checkpoint after the rows grew.
LEMMA SoundStored ==
  ASSUME NEW d \in Databases, Grounded(d), NEW c \in Checkpoints, c.pending # <<>>, NEW r \in Results,
         c = d.checkpoint, db' = Stored(d, c, r), Grows(db, d), db.markers \subseteq d.markers,
         d.checkpoint = db.checkpoint
  PROVE  Progresses /\ Grounded(db')
<1>1. /\ db' \in Databases /\ db'.checkpoint = checkpoint_after_tool(d, c, r)
      /\ db'.events = d.events /\ db'.markers = d.markers /\ Calm(d, db')
  BY Storing
<1>2. /\ db'.checkpoint.version = c.version + 1 /\ Turn(Head(c.pending), r) \in TTurns
      /\ db'.checkpoint.trajectory = Append(c.trajectory, Turn(Head(c.pending), r))
  <2>1. PICK v : v = checkpoint_after_tool(d, c, r)
    OBVIOUS
  <2>2. /\ v.version = c.version + 1 /\ Turn(Head(c.pending), r) \in TTurns
        /\ v.trajectory = Append(c.trajectory, Turn(Head(c.pending), r))
    BY <2>1, AfterTool
  <2>3. QED
    BY <1>1, <2>1, <2>2
<1>3. Grows(db, db')
  BY <1>1 DEF Grows
<1>4. QED
  BY <1>1, <1>2, <1>3, CalmGrounded DEF Progresses

\* A load keeps Sound.
LEMMA SoundLoad ==
  ASSUME Sound, NEW e \in Executors, load(e)
  PROVE  Sound' /\ Progresses
<1>1. Typed /\ Grounded(db) /\ LeaseShown(db) /\ db.attempt \in Nat /\ exec[e].lease <= db.attempt
  BY DEF Sound, Leases, LeaseShown, Typed, Databases
<1>2. CASE db' = db /\ Puts(e, Idle)
  BY <1>2, SoundIdle
<1>3. CASE ~(db' = db /\ Puts(e, Idle))
  <2>1. PICK y : y = Entered(db)
    OBVIOUS
  <2>2. /\ Enters(y) /\ Grounded(y) /\ db' \in Databases /\ Holds(db, e)
        /\ (Recovery(y) # "adopt" /\ db' = y) \/ Adopted(y)
        /\ Puts(e, Idle) \/ Puts(e, Readied(e))
    BY <1>1, <1>3, <2>1, Loaded
  <2>3. /\ y \in Databases /\ Quiet(db, y) /\ Grows(db, y) /\ y.markers = db.markers
        /\ y.checkpoint = db.checkpoint /\ y.attempt = db.attempt
    BY <2>2 DEF Enters, Quiet, Calm
  <2>4. LeaseShown(y)
    BY <1>1, <2>2 DEF LeaseShown, Enters, TERMINAL_STATUSES
  <2>5. Progresses /\ Grounded(db') /\ LeaseShown(db') /\ db'.attempt = db.attempt
    <3>1. CASE db' = y
      BY <2>2, <2>3, <2>4, <3>1 DEF Progresses
    <3>2. CASE Adopted(y)
      <4> DEFINE r == Recorded(y, Head(y.checkpoint.pending))
      <4>1. y.checkpoint.pending # <<>> /\ r \in Results /\ db' = Stored(y, y.checkpoint, r)
        BY <3>2 DEF Adopted, Found
      <4>2. y.checkpoint \in Checkpoints
        BY <2>3, Sizes
      <4> HIDE DEF r
      <4>3. db'.status = y.status /\ db'.lease = y.lease /\ db'.attempt = y.attempt
        BY <2>3, <4>1, <4>2, Storing
      <4>4. Progresses /\ Grounded(db')
        BY <2>2, <2>3, <4>1, <4>2, SoundStored
      <4>5. QED
        BY <2>3, <2>4, <4>3, <4>4 DEF LeaseShown
    <3>3. QED
      BY <2>2, <3>1, <3>2
  <2>6. CASE Puts(e, Idle)
    <3>1. Idle.lease = 0 /\ Idle.checkpoint = NoCheckpoint /\ Place(db', Idle)
      BY <1>1, Fields, PlaceEasy
    <3>2. QED
      BY <1>1, <2>5, <2>6, <3>1, SoundPut
  <2>7. CASE Puts(e, Readied(e))
    <3>1. /\ Readied(e).lease = exec[e].lease /\ Readied(e).checkpoint = db'.checkpoint
          /\ Readied(e).pc = "ready"
      BY <1>1, ReadiedFields
    <3>2. Place(db', Readied(e))
      BY <3>1 DEF Place
    <3>3. PICK z : z = Readied(e)
      OBVIOUS
    <3>4. QED
      BY <1>1, <2>5, <2>7, <3>1, <3>2, <3>3, SoundPut
  <2>8. QED
    BY <2>2, <2>6, <2>7
<1>4. QED
  BY <1>2, <1>3

\* An agent output keeps Sound.
LEMMA SoundPersist ==
  ASSUME Sound, NEW e \in Executors, persist_agent_output(e)
  PROVE  Sound' /\ Progresses
<1>1. Typed /\ Grounded(db) /\ db.attempt \in Nat /\ exec[e].lease <= db.attempt
  BY DEF Sound, Leases, Typed, Databases
<1>2. /\ exec[e].pc = "ready" /\ Owns(e)
      /\ \E a \in ATurns, ready \in BOOLEAN : Stepped(e, a, ready)
  BY Persists DEF Sound
<1>3. PICK a \in ATurns, ready \in BOOLEAN : Stepped(e, a, ready)
  BY <1>2
<1>4. /\ Calm(db, db') /\ db'.attempt = db.attempt /\ db'.lease = db.lease
      /\ db'.status = IF ready THEN "evaluating" ELSE db.status
      /\ db'.checkpoint.version = db.checkpoint.version + 1
      /\ db'.checkpoint.trajectory = Append(db.checkpoint.trajectory, a)
      /\ \/ Puts(e, Stopped(e, "timed_out"))
         \/ Puts(e, Idle)
         \/ Puts(e, Seen(e))
  BY <1>3 DEF Stepped
<1>5. Progresses /\ Grounded(db')
  BY <1>1, <1>4, CalmGrounded DEF Progresses, Calm, Grows, Typed
<1>6. LeaseShown(db')
  BY <1>2, <1>4 DEF LeaseShown, Owns, Holds, TERMINAL_STATUSES
<1>7. CASE Puts(e, Stopped(e, "timed_out"))
  <2>1. /\ Stopped(e, "timed_out").lease = exec[e].lease /\ Place(db', Stopped(e, "timed_out"))
        /\ Stopped(e, "timed_out").checkpoint = exec[e].checkpoint
    BY <1>1, Fields, PlaceEasy DEF Targets
  <2>2. PICK z : z = Stopped(e, "timed_out")
    OBVIOUS
  <2>3. QED
    BY <1>1, <1>4, <1>5, <1>6, <1>7, <2>1, <2>2, SoundPut
<1>8. CASE Puts(e, Idle)
  <2>1. Idle.lease = 0 /\ Idle.checkpoint = NoCheckpoint /\ Place(db', Idle)
    BY <1>1, Fields, PlaceEasy
  <2>2. QED
    BY <1>1, <1>4, <1>5, <1>6, <1>8, <2>1, SoundPut
<1>9. CASE Puts(e, Seen(e))
  <2>1. /\ Seen(e).lease = exec[e].lease /\ Seen(e).checkpoint = db'.checkpoint
        /\ Seen(e).pc = "ready"
    BY <1>1, <1>2, SeenFields
  <2>2. Place(db', Seen(e))
    BY <2>1 DEF Place
  <2>3. PICK z : z = Seen(e)
    OBVIOUS
  <2>4. QED
    BY <1>1, <1>4, <1>5, <1>6, <1>9, <2>1, <2>2, <2>3, SoundPut
<1>10. QED
  BY <1>4, <1>7, <1>8, <1>9

\* What an attempt leaves of the Run's columns.
LEMMA TriedKeeps ==
  ASSUME Sound, NEW p \in Pendings, NEW x, Tried(db, p, x)
  PROVE  /\ x \in Databases /\ Grows(db, x) /\ db.markers \subseteq x.markers
         /\ x.checkpoint = db.checkpoint /\ x.attempt = db.attempt
         /\ LeaseShown(x) /\ Grounded(x)
<1>1. /\ x \in Databases /\ Grows(db, x) /\ db.markers \subseteq x.markers
      /\ x.checkpoint = db.checkpoint /\ x.attempt = db.attempt
      /\ x.status = db.status /\ x.lease = db.lease
  BY DEF Tried, Frame
<1>2. LeaseShown(x)
  BY <1>1 DEF Sound, Leases, LeaseShown
<1>3. Grounded(x)
  BY <1>1, TriedGrounded DEF Sound, Typed
<1>4. QED
  BY <1>1, <1>2, <1>3

\* A call that stored a tool result.
LEMMA SoundAfter ==
  ASSUME Sound, NEW e \in Executors, NEW d \in Databases, Grounded(d), LeaseShown(d),
         Grows(db, d), db.markers \subseteq d.markers, d.checkpoint = db.checkpoint,
         d.attempt = db.attempt, db.checkpoint.pending # <<>>, NEW r \in Results,
         db' = Stored(d, db.checkpoint, r), Puts(e, Idle) \/ Puts(e, Again(e))
  PROVE  Sound' /\ Progresses
<1>1. Typed /\ db.attempt \in Nat /\ exec[e].lease <= db.attempt /\ db.checkpoint \in Checkpoints
  BY Sizes DEF Sound, Leases, Typed, Databases
<1>2. db'.status = d.status /\ db'.lease = d.lease /\ db'.attempt = d.attempt
  BY <1>1, Storing
<1>3. Progresses /\ Grounded(db') /\ LeaseShown(db')
  BY <1>1, <1>2, SoundStored DEF LeaseShown
<1>4. /\ Idle.lease = 0 /\ Idle.checkpoint = NoCheckpoint /\ Place(db', Idle)
      /\ Again(e).lease = exec[e].lease /\ Again(e).checkpoint = NoCheckpoint /\ Place(db', Again(e))
  BY <1>1, Fields, PlaceEasy
<1>5. PICK z : z \in {Idle, Again(e)} /\ Puts(e, z)
  OBVIOUS
<1>6. z.lease <= db.attempt /\ z.checkpoint = NoCheckpoint /\ Place(db', z)
  BY <1>1, <1>4, <1>5
<1>7. QED
  BY <1>2, <1>3, <1>5, <1>6, SoundPut

\* A dispatch in one transaction keeps Sound.
LEMMA SoundDispatch ==
  ASSUME Sound, NEW e \in Executors, dispatch_pending(e)
  PROVE  Sound' /\ Progresses
<1> DEFINE c == db.checkpoint
           p == Head(c.pending)
<1>1. /\ c.pending # <<>>
      /\ (db' = db /\ Puts(e, Stopped(e, "infra_error"))) \/ Dispatched(e)
  BY Dispatches DEF Sound
<1>2. p \in Pendings /\ c \in Checkpoints
  BY <1>1, Sizes, Heads DEF Sound, Typed
<1>3. CASE db' = db /\ Puts(e, Stopped(e, "infra_error"))
  BY <1>3, SoundIdle DEF Targets
<1>4. CASE Dispatched(e)
  <2>o. PICK o \in execute(db, p) : \E r \in o.result :
          /\ Tried(db, p, o.db) /\ Found(o.db, p, r) /\ db' = Stored(o.db, c, r)
          /\ Puts(e, Idle) \/ Puts(e, Again(e))
    BY <1>4 DEF Dispatched
  <2>1. PICK r \in o.result :
          /\ Tried(db, p, o.db) /\ Found(o.db, p, r) /\ db' = Stored(o.db, c, r)
          /\ Puts(e, Idle) \/ Puts(e, Again(e))
    BY <2>o
  <2>2. PICK x : x = o.db
    OBVIOUS
  <2>3. r \in Results
    BY <2>1 DEF Found
  <2> HIDE DEF p
  <2>4. QED
    BY <1>1, <1>2, <2>1, <2>2, <2>3, TriedKeeps, SoundAfter
<1>5. QED
  BY <1>1, <1>3, <1>4

\* A validation keeps Sound.
LEMMA SoundValidate ==
  ASSUME Sound, NEW e \in Executors, validate_post_commit(e)
  PROVE  Sound' /\ Progresses
<1>1. Typed /\ db.attempt \in Nat /\ exec[e].lease <= db.attempt
  BY DEF Sound, Leases, Typed, Databases
<1>2. PICK z : z = Gone(e, "effect")
  OBVIOUS
<1>3. /\ exec[e].checkpoint = db.checkpoint /\ db.checkpoint.pending # <<>>
      /\ tool_attempts(db.checkpoint) < MaxToolCalls
      /\ Head(db.checkpoint.pending).request \in AfterCommit
      /\ db' = db /\ Puts(e, z)
  BY <1>2, Validates DEF Sound
<1>4. /\ z.pc = "effect" /\ z.lease = exec[e].lease /\ z.checkpoint = exec[e].checkpoint
  BY <1>1, <1>2, Fields
<1>5. Place(db', z)
  BY <1>3, <1>4 DEF Place
<1>6. QED
  BY <1>1, <1>3, <1>4, <1>5, SoundUnchanged, SoundPut

\* The places after the effect.
LEMMA PlaceAfter ==
  ASSUME Sound, NEW e \in Executors, NEW d,
         exec[e].pc \in {"effect", "acknowledge", "checkpoint"}
  PROVE  /\ \A r : Place(d, Done(e, r))
         /\ Marked(d, Head(exec[e].checkpoint.pending)) => Place(d, Gone(e, "acknowledge"))
BY Fields DEF Sound, Places, Place

\* An effect transaction keeps Sound.
LEMMA SoundExecute ==
  ASSUME Sound, NEW e \in Executors, execute_durable_post_commit(e)
  PROVE  Sound' /\ Progresses
<1> DEFINE p == Head(exec[e].checkpoint.pending)
<1>1. Typed /\ db.attempt \in Nat /\ exec[e].lease <= db.attempt
  BY DEF Sound, Leases, Typed, Databases
<1>2. /\ exec[e].pc = "effect" /\ p \in Pendings
      /\ \/ /\ Marked(db, p) /\ db' = db
            /\ \/ Puts(e, Gone(e, "acknowledge"))
               \/ \E r : Found(db, p, r) /\ Puts(e, Done(e, r))
         \/ db' = db /\ Puts(e, Stopped(e, "infra_error"))
         \/ Effected(e)
  BY Executes DEF Sound
<1>3. /\ \A r : Place(db', Done(e, r))
      /\ Marked(db', p) => Place(db', Gone(e, "acknowledge"))
      /\ Place(db', Stopped(e, "infra_error"))
  BY <1>1, <1>2, PlaceAfter, PlaceEasy DEF Targets
<1>4. ASSUME NEW z, Puts(e, z), z.lease = exec[e].lease, z.checkpoint = exec[e].checkpoint,
             Place(db', z), Progresses, Grounded(db'), LeaseShown(db'), db'.attempt = db.attempt
      PROVE  Sound' /\ Progresses
  BY <1>1, <1>4, SoundPut
<1>5. CASE /\ Marked(db, p) /\ db' = db
           /\ \/ Puts(e, Gone(e, "acknowledge"))
              \/ \E r : Found(db, p, r) /\ Puts(e, Done(e, r))
  BY <1>1, <1>3, <1>4, <1>5, Fields, SoundUnchanged
<1>6. CASE db' = db /\ Puts(e, Stopped(e, "infra_error"))
  BY <1>6, SoundIdle DEF Targets
<1>7. CASE Effected(e)
  <2>1. PICK o \in execute(db, p) :
          /\ Tried(db, p, o.db) /\ db' = o.db
          /\ \/ Marks(db, p, o) /\ Puts(e, Gone(e, "acknowledge"))
             \/ Puts(e, Stopped(e, "infra_error"))
             \/ \E r : Puts(e, Done(e, r))
    BY <1>7 DEF Effected
  <2>2. /\ db' \in Databases /\ Grows(db, db') /\ db.markers \subseteq db'.markers
        /\ db'.checkpoint = db.checkpoint /\ db'.attempt = db.attempt
        /\ LeaseShown(db') /\ Grounded(db')
    BY <1>2, <2>1, TriedKeeps
  <2>3. Progresses
    BY <2>2 DEF Progresses
  <2>4. Marks(db, p, o) => Marked(db', p)
    BY <2>1 DEF Marks, Marked, Marker
  <2> HIDE DEF p
  <2>5. QED
    BY <1>1, <1>3, <1>4, <2>1, <2>2, <2>3, <2>4, Fields
<1>8. QED
  BY <1>2, <1>5, <1>6, <1>7

\* An acknowledgement keeps Sound.
LEMMA SoundAcknowledge ==
  ASSUME Sound, NEW e \in Executors, acknowledge_post_commit(e)
  PROVE  Sound' /\ Progresses
<1> DEFINE p == Head(exec[e].checkpoint.pending)
<1>1. Typed /\ db.attempt \in Nat /\ exec[e].lease <= db.attempt /\ LeaseShown(db)
  BY DEF Sound, Leases, LeaseShown, Typed, Databases
<1>2. /\ exec[e].pc = "acknowledge" /\ p \in Pendings /\ Requested(db, p) # {} /\ db' \in Databases
      /\ \/ db' = db
         \/ /\ Frame(db, db')
            /\ \E v \in Events : AckE(p, v) /\ db'.events = Append(db.events, v)
            /\ db'.effects = db.effects
            /\ db'.markers = db.markers /\ db'.approvals = db.approvals
      /\ \E r : Found(db', p, r) /\ Puts(e, Done(e, r))
  BY Acknowledges DEF Sound
<1>3. PICK r : Puts(e, Done(e, r))
  BY <1>2
<1>4. PICK z : z = Done(e, r)
  OBVIOUS
<1>5. z.lease = exec[e].lease /\ z.checkpoint = exec[e].checkpoint /\ Place(db', z)
  <2>1. z.lease = exec[e].lease /\ z.checkpoint = exec[e].checkpoint
    BY <1>1, <1>4, Fields
  <2>2. \A s : Place(db', Done(e, s))
    <3>1. exec[e].pc = "acknowledge"
      BY <1>2
    <3>2. QED
      BY <3>1, PlaceAfter
  <2>3. QED
    BY <1>4, <2>1, <2>2
<1>6. Progresses /\ Grounded(db') /\ LeaseShown(db') /\ db'.attempt = db.attempt
  <2>1. CASE db' = db
    BY <2>1, SoundUnchanged
  <2>2. CASE db' # db
    <3>1. PICK u \in Events : AckE(p, u) /\ db'.events = Append(db.events, u)
      BY <1>2, <2>2
    <3>2. u.type = "tool.result" /\ u.call = p.call /\ u.attempt = p.attempt
      BY <3>1 DEF AckE
    <3>3. Requested(db, u) # {}
      BY <1>2, <3>2 DEF Requested
    <3>4. /\ Frame(db, db') /\ db'.events = Append(db.events, u) /\ db'.effects = db.effects
          /\ db'.markers = db.markers /\ db'.approvals = db.approvals
      BY <1>2, <2>2, <3>1
    <3> HIDE DEF p
    <3>5. Grows(db, db')
      BY <1>1, <1>2, <3>4, GrowsBy DEF Typed
    <3>6. Grounded(db')
      BY <1>1, <1>2, <3>2, <3>3, <3>4, AnsweredGrounded DEF Sound, Typed
    <3>7. QED
      BY <1>1, <3>4, <3>5, <3>6 DEF Progresses, Frame, LeaseShown
  <2>3. QED
    BY <2>1, <2>2
<1> HIDE DEF p
<1>7. QED
  BY <1>1, <1>3, <1>4, <1>5, <1>6, SoundPut

\* A checkpoint after an acknowledgement keeps Sound.
LEMMA SoundCheckpoint ==
  ASSUME Sound, NEW e \in Executors, checkpoint_post_commit(e)
  PROVE  Sound' /\ Progresses
<1>1. /\ db.checkpoint.pending # <<>>
      /\ \E r \in exec[e].result : /\ r \in Results /\ db' = Stored(db, db.checkpoint, r)
                                   /\ Puts(e, Idle) \/ (r.code \notin WAITS /\ Puts(e, Again(e)))
  BY StoresResult DEF Sound
<1>2. Grounded(db) /\ LeaseShown(db) /\ Grows(db, db) /\ db \in Databases
  BY Sizes DEF Sound, Typed, Leases, LeaseShown, Grows
<1>3. QED
  BY <1>1, <1>2, SoundAfter

\* Every step keeps Sound and only extends what is there.
LEMMA SoundStep ==
  ASSUME Sound, [Next]_vars
  PROVE  Sound' /\ (Progresses \/ UNCHANGED vars)
<1>1. CASE UNCHANGED vars
  BY <1>1 DEF vars, Sound, Typed, Leases, Views, Places, Place
<1>2. CASE \/ claim_next_run \/ lease_expires \/ requeue_expired_run \/ cancel_queued_run
           \/ resolve_approval_request \/ evaluate_leased_run
  BY <1>2, SoundEnvironment
<1>3. ASSUME NEW e \in Executors, start(e) \/ crash(e) \/ transaction_fails(e) \/ Running(e)
      PROVE  Sound' /\ Progresses
  BY <1>3, SoundStart, SoundGiveUp, SoundLoad, SoundPersist, SoundDispatch, SoundValidate,
     SoundExecute, SoundAcknowledge, SoundCheckpoint, SoundTerminate DEF Running
<1>4. QED
  BY <1>1, <1>2, <1>3 DEF Next

\* An empty Run is Sound.
LEMMA SoundInit == Init => Sound
<1> SUFFICES ASSUME Init PROVE Sound
  OBVIOUS
<1>1. db = [status |-> "queued", attempt |-> 0, lease |-> "none", events |-> <<>>,
            checkpoint |-> NoCheckpoint, effects |-> {}, markers |-> {},
            approvals |-> [q \in Requests |-> "none"]]
  BY DEF Init
<1>2. exec = [e \in Executors |-> Idle]
  BY DEF Init
<1>3. db \in Databases
  <2>1. 0 \in 0 .. MaxClaims /\ "queued" \in Statuses
    BY Constants DEF Attempts, Statuses
  <2>2. <<>> \in Seq(Events) /\ {} \in SUBSET Effects /\ {} \in SUBSET Markers
        /\ [q \in Requests |-> "none"] \in [Requests -> {"none", "pending", "approved", "denied"}]
    OBVIOUS
  <2>3. QED
    BY <1>1, <2>1, <2>2, Idles DEF Databases
<1>4. Typed
  BY <1>2, <1>3, Idles DEF Typed
<1>5. /\ db.events = <<>> /\ db.effects = {} /\ db.markers = {} /\ db.checkpoint = NoCheckpoint
      /\ db.approvals = [q \in Requests |-> "none"] /\ db.lease = "none" /\ db.status = "queued"
      /\ db.attempt = 0
  BY <1>1
<1>6. Grounded(db)
  BY <1>5 DEF Grounded, Traced, Answerable, Approves
<1>7. \A e \in Executors : exec[e] = Idle
  BY <1>2
<1>8. Idle.pc = "idle" /\ Idle.lease = 0 /\ Idle.checkpoint = NoCheckpoint /\ NoCheckpoint.version = 0
  BY DEF Idle, NoCheckpoint
<1>9. Leases /\ Views /\ Places
  BY <1>5, <1>7, <1>8 DEF Leases, Views, Places, Place
<1>10. QED
  BY <1>4, <1>6, <1>9 DEF Sound

-----------------------------------------------------------------------------
(* Theorems, for any number of calls with one lease.                       *)

\* Sound holds however many calls a worker makes with one lease.
LEMMA AlwaysSound == Spec => []Sound
<1>1. Sound /\ [Next]_vars => Sound'
  BY SoundStep
<1>2. QED
  BY SoundInit, <1>1, PTL DEF Spec

\* The rows and what the calls hold keep their shapes.
THEOREM Types == Spec => []TypeOK
<1>1. Sound => TypeOK
  <2> SUFFICES ASSUME Sound PROVE TypeOK
    OBVIOUS
  <2> DEFINE CheckpointOK(c) ==
        /\ DOMAIN c = DOMAIN NoCheckpoint
        /\ c.version \in Nat /\ c.last_event_sequence \in Nat
        /\ c.status \in {"active", "waiting_for_approval", "final"}
        /\ c.spent \subseteq Overruns
        /\ \A i \in DOMAIN c.pending :
             c.pending[i] \in [call : (0 .. MaxSteps) \X Nat, request : Requests,
                               attempt : Nat \ {0}, approval : BOOLEAN]
        /\ \A i \in DOMAIN c.trajectory : c.trajectory[i].kind \in {"assistant", "tool"}
  <2>1. ASSUME NEW c \in Checkpoints
        PROVE  CheckpointOK(c)
    <3>1. DOMAIN c = DOMAIN NoCheckpoint
      BY DEF Checkpoints, NoCheckpoint
    <3>2. \A i \in DOMAIN c.pending : c.pending[i] \in Pendings
      BY DEF Checkpoints
    <3>3. Calls \subseteq (0 .. MaxSteps) \X Nat
      BY DEF Calls
    <3>4. \A i \in DOMAIN c.pending :
             c.pending[i] \in [call : (0 .. MaxSteps) \X Nat, request : Requests,
                               attempt : Nat \ {0}, approval : BOOLEAN]
      BY <3>2, <3>3 DEF Pendings, Attempts
    <3>5. \A i \in DOMAIN c.trajectory : c.trajectory[i] \in ATurns \cup TTurns
      BY DEF Checkpoints
    <3>6. \A i \in DOMAIN c.trajectory : c.trajectory[i].kind \in {"assistant", "tool"}
      BY <3>5 DEF ATurns, TTurns
    <3>7. QED
      BY <3>1, <3>4, <3>6 DEF Checkpoints
  <2>2. db \in Databases /\ exec \in [Executors -> Execs] /\ db.checkpoint \in Checkpoints
    BY Sizes DEF Sound, Typed
  <2>3. /\ db.status \in TERMINAL_STATUSES \cup {"queued", "provisioning", "running", "evaluating"}
        /\ db.attempt \in 0 .. MaxClaims /\ db.lease \in {"none", "live", "expired"}
        /\ db.approvals \in [Requests -> {"none", "pending", "approved", "denied"}]
    BY <2>2 DEF Databases, Statuses
  <2>4. \A i \in DOMAIN db.events :
          db.events[i].type \in EVENT_TYPES /\ db.events[i].call \in Nat \X Nat
    <3>1. \A i \in DOMAIN db.events : db.events[i] \in Events
      BY <2>2, Sizes
    <3>2. QED
      BY <3>1 DEF Events
  <2>5. Calls \subseteq (0 .. MaxSteps) \X Nat
    BY DEF Calls
  <2>6. /\ db.effects \subseteq [request : Mutations, call : (0 .. MaxSteps) \X Nat, attempt : Nat \ {0}]
        /\ db.markers \subseteq [call : (0 .. MaxSteps) \X Nat, attempt : Nat \ {0}]
    <3>1. db.effects \subseteq Effects /\ db.markers \subseteq Markers
      BY <2>2 DEF Databases
    <3>2. QED
      BY <2>5, <3>1 DEF Effects, Markers, Attempts
  <2>7. ASSUME NEW e \in Executors
        PROVE  /\ exec[e].pc \in {"idle", "loading", "ready", "effect", "acknowledge", "checkpoint",
                                  "terminating", "failing"}
               /\ exec[e].lease \in 0 .. db.attempt
               /\ exec[e].result \subseteq
                    [code : WAITS \cup SUCCESSES \cup {"policy_denied", "approval_denied", "failed",
                                                       "infrastructure_error", "fault_timeout"},
                     slow : BOOLEAN, request : Nat, result : Nat]
               /\ exec[e].checkpoint \in Checkpoints
    <3>1. exec[e] \in Execs /\ exec[e].lease \in Nat /\ exec[e].checkpoint \in Checkpoints
      BY Fields DEF Sound
    <3>2. exec[e].lease \in 0 .. db.attempt
      BY <2>3, <3>1 DEF Sound, Leases
    <3>3. exec[e].result \subseteq Results /\ exec[e].pc \in
            {"idle", "loading", "ready", "effect", "acknowledge", "checkpoint", "terminating",
             "failing"}
      BY <3>1 DEF Execs
    <3>4. Slow \subseteq BOOLEAN
      BY DEF Slow
    <3>5. QED
      BY <3>1, <3>2, <3>3, <3>4 DEF Results, Codes
  <2>8. db.lease = "none" <=> db.status \in TERMINAL_STATUSES \cup {"queued"}
    BY DEF Sound, Leases
  <2>9. CheckpointOK(db.checkpoint) /\ \A e \in Executors : CheckpointOK(exec[e].checkpoint)
    BY <2>1, <2>2, <2>7
  <2>10. QED
    BY <2>3, <2>4, <2>6, <2>7, <2>8, <2>9 DEF TypeOK
<1>2. QED
  BY AlwaysSound, <1>1, PTL

\* An effect of a request the policy wants approved follows the approval of
\* that request, whatever calls and operators did in between.
THEOREM ApprovedFirst == Spec => []ApprovalBeforeEffect
<1>1. Sound => ApprovalBeforeEffect
  BY DEF Sound, Grounded, Approves, ApprovalBeforeEffect
<1>2. QED
  BY AlwaysSound, <1>1, PTL

\* What IsPrefix means.
LEMMA StartsWith ==
  ASSUME NEW S, NEW s \in Seq(S), NEW t \in Seq(S), Len(s) <= Len(t),
         \A i \in 1 .. Len(s) : t[i] = s[i]
  PROVE  IsPrefix(s, t)
<1>1. PICK u \in Seq(S) : u = SubSeq(s, 1, Len(s))
  OBVIOUS
<1>2. PICK v \in Seq(S) : v = SubSeq(t, 1, Len(s))
  OBVIOUS
<1>3. /\ Len(u) = Len(s) /\ \A i \in 1 .. Len(s) : u[i] = s[i]
      /\ Len(v) = Len(s) /\ \A i \in 1 .. Len(s) : v[i] = t[i]
  BY <1>1, <1>2
<1>4. u = v
  BY <1>3, SeqEqual
<1>5. QED
  BY <1>1, <1>2, <1>4 DEF IsPrefix

\* Evidence and trajectory grow, and the checkpoint goes from version to version.
THEOREM Extends == Spec => ProgressOnlyExtends
<1>1. Sound /\ [Next]_vars =>
        [/\ IsPrefix(db.events, db'.events)
         /\ IsPrefix(db.checkpoint.trajectory, db'.checkpoint.trajectory)
         /\ db'.checkpoint # db.checkpoint => db'.checkpoint.version = db.checkpoint.version + 1]_vars
  <2> SUFFICES ASSUME Sound, [Next]_vars, ~UNCHANGED vars
               PROVE  /\ IsPrefix(db.events, db'.events)
                      /\ IsPrefix(db.checkpoint.trajectory, db'.checkpoint.trajectory)
                      /\ db'.checkpoint # db.checkpoint =>
                           db'.checkpoint.version = db.checkpoint.version + 1
    OBVIOUS
  <2>1. Progresses /\ db \in Databases /\ db' \in Databases
    BY SoundStep DEF Sound, Typed
  <2>2. IsPrefix(db.events, db'.events)
    BY <2>1, Sizes, StartsWith DEF Progresses, Grows
  <2>3. IsPrefix(db.checkpoint.trajectory, db'.checkpoint.trajectory)
    <3>1. PICK s : s = db.checkpoint.trajectory
      OBVIOUS
    <3>2. PICK t : t = db'.checkpoint.trajectory
      OBVIOUS
    <3>3. s \in Seq(ATurns \cup TTurns) /\ t \in Seq(ATurns \cup TTurns)
      BY <2>1, <3>1, <3>2, Sizes DEF Checkpoints
    <3>4. t = s \/ \E u \in ATurns \cup TTurns : t = Append(s, u)
      BY <2>1, <3>1, <3>2 DEF Progresses
    <3>5. Len(s) <= Len(t) /\ \A i \in 1 .. Len(s) : t[i] = s[i]
      BY <3>3, <3>4
    <3>6. IsPrefix(s, t)
      BY <3>3, <3>5, StartsWith
    <3>7. QED
      BY <3>1, <3>2, <3>6
  <2>4. QED
    BY <2>1, <2>2, <2>3 DEF Progresses
<1>2. QED
  BY AlwaysSound, <1>1, PTL DEF Spec, ProgressOnlyExtends

-----------------------------------------------------------------------------
(* Where one lease serves one call, or no tool is answered after its       *)
(* commit: an attempt that is in evidence and not in the checkpoint is     *)
(* that of the first pending call, and nobody makes it again.              *)

Exclusive == MaxPerLease = 1 \/ AfterCommit = {}

First(d) == Head(d.checkpoint.pending)

\* The first pending call's attempt is in evidence.
Open(d) == d.checkpoint.pending # <<>> /\ Requested(d, First(d)) # {}

\* Pending calls are of the last step, distinct, and but for the first one ahead
\* of every attempt in evidence.
Fresh(d) ==
  LET c == d.checkpoint
  IN /\ \A i \in DOMAIN d.events : d.events[i].type \in {"tool.requested", "tool.result"} =>
          /\ d.events[i].call[1] <= steps(c)
          /\ \A k \in DOMAIN c.pending : d.events[i].call = c.pending[k].call =>
               \/ d.events[i].attempt < c.pending[k].attempt
               \/ k = 1 /\ d.events[i].attempt = c.pending[k].attempt
     /\ \A k \in DOMAIN c.pending : c.pending[k].call[1] = steps(c)
     /\ \A j, k \in DOMAIN c.pending : c.pending[j].call = c.pending[k].call => j = k

Count(d, type) == Cardinality({i \in DOMAIN d.events : d.events[i].type = type})

\* A step is one of the trajectory, or the failed one a Run ended with, which is
\* its next; the latter is within the limit where a lease serves one call.
StepOf(d, v) ==
  \/ v.call[1] \in 1 .. steps(d.checkpoint)
  \/ /\ v.call[1] = steps(d.checkpoint) + 1 /\ v.info # "completed"
     /\ d.status \in TERMINAL_STATUSES
     /\ MaxPerLease = 1 => steps(d.checkpoint) < MaxSteps

\* Steps are numbered by the trajectory, and no number is given twice.
Numbered(d) ==
  /\ steps(d.checkpoint) <= MaxSteps
  /\ \A i \in DOMAIN d.events : d.events[i].type = "agent.step" => StepOf(d, d.events[i])
  /\ \A i, j \in DOMAIN d.events :
       /\ d.events[i].type = "agent.step" /\ d.events[j].type = "agent.step"
       /\ d.events[i].call[1] = d.events[j].call[1]
       => i = j

\* The trajectory counts the steps, and every attempt but an open one.
Counted(d) ==
  /\ Count(d, "tool.requested") <= tool_attempts(d.checkpoint) + (IF Open(d) THEN 1 ELSE 0)
  /\ Count(d, "tool.requested") <= MaxToolCalls
  /\ Numbered(d)

\* A requested call is pending or has an answer it does not wait after.
Settled(d) ==
  \A i \in DOMAIN d.events : d.events[i].type = "tool.requested" =>
    \/ \E j \in DOMAIN d.events :
         /\ d.events[j].type = "tool.result" /\ d.events[j].call = d.events[i].call
         /\ d.events[j].info \notin WAITS
    \/ \E k \in DOMAIN d.checkpoint.pending : d.checkpoint.pending[k].call = d.events[i].call

Finished(d) ==
  d.status \in {"evaluating", "completed"} =>
    /\ d.checkpoint.status = "final" /\ d.checkpoint.spent = {}
    /\ final_intent(d.checkpoint) /\ d.checkpoint.pending = <<>>

\* An approval an operator still has to give is one a pending call waits for.
Awaited(d) ==
  /\ \A q \in Requests : d.approvals[q] = "pending" =>
       \E k \in DOMAIN d.checkpoint.pending : d.checkpoint.pending[k].request = q
  /\ Open(d) /\ (Marked(d, First(d))
                 \/ \E j \in Answered(d, First(d)) : d.events[j].info \notin WAITS) =>
       d.approvals[First(d).request] # "pending"

\* EffectsAnnounced, of any rows.
Shown(d) == {i \in DOMAIN d.events : d.events[i].type = "state.evidence_recorded"}
Outcomes(d, f) == {d.events[i].info : i \in Answered(d, f)}
Announced(d) ==
  /\ IsFiniteSet(d.effects)
  /\ \A f, g \in d.effects : Key[f.request] = Key[g.request] => f = g
  /\ Cardinality(Shown(d)) = Cardinality(d.effects)
  /\ \A f \in d.effects :
       /\ \E i \in Shown(d) : /\ d.events[i].info = f.request /\ d.events[i].call = f.call
                              /\ d.events[i].attempt = f.attempt
       /\ IF Marked(d, f) THEN Outcomes(d, f) \subseteq {"fault_timeout"}
          ELSE Outcomes(d, f) = {"newly_applied"}

Orderly(d) ==
  /\ StreamValid(d) /\ Fresh(d) /\ Counted(d) /\ Settled(d) /\ Finished(d) /\ Awaited(d)
  /\ Announced(d)

\* Only an attempt that is answered after its commit can be open.
Durable(d) == Open(d) => First(d).request \in AfterCommit

-----------------------------------------------------------------------------
(* Counting.                                                               *)

\* A set with one more element.
LEMMA OneMore ==
  ASSUME NEW S, IsFiniteSet(S), NEW x, x \notin S
  PROVE  Cardinality(S \cup {x}) = Cardinality(S) + 1
BY FS_AddElement

\* One more turn counts as one more step or one more tool attempt.
LEMMA StepsAppend ==
  ASSUME NEW c \in Checkpoints, NEW x \in Checkpoints, NEW t \in ATurns \cup TTurns,
         x.trajectory = Append(c.trajectory, t)
  PROVE  /\ t \in ATurns => steps(x) = steps(c) + 1 /\ tool_attempts(x) = tool_attempts(c)
         /\ t \in TTurns => steps(x) = steps(c) /\ tool_attempts(x) = tool_attempts(c) + 1
<1> DEFINE n == Len(c.trajectory)
           A(y) == {i \in DOMAIN y.trajectory : Assistant(y.trajectory[i])}
           T(y) == {i \in DOMAIN y.trajectory : Tool(y.trajectory[i])}
<1>1. c.trajectory \in Seq(ATurns \cup TTurns) /\ n \in Nat
  BY DEF Checkpoints
<1>2. /\ DOMAIN c.trajectory = 1 .. n /\ DOMAIN x.trajectory = 1 .. n + 1
      /\ \A i \in 1 .. n : x.trajectory[i] = c.trajectory[i]
      /\ x.trajectory[n + 1] = t
  BY <1>1, Appended
<1>3. IsFiniteSet(A(c)) /\ IsFiniteSet(T(c)) /\ n + 1 \notin A(c) /\ n + 1 \notin T(c)
  <2>1. IsFiniteSet(A(c)) /\ IsFiniteSet(T(c))
    BY Counts
  <2>2. n + 1 \notin DOMAIN c.trajectory
    BY <1>1, <1>2
  <2>3. QED
    BY <2>1, <2>2
<1>4. CASE t \in ATurns
  <2>1. Assistant(t) /\ ~Tool(t) /\ t \notin TTurns
    BY <1>4 DEF Assistant, Tool, ATurns, TTurns
  <2>2. A(x) = A(c) \cup {n + 1} /\ T(x) = T(c)
    BY <1>1, <1>2, <2>1
  <2>3. Cardinality(A(x)) = Cardinality(A(c)) + 1
    BY <1>3, <2>2, OneMore
  <2>4. QED
    BY <2>1, <2>2, <2>3 DEF steps, tool_attempts
<1>5. CASE t \in TTurns
  <2>1. Tool(t) /\ ~Assistant(t) /\ t \notin ATurns
    BY <1>5 DEF Assistant, Tool, ATurns, TTurns
  <2>2. T(x) = T(c) \cup {n + 1} /\ A(x) = A(c)
    BY <1>1, <1>2, <2>1
  <2>3. Cardinality(T(x)) = Cardinality(T(c)) + 1
    BY <1>3, <2>2, OneMore
  <2>4. QED
    BY <2>1, <2>2, <2>3 DEF steps, tool_attempts
<1>6. QED
  BY <1>4, <1>5

\* The events of one type can be counted.
LEMMA CountIs ==
  ASSUME NEW d \in Databases, NEW type
  PROVE  /\ IsFiniteSet({i \in DOMAIN d.events : d.events[i].type = type})
         /\ Count(d, type) \in Nat
<1>1. IsFiniteSet(DOMAIN d.events)
  BY Sizes, FS_Interval
<1>2. IsFiniteSet({i \in DOMAIN d.events : d.events[i].type = type})
  BY <1>1, FS_Subset
<1>3. QED
  BY <1>2, FS_CardinalityType DEF Count

\* No new event of a type, the same count.
LEMMA CountKeeps ==
  ASSUME NEW d \in Databases, NEW x, Grows(d, x), NEW type,
         \A i \in News(d, x) : x.events[i].type # type
  PROVE  Count(x, type) = Count(d, type)
<1>1. {i \in DOMAIN x.events : x.events[i].type = type}
        = {i \in DOMAIN d.events : d.events[i].type = type}
  BY OldOrNew
<1>2. QED
  BY <1>1 DEF Count

\* One new event of a type at most, one more at most.
LEMMA CountOne ==
  ASSUME NEW d \in Databases, NEW x, Grows(d, x), NEW type,
         \A i, j \in News(d, x) : x.events[i].type = type /\ x.events[j].type = type => i = j
  PROVE  Count(x, type) <= Count(d, type) + 1
<1> DEFINE Old == {i \in DOMAIN d.events : d.events[i].type = type}
<1>1. Count(d, type) \in Nat /\ IsFiniteSet(Old)
  BY CountIs
<1>2. CASE \A i \in News(d, x) : x.events[i].type # type
  BY <1>1, <1>2, CountKeeps
<1>3. CASE ~(\A i \in News(d, x) : x.events[i].type # type)
  <2>1. PICK n \in News(d, x) : x.events[n].type = type
    BY <1>3
  <2>2. {i \in DOMAIN x.events : x.events[i].type = type} = Old \cup {n}
    BY <2>1, OldOrNew
  <2>3. n \notin Old
    BY <2>1, OldOrNew
  <2>4. Count(x, type) = Cardinality(Old \cup {n}) /\ Count(d, type) = Cardinality(Old)
    BY <2>2 DEF Count
  <2> HIDE DEF Old
  <2>5. Cardinality(Old \cup {n}) = Cardinality(Old) + 1
    BY <1>1, <2>3, OneMore
  <2>6. QED
    BY <1>1, <2>4, <2>5
<1>4. QED
  BY <1>2, <1>3

\* No new step, the same numbers.
LEMMA NumberedKeeps ==
  ASSUME NEW d \in Databases, NEW x, Grows(d, x), Numbered(d),
         steps(x.checkpoint) = steps(d.checkpoint),
         \A i \in News(d, x) : x.events[i].type # "agent.step",
         d.status \in TERMINAL_STATUSES => x.status \in TERMINAL_STATUSES
  PROVE  Numbered(x)
<1>1. \A i \in DOMAIN x.events : x.events[i].type = "agent.step" =>
        i \in DOMAIN d.events /\ x.events[i] = d.events[i]
  BY OldOrNew
<1>2. \A v : StepOf(d, v) => StepOf(x, v)
  BY DEF StepOf
<1>3. QED
  BY <1>1, <1>2 DEF Numbered

\* One new step in the trajectory and in evidence.
LEMMA NumberedNext ==
  ASSUME NEW d \in Databases, NEW x, Grows(d, x), Numbered(d), d.status \notin TERMINAL_STATUSES,
         steps(d.checkpoint) < MaxSteps, steps(x.checkpoint) = steps(d.checkpoint) + 1,
         Spoke(d, x)
  PROVE  Numbered(x)
<1> DEFINE n == Len(d.events) + 1
           step == steps(d.checkpoint) + 1
<1>1. steps(d.checkpoint) \in Nat /\ MaxSteps \in Nat
  BY Sizes, Counts, Constants DEF Attempts
<1>2. \A i \in DOMAIN x.events : x.events[i].type = "agent.step" =>
        (i \in DOMAIN d.events /\ x.events[i] = d.events[i]) \/ i = n
  BY OldOrNew DEF Spoke
<1>3. x.events[n].call[1] = step
  BY DEF Spoke
<1>4. \A i \in DOMAIN d.events : d.events[i].type = "agent.step" =>
        d.events[i].call[1] \in 1 .. steps(d.checkpoint)
  BY DEF Numbered, StepOf
<1> HIDE DEF n, step
<1>5. 1 .. steps(d.checkpoint) \subseteq 1 .. step /\ step \in 1 .. step
      /\ step \notin 1 .. steps(d.checkpoint)
  BY <1>1 DEF step
<1>6. \A i \in DOMAIN x.events : x.events[i].type = "agent.step" => StepOf(x, x.events[i])
  BY <1>2, <1>3, <1>4, <1>5 DEF StepOf, step
<1>7. ASSUME NEW i \in DOMAIN x.events, NEW j \in DOMAIN x.events,
             x.events[i].type = "agent.step", x.events[j].type = "agent.step",
             x.events[i].call[1] = x.events[j].call[1]
      PROVE  i = j
  <2>1. CASE i = n \/ j = n
    BY <1>2, <1>3, <1>4, <1>5, <1>7, <2>1
  <2>2. CASE i # n /\ j # n
    BY <1>2, <1>7, <2>2 DEF Numbered
  <2>3. QED
    BY <2>1, <2>2
<1>8. steps(x.checkpoint) <= MaxSteps
  BY <1>1
<1>9. QED
  BY <1>6, <1>7, <1>8 DEF Numbered

\* A failed step is the next one, and the Run's last.
LEMMA NumberedFails ==
  ASSUME NEW d \in Databases, NEW x, Grows(d, x), Numbered(d), d.status \notin TERMINAL_STATUSES,
         x.status \in TERMINAL_STATUSES, x.checkpoint = d.checkpoint, Fails(d, x),
         MaxPerLease = 1 => steps(d.checkpoint) < MaxSteps
  PROVE  Numbered(x)
<1> DEFINE n == Len(d.events) + 1
           step == steps(d.checkpoint) + 1
<1>1. steps(d.checkpoint) \in Nat
  BY Sizes, Counts
<1>2. x.events[n].call[1] = step /\ x.events[n].info = "failed" /\ "failed" # "completed"
  BY EventFields DEF Fails
<1>3. \A i \in DOMAIN x.events : x.events[i].type = "agent.step" =>
        (i \in DOMAIN d.events /\ x.events[i] = d.events[i]) \/ i = n
  BY OldOrNew DEF Fails
<1>4. \A i \in DOMAIN d.events : d.events[i].type = "agent.step" =>
        d.events[i].call[1] \in 1 .. steps(d.checkpoint)
  BY DEF Numbered, StepOf
<1> HIDE DEF n
<1>5. step \notin 1 .. steps(d.checkpoint)
  BY <1>1
<1>6. StepOf(x, x.events[n])
  BY <1>2 DEF StepOf
<1> HIDE DEF step
<1>7. \A i \in DOMAIN x.events : x.events[i].type = "agent.step" => StepOf(x, x.events[i])
  BY <1>3, <1>4, <1>6 DEF StepOf
<1>8. ASSUME NEW i \in DOMAIN x.events, NEW j \in DOMAIN x.events,
             x.events[i].type = "agent.step", x.events[j].type = "agent.step",
             x.events[i].call[1] = x.events[j].call[1]
      PROVE  i = j
  <2>1. CASE i = n \/ j = n
    BY <1>2, <1>3, <1>4, <1>5, <1>8, <2>1
  <2>2. CASE i # n /\ j # n
    BY <1>3, <1>8, <2>2 DEF Numbered
  <2>3. QED
    BY <2>1, <2>2
<1>9. QED
  BY <1>7, <1>8 DEF Numbered

-----------------------------------------------------------------------------
(* Steps in which no tool runs.                                            *)

\* The evidence of tools stays as it is.
LEMMA CalmSame ==
  ASSUME NEW d \in Databases, NEW x \in Databases, Calm(d, x)
  PROVE  /\ \A y : Requested(x, y) = Requested(d, y) /\ Answered(x, y) = Answered(d, y)
         /\ Shown(x) = Shown(d)
         /\ \A y : \A i \in Requested(d, y) \cup Answered(d, y) : x.events[i] = d.events[i]
         /\ \A i \in DOMAIN x.events : x.events[i].type \in ToolTypes =>
              i \in DOMAIN d.events /\ x.events[i] = d.events[i]
         /\ DOMAIN d.events \subseteq DOMAIN x.events
         /\ \A i \in DOMAIN d.events : x.events[i] = d.events[i]
<1>1. Grows(d, x) /\ \A i \in News(d, x) : x.events[i].type \notin ToolTypes
  BY DEF Calm
<1>2. \A i \in DOMAIN x.events : x.events[i].type \in ToolTypes =>
        i \in DOMAIN d.events /\ x.events[i] = d.events[i]
  BY <1>1, OldOrNew
<1>3. /\ DOMAIN d.events \subseteq DOMAIN x.events
      /\ \A i \in DOMAIN d.events : x.events[i] = d.events[i]
  BY <1>1, OldOrNew
<1>4. \A y : Requested(x, y) = Requested(d, y) /\ Answered(x, y) = Answered(d, y)
  BY <1>2, <1>3 DEF Requested, Answered, Positions, ToolTypes
<1>5. Shown(x) = Shown(d)
  BY <1>2, <1>3 DEF Shown, ToolTypes
<1>6. \A y : \A i \in Requested(d, y) \cup Answered(d, y) : x.events[i] = d.events[i]
  BY <1>3 DEF Requested, Answered, Positions
<1>7. QED
  BY <1>2, <1>3, <1>4, <1>5, <1>6

\* Steps in which no tool runs keep what tools have to answer for.
LEMMA CalmEvidence ==
  ASSUME NEW d \in Databases, NEW x \in Databases, Calm(d, x)
  PROVE  /\ StreamValid(d) => StreamValid(x)
         /\ Announced(d) => Announced(x)
         /\ Count(x, "tool.requested") = Count(d, "tool.requested")
<1>1. ASSUME StreamValid(d) PROVE StreamValid(x)
  BY <1>1, CalmSame DEF StreamValid, ToolTypes
<1>2. ASSUME Announced(d) PROVE Announced(x)
  <2>1. x.effects = d.effects /\ Shown(x) = Shown(d) /\ \A f : Marked(x, f) <=> Marked(d, f)
    BY CalmSame DEF Calm, Marked
  <2>2. \A f : Outcomes(x, f) = Outcomes(d, f)
    BY CalmSame DEF Outcomes
  <2>3. \A i \in Shown(d) : x.events[i] = d.events[i]
    BY CalmSame DEF Shown
  <2>4. QED
    BY <1>2, <2>1, <2>2, <2>3 DEF Announced
<1>3. Count(x, "tool.requested") = Count(d, "tool.requested")
  BY CountKeeps DEF Calm, ToolTypes
<1>4. QED
  BY <1>1, <1>2, <1>3

\* Steps in which no tool runs open no approval.
LEMMA CalmPending ==
  ASSUME NEW d \in Databases, NEW x \in Databases, Calm(d, x), NEW q \in Requests,
         x.approvals[q] = "pending"
  PROVE  d.approvals[q] = "pending"
BY DEF Calm

\* The end of the Run, or what leaves the steps alone, keeps the rows orderly.
LEMMA CalmOrderly ==
  ASSUME NEW d \in Databases, NEW x \in Databases, Calm(d, x), x.checkpoint = d.checkpoint,
         Orderly(d), Numbered(x),
         x.status \in {"evaluating", "completed"} => d.status \in {"evaluating", "completed"}
  PROVE  /\ Orderly(x) /\ (Open(x) <=> Open(d)) /\ (Durable(d) => Durable(x))
         /\ \A y : Marked(x, y) <=> Marked(d, y)
<1>1. Calm(d, x) /\ x.checkpoint = d.checkpoint /\ First(x) = First(d)
  BY DEF First
<1>2. (Open(x) <=> Open(d)) /\ (Durable(d) => Durable(x)) /\ \A y : Marked(x, y) <=> Marked(d, y)
  BY <1>1, CalmSame DEF Open, Durable, Marked, Calm
<1>3. StreamValid(x) /\ Announced(x)
  BY <1>1, CalmEvidence DEF Orderly
<1>4. Fresh(x)
  BY <1>1, CalmSame DEF Orderly, Fresh, ToolTypes
<1>5. Counted(x)
  BY <1>1, <1>2, CalmEvidence DEF Orderly, Counted
<1>6. Settled(x)
  BY <1>1, CalmSame DEF Orderly, Settled, ToolTypes
<1>7. Finished(x)
  BY <1>1 DEF Orderly, Finished
<1>8. Awaited(x)
  <2>1. \A q \in Requests : x.approvals[q] = "pending" => d.approvals[q] = "pending"
    BY <1>1, CalmPending
  <2>2. \A j \in Answered(d, First(d)) : x.events[j] = d.events[j]
    BY <1>1, CalmSame
  <2>3. Answered(x, First(x)) = Answered(d, First(d))
    BY <1>1, CalmSame
  <2>4. Awaited(d)
    BY DEF Orderly
  <2>5. Open(x) => First(x).request \in Requests
    BY <1>1, Heads, Sizes DEF Open, First, Pendings
  <2>6. QED
    BY <1>1, <1>2, <2>1, <2>2, <2>3, <2>4, <2>5 DEF Awaited
<1>9. QED
  BY <1>2, <1>3, <1>4, <1>5, <1>6, <1>7, <1>8 DEF Orderly

\* Leases, operators and the evaluator keep the rows orderly.
LEMMA QuietOrderly ==
  ASSUME NEW d \in Databases, NEW x \in Databases, Quiet(d, x), Orderly(d),
         x.status \in {"evaluating", "completed"} => d.status \in {"evaluating", "completed"},
         d.status \in TERMINAL_STATUSES => x.status \in TERMINAL_STATUSES
  PROVE  /\ Orderly(x) /\ (Open(x) <=> Open(d)) /\ (Durable(d) => Durable(x))
         /\ \A y : Marked(x, y) <=> Marked(d, y)
<1>1. Calm(d, x) /\ Grows(d, x) /\ x.checkpoint = d.checkpoint
  BY DEF Quiet, Calm
<1>2. \A i \in News(d, x) : x.events[i].type # "agent.step"
  BY DEF Quiet
<1>3. Numbered(d)
  BY DEF Orderly, Counted
<1>4. Numbered(x)
  BY <1>1, <1>2, <1>3, NumberedKeeps
<1>5. QED
  BY <1>1, <1>4, CalmOrderly

-----------------------------------------------------------------------------
(* An agent step.                                                          *)

\* The last element of a sequence that got one.
LEMMA LastIs ==
  ASSUME NEW S, NEW s \in Seq(S), NEW a \in S
  PROVE  Append(s, a) # <<>> /\ Last(Append(s, a)) = a
<1>1. Append(s, a) \in Seq(S) /\ Len(Append(s, a)) = Len(s) + 1 /\ Len(s) \in Nat
  BY Appended
<1>2. Append(s, a)[Len(s) + 1] = a
  BY Appended
<1>3. QED
  BY <1>1, <1>2 DEF Last

\* An agent output keeps the rows orderly; its calls are all ahead.
LEMMA StepOrderly ==
  ASSUME NEW d \in Databases, NEW x \in Databases, Orderly(d), Calm(d, x),
         d.checkpoint.pending = <<>>, steps(d.checkpoint) < MaxSteps,
         Spoke(d, x), d.status \notin TERMINAL_STATUSES,
         NEW a \in ATurns,
         x.checkpoint.trajectory = Append(d.checkpoint.trajectory, a),
         x.checkpoint.pending = Asked(steps(d.checkpoint) + 1, a.calls),
         x.status \in {"evaluating", "completed"} =>
           /\ a.final /\ x.checkpoint.status = "final" /\ x.checkpoint.spent = {}
           /\ x.checkpoint.pending = <<>>
  PROVE  Orderly(x) /\ ~Open(x)
<1> DEFINE step == steps(d.checkpoint) + 1
           c == x.checkpoint
<1>1. /\ d.checkpoint \in Checkpoints /\ c \in Checkpoints /\ a.calls \in Seq(Requests)
      /\ steps(d.checkpoint) \in Nat /\ step \in 1 .. MaxSteps
      /\ tool_attempts(d.checkpoint) \in Nat
  <2>1. d.checkpoint \in Checkpoints /\ c \in Checkpoints
    BY Sizes
  <2>2. a.calls \in Seq(Requests)
    BY DEF ATurns
  <2>3. steps(d.checkpoint) \in Nat /\ tool_attempts(d.checkpoint) \in Nat
    BY <2>1, Counts
  <2>4. step \in 1 .. MaxSteps
    BY <2>3, Constants DEF Attempts
  <2>5. QED
    BY <2>1, <2>2, <2>3, <2>4
<1>2. steps(c) = step /\ tool_attempts(c) = tool_attempts(d.checkpoint)
  BY <1>1, StepsAppend
<1>3. \A k \in DOMAIN c.pending : c.pending[k].call = <<step, k>>
  <2>1. c.pending = Asked(step, a.calls)
    OBVIOUS
  <2> HIDE DEF step, c
  <2>2. /\ DOMAIN Asked(step, a.calls) = DOMAIN a.calls
        /\ \A i \in DOMAIN a.calls : Asked(step, a.calls)[i].call = <<step, i>>
    BY <1>1, AskedIs
  <2>3. QED
    BY <2>1, <2>2
<1>4. \A i \in DOMAIN x.events : x.events[i].type \in {"tool.requested", "tool.result"} =>
        /\ i \in DOMAIN d.events /\ x.events[i] = d.events[i]
        /\ x.events[i].call[1] <= steps(d.checkpoint) /\ x.events[i].call[1] \in Nat
  <2> TAKE i \in DOMAIN x.events
  <2> HAVE x.events[i].type \in {"tool.requested", "tool.result"}
  <2>1. i \in DOMAIN d.events /\ x.events[i] = d.events[i]
    BY CalmSame DEF ToolTypes
  <2>2. x.events[i].call[1] <= steps(d.checkpoint)
    BY <2>1 DEF Orderly, Fresh
  <2>3. x.events[i].call \in Nat \X Nat
    BY <2>1, Sizes DEF Events
  <2>4. x.events[i].call[1] \in Nat
    BY <2>3
  <2>5. QED
    BY <2>1, <2>2, <2>4
<1> HIDE DEF step, c
<1>5. Fresh(x)
  <2>1. \A i \in DOMAIN x.events : x.events[i].type \in {"tool.requested", "tool.result"} =>
          /\ x.events[i].call[1] <= steps(c)
          /\ \A k \in DOMAIN c.pending : x.events[i].call # c.pending[k].call
    <3> TAKE i \in DOMAIN x.events
    <3> HAVE x.events[i].type \in {"tool.requested", "tool.result"}
    <3>1. x.events[i].call[1] <= steps(d.checkpoint) /\ x.events[i].call[1] \in Nat
      BY <1>4
    <3>2. x.events[i].call[1] < step
      BY <1>1, <3>1 DEF step
    <3>3. \A k \in DOMAIN c.pending : c.pending[k].call[1] = step
      BY <1>3
    <3>4. QED
      BY <1>1, <1>2, <3>1, <3>2, <3>3
  <2>2. \A k \in DOMAIN c.pending : c.pending[k].call[1] = steps(c)
    BY <1>2, <1>3
  <2>3. \A j, k \in DOMAIN c.pending : c.pending[j].call = c.pending[k].call => j = k
    BY <1>3
  <2>4. QED
    BY <2>1, <2>2, <2>3 DEF Fresh, c
<1>6. ~Open(x)
  <2> SUFFICES ASSUME Open(x) PROVE FALSE
    OBVIOUS
  <2>1. PICK i \in DOMAIN x.events : x.events[i].type = "tool.requested"
                                     /\ x.events[i].call = Head(c.pending).call
    BY DEF Open, Requested, Positions, First, c
  <2>2. c.pending # <<>> /\ Head(c.pending) = c.pending[1] /\ 1 \in DOMAIN c.pending
    BY <1>1, Heads DEF Open, c
  <2>3. x.events[i].call[1] <= steps(d.checkpoint) /\ x.events[i].call[1] = step
    BY <1>3, <1>4, <2>1, <2>2
  <2>4. QED
    BY <1>1, <2>3 DEF step
<1>7. StreamValid(x) /\ Announced(x)
  BY CalmEvidence DEF Orderly
<1>8. Counted(x)
  <2>1. Count(x, "tool.requested") = Count(d, "tool.requested")
    BY CalmEvidence
  <2>2. ~Open(d) /\ Counted(d)
    BY DEF Open, Orderly
  <2>3. Numbered(d)
    BY <2>2 DEF Counted
  <2>4. Numbered(x)
    <3>1. Grows(d, x) /\ steps(x.checkpoint) = steps(d.checkpoint) + 1
      BY <1>2 DEF Calm, c, step
    <3>2. QED
      BY <2>3, <3>1, NumberedNext
  <2>5. QED
    BY <1>2, <1>6, <2>1, <2>2, <2>4 DEF Counted, c
<1>9. Settled(x)
  <2>1. \A i \in DOMAIN d.events : d.events[i].type = "tool.requested" =>
          \E j \in DOMAIN d.events :
            /\ d.events[j].type = "tool.result" /\ d.events[j].call = d.events[i].call
            /\ d.events[j].info \notin WAITS
    BY DEF Orderly, Settled
  <2>2. QED
    BY <2>1, CalmSame DEF Settled, ToolTypes
<1>10. Finished(x)
  <2>1. d.checkpoint.trajectory \in Seq(ATurns \cup TTurns) /\ a \in ATurns \cup TTurns
    BY <1>1 DEF Checkpoints
  <2>2. c.trajectory # <<>> /\ Last(c.trajectory) = a
    BY <2>1, LastIs DEF c
  <2>3. a.final => final_intent(c)
    BY <2>2 DEF final_intent, ATurns
  <2>4. QED
    BY <2>3 DEF Finished, c
<1>11. Awaited(x)
  <2>1. \A q \in Requests : x.approvals[q] # "pending"
    BY CalmPending DEF Orderly, Awaited
  <2>2. QED
    BY <1>6, <2>1 DEF Awaited
<1>12. QED
  BY <1>5, <1>6, <1>7, <1>8, <1>9, <1>10, <1>11 DEF Orderly

-----------------------------------------------------------------------------
(* The checkpoint that follows from an attempt.                            *)

\* Storing the result of the first pending call closes its attempt.
LEMMA StoreOrderly ==
  ASSUME NEW d \in Databases, Orderly(d), d.checkpoint.pending # <<>>,
         NEW r, Found(d, First(d), r),
         NEW x, x = Stored(d, d.checkpoint, r)
  PROVE  x \in Databases /\ Orderly(x) /\ ~Open(x)
<1> DEFINE c == d.checkpoint
           p == First(d)
           y == x.checkpoint
<1>1. /\ r \in Results /\ r.request \in Requested(d, p) /\ r.result \in Answered(d, p)
      /\ r.code = d.events[r.result].info
  BY DEF Found
<1>2. /\ c \in Checkpoints /\ p \in Pendings /\ p = c.pending[1] /\ 1 \in DOMAIN c.pending
      /\ Len(c.pending) \in Nat \ {0} /\ DOMAIN c.pending = 1 .. Len(c.pending)
      /\ \A k \in DOMAIN c.pending : c.pending[k] \in Pendings
  <2>1. c \in Checkpoints
    BY Sizes
  <2>2. /\ p \in Pendings /\ c.pending \in Seq(Pendings) /\ Len(c.pending) \in Nat \ {0}
        /\ p = c.pending[1] /\ DOMAIN c.pending = 1 .. Len(c.pending)
    BY <2>1, Heads DEF First
  <2>3. QED
    BY <2>1, <2>2
<1>3. /\ x \in Databases /\ y = checkpoint_after_tool(d, c, r) /\ y \in Checkpoints
      /\ x.status = d.status /\ x.events = d.events /\ x.effects = d.effects
      /\ x.markers = d.markers /\ x.approvals = d.approvals
  BY <1>1, <1>2, Storing, Sizes
<1>4. /\ y.pending = Left(c, r) /\ Turn(p, r) \in TTurns
      /\ y.trajectory = Append(c.trajectory, Turn(p, r))
  <2>1. p = Head(c.pending) /\ c.pending # <<>> /\ y = checkpoint_after_tool(d, c, r)
    BY <1>3 DEF First
  <2> HIDE DEF c, p, y
  <2>2. /\ checkpoint_after_tool(d, c, r).pending = Left(c, r)
        /\ Turn(Head(c.pending), r) \in TTurns
        /\ checkpoint_after_tool(d, c, r).trajectory
             = Append(c.trajectory, Turn(Head(c.pending), r))
    BY <1>1, <1>2, <2>1, AfterTool
  <2>3. QED
    BY <2>1, <2>2
<1>5. steps(y) = steps(c) /\ tool_attempts(y) = tool_attempts(c) + 1
      /\ steps(c) \in Nat /\ tool_attempts(c) \in Nat
  BY <1>2, <1>3, <1>4, StepsAppend, Counts
<1> DEFINE m(k) == IF r.code \in WAITS THEN k ELSE k + 1
<1>6. \A k \in DOMAIN y.pending :
        /\ m(k) \in DOMAIN c.pending /\ k \in Nat
        /\ y.pending[k].call = c.pending[m(k)].call
        /\ y.pending[k].request = c.pending[m(k)].request
        /\ IF m(k) = 1 THEN y.pending[k].attempt = c.pending[1].attempt + 1
                       ELSE y.pending[k].attempt = c.pending[m(k)].attempt
  <2>1. CASE r.code \in WAITS
    <3>1. /\ DOMAIN y.pending = DOMAIN c.pending /\ y.pending[1] = retried(p)
          /\ \A k \in DOMAIN c.pending \ {1} : y.pending[k] = c.pending[k]
      BY <1>1, <1>2, <1>4, <2>1, LeftIs DEF First
    <3>2. /\ retried(p).call = p.call /\ retried(p).request = p.request
          /\ retried(p).attempt = p.attempt + 1
      BY <1>2, Retries
    <3>3. QED
      BY <1>2, <2>1, <3>1, <3>2
  <2>2. CASE r.code \notin WAITS
    <3>1. /\ DOMAIN y.pending = 1 .. Len(c.pending) - 1
          /\ \A k \in DOMAIN y.pending : y.pending[k] = c.pending[k + 1]
      BY <1>1, <1>2, <1>4, <2>2, LeftIs
    <3>2. \A k \in DOMAIN y.pending : m(k) = k + 1 /\ k \in Nat \ {0} /\ m(k) # 1
      BY <1>2, <2>2, <3>1
    <3>3. \A k \in DOMAIN y.pending : k + 1 \in DOMAIN c.pending
      BY <1>2, <3>1
    <3> HIDE DEF m
    <3>4. QED
      BY <3>1, <3>2, <3>3
  <2>3. QED
    BY <2>1, <2>2
<1>7. \A n \in DOMAIN c.pending : n # 1 \/ r.code \in WAITS =>
        \E k \in DOMAIN y.pending : m(k) = n
  <2>1. CASE r.code \in WAITS
    <3>1. DOMAIN y.pending = DOMAIN c.pending
      BY <1>1, <1>2, <1>4, <2>1, LeftIs DEF First
    <3>2. QED
      BY <2>1, <3>1
  <2>2. CASE r.code \notin WAITS
    <3>1. DOMAIN y.pending = 1 .. Len(c.pending) - 1
      BY <1>1, <1>2, <1>4, <2>2, LeftIs
    <3>2. \A n \in DOMAIN c.pending : n # 1 => n - 1 \in DOMAIN y.pending /\ m(n - 1) = n
      BY <1>2, <2>2, <3>1
    <3>3. QED
      BY <2>2, <3>2
  <2>3. QED
    BY <2>1, <2>2
<1> DEFINE tools == {"tool.requested", "tool.result"}
<1>8. \A i \in DOMAIN x.events : x.events[i].type \in tools =>
        /\ x.events[i].call[1] <= steps(y)
        /\ \A k \in DOMAIN y.pending :
             x.events[i].call = y.pending[k].call => x.events[i].attempt < y.pending[k].attempt
  <2> TAKE i \in DOMAIN x.events
  <2> HAVE x.events[i].type \in tools
  <2>1. /\ d.events[i].call[1] <= steps(c)
        /\ \A k \in DOMAIN c.pending : d.events[i].call = c.pending[k].call =>
             \/ d.events[i].attempt < c.pending[k].attempt
             \/ k = 1 /\ d.events[i].attempt = c.pending[k].attempt
    BY <1>3 DEF Orderly, Fresh
  <2>2. d.events[i].attempt \in Nat
    BY <1>3, Sizes DEF Events
  <2>3. \A n \in DOMAIN c.pending : c.pending[n].attempt \in Nat
    BY <1>2 DEF Pendings, Attempts
  <2> HIDE DEF m
  <2>4. ASSUME NEW k \in DOMAIN y.pending, x.events[i].call = y.pending[k].call
        PROVE  x.events[i].attempt < y.pending[k].attempt
    <3>1. m(k) \in DOMAIN c.pending /\ d.events[i].call = c.pending[m(k)].call
      BY <1>3, <1>6, <2>4
    <3>2. \/ d.events[i].attempt < c.pending[m(k)].attempt
          \/ m(k) = 1 /\ d.events[i].attempt = c.pending[1].attempt
      BY <2>1, <3>1
    <3>3. IF m(k) = 1 THEN y.pending[k].attempt = c.pending[1].attempt + 1
                      ELSE y.pending[k].attempt = c.pending[m(k)].attempt
      BY <1>6
    <3>4. d.events[i].attempt < y.pending[k].attempt
      <4>1. CASE m(k) = 1
        BY <1>2, <2>2, <2>3, <3>2, <3>3, <4>1
      <4>2. CASE m(k) # 1
        BY <3>2, <3>3, <4>2
      <4>3. QED
        BY <4>1, <4>2
    <3>5. QED
      BY <1>3, <3>4
  <2>5. QED
    BY <1>3, <1>5, <2>1, <2>4
<1>9. ~Open(x)
  <2> SUFFICES ASSUME Open(x) PROVE FALSE
    OBVIOUS
  <2>1. y.pending # <<>> /\ First(x) = y.pending[1] /\ 1 \in DOMAIN y.pending
    BY <1>3, Heads DEF Open, First
  <2>2. PICK i \in DOMAIN x.events : /\ x.events[i].type = "tool.requested"
                                     /\ x.events[i].call = First(x).call
                                     /\ x.events[i].attempt = First(x).attempt
    BY DEF Open, Requested, Positions
  <2>3. x.events[i].attempt < y.pending[1].attempt /\ x.events[i].attempt = y.pending[1].attempt
    BY <1>8, <2>1, <2>2
  <2>4. x.events[i].attempt \in Nat
    BY <1>3, <2>2, Sizes DEF Events
  <2>5. QED
    BY <2>3, <2>4
<1> HIDE DEF m
<1>10. Fresh(x)
  <2>1. \A k \in DOMAIN y.pending : y.pending[k].call[1] = steps(y)
    BY <1>5, <1>6 DEF Orderly, Fresh
  <2>2. \A j, k \in DOMAIN y.pending : m(j) = m(k) => j = k
    BY <1>6 DEF m
  <2>3. \A j, k \in DOMAIN y.pending : y.pending[j].call = y.pending[k].call => m(j) = m(k)
    BY <1>6 DEF Orderly, Fresh
  <2>4. QED
    BY <1>8, <2>1, <2>2, <2>3 DEF Fresh
<1>11. Counted(x)
  <2>1. Counted(d) /\ Open(d)
    BY <1>1 DEF Orderly, Open
  <2>2. Count(x, "tool.requested") = Count(d, "tool.requested")
    BY <1>3 DEF Count
  <2>3. Count(d, "tool.requested") \in Nat
    BY CountIs
  <2>4. Numbered(x)
    <3>1. Grows(d, x) /\ News(d, x) = {} /\ Numbered(d)
      BY <1>3, <2>1, Sizes DEF Grows, News, Counted
    <3>2. QED
      BY <1>3, <1>5, <3>1, NumberedKeeps
  <2>5. QED
    BY <1>5, <1>9, <2>1, <2>2, <2>3, <2>4 DEF Counted
<1>12. Settled(x)
  <2>1. SUFFICES ASSUME NEW i \in DOMAIN d.events, d.events[i].type = "tool.requested",
                        NEW n \in DOMAIN c.pending, c.pending[n].call = d.events[i].call
                 PROVE  \/ \E j \in DOMAIN d.events :
                             /\ d.events[j].type = "tool.result"
                             /\ d.events[j].call = d.events[i].call
                             /\ d.events[j].info \notin WAITS
                        \/ \E k \in DOMAIN y.pending : y.pending[k].call = d.events[i].call
    BY <1>3 DEF Orderly, Settled
  <2>2. CASE n # 1 \/ r.code \in WAITS
    BY <1>6, <1>7, <2>1, <2>2
  <2>3. CASE n = 1 /\ r.code \notin WAITS
    BY <1>1, <1>2, <2>1, <2>3 DEF Answered, Positions
  <2>4. QED
    BY <2>2, <2>3
<1>13. Finished(x)
  BY <1>3 DEF Orderly, Finished
<1>14. Awaited(x)
  <2>1. ASSUME NEW q \in Requests, x.approvals[q] = "pending"
        PROVE  \E k \in DOMAIN y.pending : y.pending[k].request = q
    <3>1. PICK n \in DOMAIN c.pending : c.pending[n].request = q
      BY <1>3, <2>1 DEF Orderly, Awaited
    <3>2. n # 1 \/ r.code \in WAITS
      <4> SUFFICES ASSUME n = 1, r.code \notin WAITS PROVE FALSE
        OBVIOUS
      <4>1. Open(d) /\ q = p.request
        BY <1>1, <1>2, <3>1 DEF Open
      <4>2. d.approvals[p.request] # "pending"
        BY <1>1, <4>1 DEF Orderly, Awaited
      <4>3. QED
        BY <1>3, <2>1, <4>1, <4>2
    <3>3. QED
      BY <1>6, <1>7, <3>1, <3>2
  <2>2. QED
    BY <1>9, <2>1 DEF Awaited
<1>15. StreamValid(x) /\ Announced(x)
  <2>1. Shown(x) = Shown(d) /\ \A f : Marked(x, f) <=> Marked(d, f)
    BY <1>3 DEF Shown, Marked
  <2>2. \A f : Outcomes(x, f) = Outcomes(d, f)
    BY <1>3 DEF Outcomes, Answered, Positions
  <2>3. StreamValid(d) /\ Announced(d)
    BY DEF Orderly
  <2>4. StreamValid(x)
    BY <1>3, <2>3 DEF StreamValid
  <2>5. Announced(x)
    BY <1>3, <2>1, <2>2, <2>3 DEF Announced
  <2>6. QED
    BY <2>4, <2>5
<1>16. QED
  BY <1>3, <1>9, <1>10, <1>11, <1>12, <1>13, <1>14, <1>15 DEF Orderly

-----------------------------------------------------------------------------
(* An attempt of the first pending call.                                   *)

\* What an attempt did to the ledger and to the markers.
Spares(d, x) ==
  /\ x.effects = d.effects /\ x.markers = d.markers
  /\ \A i \in News(d, x) : x.events[i].type # "state.evidence_recorded"

TakesEffect(d, p, x) ==
  /\ p.request \in Mutations /\ Existing(d, p.request) = {}
  /\ x.effects = d.effects \cup {Effect(p)} /\ gate(d, p) = "pass"
  /\ \E i \in News(d, x) : x.events[i].type = "state.evidence_recorded"

Says(d, p, x) ==
  /\ TakesEffect(d, p, x) /\ x.markers = d.markers
  /\ \E i \in News(d, x) : x.events[i].type = "tool.result"
  /\ \A i \in News(d, x) : x.events[i].type = "tool.result" => x.events[i].info = "newly_applied"

Owes(d, p, x) ==
  /\ TakesEffect(d, p, x) /\ x.markers = d.markers \cup {Marker(p)}
  /\ \A i \in News(d, x) : x.events[i].type # "tool.result"

Attempted(d, p, x) ==
  /\ Tried(d, p, x)
  /\ Spares(d, x) \/ Says(d, p, x) \/ Owes(d, p, x)
  /\ gate(d, p) \in WAITS =>
       \A i \in News(d, x) : x.events[i].type = "tool.result" => x.events[i].info \in WAITS

\* The positions of two new events.
LEMMA TwoNews ==
  ASSUME NEW d \in Databases, NEW x \in Databases, NEW a \in Events, NEW b \in Events,
         x.events = Append(Append(d.events, a), b)
  PROVE  /\ News(d, x) = {Len(d.events) + 1, Len(d.events) + 2}
         /\ x.events[Len(d.events) + 1] = a /\ x.events[Len(d.events) + 2] = b
<1>1. d.events \in Seq(Events) /\ Len(d.events) \in Nat
  BY Sizes
<1>2. /\ Len(x.events) = Len(d.events) + 2
      /\ x.events[Len(d.events) + 1] = a /\ x.events[Len(d.events) + 2] = b
  BY <1>1, AppendedTwo
<1>3. QED
  BY <1>1, <1>2 DEF News

Three(s, a, b, c, t) == t = Append(Append(Append(s, a), b), c)

\* The positions of three new events.
LEMMA ThreeNews ==
  ASSUME NEW d \in Databases, NEW x \in Databases, NEW a \in Events, NEW b \in Events,
         NEW c \in Events, Three(d.events, a, b, c, x.events)
  PROVE  /\ News(d, x) = {Len(d.events) + 1, Len(d.events) + 2, Len(d.events) + 3}
         /\ x.events[Len(d.events) + 1] = a /\ x.events[Len(d.events) + 2] = b
         /\ x.events[Len(d.events) + 3] = c
<1>1. d.events \in Seq(Events) /\ Len(d.events) \in Nat
  BY Sizes
<1>2. /\ Len(x.events) = Len(d.events) + 3
      /\ x.events[Len(d.events) + 1] = a /\ x.events[Len(d.events) + 2] = b
      /\ x.events[Len(d.events) + 3] = c
  BY <1>1, AppendedThree DEF Three
<1>3. News(d, x) = {Len(d.events) + 1, Len(d.events) + 2, Len(d.events) + 3}
  <2>1. PICK n \in Nat : n = Len(d.events)
    BY <1>1
  <2>2. News(d, x) = n + 1 .. n + 3
    BY <1>2, <2>1 DEF News
  <2>3. n + 1 .. n + 3 = {n + 1, n + 2, n + 3}
    BY <2>1
  <2>4. QED
    BY <2>1, <2>2, <2>3
<1>4. QED
  BY <1>2, <1>3

\* What an attempt that left evidence did to the ledger and the markers.
LEMMA AttemptedIs ==
  ASSUME NEW d \in Databases, NEW p \in Pendings, NEW o \in execute(d, p), ~Rejects(d, o)
  PROVE  Attempted(d, p, o.db)
<1>0. PICK x, q, k, w : x = o.db /\ q = ReqE(p) /\ k = AskE(p) /\ w = EvdE(p)
  OBVIOUS
<1>1. Tried(d, p, x) /\ x \in Databases
  BY <1>0, TriedIs, Executed DEF Frame
<1>2. \/ Refuses(d, p, o) \/ Reads(d, p, o) \/ Applies(d, p, o) \/ Marks(d, p, o)
  BY Executed
<1>3. /\ q \in Events /\ k \in Events /\ w \in Events
      /\ \A code \in Codes, slow \in Slow : ResE(p, code, slow) \in Events
  BY <1>0, EventTypes
<1>4. /\ q.type = "tool.requested" /\ k.type = "approval.requested"
      /\ w.type = "state.evidence_recorded"
      /\ \A code, slow : /\ ResE(p, code, slow).type = "tool.result"
                         /\ ResE(p, code, slow).info = code
  BY <1>0, EventFields DEF ReqE, AskE, EvdE
<1>5. CASE Refuses(d, p, o)
  <2>1. gate(d, p) \in Codes
    BY <1>5 DEF Refuses
  <2>2. /\ Spares(d, x)
        /\ \A i \in News(d, x) :
             x.events[i].type = "tool.result" => x.events[i].info = gate(d, p)
    <3>1. CASE gate(d, p) = "approval_required"
      <4>1. PICK slow \in Slow :
              x.events = Append(Append(Append(d.events, q), k), ResE(p, gate(d, p), slow))
        BY <1>0, <1>5, <3>1 DEF Refuses
      <4>5. PICK v : v = ResE(p, gate(d, p), slow)
        OBVIOUS
      <4>2. v \in Events
        BY <1>3, <2>1, <4>5
      <4>3. /\ News(d, x) = {Len(d.events) + 1, Len(d.events) + 2, Len(d.events) + 3}
            /\ x.events[Len(d.events) + 1] = q /\ x.events[Len(d.events) + 2] = k
            /\ x.events[Len(d.events) + 3] = v
        <5>1. Three(d.events, q, k, v, x.events)
          BY <4>1, <4>5 DEF Three
        <5>2. QED
          BY <1>1, <1>3, <4>2, <5>1, ThreeNews
      <4>4. QED
        BY <1>0, <1>4, <1>5, <4>3, <4>5 DEF Refuses, Spares
    <3>2. CASE gate(d, p) # "approval_required"
      <4>1. PICK slow \in Slow :
              x.events = Append(Append(d.events, q), ResE(p, gate(d, p), slow))
        BY <1>0, <1>5, <3>2 DEF Refuses
      <4>5. PICK v : v = ResE(p, gate(d, p), slow)
        OBVIOUS
      <4>2. v \in Events
        BY <1>3, <2>1, <4>5
      <4>3. /\ News(d, x) = {Len(d.events) + 1, Len(d.events) + 2}
            /\ x.events[Len(d.events) + 1] = q
            /\ x.events[Len(d.events) + 2] = v
        BY <1>1, <1>3, <4>1, <4>2, <4>5, TwoNews
      <4>4. QED
        BY <1>0, <1>4, <1>5, <4>3, <4>5 DEF Refuses, Spares
    <3>3. QED
      BY <3>1, <3>2
  <2>3. QED
    BY <1>0, <1>1, <2>2 DEF Attempted
<1>6. CASE Reads(d, p, o)
  <2>1. PICK code \in {"failed", "infrastructure_error", "read", "already_applied"}, slow \in Slow :
          x.events = Append(Append(d.events, q), ResE(p, code, slow))
    BY <1>0, <1>6 DEF Reads
  <2>9. PICK v : v = ResE(p, code, slow)
    OBVIOUS
  <2>2. v \in Events
    BY <1>3, <2>9 DEF Codes, SUCCESSES
  <2>3. /\ News(d, x) = {Len(d.events) + 1, Len(d.events) + 2}
        /\ x.events[Len(d.events) + 1] = q
        /\ x.events[Len(d.events) + 2] = v
    BY <1>1, <1>3, <2>1, <2>2, <2>9, TwoNews
  <2>4. Spares(d, x)
    BY <1>0, <1>4, <1>6, <2>3, <2>9 DEF Reads, Spares
  <2>5. gate(d, p) \notin WAITS
    BY <1>6 DEF Reads, WAITS
  <2>6. QED
    BY <1>0, <1>1, <2>4, <2>5 DEF Attempted
<1>7. CASE Applies(d, p, o)
  <2>1. PICK slow \in Slow :
          x.events = Append(Append(Append(d.events, q), ResE(p, "newly_applied", slow)), w)
    BY <1>0, <1>7 DEF Applies
  <2>9. PICK v : v = ResE(p, "newly_applied", slow)
    OBVIOUS
  <2>2. v \in Events
    BY <1>3, <2>9 DEF Codes, SUCCESSES
  <2>3. /\ News(d, x) = {Len(d.events) + 1, Len(d.events) + 2, Len(d.events) + 3}
        /\ x.events[Len(d.events) + 1] = q /\ x.events[Len(d.events) + 3] = w
        /\ x.events[Len(d.events) + 2] = v
    <3>1. Three(d.events, q, v, w, x.events)
      BY <2>1, <2>9 DEF Three
    <3>2. QED
      BY <1>1, <1>3, <2>2, <3>1, ThreeNews
  <2>4. Says(d, p, x)
    BY <1>0, <1>4, <1>7, <2>3, <2>9 DEF Applies, Mutates, Says, TakesEffect
  <2>5. gate(d, p) \notin WAITS
    BY <1>7 DEF Applies, Mutates, WAITS
  <2>6. QED
    BY <1>0, <1>1, <2>4, <2>5 DEF Attempted
<1>8. CASE Marks(d, p, o)
  <2>1. /\ News(d, x) = {Len(d.events) + 1, Len(d.events) + 2}
        /\ x.events[Len(d.events) + 1] = q /\ x.events[Len(d.events) + 2] = w
    BY <1>0, <1>1, <1>3, <1>8, TwoNews DEF Marks
  <2>2. Owes(d, p, x)
    BY <1>0, <1>4, <1>8, <2>1 DEF Marks, Mutates, Owes, TakesEffect
  <2>3. gate(d, p) \notin WAITS
    BY <1>8 DEF Marks, Mutates, WAITS
  <2>4. QED
    BY <1>0, <1>1, <2>2, <2>3 DEF Attempted
<1>9. QED
  BY <1>0, <1>2, <1>5, <1>6, <1>7, <1>8

\* A request past the gate, or one it refuses for good, is not waiting.
LEMMA NotWaiting ==
  ASSUME NEW d \in Databases, NEW p \in Pendings, Answerable(d), gate(d, p) \notin WAITS
  PROVE  d.approvals[p.request] # "pending"
<1>1. p.request \in Requests
  BY DEF Pendings
<1>2. d.approvals[p.request] # "none" => Policy[p.request] = "require_approval"
  BY <1>1 DEF Answerable
<1>3. QED
  BY <1>2 DEF gate, WAITS

\* Where the first pending call has no request in evidence, nothing has its number.
LEMMA Untouched ==
  ASSUME NEW d \in Databases, Traced(d), d.checkpoint.pending # <<>>, ~Open(d)
  PROVE  LET p == First(d)
         IN /\ Requested(d, p) = {} /\ Answered(d, p) = {} /\ ~Marked(d, p)
            /\ \A f \in d.effects : f.call # p.call \/ f.attempt # p.attempt
            /\ \A i \in DOMAIN d.events : d.events[i].type \in ToolTypes =>
                 d.events[i].call # p.call \/ d.events[i].attempt # p.attempt
<1> DEFINE p == First(d)
<1>1. Requested(d, p) = {}
  BY DEF Open
<1>2. \A y : y.call = p.call /\ y.attempt = p.attempt => Requested(d, y) = {}
  BY <1>1 DEF Requested
<1>3. \A i \in DOMAIN d.events : d.events[i].type \in ToolTypes =>
        d.events[i].call # p.call \/ d.events[i].attempt # p.attempt
  BY <1>1, <1>2 DEF Traced, ToolTypes, Requested, Positions
<1>4. Answered(d, p) = {}
  BY <1>3 DEF Answered, Positions, ToolTypes
<1>5. ~Marked(d, p)
  BY <1>2 DEF Marked, Traced
<1>6. \A f \in d.effects : f.call # p.call \/ f.attempt # p.attempt
  BY <1>2 DEF Traced
<1>7. QED
  BY <1>1, <1>3, <1>4, <1>5, <1>6

\* An attempt with a number of its own is in evidence once.
LEMMA TryStream ==
  ASSUME NEW d \in Databases, NEW p \in Pendings, NEW x \in Databases, Tried(d, p, x),
         StreamValid(d),
         \A i \in DOMAIN d.events : d.events[i].type \in ToolTypes =>
           d.events[i].call # p.call \/ d.events[i].attempt # p.attempt
  PROVE  StreamValid(x)
<1>1. Grows(d, x)
  BY DEF Tried
<1>2. \A i \in News(d, x) : x.events[i].call = p.call /\ x.events[i].attempt = p.attempt
  BY DEF Tried
<1>3. SUFFICES ASSUME NEW i \in DOMAIN x.events, NEW j \in DOMAIN x.events,
                      x.events[i].type \in {"tool.requested", "tool.result"},
                      x.events[i].type = x.events[j].type, x.events[i].call = x.events[j].call,
                      x.events[i].attempt = x.events[j].attempt
               PROVE  i = j
  BY DEF StreamValid
<1>4. CASE i \in News(d, x) /\ j \in News(d, x)
  BY <1>3, <1>4 DEF Tried
<1>5. CASE i \notin News(d, x) /\ j \notin News(d, x)
  <2>1. /\ i \in DOMAIN d.events /\ j \in DOMAIN d.events
        /\ x.events[i] = d.events[i] /\ x.events[j] = d.events[j]
    BY <1>1, <1>5, OldOrNew
  <2>2. QED
    BY <1>3, <2>1 DEF StreamValid
<1>6. CASE i \in News(d, x) /\ j \notin News(d, x)
  <2>1. j \in DOMAIN d.events /\ x.events[j] = d.events[j]
    BY <1>1, <1>6, OldOrNew
  <2>2. QED
    BY <1>2, <1>3, <1>6, <2>1 DEF ToolTypes
<1>7. CASE i \notin News(d, x) /\ j \in News(d, x)
  <2>1. i \in DOMAIN d.events /\ x.events[i] = d.events[i]
    BY <1>1, <1>7, OldOrNew
  <2>2. QED
    BY <1>2, <1>3, <1>7, <2>1 DEF ToolTypes
<1>8. QED
  BY <1>4, <1>5, <1>6, <1>7

\* One more effect, with its evidence and its answer or marker.
LEMMA TryAnnounced ==
  ASSUME NEW d \in Databases, NEW p \in Pendings, NEW x \in Databases, Attempted(d, p, x),
         Announced(d), Answered(d, p) = {}, ~Marked(d, p),
         \A f \in d.effects : f.call # p.call \/ f.attempt # p.attempt
  PROVE  Announced(x)
<1>1. Grows(d, x) /\ Tried(d, p, x)
  BY DEF Attempted, Tried
<1>2. \A i \in News(d, x) : x.events[i].call = p.call /\ x.events[i].attempt = p.attempt
  BY <1>1 DEF Tried
<1>3. \A f \in d.effects : Answered(x, f) = Answered(d, f)
  BY <1>1, <1>2, OldOrNew DEF Answered, Positions
<1>4. \A f \in d.effects : Outcomes(x, f) = Outcomes(d, f)
  BY <1>1, <1>3, OldOrNew DEF Outcomes, Answered, Positions
<1>5. \A f \in d.effects : Marked(x, f) <=> Marked(d, f)
  <2> TAKE f \in d.effects
  <2>1. d.markers \subseteq x.markers /\ x.markers \subseteq d.markers \cup {Marker(p)}
    BY <1>1 DEF Tried
  <2>2. [call |-> f.call, attempt |-> f.attempt] # Marker(p)
    BY DEF Marker
  <2>3. QED
    BY <2>1, <2>2 DEF Marked
<1>6. Shown(d) \subseteq Shown(x) /\ Shown(x) \subseteq Shown(d) \cup News(d, x)
      /\ Shown(d) \cap News(d, x) = {} /\ \A i \in Shown(d) : x.events[i] = d.events[i]
  BY <1>1, OldOrNew DEF Shown
<1>7. \A f \in d.effects : \E i \in Shown(x) : /\ x.events[i].info = f.request
                                               /\ x.events[i].call = f.call
                                               /\ x.events[i].attempt = f.attempt
  BY <1>6 DEF Announced
<1>8. CASE Spares(d, x)
  <2>1. Shown(x) = Shown(d)
    BY <1>6, <1>8 DEF Spares, Shown
  <2>2. QED
    BY <1>4, <1>5, <1>7, <1>8, <2>1 DEF Announced, Spares
<1>9. CASE Says(d, p, x) \/ Owes(d, p, x)
  <2>1. TakesEffect(d, p, x)
    BY <1>9 DEF Says, Owes
  <2>2. PICK n \in News(d, x) : x.events[n].type = "state.evidence_recorded"
    BY <2>1 DEF TakesEffect
  <2>3. x.events[n].info = p.request /\ x.events[n].call = p.call /\ x.events[n].attempt = p.attempt
    BY <1>1, <2>2 DEF Tried
  <2>4. n \in Shown(x) /\ \A m \in News(d, x) : m \in Shown(x) => m = n
    BY <1>1, <2>2, OldOrNew DEF Shown, Tried
  <2>5. Shown(x) = Shown(d) \cup {n} /\ n \notin Shown(d)
    BY <1>6, <2>2, <2>4
  <2>6. PICK g : g = Effect(p)
    OBVIOUS
  <2>7. g.request = p.request /\ g.call = p.call /\ g.attempt = p.attempt
    BY <2>6 DEF Effect
  <2>8. x.effects = d.effects \cup {g} /\ g \notin d.effects
    BY <2>1, <2>6, <2>7 DEF TakesEffect
  <2>9. IsFiniteSet(Shown(d)) /\ IsFiniteSet(d.effects)
    BY CountIs DEF Shown, Announced
  <2>10. IsFiniteSet(x.effects) /\ Cardinality(Shown(x)) = Cardinality(x.effects)
    <3>1. Cardinality(Shown(d) \cup {n}) = Cardinality(Shown(d)) + 1
      BY <2>5, <2>9, OneMore
    <3>2. Cardinality(d.effects \cup {g}) = Cardinality(d.effects) + 1
      BY <2>8, <2>9, OneMore
    <3>3. IsFiniteSet(d.effects \cup {g})
      BY <2>9, FS_AddElement
    <3>4. QED
      BY <2>5, <2>8, <3>1, <3>2, <3>3 DEF Announced
  <2>11. \A f, h \in x.effects : Key[f.request] = Key[h.request] => f = h
    <3>1. \A f \in d.effects : Key[f.request] # Key[p.request]
      BY <2>1 DEF TakesEffect, Existing
    <3>2. QED
      BY <2>7, <2>8, <3>1 DEF Announced
  <2>12. IF Marked(x, g) THEN Outcomes(x, g) \subseteq {"fault_timeout"}
         ELSE Outcomes(x, g) = {"newly_applied"}
    <3>1. Answered(x, g) = {i \in News(d, x) : x.events[i].type = "tool.result"}
      <4>1. Answered(x, g) = Answered(x, p) /\ Answered(d, p) = {}
        BY <2>7 DEF Answered
      <4>2. \A i \in Answered(x, p) : i \in News(d, x)
        BY <1>1, <4>1, OldOrNew DEF Answered, Positions
      <4>3. QED
        BY <1>1, <1>2, <4>1, <4>2, OldOrNew DEF Answered, Positions
    <3>2. Marked(x, g) <=> Marker(p) \in x.markers
      BY <2>7 DEF Marked, Marker
    <3>3. Marker(p) \notin d.markers
      BY DEF Marked, Marker
    <3>4. CASE Says(d, p, x)
      BY <3>1, <3>2, <3>3, <3>4 DEF Says, Outcomes
    <3>5. CASE Owes(d, p, x)
      BY <3>1, <3>2, <3>5 DEF Owes, Outcomes
    <3>6. QED
      BY <1>9, <3>4, <3>5
  <2>13. \E i \in Shown(x) : /\ x.events[i].info = g.request /\ x.events[i].call = g.call
                             /\ x.events[i].attempt = g.attempt
    BY <2>3, <2>4, <2>7
  <2>14. \A f \in d.effects : IF Marked(x, f) THEN Outcomes(x, f) \subseteq {"fault_timeout"}
                              ELSE Outcomes(x, f) = {"newly_applied"}
    BY <1>4, <1>5 DEF Announced
  <2>15. QED
    BY <1>7, <2>8, <2>10, <2>11, <2>12, <2>13, <2>14 DEF Announced
<1>10. QED
  BY <1>8, <1>9 DEF Attempted

\* An attempt of the first pending call, where none is open, leaves it open.
LEMMA TryOrderly ==
  ASSUME NEW d \in Databases, Orderly(d), Grounded(d), d.checkpoint.pending # <<>>, ~Open(d),
         tool_attempts(d.checkpoint) < MaxToolCalls,
         NEW x \in Databases, Attempted(d, First(d), x)
  PROVE  /\ Orderly(x) /\ Open(x) /\ First(x) = First(d)
         /\ First(d).request \in AfterCommit => Durable(x)
<1> DEFINE p == First(d)
           c == d.checkpoint
<1>1. /\ Grows(d, x) /\ Tried(d, p, x) /\ x.checkpoint = c /\ x.status = d.status
      /\ First(x) = p
  BY DEF Attempted, Tried, Frame, First
<1>2. /\ p \in Pendings /\ p = c.pending[1] /\ 1 \in DOMAIN c.pending /\ c \in Checkpoints
      /\ p.request \in Requests
  BY Sizes, Heads DEF First, Pendings
<1>3. /\ Requested(d, p) = {} /\ Answered(d, p) = {} /\ ~Marked(d, p)
      /\ \A f \in d.effects : f.call # p.call \/ f.attempt # p.attempt
      /\ \A i \in DOMAIN d.events : d.events[i].type \in ToolTypes =>
           d.events[i].call # p.call \/ d.events[i].attempt # p.attempt
  BY Untouched DEF Grounded
<1>4. /\ Len(d.events) + 1 \in News(d, x) /\ Len(d.events) + 1 \in DOMAIN x.events
      /\ Len(d.events) + 1 \in Requested(x, p)
  <2>1. Len(d.events) + 1 \in News(d, x) /\ x.events[Len(d.events) + 1] = ReqE(p)
    BY <1>1, Sizes DEF Tried, News
  <2>2. ReqE(p).type = "tool.requested" /\ ReqE(p).call = p.call /\ ReqE(p).attempt = p.attempt
    BY EventFields DEF ReqE
  <2>3. QED
    BY <1>1, <2>1, <2>2, OldOrNew DEF Requested, Positions
<1>5. Open(x)
  BY <1>1, <1>4 DEF Open
<1>6. \A i \in News(d, x) : x.events[i].call = p.call /\ x.events[i].attempt = p.attempt
  BY <1>1 DEF Tried
<1> HIDE DEF p, c
<1>7. StreamValid(x)
  BY <1>1, <1>2, <1>3, TryStream DEF Orderly
<1>8. Announced(x)
  BY <1>2, <1>3, TryAnnounced DEF Orderly, p
<1>9. Fresh(x)
  <2>1. \A i \in News(d, x) :
          /\ x.events[i].call[1] <= steps(c)
          /\ \A k \in DOMAIN c.pending : x.events[i].call = c.pending[k].call =>
               k = 1 /\ x.events[i].attempt = c.pending[k].attempt
    <3> TAKE i \in News(d, x)
    <3>1. p.call[1] = steps(c) /\ steps(c) \in Nat
      BY <1>2, Counts DEF Orderly, Fresh, c
    <3>2. \A k \in DOMAIN c.pending : p.call = c.pending[k].call => k = 1
      BY <1>2 DEF Orderly, Fresh, c
    <3>3. QED
      BY <1>2, <1>6, <3>1, <3>2
  <2>2. \A i \in DOMAIN x.events : i \in News(d, x) \/ (i \in DOMAIN d.events /\ x.events[i] = d.events[i])
    BY <1>1, OldOrNew
  <2>3. Fresh(d)
    BY DEF Orderly
  <2>4. QED
    BY <1>1, <2>1, <2>2, <2>3 DEF Fresh, c
<1>10. Counted(x)
  <2>1. Count(x, "tool.requested") <= Count(d, "tool.requested") + 1
    BY <1>1, CountOne DEF Tried
  <2>2. Numbered(x)
    <3>1. \A i \in News(d, x) : x.events[i].type # "agent.step"
      BY <1>1 DEF Tried, ToolTypes
    <3>2. Numbered(d)
      BY DEF Orderly, Counted
    <3>3. steps(x.checkpoint) = steps(d.checkpoint)
      BY <1>1 DEF c
    <3>4. QED
      BY <1>1, <3>1, <3>2, <3>3, NumberedKeeps
  <2>3. /\ Count(d, "tool.requested") \in Nat /\ Count(x, "tool.requested") \in Nat
        /\ tool_attempts(c) \in Nat /\ MaxToolCalls \in Nat
    BY <1>2, CountIs, Counts, Constants DEF Attempts
  <2>4. Count(d, "tool.requested") <= tool_attempts(c)
    BY <2>3 DEF Orderly, Counted, c
  <2>5. tool_attempts(c) < MaxToolCalls /\ Counted(d)
    BY DEF Orderly, c
  <2>6. QED
    BY <1>1, <1>5, <2>1, <2>2, <2>3, <2>4, <2>5 DEF Counted, c
<1>11. Settled(x)
  <2>1. ASSUME NEW i \in DOMAIN x.events, x.events[i].type = "tool.requested"
        PROVE  \/ \E j \in DOMAIN x.events :
                    /\ x.events[j].type = "tool.result" /\ x.events[j].call = x.events[i].call
                    /\ x.events[j].info \notin WAITS
               \/ \E k \in DOMAIN c.pending : c.pending[k].call = x.events[i].call
    <3>1. CASE i \in News(d, x)
      BY <1>2, <1>6, <3>1
    <3>2. CASE i \in DOMAIN d.events /\ x.events[i] = d.events[i]
      <4>1. \A j \in DOMAIN d.events : j \in DOMAIN x.events /\ x.events[j] = d.events[j]
        BY <1>1, OldOrNew
      <4>2. Settled(d)
        BY DEF Orderly
      <4>3. QED
        BY <2>1, <3>2, <4>1, <4>2 DEF Settled, c
    <3>3. QED
      BY <1>1, <3>1, <3>2, OldOrNew
  <2>2. QED
    BY <1>1, <2>1 DEF Settled
<1>12. Finished(x)
  BY <1>1 DEF Orderly, Finished, c
<1>13. Awaited(x)
  <2>1. ASSUME NEW q \in Requests, x.approvals[q] = "pending"
        PROVE  \E k \in DOMAIN c.pending : c.pending[k].request = q
    <3>1. CASE q = p.request
      BY <1>2, <3>1
    <3>2. CASE q # p.request
      <4>1. d.approvals \in [Requests -> {"none", "pending", "approved", "denied"}]
        BY DEF Databases
      <4>2. d.approvals[q] = "pending"
        BY <1>1, <2>1, <3>2, <4>1 DEF Tried
      <4>3. QED
        BY <4>2 DEF Orderly, Awaited, c
    <3>3. QED
      BY <3>1, <3>2
  <2>2. ASSUME Marked(x, p) \/ \E j \in Answered(x, p) : x.events[j].info \notin WAITS
        PROVE  x.approvals[p.request] # "pending"
    <3>1. gate(d, p) \notin WAITS
      <4>1. CASE Marked(x, p)
        <5>1. x.markers # d.markers
          BY <1>3, <4>1 DEF Marked
        <5>2. gate(d, p) = "pass"
          BY <5>1 DEF Attempted, Spares, Says, Owes, TakesEffect, p
        <5>3. QED
          BY <5>2 DEF WAITS
      <4>2. CASE \E j \in Answered(x, p) : x.events[j].info \notin WAITS
        <5>1. PICK j \in Answered(x, p) : x.events[j].info \notin WAITS
          BY <4>2
        <5>2. x.events[j].type = "tool.result" /\ j \in News(d, x)
          BY <1>1, <1>3, OldOrNew DEF Answered, Positions
        <5>3. QED
          BY <5>1, <5>2 DEF Attempted, p
      <4>3. QED
        BY <2>2, <4>1, <4>2
    <3>2. d.approvals[p.request] # "pending"
      BY <1>2, <3>1, NotWaiting DEF Grounded
    <3>3. x.approvals = d.approvals
      BY <1>1, <3>1 DEF Tried, WAITS
    <3>4. QED
      BY <3>2, <3>3
  <2>3. QED
    BY <1>1, <2>1, <2>2 DEF Awaited
<1>14. Orderly(x)
  BY <1>7, <1>8, <1>9, <1>10, <1>11, <1>12, <1>13 DEF Orderly
<1>15. p.request \in AfterCommit => Durable(x)
  BY <1>1 DEF Durable
<1>16. QED
  BY <1>1, <1>5, <1>14, <1>15 DEF p

\* The late answer keeps the rows orderly and the attempt open.
LEMMA AckOrderly ==
  ASSUME NEW d \in Databases, Orderly(d), Grounded(d), Open(d), Marked(d, First(d)),
         Answered(d, First(d)) = {}, NEW x \in Databases, Frame(d, x),
         NEW v \in Events, AckE(First(d), v),
         x.events = Append(d.events, v), x.effects = d.effects,
         x.markers = d.markers, x.approvals = d.approvals
  PROVE  /\ Orderly(x) /\ Open(x) /\ First(x) = First(d) /\ (Durable(d) => Durable(x))
         /\ Marked(x, First(d))
<1>0. PICK p, c, n : p = First(d) /\ c = d.checkpoint /\ n = Len(d.events) + 1
  OBVIOUS
<1>1. /\ Grows(d, x) /\ News(d, x) = {n} /\ x.events[n] = v
      /\ x.checkpoint = c /\ x.status = d.status /\ First(x) = p
  BY <1>0, GrowsBy DEF Frame, First
<1>2. /\ v.type = "tool.result" /\ v.call = p.call /\ v.attempt = p.attempt
      /\ v.info = "fault_timeout" /\ v.info \notin WAITS
  BY <1>0 DEF AckE, WAITS
<1>3. /\ p \in Pendings /\ p = c.pending[1] /\ 1 \in DOMAIN c.pending /\ c \in Checkpoints
      /\ c.pending # <<>> /\ Answered(d, p) = {} /\ Marked(d, p)
  BY <1>0, Sizes, Heads DEF First, Open
<1>4. /\ n \in DOMAIN x.events /\ n \notin DOMAIN d.events
      /\ \A i \in DOMAIN x.events : (i \in DOMAIN d.events /\ x.events[i] = d.events[i]) \/ i = n
      /\ \A i \in DOMAIN d.events : i \in DOMAIN x.events /\ x.events[i] = d.events[i]
  <2>1. n \in News(d, x) /\ \A i \in News(d, x) : i = n
    BY <1>1
  <2>2. QED
    BY <1>1, <2>1, OldOrNew
<1>5. \A y : Requested(x, y) = Requested(d, y) /\ (Marked(x, y) <=> Marked(d, y))
  BY <1>1, <1>2, <1>4 DEF Requested, Positions, Marked
<1>6. Open(x) /\ (Durable(d) => Durable(x)) /\ Marked(x, p)
  BY <1>0, <1>1, <1>3, <1>5 DEF Open, Durable
<1>7. StreamValid(x)
  <2> SUFFICES ASSUME NEW i \in DOMAIN x.events, NEW j \in DOMAIN x.events,
                      x.events[i].type \in {"tool.requested", "tool.result"},
                      x.events[i].type = x.events[j].type, x.events[i].call = x.events[j].call,
                      x.events[i].attempt = x.events[j].attempt
               PROVE  i = j
    BY DEF StreamValid
  <2>1. \A k \in DOMAIN d.events : d.events[k].type = "tool.result" =>
          d.events[k].call # p.call \/ d.events[k].attempt # p.attempt
    BY <1>3 DEF Answered, Positions
  <2>2. StreamValid(d)
    BY DEF Orderly
  <2>3. CASE i = n \/ j = n
    BY <1>1, <1>2, <1>4, <2>1, <2>3
  <2>4. CASE i # n /\ j # n
    BY <1>4, <2>2, <2>4 DEF StreamValid
  <2>5. QED
    BY <2>3, <2>4
<1>8. Fresh(x)
  <2>1. p.call[1] = steps(c) /\ steps(c) \in Nat
    BY <1>0, <1>3, Counts DEF Orderly, Fresh
  <2>2. \A k \in DOMAIN c.pending : p.call = c.pending[k].call => k = 1
    BY <1>0, <1>3 DEF Orderly, Fresh
  <2>3. Fresh(d)
    BY DEF Orderly
  <2>4. v.call[1] <= steps(c)
    BY <1>2, <2>1
  <2>5. QED
    BY <1>0, <1>1, <1>2, <1>3, <1>4, <2>2, <2>3, <2>4 DEF Fresh
<1>9. Counted(x)
  <2>1. \A i \in News(d, x) : x.events[i].type = "tool.result"
    BY <1>1, <1>2
  <2>2. Count(x, "tool.requested") = Count(d, "tool.requested")
    BY <1>1, <2>1, CountKeeps
  <2>3. Numbered(d) /\ steps(x.checkpoint) = steps(d.checkpoint)
    BY <1>0, <1>1 DEF Orderly, Counted
  <2>4. Numbered(x)
    BY <1>1, <2>1, <2>3, NumberedKeeps
  <2>5. QED
    BY <1>0, <1>1, <1>6, <2>2, <2>4 DEF Orderly, Counted
<1>10. Settled(x)
  BY <1>0, <1>1, <1>2, <1>4 DEF Orderly, Settled
<1>11. Finished(x)
  BY <1>0, <1>1 DEF Orderly, Finished
<1>12. Awaited(x)
  <2>1. d.approvals[p.request] # "pending"
    BY <1>0 DEF Orderly, Awaited
  <2>2. \A q \in Requests : x.approvals[q] = "pending" =>
          \E k \in DOMAIN c.pending : c.pending[k].request = q
    BY <1>0 DEF Orderly, Awaited
  <2>3. QED
    BY <1>0, <1>1, <2>1, <2>2 DEF Awaited
<1>13. Announced(x)
  <2>1. Shown(x) = Shown(d) /\ \A i \in Shown(d) : x.events[i] = d.events[i]
    BY <1>1, <1>2, <1>4 DEF Shown
  <2>2. ASSUME NEW f \in d.effects
        PROVE  IF Marked(x, f) THEN Outcomes(x, f) \subseteq {"fault_timeout"}
               ELSE Outcomes(x, f) = {"newly_applied"}
    <3>1. IF Marked(d, f) THEN Outcomes(d, f) \subseteq {"fault_timeout"}
          ELSE Outcomes(d, f) = {"newly_applied"}
      BY DEF Orderly, Announced
    <3>2. CASE f.call = p.call /\ f.attempt = p.attempt
      <4>1. Marked(x, f)
        BY <1>6, <3>2 DEF Marked
      <4>2. \A j \in Answered(x, f) : j = n
        BY <1>3, <1>4, <3>2 DEF Answered, Positions
      <4>3. Outcomes(x, f) \subseteq {"fault_timeout"}
        BY <1>1, <1>2, <4>2 DEF Outcomes
      <4>4. QED
        BY <4>1, <4>3
    <3>3. CASE f.call # p.call \/ f.attempt # p.attempt
      <4>1. Answered(x, f) = Answered(d, f)
        BY <1>1, <1>2, <1>4, <3>3 DEF Answered, Positions
      <4>2. Outcomes(x, f) = Outcomes(d, f)
        BY <1>4, <4>1 DEF Outcomes, Answered, Positions
      <4>3. QED
        BY <1>5, <3>1, <4>2
    <3>4. QED
      BY <3>2, <3>3
  <2>3. Announced(d)
    BY DEF Orderly
  <2>4. x.effects = d.effects
    OBVIOUS
  <2>5. /\ IsFiniteSet(x.effects)
        /\ \A f, g \in x.effects : Key[f.request] = Key[g.request] => f = g
        /\ Cardinality(Shown(x)) = Cardinality(x.effects)
    BY <2>1, <2>3, <2>4 DEF Announced
  <2>6. \A f \in x.effects : \E i \in Shown(x) :
          /\ x.events[i].info = f.request /\ x.events[i].call = f.call
          /\ x.events[i].attempt = f.attempt
    <3>1. \A f \in d.effects : \E i \in Shown(d) :
            /\ d.events[i].info = f.request /\ d.events[i].call = f.call
            /\ d.events[i].attempt = f.attempt
      BY <2>3 DEF Announced
    <3>2. TAKE f \in x.effects
    <3>3. PICK i \in Shown(d) : /\ d.events[i].info = f.request /\ d.events[i].call = f.call
                                /\ d.events[i].attempt = f.attempt
      BY <2>4, <3>1
    <3>4. i \in Shown(x) /\ x.events[i] = d.events[i]
      BY <2>1
    <3>5. QED
      BY <3>3, <3>4
  <2>7. \A f \in x.effects : IF Marked(x, f) THEN Outcomes(x, f) \subseteq {"fault_timeout"}
                              ELSE Outcomes(x, f) = {"newly_applied"}
    BY <2>2, <2>4
  <2>8. QED
    BY <2>5, <2>6, <2>7 DEF Announced
<1>14. QED
  BY <1>0, <1>1, <1>6, <1>7, <1>8, <1>9, <1>10, <1>11, <1>12, <1>13 DEF Orderly

-----------------------------------------------------------------------------
(* The calls that hold the lease.                                          *)

Mine(e) == exec[e].pc # "idle" /\ exec[e].lease = db.attempt

Sole == MaxPerLease = 1 => \A e, f \in Executors : Mine(e) /\ Mine(f) => e = f

\* What the holder of the lease knows: its checkpoint, that an open attempt is
\* marked before it makes one, and that its result is the one in evidence.
Knows(d, x) ==
  /\ x.pc \in {"effect", "acknowledge", "checkpoint"} => x.checkpoint = d.checkpoint
  /\ MaxPerLease = 1 /\ x.pc \in {"ready", "failing"} => x.checkpoint = d.checkpoint
  /\ x.pc \in {"ready", "effect"} /\ x.checkpoint = d.checkpoint /\ Open(d) => Marked(d, First(d))
  /\ x.pc = "checkpoint" => \A r \in x.result : Found(d, Head(x.checkpoint.pending), r)

Hands == \A e \in Executors : Mine(e) => Knows(db, exec[e])

Ordered == Sound /\ Orderly(db) /\ Durable(db) /\ Sole /\ Hands

\* Rows that only operators and leases touched leave the knowledge as it is.
LEMMA KnowsQuiet ==
  ASSUME NEW d \in Databases, NEW z \in Databases, Quiet(d, z), NEW x, Knows(d, x)
  PROVE  Knows(z, x)
<1>1. Calm(d, z) /\ z.checkpoint = d.checkpoint /\ First(z) = First(d) /\ z.markers = d.markers
  BY DEF Quiet, Calm, First
<1>2. (Open(z) <=> Open(d)) /\ \A y : Marked(z, y) <=> Marked(d, y)
  BY <1>1, CalmSame DEF Open, Marked
<1>3. \A p, r : Found(d, p, r) => Found(z, p, r)
  BY <1>1, CalmSame DEF Found
<1>4. QED
  BY <1>1, <1>2, <1>3 DEF Knows

\* Whoever else holds the lease has nothing to lose by a step of the holder.
LEMMA Others ==
  ASSUME Ordered, Exclusive, NEW e \in Executors, Mine(e), NEW o \in Executors \ {e},
         NEW x \in Databases, Durable(x), x.attempt = db.attempt, Mine(o)
  PROVE  Knows(x, exec[o])
<1>1. CASE MaxPerLease = 1
  BY <1>1 DEF Ordered, Sole
<1>2. CASE AfterCommit = {} /\ MaxPerLease # 1
  <2>1. exec[o].pc \notin {"effect", "acknowledge", "checkpoint"}
    BY <1>2 DEF Ordered, Sound, Places, Place
  <2>2. ~Open(x)
    BY <1>2 DEF Durable
  <2>3. QED
    BY <1>2, <2>1, <2>2 DEF Knows
<1>3. QED
  BY <1>1, <1>2 DEF Exclusive

\* The step of one call that holds the lease.
LEMMA Handed ==
  ASSUME Ordered, Exclusive, NEW e \in Executors, Mine(e), Sound', Orderly(db'), Durable(db'),
         db'.attempt = db.attempt, NEW y, Puts(e, y), y.pc = "idle" \/ y.lease = exec[e].lease,
         Knows(db', y)
  PROVE  Ordered'
<1>1. \A o \in Executors \ {e} : exec'[o] = exec[o] /\ (Mine(o)' => Mine(o))
  BY DEF Puts, Mine
<1>2. Mine(e)' => Mine(e)
  BY DEF Puts, Mine
<1>3. Sole'
  BY <1>1, <1>2 DEF Ordered, Sole
<1>4. db' \in Databases
  BY DEF Sound, Typed
<1>5. Hands'
  <2>1. ASSUME NEW o \in Executors, Mine(o)' PROVE Knows(db', exec'[o])
    <3>1. CASE o = e
      BY <3>1 DEF Puts
    <3>2. CASE o # e
      <4>1. Mine(o) /\ exec'[o] = exec[o]
        BY <1>1, <2>1, <3>2
      <4>2. Knows(db', exec[o])
        BY <1>4, <3>2, <4>1, Others
      <4>3. QED
        BY <4>1, <4>2
    <3>3. QED
      BY <3>1, <3>2
  <2>2. QED
    BY <2>1 DEF Hands
<1>6. QED
  BY <1>3, <1>5 DEF Ordered

\* A call that writes nothing and learns nothing.
LEMMA Rested ==
  ASSUME Ordered, NEW e \in Executors, Sound', db' = db, NEW y, Puts(e, y),
         y.pc = "idle" \/ (Mine(e) => Knows(db, y)), y.pc = "idle" \/ y.lease = exec[e].lease,
         exec[e].pc # "idle"
  PROVE  Ordered'
<1>1. \A o \in Executors \ {e} : exec'[o] = exec[o] /\ (Mine(o)' <=> Mine(o))
  BY DEF Puts, Mine
<1>2. Mine(e)' => Mine(e) /\ y.pc # "idle"
  BY DEF Puts, Mine
<1>3. Sole'
  BY <1>1, <1>2 DEF Ordered, Sole
<1>4. Hands'
  BY <1>1, <1>2 DEF Ordered, Hands, Puts
<1>5. QED
  BY <1>3, <1>4 DEF Ordered

\* A step of no call.
LEMMA Surrounded ==
  ASSUME Ordered, Sound', Quiet(db, db'), exec' = exec,
         db'.status \in {"evaluating", "completed"} => db.status \in {"evaluating", "completed"},
         db.status \in TERMINAL_STATUSES => db'.status \in TERMINAL_STATUSES,
         db'.attempt = db.attempt \/ db'.attempt = db.attempt + 1
  PROVE  Ordered'
<1>1. db \in Databases /\ db' \in Databases
  BY DEF Ordered, Sound, Typed
<1>2. Orderly(db') /\ Durable(db')
  BY <1>1, QuietOrderly DEF Ordered
<1>3. \A e \in Executors : Mine(e)' => Mine(e)
  <2>1. db.attempt \in Nat /\ \A e \in Executors : exec[e].lease <= db.attempt /\ exec[e].lease \in Nat
    <3>1. db.attempt \in 0 .. MaxClaims /\ \A e \in Executors : exec[e].lease \in 0 .. MaxClaims
      BY <1>1 DEF Databases, Execs, Ordered, Sound, Typed
    <3>2. QED
      BY <3>1 DEF Ordered, Sound, Leases
  <2>2. QED
    BY <2>1 DEF Mine
<1>4. Sole'
  BY <1>3 DEF Ordered, Sole
<1>5. \A e \in Executors : Mine(e) => Knows(db', exec[e])
  BY <1>1, KnowsQuiet DEF Ordered, Hands
<1>6. QED
  BY <1>2, <1>3, <1>4, <1>5 DEF Ordered, Hands

-----------------------------------------------------------------------------
(* Every step keeps Ordered.                                               *)

\* Leases, operators and the evaluator keep Ordered.
LEMMA OrderedEnvironment ==
  ASSUME Ordered,
         \/ claim_next_run \/ lease_expires \/ requeue_expired_run \/ cancel_queued_run
         \/ resolve_approval_request \/ evaluate_leased_run
  PROVE  Ordered'
<1>1. Sound' /\ Typed /\ (db.lease = "none" <=> db.status \in TERMINAL_STATUSES \cup {"queued"})
  BY SoundEnvironment DEF Ordered, Sound, Leases
<1>2. CASE claim_next_run
  BY <1>1, <1>2, Claims, Surrounded DEF TERMINAL_STATUSES
<1>3. CASE lease_expires
  BY <1>1, <1>3, Expires, Surrounded
<1>4. CASE requeue_expired_run
  BY <1>1, <1>4, Requeues, Surrounded
<1>5. CASE resolve_approval_request
  BY <1>1, <1>5, Resolves, Surrounded
<1>6. CASE evaluate_leased_run
  BY <1>1, <1>6, Evaluates, Surrounded DEF TERMINAL_STATUSES
<1>7. CASE cancel_queued_run
  BY <1>1, <1>7, Cancels, Surrounded DEF TERMINAL_STATUSES
<1>8. QED
  BY <1>2, <1>3, <1>4, <1>5, <1>6, <1>7

\* A new call keeps Ordered: it is the only one, or no attempt can be open.
LEMMA OrderedStart ==
  ASSUME Ordered, NEW e \in Executors, start(e)
  PROVE  Ordered'
<1> DEFINE y == [Idle EXCEPT !.pc = "loading", !.lease = db.attempt]
           H == {o \in Executors : exec[o].pc # "idle" /\ exec[o].lease = db.attempt}
<1>1. Sound'
  BY SoundStart DEF Ordered
<1>2. db' = db /\ exec'[e] = y /\ \A o \in Executors \ {e} : exec'[o] = exec[o]
  BY DEF start, Ordered, Sound, Typed
<1>3. y.pc = "loading"
  BY DEF Idle
<1>4. MaxPerLease = 1 => \A o \in Executors : ~Mine(o)
  <2> SUFFICES ASSUME MaxPerLease = 1 PROVE H = {}
    BY DEF Mine
  <2>1. Cardinality(H) < 1
    BY DEF start
  <2>2. IsFiniteSet(H)
    BY Constants, FS_Subset
  <2> HIDE DEF H
  <2>3. Cardinality(H) \in Nat
    BY <2>2, FS_CardinalityType
  <2>4. Cardinality(H) = 0
    BY <2>1, <2>3
  <2>5. QED
    BY <2>2, <2>4, FS_EmptySet
<1>5. Sole'
  BY <1>2, <1>4 DEF Sole, Mine
<1>6. Knows(db, y)
  BY <1>3 DEF Knows
<1>7. Hands'
  BY <1>2, <1>6 DEF Ordered, Hands, Mine
<1>8. QED
  BY <1>1, <1>2, <1>5, <1>7 DEF Ordered

\* Where a call stands that asks nothing of the rows.
LEMMA KnowsEasy ==
  ASSUME Typed, NEW e \in Executors, NEW d
  PROVE  /\ Knows(d, Idle) /\ Knows(d, Again(e)) /\ \A target : Knows(d, Stopped(e, target))
         /\ Idle.pc = "idle" /\ Again(e).lease = exec[e].lease
         /\ \A target : Stopped(e, target).lease = exec[e].lease
BY Fields DEF Knows

\* A call that crashes, gives up or stops keeps Ordered.
LEMMA OrderedGiveUp ==
  ASSUME Ordered, NEW e \in Executors,
         crash(e) \/ give_up(e) \/ stop_at_budget(e) \/ adapter_fails(e) \/ transaction_fails(e)
  PROVE  Ordered'
<1>1. Typed /\ Sound'
  BY SoundGiveUp DEF Ordered, Sound
<1>2. exec[e].pc # "idle" /\ db' = db
  BY DEF crash, give_up, MayAsk, MayDispatch, stop_at_budget, adapter_fails, transaction_fails
<1>3. CASE crash(e) \/ give_up(e)
  <2>1. Puts(e, Idle)
    BY <1>1, <1>3, PutsIdle DEF crash, give_up
  <2>2. QED
    BY <1>1, <1>2, <2>1, KnowsEasy, Rested
<1>4. CASE stop_at_budget(e) \/ transaction_fails(e)
  <2>1. PICK target \in Targets : Stop(e, target)
    BY <1>4 DEF stop_at_budget, transaction_fails, Targets
  <2>2. PICK y : y = Stopped(e, target)
    OBVIOUS
  <2>3. Puts(e, y)
    BY <1>1, <2>1, <2>2, PutsStopped
  <2>4. Knows(db, y) /\ y.lease = exec[e].lease
    BY <1>1, <2>2, KnowsEasy
  <2>5. QED
    BY <1>1, <1>2, <2>3, <2>4, Rested
<1>5. CASE adapter_fails(e)
  <2>1. PICK target \in Targets : Fail(e, target)
    BY <1>5 DEF adapter_fails, Targets
  <2>2. PICK y : y = Failing(e, target)
    OBVIOUS
  <2>3. Puts(e, y)
    BY <1>1, <2>1, <2>2, PutsFailing
  <2>4. y.pc = "failing" /\ y.lease = exec[e].lease /\ y.checkpoint = exec[e].checkpoint
    BY <1>1, <2>2, Fields
  <2>5. exec[e].pc = "ready"
    BY <1>5 DEF adapter_fails, MayAsk
  <2>6. Mine(e) => Knows(db, y)
    BY <2>4, <2>5 DEF Ordered, Hands, Knows
  <2>7. QED
    BY <1>1, <1>2, <2>3, <2>4, <2>6, Rested
<1>6. QED
  BY <1>3, <1>4, <1>5

\* Who proved the lease is one of the calls that hold it.
LEMMA Holder ==
  ASSUME NEW e \in Executors, Holds(db, e), exec[e].pc # "idle"
  PROVE  Mine(e)
BY DEF Holds, Mine

\* The end of the Run keeps Ordered.
LEMMA OrderedTerminate ==
  ASSUME Ordered, Exclusive, NEW e \in Executors, terminate(e)
  PROVE  Ordered'
<1>1. /\ Typed /\ Calm(db, db') /\ db'.checkpoint = db.checkpoint
      /\ db'.attempt = db.attempt /\ db'.status \in Targets
      /\ Puts(e, Idle) /\ Owns(e) /\ Sound'
      /\ Quiet(db, db') \/ (exec[e].pc = "failing" /\ Fails(db, db'))
  BY Terminates, SoundTerminate DEF Ordered, Sound
<1>2. db \in Databases /\ db' \in Databases
  BY <1>1 DEF Typed, Sound
<1>3. Mine(e) /\ db.status = "running"
  BY <1>1, Holder DEF terminate, Owns
<1>4. Numbered(db) /\ db.status \notin TERMINAL_STATUSES /\ db'.status \in TERMINAL_STATUSES
  BY <1>1, <1>3 DEF Ordered, Orderly, Counted, Targets, TERMINAL_STATUSES
<1>5. Numbered(db')
  <2>1. CASE Quiet(db, db')
    BY <1>1, <1>2, <1>4, <2>1, NumberedKeeps DEF Quiet, Calm
  <2>2. CASE exec[e].pc = "failing" /\ Fails(db, db')
    <3>1. ASSUME MaxPerLease = 1 PROVE steps(db.checkpoint) < MaxSteps
      <4>1. exec[e].checkpoint = db.checkpoint
        BY <1>3, <2>2, <3>1 DEF Ordered, Hands, Knows
      <4>2. steps(exec[e].checkpoint) < MaxSteps
        BY <2>2 DEF Ordered, Sound, Places, Place
      <4>3. QED
        BY <4>1, <4>2
    <3>2. QED
      BY <1>1, <1>2, <1>4, <2>2, <3>1, NumberedFails DEF Calm
  <2>3. QED
    BY <1>1, <2>1, <2>2
<1>6. Orderly(db') /\ Durable(db')
  BY <1>1, <1>2, <1>5, CalmOrderly DEF Ordered, Targets
<1>7. Knows(db', Idle) /\ Idle.pc = "idle"
  BY <1>1, KnowsEasy
<1>8. QED
  BY <1>1, <1>3, <1>6, <1>7, Handed

\* What recovery refuses after the Run was entered it refused before.
LEMMA RecoveryQuiet ==
  ASSUME NEW d \in Databases, NEW z \in Databases, Quiet(d, z), Orderly(d), Orderly(z),
         Open(z), ~Marked(z, First(z)), First(z).request \in Mutations, Recovery(d) # "refuse"
  PROVE  Recovery(z) = "adopt"
<1>1. PICK p : p = First(d)
  OBVIOUS
<1>2. /\ First(z) = p /\ z.checkpoint = d.checkpoint /\ d.checkpoint.pending # <<>>
      /\ z.effects = d.effects /\ ~Marked(d, p) /\ p.request \in Mutations /\ ~Marked(z, p)
      /\ Calm(d, z)
  BY <1>1 DEF Quiet, Calm, First, Open, Marked
<1>3. /\ Requested(z, p) = Requested(d, p) /\ Answered(z, p) = Answered(d, p)
      /\ Requested(d, p) # {} /\ \A j \in Answered(d, p) : z.events[j] = d.events[j]
  BY <1>2, CalmSame DEF Open
<1>4. recover_committed_tool_attempt(d, p) # "refuse"
  BY <1>1, <1>2 DEF Recovery, First
<1>5. /\ Cardinality(Requested(d, p)) = 1 /\ Cardinality(Answered(d, p)) = 1
      /\ Recorded(d, p).code \in SUCCESSES =>
           \E f \in d.effects : f.request = p.request /\ f.call = p.call /\ f.attempt = p.attempt
  BY <1>3, <1>4 DEF recover_committed_tool_attempt
<1>6. Answered(d, p) # {}
  BY <1>5, FS_EmptySet
<1>7. Recorded(z, p).code = Recorded(d, p).code
  BY <1>3, <1>6 DEF Recorded
<1>8. recover_committed_tool_attempt(z, p) = "adopt"
  BY <1>2, <1>3, <1>5, <1>7 DEF recover_committed_tool_attempt, Orderly
<1>9. QED
  BY <1>2, <1>8 DEF Recovery, First

\* A load keeps Ordered: an open attempt is adopted, marked, or refused.
LEMMA OrderedLoad ==
  ASSUME Ordered, Exclusive, NEW e \in Executors, load(e)
  PROVE  Ordered'
<1>1. Typed /\ Sound' /\ Grounded(db)
  BY SoundLoad DEF Ordered, Sound
<1>2. Holds(db, e) /\ exec[e].pc = "loading" /\ Mine(e)
  BY Holder DEF load
<1>3. CASE db' = db /\ Puts(e, Idle)
  BY <1>1, <1>2, <1>3, KnowsEasy, Rested
<1>4. CASE ~(db' = db /\ Puts(e, Idle))
  <2>1. PICK z : z = Entered(db)
    OBVIOUS
  <2>2. /\ Loads(db) /\ Enters(z)
        /\ (Recovery(z) # "adopt" /\ db' = z) \/ Adopted(z)
        /\ Puts(e, Idle) \/ Puts(e, Readied(e))
    BY <1>1, <1>4, <2>1, Loaded
  <2>3. /\ z \in Databases /\ Quiet(db, z) /\ z.attempt = db.attempt /\ db \in Databases
        /\ z.status \in {"evaluating", "completed"} => db.status \in {"evaluating", "completed"}
        /\ db.status \in TERMINAL_STATUSES => z.status \in TERMINAL_STATUSES
    BY <1>1, <2>2 DEF Enters, Typed, TERMINAL_STATUSES
  <2>4. Orderly(z) /\ Durable(z)
    BY <2>3, QuietOrderly DEF Ordered
  <2>5. /\ Orderly(db') /\ Durable(db') /\ db'.attempt = db.attempt
        /\ Open(db') => Marked(db', First(db'))
    <3>1. CASE Recovery(z) # "adopt" /\ db' = z
      <4>1. ASSUME Open(z), ~Marked(z, First(z)) PROVE FALSE
        <5>1. First(z).request \in Mutations
          BY <2>4, <4>1, Constants DEF Durable
        <5>2. Recovery(db) # "refuse"
          BY <2>2 DEF Loads
        <5>3. Recovery(z) = "adopt"
          BY <2>3, <2>4, <4>1, <5>1, <5>2, RecoveryQuiet DEF Ordered
        <5>4. QED
          BY <3>1, <5>3
      <4>2. QED
        BY <2>3, <2>4, <3>1, <4>1
    <3>2. CASE Adopted(z)
      <4>1. PICK r : r = Recorded(z, Head(z.checkpoint.pending))
        OBVIOUS
      <4>2. /\ z.checkpoint.pending # <<>> /\ Found(z, First(z), r)
            /\ db' = Stored(z, z.checkpoint, r)
        BY <3>2, <4>1 DEF Adopted, First
      <4>3. db' \in Databases /\ Orderly(db') /\ ~Open(db')
        BY <2>3, <2>4, <4>2, StoreOrderly
      <4>4. r \in Results /\ z.checkpoint \in Checkpoints
        BY <2>3, <4>2, Sizes DEF Found
      <4>5. db'.attempt = z.attempt
        BY <2>3, <4>2, <4>4, Storing
      <4>6. QED
        BY <2>3, <4>3, <4>5 DEF Durable
    <3>3. QED
      BY <2>2, <3>1, <3>2
  <2>6. CASE Puts(e, Idle)
    BY <1>1, <1>2, <2>5, <2>6, KnowsEasy, Handed
  <2>7. CASE Puts(e, Readied(e))
    <3>1. PICK y : y = Readied(e)
      OBVIOUS
    <3>2. y.pc = "ready" /\ y.lease = exec[e].lease /\ y.checkpoint = db'.checkpoint
      BY <1>1, <3>1, ReadiedFields
    <3>3. Knows(db', y)
      BY <2>5, <3>2 DEF Knows
    <3>4. QED
      BY <1>1, <1>2, <2>5, <2>7, <3>1, <3>2, <3>3, Handed
  <2>8. QED
    BY <2>2, <2>6, <2>7
<1>5. QED
  BY <1>3, <1>4

\* An agent output keeps Ordered.
LEMMA OrderedPersist ==
  ASSUME Ordered, Exclusive, NEW e \in Executors, persist_agent_output(e)
  PROVE  Ordered'
<1>1. Typed /\ Views /\ Sound' /\ db \in Databases /\ db' \in Databases
  BY SoundPersist DEF Ordered, Sound, Typed
<1>2. /\ exec[e].pc = "ready" /\ Owns(e) /\ db.checkpoint.pending = <<>>
      /\ steps(db.checkpoint) < MaxSteps
  BY <1>1, Persists
<1>3. PICK a \in ATurns, ready \in BOOLEAN : Stepped(e, a, ready)
  BY <1>1, Persists
<1>4. Mine(e) /\ db.status = "running"
  BY <1>2, Holder DEF Owns
<1>5. Orderly(db') /\ ~Open(db')
  <2>1. /\ Calm(db, db') /\ Spoke(db, db')
        /\ db'.checkpoint.trajectory = Append(db.checkpoint.trajectory, a)
        /\ db'.checkpoint.pending = Asked(steps(db.checkpoint) + 1, a.calls)
    BY <1>3 DEF Stepped
  <2>2. db'.status \in {"evaluating", "completed"} =>
          /\ a.final /\ db'.checkpoint.status = "final" /\ db'.checkpoint.spent = {}
          /\ db'.checkpoint.pending = <<>>
    BY <1>3, <1>4 DEF Stepped
  <2>3. db.status \notin TERMINAL_STATUSES
    BY <1>4 DEF TERMINAL_STATUSES
  <2>4. QED
    BY <1>1, <1>2, <2>1, <2>2, <2>3, StepOrderly DEF Ordered
<1>6. Durable(db') /\ db'.attempt = db.attempt
  BY <1>3, <1>5 DEF Durable, Stepped
<1>7. PICK y : Puts(e, y) /\ y \in {Stopped(e, "timed_out"), Idle, Seen(e)}
  BY <1>3 DEF Stepped
<1>8. Knows(db', y) /\ (y.pc = "idle" \/ y.lease = exec[e].lease)
  BY <1>1, <1>2, <1>5, <1>7, KnowsEasy, SeenFields DEF Knows
<1>9. QED
  BY <1>1, <1>4, <1>5, <1>6, <1>7, <1>8, Handed

\* A validation keeps Ordered.
LEMMA OrderedValidate ==
  ASSUME Ordered, NEW e \in Executors, validate_post_commit(e)
  PROVE  Ordered'
<1>1. Typed /\ Views /\ Sound'
  BY SoundValidate DEF Ordered, Sound
<1>2. PICK y : y = Gone(e, "effect")
  OBVIOUS
<1>3. /\ exec[e].pc = "ready" /\ exec[e].checkpoint = db.checkpoint /\ db' = db /\ Puts(e, y)
  BY <1>1, <1>2, Validates
<1>4. y.pc = "effect" /\ y.lease = exec[e].lease /\ y.checkpoint = exec[e].checkpoint
  BY <1>1, <1>2, Fields
<1>5. Mine(e) => Knows(db, y)
  BY <1>3, <1>4 DEF Ordered, Hands, Knows
<1>6. QED
  BY <1>1, <1>3, <1>4, <1>5, Rested

\* A dispatch in one transaction keeps Ordered.
LEMMA OrderedDispatch ==
  ASSUME Ordered, Exclusive, NEW e \in Executors, dispatch_pending(e)
  PROVE  Ordered'
<1>1. Typed /\ Views /\ Sound' /\ db \in Databases /\ Grounded(db)
  BY SoundDispatch DEF Ordered, Sound, Typed
<1>2. /\ exec[e].pc = "ready" /\ Owns(e) /\ exec[e].checkpoint = db.checkpoint
      /\ db.checkpoint.pending # <<>> /\ tool_attempts(db.checkpoint) < MaxToolCalls
      /\ First(db).request \notin AfterCommit
      /\ (db' = db /\ Puts(e, Stopped(e, "infra_error"))) \/ Dispatched(e)
  BY <1>1, Dispatches DEF First
<1>3. Mine(e)
  BY <1>2, Holder DEF Owns
<1>4. CASE db' = db /\ Puts(e, Stopped(e, "infra_error"))
  <2>1. PICK y : y = Stopped(e, "infra_error")
    OBVIOUS
  <2>2. Knows(db, y) /\ y.lease = exec[e].lease /\ Puts(e, y)
    BY <1>1, <1>4, <2>1, KnowsEasy
  <2>3. QED
    BY <1>1, <1>2, <1>4, <2>2, Rested
<1>5. CASE Dispatched(e)
  <2>1. PICK o \in execute(db, First(db)) : \E r \in o.result :
          /\ ~Rejects(db, o) /\ Found(o.db, First(db), r)
          /\ db' = Stored(o.db, db.checkpoint, r)
          /\ Puts(e, Idle) \/ Puts(e, Again(e))
    BY <1>5 DEF Dispatched, First
  <2>2. PICK r : /\ ~Rejects(db, o) /\ Found(o.db, First(db), r)
                 /\ db' = Stored(o.db, db.checkpoint, r)
                 /\ Puts(e, Idle) \/ Puts(e, Again(e))
    BY <2>1
  <2>3. PICK x : x = o.db
    OBVIOUS
  <2>4. First(db) \in Pendings
    BY <1>1, <1>2, Heads, Sizes DEF First
  <2>5. /\ Attempted(db, First(db), x) /\ x \in Databases /\ x.checkpoint = db.checkpoint
        /\ x.attempt = db.attempt
    BY <1>1, <2>2, <2>3, <2>4, AttemptedIs, Executed DEF Frame
  <2>6. ~Open(db)
    BY <1>2 DEF Ordered, Durable
  <2>7. Orderly(x) /\ First(x) = First(db)
    BY <1>1, <1>2, <2>5, <2>6, TryOrderly DEF Ordered
  <2>8. /\ x.checkpoint.pending # <<>> /\ Found(x, First(x), r)
        /\ db' = Stored(x, x.checkpoint, r)
    BY <1>2, <2>2, <2>3, <2>5, <2>7
  <2>9. Orderly(db') /\ ~Open(db')
    BY <2>5, <2>7, <2>8, StoreOrderly
  <2>10. r \in Results /\ x.checkpoint \in Checkpoints
    BY <2>5, <2>8, Sizes DEF Found
  <2>11. db'.attempt = db.attempt /\ Durable(db')
    BY <2>5, <2>8, <2>9, <2>10, Storing DEF Durable
  <2>12. PICK y : Puts(e, y) /\ y \in {Idle, Again(e)}
    BY <2>2
  <2>13. Knows(db', y) /\ (y.pc = "idle" \/ y.lease = exec[e].lease)
    BY <1>1, <2>12, KnowsEasy
  <2>14. QED
    BY <1>1, <1>3, <2>9, <2>11, <2>12, <2>13, Handed
<1>6. QED
  BY <1>2, <1>4, <1>5

\* An effect transaction keeps Ordered.
LEMMA OrderedExecute ==
  ASSUME Ordered, Exclusive, NEW e \in Executors, execute_durable_post_commit(e)
  PROVE  Ordered'
<1>1. Typed /\ Views /\ Places /\ Sound' /\ db \in Databases /\ db' \in Databases /\ Grounded(db)
  BY SoundExecute DEF Ordered, Sound, Typed
<1>2. PICK p : p = Head(exec[e].checkpoint.pending)
  OBVIOUS
<1>3. /\ exec[e].pc = "effect" /\ Owns(e) /\ p \in Pendings
      /\ \/ /\ Marked(db, p) /\ db' = db
            /\ \/ Puts(e, Gone(e, "acknowledge"))
               \/ \E r : Found(db, p, r) /\ Puts(e, Done(e, r))
         \/ ~Marked(db, p) /\ db' = db /\ Puts(e, Stopped(e, "infra_error"))
         \/ ~Marked(db, p) /\ Effected(e)
  BY <1>1, <1>2, Executes
<1>4. Mine(e) /\ Knows(db, exec[e])
  BY <1>3, Holder DEF Owns, Ordered, Hands
<1>5. /\ exec[e].checkpoint = db.checkpoint /\ p = First(db) /\ db.checkpoint.pending # <<>>
      /\ p.request \in AfterCommit /\ tool_attempts(db.checkpoint) < MaxToolCalls
  BY <1>1, <1>2, <1>3, <1>4 DEF Knows, First, Places, Place
<1>6. \A x : x.checkpoint = db.checkpoint =>
        /\ Knows(x, Gone(e, "acknowledge"))
        /\ \A r : Found(x, p, r) => Knows(x, Done(e, r))
  BY <1>1, <1>2, <1>5, Fields DEF Knows
<1>7. CASE Marked(db, p) /\ db' = db
  <2>1. PICK y : Puts(e, y) /\ (y = Gone(e, "acknowledge") \/ \E r : Found(db, p, r) /\ y = Done(e, r))
    BY <1>3, <1>7
  <2>2. Knows(db, y) /\ y.lease = exec[e].lease
    BY <1>1, <1>6, <2>1, Fields
  <2>3. QED
    BY <1>1, <1>3, <1>7, <2>1, <2>2, Rested
<1>8. CASE db' = db /\ Puts(e, Stopped(e, "infra_error"))
  <2>1. PICK y : y = Stopped(e, "infra_error")
    OBVIOUS
  <2>2. Knows(db, y) /\ y.lease = exec[e].lease /\ Puts(e, y)
    BY <1>1, <1>8, <2>1, KnowsEasy
  <2>3. QED
    BY <1>1, <1>3, <1>8, <2>2, Rested
<1>9. CASE ~Marked(db, p) /\ Effected(e)
  <2>1. PICK o \in execute(db, p) :
          /\ ~Rejects(db, o) /\ db' = o.db
          /\ \/ Puts(e, Gone(e, "acknowledge"))
             \/ Puts(e, Stopped(e, "infra_error"))
             \/ \E r \in o.result : Found(o.db, p, r) /\ Puts(e, Done(e, r))
    BY <1>2, <1>9 DEF Effected
  <2>2. /\ Attempted(db, p, db') /\ db'.checkpoint = db.checkpoint /\ db'.attempt = db.attempt
    BY <1>1, <1>3, <2>1, AttemptedIs, Executed DEF Frame
  <2>3. ~Open(db)
    BY <1>3, <1>4, <1>5, <1>9 DEF Knows
  <2>4. Orderly(db') /\ Durable(db')
    BY <1>1, <1>5, <2>2, <2>3, TryOrderly DEF Ordered
  <2>5. PICK y : /\ Puts(e, y)
                 /\ \/ y \in {Gone(e, "acknowledge"), Stopped(e, "infra_error")}
                    \/ \E r : Found(db', p, r) /\ y = Done(e, r)
    BY <2>1
  <2>6. Knows(db', y) /\ y.lease = exec[e].lease
    <3>1. CASE y = Stopped(e, "infra_error")
      BY <1>1, <3>1, KnowsEasy
    <3>2. CASE y = Gone(e, "acknowledge")
      BY <1>1, <1>6, <2>2, <3>2, Fields
    <3>3. CASE \E r : Found(db', p, r) /\ y = Done(e, r)
      BY <1>1, <1>6, <2>2, <3>3, Fields
    <3>4. QED
      BY <2>5, <3>1, <3>2, <3>3
  <2>7. QED
    BY <1>1, <1>4, <2>2, <2>4, <2>5, <2>6, Handed
<1>10. QED
  BY <1>3, <1>7, <1>8, <1>9

\* An acknowledgement keeps Ordered.
LEMMA OrderedAcknowledge ==
  ASSUME Ordered, Exclusive, NEW e \in Executors, acknowledge_post_commit(e)
  PROVE  Ordered'
<1>1. Typed /\ Views /\ Places /\ Sound' /\ db \in Databases /\ db' \in Databases /\ Grounded(db)
  BY SoundAcknowledge DEF Ordered, Sound, Typed
<1>2. PICK p : p = Head(exec[e].checkpoint.pending)
  OBVIOUS
<1>4. /\ exec[e].pc = "acknowledge" /\ Owns(e) /\ p \in Pendings /\ Marked(db, p)
      /\ Requested(db, p) # {}
      /\ \/ Answered(db, p) # {} /\ db' = db
         \/ /\ Answered(db, p) = {} /\ Frame(db, db')
            /\ \E v \in Events : AckE(p, v) /\ db'.events = Append(db.events, v)
            /\ db'.effects = db.effects
            /\ db'.markers = db.markers /\ db'.approvals = db.approvals
      /\ \E r : Found(db', p, r) /\ Puts(e, Done(e, r))
  BY <1>1, <1>2, Acknowledges
<1>6. Mine(e) /\ Knows(db, exec[e])
  BY <1>4, Holder DEF Owns, Ordered, Hands
<1>7. /\ exec[e].checkpoint = db.checkpoint /\ p = First(db) /\ db.checkpoint.pending # <<>>
      /\ Open(db)
  BY <1>1, <1>2, <1>4, <1>6 DEF Knows, First, Places, Place, Open
<1>8. /\ Orderly(db') /\ Durable(db') /\ db'.attempt = db.attempt
      /\ db'.checkpoint = db.checkpoint
  <2>1. CASE db' = db
    BY <2>1 DEF Ordered
  <2>2. CASE db' # db
    <3>0. PICK v \in Events : AckE(p, v) /\ db'.events = Append(db.events, v)
      BY <1>4, <2>2
    <3>1. /\ Answered(db, First(db)) = {} /\ Frame(db, db')
          /\ db'.events = Append(db.events, v) /\ db'.effects = db.effects
          /\ db'.markers = db.markers /\ db'.approvals = db.approvals
      BY <1>4, <1>7, <2>2, <3>0
    <3>2. Marked(db, First(db)) /\ AckE(First(db), v)
      BY <1>4, <1>7, <3>0
    <3>3. Orderly(db') /\ Durable(db')
      BY <1>1, <1>7, <3>1, <3>2, AckOrderly DEF Ordered
    <3>4. QED
      BY <3>1, <3>3 DEF Frame
  <2>3. QED
    BY <2>1, <2>2
<1>9. PICK r : Found(db', p, r) /\ Puts(e, Done(e, r))
  BY <1>4
<1>10. PICK y : y = Done(e, r)
  OBVIOUS
<1>11. Knows(db', y) /\ y.lease = exec[e].lease
  BY <1>1, <1>2, <1>7, <1>8, <1>9, <1>10, Fields DEF Knows
<1>12. QED
  BY <1>1, <1>6, <1>8, <1>9, <1>10, <1>11, Handed

\* A checkpoint after an acknowledgement keeps Ordered.
LEMMA OrderedCheckpoint ==
  ASSUME Ordered, Exclusive, NEW e \in Executors, checkpoint_post_commit(e)
  PROVE  Ordered'
<1>1. Typed /\ Views /\ Places /\ Sound' /\ db \in Databases
  BY SoundCheckpoint DEF Ordered, Sound, Typed
<1>2. PICK r \in exec[e].result :
        /\ exec[e].pc = "checkpoint" /\ Owns(e) /\ exec[e].checkpoint = db.checkpoint
        /\ db.checkpoint.pending # <<>> /\ r \in Results /\ db' = Stored(db, db.checkpoint, r)
        /\ Puts(e, Idle) \/ Puts(e, Again(e))
  BY <1>1, StoresResult
<1>3. Mine(e) /\ Knows(db, exec[e])
  BY <1>2, Holder DEF Owns, Ordered, Hands
<1>4. Found(db, First(db), r)
  BY <1>2, <1>3 DEF Knows, First
<1>5. Orderly(db') /\ ~Open(db')
  BY <1>1, <1>2, <1>4, StoreOrderly DEF Ordered
<1>6. Durable(db') /\ db'.attempt = db.attempt
  BY <1>1, <1>2, <1>5, Storing, Sizes DEF Durable
<1>7. PICK y : Puts(e, y) /\ y \in {Idle, Again(e)}
  BY <1>2
<1>8. Knows(db', y) /\ (y.pc = "idle" \/ y.lease = exec[e].lease)
  BY <1>1, <1>7, KnowsEasy
<1>9. QED
  BY <1>1, <1>3, <1>5, <1>6, <1>7, <1>8, Handed

\* Every step keeps Ordered.
LEMMA OrderedStep ==
  ASSUME Ordered, Exclusive, [Next]_vars
  PROVE  Ordered'
<1>1. CASE UNCHANGED vars
  BY <1>1 DEF vars, Ordered, Sound, Typed, Leases, Views, Places, Sole, Hands, Mine
<1>2. CASE \/ claim_next_run \/ lease_expires \/ requeue_expired_run \/ cancel_queued_run
           \/ resolve_approval_request \/ evaluate_leased_run
  BY <1>2, OrderedEnvironment
<1>3. ASSUME NEW e \in Executors, start(e) \/ crash(e) \/ transaction_fails(e) \/ Running(e) PROVE Ordered'
  BY <1>3, OrderedStart, OrderedGiveUp, OrderedLoad, OrderedPersist, OrderedDispatch,
     OrderedValidate, OrderedExecute, OrderedAcknowledge, OrderedCheckpoint,
     OrderedTerminate DEF Running
<1>4. QED
  BY <1>1, <1>2, <1>3 DEF Next

\* An empty Run is Ordered.
LEMMA OrderedInit == Init => Ordered
<1> SUFFICES ASSUME Init PROVE Ordered
  OBVIOUS
<1>1. Sound /\ db \in Databases
  BY SoundInit DEF Sound, Typed
<1>2. /\ db.events = <<>> /\ db.effects = {} /\ db.checkpoint = NoCheckpoint
      /\ db.approvals = [q \in Requests |-> "none"] /\ db.status = "queued"
  BY DEF Init
<1>3. /\ NoCheckpoint.pending = <<>> /\ NoCheckpoint.trajectory = <<>>
  BY DEF NoCheckpoint
<1>4. \A e \in Executors : exec[e].pc = "idle"
  BY DEF Init, Idle
<1>5. ~Open(db) /\ Durable(db)
  BY <1>2, <1>3 DEF Open, Durable
<1>6. StreamValid(db) /\ Fresh(db) /\ Settled(db) /\ Finished(db) /\ Awaited(db)
  BY <1>2, <1>3, <1>5 DEF StreamValid, Fresh, Settled, Finished, Awaited
<1>7. Counted(db)
  <2>1. \A type : Count(db, type) = 0
    <3>1. \A type : {i \in DOMAIN db.events : db.events[i].type = type} = {}
      BY <1>2
    <3>2. QED
      BY <3>1, FS_EmptySet DEF Count
  <2>2. steps(db.checkpoint) = 0 /\ tool_attempts(db.checkpoint) = 0
    <3>1. /\ {i \in DOMAIN db.checkpoint.trajectory : Assistant(db.checkpoint.trajectory[i])} = {}
          /\ {i \in DOMAIN db.checkpoint.trajectory : Tool(db.checkpoint.trajectory[i])} = {}
      BY <1>2, <1>3
    <3>2. QED
      BY <3>1, FS_EmptySet DEF steps, tool_attempts
  <2>3. QED
    BY <1>2, <2>1, <2>2, <1>5, Constants DEF Counted, Numbered, Attempts
<1>8. Announced(db)
  <2>1. Shown(db) = {}
    BY <1>2 DEF Shown
  <2>2. QED
    BY <1>2, <2>1, FS_EmptySet DEF Announced
<1>9. Sole /\ Hands
  BY <1>4 DEF Sole, Hands, Mine
<1>10. QED
  BY <1>1, <1>5, <1>6, <1>7, <1>8, <1>9 DEF Ordered, Orderly

-----------------------------------------------------------------------------
(* Theorems, where the attempts of a lease are made by one call.           *)

\* Ordered holds where the attempts of a lease are made by one call.
LEMMA AlwaysOrdered ==
  ASSUME Exclusive
  PROVE  Spec => []Ordered
<1>1. Init => Ordered
  BY OrderedInit
<1>2. Ordered /\ [Next]_vars => Ordered'
  BY OrderedStep
<1>3. QED
  BY <1>1, <1>2, PTL DEF Spec

\* Crashes, reclaims and competing calls never put an attempt into evidence again.
THEOREM Once ==
  ASSUME Exclusive
  PROVE  Spec => []AttemptsOnce
<1>1. Ordered => AttemptsOnce
  BY DEF Ordered, Orderly, AttemptsOnce
<1>2. QED
  BY AlwaysOrdered, <1>1, PTL

\* A number between 1 and the limit for each of them: no more of them than that.
LEMMA Limited ==
  ASSUME NEW n \in Nat, NEW S, NEW f \in [S -> 1 .. n],
         \A i, j \in S : f[i] = f[j] => i = j
  PROVE  Cardinality(S) <= n
<1>1. IsFiniteSet(1 .. n) /\ Cardinality(1 .. n) = n
  BY FS_Interval
<1>2. f \in Injection(S, 1 .. n)
  BY DEF Injection, IsInjective
<1>3. QED
  BY <1>1, <1>2, FS_Injection

\* The budgets bound what is in evidence, over all leases: the tool attempts, the
\* completed steps and, where a lease serves one call, the failed one too.
THEOREM Budgeted ==
  ASSUME Exclusive
  PROVE  Spec => []WithinBudgets
<1>1. Ordered => WithinBudgets
  <2> SUFFICES ASSUME Ordered PROVE WithinBudgets
    OBVIOUS
  <2> DEFINE asked == {i \in DOMAIN db.events : db.events[i].type = "agent.step"}
             completed == {i \in asked : db.events[i].info = "completed"}
             number == [i \in asked |-> db.events[i].call[1]]
             count == [i \in completed |-> db.events[i].call[1]]
  <2>1. Counted(db) /\ Numbered(db) /\ db.checkpoint \in Checkpoints /\ db \in Databases
    BY Sizes DEF Ordered, Orderly, Sound, Typed, Counted
  <2>2. steps(db.checkpoint) \in Nat /\ MaxSteps \in Nat /\ steps(db.checkpoint) <= MaxSteps
    BY <2>1, Counts, Constants DEF Attempts, Numbered
  <2>3. \A i, j \in asked : db.events[i].call[1] = db.events[j].call[1] => i = j
    BY <2>1 DEF Numbered
  <2>4. \A i \in asked : StepOf(db, db.events[i])
    BY <2>1 DEF Numbered
  <2>5. Cardinality(completed) <= MaxSteps
    <3>1. \A i \in completed : db.events[i].call[1] \in 1 .. MaxSteps
      BY <2>2, <2>4 DEF StepOf
    <3>2. count \in [completed -> 1 .. MaxSteps]
      BY <3>1
    <3>3. \A i, j \in completed : count[i] = count[j] => i = j
      BY <2>3
    <3> HIDE DEF asked, completed, count
    <3>4. QED
      BY <2>2, <3>2, <3>3, Limited
  <2>6. ASSUME MaxPerLease = 1
        PROVE  Cardinality(asked) <= MaxSteps
    <3>1. \A i \in asked : db.events[i].call[1] \in 1 .. MaxSteps
      BY <2>2, <2>4, <2>6 DEF StepOf
    <3>2. number \in [asked -> 1 .. MaxSteps]
      BY <3>1
    <3>3. \A i, j \in asked : number[i] = number[j] => i = j
      BY <2>3
    <3> HIDE DEF asked, number
    <3>4. QED
      BY <2>2, <3>2, <3>3, Limited
  <2>7. Cardinality({i \in DOMAIN db.events : db.events[i].type = "tool.requested"}) <= MaxToolCalls
    BY <2>1 DEF Counted, Count
  <2>8. QED
    BY <2>5, <2>6, <2>7 DEF WithinBudgets
<1>2. QED
  BY AlwaysOrdered, <1>1, PTL

\* No step number is in evidence twice: the failed step is the next one of what
\* was stored by then, whatever the call that failed had loaded.
THEOREM OneStepEach ==
  ASSUME Exclusive
  PROVE  Spec => []StepsOnce
<1>1. Ordered => StepsOnce
  <2> SUFFICES ASSUME Ordered PROVE StepsOnce
    OBVIOUS
  <2>1. Numbered(db)
    BY DEF Ordered, Orderly, Counted
  <2>2. QED
    BY <2>1 DEF Numbered, StepsOnce
<1>2. QED
  BY AlwaysOrdered, <1>1, PTL

\* Ledger, evidence and markers agree after every transaction.
THEOREM Agree ==
  ASSUME Exclusive
  PROVE  Spec => []EffectsAnnounced
<1>1. Ordered => EffectsAnnounced
  <2> SUFFICES ASSUME Ordered PROVE EffectsAnnounced
    OBVIOUS
  <2>1. Announced(db)
    BY DEF Ordered, Orderly
  <2>2. QED
    BY <2>1 DEF Announced, EffectsAnnounced, Shown, Outcomes, Answered, Marked
<1>2. QED
  BY AlwaysOrdered, <1>1, PTL

\* An evaluated Run is one whose agent answered within its budgets, and whose
\* every request was answered.
THEOREM Evaluated ==
  ASSUME Exclusive
  PROVE  Spec => []EvaluatedWhenDone
<1>1. Ordered => EvaluatedWhenDone
  <2> SUFFICES ASSUME Ordered, db.status \in {"evaluating", "completed"}
               PROVE  LET c == db.checkpoint
                      IN /\ c.status = "final" /\ c.spent = {} /\ final_intent(c)
                         /\ \A i \in DOMAIN db.events : db.events[i].type = "tool.requested" =>
                              LET codes == {db.events[k].info : k \in {j \in DOMAIN db.events :
                                              /\ db.events[j].type = "tool.result"
                                              /\ db.events[j].call = db.events[i].call}}
                              IN codes \ WAITS # {}
    BY DEF EvaluatedWhenDone
  <2>1. /\ db.checkpoint.status = "final" /\ db.checkpoint.spent = {}
        /\ final_intent(db.checkpoint) /\ db.checkpoint.pending = <<>>
    BY DEF Ordered, Orderly, Finished
  <2>2. \A i \in DOMAIN db.events : db.events[i].type = "tool.requested" =>
          \E j \in DOMAIN db.events :
            /\ db.events[j].type = "tool.result" /\ db.events[j].call = db.events[i].call
            /\ db.events[j].info \notin WAITS
    BY <2>1 DEF Ordered, Orderly, Settled
  <2>3. QED
    BY <2>1, <2>2
<1>2. QED
  BY AlwaysOrdered, <1>1, PTL

\* A Run that has ended changes no more, but for an operator's late answer, and
\* once it has completed not even for that.
THEOREM Quieted ==
  ASSUME Exclusive
  PROVE  Spec => EndedIsQuiet
<1> DEFINE Q == db.status \in TERMINAL_STATUSES =>
       /\ db'.status = db.status /\ db'.checkpoint = db.checkpoint /\ db'.effects = db.effects
       /\ \A i \in DOMAIN db'.events \ DOMAIN db.events :
            db.status # "completed" /\ db'.events[i].type = "approval.resolved"
<1>1. Ordered /\ [Next]_vars => [Q]_vars
  <2> SUFFICES ASSUME Ordered, Next, db.status \in TERMINAL_STATUSES PROVE Q
    OBVIOUS
  <2>1. CASE db' = db
    BY <2>1
  <2>2. db.lease = "none" /\ Typed
    BY DEF Ordered, Sound, Leases
  <2>3. \A e \in Executors : ~Holds(db, e)
    BY DEF Holds, TERMINAL_STATUSES
  <2>4. CASE \/ claim_next_run \/ lease_expires \/ requeue_expired_run \/ cancel_queued_run
             \/ evaluate_leased_run
    BY <2>2, <2>4 DEF claim_next_run, lease_expires, requeue_expired_run, cancel_queued_run,
       evaluate_leased_run, TERMINAL_STATUSES
  <2>5. CASE resolve_approval_request
    <3>1. /\ Quiet(db, db') /\ db'.status = db.status
          /\ \A i \in News(db, db') : db'.events[i].type = "approval.resolved"
          /\ \E q \in Requests : db.approvals[q] = "pending"
      BY <2>2, <2>5, Resolves
    <3>2. db.status # "completed"
      BY <3>1 DEF Ordered, Orderly, Finished, Awaited
    <3>3. DOMAIN db'.events \ DOMAIN db.events \subseteq News(db, db')
      BY <2>2, <3>1, OldOrNew DEF Quiet, Calm, Typed
    <3>4. QED
      BY <3>1, <3>2, <3>3 DEF Quiet, Calm
  <2>6. ASSUME NEW e \in Executors, start(e) \/ crash(e) \/ transaction_fails(e) \/ Running(e) PROVE db' = db
    BY <2>3, <2>6 DEF start, crash, Running, load, stop_at_budget, adapter_fails,
       persist_agent_output, dispatch_pending, validate_post_commit, execute_durable_post_commit,
       acknowledge_post_commit, checkpoint_post_commit, transaction_fails, terminate, give_up,
       Current, Owns
  <2>7. QED
    BY <2>1, <2>4, <2>5, <2>6 DEF Next
<1>2. QED
  BY AlwaysOrdered, <1>1, PTL DEF Spec, EndedIsQuiet
=============================================================================
