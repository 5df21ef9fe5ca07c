------------------------------ MODULE Campaigns ------------------------------
(***************************************************************************)
(* What is frozen before Runs execute, and what is published after them:   *)
(* immutable revisions, Runs that refer to them, Campaign plans over       *)
(* queued Runs (repository.py, campaigns.py, the control plane), the fault *)
(* plan a worker binds, the evaluator that ends a Run (its service.py) and *)
(* the trials of a Campaign's statistics.                                  *)
(*                                                                         *)
(* A creation is a transaction of several statements in READ COMMITTED:    *)
(* look for the row, lock the Runs it needs, check them, insert, commit.   *)
(* An insert waits for a transaction that staged the same key.  A worker's *)
(* transactions take one row lock, and are one step when the row is free.  *)
(*                                                                         *)
(* A row that may be absent is a sequence of at most one element.  A       *)
(* digest is the content it is computed from; a compiled fault plan, and   *)
(* the engine made of it, are the fault ids selected for it.               *)
(***************************************************************************)
EXTENDS Naturals, Sequences, FiniteSets, SequencesExt

CONSTANTS
  Runs,        \* Run ids, numbers for their order
  Keys,        \* scenario ids and revisions
  Documents,   \* contents of a revision
  Catalog,     \* document -> ids of the faults it declares
  CampaignIds,
  Sessions,    \* requests served at the same time
  Requests,    \* what they may ask for
  Seeded,      \* key -> the document there from the start, Run -> the key it refers to
  Engines,     \* fault engines workers are started with
  Verdicts,    \* classifications of an evaluation
  MaxClaims,   \* Run -> bound: how often a worker claims it
  MaxOwed      \* bound: failures of the evaluator not yet recorded

\* kind "revision": key, document; "run": run, key, document (by its digest);
\* "plan": campaign, faults, runs in trial order, baseline when faults is empty.
RequestOK(q) ==
  \/ q.kind = "revision" /\ q.key \in Keys /\ q.document \in Documents
  \/ q.kind = "run" /\ q.run \in Runs /\ q.key \in Keys /\ q.document \in Documents
  \/ /\ q.kind = "plan" /\ q.campaign \in CampaignIds /\ q.runs \in Seq(Runs) /\ q.runs # <<>>
     /\ \A i, j \in DOMAIN q.runs : q.runs[i] = q.runs[j] => i = j
     /\ IsFiniteSet(q.faults)

ASSUME CampaignAssumption ==
  /\ Runs \subseteq Nat /\ IsFiniteSet(Sessions) /\ MaxClaims \in [Runs -> Nat] /\ MaxOwed \in Nat
  /\ "none" \notin Verdicts
  /\ \A q \in Requests : RequestOK(q)
  /\ Seeded.revisions \in [Keys -> {<<>>} \cup {<<d>> : d \in Documents}]
  /\ Seeded.runs \in [Runs -> {<<>>} \cup {<<k>> : k \in Keys}]
  /\ \A r \in Runs, k \in Keys : Seeded.runs[r] = <<k>> => Seeded.revisions[k] # <<>>

VARIABLES
  revisions, \* key -> its committed document
  runs,      \* Run -> its committed row
  plans,     \* Campaign -> its committed plan
  members,   \* Run -> its membership, with the row it had when it joined (since)
  tx,        \* session -> the transaction it is in, or its answer
  owed,      \* Runs an evaluator failed on, with the lease's attempt
  survey,    \* the Campaign whose trials are being read, and those read
  published  \* Campaign -> the trials its statistics were last computed from

tables == <<revisions, runs, plans, members>>
vars == <<revisions, runs, plans, members, tx, owed, survey, published>>

-----------------------------------------------------------------------------
(* Rows.                                                                   *)

ACTIVE == {"provisioning", "running", "evaluating"}

Exists(r) == runs[r] # <<>>
Row(r) == runs[r][1]
Is(r, status) == Exists(r) /\ Row(r).status = status

\* The reference a Run is created with, and nothing it has done.
Created(key, document) ==
  [status |-> "queued", attempt |-> 0, key |-> key, document |-> document,
   plan |-> <<>>, used |-> {}, verdict |-> "none"]

Update(r, row) == runs' = [runs EXCEPT ![r] = <<row>>]

Idle == [pc |-> "idle"]

Locked(s) == IF tx[s].pc \in {"lock", "check", "insert", "commit"} THEN tx[s].locked ELSE {}

\* No creation holds the lock of a Run's row.
Free(r) == \A s \in Sessions : r \notin Locked(s)

Init ==
  /\ revisions = Seeded.revisions
  /\ runs = [r \in Runs |->
       IF Seeded.runs[r] = <<>> THEN <<>>
       ELSE LET k == Seeded.runs[r][1] IN <<Created(k, Seeded.revisions[k][1])>>]
  /\ plans = [c \in CampaignIds |-> <<>>]
  /\ members = [r \in Runs |-> <<>>]
  /\ tx = [s \in Sessions |-> Idle]
  /\ owed = {}
  /\ survey = <<>>
  /\ published = [c \in CampaignIds |-> <<>>]

-----------------------------------------------------------------------------
(* Creations: insert, or compare with what is there.                       *)

Found(q) ==
  \/ q.kind = "revision" /\ revisions[q.key] # <<>>
  \/ q.kind = "run" /\ Exists(q.run)
  \/ q.kind = "plan" /\ plans[q.campaign] # <<>>

\* The row of a Campaign: its fault selection and its Runs in trial order.
CampaignPlan(q) == [faults |-> q.faults, runs |-> q.runs]

same_revision(q) == revisions[q.key] = <<q.document>>
matching_run_retry(q) == Exists(q.run) /\ Row(q.run).key = q.key /\ Row(q.run).document = q.document
same_campaign_plan(q) == plans[q.campaign] = <<CampaignPlan(q)>>

Same(q) ==
  \/ q.kind = "revision" /\ same_revision(q)
  \/ q.kind = "run" /\ matching_run_retry(q)
  \/ q.kind = "plan" /\ same_campaign_plan(q)

\* Mutant: whatever has the same identity is the same.
same_or_conflict_ByKey(q) == "stored"

\* A repeated request is answered with what is there, another one is refused.
same_or_conflict(q) == IF Same(q) THEN "stored" ELSE "conflict"

Resolves(key, document) == revisions[key] = <<document>>

\* The scenario of the first Run is the Campaign's, and declares its faults.
Selectable(q) ==
  LET first == q.runs[1]
  IN Exists(first) /\ Resolves(Row(first).key, Row(first).document)
     /\ q.faults \subseteq Catalog[Row(first).document]

\* What a creation needs before it takes a lock.
Ready(q) ==
  /\ q.kind = "run" => Resolves(q.key, q.document)
  /\ q.kind = "plan" => Selectable(q)

Step(s, pc) == tx' = [tx EXCEPT ![s].pc = pc]

\* A refused request leaves nothing to hold anyone to.
Answer(s, q, outcome) ==
  tx' = [tx EXCEPT ![s] = IF outcome = "stored" THEN [pc |-> "answered", request |-> q] ELSE Idle]

Beside == UNCHANGED <<owed, survey, published>>

\* A request begins with a look at committed rows, before any lock.
look(s) ==
  /\ tx[s].pc \in {"idle", "answered"}
  /\ \E q \in Requests :
       IF Found(q) THEN Answer(s, q, same_or_conflict(q))
       ELSE IF ~Ready(q) THEN Answer(s, q, "conflict")
       ELSE tx' = [tx EXCEPT ![s] =
              IF q.kind = "plan"
              THEN [pc |-> "lock", request |-> q, locked |-> {},
                    rows |-> {r \in ToSet(q.runs) : Exists(r)}]
              ELSE [pc |-> "insert", request |-> q, locked |-> {}]]
  /\ UNCHANGED tables /\ Beside

\* Of the rows there when the statement began.
Wanted(s) == tx[s].rows \ tx[s].locked

\* Mutant: rows are locked in the order of the trials.
NextLock_ByTrial(s) == SelectSeq(tx[s].request.runs, LAMBDA r : r \in Wanted(s))[1]

NextLock(s) == CHOOSE r \in Wanted(s) : \A o \in Wanted(s) : r <= o

\* SELECT ... ORDER BY run_id FOR UPDATE: a row after the other, in the order of
\* the ids, waiting for whoever has it.
lock(s) ==
  /\ tx[s].pc = "lock"
  /\ IF Wanted(s) = {} THEN Step(s, "check")
     ELSE /\ \A o \in Sessions \ {s} : NextLock(s) \notin Locked(o)
          /\ tx' = [tx EXCEPT ![s].locked = @ \cup {NextLock(s)}]
  /\ UNCHANGED tables /\ Beside

\* With the locks held: queued Runs of one revision, and no plan in between.
check(s) ==
  /\ tx[s].pc = "check"
  /\ LET q == tx[s].request
         planned == ToSet(q.runs)
     IN IF \/ tx[s].locked # planned
           \/ \E r \in planned : ~Is(r, "queued")
           \/ \E r \in planned : \/ Row(r).key # Row(q.runs[1]).key
                                 \/ Row(r).document # Row(q.runs[1]).document
        THEN Answer(s, q, "conflict")
        ELSE IF Found(q) THEN Answer(s, q, same_or_conflict(q))
        ELSE Step(s, "insert")
  /\ UNCHANGED tables /\ Beside

SameKey(q, p) ==
  /\ q.kind = p.kind
  /\ \/ q.kind = "revision" /\ q.key = p.key
     \/ q.kind = "run" /\ q.run = p.run
     \/ q.kind = "plan" /\ q.campaign = p.campaign

\* The sessions whose staged row an insert of s waits for.
Holders(s) ==
  {o \in Sessions \ {s} : tx[o].pc = "commit" /\ SameKey(tx[o].request, tx[s].request)}

\* A primary key of the memberships is taken.
Members(q) == q.kind = "plan" /\ \E i \in DOMAIN q.runs : members[q.runs[i]] # <<>>

\* A savepoint with plan and memberships, or the one row; a primary key violation
\* rolls it back and looks again.
insert(s) ==
  /\ tx[s].pc = "insert" /\ Holders(s) = {}
  /\ LET q == tx[s].request
     IN IF Found(q) THEN Answer(s, q, same_or_conflict(q))
        ELSE IF Members(q) THEN Answer(s, q, "conflict")
        ELSE Step(s, "commit")
  /\ UNCHANGED tables /\ Beside

\* The membership of a Run: its Campaign and trial index, a primary key each.
CampaignTrialMembership(q, r) ==
  [campaign |-> q.campaign, index |-> CHOOSE i \in DOMAIN q.runs : q.runs[i] = r,
   since |-> [status |-> Row(r).status, attempt |-> Row(r).attempt]]

insert_revision(q) ==
  /\ q.kind = "revision"
  /\ revisions' = [revisions EXCEPT ![q.key] = <<q.document>>]
  /\ UNCHANGED <<runs, plans, members>>

create_run(q) ==
  /\ q.kind = "run"
  /\ Update(q.run, Created(q.key, q.document))
  /\ UNCHANGED <<revisions, plans, members>>

\* The plan and every membership, or none of them.
create_campaign_plan(q) ==
  /\ q.kind = "plan"
  /\ plans' = [plans EXCEPT ![q.campaign] = <<CampaignPlan(q)>>]
  /\ members' = [r \in Runs |-> IF r \in ToSet(q.runs) THEN <<CampaignTrialMembership(q, r)>>
                                ELSE members[r]]
  /\ UNCHANGED <<revisions, runs>>

\* The commit shows the rows; its answer may get lost.
commit(s) ==
  /\ tx[s].pc = "commit"
  /\ LET q == tx[s].request IN insert_revision(q) \/ create_run(q) \/ create_campaign_plan(q)
  /\ Answer(s, tx[s].request, "stored") \/ tx' = [tx EXCEPT ![s] = Idle]
  /\ Beside

\* The process dies, the connection breaks or the commit fails.
rollback(s) ==
  /\ tx[s].pc \notin {"idle", "answered"}
  /\ tx' = [tx EXCEPT ![s] = Idle]
  /\ UNCHANGED tables /\ Beside

create(s) ==
  look(s) \/ lock(s) \/ check(s) \/ insert(s) \/ commit(s) \/ rollback(s)

-----------------------------------------------------------------------------
(* Workers.  Leases and their expiry are RunLifecycle's: an attempt number *)
(* stands for the lease that has it.                                       *)

Elsewhere == UNCHANGED <<revisions, plans, members, tx, survey, published>>

\* SKIP LOCKED: a Run whose row is locked is not waited for.
claim_next_run(r) ==
  /\ Is(r, "queued") /\ Free(r) /\ Row(r).attempt < MaxClaims[r]
  /\ Update(r, [Row(r) EXCEPT !.status = "provisioning", !.attempt = @ + 1])
  /\ UNCHANGED owed /\ Elsewhere

selected_fault_ids(engine) == IF engine = <<>> THEN {} ELSE engine[1]

PlanOf(r) == plans[members[r][1].campaign][1]

\* What is bound to the Run: its Campaign's plan, or else the engine's.
effective_plan(r, engine) == IF members[r] = <<>> THEN engine ELSE <<PlanOf(r).faults>>

\* Mutant: a binding is compared with an earlier one only.
fault_plan_accepted_Unplanned(r, engine) ==
  effective_plan(r, engine) = <<>> \/ Row(r).plan \in {<<>>, effective_plan(r, engine)}

\* A member runs under the selection of its Campaign only; a binding is for good.
fault_plan_accepted(r, engine) ==
  /\ members[r] # <<>> => selected_fault_ids(engine) = PlanOf(r).faults
  /\ effective_plan(r, engine) = <<>> \/ Row(r).plan \in {<<>>, effective_plan(r, engine)}

\* A load by a worker with some engine, and tool calls under it.
bind_run_fault_plan(r) ==
  /\ Exists(r) /\ Row(r).status \in {"provisioning", "running"} /\ Free(r)
  /\ \E engine \in Engines :
       /\ fault_plan_accepted(r, engine)
       /\ LET bound == effective_plan(r, engine)
          IN Update(r, [Row(r) EXCEPT !.status = "running",
                                      !.plan = IF bound = <<>> THEN @ ELSE bound,
                                      !.used = IF members[r] = <<>> THEN @
                                               ELSE @ \cup {selected_fault_ids(engine)}])
  /\ UNCHANGED owed /\ Elsewhere

transition_owned_run(r) ==
  /\ Is(r, "running") /\ Free(r)
  /\ \E status \in {"evaluating", "ended"} : Update(r, [Row(r) EXCEPT !.status = status])
  /\ UNCHANGED owed /\ Elsewhere

requeue_expired_run(r) ==
  /\ Exists(r) /\ Row(r).status \in ACTIVE /\ Free(r)
  /\ Update(r, [Row(r) EXCEPT !.status = "queued"])
  /\ UNCHANGED owed /\ Elsewhere

cancel_queued_run(r) ==
  /\ Is(r, "queued") /\ Free(r)
  /\ Update(r, [Row(r) EXCEPT !.status = "ended"])
  /\ UNCHANGED owed /\ Elsewhere

Owe(r) == Cardinality(owed) < MaxOwed /\ owed' = owed \cup {<<r, Row(r).attempt>>}

\* Evidence, verdict and completion are one transaction.  When it fails, or only
\* seems to because its answer is lost, the evaluator turns to infra_error.
execute_evaluation(r) ==
  /\ Is(r, "evaluating") /\ Free(r)
  /\ \/ /\ \E verdict \in Verdicts :
             Update(r, [Row(r) EXCEPT !.status = "completed", !.verdict = verdict])
        /\ UNCHANGED owed \/ Owe(r)
     \/ Owe(r) /\ UNCHANGED runs
  /\ Elsewhere

\* Mutant: the failure is recorded whatever became of the lease.
still_evaluating_Unfenced(r, attempt) == TRUE

still_evaluating(r, attempt) == Is(r, "evaluating") /\ Row(r).attempt = attempt

\* In a transaction of its own, under the same lease; it gives up silently.
terminalize_evaluator_failure(r) ==
  \E attempt \in 0 .. MaxClaims[r] :
    /\ <<r, attempt>> \in owed /\ Free(r)
    /\ owed' = owed \ {<<r, attempt>>}
    /\ IF still_evaluating(r, attempt) THEN Update(r, [Row(r) EXCEPT !.status = "ended"])
       ELSE UNCHANGED runs
    /\ Elsewhere

work(r) ==
  \/ claim_next_run(r)
  \/ bind_run_fault_plan(r)
  \/ transition_owned_run(r)
  \/ requeue_expired_run(r)
  \/ cancel_queued_run(r)
  \/ execute_evaluation(r)
  \/ terminalize_evaluator_failure(r)

-----------------------------------------------------------------------------
(* Statistics: the trials of a plan, each read from its own Run.           *)

campaign_cohort ==
  /\ survey = <<>>
  /\ \E c \in CampaignIds : plans[c] # <<>> /\ survey' = <<[campaign |-> c, trials |-> <<>>]>>
  /\ UNCHANGED <<tables, tx, owed, published>>

Surveyed == plans[survey[1].campaign][1]

\* A snapshot exists of completed Runs only: a verdict with its provenance.
evaluation_snapshot(r) == IF Is(r, "completed") THEN <<Row(r).verdict>> ELSE <<>>

\* A completed Run of the plan that executed the plan's faults; any other fails
\* the whole request.
authenticated_campaign_trial ==
  /\ survey # <<>> /\ Len(survey[1].trials) < Len(Surveyed.runs)
  /\ LET i == Len(survey[1].trials) + 1
         r == Surveyed.runs[i]
     IN survey' = IF /\ evaluation_snapshot(r) # <<>> /\ members[r] # <<>>
                     /\ members[r][1].campaign = survey[1].campaign /\ members[r][1].index = i
                     /\ Row(r).plan = <<Surveyed.faults>>
                  THEN <<[survey[1] EXCEPT !.trials = @ \o evaluation_snapshot(r)]>>
                  ELSE <<>>
  /\ UNCHANGED <<tables, tx, owed, published>>

aggregate_campaign ==
  /\ survey # <<>> /\ Len(survey[1].trials) = Len(Surveyed.runs)
  /\ published' = [published EXCEPT ![survey[1].campaign] = survey[1].trials]
  /\ survey' = <<>>
  /\ UNCHANGED <<tables, tx, owed>>

Next ==
  \/ \E s \in Sessions : create(s)
  \/ \E r \in Runs : work(r)
  \/ campaign_cohort \/ authenticated_campaign_trial \/ aggregate_campaign

Spec == Init /\ [][Next]_vars

-----------------------------------------------------------------------------
(* Properties.                                                             *)

TypeOK ==
  /\ \A k \in Keys : revisions[k] = <<>> \/ \E d \in Documents : revisions[k] = <<d>>
  /\ \A r \in Runs : Exists(r) =>
       /\ Row(r).status \in ACTIVE \cup {"queued", "completed", "ended"}
       /\ Row(r).attempt \in 0 .. MaxClaims[r]
       /\ Resolves(Row(r).key, Row(r).document)
       /\ Row(r).status = "completed" <=> Row(r).verdict # "none"
  /\ \A r \in Runs : members[r] # <<>> => members[r][1].campaign \in CampaignIds
  /\ \A s \in Sessions : tx[s].pc \in {"idle", "lock", "check", "insert", "commit", "answered"}
  /\ owed \subseteq Runs \X Nat

\* Who is told that something is stored finds it stored, and exactly that: of
\* two sessions that create one identity differently, one is refused, however
\* their looks, inserts, commits and lost answers interleave.
AnswersHold ==
  \A s \in Sessions : tx[s].pc = "answered" =>
    LET q == tx[s].request
    IN /\ q.kind = "revision" => revisions[q.key] = <<q.document>>
       /\ q.kind = "run" =>
            Exists(q.run) /\ Row(q.run).key = q.key /\ Row(q.run).document = q.document
       /\ q.kind = "plan" => plans[q.campaign] = <<[faults |-> q.faults, runs |-> q.runs]>>

\* The sessions s waits for.
Blockers(s) ==
  CASE tx[s].pc = "lock" /\ Wanted(s) # {} -> {o \in Sessions \ {s} : NextLock(s) \in Locked(o)}
    [] tx[s].pc = "insert" -> Holders(s)
    [] OTHER -> {}

\* Planners that lock overlapping Runs, and then wait for each other's insert,
\* never wait in a circle.
NoWaitCycle ==
  \A S \in (SUBSET Sessions) \ {{}} : \E s \in S : Blockers(s) \cap S = {}

PlanHolds(c, plan) ==
  /\ {r \in Runs : members[r] # <<>> /\ members[r][1].campaign = c} = ToSet(plan.runs)
  /\ \A i \in DOMAIN plan.runs :
       LET r == plan.runs[i]
           joined == members[r][1]
       IN /\ joined.index = i /\ joined.since.status = "queued"
          /\ Row(r).key = Row(plan.runs[1]).key /\ Row(r).document = Row(plan.runs[1]).document
          /\ Row(r).used \subseteq {plan.faults}
          /\ joined.since.attempt = 0 => Row(r).plan \in {<<>>, <<plan.faults>>}

\* A plan has exactly its Runs, each once, at its index and in no other Campaign;
\* they were queued when it was committed, although workers claim while it is
\* made; and as members they never execute under anything but the plan's
\* faults, whatever engines their attempts are given.
PlansHold == \A c \in CampaignIds : plans[c] # <<>> => PlanHolds(c, plans[c][1])

\* Published trials stay the verdicts of completed Runs bound to the plan, in
\* the plan's order: neither a late failure of the evaluator nor a lost answer
\* withdraws a verdict that statistics were computed from.
PublishedStands ==
  \A c \in CampaignIds : published[c] # <<>> =>
    LET plan == plans[c][1]
    IN /\ Len(published[c]) = Len(plan.runs)
       /\ \A i \in DOMAIN plan.runs :
            LET r == plan.runs[i]
            IN /\ Is(r, "completed") /\ Row(r).verdict = published[c][i]
               /\ Row(r).plan = <<plan.faults>>
=============================================================================
