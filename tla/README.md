# ChaosAgent: a verification development

TLA+ models of ChaosAgent (a chaos-engineering harness for tool-using agents: Python packages over
PostgreSQL, a FastAPI control plane, a React dashboard), the TLC runs that check them, and theorems
checked by TLAPS. `PROJECT.json` lists components, runs, mutants, theorems and hazards, and maps
every definition to the lines it models. Paths below are relative to the repository.

## The system

All state that matters is in PostgreSQL. Packages never commit: the caller owns the transaction,
operations flush, and a failed operation rolls back its savepoint. Almost every writer first takes
the row of its Run (`SELECT ... FOR UPDATE`, or an `UPDATE` with a compare-and-swap `WHERE`), so a
Run is the unit of serialisation. What is left to go wrong lies *between* transactions: leases that
expire, processes that die, callers that act on what they read earlier, answers that arrive late.

| Component | State | Operations | Talks to | What makes it hard, and correct |
|---|---|---|---|---|
| Run lifecycle and leases (`persistence/lifecycle.py`, `repository.py`) | `runs` row: status, version, owner, token, expiry, attempt; `run_events` | claim, heartbeat, owned transition, cancel, requeue, lock lease, append | everything | stale callers, expiry under a lock, rolled-back claims. One holder at a time; stale holders are fenced; evidence is a chain |
| Effect ledger (`repository.py`, `models.py`) | company rows, `company_effects` | refund, ticket update, verify | tool gateway | retries, key reuse, write skew. Money stays covered; a key means one request; replay reverts nothing |
| Agent runtime (`runtime.py`) | execution checkpoint; memory of a call | load, ask adapter, persist, dispatch, terminate | gateway, adapter, lifecycle | crash between any two transactions, competing calls. Every interruption can be resumed; progress only extends |
| Tool gateway (`gateway.py`) | evidence of an attempt, markers | request, gate, execute, acknowledge, recover | ledger, policies, faults, approvals | ambiguity after commit. An effect is announced once and its acknowledgement is owed until given |
| Approvals (`repository.py`, control plane) | request, resolution | create, resolve once | gateway, operators | an operator answers at any time |
| Fault engine (`faults/`) | none of its own; history is reconstructed from evidence | select, apply before / after / post commit | gateway, recovery | caps and ordinals across crashes, several matching rules. A fault is applied as often and felt as declared |
| Evaluators (`evaluators/service.py`, `engine.py`) | result events, verdict | evaluate a leased Run, end it, or end it as failed | lifecycle | lost answers, fallback after failure. A verdict that was read stands |
| Revisions (`repository.py`) | immutable documents | insert or compare | everything | competing inserts. Who is told "stored" finds it stored |
| Campaigns (`evaluators/campaigns.py`, `repository.py`) | frozen plan, memberships | create plan, bind it, read trials, statistics | Runs, workers | locks over many Runs, claims in between. A plan holds for its Runs, numbers mean what they say |
| Control plane (`services/control-plane`) | none | REST, event pages, SSE | persistence | two reads per poll; cursors |
| Dashboard (`apps/web`) | the page | hydrate, follow, reconcile, approve | control plane | answers in any order, broken connections |
| Exports, telemetry, provider adapter, catalogs, demo runner | documents | build, validate, translate | the rest | mostly pure |

The hazards of this code are listed at their lines in `PROJECT.json`, each with the properties that
would catch it or the reason why none does.

## Modules

| Module | Models | State and actions |
|---|---|---|
| `RunOwnership` | abstract: a Run waits, is held under one generation, or is done | `Grant`, `Release`, `Finish` |
| `RunLifecycle` | lease protocol | `db` is the committed rows, `staged` what the transaction with the row lock sees; one action per repository method, plus `Commit`, `Rollback`, `Tick` (PostgreSQL's clock). `leases` are the credentials handed out (also by claims that roll back), `seen` what an operator read |
| `RunLifecycleProofs` | theorems about it: fencing, versions and leases; what the evidence tells, and that it implements `RunOwnership` | |
| `EffectLedger` | the two mutation tools and the ledger | a transaction is a copy `tx[s]` of the rows; the two mutations are functions from rows to rows, called any number of times per transaction; `Verified` is the gateway's check of the effect it is handed |
| `EffectLedgerProofs` | theorems about it: one story per key, nothing is reverted, money and ledger agree | |
| `AgentRuntime` | `execute_run` with the gateway, approvals and evaluation around it | one action per transaction; `exec[e]` is what a call holds in memory: the checkpoint it loaded, a result it still has to store. `Loads` is all of `_load_state`: recovery and the checkpoint's validation against the evidence |
| `AgentRuntimeProofs` | theorems about it: approvals and progress with any competing calls; attempts, budgets, effects, evaluation and the end | |
| `AgentRecoveryProofs` | the theorem that an interrupted Run can be loaded again | |
| `EventStream` | event pages, SSE, dashboard | `stream` is the server side and the frames under way; `page` the dashboard; `calls` its unanswered requests. The two statements of `poll_events` are two steps |
| `EventStreamProofs` | theorems about it: what is shown is a prefix, who stops has the end | |
| `FaultEngine` | matcher, engine and history; the gateway, `execute_run` and recovery as far as faults can tell | `run` is the committed rows with the evidence of faults in full, `proc` the one call in flight, with or without an engine; `execute` is a function from rows to the set of outcomes of an attempt, the durable path is two actions. `plan` and `draws` are the compiled rules and what the seed's hash selects |
| `FaultEngineProofs` | theorems about it: declared faults are applied and felt as declared, their history authenticates, a crashed attempt is loaded again | |
| `Campaigns` | revisions, Runs, Campaign plans; workers that claim, bind, evaluate; readers of statistics | `tx[s]` is a creation in progress (`look`, `lock`, `check`, `insert`, `commit`), one row lock at a time; a worker's transaction is one action, when the row is free; `owed` are evaluators about to record a failure, `survey` a reader between two trials, `published` what it computed |
| `CampaignProofs` | theorems about it: answers and types; plans, published results and waiting | |
| `CampaignStatistics` | the arithmetic of statistics and comparisons | `cohorts`: the trials of two arms as they come; everything else is an operator on them |
| `CampaignStatisticsProofs` | theorems about it: the rates, their groups and the pairs are what they claim to count | |
| `MC*` | instances for TLC | |

The modules share a table and not a state space. `AgentRuntime` sees a lease as an attempt number and
a status because `RunLifecycle` shows that token, owner and version add nothing but fencing
(`EvidenceFenced`, `LeaseStateConsistency`); it sees the ledger as a set of applied requests because
`EffectLedger` shows what amounts and business rows do (`LedgerVerifies`). `EventStream` needs of the
writers only that they append under the row lock and commit or roll back. `FaultEngine` is the same
loop as `AgentRuntime` seen from the other side: one call at a time and no leases, but every fault
event, because caps, ordinals and recovery are computed from those events. `Campaigns` keeps of a Run
its status, attempt, reference, bound plan and verdict.

Definitions are named after the code's functions. Operators that begin with a function's name and end
in `_Something` under a comment "Mutant" are not part of a specification: each is a plausible
bug, and `PROJECT.json` names the property it breaks in the run.

### Abstractions worth knowing

* Digests and ids are the values they identify. A request stands for its fingerprint.
* Time: `RunLifecycle` has a clock; elsewhere a lease is live or expired, and budgets of money and
  time are the fact that an output or a tool overran them (`Overruns`).
* The adapter may answer any member of `Turns`, final or not, or fail; tools may fail by a fault, an
  absent entity, a business rule or an internal error; any transaction of a dispatch may fail and end the
  Run (`transaction_fails`). `policy.decision` and `fault.*` events are folded into the request and result
  they belong to.
* In `AgentRuntime` the workers that resume a Run are configured alike; in `FaultEngine` and
  `Campaigns` they come with or without an engine.
* In `FaultEngine` an event names its attempt by the sequence number of its request event; an activation
  id is a rule and that number. Sampling is a fixed set of draws, any subset of those a Run can ask for.
* In `Campaigns` a digest is the content it is computed from; an attempt number stands for its lease.
  The four kinds of revision are one, since their inserts differ in names only.
* A worker runs `MaxPerLease` calls with one lease: 1 in the main run, as the demo runner does; 2
  where competing calls are the question (`tests/python/test_agent_runtime_postgres.py:2557`).
* Any request of the dashboard may fail, as often as connections may break (`MaxLosses`): one of the
  hydration leaves the page with an error for good (`load_fails`), a `getRun` leaves it following
  (`getRun_fails`), one of the reconciliation unreconciled (`reconcile_fails`). A frame whose envelope
  is invalid is skipped by the client (`sse.ts:97`); the server modelled here sends none. A cursor is the
  sequence number it authenticates.

## Runs

| Run | Question | Bounds | Result |
|---|---|---|---|
| `lifecycle` | do leases exclude and fence, is evidence a chain, does the row protocol implement `RunOwnership`? | 1 Run, 2 workers, 1 operator, 3 claims, lease of 2 ticks on a clock of 3, 4 versions, 4 events; symmetry | holds, 0.98 M states |
| `ledger` | do money, ledger, tickets and evidence agree? | 2 sessions, 2 keys, 3 calls, a payment with an earlier refund, a ticket, absent entities; symmetry | holds, 84 k states |
| `runtime` | can every interruption be resumed, and do effects, evidence, ledger and checkpoint agree? | 2 calls, 2 claims, 2 steps, 3 tool attempts, a read, a refund that needs approval, two updates under one key, every mutation with an after-commit rule; symmetry | holds, 0.85 M states |
| `runtime_competing` | does the checkpoint CAS serialise two calls with one lease, is a step number recorded once even when one of them fails its step, and does each return? | as above on the ordinary path, 1 claim, fairness, no symmetry | holds, 60 k states |
| `stream` | does the client ever show a hole, stop before the end is in view, or, once loaded, miss an event for good? | 2 writers, 3 events, pages of 1, 2 losses (broken connections and failed requests), fairness, no symmetry | holds, 0.20 M states |
| `faults` | are faults applied and felt as declared, does their history authenticate, can a crashed attempt be recovered? | five plans of 2 to 4 rules (caps 1 and 2, an ordinal, sampled and sure rules, delays, two after-commit rules, one for a read), 3 requests of which one needs approval, 3 tool attempts | holds, 0.24 M states |
| `campaigns` | do answers, plans and published trials hold, and does nobody wait in a circle? | 2 sessions, 2 Runs, 2 Campaigns with overlapping and reordered Runs, 2 revisions with 2 contents, 1 claim per Run, 1 unrecorded failure; symmetry | holds, 1.6 M states, no deadlock |
| `statistics` | do pass@k, pass^k, rates, pairs and warnings agree with their definitions and each other? | every cohort of 4 trials per arm, groups of 1 to 5 | holds, 0.33 M states |
| `runtime_restart` | does a Run requeued from `evaluating` restart? | as `runtime` | **violated** |
| `runtime_durable_competing` | is an attempt recorded once, on the durable path too? | as `runtime`, 2 calls per lease | **violated** |
| `stream_status` | does a page that stopped say that the Run has ended? | 1 writer, 4 events, pages of 2, 1 loss | **violated** |
| `faults_contradiction` | does a second matching rule leave the history in order? | the plan with two failures for one call | **violated** |

Why the bounds are enough: with three claims a lease can expire, be reclaimed, and the second holder
can expire in turn, with one of the three rolled back; a clock of 3 lets a heartbeat move a deadline
and a moved deadline pass. Two steps and three attempts let a call wait for its approval, be retried,
and meet the tool limit, before or after a reclaim. Two keys and two tools give replays, conflicts and
tools that share a key. Pages smaller than the evidence make replay, polls and reconciliation take
several requests, so that commits fall between them. Two sessions are enough for a race of inserts
and for two planners that hold one Run each; a third would only queue behind them. Three tool attempts
let a rule with a cap of two meet its cap, and a call be asked, approved and asked again under a rule
for the second logical call. Four trials make groups that are full, short and left over. Deadlock is
checked in `campaigns`, where sessions could wait for each other; the other models stop at a bound or
with a finished Run.

### What the violations show

* `EvaluatingRestarts`: the final checkpoint outlives the requeue and is refused in a Run that is not
  evaluating (`runtime.py:991`), so the Run is stuck in requeue and claim, although
  `docs/persistence/RUN_LIFECYCLE_LEASES.md:121` says that the next worker restarts it.
* `AttemptsOnce` with two calls per lease on the durable path: the version is compared in another
  transaction than the effect's, so one attempt is recorded twice, which the evidence contract rejects.
* `FinalStatusShown`: a late `getRun` answer overwrites the reconciled status of a page that no longer
  follows (`app.tsx:507`, `:538`).
* `ContradictionTolerated`: a rule that is matched and, because another one wins, not applied is
  evidence the next selection refuses (`history.py:211`), so the Run ends `infra_error`, although
  `docs/faults/FAULT_APPLICATION_V0.md:33` presents exactly that evidence as normal.

### Disagreements the runs step around

* An `already_applied` result committed without a marker before its checkpoint is refused by recovery
  (`gateway.py:1824`), although `docs/faults/POST_COMMIT_AMBIGUITY_V0.md:74` promises recovery.
  `Resumable` and `Recoverable` exclude that state (`UnadoptedReplay`), as `Resumable` excludes the one of
  `runtime_restart`.
* A delay applied before a tool and an after-commit marker on the same attempt: the load allows the ids
  of request, decision and state evidence only (`runtime.py:717`) and refuses the fault events. A delay
  beside a marker also breaks the chain of causes that history asks for. `HistoryAuthentic` and
  `Recoverable` exclude it (`SharedMarker`); plan `Sharing` of `faults` reaches it.
* A compiled rule may name a read with phase `after_commit`. Dispatch picks the durable path by tool and
  phase (`runtime.py:1754`), the gateway asks for a mutation as well (`gateway.py:570`), so the read is
  executed in a session nobody commits and the Run ends `infra_error`, although
  `docs/faults/POST_COMMIT_AMBIGUITY_V0.md:4` says that reads never enter this protocol. `FaultEngine`
  models it (`execute_durable_post_commit`); plan `Misplaced` of `faults` reaches it.
* The stop after an over-cost output is a transaction of its own; when it is lost, dispatch does not look
  at the cost (`runtime.py:1742`), although `docs/runtime/AGENT_RUNTIME_V0.md:158` says that it stops
  before tools. `EvaluatedWhenDone` shows that such a Run is at least never evaluated.
* Planning asks for `queued`, not for a first attempt (`repository.py:886`): a Run that executed, expired
  and was requeued may join a Campaign, although `docs/evaluation/CAMPAIGN_STATISTICS_V0.md:9` speaks of
  assignment before outcomes can influence grouping. If it is bound to another plan it can never
  complete under the Campaign's; hence the last conjunct of `PlansHold` speaks of Runs that joined
  before their first attempt.
* The ordinal of a logical call counts the calls of all tools (`runtime.py:2023`), although
  `docs/faults/FAULT_MATCHER_V0.md:53` calls it "the per-tool logical call ordinal": a rule for the first
  call of a tool is missed when a call of another tool came before it. `AppliedAsDeclared` speaks of the
  code's ordinal; by the document's it would not hold.
* A Run that is claimed before its company state was materialised (`repository.py:1140`) can never be
  executed.

What is counted against a budget is what is in evidence. `WithinBudgets` bounds the tool attempts and the
completed steps of a Run; the failed step that ends it is within the budget too where a lease makes one call
at a time, and may be one above it where calls compete, since `_terminate` numbers it after the checkpoint
stored by then (`runtime.py:2056`). An adapter's answer that a crash or a conflict discarded leaves no
evidence, as `docs/runtime/AGENT_RUNTIME_V0.md:164` says (its line 77, one `agent.step` for each invocation, is
true of those whose output was committed or whose failure was recorded).

`runtime` uses one call per lease because of `runtime_durable_competing`; otherwise the models are
unrestricted.

### Fairness

`AgentRuntime!FairSpec` is weak fairness for each call of `execute_run` that is in flight: the code is
a loop without waits other than on the adapter (which has a deadline) and the database. It does not count on
`transaction_fails` or a crash to end a call. Nothing makes
workers claim, operators answer or leases expire. A crash may happen at any step and also ends a call.
`EventStream!FairSpec` is weak fairness for the server's polls and frames, for answers to requests, for
the browser handling what arrived, and for its reconnect timer; not for writers, and not for losses,
which are bounded. No strong fairness is used. `FaultEngine` and `Campaigns` state safety only: what
keeps them going is the loop of `AgentRuntime` and the workers nobody obliges to run.

## Proofs

`RunLifecycleProofs` proves, for all sets of Runs, workers and operators and all values of the bounds,
from `ConstantsAssumption` alone:

* `TypeCorrect` (with `LeaseColumnsAgree`, the table's constraint on the lease columns), `LeaseStateConsistent`, `StaleWorkersFenced`, `VersionsIdentifyRows` (invariants), and
  `NoLiveLeaseRevoked`, `FinishedStaysFinished` (action properties).

None of the invariants is inductive by itself. `IInv` adds three things. `RowInv` holds of the committed
and of the staged row alike: the row agrees with the credentials (`CoherentLease`), and its evidence
lies in generations (`InGeneration`: no event is under a later lease than the row's, and once the Run
has been queued again none of the earlier leases can be the row's). `StageInv` relates the two rows of
one Run: an unlocked row is the committed one, a staged return to the queue has an expired committed
lease, a finished row only gains one event, versions only grow and equal versions mean equal columns.
`SeenInv` relates an operator's snapshot to the committed row in the same way. The proof has one lemma
per operation (`ClaimKeeps` ... `RollbackKeeps`), all but five of which reduce to `StagedRow`: a row
that satisfies `RowInv` and `StageOK` can be staged. The action properties follow from
`OnlyCommitWrites` and `StageInv`.

The same module proves, from the same assumption, `EvidenceIsChain`. Its invariant `HInv` says of the committed and the staged row alike that the lifecycle evidence is a chain
that ends in the row's status and that `attempt` is the number of claims in it. Both rows are needed:
commit and rollback copy one over the other. The checked property speaks of the *last* lifecycle event
before a position, as a maximum; `HasLast` carries along that the maximum exists. The work is in the
lemmas on appending one event (`BeforeAppend`, `StateAppend`, `ChainAppend`, `ClaimsAppend`); every
operation then either moves a row with the event that says so (`MovedHistory`), adds evidence of another
kind (`OtherHistory`) or leaves the evidence alone (`SameHistory`).

It also proves `LeasesAreOwnership`: the lease protocol implements `RunOwnership`. Only
`Commit` is visible there, so the proof relates the committed and the staged row of a Run: however many
calls its transaction is made of, it moves the Run at most once between waiting, held and done (`Moved`),
and a claim is all of its transaction (`ClaimAlone`). That no generation is granted twice follows from the
evidence: a claim and its event are committed together, every lease an event was written under belongs to
that event's Run, and the holder's is among them (`Own`), so a lease no evidence names was never granted.

`EffectLedgerProofs` proves, from `LedgerAssumption`, `LedgerTypes`, `OneStoryPerKey` and
`NothingIsReverted`. The argument is about rows: each tool call takes rows that tell one story per key
(`Tells`) to rows that do, reporting what the ledger says (`Reports`), and changes a row only with an
effect that is new (`Extends`, which is transitive). A transaction is a number of calls on the committed
rows and alone with them (`Alone`, the row lock), so a commit extends the committed rows.

The same module proves `NothingOverRefunded` and `LedgerAlwaysVerifies`. Both speak of a sum over a set
of refunds, and that such a sum grows by what is added to the set is an induction over finite sets, which
the library's theorems cannot give here. It is proved without them: `MapThenSumSet` is a recursive
function over the subsets of the set, and were its value wrong for some subset it would be wrong for a
smallest one, which has an element to take away. A refund the code lets through fits in what is left of
its payment, a replayed one is found in the ledger with the arguments it was recorded with, and the only
row an old ticket update can disagree with is one a newer effect of the ledger explains.

`EventStreamProofs` proves `Types`, `ShowsPrefix` and `StopsAtTheEnd`, from `StreamAssumption`. The
server's half: the numbers of the committed rows have no hole, nor have those a transaction sees, since
the row lock lets one writer at a time draw them (`Gapless`), and the Run has ended when its rows say so. The client's half: frames under way are consecutive and start where the page or the connection will
be when they arrive (`Consecutive`), whatever connection they belong to; every page of events was cut
from committed rows at a cursor that was shown. Committed rows only grow at their end, so a prefix stays a
prefix, and what a poll saw as the end of a Run stays its end between the two statements of the poll.

`AgentRuntimeProofs` has two invariants, both from `RuntimeAssumption`.

* `Sound` holds without any other condition: types; who holds the lease (`Leases`); a call's copy of the
  checkpoint is the committed one or an older version (`Views`); where a call can be in the code
  (`Places`); and that every effect, marker and pending call goes back to a request that the policy or an
  operator let through (`Grounded`). From it follow `ApprovedFirst` and `Extends`: a competing call, a call
  that lost its lease and a recovery may do nothing else than the compare-and-swap and the locks let them.
* `Ordered` needs `Exclusive`: a lease makes one call at a time (`MaxPerLease = 1`), or no plan makes an
  effect durable before its answer (`AfterCommit = {}`). The code justifies the first for the callers it
  has, and the compare-and-swap makes up for it on the ordinary path; with neither, `AttemptsOnce` is
  false, as `runtime_durable_competing` shows. The instances of `runtime` and `runtime_competing` each
  satisfy it, for one reason each. What makes the properties inductive is `Orderly`: an attempt in evidence
  that the checkpoint does not know is the first pending call's (`Fresh`); the trajectory counts what is in
  evidence (`Counted`); everything the checkpoint took over has its result (`Settled`, `Finished`), a wait
  for an approval is one (`Awaited`), and effects, announcements, markers and results match one to one
  (`Announced`). `Hands` is what the holder of the lease *knows*: its copy is current when it acts, it has
  found the marker of an open attempt before it makes another, and the result it carries is in evidence.
  The steps in evidence are numbered without a gap, the
  failed one after all others (`Numbered`), because it is numbered by the stored checkpoint and ends the Run.
  From `Ordered` follow `Once`, `Budgeted`, `OneStepEach`, `Agree`, `Evaluated` and `Quieted`.

`AgentRecoveryProofs` proves `Resumes`, under `Exclusive` as well: the Run passes everything `_load_state`
asks, wherever it was interrupted. `Ordered` says that evidence and checkpoint do not contradict each other;
the load asks for more, namely that one can be computed from the other. So the proof carries `Accounted`
along, for as long as the Run has not ended (`Alive`): the pending calls and the status are what the trajectory leaves (`Planned`, `Meant`), every turn of the
trajectory is in evidence at the positions it names and every agent step and earlier tool event is in the
trajectory (`Logged`), an open attempt was paid for (`Affordable`), and what evidence has after the checkpoint
is of the kinds, and about the call, that the load lets pass (`Later`). One lemma per action (`AccountedLoad` ...
`AccountedCheckpoint`) shows that it stays so. Of the load itself, recovery refuses nothing but an unadopted
replay (`Recovers`), what it adopts is accounted for again (`Reconciles`), and the validations follow
(`SemanticsHold`, `EvidenceHolds`, `LaterHolds`). The two states that are excluded are those of the checked
property (`UnadoptedReplay` and the one of `runtime_restart`), and no others.

`FaultEngineProofs` proves all five invariants of `faults`, from `FaultAssumption`: `TypeCorrect`,
`FaultsApplied`, `FaultsAnswered`, `HistoriesAuthentic` and `CrashesRecovered`, for every set of requests,
every set of compiled plans, every budget and every choice of the draws. Their hypotheses are those of the
checked properties (`SharedMarker`, `Contradicted`, `UnadoptedReplay`), and no others. The invariant `IInv`
(`Inductive`) has four parts, of which three are about the committed rows alone, so that they can be carried
through the gateway's functions from rows to rows:

* `Base`: attempt by attempt, what was matched was declared for it (`Chosen`), an answer has its
  applications before it and their observations after it (`Whole`) and says what they declare (`Felt`);
  no cap is exceeded (`Caps`), no two requests are one attempt (`Apart`), an effect is the only one of its
  request (`Effected`). A cap is kept because a rule that was selected was below it and is applied once.
* `Frame`: the evidence before the checkpoint belongs to earlier attempts, that behind it to one, the pending
  call's. This is why an ordinal recomputed from the trajectory is the call's number (`Ordinal`).
* `Beyond`: that one attempt is either `Half` (its marker is `Valid`, and its rule would be selected
  first again) or `Done` (answered, with all that belongs to the answer).
* `Process`: what the call in memory still knows of it; a crash forgets it, and nothing else needs it.

Most of the proof follows one attempt from the rows it starts with (`Underway`): selection (`Selecting`),
matching, application, answer and marker each add evidence of that attempt only (`Adds`), and caps, draws and
rules of earlier attempts do not depend on it (`SelStays`). `Fate` is what an attempt can come to, `Turning`
the checkpoint, and each action then has one lemma (`DispatchStep` ... `CheckpointStep`). `AdoptsMarked`,
`AdoptsUnmarked`, `WaitsFor` and `NoRecovery` are the four cases of a load.

The theorems about `Campaigns` need `CampaignAssumption` only. `CampaignProofs` has the invariant that
the others extend (`IInv`): what is staged is not committed yet (`StagedIsNew`) and staged by one session
(`StagedOnce`), because an insert waits for who staged the same key; what was answered is there
(`Answered`), because nothing changes the reference of a committed row (`KeepsReferences`). Then

* `AnswersAreKept` follows at once; `TypesAreKept` adds what a session about to insert a Run knows of its
  revision (`Referring`).
* `PublishedIsKept`: a committed plan and the row of a completed Run are never
  written again, and a survey reads nothing else.
* `PlansAreKept`: from the check to the commit of a plan its Runs are locked
  (`Secured`), no row is locked twice (`Excluded`), and workers pass over a locked row; so plans and
  memberships appear together and lead to each other (`Joined`, `Belongs`), and every binding after that is
  compared with the plan the membership leads to (`Sound`).
* `NobodyWaitsForever`: a holder of a staged key waits for nothing, and every row a
  session has is smaller than those it still wants (`Ascending`); in a circle of lock waiters the row waited
  for   would grow at every step, but a finite set of numbers has a greatest.

`CampaignStatisticsProofs` proves `RatesAreExact` and `ComparisonsAreExact`, from `StatisticsAssumption`. The
invariant is only that a trial which arrived has a classification (`CInv`); the work is in the operators.
`math.comb` is a quotient of factorials, and that it counts subsets is an induction twice over: the recursive
function has a value because no number is the least without one (`FactorialIs`), and no smallest set has
another number of k-subsets than the quotient says (`AllCounted`, by `Pascal`). From that the closed form of
pass@k follows, since samples without a pass are those of the trials that failed (`LuckyCount`). A group is
the block of indexes with one quotient (`Blocks`), its outcome depends on nothing else (`Outcomes`), and the
four outcomes partition the complete groups (`Power`). Pairs are sets, and their balance is that of two sets
with a common part (`Balance`).

Only model-checked: liveness under fairness (`Returns`, `Follows`), which is out of the prover's reach as is
`ENABLED`. Every invariant and action property of a passing run is a theorem. No module declares a RECURSIVE
operator.

## Not modelled, and why

JSON schemas, canonical digests, catalogs and the provider's wire format are conversions of immutable
data. Telemetry decides nothing. Exports are a function of a finished Run. The critical gates of
`engine.py` are a pure function of frozen evidence: `Campaigns` takes any verdict, so that an `invalid`
one, which says that the evidence itself is inconsistent, is a matter for `CampaignStatistics` only. Of
the statistics, decimal text and Wilson intervals are functions of the modelled rates.
`store_final_report` has no caller outside the tests. The demo runner is one behaviour of
`AgentRuntime`. Migrations are history. See `PROJECT.json` for each component.

## Plan

1. Abstract specifications: an exactly-once effect per idempotency key for `AgentRuntime`, an
   append-only log with one reader for `EventStream`, each shown to be implemented by a refinement
   mapping as `RunOwnership` is.
2. The gates of `engine.py` as operators on a small set of evidence shapes, against the contract's
   definition of each classification; then a verdict in `Campaigns` is computed and not chosen.
3. The control plane's answer to a repeated approval.
4. The lock on the Run's row in `EffectLedger` as a step of its own, so that the write skew of two refunds
   is shown to be excluded by it and not by the model's transactions.
