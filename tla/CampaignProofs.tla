--------------------------- MODULE CampaignProofs ---------------------------
(***************************************************************************)
(* Theorems about Campaigns for any number of identities, contents, Runs,  *)
(* trials, sessions, workers and fault engines.  Who is told that          *)
(* something is stored finds it stored, and rows keep their types: at most *)
(* one session has staged a row of an identity, nothing of that identity   *)
(* is committed while it has, and a committed identity keeps its contents  *)
(* whatever workers do to the rest of its row.  Then: plans hold,          *)
(* published statistics stay true, and sessions never wait for each other  *)
(* in a circle.                                                            *)
(***************************************************************************)
EXTENDS Campaigns, TLAPS, FiniteSetTheorems, WellFoundedInduction

\* Functions stay functions on their sets, a transaction that is not idle is for
\* one of the requests, and a Run's row has the reference it was created with.
Shape ==
  /\ DOMAIN tx = Sessions /\ DOMAIN runs = Runs
  /\ DOMAIN revisions = Keys /\ DOMAIN plans = CampaignIds
  /\ \A s \in Sessions :
       /\ "pc" \in DOMAIN tx[s]
       /\ tx[s].pc # "idle" => "request" \in DOMAIN tx[s] /\ tx[s].request \in Requests
  /\ \A r \in Runs : Exists(r) => "key" \in DOMAIN Row(r) /\ "document" \in DOMAIN Row(r)

\* What is staged is not committed yet.
StagedIsNew == \A s \in Sessions : tx[s].pc = "commit" => ~Found(tx[s].request)

\* No two sessions have staged a row of one identity.
StagedOnce ==
  \A s, o \in Sessions :
    s # o /\ tx[s].pc = "commit" /\ tx[o].pc = "commit" => ~SameKey(tx[s].request, tx[o].request)

Answered == \A s \in Sessions : tx[s].pc = "answered" => Same(tx[s].request)

IInv == Shape /\ StagedIsNew /\ StagedOnce /\ Answered

-----------------------------------------------------------------------------
(* Requests and identities.                                                *)

\* A request is of one of three kinds, each with its identity.
LEMMA Kinds ==
  ASSUME NEW q \in Requests
  PROVE  /\ q.kind \in {"revision", "run", "plan"}
         /\ q.kind = "revision" => q.key \in Keys
         /\ q.kind = "run" => q.run \in Runs
         /\ q.kind = "plan" => q.campaign \in CampaignIds
BY CampaignAssumption DEF CampaignAssumption, RequestOK

\* Sharing an identity is mutual.
LEMMA SameKeySymmetric ==
  ASSUME NEW q \in Requests, NEW p \in Requests, SameKey(q, p)
  PROVE  SameKey(p, q)
BY Kinds DEF SameKey

\* Equal identities are found, or not, together.
LEMMA FoundBySameKey ==
  ASSUME NEW q \in Requests, NEW p \in Requests, SameKey(q, p)
  PROVE  Found(q) <=> Found(p)
BY Kinds DEF SameKey, Found, Exists

\* What is the same is there.
LEMMA SameIsFound ==
  ASSUME NEW q \in Requests, Same(q)
  PROVE  Found(q)
<1>1. \A x : <<x>> # <<>>
  OBVIOUS
<1>2. QED
  BY <1>1, Kinds DEF Same, Found, same_revision, matching_run_retry, same_campaign_plan, Exists

-----------------------------------------------------------------------------
(* Steps that leave every reference alone.                                 *)

\* No revision, plan or reference of a Run changes.
KeepsReferences ==
  /\ revisions' = revisions /\ plans' = plans /\ DOMAIN runs' = Runs
  /\ \A r \in Runs :
       /\ runs[r] = <<>> <=> runs'[r] = <<>>
       /\ runs[r] # <<>> => /\ "key" \in DOMAIN runs'[r][1] /\ "document" \in DOMAIN runs'[r][1]
                            /\ runs'[r][1].key = runs[r][1].key
                            /\ runs'[r][1].document = runs[r][1].document

\* The transactions of the other sessions stay, and that of s is for a request; it
\* stages only what is new and staged by nobody, and answers only what is there.
Moves(s) ==
  /\ DOMAIN tx' = Sessions
  /\ \A o \in Sessions : o # s => tx'[o] = tx[o]
  /\ "pc" \in DOMAIN tx'[s]
  /\ tx'[s].pc # "idle" => "request" \in DOMAIN tx'[s] /\ tx'[s].request \in Requests
  /\ tx'[s].pc = "commit" =>
       /\ ~Found(tx'[s].request)
       /\ \A o \in Sessions : o # s /\ tx[o].pc = "commit" => ~SameKey(tx[o].request, tx'[s].request)
  /\ tx'[s].pc = "answered" => Same(tx'[s].request)

\* What is found, and whether it is the same, depends on references only.
LEMMA ReferencesDecide ==
  ASSUME KeepsReferences, NEW q \in Requests
  PROVE  (Found(q)' <=> Found(q)) /\ (Same(q)' <=> Same(q))
<1>1. Found(q)' <=> Found(q)
  BY Kinds DEF KeepsReferences, Found, Exists
<1>2. q.kind = "run" => (matching_run_retry(q)' <=> matching_run_retry(q))
  BY Kinds DEF KeepsReferences, matching_run_retry, Exists, Row
<1>3. QED
  BY <1>1, <1>2 DEF KeepsReferences, Same, same_revision, same_campaign_plan, CampaignPlan

\* Tables that do not change keep their references.
LEMMA UnchangedKeeps ==
  ASSUME Shape, UNCHANGED <<revisions, runs, plans>>
  PROVE  KeepsReferences
BY DEF Shape, KeepsReferences, Exists, Row

\* A worker's step writes over other columns of the row.
LEMMA UpdateKeeps ==
  ASSUME Shape, NEW r \in Runs, Exists(r), UNCHANGED <<revisions, plans>>, NEW row, Update(r, row),
         "key" \in DOMAIN row, "document" \in DOMAIN row,
         row.key = Row(r).key, row.document = Row(r).document
  PROVE  KeepsReferences
<1>1. /\ DOMAIN runs' = Runs /\ runs'[r] = <<row>>
      /\ \A o \in Runs : o # r => runs'[o] = runs[o]
  BY DEF Shape, Update
<1>2. <<row>>[1] = row /\ <<row>> # <<>>
  OBVIOUS
<1>3. QED
  BY <1>1, <1>2 DEF Shape, KeepsReferences, Exists, Row

\* Workers claim, bind, evaluate and requeue: no reference changes (work).
LEMMA WorkKeeps ==
  ASSUME Shape, NEW r \in Runs, work(r)
  PROVE  KeepsReferences /\ UNCHANGED tx
<1>1. UNCHANGED <<revisions, plans, tx>>
  BY DEF work, claim_next_run, bind_run_fault_plan, transition_owned_run, requeue_expired_run,
         cancel_queued_run, execute_evaluation, terminalize_evaluator_failure, Elsewhere
<1>2. CASE UNCHANGED runs
  BY <1>1, <1>2, UnchangedKeeps
<1>3. CASE ~UNCHANGED runs
  <2>1. Exists(r) /\ "key" \in DOMAIN Row(r) /\ "document" \in DOMAIN Row(r)
    BY <1>3 DEF Shape, work, claim_next_run, bind_run_fault_plan, transition_owned_run,
         requeue_expired_run, cancel_queued_run, execute_evaluation, terminalize_evaluator_failure,
         still_evaluating, Is
  <2>2. \E row : /\ Update(r, row) /\ "key" \in DOMAIN row /\ "document" \in DOMAIN row
                 /\ row.key = Row(r).key /\ row.document = Row(r).document
    <3>1. CASE claim_next_run(r)
      <4> DEFINE row == [Row(r) EXCEPT !.status = "provisioning", !.attempt = @ + 1]
      <4>1. Update(r, row)
        BY <3>1 DEF claim_next_run
      <4>2. /\ "key" \in DOMAIN row /\ "document" \in DOMAIN row
            /\ row.key = Row(r).key /\ row.document = Row(r).document
        BY <2>1
      <4> HIDE DEF row
      <4>3. QED
        BY <4>1, <4>2
    <3>2. CASE bind_run_fault_plan(r)
      <4>1. PICK engine \in Engines :
              LET bound == effective_plan(r, engine)
              IN Update(r, [Row(r) EXCEPT !.status = "running",
                                          !.plan = IF bound = <<>> THEN @ ELSE bound,
                                          !.used = IF members[r] = <<>> THEN @
                                                   ELSE @ \cup {selected_fault_ids(engine)}])
        BY <3>2 DEF bind_run_fault_plan
      <4> DEFINE bound == effective_plan(r, engine)
                 row == [Row(r) EXCEPT !.status = "running",
                                       !.plan = IF bound = <<>> THEN @ ELSE bound,
                                       !.used = IF members[r] = <<>> THEN @
                                                ELSE @ \cup {selected_fault_ids(engine)}]
      <4>2. Update(r, row)
        BY <4>1
      <4>3. /\ "key" \in DOMAIN row /\ "document" \in DOMAIN row
            /\ row.key = Row(r).key /\ row.document = Row(r).document
        BY <2>1
      <4> HIDE DEF row
      <4>4. QED
        BY <4>2, <4>3
    <3>3. CASE transition_owned_run(r)
      BY <2>1, <3>3 DEF transition_owned_run
    <3>4. CASE requeue_expired_run(r)
      BY <2>1, <3>4 DEF requeue_expired_run
    <3>5. CASE cancel_queued_run(r)
      BY <2>1, <3>5 DEF cancel_queued_run
    <3>6. CASE execute_evaluation(r)
      <4>1. PICK verdict \in Verdicts :
              Update(r, [Row(r) EXCEPT !.status = "completed", !.verdict = verdict])
        BY <1>3, <3>6 DEF execute_evaluation
      <4> DEFINE row == [Row(r) EXCEPT !.status = "completed", !.verdict = verdict]
      <4>2. Update(r, row)
        BY <4>1
      <4>3. /\ "key" \in DOMAIN row /\ "document" \in DOMAIN row
            /\ row.key = Row(r).key /\ row.document = Row(r).document
        BY <2>1
      <4> HIDE DEF row
      <4>4. QED
        BY <4>2, <4>3
    <3>7. CASE terminalize_evaluator_failure(r)
      BY <1>3, <2>1, <3>7 DEF terminalize_evaluator_failure
    <3>8. QED
      BY <3>1, <3>2, <3>3, <3>4, <3>5, <3>6, <3>7 DEF work
  <2>3. QED
    BY <1>1, <2>1, <2>2, UpdateKeeps
<1>4. QED
  BY <1>1, <1>2, <1>3

\* Every step but a commit stages and answers only what it may.
LEMMA MovesKeep ==
  ASSUME IInv, NEW s \in Sessions, Moves(s), KeepsReferences
  PROVE  IInv'
<1>1. Shape'
  BY DEF IInv, Shape, Moves, KeepsReferences, Exists, Row
<1>2. StagedIsNew'
  <2>1. SUFFICES ASSUME NEW o \in Sessions, NEW q \in Requests, tx'[o].pc = "commit", tx'[o].request = q
                 PROVE  ~Found(q)'
    BY <1>1 DEF Shape, StagedIsNew
  <2>2. ~Found(q)
    BY <2>1 DEF IInv, StagedIsNew, Moves
  <2>3. QED
    BY <2>2, ReferencesDecide
<1>3. StagedOnce'
  <2>1. SUFFICES ASSUME NEW o \in Sessions, NEW p \in Sessions, o # p,
                        tx'[o].pc = "commit", tx'[p].pc = "commit",
                        SameKey(tx'[o].request, tx'[p].request)
                 PROVE  FALSE
    BY DEF StagedOnce, SameKey
  <2>2. SameKey(tx'[p].request, tx'[o].request)
    BY <1>1, <2>1, SameKeySymmetric DEF Shape
  <2>3. QED
    BY <2>1, <2>2 DEF IInv, StagedOnce, Moves
<1>4. Answered'
  <2>1. SUFFICES ASSUME NEW o \in Sessions, NEW q \in Requests, tx'[o].pc = "answered", tx'[o].request = q
                 PROVE  Same(q)'
    BY <1>1 DEF Shape, Answered
  <2>2. Same(q)
    BY <2>1 DEF IInv, Answered, Moves
  <2>3. QED
    BY <2>2, ReferencesDecide
<1>5. QED
  BY <1>1, <1>2, <1>3, <1>4 DEF IInv

-----------------------------------------------------------------------------
(* The steps of a session.                                                 *)

\* An answer frees the session, or is one it can be held to.
LEMMA AnswerMoves ==
  ASSUME Shape, NEW s \in Sessions, NEW q \in Requests, NEW outcome, Answer(s, q, outcome),
         outcome = "stored" => Same(q)
  PROVE  Moves(s)
<1>1. /\ DOMAIN tx' = Sessions /\ \A o \in Sessions : o # s => tx'[o] = tx[o]
      /\ tx'[s] = IF outcome = "stored" THEN [pc |-> "answered", request |-> q] ELSE Idle
  BY DEF Shape, Answer
<1>2. CASE outcome = "stored"
  BY <1>1, <1>2 DEF Moves
<1>3. CASE outcome # "stored"
  BY <1>1, <1>3 DEF Moves, Idle
<1>4. QED
  BY <1>2, <1>3

\* A comparison tells "stored" only of what is the same (same_or_conflict).
LEMMA CompareMoves ==
  ASSUME Shape, NEW s \in Sessions, NEW q \in Requests, Answer(s, q, same_or_conflict(q))
  PROVE  Moves(s)
<1>1. same_or_conflict(q) = "stored" => Same(q)
  BY DEF same_or_conflict
<1>2. QED
  BY <1>1, AnswerMoves

\* A refusal binds nobody.
LEMMA RefuseMoves ==
  ASSUME Shape, NEW s \in Sessions, NEW q \in Requests, Answer(s, q, "conflict")
  PROVE  Moves(s)
<1>1. "conflict" # "stored"
  OBVIOUS
<1>2. QED
  BY <1>1, AnswerMoves

\* On the way, a session is neither staging nor answered.
LEMMA StepMoves ==
  ASSUME Shape, NEW s \in Sessions, NEW pc \in {"lock", "check", "insert"}, Step(s, pc),
         tx[s].pc # "idle"
  PROVE  Moves(s)
BY DEF Shape, Step, Moves

\* The look before any lock answers, or starts a transaction (look).
LEMMA LookMoves ==
  ASSUME Shape, NEW s \in Sessions, look(s)
  PROVE  Moves(s)
<1>1. PICK q \in Requests :
        IF Found(q) THEN Answer(s, q, same_or_conflict(q))
        ELSE IF ~Ready(q) THEN Answer(s, q, "conflict")
        ELSE tx' = [tx EXCEPT ![s] =
               IF q.kind = "plan"
               THEN [pc |-> "lock", request |-> q, locked |-> {},
                     rows |-> {r \in ToSet(q.runs) : Exists(r)}]
               ELSE [pc |-> "insert", request |-> q, locked |-> {}]]
  BY DEF look
<1>2. CASE Found(q)
  BY <1>1, <1>2, CompareMoves
<1>3. CASE ~Found(q) /\ ~Ready(q)
  BY <1>1, <1>3, RefuseMoves
<1>4. CASE ~Found(q) /\ Ready(q) /\ q.kind = "plan"
  <2> DEFINE row == [pc |-> "lock", request |-> q, locked |-> {},
                     rows |-> {r \in ToSet(q.runs) : Exists(r)}]
  <2>1. tx' = [tx EXCEPT ![s] = row]
    BY <1>1, <1>4
  <2>2. row.pc = "lock" /\ row.request = q /\ "pc" \in DOMAIN row /\ "request" \in DOMAIN row
    OBVIOUS
  <2> HIDE DEF row
  <2>3. QED
    BY <2>1, <2>2 DEF Shape, Moves
<1>5. CASE ~Found(q) /\ Ready(q) /\ q.kind # "plan"
  <2> DEFINE row == [pc |-> "insert", request |-> q, locked |-> {}]
  <2>1. tx' = [tx EXCEPT ![s] = row]
    BY <1>1, <1>5
  <2>2. row.pc = "insert" /\ row.request = q /\ "pc" \in DOMAIN row /\ "request" \in DOMAIN row
    OBVIOUS
  <2> HIDE DEF row
  <2>3. QED
    BY <2>1, <2>2 DEF Shape, Moves
<1>6. QED
  BY <1>2, <1>3, <1>4, <1>5

\* One more row lock, or all of them (lock).
LEMMA LockMoves ==
  ASSUME Shape, NEW s \in Sessions, lock(s)
  PROVE  Moves(s)
<1>1. CASE Wanted(s) = {}
  <2>1. Step(s, "check") /\ tx[s].pc # "idle"
    BY <1>1 DEF lock
  <2>2. QED
    BY <2>1, StepMoves
<1>2. CASE Wanted(s) # {}
  <2>1. tx' = [tx EXCEPT ![s].locked = @ \cup {NextLock(s)}] /\ tx[s].pc = "lock"
    BY <1>2 DEF lock
  <2>2. QED
    BY <2>1 DEF Shape, Moves
<1>3. QED
  BY <1>1, <1>2

\* The checks under the locks answer, refuse or go on (check).
LEMMA CheckMoves ==
  ASSUME Shape, NEW s \in Sessions, check(s)
  PROVE  Moves(s)
<1> DEFINE q == tx[s].request
<1>1. q \in Requests /\ tx[s].pc = "check"
  BY DEF Shape, check
<1>2. \/ Answer(s, q, "conflict")
      \/ Answer(s, q, same_or_conflict(q))
      \/ Step(s, "insert")
  BY DEF check
<1> HIDE DEF q
<1>3. QED
  BY <1>1, <1>2, CompareMoves, RefuseMoves, StepMoves

\* Only an insert stages: what nobody has committed, and nobody else staged.
LEMMA InsertMoves ==
  ASSUME Shape, NEW s \in Sessions, insert(s)
  PROVE  Moves(s)
<1> DEFINE q == tx[s].request
<1>1. /\ q \in Requests /\ tx[s].pc = "insert"
      /\ \A o \in Sessions : o # s /\ tx[o].pc = "commit" => ~SameKey(tx[o].request, q)
  BY DEF Shape, insert, Holders
<1>2. \/ Answer(s, q, "conflict")
      \/ Answer(s, q, same_or_conflict(q))
      \/ Step(s, "commit") /\ ~Found(q)
  BY DEF insert
<1>3. CASE Step(s, "commit") /\ ~Found(q)
  <2>1. /\ DOMAIN tx' = Sessions /\ \A o \in Sessions : o # s => tx'[o] = tx[o]
        /\ tx'[s].pc = "commit" /\ tx'[s].request = q
        /\ "pc" \in DOMAIN tx'[s] /\ "request" \in DOMAIN tx'[s]
    BY <1>1, <1>3 DEF Shape, Step
  <2> HIDE DEF q
  <2>2. QED
    BY <1>1, <1>3, <2>1 DEF Moves
<1> HIDE DEF q
<1>4. QED
  BY <1>1, <1>2, <1>3, CompareMoves, RefuseMoves

\* A transaction that ends without a commit leaves nothing (rollback).
LEMMA RollbackMoves ==
  ASSUME Shape, NEW s \in Sessions, rollback(s)
  PROVE  Moves(s)
<1>1. /\ DOMAIN tx' = Sessions /\ \A o \in Sessions : o # s => tx'[o] = tx[o]
      /\ tx'[s] = Idle
  BY DEF Shape, rollback
<1>2. QED
  BY <1>1 DEF Moves, Idle

-----------------------------------------------------------------------------
(* The commit, the one step that shows what was staged.                    *)

\* The row of q appears, and what is stored for another identity stays.
Shows(q) ==
  /\ Same(q)'
  /\ \A p \in Requests : /\ Same(p) => Same(p)'
                         /\ Found(p)' => Found(p) \/ SameKey(q, p)

\* The sets the rows are kept for, and the reference each Run's row carries.
Tables ==
  /\ DOMAIN runs = Runs /\ DOMAIN revisions = Keys /\ DOMAIN plans = CampaignIds
  /\ \A r \in Runs : Exists(r) => "key" \in DOMAIN Row(r) /\ "document" \in DOMAIN Row(r)

\* A new revision (insert_revision).
LEMMA RevisionShows ==
  ASSUME Tables, NEW q \in Requests, insert_revision(q), ~Found(q)
  PROVE  Shows(q) /\ Tables'
<1>1. /\ q.kind = "revision" /\ q.key \in Keys /\ revisions[q.key] = <<>>
      /\ revisions' = [revisions EXCEPT ![q.key] = <<q.document>>] /\ UNCHANGED <<runs, plans>>
  BY Kinds DEF insert_revision, Found
<1>2. \A x : <<x>> # <<>>
  OBVIOUS
<1>3. Tables'
  BY <1>1 DEF Tables, Exists, Row
<1>4. Same(q)'
  BY <1>1 DEF Tables, Same, same_revision
<1>5. ASSUME NEW p \in Requests
      PROVE  (Same(p) => Same(p)') /\ (Found(p)' => Found(p) \/ SameKey(q, p))
  <2>1. CASE p.kind = "revision"
    BY <1>1, <1>2, <2>1, Kinds DEF Tables, Same, same_revision, Found, SameKey
  <2>2. CASE p.kind = "run"
    BY <1>1, <2>2 DEF Same, matching_run_retry, Found, Exists, Row
  <2>3. CASE p.kind = "plan"
    BY <1>1, <2>3 DEF Same, same_campaign_plan, CampaignPlan, Found
  <2>4. QED
    BY <2>1, <2>2, <2>3, Kinds
<1>6. QED
  BY <1>3, <1>4, <1>5 DEF Shows

\* A new Run (create_run).
LEMMA RunShows ==
  ASSUME Tables, NEW q \in Requests, create_run(q), ~Found(q)
  PROVE  Shows(q) /\ Tables'
<1> DEFINE row == Created(q.key, q.document)
<1>1. /\ q.kind = "run" /\ q.run \in Runs /\ runs[q.run] = <<>>
      /\ runs' = [runs EXCEPT ![q.run] = <<row>>] /\ UNCHANGED <<revisions, plans>>
  BY Kinds DEF create_run, Found, Exists, Update
<1>2. /\ "key" \in DOMAIN row /\ "document" \in DOMAIN row
      /\ row.key = q.key /\ row.document = q.document
  BY DEF Created
<1> HIDE DEF row
<1>3. \A x : <<x>> # <<>> /\ <<x>>[1] = x
  OBVIOUS
<1>4. Tables'
  BY <1>1, <1>2, <1>3 DEF Tables, Exists, Row
<1>5. Same(q)'
  BY <1>1, <1>2, <1>3 DEF Tables, Same, matching_run_retry, Exists, Row
<1>6. ASSUME NEW p \in Requests
      PROVE  (Same(p) => Same(p)') /\ (Found(p)' => Found(p) \/ SameKey(q, p))
  <2>1. CASE p.kind = "revision"
    BY <1>1, <2>1 DEF Same, same_revision, Found
  <2>2. CASE p.kind = "run"
    BY <1>1, <1>3, <2>2, Kinds DEF Tables, Same, matching_run_retry, Found, SameKey, Exists, Row
  <2>3. CASE p.kind = "plan"
    BY <1>1, <2>3 DEF Same, same_campaign_plan, CampaignPlan, Found
  <2>4. QED
    BY <2>1, <2>2, <2>3, Kinds
<1>7. QED
  BY <1>4, <1>5, <1>6 DEF Shows

\* A new Campaign (create_campaign_plan).
LEMMA PlanShows ==
  ASSUME Tables, NEW q \in Requests, create_campaign_plan(q), ~Found(q)
  PROVE  Shows(q) /\ Tables'
<1>1. /\ q.kind = "plan" /\ q.campaign \in CampaignIds /\ plans[q.campaign] = <<>>
      /\ plans' = [plans EXCEPT ![q.campaign] = <<CampaignPlan(q)>>] /\ UNCHANGED <<revisions, runs>>
  BY Kinds DEF create_campaign_plan, Found
<1>2. \A x : <<x>> # <<>>
  OBVIOUS
<1>3. Tables'
  BY <1>1 DEF Tables, Exists, Row
<1>4. Same(q)'
  BY <1>1 DEF Tables, Same, same_campaign_plan, CampaignPlan
<1>5. ASSUME NEW p \in Requests
      PROVE  (Same(p) => Same(p)') /\ (Found(p)' => Found(p) \/ SameKey(q, p))
  <2>1. CASE p.kind = "revision"
    BY <1>1, <2>1 DEF Same, same_revision, Found
  <2>2. CASE p.kind = "run"
    BY <1>1, <2>2 DEF Same, matching_run_retry, Found, Exists, Row
  <2>3. CASE p.kind = "plan"
    BY <1>1, <1>2, <2>3, Kinds DEF Tables, Same, same_campaign_plan, CampaignPlan, Found, SameKey
  <2>4. QED
    BY <2>1, <2>2, <2>3, Kinds
<1>6. QED
  BY <1>3, <1>4, <1>5 DEF Shows

\* A commit, with its answer or without it (commit).
LEMMA CommitKeeps ==
  ASSUME IInv, NEW s \in Sessions, commit(s)
  PROVE  IInv'
<1>1. PICK q \in Requests : q = tx[s].request /\ tx[s].pc = "commit"
  BY DEF IInv, Shape, commit
<1>2. ~Found(q)
  BY <1>1 DEF IInv, StagedIsNew
<1>3. Tables
  BY DEF IInv, Shape, Tables
<1>4. insert_revision(q) \/ create_run(q) \/ create_campaign_plan(q)
  BY <1>1 DEF commit
<1>5. Shows(q) /\ Tables'
  BY <1>2, <1>3, <1>4, RevisionShows, RunShows, PlanShows
<1>6. Answer(s, q, "stored") \/ tx' = [tx EXCEPT ![s] = Idle]
  BY <1>1 DEF commit
<1>7. /\ DOMAIN tx' = Sessions /\ \A o \in Sessions : o # s => tx'[o] = tx[o]
      /\ tx'[s] = [pc |-> "answered", request |-> q] \/ tx'[s] = Idle
  BY <1>6 DEF IInv, Shape, Answer
<1>8. /\ "pc" \in DOMAIN tx'[s] /\ tx'[s].pc \in {"answered", "idle"}
      /\ tx'[s].pc # "idle" => "request" \in DOMAIN tx'[s] /\ tx'[s].request = q
  <2>1. CASE tx'[s] = Idle
    BY <2>1 DEF Idle
  <2>2. CASE tx'[s] = [pc |-> "answered", request |-> q]
    BY <2>2
  <2>3. QED
    BY <1>7, <2>1, <2>2
<1>9. Shape'
  <2>1. ASSUME NEW o \in Sessions
        PROVE  /\ "pc" \in DOMAIN tx'[o]
               /\ tx'[o].pc # "idle" => "request" \in DOMAIN tx'[o] /\ tx'[o].request \in Requests
    BY <1>7, <1>8 DEF IInv, Shape
  <2>2. QED
    BY <1>5, <1>7, <2>1 DEF Shape, Tables
<1>10. StagedIsNew'
  <2>1. SUFFICES ASSUME NEW o \in Sessions, NEW p \in Requests, tx'[o].pc = "commit", tx'[o].request = p
                 PROVE  ~Found(p)'
    BY <1>9 DEF Shape, StagedIsNew
  <2>2. o # s /\ tx[o].pc = "commit" /\ tx[o].request = p
    BY <1>7, <1>8, <2>1
  <2>3. ~Found(p) /\ ~SameKey(q, p)
    BY <1>1, <2>2 DEF IInv, StagedIsNew, StagedOnce
  <2>4. QED
    BY <1>5, <2>3 DEF Shows
<1>11. StagedOnce'
  <2>1. SUFFICES ASSUME NEW o \in Sessions, NEW p \in Sessions, o # p,
                        tx'[o].pc = "commit", tx'[p].pc = "commit"
                 PROVE  ~SameKey(tx'[o].request, tx'[p].request)
    BY DEF StagedOnce, SameKey
  <2>2. tx'[o] = tx[o] /\ tx'[p] = tx[p]
    BY <1>7, <1>8, <2>1
  <2>3. QED
    BY <2>1, <2>2 DEF IInv, StagedOnce
<1>12. Answered'
  <2>1. SUFFICES ASSUME NEW o \in Sessions, NEW p \in Requests, tx'[o].pc = "answered", tx'[o].request = p
                 PROVE  Same(p)'
    BY <1>9 DEF Shape, Answered
  <2>2. CASE o = s
    BY <1>5, <1>8, <2>1, <2>2 DEF Shows
  <2>3. CASE o # s
    <3>1. Same(p)
      BY <1>7, <2>1, <2>3 DEF IInv, Answered
    <3>2. QED
      BY <1>5, <3>1 DEF Shows
  <2>4. QED
    BY <2>2, <2>3
<1>13. QED
  BY <1>9, <1>10, <1>11, <1>12 DEF IInv

-----------------------------------------------------------------------------
(* The invariant, and what it is for.                                      *)

\* No session has asked for anything.
LEMMA InitHolds == Init => IInv
<1> SUFFICES ASSUME Init PROVE IInv
  OBVIOUS
<1>1. DOMAIN tx = Sessions /\ \A s \in Sessions : "pc" \in DOMAIN tx[s] /\ tx[s].pc = "idle"
  BY DEF Init, Idle
<1>2. DOMAIN revisions = Keys /\ DOMAIN plans = CampaignIds /\ DOMAIN runs = Runs
  BY CampaignAssumption DEF Init, CampaignAssumption
<1>3. ASSUME NEW r \in Runs, Exists(r)
      PROVE  "key" \in DOMAIN Row(r) /\ "document" \in DOMAIN Row(r)
  <2> DEFINE k == Seeded.runs[r][1]
             row == Created(k, Seeded.revisions[k][1])
  <2>1. runs[r] = <<row>>
    BY <1>3 DEF Init, Exists
  <2>2. "key" \in DOMAIN row /\ "document" \in DOMAIN row
    BY DEF Created
  <2> HIDE DEF row
  <2>3. QED
    BY <2>1, <2>2 DEF Row
<1>4. QED
  BY <1>1, <1>2, <1>3 DEF IInv, Shape, StagedIsNew, StagedOnce, Answered

\* IInv is inductive: sessions, workers, readers of statistics.
LEMMA NextKeeps == IInv /\ [Next]_vars => IInv'
<1> SUFFICES ASSUME IInv, [Next]_vars PROVE IInv'
  OBVIOUS
<1>0. Shape
  BY DEF IInv
<1>1. ASSUME NEW s \in Sessions, create(s)
      PROVE  IInv'
  <2>1. CASE commit(s)
    BY <2>1, CommitKeeps
  <2>2. CASE look(s) \/ lock(s) \/ check(s) \/ insert(s) \/ rollback(s)
    <3>1. Moves(s)
      BY <1>0, <2>2, LookMoves, LockMoves, CheckMoves, InsertMoves, RollbackMoves
    <3>2. UNCHANGED <<revisions, runs, plans>>
      BY <2>2 DEF look, lock, check, insert, rollback, tables
    <3>3. QED
      BY <1>0, <3>1, <3>2, UnchangedKeeps, MovesKeep
  <2>3. QED
    BY <1>1, <2>1, <2>2 DEF create
<1>2. ASSUME UNCHANGED tx, KeepsReferences
      PROVE  IInv'
  <2>1. CASE Sessions = {}
    BY <1>0, <1>2, <2>1 DEF IInv, Shape, StagedIsNew, StagedOnce, Answered, KeepsReferences, Exists, Row
  <2>2. CASE Sessions # {}
    <3>1. PICK s \in Sessions : TRUE
      BY <2>2
    <3>2. Moves(s)
      BY <1>2, SameKeySymmetric DEF IInv, Shape, StagedIsNew, StagedOnce, Answered, Moves
    <3>3. QED
      BY <1>2, <3>2, MovesKeep
  <2>3. QED
    BY <2>1, <2>2
<1>3. ASSUME NEW r \in Runs, work(r)
      PROVE  IInv'
  BY <1>0, <1>2, <1>3, WorkKeeps
<1>4. CASE campaign_cohort \/ authenticated_campaign_trial \/ aggregate_campaign
  <2>1. UNCHANGED <<revisions, runs, plans, tx>>
    BY <1>4 DEF campaign_cohort, authenticated_campaign_trial, aggregate_campaign, tables
  <2>2. QED
    BY <1>0, <1>2, <2>1, UnchangedKeeps
<1>5. CASE UNCHANGED vars
  BY <1>0, <1>2, <1>5, UnchangedKeeps DEF vars, tables
<1>6. QED
  BY <1>1, <1>3, <1>4, <1>5 DEF Next

\* What the invariant says of an answer is what its receiver relies on.
LEMMA AnsweredIsHeld == IInv => AnswersHold
<1> SUFFICES ASSUME IInv, NEW s \in Sessions, tx[s].pc = "answered", NEW q \in Requests,
                    q = tx[s].request
             PROVE  /\ q.kind = "revision" => revisions[q.key] = <<q.document>>
                    /\ q.kind = "run" =>
                         Exists(q.run) /\ Row(q.run).key = q.key /\ Row(q.run).document = q.document
                    /\ q.kind = "plan" => plans[q.campaign] = <<[faults |-> q.faults, runs |-> q.runs]>>
  BY DEF IInv, Shape, AnswersHold
<1>1. Same(q)
  BY DEF IInv, Answered
<1>2. QED
  BY <1>1 DEF Same, same_revision, matching_run_retry, same_campaign_plan, CampaignPlan

\* Who is told that a revision, a Run or a Campaign is stored finds exactly that
\* stored, for any number of sessions, whatever they create and however their
\* looks, inserts and commits interleave with each other and with the workers.
THEOREM AnswersAreKept == Spec => []AnswersHold
<1>1. Spec => []IInv
  BY InitHolds, NextKeeps, PTL DEF Spec
<1>2. QED
  BY <1>1, AnsweredIsHeld, PTL

-----------------------------------------------------------------------------
(* Types: what a Run refers to is a revision that is there.                *)

\* A Run's row as workers may leave it.
Typed(r, row) ==
  /\ {"status", "attempt", "key", "document", "plan", "used", "verdict"} \subseteq DOMAIN row
  /\ row.status \in ACTIVE \cup {"queued", "completed", "ended"}
  /\ row.attempt \in 0 .. MaxClaims[r]
  /\ row.status = "completed" <=> row.verdict # "none"

\* A Run about to be created refers to a revision that is there; who locks, plans.
Referring(s) ==
  /\ tx[s].pc \in {"idle", "lock", "check", "insert", "commit", "answered"}
  /\ tx[s].pc \in {"lock", "check"} => tx[s].request.kind = "plan"
  /\ tx[s].pc \in {"insert", "commit"} /\ tx[s].request.kind = "run" =>
       Resolves(tx[s].request.key, tx[s].request.document)

TInv ==
  /\ IInv /\ TypeOK /\ DOMAIN members = Runs
  /\ \A r \in Runs : Exists(r) => Typed(r, Row(r)) /\ Row(r).key \in Keys
  /\ \A s \in Sessions : Referring(s)

\* A new row has done nothing.
LEMMA CreatedIsTyped ==
  ASSUME NEW r \in Runs, NEW key, NEW document, NEW row, row = Created(key, document)
  PROVE  Typed(r, row) /\ row.key = key /\ row.document = document
<1>1. MaxClaims[r] \in Nat
  BY CampaignAssumption DEF CampaignAssumption
<1>2. QED
  BY <1>1 DEF Created, Typed

\* A worker moves a Run that is not completed.
LEMMA StatusIsTyped ==
  ASSUME NEW r \in Runs, Exists(r), Typed(r, Row(r)), Row(r).status # "completed",
         NEW status \in ACTIVE \cup {"queued", "ended"},
         NEW row, row = [Row(r) EXCEPT !.status = status]
  PROVE  Typed(r, row) /\ row.key = Row(r).key /\ row.document = Row(r).document
<1>1. /\ DOMAIN row = DOMAIN Row(r) /\ row.status = status /\ row.attempt = Row(r).attempt
      /\ row.verdict = Row(r).verdict /\ row.key = Row(r).key /\ row.document = Row(r).document
  BY DEF Typed
<1>2. row.status # "completed"
  BY <1>1 DEF ACTIVE
<1>3. QED
  BY <1>1, <1>2 DEF Typed

\* What a worker writes is a row of the Run, under its reference (work).
LEMMA WorkIsTyped ==
  ASSUME TInv, NEW r \in Runs, work(r)
  PROVE  /\ UNCHANGED <<revisions, plans, members, tx>> /\ owed' \subseteq Runs \X Nat
         /\ \/ UNCHANGED runs
            \/ Exists(r) /\ \E row : /\ Update(r, row) /\ Typed(r, row)
                                     /\ row.key = Row(r).key /\ row.document = Row(r).document
<1>1. UNCHANGED <<revisions, plans, members, tx>>
  BY DEF work, claim_next_run, bind_run_fault_plan, transition_owned_run, requeue_expired_run,
         cancel_queued_run, execute_evaluation, terminalize_evaluator_failure, Elsewhere
<1>2. MaxClaims[r] \in Nat /\ owed \subseteq Runs \X Nat
  BY CampaignAssumption DEF CampaignAssumption, TInv, TypeOK
<1>3. Exists(r) => Typed(r, Row(r))
  BY DEF TInv
<1>4. owed' \subseteq Runs \X Nat
  <2>1. CASE UNCHANGED owed \/ \E attempt : owed' = owed \ {<<r, attempt>>}
    BY <1>2, <2>1
  <2>2. CASE Exists(r) /\ Owe(r)
    <3>1. Row(r).attempt \in Nat
      BY <1>2, <1>3, <2>2 DEF Typed
    <3>2. QED
      BY <1>2, <2>2, <3>1 DEF Owe
  <2>3. QED
    BY <2>1, <2>2 DEF work, claim_next_run, bind_run_fault_plan, transition_owned_run,
         requeue_expired_run, cancel_queued_run, execute_evaluation, terminalize_evaluator_failure, Is
<1>5. ASSUME ~UNCHANGED runs
      PROVE  Exists(r) /\ \E row : /\ Update(r, row) /\ Typed(r, row)
                                   /\ row.key = Row(r).key /\ row.document = Row(r).document
  <2>1. Exists(r)
    BY <1>5 DEF work, claim_next_run, bind_run_fault_plan, transition_owned_run,
         requeue_expired_run, cancel_queued_run, execute_evaluation, terminalize_evaluator_failure,
         still_evaluating, Is
  <2>2. Typed(r, Row(r))
    BY <1>3, <2>1
  <2>3. CASE claim_next_run(r)
    <3>1. PICK row : /\ row = [Row(r) EXCEPT !.status = "provisioning", !.attempt = @ + 1]
                     /\ Update(r, row)
      BY <2>3 DEF claim_next_run
    <3>2. Row(r).status = "queued" /\ Row(r).attempt < MaxClaims[r]
      BY <2>3 DEF claim_next_run, Is
    <3>3. /\ DOMAIN row = DOMAIN Row(r) /\ row.status = "provisioning"
          /\ row.attempt = Row(r).attempt + 1 /\ row.verdict = Row(r).verdict
          /\ row.key = Row(r).key /\ row.document = Row(r).document
      BY <2>2, <3>1 DEF Typed
    <3>4. Typed(r, row)
      BY <1>2, <2>2, <3>2, <3>3 DEF Typed, ACTIVE
    <3>5. QED
      BY <2>1, <3>1, <3>3, <3>4
  <2>4. CASE bind_run_fault_plan(r)
    <3>1. PICK plan, used, row :
            /\ row = [Row(r) EXCEPT !.status = "running", !.plan = plan, !.used = used]
            /\ Update(r, row) /\ Row(r).status \in {"provisioning", "running"}
      <4>1. PICK engine \in Engines :
              LET bound == effective_plan(r, engine)
              IN Update(r, [Row(r) EXCEPT !.status = "running",
                                          !.plan = IF bound = <<>> THEN @ ELSE bound,
                                          !.used = IF members[r] = <<>> THEN @
                                                   ELSE @ \cup {selected_fault_ids(engine)}])
        BY <2>4 DEF bind_run_fault_plan
      <4>2. QED
        BY <2>4, <4>1 DEF bind_run_fault_plan
    <3>2. /\ DOMAIN row = DOMAIN Row(r) /\ row.status = "running" /\ row.attempt = Row(r).attempt
          /\ row.verdict = Row(r).verdict /\ row.key = Row(r).key /\ row.document = Row(r).document
      BY <2>2, <3>1 DEF Typed
    <3>3. Typed(r, row)
      BY <2>2, <3>1, <3>2 DEF Typed, ACTIVE
    <3>4. QED
      BY <2>1, <3>1, <3>2, <3>3
  <2>5. CASE \/ transition_owned_run(r) \/ requeue_expired_run(r) \/ cancel_queued_run(r)
             \/ terminalize_evaluator_failure(r)
    <3>1. Row(r).status # "completed" /\ \E status \in ACTIVE \cup {"queued", "ended"} :
            Update(r, [Row(r) EXCEPT !.status = status])
      BY <1>5, <2>5 DEF transition_owned_run, requeue_expired_run, cancel_queued_run,
           terminalize_evaluator_failure, still_evaluating, Is, ACTIVE
    <3>2. PICK status \in ACTIVE \cup {"queued", "ended"} :
            Update(r, [Row(r) EXCEPT !.status = status])
      BY <3>1
    <3>3. QED
      BY <2>1, <2>2, <3>1, <3>2, StatusIsTyped
  <2>6. CASE execute_evaluation(r)
    <3>1. PICK verdict \in Verdicts :
            Update(r, [Row(r) EXCEPT !.status = "completed", !.verdict = verdict])
      BY <1>5, <2>6 DEF execute_evaluation
    <3> DEFINE row == [Row(r) EXCEPT !.status = "completed", !.verdict = verdict]
    <3>2. /\ DOMAIN row = DOMAIN Row(r) /\ row.status = "completed" /\ row.attempt = Row(r).attempt
          /\ row.verdict = verdict /\ row.key = Row(r).key /\ row.document = Row(r).document
      BY <2>2, <3>1 DEF Typed
    <3>3. row.verdict # "none"
      BY <3>1, <3>2, CampaignAssumption DEF CampaignAssumption
    <3> HIDE DEF row
    <3>4. Typed(r, row)
      BY <2>2, <3>2, <3>3 DEF Typed
    <3>5. QED
      BY <2>1, <3>1, <3>2, <3>4 DEF row
  <2>7. QED
    BY <2>3, <2>4, <2>5, <2>6 DEF work
<1>6. QED
  BY <1>1, <1>4, <1>5

\* What a step may do to types: revisions appear, rows of Runs are written that refer
\* to one, Runs join Campaigns, sessions go on with what they may create.
LEMMA TypesKeep ==
  ASSUME TInv, IInv', DOMAIN members' = Runs, owed' \subseteq Runs \X Nat,
         \A k \in Keys : \/ revisions'[k] = revisions[k]
                         \/ revisions[k] = <<>> /\ \E d \in Documents : revisions'[k] = <<d>>,
         \A r \in Runs : \/ runs'[r] = runs[r]
                         \/ \E row : /\ runs'[r] = <<row>> /\ Typed(r, row)
                                     /\ row.key \in Keys /\ Resolves(row.key, row.document),
         \A r \in Runs : \/ members'[r] = members[r]
                         \/ \E m : members'[r] = <<m>> /\ m.campaign \in CampaignIds,
         \A s \in Sessions : tx'[s] = tx[s] \/ Referring(s)'
  PROVE  TInv'
<1>1. \A k \in Keys : \A d : Resolves(k, d) => Resolves(k, d)'
  BY DEF Resolves
<1>2. ASSUME NEW s \in Sessions PROVE Referring(s)'
  <2>1. CASE tx'[s] = tx[s]
    <3>1. Referring(s)
      BY DEF TInv
    <3>2. tx[s].pc \in {"insert", "commit"} /\ tx[s].request.kind = "run" => tx[s].request.key \in Keys
      BY CampaignAssumption DEF CampaignAssumption, RequestOK, TInv, IInv, Shape
    <3>3. QED
      BY <1>1, <2>1, <3>1, <3>2 DEF Referring
  <2>2. QED
    BY <2>1
<1>3. ASSUME NEW r \in Runs, Exists(r)'
      PROVE  Typed(r, Row(r))' /\ Row(r)'.key \in Keys /\ Resolves(Row(r).key, Row(r).document)'
  <2>1. CASE runs'[r] = runs[r]
    <3>1. Exists(r) /\ Row(r)' = Row(r)
      BY <1>3, <2>1 DEF Exists, Row
    <3>2. Typed(r, Row(r)) /\ Row(r).key \in Keys /\ Resolves(Row(r).key, Row(r).document)
      BY <3>1 DEF TInv, TypeOK
    <3>3. QED
      BY <1>1, <3>1, <3>2 DEF Typed
  <2>2. CASE runs'[r] # runs[r]
    <3>1. PICK row : /\ runs'[r] = <<row>> /\ Typed(r, row)
                     /\ row.key \in Keys /\ Resolves(row.key, row.document)
      BY <2>2
    <3>2. Row(r)' = row
      BY <3>1 DEF Row
    <3>3. QED
      BY <1>1, <3>1, <3>2 DEF Typed
  <2>3. QED
    BY <2>1, <2>2
<1>4. TypeOK'
  <2>1. \A k \in Keys : revisions'[k] = <<>> \/ \E d \in Documents : revisions'[k] = <<d>>
    BY DEF TInv, TypeOK
  <2>2. \A r \in Runs : Exists(r)' =>
          /\ Row(r)'.status \in ACTIVE \cup {"queued", "completed", "ended"}
          /\ Row(r)'.attempt \in 0 .. MaxClaims[r]
          /\ Row(r)'.status = "completed" <=> Row(r)'.verdict # "none"
          /\ Resolves(Row(r).key, Row(r).document)'
    BY <1>3 DEF Typed
  <2>3. ASSUME NEW r \in Runs, members'[r] # <<>> PROVE members'[r][1].campaign \in CampaignIds
    <3>1. CASE members'[r] = members[r]
      BY <2>3, <3>1 DEF TInv, TypeOK
    <3>2. CASE members'[r] # members[r]
      <4>1. PICK m : members'[r] = <<m>> /\ m.campaign \in CampaignIds
        BY <3>2
      <4>2. QED
        BY <4>1
    <3>3. QED
      BY <3>1, <3>2
  <2>4. \A s \in Sessions :
          tx'[s].pc \in {"idle", "lock", "check", "insert", "commit", "answered"}
    BY <1>2 DEF Referring
  <2>5. QED
    BY <2>1, <2>2, <2>3, <2>4 DEF TypeOK
<1>5. QED
  BY <1>2, <1>3, <1>4 DEF TInv

\* Every step of a session but its commit goes on with a request it may create.
LEMMA SessionRefers ==
  ASSUME TInv, NEW s \in Sessions, look(s) \/ lock(s) \/ check(s) \/ insert(s) \/ rollback(s)
  PROVE  Referring(s)' /\ \A o \in Sessions : o # s => tx'[o] = tx[o]
<1>1. /\ DOMAIN tx = Sessions /\ "pc" \in DOMAIN tx[s] /\ Referring(s)
      /\ tx[s].pc # "idle" => "request" \in DOMAIN tx[s]
  BY DEF TInv, IInv, Shape
<1>2. UNCHANGED revisions
  BY DEF look, lock, check, insert, rollback, tables
<1>3. ASSUME NEW q, NEW outcome, Answer(s, q, outcome)
      PROVE  Referring(s)' /\ \A o \in Sessions : o # s => tx'[o] = tx[o]
  BY <1>1, <1>3 DEF Answer, Idle, Referring
<1>4. ASSUME NEW pc \in {"check", "insert", "commit"}, Step(s, pc), tx[s].pc # "idle",
             pc = "check" => tx[s].request.kind = "plan",
             pc # "check" /\ tx[s].request.kind = "run" =>
               Resolves(tx[s].request.key, tx[s].request.document)
      PROVE  Referring(s)' /\ \A o \in Sessions : o # s => tx'[o] = tx[o]
  <2>1. /\ tx'[s].pc = pc /\ tx'[s].request = tx[s].request
        /\ \A o \in Sessions : o # s => tx'[o] = tx[o]
    BY <1>1, <1>4 DEF Step
  <2>2. QED
    BY <1>2, <1>4, <2>1 DEF Referring, Resolves
<1>5. CASE look(s)
  <2>1. PICK q \in Requests :
          IF Found(q) THEN Answer(s, q, same_or_conflict(q))
          ELSE IF ~Ready(q) THEN Answer(s, q, "conflict")
          ELSE tx' = [tx EXCEPT ![s] =
                 IF q.kind = "plan"
                 THEN [pc |-> "lock", request |-> q, locked |-> {},
                       rows |-> {r \in ToSet(q.runs) : Exists(r)}]
                 ELSE [pc |-> "insert", request |-> q, locked |-> {}]]
    BY <1>5 DEF look
  <2>2. CASE Found(q) \/ ~Ready(q)
    BY <1>3, <2>1, <2>2
  <2>3. CASE ~Found(q) /\ Ready(q)
    <3>1. PICK row : row = IF q.kind = "plan"
                           THEN [pc |-> "lock", request |-> q, locked |-> {},
                                 rows |-> {r \in ToSet(q.runs) : Exists(r)}]
                           ELSE [pc |-> "insert", request |-> q, locked |-> {}]
      OBVIOUS
    <3>2. row.request = q /\ row.pc = IF q.kind = "plan" THEN "lock" ELSE "insert"
      <4>1. CASE q.kind = "plan"
        BY <3>1, <4>1
      <4>2. CASE q.kind # "plan"
        BY <3>1, <4>2
      <4>3. QED
        BY <4>1, <4>2
    <3>3. tx'[s] = row /\ \A o \in Sessions : o # s => tx'[o] = tx[o]
      BY <1>1, <2>1, <2>3, <3>1
    <3>4. q.kind = "run" => Resolves(q.key, q.document)'
      BY <1>2, <2>3 DEF Ready, Resolves
    <3>5. QED
      BY <3>2, <3>3, <3>4 DEF Referring
  <2>4. QED
    BY <2>2, <2>3
<1>6. CASE lock(s)
  <2>1. tx[s].pc = "lock" /\ tx[s].request.kind = "plan"
    BY <1>1, <1>6 DEF lock, Referring
  <2>2. CASE Wanted(s) = {}
    BY <1>4, <1>6, <2>1, <2>2 DEF lock
  <2>3. CASE Wanted(s) # {}
    <3>1. tx' = [tx EXCEPT ![s].locked = @ \cup {NextLock(s)}]
      BY <1>6, <2>3 DEF lock
    <3>2. /\ tx'[s].pc = "lock" /\ tx'[s].request = tx[s].request
          /\ \A o \in Sessions : o # s => tx'[o] = tx[o]
      BY <1>1, <2>1, <3>1
    <3>3. QED
      BY <2>1, <3>2 DEF Referring
  <2>4. QED
    BY <2>2, <2>3
<1>7. CASE check(s)
  <2>1. tx[s].pc = "check" /\ tx[s].request.kind = "plan"
    BY <1>1, <1>7 DEF check, Referring
  <2>2. Step(s, "insert") \/ \E q, outcome : Answer(s, q, outcome)
    BY <1>7 DEF check
  <2>3. QED
    BY <1>3, <1>4, <2>1, <2>2
<1>8. CASE insert(s)
  <2>1. tx[s].pc = "insert"
    BY <1>8 DEF insert
  <2>2. Step(s, "commit") \/ \E q, outcome : Answer(s, q, outcome)
    BY <1>8 DEF insert
  <2>3. QED
    BY <1>1, <1>3, <1>4, <2>1, <2>2 DEF Referring
<1>9. CASE rollback(s)
  BY <1>1, <1>9 DEF rollback, Idle, Referring
<1>10. QED
  BY <1>5, <1>6, <1>7, <1>8, <1>9

\* A commit adds one revision, Run or plan (commit).
LEMMA CommitIsTyped ==
  ASSUME TInv, IInv', NEW s \in Sessions, commit(s)
  PROVE  TInv'
<1>1. PICK q \in Requests : q = tx[s].request /\ tx[s].pc = "commit" /\ ~Found(q)
  BY DEF TInv, IInv, Shape, StagedIsNew, commit
<1>2. \A o \in Sessions : tx'[o] = tx[o] \/ Referring(o)'
  <2>1. DOMAIN tx = Sessions /\ (Answer(s, q, "stored") \/ tx' = [tx EXCEPT ![s] = Idle])
    BY <1>1 DEF TInv, IInv, Shape, commit
  <2>2. /\ \A o \in Sessions : o # s => tx'[o] = tx[o]
        /\ tx'[s].pc \in {"answered", "idle"}
    BY <2>1 DEF TInv, IInv, Shape, Answer, Idle
  <2>3. QED
    BY <2>2 DEF Referring
<1>3. owed' \subseteq Runs \X Nat /\ DOMAIN members = Runs
      /\ DOMAIN revisions = Keys /\ DOMAIN runs = Runs
  BY DEF commit, Beside, TInv, TypeOK, IInv, Shape
<1>4. \A x : <<x>> # <<>>
  OBVIOUS
<1>5. CASE insert_revision(q)
  <2>1. q.key \in Keys /\ q.document \in Documents /\ revisions[q.key] = <<>>
    BY <1>1, <1>5, CampaignAssumption DEF CampaignAssumption, RequestOK, insert_revision, Found
  <2>2. revisions'[q.key] = <<q.document>>
        /\ \A k \in Keys : k # q.key => revisions'[k] = revisions[k]
    BY <1>3, <1>5, <2>1 DEF insert_revision
  <2>3. QED
    BY <1>2, <1>3, <1>5, <2>1, <2>2, TypesKeep DEF insert_revision
<1>6. CASE create_run(q)
  <2>1. q.run \in Runs /\ q.key \in Keys /\ Resolves(q.key, q.document)
    BY <1>1, <1>6, CampaignAssumption
       DEF CampaignAssumption, RequestOK, create_run, TInv, Referring
  <2>2. PICK row : row = Created(q.key, q.document)
    OBVIOUS
  <2>3. runs'[q.run] = <<row>> /\ \A r \in Runs : r # q.run => runs'[r] = runs[r]
    BY <1>3, <1>6, <2>1, <2>2 DEF create_run, Update
  <2>4. Typed(q.run, row) /\ row.key \in Keys /\ Resolves(row.key, row.document)
    BY <2>1, <2>2, CreatedIsTyped
  <2>5. QED
    BY <1>2, <1>3, <1>6, <2>3, <2>4, TypesKeep DEF create_run
<1>7. CASE create_campaign_plan(q)
  <2>1. q.campaign \in CampaignIds
    BY <1>7, Kinds DEF create_campaign_plan
  <2>2. \A r \in Runs : CampaignTrialMembership(q, r).campaign = q.campaign
    BY DEF CampaignTrialMembership
  <2>3. DOMAIN members' = Runs /\ \A r \in Runs :
          \/ members'[r] = members[r]
          \/ \E m : members'[r] = <<m>> /\ m.campaign \in CampaignIds
    BY <1>7, <2>1, <2>2 DEF create_campaign_plan
  <2>4. QED
    BY <1>2, <1>3, <1>7, <2>3, TypesKeep DEF create_campaign_plan
<1>8. QED
  BY <1>1, <1>5, <1>6, <1>7 DEF commit

\* The seeded Runs refer to seeded revisions.
LEMMA InitIsTyped == Init => TInv
<1> SUFFICES ASSUME Init PROVE TInv
  OBVIOUS
<1>1. \A s \in Sessions : tx[s].pc = "idle" /\ Referring(s)
  BY DEF Init, Idle, Referring
<1>2. ASSUME NEW r \in Runs, Exists(r)
      PROVE  Typed(r, Row(r)) /\ Row(r).key \in Keys /\ Resolves(Row(r).key, Row(r).document)
  <2>1. PICK k \in Keys : Seeded.runs[r] = <<k>>
    BY <1>2, CampaignAssumption DEF CampaignAssumption, Init, Exists
  <2>2. PICK d \in Documents : revisions[k] = <<d>> /\ Seeded.revisions[k] = <<d>>
    BY <2>1, CampaignAssumption DEF CampaignAssumption, Init
  <2>3. PICK row : row = Created(k, d)
    OBVIOUS
  <2>4. runs[r] = <<row>>
    BY <1>2, <2>1, <2>2, <2>3 DEF Init, Exists
  <2>5. Row(r) = row
    BY <2>4 DEF Row
  <2>6. QED
    BY <2>2, <2>3, <2>5, CreatedIsTyped DEF Resolves
<1>3. TypeOK
  <2>1. \A k \in Keys : revisions[k] = <<>> \/ \E d \in Documents : revisions[k] = <<d>>
    BY CampaignAssumption DEF CampaignAssumption, Init
  <2>2. QED
    BY <1>1, <1>2, <2>1 DEF TypeOK, Typed, Init
<1>4. QED
  BY <1>1, <1>2, <1>3, InitHolds DEF TInv, Init

\* TInv is inductive.
LEMMA NextIsTyped == TInv /\ [Next]_vars => TInv'
<1> SUFFICES ASSUME TInv, [Next]_vars PROVE TInv'
  OBVIOUS
<1>1. IInv'
  BY NextKeeps DEF TInv
<1>2. ASSUME UNCHANGED <<revisions, runs, members>>, owed' \subseteq Runs \X Nat,
             \A s \in Sessions : tx'[s] = tx[s] \/ Referring(s)'
      PROVE  TInv'
  BY <1>1, <1>2, TypesKeep DEF TInv
<1>3. owed \subseteq Runs \X Nat
  BY DEF TInv, TypeOK
<1>4. ASSUME NEW s \in Sessions, create(s) PROVE TInv'
  <2>1. CASE commit(s)
    BY <1>1, <2>1, CommitIsTyped
  <2>2. CASE look(s) \/ lock(s) \/ check(s) \/ insert(s) \/ rollback(s)
    <3>1. UNCHANGED <<revisions, runs, members, owed>>
      BY <2>2 DEF look, lock, check, insert, rollback, tables, Beside
    <3>2. \A o \in Sessions : tx'[o] = tx[o] \/ Referring(o)'
      BY <2>2, SessionRefers
    <3>3. QED
      BY <1>2, <1>3, <3>1, <3>2
  <2>3. QED
    BY <1>4, <2>1, <2>2 DEF create
<1>5. ASSUME NEW r \in Runs, work(r) PROVE TInv'
  <2>1. /\ UNCHANGED <<revisions, plans, members, tx>> /\ owed' \subseteq Runs \X Nat
        /\ \/ UNCHANGED runs
           \/ Exists(r) /\ \E row : /\ Update(r, row) /\ Typed(r, row)
                                    /\ row.key = Row(r).key /\ row.document = Row(r).document
    BY <1>5, WorkIsTyped
  <2>2. CASE UNCHANGED runs
    BY <1>2, <2>1, <2>2
  <2>3. CASE ~UNCHANGED runs
    <3>1. PICK row : /\ Update(r, row) /\ Typed(r, row) /\ Exists(r)
                     /\ row.key = Row(r).key /\ row.document = Row(r).document
      BY <2>1, <2>3
    <3>2. row.key \in Keys /\ Resolves(row.key, row.document)
      BY <3>1 DEF TInv, TypeOK
    <3>3. runs'[r] = <<row>> /\ \A o \in Runs : o # r => runs'[o] = runs[o]
      BY <3>1 DEF Update, TInv, IInv, Shape
    <3>4. QED
      BY <1>1, <2>1, <3>1, <3>2, <3>3, TypesKeep DEF TInv
  <2>4. QED
    BY <2>2, <2>3
<1>6. CASE campaign_cohort \/ authenticated_campaign_trial \/ aggregate_campaign \/ UNCHANGED vars
  <2>1. UNCHANGED <<revisions, runs, members, tx, owed>>
    BY <1>6 DEF campaign_cohort, authenticated_campaign_trial, aggregate_campaign, tables, vars
  <2>2. QED
    BY <1>2, <1>3, <2>1
<1>7. QED
  BY <1>4, <1>5, <1>6 DEF Next

\* Rows keep their types; a Run, from its creation on, refers to a revision that is
\* there with the content it was resolved to; and it is completed exactly when it
\* has a verdict: for all requests, workers and engines.
THEOREM TypesAreKept == Spec => []TypeOK
<1>1. Spec => []TInv
  BY InitIsTyped, NextIsTyped, PTL DEF Spec
<1>2. TInv => TypeOK
  BY DEF TInv
<1>3. QED
  BY <1>1, <1>2, PTL

-----------------------------------------------------------------------------
(***************************************************************************)
(* Plans hold.  The argument: the Runs of a plan are locked from before    *)
(* they are checked until the plan is committed, so that no worker and no  *)
(* other planner comes between; after that, every binding is compared with *)
(* the plan the membership leads to.                                       *)
(***************************************************************************)

Alike(r, o) == Row(r).key = Row(o).key /\ Row(r).document = Row(o).document

\* What a Run has done: nothing before its first claim, nothing under a fault
\* selection that is not its Campaign's.
Sound(r, row) ==
  /\ {"status", "attempt", "key", "document", "plan", "used"} \subseteq DOMAIN row
  /\ row.attempt \in Nat
  /\ row.status \in {"provisioning", "running"} => row.attempt # 0
  /\ row.attempt = 0 => row.plan = <<>>
  /\ members[r] = <<>> => row.used = {}
  /\ members[r] # <<>> =>
       /\ row.used \subseteq {PlanOf(r).faults}
       /\ members[r][1].since.attempt = 0 => row.plan \in {<<>>, <<PlanOf(r).faults>>}

\* A membership leads to a plan with the Run in it.
Belongs(r) ==
  members[r] # <<>> =>
    LET c == members[r][1].campaign
    IN c \in CampaignIds /\ plans[c] # <<>> /\ r \in ToSet(plans[c][1].runs)

\* Every trial of a plan leads to a membership that leads back to it.
Trial(c, trials, i) ==
  /\ Exists(trials[i]) /\ Alike(trials[i], trials[1])
  /\ members[trials[i]] # <<>>
  /\ members[trials[i]][1].campaign = c /\ members[trials[i]][1].index = i
  /\ members[trials[i]][1].since.status = "queued"
Placed(c, trials) == trials \in Seq(Runs) /\ \A i \in DOMAIN trials : Trial(c, trials, i)
Joined(c) == plans[c] # <<>> => Placed(c, plans[c][1].runs)

\* A plan that passed the checks has its Runs locked, queued and of one revision;
\* one that is staged takes no Run of another Campaign.
Secured(s) ==
  /\ tx[s].pc \in {"lock", "check", "insert", "commit"} => "locked" \in DOMAIN tx[s]
  /\ tx[s].pc \in {"insert", "commit"} /\ tx[s].request.kind = "plan" =>
       LET trials == tx[s].request.runs
       IN \A i \in DOMAIN trials :
            trials[i] \in tx[s].locked /\ Is(trials[i], "queued") /\ Alike(trials[i], trials[1])
  /\ tx[s].pc = "commit" /\ tx[s].request.kind = "plan" =>
       \A i \in DOMAIN tx[s].request.runs : members[tx[s].request.runs[i]] = <<>>

\* No row is locked twice.
Excluded == \A s, o \in Sessions : s # o => Locked(s) \cap Locked(o) = {}

PInv ==
  /\ IInv /\ DOMAIN members = Runs /\ Excluded
  /\ \A r \in Runs : Belongs(r) /\ (Exists(r) => Sound(r, Row(r)))
  /\ \A c \in CampaignIds : Joined(c)
  /\ \A s \in Sessions : Secured(s)

-----------------------------------------------------------------------------
(* Sessions before their commit.                                           *)

\* The request of a plan has its Runs once each.
LEMMA PlanRequest ==
  ASSUME NEW q \in Requests, q.kind = "plan"
  PROVE  /\ q.campaign \in CampaignIds /\ q.runs \in Seq(Runs)
         /\ \A i \in DOMAIN q.runs : q.runs[i] \in Runs
         /\ \A i, j \in DOMAIN q.runs : q.runs[i] = q.runs[j] => i = j
<1>1. q.campaign \in CampaignIds /\ q.runs \in Seq(Runs)
      /\ \A i, j \in DOMAIN q.runs : q.runs[i] = q.runs[j] => i = j
  BY CampaignAssumption DEF CampaignAssumption, RequestOK
<1>2. QED
  BY <1>1

\* Trials stay placed while their Runs keep what they refer to and their memberships.
LEMMA PlacedKeeps ==
  ASSUME NEW c, NEW trials, Placed(c, trials),
         \A i \in DOMAIN trials : /\ members'[trials[i]] = members[trials[i]]
                                  /\ Exists(trials[i])' /\ Alike(trials[i], trials[1])'
  PROVE  Placed(c, trials)'
BY DEF Placed, Trial

\* A step of a session that shows nothing, keeps what it secured and locks only
\* what is free.
LEMMA QuietKeeps ==
  ASSUME PInv, IInv', NEW s \in Sessions, UNCHANGED tables,
         \A o \in Sessions : o # s => tx'[o] = tx[o],
         Secured(s)', \A o \in Sessions : o # s => Locked(s)' \cap Locked(o) = {}
  PROVE  PInv'
<1>1. UNCHANGED <<revisions, runs, plans, members>>
  BY DEF tables
<1>2. Excluded'
  <2>1. \A o \in Sessions : o # s => Locked(o)' = Locked(o)
    BY DEF Locked
  <2>2. QED
    BY <2>1 DEF PInv, Excluded
<1>3. \A r \in Runs : Belongs(r)' /\ (Exists(r) => Sound(r, Row(r)))'
  BY <1>1 DEF PInv, Belongs, Exists, Row, Sound, PlanOf
<1>4. ASSUME NEW c \in CampaignIds PROVE Joined(c)'
  <2>1. Joined(c)
    BY DEF PInv
  <2>2. SUFFICES ASSUME NEW trials, Placed(c, trials), NEW i \in DOMAIN trials
                 PROVE  Exists(trials[i])' /\ Alike(trials[i], trials[1])'
    BY <1>1, <2>1, PlacedKeeps DEF Joined
  <2>3. Exists(trials[i]) /\ Alike(trials[i], trials[1])
    BY <2>2 DEF Placed, Trial
  <2>4. QED
    BY <1>1, <2>3 DEF Exists, Row, Alike
<1>5. ASSUME NEW o \in Sessions PROVE Secured(o)'
  <2>1. CASE o # s
    <3>1. Secured(o) /\ tx'[o] = tx[o]
      BY <2>1 DEF PInv
    <3>2. \A r, e : Is(r, "queued")' = Is(r, "queued") /\ Alike(r, e)' = Alike(r, e)
      BY <1>1 DEF Is, Exists, Row, Alike
    <3>3. QED
      BY <1>1, <3>1, <3>2 DEF Secured
  <2>2. CASE o = s
    BY <2>2
  <2>3. QED
    BY <2>1, <2>2
<1>6. QED
  BY <1>1, <1>2, <1>3, <1>4, <1>5 DEF PInv

\* A session that is answered, refused or gone has secured nothing.
LEMMA AnswerIsQuiet ==
  ASSUME PInv, IInv', NEW s \in Sessions, UNCHANGED tables, NEW q, NEW outcome, Answer(s, q, outcome)
  PROVE  PInv'
<1>1. /\ \A o \in Sessions : o # s => tx'[o] = tx[o]
      /\ tx'[s].pc \in {"answered", "idle"}
  BY DEF PInv, IInv, Shape, Answer, Idle
<1>2. Secured(s)'
  BY <1>1 DEF Secured
<1>3. Locked(s)' = {}
  BY <1>1 DEF Locked
<1>4. QED
  BY <1>1, <1>2, <1>3, QuietKeeps

\* The look before any lock (look).
LEMMA LookIsQuiet ==
  ASSUME PInv, IInv', NEW s \in Sessions, look(s)
  PROVE  PInv'
<1>1. UNCHANGED tables
  BY DEF look
<1>2. PICK q \in Requests :
        IF Found(q) THEN Answer(s, q, same_or_conflict(q))
        ELSE IF ~Ready(q) THEN Answer(s, q, "conflict")
        ELSE tx' = [tx EXCEPT ![s] =
               IF q.kind = "plan"
               THEN [pc |-> "lock", request |-> q, locked |-> {},
                     rows |-> {r \in ToSet(q.runs) : Exists(r)}]
               ELSE [pc |-> "insert", request |-> q, locked |-> {}]]
  BY DEF look
<1>3. CASE Found(q) \/ ~Ready(q)
  BY <1>1, <1>2, <1>3, AnswerIsQuiet
<1>4. CASE ~Found(q) /\ Ready(q)
  <2>1. PICK row : row = IF q.kind = "plan"
                         THEN [pc |-> "lock", request |-> q, locked |-> {},
                               rows |-> {r \in ToSet(q.runs) : Exists(r)}]
                         ELSE [pc |-> "insert", request |-> q, locked |-> {}]
    OBVIOUS
  <2>2. /\ "locked" \in DOMAIN row /\ row.locked = {}
        /\ row.pc = IF q.kind = "plan" THEN "lock" ELSE "insert"
        /\ row.request = q
    <3>1. CASE q.kind = "plan"
      BY <2>1, <3>1
    <3>2. CASE q.kind # "plan"
      BY <2>1, <3>2
    <3>3. QED
      BY <3>1, <3>2
  <2>3. tx' = [tx EXCEPT ![s] = row]
    BY <1>2, <1>4, <2>1
  <2>4. /\ \A o \in Sessions : o # s => tx'[o] = tx[o]
        /\ tx'[s] = row
    BY <2>3 DEF PInv, IInv, Shape
  <2>5. Secured(s)' /\ Locked(s)' = {}
    BY <2>2, <2>4 DEF Secured, Locked
  <2>6. QED
    BY <1>1, <2>4, <2>5, QuietKeeps
<1>5. QED
  BY <1>3, <1>4

\* One more row, which nobody has (lock).
LEMMA LockIsQuiet ==
  ASSUME PInv, IInv', NEW s \in Sessions, lock(s)
  PROVE  PInv'
<1>1. UNCHANGED tables /\ tx[s].pc = "lock" /\ "locked" \in DOMAIN tx[s]
  BY DEF lock, PInv, Secured
<1>2. Locked(s) = tx[s].locked /\ \A o \in Sessions : o # s => Locked(s) \cap Locked(o) = {}
  BY <1>1 DEF Locked, PInv, Excluded
<1>3. CASE Wanted(s) = {}
  <2>1. tx' = [tx EXCEPT ![s].pc = "check"]
    BY <1>3 DEF lock, Step
  <2>2. /\ \A o \in Sessions : o # s => tx'[o] = tx[o]
        /\ tx'[s].pc = "check" /\ "locked" \in DOMAIN tx'[s] /\ tx'[s].locked = tx[s].locked
    BY <1>1, <2>1 DEF PInv, IInv, Shape
  <2>3. Secured(s)' /\ Locked(s)' = Locked(s)
    BY <1>2, <2>2 DEF Secured, Locked
  <2>4. QED
    BY <1>1, <1>2, <2>2, <2>3, QuietKeeps
<1>4. CASE Wanted(s) # {}
  <2>1. PICK r : r = NextLock(s)
    OBVIOUS
  <2>2. /\ tx' = [tx EXCEPT ![s].locked = @ \cup {r}]
        /\ \A o \in Sessions : o # s => r \notin Locked(o)
    BY <1>4, <2>1 DEF lock
  <2>3. /\ \A o \in Sessions : o # s => tx'[o] = tx[o]
        /\ tx'[s].pc = "lock" /\ "locked" \in DOMAIN tx'[s] /\ tx'[s].locked = tx[s].locked \cup {r}
    BY <1>1, <2>2 DEF PInv, IInv, Shape
  <2>4. Secured(s)' /\ Locked(s)' = Locked(s) \cup {r}
    BY <1>2, <2>3 DEF Secured, Locked
  <2>5. QED
    BY <1>1, <1>2, <2>2, <2>3, <2>4, QuietKeeps
<1>5. QED
  BY <1>3, <1>4

\* The checks under the locks (check).
LEMMA CheckIsQuiet ==
  ASSUME PInv, IInv', NEW s \in Sessions, check(s)
  PROVE  PInv'
<1>1. UNCHANGED tables /\ tx[s].pc = "check" /\ "locked" \in DOMAIN tx[s]
  BY DEF check, PInv, Secured
<1>2. PICK q \in Requests : q = tx[s].request /\ "request" \in DOMAIN tx[s]
  BY <1>1 DEF PInv, IInv, Shape
<1>3. CASE Answer(s, q, "conflict") \/ Answer(s, q, same_or_conflict(q))
  BY <1>1, <1>3, AnswerIsQuiet
<1>4. CASE /\ Step(s, "insert") /\ tx[s].locked = ToSet(q.runs)
           /\ \A r \in ToSet(q.runs) : Is(r, "queued") /\ Alike(r, q.runs[1])
  <2>1. /\ \A o \in Sessions : o # s => tx'[o] = tx[o]
        /\ tx'[s].pc = "insert" /\ "locked" \in DOMAIN tx'[s] /\ tx'[s].locked = tx[s].locked
        /\ tx'[s].request = q
    BY <1>1, <1>2, <1>4 DEF Step, PInv, IInv, Shape
  <2>2. \A i \in DOMAIN q.runs :
          q.runs[i] \in tx[s].locked /\ Is(q.runs[i], "queued") /\ Alike(q.runs[i], q.runs[1])
    BY <1>4 DEF ToSet
  <2>3. \A r : Is(r, "queued")' = Is(r, "queued") /\ \A o : Alike(r, o)' = Alike(r, o)
    BY <1>1 DEF tables, Is, Exists, Row, Alike
  <2>4. Secured(s)'
    BY <2>1, <2>2, <2>3 DEF Secured
  <2>5. Locked(s)' = Locked(s)
    BY <1>1, <2>1 DEF Locked
  <2>6. QED
    BY <1>1, <2>1, <2>4, <2>5, QuietKeeps DEF PInv, Excluded
<1>5. QED
  BY <1>2, <1>3, <1>4 DEF check, Alike

\* An insert stages a plan none of whose Runs is a member yet (insert).
LEMMA InsertIsQuiet ==
  ASSUME PInv, IInv', NEW s \in Sessions, insert(s)
  PROVE  PInv'
<1>1. UNCHANGED tables /\ tx[s].pc = "insert" /\ "locked" \in DOMAIN tx[s] /\ Secured(s)
  BY DEF insert, PInv, Secured
<1>2. PICK q \in Requests : q = tx[s].request /\ "request" \in DOMAIN tx[s]
  BY <1>1 DEF PInv, IInv, Shape
<1>3. CASE Answer(s, q, "conflict") \/ Answer(s, q, same_or_conflict(q))
  BY <1>1, <1>3, AnswerIsQuiet
<1>4. CASE Step(s, "commit") /\ ~Members(q)
  <2>1. /\ \A o \in Sessions : o # s => tx'[o] = tx[o]
        /\ tx'[s].pc = "commit" /\ "locked" \in DOMAIN tx'[s] /\ tx'[s].locked = tx[s].locked
        /\ tx'[s].request = q
    BY <1>1, <1>2, <1>4 DEF Step, PInv, IInv, Shape
  <2>2. q.kind = "plan" => \A i \in DOMAIN q.runs : members[q.runs[i]] = <<>>
    BY <1>4 DEF Members
  <2>3. q.kind = "plan" => \A i \in DOMAIN q.runs :
          q.runs[i] \in tx[s].locked /\ Is(q.runs[i], "queued") /\ Alike(q.runs[i], q.runs[1])
    BY <1>1, <1>2 DEF Secured
  <2>4. UNCHANGED <<runs, members>>
    BY <1>1 DEF tables
  <2>5. \A r : Is(r, "queued")' = Is(r, "queued") /\ \A o : Alike(r, o)' = Alike(r, o)
    BY <2>4 DEF Is, Exists, Row, Alike
  <2>6. Secured(s)'
    BY <2>1, <2>2, <2>3, <2>4, <2>5 DEF Secured
  <2>7. Locked(s)' = Locked(s)
    BY <1>1, <2>1 DEF Locked
  <2>8. QED
    BY <1>1, <2>1, <2>6, <2>7, QuietKeeps DEF PInv, Excluded
<1>5. QED
  BY <1>2, <1>3, <1>4 DEF insert

\* A session gives up (rollback).
LEMMA RollbackIsQuiet ==
  ASSUME PInv, IInv', NEW s \in Sessions, rollback(s)
  PROVE  PInv'
<1>1. /\ UNCHANGED tables /\ \A o \in Sessions : o # s => tx'[o] = tx[o]
      /\ tx'[s].pc = "idle"
  BY DEF rollback, PInv, IInv, Shape, Idle
<1>2. Secured(s)' /\ Locked(s)' = {}
  BY <1>1 DEF Secured, Locked
<1>3. QED
  BY <1>1, <1>2, QuietKeeps

-----------------------------------------------------------------------------
(* Workers.                                                                *)

\* What a worker writes is sound, under the reference that was there.
Writes(r) ==
  \E row : Update(r, row) /\ Sound(r, row) /\ row.key = Row(r).key /\ row.document = Row(r).document

\* A worker claims, and the Run has done nothing yet.
LEMMA ClaimWrites ==
  ASSUME NEW r \in Runs, Sound(r, Row(r)), claim_next_run(r)
  PROVE  Writes(r)
<1> DEFINE row == [Row(r) EXCEPT !.status = "provisioning", !.attempt = @ + 1]
<1>1. Update(r, row)
  BY DEF claim_next_run
<1>2. /\ DOMAIN row = DOMAIN Row(r) /\ row.key = Row(r).key /\ row.document = Row(r).document
      /\ row.plan = Row(r).plan /\ row.used = Row(r).used /\ row.attempt = Row(r).attempt + 1
  BY DEF Sound
<1>3. row.attempt \in Nat /\ row.attempt # 0
  BY <1>2 DEF Sound
<1> HIDE DEF row
<1>4. Sound(r, row)
  BY <1>2, <1>3 DEF Sound
<1>5. QED
  BY <1>1, <1>2, <1>4 DEF Writes

\* A binding is compared with the Campaign's plan, or is the engine's own.
LEMMA BindWrites ==
  ASSUME NEW r \in Runs, Sound(r, Row(r)), bind_run_fault_plan(r)
  PROVE  Writes(r)
<1>1. PICK engine \in Engines :
        /\ fault_plan_accepted(r, engine)
        /\ LET bound == effective_plan(r, engine)
           IN Update(r, [Row(r) EXCEPT !.status = "running",
                                       !.plan = IF bound = <<>> THEN @ ELSE bound,
                                       !.used = IF members[r] = <<>> THEN @
                                                ELSE @ \cup {selected_fault_ids(engine)}])
  BY DEF bind_run_fault_plan
<1> DEFINE bound == effective_plan(r, engine)
           row == [Row(r) EXCEPT !.status = "running",
                                 !.plan = IF bound = <<>> THEN @ ELSE bound,
                                 !.used = IF members[r] = <<>> THEN @
                                          ELSE @ \cup {selected_fault_ids(engine)}]
<1>2. Update(r, row)
  BY <1>1
<1>3. /\ DOMAIN row = DOMAIN Row(r) /\ row.key = Row(r).key /\ row.document = Row(r).document
      /\ row.attempt = Row(r).attempt
      /\ row.plan = IF bound = <<>> THEN Row(r).plan ELSE bound
      /\ row.used = IF members[r] = <<>> THEN Row(r).used
                    ELSE Row(r).used \cup {selected_fault_ids(engine)}
  BY DEF Sound
<1>4. row.attempt \in Nat /\ row.attempt # 0
  BY <1>3 DEF Sound, bind_run_fault_plan
<1>5. members[r] # <<>> => bound = <<PlanOf(r).faults>> /\ selected_fault_ids(engine) = PlanOf(r).faults
  BY <1>1 DEF effective_plan, fault_plan_accepted
<1>6. members[r] # <<>> => row.plan = <<PlanOf(r).faults>> /\ row.used \subseteq {PlanOf(r).faults}
  BY <1>3, <1>5 DEF Sound
<1>7. members[r] = <<>> => row.used = {}
  BY <1>3 DEF Sound
<1> HIDE DEF row, bound
<1>8. Sound(r, row)
  BY <1>3, <1>4, <1>6, <1>7 DEF Sound
<1>9. QED
  BY <1>2, <1>3, <1>8 DEF Writes

\* Any other write leaves attempt and plan, and does not make the Run run.
LEMMA StatusWrites ==
  ASSUME NEW r \in Runs, Sound(r, Row(r)), NEW status, status \notin {"provisioning", "running"},
         Update(r, [Row(r) EXCEPT !.status = status])
  PROVE  Writes(r)
<1> DEFINE row == [Row(r) EXCEPT !.status = status]
<1>1. /\ DOMAIN row = DOMAIN Row(r) /\ row.key = Row(r).key /\ row.document = Row(r).document
      /\ row.plan = Row(r).plan /\ row.used = Row(r).used /\ row.attempt = Row(r).attempt
      /\ row.status = status
  BY DEF Sound
<1>2. Update(r, row)
  OBVIOUS
<1> HIDE DEF row
<1>3. Sound(r, row)
  BY <1>1 DEF Sound
<1>4. QED
  BY <1>1, <1>2, <1>3 DEF Writes

\* The verdict and the completion are one write.
LEMMA VerdictWrites ==
  ASSUME NEW r \in Runs, Sound(r, Row(r)), NEW verdict,
         Update(r, [Row(r) EXCEPT !.status = "completed", !.verdict = verdict])
  PROVE  Writes(r)
<1> DEFINE row == [Row(r) EXCEPT !.status = "completed", !.verdict = verdict]
<1>1. /\ DOMAIN row = DOMAIN Row(r) /\ row.key = Row(r).key /\ row.document = Row(r).document
      /\ row.plan = Row(r).plan /\ row.used = Row(r).used /\ row.attempt = Row(r).attempt
      /\ row.status = "completed"
  BY DEF Sound
<1>2. Update(r, row)
  OBVIOUS
<1> HIDE DEF row
<1>3. Sound(r, row)
  BY <1>1 DEF Sound
<1>4. QED
  BY <1>1, <1>2, <1>3 DEF Writes

\* Every step of a worker writes soundly, to a Run that no planner has locked, or
\* writes nothing (work).
LEMMA WorkWrites ==
  ASSUME PInv, NEW r \in Runs, work(r)
  PROVE  /\ Free(r) /\ UNCHANGED <<revisions, plans, members, tx>>
         /\ UNCHANGED runs \/ (Exists(r) /\ Writes(r))
<1>1. UNCHANGED <<revisions, plans, members, tx>> /\ Free(r)
  BY DEF work, claim_next_run, bind_run_fault_plan, transition_owned_run, requeue_expired_run,
         cancel_queued_run, execute_evaluation, terminalize_evaluator_failure, Elsewhere
<1>2. CASE ~UNCHANGED runs
  <2>1. Exists(r)
    BY <1>2 DEF work, claim_next_run, bind_run_fault_plan, transition_owned_run,
         requeue_expired_run, cancel_queued_run, execute_evaluation, terminalize_evaluator_failure,
         still_evaluating, Is
  <2>2. Sound(r, Row(r))
    BY <2>1 DEF PInv
  <2>3. CASE transition_owned_run(r)
    <3>1. PICK status \in {"evaluating", "ended"} : Update(r, [Row(r) EXCEPT !.status = status])
      BY <2>3 DEF transition_owned_run
    <3>2. QED
      BY <2>2, <3>1, StatusWrites, <1>1, <2>1
  <2>4. CASE requeue_expired_run(r) \/ cancel_queued_run(r)
    <3>1. \E status \in {"queued", "ended"} : Update(r, [Row(r) EXCEPT !.status = status])
      BY <2>4 DEF requeue_expired_run, cancel_queued_run
    <3>2. PICK status \in {"queued", "ended"} : Update(r, [Row(r) EXCEPT !.status = status])
      BY <3>1
    <3>3. QED
      BY <2>2, <3>2, StatusWrites, <1>1, <2>1
  <2>5. CASE execute_evaluation(r)
    <3>1. PICK verdict \in Verdicts :
            Update(r, [Row(r) EXCEPT !.status = "completed", !.verdict = verdict])
      BY <1>2, <2>5 DEF execute_evaluation
    <3>2. QED
      BY <1>1, <2>1, <2>2, <3>1, VerdictWrites
  <2>6. CASE terminalize_evaluator_failure(r)
    <3>1. Update(r, [Row(r) EXCEPT !.status = "ended"])
      BY <1>2, <2>6 DEF terminalize_evaluator_failure
    <3>2. QED
      BY <1>1, <2>1, <2>2, <3>1, StatusWrites
  <2>7. QED
    BY <1>1, <2>1, <2>2, <2>3, <2>4, <2>5, <2>6, ClaimWrites, BindWrites DEF work
<1>3. QED
  BY <1>1, <1>2

\* A sound write keeps the plans.
LEMMA WritesKeep ==
  ASSUME PInv, IInv', NEW r \in Runs, Free(r), Exists(r), Writes(r),
         UNCHANGED <<revisions, plans, members, tx>>
  PROVE  PInv'
<1>1. PICK row : /\ Update(r, row) /\ Sound(r, row)
                 /\ row.key = Row(r).key /\ row.document = Row(r).document
  BY DEF Writes
<1>2. runs'[r] = <<row>> /\ \A o \in Runs : o # r => runs'[o] = runs[o]
  BY <1>1 DEF PInv, IInv, Shape, Update
<1>3. <<row>>[1] = row /\ <<row>> # <<>>
  OBVIOUS
<1>4. \A o \in Runs : /\ runs[o] = <<>> <=> runs'[o] = <<>>
                      /\ runs'[o][1].key = runs[o][1].key
                      /\ runs'[o][1].document = runs[o][1].document
  BY <1>1, <1>2, <1>3 DEF Exists, Row
<1>5. Excluded'
  BY DEF PInv, Excluded, Locked
<1>6. ASSUME NEW o \in Runs PROVE Belongs(o)' /\ (Exists(o) => Sound(o, Row(o)))'
  <2>1. Belongs(o) /\ (Exists(o) => Sound(o, Row(o)))
    BY DEF PInv
  <2>2. CASE o = r
    BY <1>1, <1>2, <1>3, <2>1, <2>2 DEF Belongs, Exists, Row, Sound, PlanOf
  <2>3. CASE o # r
    BY <1>2, <2>1, <2>3 DEF Belongs, Exists, Row, Sound, PlanOf
  <2>4. QED
    BY <2>2, <2>3
<1>7. ASSUME NEW c \in CampaignIds PROVE Joined(c)'
  <2>1. Joined(c) /\ plans' = plans /\ members' = members
    BY DEF PInv
  <2>2. SUFFICES ASSUME NEW trials, Placed(c, trials), NEW i \in DOMAIN trials
                 PROVE  Exists(trials[i])' /\ Alike(trials[i], trials[1])'
    BY <2>1, PlacedKeeps DEF Joined
  <2>3. trials \in Seq(Runs) /\ Exists(trials[i]) /\ Alike(trials[i], trials[1])
    BY <2>2 DEF Placed, Trial
  <2>4. trials[i] \in Runs /\ trials[1] \in Runs
    BY <2>2, <2>3
  <2>5. QED
    BY <1>4, <2>3, <2>4 DEF Exists, Row, Alike
<1>8. ASSUME NEW s \in Sessions PROVE Secured(s)'
  <2>1. Secured(s)
    BY DEF PInv
  <2>2. CASE tx[s].pc \in {"insert", "commit"} /\ tx[s].request.kind = "plan"
    <3>1. PICK q \in Requests : q = tx[s].request
      BY <2>2 DEF PInv, IInv, Shape
    <3>2. \A i \in DOMAIN q.runs : q.runs[i] \in Runs
      BY <2>2, <3>1, PlanRequest
    <3>3. \A i \in DOMAIN q.runs : q.runs[i] # r
      BY <2>1, <2>2, <3>1 DEF Secured, Free, Locked
    <3>4. \A i \in DOMAIN q.runs : runs'[q.runs[i]] = runs[q.runs[i]]
      BY <1>2, <3>2, <3>3
    <3>5. \A i \in DOMAIN q.runs : 1 \in DOMAIN q.runs
      BY <2>2, <3>1, PlanRequest
    <3>6. \A i \in DOMAIN q.runs :
            Is(q.runs[i], "queued")' = Is(q.runs[i], "queued")
            /\ Alike(q.runs[i], q.runs[1])' = Alike(q.runs[i], q.runs[1])
      BY <3>4, <3>5 DEF Is, Exists, Row, Alike
    <3>7. QED
      BY <2>1, <2>2, <3>1, <3>6 DEF Secured
  <2>3. CASE ~(tx[s].pc \in {"insert", "commit"} /\ tx[s].request.kind = "plan")
    BY <2>1, <2>3 DEF Secured
  <2>4. QED
    BY <2>2, <2>3
<1>9. QED
  BY <1>5, <1>6, <1>7, <1>8 DEF PInv

-----------------------------------------------------------------------------
(* Commits.                                                                *)

\* After a commit, the session is answered or has lost its answer, and has no lock.
LEMMA CommitReleases ==
  ASSUME PInv, IInv', NEW s \in Sessions, commit(s)
  PROVE  /\ \A o \in Sessions : o # s => tx'[o] = tx[o]
         /\ tx'[s].pc \in {"answered", "idle"}
         /\ Secured(s)' /\ Excluded'
<1>1. \A o \in Sessions : tx'[o] = IF o = s THEN tx'[s] ELSE tx[o]
  BY DEF PInv, IInv, Shape, commit, Answer
<1>2. tx'[s].pc \in {"answered", "idle"}
  BY DEF PInv, IInv, Shape, commit, Answer, Idle
<1>3. Secured(s)'
  BY <1>2 DEF Secured
<1>4. Locked(s)' = {} /\ \A o \in Sessions : o # s => Locked(o)' = Locked(o)
  BY <1>1, <1>2 DEF Locked
<1>5. Excluded'
  BY <1>4 DEF PInv, Excluded
<1>6. QED
  BY <1>1, <1>2, <1>3, <1>5

\* A commit that leaves every Run that is there, and every membership, as it was.
LEMMA OtherCommits ==
  ASSUME PInv, IInv', NEW s \in Sessions, commit(s), UNCHANGED <<plans, members>>,
         \A r \in Runs : runs[r] # <<>> => runs'[r] = runs[r],
         \A r \in Runs : runs[r] = <<>> /\ runs'[r] # <<>> =>
           \E key, document : runs'[r] = <<Created(key, document)>>
  PROVE  PInv'
<1>1. ASSUME NEW r \in Runs PROVE Belongs(r)' /\ (Exists(r) => Sound(r, Row(r)))'
  <2>1. Belongs(r) /\ (Exists(r) => Sound(r, Row(r)))
    BY DEF PInv
  <2>2. CASE runs[r] # <<>> \/ runs'[r] = <<>>
    BY <2>1, <2>2 DEF Belongs, Exists, Row, Sound, PlanOf
  <2>3. CASE runs[r] = <<>> /\ runs'[r] # <<>>
    <3>1. PICK key, document : runs'[r] = <<Created(key, document)>>
      BY <2>3
    <3>2. PICK row : row = Created(key, document)
      OBVIOUS
    <3>3. /\ {"status", "attempt", "key", "document", "plan", "used"} \subseteq DOMAIN row
          /\ row.attempt = 0 /\ row.status = "queued" /\ row.plan = <<>> /\ row.used = {}
      BY <3>2 DEF Created
    <3>4. runs'[r][1] = row
      BY <3>1, <3>2
    <3>5. Belongs(r)' /\ Row(r)' = row
      BY <2>1, <3>4 DEF Belongs, Row
    <3>6. Sound(r, row)'
      BY <3>3 DEF Sound
    <3>7. QED
      BY <3>5, <3>6 DEF Sound, PlanOf
  <2>4. QED
    BY <2>2, <2>3
<1>2. ASSUME NEW c \in CampaignIds PROVE Joined(c)'
  <2>1. Joined(c) /\ plans' = plans /\ members' = members
    BY DEF PInv
  <2>2. SUFFICES ASSUME NEW trials, Placed(c, trials), NEW i \in DOMAIN trials
                 PROVE  Exists(trials[i])' /\ Alike(trials[i], trials[1])'
    BY <2>1, PlacedKeeps DEF Joined
  <2>3. /\ trials \in Seq(Runs) /\ Exists(trials[i]) /\ Alike(trials[i], trials[1])
        /\ \A j \in DOMAIN trials : Exists(trials[j])
    BY <2>2 DEF Placed, Trial
  <2>4. trials[i] \in Runs /\ trials[1] \in Runs /\ 1 \in DOMAIN trials
    BY <2>2, <2>3
  <2>5. QED
    BY <2>3, <2>4 DEF Exists, Row, Alike
<1>3. ASSUME NEW o \in Sessions PROVE Secured(o)'
  <2>1. CASE o = s
    BY <2>1, CommitReleases
  <2>2. CASE o # s
    <3>1. Secured(o) /\ tx'[o] = tx[o]
      BY <2>2, CommitReleases DEF PInv
    <3>2. CASE tx[o].pc \in {"insert", "commit"} /\ tx[o].request.kind = "plan"
      <4>1. PICK q \in Requests : q = tx[o].request
        BY <3>2 DEF PInv, IInv, Shape
      <4>2. \A i \in DOMAIN q.runs : q.runs[i] \in Runs /\ 1 \in DOMAIN q.runs
        BY <3>2, <4>1, PlanRequest
      <4>3. \A i \in DOMAIN q.runs : runs'[q.runs[i]] = runs[q.runs[i]]
        BY <3>1, <3>2, <4>1, <4>2 DEF Secured, Is, Exists
      <4>4. \A i \in DOMAIN q.runs :
              Is(q.runs[i], "queued")' = Is(q.runs[i], "queued")
              /\ Alike(q.runs[i], q.runs[1])' = Alike(q.runs[i], q.runs[1])
        BY <4>2, <4>3 DEF Is, Exists, Row, Alike
      <4>5. QED
        BY <3>1, <3>2, <4>1, <4>4 DEF Secured
    <3>3. CASE ~(tx[o].pc \in {"insert", "commit"} /\ tx[o].request.kind = "plan")
      BY <3>1, <3>3 DEF Secured
    <3>4. QED
      BY <3>2, <3>3
  <2>3. QED
    BY <2>1, <2>2
<1>4. QED
  BY <1>1, <1>2, <1>3, CommitReleases DEF PInv

\* The plan appears with a membership for each of its Runs, all of which are still
\* as they were checked, and members of nothing else.
LEMMA PlanCommits ==
  ASSUME PInv, IInv', NEW s \in Sessions, commit(s), NEW q \in Requests, q = tx[s].request,
         create_campaign_plan(q), ~Found(q)
  PROVE  PInv'
<1> DEFINE plan == CampaignPlan(q)
<1>1. q.kind = "plan" /\ tx[s].pc = "commit" /\ UNCHANGED <<revisions, runs>>
  BY DEF create_campaign_plan, commit
<1>2. /\ q.campaign \in CampaignIds /\ q.runs \in Seq(Runs)
      /\ \A i \in DOMAIN q.runs : q.runs[i] \in Runs /\ 1 \in DOMAIN q.runs
      /\ \A i, j \in DOMAIN q.runs : q.runs[i] = q.runs[j] => i = j
  BY <1>1, PlanRequest
<1>3. plans[q.campaign] = <<>>
  BY <1>1 DEF Found
<1>4. /\ plans'[q.campaign] = <<plan>>
      /\ \A c \in CampaignIds : c # q.campaign => plans'[c] = plans[c]
  BY <1>2 DEF PInv, IInv, Shape, create_campaign_plan
<1>5. plan.runs = q.runs /\ plan.faults = q.faults /\ <<plan>>[1] = plan /\ <<plan>> # <<>>
  BY DEF CampaignPlan
<1>6. \A i \in DOMAIN q.runs :
        /\ q.runs[i] \in tx[s].locked /\ Is(q.runs[i], "queued") /\ Alike(q.runs[i], q.runs[1])
        /\ members[q.runs[i]] = <<>>
  BY <1>1 DEF PInv, Secured
<1>7. DOMAIN members' = Runs /\ \A r \in Runs :
        members'[r] = IF r \in ToSet(q.runs) THEN <<CampaignTrialMembership(q, r)>> ELSE members[r]
  BY DEF create_campaign_plan
<1>8. ASSUME NEW i \in DOMAIN q.runs
      PROVE  \E m : /\ members'[q.runs[i]] = <<m>> /\ m.campaign = q.campaign /\ m.index = i
                    /\ m.since.status = "queued" /\ m.since.attempt = Row(q.runs[i]).attempt
  <2>1. PICK r \in Runs : r = q.runs[i]
    BY <1>2
  <2>2. PICK m : m = CampaignTrialMembership(q, r)
    OBVIOUS
  <2>3. members'[r] = <<m>>
    BY <1>7, <2>1, <2>2 DEF ToSet
  <2>4. (CHOOSE j \in DOMAIN q.runs : q.runs[j] = r) = i
    BY <1>2, <2>1
  <2>5. m.campaign = q.campaign /\ m.index = i
    BY <2>2, <2>4 DEF CampaignTrialMembership
  <2>6. m.since.status = "queued" /\ m.since.attempt = Row(r).attempt
    BY <1>6, <2>1, <2>2 DEF CampaignTrialMembership, Is
  <2>7. QED
    BY <2>1, <2>3, <2>5, <2>6
<1> HIDE DEF plan
<1>9. ASSUME NEW r \in Runs PROVE Belongs(r)' /\ (Exists(r) => Sound(r, Row(r)))'
  <2>1. Belongs(r) /\ (Exists(r) => Sound(r, Row(r)))
    BY DEF PInv
  <2>2. CASE r \in ToSet(q.runs)
    <3>1. PICK i \in DOMAIN q.runs : q.runs[i] = r
      BY <2>2 DEF ToSet
    <3>2. PICK m : /\ members'[r] = <<m>> /\ m.campaign = q.campaign
                   /\ m.since.attempt = Row(r).attempt
      BY <1>8, <3>1
    <3>3. members'[r][1] = m /\ members'[r] # <<>>
      BY <3>2
    <3>4. Belongs(r)'
      BY <1>2, <1>4, <1>5, <2>2, <3>2, <3>3 DEF Belongs
    <3>5. Exists(r) /\ members[r] = <<>> /\ Row(r)' = Row(r)
      BY <1>1, <1>6, <3>1 DEF Is, Row
    <3>6. PICK row : row = Row(r) /\ Sound(r, row)
      BY <2>1, <3>5
    <3>7. Sound(r, row)'
      BY <3>2, <3>3, <3>5, <3>6 DEF Sound
    <3>8. QED
      BY <3>4, <3>5, <3>6, <3>7 DEF Sound, PlanOf
  <2>3. CASE r \notin ToSet(q.runs)
    <3>1. members'[r] = members[r]
      BY <1>7, <2>3
    <3>2. members[r] # <<>> => plans'[members[r][1].campaign] = plans[members[r][1].campaign]
      BY <1>3, <1>4, <2>1 DEF Belongs
    <3>3. QED
      BY <1>1, <2>1, <3>1, <3>2 DEF Belongs, Exists, Row, Sound, PlanOf
  <2>4. QED
    BY <2>2, <2>3
<1>10. ASSUME NEW c \in CampaignIds PROVE Joined(c)'
  <2>1. CASE c = q.campaign
    <3>1. plans'[c][1].runs = q.runs
      BY <1>4, <1>5, <2>1
    <3>2. ASSUME NEW i \in DOMAIN q.runs PROVE Trial(c, q.runs, i)'
      <4>1. PICK m : /\ members'[q.runs[i]] = <<m>> /\ m.campaign = q.campaign /\ m.index = i
                     /\ m.since.status = "queued"
        BY <1>8
      <4>2. members'[q.runs[i]][1] = m /\ members'[q.runs[i]] # <<>>
        BY <4>1
      <4>3. Exists(q.runs[i])' /\ Alike(q.runs[i], q.runs[1])'
        BY <1>1, <1>6 DEF Is, Exists, Row, Alike
      <4>4. QED
        BY <2>1, <4>1, <4>2, <4>3 DEF Trial
    <3>3. Placed(c, q.runs)'
      BY <1>2, <3>2 DEF Placed
    <3>4. QED
      BY <3>1, <3>3 DEF Joined
  <2>2. CASE c # q.campaign
    <3>1. Joined(c) /\ plans'[c] = plans[c]
      BY <1>4, <2>2 DEF PInv
    <3>2. SUFFICES ASSUME NEW trials, Placed(c, trials), NEW i \in DOMAIN trials
                   PROVE  /\ members'[trials[i]] = members[trials[i]]
                          /\ Exists(trials[i])' /\ Alike(trials[i], trials[1])'
      BY <3>1, PlacedKeeps DEF Joined
    <3>3. /\ trials \in Seq(Runs) /\ Exists(trials[i]) /\ Alike(trials[i], trials[1])
          /\ members[trials[i]] # <<>>
      BY <3>2 DEF Placed, Trial
    <3>4. trials[i] \in Runs /\ trials[i] \notin ToSet(q.runs)
      BY <1>6, <3>2, <3>3 DEF ToSet
    <3>5. QED
      BY <1>1, <1>7, <3>3, <3>4 DEF Exists, Row, Alike
  <2>3. QED
    BY <2>1, <2>2
<1>11. ASSUME NEW o \in Sessions PROVE Secured(o)'
  <2>1. CASE o = s
    BY <2>1, CommitReleases
  <2>2. CASE o # s
    <3>1. Secured(o) /\ tx'[o] = tx[o]
      BY <2>2, CommitReleases DEF PInv
    <3>2. \A r, e : Is(r, "queued")' = Is(r, "queued") /\ Alike(r, e)' = Alike(r, e)
      BY <1>1 DEF Is, Exists, Row, Alike
    <3>3. CASE tx[o].pc = "commit" /\ tx[o].request.kind = "plan"
      <4>1. PICK p \in Requests : p = tx[o].request
        BY <3>3 DEF PInv, IInv, Shape
      <4>2. \A i \in DOMAIN p.runs : p.runs[i] \in Locked(o) /\ p.runs[i] \in Runs
        BY <3>1, <3>3, <4>1, PlanRequest DEF Secured, Locked
      <4>3. \A i \in DOMAIN q.runs : q.runs[i] \in Locked(s)
        BY <1>1, <1>6 DEF Locked
      <4>4. \A i \in DOMAIN p.runs : p.runs[i] \notin ToSet(q.runs)
        BY <2>2, <4>2, <4>3 DEF PInv, Excluded, ToSet
      <4>5. \A i \in DOMAIN p.runs : members'[p.runs[i]] = <<>>
        BY <1>7, <3>1, <3>3, <4>1, <4>2, <4>4 DEF Secured
      <4>6. QED
        BY <3>1, <3>3, <3>2, <4>1, <4>5 DEF Secured
    <3>4. CASE ~(tx[o].pc = "commit" /\ tx[o].request.kind = "plan")
      BY <3>1, <3>4, <3>2 DEF Secured
    <3>5. QED
      BY <3>3, <3>4
  <2>3. QED
    BY <2>1, <2>2
<1>12. QED
  BY <1>7, <1>9, <1>10, <1>11, CommitReleases DEF PInv

\* A commit of a revision, a Run or a plan (commit).
LEMMA CommitKeepsPlans ==
  ASSUME PInv, IInv', NEW s \in Sessions, commit(s)
  PROVE  PInv'
<1>1. PICK q \in Requests : q = tx[s].request
  BY DEF PInv, IInv, Shape, commit
<1>2. ~Found(q)
  BY <1>1 DEF PInv, IInv, StagedIsNew, commit
<1>3. insert_revision(q) \/ create_run(q) \/ create_campaign_plan(q)
  BY <1>1 DEF commit
<1>4. CASE insert_revision(q)
  BY <1>4, OtherCommits DEF insert_revision
<1>5. CASE create_run(q)
  <2>1. q.kind = "run" /\ q.run \in Runs /\ runs[q.run] = <<>> /\ UNCHANGED <<plans, members>>
    BY <1>2, <1>5, Kinds DEF create_run, Found, Exists
  <2>2. PICK row : row = Created(q.key, q.document)
    OBVIOUS
  <2>3. runs' = [runs EXCEPT ![q.run] = <<row>>]
    BY <1>5, <2>2 DEF create_run, Update
  <2>4. runs'[q.run] = <<row>> /\ \A r \in Runs : r # q.run => runs'[r] = runs[r]
    BY <2>1, <2>3 DEF PInv, IInv, Shape
  <2>5. \A r \in Runs : runs[r] # <<>> => runs'[r] = runs[r]
    BY <2>1, <2>4
  <2>6. \A r \in Runs : runs[r] = <<>> /\ runs'[r] # <<>> =>
          \E key, document : runs'[r] = <<Created(key, document)>>
    BY <2>2, <2>4
  <2>7. QED
    BY <2>1, <2>5, <2>6, OtherCommits
<1>6. CASE create_campaign_plan(q)
  BY <1>1, <1>2, <1>6, PlanCommits
<1>7. QED
  BY <1>3, <1>4, <1>5, <1>6

-----------------------------------------------------------------------------
(* The invariant, and what it is for.                                      *)

\* No Campaign has a plan, and no Run has done anything.
LEMMA InitHasNoPlans == Init => PInv
<1> SUFFICES ASSUME Init PROVE PInv
  OBVIOUS
<1>1. IInv
  BY InitHolds
<1>2. \A s \in Sessions : tx[s].pc = "idle" /\ Locked(s) = {}
  BY DEF Init, Idle, Locked
<1>3. Excluded /\ \A s \in Sessions : Secured(s)
  BY <1>2 DEF Excluded, Secured
<1>4. DOMAIN members = Runs /\ \A r \in Runs : members[r] = <<>> /\ Belongs(r)
  BY DEF Init, Belongs
<1>5. \A c \in CampaignIds : Joined(c)
  BY DEF Init, Joined
<1>6. ASSUME NEW r \in Runs, Exists(r) PROVE Sound(r, Row(r))
  <2>1. PICK row : /\ runs[r] = <<row>>
                   /\ \E key, document : row = Created(key, document)
    BY <1>6 DEF Init, Exists
  <2>2. /\ {"status", "attempt", "key", "document", "plan", "used"} \subseteq DOMAIN row
        /\ row.attempt = 0 /\ row.status = "queued" /\ row.plan = <<>> /\ row.used = {}
    BY <2>1 DEF Created
  <2>3. Row(r) = row
    BY <2>1 DEF Row
  <2>4. QED
    BY <1>4, <2>2, <2>3 DEF Sound
<1>7. QED
  BY <1>1, <1>3, <1>4, <1>5, <1>6 DEF PInv

\* PInv is inductive: sessions, workers, readers of statistics.
LEMMA NextKeepsPlans == PInv /\ [Next]_vars => PInv'
<1> SUFFICES ASSUME PInv, [Next]_vars PROVE PInv'
  OBVIOUS
<1>1. IInv'
  BY NextKeeps DEF PInv
<1>2. ASSUME NEW s \in Sessions, create(s) PROVE PInv'
  BY <1>1, <1>2, LookIsQuiet, LockIsQuiet, CheckIsQuiet, InsertIsQuiet, RollbackIsQuiet,
     CommitKeepsPlans DEF create
<1>3. ASSUME UNCHANGED <<tables, tx>> PROVE PInv'
  <2>1. UNCHANGED <<revisions, runs, plans, members, tx>>
    BY <1>3 DEF tables
  <2>2. \A r, e : /\ Exists(r)' = Exists(r) /\ Alike(r, e)' = Alike(r, e)
                 /\ Is(r, "queued")' = Is(r, "queued")
    BY <2>1 DEF Is, Exists, Row, Alike
  <2>3. Excluded'
    BY <2>1 DEF PInv, Excluded, Locked
  <2>4. \A r \in Runs : Belongs(r)' /\ (Exists(r) => Sound(r, Row(r)))'
    BY <2>1 DEF PInv, Belongs, Exists, Row, Sound, PlanOf
  <2>5. ASSUME NEW c \in CampaignIds PROVE Joined(c)'
    <3>1. Joined(c)
      BY DEF PInv
    <3>2. SUFFICES ASSUME NEW trials, Placed(c, trials), NEW i \in DOMAIN trials
                   PROVE  Exists(trials[i])' /\ Alike(trials[i], trials[1])'
      BY <2>1, <3>1, PlacedKeeps DEF Joined
    <3>3. Exists(trials[i]) /\ Alike(trials[i], trials[1])
      BY <3>2 DEF Placed, Trial
    <3>4. QED
      BY <2>2, <3>3
  <2>6. \A s \in Sessions : Secured(s)'
    <3>1. \A s \in Sessions : Secured(s)
      BY DEF PInv
    <3>2. QED
      BY <2>1, <2>2, <3>1 DEF Secured
  <2>7. QED
    BY <1>1, <2>1, <2>3, <2>4, <2>5, <2>6 DEF PInv
<1>4. ASSUME NEW r \in Runs, work(r) PROVE PInv'
  <2>1. /\ Free(r) /\ UNCHANGED <<revisions, plans, members, tx>>
        /\ UNCHANGED runs \/ (Exists(r) /\ Writes(r))
    BY <1>4, WorkWrites
  <2>2. CASE UNCHANGED runs
    BY <1>3, <2>1, <2>2 DEF tables
  <2>3. CASE Exists(r) /\ Writes(r)
    BY <1>1, <2>1, <2>3, WritesKeep
  <2>4. QED
    BY <2>1, <2>2, <2>3
<1>5. CASE campaign_cohort \/ authenticated_campaign_trial \/ aggregate_campaign
  BY <1>3, <1>5 DEF campaign_cohort, authenticated_campaign_trial, aggregate_campaign, tables
<1>6. CASE UNCHANGED vars
  BY <1>3, <1>6 DEF vars, tables
<1>7. QED
  BY <1>2, <1>4, <1>5, <1>6 DEF Next

\* Memberships lead to plans and back, so a Campaign's members are its trials.
LEMMA PlansAreHeld == PInv => PlansHold
<1> SUFFICES ASSUME PInv, NEW c \in CampaignIds, plans[c] # <<>>, NEW plan, plan = plans[c][1]
             PROVE  PlanHolds(c, plan)
  BY DEF PlansHold
<1>1. Joined(c)
  BY DEF PInv
<1>2. plan.runs \in Seq(Runs) /\ \A i \in DOMAIN plan.runs : Trial(c, plan.runs, i)
  BY <1>1 DEF Joined, Placed
<1>3. \A i \in DOMAIN plan.runs : plan.runs[i] \in Runs
  BY <1>2
<1>4. ASSUME NEW r \in Runs, members[r] # <<>>, members[r][1].campaign = c
      PROVE  r \in ToSet(plan.runs)
  BY <1>4 DEF PInv, Belongs
<1>5. {r \in Runs : members[r] # <<>> /\ members[r][1].campaign = c} = ToSet(plan.runs)
  <2>1. \A i \in DOMAIN plan.runs :
          members[plan.runs[i]] # <<>> /\ members[plan.runs[i]][1].campaign = c
    BY <1>2 DEF Trial
  <2>2. \A r \in ToSet(plan.runs) : \E i \in DOMAIN plan.runs : plan.runs[i] = r
    BY DEF ToSet
  <2>3. QED
    BY <1>3, <1>4, <2>1, <2>2
<1>6. ASSUME NEW i \in DOMAIN plan.runs
      PROVE  /\ Row(plan.runs[i]).used \subseteq {plan.faults}
             /\ members[plan.runs[i]][1].since.attempt = 0 =>
                  Row(plan.runs[i]).plan \in {<<>>, <<plan.faults>>}
  <2>1. PICK r \in Runs : r = plan.runs[i]
    BY <1>3
  <2>2. members[r] # <<>> /\ PlanOf(r) = plan /\ Exists(r)
    BY <1>2, <2>1 DEF PlanOf, Trial
  <2>3. Sound(r, Row(r))
    BY <2>2 DEF PInv
  <2>4. QED
    BY <2>1, <2>2, <2>3 DEF Sound
<1>7. QED
  BY <1>2, <1>5, <1>6 DEF Alike, Trial, PlanHolds

\* The plan of every Campaign has exactly its Runs, each at its index and in no
\* other Campaign; they were queued when it was committed, and execute under its
\* faults only, for any number of planners, workers, Runs and fault engines.
THEOREM PlansAreKept == Spec => []PlansHold
<1>1. Spec => []PInv
  BY InitHasNoPlans, NextKeepsPlans, PTL DEF Spec
<1>2. QED
  BY <1>1, PlansAreHeld, PTL

-----------------------------------------------------------------------------
(***************************************************************************)
(* Statistics that were published stay true.  The argument: a plan, once   *)
(* there, and the row of a completed Run, are never written again, so that *)
(* what a survey has read of them stays, however long it takes and whatever*)
(* evaluators, workers and planners do meanwhile.                          *)
(***************************************************************************)

\* The trials t are the verdicts of the first Runs of c's plan, in its order, each
\* completed under the plan's faults.
Tried(r, verdict, faults) ==
  Is(r, "completed") /\ Row(r).verdict = verdict /\ Row(r).plan = <<faults>>
Settled(c, t) ==
  /\ plans[c] # <<>> /\ t \in Seq(Verdicts)
  /\ Len(t) <= Len(plans[c][1].runs)
  /\ \A i \in 1 .. Len(t) : Tried(plans[c][1].runs[i], t[i], plans[c][1].faults)

\* What the rows look like; a completed Run has a verdict.
Rows ==
  /\ DOMAIN published = CampaignIds
  /\ \A c \in CampaignIds : plans[c] # <<>> => plans[c][1].runs \in Seq(Runs)
  /\ \A r \in Runs : Exists(r) =>
       /\ "status" \in DOMAIN Row(r) /\ "verdict" \in DOMAIN Row(r)
       /\ Row(r).status = "completed" => Row(r).verdict \in Verdicts

\* The survey on its way.
Reading ==
  survey = <<>> \/ \E c \in CampaignIds, t \in Seq(Verdicts) :
    survey = <<[campaign |-> c, trials |-> t]>> /\ Settled(c, t)

Out ==
  \A c \in CampaignIds : published[c] # <<>> =>
    Settled(c, published[c]) /\ Len(published[c]) = Len(plans[c][1].runs)

ResultInv == IInv /\ Rows /\ Reading /\ Out

\* A plan and the row of a completed Run are there for good.
Final ==
  /\ \A c \in CampaignIds : plans[c] # <<>> => plans'[c] = plans[c]
  /\ \A r \in Runs : Is(r, "completed") => runs'[r] = runs[r]

-----------------------------------------------------------------------------

\* Trials that were read stay what they were.
LEMMA FinalKeepsSettled ==
  ASSUME Rows, Final, NEW c \in CampaignIds, NEW t, Settled(c, t)
  PROVE  Settled(c, t)' /\ plans'[c] = plans[c]
<1>1. plans'[c] = plans[c]
  BY DEF Final, Settled, Tried
<1>2. ASSUME NEW i \in 1 .. Len(t)
      PROVE  LET r == plans[c][1].runs[i]
             IN runs'[r] = runs[r]
  <2>1. plans[c][1].runs[i] \in Runs
    BY DEF Rows, Settled, Tried
  <2>2. QED
    BY <2>1 DEF Final, Settled, Tried
<1>3. ASSUME NEW i \in 1 .. Len(t), NEW r, r = plans[c][1].runs[i]
      PROVE  Tried(r, t[i], plans[c][1].faults)'
  <2>1. Tried(r, t[i], plans[c][1].faults)
    BY <1>3 DEF Settled
  <2>2. QED
    BY <1>1, <1>2, <1>3, <2>1 DEF Tried, Is, Exists, Row
<1>4. QED
  BY <1>1, <1>3 DEF Settled

\* What is being read, and what was published, outlive a step that keeps them.
LEMMA FinalKeepsReading ==
  ASSUME Rows, Reading, Final, UNCHANGED survey
  PROVE  Reading'
<1>1. CASE survey = <<>>
  BY <1>1 DEF Reading
<1>2. CASE survey # <<>>
  <2>1. PICK c \in CampaignIds, t \in Seq(Verdicts) :
          survey = <<[campaign |-> c, trials |-> t]>> /\ Settled(c, t)
    BY <1>2 DEF Reading
  <2>2. Settled(c, t)'
    BY <2>1, FinalKeepsSettled
  <2>3. QED
    BY <2>1, <2>2 DEF Reading
<1>3. QED
  BY <1>1, <1>2

\* What was published outlives a step that keeps it.
LEMMA FinalKeepsOut ==
  ASSUME Rows, Out, Final, UNCHANGED published
  PROVE  Out'
<1>1. SUFFICES ASSUME NEW c \in CampaignIds, NEW t, published'[c] = t, t # <<>>
               PROVE  Settled(c, t)' /\ Len(t) = Len(plans'[c][1].runs)
  BY DEF Out, Settled, Tried
<1>2. Settled(c, t) /\ Len(t) = Len(plans[c][1].runs)
  BY <1>1 DEF Out
<1>3. QED
  BY <1>2, FinalKeepsSettled

\* A worker writes to rows of Runs that have not ended.
LEMMA WorkIsFinal ==
  ASSUME Shape, Rows, NEW r \in Runs, work(r)
  PROVE  Final /\ Rows' /\ UNCHANGED <<survey, published>>
<1>1. UNCHANGED <<plans, survey, published>>
  BY DEF work, claim_next_run, bind_run_fault_plan, transition_owned_run, requeue_expired_run,
         cancel_queued_run, execute_evaluation, terminalize_evaluator_failure, Elsewhere
<1>2. CASE UNCHANGED runs
  BY <1>1, <1>2 DEF Final, Rows, Exists, Row
<1>3. CASE ~UNCHANGED runs
  <2>1. Exists(r) /\ Row(r).status # "completed" /\ "status" \in DOMAIN Row(r) /\ "verdict" \in DOMAIN Row(r)
    BY <1>3 DEF Rows, work, claim_next_run, bind_run_fault_plan, transition_owned_run, ACTIVE,
         requeue_expired_run, cancel_queued_run, execute_evaluation, terminalize_evaluator_failure,
         still_evaluating, Is
  <2>2. \E row : /\ Update(r, row) /\ "status" \in DOMAIN row /\ "verdict" \in DOMAIN row
                 /\ row.status = "completed" => row.verdict \in Verdicts
    <3>1. CASE claim_next_run(r)
      <4> DEFINE row == [Row(r) EXCEPT !.status = "provisioning", !.attempt = @ + 1]
      <4>1. Update(r, row)
        BY <3>1 DEF claim_next_run
      <4>2. "status" \in DOMAIN row /\ "verdict" \in DOMAIN row /\ row.status = "provisioning"
        BY <2>1
      <4> HIDE DEF row
      <4>3. QED
        BY <4>1, <4>2
    <3>2. CASE bind_run_fault_plan(r)
      <4>1. PICK engine \in Engines :
              LET bound == effective_plan(r, engine)
              IN Update(r, [Row(r) EXCEPT !.status = "running",
                                          !.plan = IF bound = <<>> THEN @ ELSE bound,
                                          !.used = IF members[r] = <<>> THEN @
                                                   ELSE @ \cup {selected_fault_ids(engine)}])
        BY <3>2 DEF bind_run_fault_plan
      <4> DEFINE bound == effective_plan(r, engine)
                 row == [Row(r) EXCEPT !.status = "running",
                                       !.plan = IF bound = <<>> THEN @ ELSE bound,
                                       !.used = IF members[r] = <<>> THEN @
                                                ELSE @ \cup {selected_fault_ids(engine)}]
      <4>2. Update(r, row)
        BY <4>1
      <4>3. "status" \in DOMAIN row /\ "verdict" \in DOMAIN row /\ row.status = "running"
        BY <2>1
      <4> HIDE DEF row
      <4>4. QED
        BY <4>2, <4>3
    <3>3. CASE transition_owned_run(r)
      BY <2>1, <3>3 DEF transition_owned_run
    <3>4. CASE requeue_expired_run(r)
      BY <2>1, <3>4 DEF requeue_expired_run
    <3>5. CASE cancel_queued_run(r)
      BY <2>1, <3>5 DEF cancel_queued_run
    <3>6. CASE execute_evaluation(r)
      <4>1. PICK verdict \in Verdicts :
              Update(r, [Row(r) EXCEPT !.status = "completed", !.verdict = verdict])
        BY <1>3, <3>6 DEF execute_evaluation
      <4> DEFINE row == [Row(r) EXCEPT !.status = "completed", !.verdict = verdict]
      <4>2. Update(r, row)
        BY <4>1
      <4>3. "status" \in DOMAIN row /\ "verdict" \in DOMAIN row /\ row.verdict = verdict
        BY <2>1
      <4> HIDE DEF row
      <4>4. QED
        BY <4>2, <4>3
    <3>7. CASE terminalize_evaluator_failure(r)
      BY <1>3, <2>1, <3>7 DEF terminalize_evaluator_failure
    <3>8. QED
      BY <3>1, <3>2, <3>3, <3>4, <3>5, <3>6, <3>7 DEF work
  <2>3. PICK row : /\ Update(r, row) /\ "status" \in DOMAIN row /\ "verdict" \in DOMAIN row
                   /\ row.status = "completed" => row.verdict \in Verdicts
    BY <2>2
  <2>4. runs'[r] = <<row>> /\ \A o \in Runs : o # r => runs'[o] = runs[o]
    BY <2>3 DEF Shape, Update
  <2>5. <<row>>[1] = row /\ <<row>> # <<>>
    OBVIOUS
  <2>6. Rows'
    BY <1>1, <2>3, <2>4, <2>5 DEF Rows, Exists, Row
  <2>7. Final
    BY <1>1, <2>1, <2>4 DEF Final, Is
  <2>8. QED
    BY <1>1, <2>6, <2>7
<1>4. QED
  BY <1>2, <1>3

\* A commit adds rows: it finds no plan and no Run of the identity it creates.
LEMMA CommitIsFinal ==
  ASSUME IInv, Rows, NEW s \in Sessions, commit(s)
  PROVE  Final /\ Rows' /\ UNCHANGED <<survey, published>>
<1>1. UNCHANGED <<survey, published>>
  BY DEF commit, Beside
<1>2. PICK q \in Requests : q = tx[s].request /\ tx[s].pc = "commit"
  BY DEF IInv, Shape, commit
<1>3. ~Found(q)
  BY <1>2 DEF IInv, StagedIsNew
<1>4. CASE insert_revision(q)
  <2>1. UNCHANGED <<runs, plans>>
    BY <1>4 DEF insert_revision
  <2>2. QED
    BY <1>1, <2>1 DEF Final, Rows, Exists, Row
<1>5. CASE create_run(q)
  <2> DEFINE row == Created(q.key, q.document)
  <2>1. /\ q.run \in Runs /\ runs[q.run] = <<>> /\ UNCHANGED plans
        /\ runs'[q.run] = <<row>> /\ \A o \in Runs : o # q.run => runs'[o] = runs[o]
    BY <1>3, <1>5, Kinds DEF IInv, Shape, create_run, Found, Exists, Update
  <2>2. "status" \in DOMAIN row /\ "verdict" \in DOMAIN row /\ row.status = "queued"
    BY DEF Created
  <2> HIDE DEF row
  <2>3. <<row>>[1] = row /\ <<row>> # <<>>
    OBVIOUS
  <2>4. QED
    BY <1>1, <2>1, <2>2, <2>3 DEF Final, Rows, Is, Exists, Row
<1>6. CASE create_campaign_plan(q)
  <2> DEFINE plan == CampaignPlan(q)
  <2>1. /\ q.campaign \in CampaignIds /\ plans[q.campaign] = <<>> /\ UNCHANGED runs
        /\ plans'[q.campaign] = <<plan>> /\ \A c \in CampaignIds : c # q.campaign => plans'[c] = plans[c]
    BY <1>3, <1>6, Kinds DEF IInv, Shape, create_campaign_plan, Found
  <2>2. plan.runs \in Seq(Runs)
    <3>1. q.kind = "plan"
      BY <1>6 DEF create_campaign_plan
    <3>2. q.runs \in Seq(Runs)
      BY <3>1, CampaignAssumption DEF CampaignAssumption, RequestOK
    <3>3. QED
      BY <3>2 DEF CampaignPlan
  <2> HIDE DEF plan
  <2>3. <<plan>>[1] = plan /\ <<plan>> # <<>>
    OBVIOUS
  <2>4. QED
    BY <1>1, <2>1, <2>2, <2>3 DEF Final, Rows, Exists, Row
<1>7. QED
  BY <1>2, <1>4, <1>5, <1>6 DEF commit

\* No session writes over a plan or a completed Run (create).
LEMMA SessionIsFinal ==
  ASSUME IInv, Rows, NEW s \in Sessions, create(s)
  PROVE  Final /\ Rows' /\ UNCHANGED <<survey, published>>
<1>1. CASE commit(s)
  BY <1>1, CommitIsFinal
<1>2. CASE look(s) \/ lock(s) \/ check(s) \/ insert(s) \/ rollback(s)
  <2>1. UNCHANGED <<runs, plans, survey, published>>
    BY <1>2 DEF look, lock, check, insert, rollback, tables, Beside
  <2>2. QED
    BY <2>1 DEF Final, Rows, Exists, Row
<1>3. QED
  BY <1>1, <1>2 DEF create

-----------------------------------------------------------------------------
(* The steps of the statistics.                                            *)

\* A survey starts with no trial of a plan that is there (campaign_cohort).
LEMMA CohortReads ==
  ASSUME Rows, campaign_cohort
  PROVE  Reading'
<1>1. PICK c \in CampaignIds : plans[c] # <<>> /\ survey' = <<[campaign |-> c, trials |-> <<>>]>>
  BY DEF campaign_cohort
<1>2. plans' = plans /\ plans[c][1].runs \in Seq(Runs)
  BY <1>1 DEF Rows, campaign_cohort, tables
<1>3. <<>> \in Seq(Verdicts) /\ Len(<<>>) = 0
  OBVIOUS
<1>4. 1 .. Len(<<>>) = {} /\ 0 <= Len(plans[c][1].runs)
  BY <1>2, <1>3
<1>5. Settled(c, <<>>)'
  BY <1>1, <1>2, <1>3, <1>4 DEF Settled, Tried
<1>6. QED
  BY <1>1, <1>3, <1>5 DEF Reading

\* A trial is read of a completed Run, which has a verdict under the plan's faults.
LEMMA TrialReads ==
  ASSUME Rows, Reading, authenticated_campaign_trial
  PROVE  Reading'
<1>1. PICK c \in CampaignIds, t \in Seq(Verdicts) :
        survey = <<[campaign |-> c, trials |-> t]>> /\ Settled(c, t)
  BY DEF Reading, authenticated_campaign_trial
<1> DEFINE plan == plans[c][1]
           i == Len(t) + 1
           r == plan.runs[i]
<1>2. survey[1].campaign = c /\ survey[1].trials = t /\ Surveyed = plan
  BY <1>1 DEF Surveyed
<1>3. UNCHANGED <<runs, plans>> /\ Len(t) < Len(plan.runs) /\ plan.runs \in Seq(Runs)
  BY <1>1, <1>2 DEF Rows, Settled, Tried, authenticated_campaign_trial, tables
<1>4. r \in Runs
  BY <1>3
<1>5. CASE survey' = <<>>
  BY <1>5 DEF Reading
<1>6. CASE survey' # <<>>
  <2>1. /\ Is(r, "completed") /\ Row(r).plan = <<plan.faults>>
        /\ survey' = <<[survey[1] EXCEPT !.trials = @ \o <<Row(r).verdict>>]>>
    BY <1>2, <1>6 DEF authenticated_campaign_trial, evaluation_snapshot
  <2>2. PICK v \in Verdicts : v = Row(r).verdict
    BY <1>4, <2>1 DEF Rows, Is
  <2> DEFINE u == t \o <<v>>
  <2>3. /\ u \in Seq(Verdicts) /\ Len(u) = Len(t) + 1 /\ u[Len(t) + 1] = v
        /\ \A j \in 1 .. Len(t) : u[j] = t[j]
    OBVIOUS
  <2>4. survey' = <<[campaign |-> c, trials |-> u]>>
    <3>1. survey[1] = [campaign |-> c, trials |-> t]
      BY <1>1
    <3>2. survey' = <<[survey[1] EXCEPT !.trials = u]>>
      BY <1>2, <2>1, <2>2
    <3> HIDE DEF u
    <3>3. [survey[1] EXCEPT !.trials = u] = [campaign |-> c, trials |-> u]
      BY <3>1
    <3>4. QED
      BY <3>2, <3>3
  <2> HIDE DEF u
  <2>5. Settled(c, u)
    <3>1. ASSUME NEW j \in 1 .. Len(u)
          PROVE  LET o == plans[c][1].runs[j]
                 IN Is(o, "completed") /\ Row(o).verdict = u[j] /\ Row(o).plan = <<plans[c][1].faults>>
      <4>1. CASE j = i
        BY <2>1, <2>2, <2>3, <4>1
      <4>2. CASE j \in 1 .. Len(t)
        BY <1>1, <2>3, <4>2 DEF Settled, Tried
      <4>3. QED
        BY <2>3, <4>1, <4>2
    <3>2. Len(u) <= Len(plans[c][1].runs)
      BY <1>3, <2>3
    <3>3. QED
      BY <1>1, <2>3, <3>1, <3>2 DEF Settled, Tried
  <2>6. Settled(c, u)'
    BY <1>3, <2>5 DEF Settled, Tried, Is, Exists, Row
  <2>7. QED
    BY <2>3, <2>4, <2>6 DEF Reading
<1>7. QED
  BY <1>5, <1>6

\* What is published has been read of every Run of the plan.
LEMMA AggregatePublishes ==
  ASSUME Rows, Reading, Out, aggregate_campaign
  PROVE  Reading' /\ Out'
<1>1. PICK c \in CampaignIds, t \in Seq(Verdicts) :
        survey = <<[campaign |-> c, trials |-> t]>> /\ Settled(c, t)
  BY DEF Reading, aggregate_campaign
<1>2. survey[1].campaign = c /\ survey[1].trials = t /\ Surveyed = plans[c][1]
  BY <1>1 DEF Surveyed
<1>3. /\ UNCHANGED <<runs, plans>> /\ survey' = <<>>
      /\ published' = [published EXCEPT ![c] = t] /\ Len(t) = Len(plans[c][1].runs)
  BY <1>2 DEF aggregate_campaign, tables
<1>4. ASSUME NEW d \in CampaignIds, NEW u, published'[d] = u, u # <<>>
      PROVE  Settled(d, u)' /\ Len(u) = Len(plans'[d][1].runs)
  <2>1. Settled(d, u) /\ Len(u) = Len(plans[d][1].runs)
    <3>1. CASE d = c
      BY <1>1, <1>3, <1>4, <3>1 DEF Rows
    <3>2. CASE d # c
      BY <1>3, <1>4, <3>2 DEF Rows, Out
    <3>3. QED
      BY <3>1, <3>2
  <2>2. QED
    BY <1>3, <2>1 DEF Settled, Tried, Is, Exists, Row
<1>5. Out'
  BY <1>4 DEF Out, Settled, Tried
<1>6. QED
  BY <1>3, <1>5 DEF Reading

-----------------------------------------------------------------------------
(* The invariant, and what it is for.                                      *)

\* Nothing is read or published.
LEMMA ResultInit == Init => ResultInv
<1> SUFFICES ASSUME Init PROVE ResultInv
  OBVIOUS
<1>1. IInv
  BY InitHolds
<1>2. ASSUME NEW r \in Runs, Exists(r)
      PROVE  /\ "status" \in DOMAIN Row(r) /\ "verdict" \in DOMAIN Row(r)
             /\ Row(r).status # "completed"
  <2> DEFINE k == Seeded.runs[r][1]
             row == Created(k, Seeded.revisions[k][1])
  <2>1. runs[r] = <<row>>
    BY <1>2 DEF Init, Exists
  <2>2. "status" \in DOMAIN row /\ "verdict" \in DOMAIN row /\ row.status = "queued"
    BY DEF Created
  <2> HIDE DEF row
  <2>3. QED
    BY <2>1, <2>2 DEF Row
<1>3. Rows /\ Reading /\ Out
  BY <1>2 DEF Init, Rows, Reading, Out
<1>4. QED
  BY <1>1, <1>3 DEF ResultInv

\* ResultInv is inductive: sessions, workers, readers of statistics.
LEMMA ResultNext == ResultInv /\ [Next]_vars => ResultInv'
<1> SUFFICES ASSUME ResultInv, [Next]_vars PROVE ResultInv'
  OBVIOUS
<1>0. Shape /\ IInv /\ Rows /\ Reading /\ Out
  BY DEF ResultInv, IInv
<1>1. IInv'
  BY <1>0, NextKeeps
<1>2. ASSUME NEW s \in Sessions, create(s)
      PROVE  Rows' /\ Reading' /\ Out'
  BY <1>0, <1>2, SessionIsFinal, FinalKeepsReading, FinalKeepsOut
<1>3. ASSUME NEW r \in Runs, work(r)
      PROVE  Rows' /\ Reading' /\ Out'
  BY <1>0, <1>3, WorkIsFinal, FinalKeepsReading, FinalKeepsOut
<1>4. ASSUME UNCHANGED <<runs, plans>>
      PROVE  Final
  BY <1>4 DEF Final
<1>5. CASE campaign_cohort \/ authenticated_campaign_trial
  <2>1. UNCHANGED <<runs, plans, published>>
    BY <1>5 DEF campaign_cohort, authenticated_campaign_trial, tables
  <2>2. Rows'
    BY <1>0, <2>1 DEF Rows, Exists, Row
  <2>3. QED
    BY <1>0, <1>1, <1>4, <1>5, <2>1, <2>2, CohortReads, TrialReads, FinalKeepsOut DEF ResultInv
<1>6. CASE aggregate_campaign
  <2>1. UNCHANGED <<runs, plans>> /\ DOMAIN published' = DOMAIN published
    BY <1>6 DEF aggregate_campaign, tables
  <2>2. Rows'
    BY <1>0, <2>1 DEF Rows, Exists, Row
  <2>3. QED
    BY <1>0, <1>1, <1>6, <2>2, AggregatePublishes DEF ResultInv
<1>7. CASE UNCHANGED vars
  <2>1. UNCHANGED <<runs, plans, survey, published>>
    BY <1>7 DEF vars, tables
  <2>2. Rows'
    BY <1>0, <2>1 DEF Rows, Exists, Row
  <2>3. QED
    BY <1>0, <1>1, <1>4, <2>1, <2>2, FinalKeepsReading, FinalKeepsOut DEF ResultInv
<1>8. QED
  BY <1>1, <1>2, <1>3, <1>5, <1>6, <1>7 DEF Next, ResultInv

\* What was read of every Run of the plan is what PublishedStands says.
LEMMA ResultStands == ResultInv => PublishedStands
<1> SUFFICES ASSUME ResultInv, NEW c \in CampaignIds, published[c] # <<>>
             PROVE  LET plan == plans[c][1]
                    IN /\ Len(published[c]) = Len(plan.runs)
                       /\ \A i \in DOMAIN plan.runs :
                            LET r == plan.runs[i]
                            IN /\ Is(r, "completed") /\ Row(r).verdict = published[c][i]
                               /\ Row(r).plan = <<plan.faults>>
  BY DEF PublishedStands
<1>1. Settled(c, published[c]) /\ Len(published[c]) = Len(plans[c][1].runs)
  BY DEF ResultInv, Out
<1>2. DOMAIN plans[c][1].runs = 1 .. Len(published[c])
  BY <1>1 DEF ResultInv, Rows, Settled, Tried
<1>3. QED
  BY <1>1, <1>2 DEF Settled, Tried

\* Statistics stay what their Runs say, for any number of Runs, trials, sessions
\* and evaluators: no failure, lost answer or expired lease withdraws a verdict
\* that was read, and no plan changes under a survey.
THEOREM PublishedIsKept == Spec => []PublishedStands
<1>1. Spec => []ResultInv
  BY ResultInit, ResultNext, PTL DEF Spec
<1>2. QED
  BY <1>1, ResultStands, PTL

-----------------------------------------------------------------------------
(***************************************************************************)
(* Sessions never wait for each other in a circle, however many there are  *)
(* and however many Runs their plans overlap in.  The argument: who waits  *)
(* for an insert waits for a session that waits for nothing, and who waits *)
(* for a row has locked smaller ones only, so that in a circle of those the*)
(* row waited for would grow for ever.                                     *)
(***************************************************************************)

\* A session locks the rows it found in their order.
Ascending(s) ==
  tx[s].pc = "lock" =>
    /\ {"locked", "rows"} \subseteq DOMAIN tx[s] /\ tx[s].rows \subseteq Runs
    /\ tx[s].locked \subseteq tx[s].rows
    /\ \A had \in tx[s].locked, wanted \in Wanted(s) : had < wanted

WInv == IInv /\ \A s \in Sessions : Ascending(s)

-----------------------------------------------------------------------------
(* Orders.                                                                 *)

\* A set of numbers has a least one.
LEMMA Least ==
  ASSUME NEW T, T \subseteq Nat, T # {}
  PROVE  \E m \in T : \A n \in T : m <= n
<1>1. PICK m \in T : \A n \in T : <<n, m>> \notin OpToRel(<, Nat)
  BY WFMin, NatLessThanWellFounded, Zenon
<1>2. ASSUME NEW n \in T PROVE m <= n
  <2>1. m \in Nat /\ n \in Nat
    OBVIOUS
  <2>2. ~(n < m)
    BY <1>1, <2>1 DEF OpToRel
  <2>3. QED
    BY <2>1, <2>2
<1>3. QED
  BY <1>2

\* Numbers given to a finite set have a greatest one: the fewest are above it.
LEMMA Greatest ==
  ASSUME NEW S, IsFiniteSet(S), S # {}, NEW f, \A x \in S : f[x] \in Nat
  PROVE  \E x \in S : \A y \in S : f[y] <= f[x]
<1> DEFINE above(x) == {y \in S : f[x] < f[y]}
<1>1. \A x \in S : IsFiniteSet(above(x)) /\ Cardinality(above(x)) \in Nat
  BY FS_Subset, FS_CardinalityType
<1> DEFINE T == {Cardinality(above(x)) : x \in S}
<1>2. PICK m \in T : \A n \in T : m <= n
  <2>1. T \subseteq Nat /\ T # {}
    BY <1>1
  <2> HIDE DEF T
  <2>2. QED
    BY <2>1, Least
<1>3. PICK x \in S : m = Cardinality(above(x))
  OBVIOUS
<1>4. ASSUME NEW y \in S, f[x] < f[y] PROVE FALSE
  <2>1. above(y) \subseteq above(x) /\ y \in above(x) /\ y \notin above(y)
    BY <1>4
  <2>2. Cardinality(above(x)) <= Cardinality(above(y))
    BY <1>2, <1>3
  <2> HIDE DEF above
  <2>3. Cardinality(above(y)) <= Cardinality(above(x)) /\ Cardinality(above(x)) # Cardinality(above(y))
    BY <1>1, <2>1, FS_Subset
  <2>4. QED
    BY <1>1, <2>2, <2>3
<1>5. QED
  BY <1>4

\* The row a session wants next is the least of those it wants.
LEMMA NextIsLeast ==
  ASSUME NEW s \in Sessions, Ascending(s), tx[s].pc = "lock", Wanted(s) # {}
  PROVE  /\ NextLock(s) \in Wanted(s) /\ NextLock(s) \in Nat
         /\ \A r \in Wanted(s) : r \in Nat /\ NextLock(s) <= r
<1>1. Wanted(s) \subseteq Nat
  BY CampaignAssumption DEF CampaignAssumption, Ascending, Wanted
<1>2. \E m \in Wanted(s) : \A r \in Wanted(s) : m <= r
  BY <1>1, Least
<1>3. QED
  BY <1>1, <1>2 DEF NextLock

-----------------------------------------------------------------------------
(* Rows are locked in their order.                                         *)

\* A session that is not locking rows has no order to keep.
LEMMA OtherwiseAscending ==
  ASSUME WInv, IInv', NEW s \in Sessions, \A o \in Sessions : o # s => tx'[o] = tx[o],
         tx'[s].pc # "lock"
  PROVE  WInv'
BY DEF WInv, Ascending, Wanted

\* The look finds the rows, and has none of them yet (look).
LEMMA LookAscends ==
  ASSUME WInv, IInv', NEW s \in Sessions, look(s)
  PROVE  WInv'
<1>1. PICK q \in Requests :
        IF Found(q) THEN Answer(s, q, same_or_conflict(q))
        ELSE IF ~Ready(q) THEN Answer(s, q, "conflict")
        ELSE tx' = [tx EXCEPT ![s] =
               IF q.kind = "plan"
               THEN [pc |-> "lock", request |-> q, locked |-> {},
                     rows |-> {r \in ToSet(q.runs) : Exists(r)}]
               ELSE [pc |-> "insert", request |-> q, locked |-> {}]]
  BY DEF look
<1>2. DOMAIN tx = Sessions
  BY DEF WInv, IInv, Shape
<1>3. CASE Found(q) \/ ~Ready(q)
  <2>1. PICK outcome : Answer(s, q, outcome)
    BY <1>1, <1>3
  <2>2. /\ \A o \in Sessions : o # s => tx'[o] = tx[o]
        /\ tx'[s].pc # "lock"
    BY <1>2, <2>1 DEF Answer, Idle
  <2>3. QED
    BY <2>2, OtherwiseAscending
<1>4. CASE ~Found(q) /\ Ready(q) /\ q.kind = "plan"
  <2>1. PICK row : row = [pc |-> "lock", request |-> q, locked |-> {},
                          rows |-> {r \in ToSet(q.runs) : Exists(r)}]
    OBVIOUS
  <2>2. {"locked", "rows"} \subseteq DOMAIN row /\ row.locked = {} /\ row.rows \subseteq ToSet(q.runs)
    BY <2>1
  <2>3. ToSet(q.runs) \subseteq Runs
    BY <1>4, CampaignAssumption DEF CampaignAssumption, RequestOK, ToSet
  <2>4. tx'[s] = row /\ \A o \in Sessions : o # s => tx'[o] = tx[o]
    BY <1>1, <1>2, <1>4, <2>1
  <2>5. Ascending(s)'
    BY <2>2, <2>3, <2>4 DEF Ascending
  <2>6. QED
    BY <2>4, <2>5 DEF WInv, Ascending, Wanted
<1>5. CASE ~Found(q) /\ Ready(q) /\ q.kind # "plan"
  <2>1. tx'[s] = [pc |-> "insert", request |-> q, locked |-> {}]
        /\ \A o \in Sessions : o # s => tx'[o] = tx[o]
    BY <1>1, <1>2, <1>5
  <2>2. QED
    BY <2>1, OtherwiseAscending
<1>6. QED
  BY <1>3, <1>4, <1>5

\* The next row is the least of those that are left (lock).
LEMMA LockAscends ==
  ASSUME WInv, IInv', NEW s \in Sessions, lock(s)
  PROVE  WInv'
<1>1. tx[s].pc = "lock" /\ Ascending(s) /\ DOMAIN tx = Sessions
  BY DEF lock, WInv, IInv, Shape
<1>2. CASE Wanted(s) = {}
  <2>1. tx' = [tx EXCEPT ![s].pc = "check"]
    BY <1>2 DEF lock, Step
  <2>2. /\ \A o \in Sessions : o # s => tx'[o] = tx[o]
        /\ tx'[s].pc # "lock"
    BY <1>1, <2>1 DEF WInv, IInv, Shape
  <2>3. QED
    BY <2>2, OtherwiseAscending
<1>3. CASE Wanted(s) # {}
  <2>1. PICK next : /\ next = NextLock(s) /\ next \in Wanted(s) /\ next \in Nat
                    /\ \A r \in Wanted(s) : r \in Nat /\ next <= r
    BY <1>1, <1>3, NextIsLeast
  <2>2. tx' = [tx EXCEPT ![s].locked = @ \cup {next}]
    BY <1>3, <2>1 DEF lock
  <2>3. /\ \A o \in Sessions : o # s => tx'[o] = tx[o]
        /\ DOMAIN tx'[s] = DOMAIN tx[s] /\ tx'[s].rows = tx[s].rows
        /\ tx'[s].locked = tx[s].locked \cup {next}
    BY <1>1, <2>2 DEF Ascending
  <2>4. Wanted(s)' = Wanted(s) \ {next}
    BY <2>3 DEF Wanted
  <2>5. ASSUME NEW r \in Wanted(s)' PROVE next < r
    <3>1. r \in Wanted(s) /\ r # next
      BY <2>4
    <3>2. QED
      BY <2>1, <3>1
  <2>6. Ascending(s)'
    BY <1>1, <2>1, <2>3, <2>4, <2>5 DEF Ascending, Wanted
  <2>7. QED
    BY <2>3, <2>6 DEF WInv, Ascending, Wanted
<1>4. QED
  BY <1>2, <1>3

\* The other steps of a session are not about locks (check, insert, commit, rollback).
LEMMA OthersAscend ==
  ASSUME WInv, IInv', NEW s \in Sessions, check(s) \/ insert(s) \/ commit(s) \/ rollback(s)
  PROVE  WInv'
<1>1. DOMAIN tx = Sessions /\ "pc" \in DOMAIN tx[s]
  BY DEF WInv, IInv, Shape
<1>2. \/ \E q, outcome : Answer(s, q, outcome)
      \/ \E pc \in {"insert", "commit"} : Step(s, pc)
      \/ tx' = [tx EXCEPT ![s] = Idle]
  BY DEF check, insert, commit, rollback
<1>3. /\ \A o \in Sessions : o # s => tx'[o] = tx[o]
      /\ tx'[s].pc # "lock"
  BY <1>1, <1>2 DEF Answer, Step, Idle
<1>4. QED
  BY <1>3, OtherwiseAscending

\* No session has begun.
LEMMA InitAscends == Init => WInv
<1> SUFFICES ASSUME Init PROVE WInv
  OBVIOUS
<1>1. \A s \in Sessions : tx[s].pc = "idle"
  BY DEF Init, Idle
<1>2. QED
  BY <1>1, InitHolds DEF WInv, Ascending

\* WInv is inductive: sessions, workers, readers of statistics.
LEMMA NextAscends == WInv /\ [Next]_vars => WInv'
<1> SUFFICES ASSUME WInv, [Next]_vars PROVE WInv'
  OBVIOUS
<1>1. IInv'
  BY NextKeeps DEF WInv
<1>2. ASSUME UNCHANGED tx PROVE WInv'
  BY <1>1, <1>2 DEF WInv, Ascending, Wanted
<1>3. ASSUME NEW s \in Sessions, create(s) PROVE WInv'
  BY <1>1, <1>3, LookAscends, LockAscends, OthersAscend DEF create
<1>4. ASSUME NEW r \in Runs, work(r) PROVE WInv'
  BY <1>2, <1>4, WorkKeeps DEF WInv, IInv
<1>5. CASE campaign_cohort \/ authenticated_campaign_trial \/ aggregate_campaign \/ UNCHANGED vars
  BY <1>2, <1>5 DEF campaign_cohort, authenticated_campaign_trial, aggregate_campaign, vars
<1>6. QED
  BY <1>3, <1>4, <1>5 DEF Next

-----------------------------------------------------------------------------
(* Waiting.                                                                *)

\* Who waits for an insert waits for a session that has done its own.
LEMMA HoldersWaitForNobody ==
  ASSUME NEW s \in Sessions, NEW o \in Holders(s)
  PROVE  Blockers(o) = {}
BY DEF Holders, Blockers

\* Who waits for a row that another waiting session has waits for a smaller one.
LEMMA WaitingClimbs ==
  ASSUME WInv, NEW s \in Sessions, NEW o \in Sessions,
         tx[s].pc = "lock", Wanted(s) # {}, tx[o].pc = "lock", Wanted(o) # {},
         NextLock(s) \in Locked(o)
  PROVE  NextLock(s) < NextLock(o)
<1>1. Ascending(o) /\ NextLock(o) \in Wanted(o)
  BY NextIsLeast DEF WInv
<1>2. NextLock(s) \in tx[o].locked
  BY DEF Locked
<1>3. QED
  BY <1>1, <1>2 DEF Ascending

\* In every set of sessions there is one that waits for none of them.
LEMMA NobodyWaitsInACircle == WInv => NoWaitCycle
<1> SUFFICES ASSUME WInv, NEW S \in SUBSET Sessions, S # {},
                    \A s \in S : Blockers(s) \cap S # {}
             PROVE  FALSE
  BY DEF NoWaitCycle
<1>1. ASSUME NEW s \in S
      PROVE  /\ tx[s].pc = "lock" /\ Wanted(s) # {}
             /\ \E o \in S : NextLock(s) \in Locked(o)
  <2>1. PICK o \in S : o \in Blockers(s)
    OBVIOUS
  <2>2. ~(tx[s].pc = "insert")
    <3>1. tx[s].pc = "insert" => Blockers(s) = Holders(s)
      BY DEF Blockers
    <3>2. QED
      BY <2>1, <3>1, HoldersWaitForNobody
  <2>3. QED
    BY <2>1, <2>2 DEF Blockers
<1>2. PICK row : row = [s \in S |-> NextLock(s)]
  OBVIOUS
<1>3. \A s \in S : row[s] \in Nat
  BY <1>1, <1>2, NextIsLeast DEF WInv
<1>4. \A s \in S : \E o \in S : row[s] < row[o]
  BY <1>1, <1>2, WaitingClimbs
<1>5. IsFiniteSet(S)
  BY CampaignAssumption, FS_Subset DEF CampaignAssumption
<1>6. PICK s \in S : \A o \in S : row[o] <= row[s]
  BY <1>3, <1>5, Greatest
<1>7. QED
  BY <1>3, <1>4, <1>6

\* Planners that lock overlapping Runs, and sessions that wait for each other's
\* insert, never wait in a circle, for any number of sessions, Runs and plans.
THEOREM NobodyWaitsForever == Spec => []NoWaitCycle
<1>1. Spec => []WInv
  BY InitAscends, NextAscends, PTL DEF Spec
<1>2. QED
  BY <1>1, NobodyWaitsInACircle, PTL
=============================================================================
