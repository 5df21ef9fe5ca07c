---------------------------- MODULE RunLifecycle ----------------------------
(***************************************************************************)
(* The Run lifecycle and lease protocol of the persistence package         *)
(* (lifecycle.py and the coordination methods of repository.py).           *)
(*                                                                         *)
(* A Run is one row of the table "runs" plus its evidence, the rows of     *)
(* "run_events".  Every operation runs in a transaction its caller owns:   *)
(* it takes the row lock, checks its compare-and-swap guard against the    *)
(* row and PostgreSQL's clock, stages the new row and the new event, and   *)
(* only a later COMMIT makes them visible.  Time passes, other sessions    *)
(* run and the session may die between the two.                            *)
(*                                                                         *)
(* Covered: claim, heartbeat, owned transition, queued cancellation,       *)
(* recovery of an expired lease, work fenced by lock_current_lease,        *)
(* evidence appended without a lease (an approval's resolution), commit    *)
(* and rollback, and callers that act on what they read long ago.          *)
(***************************************************************************)
EXTENDS Naturals, Sequences, FiniteSetsExt

CONSTANTS
  Runs,           \* run_id
  Workers,        \* worker_id of the processes that claim Runs
  Operators,      \* callers without a lease: control plane, lease reaper
  LeaseDuration,  \* lease_duration_seconds, in clock ticks
  Nobody,         \* SQL NULL in the column lease_owner
  MaxClaims,      \* bound: claims attempted, one fresh lease token each
  MaxClock,       \* bound: ticks of PostgreSQL's clock
  MaxVersion,     \* bound: lifecycle_version
  MaxEvents       \* bound: rows of run_events of one Run

ASSUME ConstantsAssumption ==
  /\ LeaseDuration \in Nat \ {0}
  /\ MaxClaims \in Nat /\ MaxClock \in Nat
  /\ MaxVersion \in Nat /\ MaxEvents \in Nat
  /\ Nobody \notin Workers

VARIABLES
  clock,    \* clock_timestamp() of the database
  db,       \* committed row and evidence of each Run
  staged,   \* the same as the transaction that holds the row lock sees it
  locked,   \* Runs whose row some open transaction has locked
  tx,       \* the lease whose holder owns that transaction, NoToken if none
  leases,   \* LeaseIdentity handed out per claim; the position is the token
  seen      \* the row an operator last read, its basis for a later CAS

vars == <<clock, db, staged, locked, tx, leases, seen>>

-----------------------------------------------------------------------------
(* Statuses and the transition rules of lifecycle.py.                      *)

ACTIVE_STATUSES   == {"provisioning", "running", "evaluating"}
TERMINAL_STATUSES == {"completed", "failed", "timed_out", "cancelled", "infra_error"}
RUN_STATUSES      == {"queued"} \cup ACTIVE_STATUSES \cup TERMINAL_STATUSES

\* What the holder of a lease may make of the Run.  Only evaluation completes it.
owned_targets(source) ==
  CASE source = "provisioning" -> {"running"} \cup (TERMINAL_STATUSES \ {"completed"})
    [] source = "running"      -> {"evaluating"} \cup (TERMINAL_STATUSES \ {"completed"})
    [] source = "evaluating"   -> TERMINAL_STATUSES
    [] OTHER                   -> {}

-----------------------------------------------------------------------------
(* Rows, events and leases.                                                *)

NoToken == 0
NoExpiry == 0

EVENT_TYPES == {"run.lifecycle", "fenced", "unfenced"}
NoState == "none"

\* "by" names the lease the writer held, NoToken for a writer without one.
Event == [type : EVENT_TYPES, previous_state : RUN_STATUSES \cup {NoState},
          state : RUN_STATUSES \cup {NoState}, by : Nat]

LifecycleEvent(previous, state, t) ==
  [type |-> "run.lifecycle", previous_state |-> previous, state |-> state, by |-> t]

OtherEvent(type, t) ==
  [type |-> type, previous_state |-> NoState, state |-> NoState, by |-> t]

Row == [status : RUN_STATUSES, lifecycle_version : Nat,
        lease_owner : Workers \cup {Nobody}, lease_token : Nat,
        lease_expires_at : Nat, attempt : Nat, events : Seq(Event)]

LeaseIdentity == [run : Runs, worker : Workers, attempt : Nat, version : Nat]

NewRun ==
  [status |-> "queued", lifecycle_version |-> 0, lease_owner |-> Nobody,
   lease_token |-> NoToken, lease_expires_at |-> NoExpiry, attempt |-> 0,
   events |-> <<>>]

\* What a read of the Run returns: its columns, not its evidence.
RunRecord(row) == [row EXCEPT !.events = <<>>]

Snapshot == [run : Runs, row : Row]

Init ==
  /\ clock = 0
  /\ db = [r \in Runs |-> NewRun]
  /\ staged = db
  /\ locked = {}
  /\ tx = [r \in Runs |-> NoToken]
  /\ leases = <<>>
  /\ seen \in [Operators -> [run : Runs, row : {NewRun}]]

-----------------------------------------------------------------------------
(* Transactions.                                                           *)

\* The session of lease t may write row r: nobody else has locked it.
Writable(r, t) == r \notin locked \/ (t # NoToken /\ tx[r] = t)

\* The row lock is taken (or kept) and the new row waits for COMMIT.
Stage(r, t, row) ==
  /\ row.lifecycle_version <= MaxVersion
  /\ Len(row.events) <= MaxEvents
  /\ staged' = [staged EXCEPT ![r] = row]
  /\ locked' = locked \cup {r}
  /\ tx' = [tx EXCEPT ![r] = t]
  /\ UNCHANGED <<clock, db>>

Commit(r) ==
  /\ r \in locked
  /\ db' = [db EXCEPT ![r] = staged[r]]
  /\ locked' = locked \ {r}
  /\ tx' = [tx EXCEPT ![r] = NoToken]
  /\ UNCHANGED <<clock, staged, leases, seen>>

\* An explicit ROLLBACK, an exception, or the death of the session.
Rollback(r) ==
  /\ r \in locked
  /\ staged' = [staged EXCEPT ![r] = db[r]]
  /\ locked' = locked \ {r}
  /\ tx' = [tx EXCEPT ![r] = NoToken]
  /\ UNCHANGED <<clock, db, leases, seen>>

Tick ==
  /\ clock < MaxClock
  /\ clock' = clock + 1
  /\ UNCHANGED <<db, staged, locked, tx, leases, seen>>

\* Mutant: the token is not among the columns that are cleared.
ClearLease_KeepsToken(row) ==
  [row EXCEPT !.lease_owner = Nobody, !.lease_expires_at = NoExpiry]

\* The row with its lease columns set to NULL.
ClearLease(row) ==
  [row EXCEPT !.lease_owner = Nobody, !.lease_token = NoToken, !.lease_expires_at = NoExpiry]

\* Mutant: the status moves but its evidence is not appended.
MoveTo_NoEvent(row, target, t) ==
  [row EXCEPT !.status = target, !.lifecycle_version = @ + 1]

\* The row in a new status, with the lifecycle event of the same savepoint.
MoveTo(row, target, t) ==
  [row EXCEPT !.status = target, !.lifecycle_version = @ + 1,
              !.events = Append(@, LifecycleEvent(row.status, target, t))]

-----------------------------------------------------------------------------
(* Operations of a worker.                                                 *)

\* The owner, token, attempt and expiry every worker mutation has to prove.
\* Mutant: the random token is not compared.
OwnsRun_NoToken(row, t) ==
  /\ row.status \in ACTIVE_STATUSES
  /\ row.lease_owner = leases[t].worker
  /\ row.attempt = leases[t].attempt

OwnsRun(row, t) ==
  /\ row.status \in ACTIVE_STATUSES
  /\ row.lease_owner = leases[t].worker
  /\ row.lease_token = t
  /\ row.attempt = leases[t].attempt

HoldsLease(row, t) == OwnsRun(row, t) /\ row.lease_expires_at > clock

\* Mutant: any unleased Run can be claimed, a finished one too.
claim_next_run_AnyUnleased(w, r) ==
  LET t == Len(leases) + 1
      row == staged[r]
  IN /\ Len(leases) < MaxClaims
     /\ r \notin locked
     /\ row.lease_owner = Nobody /\ row.lease_token = NoToken
     /\ Stage(r, NoToken,
              [MoveTo(row, "provisioning", t) EXCEPT
                 !.lease_owner = w, !.lease_token = t, !.attempt = row.attempt + 1,
                 !.lease_expires_at = clock + LeaseDuration])
     /\ leases' = Append(leases, [run |-> r, worker |-> w, attempt |-> row.attempt + 1,
                                  version |-> row.lifecycle_version + 1])
     /\ UNCHANGED seen

\* A claim skips locked rows; the credentials exist as soon as the call returns,
\* whether or not the transaction commits.
claim_next_run(w, r) ==
  LET t == Len(leases) + 1
      row == staged[r]
  IN /\ Len(leases) < MaxClaims
     /\ r \notin locked
     /\ row.status = "queued"
     /\ row.lease_owner = Nobody /\ row.lease_token = NoToken
     /\ Stage(r, NoToken,
              [MoveTo(row, "provisioning", t) EXCEPT
                 !.lease_owner = w, !.lease_token = t, !.attempt = row.attempt + 1,
                 !.lease_expires_at = clock + LeaseDuration])
     /\ leases' = Append(leases, [run |-> r, worker |-> w, attempt |-> row.attempt + 1,
                                  version |-> row.lifecycle_version + 1])
     /\ UNCHANGED seen

\* Mutant: a heartbeat is not a coordination mutation and leaves the version.
heartbeat_NoBump(t) ==
  LET r == leases[t].run
      row == staged[r]
  IN /\ Writable(r, t)
     /\ HoldsLease(row, t)
     /\ row.lifecycle_version = leases[t].version
     /\ Stage(r, t, [row EXCEPT !.lease_expires_at = clock + LeaseDuration])
     /\ UNCHANGED <<leases, seen>>

heartbeat(t) ==
  LET r == leases[t].run
      row == staged[r]
  IN /\ Writable(r, t)
     /\ HoldsLease(row, t)
     /\ row.lifecycle_version = leases[t].version
     /\ Stage(r, t, [row EXCEPT !.lifecycle_version = @ + 1,
                                !.lease_expires_at = clock + LeaseDuration])
     /\ UNCHANGED <<leases, seen>>

transition_owned_run(t, target) ==
  LET r == leases[t].run
      row == staged[r]
      moved == MoveTo(row, target, t)
  IN /\ Writable(r, t)
     /\ target \in owned_targets(row.status)
     /\ HoldsLease(row, t)
     /\ row.lifecycle_version = leases[t].version
     /\ Stage(r, t, IF target \in TERMINAL_STATUSES THEN ClearLease(moved) ELSE moved)
     /\ UNCHANGED <<leases, seen>>

\* The worker learns the current version: from the record an earlier call
\* returned, or because it reads the row again.  What a holder whose lease is
\* gone reads is of no use to it, so that step is left out.
refresh(t) ==
  LET r == leases[t].run
  IN /\ Writable(r, t)
     /\ OwnsRun(staged[r], t)
     /\ leases[t].version # staged[r].lifecycle_version
     /\ leases' = [leases EXCEPT ![t].version = staged[r].lifecycle_version]
     /\ UNCHANGED <<clock, db, staged, locked, tx, seen>>

\* Everything that is not coordination proves the lease first and then writes
\* evidence (and checkpoints and effects) under the same row lock.
lock_current_lease(t) ==
  LET r == leases[t].run
      row == staged[r]
  IN /\ Writable(r, t)
     /\ HoldsLease(row, t)
     /\ Stage(r, t, [row EXCEPT !.events = Append(@, OtherEvent("fenced", t))])
     /\ UNCHANGED <<leases, seen>>

-----------------------------------------------------------------------------
(* Operations without a lease.                                             *)

\* A read outside any transaction sees the committed row.
get_run(o, r) ==
  /\ seen[o] # [run |-> r, row |-> RunRecord(db[r])]
  /\ seen' = [seen EXCEPT ![o] = [run |-> r, row |-> RunRecord(db[r])]]
  /\ UNCHANGED <<clock, db, staged, locked, tx, leases>>

cancel_queued_run(o) ==
  LET r == seen[o].run
      row == staged[r]
  IN /\ r \notin locked
     /\ row.status = "queued"
     /\ row.lifecycle_version = seen[o].row.lifecycle_version
     /\ row.lease_owner = Nobody /\ row.lease_token = NoToken
     /\ Stage(r, NoToken, MoveTo(row, "cancelled", NoToken))
     /\ UNCHANGED <<leases, seen>>

\* Mutant: any active Run may be taken back, its lease expired or not.
requeue_expired_run_TooEarly(o) ==
  LET r == seen[o].run
      row == staged[r]
  IN /\ r \notin locked
     /\ row.status \in ACTIVE_STATUSES
     /\ row.lifecycle_version = seen[o].row.lifecycle_version
     /\ Stage(r, NoToken, ClearLease(MoveTo(row, "queued", NoToken)))
     /\ UNCHANGED <<leases, seen>>

requeue_expired_run(o) ==
  LET r == seen[o].run
      row == staged[r]
  IN /\ r \notin locked
     /\ row.status \in ACTIVE_STATUSES
     /\ row.lifecycle_version = seen[o].row.lifecycle_version
     /\ row.lease_expires_at <= clock
     /\ Stage(r, NoToken, ClearLease(MoveTo(row, "queued", NoToken)))
     /\ UNCHANGED <<leases, seen>>

\* Evidence that takes the row lock but proves no lease: resolving an approval.
append_event(r) ==
  /\ r \notin locked
  /\ Stage(r, NoToken, [staged[r] EXCEPT !.events = Append(@, OtherEvent("unfenced", NoToken))])
  /\ UNCHANGED <<leases, seen>>

WorkerStep ==
  \/ \E w \in Workers, r \in Runs : claim_next_run(w, r)
  \/ \E t \in DOMAIN leases :
       \/ heartbeat(t)
       \/ \E target \in RUN_STATUSES : transition_owned_run(t, target)
       \/ refresh(t)
       \/ lock_current_lease(t)

OperatorStep ==
  \/ \E o \in Operators :
       \/ \E r \in Runs : get_run(o, r)
       \/ cancel_queued_run(o)
       \/ requeue_expired_run(o)
  \/ \E r \in Runs : append_event(r)

Next ==
  \/ WorkerStep
  \/ OperatorStep
  \/ Tick
  \/ \E r \in Runs : Commit(r) \/ Rollback(r)

Spec == Init /\ [][Next]_vars

-----------------------------------------------------------------------------
(* Properties.                                                             *)

\* The table's check constraint lease_state_consistency: the lease columns are
\* all set in the active statuses, and all NULL in the others.
LeaseColumnsAgree(row) ==
  \/ /\ row.status \in ACTIVE_STATUSES
     /\ row.lease_owner # Nobody /\ row.lease_token # NoToken /\ row.lease_expires_at # NoExpiry
  \/ /\ row.status \in RUN_STATUSES \ ACTIVE_STATUSES
     /\ row.lease_owner = Nobody /\ row.lease_token = NoToken /\ row.lease_expires_at = NoExpiry

\* Values have their types, and committed rows meet the table's constraint:
\* no operation leaves part of a lease behind (repository.py, models.py).
TypeOK ==
  /\ clock \in Nat
  /\ db \in [Runs -> Row]
  /\ staged \in [Runs -> Row]
  /\ locked \in SUBSET Runs
  /\ tx \in [Runs -> Nat]
  /\ leases \in Seq(LeaseIdentity)
  /\ seen \in [Operators -> Snapshot]
  /\ \A r \in Runs : LeaseColumnsAgree(db[r])

\* The row r agrees with the credentials handed out for it: an active Run has
\* exactly one holder, the worker of the claim that drew the token, in the
\* generation that claim announced; any other Run has none of it.
CoherentLease(r, row) ==
  IF row.status \in ACTIVE_STATUSES
  THEN /\ row.lease_token \in 1 .. Len(leases)
       /\ leases[row.lease_token].run = r
       /\ leases[row.lease_token].worker = row.lease_owner
       /\ leases[row.lease_token].attempt = row.attempt
       /\ row.lease_expires_at # NoExpiry
  ELSE row.lease_owner = Nobody /\ row.lease_token = NoToken /\ row.lease_expires_at = NoExpiry

\* Beyond the table's constraint: the lease of a committed row is the one a
\* worker was given (claim_next_run, transition_owned_run, requeue_expired_run).
LeaseStateConsistency == \A r \in Runs : CoherentLease(r, db[r])

\* What one lease wrote comes after all that older ones wrote, and strictly so
\* across a return to the queue.
FencedEvents(events) ==
  \A i, j \in DOMAIN events :
    /\ i < j /\ events[i].by # NoToken /\ events[j].by # NoToken
    => /\ events[i].by <= events[j].by
       /\ (\E k \in i .. j : events[k].state = "queued") => events[i].by < events[j].by

\* Evidence of different claims never interleaves: what was written under a
\* lease comes after all that older leases wrote, and once the Run went back to
\* the queue the leases of before write nothing more, however late their
\* holders wake up (lock_current_lease, append_event_allocated).
EvidenceFenced == \A r \in Runs : FencedEvents(db[r].events)

\* Positions of lifecycle evidence before position n, and the state it leaves.
LifecycleBefore(events, n) == {i \in 1 .. n - 1 : events[i].type = "run.lifecycle"}

StateBefore(events, n) ==
  IF LifecycleBefore(events, n) = {} THEN "queued"
  ELSE events[Max(LifecycleBefore(events, n))].state

ChainedEvents(events, status) ==
  /\ \A n \in DOMAIN events :
       events[n].type = "run.lifecycle" =>
         events[n].previous_state = StateBefore(events, n)
  /\ status = StateBefore(events, Len(events) + 1)

Claims(events) == {n \in DOMAIN events : events[n].state = "provisioning"}

\* The evidence of a Run explains its row.  Its lifecycle events are one unbroken
\* chain from "queued" to the status of the row: no transition without its event,
\* none recorded twice or out of order, none that survives a rollback
\* (_append_lifecycle_event).  Its attempt is the number of claims in them:
\* recovery keeps it and a rolled-back claim does not count (claim_next_run).
LifecycleChain ==
  \A r \in Runs : /\ ChainedEvents(db[r].events, db[r].status)
                  /\ db[r].attempt = Cardinality(Claims(db[r].events))

\* Equal versions mean equal coordination state.  A caller that compares the
\* version it read (cancel_run, a reaper) therefore never acts on a Run that went
\* through another owner, expiry or status and back (no ABA).
VersionIdentifiesRow ==
  \A o \in Operators : LET r == seen[o].run IN
    seen[o].row.lifecycle_version = db[r].lifecycle_version =>
      seen[o].row = RunRecord(db[r])

\* A lease that has not expired is never taken away from its holder, although
\* the reaper decides on an older read and its commit comes later than its
\* check (requeue_expired_run).
LiveLeaseNotRevoked ==
  [][\A r \in Runs :
       db[r].status \in ACTIVE_STATUSES /\ db'[r].status = "queued"
         => db[r].lease_expires_at <= clock]_vars

\* A finished Run never changes again, except for unfenced evidence.
TerminalIsFinal ==
  [][\A r \in Runs :
       db[r].status \in TERMINAL_STATUSES
         => /\ RunRecord(db'[r]) = RunRecord(db[r])
            /\ Len(db'[r].events) <= Len(db[r].events) + 1]_vars

\* What the protocol promises, see RunOwnership: one holder at a time, a
\* generation never granted twice, a finished Run never granted again.
Ownership == INSTANCE RunOwnership WITH
  Generations <- 1 .. MaxClaims,
  NoGeneration <- NoToken,
  phase <- [r \in Runs |-> IF db[r].status = "queued" THEN "waiting"
                           ELSE IF db[r].status \in ACTIVE_STATUSES THEN "held" ELSE "done"],
  holder <- [r \in Runs |-> db[r].lease_token],
  spent <- {t \in DOMAIN leases :
              \E r \in Runs : \E n \in DOMAIN db[r].events : db[r].events[n].by = t}

OwnershipSpec == Ownership!Spec
=============================================================================
