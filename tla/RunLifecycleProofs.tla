------------------------- MODULE RunLifecycleProofs -------------------------
(***************************************************************************)
(* Theorems about RunLifecycle, for every set of Runs, workers and         *)
(* operators and every value of the bounds: fencing, versions and leases;  *)
(* then what the evidence of a Run tells, and that the lease protocol      *)
(* implements RunOwnership.                                                *)
(***************************************************************************)
EXTENDS RunLifecycle, TLAPS, FiniteSetTheorems

-----------------------------------------------------------------------------
(* Rows.                                                                   *)

\* What _append_lifecycle_event appends is evidence.
LEMMA LifecycleEventType ==
  ASSUME NEW previous \in RUN_STATUSES, NEW state \in RUN_STATUSES, NEW t \in Nat
  PROVE  LifecycleEvent(previous, state, t) \in Event
BY DEF LifecycleEvent, Event, EVENT_TYPES

\* What append_event appends, under a lease or not, is evidence.
LEMMA OtherEventType ==
  ASSUME NEW type \in EVENT_TYPES, NEW t \in Nat
  PROVE  OtherEvent(type, t) \in Event
BY DEF OtherEvent, Event, NoState

\* A transition and the clearing of a lease keep a row a row.
LEMMA MoveToType ==
  ASSUME NEW row \in Row, NEW target \in RUN_STATUSES, NEW t \in Nat
  PROVE  /\ MoveTo(row, target, t) \in Row
         /\ ClearLease(MoveTo(row, target, t)) \in Row
<1>1. LifecycleEvent(row.status, target, t) \in Event
  BY LifecycleEventType DEF Row
<1>2. /\ row.lifecycle_version + 1 \in Nat
      /\ Append(row.events, LifecycleEvent(row.status, target, t)) \in Seq(Event)
  BY <1>1 DEF Row
<1>3. MoveTo(row, target, t) \in Row
  BY <1>2 DEF MoveTo, Row
<1>4. QED
  BY <1>3 DEF ClearLease, Row, NoToken, NoExpiry

\* A row with other evidence is a row.
LEMMA EventsType ==
  ASSUME NEW row \in Row, NEW events \in Seq(Event)
  PROVE  [row EXCEPT !.events = events] \in Row
BY DEF Row

\* A row with a later deadline and the next version is a row (heartbeat).
LEMMA HeartbeatType ==
  ASSUME NEW row \in Row, NEW version \in Nat, NEW expires \in Nat
  PROVE  [row EXCEPT !.lifecycle_version = version, !.lease_expires_at = expires] \in Row
BY DEF Row

\* A row with the credentials of a claim is a row (claim_next_run).
LEMMA ClaimType ==
  ASSUME NEW row \in Row, NEW w \in Workers, NEW t \in Nat, NEW attempt \in Nat,
         NEW expires \in Nat
  PROVE  [row EXCEPT !.lease_owner = w, !.lease_token = t, !.attempt = attempt,
                     !.lease_expires_at = expires] \in Row
BY DEF Row

\* What TypeOK says of types; its table constraint follows from the leases.
Typed ==
  /\ clock \in Nat
  /\ db \in [Runs -> Row]
  /\ staged \in [Runs -> Row]
  /\ locked \in SUBSET Runs
  /\ tx \in [Runs -> Nat]
  /\ leases \in Seq(LeaseIdentity)
  /\ seen \in [Operators -> Snapshot]

\* Runs as create_run leaves them are rows.
LEMMA InitTyped == Init => Typed
<1>1. <<>> \in Seq(Event)
  OBVIOUS
<1>2. NewRun \in Row
  BY <1>1 DEF NewRun, Row, RUN_STATUSES, NoToken, NoExpiry
<1>3. QED
  BY <1>2 DEF Init, Typed, Snapshot, NoToken

\* Every operation, commit and rollback keeps rows, locks and credentials typed.
LEMMA NextTyped == Typed /\ [Next]_vars => Typed'
<1> SUFFICES ASSUME Typed, [Next]_vars PROVE Typed'
  OBVIOUS
<1> USE DEF Typed
<1>1. ASSUME NEW r \in Runs, NEW t \in Nat, NEW row \in Row, Stage(r, t, row)
      PROVE  clock' \in Nat /\ db' \in [Runs -> Row] /\ staged' \in [Runs -> Row]
             /\ locked' \in SUBSET Runs /\ tx' \in [Runs -> Nat]
  BY <1>1 DEF Stage
<1>2. ASSUME NEW w \in Workers, NEW r \in Runs, claim_next_run(w, r) PROVE Typed'
  <2> DEFINE t == Len(leases) + 1
             row == staged[r]
             new == [MoveTo(row, "provisioning", t) EXCEPT
                       !.lease_owner = w, !.lease_token = t, !.attempt = row.attempt + 1,
                       !.lease_expires_at = clock + LeaseDuration]
  <2>1. t \in Nat /\ row \in Row
    OBVIOUS
  <2>2. MoveTo(row, "provisioning", t) \in Row
    BY <2>1, MoveToType DEF RUN_STATUSES, ACTIVE_STATUSES
  <2>3. new \in Row
    <3>1. row.attempt + 1 \in Nat
      BY <2>1 DEF Row
    <3>2. clock + LeaseDuration \in Nat
      BY ConstantsAssumption
    <3>3. QED
      BY <2>1, <2>2, <3>1, <3>2, ClaimType
  <2>4. [run |-> r, worker |-> w, attempt |-> row.attempt + 1,
         version |-> row.lifecycle_version + 1] \in LeaseIdentity
    BY <2>1 DEF Row, LeaseIdentity
  <2>5. Stage(r, NoToken, new)
    BY <1>2 DEF claim_next_run
  <2>6. leases' \in Seq(LeaseIdentity) /\ seen' = seen
    BY <1>2, <2>4 DEF claim_next_run
  <2>7. QED
    BY <1>1, <2>3, <2>5, <2>6 DEF NoToken
<1>3. ASSUME NEW t \in DOMAIN leases, heartbeat(t) PROVE Typed'
  <2>1. t \in Nat /\ leases[t] \in LeaseIdentity
    OBVIOUS
  <2>2. leases[t].run \in Runs /\ staged[leases[t].run] \in Row
    BY <2>1 DEF LeaseIdentity
  <2>3. [staged[leases[t].run] EXCEPT !.lifecycle_version = @ + 1,
           !.lease_expires_at = clock + LeaseDuration] \in Row
    <3>1. staged[leases[t].run].lifecycle_version + 1 \in Nat
      BY <2>2 DEF Row
    <3>2. clock + LeaseDuration \in Nat
      BY ConstantsAssumption
    <3>3. QED
      BY <2>2, <3>1, <3>2, HeartbeatType
  <2>4. QED
    BY <1>1, <1>3, <2>1, <2>2, <2>3 DEF heartbeat
<1>4. ASSUME NEW t \in DOMAIN leases, NEW target \in RUN_STATUSES,
             transition_owned_run(t, target) PROVE Typed'
  <2>1. t \in Nat /\ leases[t] \in LeaseIdentity
    OBVIOUS
  <2>2. leases[t].run \in Runs /\ staged[leases[t].run] \in Row
    BY <2>1 DEF LeaseIdentity
  <2>3. QED
    BY <1>1, <1>4, <2>1, <2>2, MoveToType DEF transition_owned_run
<1>5. ASSUME NEW t \in DOMAIN leases, refresh(t) PROVE Typed'
  <2>1. leases[t] \in LeaseIdentity
    OBVIOUS
  <2>6. leases[t].run \in Runs /\ staged[leases[t].run] \in Row
    BY <2>1 DEF LeaseIdentity
  <2>2. [leases[t] EXCEPT !.version = staged[leases[t].run].lifecycle_version] \in LeaseIdentity
    BY <2>1, <2>6 DEF LeaseIdentity, Row
  <2>3. leases' = [leases EXCEPT ![t] =
          [leases[t] EXCEPT !.version = staged[leases[t].run].lifecycle_version]]
    BY <1>5 DEF refresh
  <2>4. leases' \in Seq(LeaseIdentity)
    BY <2>2, <2>3
  <2>5. QED
    BY <1>5, <2>4 DEF refresh
<1>6. ASSUME NEW t \in DOMAIN leases, lock_current_lease(t) PROVE Typed'
  <2>1. t \in Nat /\ leases[t] \in LeaseIdentity
    OBVIOUS
  <2>2. leases[t].run \in Runs /\ staged[leases[t].run] \in Row
    BY <2>1 DEF LeaseIdentity
  <2>3. [staged[leases[t].run] EXCEPT !.events = Append(@, OtherEvent("fenced", t))] \in Row
    <3>1. OtherEvent("fenced", t) \in Event
      BY <2>1, OtherEventType DEF EVENT_TYPES
    <3>2. Append(staged[leases[t].run].events, OtherEvent("fenced", t)) \in Seq(Event)
      BY <2>2, <3>1 DEF Row
    <3>3. QED
      BY <2>2, <3>2, EventsType
  <2>4. QED
    BY <1>1, <1>6, <2>1, <2>2, <2>3 DEF lock_current_lease
<1>7. ASSUME NEW o \in Operators, NEW r \in Runs, get_run(o, r) PROVE Typed'
  <2>1. RunRecord(db[r]) \in Row
    <3>1. <<>> \in Seq(Event)
      OBVIOUS
    <3>2. QED
      BY <3>1, EventsType DEF RunRecord
  <2>2. [run |-> r, row |-> RunRecord(db[r])] \in Snapshot
    BY <2>1 DEF Snapshot
  <2>3. QED
    BY <1>7, <2>2 DEF get_run
<1>8. ASSUME NEW o \in Operators, cancel_queued_run(o) PROVE Typed'
  <2>1. seen[o].run \in Runs /\ staged[seen[o].run] \in Row
    BY DEF Snapshot
  <2>2. MoveTo(staged[seen[o].run], "cancelled", NoToken) \in Row
    BY <2>1, MoveToType DEF RUN_STATUSES, TERMINAL_STATUSES, NoToken
  <2>3. QED
    BY <1>1, <1>8, <2>1, <2>2 DEF cancel_queued_run, NoToken
<1>9. ASSUME NEW o \in Operators, requeue_expired_run(o) PROVE Typed'
  <2>1. seen[o].run \in Runs /\ staged[seen[o].run] \in Row
    BY DEF Snapshot
  <2>2. ClearLease(MoveTo(staged[seen[o].run], "queued", NoToken)) \in Row
    BY <2>1, MoveToType DEF RUN_STATUSES, NoToken
  <2>3. QED
    BY <1>1, <1>9, <2>1, <2>2 DEF requeue_expired_run, NoToken
<1>10. ASSUME NEW r \in Runs, append_event(r) PROVE Typed'
  <2>1. [staged[r] EXCEPT !.events = Append(@, OtherEvent("unfenced", NoToken))] \in Row
    <3>1. OtherEvent("unfenced", NoToken) \in Event
      BY OtherEventType DEF EVENT_TYPES, NoToken
    <3>2. Append(staged[r].events, OtherEvent("unfenced", NoToken)) \in Seq(Event)
      BY <3>1 DEF Row
    <3>3. QED
      BY <3>2, EventsType
  <2>2. QED
    BY <1>1, <1>10, <2>1 DEF append_event, NoToken
<1>11. CASE Tick
  BY <1>11 DEF Tick
<1>12. ASSUME NEW r \in Runs, Commit(r) PROVE Typed'
  BY <1>12 DEF Commit, NoToken
<1>13. ASSUME NEW r \in Runs, Rollback(r) PROVE Typed'
  BY <1>13 DEF Rollback, NoToken
<1>14. CASE UNCHANGED vars
  BY <1>14 DEF vars
<1>15. QED
  BY <1>2, <1>3, <1>4, <1>5, <1>6, <1>7, <1>8, <1>9, <1>10, <1>11, <1>12, <1>13, <1>14
     DEF Next, WorkerStep, OperatorStep

-----------------------------------------------------------------------------
(* The inductive invariant.  Every clause is about one row, committed or    *)
(* staged, or about the two rows of one Run: an operation only ever stages  *)
(* a row it computes from the staged one, and COMMIT and ROLLBACK copy.     *)

\* Nothing written under the current lease precedes a return to the queue, and
\* nothing written so far was written under a lease not yet handed out.
InGeneration(row) ==
  \A i \in DOMAIN row.events :
    /\ row.events[i].by <= Len(leases)
    /\ row.lease_token # NoToken =>
         /\ row.events[i].by <= row.lease_token
         /\ row.events[i].by = row.lease_token =>
              \A k \in i .. Len(row.events) : row.events[k].state # "queued"

RowInv(r, row) ==
  /\ CoherentLease(r, row)
  /\ FencedEvents(row.events)
  /\ InGeneration(row)

\* How the staged row may differ from the committed one.
StageInv(r) ==
  /\ r \notin locked => staged[r] = db[r]
  /\ db[r].status \in ACTIVE_STATUSES /\ staged[r].status = "queued"
       => db[r].lease_expires_at <= clock
  /\ db[r].status \in TERMINAL_STATUSES
       => /\ RunRecord(staged[r]) = RunRecord(db[r])
          /\ Len(staged[r].events) <= Len(db[r].events) + (IF r \in locked THEN 1 ELSE 0)
  /\ db[r].lifecycle_version <= staged[r].lifecycle_version
  /\ db[r].lifecycle_version = staged[r].lifecycle_version
       => RunRecord(staged[r]) = RunRecord(db[r])

SeenInv(o) ==
  LET row == seen[o].row
      now == db[seen[o].run]
  IN /\ row.lifecycle_version <= now.lifecycle_version
     /\ row.lifecycle_version = now.lifecycle_version => row = RunRecord(now)

IInv ==
  /\ Typed
  /\ \A r \in Runs : RowInv(r, db[r]) /\ RowInv(r, staged[r]) /\ StageInv(r)
  /\ \A o \in Operators : SeenInv(o)

-----------------------------------------------------------------------------
(* Appending evidence.                                                      *)

\* Evidence without a lease goes anywhere.
LEMMA UnleasedFenced ==
  ASSUME NEW events \in Seq(Event), NEW e \in Event, e.by = NoToken, FencedEvents(events)
  PROVE  FencedEvents(Append(events, e))
<1> DEFINE more == Append(events, e)
<1>1. /\ more \in Seq(Event) /\ Len(more) = Len(events) + 1
      /\ \A i \in 1 .. Len(events) : more[i] = events[i]
      /\ more[Len(events) + 1] = e
  OBVIOUS
<1>2. ASSUME NEW i \in DOMAIN more, NEW j \in DOMAIN more,
             i < j, more[i].by # NoToken, more[j].by # NoToken
      PROVE  /\ more[i].by <= more[j].by
             /\ (\E k \in i .. j : more[k].state = "queued") => more[i].by < more[j].by
  <2>1. i \in DOMAIN events /\ j \in DOMAIN events
    BY <1>1, <1>2
  <2>2. \A k \in i .. j : more[k] = events[k]
    BY <1>1, <2>1
  <2>3. QED
    BY <1>1, <1>2, <2>1, <2>2 DEF FencedEvents
<1>3. QED
  BY <1>2 DEF FencedEvents

\* Evidence under the lease t may follow when no later lease wrote yet and the
\* Run has not been queued since t wrote first.
LEMMA LeasedFenced ==
  ASSUME NEW events \in Seq(Event), NEW e \in Event, NEW t \in Nat, e.by = t,
         e.state # "queued", FencedEvents(events),
         \A i \in DOMAIN events :
           /\ events[i].by <= t
           /\ events[i].by = t => \A k \in i .. Len(events) : events[k].state # "queued"
  PROVE  FencedEvents(Append(events, e))
<1> DEFINE more == Append(events, e)
<1>1. /\ more \in Seq(Event) /\ Len(more) = Len(events) + 1
      /\ \A i \in 1 .. Len(events) : more[i] = events[i]
      /\ more[Len(events) + 1] = e
  OBVIOUS
<1>2. ASSUME NEW i \in DOMAIN more, NEW j \in DOMAIN more,
             i < j, more[i].by # NoToken, more[j].by # NoToken
      PROVE  /\ more[i].by <= more[j].by
             /\ (\E k \in i .. j : more[k].state = "queued") => more[i].by < more[j].by
  <2>1. i \in DOMAIN events
    BY <1>1, <1>2
  <2>2. CASE j \in DOMAIN events
    <3>1. \A k \in i .. j : more[k] = events[k]
      BY <1>1, <2>1, <2>2
    <3>2. QED
      BY <1>1, <1>2, <2>1, <2>2, <3>1 DEF FencedEvents
  <2>3. CASE j = Len(events) + 1
    <3>1. more[i] = events[i] /\ more[j] = e
      BY <1>1, <2>1, <2>3
    <3>2. more[i].by <= more[j].by
      BY <2>1, <3>1
    <3>3. ASSUME NEW k \in i .. j, more[k].state = "queued" PROVE more[i].by # t
      <4>1. k # j
        BY <3>1, <3>3
      <4>2. k \in i .. Len(events) /\ more[k] = events[k]
        BY <1>1, <2>1, <2>3, <4>1
      <4>3. QED
        BY <2>1, <3>1, <3>3, <4>2
    <3>4. more[i].by \in Nat
      <4>1. events[i] \in Event
        BY <2>1
      <4>2. QED
        BY <3>1, <4>1 DEF Event
    <3>5. QED
      BY <3>1, <3>2, <3>3, <3>4
  <2>4. QED
    BY <1>1, <2>2, <2>3
<1>3. QED
  BY <1>2 DEF FencedEvents

-----------------------------------------------------------------------------
(* Rows under the invariant.                                                *)

\* Later claims and refreshes keep what earlier leases say.
LeasesExtend ==
  /\ Len(leases) <= Len(leases')
  /\ \A t \in DOMAIN leases :
       /\ leases'[t].run = leases[t].run
       /\ leases'[t].worker = leases[t].worker
       /\ leases'[t].attempt = leases[t].attempt

\* What holds of a row goes on holding while credentials are only handed out.
LEMMA RowInvStable ==
  ASSUME Typed, Typed', LeasesExtend, NEW r \in Runs, NEW row \in Row, RowInv(r, row)
  PROVE  RowInv(r, row)'
<1>1. Len(leases) \in Nat /\ Len(leases') \in Nat /\ Len(leases) <= Len(leases')
  BY DEF Typed, LeasesExtend
<1>2. CoherentLease(r, row)'
  <2>1. CASE row.status \in ACTIVE_STATUSES
    <3>1. row.lease_token \in DOMAIN leases
      BY <2>1 DEF RowInv, CoherentLease, Typed
    <3>2. row.lease_token \in 1 .. Len(leases')
      BY <1>1, <3>1 DEF Typed
    <3>3. QED
      BY <2>1, <3>1, <3>2 DEF RowInv, CoherentLease, LeasesExtend
  <2>2. CASE row.status \notin ACTIVE_STATUSES
    BY <2>2 DEF RowInv, CoherentLease
  <2>3. QED
    BY <2>1, <2>2
<1>3. InGeneration(row)'
  <2>1. \A i \in DOMAIN row.events : row.events[i].by \in Nat
    <3>1. row.events \in Seq(Event)
      BY DEF Row
    <3>2. \A i \in DOMAIN row.events : row.events[i] \in Event
      BY <3>1
    <3>3. QED
      BY <3>2 DEF Event
  <2>2. \A i \in DOMAIN row.events : row.events[i].by <= Len(leases')
    BY <1>1, <2>1 DEF RowInv, InGeneration
  <2>3. QED
    BY <2>2 DEF RowInv, InGeneration
<1>4. QED
  BY <1>2, <1>3 DEF RowInv

\* What an operation must show of the row it stages.
StageOK(r, row) ==
  /\ db[r].status \in ACTIVE_STATUSES /\ row.status = "queued"
       => db[r].lease_expires_at <= clock
  /\ db[r].status \in TERMINAL_STATUSES
       => /\ RunRecord(row) = RunRecord(db[r])
          /\ Len(row.events) <= Len(db[r].events) + 1
  /\ db[r].lifecycle_version <= row.lifecycle_version
  /\ db[r].lifecycle_version = row.lifecycle_version => RunRecord(row) = RunRecord(db[r])

\* A staged row that agrees with the credentials and is a legal successor of the
\* row before keeps the whole invariant.
LEMMA StagedRow ==
  ASSUME IInv, Typed', LeasesExtend, seen' = seen,
         NEW r \in Runs, NEW t \in Nat, NEW row \in Row, Stage(r, t, row),
         RowInv(r, row)', StageOK(r, row)
  PROVE  IInv'
<1> USE DEF IInv
<1>1. /\ db' = db /\ clock' = clock /\ locked' = locked \cup {r}
      /\ staged' = [staged EXCEPT ![r] = row]
  BY DEF Stage
<1>2. ASSUME NEW s \in Runs PROVE RowInv(s, db[s])'
  <2>1. PICK d \in Row : d = db[s]
    BY DEF Typed
  <2>2. RowInv(s, d)
    BY <2>1
  <2>3. RowInv(s, d)'
    BY <2>2, RowInvStable
  <2>4. db'[s] = d
    BY <1>1, <2>1
  <2>5. QED
    BY <2>3, <2>4 DEF RowInv, CoherentLease, InGeneration
<1>3. ASSUME NEW s \in Runs PROVE RowInv(s, staged[s])'
  <2>1. CASE s = r
    <3>1. staged'[s] = row
      BY <1>1, <2>1 DEF Typed
    <3>2. QED
      BY <2>1, <3>1 DEF RowInv, CoherentLease, InGeneration
  <2>2. CASE s # r
    <3>1. PICK d \in Row : d = staged[s]
      BY DEF Typed
    <3>2. RowInv(s, d)
      BY <3>1
    <3>3. RowInv(s, d)'
      BY <3>2, RowInvStable
    <3>4. staged'[s] = d
      BY <1>1, <2>2, <3>1 DEF Typed
    <3>5. QED
      BY <3>3, <3>4 DEF RowInv, CoherentLease, InGeneration
  <2>3. QED
    BY <2>1, <2>2
<1>4. ASSUME NEW s \in Runs PROVE StageInv(s)'
  <2>1. CASE s = r
    <3>1. staged'[s] = row /\ s \in locked'
      BY <1>1, <2>1 DEF Typed
    <3>2. QED
      BY <1>1, <2>1, <3>1 DEF StageInv, StageOK
  <2>2. CASE s # r
    <3>1. staged'[s] = staged[s] /\ (s \in locked' <=> s \in locked)
      BY <1>1, <2>2 DEF Typed
    <3>2. QED
      BY <1>1, <3>1 DEF StageInv
  <2>3. QED
    BY <2>1, <2>2
<1>5. ASSUME NEW o \in Operators PROVE SeenInv(o)'
  BY <1>1 DEF SeenInv
<1>6. QED
  BY <1>2, <1>3, <1>4, <1>5

\* One more event leaves a row in its generation.
LEMMA AppendGeneration ==
  ASSUME Typed, Typed', LeasesExtend, NEW row \in Row, NEW row2 \in Row, NEW e \in Event,
         row2.events = Append(row.events, e), InGeneration(row), e.by <= Len(leases'),
         row2.lease_token # NoToken =>
           /\ e.by <= row2.lease_token
           /\ e.state # "queued"
           /\ \A i \in DOMAIN row.events :
                /\ row.events[i].by <= row2.lease_token
                /\ row.events[i].by = row2.lease_token =>
                     \A k \in i .. Len(row.events) : row.events[k].state # "queued"
  PROVE  InGeneration(row2)'
<1> DEFINE n == Len(row.events)
<1>1. /\ row.events \in Seq(Event) /\ n \in Nat /\ Len(row2.events) = n + 1
      /\ DOMAIN row2.events = 1 .. n + 1
      /\ \A i \in 1 .. n : row2.events[i] = row.events[i]
      /\ row2.events[n + 1] = e
  BY DEF Row
<1>2. \A i \in 1 .. n : row.events[i].by \in Nat
  <2>1. \A i \in 1 .. n : row.events[i] \in Event
    BY <1>1
  <2>2. QED
    BY <2>1 DEF Event
<1>3. Len(leases) \in Nat /\ Len(leases') \in Nat /\ Len(leases) <= Len(leases')
  BY DEF Typed, LeasesExtend
<1>4. \A i \in 1 .. n + 1 : row2.events[i].by <= Len(leases')
  <2>1. \A i \in 1 .. n : row.events[i].by <= Len(leases)
    BY <1>1 DEF InGeneration
  <2>2. QED
    BY <1>1, <1>2, <1>3, <2>1
<1>5. ASSUME row2.lease_token # NoToken, NEW i \in 1 .. n + 1
      PROVE  /\ row2.events[i].by <= row2.lease_token
             /\ row2.events[i].by = row2.lease_token =>
                  \A k \in i .. n + 1 : row2.events[k].state # "queued"
  <2>1. CASE i \in 1 .. n
    BY <1>1, <1>5, <2>1
  <2>2. CASE i = n + 1
    BY <1>1, <1>5, <2>2
  <2>3. QED
    BY <2>1, <2>2
<1>6. QED
  BY <1>1, <1>4, <1>5 DEF InGeneration

-----------------------------------------------------------------------------
(* Every operation stages a row that keeps the invariant.                   *)

\* A step that hands out no credentials extends them trivially.
LEMMA StableLeases ==
  ASSUME Typed, UNCHANGED leases
  PROVE  LeasesExtend
BY DEF LeasesExtend, Typed

\* What the invariant says of one Run and its two rows.
LEMMA IInvFacts ==
  ASSUME IInv, NEW r \in Runs
  PROVE  /\ Typed
         /\ staged[r] \in Row /\ db[r] \in Row /\ clock \in Nat /\ Len(leases) \in Nat
         /\ RowInv(r, staged[r]) /\ StageInv(r)
<1>1. Typed /\ RowInv(r, staged[r]) /\ StageInv(r)
  BY DEF IInv
<1>2. QED
  BY <1>1 DEF Typed

\* The columns of a row.
LEMMA RowFields ==
  ASSUME NEW row \in Row
  PROVE  /\ row.status \in RUN_STATUSES /\ row.lifecycle_version \in Nat
         /\ row.lease_token \in Nat /\ row.lease_expires_at \in Nat /\ row.attempt \in Nat
         /\ row.events \in Seq(Event) /\ Len(row.events) \in Nat
         /\ \A i \in DOMAIN row.events : row.events[i] \in Event /\ row.events[i].by \in Nat
<1>1. row.events \in Seq(Event)
  BY DEF Row
<1>2. \A i \in DOMAIN row.events : row.events[i] \in Event
  BY <1>1
<1>3. \A i \in DOMAIN row.events : row.events[i].by \in Nat
  BY <1>2 DEF Event
<1>4. QED
  BY <1>1, <1>2, <1>3 DEF Row

\* The row a claim stages.
Claimed(row, w, t, expires) ==
  [MoveTo(row, "provisioning", t) EXCEPT
     !.lease_owner = w, !.lease_token = t, !.attempt = row.attempt + 1,
     !.lease_expires_at = expires]

\* The row a claim stages is a row.
LEMMA ClaimedRow ==
  ASSUME NEW row \in Row, NEW w \in Workers, NEW t \in Nat, NEW expires \in Nat
  PROVE  Claimed(row, w, t, expires) \in Row
<1>1. MoveTo(row, "provisioning", t) \in Row
  BY MoveToType DEF RUN_STATUSES, ACTIVE_STATUSES
<1>2. row.attempt + 1 \in Nat
  BY RowFields
<1>3. QED
  BY <1>1, <1>2, ClaimType DEF Claimed

\* claim_next_run: a fresh token, the next attempt, a new generation.
LEMMA ClaimKeeps ==
  ASSUME IInv, Typed', NEW w \in Workers, NEW r \in Runs, claim_next_run(w, r)
  PROVE  IInv'
<1>1. PICK row \in Row : row = staged[r]
  BY IInvFacts
<1>2. PICK t \in Nat : t = Len(leases) + 1
  BY IInvFacts
<1>3. PICK expires \in Nat : expires = clock + LeaseDuration
  BY IInvFacts, ConstantsAssumption
<1>4. PICK new \in Row : new = Claimed(row, w, t, expires)
  BY <1>1, <1>2, <1>3, ClaimedRow
<1>5. /\ new.status = "provisioning" /\ new.lease_owner = w /\ new.lease_token = t
       /\ new.attempt = row.attempt + 1 /\ new.lease_expires_at = expires
       /\ new.lifecycle_version = row.lifecycle_version + 1
       /\ new.events = Append(row.events, LifecycleEvent(row.status, "provisioning", t))
  <2>1. row \in Row /\ t \in Nat /\ expires \in Nat
    BY <1>1, <1>2, <1>3
  <2>2. new = Claimed(row, w, t, expires)
    BY <1>4
  <2>3. MoveTo(row, "provisioning", t) \in Row
    BY <2>1, MoveToType DEF RUN_STATUSES, ACTIVE_STATUSES
  <2>4. QED
    BY <2>1, <2>2, <2>3 DEF Claimed, MoveTo, Row
<1>6. PICK e \in Event : e = LifecycleEvent(row.status, "provisioning", t)
  BY LifecycleEventType, RowFields DEF RUN_STATUSES, ACTIVE_STATUSES
<1>7. e.by = t /\ e.state = "provisioning"
  BY <1>6 DEF LifecycleEvent
<1>8. /\ r \notin locked /\ row.status = "queued" /\ Stage(r, NoToken, new) /\ seen' = seen
      /\ leases' = Append(leases, [run |-> r, worker |-> w, attempt |-> row.attempt + 1,
                                   version |-> row.lifecycle_version + 1])
  BY <1>1, <1>2, <1>3, <1>4 DEF claim_next_run, Claimed
<1>9. RowInv(r, row) /\ row = db[r] /\ Typed
  BY <1>1, <1>8, IInvFacts DEF StageInv
<1>10. /\ LeasesExtend /\ Len(leases') = t
      /\ leases'[t].run = r /\ leases'[t].worker = w /\ leases'[t].attempt = row.attempt + 1
  BY <1>2, <1>8, <1>9 DEF LeasesExtend, Typed
<1>11. \A i \in DOMAIN row.events : row.events[i].by <= t /\ row.events[i].by # t
  <2>1. \A i \in DOMAIN row.events : row.events[i].by <= Len(leases) /\ row.events[i].by \in Nat
    BY <1>9, RowFields DEF RowInv, InGeneration
  <2>2. Len(leases) \in Nat
    BY <1>9 DEF Typed
  <2>3. QED
    BY <1>2, <2>1, <2>2
<1>12. CoherentLease(r, new)'
  <2>1. expires # NoExpiry
    BY <1>3, <1>9, ConstantsAssumption DEF Typed, NoExpiry
  <2>2. t \in 1 .. Len(leases')
    BY <1>2, <1>9, <1>10 DEF Typed
  <2>3. QED
    BY <1>5, <1>10, <2>1, <2>2 DEF CoherentLease, ACTIVE_STATUSES
<1>13. FencedEvents(new.events)
  <2>1. row.events \in Seq(Event) /\ FencedEvents(row.events)
    BY <1>9, RowFields DEF RowInv
  <2>2. FencedEvents(Append(row.events, e))
    BY <1>7, <1>11, <2>1, LeasedFenced
  <2>3. QED
    BY <1>5, <1>6, <2>2
<1>14. InGeneration(new)'
  <2>1. InGeneration(row) /\ new.events = Append(row.events, e)
    BY <1>5, <1>6, <1>9 DEF RowInv
  <2>2. e.by <= Len(leases')
    BY <1>7, <1>10
  <2>3. /\ e.by <= new.lease_token /\ e.state # "queued"
        /\ \A i \in DOMAIN row.events :
             /\ row.events[i].by <= new.lease_token
             /\ row.events[i].by # new.lease_token
    BY <1>5, <1>7, <1>11
  <2>4. QED
    BY <1>9, <1>10, <2>1, <2>2, <2>3, AppendGeneration
<1>15. RowInv(r, new)'
  BY <1>12, <1>13, <1>14 DEF RowInv
<1>16. StageOK(r, new)
  <2>1. row.lifecycle_version \in Nat
    BY RowFields
  <2>2. QED
    BY <1>5, <1>8, <1>9, <2>1 DEF StageOK, ACTIVE_STATUSES, TERMINAL_STATUSES
<1>17. QED
  BY <1>8, <1>10, <1>15, <1>16, StagedRow DEF NoToken

\* One more event under the row's own lease, or without any, in a row that
\* keeps its lease or gives it up.
LEMMA EventKeepsRow ==
  ASSUME Typed, Typed', UNCHANGED leases, NEW r \in Runs, NEW row \in Row, RowInv(r, row),
         NEW row2 \in Row, NEW e \in Event, row2.events = Append(row.events, e),
         \/ e.by = NoToken
         \/ e.by = row.lease_token /\ e.state # "queued",
         \/ row2.lease_token = NoToken
         \/ row2.lease_token = row.lease_token /\ e.state # "queued",
         CoherentLease(r, row2)
  PROVE  RowInv(r, row2)'
<1>1. /\ row.events \in Seq(Event) /\ row.lease_token \in Nat /\ e.by \in Nat
      /\ \A i \in DOMAIN row.events : row.events[i].by \in Nat
  BY RowFields DEF Event
<1>2. FencedEvents(row.events) /\ InGeneration(row) /\ CoherentLease(r, row)
  BY DEF RowInv
<1>3. FencedEvents(row2.events)
  <2>1. CASE e.by = NoToken
    BY <1>1, <1>2, <2>1, UnleasedFenced
  <2>2. CASE e.by # NoToken
    <3>1. e.by = row.lease_token /\ e.state # "queued" /\ row.lease_token # NoToken
      BY <2>2
    <3>2. QED
      BY <1>1, <1>2, <3>1, LeasedFenced DEF InGeneration
  <2>3. QED
    BY <2>1, <2>2
<1>4. InGeneration(row2)'
  <2>1. LeasesExtend
    BY StableLeases
  <2>2. row.lease_token <= Len(leases)
    BY <1>2 DEF CoherentLease, NoToken, Typed
  <2>3. e.by <= Len(leases')
    BY <1>1, <2>2 DEF NoToken, Typed
  <2>4. row2.lease_token # NoToken =>
           /\ e.by <= row2.lease_token
           /\ e.state # "queued"
           /\ \A i \in DOMAIN row.events :
                /\ row.events[i].by <= row2.lease_token
                /\ row.events[i].by = row2.lease_token =>
                     \A k \in i .. Len(row.events) : row.events[k].state # "queued"
    BY <1>1, <1>2 DEF InGeneration, NoToken
  <2>5. QED
    BY <1>2, <2>1, <2>3, <2>4, AppendGeneration
<1>5. CoherentLease(r, row2)'
  BY DEF CoherentLease
<1>6. QED
  BY <1>3, <1>4, <1>5 DEF RowInv

\* The lease that proves itself is the one the row names.
LEMMA HolderToken ==
  ASSUME Typed, NEW t \in DOMAIN leases, NEW row \in Row, HoldsLease(row, t)
  PROVE  /\ row.status \in ACTIVE_STATUSES /\ row.lease_token = t
         /\ t \in Nat /\ t # NoToken /\ leases[t] \in LeaseIdentity /\ leases[t].run \in Runs
<1>1. t \in Nat /\ t # NoToken /\ leases[t] \in LeaseIdentity
  BY DEF Typed, NoToken
<1>2. QED
  BY <1>1 DEF HoldsLease, OwnsRun, LeaseIdentity

\* Every lease is for some Run.
LEMMA LeaseRun ==
  ASSUME IInv, NEW t \in DOMAIN leases
  PROVE  leases[t].run \in Runs
<1>1. leases[t] \in LeaseIdentity
  BY DEF IInv, Typed
<1>2. QED
  BY <1>1 DEF LeaseIdentity

\* heartbeat: the same generation with a later deadline and the next version.
LEMMA HeartbeatKeeps ==
  ASSUME IInv, Typed', NEW t \in DOMAIN leases, heartbeat(t)
  PROVE  IInv'
<1>1. PICK r \in Runs : r = leases[t].run
  BY LeaseRun
<1>2. PICK row \in Row : row = staged[r]
  BY IInvFacts
<1>3. HoldsLease(row, t)
  BY <1>1, <1>2 DEF heartbeat
<1>4. /\ Typed /\ RowInv(r, row) /\ StageInv(r) /\ row.lifecycle_version \in Nat
      /\ db[r] \in Row /\ clock \in Nat
  BY <1>2, IInvFacts, RowFields
<1>5. PICK version \in Nat : version = row.lifecycle_version + 1
  BY <1>4
<1>6. PICK expires \in Nat : expires = clock + LeaseDuration
  BY <1>4, ConstantsAssumption
<1>7. PICK new \in Row : new = [row EXCEPT !.lifecycle_version = version,
                                           !.lease_expires_at = expires]
  BY <1>2, <1>5, <1>6, HeartbeatType
<1>8. /\ new.status = row.status /\ new.lease_owner = row.lease_owner
      /\ new.lease_token = row.lease_token /\ new.attempt = row.attempt
      /\ new.events = row.events /\ new.lifecycle_version = version
      /\ new.lease_expires_at = expires
  BY <1>7 DEF Row
<1>9. Stage(r, t, new) /\ leases' = leases /\ seen' = seen
  BY <1>1, <1>2, <1>5, <1>6, <1>7 DEF heartbeat
<1>10. /\ row.status \in ACTIVE_STATUSES /\ t \in Nat
  BY <1>2, <1>3, <1>4, HolderToken
<1>11. RowInv(r, new)
  <2>1. expires # NoExpiry
    BY <1>4, <1>6, ConstantsAssumption DEF NoExpiry
  <2>2. QED
    BY <1>4, <1>8, <1>10, <2>1 DEF RowInv, CoherentLease, InGeneration
<1>12. LeasesExtend
  BY <1>4, <1>9, StableLeases
<1>13. RowInv(r, new)'
  BY <1>4, <1>7, <1>11, <1>12, RowInvStable
<1>14. StageOK(r, new)
  <2>1. db[r].lifecycle_version \in Nat /\ db[r].lifecycle_version <= row.lifecycle_version
    BY <1>2, <1>4, RowFields DEF StageInv
  <2>2. db[r].status \notin TERMINAL_STATUSES
    <3>1. db[r].status \in TERMINAL_STATUSES => db[r].status = row.status
      BY <1>2, <1>4 DEF StageInv, RunRecord, Row
    <3>2. QED
      BY <1>10, <3>1 DEF ACTIVE_STATUSES, TERMINAL_STATUSES
  <2>3. new.status # "queued"
    BY <1>8, <1>10 DEF ACTIVE_STATUSES
  <2>4. QED
    BY <1>4, <1>5, <1>8, <2>1, <2>2, <2>3 DEF StageOK
<1>15. QED
  BY <1>7, <1>9, <1>10, <1>12, <1>13, <1>14, StagedRow

\* A staged mutation of coordination state that no rule of StageInv forbids.
LEMMA MovedStageOK ==
  ASSUME IInv, NEW r \in Runs, NEW new \in Row, staged[r].status \notin TERMINAL_STATUSES,
         new.lifecycle_version = staged[r].lifecycle_version + 1,
         db[r].status \in ACTIVE_STATUSES /\ new.status = "queued"
           => db[r].lease_expires_at <= clock
  PROVE  StageOK(r, new)
<1>1. /\ staged[r] \in Row /\ db[r] \in Row /\ StageInv(r)
      /\ staged[r].lifecycle_version \in Nat /\ db[r].lifecycle_version \in Nat
  BY IInvFacts, RowFields
<1>2. db[r].status \notin TERMINAL_STATUSES
  <2>1. db[r].status \in TERMINAL_STATUSES => db[r].status = staged[r].status
    BY <1>1 DEF StageInv, RunRecord, Row
  <2>2. QED
    BY <2>1
<1>3. db[r].lifecycle_version <= staged[r].lifecycle_version
  BY <1>1 DEF StageInv
<1>4. QED
  BY <1>1, <1>2, <1>3 DEF StageOK

\* A row that only gained evidence.
LEMMA AppendedRow ==
  ASSUME NEW row \in Row, NEW e \in Event, NEW new,
         new = [row EXCEPT !.events = Append(row.events, e)]
  PROVE  /\ new \in Row /\ new.events = Append(row.events, e)
         /\ new.status = row.status /\ new.lifecycle_version = row.lifecycle_version
         /\ new.lease_owner = row.lease_owner /\ new.lease_token = row.lease_token
         /\ new.lease_expires_at = row.lease_expires_at /\ new.attempt = row.attempt
         /\ RunRecord(new) = RunRecord(row)
<1>1. Append(row.events, e) \in Seq(Event)
  BY RowFields
<1>2. new \in Row
  BY <1>1, EventsType
<1>3. QED
  BY <1>2 DEF Row, RunRecord

\* A row in a new status, and one that lost its lease with it.
LEMMA MovedRow ==
  ASSUME NEW row \in Row, NEW target \in RUN_STATUSES, NEW t \in Nat, NEW new,
         new \in {MoveTo(row, target, t), ClearLease(MoveTo(row, target, t))}
  PROVE  /\ new \in Row /\ new.status = target
         /\ new.lifecycle_version = row.lifecycle_version + 1 /\ new.attempt = row.attempt
         /\ LifecycleEvent(row.status, target, t) \in Event
         /\ new.events = Append(row.events, LifecycleEvent(row.status, target, t))
         /\ new = MoveTo(row, target, t) =>
              /\ new.lease_owner = row.lease_owner /\ new.lease_token = row.lease_token
              /\ new.lease_expires_at = row.lease_expires_at
         /\ new = ClearLease(MoveTo(row, target, t)) =>
              /\ new.lease_owner = Nobody /\ new.lease_token = NoToken
              /\ new.lease_expires_at = NoExpiry
<1>1. new \in Row
  BY MoveToType
<1>2. LifecycleEvent(row.status, target, t) \in Event
  BY LifecycleEventType, RowFields
<1>3. MoveTo(row, target, t) \in Row
  BY MoveToType
<1>4. QED
  BY <1>1, <1>2, <1>3 DEF MoveTo, ClearLease, Row

\* transition_owned_run: the holder's evidence, and no lease once the Run is over.
LEMMA TransitionKeeps ==
  ASSUME IInv, Typed', NEW t \in DOMAIN leases, NEW target \in RUN_STATUSES,
         transition_owned_run(t, target)
  PROVE  IInv'
<1>1. PICK r \in Runs : r = leases[t].run
  BY LeaseRun
<1>2. PICK row \in Row : row = staged[r]
  BY IInvFacts
<1>3. Typed /\ RowInv(r, row)
  BY <1>2, IInvFacts
<1>4. HoldsLease(row, t) /\ target \in owned_targets(row.status)
  BY <1>1, <1>2 DEF transition_owned_run
<1>5. /\ row.status \in ACTIVE_STATUSES /\ row.lease_token = t /\ t \in Nat /\ t # NoToken
  BY <1>3, <1>4, HolderToken
<1>6. target # "queued" /\ (target \notin TERMINAL_STATUSES => target \in ACTIVE_STATUSES)
  BY <1>4, <1>5 DEF owned_targets, ACTIVE_STATUSES, TERMINAL_STATUSES
<1>7. PICK new : new = IF target \in TERMINAL_STATUSES THEN ClearLease(MoveTo(row, target, t))
                       ELSE MoveTo(row, target, t)
  OBVIOUS
<1>8. Stage(r, t, new) /\ leases' = leases /\ seen' = seen
  BY <1>1, <1>2, <1>7 DEF transition_owned_run
<1>9. PICK e : e = LifecycleEvent(row.status, target, t)
  OBVIOUS
<1>10. /\ new \in Row /\ new.status = target /\ new.attempt = row.attempt
       /\ new.lifecycle_version = row.lifecycle_version + 1
       /\ e \in Event /\ new.events = Append(row.events, e)
       /\ target \notin TERMINAL_STATUSES =>
            /\ new.lease_owner = row.lease_owner /\ new.lease_token = row.lease_token
            /\ new.lease_expires_at = row.lease_expires_at
       /\ target \in TERMINAL_STATUSES =>
            /\ new.lease_owner = Nobody /\ new.lease_token = NoToken
            /\ new.lease_expires_at = NoExpiry
  BY <1>2, <1>5, <1>7, <1>9, MovedRow
<1>11. e.by = t /\ e.state = target
  BY <1>9 DEF LifecycleEvent
<1>12. CoherentLease(r, new)
  <2>1. CASE target \in TERMINAL_STATUSES
    BY <1>10, <2>1 DEF CoherentLease, ACTIVE_STATUSES, TERMINAL_STATUSES
  <2>2. CASE target \notin TERMINAL_STATUSES
    BY <1>3, <1>5, <1>6, <1>10, <2>2 DEF RowInv, CoherentLease
  <2>3. QED
    BY <2>1, <2>2
<1>13. RowInv(r, new)'
  <2>1. new.lease_token = NoToken \/ (new.lease_token = row.lease_token /\ e.state # "queued")
    BY <1>6, <1>10, <1>11
  <2>2. QED
    BY <1>2, <1>3, <1>5, <1>6, <1>8, <1>10, <1>11, <1>12, <2>1, EventKeepsRow
<1>14. StageOK(r, new)
  <2>1. staged[r].status \notin TERMINAL_STATUSES
    BY <1>2, <1>5 DEF ACTIVE_STATUSES, TERMINAL_STATUSES
  <2>2. QED
    BY <1>2, <1>6, <1>10, <2>1, MovedStageOK
<1>15. LeasesExtend
  BY <1>3, <1>8, StableLeases
<1>16. QED
  BY <1>5, <1>8, <1>10, <1>13, <1>14, <1>15, StagedRow

\* lock_current_lease: evidence in the name of the row's own lease.
LEMMA LockKeeps ==
  ASSUME IInv, Typed', NEW t \in DOMAIN leases, lock_current_lease(t)
  PROVE  IInv'
<1>1. PICK r \in Runs : r = leases[t].run
  BY LeaseRun
<1>2. PICK row \in Row : row = staged[r]
  BY IInvFacts
<1>3. /\ Typed /\ RowInv(r, row) /\ StageInv(r) /\ db[r] \in Row
      /\ row.lifecycle_version \in Nat /\ db[r].lifecycle_version \in Nat
  BY <1>2, IInvFacts, RowFields
<1>4. HoldsLease(row, t)
  BY <1>1, <1>2 DEF lock_current_lease
<1>5. /\ row.status \in ACTIVE_STATUSES /\ row.lease_token = t /\ t \in Nat /\ t # NoToken
  BY <1>3, <1>4, HolderToken
<1>6. PICK e \in Event : e = OtherEvent("fenced", t)
  BY <1>5, OtherEventType DEF EVENT_TYPES
<1>7. e.by = t /\ e.state # "queued"
  BY <1>6 DEF OtherEvent, NoState
<1>8. PICK new : new = [row EXCEPT !.events = Append(row.events, e)]
  OBVIOUS
<1>9. Stage(r, t, new) /\ leases' = leases /\ seen' = seen
  BY <1>1, <1>2, <1>6, <1>8 DEF lock_current_lease
<1>10. /\ new \in Row /\ new.events = Append(row.events, e)
       /\ new.status = row.status /\ new.lifecycle_version = row.lifecycle_version
       /\ new.lease_owner = row.lease_owner /\ new.lease_token = row.lease_token
       /\ new.lease_expires_at = row.lease_expires_at /\ new.attempt = row.attempt
       /\ RunRecord(new) = RunRecord(row)
  BY <1>2, <1>6, <1>8, AppendedRow
<1>11. CoherentLease(r, new)
  BY <1>3, <1>5, <1>10 DEF RowInv, CoherentLease
<1>12. RowInv(r, new)'
  BY <1>2, <1>3, <1>5, <1>6, <1>7, <1>9, <1>10, <1>11, EventKeepsRow
<1>13. StageOK(r, new)
  <2>1. db[r].status \notin TERMINAL_STATUSES
    <3>1. db[r].status \in TERMINAL_STATUSES => db[r].status = row.status
      BY <1>2, <1>3 DEF StageInv, RunRecord, Row
    <3>2. QED
      BY <1>5, <3>1 DEF ACTIVE_STATUSES, TERMINAL_STATUSES
  <2>2. new.status # "queued"
    BY <1>5, <1>10 DEF ACTIVE_STATUSES
  <2>3. QED
    BY <1>2, <1>3, <1>10, <2>1, <2>2 DEF StageOK, StageInv
<1>14. LeasesExtend
  BY <1>3, <1>9, StableLeases
<1>15. QED
  BY <1>5, <1>9, <1>10, <1>12, <1>13, <1>14, StagedRow

\* Operators see the committed row of their snapshot only.
LEMMA SnapshotRun ==
  ASSUME IInv, NEW o \in Operators
  PROVE  seen[o].run \in Runs
<1>1. seen[o] \in Snapshot
  BY DEF IInv, Typed
<1>2. QED
  BY <1>1 DEF Snapshot

\* What a caller without a lease stages on an unlocked row that is not finished:
\* the Run in a status without a lease.
LEMMA UnleasedMove ==
  ASSUME IInv, Typed', NEW r \in Runs, r \notin locked, NEW target \in {"queued", "cancelled"},
         NEW row \in Row, row = staged[r], row.status \notin TERMINAL_STATUSES,
         row.status \in ACTIVE_STATUSES /\ target = "queued" => row.lease_expires_at <= clock,
         NEW new, new \in {MoveTo(row, target, NoToken), ClearLease(MoveTo(row, target, NoToken))},
         new.lease_owner = Nobody, new.lease_token = NoToken, new.lease_expires_at = NoExpiry,
         Stage(r, NoToken, new), UNCHANGED <<leases, seen>>
  PROVE  IInv'
<1>1. Typed /\ RowInv(r, row) /\ row = db[r]
  BY IInvFacts DEF StageInv
<1>2. target \in RUN_STATUSES /\ NoToken \in Nat
  BY DEF RUN_STATUSES, TERMINAL_STATUSES, NoToken
<1>3. PICK e : e = LifecycleEvent(row.status, target, NoToken)
  OBVIOUS
<1>4. /\ new \in Row /\ new.status = target
      /\ new.lifecycle_version = row.lifecycle_version + 1
      /\ e \in Event /\ new.events = Append(row.events, e)
  BY <1>2, <1>3, MovedRow
<1>5. e.by = NoToken
  BY <1>3 DEF LifecycleEvent
<1>6. CoherentLease(r, new)
  BY <1>4 DEF CoherentLease, ACTIVE_STATUSES
<1>7. RowInv(r, new)'
  BY <1>1, <1>4, <1>5, <1>6, EventKeepsRow
<1>8. StageOK(r, new)
  BY <1>1, <1>4, MovedStageOK
<1>9. LeasesExtend
  BY <1>1, StableLeases
<1>10. QED
  BY <1>2, <1>4, <1>7, <1>8, <1>9, StagedRow

\* cancel_queued_run: a Run without a lease ends.
LEMMA CancelKeeps ==
  ASSUME IInv, Typed', NEW o \in Operators, cancel_queued_run(o)
  PROVE  IInv'
<1>1. PICK r \in Runs : r = seen[o].run
  BY SnapshotRun
<1>2. PICK row \in Row : row = staged[r]
  BY IInvFacts
<1>3. /\ r \notin locked /\ row.status = "queued"
      /\ row.lease_owner = Nobody /\ row.lease_token = NoToken
      /\ Stage(r, NoToken, MoveTo(row, "cancelled", NoToken)) /\ UNCHANGED <<leases, seen>>
  BY <1>1, <1>2 DEF cancel_queued_run
<1>4. row.lease_expires_at = NoExpiry
  <2>1. RowInv(r, row)
    BY <1>2, IInvFacts
  <2>2. QED
    BY <1>3, <2>1 DEF RowInv, CoherentLease, ACTIVE_STATUSES
<1>5. PICK new : new = MoveTo(row, "cancelled", NoToken)
  OBVIOUS
<1>6. /\ new.lease_owner = Nobody /\ new.lease_token = NoToken
      /\ new.lease_expires_at = NoExpiry
  <2>1. "cancelled" \in RUN_STATUSES /\ NoToken \in Nat
    BY DEF RUN_STATUSES, TERMINAL_STATUSES, NoToken
  <2>2. QED
    BY <1>2, <1>3, <1>4, <1>5, <2>1, MovedRow
<1>7. row.status \notin TERMINAL_STATUSES
  BY <1>3 DEF TERMINAL_STATUSES
<1>8. QED
  BY <1>2, <1>3, <1>5, <1>6, <1>7, UnleasedMove

\* requeue_expired_run: an expired lease is cleared and the generation closed.
LEMMA RequeueKeeps ==
  ASSUME IInv, Typed', NEW o \in Operators, requeue_expired_run(o)
  PROVE  IInv'
<1>1. PICK r \in Runs : r = seen[o].run
  BY SnapshotRun
<1>2. PICK row \in Row : row = staged[r]
  BY IInvFacts
<1>3. PICK new : new = ClearLease(MoveTo(row, "queued", NoToken))
  OBVIOUS
<1>4. /\ r \notin locked /\ row.status \in ACTIVE_STATUSES /\ row.lease_expires_at <= clock
      /\ Stage(r, NoToken, new) /\ UNCHANGED <<leases, seen>>
  BY <1>1, <1>2, <1>3 DEF requeue_expired_run
<1>5. /\ new.lease_owner = Nobody /\ new.lease_token = NoToken
      /\ new.lease_expires_at = NoExpiry
  <2>1. "queued" \in RUN_STATUSES /\ NoToken \in Nat
    BY DEF RUN_STATUSES, NoToken
  <2>2. QED
    BY <1>2, <1>3, <2>1, MovedRow
<1>6. row.status \notin TERMINAL_STATUSES
  BY <1>4 DEF ACTIVE_STATUSES, TERMINAL_STATUSES
<1>7. QED
  BY <1>2, <1>3, <1>4, <1>5, <1>6, UnleasedMove

\* append_event without a lease: evidence and nothing else.
LEMMA AppendKeeps ==
  ASSUME IInv, Typed', NEW r \in Runs, append_event(r)
  PROVE  IInv'
<1>1. PICK row \in Row : row = staged[r]
  BY IInvFacts
<1>2. PICK e \in Event : e = OtherEvent("unfenced", NoToken)
  BY OtherEventType DEF EVENT_TYPES, NoToken
<1>3. e.by = NoToken /\ e.state # "queued"
  BY <1>2 DEF OtherEvent, NoState
<1>4. PICK new : new = [row EXCEPT !.events = Append(row.events, e)]
  OBVIOUS
<1>5. r \notin locked /\ Stage(r, NoToken, new) /\ leases' = leases /\ seen' = seen
  BY <1>1, <1>2, <1>4 DEF append_event
<1>6. /\ new \in Row /\ new.events = Append(row.events, e)
      /\ new.status = row.status /\ new.lifecycle_version = row.lifecycle_version
      /\ new.lease_owner = row.lease_owner /\ new.lease_token = row.lease_token
      /\ new.lease_expires_at = row.lease_expires_at /\ new.attempt = row.attempt
      /\ RunRecord(new) = RunRecord(row)
  BY <1>1, <1>2, <1>4, AppendedRow
<1>7. Typed /\ RowInv(r, row) /\ row = db[r]
  BY <1>1, <1>5, IInvFacts DEF StageInv
<1>8. CoherentLease(r, new)
  BY <1>6, <1>7 DEF RowInv, CoherentLease
<1>9. RowInv(r, new)'
  BY <1>1, <1>2, <1>3, <1>5, <1>6, <1>7, <1>8, EventKeepsRow
<1>10. StageOK(r, new)
  <2>1. row.lifecycle_version \in Nat /\ Len(row.events) \in Nat
    BY <1>1, RowFields
  <2>2. Len(new.events) = Len(row.events) + 1
    BY <1>1, <1>6, RowFields
  <2>3. ~(db[r].status \in ACTIVE_STATUSES /\ new.status = "queued")
    BY <1>6, <1>7 DEF ACTIVE_STATUSES
  <2>4. QED
    BY <1>6, <1>7, <2>1, <2>2, <2>3 DEF StageOK
<1>11. LeasesExtend
  BY <1>5, <1>7, StableLeases
<1>12. QED
  BY <1>5, <1>6, <1>9, <1>10, <1>11, StagedRow DEF NoToken

-----------------------------------------------------------------------------
(* Steps that stage nothing.                                                *)

\* refresh: a holder learns the version of the row it holds.
LEMMA RefreshKeeps ==
  ASSUME IInv, Typed', NEW t \in DOMAIN leases, refresh(t)
  PROVE  IInv'
<1>1. /\ db' = db /\ staged' = staged /\ locked' = locked /\ clock' = clock /\ seen' = seen
      /\ leases' = [leases EXCEPT ![t].version = staged[leases[t].run].lifecycle_version]
  BY DEF refresh
<1>2. LeasesExtend
  <2>1. leases \in Seq(LeaseIdentity) /\ leases' \in Seq(LeaseIdentity)
    BY DEF IInv, Typed
  <2>2. Len(leases') = Len(leases) /\ Len(leases) \in Nat
    BY <1>1, <2>1
  <2>3. ASSUME NEW u \in DOMAIN leases
        PROVE  /\ leases'[u].run = leases[u].run /\ leases'[u].worker = leases[u].worker
               /\ leases'[u].attempt = leases[u].attempt
    <3>1. leases[u] \in LeaseIdentity
      BY <2>1
    <3>2. leases'[u] = IF u = t THEN [leases[u] EXCEPT
                                       !.version = staged[leases[t].run].lifecycle_version]
                       ELSE leases[u]
      BY <1>1
    <3>3. QED
      BY <3>1, <3>2 DEF LeaseIdentity
  <2>4. QED
    BY <2>2, <2>3 DEF LeasesExtend
<1>3. ASSUME NEW r \in Runs, NEW row \in Row, RowInv(r, row) PROVE RowInv(r, row)'
  BY <1>2, <1>3, RowInvStable DEF IInv
<1>4. ASSUME NEW r \in Runs PROVE RowInv(r, db[r])' /\ RowInv(r, staged[r])' /\ StageInv(r)'
  <2>1. PICK d \in Row : d = db[r]
    BY IInvFacts
  <2>2. PICK s \in Row : s = staged[r]
    BY IInvFacts
  <2>3. RowInv(r, d) /\ RowInv(r, s) /\ StageInv(r)
    BY <2>1, <2>2 DEF IInv
  <2>4. RowInv(r, d)' /\ RowInv(r, s)'
    BY <1>3, <2>1, <2>2, <2>3
  <2>5. db'[r] = d /\ staged'[r] = s
    BY <1>1, <2>1, <2>2
  <2>6. RowInv(r, db[r])' /\ RowInv(r, staged[r])'
    BY <2>4, <2>5 DEF RowInv, CoherentLease, InGeneration
  <2>7. StageInv(r)'
    BY <1>1, <2>3 DEF StageInv
  <2>8. QED
    BY <2>6, <2>7
<1>5. ASSUME NEW o \in Operators PROVE SeenInv(o)'
  BY <1>1 DEF SeenInv, IInv
<1>6. QED
  BY <1>4, <1>5 DEF IInv

\* Anything that leaves rows, locks and leases alone keeps their invariants.
LEMMA RowsUnchanged ==
  ASSUME IInv, db' = db, staged' = staged, locked' = locked, leases' = leases,
         clock \in Nat, clock' \in Nat, clock <= clock', NEW r \in Runs
  PROVE  RowInv(r, db[r])' /\ RowInv(r, staged[r])' /\ StageInv(r)'
<1>1. RowInv(r, db[r]) /\ RowInv(r, staged[r]) /\ StageInv(r)
  BY DEF IInv
<1>2. RowInv(r, db[r])' /\ RowInv(r, staged[r])'
  BY <1>1 DEF RowInv, CoherentLease, InGeneration
<1>3. db[r].lease_expires_at \in Nat
  BY IInvFacts, RowFields
<1>4. StageInv(r)'
  <2>1. db[r].lease_expires_at <= clock => db[r].lease_expires_at <= clock'
    BY <1>3
  <2>2. QED
    BY <1>1, <2>1 DEF StageInv
<1>5. QED
  BY <1>2, <1>4

\* Time passes: deadlines only come closer.
LEMMA TickKeeps ==
  ASSUME IInv, Typed', Tick
  PROVE  IInv'
<1>1. /\ db' = db /\ staged' = staged /\ locked' = locked /\ leases' = leases /\ seen' = seen
      /\ clock \in Nat /\ clock' = clock + 1
  BY DEF Tick, IInv, Typed
<1>2. \A r \in Runs : RowInv(r, db[r])' /\ RowInv(r, staged[r])' /\ StageInv(r)'
  BY <1>1, RowsUnchanged
<1>3. \A o \in Operators : SeenInv(o)'
  BY <1>1 DEF SeenInv, IInv
<1>4. QED
  BY <1>2, <1>3 DEF IInv

\* get_run: what an operator has just read identifies its version.
LEMMA GetKeeps ==
  ASSUME IInv, Typed', NEW o \in Operators, NEW r \in Runs, get_run(o, r)
  PROVE  IInv'
<1>1. /\ db' = db /\ staged' = staged /\ locked' = locked /\ leases' = leases
      /\ clock \in Nat /\ clock' = clock
      /\ seen' = [seen EXCEPT ![o] = [run |-> r, row |-> RunRecord(db[r])]]
  BY DEF get_run, IInv, Typed
<1>2. \A s \in Runs : RowInv(s, db[s])' /\ RowInv(s, staged[s])' /\ StageInv(s)'
  BY <1>1, RowsUnchanged
<1>3. ASSUME NEW p \in Operators PROVE SeenInv(p)'
  <2>1. CASE p = o
    <3>1. seen'[p] = [run |-> r, row |-> RunRecord(db[r])]
      BY <1>1, <2>1 DEF IInv, Typed
    <3>2. PICK d \in Row : d = db[r]
      BY IInvFacts
    <3>3. RunRecord(d).lifecycle_version = d.lifecycle_version /\ d.lifecycle_version \in Nat
      BY <3>2 DEF RunRecord, Row
    <3>4. QED
      BY <1>1, <3>1, <3>2, <3>3 DEF SeenInv
  <2>2. CASE p # o
    <3>1. seen'[p] = seen[p] /\ SeenInv(p)
      BY <1>1, <2>2 DEF IInv, Typed
    <3>2. QED
      BY <1>1, <3>1 DEF SeenInv
  <2>3. QED
    BY <2>1, <2>2
<1>4. QED
  BY <1>2, <1>3 DEF IInv

\* Commit: the staged row takes the place of the committed one.
LEMMA CommitKeeps ==
  ASSUME IInv, Typed', NEW r \in Runs, Commit(r)
  PROVE  IInv'
<1>1. /\ staged' = staged /\ leases' = leases /\ seen' = seen /\ clock' = clock
      /\ locked' = locked \ {r} /\ db' = [db EXCEPT ![r] = staged[r]]
  BY DEF Commit
<1>2. ASSUME NEW s \in Runs PROVE RowInv(s, db[s])' /\ RowInv(s, staged[s])' /\ StageInv(s)'
  <2>1. RowInv(s, db[s]) /\ RowInv(s, staged[s]) /\ StageInv(s)
    BY DEF IInv
  <2>2. RowInv(s, staged[s])'
    BY <1>1, <2>1 DEF RowInv, CoherentLease, InGeneration
  <2>3. CASE s = r
    <3>1. db'[s] = staged'[s]
      BY <1>1, <2>3 DEF IInv, Typed
    <3>2. RowInv(s, db[s])'
      BY <2>2, <3>1 DEF RowInv, CoherentLease, InGeneration
    <3>3. db'[s] \in Row
      BY DEF Typed
    <3>4. StageInv(s)'
      <4>1. PICK d \in Row : d = db'[s]
        BY <3>3
      <4>2. staged'[s] = d /\ db'[s] = d /\ s \notin locked'
        BY <1>1, <2>3, <3>1, <4>1
      <4>3. /\ d.lifecycle_version <= d.lifecycle_version
            /\ Len(d.events) <= Len(d.events) + 0
            /\ d.status # "queued" \/ d.status \notin ACTIVE_STATUSES
        BY <4>1, RowFields DEF ACTIVE_STATUSES
      <4>4. QED
        BY <4>2, <4>3 DEF StageInv
    <3>5. QED
      BY <2>2, <3>2, <3>4
  <2>4. CASE s # r
    <3>1. db'[s] = db[s] /\ (s \in locked' <=> s \in locked)
      BY <1>1, <2>4 DEF IInv, Typed
    <3>2. RowInv(s, db[s])'
      BY <1>1, <2>1, <3>1 DEF RowInv, CoherentLease, InGeneration
    <3>3. StageInv(s)'
      BY <1>1, <2>1, <3>1 DEF StageInv
    <3>4. QED
      BY <2>2, <3>2, <3>3
  <2>5. QED
    BY <2>3, <2>4
<1>3. ASSUME NEW o \in Operators PROVE SeenInv(o)'
  <2>1. SeenInv(o) /\ seen[o].run \in Runs /\ seen[o].row \in Row
    BY DEF IInv, Typed, Snapshot
  <2>2. CASE seen[o].run = r
    <3>1. db'[r] = staged[r]
      BY <1>1 DEF IInv, Typed
    <3>2. StageInv(r) /\ db[r] \in Row /\ staged[r] \in Row
      BY IInvFacts
    <3>3. /\ db[r].lifecycle_version \in Nat /\ staged[r].lifecycle_version \in Nat
          /\ seen[o].row.lifecycle_version \in Nat
      BY <2>1, <3>2, RowFields
    <3>4. QED
      BY <1>1, <2>1, <2>2, <3>1, <3>2, <3>3 DEF SeenInv, StageInv
  <2>3. CASE seen[o].run # r
    <3>1. db'[seen[o].run] = db[seen[o].run]
      BY <1>1, <2>1, <2>3 DEF IInv, Typed
    <3>2. QED
      BY <1>1, <2>1, <3>1 DEF SeenInv
  <2>4. QED
    BY <2>2, <2>3
<1>4. QED
  BY <1>2, <1>3 DEF IInv

\* Rollback: the committed row takes the place of the staged one.
LEMMA RollbackKeeps ==
  ASSUME IInv, Typed', NEW r \in Runs, Rollback(r)
  PROVE  IInv'
<1>1. /\ db' = db /\ leases' = leases /\ seen' = seen /\ clock' = clock
      /\ locked' = locked \ {r} /\ staged' = [staged EXCEPT ![r] = db[r]]
  BY DEF Rollback
<1>2. ASSUME NEW s \in Runs PROVE RowInv(s, db[s])' /\ RowInv(s, staged[s])' /\ StageInv(s)'
  <2>1. RowInv(s, db[s]) /\ RowInv(s, staged[s]) /\ StageInv(s)
    BY DEF IInv
  <2>2. RowInv(s, db[s])'
    BY <1>1, <2>1 DEF RowInv, CoherentLease, InGeneration
  <2>3. CASE s = r
    <3>1. staged'[s] = db'[s]
      BY <1>1, <2>3 DEF IInv, Typed
    <3>2. RowInv(s, staged[s])'
      BY <2>2, <3>1 DEF RowInv, CoherentLease, InGeneration
    <3>3. db'[s] \in Row
      BY DEF Typed
    <3>4. StageInv(s)'
      <4>1. PICK d \in Row : d = db'[s]
        BY <3>3
      <4>2. staged'[s] = d /\ db'[s] = d /\ s \notin locked'
        BY <1>1, <2>3, <3>1, <4>1
      <4>3. /\ d.lifecycle_version <= d.lifecycle_version
            /\ Len(d.events) <= Len(d.events) + 0
            /\ d.status # "queued" \/ d.status \notin ACTIVE_STATUSES
        BY <4>1, RowFields DEF ACTIVE_STATUSES
      <4>4. QED
        BY <4>2, <4>3 DEF StageInv
    <3>5. QED
      BY <2>2, <3>2, <3>4
  <2>4. CASE s # r
    <3>1. staged'[s] = staged[s] /\ (s \in locked' <=> s \in locked)
      BY <1>1, <2>4 DEF IInv, Typed
    <3>2. RowInv(s, staged[s])'
      BY <1>1, <2>1, <3>1 DEF RowInv, CoherentLease, InGeneration
    <3>3. StageInv(s)'
      BY <1>1, <2>1, <3>1 DEF StageInv
    <3>4. QED
      BY <2>2, <3>2, <3>3
  <2>5. QED
    BY <2>3, <2>4
<1>3. ASSUME NEW o \in Operators PROVE SeenInv(o)'
  BY <1>1 DEF SeenInv, IInv
<1>4. QED
  BY <1>2, <1>3 DEF IInv

-----------------------------------------------------------------------------
(* The theorems.                                                            *)

\* Initially nothing is leased, locked or staged.
LEMMA InitIInv == Init => IInv
<1> SUFFICES ASSUME Init PROVE IInv
  OBVIOUS
<1>1. Typed
  BY InitTyped
<1>2. ASSUME NEW r \in Runs
      PROVE  RowInv(r, db[r]) /\ RowInv(r, staged[r]) /\ StageInv(r)
  <2>1. db[r] = NewRun /\ staged[r] = NewRun
    BY DEF Init
  <2>2. RowInv(r, NewRun)
    BY DEF RowInv, CoherentLease, FencedEvents, InGeneration, NewRun, ACTIVE_STATUSES
  <2>3. StageInv(r)
    BY <2>1 DEF StageInv, NewRun, Init, ACTIVE_STATUSES, TERMINAL_STATUSES
  <2>4. QED
    BY <2>1, <2>2, <2>3
<1>3. ASSUME NEW o \in Operators PROVE SeenInv(o)
  <2>1. seen[o].row = NewRun /\ db[seen[o].run] = NewRun
    BY DEF Init
  <2>2. RunRecord(NewRun) = NewRun
    BY DEF RunRecord, NewRun
  <2>3. QED
    BY <2>1, <2>2 DEF SeenInv, NewRun
<1>4. QED
  BY <1>1, <1>2, <1>3 DEF IInv

\* IInv is inductive: one case per operation.
LEMMA NextIInv == IInv /\ [Next]_vars => IInv'
<1> SUFFICES ASSUME IInv, [Next]_vars PROVE IInv'
  OBVIOUS
<1>1. Typed'
  BY NextTyped DEF IInv
<1>2. CASE WorkerStep
  BY <1>1, <1>2, ClaimKeeps, HeartbeatKeeps, TransitionKeeps, RefreshKeeps, LockKeeps
     DEF WorkerStep
<1>3. CASE OperatorStep
  BY <1>1, <1>3, GetKeeps, CancelKeeps, RequeueKeeps, AppendKeeps DEF OperatorStep
<1>4. CASE Tick
  BY <1>1, <1>4, TickKeeps
<1>5. CASE \E r \in Runs : Commit(r) \/ Rollback(r)
  BY <1>1, <1>5, CommitKeeps, RollbackKeeps
<1>6. CASE UNCHANGED vars
  <2>1. /\ db' = db /\ staged' = staged /\ locked' = locked /\ leases' = leases
        /\ seen' = seen /\ clock' = clock /\ clock \in Nat
    BY <1>6 DEF vars, IInv, Typed
  <2>2. \A r \in Runs : RowInv(r, db[r])' /\ RowInv(r, staged[r])' /\ StageInv(r)'
    BY <2>1, RowsUnchanged
  <2>3. \A o \in Operators : SeenInv(o)'
    BY <2>1 DEF SeenInv, IInv
  <2>4. QED
    BY <1>1, <2>2, <2>3 DEF IInv
<1>7. QED
  BY <1>2, <1>3, <1>4, <1>5, <1>6 DEF Next

\* IInv holds in every reachable state, whatever the number of Runs, workers,
\* claims and versions.
THEOREM InductiveInvariant == Spec => []IInv
BY InitIInv, NextIInv, PTL DEF Spec

\* The lease columns of a committed Run always agree with its status and with
\* the credentials claim_next_run handed out.
THEOREM LeaseStateConsistent == Spec => []LeaseStateConsistency
<1>1. IInv => LeaseStateConsistency
  BY DEF IInv, RowInv, LeaseStateConsistency
<1>2. QED
  BY <1>1, InductiveInvariant, PTL

\* Rows, events, locks and credentials keep their types, and committed rows
\* meet the table's constraint on the lease columns.
THEOREM TypeCorrect == Spec => []TypeOK
<1>1. IInv => TypeOK
  <2> SUFFICES ASSUME IInv PROVE TypeOK
    OBVIOUS
  <2>1. ASSUME NEW r \in Runs PROVE LeaseColumnsAgree(db[r])
    <3>1. CoherentLease(r, db[r]) /\ db[r].status \in RUN_STATUSES
      BY DEF IInv, RowInv, Typed, Row
    <3>2. CASE db[r].status \in ACTIVE_STATUSES
      <4>1. /\ db[r].lease_token \in 1 .. Len(leases)
            /\ db[r].lease_owner = leases[db[r].lease_token].worker
            /\ db[r].lease_expires_at # NoExpiry
        BY <3>1, <3>2 DEF CoherentLease
      <4>2. leases \in Seq(LeaseIdentity)
        BY DEF IInv, Typed
      <4>3. leases[db[r].lease_token] \in LeaseIdentity
        BY <4>1, <4>2
      <4>4. leases[db[r].lease_token].worker \in Workers
        BY <4>3 DEF LeaseIdentity
      <4>5. db[r].lease_token # NoToken
        BY <4>1 DEF NoToken
      <4>6. QED
        BY <3>2, <4>1, <4>4, <4>5, ConstantsAssumption DEF LeaseColumnsAgree
    <3>3. CASE db[r].status \notin ACTIVE_STATUSES
      BY <3>1, <3>3 DEF CoherentLease, LeaseColumnsAgree
    <3>4. QED
      BY <3>2, <3>3
  <2>2. QED
    BY <2>1 DEF IInv, Typed, TypeOK
<1>2. QED
  BY <1>1, InductiveInvariant, PTL

\* A worker that lost its lease writes no more evidence (lock_current_lease and
\* the guards of every owned mutation).
THEOREM StaleWorkersFenced == Spec => []EvidenceFenced
<1>1. IInv => EvidenceFenced
  BY DEF IInv, RowInv, EvidenceFenced
<1>2. QED
  BY <1>1, InductiveInvariant, PTL

\* The compare-and-swap on lifecycle_version has no ABA problem.
THEOREM VersionsIdentifyRows == Spec => []VersionIdentifiesRow
<1>1. IInv => VersionIdentifiesRow
  BY DEF IInv, SeenInv, VersionIdentifiesRow
<1>2. QED
  BY <1>1, InductiveInvariant, PTL

\* Only COMMIT changes committed rows.
LEMMA OnlyCommitWrites ==
  ASSUME [Next]_vars, ~(\E r \in Runs : Commit(r))
  PROVE  db' = db
<1>1. CASE WorkerStep
  BY <1>1 DEF WorkerStep, Stage, claim_next_run, heartbeat, transition_owned_run, refresh,
              lock_current_lease
<1>2. CASE OperatorStep
  BY <1>2 DEF OperatorStep, Stage, get_run, cancel_queued_run, requeue_expired_run, append_event
<1>3. QED
  BY <1>1, <1>2 DEF Next, vars, Tick, Rollback

\* Recovery never takes a lease from a holder before its deadline, however long
\* ago the reaper looked at the Run and however late it commits.
THEOREM NoLiveLeaseRevoked == Spec => LiveLeaseNotRevoked
<1>1. IInv /\ [Next]_vars =>
        \A r \in Runs : db[r].status \in ACTIVE_STATUSES /\ db'[r].status = "queued"
                          => db[r].lease_expires_at <= clock
  <2> SUFFICES ASSUME IInv, [Next]_vars, NEW r \in Runs,
                      db[r].status \in ACTIVE_STATUSES, db'[r].status = "queued"
               PROVE  db[r].lease_expires_at <= clock
    OBVIOUS
  <2>1. db'[r].status # db[r].status
    BY DEF ACTIVE_STATUSES
  <2>2. PICK s \in Runs : Commit(s)
    BY <2>1, OnlyCommitWrites
  <2>3. s = r /\ db'[r] = staged[r]
    BY <2>1, <2>2 DEF Commit, IInv, Typed
  <2>4. QED
    BY <2>3, IInvFacts DEF StageInv
<1>2. QED
  BY <1>1, InductiveInvariant, PTL DEF Spec, LiveLeaseNotRevoked

\* Nothing but one unfenced event per transaction is added to a finished Run.
THEOREM FinishedStaysFinished == Spec => TerminalIsFinal
<1>1. IInv /\ [Next]_vars =>
        \A r \in Runs : db[r].status \in TERMINAL_STATUSES
          => /\ RunRecord(db'[r]) = RunRecord(db[r])
             /\ Len(db'[r].events) <= Len(db[r].events) + 1
  <2> SUFFICES ASSUME IInv, [Next]_vars, NEW r \in Runs, db[r].status \in TERMINAL_STATUSES
               PROVE  /\ RunRecord(db'[r]) = RunRecord(db[r])
                      /\ Len(db'[r].events) <= Len(db[r].events) + 1
    OBVIOUS
  <2>1. Len(db[r].events) \in Nat
    BY IInvFacts, RowFields
  <2>2. CASE db'[r] = db[r]
    BY <2>1, <2>2
  <2>3. CASE db'[r] # db[r]
    <3>1. PICK s \in Runs : Commit(s)
      BY <2>3, OnlyCommitWrites
    <3>2. s = r /\ r \in locked /\ db'[r] = staged[r]
      BY <2>3, <3>1 DEF Commit, IInv, Typed
    <3>3. QED
      BY <3>2, IInvFacts DEF StageInv
  <2>4. QED
    BY <2>2, <2>3
<1>2. QED
  BY <1>1, InductiveInvariant, PTL DEF Spec, TerminalIsFinal

-----------------------------------------------------------------------------
(* The invariant.                                                          *)

\* Before every position with lifecycle evidence before it, some of it is last.
HasLast(events) ==
  \A n \in 1 .. Len(events) + 1 :
    \/ LifecycleBefore(events, n) = {}
    \/ \E m \in LifecycleBefore(events, n) : \A k \in LifecycleBefore(events, n) : m >= k

HistoryOK(row) ==
  /\ HasLast(row.events)
  /\ ChainedEvents(row.events, row.status)
  /\ row.attempt = Cardinality(Claims(row.events))

HInv == Typed /\ \A r \in Runs : HistoryOK(db[r]) /\ HistoryOK(staged[r])

-----------------------------------------------------------------------------
(* Appending evidence.                                                     *)

\* The positions and the members of a longer sequence.
LEMMA AppendFacts ==
  ASSUME NEW events \in Seq(Event), NEW e \in Event
  PROVE  /\ Append(events, e) \in Seq(Event)
         /\ Len(events) \in Nat /\ Len(Append(events, e)) = Len(events) + 1
         /\ DOMAIN events = 1 .. Len(events)
         /\ DOMAIN Append(events, e) = 1 .. Len(events) + 1
         /\ \A i \in 1 .. Len(events) : Append(events, e)[i] = events[i]
         /\ Append(events, e)[Len(events) + 1] = e
OBVIOUS

\* The lifecycle evidence before a position of the longer sequence.
LEMMA BeforeAppend ==
  ASSUME NEW events \in Seq(Event), NEW e \in Event, NEW more, more = Append(events, e)
  PROVE  /\ \A n \in 1 .. Len(events) + 1 :
              LifecycleBefore(more, n) = LifecycleBefore(events, n)
         /\ e.type # "run.lifecycle" =>
              LifecycleBefore(more, Len(events) + 2) = LifecycleBefore(events, Len(events) + 1)
         /\ e.type = "run.lifecycle" =>
              /\ Len(events) + 1 \in LifecycleBefore(more, Len(events) + 2)
              /\ \A k \in LifecycleBefore(more, Len(events) + 2) : Len(events) + 1 >= k
<1>1. /\ Len(events) \in Nat
      /\ \A i \in 1 .. Len(events) : more[i] = events[i]
      /\ more[Len(events) + 1] = e
  BY AppendFacts
<1>2. ASSUME NEW n \in 1 .. Len(events) + 1
      PROVE  LifecycleBefore(more, n) = LifecycleBefore(events, n)
  <2>1. 1 .. n - 1 \subseteq 1 .. Len(events)
    BY <1>1
  <2>2. QED
    BY <1>1, <2>1 DEF LifecycleBefore
<1>3. ASSUME e.type # "run.lifecycle"
      PROVE  LifecycleBefore(more, Len(events) + 2) = LifecycleBefore(events, Len(events) + 1)
  <2>1. \A i : i \in 1 .. (Len(events) + 2) - 1 <=>
                 i \in 1 .. (Len(events) + 1) - 1 \/ i = Len(events) + 1
    BY <1>1
  <2>2. \A i \in 1 .. (Len(events) + 1) - 1 : more[i] = events[i]
    BY <1>1
  <2>3. QED
    BY <1>1, <1>3, <2>1, <2>2 DEF LifecycleBefore
<1>4. ASSUME e.type = "run.lifecycle"
      PROVE  /\ Len(events) + 1 \in LifecycleBefore(more, Len(events) + 2)
             /\ \A k \in LifecycleBefore(more, Len(events) + 2) : Len(events) + 1 >= k
  BY <1>1, <1>4 DEF LifecycleBefore
<1>5. QED
  BY <1>2, <1>3, <1>4

\* The last lifecycle evidence before a position lies before it.
LEMMA LastBefore ==
  ASSUME NEW events \in Seq(Event), HasLast(events), NEW n \in 1 .. Len(events) + 1,
         LifecycleBefore(events, n) # {}
  PROVE  Max(LifecycleBefore(events, n)) \in 1 .. Len(events)
<1>1. \E m \in LifecycleBefore(events, n) : \A k \in LifecycleBefore(events, n) : m >= k
  BY DEF HasLast
<1>2. Max(LifecycleBefore(events, n)) \in LifecycleBefore(events, n)
  BY <1>1 DEF Max
<1>3. Len(events) \in Nat
  OBVIOUS
<1>4. QED
  BY <1>2, <1>3 DEF LifecycleBefore

\* The state a longer sequence leaves is that of its new event, if it is
\* lifecycle evidence, and otherwise that of the sequence before.
LEMMA StateAppend ==
  ASSUME NEW events \in Seq(Event), NEW e \in Event, NEW more, more = Append(events, e),
         HasLast(events)
  PROVE  /\ HasLast(more)
         /\ \A n \in 1 .. Len(events) + 1 : StateBefore(more, n) = StateBefore(events, n)
         /\ StateBefore(more, Len(events) + 2) =
              IF e.type = "run.lifecycle" THEN e.state ELSE StateBefore(events, Len(events) + 1)
<1>1. /\ Len(events) \in Nat /\ Len(more) = Len(events) + 1
      /\ \A i \in 1 .. Len(events) : more[i] = events[i]
      /\ more[Len(events) + 1] = e
  BY AppendFacts
<1>2. /\ 1 .. Len(more) + 1 = 1 .. Len(events) + 2
      /\ Len(events) + 1 \in 1 .. Len(events) + 1
      /\ \A n \in 1 .. Len(events) + 2 : n \in 1 .. Len(events) + 1 \/ n = Len(events) + 2
  BY <1>1
<1>3. HasLast(more)
  <2>1. ASSUME NEW n \in 1 .. Len(events) + 2
        PROVE  \/ LifecycleBefore(more, n) = {}
               \/ \E m \in LifecycleBefore(more, n) : \A k \in LifecycleBefore(more, n) : m >= k
    <3>1. CASE n \in 1 .. Len(events) + 1
      <4>1. LifecycleBefore(more, n) = LifecycleBefore(events, n)
        BY <3>1, BeforeAppend
      <4>2. \/ LifecycleBefore(events, n) = {}
            \/ \E m \in LifecycleBefore(events, n) :
                  \A k \in LifecycleBefore(events, n) : m >= k
        BY <3>1 DEF HasLast
      <4>3. QED
        BY <4>1, <4>2
    <3>2. CASE n = Len(events) + 2 /\ e.type # "run.lifecycle"
      <4>1. LifecycleBefore(more, n) = LifecycleBefore(events, Len(events) + 1)
        BY <3>2, BeforeAppend
      <4>2. \/ LifecycleBefore(events, Len(events) + 1) = {}
            \/ \E m \in LifecycleBefore(events, Len(events) + 1) :
                  \A k \in LifecycleBefore(events, Len(events) + 1) : m >= k
        BY <1>2 DEF HasLast
      <4>3. QED
        BY <4>1, <4>2
    <3>3. CASE n = Len(events) + 2 /\ e.type = "run.lifecycle"
      BY <3>3, BeforeAppend
    <3>4. QED
      BY <1>2, <3>1, <3>2, <3>3
  <2>2. QED
    BY <1>2, <2>1 DEF HasLast
<1>4. ASSUME NEW n \in 1 .. Len(events) + 1
      PROVE  StateBefore(more, n) = StateBefore(events, n)
  <2>1. LifecycleBefore(more, n) = LifecycleBefore(events, n)
    BY BeforeAppend
  <2>2. CASE LifecycleBefore(events, n) = {}
    BY <2>1, <2>2 DEF StateBefore
  <2>3. CASE LifecycleBefore(events, n) # {}
    <3>1. more[Max(LifecycleBefore(events, n))] = events[Max(LifecycleBefore(events, n))]
      BY <1>1, <2>3, LastBefore
    <3>2. QED
      BY <2>1, <2>3, <3>1 DEF StateBefore
  <2>4. QED
    BY <2>2, <2>3
<1>5. CASE e.type # "run.lifecycle"
  <2>1. LifecycleBefore(more, Len(events) + 2) = LifecycleBefore(more, Len(events) + 1)
    BY <1>2, <1>5, BeforeAppend
  <2>2. StateBefore(more, Len(events) + 2) = StateBefore(more, Len(events) + 1)
    BY <2>1 DEF StateBefore
  <2>3. QED
    BY <1>2, <1>3, <1>4, <1>5, <2>2
<1>6. CASE e.type = "run.lifecycle"
  <2>1. /\ Len(events) + 1 \in LifecycleBefore(more, Len(events) + 2)
        /\ \A k \in LifecycleBefore(more, Len(events) + 2) : Len(events) + 1 >= k
    BY <1>6, BeforeAppend
  <2>2. LifecycleBefore(more, Len(events) + 2) \subseteq Int
    BY <1>1 DEF LifecycleBefore
  <2>3. Max(LifecycleBefore(more, Len(events) + 2)) = Len(events) + 1
    BY <2>1, <2>2 DEF Max
  <2>4. StateBefore(more, Len(events) + 2) = e.state
    BY <1>1, <2>1, <2>3 DEF StateBefore
  <2>5. QED
    BY <1>3, <1>4, <1>6, <2>4
<1>7. QED
  BY <1>5, <1>6

\* A chain goes on with an event that starts where it ends, or with any event
\* that is no lifecycle evidence.
LEMMA ChainAppend ==
  ASSUME NEW events \in Seq(Event), NEW e \in Event, NEW more, more = Append(events, e),
         HasLast(events), NEW status, ChainedEvents(events, status),
         e.type = "run.lifecycle" => e.previous_state = status
  PROVE  ChainedEvents(more, IF e.type = "run.lifecycle" THEN e.state ELSE status)
<1>1. /\ Len(events) \in Nat /\ Len(more) = Len(events) + 1
      /\ DOMAIN events = 1 .. Len(events) /\ DOMAIN more = 1 .. Len(events) + 1
      /\ \A i \in 1 .. Len(events) : more[i] = events[i]
      /\ more[Len(events) + 1] = e
  BY AppendFacts
<1>2. /\ Len(events) + 1 \in 1 .. Len(events) + 1
      /\ Len(more) + 1 = Len(events) + 2
      /\ \A n \in 1 .. Len(events) + 1 : n \in 1 .. Len(events) \/ n = Len(events) + 1
  BY <1>1
<1>3. StateBefore(events, Len(events) + 1) = status
  BY DEF ChainedEvents
<1>4. ASSUME NEW n \in DOMAIN more, more[n].type = "run.lifecycle"
      PROVE  more[n].previous_state = StateBefore(more, n)
  <2>1. StateBefore(more, n) = StateBefore(events, n)
    BY <1>1, StateAppend
  <2>2. CASE n \in 1 .. Len(events)
    BY <1>1, <1>4, <2>1, <2>2 DEF ChainedEvents
  <2>3. CASE n = Len(events) + 1
    BY <1>1, <1>3, <1>4, <2>1, <2>3
  <2>4. QED
    BY <1>1, <1>2, <2>2, <2>3
<1>5. StateBefore(more, Len(more) + 1) = IF e.type = "run.lifecycle" THEN e.state ELSE status
  <2>1. StateBefore(more, Len(events) + 2) =
          IF e.type = "run.lifecycle" THEN e.state ELSE StateBefore(events, Len(events) + 1)
    BY StateAppend
  <2>2. QED
    BY <1>2, <1>3, <2>1
<1>6. QED
  BY <1>4, <1>5 DEF ChainedEvents

\* One more claim, or none, is one more or none.
LEMMA ClaimsAppend ==
  ASSUME NEW events \in Seq(Event), NEW e \in Event, NEW more, more = Append(events, e)
  PROVE  Cardinality(Claims(more)) =
           IF e.state = "provisioning" THEN Cardinality(Claims(events)) + 1
           ELSE Cardinality(Claims(events))
<1>1. /\ Len(events) \in Nat /\ Len(more) = Len(events) + 1
      /\ DOMAIN events = 1 .. Len(events) /\ DOMAIN more = 1 .. Len(events) + 1
      /\ \A i \in 1 .. Len(events) : more[i] = events[i]
      /\ more[Len(events) + 1] = e
  BY AppendFacts
<1>2. /\ \A n \in 1 .. Len(events) + 1 : n \in 1 .. Len(events) \/ n = Len(events) + 1
      /\ 1 .. Len(events) \subseteq 1 .. Len(events) + 1
      /\ Len(events) + 1 \in 1 .. Len(events) + 1
      /\ Len(events) + 1 \notin 1 .. Len(events)
  BY <1>1
<1>3. IsFiniteSet(Claims(events))
  <2>1. IsFiniteSet(1 .. Len(events))
    BY <1>1, FS_Interval
  <2>2. Claims(events) \in SUBSET (1 .. Len(events))
    BY <1>1 DEF Claims
  <2>3. QED
    BY <2>1, <2>2, FS_Subset
<1>4. CASE e.state = "provisioning"
  <2>1. Claims(more) = Claims(events) \cup {Len(events) + 1}
    BY <1>1, <1>2, <1>4 DEF Claims
  <2>2. Len(events) + 1 \notin Claims(events)
    BY <1>1, <1>2 DEF Claims
  <2>3. QED
    BY <1>3, <1>4, <2>1, <2>2, FS_AddElement
<1>5. CASE e.state # "provisioning"
  <2>1. Claims(more) = Claims(events)
    BY <1>1, <1>2, <1>5 DEF Claims
  <2>2. QED
    BY <1>5, <2>1
<1>6. QED
  BY <1>4, <1>5

-----------------------------------------------------------------------------
(* Rows.                                                                   *)

\* A row in a new status with the event that says so; only a claim counts.
LEMMA MovedHistory ==
  ASSUME NEW row \in Row, HistoryOK(row), NEW target \in RUN_STATUSES, NEW t \in Nat,
         NEW new, new.status = target,
         new.events = Append(row.events, LifecycleEvent(row.status, target, t)),
         new.attempt = IF target = "provisioning" THEN row.attempt + 1 ELSE row.attempt
  PROVE  HistoryOK(new)
<1> DEFINE e == LifecycleEvent(row.status, target, t)
<1>1. row.status \in RUN_STATUSES /\ row.events \in Seq(Event)
  BY RowFields DEF Row
<1>2. e \in Event
  BY <1>1, LifecycleEventType
<1>3. e.type = "run.lifecycle" /\ e.previous_state = row.status /\ e.state = target
  BY DEF LifecycleEvent
<1> HIDE DEF e
<1>4. HasLast(new.events)
  BY <1>1, <1>2, StateAppend DEF HistoryOK, e
<1>5. ChainedEvents(new.events, target)
  <2>1. ChainedEvents(new.events, IF e.type = "run.lifecycle" THEN e.state ELSE row.status)
    BY <1>1, <1>2, <1>3, ChainAppend DEF HistoryOK, e
  <2>2. QED
    BY <1>3, <2>1
<1>6. new.attempt = Cardinality(Claims(new.events))
  BY <1>1, <1>2, <1>3, ClaimsAppend DEF HistoryOK, e
<1>7. QED
  BY <1>4, <1>5, <1>6 DEF HistoryOK

\* A row with evidence of another kind.
LEMMA OtherHistory ==
  ASSUME NEW row \in Row, HistoryOK(row), NEW t \in Nat, NEW type \in {"fenced", "unfenced"},
         NEW new, new.status = row.status, new.attempt = row.attempt,
         new.events = Append(row.events, OtherEvent(type, t))
  PROVE  HistoryOK(new)
<1> DEFINE e == OtherEvent(type, t)
<1>1. row.events \in Seq(Event)
  BY DEF Row
<1>2. e \in Event
  BY OtherEventType DEF EVENT_TYPES
<1>3. e.type # "run.lifecycle" /\ e.state # "provisioning"
  BY DEF OtherEvent, NoState
<1> HIDE DEF e
<1>4. HasLast(new.events)
  BY <1>1, <1>2, StateAppend DEF HistoryOK, e
<1>5. ChainedEvents(new.events, row.status)
  <2>1. ChainedEvents(new.events, IF e.type = "run.lifecycle" THEN e.state ELSE row.status)
    BY <1>1, <1>2, <1>3, ChainAppend DEF HistoryOK, e
  <2>2. QED
    BY <1>3, <2>1
<1>6. new.attempt = Cardinality(Claims(new.events))
  BY <1>1, <1>2, <1>3, ClaimsAppend DEF HistoryOK, e
<1>7. QED
  BY <1>4, <1>5, <1>6 DEF HistoryOK

\* Without new evidence nothing changes.
LEMMA SameHistory ==
  ASSUME NEW row, HistoryOK(row), NEW new, new.status = row.status, new.attempt = row.attempt,
         new.events = row.events
  PROVE  HistoryOK(new)
BY DEF HistoryOK

-----------------------------------------------------------------------------
(* Steps.                                                                  *)

\* A row whose history is right can be staged.
LEMMA StagedHistory ==
  ASSUME HInv, Typed', NEW r \in Runs, NEW t, NEW row, HistoryOK(row), Stage(r, t, row)
  PROVE  HInv'
<1>1. /\ db' = db
      /\ \A o \in Runs : staged'[o] = IF o = r THEN row ELSE staged[o]
  BY DEF Stage, HInv, Typed
<1>2. QED
  BY <1>1 DEF HInv

\* Commit and rollback copy one of the two rows over the other.
LEMMA ClosedHistory ==
  ASSUME HInv, Typed', NEW r \in Runs, Commit(r) \/ Rollback(r)
  PROVE  HInv'
<1>1. CASE Commit(r)
  <2>1. /\ staged' = staged
        /\ \A o \in Runs : db'[o] = IF o = r THEN staged[r] ELSE db[o]
    BY <1>1 DEF Commit, HInv, Typed
  <2>2. QED
    BY <2>1 DEF HInv
<1>2. CASE Rollback(r)
  <2>1. /\ db' = db
        /\ \A o \in Runs : staged'[o] = IF o = r THEN db[r] ELSE staged[o]
    BY <1>2 DEF Rollback, HInv, Typed
  <2>2. QED
    BY <2>1 DEF HInv
<1>3. QED
  BY <1>1, <1>2

\* Nobody who owns a Run makes it "provisioning".
LEMMA OwnedTargets ==
  ASSUME NEW source, NEW target \in owned_targets(source)
  PROVE  target \in RUN_STATUSES /\ target # "provisioning"
BY DEF owned_targets, RUN_STATUSES, ACTIVE_STATUSES, TERMINAL_STATUSES

\* A new Run has no evidence and no claim.
LEMMA InitHInv == Init => HInv
<1> SUFFICES ASSUME Init PROVE HInv
  OBVIOUS
<1>1. Typed
  BY InitTyped
<1>2. HistoryOK(NewRun)
  <2>1. NewRun.events = <<>> /\ NewRun.status = "queued" /\ NewRun.attempt = 0
    BY DEF NewRun
  <2>2. Len(<<>>) = 0 /\ DOMAIN <<>> = {} /\ 1 .. 0 = {} /\ 1 .. 0 + 1 = {1} /\ 1 .. 1 - 1 = {}
    OBVIOUS
  <2>3. LifecycleBefore(<<>>, 1) = {} /\ LifecycleBefore(<<>>, Len(<<>>) + 1) = {}
    BY <2>2 DEF LifecycleBefore
  <2>4. HasLast(<<>>)
    BY <2>2, <2>3 DEF HasLast
  <2>5. ChainedEvents(<<>>, "queued")
    BY <2>2, <2>3 DEF ChainedEvents, StateBefore
  <2>6. Claims(<<>>) = {}
    BY <2>2 DEF Claims
  <2>7. QED
    BY <2>1, <2>4, <2>5, <2>6, FS_EmptySet DEF HistoryOK
<1>3. \A r \in Runs : db[r] = NewRun /\ staged[r] = NewRun
  BY DEF Init
<1>4. QED
  BY <1>1, <1>2, <1>3 DEF HInv

\* HInv is inductive: one case per operation.
LEMMA NextHInv == HInv /\ [Next]_vars => HInv'
<1> SUFFICES ASSUME HInv, [Next]_vars PROVE HInv'
  OBVIOUS
<1>1. Typed /\ Typed'
  BY NextTyped DEF HInv
<1>2. \A r \in Runs : staged[r] \in Row /\ HistoryOK(staged[r])
  BY <1>1 DEF HInv, Typed
<1>3. \A t \in DOMAIN leases : t \in Nat /\ leases[t].run \in Runs
  <2>1. \A t \in DOMAIN leases : t \in Nat /\ leases[t] \in LeaseIdentity
    BY <1>1 DEF Typed
  <2>2. QED
    BY <2>1 DEF LeaseIdentity
<1>4. \A o \in Operators : seen[o].run \in Runs
  BY <1>1 DEF Typed, Snapshot
<1>5. ASSUME NEW w \in Workers, NEW r \in Runs, claim_next_run(w, r) PROVE HInv'
  <2> DEFINE t == Len(leases) + 1
             new == [MoveTo(staged[r], "provisioning", t) EXCEPT
                       !.lease_owner = w, !.lease_token = t, !.attempt = staged[r].attempt + 1,
                       !.lease_expires_at = clock + LeaseDuration]
  <2>1. t \in Nat
    BY <1>1 DEF Typed
  <2>2. /\ new.status = "provisioning" /\ new.attempt = staged[r].attempt + 1
        /\ new.events = Append(staged[r].events,
                               LifecycleEvent(staged[r].status, "provisioning", t))
    BY <1>2 DEF MoveTo, Row
  <2>3. "provisioning" \in RUN_STATUSES
    BY DEF RUN_STATUSES, ACTIVE_STATUSES
  <2>4. Stage(r, NoToken, new)
    BY <1>5 DEF claim_next_run
  <2> HIDE DEF new, t
  <2>5. HistoryOK(new)
    BY <1>2, <2>1, <2>2, <2>3, MovedHistory
  <2>6. QED
    BY <1>1, <2>4, <2>5, StagedHistory
<1>6. ASSUME NEW t \in DOMAIN leases, heartbeat(t) PROVE HInv'
  <2> DEFINE r == leases[t].run
             new == [staged[r] EXCEPT !.lifecycle_version = @ + 1,
                                      !.lease_expires_at = clock + LeaseDuration]
  <2>1. Stage(r, t, new)
    BY <1>6 DEF heartbeat
  <2>2. r \in Runs
    BY <1>3
  <2>3. /\ new.status = staged[r].status /\ new.attempt = staged[r].attempt
        /\ new.events = staged[r].events
    BY <1>2, <2>2 DEF Row
  <2> HIDE DEF new, r
  <2>4. HistoryOK(new)
    BY <1>2, <2>2, <2>3, SameHistory
  <2>5. QED
    BY <1>1, <2>1, <2>2, <2>4, StagedHistory
<1>7. ASSUME NEW t \in DOMAIN leases, NEW target \in RUN_STATUSES,
             transition_owned_run(t, target) PROVE HInv'
  <2> DEFINE r == leases[t].run
             moved == MoveTo(staged[r], target, t)
             new == IF target \in TERMINAL_STATUSES THEN ClearLease(moved) ELSE moved
  <2>1. Stage(r, t, new)
    BY <1>7 DEF transition_owned_run
  <2>2. r \in Runs /\ t \in Nat
    BY <1>3
  <2>3. target # "provisioning"
    BY <1>7, OwnedTargets DEF transition_owned_run
  <2>4. /\ new.status = target /\ new.attempt = staged[r].attempt
        /\ new.events = Append(staged[r].events, LifecycleEvent(staged[r].status, target, t))
    BY <1>2, <2>2 DEF MoveTo, ClearLease, Row
  <2> HIDE DEF new, moved, r
  <2>5. HistoryOK(new)
    BY <1>2, <2>2, <2>3, <2>4, MovedHistory
  <2>6. QED
    BY <1>1, <2>1, <2>2, <2>5, StagedHistory
<1>8. ASSUME NEW t \in DOMAIN leases, refresh(t) PROVE HInv'
  BY <1>1, <1>8 DEF refresh, HInv
<1>9. ASSUME NEW t \in DOMAIN leases, lock_current_lease(t) PROVE HInv'
  <2> DEFINE r == leases[t].run
             new == [staged[r] EXCEPT !.events = Append(@, OtherEvent("fenced", t))]
  <2>1. Stage(r, t, new)
    BY <1>9 DEF lock_current_lease
  <2>2. r \in Runs /\ t \in Nat
    BY <1>3
  <2>3. /\ new.status = staged[r].status /\ new.attempt = staged[r].attempt
        /\ new.events = Append(staged[r].events, OtherEvent("fenced", t))
    BY <1>2, <2>2 DEF Row
  <2> HIDE DEF new, r
  <2>4. HistoryOK(new)
    BY <1>2, <2>2, <2>3, OtherHistory
  <2>5. QED
    BY <1>1, <2>1, <2>2, <2>4, StagedHistory
<1>10. ASSUME NEW o \in Operators, cancel_queued_run(o) PROVE HInv'
  <2> DEFINE r == seen[o].run
             new == MoveTo(staged[r], "cancelled", NoToken)
  <2>1. Stage(r, NoToken, new)
    BY <1>10 DEF cancel_queued_run
  <2>2. r \in Runs /\ NoToken \in Nat /\ "cancelled" \in RUN_STATUSES
    BY <1>4 DEF NoToken, RUN_STATUSES, TERMINAL_STATUSES
  <2>3. /\ new.status = "cancelled" /\ new.attempt = staged[r].attempt
        /\ new.events = Append(staged[r].events,
                               LifecycleEvent(staged[r].status, "cancelled", NoToken))
    BY <1>2, <2>2 DEF MoveTo, Row
  <2> HIDE DEF new, r
  <2>4. HistoryOK(new)
    BY <1>2, <2>2, <2>3, MovedHistory
  <2>5. QED
    BY <1>1, <2>1, <2>2, <2>4, StagedHistory
<1>11. ASSUME NEW o \in Operators, requeue_expired_run(o) PROVE HInv'
  <2> DEFINE r == seen[o].run
             new == ClearLease(MoveTo(staged[r], "queued", NoToken))
  <2>1. Stage(r, NoToken, new)
    BY <1>11 DEF requeue_expired_run
  <2>2. r \in Runs /\ NoToken \in Nat /\ "queued" \in RUN_STATUSES
    BY <1>4 DEF NoToken, RUN_STATUSES
  <2>3. /\ new.status = "queued" /\ new.attempt = staged[r].attempt
        /\ new.events = Append(staged[r].events,
                               LifecycleEvent(staged[r].status, "queued", NoToken))
    BY <1>2, <2>2 DEF MoveTo, ClearLease, Row
  <2> HIDE DEF new, r
  <2>4. HistoryOK(new)
    BY <1>2, <2>2, <2>3, MovedHistory
  <2>5. QED
    BY <1>1, <2>1, <2>2, <2>4, StagedHistory
<1>12. ASSUME NEW r \in Runs, append_event(r) PROVE HInv'
  <2> DEFINE new == [staged[r] EXCEPT !.events = Append(@, OtherEvent("unfenced", NoToken))]
  <2>1. Stage(r, NoToken, new)
    BY <1>12 DEF append_event
  <2>2. /\ new.status = staged[r].status /\ new.attempt = staged[r].attempt
        /\ new.events = Append(staged[r].events, OtherEvent("unfenced", NoToken))
    BY <1>2 DEF Row
  <2>3. NoToken \in Nat
    BY DEF NoToken
  <2> HIDE DEF new
  <2>4. HistoryOK(new)
    BY <1>2, <2>2, <2>3, OtherHistory
  <2>5. QED
    BY <1>1, <2>1, <2>4, StagedHistory
<1>13. ASSUME NEW o \in Operators, NEW r \in Runs, get_run(o, r) PROVE HInv'
  BY <1>1, <1>13 DEF get_run, HInv
<1>14. CASE WorkerStep
  BY <1>5, <1>6, <1>7, <1>8, <1>9, <1>14 DEF WorkerStep
<1>15. CASE OperatorStep
  BY <1>10, <1>11, <1>12, <1>13, <1>15 DEF OperatorStep
<1>16. CASE Tick
  BY <1>1, <1>16 DEF Tick, HInv
<1>17. CASE UNCHANGED vars
  BY <1>1, <1>17 DEF vars, HInv
<1>18. QED
  BY <1>1, <1>14, <1>15, <1>16, <1>17, ClosedHistory DEF Next

-----------------------------------------------------------------------------
(* The theorems.                                                           *)

\* The evidence of every committed Run explains its row: its lifecycle events are
\* one unbroken chain from "queued" to the row's status, and its attempt is the
\* number of its committed claims (_append_lifecycle_event, claim_next_run).
THEOREM EvidenceIsChain == Spec => []LifecycleChain
<1>1. HInv => LifecycleChain
  BY DEF HInv, HistoryOK, LifecycleChain
<1>2. QED
  BY <1>1, InitHInv, NextHInv, PTL DEF Spec

-----------------------------------------------------------------------------
(***************************************************************************)
(* The lease protocol implements RunOwnership.  Of all steps only COMMIT is*)
(* visible there.  The argument: what is staged moves a Run at most once   *)
(* between waiting, held and done, however many calls the transaction is   *)
(* made of; and evidence tells which leases were granted, because a claim  *)
(* and its event are committed together.                                   *)
(***************************************************************************)

\* The leases evidence was written under.
By(events) == {events[n].by : n \in DOMAIN events} \ {NoToken}

Phase(status) ==
  IF status = "queued" THEN "waiting" ELSE IF status \in ACTIVE_STATUSES THEN "held" ELSE "done"

\* The evidence of a Run is written under its own leases, that of its holder is in it.
Own(r, row) ==
  /\ \A t \in By(row.events) : t \in 1 .. Len(leases) /\ leases[t].run = r
  /\ row.status \in ACTIVE_STATUSES => row.lease_token \in By(row.events)

\* How far one transaction may take a Run: it stays, it is granted under a lease no
\* evidence is written under, or it is released or finished.
Moved(old, new) ==
  \/ /\ Phase(new.status) = Phase(old.status) /\ new.lease_token = old.lease_token
     /\ By(new.events) = By(old.events)
  \/ /\ Phase(old.status) = "waiting" /\ Phase(new.status) = "held"
     /\ new.lease_token \notin By(old.events)
     /\ By(new.events) = By(old.events) \cup {new.lease_token}
  \/ /\ Phase(old.status) = "held" /\ Phase(new.status) = "waiting"
     /\ By(new.events) = By(old.events)
  \/ /\ Phase(old.status) # "done" /\ Phase(new.status) = "done"
     /\ By(new.events) = By(old.events)

\* A claim is all of its transaction.
ClaimAlone(r) ==
  Phase(db[r].status) = "waiting" /\ Phase(staged[r].status) = "held"
    => r \in locked /\ tx[r] = NoToken

Hand(r) == Own(r, db[r]) /\ Own(r, staged[r]) /\ Moved(db[r], staged[r]) /\ ClaimAlone(r)

OInv == IInv /\ (\A r \in Runs : Hand(r)) /\ Len(leases) <= MaxClaims

-----------------------------------------------------------------------------
(* Rows.                                                                   *)

\* One more event adds the lease it was written under.
LEMMA ByAppend ==
  ASSUME NEW events \in Seq(Event), NEW e \in Event, NEW more, more = Append(events, e)
  PROVE  /\ e.by = NoToken \/ e.by \in By(events) => By(more) = By(events)
         /\ e.by # NoToken => By(more) = By(events) \cup {e.by}
<1>1. /\ more \in Seq(Event) /\ Len(events) \in Nat /\ Len(more) = Len(events) + 1
      /\ DOMAIN events = 1 .. Len(events) /\ DOMAIN more = 1 .. Len(events) + 1
      /\ \A i \in 1 .. Len(events) : more[i] = events[i]
      /\ more[Len(events) + 1] = e
  OBVIOUS
<1>2. {more[n].by : n \in DOMAIN more} = {events[n].by : n \in DOMAIN events} \cup {e.by}
  BY <1>1
<1>3. QED
  BY <1>2 DEF By

\* Leases keep their Run.
LEMMA OwnStable ==
  ASSUME Typed, Typed', LeasesExtend, NEW r \in Runs, NEW row, Own(r, row)
  PROVE  Own(r, row)'
<1>1. Len(leases) \in Nat /\ Len(leases') \in Nat /\ Len(leases) <= Len(leases')
  BY DEF Typed, LeasesExtend
<1>2. \A t \in 1 .. Len(leases) : t \in 1 .. Len(leases') /\ leases'[t].run = leases[t].run
  BY <1>1 DEF Typed, LeasesExtend
<1>3. QED
  BY <1>2 DEF Own

\* A row that is staged.
LEMMA StagedHand ==
  ASSUME OInv, Typed', LeasesExtend, NEW r \in Runs, NEW t \in Nat, NEW row \in Row, Stage(r, t, row),
         Own(r, row)', Moved(db[r], row),
         Phase(db[r].status) = "waiting" /\ Phase(row.status) = "held" => t = NoToken
  PROVE  \A q \in Runs : Hand(q)'
<1>1. /\ db' = db /\ staged' = [staged EXCEPT ![r] = row] /\ locked' = locked \cup {r}
      /\ tx' = [tx EXCEPT ![r] = t] /\ staged \in [Runs -> Row] /\ tx \in [Runs -> Nat]
  BY DEF Stage, OInv, IInv, Typed
<1>2. SUFFICES ASSUME NEW q \in Runs PROVE Hand(q)'
  OBVIOUS
<1>3. PICK d, s : d = db[q] /\ s = staged[q]
  OBVIOUS
<1>4. Own(q, d) /\ Own(q, s) /\ Moved(d, s) /\ ClaimAlone(q)
  BY <1>3 DEF OInv, Hand
<1>5. Own(q, d)' /\ Own(q, s)'
  BY <1>4, OwnStable DEF OInv, IInv
<1>6. CASE q = r
  <2>1. db'[q] = d /\ staged'[q] = row /\ q \in locked' /\ tx'[q] = t
    BY <1>1, <1>3, <1>6
  <2>2. QED
    BY <1>3, <1>5, <1>6, <2>1 DEF Hand, Own, ClaimAlone
<1>7. CASE q # r
  <2>1. db'[q] = d /\ staged'[q] = s /\ tx'[q] = tx[q] /\ (q \in locked => q \in locked')
    BY <1>1, <1>3, <1>7
  <2>2. QED
    BY <1>3, <1>4, <1>5, <2>1 DEF Hand, Own, ClaimAlone
<1>8. QED
  BY <1>6, <1>7

\* Nothing staged, committed or locked.
LEMMA UnstagedHand ==
  ASSUME OInv, Typed', LeasesExtend, UNCHANGED <<db, staged, locked, tx>>
  PROVE  \A q \in Runs : Hand(q)'
<1>1. SUFFICES ASSUME NEW q \in Runs PROVE Hand(q)'
  OBVIOUS
<1>2. PICK d, s : d = db[q] /\ s = staged[q]
  OBVIOUS
<1>3. Own(q, d) /\ Own(q, s) /\ Moved(d, s) /\ ClaimAlone(q)
  BY <1>2 DEF OInv, Hand
<1>4. Own(q, d)' /\ Own(q, s)'
  BY <1>3, OwnStable DEF OInv, IInv
<1>5. QED
  BY <1>2, <1>3, <1>4 DEF Hand, Own, ClaimAlone

-----------------------------------------------------------------------------
(* Operations.                                                             *)

\* The phases of the statuses.
LEMMA Phases ==
  ASSUME NEW status
  PROVE  /\ Phase(status) = "held" <=> status \in ACTIVE_STATUSES
         /\ Phase(status) = "waiting" <=> status = "queued"
BY DEF Phase, ACTIVE_STATUSES

\* Whoever proves a lease holds a Run that is held under it in the committed row too.
LEMMA HolderMoves ==
  ASSUME OInv, Typed', NEW t \in DOMAIN leases, NEW r \in Runs, Writable(r, t),
         HoldsLease(staged[r], t), NEW new \in Row, Stage(r, t, new), UNCHANGED leases,
         By(new.events) = By(staged[r].events),
         \/ Phase(new.status) = "held" /\ new.lease_token = t
         \/ Phase(new.status) = "done"
  PROVE  \A q \in Runs : Hand(q)'
<1>1. PICK d \in Row, s \in Row : d = db[r] /\ s = staged[r]
  BY IInvFacts DEF OInv
<1>2. Typed /\ LeasesExtend
  BY StableLeases DEF OInv, IInv
<1>3. /\ s.status \in ACTIVE_STATUSES /\ s.lease_token = t /\ t \in Nat /\ t # NoToken
      /\ Phase(s.status) = "held"
  BY <1>1, <1>2, HolderToken, Phases
<1>4. Own(r, s) /\ Moved(d, s) /\ ClaimAlone(r) /\ StageInv(r)
  BY <1>1, IInvFacts DEF OInv, Hand
<1>5. Phase(d.status) # "waiting"
  <2>1. ~(r \in locked /\ tx[r] = NoToken)
    BY <1>3 DEF Writable
  <2>2. QED
    BY <1>1, <1>3, <1>4, <2>1 DEF ClaimAlone
<1>6. Phase(d.status) = "held" /\ d.lease_token = t /\ By(s.events) = By(d.events)
  BY <1>3, <1>4, <1>5 DEF Moved
<1>7. Moved(d, new)
  BY <1>1, <1>6 DEF Moved
<1>8. Own(r, new)
  BY <1>1, <1>3, <1>4, Phases DEF Own
<1>9. Own(r, new)'
  BY <1>2, <1>8, OwnStable
<1>10. QED
  BY <1>1, <1>2, <1>3, <1>5, <1>7, <1>9, StagedHand

\* Whoever proves nothing finds the Run as it is committed.
LEMMA UnleasedMoves ==
  ASSUME OInv, Typed', NEW r \in Runs, r \notin locked, NEW new \in Row,
         Stage(r, NoToken, new), UNCHANGED leases, By(new.events) = By(staged[r].events),
         \/ new.status = staged[r].status /\ new.lease_token = staged[r].lease_token
         \/ Phase(staged[r].status) = "held" /\ Phase(new.status) = "waiting"
         \/ Phase(staged[r].status) = "waiting" /\ Phase(new.status) = "done"
  PROVE  \A q \in Runs : Hand(q)'
<1>1. PICK s \in Row : s = staged[r]
  BY IInvFacts DEF OInv
<1>2. Typed /\ LeasesExtend
  BY StableLeases DEF OInv, IInv
<1>3. Own(r, s) /\ s = db[r]
  BY <1>1, IInvFacts DEF OInv, Hand, StageInv
<1>4. Moved(s, new)
  BY <1>1 DEF Moved
<1>5. Own(r, new)
  BY <1>1, <1>3, Phases DEF Own
<1>6. Own(r, new)'
  BY <1>2, <1>5, OwnStable
<1>7. NoToken \in Nat
  BY DEF NoToken
<1>8. QED
  BY <1>2, <1>3, <1>4, <1>6, <1>7, StagedHand

\* A claim stages its own event, so that its lease is granted when that is seen.
LEMMA ClaimMoves ==
  ASSUME OInv, Typed', NEW w \in Workers, NEW r \in Runs, claim_next_run(w, r)
  PROVE  \A q \in Runs : Hand(q)'
<1>1. PICK row \in Row : row = staged[r]
  BY IInvFacts DEF OInv
<1>2. PICK t \in Nat : t = Len(leases) + 1
  BY IInvFacts DEF OInv
<1>3. PICK expires \in Nat : expires = clock + LeaseDuration
  BY IInvFacts, ConstantsAssumption DEF OInv
<1>4. PICK new \in Row : new = Claimed(row, w, t, expires)
  BY <1>1, <1>2, <1>3, ClaimedRow
<1>5. /\ new.status = "provisioning" /\ new.lease_token = t
      /\ new.events = Append(row.events, LifecycleEvent(row.status, "provisioning", t))
  <2>1. MoveTo(row, "provisioning", t) \in Row
    BY <1>1, <1>2, MoveToType DEF RUN_STATUSES, ACTIVE_STATUSES
  <2>2. QED
    BY <1>1, <1>2, <1>3, <1>4, <2>1 DEF Claimed, MoveTo, Row
<1>6. /\ r \notin locked /\ row.status = "queued" /\ Stage(r, NoToken, new)
      /\ leases' = Append(leases, [run |-> r, worker |-> w, attempt |-> row.attempt + 1,
                                   version |-> row.lifecycle_version + 1])
  BY <1>1, <1>2, <1>3, <1>4 DEF claim_next_run, Claimed
<1>7. Own(r, row) /\ row = db[r] /\ Typed
  BY <1>1, <1>6, IInvFacts DEF OInv, Hand, StageInv
<1>8. LeasesExtend /\ Len(leases') = t /\ leases'[t].run = r /\ Len(leases) \in Nat
  BY <1>2, <1>6, <1>7 DEF LeasesExtend, Typed
<1>9. By(new.events) = By(row.events) \cup {t}
  <2>1. PICK e \in Event : e = LifecycleEvent(row.status, "provisioning", t)
    BY LifecycleEventType, RowFields DEF RUN_STATUSES, ACTIVE_STATUSES
  <2>2. e.by = t /\ t # NoToken
    BY <1>2, <1>8, <2>1 DEF LifecycleEvent, NoToken
  <2>3. row.events \in Seq(Event) /\ new.events = Append(row.events, e)
    BY <1>5, <2>1, RowFields
  <2>4. QED
    BY <2>2, <2>3, ByAppend
<1>10. t \notin By(row.events)
  BY <1>2, <1>7, <1>8 DEF Own
<1>11. Phase(row.status) = "waiting" /\ Phase(new.status) = "held"
  BY <1>5, <1>6, Phases DEF ACTIVE_STATUSES
<1>12. Moved(row, new)
  BY <1>5, <1>9, <1>10, <1>11 DEF Moved
<1>13. Own(r, new)'
  <2>1. Own(r, row)'
    BY <1>7, <1>8, OwnStable
  <2>2. t \in 1 .. Len(leases')
    BY <1>2, <1>8
  <2>3. QED
    BY <1>5, <1>8, <1>9, <2>1, <2>2 DEF Own
<1>14. NoToken \in Nat
  BY DEF NoToken
<1>15. QED
  BY <1>6, <1>7, <1>8, <1>12, <1>13, <1>14, StagedHand

\* heartbeat: the same holder, no evidence.
LEMMA HeartbeatMoves ==
  ASSUME OInv, Typed', NEW t \in DOMAIN leases, heartbeat(t)
  PROVE  \A q \in Runs : Hand(q)'
<1>1. PICK r \in Runs : r = leases[t].run
  BY LeaseRun DEF OInv
<1>2. PICK row \in Row : row = staged[r]
  BY IInvFacts DEF OInv
<1>3. PICK version \in Nat, expires \in Nat :
        version = row.lifecycle_version + 1 /\ expires = clock + LeaseDuration
  BY <1>2, IInvFacts, RowFields, ConstantsAssumption DEF OInv
<1>4. PICK new \in Row : new = [row EXCEPT !.lifecycle_version = version,
                                           !.lease_expires_at = expires]
  BY <1>2, <1>3, HeartbeatType
<1>5. new.status = row.status /\ new.lease_token = row.lease_token /\ new.events = row.events
  BY <1>4 DEF Row
<1>6. Writable(r, t) /\ HoldsLease(row, t) /\ Stage(r, t, new) /\ UNCHANGED leases
  BY <1>1, <1>2, <1>3, <1>4 DEF heartbeat
<1>7. row.status \in ACTIVE_STATUSES /\ row.lease_token = t
  BY <1>2, <1>6, HolderToken DEF OInv, IInv
<1>8. QED
  BY <1>2, <1>5, <1>6, <1>7, Phases, HolderMoves

\* transition_owned_run: the holder's evidence; the Run stays held or is done.
LEMMA TransitionMoves ==
  ASSUME OInv, Typed', NEW t \in DOMAIN leases, NEW target \in RUN_STATUSES,
         transition_owned_run(t, target)
  PROVE  \A q \in Runs : Hand(q)'
<1>1. PICK r \in Runs : r = leases[t].run
  BY LeaseRun DEF OInv
<1>2. PICK row \in Row : row = staged[r]
  BY IInvFacts DEF OInv
<1>3. Writable(r, t) /\ HoldsLease(row, t) /\ target \in owned_targets(row.status)
  BY <1>1, <1>2 DEF transition_owned_run
<1>4. /\ row.status \in ACTIVE_STATUSES /\ row.lease_token = t /\ t \in Nat /\ t # NoToken
  BY <1>2, <1>3, HolderToken DEF OInv, IInv
<1>5. target \in TERMINAL_STATUSES \cup ACTIVE_STATUSES
  BY <1>3, <1>4 DEF owned_targets, ACTIVE_STATUSES, TERMINAL_STATUSES
<1>6. PICK new : new = IF target \in TERMINAL_STATUSES THEN ClearLease(MoveTo(row, target, t))
                       ELSE MoveTo(row, target, t)
  OBVIOUS
<1>7. Stage(r, t, new) /\ UNCHANGED leases
  BY <1>1, <1>2, <1>6 DEF transition_owned_run
<1>8. PICK e : e = LifecycleEvent(row.status, target, t)
  OBVIOUS
<1>9. /\ new \in Row /\ new.status = target /\ e \in Event /\ new.events = Append(row.events, e)
      /\ target \notin TERMINAL_STATUSES => new.lease_token = row.lease_token
  BY <1>2, <1>4, <1>6, <1>8, MovedRow
<1>10. By(new.events) = By(row.events)
  <2>1. e.by = t
    BY <1>8 DEF LifecycleEvent
  <2>2. t \in By(row.events)
    BY <1>2, <1>4 DEF OInv, Hand, Own
  <2>3. row.events \in Seq(Event)
    BY RowFields
  <2>4. QED
    BY <1>9, <2>1, <2>2, <2>3, ByAppend
<1>11. \/ Phase(new.status) = "held" /\ new.lease_token = t
       \/ Phase(new.status) = "done"
  BY <1>4, <1>5, <1>9 DEF Phase, ACTIVE_STATUSES, TERMINAL_STATUSES
<1>12. QED
  BY <1>2, <1>3, <1>7, <1>9, <1>10, <1>11, HolderMoves

\* lock_current_lease: more of the holder's evidence.
LEMMA LockMoves ==
  ASSUME OInv, Typed', NEW t \in DOMAIN leases, lock_current_lease(t)
  PROVE  \A q \in Runs : Hand(q)'
<1>1. PICK r \in Runs : r = leases[t].run
  BY LeaseRun DEF OInv
<1>2. PICK row \in Row : row = staged[r]
  BY IInvFacts DEF OInv
<1>3. Writable(r, t) /\ HoldsLease(row, t)
  BY <1>1, <1>2 DEF lock_current_lease
<1>4. row.status \in ACTIVE_STATUSES /\ row.lease_token = t /\ t \in Nat
  BY <1>2, <1>3, HolderToken DEF OInv, IInv
<1>5. PICK e \in Event : e = OtherEvent("fenced", t)
  BY <1>4, OtherEventType DEF EVENT_TYPES
<1>6. PICK new : new = [row EXCEPT !.events = Append(row.events, e)]
  OBVIOUS
<1>7. Stage(r, t, new) /\ UNCHANGED leases
  BY <1>1, <1>2, <1>5, <1>6 DEF lock_current_lease
<1>8. /\ new \in Row /\ new.events = Append(row.events, e)
      /\ new.status = row.status /\ new.lease_token = row.lease_token
  BY <1>6, AppendedRow
<1>9. By(new.events) = By(row.events)
  <2>1. e \in Event /\ e.by = t
    BY <1>5 DEF OtherEvent
  <2>2. t \in By(row.events)
    BY <1>2, <1>4 DEF OInv, Hand, Own
  <2>3. row.events \in Seq(Event) /\ new.events = Append(row.events, e)
    BY <1>8, RowFields
  <2>4. QED
    BY <2>1, <2>2, <2>3, ByAppend
<1>10. QED
  BY <1>2, <1>3, <1>4, <1>7, <1>8, <1>9, Phases, HolderMoves

\* cancel_queued_run: from waiting to done.
LEMMA CancelMoves ==
  ASSUME OInv, Typed', NEW o \in Operators, cancel_queued_run(o)
  PROVE  \A q \in Runs : Hand(q)'
<1>1. PICK r \in Runs : r = seen[o].run
  BY SnapshotRun DEF OInv
<1>2. PICK row \in Row : row = staged[r]
  BY IInvFacts DEF OInv
<1>3. PICK new : new = MoveTo(row, "cancelled", NoToken)
  OBVIOUS
<1>4. r \notin locked /\ row.status = "queued" /\ Stage(r, NoToken, new) /\ UNCHANGED leases
  BY <1>1, <1>2, <1>3 DEF cancel_queued_run
<1>5. /\ NoToken \in Nat /\ "cancelled" \in RUN_STATUSES
      /\ Phase("queued") = "waiting" /\ Phase("cancelled") = "done"
  BY DEF NoToken, RUN_STATUSES, TERMINAL_STATUSES, ACTIVE_STATUSES, Phase
<1>6. PICK e : e = LifecycleEvent(row.status, "cancelled", NoToken)
  OBVIOUS
<1>7. new \in Row /\ new.status = "cancelled" /\ e \in Event /\ new.events = Append(row.events, e)
  BY <1>2, <1>3, <1>5, <1>6, MovedRow
<1>8. By(new.events) = By(row.events)
  <2>1. e.by = NoToken /\ row.events \in Seq(Event)
    BY <1>6, RowFields DEF LifecycleEvent
  <2>2. QED
    BY <1>7, <2>1, ByAppend
<1>9. QED
  BY <1>2, <1>4, <1>5, <1>7, <1>8, UnleasedMoves

\* requeue_expired_run: from held to waiting.
LEMMA RequeueMoves ==
  ASSUME OInv, Typed', NEW o \in Operators, requeue_expired_run(o)
  PROVE  \A q \in Runs : Hand(q)'
<1>1. PICK r \in Runs : r = seen[o].run
  BY SnapshotRun DEF OInv
<1>2. PICK row \in Row : row = staged[r]
  BY IInvFacts DEF OInv
<1>3. PICK new : new = ClearLease(MoveTo(row, "queued", NoToken))
  OBVIOUS
<1>4. /\ r \notin locked /\ row.status \in ACTIVE_STATUSES
      /\ Stage(r, NoToken, new) /\ UNCHANGED leases
  BY <1>1, <1>2, <1>3 DEF requeue_expired_run
<1>5. NoToken \in Nat /\ "queued" \in RUN_STATUSES /\ Phase("queued") = "waiting"
  BY DEF NoToken, RUN_STATUSES, Phase
<1>6. PICK e : e = LifecycleEvent(row.status, "queued", NoToken)
  OBVIOUS
<1>7. new \in Row /\ new.status = "queued" /\ e \in Event /\ new.events = Append(row.events, e)
  BY <1>2, <1>3, <1>5, <1>6, MovedRow
<1>8. By(new.events) = By(row.events)
  <2>1. e.by = NoToken /\ row.events \in Seq(Event)
    BY <1>6, RowFields DEF LifecycleEvent
  <2>2. QED
    BY <1>7, <2>1, ByAppend
<1>9. QED
  BY <1>2, <1>4, <1>5, <1>7, <1>8, Phases, UnleasedMoves

\* append_event: evidence under no lease.
LEMMA AppendMoves ==
  ASSUME OInv, Typed', NEW r \in Runs, append_event(r)
  PROVE  \A q \in Runs : Hand(q)'
<1>1. PICK row \in Row : row = staged[r]
  BY IInvFacts DEF OInv
<1>2. PICK e \in Event : e = OtherEvent("unfenced", NoToken)
  BY OtherEventType DEF EVENT_TYPES, NoToken
<1>3. PICK new : new = [row EXCEPT !.events = Append(row.events, e)]
  OBVIOUS
<1>4. r \notin locked /\ Stage(r, NoToken, new) /\ UNCHANGED leases
  BY <1>1, <1>2, <1>3 DEF append_event
<1>5. /\ new \in Row /\ new.events = Append(row.events, e)
      /\ new.status = row.status /\ new.lease_token = row.lease_token
  BY <1>3, AppendedRow
<1>6. By(new.events) = By(row.events)
  <2>1. e \in Event /\ e.by = NoToken /\ row.events \in Seq(Event)
    BY <1>2, RowFields DEF OtherEvent
  <2>2. new.events = Append(row.events, e)
    BY <1>5
  <2>3. QED
    BY <2>1, <2>2, ByAppend
<1>7. QED
  BY <1>1, <1>4, <1>5, <1>6, UnleasedMoves

\* A holder learns a version, and the lease stays what it was.
LEMMA RefreshMoves ==
  ASSUME OInv, Typed', NEW t \in DOMAIN leases, refresh(t)
  PROVE  \A q \in Runs : Hand(q)'
<1>1. /\ UNCHANGED <<db, staged, locked, tx>>
      /\ leases' = [leases EXCEPT ![t].version = staged[leases[t].run].lifecycle_version]
  BY DEF refresh
<1>2. leases \in Seq(LeaseIdentity) /\ leases' \in Seq(LeaseIdentity)
  BY DEF OInv, IInv, Typed
<1>3. Len(leases') = Len(leases) /\ Len(leases) \in Nat
  BY <1>1, <1>2
<1>4. ASSUME NEW u \in DOMAIN leases
      PROVE  /\ leases'[u].run = leases[u].run /\ leases'[u].worker = leases[u].worker
             /\ leases'[u].attempt = leases[u].attempt
  <2>1. leases[u] \in LeaseIdentity
    BY <1>2
  <2>2. leases'[u] = IF u = t THEN [leases[u] EXCEPT
                                     !.version = staged[leases[t].run].lifecycle_version]
                     ELSE leases[u]
    BY <1>1
  <2>3. QED
    BY <2>1, <2>2 DEF LeaseIdentity
<1>5. LeasesExtend
  BY <1>3, <1>4 DEF LeasesExtend
<1>6. QED
  BY <1>1, <1>5, UnstagedHand

\* Leases are handed out by claims only.
LEMMA Bounded ==
  ASSUME OInv, [Next]_vars
  PROVE  (Len(leases) <= MaxClaims)'
<1>1. leases \in Seq(LeaseIdentity) /\ Len(leases) \in Nat /\ Len(leases) <= MaxClaims /\ MaxClaims \in Nat
  BY ConstantsAssumption DEF OInv, IInv, Typed
<1>2. CASE UNCHANGED leases
  BY <1>1, <1>2
<1>3. ASSUME NEW w \in Workers, NEW r \in Runs, claim_next_run(w, r)
      PROVE  Len(leases') <= MaxClaims
  <2>1. PICK l : leases' = Append(leases, l) /\ Len(leases) < MaxClaims
    BY <1>3 DEF claim_next_run
  <2>2. Len(leases') = Len(leases) + 1
    BY <1>1, <2>1
  <2>3. QED
    BY <1>1, <2>1, <2>2
<1>4. ASSUME NEW t \in DOMAIN leases, refresh(t)
      PROVE  Len(leases') <= MaxClaims
  <2>1. leases' = [leases EXCEPT ![t].version = staged[leases[t].run].lifecycle_version]
    BY <1>4 DEF refresh
  <2>2. Len(leases') = Len(leases)
    BY <1>1, <2>1
  <2>3. QED
    BY <1>1, <2>2
<1>5. QED
  BY <1>2, <1>3, <1>4 DEF Next, WorkerStep, OperatorStep, Tick, Commit, Rollback, heartbeat, vars,
     transition_owned_run, lock_current_lease, get_run, cancel_queued_run, requeue_expired_run,
     append_event

\* A transaction ends: both rows are one again.
LEMMA ClosedHand ==
  ASSUME OInv, NEW r \in Runs, Commit(r) \/ Rollback(r)
  PROVE  \A q \in Runs : Hand(q)'
<1>1. SUFFICES ASSUME NEW q \in Runs PROVE Hand(q)'
  OBVIOUS
<1>2. Own(q, db[q]) /\ Own(q, staged[q]) /\ Moved(db[q], staged[q]) /\ ClaimAlone(q)
  BY DEF OInv, Hand
<1>3. Typed /\ leases' = leases
  BY DEF OInv, IInv, Commit, Rollback
<1>4. CASE q = r
  <2>1. db'[q] = staged'[q] /\ staged'[q] \in {db[q], staged[q]}
    BY <1>3, <1>4 DEF Commit, Rollback, Typed
  <2>2. QED
    BY <1>2, <1>3, <2>1 DEF Hand, Own, Moved, ClaimAlone
<1>5. CASE q # r
  <2>1. /\ db'[q] = db[q] /\ staged'[q] = staged[q] /\ tx'[q] = tx[q]
        /\ q \in locked => q \in locked'
    BY <1>3, <1>5 DEF Commit, Rollback, Typed
  <2>2. QED
    BY <1>2, <1>3, <2>1 DEF Hand, Own, ClaimAlone
<1>6. QED
  BY <1>4, <1>5

-----------------------------------------------------------------------------
(* The invariant.                                                          *)

\* No lease, and no evidence.
LEMMA InitOInv == Init => OInv
<1> SUFFICES ASSUME Init PROVE OInv
  OBVIOUS
<1>1. IInv
  BY InitIInv
<1>2. \A r \in Runs : db[r] = NewRun /\ staged[r] = NewRun
  BY DEF Init
<1>3. By(NewRun.events) = {} /\ NewRun.status = "queued"
  BY DEF NewRun, By
<1>4. Len(leases) <= MaxClaims
  BY ConstantsAssumption DEF Init
<1>5. QED
  BY <1>1, <1>2, <1>3, <1>4 DEF OInv, Hand, Own, Moved, ClaimAlone, Phase, ACTIVE_STATUSES

\* OInv is inductive: one case per operation.
LEMMA NextOInv == OInv /\ [Next]_vars => OInv'
<1> SUFFICES ASSUME OInv, [Next]_vars PROVE OInv'
  OBVIOUS
<1>1. IInv' /\ Typed /\ Typed' /\ (Len(leases) <= MaxClaims)'
  BY NextIInv, Bounded DEF OInv, IInv
<1>2. CASE WorkerStep
  BY <1>1, <1>2, ClaimMoves, HeartbeatMoves, TransitionMoves, RefreshMoves, LockMoves
     DEF WorkerStep, OInv
<1>3. ASSUME UNCHANGED <<db, staged, locked, tx, leases>> PROVE OInv'
  BY <1>1, <1>3, StableLeases, UnstagedHand DEF OInv
<1>4. CASE OperatorStep
  <2>1. ASSUME NEW o \in Operators, NEW r \in Runs, get_run(o, r) PROVE OInv'
    BY <1>3, <2>1 DEF get_run
  <2>2. QED
    BY <1>1, <1>4, <2>1, CancelMoves, RequeueMoves, AppendMoves DEF OperatorStep, OInv
<1>5. CASE Tick
  BY <1>3, <1>5 DEF Tick
<1>6. ASSUME NEW r \in Runs, Commit(r) \/ Rollback(r) PROVE OInv'
  BY <1>1, <1>6, ClosedHand DEF OInv
<1>7. CASE UNCHANGED vars
  BY <1>3, <1>7 DEF vars
<1>8. QED
  BY <1>2, <1>4, <1>5, <1>6, <1>7 DEF Next

-----------------------------------------------------------------------------
(* The refinement.  The mapping reads the committed rows, and what was     *)
(* granted from their evidence.                                            *)

phaseBar ==
  [r \in Runs |-> IF db[r].status = "queued" THEN "waiting"
                  ELSE IF db[r].status \in ACTIVE_STATUSES THEN "held" ELSE "done"]

holderBar == [r \in Runs |-> db[r].lease_token]

spentBar ==
  {t \in DOMAIN leases : \E r \in Runs : \E n \in DOMAIN db[r].events : db[r].events[n].by = t}

\* Granted is what evidence was written under.
LEMMA SpentBy ==
  ASSUME OInv, NEW t
  PROVE  t \in spentBar <=> \E r \in Runs : t \in By(db[r].events)
<1>1. DOMAIN leases = 1 .. Len(leases) /\ Len(leases) \in Nat
  BY DEF OInv, IInv, Typed
<1>2. \A r \in Runs : Own(r, db[r])
  BY DEF OInv, Hand
<1>3. QED
  BY <1>1, <1>2 DEF spentBar, By, Own, NoToken

\* A step that commits nothing is invisible.
LEMMA Invisible ==
  ASSUME OInv, OInv', UNCHANGED db
  PROVE  UNCHANGED <<phaseBar, holderBar, spentBar>>
<1>1. ASSUME NEW t PROVE t \in spentBar' <=> t \in spentBar
  <2>1. t \in spentBar <=> \E r \in Runs : t \in By(db[r].events)
    BY SpentBy
  <2>2. t \in spentBar' <=> \E r \in Runs : t \in By(db'[r].events)
    <3>1. DOMAIN leases' = 1 .. Len(leases') /\ Len(leases') \in Nat
      BY DEF OInv, IInv, Typed
    <3>2. \A r \in Runs : Own(r, db[r])'
      BY DEF OInv, Hand
    <3>3. QED
      BY <3>1, <3>2 DEF spentBar, By, Own, NoToken
  <2>3. QED
    BY <2>1, <2>2
<1>2. spentBar' = spentBar
  BY <1>1
<1>3. QED
  BY <1>2 DEF phaseBar, holderBar

\* What a commit adds to the leases that were granted.
LEMMA CommitSpends ==
  ASSUME OInv, OInv', NEW r \in Runs, Commit(r)
  PROVE  /\ db' = [db EXCEPT ![r] = staged[r]] /\ db \in [Runs -> Row]
         /\ \A t : t \in spentBar' <=>
              t \in By(staged[r].events) \/ \E q \in Runs : q # r /\ t \in By(db[q].events)
<1>1. db' = [db EXCEPT ![r] = staged[r]] /\ db \in [Runs -> Row]
  BY DEF Commit, OInv, IInv, Typed
<1>2. DOMAIN leases' = 1 .. Len(leases') /\ Len(leases') \in Nat
  BY DEF OInv, IInv, Typed
<1>3. \A q \in Runs : Own(q, db[q])'
  BY DEF OInv, Hand
<1>4. \A t : t \in spentBar' <=> \E q \in Runs : t \in By(db'[q].events)
  BY <1>2, <1>3 DEF spentBar, By, Own, NoToken
<1>5. \A q \in Runs : db'[q] = IF q = r THEN staged[r] ELSE db[q]
  BY <1>1
<1>6. QED
  BY <1>1, <1>4, <1>5

\* Evidence that a commit adds under no new lease leaves the granted ones as they are.
LEMMA SpendsNothing ==
  ASSUME OInv, OInv', NEW r \in Runs, Commit(r), By(staged[r].events) = By(db[r].events)
  PROVE  spentBar' = spentBar
<1>1. \A t : t \in spentBar' <=> t \in spentBar
  BY CommitSpends, SpentBy
<1>2. QED
  BY <1>1

\* The phases and holders a commit leaves.
LEMMA CommitBars ==
  ASSUME OInv, NEW r \in Runs, Commit(r)
  PROVE  /\ phaseBar[r] = Phase(db[r].status) /\ holderBar[r] = db[r].lease_token
         /\ phaseBar' = [phaseBar EXCEPT ![r] = Phase(staged[r].status)]
         /\ holderBar' = [holderBar EXCEPT ![r] = staged[r].lease_token]
<1>1. \A q \in Runs : db'[q] = IF q = r THEN staged[r] ELSE db[q]
  BY DEF Commit, OInv, IInv, Typed
<1>2. QED
  BY <1>1 DEF phaseBar, holderBar, Phase

\* A commit is one grant, release or finish, or changes nothing RunOwnership knows.
LEMMA CommitSimulates ==
  ASSUME OInv, OInv', NEW r \in Runs, Commit(r)
  PROVE  [Ownership!Next]_(Ownership!ownershipVars)
<1>1. PICK d \in Row, s \in Row : d = db[r] /\ s = staged[r]
  BY IInvFacts DEF OInv
<1>2. Own(r, d) /\ Own(r, s) /\ Moved(d, s) /\ RowInv(r, s) /\ Typed
  BY <1>1, IInvFacts DEF OInv, Hand
<1>3. /\ phaseBar[r] = Phase(d.status) /\ holderBar[r] = d.lease_token
      /\ phaseBar' = [phaseBar EXCEPT ![r] = Phase(s.status)]
      /\ holderBar' = [holderBar EXCEPT ![r] = s.lease_token]
  BY <1>1, CommitBars
<1>4. s.status \notin ACTIVE_STATUSES => s.lease_token = NoToken
  BY <1>2 DEF RowInv, CoherentLease
<1>5. CASE /\ Phase(s.status) = Phase(d.status) /\ s.lease_token = d.lease_token
           /\ By(s.events) = By(d.events)
  <2>1. spentBar' = spentBar
    BY <1>1, <1>5, SpendsNothing
  <2>2. phaseBar' = phaseBar /\ holderBar' = holderBar
    <3>1. /\ phaseBar' = [phaseBar EXCEPT ![r] = phaseBar[r]]
          /\ holderBar' = [holderBar EXCEPT ![r] = holderBar[r]]
      BY <1>3, <1>5
    <3>2. phaseBar = [q \in Runs |-> phaseBar[q]] /\ holderBar = [q \in Runs |-> holderBar[q]]
      BY DEF phaseBar, holderBar
    <3>3. QED
      BY <3>1, <3>2
  <2>3. QED
    BY <2>1, <2>2 DEF Ownership!ownershipVars, phaseBar, holderBar, spentBar
<1>6. CASE /\ Phase(d.status) = "waiting" /\ Phase(s.status) = "held"
           /\ s.lease_token \notin By(d.events)
           /\ By(s.events) = By(d.events) \cup {s.lease_token}
  <2>1. PICK g : g = s.lease_token
    OBVIOUS
  <2>2. s.status \in ACTIVE_STATUSES /\ g \in By(s.events)
    BY <1>6, <2>1, Phases
  <2>3. g \in 1 .. Len(leases) /\ leases[g].run = r
    BY <1>2, <2>2 DEF Own
  <2>4. \A q \in Runs : q # r => g \notin By(db[q].events)
    BY <2>3 DEF OInv, Hand, Own
  <2>5. g \notin spentBar
    BY <1>1, <1>6, <2>1, <2>4, SpentBy
  <2>6. spentBar' = spentBar \cup {g}
    <3>1. \A t : t \in spentBar' <=> t \in spentBar \cup {g}
      BY <1>1, <1>6, <2>1, CommitSpends, SpentBy
    <3>2. QED
      BY <3>1
  <2>7. g \in 1 .. MaxClaims
    <3>1. Len(leases) <= MaxClaims /\ Len(leases) \in Nat /\ MaxClaims \in Nat
      BY ConstantsAssumption DEF OInv, IInv, Typed
    <3>2. QED
      BY <2>3, <3>1
  <2>8. Ownership!Grant(r, g)
    BY <1>3, <1>6, <2>1, <2>5, <2>6 DEF Ownership!Grant, phaseBar, holderBar, spentBar
  <2>9. QED
    BY <2>7, <2>8 DEF Ownership!Next
<1>7. CASE /\ Phase(d.status) = "held" /\ Phase(s.status) = "waiting"
           /\ By(s.events) = By(d.events)
  <2>1. spentBar' = spentBar
    BY <1>1, <1>7, SpendsNothing
  <2>2. s.lease_token = NoToken
    BY <1>4, <1>7, Phases
  <2>3. Ownership!Release(r)
    BY <1>3, <1>7, <2>1, <2>2 DEF Ownership!Release, phaseBar, holderBar, spentBar
  <2>4. QED
    BY <2>3 DEF Ownership!Next
<1>8. CASE /\ Phase(d.status) # "done" /\ Phase(s.status) = "done"
           /\ By(s.events) = By(d.events)
  <2>1. spentBar' = spentBar
    BY <1>1, <1>8, SpendsNothing
  <2>2. s.lease_token = NoToken
    BY <1>4, <1>8, Phases
  <2>3. Ownership!Finish(r)
    BY <1>3, <1>8, <2>1, <2>2 DEF Ownership!Finish, phaseBar, holderBar, spentBar
  <2>4. QED
    BY <2>3 DEF Ownership!Next
<1>9. QED
  BY <1>2, <1>5, <1>6, <1>7, <1>8 DEF Moved

\* Runs start waiting, with nothing granted.
LEMMA InitSimulates == Init => Ownership!Init
<1> SUFFICES ASSUME Init PROVE Ownership!Init
  OBVIOUS
<1>1. \A r \in Runs : /\ db[r].status = "queued" /\ db[r].lease_token = NoToken
                      /\ db[r].events = <<>>
  BY DEF Init, NewRun
<1>2. DOMAIN <<>> = {} /\ leases = <<>>
  BY DEF Init
<1>3. QED
  BY <1>1, <1>2 DEF Ownership!Init

\* Every step of the protocol is a step of RunOwnership or none.
LEMMA NextSimulates ==
  OInv /\ OInv' /\ [Next]_vars => [Ownership!Next]_(Ownership!ownershipVars)
<1> SUFFICES ASSUME OInv, OInv', [Next]_vars PROVE [Ownership!Next]_(Ownership!ownershipVars)
  OBVIOUS
<1>1. ASSUME NEW r \in Runs, Commit(r) PROVE [Ownership!Next]_(Ownership!ownershipVars)
  BY <1>1, CommitSimulates
<1>2. CASE UNCHANGED db
  <2>1. UNCHANGED <<phaseBar, holderBar, spentBar>>
    BY <1>2, Invisible
  <2>2. QED
    BY <2>1 DEF Ownership!ownershipVars, phaseBar, holderBar, spentBar
<1>3. UNCHANGED db \/ \E r \in Runs : Commit(r)
  BY DEF Next, WorkerStep, OperatorStep, Tick, Rollback, vars, Stage, claim_next_run, heartbeat,
     transition_owned_run, refresh, lock_current_lease, get_run, cancel_queued_run,
     requeue_expired_run, append_event
<1>4. QED
  BY <1>1, <1>2, <1>3

\* The protocol, with its rows, clock, transactions, retries and stale readers, does
\* nothing RunOwnership does not: a lease token is granted once, to one waiting
\* Run, is worthless when it is released, and a finished Run is never granted.
THEOREM LeasesAreOwnership == Spec => OwnershipSpec
<1>1. Spec => []OInv
  BY InitOInv, NextOInv, PTL DEF Spec
<1>2. Spec => Ownership!Init
  BY InitSimulates DEF Spec
<1>3. Spec => [][Ownership!Next]_(Ownership!ownershipVars)
  BY <1>1, NextSimulates, PTL DEF Spec
<1>4. QED
  BY <1>2, <1>3 DEF OwnershipSpec, Ownership!Spec
=============================================================================
