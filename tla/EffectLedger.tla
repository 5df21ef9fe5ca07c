---------------------------- MODULE EffectLedger ----------------------------
(***************************************************************************)
(* The mutation tools and the immutable effect ledger of one Run           *)
(* (repository.py apply_refund_effect, apply_support_ticket_effect and     *)
(* verify_company_effect; the evidence gateway.py appends around them).    *)
(*                                                                         *)
(* A session opens a transaction, takes the Run row lock, runs any number  *)
(* of tool calls, each in its own savepoint, and commits or rolls back.    *)
(* What was committed may be asked for again by anybody: a caller that     *)
(* never saw its COMMIT answered, a worker that took the Run over, an      *)
(* agent that reuses its key for something else.                           *)
(***************************************************************************)
EXTENDS Naturals, Sequences, FiniteSetsExt

CONSTANTS
  Sessions,       \* database sessions that call the gateway for the Run
  Keys,           \* idempotency keys agents choose
  Captured,       \* payment_id -> amount_minor of the captured payment
  FixtureStatus,  \* payment_id -> status in the fixture
  FixtureRefunds, \* payment_id -> succeeded refunds of the fixture, in total
  Amounts,        \* amount_minor of the refunds asked for
  Tickets,        \* ticket_id -> status in the fixture
  TicketStatuses, \* statuses a ticket update may ask for
  Missing,        \* an identifier no company row has
  MaxCalls        \* bound: tool calls on record

ASSUME LedgerAssumption ==
  /\ MaxCalls \in Nat /\ Amounts \subseteq Nat \ {0}
  /\ Missing \notin DOMAIN Captured \cup DOMAIN Tickets
  /\ \A t \in DOMAIN Tickets : Tickets[t] \in TicketStatuses
  /\ \A p \in DOMAIN Captured :
       /\ Captured[p] \in Nat
       /\ FixtureRefunds[p] \in 0 .. Captured[p]
  /\ FixtureStatus \in [DOMAIN Captured -> {"captured", "partially_refunded", "refunded"}]

VARIABLES
  db,  \* committed company rows, ledger and tool evidence
  tx   \* what each session with an open transaction sees and wrote

vars == <<db, tx>>

REFUND == "payments.refund"
UPDATE_TICKET == "support.update_ticket"
PAYMENT_STATUSES == {"captured", "partially_refunded", "refunded"}

\* A request stands for its fingerprint: equal requests have equal digests.
RefundRequests == [tool : {REFUND}, key : Keys, subject : DOMAIN Captured \cup {Missing},
                   value : Amounts]
TicketRequests == [tool : {UPDATE_TICKET}, key : Keys, subject : DOMAIN Tickets \cup {Missing},
                   value : TicketStatuses]
Requests == RefundRequests \cup TicketRequests

\* Mutant: the identity forgets which tool the key was given to.
effect_identity_KeyOnly(q) == <<q.key>>

\* effect_id is derived from the idempotency identity and from nothing else.
effect_identity(q) == <<q.tool, q.key>>
EffectIds == {REFUND, UPDATE_TICKET} \X Keys
NoEffect == <<>>

OUTCOMES == {"newly_applied", "already_applied", "idempotency_conflict",
             "business_rule_violation", "entity_not_found", "infrastructure_error"}

\* The ledger holds the requests that were applied.
Company ==
  [effects : SUBSET Requests,
   refunds : SUBSET [effect : EffectIds, payment : DOMAIN Captured, amount : Amounts],
   payments : [DOMAIN Captured -> PAYMENT_STATUSES],
   tickets : [DOMAIN Tickets -> [status : TicketStatuses, last_effect : EffectIds \cup {NoEffect}]],
   evidence : Seq([request : Requests, outcome : OUTCOMES])]

\* The Run's own copy of the fixture.  A fixture refund stays in FixtureRefunds.
insert_company_entities ==
  [effects |-> {}, refunds |-> {}, payments |-> FixtureStatus,
   tickets |-> [t \in DOMAIN Tickets |-> [status |-> Tickets[t], last_effect |-> NoEffect]],
   evidence |-> <<>>]

Init ==
  /\ db = insert_company_entities
  /\ tx = <<>>

-----------------------------------------------------------------------------
(* Transactions.                                                           *)

\* FOR UPDATE waits for the transaction that holds the row; READ COMMITTED and
\* populate_existing then read every other row afresh.
lock_company_mutation_run(s) ==
  /\ DOMAIN tx = {}
  /\ tx' = [o \in {s} |-> db]
  /\ UNCHANGED db

Close(s) == [o \in DOMAIN tx \ {s} |-> tx[o]]

Commit(s) ==
  /\ db' = tx[s]
  /\ tx' = Close(s)

Rollback(s) ==
  /\ tx' = Close(s)
  /\ UNCHANGED db

-----------------------------------------------------------------------------
(* The two mutations, as functions from rows to rows.                      *)

Answered(c, q, outcome) ==
  [c EXCEPT !.evidence = Append(@, [request |-> q, outcome |-> outcome])]

\* get_company_effect: at most one row has the identity.
Existing(c, q) == {e \in c.effects : effect_identity(e) = effect_identity(q)}

Replay(c, q) ==
  Answered(c, q, IF q \in Existing(c, q) THEN "already_applied" ELSE "idempotency_conflict")

\* Mutant: refunds the fixture brought are not counted.
Refunded_NoFixture(c, p) ==
  MapThenSumSet(LAMBDA r : r.amount, {r \in c.refunds : r.payment = p})

Refunded(c, p) ==
  FixtureRefunds[p] + MapThenSumSet(LAMBDA r : r.amount, {r \in c.refunds : r.payment = p})

apply_refund_effect(c, q) ==
  LET total_after == Refunded(c, q.subject) + q.value
  IN CASE Existing(c, q) # {} -> Replay(c, q)
       [] Existing(c, q) = {} /\ q.subject \notin DOMAIN Captured -> Answered(c, q, "entity_not_found")
       [] OTHER ->
            IF \/ c.payments[q.subject] \notin {"captured", "partially_refunded"}
               \/ total_after > Captured[q.subject]
            THEN Answered(c, q, "business_rule_violation")
            ELSE Answered([c EXCEPT
                   !.effects = @ \cup {q},
                   !.refunds = @ \cup {[effect |-> effect_identity(q), payment |-> q.subject,
                                        amount |-> q.value]},
                   !.payments[q.subject] = IF total_after = Captured[q.subject] THEN "refunded"
                                           ELSE "partially_refunded"], q, "newly_applied")

\* Mutant: a replay sets the ticket again.
apply_support_ticket_effect_Reapply(c, q) ==
  CASE Existing(c, q) = {} /\ q.subject \notin DOMAIN Tickets -> Answered(c, q, "entity_not_found")
    [] Existing(c, q) # {} /\ q \notin c.effects -> Replay(c, q)
    [] OTHER ->
         Answered([c EXCEPT
           !.effects = @ \cup {q},
           !.tickets[q.subject] = [status |-> q.value, last_effect |-> effect_identity(q)]],
           q, IF q \in c.effects THEN "already_applied" ELSE "newly_applied")

\* Mutant: a replay writes the status again, but not the ticket's reference.
apply_support_ticket_effect_Rewrite(c, q) ==
  CASE Existing(c, q) = {} /\ q.subject \notin DOMAIN Tickets -> Answered(c, q, "entity_not_found")
    [] Existing(c, q) # {} /\ q \notin c.effects -> Replay(c, q)
    [] q \in c.effects -> Replay([c EXCEPT !.tickets[q.subject].status = q.value], q)
    [] OTHER ->
         Answered([c EXCEPT
           !.effects = @ \cup {q},
           !.tickets[q.subject] = [status |-> q.value, last_effect |-> effect_identity(q)]],
           q, "newly_applied")

apply_support_ticket_effect(c, q) ==
  CASE Existing(c, q) # {} -> Replay(c, q)
    [] Existing(c, q) = {} /\ q.subject \notin DOMAIN Tickets -> Answered(c, q, "entity_not_found")
    [] OTHER ->
         Answered([c EXCEPT
           !.effects = @ \cup {q},
           !.tickets[q.subject] = [status |-> q.value, last_effect |-> effect_identity(q)]],
           q, "newly_applied")

\* The gateway asks of an effect it is handed: is it the one in the ledger, and
\* do the company rows show it?  A refund must at any time, with the payment's
\* status telling the total; a ticket only right after, later updates hide it.
verify_company_effect(c, q, newly_applied) ==
  LET refund == [effect |-> effect_identity(q), payment |-> q.subject, amount |-> q.value]
      total == Refunded(c, q.subject)
  IN /\ q \in c.effects
     /\ q.tool = REFUND =>
          /\ refund \in c.refunds /\ total \in 1 .. Captured[q.subject]
          /\ c.payments[q.subject] = IF total = Captured[q.subject] THEN "refunded"
                                     ELSE "partially_refunded"
     /\ q.tool = UPDATE_TICKET /\ newly_applied =>
          c.tickets[q.subject] = [status |-> q.value, last_effect |-> effect_identity(q)]

\* An effect that does not verify is rolled back with its savepoint.
Verified(c, before, q) ==
  LET outcome == c.evidence[Len(c.evidence)].outcome
  IN IF outcome \in {"newly_applied", "already_applied"} =>
          verify_company_effect(c, q, outcome = "newly_applied")
     THEN c ELSE Answered(before, q, "infrastructure_error")

-----------------------------------------------------------------------------
(* Tool calls of a session whose transaction holds the Run row.            *)

Call(s, c) ==
  /\ Len(c.evidence) <= MaxCalls
  /\ tx' = [tx EXCEPT ![s] = c]
  /\ UNCHANGED db

refund(s) ==
  \E q \in RefundRequests : Call(s, Verified(apply_refund_effect(tx[s], q), tx[s], q))

update_ticket(s) ==
  \E q \in TicketRequests : Call(s, Verified(apply_support_ticket_effect(tx[s], q), tx[s], q))

\* Mutant: the failure is put on record, but nothing is rolled back.
infrastructure_error_KeepsRows(s) ==
  \E q \in TicketRequests :
    LET c == apply_support_ticket_effect(tx[s], q)
    IN Call(s, Answered([c EXCEPT !.evidence = tx[s].evidence], q, "infrastructure_error"))

\* An output that violates its contract, or any other internal failure, rolls
\* the inner savepoint back; the failed attempt stays on record.
infrastructure_error(s) == \E q \in Requests : Call(s, Answered(tx[s], q, "infrastructure_error"))

Next ==
  \/ \E s \in Sessions : lock_company_mutation_run(s)
  \/ \E s \in DOMAIN tx :
       \/ refund(s)
       \/ update_ticket(s)
       \/ infrastructure_error(s)
       \/ Commit(s)
       \/ Rollback(s)

Spec == Init /\ [][Next]_vars

-----------------------------------------------------------------------------
(* Properties.                                                             *)

TypeOK ==
  /\ db \in Company
  /\ DOMAIN tx \subseteq Sessions
  /\ \A s \in DOMAIN tx : tx[s] \in Company

\* No payment gives back more than it captured, whatever keys, sessions and
\* fixture refunds were involved, and its status says how much it gave back
\* (_apply_refund_effect_locked).
PaymentsCovered ==
  \A p \in DOMAIN Captured :
    LET refunds == {r \in db.refunds : r.payment = p}
        total == FixtureRefunds[p] + MapThenSumSet(LAMBDA r : r.amount, refunds)
    IN /\ total <= Captured[p]
       /\ db.payments[p] = IF refunds = {} THEN FixtureStatus[p]
                           ELSE IF total = Captured[p] THEN "refunded"
                           ELSE "partially_refunded"

\* Every ledger row verifies at any later time: an effect that was applied can
\* be replayed forever, however much happened to its payment or ticket since,
\* and no business row claims an effect that is not in the ledger
\* (verify_company_effect, the foreign keys of the company tables).
LedgerVerifies ==
  /\ \A e, f \in db.effects : effect_identity(e) = effect_identity(f) => e = f
  /\ \A e \in db.effects : verify_company_effect(db, e, FALSE)
  /\ \A r \in db.refunds : \E e \in db.effects : effect_identity(e) = r.effect
  /\ \A t \in DOMAIN Tickets :
       IF \E e \in db.effects : e.tool = UPDATE_TICKET /\ e.subject = t
       THEN \E e \in db.effects :
              /\ e.tool = UPDATE_TICKET /\ e.subject = t
              /\ effect_identity(e) = db.tickets[t].last_effect
              /\ e.value = db.tickets[t].status
       ELSE db.tickets[t] = [status |-> Tickets[t], last_effect |-> NoEffect]

\* Before position i of the evidence, q was announced as applied.
Announced(c, i, q) ==
  \E j \in 1 .. i - 1 : c.evidence[j].request = q /\ c.evidence[j].outcome = "newly_applied"

\* The effects of q's key that position i comes after.
Earlier(c, i, q) ==
  {e \in c.effects : effect_identity(e) = effect_identity(q) /\ Announced(c, i, e)}

\* What may be said of q after those effects.
Fits(outcome, q, earlier) ==
  /\ outcome \in {"newly_applied", "business_rule_violation", "entity_not_found"} => earlier = {}
  /\ outcome = "already_applied" => earlier = {q}
  /\ outcome = "idempotency_conflict" => earlier # {} /\ q \notin earlier

\* The committed evidence tells one story per key: the effect is announced once,
\* every later identical call is a replay of it, every different call under the
\* same key a conflict, and nothing is applied that is not announced.
EvidenceTellsOnce ==
  /\ \A q \in Requests : q \in db.effects <=> Announced(db, Len(db.evidence) + 1, q)
  /\ \A i \in DOMAIN db.evidence :
       LET q == db.evidence[i].request IN Fits(db.evidence[i].outcome, q, Earlier(db, i, q))

\* A replay never reverts history: company rows change only in a transaction
\* that adds their effect to the ledger, and the ledger only grows.
ReplayNeverReverts ==
  [][/\ db.effects \subseteq db'.effects /\ db.refunds \subseteq db'.refunds
     /\ \A t \in DOMAIN Tickets : db'.tickets[t] # db.tickets[t] =>
          \E e \in db'.effects \ db.effects : e.tool = UPDATE_TICKET /\ e.subject = t
     /\ \A p \in DOMAIN Captured : db'.payments[p] # db.payments[p] =>
          /\ db.payments[p] # "refunded"
          /\ \E e \in db'.effects \ db.effects : e.tool = REFUND /\ e.subject = p]_vars
=============================================================================
