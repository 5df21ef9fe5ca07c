------------------------- MODULE EffectLedgerProofs -------------------------
(***************************************************************************)
(* The evidence tells one story per idempotency key, and no replay reverts *)
(* a row, for any number of sessions, keys, payments, tickets and calls.   *)
(* The argument is about rows and not about sessions: a tool call takes    *)
(* rows that tell that story to rows that do (Does), and a transaction is  *)
(* a number of tool calls on the committed rows, alone with them.          *)
(***************************************************************************)
EXTENDS EffectLedger, TLAPS, FiniteSetTheorems, WellFoundedInduction

\* A key is used for one effect, what is announced is the ledger, and every event
\* fits what was announced before it.
Tells(c) ==
  /\ \A e, f \in c.effects : effect_identity(e) = effect_identity(f) => e = f
  /\ \A q \in Requests : q \in c.effects <=> Announced(c, Len(c.evidence) + 1, q)
  /\ \A i \in 1 .. Len(c.evidence) :
       LET q == c.evidence[i].request IN Fits(c.evidence[i].outcome, q, Earlier(c, i, q))

\* What happened to the rows from c to d is in the ledger of d and not in that of c.
Extends(c, d) ==
  /\ c.effects \subseteq d.effects /\ c.refunds \subseteq d.refunds
  /\ \A t \in DOMAIN Tickets : d.tickets[t] # c.tickets[t] =>
       \E e \in d.effects \ c.effects : e.tool = UPDATE_TICKET /\ e.subject = t
  /\ \A p \in DOMAIN Captured : d.payments[p] # c.payments[p] =>
       /\ c.payments[p] # "refunded"
       /\ \E e \in d.effects \ c.effects : e.tool = REFUND /\ e.subject = p

\* A tool call takes rows c to rows d and reports on q.
Reports(c, d, q, outcome) ==
  /\ d.evidence = Append(c.evidence, [request |-> q, outcome |-> outcome])
  /\ d.effects = IF outcome = "newly_applied" THEN c.effects \cup {q} ELSE c.effects
  /\ outcome \in {"newly_applied", "business_rule_violation", "entity_not_found"}
       => Existing(c, q) = {}
  /\ outcome = "already_applied" => q \in c.effects
  /\ outcome = "idempotency_conflict" => q \notin c.effects /\ Existing(c, q) # {}

Does(c, d, q) ==
  d \in Company /\ Extends(c, d) /\ \E outcome \in OUTCOMES : Reports(c, d, q, outcome)

\* An open transaction is alone with the rows.
Alone == \A s, o \in DOMAIN tx : s = o

LInv ==
  /\ TypeOK /\ Tells(db) /\ Alone
  /\ \A s \in DOMAIN tx : Tells(tx[s]) /\ Extends(db, tx[s])

-----------------------------------------------------------------------------
(* Rows.                                                                   *)

\* Rows extend themselves.
LEMMA ExtendsItself == ASSUME NEW c PROVE Extends(c, c)
BY DEF Extends

\* A call after another extends what the first one extended.
LEMMA ExtendsOn ==
  ASSUME NEW b, NEW c, NEW d, Extends(b, c), Extends(c, d)
  PROVE  Extends(b, d)
<1>1. b.effects \subseteq c.effects /\ c.effects \subseteq d.effects
      /\ b.refunds \subseteq c.refunds /\ c.refunds \subseteq d.refunds
  BY DEF Extends
<1>2. ASSUME NEW t \in DOMAIN Tickets, d.tickets[t] # b.tickets[t]
      PROVE  \E e \in d.effects \ b.effects : e.tool = UPDATE_TICKET /\ e.subject = t
  <2>1. CASE c.tickets[t] # b.tickets[t]
    BY <1>1, <2>1 DEF Extends
  <2>2. CASE d.tickets[t] # c.tickets[t]
    BY <1>1, <2>2 DEF Extends
  <2>3. QED
    BY <1>2, <2>1, <2>2
<1>3. ASSUME NEW p \in DOMAIN Captured, d.payments[p] # b.payments[p]
      PROVE  /\ b.payments[p] # "refunded"
             /\ \E e \in d.effects \ b.effects : e.tool = REFUND /\ e.subject = p
  <2>1. CASE c.payments[p] # b.payments[p]
    BY <1>1, <2>1 DEF Extends
  <2>2. CASE c.payments[p] = b.payments[p]
    BY <1>1, <1>3, <2>2 DEF Extends
  <2>3. QED
    BY <2>1, <2>2
<1>4. QED
  BY <1>1, <1>2, <1>3 DEF Extends

\* Every request is of a tool, with a key.
LEMMA Requested ==
  ASSUME NEW q \in Requests
  PROVE  effect_identity(q) \in EffectIds /\ effect_identity(q) # NoEffect
BY DEF Requests, RefundRequests, TicketRequests, effect_identity, EffectIds, NoEffect

\* One more report fits, if it says of q what the ledger says.
LEMMA ReportTells ==
  ASSUME NEW c \in Company, NEW d \in Company, NEW q \in Requests, NEW outcome \in OUTCOMES,
         Tells(c), Reports(c, d, q, outcome)
  PROVE  Tells(d)
<1> DEFINE n == Len(c.evidence)
           event == [request |-> q, outcome |-> outcome]
<1>1. /\ n \in Nat /\ Len(d.evidence) = n + 1 /\ d.evidence[n + 1] = event
      /\ \A i \in 1 .. n : d.evidence[i] = c.evidence[i] /\ c.evidence[i].request \in Requests
  <2> DEFINE Events == [request : Requests, outcome : OUTCOMES]
  <2>1. event \in Events /\ \A e \in Events : e.request \in Requests
    OBVIOUS
  <2>2. PICK old \in Seq(Events) : old = c.evidence
    BY DEF Company
  <2>3. d.evidence = Append(old, event)
    BY <2>2 DEF Reports
  <2> HIDE DEF event, Events
  <2>4. /\ Len(old) \in Nat /\ Len(d.evidence) = Len(old) + 1 /\ d.evidence[Len(old) + 1] = event
        /\ \A i \in 1 .. Len(old) : d.evidence[i] = old[i] /\ old[i] \in Events
    BY <2>1, <2>3
  <2>5. QED
    BY <2>1, <2>2, <2>4
<1>2. event.request = q /\ event.outcome = outcome
  OBVIOUS
<1> HIDE DEF n, event
<1>3. \A i \in 1 .. n + 1 : \A e : Announced(d, i, e) <=> Announced(c, i, e)
  BY <1>1 DEF Announced
<1>4. \A e : Announced(d, n + 2, e) <=>
               Announced(c, n + 1, e) \/ (e = q /\ outcome = "newly_applied")
  <2>1. \A j : j \in 1 .. (n + 2) - 1 <=> j \in 1 .. (n + 1) - 1 \/ j = n + 1
    BY <1>1
  <2>2. QED
    BY <1>1, <1>2, <2>1 DEF Announced
<1>5. \A e \in Requests : e \in c.effects <=> Announced(c, n + 1, e)
  BY DEF Tells, n
<1>6. c.effects \subseteq Requests /\ d.effects \subseteq Requests
  BY DEF Company
<1>7. \A e \in Requests : e \in d.effects <=> Announced(d, n + 2, e)
  BY <1>4, <1>5 DEF Reports
<1>8. \A e, f \in d.effects : effect_identity(e) = effect_identity(f) => e = f
  BY <1>6 DEF Reports, Tells, Existing
<1>9. ASSUME NEW i \in 1 .. n, NEW p \in Requests
      PROVE  Earlier(d, i, p) = Earlier(c, i, p)
  <2>1. \A e : Announced(d, i, e) <=> Announced(c, i, e)
    BY <1>1, <1>3
  <2>2. \A e : Announced(c, i, e) => Announced(c, n + 1, e)
    <3>1. 1 .. i - 1 \subseteq 1 .. (n + 1) - 1
      BY <1>1
    <3>2. QED
      BY <3>1 DEF Announced
  <2>3. \A e \in d.effects : Announced(c, i, e) => e \in c.effects
    BY <1>5, <1>6, <2>2
  <2>4. c.effects \subseteq d.effects
    BY DEF Reports
  <2>5. QED
    BY <2>1, <2>3, <2>4 DEF Earlier
<1>10. Earlier(d, n + 1, q) = Existing(c, q)
  <2>1. \A e \in d.effects : Announced(d, n + 1, e) <=> e \in c.effects
    BY <1>1, <1>3, <1>5, <1>6
  <2>2. c.effects \subseteq d.effects
    BY DEF Reports
  <2>3. QED
    BY <2>1, <2>2 DEF Earlier, Existing
<1>11. Fits(outcome, q, Existing(c, q))
  <2>1. q \in c.effects => Existing(c, q) = {q}
    BY DEF Tells, Existing
  <2>2. q \notin c.effects => q \notin Existing(c, q)
    BY DEF Existing
  <2>3. QED
    BY <2>1, <2>2 DEF Fits, Reports
<1>12. ASSUME NEW i \in 1 .. n + 1
       PROVE  LET p == d.evidence[i].request IN Fits(d.evidence[i].outcome, p, Earlier(d, i, p))
  <2>1. CASE i = n + 1
    BY <1>1, <1>2, <1>10, <1>11, <2>1
  <2>2. CASE i \in 1 .. n
    BY <1>1, <1>9, <2>2 DEF Tells, n
  <2>3. QED
    BY <1>1, <2>1, <2>2
<1>13. Len(d.evidence) + 1 = n + 2
  BY <1>1
<1>14. QED
  BY <1>1, <1>7, <1>8, <1>12, <1>13 DEF Tells

\* A report adds an event of the right type.
LEMMA AnsweredIsCompany ==
  ASSUME NEW c \in Company, NEW d \in Company, NEW q \in Requests, NEW outcome \in OUTCOMES,
         d.evidence = c.evidence, NEW a, a = Answered(d, q, outcome)
  PROVE  /\ a \in Company
         /\ a.evidence = Append(c.evidence, [request |-> q, outcome |-> outcome])
         /\ a.effects = d.effects /\ a.refunds = d.refunds
         /\ a.payments = d.payments /\ a.tickets = d.tickets
<1> DEFINE event == [request |-> q, outcome |-> outcome]
<1>1. event \in [request : Requests, outcome : OUTCOMES]
  OBVIOUS
<1> HIDE DEF event
<1>2. Append(d.evidence, event) \in Seq([request : Requests, outcome : OUTCOMES])
  BY <1>1 DEF Company
<1>3. a = [d EXCEPT !.evidence = Append(d.evidence, event)]
  BY DEF Answered, event
<1>4. QED
  BY <1>2, <1>3 DEF Company, event

\* A report that changes no row (_record_result of a failure, a replay).
LEMMA AnswerDoes ==
  ASSUME NEW c \in Company, NEW q \in Requests, NEW outcome \in OUTCOMES \ {"newly_applied"},
         outcome \in {"business_rule_violation", "entity_not_found"} => Existing(c, q) = {},
         outcome = "already_applied" => q \in c.effects,
         outcome = "idempotency_conflict" => q \notin c.effects /\ Existing(c, q) # {}
  PROVE  Does(c, Answered(c, q, outcome), q)
<1>1. PICK d : d = Answered(c, q, outcome)
  OBVIOUS
<1>2. /\ d \in Company /\ d.evidence = Append(c.evidence, [request |-> q, outcome |-> outcome])
      /\ d.effects = c.effects /\ d.refunds = c.refunds
      /\ d.payments = c.payments /\ d.tickets = c.tickets
  BY <1>1, AnsweredIsCompany
<1>3. Extends(c, d)
  BY <1>2 DEF Extends
<1>4. Reports(c, d, q, outcome)
  BY <1>2 DEF Reports
<1>5. QED
  BY <1>1, <1>2, <1>3, <1>4 DEF Does

\* A key that was used is answered from the ledger (get_company_effect).
LEMMA ReplayDoes ==
  ASSUME NEW c \in Company, NEW q \in Requests, Existing(c, q) # {}
  PROVE  Does(c, Replay(c, q), q)
<1>1. PICK outcome : outcome = IF q \in Existing(c, q) THEN "already_applied"
                               ELSE "idempotency_conflict"
  OBVIOUS
<1>2. outcome \in OUTCOMES \ {"newly_applied"}
  BY <1>1 DEF OUTCOMES
<1>3. q \in Existing(c, q) <=> q \in c.effects
  BY DEF Existing
<1>4. Does(c, Answered(c, q, outcome), q)
  BY <1>1, <1>2, <1>3, AnswerDoes
<1>5. QED
  BY <1>1, <1>4 DEF Replay

\* A new effect is reported with its rows.
LEMMA AppliedDoes ==
  ASSUME NEW c \in Company, NEW d \in Company, NEW q \in Requests, Existing(c, q) = {},
         d.evidence = c.evidence, d.effects = c.effects \cup {q}, Extends(c, d)
  PROVE  Does(c, Answered(d, q, "newly_applied"), q)
<1>1. "newly_applied" \in OUTCOMES
  BY DEF OUTCOMES
<1>2. PICK a : a = Answered(d, q, "newly_applied")
  OBVIOUS
<1>3. /\ a \in Company
      /\ a.evidence = Append(c.evidence, [request |-> q, outcome |-> "newly_applied"])
      /\ a.effects = d.effects /\ a.refunds = d.refunds
      /\ a.payments = d.payments /\ a.tickets = d.tickets
  BY <1>1, <1>2, AnsweredIsCompany
<1>4. Extends(c, a)
  BY <1>3 DEF Extends
<1>5. Reports(c, a, q, "newly_applied")
  BY <1>3 DEF Reports
<1>6. QED
  BY <1>1, <1>2, <1>3, <1>4, <1>5 DEF Does

\* A refund is a replay, a refusal or a new effect (apply_refund_effect).
LEMMA RefundDoes ==
  ASSUME NEW c \in Company, NEW q \in RefundRequests
  PROVE  Does(c, apply_refund_effect(c, q), q)
<1>1. q \in Requests /\ q.tool = REFUND /\ q.value \in Amounts
  BY DEF RefundRequests, Requests
<1>2. CASE Existing(c, q) # {}
  <2>1. apply_refund_effect(c, q) = Replay(c, q)
    BY <1>2 DEF apply_refund_effect
  <2>2. QED
    BY <1>1, <1>2, <2>1, ReplayDoes
<1>3. CASE Existing(c, q) = {} /\ q.subject \notin DOMAIN Captured
  <2>1. apply_refund_effect(c, q) = Answered(c, q, "entity_not_found")
    BY <1>3 DEF apply_refund_effect
  <2>2. QED
    BY <1>1, <1>3, <2>1, AnswerDoes DEF OUTCOMES
<1>4. CASE Existing(c, q) = {} /\ q.subject \in DOMAIN Captured
  <2> DEFINE total_after == Refunded(c, q.subject) + q.value
             status == IF total_after = Captured[q.subject] THEN "refunded" ELSE "partially_refunded"
             row == [effect |-> effect_identity(q), payment |-> q.subject, amount |-> q.value]
             d == [c EXCEPT !.effects = @ \cup {q}, !.refunds = @ \cup {row},
                            !.payments[q.subject] = status]
  <2>1. \/ apply_refund_effect(c, q) = Answered(c, q, "business_rule_violation")
        \/ /\ c.payments[q.subject] \in {"captured", "partially_refunded"}
           /\ apply_refund_effect(c, q) = Answered(d, q, "newly_applied")
    BY <1>4 DEF apply_refund_effect
  <2>2. status \in PAYMENT_STATUSES
    BY DEF PAYMENT_STATUSES
  <2>3. row \in [effect : EffectIds, payment : DOMAIN Captured, amount : Amounts]
    BY <1>1, <1>4, Requested
  <2> HIDE DEF total_after, status, row
  <2>4. /\ d \in Company /\ d.evidence = c.evidence /\ d.effects = c.effects \cup {q}
        /\ d.refunds = c.refunds \cup {row} /\ d.tickets = c.tickets
        /\ \A p \in DOMAIN Captured : p # q.subject => d.payments[p] = c.payments[p]
    BY <1>1, <1>4, <2>2, <2>3 DEF Company
  <2> HIDE DEF d
  <2>5. q \notin c.effects
    BY <1>4 DEF Existing
  <2>6. c.payments[q.subject] # "refunded" => Extends(c, d)
    BY <1>1, <2>4, <2>5 DEF Extends
  <2>7. CASE apply_refund_effect(c, q) = Answered(c, q, "business_rule_violation")
    BY <1>1, <1>4, <2>7, AnswerDoes DEF OUTCOMES
  <2>8. QED
    BY <1>1, <1>4, <2>1, <2>4, <2>6, <2>7, AppliedDoes
<1>5. QED
  BY <1>2, <1>3, <1>4

\* A ticket update is a replay, a refusal or a new effect (apply_support_ticket_effect).
LEMMA TicketDoes ==
  ASSUME NEW c \in Company, NEW q \in TicketRequests
  PROVE  Does(c, apply_support_ticket_effect(c, q), q)
<1>1. q \in Requests /\ q.tool = UPDATE_TICKET /\ q.value \in TicketStatuses
  BY DEF TicketRequests, Requests
<1>2. CASE Existing(c, q) # {}
  <2>1. apply_support_ticket_effect(c, q) = Replay(c, q)
    BY <1>2 DEF apply_support_ticket_effect
  <2>2. QED
    BY <1>1, <1>2, <2>1, ReplayDoes
<1>3. CASE Existing(c, q) = {} /\ q.subject \notin DOMAIN Tickets
  <2>1. apply_support_ticket_effect(c, q) = Answered(c, q, "entity_not_found")
    BY <1>3 DEF apply_support_ticket_effect
  <2>2. QED
    BY <1>1, <1>3, <2>1, AnswerDoes DEF OUTCOMES
<1>4. CASE Existing(c, q) = {} /\ q.subject \in DOMAIN Tickets
  <2> DEFINE row == [status |-> q.value, last_effect |-> effect_identity(q)]
             d == [c EXCEPT !.effects = @ \cup {q}, !.tickets[q.subject] = row]
  <2>1. apply_support_ticket_effect(c, q) = Answered(d, q, "newly_applied")
    BY <1>4 DEF apply_support_ticket_effect
  <2>2. row \in [status : TicketStatuses, last_effect : EffectIds \cup {NoEffect}]
    BY <1>1, Requested
  <2> HIDE DEF row
  <2>3. /\ d \in Company /\ d.evidence = c.evidence /\ d.effects = c.effects \cup {q}
        /\ d.refunds = c.refunds /\ d.payments = c.payments
        /\ \A t \in DOMAIN Tickets : t # q.subject => d.tickets[t] = c.tickets[t]
    BY <1>1, <1>4, <2>2 DEF Company
  <2> HIDE DEF d
  <2>4. q \notin c.effects
    BY <1>4 DEF Existing
  <2>5. Extends(c, d)
    BY <1>1, <2>3, <2>4 DEF Extends
  <2>6. QED
    BY <1>1, <1>4, <2>1, <2>3, <2>5, AppliedDoes
<1>5. QED
  BY <1>2, <1>3, <1>4

\* An internal failure leaves its event only (infrastructure_error).
LEMMA FailureDoes ==
  ASSUME NEW c \in Company, NEW q \in Requests
  PROVE  Does(c, Answered(c, q, "infrastructure_error"), q)
BY AnswerDoes DEF OUTCOMES

\* What does not verify is rolled back and reported as a failure.
LEMMA VerifiedDoes ==
  ASSUME NEW c \in Company, NEW q \in Requests, NEW d, Does(c, d, q)
  PROVE  Does(c, Verified(d, c, q), q)
BY FailureDoes DEF Verified

\* A tool call tells the story on.
LEMMA DoesTells ==
  ASSUME NEW c \in Company, NEW q \in Requests, NEW d, Does(c, d, q), Tells(c)
  PROVE  d \in Company /\ Tells(d) /\ Extends(c, d)
BY ReportTells DEF Does

-----------------------------------------------------------------------------
(* Transactions.                                                           *)

\* Nothing was said of the fixture.
LEMMA InitTells == Init => LInv
<1> SUFFICES ASSUME Init PROVE LInv
  OBVIOUS
<1>1. PICK c : c = db
  OBVIOUS
<1>2. /\ c.effects = {} /\ c.refunds = {} /\ c.evidence = <<>>
      /\ c \in Company
  <2>1. /\ FixtureStatus \in [DOMAIN Captured -> PAYMENT_STATUSES]
        /\ \A t \in DOMAIN Tickets : Tickets[t] \in TicketStatuses
    BY LedgerAssumption DEF LedgerAssumption, PAYMENT_STATUSES
  <2>2. [t \in DOMAIN Tickets |-> [status |-> Tickets[t], last_effect |-> NoEffect]]
          \in [DOMAIN Tickets -> [status : TicketStatuses, last_effect : EffectIds \cup {NoEffect}]]
    BY <2>1
  <2>3. <<>> \in Seq([request : Requests, outcome : OUTCOMES])
    OBVIOUS
  <2>4. QED
    BY <1>1, <2>1, <2>2, <2>3 DEF Init, insert_company_entities, Company
<1>3. Tells(c)
  BY <1>2 DEF Tells, Announced
<1>4. QED
  BY <1>1, <1>2, <1>3 DEF Init, LInv, TypeOK, Alone

\* A session begins with the committed rows (lock_company_mutation_run).
LEMMA LockTells ==
  ASSUME LInv, NEW s \in Sessions, lock_company_mutation_run(s)
  PROVE  LInv'
<1>1. DOMAIN tx' = {s} /\ tx'[s] = db /\ db' = db
  BY DEF lock_company_mutation_run
<1>2. db \in Company /\ Tells(db)
  BY DEF LInv, TypeOK
<1>3. QED
  BY <1>1, <1>2, ExtendsItself DEF LInv, TypeOK, Alone

\* A tool call of an open transaction.
LEMMA CallTells ==
  ASSUME LInv, NEW s \in DOMAIN tx, NEW q \in Requests, NEW d, Call(s, d), Does(tx[s], d, q)
  PROVE  LInv'
<1>1. tx[s] \in Company /\ Tells(tx[s]) /\ Extends(db, tx[s]) /\ \A o \in DOMAIN tx : o = s
  BY DEF LInv, TypeOK, Alone
<1>2. d \in Company /\ Tells(d) /\ Extends(db, d)
  BY <1>1, DoesTells, ExtendsOn
<1>3. DOMAIN tx' = DOMAIN tx /\ tx'[s] = d /\ db' = db
  BY DEF Call
<1>4. QED
  BY <1>1, <1>2, <1>3 DEF LInv, TypeOK, Alone

\* The transaction ends, and with a commit its rows are the committed ones.
LEMMA EndTells ==
  ASSUME LInv, NEW s \in DOMAIN tx, Commit(s) \/ Rollback(s)
  PROVE  LInv'
<1>1. DOMAIN tx' = {}
  BY DEF LInv, Alone, Commit, Rollback, Close
<1>2. db' = db \/ db' = tx[s]
  BY DEF Commit, Rollback
<1>3. /\ db \in Company /\ tx[s] \in Company
      /\ Tells(db) /\ Tells(tx[s])
  BY DEF LInv, TypeOK
<1>4. QED
  BY <1>1, <1>2, <1>3 DEF LInv, TypeOK, Alone

\* LInv is inductive.
LEMMA NextTells == LInv /\ [Next]_vars => LInv'
<1> SUFFICES ASSUME LInv, [Next]_vars PROVE LInv'
  OBVIOUS
<1>1. ASSUME NEW s \in Sessions, lock_company_mutation_run(s) PROVE LInv'
  BY <1>1, LockTells
<1>2. ASSUME NEW s \in DOMAIN tx, refund(s) \/ update_ticket(s) \/ infrastructure_error(s)
      PROVE  LInv'
  <2>1. tx[s] \in Company
    BY DEF LInv, TypeOK
  <2>2. RefundRequests \subseteq Requests /\ TicketRequests \subseteq Requests
    BY DEF Requests
  <2>3. CASE refund(s)
    <3>1. PICK q \in RefundRequests : Call(s, Verified(apply_refund_effect(tx[s], q), tx[s], q))
      BY <2>3 DEF refund
    <3>2. QED
      BY <2>1, <2>2, <3>1, RefundDoes, VerifiedDoes, CallTells
  <2>4. CASE update_ticket(s)
    <3>1. PICK q \in TicketRequests :
            Call(s, Verified(apply_support_ticket_effect(tx[s], q), tx[s], q))
      BY <2>4 DEF update_ticket
    <3>2. QED
      BY <2>1, <2>2, <3>1, TicketDoes, VerifiedDoes, CallTells
  <2>5. CASE infrastructure_error(s)
    <3>1. PICK q \in Requests : Call(s, Answered(tx[s], q, "infrastructure_error"))
      BY <2>5 DEF infrastructure_error
    <3>2. QED
      BY <2>1, <3>1, FailureDoes, CallTells
  <2>6. QED
    BY <1>2, <2>3, <2>4, <2>5
<1>3. ASSUME NEW s \in DOMAIN tx, Commit(s) \/ Rollback(s) PROVE LInv'
  BY <1>3, EndTells
<1>4. CASE UNCHANGED vars
  BY <1>4 DEF vars, LInv, TypeOK, Alone
<1>5. QED
  BY <1>1, <1>2, <1>3, <1>4 DEF Next

-----------------------------------------------------------------------------
(* What it is for.                                                         *)

\* LInv at every moment.
LEMMA Always == Spec => []LInv
BY InitTells, NextTells, PTL DEF Spec

\* Company rows, ledger and evidence keep their types, committed or not.
THEOREM LedgerTypes == Spec => []TypeOK
<1>1. LInv => TypeOK
  BY DEF LInv
<1>2. QED
  BY <1>1, Always, PTL

\* What the story of the rows says is what the committed evidence tells.
LEMMA ToldIsTold == LInv => EvidenceTellsOnce
<1> SUFFICES ASSUME LInv PROVE EvidenceTellsOnce
  OBVIOUS
<1>1. PICK c \in Company : c = db /\ Tells(c)
  BY DEF LInv, TypeOK
<1> DEFINE Events == [request : Requests, outcome : OUTCOMES]
<1>2. PICK said \in Seq(Events) : said = c.evidence
  BY <1>1 DEF Company
<1> HIDE DEF Events
<1>3. DOMAIN c.evidence = 1 .. Len(c.evidence)
  BY <1>2
<1>4. QED
  BY <1>1, <1>3 DEF EvidenceTellsOnce, Tells

\* The committed evidence announces an effect once per key; every later identical
\* call is a replay of it, every other one under the key a conflict, and what is
\* announced is the ledger: for any number of sessions, keys, rows and calls.
THEOREM OneStoryPerKey == Spec => []EvidenceTellsOnce
BY Always, ToldIsTold, PTL

\* A commit extends the committed rows, and nothing else changes them.
LEMMA CommitsExtend == LInv /\ [Next]_vars => Extends(db, db')
<1> SUFFICES ASSUME LInv, [Next]_vars PROVE Extends(db, db')
  OBVIOUS
<1>1. db' = db \/ \E s \in DOMAIN tx : db' = tx[s]
  BY DEF Next, lock_company_mutation_run, refund, update_ticket, infrastructure_error, Call,
         Commit, Rollback, vars
<1>2. QED
  BY <1>1, ExtendsItself DEF LInv

\* A payment or ticket changes only in a transaction that adds its effect to the
\* ledger, a refunded payment never, and ledger and refunds only grow.
THEOREM NothingIsReverted == Spec => ReplayNeverReverts
<1>1. LInv /\ [Next]_vars =>
        [/\ db.effects \subseteq db'.effects /\ db.refunds \subseteq db'.refunds
         /\ \A t \in DOMAIN Tickets : db'.tickets[t] # db.tickets[t] =>
              \E e \in db'.effects \ db.effects : e.tool = UPDATE_TICKET /\ e.subject = t
         /\ \A p \in DOMAIN Captured : db'.payments[p] # db.payments[p] =>
              /\ db.payments[p] # "refunded"
              /\ \E e \in db'.effects \ db.effects : e.tool = REFUND /\ e.subject = p]_vars
  BY CommitsExtend DEF Extends
<1>2. QED
  BY <1>1, Always, PTL DEF Spec, ReplayNeverReverts
-----------------------------------------------------------------------------
(* Sums.  MapThenSumSet takes the rows one by one, in an order nobody      *)
(* knows; that the order does not matter is shown by least counterexamples. *)

Some(s) == CHOOSE x \in s : TRUE
Sum(S) == MapThenSumSet(LAMBDA r : r.amount, S)

\* f adds up every part of S.
Adds(f, S) ==
  f = [s \in SUBSET S |-> IF s = {} THEN 0 ELSE Some(s).amount + f[s \ {Some(s)}]]

Priced(S) == IsFiniteSet(S) /\ \A r \in S : r.amount \in Nat

\* The sum of a set, by a function that sums its subsets.
LEMMA SumIs == ASSUME NEW S PROVE Sum(S) = (CHOOSE f : Adds(f, S))[S]
BY DEF Sum, MapThenSumSet, MapThenFoldSet, Adds, Some

\* The element that is chosen is one of the set.
LEMMA SomeIsIn == ASSUME NEW S, S # {} PROVE Some(S) \in S
BY DEF Some

\* Of some parts of a finite set, one has none of the others in it.
LEMMA Smallest ==
  ASSUME NEW S, IsFiniteSet(S), NEW T, T \subseteq SUBSET S, T # {}
  PROVE  \E s \in T : \A r \in T : r \subseteq s => r = s
<1>1. IsWellFoundedOn(StrictSubsetOrdering(S), SUBSET S)
  BY FS_StrictSubsetOrderingWellFounded, FS_FiniteSubsetsOfFinite
<1>2. PICK s \in T : \A r \in T : ~(<<r, s>> \in StrictSubsetOrdering(S))
  BY <1>1, WFMin, Zenon
<1>3. QED
  BY <1>2 DEF StrictSubsetOrdering

\* A sum is unique: two of them differ on no smallest set.
LEMMA AddsOnce ==
  ASSUME NEW S, IsFiniteSet(S), NEW f, NEW g, Adds(f, S), Adds(g, S)
  PROVE  f = g
<1> DEFINE T == {s \in SUBSET S : f[s] # g[s]}
<1>1. CASE T # {}
  <2>1. PICK s \in T : \A r \in T : r \subseteq s => r = s
    <3>1. T \subseteq SUBSET S
      OBVIOUS
    <3> HIDE DEF T
    <3>2. QED
      BY <1>1, <3>1, Smallest
  <2>2. s # {}
    BY DEF Adds
  <2> DEFINE r == s \ {Some(s)}
  <2>3. r \in SUBSET S /\ r \subseteq s /\ r # s
    BY <2>2, SomeIsIn
  <2>4. f[r] = g[r]
    BY <2>1, <2>3
  <2>5. QED
    BY <2>2, <2>4 DEF Adds
<1>2. CASE T = {}
  BY <1>2 DEF Adds
<1>3. QED
  BY <1>1, <1>2

\* The sums of the subsets are sums.
LEMMA AddsLess ==
  ASSUME NEW S, NEW f, Adds(f, S), NEW R \in SUBSET S
  PROVE  Adds([s \in SUBSET R |-> f[s]], R)
<1> DEFINE g == [s \in SUBSET R |-> f[s]]
<1>1. ASSUME NEW s \in SUBSET R
      PROVE  g[s] = IF s = {} THEN 0 ELSE Some(s).amount + g[s \ {Some(s)}]
  <2>1. s \in SUBSET S /\ s \ {Some(s)} \in SUBSET R
    OBVIOUS
  <2>2. f[s] = IF s = {} THEN 0 ELSE Some(s).amount + f[s \ {Some(s)}]
    BY <2>1 DEF Adds
  <2>3. QED
    BY <2>1, <2>2
<1>2. g = [s \in SUBSET R |-> g[s]]
  OBVIOUS
<1> HIDE DEF g
<1>3. [s \in SUBSET R |-> g[s]] =
        [s \in SUBSET R |-> IF s = {} THEN 0 ELSE Some(s).amount + g[s \ {Some(s)}]]
  BY <1>1
<1>4. Adds(g, R)
  BY <1>2, <1>3 DEF Adds
<1>5. QED
  BY <1>4 DEF g

Adder(S) == CHOOSE f : Adds(f, S)

\* Every finite set has its sum: no smallest set has none.
LEMMA AdderExists ==
  ASSUME NEW S, IsFiniteSet(S)
  PROVE  Adds(Adder(S), S)
<1> DEFINE T == {R \in SUBSET S : ~Adds(Adder(R), R)}
<1> SUFFICES ASSUME S \in T PROVE FALSE
  OBVIOUS
<1>1. PICK R \in T : \A r \in T : r \subseteq R => r = R
  <2>1. T \subseteq SUBSET S /\ T # {}
    OBVIOUS
  <2> HIDE DEF T
  <2>2. QED
    BY <2>1, Smallest
<1> DEFINE f == [s \in SUBSET R |-> IF s = {} THEN 0
                   ELSE Some(s).amount + Adder(s \ {Some(s)})[s \ {Some(s)}]]
<1>2. ASSUME NEW Q \in SUBSET R, Q # R PROVE Adds(Adder(Q), Q)
  BY <1>1, <1>2
<1>3. ASSUME NEW Q \in SUBSET R, Q # R PROVE f[Q] = Adder(Q)[Q]
  <2> DEFINE P == Q \ {Some(Q)}
             g == [s \in SUBSET P |-> Adder(Q)[s]]
  <2>1. Adds(Adder(Q), Q)
    BY <1>2, <1>3
  <2>2. CASE Q = {}
    BY <2>1, <2>2 DEF Adds
  <2>3. CASE Q # {}
    <3>1. P \in SUBSET R /\ P \in SUBSET Q /\ P # R
      BY <1>3
    <3>2. Adds(Adder(P), P) /\ IsFiniteSet(P)
      BY <1>2, <3>1, FS_Subset
    <3>3. Adds(g, P)
      BY <2>1, <3>1, AddsLess
    <3>4. Adder(P) = g
      BY <3>2, <3>3, AddsOnce
    <3>5. Adder(P)[P] = Adder(Q)[P]
      BY <3>4
    <3>6. Adder(Q)[Q] = Some(Q).amount + Adder(Q)[P]
      BY <2>1, <2>3 DEF Adds
    <3>7. f[Q] = Some(Q).amount + Adder(P)[P]
      BY <2>3
    <3>8. QED
      BY <3>5, <3>6, <3>7
  <2>4. QED
    BY <2>2, <2>3
<1>4. ASSUME NEW s \in SUBSET R
      PROVE  f[s] = IF s = {} THEN 0 ELSE Some(s).amount + f[s \ {Some(s)}]
  <2>1. CASE s = {}
    BY <2>1
  <2>2. CASE s # {}
    <3>1. s \ {Some(s)} \in SUBSET R /\ s \ {Some(s)} # R
      BY <2>2, SomeIsIn
    <3>2. f[s \ {Some(s)}] = Adder(s \ {Some(s)})[s \ {Some(s)}]
      BY <1>3, <3>1
    <3>3. QED
      BY <2>2, <3>2
  <2>3. QED
    BY <2>1, <2>2
<1>5. f = [s \in SUBSET R |-> f[s]]
  OBVIOUS
<1> HIDE DEF f
<1>6. [s \in SUBSET R |-> f[s]] =
        [s \in SUBSET R |-> IF s = {} THEN 0 ELSE Some(s).amount + f[s \ {Some(s)}]]
  BY <1>4
<1>7. Adds(f, R)
  BY <1>5, <1>6 DEF Adds
<1>8. Adds(Adder(R), R)
  BY <1>7 DEF Adder
<1>9. QED
  BY <1>8

\* Any row may be taken first.
LEMMA AnyFirst ==
  ASSUME NEW S, Priced(S), NEW f, Adds(f, S), NEW R \in SUBSET S
  PROVE  f[R] \in Nat /\ \A y \in R : f[R] = y.amount + f[R \ {y}]
<1> DEFINE Ok(s) == f[s] \in Nat /\ \A y \in s : f[s] = y.amount + f[s \ {y}]
           T == {s \in SUBSET S : ~Ok(s)}
<1> SUFFICES ASSUME R \in T PROVE FALSE
  OBVIOUS
<1>1. PICK s \in T : \A r \in T : r \subseteq s => r = s
  <2>1. T \subseteq SUBSET S /\ T # {} /\ IsFiniteSet(S)
    BY DEF Priced
  <2> HIDE DEF T
  <2>2. QED
    BY <2>1, Smallest
<1>2. ASSUME NEW r \in SUBSET S, r \subseteq s, r # s PROVE Ok(r)
  BY <1>1, <1>2
<1>3. s # {} /\ ~Ok(s) /\ s \in SUBSET S
  <2>1. f[{}] = 0
    BY DEF Adds
  <2>2. Ok({})
    BY <2>1
  <2>3. ~Ok(s) /\ s \in SUBSET S
    OBVIOUS
  <2> HIDE DEF Ok
  <2>4. QED
    BY <2>2, <2>3
<1> DEFINE z == Some(s)
<1>4. z \in s /\ z.amount \in Nat
  BY <1>3, SomeIsIn DEF Priced
<1>5. f[s] = z.amount + f[s \ {z}]
  BY <1>3 DEF Adds
<1>6. f[s \ {z}] \in Nat /\ \A y \in s \ {z} : f[s \ {z}] = y.amount + f[(s \ {z}) \ {y}]
  BY <1>2, <1>3, <1>4
<1>7. f[s] \in Nat
  BY <1>4, <1>5, <1>6
<1> HIDE DEF z, T
<1>8. ASSUME NEW y \in s PROVE f[s] = y.amount + f[s \ {y}]
  <2>1. CASE y = z
    BY <1>5, <2>1
  <2>2. CASE y # z
    <3>1. s \ {y} \in SUBSET S /\ s \ {y} \subseteq s /\ s \ {y} # s /\ z \in s \ {y}
      BY <1>3, <1>4, <2>2
    <3>2. f[s \ {y}] = z.amount + f[(s \ {y}) \ {z}]
      BY <1>2, <3>1
    <3>3. (s \ {y}) \ {z} = (s \ {z}) \ {y}
      OBVIOUS
    <3>4. f[s \ {z}] = y.amount + f[(s \ {z}) \ {y}]
      BY <1>6, <2>2
    <3>5. y.amount \in Nat /\ f[(s \ {z}) \ {y}] \in Nat
      <4>1. (s \ {z}) \ {y} \in SUBSET S /\ (s \ {z}) \ {y} # s
        BY <1>3, <1>4
      <4>2. QED
        BY <1>2, <1>3, <4>1 DEF Priced
    <3> DEFINE v == f[(s \ {z}) \ {y}]
    <3>6. f[s \ {y}] = z.amount + v /\ f[s \ {z}] = y.amount + v /\ v \in Nat
      BY <3>2, <3>3, <3>4, <3>5
    <3> HIDE DEF v
    <3>7. QED
      BY <1>4, <1>5, <3>5, <3>6
  <2>3. QED
    BY <2>1, <2>2
<1>9. QED
  BY <1>3, <1>7, <1>8

\* What a row adds to a sum.
LEMMA SumAdds ==
  ASSUME NEW S, Priced(S), NEW x, x \notin S, x.amount \in Nat
  PROVE  /\ Priced(S \cup {x}) /\ Sum(S) \in Nat
         /\ Sum(S \cup {x}) = Sum(S) + x.amount
<1>1. PICK U : U = S \cup {x}
  OBVIOUS
<1>2. Priced(U) /\ IsFiniteSet(U) /\ IsFiniteSet(S) /\ U \ {x} = S
  BY <1>1, FS_AddElement DEF Priced
<1>3. PICK f : f = Adder(U)
  OBVIOUS
<1>4. Adds(f, U) /\ Adds(Adder(S), S) /\ S \in SUBSET U /\ U \in SUBSET U /\ x \in U
  BY <1>1, <1>2, <1>3, AdderExists
<1>5. Adds([s \in SUBSET S |-> f[s]], S)
  BY <1>4, AddsLess
<1>6. Adder(S) = [s \in SUBSET S |-> f[s]]
  BY <1>2, <1>4, <1>5, AddsOnce
<1>7. Sum(S) = f[S] /\ Sum(U) = f[U]
  BY <1>3, <1>6, SumIs DEF Adder
<1>8. f[U] = x.amount + f[U \ {x}]
  BY <1>2, <1>4, AnyFirst
<1>9. f[S] \in Nat
  BY <1>2, <1>4, AnyFirst
<1> HIDE DEF Sum
<1>10. Sum(U) = x.amount + Sum(S) /\ Sum(S) \in Nat
  BY <1>2, <1>7, <1>8, <1>9
<1>11. Sum(S \cup {x}) = x.amount + Sum(S)
  BY <1>1, <1>10
<1>12. QED
  BY <1>1, <1>2, <1>10, <1>11

\* The sum of nothing.
LEMMA SumNothing == Priced({}) /\ Sum({}) = 0
<1>1. IsFiniteSet({})
  BY FS_EmptySet
<1>2. Adds(Adder({}), {})
  BY <1>1, AdderExists
<1>3. Adder({})[{}] = 0
  BY <1>2 DEF Adds
<1>4. QED
  BY <1>1, <1>3, SumIs DEF Adder, Priced

\* A sum of amounts is an amount.
LEMMA SumIsNat == ASSUME NEW S, Priced(S) PROVE Sum(S) \in Nat
<1>1. Adds(Adder(S), S)
  BY AdderExists DEF Priced
<1>2. Adder(S)[S] \in Nat
  BY <1>1, AnyFirst
<1>3. QED
  BY <1>2, SumIs DEF Adder

-----------------------------------------------------------------------------
(* Payments, tickets and the ledger.                                       *)

Of(c, p) == {r \in c.refunds : r.payment = p}
Row(e) == [effect |-> effect_identity(e), payment |-> e.subject, amount |-> e.value]

\* A payment has given back what its refunds add up to, and says so.
PaymentFits(c, p) ==
  /\ Refunded(c, p) <= Captured[p]
  /\ c.payments[p] = IF Of(c, p) = {} THEN FixtureStatus[p]
                     ELSE IF Refunded(c, p) = Captured[p] THEN "refunded"
                     ELSE "partially_refunded"

\* A ticket shows an effect of the ledger, or the fixture.
TicketFits(c, t) ==
  IF \E e \in c.effects : e.tool = UPDATE_TICKET /\ e.subject = t
  THEN \E e \in c.effects :
         /\ e.tool = UPDATE_TICKET /\ e.subject = t
         /\ effect_identity(e) = c.tickets[t].last_effect /\ e.value = c.tickets[t].status
  ELSE c.tickets[t] = [status |-> Tickets[t], last_effect |-> NoEffect]

\* Refunds are the rows of the ledger's refund effects, and only of them.
Covers(c) ==
  /\ IsFiniteSet(c.refunds)
  /\ \A r \in c.refunds : \E e \in c.effects : e.tool = REFUND /\ r = Row(e)
  /\ \A e \in c.effects : e.tool = REFUND => e.subject \in DOMAIN Captured /\ Row(e) \in c.refunds
  /\ \A p \in DOMAIN Captured : PaymentFits(c, p)
  /\ \A t \in DOMAIN Tickets : TicketFits(c, t)

CInv == LInv /\ Covers(db) /\ \A s \in DOMAIN tx : Covers(tx[s])

\* What a payment has given back.
LEMMA RefundedIs ==
  ASSUME NEW c \in Company, IsFiniteSet(c.refunds), NEW p \in DOMAIN Captured
  PROVE  /\ Refunded(c, p) = FixtureRefunds[p] + Sum(Of(c, p))
         /\ Priced(Of(c, p)) /\ FixtureRefunds[p] \in Nat /\ Captured[p] \in Nat
         /\ FixtureRefunds[p] <= Captured[p]
<1>1. Refunded(c, p) = FixtureRefunds[p] + Sum(Of(c, p))
  BY DEF Refunded, Sum, Of
<1>2. Priced(Of(c, p))
  <2>1. Of(c, p) \in SUBSET c.refunds
    BY DEF Of
  <2>2. \A r \in c.refunds : r.amount \in Nat
    BY LedgerAssumption DEF LedgerAssumption, Company
  <2>3. QED
    BY <2>1, <2>2, FS_Subset DEF Priced
<1>3. FixtureRefunds[p] \in Nat /\ Captured[p] \in Nat /\ FixtureRefunds[p] <= Captured[p]
  BY LedgerAssumption DEF LedgerAssumption
<1>4. QED
  BY <1>1, <1>2, <1>3

\* A report changes no row.
LEMMA SameCovers ==
  ASSUME NEW c, NEW d, Covers(c), d.effects = c.effects, d.refunds = c.refunds,
         d.payments = c.payments, d.tickets = c.tickets
  PROVE  Covers(d)
<1>1. \A p : Of(d, p) = Of(c, p) /\ Refunded(d, p) = Refunded(c, p)
  BY DEF Of, Refunded
<1>2. \A p \in DOMAIN Captured : PaymentFits(d, p)
  BY <1>1 DEF Covers, PaymentFits
<1>3. \A t \in DOMAIN Tickets : TicketFits(d, t)
  BY DEF Covers, TicketFits
<1>4. QED
  BY <1>2, <1>3 DEF Covers

\* An answer that writes no row keeps the payments covered.
LEMMA AnswerCovers ==
  ASSUME NEW c \in Company, NEW q \in Requests, NEW outcome \in OUTCOMES, Covers(c)
  PROVE  Covers(Answered(c, q, outcome))
<1>1. PICK d : d = Answered(c, q, outcome)
  OBVIOUS
<1>2. /\ d \in Company /\ d.evidence = Append(c.evidence, [request |-> q, outcome |-> outcome])
      /\ d.effects = c.effects /\ d.refunds = c.refunds
      /\ d.payments = c.payments /\ d.tickets = c.tickets
  BY <1>1, AnsweredIsCompany
<1>3. QED
  BY <1>1, <1>2, SameCovers

\* A replayed request keeps the payments covered.
LEMMA ReplayCovers ==
  ASSUME NEW c \in Company, NEW q \in Requests, Covers(c)
  PROVE  Covers(Replay(c, q))
<1>1. (IF q \in Existing(c, q) THEN "already_applied" ELSE "idempotency_conflict") \in OUTCOMES
  BY DEF OUTCOMES
<1>2. QED
  BY <1>1, AnswerCovers DEF Replay

\* A refund that fits adds its amount to its payment and nothing to any other.
LEMMA NewRefundCovers ==
  ASSUME NEW c \in Company, NEW d \in Company, NEW q \in RefundRequests, Covers(c),
         Existing(c, q) = {}, q.subject \in DOMAIN Captured,
         Refunded(c, q.subject) + q.value <= Captured[q.subject],
         d.effects = c.effects \cup {q}, d.refunds = c.refunds \cup {Row(q)},
         d.tickets = c.tickets,
         d.payments[q.subject] =
           (IF Refunded(c, q.subject) + q.value = Captured[q.subject] THEN "refunded"
            ELSE "partially_refunded"),
         \A p \in DOMAIN Captured : p # q.subject => d.payments[p] = c.payments[p]
  PROVE  Covers(d)
<1>1. /\ q.tool = REFUND /\ q.value \in Nat /\ REFUND # UPDATE_TICKET
      /\ Row(q).payment = q.subject /\ Row(q).amount = q.value
      /\ Row(q).effect = effect_identity(q)
  BY LedgerAssumption DEF LedgerAssumption, RefundRequests, REFUND, UPDATE_TICKET, Row
<1>2. Row(q) \notin c.refunds
  <2>1. ASSUME Row(q) \in c.refunds PROVE FALSE
    <3>1. PICK e \in c.effects : Row(q) = Row(e)
      BY <2>1 DEF Covers
    <3>2. effect_identity(e) = effect_identity(q)
      BY <1>1, <3>1 DEF Row
    <3>3. QED
      BY <3>2 DEF Existing
  <2>2. QED
    BY <2>1
<1>3. IsFiniteSet(c.refunds) /\ IsFiniteSet(d.refunds)
  BY FS_AddElement DEF Covers
<1>4. \A r \in d.refunds : \E e \in d.effects : e.tool = REFUND /\ r = Row(e)
  BY <1>1 DEF Covers
<1>5. \A e \in d.effects : e.tool = REFUND => e.subject \in DOMAIN Captured /\ Row(e) \in d.refunds
  BY DEF Covers
<1>6. PaymentFits(d, q.subject)
  <2> DEFINE p == q.subject
  <2>1. Of(d, p) = Of(c, p) \cup {Row(q)} /\ Row(q) \notin Of(c, p)
    BY <1>1, <1>2 DEF Of
  <2>2. /\ Refunded(c, p) = FixtureRefunds[p] + Sum(Of(c, p)) /\ Priced(Of(c, p))
        /\ Refunded(d, p) = FixtureRefunds[p] + Sum(Of(d, p)) /\ FixtureRefunds[p] \in Nat
    BY <1>3, RefundedIs
  <2> HIDE DEF p
  <2>3. Sum(Of(c, p)) \in Nat /\ Sum(Of(c, p) \cup {Row(q)}) = Sum(Of(c, p)) + Row(q).amount
    BY <1>1, <2>1, <2>2, SumAdds
  <2>4. Refunded(d, p) = Refunded(c, p) + q.value
    BY <1>1, <2>1, <2>2, <2>3
  <2>5. Of(d, p) # {}
    BY <2>1
  <2>6. QED
    BY <2>4, <2>5 DEF PaymentFits, p
<1>7. ASSUME NEW p \in DOMAIN Captured, p # q.subject PROVE PaymentFits(d, p)
  <2>1. Of(d, p) = Of(c, p)
    BY <1>1, <1>7 DEF Of
  <2>2. Refunded(d, p) = Refunded(c, p)
    <3>1. Refunded(d, p) = FixtureRefunds[p] + Sum(Of(d, p))
      BY <1>3, RefundedIs
    <3>2. Refunded(c, p) = FixtureRefunds[p] + Sum(Of(c, p))
      BY <1>3, RefundedIs
    <3> HIDE DEF Sum
    <3>3. QED
      BY <2>1, <3>1, <3>2
  <2>3. PaymentFits(c, p) /\ d.payments[p] = c.payments[p]
    BY <1>7 DEF Covers
  <2>4. QED
    BY <2>1, <2>2, <2>3 DEF PaymentFits
<1>8. ASSUME NEW t \in DOMAIN Tickets PROVE TicketFits(d, t)
  <2>1. \A e : e.tool = UPDATE_TICKET => (e \in d.effects <=> e \in c.effects)
    BY <1>1
  <2>2. TicketFits(c, t)
    BY DEF Covers
  <2>3. QED
    BY <2>1, <2>2 DEF TicketFits
<1>9. QED
  BY <1>3, <1>4, <1>5, <1>6, <1>7, <1>8 DEF Covers

\* A refund that is applied fits into what its payment has left.
LEMMA RefundCovers ==
  ASSUME NEW c \in Company, NEW q \in RefundRequests, Covers(c)
  PROVE  Covers(apply_refund_effect(c, q))
<1>1. q \in Requests /\ q.value \in Amounts
  BY DEF RefundRequests, Requests
<1>2. CASE Existing(c, q) # {}
  <2>1. apply_refund_effect(c, q) = Replay(c, q)
    BY <1>2 DEF apply_refund_effect
  <2>2. QED
    BY <1>1, <2>1, ReplayCovers
<1>3. CASE Existing(c, q) = {} /\ q.subject \notin DOMAIN Captured
  <2>1. apply_refund_effect(c, q) = Answered(c, q, "entity_not_found")
    BY <1>3 DEF apply_refund_effect
  <2>2. QED
    BY <1>1, <2>1, AnswerCovers DEF OUTCOMES
<1>4. CASE Existing(c, q) = {} /\ q.subject \in DOMAIN Captured
  <2> DEFINE total_after == Refunded(c, q.subject) + q.value
             status == IF total_after = Captured[q.subject] THEN "refunded" ELSE "partially_refunded"
             d == [c EXCEPT !.effects = @ \cup {q}, !.refunds = @ \cup {Row(q)},
                            !.payments[q.subject] = status]
  <2>1. \/ apply_refund_effect(c, q) = Answered(c, q, "business_rule_violation")
        \/ /\ ~(total_after > Captured[q.subject])
           /\ apply_refund_effect(c, q) = Answered(d, q, "newly_applied")
    BY <1>4 DEF apply_refund_effect, Row
  <2>2. CASE apply_refund_effect(c, q) = Answered(c, q, "business_rule_violation")
    BY <1>1, <2>2, AnswerCovers DEF OUTCOMES
  <2>3. CASE /\ ~(total_after > Captured[q.subject])
             /\ apply_refund_effect(c, q) = Answered(d, q, "newly_applied")
    <3>1. total_after <= Captured[q.subject]
      <4>1. /\ Refunded(c, q.subject) = FixtureRefunds[q.subject] + Sum(Of(c, q.subject))
            /\ FixtureRefunds[q.subject] \in Nat /\ Captured[q.subject] \in Nat
            /\ Priced(Of(c, q.subject))
        BY <1>4, RefundedIs DEF Covers
      <4>2. Sum(Of(c, q.subject)) \in Nat
        BY <4>1, SumIsNat
      <4>3. q.value \in Nat
        BY <1>1, LedgerAssumption DEF LedgerAssumption
      <4>4. QED
        BY <2>3, <4>1, <4>2, <4>3
    <3>2. status \in PAYMENT_STATUSES
      BY DEF PAYMENT_STATUSES
    <3>3. Row(q) \in [effect : EffectIds, payment : DOMAIN Captured, amount : Amounts]
      BY <1>1, <1>4, Requested DEF Row
    <3> HIDE DEF total_after, status
    <3>4. /\ d \in Company /\ d.evidence = c.evidence /\ d.effects = c.effects \cup {q}
          /\ d.refunds = c.refunds \cup {Row(q)} /\ d.tickets = c.tickets
          /\ d.payments[q.subject] = status
          /\ \A p \in DOMAIN Captured : p # q.subject => d.payments[p] = c.payments[p]
      BY <1>1, <1>4, <3>2, <3>3 DEF Company
    <3> HIDE DEF d
    <3>5. Covers(d)
      BY <1>4, <3>1, <3>4, NewRefundCovers DEF total_after, status
    <3>6. QED
      BY <1>1, <2>3, <3>4, <3>5, AnswerCovers DEF OUTCOMES
  <2>4. QED
    BY <2>1, <2>2, <2>3
<1>5. QED
  BY <1>2, <1>3, <1>4

\* A ticket shows the last update.
LEMMA TicketCovers ==
  ASSUME NEW c \in Company, NEW q \in TicketRequests, Covers(c)
  PROVE  Covers(apply_support_ticket_effect(c, q))
<1>1. q \in Requests /\ q.value \in TicketStatuses /\ q.tool = UPDATE_TICKET /\ UPDATE_TICKET # REFUND
  BY DEF TicketRequests, Requests, UPDATE_TICKET, REFUND
<1>2. CASE Existing(c, q) # {}
  <2>1. apply_support_ticket_effect(c, q) = Replay(c, q)
    BY <1>2 DEF apply_support_ticket_effect
  <2>2. QED
    BY <1>1, <2>1, ReplayCovers
<1>3. CASE Existing(c, q) = {} /\ q.subject \notin DOMAIN Tickets
  <2>1. apply_support_ticket_effect(c, q) = Answered(c, q, "entity_not_found")
    BY <1>3 DEF apply_support_ticket_effect
  <2>2. QED
    BY <1>1, <2>1, AnswerCovers DEF OUTCOMES
<1>4. CASE Existing(c, q) = {} /\ q.subject \in DOMAIN Tickets
  <2> DEFINE row == [status |-> q.value, last_effect |-> effect_identity(q)]
             d == [c EXCEPT !.effects = @ \cup {q}, !.tickets[q.subject] = row]
  <2>1. apply_support_ticket_effect(c, q) = Answered(d, q, "newly_applied")
    BY <1>4 DEF apply_support_ticket_effect
  <2>2. row \in [status : TicketStatuses, last_effect : EffectIds \cup {NoEffect}]
    BY <1>1, Requested
  <2>3. row.status = q.value /\ row.last_effect = effect_identity(q)
    OBVIOUS
  <2> HIDE DEF row
  <2>4. /\ d \in Company /\ d.evidence = c.evidence /\ d.effects = c.effects \cup {q}
        /\ d.refunds = c.refunds /\ d.payments = c.payments /\ d.tickets[q.subject] = row
        /\ \A t \in DOMAIN Tickets : t # q.subject => d.tickets[t] = c.tickets[t]
    BY <1>1, <1>4, <2>2 DEF Company
  <2> HIDE DEF d
  <2>5. Covers(d)
    <3>1. /\ IsFiniteSet(d.refunds)
          /\ \A r \in d.refunds : \E e \in d.effects : e.tool = REFUND /\ r = Row(e)
          /\ \A e \in d.effects : e.tool = REFUND =>
               e.subject \in DOMAIN Captured /\ Row(e) \in d.refunds
      BY <1>1, <2>4 DEF Covers
    <3>2. ASSUME NEW p \in DOMAIN Captured PROVE PaymentFits(d, p)
      <4>1. Of(d, p) = Of(c, p) /\ Refunded(d, p) = Refunded(c, p) /\ PaymentFits(c, p)
        BY <2>4 DEF Of, Refunded, Covers
      <4>2. QED
        BY <2>4, <4>1 DEF PaymentFits
    <3>3. ASSUME NEW t \in DOMAIN Tickets PROVE TicketFits(d, t)
      <4>1. CASE t = q.subject
        BY <1>1, <2>3, <2>4, <4>1 DEF TicketFits
      <4>2. CASE t # q.subject
        <5>1. TicketFits(c, t) /\ d.tickets[t] = c.tickets[t]
          BY <2>4, <4>2 DEF Covers
        <5>2. \A e : e.subject = t => (e \in d.effects <=> e \in c.effects)
          BY <2>4, <4>2
        <5>3. QED
          BY <5>1, <5>2 DEF TicketFits
      <4>3. QED
        BY <4>1, <4>2
    <3>4. QED
      BY <3>1, <3>2, <3>3 DEF Covers
  <2>6. QED
    BY <1>1, <2>1, <2>4, <2>5, AnswerCovers DEF OUTCOMES
<1>5. QED
  BY <1>2, <1>3, <1>4

\* What is rolled back covers as before, what is kept covers.
LEMMA VerifiedCovers ==
  ASSUME NEW c \in Company, NEW q \in Requests, NEW d, Covers(c), Covers(d)
  PROVE  Covers(Verified(d, c, q))
<1>1. Covers(Answered(c, q, "infrastructure_error"))
  BY AnswerCovers DEF OUTCOMES
<1>2. QED
  BY <1>1 DEF Verified

\* Nothing was refunded and no ticket touched in the fixture.
LEMMA InitCovers == Init => CInv
<1> SUFFICES ASSUME Init PROVE CInv
  OBVIOUS
<1>1. LInv /\ DOMAIN tx = {}
  BY InitTells DEF Init
<1>2. /\ db \in Company /\ db.effects = {} /\ db.refunds = {} /\ db.payments = FixtureStatus
      /\ db.tickets = [t \in DOMAIN Tickets |-> [status |-> Tickets[t], last_effect |-> NoEffect]]
  BY <1>1 DEF Init, insert_company_entities, LInv, TypeOK
<1>3. ASSUME NEW p \in DOMAIN Captured PROVE PaymentFits(db, p)
  <2>1. Of(db, p) = {} /\ IsFiniteSet(db.refunds)
    BY <1>2, FS_EmptySet DEF Of
  <2>2. /\ Refunded(db, p) = FixtureRefunds[p] + Sum({}) /\ FixtureRefunds[p] \in Nat
        /\ FixtureRefunds[p] <= Captured[p]
    BY <1>2, <2>1, RefundedIs
  <2>3. Refunded(db, p) <= Captured[p]
    BY <2>2, SumNothing
  <2>4. QED
    BY <1>2, <2>1, <2>3 DEF PaymentFits
<1>4. Covers(db)
  BY <1>2, <1>3, FS_EmptySet DEF Covers, TicketFits
<1>5. QED
  BY <1>1, <1>4 DEF CInv

\* CInv is inductive.
LEMMA NextCovers == CInv /\ [Next]_vars => CInv'
<1> SUFFICES ASSUME CInv, [Next]_vars PROVE CInv'
  OBVIOUS
<1>1. LInv' /\ LInv /\ Covers(db) /\ \A s \in DOMAIN tx : tx[s] \in Company /\ Covers(tx[s])
  BY NextTells DEF CInv, LInv, TypeOK
<1>2. ASSUME NEW s \in Sessions, lock_company_mutation_run(s) PROVE CInv'
  <2>1. DOMAIN tx' = {s} /\ tx'[s] = db /\ db' = db
    BY <1>2 DEF lock_company_mutation_run
  <2>2. QED
    BY <1>1, <2>1 DEF CInv
<1>3. ASSUME NEW s \in DOMAIN tx, NEW d, Call(s, d), Covers(d) PROVE CInv'
  <2>1. DOMAIN tx' = DOMAIN tx /\ tx'[s] = d /\ db' = db /\ \A o \in DOMAIN tx : o = s
    BY <1>1, <1>3 DEF Call, LInv, Alone
  <2>2. QED
    BY <1>1, <1>3, <2>1 DEF CInv
<1>4. ASSUME NEW s \in DOMAIN tx, refund(s) \/ update_ticket(s) \/ infrastructure_error(s)
      PROVE  CInv'
  <2>1. RefundRequests \subseteq Requests /\ TicketRequests \subseteq Requests
    BY DEF Requests
  <2>2. CASE refund(s)
    <3>1. PICK q \in RefundRequests : Call(s, Verified(apply_refund_effect(tx[s], q), tx[s], q))
      BY <2>2 DEF refund
    <3>2. QED
      BY <1>1, <1>3, <2>1, <3>1, RefundCovers, VerifiedCovers
  <2>3. CASE update_ticket(s)
    <3>1. PICK q \in TicketRequests :
            Call(s, Verified(apply_support_ticket_effect(tx[s], q), tx[s], q))
      BY <2>3 DEF update_ticket
    <3>2. QED
      BY <1>1, <1>3, <2>1, <3>1, TicketCovers, VerifiedCovers
  <2>4. CASE infrastructure_error(s)
    <3>1. PICK q \in Requests : Call(s, Answered(tx[s], q, "infrastructure_error"))
      BY <2>4 DEF infrastructure_error
    <3>2. QED
      BY <1>1, <1>3, <3>1, AnswerCovers DEF OUTCOMES
  <2>5. QED
    BY <1>4, <2>2, <2>3, <2>4
<1>5. ASSUME NEW s \in DOMAIN tx, Commit(s) \/ Rollback(s) PROVE CInv'
  <2>1. DOMAIN tx' = {} /\ (db' = db \/ db' = tx[s])
    BY <1>1, <1>5 DEF LInv, Alone, Commit, Rollback, Close
  <2>2. QED
    BY <1>1, <2>1 DEF CInv
<1>6. CASE UNCHANGED vars
  BY <1>1, <1>6 DEF vars, CInv
<1>7. QED
  BY <1>2, <1>4, <1>5, <1>6 DEF Next

\* The payments are covered after every request.
LEMMA AlwaysCovers == Spec => []CInv
BY InitCovers, NextCovers, PTL DEF Spec

\* No payment ever gives back more than it captured, and its status says how much it
\* gave back: for any number of payments, refunds, keys, sessions and amounts.
THEOREM NothingOverRefunded == Spec => []PaymentsCovered
<1>1. CInv => PaymentsCovered
  <2> SUFFICES ASSUME CInv, NEW p \in DOMAIN Captured
      PROVE  LET refunds == {r \in db.refunds : r.payment = p}
                 total == FixtureRefunds[p] + MapThenSumSet(LAMBDA r : r.amount, refunds)
             IN /\ total <= Captured[p]
                /\ db.payments[p] = IF refunds = {} THEN FixtureStatus[p]
                                    ELSE IF total = Captured[p] THEN "refunded"
                                    ELSE "partially_refunded"
    BY DEF PaymentsCovered
  <2>1. PaymentFits(db, p)
    BY DEF CInv, Covers
  <2>2. QED
    BY <2>1 DEF PaymentFits, Refunded, Of
<1>2. QED
  BY <1>1, AlwaysCovers, PTL

\* An effect of a payment that fits verifies.
LEMMA EffectVerifies ==
  ASSUME NEW c \in Company, Covers(c), NEW e \in c.effects
  PROVE  verify_company_effect(c, e, FALSE)
<1>1. ASSUME e.tool = REFUND
      PROVE  LET total == Refunded(c, e.subject)
             IN /\ Row(e) \in c.refunds /\ total \in 1 .. Captured[e.subject]
                /\ c.payments[e.subject] = IF total = Captured[e.subject] THEN "refunded"
                                           ELSE "partially_refunded"
  <2>1. e.subject \in DOMAIN Captured /\ Row(e) \in Of(c, e.subject) /\ Row(e) \in c.refunds
    BY <1>1 DEF Covers, Of, Row
  <2>2. PICK S : S = Of(c, e.subject) \ {Row(e)}
    OBVIOUS
  <2>3. /\ Refunded(c, e.subject) = FixtureRefunds[e.subject] + Sum(Of(c, e.subject))
        /\ Priced(Of(c, e.subject)) /\ FixtureRefunds[e.subject] \in Nat
        /\ Captured[e.subject] \in Nat
    BY <2>1, RefundedIs DEF Covers
  <2>4. Row(e).amount \in Nat \ {0}
    BY <2>1, LedgerAssumption DEF LedgerAssumption, Company
  <2>5. Priced(S) /\ Row(e) \notin S /\ S \cup {Row(e)} = Of(c, e.subject)
    BY <2>1, <2>2, <2>3, FS_Subset DEF Priced
  <2>6. Sum(S) \in Nat /\ Sum(S \cup {Row(e)}) = Sum(S) + Row(e).amount
    BY <2>4, <2>5, SumAdds
  <2>7. PaymentFits(c, e.subject) /\ Of(c, e.subject) # {}
    BY <2>1 DEF Covers
  <2>8. Refunded(c, e.subject) \in 1 .. Captured[e.subject]
    <3>1. Refunded(c, e.subject) = FixtureRefunds[e.subject] + (Sum(S) + Row(e).amount)
      BY <2>3, <2>5, <2>6
    <3>2. Refunded(c, e.subject) \in Nat /\ Refunded(c, e.subject) >= 1
      BY <2>3, <2>4, <2>6, <3>1
    <3>3. QED
      BY <2>3, <2>7, <3>2 DEF PaymentFits
  <2>9. QED
    BY <2>1, <2>7, <2>8 DEF PaymentFits
<1>2. QED
  BY <1>1 DEF verify_company_effect, Row

\* Every effect of the ledger verifies at any later time, so that it can be replayed
\* forever, and no row claims an effect that is not in the ledger.
THEOREM LedgerAlwaysVerifies == Spec => []LedgerVerifies
<1>1. CInv => LedgerVerifies
  <2> SUFFICES ASSUME CInv PROVE LedgerVerifies
    OBVIOUS
  <2>1. db \in Company /\ Tells(db) /\ Covers(db)
    BY DEF CInv, LInv, TypeOK
  <2>2. \A e \in db.effects : verify_company_effect(db, e, FALSE)
    BY <2>1, EffectVerifies
  <2>3. \A r \in db.refunds : \E e \in db.effects : effect_identity(e) = r.effect
    BY <2>1 DEF Covers, Row
  <2>4. QED
    BY <2>1, <2>2, <2>3 DEF LedgerVerifies, Tells, Covers, TicketFits
<1>2. QED
  BY <1>1, AlwaysCovers, PTL
=============================================================================
