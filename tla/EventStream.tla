---------------------------- MODULE EventStream ----------------------------
(***************************************************************************)
(* How one client follows the evidence of one Run: the control plane's     *)
(* event pages and its replay-safe SSE stream (service.py, sse.py), and    *)
(* the dashboard that hydrates from the first, follows the second and      *)
(* reconciles once the Run has ended (api.ts, sse.ts, app.tsx).            *)
(*                                                                         *)
(* Writers append events under the Run row lock and commit or roll back;   *)
(* the stream reads the Run and then the events, in two READ COMMITTED     *)
(* statements, and closes by itself when the Run it read has ended.        *)
(* Connections break with frames under way, requests fail, and every       *)
(* answer reaches the dashboard whenever it pleases.                       *)
(***************************************************************************)
EXTENDS Naturals, Sequences, FiniteSetsExt, SequencesExt

CONSTANTS
  Writers,    \* sessions that append evidence
  PageSize,   \* page_size of the stream and limit of an event page
  MaxRows,    \* bound: events of the Run
  MaxLosses   \* bound: broken connections and failed requests

ASSUME StreamAssumption ==
  /\ PageSize \in Nat \ {0} /\ MaxRows \in Nat /\ MaxLosses \in Nat

VARIABLES
  db,      \* committed status and rows of the Run
  tx,      \* the same as the session that holds the row lock sees it, if any
  stream,  \* the server side of the SSE connection, and its frames under way
  page,    \* the dashboard's page for the Run
  calls,   \* its requests that are not answered yet
  losses   \* how often something failed

vars == <<db, tx, stream, page, calls, losses>>

-----------------------------------------------------------------------------
(* Evidence.                                                               *)

\* Statuses that matter here, and the lifecycle events between them.
STATUSES == {"queued", "running", "completed"}
Terminal(status) == status = "completed"

moves(status) ==
  CASE status = "queued"  -> {"running"}
    [] status = "running" -> {"completed"}
    [] OTHER              -> {}

\* "state" is "none" for what is not lifecycle evidence.
Rows == [sequence : 1 .. MaxRows, state : STATUSES \cup {"none"}]

max_sequence(rows) == Max({0} \cup {row.sequence : row \in rows})

\* Mutant: numbers are drawn without waiting for the session that drew the last one.
append_event_allocated_Unlocked(w) ==
  LET seen == (UNION {tx[o].rows : o \in DOMAIN tx}) \cup db.rows
      mine == IF w \in DOMAIN tx THEN tx[w] ELSE db
  IN /\ max_sequence(seen) < MaxRows
     /\ \E state \in {"none"} \cup moves(mine.status) :
          tx' = [o \in DOMAIN tx \cup {w} |->
                   IF o # w THEN tx[o]
                   ELSE [status |-> IF state = "none" THEN mine.status ELSE state,
                         rows |-> mine.rows \cup
                           {[sequence |-> max_sequence(seen) + 1, state |-> state]}]]
     /\ UNCHANGED <<db, stream, page, calls, losses>>

\* The Run row lock is taken, or was by an earlier append, and the next number drawn.
append_event_allocated(w) ==
  LET mine == IF w \in DOMAIN tx THEN tx[w] ELSE db
  IN /\ DOMAIN tx \subseteq {w}
     /\ max_sequence(mine.rows) < MaxRows
     /\ \E state \in {"none"} \cup moves(mine.status) :
          tx' = [o \in {w} |->
                   [status |-> IF state = "none" THEN mine.status ELSE state,
                    rows |-> mine.rows \cup
                      {[sequence |-> max_sequence(mine.rows) + 1, state |-> state]}]]
     /\ UNCHANGED <<db, stream, page, calls, losses>>

Close(w) == [o \in DOMAIN tx \ {w} |-> tx[o]]

Commit(w) ==
  /\ w \in DOMAIN tx
  /\ db' = [status |-> tx[w].status, rows |-> db.rows \cup tx[w].rows]
  /\ tx' = Close(w)
  /\ UNCHANGED <<stream, page, calls, losses>>

Rollback(w) ==
  /\ w \in DOMAIN tx
  /\ tx' = Close(w)
  /\ UNCHANGED <<db, stream, page, calls, losses>>

\* At most "limit" rows after a cursor, in sequence order.
fetch_event_page(cursor, limit) ==
  LET later == {row \in db.rows : row.sequence > cursor}
      before(row) == {o \in later : o.sequence < row.sequence}
  IN [i \in 1 .. Min({limit, Cardinality(later)}) |->
        CHOOSE row \in later : Cardinality(before(row)) = i - 1]

\* Mutant: the cursor names the next row instead of the last one read.
event_page_Inclusive(cursor) ==
  LET records == fetch_event_page(cursor, PageSize + 1)
      rows == SubSeq(records, 1, Min({PageSize, Len(records)}))
  IN [rows |-> ToSet(rows),
      next_cursor |-> IF rows = <<>> THEN cursor ELSE Last(rows).sequence + 1,
      has_more |-> Len(records) > PageSize]

\* The REST page: one row more than asked for tells whether there are more.
event_page(cursor) ==
  LET records == fetch_event_page(cursor, PageSize + 1)
      rows == SubSeq(records, 1, Min({PageSize, Len(records)}))
  IN [rows |-> ToSet(rows),
      next_cursor |-> IF rows = <<>> THEN cursor ELSE Last(rows).sequence,
      has_more |-> Len(records) > PageSize]

-----------------------------------------------------------------------------
(* The control plane's stream.                                             *)

\* "closed" by the server, "lost" by the network; either ends in onerror.
NoStream == [pc |-> "none", after |-> 0, status |-> "queued", records |-> <<>>, full |-> FALSE,
             wire |-> <<>>]

\* A new connection, resumed strictly after the cursor.
Opened(cursor) == [NoStream EXCEPT !.pc = "poll", !.after = cursor]

\* A cursor is accepted when its row is there.
validate_cursor(cursor) == cursor = 0 \/ \E row \in db.rows : row.sequence = cursor

\* Mutant: the events are read before the Run.
poll_events_EventsFirst ==
  /\ \/ /\ stream.pc = "poll"
        /\ LET records == fetch_event_page(stream.after, PageSize)
           IN stream' = [stream EXCEPT !.pc = "read", !.records = records,
                                       !.full = Len(records) = PageSize]
     \/ /\ stream.pc = "read"
        /\ stream' = [stream EXCEPT !.pc = "send", !.status = db.status]
  /\ UNCHANGED <<db, tx, page, calls, losses>>

\* The Run, and then its next events.
poll_events ==
  /\ \/ /\ stream.pc = "poll"
        /\ stream' = [stream EXCEPT !.pc = "read", !.status = db.status]
     \/ /\ stream.pc = "read"
        /\ LET records == fetch_event_page(stream.after, PageSize)
           IN stream' = [stream EXCEPT !.pc = "send", !.records = records,
                                       !.full = Len(records) = PageSize]
  /\ UNCHANGED <<db, tx, page, calls, losses>>

\* One frame; or the page is sent, and a full one is always followed by another poll.
frames ==
  /\ stream.pc = "send"
  /\ stream' =
       IF stream.records # <<>>
       THEN [stream EXCEPT !.wire = Append(@, Head(stream.records)),
                           !.after = Head(stream.records).sequence,
                           !.records = Tail(@)]
       ELSE [stream EXCEPT !.pc = IF ~stream.full /\ Terminal(stream.status) THEN "closed"
                                  ELSE "poll"]
  /\ UNCHANGED <<db, tx, page, calls, losses>>

-----------------------------------------------------------------------------
(* The dashboard: hydration.                                               *)

\* Requests of the page: what they asked for and what the server answered.
Pending == "pending"
NoFinal == [reply |-> "none", cursor |-> 0, rows |-> {}, more |-> FALSE]

\* The Run and its events are collected first and shown when all of it is there.
load ==
  /\ page.phase = "opening"
  /\ page' = [page EXCEPT !.phase = "hydrating", !.status = db.status]
  /\ UNCHANGED <<db, tx, stream, calls, losses>>

getAllEvents ==
  LET answer == event_page(page.cursor)
  IN /\ page.phase = "hydrating"
     /\ page' = [page EXCEPT !.phase = IF answer.has_more THEN @ ELSE "hydrated",
                             !.cursor = answer.next_cursor, !.handoff = answer.next_cursor,
                             !.seen = @ \cup answer.rows]
     /\ UNCHANGED <<db, tx, stream, calls, losses>>

\* The Run, a page of its events, its report or its approvals cannot be read: the
\* page says so for good.  There is no stream and no retry.
load_fails ==
  /\ page.phase \in {"opening", "hydrating", "hydrated"} /\ losses < MaxLosses
  /\ page' = [page EXCEPT !.phase = "failed"]
  /\ losses' = losses + 1
  /\ UNCHANGED <<db, tx, stream, calls>>

\* Report and approvals are there, too.  The stream starts at the cursor of the
\* last page; the Run is read once more.
start ==
  /\ page.phase = "hydrated"
  /\ page' = [page EXCEPT !.phase = "following", !.shown = page.seen]
  /\ stream' = Opened(page.cursor)
  /\ calls' = [calls EXCEPT !.runs = @ \cup {[of |-> 0, reply |-> Pending]}]
  /\ UNCHANGED <<db, tx, losses>>

-----------------------------------------------------------------------------
(* The dashboard: following.                                               *)

\* reconcileTerminal: the Run and everything since the handoff are asked for.
\* Nothing if that is being done.
Reconciling(p) == [p EXCEPT !.finalizing = TRUE]
Asked(p, c) ==
  IF p.finalizing THEN c
  ELSE [c EXCEPT !.final = [reply |-> Pending, cursor |-> p.handoff, rows |-> {}, more |-> TRUE]]

\* A frame arrives.  Known rows only move the cursor, contradicting ones stop the page.
receive ==
  /\ page.phase = "following" /\ stream.wire # <<>>
  /\ LET row == Head(stream.wire)
         known == {o \in page.seen : o.sequence = row.sequence}
         taken == [page EXCEPT !.cursor = row.sequence, !.seen = @ \cup {row},
                               !.shown = IF \E o \in @ : o.sequence = row.sequence THEN @
                                         ELSE @ \cup {row}]
     IN /\ CASE known = {row} -> page' = [page EXCEPT !.cursor = row.sequence] /\ UNCHANGED calls
             [] known \notin {{}, {row}} -> page' = [page EXCEPT !.phase = "stopped"] /\ UNCHANGED calls
             [] known = {} /\ row.state = "none" -> page' = taken /\ UNCHANGED calls
             [] known = {} /\ Terminal(row.state) ->
                  /\ page' = Reconciling(taken)
                  /\ calls' = Asked(page, calls)
             [] OTHER ->
                  /\ page' = taken
                  /\ calls' = [calls EXCEPT !.runs = @ \cup {[of |-> row.sequence, reply |-> Pending]}]
        /\ stream' = IF page'.phase = "stopped" THEN NoStream ELSE [stream EXCEPT !.wire = Tail(@)]
     /\ UNCHANGED <<db, tx, losses>>

\* The server answers a getRun.
serve ==
  \E call \in calls.runs :
    /\ call.reply = Pending
    /\ calls' = [calls EXCEPT !.runs = (@ \ {call}) \cup {[call EXCEPT !.reply = db.status]}]
    /\ UNCHANGED <<db, tx, stream, page, losses>>

\* The answer arrives; that of the handoff may find that the Run has ended.
answered ==
  \E call \in calls.runs :
    LET rest == [calls EXCEPT !.runs = @ \ {call}]
        updated == [page EXCEPT !.status = call.reply]
    IN /\ call.reply # Pending
       /\ IF call.of = 0 /\ Terminal(call.reply)
          THEN page' = Reconciling(updated) /\ calls' = Asked(page, rest)
          ELSE page' = updated /\ calls' = rest
       /\ UNCHANGED <<db, tx, stream, losses>>

\* A getRun fails: the page shows a notice and goes on.  Where the handoff's fails,
\* nobody asks whether the Run had ended.
getRun_fails ==
  /\ losses < MaxLosses
  /\ \E call \in calls.runs : calls' = [calls EXCEPT !.runs = @ \ {call}]
  /\ losses' = losses + 1
  /\ UNCHANGED <<db, tx, stream, page>>

\* The server answers a part of the reconciliation: the Run, or one more page.
serve_final ==
  /\ \/ /\ calls.final.reply = Pending
        /\ calls' = [calls EXCEPT !.final.reply = db.status]
     \/ /\ calls.final.more
        /\ LET answer == event_page(calls.final.cursor)
           IN calls' = [calls EXCEPT !.final.cursor = answer.next_cursor,
                                     !.final.rows = @ \cup answer.rows,
                                     !.final.more = answer.has_more]
  /\ UNCHANGED <<db, tx, stream, page, losses>>

\* Both answers are in.
reconcileTerminal ==
  /\ calls.final.reply \in STATUSES /\ ~calls.final.more
  /\ page' = [page EXCEPT !.status = calls.final.reply, !.shown = @ \cup calls.final.rows,
                          !.finalizing = Terminal(calls.final.reply),
                          !.phase = IF Terminal(calls.final.reply) THEN "stopped" ELSE @]
  /\ calls' = [calls EXCEPT !.final = NoFinal]
  /\ stream' = IF page'.phase = "stopped" THEN NoStream ELSE stream
  /\ UNCHANGED <<db, tx, losses>>

\* One of its requests failed.
reconcile_fails ==
  /\ calls.final # NoFinal /\ losses < MaxLosses
  /\ page' = [page EXCEPT !.finalizing = FALSE]
  /\ calls' = [calls EXCEPT !.final = NoFinal]
  /\ losses' = losses + 1
  /\ UNCHANGED <<db, tx, stream>>

\* The connection breaks, with all that was under way.
lose ==
  /\ stream.pc \notin {"none", "lost"} /\ losses < MaxLosses
  /\ stream' = [NoStream EXCEPT !.pc = "lost"]
  /\ losses' = losses + 1
  /\ UNCHANGED <<db, tx, page, calls>>

\* Mutant: a stream the server closed is taken for the end.
onerror_Closed ==
  /\ page.phase = "following" /\ stream.pc = "lost"
  /\ page' = [page EXCEPT !.phase = "reconnecting"]
  /\ stream' = NoStream
  /\ UNCHANGED <<db, tx, calls, losses>>

\* The end of the connection, whatever ended it, schedules another one.
onerror ==
  /\ page.phase = "following" /\ stream.pc \in {"closed", "lost"} /\ stream.wire = <<>>
  /\ page' = [page EXCEPT !.phase = "reconnecting"]
  /\ stream' = NoStream
  /\ UNCHANGED <<db, tx, calls, losses>>

connect ==
  /\ page.phase = "reconnecting" /\ validate_cursor(page.cursor)
  /\ page' = [page EXCEPT !.phase = "following"]
  /\ stream' = Opened(page.cursor)
  /\ UNCHANGED <<db, tx, calls, losses>>

Server == poll_events \/ frames \/ serve \/ serve_final
Dashboard ==
  load \/ getAllEvents \/ start \/ receive \/ answered \/ reconcileTerminal \/ onerror \/ connect

Init ==
  /\ db = [status |-> "queued", rows |-> {}]
  /\ tx = <<>>
  /\ stream = NoStream
  /\ page = [phase |-> "opening", status |-> "queued", cursor |-> 0, handoff |-> 0,
             seen |-> {}, shown |-> {}, finalizing |-> FALSE]
  /\ calls = [runs |-> {}, final |-> NoFinal]
  /\ losses = 0

Next ==
  \/ \E w \in Writers : append_event_allocated(w) \/ Commit(w) \/ Rollback(w)
  \/ Server
  \/ Dashboard
  \/ load_fails
  \/ getRun_fails
  \/ reconcile_fails
  \/ lose

Spec == Init /\ [][Next]_vars

\* Server and browser go on; requests are answered, timers expire.
FairSpec ==
  /\ Spec
  /\ WF_vars(poll_events) /\ WF_vars(frames) /\ WF_vars(serve) /\ WF_vars(serve_final)
  /\ WF_vars(load \/ getAllEvents \/ start) /\ WF_vars(receive) /\ WF_vars(answered)
  /\ WF_vars(reconcileTerminal) /\ WF_vars(onerror) /\ WF_vars(connect)

-----------------------------------------------------------------------------
(* Properties.                                                             *)

TypeOK ==
  /\ db.status \in STATUSES /\ db.rows \subseteq Rows
  /\ DOMAIN tx \subseteq Writers
  /\ \A w \in DOMAIN tx : tx[w].status \in STATUSES /\ tx[w].rows \subseteq Rows
  /\ stream.pc \in {"none", "poll", "read", "send", "closed", "lost"}
  /\ stream.after \in 0 .. MaxRows
  /\ ToSet(stream.wire) \cup ToSet(stream.records) \subseteq Rows
  /\ page.phase \in {"opening", "hydrating", "hydrated", "following", "reconnecting", "stopped",
                     "failed"}
  /\ page.status \in STATUSES /\ page.cursor \in 0 .. MaxRows
  /\ page.seen \subseteq Rows /\ page.shown \subseteq Rows
  /\ calls.runs \subseteq [of : 0 .. MaxRows, reply : STATUSES \cup {Pending}]
  /\ calls.final.reply \in STATUSES \cup {Pending, "none"}

UpTo(sequence) == {row \in db.rows : row.sequence <= sequence}

\* What the page shows is always the beginning of the committed evidence:
\* nothing rolled back, no hole that a later commit fills, whatever mixture of
\* pages, frames, reconnections and reconciliation it came from.
ShownIsPrefix == page.shown = UpTo(max_sequence(page.shown))

\* Whoever stops has the end: a stream that closed by itself left out nothing up
\* to the event that ended the Run, although it read the Run and the events in
\* two statements; a page that stopped following shows that event, although its
\* stream was cut off at any frame (reconcileTerminal drains before it stops).
EndsComplete ==
  /\ stream.pc = "closed" =>
       /\ Terminal(db.status)
       /\ \E row \in UpTo(stream.after) : Terminal(row.state)
  /\ page.phase = "stopped" => \E row \in page.shown : Terminal(row.state)

\* A page that stopped following says that the Run has ended.
FinalStatusShown == page.phase = "stopped" => Terminal(page.status)

\* Whatever was committed is shown in the end, unless the page has reconciled and
\* stopped or could not be loaded at all: again and again a page that was loaded
\* has caught up with evidence that has an end, and no cursor, closed stream, lost
\* frame, failed getRun or failed reconciliation strands it.  (A failed request of
\* the hydration does: the page shows its error and never follows.)
Follows == []<>(page.phase \in {"stopped", "failed"} \/ db.rows \subseteq page.shown)
=============================================================================
