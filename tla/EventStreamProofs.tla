-------------------------- MODULE EventStreamProofs --------------------------
(***************************************************************************)
(* Theorems about EventStream for any number of writers, rows and losses   *)
(* and any page size: what the page shows is always the beginning of the   *)
(* committed evidence, and whoever stops has the end of it.  The argument: *)
(* numbers are drawn under the row lock, so that committed evidence has no *)
(* hole (Gapless); a page of it is the rows after the cursor, and nothing  *)
(* that is on its way to the dashboard ever skips one (Consecutive).       *)
(***************************************************************************)
EXTENDS EventStream, TLAPS, FiniteSetTheorems

\* Rows with exactly one row for each number up to n, and none above.
Filled(rows, n) ==
  /\ rows \subseteq Rows
  /\ \A row \in rows : row.sequence \in 1 .. n
  /\ \A i \in 1 .. n : \E row \in rows : row.sequence = i
  /\ \A a, b \in rows : a.sequence = b.sequence => a = b

Gapless(rows) == \E n \in 0 .. MaxRows : Filled(rows, n)

Latest == max_sequence(db.rows)

\* A Run, as somebody sees it, has ended when its evidence has.
Coherent(d) ==
  /\ DOMAIN d = {"status", "rows"}
  /\ d.status \in STATUSES
  /\ Gapless(d.rows)
  /\ Terminal(d.status) <=> \E row \in d.rows : Terminal(row.state)

LogInv ==
  /\ Coherent(db)
  /\ DOMAIN tx \subseteq Writers
  /\ \A v, w \in DOMAIN tx : v = w
  /\ \A w \in DOMAIN tx : Coherent(tx[w]) /\ db.rows \subseteq tx[w].rows

\* Rows that continue after a number, one by one.
Consecutive(rows, after) ==
  rows \in Seq(db.rows) /\ \A i \in 1 .. Len(rows) : rows[i].sequence = after + i

EndsBy(sequence) == \E row \in UpTo(sequence) : Terminal(row.state)

StreamInv ==
  /\ DOMAIN stream = DOMAIN NoStream
  /\ stream.pc \in {"none", "poll", "read", "send", "closed", "lost"}
  /\ stream.pc # "none" => page.phase = "following"
  /\ stream.after \in 0 .. Latest
  /\ stream.full \in BOOLEAN
  /\ Consecutive(stream.wire, page.cursor) /\ Consecutive(stream.records, stream.after)
  /\ stream.pc # "send" => stream.records = <<>>
  /\ IF stream.pc \in {"none", "lost"} THEN stream.wire = <<>>
     ELSE stream.after = page.cursor + Len(stream.wire)
  /\ stream.pc \in {"read", "send", "closed"} /\ Terminal(stream.status) => Terminal(db.status)
  /\ stream.pc = "send" /\ Terminal(stream.status) /\ ~stream.full =>
       EndsBy(stream.after + Len(stream.records))
  /\ stream.pc = "closed" => Terminal(stream.status) /\ EndsBy(stream.after)

\* A page that does not follow the stream yet, or never will.
Loading == {"opening", "hydrating", "hydrated", "failed"}

PageInv ==
  /\ DOMAIN page = {"phase", "status", "cursor", "handoff", "seen", "shown", "finalizing"}
  /\ page.phase \in Loading \cup {"following", "reconnecting", "stopped"}
  /\ page.status \in STATUSES
  /\ page.finalizing \in BOOLEAN
  /\ page.cursor \in 0 .. Latest /\ page.handoff \in 0 .. Latest
  /\ page.seen = UpTo(page.cursor)
  /\ page.phase \notin Loading =>
       \E n \in 0 .. Latest : page.shown = UpTo(n) /\ page.cursor <= n /\ page.handoff <= n
  /\ page.phase = "stopped" => \E row \in page.shown : Terminal(row.state)

CallsInv ==
  /\ DOMAIN calls = {"runs", "final"}
  /\ calls.runs \subseteq [of : 0 .. MaxRows, reply : STATUSES \cup {Pending}]
  /\ \A call \in calls.runs : Terminal(call.reply) => Terminal(db.status)
  /\ calls.final \in [reply : STATUSES \cup {Pending, "none"}, cursor : 0 .. Latest,
                      rows : SUBSET Rows, more : BOOLEAN]
  /\ calls.final.more => calls.final.reply # "none"
  /\ calls.final.reply # "none" => Terminal(db.status)
  /\ calls.final.rows \subseteq UpTo(calls.final.cursor)
  /\ UpTo(calls.final.cursor) \subseteq page.shown \cup calls.final.rows
  /\ calls.final.reply # "none" /\ ~calls.final.more => EndsBy(calls.final.cursor)

\* Until it follows the stream, a page shows nothing and asks one thing at a time.
LoadInv ==
  page.phase \in Loading => /\ page.shown = {} /\ page.handoff <= page.cursor
                            /\ calls.runs = {} /\ calls.final.reply = "none"

IInv == LogInv /\ StreamInv /\ PageInv /\ CallsInv /\ LoadInv

-----------------------------------------------------------------------------
(* Rows and their numbers.                                                 *)

\* The greatest number of rows without a hole is how many there are.
LEMMA Greatest ==
  ASSUME NEW rows, NEW n \in Nat, Filled(rows, n)
  PROVE  max_sequence(rows) = n
<1> DEFINE T == {0} \cup {row.sequence : row \in rows}
<1>1. n \in T /\ T \subseteq 0 .. n
  BY DEF Filled
<1>2. (CHOOSE x \in T : \A y \in T : x >= y) = n
  BY <1>1
<1>3. QED
  BY <1>2 DEF max_sequence, Max

\* Rows without a gap are numbered up to their highest number.
LEMMA GaplessFilled ==
  ASSUME NEW rows, Gapless(rows)
  PROVE  /\ max_sequence(rows) \in 0 .. MaxRows
         /\ Filled(rows, max_sequence(rows))
BY Greatest, StreamAssumption DEF Gapless, StreamAssumption

\* The empty evidence has no hole.
LEMMA NothingIsGapless == Gapless({}) /\ max_sequence({}) = 0
<1>1. Filled({}, 0)
  BY DEF Filled
<1>2. QED
  BY <1>1, Greatest, StreamAssumption DEF Gapless, StreamAssumption

\* The next number fills no hole and makes none (append_event_allocated).
LEMMA NextIsGapless ==
  ASSUME NEW rows, Gapless(rows), max_sequence(rows) < MaxRows, NEW state \in STATUSES \cup {"none"}
  PROVE  Gapless(rows \cup {[sequence |-> max_sequence(rows) + 1, state |-> state]})
<1> DEFINE n == max_sequence(rows)
           row == [sequence |-> n + 1, state |-> state]
<1>1. n \in 0 .. MaxRows /\ n + 1 \in 0 .. MaxRows /\ n + 1 \in 1 .. MaxRows /\ Filled(rows, n)
  BY GaplessFilled, StreamAssumption DEF StreamAssumption
<1>2. row \in Rows /\ row.sequence = n + 1
  BY <1>1 DEF Rows
<1> HIDE DEF n, row
<1>3. Filled(rows \cup {row}, n + 1)
  BY <1>1, <1>2 DEF Filled
<1>4. QED
  BY <1>1, <1>3 DEF Gapless, n, row

\* Evidence with more evidence in it: the old is the beginning of the new.
LEMMA BeginningStays ==
  ASSUME NEW old, NEW new, Gapless(old), Gapless(new), old \subseteq new
  PROVE  /\ max_sequence(old) <= max_sequence(new)
         /\ \A n \in 0 .. max_sequence(old) :
              {row \in new : row.sequence <= n} = {row \in old : row.sequence <= n}
<1> DEFINE m == max_sequence(old)  n == max_sequence(new)
<1>1. m \in Nat /\ n \in Nat /\ Filled(old, m) /\ Filled(new, n)
  BY GaplessFilled, StreamAssumption DEF StreamAssumption
<1> HIDE DEF m, n
<1>2. m <= n
  <2>1. CASE m = 0
    BY <1>1, <2>1
  <2>2. CASE m # 0
    <3>1. PICK row \in old : row.sequence = m
      BY <1>1, <2>2 DEF Filled
    <3>2. QED
      BY <1>1, <3>1 DEF Filled
  <2>3. QED
    BY <2>1, <2>2
<1>3. ASSUME NEW i \in 0 .. m, NEW row \in new, row.sequence <= i PROVE row \in old
  <2>1. row.sequence \in 1 .. m
    BY <1>1, <1>3 DEF Filled
  <2>2. PICK o \in old : o.sequence = row.sequence
    BY <1>1, <2>1 DEF Filled
  <2>3. QED
    BY <1>1, <2>2 DEF Filled
<1>4. QED
  BY <1>2, <1>3 DEF m, n

-----------------------------------------------------------------------------
(* Pages of the committed rows.                                            *)

\* The committed rows are numbered up to the latest one.
LEMMA LatestFilled ==
  ASSUME LogInv
  PROVE  Latest \in Nat /\ Latest <= MaxRows /\ Filled(db.rows, Latest)
BY GaplessFilled, StreamAssumption DEF LogInv, Coherent, Latest, StreamAssumption

Between(a, b) == {row \in db.rows : a < row.sequence /\ row.sequence <= b}

\* As many rows as numbers.
LEMMA CountBetween ==
  ASSUME LogInv, NEW b \in 0 .. Latest, NEW a \in 0 .. b
  PROVE  IsFiniteSet(Between(a, b)) /\ Cardinality(Between(a, b)) = b - a
<1> DEFINE f == [i \in a + 1 .. b |-> CHOOSE row \in db.rows : row.sequence = i]
<1>1. Latest \in Nat /\ Filled(db.rows, Latest)
  BY LatestFilled
<1>2. \A i \in a + 1 .. b : f[i] \in db.rows /\ f[i].sequence = i
  BY <1>1 DEF Filled
<1> HIDE DEF f
<1>3. f \in [a + 1 .. b -> Between(a, b)]
  BY <1>1, <1>2 DEF Between, f
<1>4. \A row \in Between(a, b) : row.sequence \in a + 1 .. b /\ f[row.sequence] = row
  BY <1>1, <1>2 DEF Between, Filled
<1>5. f \in Bijection(a + 1 .. b, Between(a, b))
  BY <1>2, <1>3, <1>4 DEF Bijection, Injection, Surjection, IsInjective
<1>6. ExistsBijection(a + 1 .. b, Between(a, b))
  BY <1>5 DEF ExistsBijection
<1>7. IsFiniteSet(a + 1 .. b) /\ Cardinality(a + 1 .. b) = b - a
  <2>1. a + 1 \in Int /\ b \in Int
    BY <1>1
  <2>2. \A x, y \in Int : IsFiniteSet(x .. y) /\ Cardinality(x .. y) = IF x > y THEN 0 ELSE y - x + 1
    BY FS_Interval
  <2> DEFINE c == a + 1
  <2>3. c \in Int /\ (c > b => 0 = b - a) /\ (~(c > b) => b - c + 1 = b - a)
    BY <1>1
  <2> HIDE DEF c
  <2>4. IsFiniteSet(c .. b) /\ Cardinality(c .. b) = b - a
    BY <2>1, <2>2, <2>3
  <2>5. QED
    BY <2>4 DEF c
<1>8. QED
  BY <1>6, <1>7, FS_Bijection

\* A page holds the rows right after its cursor, as many as fit or are there.
LEMMA PageContinues ==
  ASSUME LogInv, NEW cursor \in 0 .. Latest, NEW limit \in Nat \ {0}
  PROVE  LET page0 == fetch_event_page(cursor, limit)
         IN /\ Consecutive(page0, cursor)
            /\ Len(page0) = IF limit <= Latest - cursor THEN limit ELSE Latest - cursor
<1> DEFINE later == {row \in db.rows : row.sequence > cursor}
           before(row) == {o \in later : o.sequence < row.sequence}
           n == IF limit <= Latest - cursor THEN limit ELSE Latest - cursor
           P == [i \in 1 .. n |-> CHOOSE row \in later : Cardinality(before(row)) = i - 1]
<1>1. Latest \in Nat /\ Filled(db.rows, Latest)
  BY LatestFilled
<1>2. Cardinality(later) = Latest - cursor
  <2>1. later = Between(cursor, Latest)
    BY <1>1 DEF Between, Filled
  <2>2. cursor \in 0 .. Latest /\ Latest \in 0 .. Latest
    BY <1>1
  <2>3. Cardinality(Between(cursor, Latest)) = Latest - cursor
    BY <2>2, CountBetween
  <2>4. QED
    BY <2>1, <2>3
<1>3. ASSUME NEW row \in later PROVE Cardinality(before(row)) = row.sequence - 1 - cursor
  <2>1. row.sequence \in cursor + 1 .. Latest
    BY <1>1 DEF Filled
  <2>2. before(row) = Between(cursor, row.sequence - 1)
    BY <1>1, <2>1 DEF Between, Filled
  <2>3. row.sequence - 1 \in 0 .. Latest /\ cursor \in 0 .. row.sequence - 1
    BY <1>1, <2>1
  <2>4. Cardinality(Between(cursor, row.sequence - 1)) = row.sequence - 1 - cursor
    BY <2>3, CountBetween
  <2>5. QED
    BY <2>2, <2>4
<1>4. n \in Nat /\ cursor + n <= Latest
  BY <1>1
<1>5. fetch_event_page(cursor, limit) = P
  <2>1. \A x, y \in Int : Min({x, y}) = IF x <= y THEN x ELSE y
    BY DEF Min
  <2>2. Min({limit, Cardinality(later)}) = n
    BY <1>1, <1>2, <2>1
  <2> HIDE DEF n
  <2>3. QED
    BY <2>2 DEF fetch_event_page
<1> HIDE DEF n
<1>6. ASSUME NEW i \in 1 .. n PROVE P[i] \in db.rows /\ P[i].sequence = cursor + i
  <2>1. PICK row \in later : row.sequence = cursor + i
    BY <1>1, <1>4 DEF Filled
  <2>2. Cardinality(before(row)) = i - 1
    <3>1. Cardinality(before(row)) = row.sequence - 1 - cursor
      BY <1>3
    <3> HIDE DEF before
    <3>2. QED
      BY <1>4, <2>1, <3>1
  <2>3. P[i] \in later /\ Cardinality(before(P[i])) = i - 1
    BY <2>2
  <2> HIDE DEF P, before
  <2>4. P[i].sequence - 1 - cursor = i - 1
    BY <1>3, <2>3
  <2>5. QED
    BY <1>1, <2>3, <2>4 DEF Filled
<1>7. P \in Seq(db.rows) /\ Len(P) = n
  <2> HIDE DEF before
  <2>1. P \in [1 .. n -> db.rows]
    BY <1>6
  <2> HIDE DEF P
  <2>2. QED
    BY <1>4, <2>1
<1> HIDE DEF P
<1>8. QED
  BY <1>5, <1>6, <1>7 DEF Consecutive, n

\* The first elements of a sequence.
LEMMA FrontOf ==
  ASSUME NEW S, NEW r \in Seq(S), NEW n \in 0 .. Len(r)
  PROVE  /\ SubSeq(r, 1, n) \in Seq(S) /\ Len(SubSeq(r, 1, n)) = n
         /\ \A i \in 1 .. n : SubSeq(r, 1, n)[i] = r[i]
OBVIOUS

\* The REST page: the rows after the cursor as far as the next one, the last if
\* there are no more.
LEMMA EventPage ==
  ASSUME LogInv, NEW cursor \in 0 .. Latest
  PROVE  LET answer == event_page(cursor)
         IN /\ answer.next_cursor \in cursor .. Latest
            /\ answer.rows = UpTo(answer.next_cursor) \ UpTo(cursor)
            /\ answer.has_more \in BOOLEAN
            /\ ~answer.has_more => answer.next_cursor = Latest
<1> DEFINE records == fetch_event_page(cursor, PageSize + 1)
           n == Min({PageSize, Len(records)})
           rows == SubSeq(records, 1, n)
<1>1. Latest \in Nat /\ Filled(db.rows, Latest) /\ PageSize \in Nat \ {0}
  BY LatestFilled, StreamAssumption DEF StreamAssumption
<1>2. /\ Consecutive(records, cursor)
      /\ Len(records) = IF PageSize + 1 <= Latest - cursor THEN PageSize + 1 ELSE Latest - cursor
  <2>1. PageSize + 1 \in Nat \ {0}
    BY <1>1
  <2>2. QED
    BY <2>1, PageContinues
<1> HIDE DEF records
<1>3. n = IF PageSize <= Len(records) THEN PageSize ELSE Len(records)
  <2>1. \A x, y \in Int : Min({x, y}) = IF x <= y THEN x ELSE y
    BY DEF Min
  <2>2. QED
    BY <1>1, <1>2, <2>1
<1> HIDE DEF n
<1>4. n \in 0 .. Len(records) /\ Len(records) \in Nat /\ cursor + n <= Latest
  BY <1>1, <1>2, <1>3
<1>5. /\ rows \in Seq(db.rows) /\ Len(rows) = n
      /\ \A i \in 1 .. n : rows[i] = records[i]
  <2>1. records \in Seq(db.rows)
    BY <1>2 DEF Consecutive
  <2>2. QED
    BY <1>4, <2>1, FrontOf
<1> HIDE DEF rows
<1>6. /\ event_page(cursor).rows = ToSet(rows)
      /\ event_page(cursor).next_cursor = IF rows = <<>> THEN cursor ELSE Last(rows).sequence
      /\ event_page(cursor).has_more = (Len(records) > PageSize)
      /\ event_page(cursor).has_more <=> Len(records) > PageSize
  BY DEF event_page, records, rows, n
<1>7. event_page(cursor).next_cursor = cursor + n
  <2>1. CASE n = 0
    BY <1>4, <1>5, <1>6, <2>1
  <2>2. CASE n # 0
    <3>1. n \in 1 .. Len(records) /\ rows # <<>>
      BY <1>4, <1>5, <2>2
    <3>2. Last(rows).sequence = cursor + n
      BY <1>2, <1>5, <3>1 DEF Last, Consecutive
    <3>3. QED
      BY <1>6, <3>1, <3>2
  <2>3. QED
    BY <2>1, <2>2
<1>8. ToSet(rows) = UpTo(cursor + n) \ UpTo(cursor)
  <2>1. ASSUME NEW row \in ToSet(rows) PROVE row \in UpTo(cursor + n) \ UpTo(cursor)
    <3>1. PICK i \in 1 .. n : row = rows[i]
      BY <1>5 DEF ToSet
    <3>2. row \in db.rows /\ row.sequence = cursor + i
      BY <1>2, <1>4, <1>5, <3>1 DEF Consecutive
    <3>3. QED
      BY <1>4, <3>2 DEF UpTo
  <2>2. ASSUME NEW row \in UpTo(cursor + n) \ UpTo(cursor) PROVE row \in ToSet(rows)
    <3>1. PICK i \in 1 .. n : row.sequence = cursor + i
      <4>1. row.sequence \in Nat /\ cursor < row.sequence /\ row.sequence <= cursor + n
        BY <1>1, <1>4 DEF UpTo, Filled
      <4>2. row.sequence - cursor \in 1 .. n /\ row.sequence = cursor + (row.sequence - cursor)
        BY <1>4, <4>1
      <4>3. QED
        BY <4>2
    <3>2. i \in 1 .. Len(records)
      BY <1>4, <3>1
    <3>3. rows[i] \in db.rows /\ rows[i].sequence = row.sequence
      BY <1>2, <1>5, <3>1, <3>2 DEF Consecutive
    <3>4. row = rows[i]
      BY <1>1, <3>3 DEF UpTo, Filled
    <3>5. QED
      BY <1>5, <3>4 DEF ToSet
  <2>3. QED
    BY <2>1, <2>2
<1>9. event_page(cursor).has_more <=> cursor + n < Latest
  BY <1>1, <1>2, <1>3, <1>6
<1>10. QED
  BY <1>1, <1>4, <1>6, <1>7, <1>8, <1>9

-----------------------------------------------------------------------------
(* What does not change.                                                   *)

\* Steps that leave the log alone.
LEMMA SameLog ==
  ASSUME LogInv, UNCHANGED <<db, tx>>
  PROVE  LogInv'
BY DEF LogInv, Coherent, Gapless, Filled

\* The same rows, the same end.
LEMMA SameLatest ==
  ASSUME UNCHANGED db
  PROVE  Latest' = Latest /\ \A n : UpTo(n)' = UpTo(n) /\ EndsBy(n)' = EndsBy(n)
BY DEF Latest, UpTo, EndsBy

\* Steps that leave rows and stream alone.
LEMMA SameStream ==
  ASSUME StreamInv, UNCHANGED <<db, stream>>, page'.cursor = page.cursor,
         page'.phase = page.phase \/ stream.pc = "none"
  PROVE  StreamInv'
BY SameLatest DEF StreamInv, Consecutive, NoStream

\* Steps that leave rows and page alone.
LEMMA SamePage ==
  ASSUME PageInv, UNCHANGED <<db, page>>
  PROVE  PageInv'
BY SameLatest DEF PageInv

\* Steps that leave the pending requests alone and forget no event.
LEMMA SameCalls ==
  ASSUME CallsInv, UNCHANGED <<db, calls>>, page.shown \subseteq page'.shown
  PROVE  CallsInv'
BY SameLatest DEF CallsInv

\* Page and requests stay, or the page has been loaded.
LEMMA SameLoad ==
  ASSUME LoadInv, UNCHANGED <<page, calls>> \/ page'.phase \notin Loading
  PROVE  LoadInv'
BY DEF LoadInv
-----------------------------------------------------------------------------
(* Writers.                                                                *)

\* What the page, the stream and the requests rest on is still there when
\* evidence has been committed.
LEMMA GrownKeeps ==
  ASSUME IInv, LogInv', db.rows \subseteq db'.rows, UNCHANGED <<stream, page, calls>>
  PROVE  IInv'
<1>1. /\ Latest \in Nat /\ Latest' \in Nat /\ Latest <= Latest'
      /\ \A n \in 0 .. Latest : UpTo(n)' = UpTo(n)
  BY LatestFilled, BeginningStays, GaplessFilled, StreamAssumption
     DEF IInv, LogInv, Coherent, UpTo, Latest, StreamAssumption
<1>2. 0 .. Latest \subseteq 0 .. Latest'
  BY <1>1
<1>3. Terminal(db.status) => Terminal(db'.status)
  BY DEF IInv, LogInv, Coherent
<1>4. \A n \in Nat : EndsBy(n) => EndsBy(n)'
  BY DEF EndsBy, UpTo
<1>5. \A rows, n : Consecutive(rows, n) => Consecutive(rows, n)'
  BY DEF Consecutive
<1>6. StreamInv'
  BY <1>1, <1>2, <1>3, <1>4, <1>5 DEF IInv, StreamInv, NoStream, Consecutive
<1>7. PageInv'
  BY <1>1, <1>2 DEF IInv, PageInv
<1>8. CallsInv'
  BY <1>1, <1>2, <1>3, <1>4 DEF IInv, CallsInv
<1>9. QED
  BY <1>6, <1>7, <1>8, SameLoad DEF IInv

\* Nothing is committed.
LEMMA UnseenKeeps ==
  ASSUME IInv, LogInv', UNCHANGED <<db, stream, page, calls>>
  PROVE  IInv'
BY SameStream, SamePage, SameCalls, SameLoad DEF IInv

\* An event is added to what the holder of the row lock sees.
LEMMA AppendKeeps ==
  ASSUME IInv, NEW w \in Writers, append_event_allocated(w)
  PROVE  IInv'
<1> DEFINE mine == IF w \in DOMAIN tx THEN tx[w] ELSE db
           n == max_sequence(mine.rows)
<1>1. Coherent(mine) /\ db.rows \subseteq mine.rows
  BY DEF IInv, LogInv
<1> HIDE DEF mine
<1>2. PICK state \in {"none"} \cup moves(mine.status) :
        tx' = [o \in {w} |->
                 [status |-> IF state = "none" THEN mine.status ELSE state,
                  rows |-> mine.rows \cup {[sequence |-> n + 1, state |-> state]}]]
  BY DEF append_event_allocated, mine
<1> DEFINE row == [sequence |-> n + 1, state |-> state]
           new == [status |-> IF state = "none" THEN mine.status ELSE state,
                   rows |-> mine.rows \cup {row}]
<1>3. n < MaxRows /\ UNCHANGED <<db, stream, page, calls>>
  BY DEF append_event_allocated, mine
<1>4. state \in STATUSES \cup {"none"} /\ moves("completed") = {} /\ state # "queued"
  BY <1>1 DEF Coherent, STATUSES, moves
<1>5. Gapless(mine.rows \cup {row})
  BY <1>1, <1>3, <1>4, NextIsGapless DEF Coherent
<1> HIDE DEF n
<1>6. Terminal(new.status) <=> \E r \in new.rows : Terminal(r.state)
  <2>1. (\E r \in new.rows : Terminal(r.state)) <=> Terminal(mine.status) \/ Terminal(state)
    <3>1. new.rows = mine.rows \cup {row} /\ row.state = state
      OBVIOUS
    <3> HIDE DEF row, new
    <3>2. QED
      BY <1>1, <3>1 DEF Coherent
  <2>2. Terminal(mine.status) => state = "none"
    BY <1>4 DEF Terminal
  <2>3. ~Terminal("none")
    BY DEF Terminal
  <2> HIDE DEF row
  <2>4. QED
    BY <2>1, <2>2, <2>3
<1>7. Coherent(new)
  <2>1. new.status \in STATUSES
    BY <1>1, <1>4 DEF Coherent
  <2>2. QED
    BY <1>5, <1>6, <2>1 DEF Coherent
<1>8. tx' = [o \in {w} |-> new]
  BY <1>2
<1> HIDE DEF new
<1>9. LogInv'
  <2>1. db.rows \subseteq new.rows
    BY <1>1 DEF new
  <2>2. DOMAIN tx' = {w} /\ tx'[w] = new
    BY <1>8
  <2>3. Coherent(db)' /\ Coherent(tx[w])'
    BY <1>3, <1>7, <2>2 DEF IInv, LogInv, Coherent, Gapless, Filled
  <2>4. QED
    BY <1>3, <2>1, <2>2, <2>3 DEF LogInv
<1>10. QED
  BY <1>3, <1>9, UnseenKeeps

\* A committed event is the next one.
LEMMA CommitKeeps ==
  ASSUME IInv, NEW w \in Writers, Commit(w)
  PROVE  IInv'
<1>1. /\ w \in DOMAIN tx /\ Coherent(tx[w]) /\ db.rows \subseteq tx[w].rows
      /\ DOMAIN tx = {w} /\ DOMAIN tx' = {}
  BY DEF IInv, LogInv, Commit, Close
<1>2. db' = [status |-> tx[w].status, rows |-> tx[w].rows]
  BY <1>1 DEF Commit
<1>3. Coherent(db)'
  BY <1>1, <1>2 DEF Coherent, Gapless, Filled
<1>4. LogInv'
  BY <1>1, <1>3 DEF LogInv
<1>5. QED
  BY <1>1, <1>2, <1>4, GrownKeeps DEF Commit

\* A rolled back transaction leaves no number behind.
LEMMA RollbackKeeps ==
  ASSUME IInv, NEW w \in Writers, Rollback(w)
  PROVE  IInv'
<1>1. DOMAIN tx' = {} /\ UNCHANGED db
  BY DEF IInv, LogInv, Rollback, Close
<1>2. LogInv'
  BY <1>1 DEF IInv, LogInv, Coherent, Gapless, Filled
<1>3. QED
  BY <1>2, UnseenKeeps DEF Rollback
-----------------------------------------------------------------------------
(* Server.                                                                 *)

\* The first of consecutive rows, and the rest.
LEMMA FirstOf ==
  ASSUME NEW rows, NEW n \in Nat, Consecutive(rows, n), rows # <<>>
  PROVE  /\ Head(rows) \in db.rows /\ Head(rows).sequence = n + 1
         /\ Consecutive(Tail(rows), n + 1) /\ Len(Tail(rows)) = Len(rows) - 1
         /\ Len(rows) \in Nat \ {0}
<1>1. rows \in Seq(db.rows) /\ \A i \in 1 .. Len(rows) : rows[i].sequence = n + i
  BY DEF Consecutive
<1>2. Head(rows) = rows[1] /\ Len(rows) \in Nat \ {0}
  BY <1>1
<1>3. /\ Tail(rows) \in Seq(db.rows) /\ Len(Tail(rows)) = Len(rows) - 1
      /\ \A i \in 1 .. Len(Tail(rows)) : Tail(rows)[i] = rows[i + 1]
  BY <1>1
<1>4. \A i \in 1 .. Len(Tail(rows)) : Tail(rows)[i].sequence = n + 1 + i
  <2>1. \A i \in 1 .. Len(Tail(rows)) : i + 1 \in 1 .. Len(rows)
    BY <1>2, <1>3
  <2>2. QED
    BY <1>1, <1>3, <2>1
<1>5. QED
  BY <1>1, <1>2, <1>3, <1>4 DEF Consecutive

\* The row after the last one continues consecutive rows.
LEMMA AfterLast ==
  ASSUME NEW rows, NEW n \in Nat, Consecutive(rows, n), NEW row \in db.rows,
         row.sequence = n + Len(rows) + 1
  PROVE  Consecutive(Append(rows, row), n) /\ Len(Append(rows, row)) = Len(rows) + 1
<1>1. rows \in Seq(db.rows) /\ \A i \in 1 .. Len(rows) : rows[i].sequence = n + i
  BY DEF Consecutive
<1>2. /\ Append(rows, row) \in Seq(db.rows) /\ Len(Append(rows, row)) = Len(rows) + 1
      /\ \A i \in 1 .. Len(rows) : Append(rows, row)[i] = rows[i]
      /\ Append(rows, row)[Len(rows) + 1] = row /\ Len(rows) \in Nat
  BY <1>1
<1>3. QED
  BY <1>1, <1>2 DEF Consecutive

\* Only the server's side of the connection changes.
LEMMA ServedKeeps ==
  ASSUME IInv, StreamInv', UNCHANGED <<db, tx, page, calls>>
  PROVE  IInv'
BY SameLog, SamePage, SameCalls, SameLoad DEF IInv

\* A poll of the rows keeps the invariant.
LEMMA PollKeeps ==
  ASSUME IInv, poll_events
  PROVE  IInv'
<1>1. UNCHANGED <<db, tx, page, calls>> /\ StreamInv /\ LogInv /\ PageInv
  BY DEF IInv, poll_events
<1>2. CASE stream.pc = "poll"
  <2>1. stream' = [stream EXCEPT !.pc = "read", !.status = db.status]
    BY <1>2 DEF poll_events
  <2>2. QED
    BY <1>1, <1>2, <2>1, SameLatest, ServedKeeps DEF StreamInv, NoStream, Consecutive
<1>3. CASE stream.pc = "read"
  <2> DEFINE records == fetch_event_page(stream.after, PageSize)
  <2>1. stream' = [stream EXCEPT !.pc = "send", !.records = records, !.full = (Len(records) = PageSize)]
    BY <1>3 DEF poll_events
  <2>2. /\ Consecutive(records, stream.after)
        /\ Len(records) = IF PageSize <= Latest - stream.after THEN PageSize ELSE Latest - stream.after
    BY <1>1, PageContinues, StreamAssumption DEF StreamInv, StreamAssumption
  <2>3. ASSUME Terminal(stream.status), Len(records) # PageSize
        PROVE  EndsBy(stream.after + Len(records))
    <3>1. Latest \in Nat /\ Filled(db.rows, Latest)
      BY <1>1, LatestFilled
    <3>2. stream.after + Len(records) = Latest
      BY <1>1, <2>2, <2>3, <3>1, StreamAssumption DEF StreamInv, StreamAssumption
    <3>3. PICK row \in db.rows : Terminal(row.state)
      BY <1>1, <1>3, <2>3 DEF StreamInv, LogInv, Coherent
    <3>4. QED
      BY <3>1, <3>2, <3>3 DEF EndsBy, UpTo, Filled
  <2> HIDE DEF records
  <2>4. StreamInv'
    BY <1>1, <1>3, <2>1, <2>2, <2>3, SameLatest DEF StreamInv, NoStream, Consecutive
  <2>5. QED
    BY <1>1, <2>4, ServedKeeps
<1>4. QED
  BY <1>2, <1>3 DEF poll_events

\* A frame on its way keeps the invariant.
LEMMA FramesKeep ==
  ASSUME IInv, frames
  PROVE  IInv'
<1>1. /\ UNCHANGED <<db, tx, page, calls>> /\ StreamInv /\ LogInv /\ PageInv
      /\ stream.pc = "send"
  BY DEF IInv, frames
<1>2. Latest \in Nat /\ Filled(db.rows, Latest)
  BY <1>1, LatestFilled
<1>3. CASE stream.records # <<>>
  <2> DEFINE row == Head(stream.records)
  <2>1. stream' = [stream EXCEPT !.wire = Append(@, row), !.after = row.sequence, !.records = Tail(@)]
    BY <1>3 DEF frames
  <2>2. /\ row \in db.rows /\ row.sequence = stream.after + 1
        /\ Consecutive(Tail(stream.records), stream.after + 1)
        /\ Len(Tail(stream.records)) = Len(stream.records) - 1 /\ Len(stream.records) \in Nat
    BY <1>1, <1>2, <1>3, FirstOf DEF StreamInv
  <2>3. /\ page.cursor \in Nat /\ stream.after \in Nat
        /\ Consecutive(stream.wire, page.cursor) /\ stream.after = page.cursor + Len(stream.wire)
    BY <1>1, <1>2 DEF StreamInv, PageInv
  <2>4. /\ Consecutive(Append(stream.wire, row), page.cursor)
        /\ Len(Append(stream.wire, row)) = Len(stream.wire) + 1
    BY <2>2, <2>3, AfterLast
  <2>5. stream.after + 1 \in 0 .. Latest
    BY <1>2, <2>2, <2>3 DEF Filled
  <2>6. Len(stream.wire) \in Nat
    BY <2>3 DEF Consecutive
  <2>7. stream.after + 1 + (Len(stream.records) - 1) = stream.after + Len(stream.records)
    BY <2>2, <2>3
  <2> HIDE DEF row
  <2>8. /\ stream'.pc = "send" /\ stream'.after = stream.after + 1
        /\ stream'.wire = Append(stream.wire, row) /\ stream'.records = Tail(stream.records)
        /\ stream'.full = stream.full /\ stream'.status = stream.status
        /\ DOMAIN stream' = DOMAIN stream
    BY <1>1, <2>1, <2>2 DEF StreamInv, NoStream
  <2>9. /\ Consecutive(stream.wire, page.cursor)' /\ Consecutive(stream.records, stream.after)'
        /\ stream'.after = page.cursor + Len(stream'.wire)
        /\ stream'.after + Len(stream'.records) = stream.after + Len(stream.records)
    <3>1. page'.cursor = page.cursor /\ UNCHANGED db
      BY <1>1
    <3>2. Consecutive(stream.wire, page.cursor)'
      BY <2>4, <2>8, <3>1 DEF Consecutive
    <3>3. Consecutive(stream.records, stream.after)'
      BY <2>2, <2>8, <3>1 DEF Consecutive
    <3>4. QED
      BY <2>2, <2>3, <2>4, <2>6, <2>7, <2>8, <3>1, <3>2, <3>3
  <2>10. StreamInv'
    BY <1>1, <2>5, <2>8, <2>9, SameLatest DEF StreamInv
  <2>11. QED
    BY <1>1, <2>10, ServedKeeps
<1>4. CASE stream.records = <<>>
  <2>1. stream' = [stream EXCEPT !.pc = IF ~stream.full /\ Terminal(stream.status) THEN "closed"
                                        ELSE "poll"]
    BY <1>4 DEF frames
  <2>2. stream.after + Len(stream.records) = stream.after
    BY <1>1, <1>2, <1>4 DEF StreamInv
  <2>3. StreamInv'
    BY <1>1, <1>4, <2>1, <2>2, SameLatest DEF StreamInv, NoStream, Consecutive
  <2>4. QED
    BY <1>1, <2>3, ServedKeeps
<1>5. QED
  BY <1>3, <1>4

\* The connection breaks.
LEMMA LoseKeeps ==
  ASSUME IInv, lose
  PROVE  IInv'
<1>1. /\ UNCHANGED <<db, tx, page, calls>> /\ StreamInv
      /\ stream.pc # "none" /\ stream' = [NoStream EXCEPT !.pc = "lost"]
  BY DEF IInv, lose
<1>2. Latest \in Nat
  BY LatestFilled DEF IInv
<1>3. StreamInv'
  BY <1>1, <1>2, SameLatest DEF StreamInv, NoStream, Consecutive, Terminal
<1>4. QED
  BY <1>1, <1>3, ServedKeeps

\* A page of events that was served keeps the invariant.
LEMMA ServeKeeps ==
  ASSUME IInv, serve
  PROVE  IInv'
<1>1. PICK call \in calls.runs :
        calls' = [calls EXCEPT !.runs = (@ \ {call}) \cup {[call EXCEPT !.reply = db.status]}]
  BY DEF serve
<1>2. UNCHANGED <<db, tx, stream, page>> /\ CallsInv
  BY DEF IInv, serve
<1>3. [call EXCEPT !.reply = db.status] \in [of : 0 .. MaxRows, reply : STATUSES \cup {Pending}]
  BY <1>2 DEF IInv, LogInv, Coherent, CallsInv
<1>4. [call EXCEPT !.reply = db.status].reply = db.status
  BY <1>2 DEF CallsInv
<1>5. CallsInv'
  BY <1>1, <1>2, <1>3, <1>4, SameLatest DEF CallsInv
<1>6. LoadInv'
  BY <1>1, <1>2, SameLoad DEF IInv, LoadInv
<1>7. QED
  BY <1>2, <1>5, <1>6, SameLog, SameStream, SamePage DEF IInv

\* The last page that was served keeps the invariant.
LEMMA ServeFinalKeeps ==
  ASSUME IInv, serve_final
  PROVE  IInv'
<1>1. UNCHANGED <<db, tx, stream, page>> /\ CallsInv /\ LogInv
  BY DEF IInv, serve_final
<1>2. Latest \in Nat /\ Filled(db.rows, Latest)
  BY <1>1, LatestFilled
<1> DEFINE f == calls.final
<1>3. ASSUME f.reply = Pending, calls' = [calls EXCEPT !.final.reply = db.status]
      PROVE  CallsInv'
  <2>1. db.status \in STATUSES /\ db.status # "none" /\ Pending # "none"
    BY <1>1 DEF LogInv, Coherent, STATUSES, Pending
  <2>2. f' = [f EXCEPT !.reply = db.status] /\ calls'.runs = calls.runs /\ DOMAIN calls' = DOMAIN calls
    BY <1>1, <1>3 DEF CallsInv
  <2>3. QED
    BY <1>1, <1>3, <2>1, <2>2, SameLatest DEF CallsInv
<1>4. ASSUME f.more,
             LET answer == event_page(f.cursor)
             IN calls' = [calls EXCEPT !.final.cursor = answer.next_cursor,
                                       !.final.rows = @ \cup answer.rows,
                                       !.final.more = answer.has_more]
      PROVE  CallsInv'
  <2> DEFINE answer == event_page(f.cursor)
  <2>1. /\ answer.next_cursor \in f.cursor .. Latest
        /\ answer.rows = UpTo(answer.next_cursor) \ UpTo(f.cursor)
        /\ answer.has_more \in BOOLEAN
        /\ ~answer.has_more => answer.next_cursor = Latest
    BY <1>1, EventPage DEF CallsInv
  <2>2. calls' = [calls EXCEPT !.final = [f EXCEPT !.cursor = answer.next_cursor,
                                    !.rows = @ \cup answer.rows, !.more = answer.has_more]]
    BY <1>4
  <2> HIDE DEF answer
  <2>3. /\ f'.reply = f.reply /\ f'.cursor = answer.next_cursor
        /\ f'.rows = f.rows \cup answer.rows /\ f'.more = answer.has_more
        /\ calls'.runs = calls.runs /\ DOMAIN calls' = DOMAIN calls
        /\ f' = [reply |-> f.reply, cursor |-> answer.next_cursor,
                 rows |-> f.rows \cup answer.rows, more |-> answer.has_more]
    BY <1>1, <2>2 DEF CallsInv
  <2>4. UpTo(f.cursor) \subseteq UpTo(answer.next_cursor) /\ UpTo(answer.next_cursor) \subseteq Rows
    <3>1. f.cursor \in 0 .. Latest
      BY <1>1 DEF CallsInv
    <3> HIDE DEF f
    <3>2. QED
      BY <1>2, <2>1, <3>1 DEF UpTo, Filled
  <2>5. Terminal(db.status)
    BY <1>1, <1>4 DEF CallsInv
  <2>6. EndsBy(Latest)
    BY <1>1, <1>2, <2>5 DEF LogInv, Coherent, EndsBy, UpTo, Filled
  <2>7. f.rows \in SUBSET Rows /\ f.rows \subseteq UpTo(f.cursor) /\ f.cursor \in 0 .. Latest
        /\ f.reply \in STATUSES \cup {Pending, "none"} /\ f.reply # "none"
    BY <1>1, <1>4 DEF CallsInv
  <2>8. UpTo(f.cursor) \subseteq page.shown \cup f.rows
    BY <1>1 DEF CallsInv
  <2> HIDE DEF f
  <2>9. f' \in [reply : STATUSES \cup {Pending, "none"}, cursor : 0 .. Latest,
                rows : SUBSET Rows, more : BOOLEAN]
    <3>1. answer.next_cursor \in 0 .. Latest /\ f.rows \cup answer.rows \in SUBSET Rows
      BY <1>2, <2>1, <2>4, <2>7
    <3>2. QED
      BY <2>1, <2>3, <2>7, <3>1
  <2>10. /\ f'.rows \subseteq UpTo(f'.cursor) /\ UpTo(f'.cursor) \subseteq page.shown \cup f'.rows
         /\ ~f'.more => EndsBy(f'.cursor)
    BY <2>1, <2>3, <2>4, <2>6, <2>7, <2>8
  <2>12. f' = calls'.final
    BY DEF f
  <2>13. \A n : UpTo(n)' = UpTo(n) /\ EndsBy(n)' = EndsBy(n)
    BY <1>1, SameLatest
  <2>14. /\ (calls.final.rows \subseteq UpTo(calls.final.cursor))'
         /\ (UpTo(calls.final.cursor) \subseteq page.shown \cup calls.final.rows)'
         /\ (calls.final.reply # "none" /\ ~calls.final.more => EndsBy(calls.final.cursor))'
    BY <1>1, <2>10, <2>12, <2>13
  <2>15. Latest' = Latest /\ UNCHANGED db
    BY <1>1, SameLatest
  <2>16. QED
    BY <1>1, <2>3, <2>5, <2>7, <2>9, <2>12, <2>14, <2>15 DEF CallsInv
<1>5. CallsInv'
  BY <1>3, <1>4 DEF serve_final
<1>6. LoadInv'
  <2>1. f.reply = Pending \/ f.more
    BY DEF serve_final
  <2>2. f.reply # "none"
    BY <1>1, <2>1 DEF CallsInv, Pending
  <2>3. QED
    BY <1>1, <2>2, SameLoad DEF IInv, LoadInv
<1>7. QED
  BY <1>1, <1>5, <1>6, SameLog, SameStream, SamePage DEF IInv

-----------------------------------------------------------------------------
(* Dashboard.                                                              *)

\* A connection that has just been opened, or none.
LEMMA OpenedKeeps ==
  ASSUME Latest' \in Nat, page'.cursor \in 0 .. Latest', page'.phase = "following",
         stream' = Opened(page'.cursor)
  PROVE  StreamInv'
<1>1. /\ stream'.pc = "poll" /\ stream'.after = page'.cursor /\ stream'.wire = <<>>
      /\ stream'.records = <<>> /\ stream'.full = FALSE /\ DOMAIN stream' = DOMAIN NoStream
  BY DEF Opened, NoStream
<1>2. page'.cursor \in Nat /\ page'.cursor = page'.cursor + Len(stream'.wire)
  BY <1>1
<1>3. Consecutive(stream.wire, page.cursor)' /\ Consecutive(stream.records, stream.after)'
  BY <1>1 DEF Consecutive
<1>4. QED
  BY <1>1, <1>2, <1>3 DEF StreamInv

\* A dropped stream holds nothing.
LEMMA DroppedKeeps ==
  ASSUME Latest' \in Nat, stream' = NoStream
  PROVE  StreamInv'
<1>1. /\ stream'.pc = "none" /\ stream'.after = 0 /\ stream'.wire = <<>>
      /\ stream'.records = <<>> /\ stream'.full = FALSE /\ DOMAIN stream' = DOMAIN NoStream
  BY DEF NoStream
<1>2. QED
  BY <1>1 DEF StreamInv, Consecutive, NoStream

\* The beginnings of the evidence are nested.
LEMMA Nested ==
  ASSUME LogInv, NEW a \in Nat, NEW b \in Nat, a <= b
  PROVE  UpTo(a) \subseteq UpTo(b)
BY LatestFilled DEF UpTo, Filled

\* Opening the page keeps the invariant.
LEMMA LoadKeeps ==
  ASSUME IInv, load
  PROVE  IInv'
<1>1. /\ UNCHANGED <<db, tx, stream, calls>> /\ page.phase = "opening"
      /\ page' = [page EXCEPT !.phase = "hydrating", !.status = db.status]
  BY DEF load
<1>2. stream.pc = "none" /\ db.status \in STATUSES
  BY <1>1 DEF IInv, StreamInv, LogInv, Coherent
<1>3. StreamInv' /\ CallsInv'
  BY <1>1, <1>2, SameStream, SameCalls DEF IInv, PageInv
<1>4. PageInv' /\ LoadInv'
  BY <1>1, <1>2, SameLatest DEF IInv, PageInv, Loading, LoadInv
<1>5. QED
  BY <1>1, <1>3, <1>4, SameLog DEF IInv

\* A page that cannot be loaded keeps the invariant.
LEMMA LoadFailsKeeps ==
  ASSUME IInv, load_fails
  PROVE  IInv'
<1>1. /\ UNCHANGED <<db, tx, stream, calls>> /\ page.phase \in Loading
      /\ page.phase \in {"opening", "hydrating", "hydrated"}
      /\ page' = [page EXCEPT !.phase = "failed"]
  BY DEF load_fails, Loading
<1>2. stream.pc = "none"
  BY <1>1 DEF IInv, StreamInv
<1>3. /\ page'.cursor = page.cursor /\ page'.shown = page.shown /\ page'.handoff = page.handoff
      /\ page'.phase = "failed" /\ page'.phase \in Loading
  BY <1>1 DEF IInv, PageInv, Loading
<1>4. StreamInv' /\ CallsInv'
  <2>1. StreamInv'
    BY <1>1, <1>2, SameLatest DEF IInv, StreamInv, Consecutive
  <2>2. QED
    BY <1>1, <1>3, <2>1, SameCalls DEF IInv
<1>5. PageInv' /\ LoadInv'
  BY <1>1, <1>3, SameLatest DEF IInv, PageInv, LoadInv
<1>6. QED
  BY <1>1, <1>4, <1>5, SameLog DEF IInv

\* A getRun that fails keeps the invariant.
LEMMA GetRunFailsKeeps ==
  ASSUME IInv, getRun_fails
  PROVE  IInv'
<1>1. PICK call \in calls.runs : calls' = [calls EXCEPT !.runs = @ \ {call}]
  BY DEF getRun_fails
<1>2. UNCHANGED <<db, tx, stream, page>> /\ page.phase \notin Loading
  BY <1>1 DEF IInv, LoadInv, getRun_fails
<1>3. /\ calls'.runs = calls.runs \ {call} /\ calls'.final = calls.final
      /\ DOMAIN calls' = DOMAIN calls
  BY <1>1 DEF IInv, CallsInv
<1>4. CallsInv'
  BY <1>2, <1>3, SameLatest DEF IInv, CallsInv
<1>5. QED
  BY <1>2, <1>4, SameLog, SameStream, SamePage, SameLoad DEF IInv

\* Asking for all events keeps the invariant.
LEMMA GetAllEventsKeeps ==
  ASSUME IInv, getAllEvents
  PROVE  IInv'
<1> DEFINE answer == event_page(page.cursor)
<1>1. /\ UNCHANGED <<db, tx, stream, calls>> /\ page.phase = "hydrating"
      /\ page' = [page EXCEPT !.phase = IF answer.has_more THEN @ ELSE "hydrated",
                              !.cursor = answer.next_cursor, !.handoff = answer.next_cursor,
                              !.seen = @ \cup answer.rows]
  BY DEF getAllEvents
<1>2. stream.pc = "none" /\ LogInv /\ PageInv /\ Latest \in Nat
  BY <1>1, LatestFilled DEF IInv, StreamInv
<1>3. /\ answer.next_cursor \in page.cursor .. Latest
      /\ answer.rows = UpTo(answer.next_cursor) \ UpTo(page.cursor)
  BY <1>2, EventPage DEF PageInv
<1> HIDE DEF answer
<1> DEFINE c == answer.next_cursor
<1>4. page.phase \in Loading /\ page'.phase \in Loading /\ page'.phase \in {"hydrating", "hydrated"}
  BY <1>1, <1>2 DEF PageInv, Loading
<1>5. page.cursor \in 0 .. Latest /\ page.seen = UpTo(page.cursor)
  BY <1>2 DEF PageInv
<1>6. /\ page'.cursor = c /\ page'.handoff = c /\ page'.seen = page.seen \cup answer.rows
      /\ page'.shown = page.shown
      /\ page'.status = page.status /\ page'.finalizing = page.finalizing /\ DOMAIN page' = DOMAIN page
  BY <1>1, <1>2 DEF PageInv
<1> HIDE DEF c
<1>7. c \in 0 .. Latest /\ page.cursor <= c /\ answer.rows = UpTo(c) \ UpTo(page.cursor)
  BY <1>2, <1>3, <1>5 DEF c
<1>8. page'.seen = UpTo(c)
  BY <1>2, <1>5, <1>6, <1>7, Nested
<1>9. PageInv'
  BY <1>1, <1>2, <1>4, <1>6, <1>7, <1>8, SameLatest DEF PageInv
<1>10. LoadInv'
  BY <1>1, <1>2, <1>4, <1>6, <1>7 DEF IInv, LoadInv
<1>11. StreamInv' /\ CallsInv'
  <2>1. StreamInv'
    BY <1>1, <1>2, SameLatest DEF IInv, StreamInv, Consecutive
  <2>2. QED
    BY <1>1, <1>6, <2>1, SameCalls DEF IInv
<1>12. QED
  BY <1>1, <1>9, <1>10, <1>11, SameLog DEF IInv

\* Starting the stream keeps the invariant.
LEMMA StartKeeps ==
  ASSUME IInv, start
  PROVE  IInv'
<1>1. /\ UNCHANGED <<db, tx>> /\ page.phase = "hydrated"
      /\ page' = [page EXCEPT !.phase = "following", !.shown = page.seen]
      /\ stream' = Opened(page.cursor)
      /\ calls' = [calls EXCEPT !.runs = @ \cup {[of |-> 0, reply |-> Pending]}]
  BY DEF start
<1>2. /\ page'.phase = "following" /\ page'.cursor = page.cursor /\ page'.shown = UpTo(page.cursor)
      /\ page'.handoff = page.handoff /\ page'.seen = page.seen /\ page'.status = page.status
      /\ page'.finalizing = page.finalizing /\ DOMAIN page' = DOMAIN page
      /\ page'.phase \notin Loading
  BY <1>1 DEF IInv, PageInv, Loading
<1>3. page.handoff <= page.cursor /\ page.shown = {}
  BY <1>1 DEF IInv, LoadInv, Loading
<1>4. PageInv'
  <2>1. page.cursor \in 0 .. Latest /\ page.cursor <= page.cursor
    BY LatestFilled DEF IInv, PageInv
  <2>2. (\E n \in 0 .. Latest : page.shown = UpTo(n) /\ page.cursor <= n /\ page.handoff <= n)'
    BY <1>1, <1>2, <1>3, <2>1, SameLatest
  <2>3. QED
    BY <1>1, <1>2, <2>2, SameLatest DEF IInv, PageInv
<1>5. StreamInv'
  BY <1>1, <1>2, OpenedKeeps, LatestFilled, SameLatest DEF IInv, PageInv
<1>6. CallsInv'
  <2>1. [of |-> 0, reply |-> Pending] \in [of : 0 .. MaxRows, reply : STATUSES \cup {Pending}]
    BY StreamAssumption DEF StreamAssumption
  <2>2. ~Terminal(Pending)
    BY DEF Terminal, Pending
  <2>3. page.shown \subseteq page'.shown
    BY <1>3
  <2>4. QED
    BY <1>1, <2>1, <2>2, <2>3, SameLatest DEF IInv, CallsInv
<1>7. QED
  BY <1>1, <1>2, <1>4, <1>5, <1>6, SameLog, SameLoad DEF IInv

\* The reconciliation is asked for, or is being done.
LEMMA AskedKeeps ==
  ASSUME IInv, UNCHANGED db, Terminal(db.status), page.shown \subseteq page'.shown,
         page.phase \notin Loading, NEW c, DOMAIN c = DOMAIN calls, c.runs \subseteq calls.runs, c.final = calls.final,
         calls' = Asked(page, c)
  PROVE  CallsInv'
<1>1. CASE page.finalizing
  BY <1>1, SameLatest DEF IInv, CallsInv, Asked
<1>2. CASE ~page.finalizing
  <2> DEFINE f == [reply |-> Pending, cursor |-> page.handoff, rows |-> {}, more |-> TRUE]
  <2>1. page.handoff \in 0 .. Latest /\ UpTo(page.handoff) \subseteq page.shown
    BY Nested, LatestFilled DEF IInv, PageInv
  <2>2. /\ f.reply = Pending /\ Pending # "none" /\ f.cursor = page.handoff /\ f.rows = {} /\ f.more = TRUE
        /\ f \in [reply : STATUSES \cup {Pending, "none"}, cursor : 0 .. Latest,
                  rows : SUBSET Rows, more : BOOLEAN]
    BY <2>1 DEF Pending
  <2>3. calls' = [c EXCEPT !.final = f]
    BY <1>2 DEF Asked
  <2> HIDE DEF f
  <2>4. calls'.final = f /\ calls'.runs = c.runs /\ DOMAIN calls' = {"runs", "final"}
    BY <2>3 DEF IInv, CallsInv
  <2>5. (calls.final.rows \subseteq UpTo(calls.final.cursor))'
        /\ (UpTo(calls.final.cursor) \subseteq page.shown \cup calls.final.rows)'
    BY <2>1, <2>2, <2>4, SameLatest
  <2>6. QED
    BY <2>2, <2>4, <2>5, SameLatest DEF IInv, CallsInv
<1>3. QED
  BY <1>1, <1>2

\* The frame that arrives is the row after the cursor.
LEMMA ReceiveKeeps ==
  ASSUME IInv, receive
  PROVE  IInv'
<1> DEFINE row == Head(stream.wire)
           known == {o \in page.seen : o.sequence = row.sequence}
           taken == [page EXCEPT !.cursor = row.sequence, !.seen = @ \cup {row},
                                 !.shown = IF \E o \in @ : o.sequence = row.sequence THEN @
                                           ELSE @ \cup {row}]
<1>1. /\ UNCHANGED <<db, tx>> /\ page.phase = "following" /\ stream.wire # <<>>
      /\ page.phase \notin Loading
  BY DEF receive, Loading
<1>2. LogInv /\ StreamInv /\ PageInv /\ CallsInv /\ Latest \in Nat /\ Filled(db.rows, Latest)
      /\ page.cursor \in 0 .. Latest /\ Latest <= MaxRows
  BY LatestFilled DEF IInv, PageInv
<1>3. /\ row \in db.rows /\ row.sequence = page.cursor + 1
      /\ Consecutive(Tail(stream.wire), page.cursor + 1)
      /\ Len(Tail(stream.wire)) = Len(stream.wire) - 1 /\ Len(stream.wire) \in Nat
  BY <1>1, <1>2, FirstOf DEF StreamInv
<1>4. known = {}
  BY <1>2, <1>3 DEF PageInv, UpTo
<1>5. /\ stream' = IF page'.phase = "stopped" THEN NoStream
                   ELSE [stream EXCEPT !.wire = Tail(@)]
      /\ \/ page' = taken /\ UNCHANGED calls
         \/ Terminal(row.state) /\ page' = Reconciling(taken) /\ calls' = Asked(page, calls)
         \/ /\ page' = taken
            /\ calls' = [calls EXCEPT !.runs = @ \cup {[of |-> row.sequence, reply |-> Pending]}]
  <2> DEFINE C1 == known = {row}  C2 == known \notin {{}, {row}}
             C3 == known = {} /\ row.state = "none"  C4 == known = {} /\ Terminal(row.state)
             P1 == page' = [page EXCEPT !.cursor = row.sequence] /\ UNCHANGED calls
             P2 == page' = [page EXCEPT !.phase = "stopped"] /\ UNCHANGED calls
             P3 == page' = taken /\ UNCHANGED calls
             P4 == /\ page' = Reconciling(taken)
                   /\ calls' = Asked(page, calls)
             P5 == /\ page' = taken
                   /\ calls' = [calls EXCEPT !.runs = @ \cup {[of |-> row.sequence, reply |-> Pending]}]
  <2>1. /\ CASE C1 -> P1 [] C2 -> P2 [] C3 -> P3 [] C4 -> P4 [] OTHER -> P5
        /\ stream' = IF page'.phase = "stopped" THEN NoStream ELSE [stream EXCEPT !.wire = Tail(@)]
    BY DEF receive
  <2>2. ~C1 /\ ~C2 /\ (C4 => Terminal(row.state))
    BY <1>4
  <2> HIDE DEF C1, C2, C3, C4, P1, P2, P3, P4, P5
  <2>3. P3 \/ (C4 /\ P4) \/ P5
    BY <2>1, <2>2
  <2>4. QED
    BY <2>1, <2>2, <2>3 DEF P3, P4, P5
<1> HIDE DEF known, row, taken
<1>6. /\ page'.cursor = page.cursor + 1 /\ page'.seen = page.seen \cup {row}
      /\ page'.shown = (IF \E o \in page.shown : o.sequence = row.sequence THEN page.shown
                        ELSE page.shown \cup {row})
      /\ page'.phase = page.phase /\ page'.phase = "following"
      /\ page'.status = page.status /\ page'.handoff = page.handoff
      /\ page'.finalizing \in BOOLEAN /\ DOMAIN page' = DOMAIN page
  <2>1. DOMAIN page = {"phase", "status", "cursor", "handoff", "seen", "shown", "finalizing"}
        /\ page.finalizing \in BOOLEAN
    BY <1>2 DEF PageInv
  <2>2. /\ taken.cursor = page.cursor + 1 /\ taken.seen = page.seen \cup {row}
        /\ taken.shown = (IF \E o \in page.shown : o.sequence = row.sequence THEN page.shown
                          ELSE page.shown \cup {row})
        /\ taken.phase = "following" /\ taken.status = page.status /\ taken.handoff = page.handoff
        /\ taken.finalizing = page.finalizing /\ DOMAIN taken = DOMAIN page
    BY <1>1, <1>3, <2>1 DEF taken
  <2>3. page' = taken \/ page' = [taken EXCEPT !.finalizing = TRUE]
    BY <1>5 DEF Reconciling
  <2>4. QED
    BY <1>1, <2>1, <2>2, <2>3
<1>7. page.cursor + 1 \in 0 .. Latest /\ page.cursor + 1 \in 1 .. MaxRows
  <2>1. row.sequence \in 1 .. Latest
    BY <1>2, <1>3 DEF Filled
  <2>2. QED
    BY <1>2, <1>3, <2>1, StreamAssumption DEF StreamAssumption
<1>8. UpTo(page.cursor + 1) = UpTo(page.cursor) \cup {row}
  <2>1. ASSUME NEW r \in db.rows PROVE r.sequence <= page.cursor + 1 <=> r.sequence <= page.cursor \/ r = row
    <3>1. r.sequence \in Nat /\ row.sequence = page.cursor + 1 /\ row \in db.rows
      BY <1>2, <1>3 DEF Filled
    <3>2. r.sequence = page.cursor + 1 <=> r = row
      BY <1>2, <3>1 DEF Filled
    <3>3. QED
      BY <1>2, <3>1, <3>2
  <2>2. QED
    BY <1>3, <2>1 DEF UpTo
<1>14. page'.phase \in Loading \cup {"following", "reconnecting", "stopped"} /\ page'.phase # "stopped"
  BY <1>6
<1>9. PageInv'
  <2>1. PICK n \in 0 .. Latest : page.shown = UpTo(n) /\ page.cursor <= n /\ page.handoff <= n
    BY <1>1, <1>2 DEF PageInv
  <2>2. (\E o \in page.shown : o.sequence = row.sequence) <=> page.cursor + 1 <= n
    BY <1>2, <1>3, <2>1 DEF UpTo, Filled
  <2>3. CASE page.cursor + 1 <= n
    <3>1. page'.shown = UpTo(n) /\ page'.cursor <= n /\ page'.handoff <= n
      BY <1>6, <2>1, <2>2, <2>3
    <3>2. (\E m \in 0 .. Latest : page.shown = UpTo(m) /\ page.cursor <= m /\ page.handoff <= m)'
      BY <1>1, <2>1, <3>1, SameLatest
    <3>3. QED
      BY <1>1, <1>2, <1>6, <1>7, <1>8, <1>14, <3>2, SameLatest DEF PageInv
  <2>4. CASE ~(page.cursor + 1 <= n)
    <3>1. n = page.cursor
      BY <1>2, <2>1, <2>4
    <3>2. page'.shown = UpTo(page.cursor + 1) /\ page.handoff <= page.cursor + 1
          /\ page'.cursor = page.cursor + 1 /\ page'.handoff = page.handoff
      <4>1. page.cursor \in Nat /\ page.handoff \in Nat /\ page.handoff <= page.cursor
        BY <1>2, <2>1, <3>1 DEF PageInv
      <4>2. page.handoff <= page.cursor + 1
        BY ONLY <4>1
      <4>3. page.shown = UpTo(page.cursor)
        BY <2>1, <3>1
      <4>4. page'.shown = page.shown \cup {row}
        BY <1>6, <2>2, <2>4
      <4>5. QED
        BY <1>6, <1>8, <4>2, <4>3, <4>4
    <3>3. (\E m \in 0 .. Latest : page.shown = UpTo(m) /\ page.cursor <= m /\ page.handoff <= m)'
      BY <1>1, <1>2, <1>7, <3>2, SameLatest
    <3>4. QED
      BY <1>1, <1>2, <1>6, <1>7, <1>8, <1>14, <3>3, SameLatest DEF PageInv
  <2>5. QED
    BY <2>3, <2>4
<1>10. StreamInv'
  <2>1. stream' = [stream EXCEPT !.wire = Tail(stream.wire)]
    BY <1>5, <1>6
  <2>2. /\ stream'.pc = stream.pc /\ stream'.after = stream.after /\ stream'.full = stream.full
        /\ stream'.records = stream.records /\ stream'.wire = Tail(stream.wire)
        /\ stream'.status = stream.status /\ DOMAIN stream' = DOMAIN stream
    BY <1>2, <2>1 DEF StreamInv, NoStream
  <2>3. stream.pc \notin {"none", "lost"} /\ stream.after = page.cursor + Len(stream.wire)
    BY <1>1, <1>2 DEF StreamInv
  <2>4. stream'.after = page'.cursor + Len(stream'.wire)
    BY <1>2, <1>3, <1>6, <2>2, <2>3
  <2>5. Consecutive(stream.wire, page.cursor)' /\ Consecutive(stream.records, stream.after)'
    BY <1>1, <1>2, <1>3, <1>6, <2>2 DEF StreamInv, Consecutive
  <2>6. QED
    BY <1>1, <1>2, <1>6, <2>2, <2>3, <2>4, <2>5, SameLatest DEF StreamInv
<1>11. page.shown \subseteq page'.shown
  BY <1>6
<1>12. CallsInv'
  <2>1. CASE UNCHANGED calls
    BY <1>1, <1>2, <1>11, <2>1, SameCalls
  <2>2. CASE Terminal(row.state) /\ calls' = Asked(page, calls)
    <3>1. Terminal(db.status)
      BY <1>2, <1>3, <2>2 DEF LogInv, Coherent
    <3>2. QED
      BY <1>1, <1>11, <2>2, <3>1, AskedKeeps
  <2>3. CASE calls' = [calls EXCEPT !.runs = @ \cup {[of |-> row.sequence, reply |-> Pending]}]
    <3>1. [of |-> row.sequence, reply |-> Pending] \in [of : 0 .. MaxRows, reply : STATUSES \cup {Pending}]
      BY <1>3, <1>7
    <3>2. ~Terminal([of |-> row.sequence, reply |-> Pending].reply)
      BY DEF Terminal, Pending
    <3>3. QED
      BY <1>1, <1>2, <1>11, <2>3, <3>1, <3>2, SameLatest DEF CallsInv
  <2>4. QED
    BY <1>5, <2>1, <2>2, <2>3
<1>13. QED
  BY <1>1, <1>2, <1>6, <1>9, <1>10, <1>12, SameLog, SameLoad DEF IInv

\* An answer that arrives keeps the invariant.
LEMMA AnsweredKeeps ==
  ASSUME IInv, answered
  PROVE  IInv'
<1>1. PICK call \in calls.runs :
        /\ call.reply # Pending
        /\ \/ /\ Terminal(call.reply)
              /\ page' = Reconciling([page EXCEPT !.status = call.reply])
              /\ calls' = Asked(page, [calls EXCEPT !.runs = @ \ {call}])
           \/ /\ page' = [page EXCEPT !.status = call.reply]
              /\ calls' = [calls EXCEPT !.runs = @ \ {call}]
  BY DEF answered
<1>2. /\ UNCHANGED <<db, tx, stream>> /\ LogInv /\ StreamInv /\ PageInv /\ CallsInv
      /\ page.phase \notin Loading
  BY <1>1 DEF IInv, LoadInv, answered
<1>3. call.reply \in STATUSES /\ (Terminal(call.reply) => Terminal(db.status))
  BY <1>1, <1>2 DEF CallsInv
<1>4. /\ page'.cursor = page.cursor /\ page'.phase = page.phase /\ page'.shown = page.shown
      /\ page'.seen = page.seen /\ page'.handoff = page.handoff /\ page'.status \in STATUSES
      /\ page'.finalizing \in BOOLEAN /\ DOMAIN page' = DOMAIN page
  BY <1>1, <1>2, <1>3 DEF PageInv, Reconciling
<1>5. StreamInv' /\ PageInv'
  BY <1>2, <1>4, SameStream, SameLatest DEF PageInv
<1>6. CallsInv'
  <2> DEFINE rest == [calls EXCEPT !.runs = @ \ {call}]
  <2>1. /\ DOMAIN rest = DOMAIN calls /\ rest.runs = calls.runs \ {call}
        /\ rest.final = calls.final
    BY <1>2 DEF CallsInv
  <2>2. CASE Terminal(call.reply) /\ calls' = Asked(page, rest)
    <3> HIDE DEF rest
    <3>1. rest.runs \subseteq calls.runs
      BY <2>1
    <3>2. QED
      BY <1>2, <1>3, <1>4, <2>1, <2>2, <3>1, AskedKeeps
  <2>3. CASE calls' = rest
    BY <1>2, <1>4, <2>3, SameLatest DEF CallsInv
  <2>4. QED
    BY <1>1, <2>2, <2>3
<1>7. QED
  BY <1>2, <1>4, <1>5, <1>6, SameLog, SameLoad DEF IInv

\* Nothing is asked for any more.
LEMMA SettledKeeps ==
  ASSUME IInv, UNCHANGED db, calls' = [calls EXCEPT !.final = NoFinal]
  PROVE  CallsInv'
<1>1. Latest \in Nat /\ Filled(db.rows, Latest)
  BY LatestFilled DEF IInv
<1>2. UpTo(0) = {}
  BY <1>1 DEF UpTo, Filled
<1>3. calls'.final = NoFinal /\ calls'.runs = calls.runs /\ DOMAIN calls' = DOMAIN calls
  BY DEF IInv, CallsInv
<1>4. NoFinal \in [reply : STATUSES \cup {Pending, "none"}, cursor : 0 .. Latest,
                   rows : SUBSET Rows, more : BOOLEAN]
  BY <1>1 DEF NoFinal
<1>5. NoFinal.reply = "none" /\ NoFinal.cursor = 0 /\ NoFinal.rows = {} /\ NoFinal.more = FALSE
  BY DEF NoFinal
<1>6. QED
  BY <1>2, <1>3, <1>4, <1>5, SameLatest DEF IInv, CallsInv

\* The final reconciliation keeps the invariant.
LEMMA ReconcileKeeps ==
  ASSUME IInv, reconcileTerminal
  PROVE  IInv'
<1> DEFINE f == calls.final
<1>1. /\ UNCHANGED <<db, tx>> /\ f.reply \in STATUSES /\ ~f.more
      /\ calls' = [calls EXCEPT !.final = NoFinal]
      /\ page' = [page EXCEPT !.status = f.reply, !.shown = @ \cup f.rows,
                              !.finalizing = Terminal(f.reply),
                              !.phase = IF Terminal(f.reply) THEN "stopped" ELSE @]
      /\ stream' = IF page'.phase = "stopped" THEN NoStream ELSE stream
  BY DEF reconcileTerminal
<1>2. /\ LogInv /\ StreamInv /\ PageInv /\ CallsInv /\ Latest \in Nat
      /\ page.phase \notin Loading
  BY <1>1, LatestFilled DEF IInv, LoadInv, STATUSES
<1>3. /\ f.cursor \in 0 .. Latest /\ f.rows \subseteq UpTo(f.cursor)
      /\ UpTo(f.cursor) \subseteq page.shown \cup f.rows /\ EndsBy(f.cursor)
  BY <1>1, <1>2 DEF CallsInv, STATUSES
<1>4. /\ page'.cursor = page.cursor /\ page'.handoff = page.handoff /\ page'.seen = page.seen
      /\ page'.shown = page.shown \cup f.rows /\ page'.status \in STATUSES
      /\ page'.finalizing \in BOOLEAN /\ DOMAIN page' = DOMAIN page
      /\ page'.phase \in {page.phase, "stopped"}
  BY <1>1, <1>2 DEF PageInv, Terminal
<1> HIDE DEF f
<1>5. PICK n \in 0 .. Latest : page.shown = UpTo(n) /\ page.cursor <= n /\ page.handoff <= n
  BY <1>2 DEF PageInv
<1>6. page'.shown = UpTo(IF f.cursor <= n THEN n ELSE f.cursor)
  <2>1. page'.shown = UpTo(n) \cup UpTo(f.cursor)
    BY <1>3, <1>4, <1>5
  <2>2. QED
    BY <1>2, <1>3, <1>5, <2>1, Nested
<1>7. \E row \in page'.shown : Terminal(row.state)
  BY <1>3, <1>4 DEF EndsBy
<1>8. PageInv'
  <2>1. (\E m \in 0 .. Latest : page.shown = UpTo(m) /\ page.cursor <= m /\ page.handoff <= m)'
    <3>1. /\ (IF f.cursor <= n THEN n ELSE f.cursor) \in 0 .. Latest
          /\ n <= (IF f.cursor <= n THEN n ELSE f.cursor)
      BY <1>2, <1>3, <1>5
    <3> DEFINE m == IF f.cursor <= n THEN n ELSE f.cursor
    <3>2. m \in 0 .. Latest /\ page'.shown = UpTo(m) /\ n <= m
      BY <1>6, <3>1
    <3> HIDE DEF m
    <3>3. page.cursor <= m /\ page.handoff <= m
      BY <1>2, <1>5, <3>2 DEF PageInv
    <3>4. QED
      BY <1>1, <1>4, <3>2, <3>3, SameLatest
  <2>2. QED
    BY <1>1, <1>2, <1>4, <1>7, <2>1, SameLatest DEF PageInv
<1>9. StreamInv' /\ page'.phase \notin Loading
  <2>0. page'.phase \notin Loading
    BY <1>2, <1>4 DEF Loading
  <2>1. CASE page'.phase = "stopped"
    <3>1. StreamInv'
      BY <1>1, <1>2, <2>1, DroppedKeeps, SameLatest
    <3>2. QED
      BY <2>0, <3>1
  <2>2. CASE page'.phase # "stopped"
    <3>1. StreamInv'
      BY <1>1, <1>2, <1>4, <2>2, SameStream
    <3>2. QED
      BY <2>0, <3>1
  <2>3. QED
    BY <2>1, <2>2
<1>10. QED
  BY <1>1, <1>2, <1>8, <1>9, SameLog, SameLoad, SettledKeeps DEF IInv

\* A final reconciliation that fails keeps the invariant.
LEMMA ReconcileFailsKeeps ==
  ASSUME IInv, reconcile_fails
  PROVE  IInv'
<1>1. /\ UNCHANGED <<db, tx, stream>> /\ page' = [page EXCEPT !.finalizing = FALSE]
      /\ calls' = [calls EXCEPT !.final = NoFinal]
  BY DEF reconcile_fails
<1>2. PageInv' /\ page'.cursor = page.cursor /\ page'.phase = page.phase
  BY <1>1, SameLatest DEF IInv, PageInv
<1>3. LoadInv'
  BY <1>1, <1>2 DEF IInv, PageInv, CallsInv, LoadInv, NoFinal
<1>4. QED
  BY <1>1, <1>2, <1>3, SameLog, SameStream, SettledKeeps DEF IInv

\* A stream that breaks keeps the invariant.
LEMMA OnErrorKeeps ==
  ASSUME IInv, onerror
  PROVE  IInv'
<1>1. /\ UNCHANGED <<db, tx, calls>> /\ page' = [page EXCEPT !.phase = "reconnecting"]
      /\ stream' = NoStream /\ page.phase = "following"
  BY DEF onerror
<1>2. PageInv' /\ page'.shown = page.shown /\ page'.phase \notin Loading
  BY <1>1, SameLatest DEF IInv, PageInv, Loading
<1>3. QED
  BY <1>1, <1>2, SameLoad, SameLog, SameLatest, SameCalls, DroppedKeeps, LatestFilled DEF IInv

\* A connection keeps the invariant.
LEMMA ConnectKeeps ==
  ASSUME IInv, connect
  PROVE  IInv'
<1>1. /\ UNCHANGED <<db, tx, calls>> /\ page' = [page EXCEPT !.phase = "following"]
      /\ stream' = Opened(page.cursor) /\ page.phase = "reconnecting"
  BY DEF connect
<1>2. /\ PageInv' /\ page'.shown = page.shown /\ page'.cursor = page.cursor
      /\ page'.phase = "following" /\ page'.phase \notin Loading
  BY <1>1, SameLatest DEF IInv, PageInv, Loading
<1>3. Latest' \in Nat /\ page'.cursor \in 0 .. Latest'
  BY <1>1, <1>2, SameLatest, LatestFilled DEF IInv, PageInv
<1>4. QED
  BY <1>1, <1>2, <1>3, SameLog, SameLoad, SameCalls, OpenedKeeps DEF IInv

-----------------------------------------------------------------------------
(* The invariant and what follows from it.                                 *)

\* An empty log and a closed page.
LEMMA InitHolds == Init => IInv
<1> SUFFICES ASSUME Init PROVE IInv
  OBVIOUS
<1>1. Latest = 0 /\ Gapless(db.rows) /\ \A n : UpTo(n) = {}
  BY NothingIsGapless DEF Init, Latest, UpTo
<1>2. LogInv
  BY <1>1 DEF Init, LogInv, Coherent, STATUSES, Terminal
<1>3. StreamInv
  BY <1>1 DEF Init, StreamInv, NoStream, Consecutive, Terminal
<1>4. PageInv
  BY <1>1 DEF Init, PageInv, STATUSES, Loading
<1>5. CallsInv /\ LoadInv
  BY <1>1 DEF Init, CallsInv, NoFinal, LoadInv
<1>6. QED
  BY <1>2, <1>3, <1>4, <1>5 DEF IInv

\* Every step keeps the invariant.
LEMMA StepKeeps == IInv /\ [Next]_vars => IInv'
<1> SUFFICES ASSUME IInv, [Next]_vars PROVE IInv'
  OBVIOUS
<1>1. CASE UNCHANGED vars
  BY <1>1, SameLog, SameStream, SamePage, SameCalls, SameLoad DEF vars, IInv
<1>2. ASSUME NEW w \in Writers, append_event_allocated(w) \/ Commit(w) \/ Rollback(w) PROVE IInv'
  BY <1>2, AppendKeeps, CommitKeeps, RollbackKeeps
<1>3. CASE Server
  BY <1>3, PollKeeps, FramesKeep, ServeKeeps, ServeFinalKeeps DEF Server
<1>4. CASE Dashboard
  BY <1>4, LoadKeeps, GetAllEventsKeeps, StartKeeps, ReceiveKeeps, AnsweredKeeps, ReconcileKeeps,
     OnErrorKeeps, ConnectKeeps DEF Dashboard
<1>5. CASE load_fails \/ getRun_fails \/ reconcile_fails \/ lose
  BY <1>5, LoadFailsKeeps, GetRunFailsKeeps, ReconcileFailsKeeps, LoseKeeps
<1>6. QED
  BY <1>1, <1>2, <1>3, <1>4, <1>5 DEF Next

\* The invariant of the specification.
LEMMA Invariant == Spec => []IInv
<1>1. QED
  BY InitHolds, StepKeeps, PTL DEF Spec

\* Whatever the mixture of pages, frames, reconnections and reconciliations, the page
\* shows the beginning of the committed evidence (ShownIsPrefix).
THEOREM ShowsPrefix == Spec => []ShownIsPrefix
<1>1. IInv => ShownIsPrefix
  <2> SUFFICES ASSUME IInv PROVE ShownIsPrefix
    OBVIOUS
  <2>1. PICK n \in 0 .. Latest : page.shown = UpTo(n)
    <3>1. Latest \in Nat /\ Filled(db.rows, Latest)
      BY LatestFilled DEF IInv
    <3>2. UpTo(0) = {} /\ 0 \in 0 .. Latest
      BY <3>1 DEF UpTo, Filled
    <3>3. QED
      BY <3>2 DEF IInv, PageInv, LoadInv
  <2>2. Filled(page.shown, n)
    BY <2>1, LatestFilled DEF IInv, UpTo, Filled
  <2>3. n \in Nat
    BY LatestFilled DEF IInv
  <2>4. QED
    BY <2>1, <2>2, <2>3, Greatest DEF ShownIsPrefix
<1>2. QED
  BY <1>1, Invariant, PTL

\* A stream that closed by itself and a page that stopped have the event that ended
\* the Run (EndsComplete).
THEOREM StopsAtTheEnd == Spec => []EndsComplete
<1>1. IInv => EndsComplete
  BY DEF IInv, StreamInv, PageInv, EndsBy, EndsComplete
<1>2. QED
  BY <1>1, Invariant, PTL

\* Every variable keeps its type, whatever the interleaving (TypeOK).
THEOREM Types == Spec => []TypeOK
<1>1. IInv => TypeOK
  <2> SUFFICES ASSUME IInv PROVE TypeOK
    OBVIOUS
  <2>1. Latest \in Nat /\ Latest <= MaxRows /\ Filled(db.rows, Latest) /\ MaxRows \in Nat
    BY LatestFilled, StreamAssumption DEF IInv, StreamAssumption
  <2>2. 0 .. Latest \subseteq 0 .. MaxRows /\ db.rows \subseteq Rows
    BY <2>1 DEF Filled
  <2>3. \A n : UpTo(n) \subseteq Rows
    BY <2>2 DEF UpTo
  <2>4. ToSet(stream.wire) \cup ToSet(stream.records) \subseteq Rows
    <3>1. stream.wire \in Seq(db.rows) /\ stream.records \in Seq(db.rows)
      BY DEF IInv, StreamInv, Consecutive
    <3>2. QED
      BY <2>2, <3>1 DEF ToSet
  <2>5. db.status \in STATUSES /\ DOMAIN tx \subseteq Writers
        /\ \A w \in DOMAIN tx : tx[w].status \in STATUSES /\ tx[w].rows \subseteq Rows
    BY DEF IInv, LogInv, Coherent, Gapless, Filled
  <2>6. /\ stream.pc \in {"none", "poll", "read", "send", "closed", "lost"}
        /\ stream.after \in 0 .. MaxRows
    BY <2>2 DEF IInv, StreamInv
  <2>7. /\ page.phase \in Loading \cup {"following", "reconnecting", "stopped"}
        /\ page.status \in STATUSES /\ page.cursor \in 0 .. MaxRows
        /\ page.seen \subseteq Rows /\ page.shown \subseteq Rows
    <3>1. page.shown \subseteq Rows
      BY <2>3 DEF IInv, PageInv, LoadInv
    <3>2. QED
      BY <2>2, <2>3, <3>1 DEF IInv, PageInv
  <2>8. /\ calls.runs \subseteq [of : 0 .. MaxRows, reply : STATUSES \cup {Pending}]
        /\ calls.final.reply \in STATUSES \cup {Pending, "none"}
    BY DEF IInv, CallsInv
  <2>9. QED
    BY <2>2, <2>4, <2>5, <2>6, <2>7, <2>8 DEF TypeOK, Loading
<1>2. QED
  BY <1>1, Invariant, PTL
=============================================================================
