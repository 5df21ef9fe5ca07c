------------------------- MODULE FaultEngineProofs --------------------------
(***************************************************************************)
(* Proofs about FaultEngine, for every set of requests, every compiled     *)
(* plan, every budget and every choice of the draws.  The invariant says   *)
(* of the committed rows what each attempt's evidence looks like (Base),   *)
(* how it relates to the checkpoint (Frame), and what lies beyond the      *)
(* checkpoint when the process dies there (Beyond); and of the call in     *)
(* memory what it still knows (Process).  Most of the proof follows one    *)
(* attempt through the gateway, phase by phase.                            *)
(***************************************************************************)
EXTENDS FaultEngine, TLAPS, FiniteSetTheorems


-----------------------------------------------------------------------------
(* Sequences that are picked out of others.                                *)

\* Numbers of a finite set are told apart by how many are smaller.
LEMMA Ranks ==
  ASSUME NEW I \in SUBSET Nat, IsFiniteSet(I), NEW k \in 1 .. Cardinality(I)
  PROVE  \E i \in I : Cardinality({j \in I : j < i}) = k - 1
<1> DEFINE below(i) == {j \in I : j < i}
           rank == [i \in I |-> Cardinality(below(i))]
           n == Cardinality(I)
<1>1. n \in Nat
  BY FS_CardinalityType
<1>2. ASSUME NEW i \in I PROVE IsFiniteSet(below(i)) /\ Cardinality(below(i)) \in 0 .. n - 1
  <2>1. IsFiniteSet(I \ {i}) /\ Cardinality(I \ {i}) = n - 1
    BY FS_RemoveElement
  <2>2. below(i) \in SUBSET (I \ {i})
    OBVIOUS
  <2>3. IsFiniteSet(below(i)) /\ Cardinality(below(i)) <= n - 1
    <3> HIDE DEF below, n
    <3>1. QED
      BY <2>1, <2>2, FS_Subset
  <2>4. Cardinality(below(i)) \in Nat
    BY <2>3, FS_CardinalityType
  <2> HIDE DEF below, n
  <2>5. QED
    BY <1>1, <2>3, <2>4
<1>3. ASSUME NEW i \in I, NEW o \in I, i < o PROVE Cardinality(below(i)) < Cardinality(below(o))
  <2>1. below(i) \in SUBSET below(o) /\ i \in below(o) /\ i \notin below(i)
    <3>1. \A x, y, z \in Nat : (x < y /\ y < z => x < z) /\ ~(x < x)
      OBVIOUS
    <3>2. i \in Nat /\ o \in Nat /\ \A j \in I : j \in Nat
      OBVIOUS
    <3>3. QED
      BY <1>3, <3>1, <3>2
  <2>2. IsFiniteSet(below(o)) /\ Cardinality(below(i)) \in Nat /\ Cardinality(below(o)) \in Nat
    <3> HIDE DEF below
    <3>1. QED
      BY <1>2
  <2> HIDE DEF below
  <2>3. Cardinality(below(i)) <= Cardinality(below(o))
        /\ (Cardinality(below(o)) = Cardinality(below(i)) => below(o) = below(i))
    BY <2>1, <2>2, FS_Subset
  <2>4. QED
    BY <2>1, <2>2, <2>3
<1>4. ASSUME NEW i \in I, NEW o \in I, Cardinality(below(i)) = Cardinality(below(o)) PROVE i = o
  <2>1. i \in Nat /\ o \in Nat
    OBVIOUS
  <2>2. Cardinality(below(i)) \in Nat
    <3> HIDE DEF below
    <3>1. QED
      BY <1>2
  <2> HIDE DEF below
  <2>3. QED
    BY <1>3, <1>4, <2>1, <2>2
<1> HIDE DEF below
<1>5. rank \in Injection(I, 0 .. n - 1)
  BY <1>2, <1>4 DEF Injection, IsInjective
<1>6. IsFiniteSet(0 .. n - 1) /\ Cardinality(0 .. n - 1) = n
  <2> HIDE DEF n
  <2>1. n - 1 \in Int /\ (0 > n - 1 => 0 = n) /\ (~(0 > n - 1) => n - 1 - 0 + 1 = n)
    BY <1>1
  <2>2. \A x, y \in Int : IsFiniteSet(x .. y) /\ Cardinality(x .. y) = IF x > y THEN 0 ELSE y - x + 1
    BY FS_Interval
  <2>3. QED
    BY <2>1, <2>2
<1>7. rank \in Surjection(I, 0 .. n - 1)
  <2> HIDE DEF rank
  <2>1. QED
    BY <1>5, <1>6, FS_Injection
<1>8. k - 1 \in 0 .. n - 1
  BY <1>1
<1>9. PICK i \in I : rank[i] = k - 1
  <2> HIDE DEF rank, n
  <2>1. QED
    BY <1>7, <1>8 DEF Surjection
<1>10. QED
  BY <1>9 DEF below

\* The places the elements are taken from.
Places(I) == [k \in 1 .. Cardinality(I) |-> CHOOSE i \in I : Cardinality({j \in I : j < i}) = k - 1]

\* Each place of the set is taken from once.
LEMMA PlacesAre ==
  ASSUME NEW I \in SUBSET Nat, IsFiniteSet(I)
  PROVE  /\ Places(I) \in Bijection(1 .. Cardinality(I), I)
         /\ Cardinality(I) \in Nat
<1> DEFINE n == Cardinality(I)  f == Places(I)
           below(i) == {j \in I : j < i}
<1>1. n \in Nat
  BY FS_CardinalityType
<1>2. ASSUME NEW k \in 1 .. n PROVE f[k] \in I /\ Cardinality(below(f[k])) = k - 1
  <2>1. \E i \in I : Cardinality(below(i)) = k - 1
    BY Ranks, Zenon
  <2>2. f[k] = CHOOSE i \in I : Cardinality(below(i)) = k - 1
    BY DEF Places
  <2> HIDE DEF f, below
  <2>3. QED
    BY <2>1, <2>2
<1>3. f \in [1 .. n -> I]
  BY <1>2 DEF Places
<1> HIDE DEF f, below
<1>4. f \in Injection(1 .. n, I)
  <2>1. \A k, l \in 1 .. n : f[k] = f[l] => k = l
    BY <1>1, <1>2
  <2>2. QED
    BY <1>3, <2>1 DEF Injection, IsInjective
<1>5. IsFiniteSet(1 .. n) /\ Cardinality(1 .. n) = n
  <2> HIDE DEF n
  <2>1. 1 \in Int /\ n \in Int /\ (1 > n => 0 = n) /\ (~(1 > n) => n - 1 + 1 = n)
    BY <1>1
  <2>2. \A x, y \in Int : IsFiniteSet(x .. y) /\ Cardinality(x .. y) = IF x > y THEN 0 ELSE y - x + 1
    BY FS_Interval
  <2>3. QED
    BY <2>1, <2>2
<1>6. f \in Surjection(1 .. n, I)
  BY <1>4, <1>5, FS_Injection
<1>7. QED
  BY <1>1, <1>4, <1>6 DEF Bijection, f

\* Every element at a place of the set is picked once, and no other.
LEMMA Picks ==
  ASSUME NEW T, NEW s \in Seq(T), NEW I \in SUBSET DOMAIN s
  PROVE  /\ Picked(s, I) \in Seq(T)
         /\ \E f \in Bijection(DOMAIN Picked(s, I), I) :
              \A k \in DOMAIN Picked(s, I) : Picked(s, I)[k] = s[f[k]]
<1>1. DOMAIN s = 1 .. Len(s) /\ Len(s) \in Nat /\ \A i \in DOMAIN s : s[i] \in T
  OBVIOUS
<1>2. I \in SUBSET Nat /\ IsFiniteSet(I)
  <2>1. I \in SUBSET Nat /\ \A i \in I : i <= Len(s)
    BY <1>1
  <2>2. QED
    BY <1>1, <2>1, FS_BoundedSetOfNaturals
<1>3. PICK f : f = Places(I)
  OBVIOUS
<1>4. f \in Bijection(1 .. Cardinality(I), I) /\ Cardinality(I) \in Nat
  BY <1>2, <1>3, PlacesAre
<1>5. Picked(s, I) = [k \in 1 .. Cardinality(I) |-> s[f[k]]]
  BY <1>3 DEF Picked, Places
<1>6. \A k \in 1 .. Cardinality(I) : f[k] \in I
  BY <1>4 DEF Bijection, Injection
<1>7. Picked(s, I) \in [1 .. Cardinality(I) -> T]
  BY <1>1, <1>5, <1>6
<1>8. QED
  BY <1>4, <1>5, <1>7

Codes == WAITS \cup SUCCESSES \cup
  {"approval_denied", "failed", "infrastructure_error", "fault_timeout", "fault_http_error",
   "fault_auth_error", "fault_malformed_response"}
EVENT_TYPES == {"tool.requested", "fault.not_matched", "fault.matched", "fault.applied",
                "tool.result", "fault.observed", "state.evidence_recorded"}
Numbers == 1 .. MaxTools + 1

Events == [type : EVENT_TYPES, request : Nat, call : Numbers, attempt : Numbers,
           rule : STRING \cup {""}, cause : Nat, info : Codes \cup Requests \cup {""}]
Pendings == [call : Numbers, attempt : Numbers, q : Requests]
Turns == [call : Numbers, attempt : Numbers, code : Codes, result : Nat]
Effects == [q : Mutations, call : Numbers, attempt : Numbers]
Markers == [call : Numbers, attempt : Numbers, ordinal : Nat, at : Nat, rule : STRING, state : Nat]
Attempts == [at : Nat, call : Numbers, attempt : Numbers, q : Requests, ordinal : Nat]

Databases ==
  [status : Terminal \cup {"running"}, events : Seq(Events), effects : SUBSET Effects,
   markers : SUBSET Markers, turns : Seq(Turns), pending : Seq(Pendings), boundary : Nat,
   approvals : [Requests -> {"none", "pending", "approved", "denied"}]]

Procs == [pc : {"idle", "loading", "ready", "acknowledge", "checkpoint", "terminating"},
          engine : BOOLEAN, owed : Seq(CompiledFaultRules)]

-----------------------------------------------------------------------------
(* Events of one attempt.                                                  *)

Matches(d, r) == Positions(d, "fault.matched", r)
Applies(d, r) == Positions(d, "fault.applied", r)
Results(d, r) == Positions(d, "tool.result", r)
Observed(d, r) == Positions(d, "fault.observed", r)

Mine(a, e) == e.request = a.at /\ e.call = a.call /\ e.attempt = a.attempt

\* Nothing but evidence changes.
Same(z, y) ==
  /\ y \in Databases
  /\ y.status = z.status /\ y.turns = z.turns /\ y.pending = z.pending /\ y.boundary = z.boundary

Rest(z, y) == y.effects = z.effects /\ y.markers = z.markers /\ y.approvals = z.approvals

\* Evidence of an attempt after the evidence there is.
Longer(z, y, a) ==
  /\ Len(z.events) <= Len(y.events)
  /\ \A i \in 1 .. Len(z.events) : y.events[i] = z.events[i]
  /\ \A i \in Len(z.events) + 1 .. Len(y.events) : Mine(a, y.events[i])

\* Evidence refers to the request of its attempt, and to a cause before it.
Logged(d) ==
  \A i \in DOMAIN d.events :
    LET e == d.events[i]
    IN /\ e.request \in 1 .. i /\ e.cause \in 0 .. i - 1
       /\ e.type = "tool.requested" <=> e.request = i
       /\ e.type = "tool.requested" => e.info \in Requests
       /\ e.type = "tool.result" => e.info \in Codes
       /\ d.events[e.request].request = e.request
       /\ d.events[e.request].call = e.call /\ d.events[e.request].attempt = e.attempt

\* The sequence of events.
LEMMA Evidence ==
  ASSUME NEW d \in Databases
  PROVE  /\ d.events \in Seq(Events) /\ Len(d.events) \in Nat
         /\ DOMAIN d.events = 1 .. Len(d.events)
         /\ \A i \in DOMAIN d.events : d.events[i] \in Events
BY DEF Databases

\* Two sequences, one after the other.
LEMMA Joins ==
  ASSUME NEW S, NEW s \in Seq(S), NEW t \in Seq(S)
  PROVE  /\ s \o t \in Seq(S) /\ Len(s \o t) = Len(s) + Len(t)
         /\ Len(s) \in Nat /\ Len(t) \in Nat
         /\ DOMAIN s = 1 .. Len(s) /\ DOMAIN t = 1 .. Len(t)
         /\ \A i \in 1 .. Len(s) : (s \o t)[i] = s[i]
         /\ \A i \in 1 .. Len(t) : (s \o t)[Len(s) + i] = t[i]
         /\ \A i \in Len(s) + 1 .. Len(s) + Len(t) : (s \o t)[i] = t[i - Len(s)]
OBVIOUS

\* Events are added at the end, and nothing else changes.
LEMMA Adds ==
  ASSUME NEW d \in Databases, NEW es \in Seq(Events)
  PROVE  /\ Same(d, Add(d, es)) /\ Rest(d, Add(d, es))
         /\ Len(Add(d, es).events) = Len(d.events) + Len(es)
         /\ \A i \in 1 .. Len(d.events) : Add(d, es).events[i] = d.events[i]
         /\ \A i \in Len(d.events) + 1 .. Len(d.events) + Len(es) :
              Add(d, es).events[i] = es[i - Len(d.events)]
<1>1. d.events \in Seq(Events)
  BY Evidence
<1>2. PICK es2 : es2 = d.events \o es
  OBVIOUS
<1>3. /\ es2 \in Seq(Events) /\ Len(es2) = Len(d.events) + Len(es)
      /\ \A i \in 1 .. Len(d.events) : es2[i] = d.events[i]
      /\ \A i \in Len(d.events) + 1 .. Len(d.events) + Len(es) : es2[i] = es[i - Len(d.events)]
  BY <1>1, <1>2, Joins
<1>4. Add(d, es) = [d EXCEPT !.events = es2]
  BY <1>2 DEF Add
<1>5. /\ Same(d, Add(d, es)) /\ Rest(d, Add(d, es)) /\ Add(d, es).events = es2
  BY <1>3, <1>4 DEF Databases, Same, Rest
<1>6. QED
  BY <1>3, <1>5

\* Events of an attempt, with causes that are there already.
LEMMA AddsMine ==
  ASSUME NEW d \in Databases, Logged(d), NEW es \in Seq(Events), NEW a \in Attempts,
         a.at \in DOMAIN d.events, Mine(a, d.events[a.at]),
         \A k \in DOMAIN es : /\ Mine(a, es[k]) /\ es[k].type # "tool.requested"
                              /\ es[k].cause < Len(d.events) + k
                              /\ es[k].type = "tool.result" => es[k].info \in Codes
  PROVE  Logged(Add(d, es)) /\ Longer(d, Add(d, es), a)
<1>1. PICK y : y = Add(d, es)
  OBVIOUS
<1>2. /\ Len(y.events) = Len(d.events) + Len(es) /\ y \in Databases
      /\ \A i \in 1 .. Len(d.events) : y.events[i] = d.events[i]
      /\ \A i \in Len(d.events) + 1 .. Len(d.events) + Len(es) : y.events[i] = es[i - Len(d.events)]
  BY <1>1, Adds DEF Same
<1>3. Len(es) \in Nat /\ DOMAIN es = 1 .. Len(es) /\ \A k \in DOMAIN es : es[k] \in Events
  OBVIOUS
<1>4. /\ Len(d.events) \in Nat /\ DOMAIN d.events = 1 .. Len(d.events)
      /\ DOMAIN y.events = 1 .. Len(y.events)
  BY <1>2, Evidence
<1>5. ASSUME NEW i \in Len(d.events) + 1 .. Len(d.events) + Len(es)
      PROVE  \E k \in DOMAIN es : i = Len(d.events) + k /\ y.events[i] = es[k]
  <2>1. i - Len(d.events) \in 1 .. Len(es) /\ i = Len(d.events) + (i - Len(d.events))
    BY <1>3, <1>4
  <2>2. QED
    BY <1>2, <1>3, <2>1
<1>6. Longer(d, y, a)
  <2>1. \A i \in Len(d.events) + 1 .. Len(d.events) + Len(es) : Mine(a, y.events[i])
    BY <1>5
  <2>2. QED
    BY <1>2, <1>3, <1>4, <2>1 DEF Longer
<1>7. ASSUME NEW i \in DOMAIN y.events
      PROVE  LET e == y.events[i]
             IN /\ e.request \in 1 .. i /\ e.cause \in 0 .. i - 1
                /\ e.type = "tool.requested" <=> e.request = i
                /\ e.type = "tool.requested" => e.info \in Requests
                /\ e.type = "tool.result" => e.info \in Codes
                /\ y.events[e.request].request = e.request
                /\ y.events[e.request].call = e.call /\ y.events[e.request].attempt = e.attempt
  <2>1. CASE i \in 1 .. Len(d.events)
    <3>1. y.events[i] = d.events[i] /\ i \in DOMAIN d.events
      BY <1>2, <1>4, <2>1
    <3>2. d.events[i].request \in 1 .. i
      BY <3>1 DEF Logged
    <3>3. d.events[i].request \in 1 .. Len(d.events)
      BY <1>4, <2>1, <3>2
    <3>4. y.events[d.events[i].request] = d.events[d.events[i].request]
      BY <1>2, <3>3
    <3>5. QED
      BY <3>1, <3>4 DEF Logged
  <2>2. CASE i \in Len(d.events) + 1 .. Len(d.events) + Len(es)
    <3>1. PICK k \in DOMAIN es : i = Len(d.events) + k /\ y.events[i] = es[k]
      BY <1>5, <2>2
    <3>2. es[k].cause \in Nat
      BY <1>3 DEF Events
    <3>3. y.events[a.at] = d.events[a.at] /\ a.at \in 1 .. Len(d.events)
      BY <1>2, <1>4
    <3>4. es[k].request = a.at /\ es[k].call = a.call /\ es[k].attempt = a.attempt
          /\ es[k].type # "tool.requested" /\ es[k].cause < Len(d.events) + k
          /\ (es[k].type = "tool.result" => es[k].info \in Codes)
      BY DEF Mine
    <3>5. d.events[a.at].request = a.at /\ d.events[a.at].call = a.call /\ d.events[a.at].attempt = a.attempt
      BY DEF Mine
    <3>6. a.at < i /\ a.at \in 1 .. i /\ a.at # i
      BY <1>3, <1>4, <3>1, <3>3
    <3>7. es[k].cause \in 0 .. i - 1
      BY <1>3, <1>4, <3>1, <3>2, <3>4
    <3>8. QED
      BY <3>1, <3>3, <3>4, <3>5, <3>6, <3>7
  <2>3. QED
    BY <1>2, <1>3, <1>4, <2>1, <2>2
<1>8. Logged(y)
  BY <1>7 DEF Logged
<1>9. QED
  BY <1>1, <1>6, <1>8

\* Evidence of an attempt is no evidence of another one.
LEMMA OthersStay ==
  ASSUME NEW z \in Databases, NEW y \in Databases, NEW a, Longer(z, y, a), NEW type, NEW r, r # a.at
  PROVE  /\ Positions(y, type, r) = Positions(z, type, r)
         /\ \A i \in Positions(y, type, r) : y.events[i] = z.events[i]
<1>1. /\ DOMAIN y.events = 1 .. Len(y.events) /\ DOMAIN z.events = 1 .. Len(z.events)
      /\ Len(y.events) \in Nat /\ Len(z.events) \in Nat
  BY Evidence
<1>2. /\ Len(z.events) <= Len(y.events)
      /\ \A i \in 1 .. Len(z.events) : y.events[i] = z.events[i]
      /\ \A i \in Len(z.events) + 1 .. Len(y.events) : y.events[i].request = a.at
  BY DEF Longer, Mine
<1>3. \A i \in DOMAIN y.events : i \in DOMAIN z.events \/ y.events[i].request = a.at
  BY <1>1, <1>2
<1>4. QED
  BY <1>1, <1>2, <1>3 DEF Positions

\* An attempt's own evidence: what there was, and what is new.
LEMMA MineGrows ==
  ASSUME NEW z \in Databases, NEW y \in Databases, NEW a, Longer(z, y, a), NEW type
  PROVE  /\ \A i \in Positions(z, type, a.at) : i \in Positions(y, type, a.at) /\ y.events[i] = z.events[i]
         /\ \A i \in Positions(y, type, a.at) :
              \/ i \in Positions(z, type, a.at)
              \/ i \in Len(z.events) + 1 .. Len(y.events) /\ y.events[i].type = type
         /\ \A i \in Len(z.events) + 1 .. Len(y.events) :
              y.events[i].type = type => i \in Positions(y, type, a.at)
<1>1. /\ DOMAIN y.events = 1 .. Len(y.events) /\ DOMAIN z.events = 1 .. Len(z.events)
      /\ Len(y.events) \in Nat /\ Len(z.events) \in Nat
  BY Evidence
<1>2. /\ Len(z.events) <= Len(y.events)
      /\ \A i \in 1 .. Len(z.events) : y.events[i] = z.events[i]
      /\ \A i \in Len(z.events) + 1 .. Len(y.events) : y.events[i].request = a.at
  BY DEF Longer, Mine
<1>3. QED
  BY <1>1, <1>2 DEF Positions

\* The cap on a rule counts the applications of the other attempts.
LEMMA OccurrencesStay ==
  ASSUME NEW z \in Databases, NEW y \in Databases, NEW a, Longer(z, y, a), NEW r
  PROVE  Occurrences(y, r, a.at) = Occurrences(z, r, a.at)
<1>1. /\ DOMAIN y.events = 1 .. Len(y.events) /\ DOMAIN z.events = 1 .. Len(z.events)
      /\ Len(y.events) \in Nat /\ Len(z.events) \in Nat
  BY Evidence
<1>2. /\ Len(z.events) <= Len(y.events)
      /\ \A i \in 1 .. Len(z.events) : y.events[i] = z.events[i]
      /\ \A i \in Len(z.events) + 1 .. Len(y.events) : y.events[i].request = a.at
  BY DEF Longer, Mine
<1>3. \A i : i \in DOMAIN y.events /\ y.events[i].request # a.at <=>
             i \in DOMAIN z.events /\ z.events[i].request # a.at
  BY <1>1, <1>2
<1>4. {i \in DOMAIN y.events : /\ y.events[i].type = "fault.applied" /\ y.events[i].rule = r.id
                               /\ y.events[i].request # a.at} =
      {i \in DOMAIN z.events : /\ z.events[i].type = "fault.applied" /\ z.events[i].rule = r.id
                               /\ z.events[i].request # a.at}
  BY <1>1, <1>2, <1>3
<1>5. QED
  BY <1>4 DEF Occurrences

-----------------------------------------------------------------------------
(* The inductive invariant.  The plan p and the draws w are parameters, so *)
(* that every part of it is about one database.                            *)

\* A compiled plan: no two rules have one id.
IsPlan(p) == p \in Seq(CompiledFaultRules) /\ \A x, y \in DOMAIN p : p[x].id = p[y].id => x = y

Draw(w, r, call, attempt) == r.sure \/ <<r.id, call, attempt>> \in w

\* A rule matches an attempt in a phase; the rules that do, in their order.
Wants(w, d, r, a, phase) ==
  /\ r.tool = ToolOf[a.q] /\ r.phase = phase
  /\ r.ordinal \in {0, a.ordinal} /\ a.q \in r.args
  /\ ~Capped(d, r, a) /\ Draw(w, r, a.call, a.attempt)

Sel(p, w, d, a, phase) == Picked(p, {i \in DOMAIN p : Wants(w, d, p[i], a, phase)})

Asked(d) == {i \in DOMAIN d.events : d.events[i].type = "tool.requested"}

\* Evidence names rules of the plan.
Named(p, d) ==
  \A i \in DOMAIN d.events : d.events[i].rule = "" \/ \E x \in DOMAIN p : p[x].id = d.events[i].rule

\* No rule was applied more often than it was declared.
Caps(p, d) == \A x \in DOMAIN p : Occurrences(d, p[x], 0) <= p[x].max_occurrences

\* No two requests are the same attempt of the same call.
Apart(d) ==
  \A r, s \in Asked(d) :
    d.events[r].call = d.events[s].call /\ d.events[r].attempt = d.events[s].attempt => r = s

\* An effect is the only one of its request, and an attempt asked for it.
Effected(d) ==
  /\ \A f, g \in d.effects : f.q = g.q => f = g
  /\ \A f \in d.effects : \E r \in Asked(d) :
       d.events[r].call = f.call /\ d.events[r].attempt = f.attempt

\* A marker is the only one of its attempt.
Marked(p, d) ==
  /\ \A m \in d.markers :
       /\ m.at \in Asked(d) /\ m.state \in DOMAIN d.events
       /\ d.events[m.at].call = m.call /\ d.events[m.at].attempt = m.attempt
       /\ \E x \in DOMAIN p : p[x].id = m.rule
  /\ \A m, n \in d.markers : m.at = n.at => m = n

\* What was matched was declared for the attempt; what was applied was matched.
Chosen(p, w, d, r) ==
  /\ \A i \in Matches(d, r) :
       /\ d.events[i].cause = r
       /\ \E x \in DOMAIN p : /\ p[x].id = d.events[i].rule
                              /\ p[x].tool = ToolOf[d.events[r].info]
                              /\ p[x].ordinal \in {0, d.events[r].call}
                              /\ Draw(w, p[x], d.events[r].call, d.events[r].attempt)
  /\ \A i, j \in Matches(d, r) : d.events[i].rule = d.events[j].rule => i = j
  /\ \A i, j \in Applies(d, r) : d.events[i].rule = d.events[j].rule => i = j
  /\ \A i \in Applies(d, r) : /\ d.events[i].cause \in Matches(d, r)
                              /\ d.events[d.events[i].cause].rule = d.events[i].rule

\* Evidence of the attempt between its request and its marker's state.
SharedAt(d, r) ==
  \E m \in d.markers : m.at = r /\ \E i \in r + 1 .. m.state - 1 : d.events[i].request = r

\* One result, after what was applied and caused by the last of it, and after
\* it one observation of each application.
Whole(d, r) ==
  \E k \in DOMAIN d.events :
    /\ Results(d, r) = {k}
    /\ \A i \in Applies(d, r) : i < k
    /\ \/ Applies(d, r) = {} /\ d.events[k].cause = r
       \/ d.events[k].cause \in Applies(d, r) /\ \A i \in Applies(d, r) : i <= d.events[k].cause
    /\ \A o \in Observed(d, r) :
         /\ k < o /\ d.events[o].cause = k
         /\ \E i \in Applies(d, r) : d.events[i].rule = d.events[o].rule
    /\ \A o, u \in Observed(d, r) : d.events[o].rule = d.events[u].rule => o = u
    /\ \/ SharedAt(d, r)
       \/ \A i \in Applies(d, r) : \E o \in Observed(d, r) : d.events[o].rule = d.events[i].rule

FAILURES == {"fault_timeout", "fault_http_error", "fault_auth_error", "fault_malformed_response"}

\* The rules an attempt applied.
Used(p, d, r) == {x \in DOMAIN p : \E i \in Applies(d, r) : d.events[i].rule = p[x].id}

Ambiguity(p, d, r) == \E x \in Used(p, d, r) : p[x].phase = "after_commit"

HasEffect(d, r) ==
  \E f \in d.effects : f.call = d.events[r].call /\ f.attempt = d.events[r].attempt

\* The answer says what the applied rules declare, and whether there is an effect.
Felt(p, d, r) ==
  \A k \in Results(d, r) :
    LET info == d.events[k].info
    IN /\ Ambiguity(p, d, r) => info = "fault_timeout"
       /\ \/ Ambiguity(p, d, r)
          \/ /\ \A x \in Used(p, d, r) : failure_code(p[x]) \in {"", info}
             /\ info \in FAILURES => \E x \in Used(p, d, r) : failure_code(p[x]) = info
       /\ HasEffect(d, r) <=> Ambiguity(p, d, r) \/ info = "newly_applied"

Base(p, w, d) ==
  /\ d \in Databases /\ Logged(d) /\ Named(p, d) /\ Caps(p, d)
  /\ Apart(d) /\ Effected(d) /\ Marked(p, d)
  /\ \A r \in Asked(d) : Chosen(p, w, d, r)
  /\ \A r \in Asked(d) : Results(d, r) # {} => Whole(d, r) /\ Felt(p, d, r)

\* The calls so far, the one that is pending, and whose evidence is committed
\* beyond the last checkpoint.
Started(d) == d.boundary < Len(d.events)

FrameOf(d, K) ==
  /\ K <= Len(d.turns) /\ Len(d.turns) <= MaxTools
  /\ {d.turns[i].call : i \in DOMAIN d.turns} = 1 .. K
  /\ Len(d.pending) <= 1 /\ d.boundary <= Len(d.events)
  /\ d.pending # <<>> =>
       /\ d.pending[1].attempt <= Len(d.turns) + 1
       /\ d.pending[1].call = IF d.pending[1].attempt = 1 THEN K + 1 ELSE K
  /\ \A i \in DOMAIN d.events : i <= d.boundary =>
       /\ d.events[i].call <= K
       /\ d.pending # <<>> /\ d.events[i].call = d.pending[1].call
          => d.events[i].attempt < d.pending[1].attempt
  /\ \A i \in DOMAIN d.events : d.boundary < i =>
       /\ d.pending # <<>> /\ d.events[i].request = d.boundary + 1
       /\ d.events[i].call = d.pending[1].call /\ d.events[i].attempt = d.pending[1].attempt
  /\ Started(d) => /\ d.pending[1].q = d.events[d.boundary + 1].info
                   /\ d.pending[1].q \in Mutations /\ Len(d.turns) < MaxTools
  /\ \A i \in DOMAIN d.turns : /\ d.turns[i].result \in 1 .. d.boundary
                               /\ d.events[d.turns[i].result].type = "tool.result"

Frame(d) == \E K \in Nat : FrameOf(d, K)

\* The attempt that has evidence beyond the checkpoint.
Current(d) ==
  [at |-> d.boundary + 1, call |-> d.pending[1].call, attempt |-> d.pending[1].attempt,
   q |-> d.pending[1].q, ordinal |-> d.pending[1].call]

\* Its marker binds a rule, the effect and the evidence of it.
Valid(p, w, d, m) ==
  /\ m.ordinal = m.call /\ m.at = d.boundary + 1 /\ m.at < m.state
  /\ \E x \in DOMAIN p :
       /\ p[x].id = m.rule /\ p[x].phase = "after_commit"
       /\ p[x].tool = ToolOf[d.pending[1].q] /\ p[x].ordinal \in {0, m.call}
       /\ d.pending[1].q \in p[x].args /\ Draw(w, p[x], m.call, m.attempt)
  /\ [q |-> d.pending[1].q, call |-> m.call, attempt |-> m.attempt] \in d.effects
  /\ gate(d, d.pending[1].q) = "pass"
  /\ d.events[m.state].type = "state.evidence_recorded" /\ d.events[m.state].cause = m.at

\* The acknowledgement is owed, for the rule that is selected still.
Waits(p, w, d, m) ==
  /\ m.state = Len(d.events) /\ Observed(d, m.at) = {}
  /\ \A i \in Matches(d, m.at) : \E x \in DOMAIN p :
       p[x].id = d.events[i].rule /\ p[x].phase = "before_tool"
  /\ \A x \in Used(p, d, m.at) : failure_code(p[x]) = ""
  /\ Sel(p, w, d, Current(d), "after_commit") # <<>>
  /\ Sel(p, w, d, Current(d), "after_commit")[1].id = m.rule

\* The acknowledgement timed out.
Told(d, m) ==
  \E i \in Matches(d, m.at), j \in Applies(d, m.at), o \in Observed(d, m.at) :
    /\ m.state < i /\ d.events[j].cause = i
    /\ \A e \in {i, j, o} : d.events[e].rule = m.rule
    /\ \A k \in Results(d, m.at) : d.events[k].info = "fault_timeout" /\ d.events[k].cause = j

\* The result is there, and what belongs to it.
Finished(d) ==
  \A k \in Results(d, d.boundary + 1) :
    /\ d.events[k].info \in {"read", "newly_applied"} =>
         [q |-> d.pending[1].q, call |-> d.pending[1].call, attempt |-> d.pending[1].attempt]
         \in d.effects
    /\ d.events[k].info = "newly_applied" =>
         \E s \in DOMAIN d.events :
           \A i \in DOMAIN d.events :
             i = s <=> k < i /\ d.events[i].type = "state.evidence_recorded" /\ d.events[i].cause = k

Half(p, w, d) == Marker(d) # {} /\ \A m \in Marker(d) : Valid(p, w, d, m) /\ Waits(p, w, d, m)

Done(p, w, d) ==
  /\ Marker(d) = {} => Finished(d)
  /\ \A m \in Marker(d) : Valid(p, w, d, m) /\ Told(d, m)

Beyond(p, w, d) ==
  /\ \A r \in Asked(d) : Results(d, r) = {} => d.boundary < r
  /\ Started(d) => IF Results(d, d.boundary + 1) = {} THEN Half(p, w, d) ELSE Done(p, w, d)

Unanswered(d) == Started(d) /\ Results(d, d.boundary + 1) = {}

Process(p, w, d, c) ==
  /\ c \in Procs
  /\ c.pc = "ready" /\ Started(d) => c.engine /\ Unanswered(d)
  /\ c.pc = "acknowledge" =>
       Unanswered(d) /\ c.engine /\ c.owed = Sel(p, w, d, Current(d), "after_commit")
  /\ c.pc = "checkpoint" => Started(d) /\ ~Unanswered(d)
  /\ c.pc # "acknowledge" => c.owed = <<>> \/ c.pc \in {"checkpoint", "terminating"}
  /\ \A k \in DOMAIN c.owed : \E x \in DOMAIN p : p[x] = c.owed[k]

IInv ==
  /\ plan \in Plans
  /\ Base(plan, draws, run) /\ Frame(run) /\ Beyond(plan, draws, run)
  /\ Process(plan, draws, run, proc)

\* Rules of the plan, each once.
List(p, s) ==
  /\ s \in Seq(CompiledFaultRules)
  /\ \A k \in DOMAIN s : \E x \in DOMAIN p : p[x] = s[k]
  /\ \A k, l \in DOMAIN s : s[k].id = s[l].id => k = l

\* At most one of the rules is more than a delay.
OneFails(s) == \A k, l \in DOMAIN s : s[k].kind # "delay" /\ s[l].kind # "delay" => k = l

\* The smallest and the greatest number of a finite set.
LEMMA Extremes ==
  ASSUME NEW n \in Nat, NEW I \in SUBSET (1 .. n), I # {}
  PROVE  /\ Max(I) \in I /\ \A j \in I : j <= Max(I)
         /\ Min(I) \in I /\ \A j \in I : Min(I) <= j
<1>1. I \in SUBSET Nat /\ IsFiniteSet(I)
  <2>1. I \in SUBSET Nat /\ \A i \in I : i <= n
    OBVIOUS
  <2>2. QED
    BY <2>1, FS_BoundedSetOfNaturals
<1>2. PICK c : c = Cardinality(I)
  OBVIOUS
<1>3. c \in Nat /\ c # 0
  BY <1>1, <1>2, FS_CardinalityType, FS_EmptySet
<1>4. c \in 1 .. c /\ 1 \in 1 .. c /\ c - 1 \in Nat
  BY <1>3
<1>5. PICK l \in I : Cardinality({j \in I : j < l}) = 1 - 1
  <2>1. 1 \in 1 .. Cardinality(I)
    BY <1>2, <1>4
  <2>2. QED
    BY <1>1, <2>1, Ranks
<1>6. \A j \in I : l <= j
  <2>1. {j \in I : j < l} \in SUBSET I
    OBVIOUS
  <2>2. IsFiniteSet({j \in I : j < l})
    BY <1>1, <2>1, FS_Subset
  <2>3. {j \in I : j < l} = {}
    BY <1>5, <2>2, FS_EmptySet
  <2>4. QED
    BY <1>1, <2>3
<1>7. PICK g \in I : Cardinality({j \in I : j < g}) = c - 1
  <2>1. c \in 1 .. Cardinality(I)
    BY <1>2, <1>4
  <2>2. QED
    BY <1>1, <2>1, Ranks
<1>8. \A j \in I : j <= g
  <2> SUFFICES ASSUME NEW j \in I, ~(j <= g) PROVE FALSE
    OBVIOUS
  <2>1. IsFiniteSet(I \ {g}) /\ Cardinality(I \ {g}) = c - 1
    BY <1>1, <1>2, FS_RemoveElement
  <2>2. {i \in I : i < g} \in SUBSET (I \ {g}) /\ j \in I \ {g} /\ j \notin {i \in I : i < g}
    BY <1>1
  <2>3. PICK L : L = {i \in I : i < g}
    OBVIOUS
  <2>4. PICK R : R = I \ {g}
    OBVIOUS
  <2>5. L \in SUBSET R /\ j \in R /\ j \notin L /\ IsFiniteSet(R) /\ Cardinality(R) = c - 1
        /\ Cardinality(L) = c - 1
    BY <1>7, <2>1, <2>2, <2>3, <2>4
  <2>6. IsFiniteSet(L) /\ Cardinality(L) <= Cardinality(R) /\ (Cardinality(L) = Cardinality(R) => L = R)
    BY <2>5, FS_Subset
  <2>7. QED
    BY <2>5, <2>6
<1>9. Max(I) = g
  <2>1. g \in I /\ \A y \in I : g >= y
    BY <1>1, <1>8
  <2>2. \A x \in I : (\A y \in I : x >= y) => x = g
    <3>1. \A x \in I : x >= g /\ g >= x => x = g
      BY <1>1
    <3>2. QED
      BY <2>1, <3>1
  <2>3. QED
    BY <2>1, <2>2 DEF Max
<1>10. Min(I) = l
  <2>1. l \in I /\ \A y \in I : l =< y
    BY <1>1, <1>6
  <2>2. \A x \in I : (\A y \in I : x =< y) => x = l
    <3>1. \A x \in I : x =< l /\ l =< x => x = l
      BY <1>1
    <3>2. QED
      BY <2>1, <3>1
  <2>3. QED
    BY <2>1, <2>2 DEF Min
<1>11. QED
  BY <1>5, <1>6, <1>7, <1>8, <1>9, <1>10

\* What is picked from a list of the plan's rules is such a list again.
LEMMA Sublists ==
  ASSUME NEW p, NEW s, List(p, s), NEW I \in SUBSET DOMAIN s
  PROVE  /\ List(p, Picked(s, I))
         /\ \A k \in DOMAIN Picked(s, I) : \E i \in I : Picked(s, I)[k] = s[i]
         /\ \A i \in I : \E k \in DOMAIN Picked(s, I) : Picked(s, I)[k] = s[i]
<1>1. s \in Seq(CompiledFaultRules)
  BY DEF List
<1>2. PICK t : t = Picked(s, I)
  OBVIOUS
<1>3. t \in Seq(CompiledFaultRules)
      /\ \E f \in Bijection(DOMAIN t, I) : \A k \in DOMAIN t : t[k] = s[f[k]]
  BY <1>1, <1>2, Picks
<1>4. PICK f \in Bijection(DOMAIN t, I) : \A k \in DOMAIN t : t[k] = s[f[k]]
  BY <1>3
<1>5. /\ \A k \in DOMAIN t : f[k] \in I
      /\ \A k, l \in DOMAIN t : f[k] = f[l] => k = l
      /\ \A i \in I : \E k \in DOMAIN t : f[k] = i
  BY DEF Bijection, Injection, IsInjective, Surjection
<1>6. \A k \in DOMAIN t : \E i \in I : t[k] = s[i]
  BY <1>4, <1>5
<1>7. \A i \in I : \E k \in DOMAIN t : t[k] = s[i]
  BY <1>4, <1>5
<1>8. \A k \in DOMAIN t : \E x \in DOMAIN p : p[x] = t[k]
  <2>1. \A i \in I : \E x \in DOMAIN p : p[x] = s[i]
    BY DEF List
  <2>2. QED
    BY <1>6, <2>1
<1>9. \A k, l \in DOMAIN t : t[k].id = t[l].id => k = l
  <2>1. \A i, j \in I : s[i].id = s[j].id => i = j
    BY DEF List
  <2>2. QED
    BY <1>4, <1>5, <2>1
<1>10. QED
  BY <1>2, <1>3, <1>6, <1>7, <1>8, <1>9 DEF List

\* A plan is a list of its own rules.
LEMMA PlanIsList ==
  ASSUME NEW p, IsPlan(p)
  PROVE  List(p, p)
BY DEF IsPlan, List

\* The rules selected for an attempt.
LEMMA Selecting ==
  ASSUME NEW p, IsPlan(p), NEW w, NEW d, NEW a, NEW phase
  PROVE  /\ List(p, Sel(p, w, d, a, phase))
         /\ \A k \in DOMAIN Sel(p, w, d, a, phase) : Wants(w, d, Sel(p, w, d, a, phase)[k], a, phase)
<1>1. PICK I : I = {i \in DOMAIN p : Wants(w, d, p[i], a, phase)}
  OBVIOUS
<1>2. I \in SUBSET DOMAIN p /\ \A i \in I : Wants(w, d, p[i], a, phase)
  BY <1>1
<1>3. Sel(p, w, d, a, phase) = Picked(p, I)
  BY <1>1 DEF Sel
<1>4. List(p, Picked(p, I)) /\ \A k \in DOMAIN Picked(p, I) : \E i \in I : Picked(p, I)[k] = p[i]
  BY <1>2, PlanIsList, Sublists
<1>5. QED
  BY <1>2, <1>3, <1>4

\* The engine selects them.
LEMMA SelectIs ==
  ASSUME NEW d, NEW a, NEW phase
  PROVE  select(d, a, phase) = Sel(plan, draws, d, a, phase)
BY DEF select, Sel, Wants, match_fault_rule, Sampled, Draw

\* What an attempt adds does not change what it selects.
LEMMA SelStays ==
  ASSUME NEW z \in Databases, NEW y \in Databases, NEW a, Longer(z, y, a),
         NEW p, NEW w, NEW phase
  PROVE  Sel(p, w, y, a, phase) = Sel(p, w, z, a, phase)
<1>1. \A i \in DOMAIN p : Occurrences(y, p[i], a.at) = Occurrences(z, p[i], a.at)
  BY OccurrencesStay
<1>2. \A i \in DOMAIN p : Wants(w, y, p[i], a, phase) <=> Wants(w, z, p[i], a, phase)
  BY <1>1 DEF Wants, Capped
<1>3. {i \in DOMAIN p : Wants(w, y, p[i], a, phase)} = {i \in DOMAIN p : Wants(w, z, p[i], a, phase)}
  BY <1>2
<1>4. QED
  BY <1>3 DEF Sel

\* The rules that are not selected.
LEMMA Missing ==
  ASSUME NEW d, NEW a, NEW phase, IsPlan(plan)
  PROVE  List(plan, reportable_not_matched(d, a, phase))
<1>1. PICK I : I = {i \in DOMAIN plan : /\ plan[i].tool = ToolOf[a.q] /\ plan[i].phase = phase
                                        /\ ~match_fault_rule(d, plan[i], a, phase)}
  OBVIOUS
<1>2. I \in SUBSET DOMAIN plan
  BY <1>1
<1>3. reportable_not_matched(d, a, phase) = Picked(plan, I)
  BY <1>1 DEF reportable_not_matched
<1>4. QED
  BY <1>2, <1>3, PlanIsList, Sublists

\* Of the rules that are applied, one may fail the attempt.
LEMMA Applying ==
  ASSUME NEW p, NEW s, List(p, s)
  PROVE  /\ List(p, apply(s)) /\ OneFails(apply(s))
         /\ \A k \in DOMAIN apply(s) : \E i \in DOMAIN s : apply(s)[k] = s[i]
<1>1. PICK D : D = {i \in DOMAIN s : s[i].kind # "delay"}
  OBVIOUS
<1>2. PICK I : I = {i \in DOMAIN s : i \in D => \A j \in D : i <= j}
  OBVIOUS
<1>3. apply(s) = Picked(s, I)
  BY <1>1, <1>2 DEF apply
<1>4. PICK t : t = apply(s)
  OBVIOUS
<1>5. /\ List(p, t) /\ \A k \in DOMAIN t : \E i \in I : t[k] = s[i]
      /\ I \in SUBSET DOMAIN s
  <2>1. I \in SUBSET DOMAIN s
    BY <1>2
  <2>2. List(p, Picked(s, I)) /\ \A k \in DOMAIN Picked(s, I) : \E i \in I : Picked(s, I)[k] = s[i]
    BY <2>1, Sublists
  <2>3. QED
    BY <1>3, <1>4, <2>1, <2>2
<1>6. DOMAIN s \in SUBSET Nat
  BY DEF List
<1>7. \A i, j \in I : s[i].kind # "delay" /\ s[j].kind # "delay" => i = j
  BY <1>1, <1>2, <1>6
<1>8. \A k, l \in DOMAIN t : t[k].kind # "delay" /\ t[l].kind # "delay" => k = l
  <2> SUFFICES ASSUME NEW k \in DOMAIN t, NEW l \in DOMAIN t, t[k].kind # "delay", t[l].kind # "delay"
               PROVE  k = l
    OBVIOUS
  <2>1. PICK i \in I : t[k] = s[i]
    BY <1>5
  <2>2. PICK j \in I : t[l] = s[j]
    BY <1>5
  <2>3. i = j
    BY <1>7, <2>1, <2>2
  <2>4. QED
    BY <1>5, <2>1, <2>2, <2>3 DEF List
<1>9. QED
  BY <1>4, <1>5, <1>8 DEF OneFails

\* The code of a failure; a delay has none.
LEMMA FailureCodes ==
  ASSUME NEW r
  PROVE  /\ failure_code(r) \in FAILURES \cup {""}
         /\ r.kind = "delay" => failure_code(r) = ""
BY DEF failure_code, FAILURES

\* The answer is the one rule's failure code, or the tool's own.
LEMMA Replacing ==
  ASSUME NEW s \in Seq(CompiledFaultRules), OneFails(s), NEW code
  PROVE  \/ replaced(s, code) = code /\ \A k \in DOMAIN s : failure_code(s[k]) = ""
         \/ \E k \in DOMAIN s : /\ failure_code(s[k]) # "" /\ replaced(s, code) = failure_code(s[k])
                                /\ \A l \in DOMAIN s : failure_code(s[l]) # "" => l = k
<1>1. PICK F : F = {i \in DOMAIN s : failure_code(s[i]) # ""}
  OBVIOUS
<1>2. replaced(s, code) = IF F = {} THEN code ELSE failure_code(s[Min(F)])
  BY <1>1 DEF replaced
<1>3. CASE F = {}
  BY <1>1, <1>2, <1>3
<1>4. CASE F # {}
  <2>1. Len(s) \in Nat /\ F \in SUBSET (1 .. Len(s))
    <3>1. Len(s) \in Nat /\ DOMAIN s = 1 .. Len(s)
      OBVIOUS
    <3>2. F \in SUBSET DOMAIN s
      BY <1>1
    <3>3. QED
      BY <3>1, <3>2
  <2>2. Min(F) \in F
    BY <1>4, <2>1, Extremes
  <2>3. \A l \in DOMAIN s : failure_code(s[l]) # "" => s[l].kind # "delay"
    BY FailureCodes
  <2>4. \A l \in DOMAIN s : failure_code(s[l]) # "" => l = Min(F)
    BY <1>1, <2>2, <2>3 DEF OneFails
  <2>5. QED
    BY <1>1, <1>2, <1>4, <2>2, <2>4
<1>5. QED
  BY <1>3, <1>4

-----------------------------------------------------------------------------
(* One attempt a, from the database z to y: it has applied the rules As,   *)
(* and has matched in the phases PS.                                       *)

Asks(y, a) == a.at \in Asked(y) /\ Mine(a, y.events[a.at]) /\ y.events[a.at].info = a.q

InPhases(p, y, a, PS) ==
  \A i \in Matches(y, a.at) : \E x \in DOMAIN p : p[x].id = y.events[i].rule /\ p[x].phase \in PS

\* The rules of a list are those whose applications there are.
HasApplied(y, a, As) ==
  /\ \A i \in Applies(y, a.at) : \E k \in DOMAIN As : As[k].id = y.events[i].rule
  /\ \A k \in DOMAIN As : \E i \in Applies(y, a.at) : As[k].id = y.events[i].rule

Stage(p, w, z, y, a, As, PS) ==
  /\ z \in Databases /\ Same(z, y) /\ Logged(y) /\ Longer(z, y, a) /\ Named(p, y)
  /\ a \in Attempts /\ a.ordinal = a.call /\ Asks(y, a)
  /\ Results(y, a.at) = {} /\ Observed(y, a.at) = {}
  /\ Chosen(p, w, y, a.at) /\ InPhases(p, y, a, PS)
  /\ List(p, As) /\ HasApplied(y, a, As)
  /\ \A k \in DOMAIN As : As[k].phase \in PS /\ ~Capped(z, As[k], a)

\* What is added to what was added.
LEMMA LongerTwice ==
  ASSUME NEW z \in Databases, NEW y \in Databases, NEW x \in Databases, NEW a,
         Longer(z, y, a), Longer(y, x, a)
  PROVE  Longer(z, x, a)
<1>1. Len(z.events) \in Nat /\ Len(y.events) \in Nat /\ Len(x.events) \in Nat
  BY Evidence
<1>2. QED
  BY <1>1 DEF Longer

\* What a sequence of rules is made of.
LEMMA RuleTypes ==
  ASSUME NEW s \in Seq(CompiledFaultRules)
  PROVE  /\ DOMAIN s = 1 .. Len(s) /\ Len(s) \in Nat
         /\ \A i \in DOMAIN s : s[i].id \in STRING /\ s[i].id # ""
<1>1. DOMAIN s = 1 .. Len(s) /\ Len(s) \in Nat /\ \A i \in DOMAIN s : s[i] \in CompiledFaultRules
  OBVIOUS
<1>2. \A r \in CompiledFaultRules : r.id \in STRING /\ r.id # ""
  BY DEF CompiledFaultRules
<1>3. QED
  BY <1>1, <1>2

\* The evidence of selecting: what was not matched, and what was.
Selection(a, s, t) ==
  [i \in DOMAIN s |-> Event("fault.not_matched", a, s[i].id, a.at, "")]
  \o [i \in DOMAIN t |-> Event("fault.matched", a, t[i].id, a.at, "")]

IsSelection(a, s, t, es) ==
  /\ es \in Seq(Events) /\ DOMAIN es = 1 .. Len(s) + Len(t) /\ Len(es) = Len(s) + Len(t)
  /\ \A i \in DOMAIN es : Mine(a, es[i]) /\ es[i].cause = a.at
  /\ \A i \in DOMAIN es : \/ /\ es[i].type = "fault.not_matched"
                             /\ \E k \in DOMAIN s : es[i].rule = s[k].id
                          \/ /\ es[i].type = "fault.matched"
                             /\ \E k \in DOMAIN t : i = Len(s) + k /\ es[i].rule = t[k].id
  /\ \A k \in DOMAIN t : /\ es[Len(s) + k].type = "fault.matched"
                         /\ es[Len(s) + k].rule = t[k].id

\* Its events are the attempt's own.
LEMMA SelectionEvents ==
  ASSUME NEW a \in Attempts,
         NEW s \in Seq(CompiledFaultRules), NEW t \in Seq(CompiledFaultRules),
         NEW es, es = Selection(a, s, t)
  PROVE  IsSelection(a, s, t, es)
<1>1. PICK n : n = [i \in DOMAIN s |-> Event("fault.not_matched", a, s[i].id, a.at, "")]
  OBVIOUS
<1>2. PICK m : m = [i \in DOMAIN t |-> Event("fault.matched", a, t[i].id, a.at, "")]
  OBVIOUS
<1>3. /\ DOMAIN s = 1 .. Len(s) /\ DOMAIN t = 1 .. Len(t) /\ Len(s) \in Nat /\ Len(t) \in Nat
      /\ \A i \in DOMAIN s : s[i].id \in STRING
      /\ \A i \in DOMAIN t : t[i].id \in STRING
  BY RuleTypes
<1>4. /\ \A i \in DOMAIN s : n[i] = Event("fault.not_matched", a, s[i].id, a.at, "")
      /\ \A i \in DOMAIN t : m[i] = Event("fault.matched", a, t[i].id, a.at, "")
  BY <1>1, <1>2
<1>5. /\ \A i \in DOMAIN s : n[i] \in Events
      /\ \A i \in DOMAIN t : m[i] \in Events
  <2>1. \A type \in EVENT_TYPES, rule \in STRING : Event(type, a, rule, a.at, "") \in Events
    BY DEF Event, Events, Attempts
  <2>2. QED
    BY <1>3, <1>4, <2>1 DEF EVENT_TYPES
<1>6. n \in [1 .. Len(s) -> Events] /\ m \in [1 .. Len(t) -> Events]
  BY <1>1, <1>2, <1>3, <1>5
<1>7. n \in Seq(Events) /\ m \in Seq(Events) /\ Len(n) = Len(s) /\ Len(m) = Len(t)
  <2>1. \A k \in Nat : \A g \in [1 .. k -> Events] : g \in Seq(Events) /\ Len(g) = k
    OBVIOUS
  <2>2. QED
    BY <1>3, <1>6, <2>1
<1>8. es = n \o m
  BY <1>1, <1>2 DEF Selection
<1>9. /\ es \in Seq(Events) /\ Len(es) = Len(n) + Len(m)
      /\ \A i \in 1 .. Len(n) : es[i] = n[i]
      /\ \A i \in 1 .. Len(m) : es[Len(n) + i] = m[i]
  <2>1. n \in Seq(Events) /\ m \in Seq(Events)
    BY <1>7
  <2>2. QED
    BY <1>8, <2>1, Joins
<1>10. /\ es \in Seq(Events) /\ Len(es) = Len(s) + Len(t) /\ DOMAIN es = 1 .. Len(s) + Len(t)
       /\ \A i \in DOMAIN s : es[i] = n[i]
       /\ \A i \in DOMAIN t : es[Len(s) + i] = m[i]
  <2>1. DOMAIN es = 1 .. Len(es)
    BY <1>9
  <2>2. QED
    BY <1>3, <1>7, <1>9, <2>1
<1>11. \A i \in DOMAIN es : i \in DOMAIN s \/ \E k \in DOMAIN t : i = Len(s) + k
  <2> SUFFICES ASSUME NEW i \in DOMAIN es, i \notin DOMAIN s PROVE \E k \in DOMAIN t : i = Len(s) + k
    OBVIOUS
  <2>1. i - Len(s) \in DOMAIN t /\ i = Len(s) + (i - Len(s))
    BY <1>3, <1>10
  <2>2. QED
    BY <2>1
<1>12. /\ \A i \in DOMAIN es : Mine(a, es[i]) /\ es[i].cause = a.at
       /\ \A i \in DOMAIN es : \/ /\ es[i].type = "fault.not_matched"
                                  /\ \E k \in DOMAIN s : es[i].rule = s[k].id
                               \/ /\ es[i].type = "fault.matched"
                                  /\ \E k \in DOMAIN t : i = Len(s) + k /\ es[i].rule = t[k].id
       /\ \A k \in DOMAIN t : /\ es[Len(s) + k].type = "fault.matched"
                              /\ es[Len(s) + k].rule = t[k].id
  <2>1. ASSUME NEW i \in DOMAIN s
        PROVE  /\ Mine(a, es[i]) /\ es[i].cause = a.at
               /\ es[i].type = "fault.not_matched" /\ es[i].rule = s[i].id
    <3>1. PICK e : e = es[i]
      OBVIOUS
    <3>2. PICK id : id = s[i].id
      OBVIOUS
    <3>3. e = Event("fault.not_matched", a, id, a.at, "")
      BY <1>4, <1>10, <3>1, <3>2
    <3>4. Mine(a, e) /\ e.cause = a.at /\ e.type = "fault.not_matched" /\ e.rule = id
      BY <3>3 DEF Event, Mine
    <3>5. QED
      BY <3>1, <3>2, <3>4
  <2>2. ASSUME NEW k \in DOMAIN t
        PROVE  /\ Mine(a, es[Len(s) + k]) /\ es[Len(s) + k].cause = a.at
               /\ es[Len(s) + k].type = "fault.matched" /\ es[Len(s) + k].rule = t[k].id
    <3>1. PICK e : e = es[Len(s) + k]
      OBVIOUS
    <3>2. PICK id : id = t[k].id
      OBVIOUS
    <3>3. e = Event("fault.matched", a, id, a.at, "")
      BY <1>4, <1>10, <3>1, <3>2
    <3>4. Mine(a, e) /\ e.cause = a.at /\ e.type = "fault.matched" /\ e.rule = id
      BY <3>3 DEF Event, Mine
    <3>5. QED
      BY <3>1, <3>2, <3>4
  <2>3. QED
    BY <1>11, <2>1, <2>2
<1>13. QED
  BY <1>10, <1>12 DEF IsSelection

\* Events an attempt may add to the evidence.
Fit(p, y, a, es) ==
  /\ es \in Seq(Events)
  /\ \A k \in DOMAIN es : /\ Mine(a, es[k]) /\ es[k].type # "tool.requested"
                          /\ es[k].cause < Len(y.events) + k
                          /\ es[k].type = "tool.result" => es[k].info \in Codes
                          /\ es[k].rule = "" \/ \E x \in DOMAIN p : p[x].id = es[k].rule

\* The domain of a sequence.
LEMMA SeqDomain ==
  ASSUME NEW S, NEW s \in Seq(S)
  PROVE  DOMAIN s = 1 .. Len(s) /\ Len(s) \in Nat
OBVIOUS

\* What adding them leaves as it was, and what it adds.
Grown(p, z, y, y2, a, es) ==
  /\ Same(z, y2) /\ Rest(y, y2) /\ Logged(y2) /\ Longer(z, y2, a) /\ Longer(y, y2, a)
  /\ Named(p, y2) /\ Asks(y2, a)
  /\ Len(y2.events) = Len(y.events) + Len(es) /\ Len(y.events) \in Nat
  /\ \A k \in DOMAIN es : /\ y2.events[Len(y.events) + k] = es[k]
                          /\ Len(y.events) + k \in DOMAIN y2.events
  /\ \A i \in DOMAIN y.events : y2.events[i] = y.events[i] /\ i \in DOMAIN y2.events
  /\ \A i \in DOMAIN y2.events :
       i \in DOMAIN y.events \/ \E k \in DOMAIN es : i = Len(y.events) + k

\* From z to y, all that is new is evidence of the attempt.
Underway(p, z, y, a) ==
  /\ z \in Databases /\ Same(z, y) /\ Logged(y) /\ Longer(z, y, a) /\ Named(p, y)
  /\ a \in Attempts /\ Asks(y, a)

\* A stage is under way.
LEMMA StageUnderway ==
  ASSUME NEW p, NEW w, NEW z, NEW y, NEW a, NEW As, NEW PS, Stage(p, w, z, y, a, As, PS)
  PROVE  Underway(p, z, y, a)
BY DEF Stage, Underway

\* Evidence that is added leaves what the attempt had.
LEMMA Grows ==
  ASSUME NEW z, NEW y, NEW a, NEW p, Underway(p, z, y, a), NEW es, Fit(p, y, a, es),
         NEW y2, y2 = Add(y, es)
  PROVE  Grown(p, z, y, y2, a, es)
<1>1. /\ z \in Databases /\ y \in Databases /\ a \in Attempts /\ Logged(y) /\ Longer(z, y, a)
      /\ Same(z, y) /\ Named(p, y) /\ Asks(y, a)
  BY DEF Underway, Same
<1>2. /\ Same(y, y2) /\ Rest(y, y2) /\ y2 \in Databases
      /\ Len(y2.events) = Len(y.events) + Len(es)
      /\ \A i \in 1 .. Len(y.events) : y2.events[i] = y.events[i]
      /\ \A i \in Len(y.events) + 1 .. Len(y.events) + Len(es) : y2.events[i] = es[i - Len(y.events)]
  <2>1. es \in Seq(Events)
    BY DEF Fit
  <2>2. QED
    BY <1>1, <2>1, Adds DEF Same
<1>3. /\ DOMAIN y.events = 1 .. Len(y.events) /\ Len(y.events) \in Nat
      /\ DOMAIN y2.events = 1 .. Len(y2.events)
  BY <1>1, <1>2, Evidence
<1>4. DOMAIN es = 1 .. Len(es) /\ Len(es) \in Nat
  <2>1. es \in Seq(Events)
    BY DEF Fit
  <2>2. QED
    BY <2>1, SeqDomain
<1>5. Logged(y2) /\ Longer(y, y2, a)
  <2>1. a.at \in DOMAIN y.events /\ Mine(a, y.events[a.at])
    BY <1>1 DEF Asks, Asked
  <2>2. QED
    BY <1>1, <2>1, AddsMine DEF Fit
<1>6. Longer(z, y2, a)
  BY <1>1, <1>2, <1>5, LongerTwice
<1>7. \A i \in DOMAIN y.events : y2.events[i] = y.events[i] /\ i \in DOMAIN y2.events
  BY <1>2, <1>3, <1>4
<1>8. \A k \in DOMAIN es : /\ y2.events[Len(y.events) + k] = es[k]
                           /\ Len(y.events) + k \in DOMAIN y2.events
  <2> SUFFICES ASSUME NEW k \in DOMAIN es
               PROVE  /\ y2.events[Len(y.events) + k] = es[k]
                      /\ Len(y.events) + k \in DOMAIN y2.events
    OBVIOUS
  <2>1. PICK i : i = Len(y.events) + k
    OBVIOUS
  <2>2. i \in Len(y.events) + 1 .. Len(y.events) + Len(es) /\ i - Len(y.events) = k
        /\ i \in 1 .. Len(y.events) + Len(es)
    BY <1>3, <1>4, <2>1
  <2>3. QED
    BY <1>2, <1>3, <2>1, <2>2
<1>9. \A i \in DOMAIN y2.events : i \in DOMAIN y.events \/ \E k \in DOMAIN es : i = Len(y.events) + k
  <2> SUFFICES ASSUME NEW i \in DOMAIN y2.events, i \notin DOMAIN y.events
               PROVE  \E k \in DOMAIN es : i = Len(y.events) + k
    OBVIOUS
  <2>1. i - Len(y.events) \in DOMAIN es /\ i = Len(y.events) + (i - Len(y.events))
    BY <1>2, <1>3, <1>4
  <2>2. QED
    BY <2>1
<1>10. Same(z, y2)
  BY <1>1, <1>2 DEF Same
<1>11. Named(p, y2)
  <2>1. \A i \in DOMAIN y.events : y2.events[i].rule = "" \/ \E x \in DOMAIN p : p[x].id = y2.events[i].rule
    BY <1>1, <1>7 DEF Named
  <2>2. \A k \in DOMAIN es : \/ y2.events[Len(y.events) + k].rule = ""
                             \/ \E x \in DOMAIN p : p[x].id = y2.events[Len(y.events) + k].rule
    BY <1>8 DEF Fit
  <2>3. QED
    BY <1>9, <2>1, <2>2 DEF Named
<1>12. Asks(y2, a)
  BY <1>1, <1>7 DEF Asks, Asked
<1>13. QED
  BY <1>2, <1>3, <1>5, <1>6, <1>7, <1>8, <1>9, <1>10, <1>11, <1>12 DEF Grown

\* The rules are matched after the evidence there was.
MatchedNow(y, y2, a, ms) ==
  /\ Rest(y, y2) /\ Longer(y, y2, a)
  /\ \A k \in DOMAIN ms : \E m \in Matches(y2, a.at) :
       y2.events[m].rule = ms[k].id /\ Len(y.events) < m
  /\ Applies(y2, a.at) = Applies(y, a.at)
  /\ \A i \in Applies(y, a.at) : y2.events[i] = y.events[i]

\* The evidence of a selection.
LEMMA Matching ==
  ASSUME NEW z, NEW y, NEW a, NEW As, NEW PS, NEW phase, phase \notin PS, IsPlan(plan),
         Stage(plan, draws, z, y, a, As, PS),
         NEW ms, List(plan, ms), \A k \in DOMAIN ms : Wants(draws, z, ms[k], a, phase),
         NEW y2, y2 = record_fault_selection(y, a, phase, ms)
  PROVE  Stage(plan, draws, z, y2, a, As, PS \cup {phase}) /\ MatchedNow(y, y2, a, ms)
<1>1. PICK no : no = reportable_not_matched(y, a, phase)
  OBVIOUS
<1>2. List(plan, no)
  BY <1>1, Missing
<1>3. PICK es : es = Selection(a, no, ms)
  OBVIOUS
<1>4. no \in Seq(CompiledFaultRules) /\ ms \in Seq(CompiledFaultRules)
  BY <1>2 DEF List
<1>5. a \in Attempts /\ y \in Databases /\ z \in Databases /\ Asks(y, a)
  BY DEF Stage, Same
<1>6. /\ es \in Seq(Events) /\ DOMAIN es = 1 .. Len(no) + Len(ms) /\ Len(es) = Len(no) + Len(ms)
      /\ \A i \in DOMAIN es : Mine(a, es[i]) /\ es[i].cause = a.at
      /\ \A i \in DOMAIN es : \/ /\ es[i].type = "fault.not_matched"
                                 /\ \E k \in DOMAIN no : es[i].rule = no[k].id
                              \/ /\ es[i].type = "fault.matched"
                                 /\ \E k \in DOMAIN ms : i = Len(no) + k /\ es[i].rule = ms[k].id
      /\ \A k \in DOMAIN ms : /\ es[Len(no) + k].type = "fault.matched"
                              /\ es[Len(no) + k].rule = ms[k].id
  <2>1. IsSelection(a, no, ms, es)
    BY <1>3, <1>4, <1>5, SelectionEvents
  <2>2. QED
    BY <2>1 DEF IsSelection
<1>7. y2 = Add(y, es)
  BY <1>1, <1>3 DEF record_fault_selection, Selection
<1>8. DOMAIN y.events = 1 .. Len(y.events) /\ Len(y.events) \in Nat /\ a.at \in DOMAIN y.events
  BY <1>5, Evidence DEF Asks, Asked
<1>9. \A k \in DOMAIN es : /\ Mine(a, es[k]) /\ es[k].type # "tool.requested"
                           /\ es[k].cause < Len(y.events) + k
                           /\ es[k].type = "tool.result" => es[k].info \in Codes
                           /\ es[k].rule = "" \/ \E x \in DOMAIN plan : plan[x].id = es[k].rule
  <2> SUFFICES ASSUME NEW k \in DOMAIN es
               PROVE  /\ Mine(a, es[k]) /\ es[k].type # "tool.requested"
                      /\ es[k].cause < Len(y.events) + k
                      /\ es[k].type = "tool.result" => es[k].info \in Codes
                      /\ es[k].rule = "" \/ \E x \in DOMAIN plan : plan[x].id = es[k].rule
    OBVIOUS
  <2>1. Len(no) \in Nat /\ Len(ms) \in Nat
    BY <1>4
  <2>2. es[k].cause < Len(y.events) + k
    <3>1. k \in Nat /\ k > 0
      BY <1>6, <2>1
    <3>2. es[k].cause = a.at
      BY <1>6
    <3>3. QED
      BY <1>8, <3>1, <3>2
  <2>3. es[k].type # "tool.requested" /\ es[k].type # "tool.result"
    BY <1>6
  <2>4. \E x \in DOMAIN plan : plan[x].id = es[k].rule
    <3>1. \A j \in DOMAIN no : \E x \in DOMAIN plan : plan[x].id = no[j].id
      BY <1>2 DEF List
    <3>2. \A j \in DOMAIN ms : \E x \in DOMAIN plan : plan[x].id = ms[j].id
      BY DEF List
    <3>3. QED
      BY <1>6, <3>1, <3>2
  <2>5. QED
    BY <1>6, <2>2, <2>3, <2>4
<1>10. Fit(plan, y, a, es)
  BY <1>6, <1>9 DEF Fit
<1>11. /\ Same(z, y2) /\ Rest(y, y2) /\ Logged(y2) /\ Longer(z, y2, a) /\ Longer(y, y2, a)
       /\ Named(plan, y2) /\ Asks(y2, a)
       /\ Len(y2.events) = Len(y.events) + Len(es)
       /\ \A k \in DOMAIN es : /\ y2.events[Len(y.events) + k] = es[k]
                               /\ Len(y.events) + k \in DOMAIN y2.events
       /\ \A i \in DOMAIN y.events : y2.events[i] = y.events[i] /\ i \in DOMAIN y2.events
       /\ \A i \in DOMAIN y2.events :
            i \in DOMAIN y.events \/ \E k \in DOMAIN es : i = Len(y.events) + k
  <2>1. Grown(plan, z, y, y2, a, es)
    BY <1>10, <1>7, Grows, StageUnderway
  <2>2. QED
    BY <2>1 DEF Grown
<1>12. \A k \in DOMAIN es : es[k].request = a.at
  BY <1>6 DEF Mine
<1>13. \A type, i : i \in Positions(y2, type, a.at) <=>
         i \in Positions(y, type, a.at) \/ \E k \in DOMAIN es : i = Len(y.events) + k /\ es[k].type = type
  BY <1>11, <1>12 DEF Positions
<1>14. \A type : type \notin {"fault.matched", "fault.not_matched"} =>
         Positions(y2, type, a.at) = Positions(y, type, a.at)
  BY <1>6, <1>13
<1>15. \A i \in Matches(y2, a.at) :
         \/ i \in Matches(y, a.at)
         \/ \E k \in DOMAIN ms : i = Len(y.events) + Len(no) + k /\ y2.events[i].rule = ms[k].id
                                 /\ y2.events[i].cause = a.at
  <2> SUFFICES ASSUME NEW i \in Matches(y2, a.at), i \notin Matches(y, a.at)
               PROVE  \E k \in DOMAIN ms : i = Len(y.events) + Len(no) + k /\ y2.events[i].rule = ms[k].id
                                           /\ y2.events[i].cause = a.at
    OBVIOUS
  <2>1. PICK j \in DOMAIN es : i = Len(y.events) + j /\ es[j].type = "fault.matched"
    BY <1>13 DEF Matches
  <2>2. PICK k \in DOMAIN ms : j = Len(no) + k /\ es[j].rule = ms[k].id
    BY <1>6, <2>1
  <2>3. Len(no) \in Nat /\ k \in Nat
    BY <1>4
  <2>4. i = Len(y.events) + Len(no) + k
    BY <1>8, <2>1, <2>2, <2>3
  <2>5. QED
    BY <1>6, <1>11, <2>1, <2>2, <2>4
<1>16. \A k \in DOMAIN ms : \E m \in Matches(y2, a.at) :
         y2.events[m].rule = ms[k].id /\ Len(y.events) < m
  <2> SUFFICES ASSUME NEW k \in DOMAIN ms
               PROVE  \E m \in Matches(y2, a.at) : y2.events[m].rule = ms[k].id /\ Len(y.events) < m
    OBVIOUS
  <2>1. Len(no) \in Nat /\ Len(ms) \in Nat /\ k \in 1 .. Len(ms)
    BY <1>4
  <2>2. Len(no) + k \in DOMAIN es /\ Len(y.events) < Len(y.events) + (Len(no) + k)
    BY <1>6, <1>8, <2>1
  <2>3. Len(y.events) + (Len(no) + k) \in Matches(y2, a.at)
    BY <1>6, <1>13, <2>2 DEF Matches
  <2>4. y2.events[Len(y.events) + (Len(no) + k)].rule = ms[k].id
    BY <1>6, <1>11, <2>2
  <2>5. QED
    BY <2>2, <2>3, <2>4
<1>17. Chosen(plan, draws, y, a.at) /\ InPhases(plan, y, a, PS)
  BY DEF Stage
<1>18. \A k \in DOMAIN ms : \E x \in DOMAIN plan : plan[x] = ms[k] /\ Wants(draws, z, plan[x], a, phase)
  BY DEF List
<1>19. y2.events[a.at].info = a.q /\ y2.events[a.at].call = a.call /\ y2.events[a.at].attempt = a.attempt
  BY <1>11 DEF Asks, Mine
<1>20. y.events[a.at] = y2.events[a.at]
  BY <1>8, <1>11
<1>21. \A i \in Matches(y, a.at) : i \in DOMAIN y.events /\ y2.events[i] = y.events[i]
  BY <1>11 DEF Matches, Positions
<1>22. ASSUME NEW i \in Matches(y2, a.at)
       PROVE  /\ y2.events[i].cause = a.at
              /\ \E x \in DOMAIN plan :
                   /\ plan[x].id = y2.events[i].rule
                   /\ plan[x].tool = ToolOf[y2.events[a.at].info]
                   /\ plan[x].ordinal \in {0, y2.events[a.at].call}
                   /\ Draw(draws, plan[x], y2.events[a.at].call, y2.events[a.at].attempt)
              /\ \E x \in DOMAIN plan : plan[x].id = y2.events[i].rule /\ plan[x].phase \in PS \cup {phase}
  <2>1. CASE i \in Matches(y, a.at)
    BY <1>17, <1>20, <1>21, <2>1 DEF Chosen, InPhases
  <2>2. CASE \E k \in DOMAIN ms : y2.events[i].rule = ms[k].id /\ y2.events[i].cause = a.at
    <3>1. PICK k \in DOMAIN ms : y2.events[i].rule = ms[k].id /\ y2.events[i].cause = a.at
      BY <2>2
    <3>2. PICK x \in DOMAIN plan : plan[x] = ms[k] /\ Wants(draws, z, plan[x], a, phase)
      BY <1>18
    <3>3. a.ordinal = a.call
      BY DEF Stage
    <3>4. QED
      BY <1>19, <3>1, <3>2, <3>3 DEF Wants
  <2>3. QED
    BY <1>15, <2>1, <2>2
<1>23. \A i, j \in Matches(y2, a.at) : y2.events[i].rule = y2.events[j].rule => i = j
  <2>1. \A i, j \in Matches(y, a.at) : y2.events[i].rule = y2.events[j].rule => i = j
    BY <1>17, <1>21 DEF Chosen
  <2>2. ASSUME NEW i \in Matches(y, a.at), NEW k \in DOMAIN ms PROVE y2.events[i].rule # ms[k].id
    <3>1. PICK x \in DOMAIN plan : plan[x].id = y2.events[i].rule /\ plan[x].phase \in PS
      BY <1>17, <1>21 DEF InPhases
    <3>2. PICK v \in DOMAIN plan : plan[v] = ms[k] /\ Wants(draws, z, plan[v], a, phase)
      BY <1>18
    <3>3. plan[v].phase = phase
      BY <3>2 DEF Wants
    <3>4. x # v
      BY <3>1, <3>3
    <3>5. QED
      BY <3>1, <3>2, <3>4 DEF IsPlan
  <2>3. ASSUME NEW i \in Matches(y2, a.at), NEW j \in Matches(y2, a.at),
               y2.events[i].rule = y2.events[j].rule
        PROVE  i = j
    <3>1. CASE i \in Matches(y, a.at) /\ j \in Matches(y, a.at)
      BY <2>1, <2>3, <3>1
    <3>2. CASE i \in Matches(y, a.at) /\ j \notin Matches(y, a.at)
      BY <1>15, <2>2, <2>3, <3>2
    <3>3. CASE i \notin Matches(y, a.at) /\ j \in Matches(y, a.at)
      BY <1>15, <2>2, <2>3, <3>3
    <3>4. CASE i \notin Matches(y, a.at) /\ j \notin Matches(y, a.at)
      <4>1. PICK k \in DOMAIN ms : i = Len(y.events) + Len(no) + k /\ y2.events[i].rule = ms[k].id
        BY <1>15, <3>4
      <4>2. PICK l \in DOMAIN ms : j = Len(y.events) + Len(no) + l /\ y2.events[j].rule = ms[l].id
        BY <1>15, <3>4
      <4>3. k = l
        BY <2>3, <4>1, <4>2 DEF List
      <4>4. QED
        BY <4>1, <4>2, <4>3
    <3>5. QED
      BY <3>1, <3>2, <3>3, <3>4
  <2>4. QED
    BY <2>3
<1>24. /\ Applies(y2, a.at) = Applies(y, a.at) /\ Results(y2, a.at) = Results(y, a.at)
       /\ Observed(y2, a.at) = Observed(y, a.at)
  BY <1>14 DEF Applies, Results, Observed
<1>25. \A i \in Applies(y, a.at) : y2.events[i] = y.events[i]
  BY <1>11 DEF Applies, Positions
<1>26. \A i \in Matches(y, a.at) : i \in Matches(y2, a.at)
  BY <1>13 DEF Matches
<1>27. Chosen(plan, draws, y2, a.at)
  <2>1. \A i, j \in Applies(y2, a.at) : y2.events[i].rule = y2.events[j].rule => i = j
    BY <1>17, <1>24, <1>25 DEF Chosen
  <2>2. \A i \in Applies(y2, a.at) : /\ y2.events[i].cause \in Matches(y2, a.at)
                                     /\ y2.events[y2.events[i].cause].rule = y2.events[i].rule
    BY <1>17, <1>21, <1>24, <1>25, <1>26 DEF Chosen
  <2>3. QED
    BY <1>22, <1>23, <2>1, <2>2 DEF Chosen
<1>28. InPhases(plan, y2, a, PS \cup {phase})
  BY <1>22 DEF InPhases
<1>29. HasApplied(y2, a, As)
  <2>1. HasApplied(y, a, As)
    BY DEF Stage
  <2>2. QED
    BY <1>24, <1>25, <2>1 DEF HasApplied
<1>30. Stage(plan, draws, z, y2, a, As, PS \cup {phase})
  <2>1. /\ Results(y, a.at) = {} /\ Observed(y, a.at) = {} /\ a.ordinal = a.call /\ List(plan, As)
        /\ \A k \in DOMAIN As : As[k].phase \in PS /\ ~Capped(z, As[k], a)
    BY DEF Stage
  <2>2. QED
    BY <1>5, <1>11, <1>24, <1>27, <1>28, <1>29, <2>1 DEF Stage
<1>31. QED
  BY <1>11, <1>16, <1>24, <1>25, <1>30 DEF MatchedNow

\* The rules are applied after the evidence there was.
AppliedNow(y, y2, a, Bs) ==
  /\ Rest(y, y2) /\ Longer(y, y2, a) /\ Matches(y2, a.at) = Matches(y, a.at)
  /\ \A i \in Matches(y, a.at) : y2.events[i] = y.events[i]
  /\ \A i \in Applies(y2, a.at) : \/ i \in Applies(y, a.at)
                                  \/ \E k \in DOMAIN Bs : i = Len(y.events) + k
  /\ \A k \in DOMAIN Bs : /\ Len(y.events) + k \in Applies(y2, a.at)
                          /\ y2.events[Len(y.events) + k].rule = Bs[k].id

\* The evidence of applications.
LEMMA ApplyingNow ==
  ASSUME NEW p, NEW w, NEW z, NEW y, NEW a, NEW As, NEW PS,
         Stage(p, w, z, y, a, As, PS),
         NEW Bs, List(p, Bs),
         \A k \in DOMAIN Bs : /\ \E m \in Matches(y, a.at) : y.events[m].rule = Bs[k].id
                              /\ \A i \in Applies(y, a.at) : y.events[i].rule # Bs[k].id
                              /\ Bs[k].phase \in PS /\ ~Capped(z, Bs[k], a),
         NEW y2, y2 = record_applied_faults(y, a, Bs)
  PROVE  Stage(p, w, z, y2, a, As \o Bs, PS) /\ AppliedNow(y, y2, a, Bs)
<1>1. PICK match : match = [k \in DOMAIN Bs |->
         CHOOSE m \in Matches(y, a.at) : y.events[m].rule = Bs[k].id]
  OBVIOUS
<1>2. \A k \in DOMAIN Bs : match[k] \in Matches(y, a.at) /\ y.events[match[k]].rule = Bs[k].id
  <2> SUFFICES ASSUME NEW k \in DOMAIN Bs
               PROVE  match[k] \in Matches(y, a.at) /\ y.events[match[k]].rule = Bs[k].id
    OBVIOUS
  <2>1. match[k] = CHOOSE m \in Matches(y, a.at) : y.events[m].rule = Bs[k].id
    BY <1>1
  <2>2. \E m \in Matches(y, a.at) : y.events[m].rule = Bs[k].id
    OBVIOUS
  <2>3. QED
    BY <2>1, <2>2
<1>3. PICK es : es = [i \in DOMAIN Bs |-> Event("fault.applied", a, Bs[i].id, match[i], "")]
  OBVIOUS
<1>4. y2 = Add(y, es)
  <2>1. \A i \in DOMAIN Bs : match[i] =
          CHOOSE m \in Positions(y, "fault.matched", a.at) : y.events[m].rule = Bs[i].id
    BY <1>1 DEF Matches
  <2>2. es = [i \in DOMAIN Bs |-> Event("fault.applied", a, Bs[i].id,
                CHOOSE m \in Positions(y, "fault.matched", a.at) : y.events[m].rule = Bs[i].id, "")]
    BY <1>3, <2>1
  <2>3. QED
    BY <2>2 DEF record_applied_faults
<1>5. /\ a \in Attempts /\ y \in Databases /\ z \in Databases /\ Asks(y, a) /\ List(p, As)
      /\ Bs \in Seq(CompiledFaultRules) /\ As \in Seq(CompiledFaultRules)
  BY DEF Stage, Same, List
<1>6. /\ DOMAIN Bs = 1 .. Len(Bs) /\ Len(Bs) \in Nat
      /\ \A i \in DOMAIN Bs : Bs[i].id \in STRING
  BY <1>5, RuleTypes
<1>7. DOMAIN y.events = 1 .. Len(y.events) /\ Len(y.events) \in Nat
  BY <1>5, Evidence
<1>8. \A k \in DOMAIN Bs : match[k] \in Nat /\ match[k] <= Len(y.events) /\ match[k] \in DOMAIN y.events
  <2>1. \A k \in DOMAIN Bs : match[k] \in DOMAIN y.events
    BY <1>2 DEF Matches, Positions
  <2>2. QED
    BY <1>7, <2>1
<1>9. \A k \in DOMAIN Bs : es[k] = Event("fault.applied", a, Bs[k].id, match[k], "")
  BY <1>3
<1>10. \A k \in DOMAIN Bs : /\ Mine(a, es[k]) /\ es[k].request = a.at
                            /\ es[k].type = "fault.applied" /\ es[k].rule = Bs[k].id
                            /\ es[k].cause = match[k]
  <2> SUFFICES ASSUME NEW k \in DOMAIN Bs
               PROVE  /\ Mine(a, es[k]) /\ es[k].request = a.at
                      /\ es[k].type = "fault.applied" /\ es[k].rule = Bs[k].id
                      /\ es[k].cause = match[k]
    OBVIOUS
  <2>1. PICK e : e = es[k]
    OBVIOUS
  <2>2. PICK id : id = Bs[k].id
    OBVIOUS
  <2>3. PICK c : c = match[k]
    OBVIOUS
  <2>4. e = Event("fault.applied", a, id, c, "")
    BY <1>9, <2>1, <2>2, <2>3
  <2>5. Mine(a, e) /\ e.request = a.at /\ e.type = "fault.applied" /\ e.rule = id /\ e.cause = c
    BY <2>4 DEF Event, Mine
  <2>6. QED
    BY <2>1, <2>2, <2>3, <2>5
<1>11. DOMAIN es = DOMAIN Bs /\ es \in Seq(Events) /\ Len(es) = Len(Bs)
  <2>1. \A rule \in STRING, cause \in Nat : Event("fault.applied", a, rule, cause, "") \in Events
    BY <1>5 DEF Event, Events, Attempts, EVENT_TYPES
  <2>2. \A k \in DOMAIN Bs : es[k] \in Events
    BY <1>6, <1>8, <1>9, <2>1
  <2>3. es \in [1 .. Len(Bs) -> Events]
    BY <1>3, <1>6, <2>2
  <2>4. \A k \in Nat : \A g \in [1 .. k -> Events] : g \in Seq(Events) /\ Len(g) = k
    OBVIOUS
  <2>5. QED
    BY <1>6, <2>3, <2>4
<1>12. Fit(p, y, a, es)
  <2>1. \A k \in DOMAIN Bs : es[k].cause < Len(y.events) + k
    BY <1>6, <1>7, <1>8, <1>10
  <2>2. \A k \in DOMAIN Bs : \E x \in DOMAIN p : p[x].id = es[k].rule
    BY <1>10 DEF List
  <2>3. \A k \in DOMAIN es : /\ Mine(a, es[k]) /\ es[k].type # "tool.requested"
                             /\ es[k].type # "tool.result"
    BY <1>10, <1>11
  <2>4. QED
    BY <1>11, <2>1, <2>2, <2>3 DEF Fit
<1>13. /\ Same(z, y2) /\ Rest(y, y2) /\ Logged(y2) /\ Longer(z, y2, a) /\ Longer(y, y2, a)
       /\ Named(p, y2) /\ Asks(y2, a)
       /\ Len(y2.events) = Len(y.events) + Len(es)
       /\ \A k \in DOMAIN es : /\ y2.events[Len(y.events) + k] = es[k]
                               /\ Len(y.events) + k \in DOMAIN y2.events
       /\ \A i \in DOMAIN y.events : y2.events[i] = y.events[i] /\ i \in DOMAIN y2.events
       /\ \A i \in DOMAIN y2.events :
            i \in DOMAIN y.events \/ \E k \in DOMAIN es : i = Len(y.events) + k
  <2>1. Grown(p, z, y, y2, a, es)
    BY <1>4, <1>12, Grows, StageUnderway
  <2>2. QED
    BY <2>1 DEF Grown
<1>14. \A k \in DOMAIN es : es[k].request = a.at /\ es[k].type = "fault.applied"
  BY <1>10, <1>11
<1>15. \A type, i : i \in Positions(y2, type, a.at) <=>
         \/ i \in Positions(y, type, a.at)
         \/ type = "fault.applied" /\ \E k \in DOMAIN es : i = Len(y.events) + k
  BY <1>13, <1>14 DEF Positions
<1>16. /\ Matches(y2, a.at) = Matches(y, a.at) /\ Results(y2, a.at) = Results(y, a.at)
       /\ Observed(y2, a.at) = Observed(y, a.at)
  <2>1. \A type : type # "fault.applied" => Positions(y2, type, a.at) = Positions(y, type, a.at)
    BY <1>15
  <2>2. QED
    BY <2>1 DEF Matches, Results, Observed
<1>17. \A i \in Applies(y2, a.at) : \/ i \in Applies(y, a.at)
                                    \/ \E k \in DOMAIN Bs : i = Len(y.events) + k
  BY <1>11, <1>15 DEF Applies
<1>18. \A k \in DOMAIN Bs : /\ Len(y.events) + k \in Applies(y2, a.at)
                            /\ y2.events[Len(y.events) + k].rule = Bs[k].id
                            /\ y2.events[Len(y.events) + k].cause = match[k]
  BY <1>10, <1>11, <1>13, <1>15 DEF Applies
<1>19. /\ \A i \in Applies(y, a.at) : y2.events[i] = y.events[i] /\ i \in Applies(y2, a.at)
       /\ \A i \in Matches(y, a.at) : y2.events[i] = y.events[i]
  <2>1. \A i \in Applies(y, a.at) : i \in DOMAIN y.events /\ i \in Applies(y2, a.at)
    BY <1>15 DEF Applies, Positions
  <2>2. \A i \in Matches(y, a.at) : i \in DOMAIN y.events
    BY DEF Matches, Positions
  <2>3. QED
    BY <1>13, <2>1, <2>2
<1>20. Chosen(p, w, y, a.at) /\ InPhases(p, y, a, PS) /\ HasApplied(y, a, As)
  BY DEF Stage
<1>21. y.events[a.at] = y2.events[a.at]
  BY <1>5, <1>13 DEF Asks, Asked
<1>22. \A i, j \in Applies(y2, a.at) : y2.events[i].rule = y2.events[j].rule => i = j
  <2>1. ASSUME NEW i \in Applies(y2, a.at), NEW j \in Applies(y2, a.at),
               y2.events[i].rule = y2.events[j].rule
        PROVE  i = j
    <3>1. CASE i \in Applies(y, a.at) /\ j \in Applies(y, a.at)
      BY <1>19, <1>20, <2>1, <3>1 DEF Chosen
    <3>2. CASE i \in Applies(y, a.at) /\ j \notin Applies(y, a.at)
      <4>1. PICK k \in DOMAIN Bs : j = Len(y.events) + k
        BY <1>17, <3>2
      <4>2. y.events[i].rule = Bs[k].id
        BY <1>18, <1>19, <2>1, <3>2, <4>1
      <4>3. QED
        BY <3>2, <4>2
    <3>3. CASE i \notin Applies(y, a.at) /\ j \in Applies(y, a.at)
      <4>1. PICK k \in DOMAIN Bs : i = Len(y.events) + k
        BY <1>17, <3>3
      <4>2. y.events[j].rule = Bs[k].id
        BY <1>18, <1>19, <2>1, <3>3, <4>1
      <4>3. QED
        BY <3>3, <4>2
    <3>4. CASE i \notin Applies(y, a.at) /\ j \notin Applies(y, a.at)
      <4>1. PICK k \in DOMAIN Bs : i = Len(y.events) + k
        BY <1>17, <3>4
      <4>2. PICK l \in DOMAIN Bs : j = Len(y.events) + l
        BY <1>17, <3>4
      <4>3. k = l
        BY <1>18, <2>1, <4>1, <4>2 DEF List
      <4>4. QED
        BY <4>1, <4>2, <4>3
    <3>5. QED
      BY <3>1, <3>2, <3>3, <3>4
  <2>2. QED
    BY <2>1
<1>23. \A i \in Applies(y2, a.at) : /\ y2.events[i].cause \in Matches(y2, a.at)
                                    /\ y2.events[y2.events[i].cause].rule = y2.events[i].rule
  <2>1. \A i \in Applies(y, a.at) : /\ y2.events[i].cause \in Matches(y2, a.at)
                                    /\ y2.events[y2.events[i].cause].rule = y2.events[i].rule
    BY <1>16, <1>19, <1>20 DEF Chosen
  <2>2. \A k \in DOMAIN Bs : /\ y2.events[Len(y.events) + k].cause \in Matches(y2, a.at)
                             /\ y2.events[y2.events[Len(y.events) + k].cause].rule =
                                y2.events[Len(y.events) + k].rule
    BY <1>2, <1>16, <1>18, <1>19
  <2>3. QED
    BY <1>17, <2>1, <2>2
<1>24. Chosen(p, w, y2, a.at) /\ InPhases(p, y2, a, PS)
  <2>1. InPhases(p, y2, a, PS)
    BY <1>16, <1>19, <1>20 DEF InPhases
  <2>2. /\ \A i \in Matches(y2, a.at) :
             /\ y2.events[i].cause = a.at
             /\ \E x \in DOMAIN p : /\ p[x].id = y2.events[i].rule
                                    /\ p[x].tool = ToolOf[y2.events[a.at].info]
                                    /\ p[x].ordinal \in {0, y2.events[a.at].call}
                                    /\ Draw(w, p[x], y2.events[a.at].call, y2.events[a.at].attempt)
        /\ \A i, j \in Matches(y2, a.at) : y2.events[i].rule = y2.events[j].rule => i = j
    BY <1>16, <1>19, <1>20, <1>21 DEF Chosen
  <2>3. QED
    BY <1>22, <1>23, <2>1, <2>2 DEF Chosen
<1>25. PICK Cs : Cs = As \o Bs
  OBVIOUS
<1>26. /\ Cs \in Seq(CompiledFaultRules) /\ Len(Cs) = Len(As) + Len(Bs)
       /\ Len(As) \in Nat /\ DOMAIN As = 1 .. Len(As) /\ DOMAIN Cs = 1 .. Len(As) + Len(Bs)
       /\ \A i \in DOMAIN As : Cs[i] = As[i] /\ i \in DOMAIN Cs
       /\ \A i \in DOMAIN Bs : Cs[Len(As) + i] = Bs[i] /\ Len(As) + i \in DOMAIN Cs
  <2>1. /\ Cs \in Seq(CompiledFaultRules) /\ Len(Cs) = Len(As) + Len(Bs)
        /\ Len(As) \in Nat /\ DOMAIN As = 1 .. Len(As)
        /\ \A i \in 1 .. Len(As) : Cs[i] = As[i]
        /\ \A i \in 1 .. Len(Bs) : Cs[Len(As) + i] = Bs[i]
    BY <1>5, <1>25, Joins
  <2>2. DOMAIN Cs = 1 .. Len(Cs)
    BY <2>1
  <2>3. QED
    BY <1>6, <2>1, <2>2
<1>27. \A c \in DOMAIN Cs : c \in DOMAIN As \/ \E k \in DOMAIN Bs : c = Len(As) + k
  <2> SUFFICES ASSUME NEW c \in DOMAIN Cs, c \notin DOMAIN As PROVE \E k \in DOMAIN Bs : c = Len(As) + k
    OBVIOUS
  <2>1. c - Len(As) \in DOMAIN Bs /\ c = Len(As) + (c - Len(As))
    BY <1>6, <1>26
  <2>2. QED
    BY <2>1
<1>28. HasApplied(y2, a, Cs)
  <2>1. \A i \in Applies(y2, a.at) : \E k \in DOMAIN Cs : Cs[k].id = y2.events[i].rule
    <3>1. \A i \in Applies(y, a.at) : \E k \in DOMAIN Cs : Cs[k].id = y2.events[i].rule
      BY <1>19, <1>20, <1>26 DEF HasApplied
    <3>2. QED
      BY <1>17, <1>18, <1>26, <3>1
  <2>2. \A k \in DOMAIN Cs : \E i \in Applies(y2, a.at) : Cs[k].id = y2.events[i].rule
    <3>1. \A k \in DOMAIN As : \E i \in Applies(y2, a.at) : As[k].id = y2.events[i].rule
      BY <1>19, <1>20 DEF HasApplied
    <3>2. \A k \in DOMAIN Bs : \E i \in Applies(y2, a.at) : Bs[k].id = y2.events[i].rule
      BY <1>18
    <3>3. QED
      BY <1>26, <1>27, <3>1, <3>2
  <2>3. QED
    BY <2>1, <2>2 DEF HasApplied
<1>29. List(p, Cs)
  <2>1. \A k \in DOMAIN Cs : \E x \in DOMAIN p : p[x] = Cs[k]
    <3>1. \A k \in DOMAIN As : \E x \in DOMAIN p : p[x] = As[k]
      BY <1>5 DEF List
    <3>2. \A k \in DOMAIN Bs : \E x \in DOMAIN p : p[x] = Bs[k]
      BY DEF List
    <3>3. QED
      BY <1>26, <1>27, <3>1, <3>2
  <2>2. ASSUME NEW k \in DOMAIN Cs, NEW l \in DOMAIN Cs, Cs[k].id = Cs[l].id PROVE k = l
    <3>1. ASSUME NEW i \in DOMAIN As, NEW j \in DOMAIN Bs PROVE As[i].id # Bs[j].id
      BY <1>20 DEF HasApplied
    <3>2. CASE k \in DOMAIN As /\ l \in DOMAIN As
      BY <1>5, <1>26, <2>2, <3>2 DEF List
    <3>3. CASE k \in DOMAIN As /\ l \notin DOMAIN As
      BY <1>26, <1>27, <2>2, <3>1, <3>3
    <3>4. CASE k \notin DOMAIN As /\ l \in DOMAIN As
      BY <1>26, <1>27, <2>2, <3>1, <3>4
    <3>5. CASE k \notin DOMAIN As /\ l \notin DOMAIN As
      <4>1. PICK i \in DOMAIN Bs : k = Len(As) + i
        BY <1>27, <3>5
      <4>2. PICK j \in DOMAIN Bs : l = Len(As) + j
        BY <1>27, <3>5
      <4>3. i = j
        BY <1>26, <2>2, <4>1, <4>2 DEF List
      <4>4. QED
        BY <4>1, <4>2, <4>3
    <3>6. QED
      BY <3>2, <3>3, <3>4, <3>5
  <2>3. QED
    BY <1>26, <2>1, <2>2 DEF List
<1>30. \A k \in DOMAIN Cs : Cs[k].phase \in PS /\ ~Capped(z, Cs[k], a)
  <2>1. \A k \in DOMAIN As : As[k].phase \in PS /\ ~Capped(z, As[k], a)
    BY DEF Stage
  <2>2. QED
    BY <1>26, <1>27, <2>1
<1>31. Stage(p, w, z, y2, a, Cs, PS)
  <2>1. Results(y, a.at) = {} /\ Observed(y, a.at) = {} /\ a.ordinal = a.call
    BY DEF Stage
  <2>2. QED
    BY <1>5, <1>13, <1>16, <1>24, <1>28, <1>29, <1>30, <2>1 DEF Stage
<1>32. AppliedNow(y, y2, a, Bs)
  BY <1>13, <1>16, <1>17, <1>18, <1>19 DEF AppliedNow
<1>33. QED
  BY <1>25, <1>31, <1>32

\* The attempt has its result k with a code, and an observation of each of Bs.
Closed(p, w, z, y, a, As, Bs, code, k) ==
  /\ z \in Databases /\ Same(z, y) /\ Logged(y) /\ Longer(z, y, a) /\ Named(p, y)
  /\ a \in Attempts /\ a.ordinal = a.call /\ Asks(y, a)
  /\ Chosen(p, w, y, a.at) /\ List(p, As) /\ HasApplied(y, a, As)
  /\ \A j \in DOMAIN As : ~Capped(z, As[j], a)
  /\ k \in DOMAIN y.events /\ Results(y, a.at) = {k} /\ y.events[k].info = code
  /\ \A i \in Applies(y, a.at) : i < k
  /\ \/ Applies(y, a.at) = {} /\ y.events[k].cause = a.at
     \/ y.events[k].cause \in Applies(y, a.at) /\ \A i \in Applies(y, a.at) : i <= y.events[k].cause
  /\ \A o \in Observed(y, a.at) : /\ k < o /\ y.events[o].cause = k
                                  /\ \E j \in DOMAIN Bs : Bs[j].id = y.events[o].rule
  /\ \A o, u \in Observed(y, a.at) : y.events[o].rule = y.events[u].rule => o = u
  /\ \A j \in DOMAIN Bs : \E o \in Observed(y, a.at) : Bs[j].id = y.events[o].rule

\* Nothing but the answer is new.
AnsweredNow(y, y2, a) ==
  /\ Rest(y, y2) /\ Longer(y, y2, a)
  /\ Matches(y2, a.at) = Matches(y, a.at) /\ Applies(y2, a.at) = Applies(y, a.at)
  /\ \A i \in Matches(y, a.at) \cup Applies(y, a.at) : y2.events[i] = y.events[i]
  /\ \A i \in DOMAIN y2.events :
       i \in DOMAIN y.events \/ y2.events[i].type # "state.evidence_recorded"

\* The events of an answer: the result, and an observation of each rule.
IsAnswer(y, y2, a, c, code, Bs, es) ==
  /\ y2 = Add(y, es) /\ DOMAIN es = 1 .. Len(Bs) + 1
  /\ es[1] = Event("tool.result", a, "", c, code)
  /\ \A j \in DOMAIN Bs :
       es[j + 1] = Event("fault.observed", a, Bs[j].id, Len(y.events) + 1, "")

\* The sequences the answer adds.
LEMMA AnswerAdds ==
  ASSUME NEW y \in Databases, NEW a \in Attempts, NEW code, NEW Bs \in Seq(CompiledFaultRules),
         NEW c, c = IF Bs = <<>> THEN a.at ELSE Max(Applies(y, a.at)), c \in Nat,
         code \in Codes,
         NEW y2, y2 = answer(y, a, code, Bs)
  PROVE  \E es \in Seq(Events) : IsAnswer(y, y2, a, c, code, Bs, es)
<1>1. PICK r : r = <<Event("tool.result", a, "", c, code)>>
  OBVIOUS
<1>2. \A t0 \in EVENT_TYPES, rule \in STRING \cup {""}, cause \in Nat, info \in Codes \cup {""} :
        Event(t0, a, rule, cause, info) \in Events
  BY DEF Event, Events, Attempts
<1>3. r \in Seq(Events) /\ Len(r) = 1 /\ r[1] = Event("tool.result", a, "", c, code)
  <2>1. Event("tool.result", a, "", c, code) \in Events
    <3>1. "tool.result" \in EVENT_TYPES
      BY DEF EVENT_TYPES
    <3>2. "" \in STRING \cup {""}
      BY Zenon
    <3>3. code \in Codes \cup {""}
      BY Zenon
    <3>4. QED
      BY <1>2, <3>1, <3>2, <3>3, Zenon
  <2>2. PICK e : e = Event("tool.result", a, "", c, code)
    OBVIOUS
  <2>3. e \in Events /\ r = <<e>>
    BY <1>1, <2>1, <2>2
  <2>4. <<e>> \in Seq(Events) /\ Len(<<e>>) = 1 /\ <<e>>[1] = e
    BY <2>3
  <2>5. QED
    BY <2>2, <2>3, <2>4
<1>4. PICK z : z = Add(y, r)
  OBVIOUS
<1>5. /\ z \in Databases /\ Len(z.events) = Len(y.events) + 1 /\ z.events = y.events \o r
      /\ z = [y EXCEPT !.events = y.events \o r] /\ Len(y.events) \in Nat
  <2>1. z \in Databases /\ Len(z.events) = Len(y.events) + Len(r)
    BY <1>3, <1>4, Adds DEF Same
  <2>2. z.events = y.events \o r /\ z = [y EXCEPT !.events = y.events \o r]
    BY <1>4 DEF Add, Databases
  <2>3. Len(y.events) \in Nat
    BY Evidence
  <2>4. QED
    BY <1>3, <2>1, <2>2, <2>3
<1>6. PICK m : m = [i \in DOMAIN Bs |-> Event("fault.observed", a, Bs[i].id, Len(z.events), "")]
  OBVIOUS
<1>7. y2 = Add(z, m)
  <2>1. c = IF Bs = <<>> THEN a.at ELSE Max(Positions(y, "fault.applied", a.at))
    BY DEF Applies
  <2>2. QED
    BY <1>1, <1>4, <1>6, <2>1 DEF answer
<1>8. /\ DOMAIN Bs = 1 .. Len(Bs) /\ Len(Bs) \in Nat
      /\ \A i \in DOMAIN Bs : Bs[i].id \in STRING
  BY RuleTypes
<1>9. \A j \in DOMAIN Bs : m[j] = Event("fault.observed", a, Bs[j].id, Len(y.events) + 1, "")
  BY <1>5, <1>6
<1>10. m \in Seq(Events) /\ Len(m) = Len(Bs)
  <2>1. Len(y.events) + 1 \in Nat
    BY <1>5
  <2>2. \A j \in DOMAIN Bs : m[j] \in Events
    BY <1>2, <1>8, <1>9, <2>1 DEF EVENT_TYPES
  <2>3. m \in [1 .. Len(Bs) -> Events]
    BY <1>6, <1>8, <2>2
  <2>4. \A k \in Nat : \A g \in [1 .. k -> Events] : g \in Seq(Events) /\ Len(g) = k
    OBVIOUS
  <2>5. QED
    BY <1>8, <2>3, <2>4
<1>11. PICK es : es = r \o m
  OBVIOUS
<1>12. /\ es \in Seq(Events) /\ Len(es) = 1 + Len(Bs)
       /\ \A i \in 1 .. Len(r) : es[i] = r[i]
       /\ \A i \in 1 .. Len(m) : es[1 + i] = m[i]
  <2>1. r \in Seq(Events) /\ m \in Seq(Events)
    BY <1>3, <1>10
  <2>2. /\ es \in Seq(Events) /\ Len(es) = Len(r) + Len(m)
        /\ \A i \in 1 .. Len(r) : es[i] = r[i]
        /\ \A i \in 1 .. Len(m) : es[Len(r) + i] = m[i]
    BY <1>11, <2>1, Joins
  <2>3. Len(r) = 1 /\ Len(m) = Len(Bs)
    BY <1>3, <1>10
  <2>4. QED
    BY <2>2, <2>3
<1>13. DOMAIN es = 1 .. Len(Bs) + 1 /\ es[1] = Event("tool.result", a, "", c, code)
  <2>1. DOMAIN es = 1 .. Len(es)
    BY <1>12
  <2>2. 1 \in 1 .. Len(r) /\ 1 + Len(Bs) = Len(Bs) + 1
    <3>1. Len(r) = 1
      BY <1>3
    <3>2. 1 \in 1 .. Len(r)
      BY <3>1
    <3>3. \A n \in Nat : 1 + n = n + 1
      OBVIOUS
    <3>4. QED
      BY <1>8, <3>2, <3>3
  <2>3. es[1] = r[1]
    BY <1>12, <2>2
  <2>4. QED
    BY <1>3, <1>12, <2>1, <2>2, <2>3
<1>14. \A j \in DOMAIN Bs : es[j + 1] = Event("fault.observed", a, Bs[j].id, Len(y.events) + 1, "")
  <2> SUFFICES ASSUME NEW j \in DOMAIN Bs PROVE es[j + 1] = m[j]
    BY <1>9
  <2>1. j \in 1 .. Len(m) /\ 1 + j = j + 1
    <3>1. Len(m) = Len(Bs)
      BY <1>10
    <3>2. QED
      BY <1>8, <3>1
  <2>2. QED
    BY <1>12, <2>1
<1>15. y2 = Add(y, es)
  <2>1. y.events \in Seq(Events)
    BY Evidence
  <2>2. (y.events \o r) \o m = y.events \o (r \o m)
    <3>1. \A s, t, u \in Seq(Events) : (s \o t) \o u = s \o (t \o u)
      OBVIOUS
    <3>2. QED
      BY <1>3, <1>10, <2>1, <3>1
  <2>3. y2 = [z EXCEPT !.events = z.events \o m]
    BY <1>7 DEF Add
  <2>4. PICK s : s = y.events \o es
    OBVIOUS
  <2>5. y2 = [z EXCEPT !.events = s]
    BY <1>5, <1>11, <2>2, <2>3, <2>4
  <2>6. y2 = [y EXCEPT !.events = s]
    BY <1>5, <2>5 DEF Databases
  <2>7. QED
    BY <2>4, <2>6 DEF Add
<1>16. QED
  BY <1>12, <1>13, <1>14, <1>15 DEF IsAnswer

\* The answer closes the attempt.
LEMMA Answering ==
  ASSUME NEW p, NEW w, NEW z, NEW y, NEW a, NEW As, NEW PS,
         Stage(p, w, z, y, a, As, PS),
         NEW Bs, List(p, Bs), (Bs = <<>> <=> As = <<>>), NEW code, code \in Codes,
         \A j \in DOMAIN Bs : \E k \in DOMAIN As : As[k] = Bs[j],
         NEW y2, y2 = answer(y, a, code, Bs),
         NEW k, k = Len(y.events) + 1
  PROVE  Closed(p, w, z, y2, a, As, Bs, code, k) /\ AnsweredNow(y, y2, a)
<1>1. /\ a \in Attempts /\ y \in Databases /\ z \in Databases /\ Asks(y, a) /\ List(p, As)
      /\ Bs \in Seq(CompiledFaultRules) /\ As \in Seq(CompiledFaultRules) /\ HasApplied(y, a, As)
      /\ Chosen(p, w, y, a.at) /\ Results(y, a.at) = {} /\ Observed(y, a.at) = {}
  BY DEF Stage, Same, List
<1>2. DOMAIN y.events = 1 .. Len(y.events) /\ Len(y.events) \in Nat
  BY <1>1, Evidence
<1>3. /\ DOMAIN Bs = 1 .. Len(Bs) /\ Len(Bs) \in Nat
      /\ \A i \in DOMAIN Bs : Bs[i].id \in STRING
  BY <1>1, RuleTypes
<1>4. PICK c : c = IF Bs = <<>> THEN a.at ELSE Max(Applies(y, a.at))
  OBVIOUS
<1>5. Applies(y, a.at) = {} <=> As = <<>>
  <2>1. As = <<>> <=> DOMAIN As = {}
    BY <1>1
  <2>2. QED
    BY <1>1, <2>1 DEF HasApplied
<1>6. /\ \/ Applies(y, a.at) = {} /\ c = a.at
         \/ c \in Applies(y, a.at) /\ \A i \in Applies(y, a.at) : i <= c
      /\ c \in 1 .. Len(y.events)
  <2>1. CASE Bs = <<>>
    BY <1>1, <1>2, <1>4, <1>5, <2>1 DEF Asks, Asked
  <2>2. CASE Bs # <<>>
    <3>1. Applies(y, a.at) # {} /\ c = Max(Applies(y, a.at))
      BY <1>4, <1>5, <2>2
    <3>2. Applies(y, a.at) \in SUBSET (1 .. Len(y.events))
      BY <1>2 DEF Applies, Positions
    <3>3. QED
      BY <1>2, <3>1, <3>2, Extremes
  <2>3. QED
    BY <2>1, <2>2
<1>7. c \in Nat /\ c < Len(y.events) + 1
  BY <1>2, <1>6
<1>8. PICK es \in Seq(Events) : IsAnswer(y, y2, a, c, code, Bs, es)
  BY <1>1, <1>4, <1>7, AnswerAdds
<1>9. /\ y2 = Add(y, es) /\ DOMAIN es = 1 .. Len(Bs) + 1
      /\ es[1] = Event("tool.result", a, "", c, code)
      /\ \A j \in DOMAIN Bs : es[j + 1] = Event("fault.observed", a, Bs[j].id, k, "")
  BY <1>8 DEF IsAnswer
<1>10. /\ Mine(a, es[1]) /\ es[1].type = "tool.result" /\ es[1].cause = c /\ es[1].info = code
       /\ es[1].rule = ""
  <2>1. PICK e : e = es[1]
    OBVIOUS
  <2>2. e = Event("tool.result", a, "", c, code)
    BY <1>9, <2>1
  <2>3. Mine(a, e) /\ e.type = "tool.result" /\ e.cause = c /\ e.info = code /\ e.rule = ""
    BY <2>2 DEF Event, Mine
  <2>4. QED
    BY <2>1, <2>3
<1>11. \A j \in DOMAIN Bs : /\ Mine(a, es[j + 1]) /\ es[j + 1].type = "fault.observed"
                            /\ es[j + 1].cause = k /\ es[j + 1].rule = Bs[j].id
  <2> SUFFICES ASSUME NEW j \in DOMAIN Bs
               PROVE  /\ Mine(a, es[j + 1]) /\ es[j + 1].type = "fault.observed"
                      /\ es[j + 1].cause = k /\ es[j + 1].rule = Bs[j].id
    OBVIOUS
  <2>1. PICK e : e = es[j + 1]
    OBVIOUS
  <2>2. PICK id : id = Bs[j].id
    OBVIOUS
  <2>3. e = Event("fault.observed", a, id, k, "")
    BY <1>9, <2>1, <2>2
  <2>4. Mine(a, e) /\ e.type = "fault.observed" /\ e.cause = k /\ e.rule = id
    BY <2>3 DEF Event, Mine
  <2>5. QED
    BY <2>1, <2>2, <2>4
<1>12. \A i \in DOMAIN es : i = 1 \/ \E j \in DOMAIN Bs : i = j + 1
  <2> SUFFICES ASSUME NEW i \in DOMAIN es, i # 1 PROVE \E j \in DOMAIN Bs : i = j + 1
    OBVIOUS
  <2>1. i \in 1 .. Len(Bs) + 1
    BY <1>9
  <2>2. i - 1 \in DOMAIN Bs /\ i = (i - 1) + 1
    BY <1>3, <2>1
  <2>3. QED
    BY <2>2
<1>13. 1 \in DOMAIN es /\ \A j \in DOMAIN Bs : j + 1 \in DOMAIN es
  <2>1. 1 \in 1 .. Len(Bs) + 1 /\ \A j \in 1 .. Len(Bs) : j + 1 \in 1 .. Len(Bs) + 1
    BY <1>3
  <2>2. DOMAIN es = 1 .. Len(Bs) + 1
    BY <1>9
  <2>3. QED
    BY <1>3, <2>1, <2>2
<1>14. Fit(p, y, a, es)
  <2>1. \A i \in DOMAIN es : Mine(a, es[i]) /\ es[i].type # "tool.requested"
    BY <1>10, <1>11, <1>12
  <2>2. \A i \in DOMAIN es : es[i].cause < Len(y.events) + i
    <3>1. es[1].cause < Len(y.events) + 1
      BY <1>7, <1>10
    <3>2. \A j \in DOMAIN Bs : es[j + 1].cause < Len(y.events) + (j + 1)
      <4>1. \A j \in DOMAIN Bs : k < Len(y.events) + (j + 1)
        BY <1>2, <1>3
      <4>2. QED
        BY <1>11, <4>1
    <3>3. QED
      BY <1>12, <3>1, <3>2
  <2>3. \A i \in DOMAIN es : es[i].type = "tool.result" => es[i].info \in Codes
    BY <1>10, <1>11, <1>12
  <2>4. \A i \in DOMAIN es : es[i].rule = "" \/ \E x \in DOMAIN p : p[x].id = es[i].rule
    <3>1. \A j \in DOMAIN Bs : \E x \in DOMAIN p : p[x].id = Bs[j].id
      BY DEF List
    <3>2. QED
      BY <1>10, <1>11, <1>12, <3>1
  <2>5. QED
    BY <1>9, <2>1, <2>2, <2>3, <2>4 DEF Fit
<1>15. /\ Same(z, y2) /\ Rest(y, y2) /\ Logged(y2) /\ Longer(z, y2, a) /\ Longer(y, y2, a)
       /\ Named(p, y2) /\ Asks(y2, a)
       /\ \A i \in DOMAIN es : /\ y2.events[Len(y.events) + i] = es[i]
                               /\ Len(y.events) + i \in DOMAIN y2.events
       /\ \A i \in DOMAIN y.events : y2.events[i] = y.events[i] /\ i \in DOMAIN y2.events
       /\ \A i \in DOMAIN y2.events :
            i \in DOMAIN y.events \/ \E j \in DOMAIN es : i = Len(y.events) + j
  <2>1. y2 = Add(y, es)
    BY <1>9
  <2>2. Grown(p, z, y, y2, a, es)
    BY <1>14, <2>1, Grows, StageUnderway
  <2>3. QED
    BY <2>2 DEF Grown
<1>16. \A i \in DOMAIN es : es[i].request = a.at
  BY <1>10, <1>11, <1>12 DEF Mine
<1>17. \A type, i : i \in Positions(y2, type, a.at) <=>
         \/ i \in Positions(y, type, a.at)
         \/ \E j \in DOMAIN es : i = Len(y.events) + j /\ es[j].type = type
  BY <1>15, <1>16 DEF Positions
<1>18. Matches(y2, a.at) = Matches(y, a.at) /\ Applies(y2, a.at) = Applies(y, a.at)
  <2>1. \A i \in DOMAIN es : es[i].type \in {"tool.result", "fault.observed"}
    <3>1. \A j \in DOMAIN Bs : es[j + 1].type = "fault.observed"
      BY <1>11
    <3>2. es[1].type = "tool.result"
      BY <1>10
    <3>3. QED
      BY <1>12, <3>1, <3>2
  <2>2. \A type : type \notin {"tool.result", "fault.observed"} =>
          Positions(y2, type, a.at) = Positions(y, type, a.at)
    BY <1>17, <2>1
  <2>3. QED
    BY <2>2 DEF Matches, Applies
<1>19. \A i \in Matches(y, a.at) \cup Applies(y, a.at) : i \in DOMAIN y.events /\ y2.events[i] = y.events[i]
  <2>1. \A i \in Matches(y, a.at) \cup Applies(y, a.at) : i \in DOMAIN y.events
    BY DEF Matches, Applies, Positions
  <2>2. QED
    BY <1>15, <2>1
<1>20. k \in Results(y2, a.at) /\ k \in DOMAIN y2.events /\ y2.events[k] = es[1]
  BY <1>10, <1>13, <1>15, <1>17 DEF Results
<1>21. Results(y2, a.at) = {k}
  <2>1. \A i \in Results(y2, a.at) : i = k
    <3>1. \A i \in Results(y2, a.at) : \E j \in DOMAIN es : i = Len(y.events) + j /\ es[j].type = "tool.result"
      BY <1>1, <1>17 DEF Results
    <3>2. \A j \in DOMAIN es : es[j].type = "tool.result" => j = 1
      BY <1>11, <1>12
    <3>3. QED
      BY <3>1, <3>2
  <2>2. QED
    BY <1>20, <2>1
<1>22. \A o \in Observed(y2, a.at) : \E j \in DOMAIN Bs :
         /\ o = Len(y.events) + (j + 1) /\ y2.events[o].rule = Bs[j].id /\ y2.events[o].cause = k
  <2> SUFFICES ASSUME NEW o \in Observed(y2, a.at)
               PROVE  \E j \in DOMAIN Bs : /\ o = Len(y.events) + (j + 1)
                                           /\ y2.events[o].rule = Bs[j].id /\ y2.events[o].cause = k
    OBVIOUS
  <2>1. PICK i \in DOMAIN es : o = Len(y.events) + i /\ es[i].type = "fault.observed"
    BY <1>1, <1>17 DEF Observed
  <2>2. i # 1
    BY <1>10, <2>1
  <2>3. PICK j \in DOMAIN Bs : i = j + 1
    BY <1>12, <2>2
  <2>4. QED
    BY <1>11, <1>15, <2>1, <2>3
<1>23. \A j \in DOMAIN Bs : /\ Len(y.events) + (j + 1) \in Observed(y2, a.at)
                            /\ y2.events[Len(y.events) + (j + 1)].rule = Bs[j].id
  BY <1>11, <1>13, <1>15, <1>17 DEF Observed
<1>24. \A o \in Observed(y2, a.at) : /\ k < o /\ y2.events[o].cause = k
                                     /\ \E j \in DOMAIN Bs : Bs[j].id = y2.events[o].rule
  <2>1. \A j \in DOMAIN Bs : k < Len(y.events) + (j + 1)
    BY <1>2, <1>3
  <2>2. QED
    BY <1>22, <2>1
<1>25. \A o, u \in Observed(y2, a.at) : y2.events[o].rule = y2.events[u].rule => o = u
  <2> SUFFICES ASSUME NEW o \in Observed(y2, a.at), NEW u \in Observed(y2, a.at),
                      y2.events[o].rule = y2.events[u].rule
               PROVE  o = u
    OBVIOUS
  <2>1. PICK j \in DOMAIN Bs : o = Len(y.events) + (j + 1) /\ y2.events[o].rule = Bs[j].id
    BY <1>22
  <2>2. PICK l \in DOMAIN Bs : u = Len(y.events) + (l + 1) /\ y2.events[u].rule = Bs[l].id
    BY <1>22
  <2>3. j = l
    BY <2>1, <2>2 DEF List
  <2>4. QED
    BY <2>1, <2>2, <2>3
<1>26. \A i \in Applies(y2, a.at) : i < k
  <2>1. \A i \in DOMAIN y.events : i < k
    BY <1>2
  <2>2. QED
    BY <1>18, <1>19, <2>1
<1>27. Chosen(p, w, y2, a.at)
  <2>1. y2.events[a.at] = y.events[a.at]
    BY <1>1, <1>15 DEF Asks, Asked
  <2>2. \A i \in Applies(y2, a.at) : /\ y2.events[i].cause \in Matches(y2, a.at)
                                     /\ y2.events[y2.events[i].cause].rule = y2.events[i].rule
    BY <1>1, <1>18, <1>19 DEF Chosen
  <2>3. \A i \in Matches(y2, a.at) :
          /\ y2.events[i].cause = a.at
          /\ \E x \in DOMAIN p : /\ p[x].id = y2.events[i].rule
                                 /\ p[x].tool = ToolOf[y2.events[a.at].info]
                                 /\ p[x].ordinal \in {0, y2.events[a.at].call}
                                 /\ Draw(w, p[x], y2.events[a.at].call, y2.events[a.at].attempt)
    BY <1>1, <1>18, <1>19, <2>1 DEF Chosen
  <2>4. /\ \A i, j \in Matches(y2, a.at) : y2.events[i].rule = y2.events[j].rule => i = j
        /\ \A i, j \in Applies(y2, a.at) : y2.events[i].rule = y2.events[j].rule => i = j
    BY <1>1, <1>18, <1>19 DEF Chosen
  <2>5. QED
    BY <2>2, <2>3, <2>4 DEF Chosen
<1>28. HasApplied(y2, a, As)
  <2>1. HasApplied(y, a, As)
    BY <1>1
  <2>2. \A i \in Applies(y, a.at) : y2.events[i] = y.events[i]
    BY <1>19
  <2>3. QED
    BY <1>18, <2>1, <2>2 DEF HasApplied
<1>29. AnsweredNow(y, y2, a)
  <2>1. \A j \in DOMAIN es : es[j].type # "state.evidence_recorded"
    BY <1>10, <1>11, <1>12
  <2>2. \A i \in DOMAIN y2.events :
          i \in DOMAIN y.events \/ y2.events[i].type # "state.evidence_recorded"
    BY <1>15, <2>1
  <2>3. QED
    BY <1>15, <1>18, <1>19, <2>2 DEF AnsweredNow
<1>30. /\ \/ Applies(y2, a.at) = {} /\ y2.events[k].cause = a.at
          \/ y2.events[k].cause \in Applies(y2, a.at) /\ \A i \in Applies(y2, a.at) : i <= y2.events[k].cause
       /\ y2.events[k].info = code
  BY <1>6, <1>10, <1>18, <1>20
<1>31. a.ordinal = a.call /\ \A j \in DOMAIN As : ~Capped(z, As[j], a)
  BY DEF Stage
<1>32. \A j \in DOMAIN Bs : \E o \in Observed(y2, a.at) : Bs[j].id = y2.events[o].rule
  BY <1>23
<1>33. Closed(p, w, z, y2, a, As, Bs, code, k)
  BY <1>1, <1>15, <1>20, <1>21, <1>24, <1>25, <1>26, <1>27, <1>28, <1>30, <1>31, <1>32 DEF Closed
<1>34. QED
  BY <1>29, <1>33

\* State evidence is added, and nothing else of the attempt.
StateNow(y, y2, a, cause) ==
  /\ Rest(y, y2) /\ Longer(y, y2, a)
  /\ Len(y2.events) = Len(y.events) + 1
  /\ y2.events[Len(y2.events)].type = "state.evidence_recorded"
  /\ y2.events[Len(y2.events)].cause = cause
  /\ \A type : type # "state.evidence_recorded" =>
       Positions(y2, type, a.at) = Positions(y, type, a.at)
  /\ \A i \in DOMAIN y.events : y2.events[i] = y.events[i] /\ i \in DOMAIN y2.events

\* The evidence of the state.
LEMMA StateAdds ==
  ASSUME NEW p, NEW z, NEW y, NEW a, Underway(p, z, y, a), NEW cause \in 1 .. Len(y.events),
         NEW y2, y2 = append_state_evidence(y, a, cause)
  PROVE  Underway(p, z, y2, a) /\ StateNow(y, y2, a, cause)
<1>1. PICK e : e = Event("state.evidence_recorded", a, "", cause, "")
  OBVIOUS
<1>2. y2 = Add(y, <<e>>)
  BY <1>1 DEF append_state_evidence
<1>3. a \in Attempts /\ y \in Databases /\ Len(y.events) \in Nat /\ DOMAIN y.events = 1 .. Len(y.events)
  BY Evidence DEF Underway, Same
<1>4. e \in Events
  <2>1. \A c \in Nat : Event("state.evidence_recorded", a, "", c, "") \in Events
    BY <1>3 DEF Event, Events, Attempts, EVENT_TYPES
  <2>2. cause \in Nat
    BY <1>3
  <2>3. QED
    BY <1>1, <2>1, <2>2
<1>5. /\ Mine(a, e) /\ e.type = "state.evidence_recorded" /\ e.cause = cause /\ e.rule = ""
      /\ e.request = a.at
  BY <1>1 DEF Event, Mine
<1>6. PICK es : es = <<e>>
  OBVIOUS
<1>7. es \in Seq(Events) /\ Len(es) = 1 /\ DOMAIN es = {1} /\ es[1] = e
  BY <1>4, <1>6
<1>8. Fit(p, y, a, es)
  <2>1. cause < Len(y.events) + 1
    BY <1>3
  <2>2. QED
    BY <1>5, <1>7, <2>1 DEF Fit
<1>9. Grown(p, z, y, y2, a, es)
  BY <1>2, <1>6, <1>8, Grows
<1>10. /\ Same(z, y2) /\ Rest(y, y2) /\ Logged(y2) /\ Longer(z, y2, a) /\ Longer(y, y2, a)
       /\ Named(p, y2) /\ Asks(y2, a)
       /\ Len(y2.events) = Len(y.events) + 1
       /\ y2.events[Len(y.events) + 1] = e
       /\ Len(y.events) + 1 \in DOMAIN y2.events
       /\ \A i \in DOMAIN y.events : y2.events[i] = y.events[i] /\ i \in DOMAIN y2.events
       /\ \A i \in DOMAIN y2.events : i \in DOMAIN y.events \/ i = Len(y.events) + 1
  BY <1>7, <1>9 DEF Grown
<1>11. \A type : type # "state.evidence_recorded" =>
         Positions(y2, type, a.at) = Positions(y, type, a.at)
  BY <1>5, <1>10 DEF Positions
<1>12. Underway(p, z, y2, a)
  BY <1>10 DEF Underway
<1>13. StateNow(y, y2, a, cause)
  BY <1>5, <1>10, <1>11 DEF StateNow
<1>14. QED
  BY <1>12, <1>13

\* The other evidence of the attempt stays.
KeptEvidence(y, y2, a) ==
  /\ Matches(y2, a.at) = Matches(y, a.at) /\ Applies(y2, a.at) = Applies(y, a.at)
  /\ Results(y2, a.at) = Results(y, a.at) /\ Observed(y2, a.at) = Observed(y, a.at)
  /\ \A type : \A i \in Positions(y, type, a.at) : y2.events[i] = y.events[i]

\* State evidence leaves what was chosen.
LEMMA StateChosen ==
  ASSUME NEW p, NEW w, NEW y, NEW y2, NEW a, NEW cause, NEW As, StateNow(y, y2, a, cause),
         a.at \in DOMAIN y.events
  PROVE  /\ Chosen(p, w, y, a.at) => Chosen(p, w, y2, a.at)
         /\ HasApplied(y, a, As) => HasApplied(y2, a, As)
         /\ KeptEvidence(y, y2, a)
<1>1. /\ Matches(y2, a.at) = Matches(y, a.at) /\ Applies(y2, a.at) = Applies(y, a.at)
      /\ Results(y2, a.at) = Results(y, a.at) /\ Observed(y2, a.at) = Observed(y, a.at)
  BY DEF StateNow, Matches, Applies, Results, Observed
<1>2. \A type : \A i \in Positions(y, type, a.at) : y2.events[i] = y.events[i]
  <2>1. \A type : \A i \in Positions(y, type, a.at) : i \in DOMAIN y.events
    BY DEF Positions
  <2>2. QED
    BY <2>1 DEF StateNow
<1>3. /\ \A i \in Matches(y, a.at) : y2.events[i] = y.events[i]
      /\ \A i \in Applies(y, a.at) : y2.events[i] = y.events[i]
  BY <1>2 DEF Matches, Applies
<1>4. y2.events[a.at] = y.events[a.at]
  BY DEF StateNow
<1>5. ASSUME Chosen(p, w, y, a.at) PROVE Chosen(p, w, y2, a.at)
  <2>1. \A i \in Matches(y2, a.at) :
          /\ y2.events[i].cause = a.at
          /\ \E x \in DOMAIN p : /\ p[x].id = y2.events[i].rule
                                 /\ p[x].tool = ToolOf[y2.events[a.at].info]
                                 /\ p[x].ordinal \in {0, y2.events[a.at].call}
                                 /\ Draw(w, p[x], y2.events[a.at].call, y2.events[a.at].attempt)
    BY <1>1, <1>3, <1>4, <1>5 DEF Chosen
  <2>2. /\ \A i, j \in Matches(y2, a.at) : y2.events[i].rule = y2.events[j].rule => i = j
        /\ \A i, j \in Applies(y2, a.at) : y2.events[i].rule = y2.events[j].rule => i = j
    BY <1>1, <1>3, <1>5 DEF Chosen
  <2>3. \A i \in Applies(y2, a.at) : /\ y2.events[i].cause \in Matches(y2, a.at)
                                     /\ y2.events[y2.events[i].cause].rule = y2.events[i].rule
    BY <1>1, <1>3, <1>5 DEF Chosen
  <2>4. QED
    BY <2>1, <2>2, <2>3 DEF Chosen
<1>6. ASSUME HasApplied(y, a, As) PROVE HasApplied(y2, a, As)
  BY <1>1, <1>3, <1>6 DEF HasApplied
<1>7. QED
  BY <1>1, <1>2, <1>5, <1>6 DEF KeptEvidence

\* A closed attempt stays closed.
LEMMA ClosedState ==
  ASSUME NEW p, NEW w, NEW z, NEW y, NEW a, NEW As, NEW Bs, NEW code, NEW k,
         Closed(p, w, z, y, a, As, Bs, code, k), NEW cause \in 1 .. Len(y.events),
         NEW y2, y2 = append_state_evidence(y, a, cause)
  PROVE  Closed(p, w, z, y2, a, As, Bs, code, k) /\ StateNow(y, y2, a, cause)
<1>1. Underway(p, z, y, a)
  BY DEF Closed, Underway
<1>2. Underway(p, z, y2, a) /\ StateNow(y, y2, a, cause)
  BY <1>1, StateAdds
<1>3. a.at \in DOMAIN y.events
  BY <1>1 DEF Underway, Asks, Asked
<1>4. /\ Chosen(p, w, y2, a.at) /\ HasApplied(y2, a, As)
      /\ Matches(y2, a.at) = Matches(y, a.at) /\ Applies(y2, a.at) = Applies(y, a.at)
      /\ Results(y2, a.at) = Results(y, a.at) /\ Observed(y2, a.at) = Observed(y, a.at)
      /\ \A type : \A i \in Positions(y, type, a.at) : y2.events[i] = y.events[i]
  <2>1. Chosen(p, w, y, a.at) /\ HasApplied(y, a, As)
    BY DEF Closed
  <2>2. Chosen(p, w, y2, a.at) /\ HasApplied(y2, a, As) /\ KeptEvidence(y, y2, a)
    BY <1>2, <1>3, <2>1, StateChosen
  <2>3. QED
    BY <2>2 DEF KeptEvidence
<1>5. k \in DOMAIN y2.events /\ y2.events[k] = y.events[k]
  BY <1>2 DEF Closed, StateNow
<1>6. \A i \in Observed(y, a.at) : y2.events[i] = y.events[i]
  BY <1>4 DEF Observed
<1>7. QED
  BY <1>2, <1>4, <1>5, <1>6 DEF Closed, Underway

\* Evidence of the attempt's call and number is the attempt's.
Fresh(z, a) ==
  \A i \in DOMAIN z.events :
    z.events[i].call = a.call /\ z.events[i].attempt = a.attempt => z.events[i].request = a.at

\* Effects and markers that are new are the attempt's.
EffectsOf(z, o, a) ==
  /\ z.effects \in SUBSET o.effects
  /\ \A f \in o.effects : f \in z.effects \/ (f.call = a.call /\ f.attempt = a.attempt)
  /\ \A f, g \in o.effects : f.q = g.q => f = g

MarkersOf(z, o, a) ==
  /\ z.markers \in SUBSET o.markers
  /\ \A m \in o.markers : m \in z.markers \/ m.at = a.at

\* The requests there are.
LEMMA AskedGrows ==
  ASSUME NEW p, NEW z, NEW o, NEW a, Underway(p, z, o, a)
  PROVE  /\ o \in Databases /\ z \in Databases /\ a.at \in Asked(o) /\ a.at \in DOMAIN o.events
         /\ o.events[a.at].call = a.call /\ o.events[a.at].attempt = a.attempt
         /\ \A r \in Asked(o) : r # a.at => /\ r \in Asked(z) /\ r \in DOMAIN z.events
                                            /\ o.events[r] = z.events[r]
                                            /\ z.events[r].request = r
         /\ \A i \in DOMAIN z.events : i \in DOMAIN o.events /\ o.events[i] = z.events[i]
<1>1. o \in Databases /\ z \in Databases /\ Longer(z, o, a) /\ Asks(o, a) /\ Logged(o)
  BY DEF Underway, Same
<1>2. /\ DOMAIN o.events = 1 .. Len(o.events) /\ DOMAIN z.events = 1 .. Len(z.events)
      /\ Len(o.events) \in Nat /\ Len(z.events) \in Nat
  BY <1>1, Evidence
<1>3. /\ Len(z.events) <= Len(o.events)
      /\ \A i \in 1 .. Len(z.events) : o.events[i] = z.events[i]
      /\ \A i \in Len(z.events) + 1 .. Len(o.events) : o.events[i].request = a.at
  BY <1>1 DEF Longer, Mine
<1>4. \A i \in DOMAIN z.events : i \in DOMAIN o.events /\ o.events[i] = z.events[i]
  BY <1>2, <1>3
<1>5. \A i \in DOMAIN o.events : i \in DOMAIN z.events \/ o.events[i].request = a.at
  BY <1>2, <1>3
<1>6. \A i \in DOMAIN o.events : o.events[i].type = "tool.requested" => o.events[i].request = i
  BY <1>1 DEF Logged
<1>7. \A r \in Asked(o) : r # a.at => /\ r \in Asked(z) /\ r \in DOMAIN z.events
                                      /\ o.events[r] = z.events[r] /\ z.events[r].request = r
  BY <1>4, <1>5, <1>6 DEF Asked
<1>8. QED
  BY <1>1, <1>4, <1>7 DEF Asks, Asked, Mine

\* The evidence of another attempt.
LEMMA OthersEvidence ==
  ASSUME NEW p, NEW z, NEW o, NEW a, Underway(p, z, o, a), NEW r, r # a.at
  PROVE  /\ Matches(o, r) = Matches(z, r) /\ Applies(o, r) = Applies(z, r)
         /\ Results(o, r) = Results(z, r) /\ Observed(o, r) = Observed(z, r)
         /\ \A i \in Matches(o, r) \cup Applies(o, r) \cup Results(o, r) \cup Observed(o, r) :
              o.events[i] = z.events[i] /\ i \in DOMAIN z.events
<1>1. o \in Databases /\ z \in Databases /\ Longer(z, o, a)
  BY DEF Underway, Same
<1>2. \A type : /\ Positions(o, type, r) = Positions(z, type, r)
                /\ \A i \in Positions(o, type, r) : o.events[i] = z.events[i]
  BY <1>1, OthersStay
<1>3. \A type : \A i \in Positions(z, type, r) : i \in DOMAIN z.events
  BY DEF Positions
<1>4. QED
  BY <1>2, <1>3 DEF Matches, Applies, Results, Observed

\* Another attempt keeps what it has chosen.
LEMMA OthersChosen ==
  ASSUME NEW p, NEW w, NEW z, NEW o, NEW a, Underway(p, z, o, a), NEW r \in Asked(z), r # a.at,
         Chosen(p, w, z, r)
  PROVE  Chosen(p, w, o, r)
<1>1. /\ Matches(o, r) = Matches(z, r) /\ Applies(o, r) = Applies(z, r)
      /\ \A i \in Matches(o, r) : o.events[i] = z.events[i]
      /\ \A i \in Applies(o, r) : o.events[i] = z.events[i]
  BY OthersEvidence
<1>2. o.events[r] = z.events[r]
  BY AskedGrows DEF Asked
<1>3. \A i \in Matches(o, r) :
        /\ o.events[i].cause = r
        /\ \E x \in DOMAIN p : /\ p[x].id = o.events[i].rule
                               /\ p[x].tool = ToolOf[o.events[r].info]
                               /\ p[x].ordinal \in {0, o.events[r].call}
                               /\ Draw(w, p[x], o.events[r].call, o.events[r].attempt)
  BY <1>1, <1>2 DEF Chosen
<1>4. /\ \A i, j \in Matches(o, r) : o.events[i].rule = o.events[j].rule => i = j
      /\ \A i, j \in Applies(o, r) : o.events[i].rule = o.events[j].rule => i = j
  BY <1>1 DEF Chosen
<1>5. \A i \in Applies(o, r) : /\ o.events[i].cause \in Matches(o, r)
                               /\ o.events[o.events[i].cause].rule = o.events[i].rule
  BY <1>1 DEF Chosen
<1>6. QED
  BY <1>3, <1>4, <1>5 DEF Chosen

\* Another attempt stays whole.
LEMMA OthersWhole ==
  ASSUME NEW p, NEW z, NEW o, NEW a, Underway(p, z, o, a), NEW r \in Asked(z), r # a.at,
         MarkersOf(z, o, a), Marked(p, z), Whole(z, r)
  PROVE  Whole(o, r)
<1>1. /\ Applies(o, r) = Applies(z, r) /\ Results(o, r) = Results(z, r)
      /\ Observed(o, r) = Observed(z, r)
      /\ \A i \in Applies(o, r) : o.events[i] = z.events[i]
      /\ \A i \in Results(o, r) : o.events[i] = z.events[i] /\ i \in DOMAIN z.events
      /\ \A i \in Observed(o, r) : o.events[i] = z.events[i]
  BY OthersEvidence
<1>2. \A i \in DOMAIN z.events : i \in DOMAIN o.events /\ o.events[i] = z.events[i]
  BY AskedGrows
<1>3. SharedAt(z, r) => SharedAt(o, r)
  <2> SUFFICES ASSUME SharedAt(z, r) PROVE SharedAt(o, r)
    OBVIOUS
  <2>1. PICK m \in z.markers : m.at = r /\ \E i \in r + 1 .. m.state - 1 : z.events[i].request = r
    BY DEF SharedAt
  <2>2. PICK i \in r + 1 .. m.state - 1 : z.events[i].request = r
    BY <2>1
  <2>3. m.state \in DOMAIN z.events /\ r \in DOMAIN z.events
    BY <2>1 DEF Marked, Asked
  <2>4. DOMAIN z.events = 1 .. Len(z.events) /\ Len(z.events) \in Nat
    BY Evidence, AskedGrows
  <2>5. i \in DOMAIN z.events
    BY <2>2, <2>3, <2>4
  <2>6. o.events[i].request = r
    BY <1>2, <2>2, <2>5
  <2>7. m \in o.markers
    BY <2>1 DEF MarkersOf
  <2>8. QED
    BY <2>1, <2>2, <2>6, <2>7 DEF SharedAt
<1>4. PICK k \in DOMAIN z.events :
        /\ Results(z, r) = {k}
        /\ \A i \in Applies(z, r) : i < k
        /\ \/ Applies(z, r) = {} /\ z.events[k].cause = r
           \/ z.events[k].cause \in Applies(z, r) /\ \A i \in Applies(z, r) : i <= z.events[k].cause
        /\ \A u \in Observed(z, r) :
             /\ k < u /\ z.events[u].cause = k
             /\ \E i \in Applies(z, r) : z.events[i].rule = z.events[u].rule
        /\ \A u, v \in Observed(z, r) : z.events[u].rule = z.events[v].rule => u = v
        /\ \/ SharedAt(z, r)
           \/ \A i \in Applies(z, r) : \E u \in Observed(z, r) : z.events[u].rule = z.events[i].rule
  BY DEF Whole
<1>5. k \in DOMAIN o.events /\ o.events[k] = z.events[k]
  BY <1>2
<1>6. \A u \in Observed(o, r) :
        /\ k < u /\ o.events[u].cause = k
        /\ \E i \in Applies(o, r) : o.events[i].rule = o.events[u].rule
  BY <1>1, <1>4
<1>7. \/ SharedAt(o, r)
      \/ \A i \in Applies(o, r) : \E u \in Observed(o, r) : o.events[u].rule = o.events[i].rule
  BY <1>1, <1>3, <1>4
<1>8. /\ Results(o, r) = {k}
      /\ \A i \in Applies(o, r) : i < k
      /\ \/ Applies(o, r) = {} /\ o.events[k].cause = r
         \/ o.events[k].cause \in Applies(o, r) /\ \A i \in Applies(o, r) : i <= o.events[k].cause
      /\ \A u, v \in Observed(o, r) : o.events[u].rule = o.events[v].rule => u = v
  BY <1>1, <1>4, <1>5
<1>9. QED
  BY <1>5, <1>6, <1>7, <1>8 DEF Whole

\* The answer of another attempt is as it was.
LEMMA OthersFelt ==
  ASSUME NEW p, NEW z, NEW o, NEW a, Underway(p, z, o, a), NEW r \in Asked(z), r # a.at,
         EffectsOf(z, o, a), Fresh(z, a), Felt(p, z, r), Logged(z)
  PROVE  Felt(p, o, r)
<1>1. /\ Applies(o, r) = Applies(z, r) /\ Results(o, r) = Results(z, r)
      /\ \A i \in Applies(o, r) : o.events[i] = z.events[i]
      /\ \A i \in Results(o, r) : o.events[i] = z.events[i]
  BY OthersEvidence
<1>2. o.events[r] = z.events[r] /\ r \in DOMAIN z.events
  BY AskedGrows DEF Asked
<1>3. Used(p, o, r) = Used(p, z, r)
  BY <1>1 DEF Used
<1>4. Ambiguity(p, o, r) <=> Ambiguity(p, z, r)
  BY <1>3 DEF Ambiguity
<1>5. HasEffect(o, r) <=> HasEffect(z, r)
  <2>1. z.events[r].request = r
    BY <1>2 DEF Logged, Asked
  <2>2. ~(z.events[r].call = a.call /\ z.events[r].attempt = a.attempt)
    BY <1>2, <2>1 DEF Fresh
  <2>3. QED
    BY <1>2, <2>2 DEF EffectsOf, HasEffect
<1>6. QED
  BY <1>1, <1>3, <1>4, <1>5 DEF Felt

\* The applications of a rule, but those of one attempt.
AppliesBut(d, r, ignored) ==
  {i \in DOMAIN d.events : /\ d.events[i].type = "fault.applied" /\ d.events[i].rule = r.id
                           /\ d.events[i].request # ignored}

\* Their number.
LEMMA AppliesButAre ==
  ASSUME NEW d \in Databases, NEW r, NEW ignored
  PROVE  /\ IsFiniteSet(AppliesBut(d, r, ignored))
         /\ Occurrences(d, r, ignored) = Cardinality(AppliesBut(d, r, ignored))
         /\ Occurrences(d, r, ignored) \in Nat
<1>1. DOMAIN d.events = 1 .. Len(d.events) /\ Len(d.events) \in Nat
  BY Evidence
<1>2. PICK S : S = AppliesBut(d, r, ignored)
  OBVIOUS
<1>3. S \in SUBSET (1 .. Len(d.events))
  BY <1>1, <1>2 DEF AppliesBut
<1>4. IsFiniteSet(S)
  <2>1. S \in SUBSET Nat /\ \A i \in S : i <= Len(d.events)
    BY <1>1, <1>3
  <2>2. QED
    BY <1>1, <2>1, FS_BoundedSetOfNaturals
<1>5. Occurrences(d, r, ignored) = Cardinality(S)
  BY <1>2 DEF Occurrences, AppliesBut
<1>6. QED
  BY <1>2, <1>4, <1>5, FS_CardinalityType

\* An attempt that applies only rules below their cap exceeds none.
LEMMA CapsKept ==
  ASSUME NEW p, NEW w, NEW z, NEW o, NEW a, NEW As, IsPlan(p), Underway(p, z, o, a),
         Caps(p, z), Chosen(p, w, o, a.at), List(p, As), HasApplied(o, a, As),
         \A j \in DOMAIN As : ~Capped(z, As[j], a), Logged(z)
  PROVE  Caps(p, o)
<1>1. z \in Databases /\ o \in Databases /\ Longer(z, o, a) /\ Logged(o) /\ a \in Attempts
  BY DEF Underway, Same
<1> SUFFICES ASSUME NEW x \in DOMAIN p PROVE Occurrences(o, p[x], 0) <= p[x].max_occurrences
  BY DEF Caps
<1>2. PICK S : S = AppliesBut(o, p[x], 0)
  OBVIOUS
<1>3. PICK T : T = AppliesBut(o, p[x], a.at)
  OBVIOUS
<1>4. /\ IsFiniteSet(S) /\ IsFiniteSet(T)
      /\ Occurrences(o, p[x], 0) = Cardinality(S) /\ Occurrences(o, p[x], a.at) = Cardinality(T)
      /\ Cardinality(S) \in Nat /\ Cardinality(T) \in Nat
  <2>1. \A ignored : /\ IsFiniteSet(AppliesBut(o, p[x], ignored))
                     /\ Occurrences(o, p[x], ignored) = Cardinality(AppliesBut(o, p[x], ignored))
                     /\ Occurrences(o, p[x], ignored) \in Nat
    BY <1>1, AppliesButAre
  <2>2. QED
    BY <1>2, <1>3, <2>1
<1>5. p[x].max_occurrences \in Nat
  <2>1. p[x] \in CompiledFaultRules
    BY DEF IsPlan
  <2>2. QED
    BY <2>1 DEF CompiledFaultRules
<1>6. Cardinality(T) = Occurrences(z, p[x], a.at)
  BY <1>1, <1>4, OccurrencesStay
<1>7. Occurrences(z, p[x], a.at) <= p[x].max_occurrences
  <2>1. PICK Y : Y = AppliesBut(z, p[x], 0)
    OBVIOUS
  <2>2. PICK U : U = AppliesBut(z, p[x], a.at)
    OBVIOUS
  <2>3. U \in SUBSET Y
    <3>1. \A i \in DOMAIN z.events : z.events[i].request # 0
      BY DEF Logged
    <3>2. QED
      BY <2>1, <2>2, <3>1 DEF AppliesBut
  <2>4. /\ IsFiniteSet(Y) /\ Occurrences(z, p[x], 0) = Cardinality(Y)
        /\ Occurrences(z, p[x], a.at) = Cardinality(U)
        /\ Cardinality(Y) \in Nat /\ Cardinality(U) \in Nat
    <3>1. \A ignored : /\ IsFiniteSet(AppliesBut(z, p[x], ignored))
                       /\ Occurrences(z, p[x], ignored) = Cardinality(AppliesBut(z, p[x], ignored))
                       /\ Occurrences(z, p[x], ignored) \in Nat
      BY <1>1, AppliesButAre
    <3>2. QED
      BY <2>1, <2>2, <3>1
  <2>5. Cardinality(U) <= Cardinality(Y)
    BY <2>3, <2>4, FS_Subset
  <2>6. Cardinality(Y) <= p[x].max_occurrences
    BY <2>4 DEF Caps
  <2>7. QED
    BY <1>5, <2>4, <2>5, <2>6
<1>8. PICK R : R = {i \in Applies(o, a.at) : o.events[i].rule = p[x].id}
  OBVIOUS
<1>9. S = T \cup R
  <2>1. \A i \in DOMAIN o.events : o.events[i].request # 0
    BY <1>1 DEF Logged
  <2>2. a.at # 0
    BY <2>1, AskedGrows, <1>1 DEF Underway, Asks, Mine
  <2>3. QED
    BY <1>8, <1>2, <1>3, <2>1, <2>2 DEF AppliesBut, Applies, Positions
<1>10. CASE \E i \in Applies(o, a.at) : o.events[i].rule = p[x].id
  <2>1. PICK i \in Applies(o, a.at) : o.events[i].rule = p[x].id
    BY <1>10
  <2>2. \A j \in Applies(o, a.at) : o.events[j].rule = p[x].id => j = i
    BY <2>1 DEF Chosen
  <2>3. S = T \cup {i}
    <3>1. R = {i}
      BY <1>8, <2>1, <2>2
    <3>2. QED
      BY <1>9, <3>1
  <2>4. i \notin T
    BY <1>3, <2>1 DEF AppliesBut, Applies, Positions
  <2>5. Cardinality(S) = Cardinality(T) + 1
    BY <1>4, <2>3, <2>4, FS_AddElement
  <2>6. PICK k \in DOMAIN As : As[k].id = p[x].id
    BY <2>1 DEF HasApplied
  <2>7. As[k] = p[x]
    <3>1. PICK v \in DOMAIN p : p[v] = As[k]
      BY DEF List
    <3>2. v = x
      BY <2>6, <3>1 DEF IsPlan
    <3>3. QED
      BY <3>1, <3>2
  <2>8. ~(Cardinality(T) >= p[x].max_occurrences)
    BY <1>6, <2>7 DEF Capped
  <2>9. QED
    BY <1>4, <1>5, <2>5, <2>8
<1>11. CASE ~\E i \in Applies(o, a.at) : o.events[i].rule = p[x].id
  <2>1. S = T
    <3>1. R = {}
      BY <1>8, <1>11
    <3>2. QED
      BY <1>9, <3>1
  <2>2. QED
    BY <1>4, <1>6, <1>7, <2>1
<1>12. QED
  BY <1>10, <1>11

\* An attempt that is well formed leaves the whole well formed.
LEMMA BaseKept ==
  ASSUME NEW p, NEW w, NEW z, NEW o, NEW a, NEW As, IsPlan(p), Base(p, w, z), Underway(p, z, o, a),
         Chosen(p, w, o, a.at), List(p, As), HasApplied(o, a, As),
         \A j \in DOMAIN As : ~Capped(z, As[j], a),
         Fresh(z, a), EffectsOf(z, o, a), MarkersOf(z, o, a), Marked(p, o),
         Results(o, a.at) # {} => Whole(o, a.at) /\ Felt(p, o, a.at)
  PROVE  Base(p, w, o)
<1>1. /\ z \in Databases /\ Logged(z) /\ Named(p, z) /\ Caps(p, z)
      /\ Apart(z) /\ Effected(z) /\ Marked(p, z)
      /\ \A r \in Asked(z) : Chosen(p, w, z, r)
      /\ \A r \in Asked(z) : Results(z, r) # {} => Whole(z, r) /\ Felt(p, z, r)
  BY DEF Base
<1>2. o \in Databases /\ Logged(o) /\ Named(p, o)
  BY DEF Underway, Same
<1>3. /\ a.at \in Asked(o) /\ a.at \in DOMAIN o.events
      /\ o.events[a.at].call = a.call /\ o.events[a.at].attempt = a.attempt
      /\ \A r \in Asked(o) : r # a.at => /\ r \in Asked(z) /\ r \in DOMAIN z.events
                                         /\ o.events[r] = z.events[r]
                                         /\ z.events[r].request = r
      /\ \A i \in DOMAIN z.events : i \in DOMAIN o.events /\ o.events[i] = z.events[i]
  BY AskedGrows
<1>4. Caps(p, o)
  BY <1>1, CapsKept
<1>5. Apart(o)
  <2>1. \A r \in Asked(o) : r # a.at =>
          ~(o.events[r].call = a.call /\ o.events[r].attempt = a.attempt)
    BY <1>3 DEF Fresh
  <2>2. \A r, s \in Asked(o) : r # a.at /\ s # a.at =>
          (o.events[r].call = o.events[s].call /\ o.events[r].attempt = o.events[s].attempt => r = s)
    BY <1>1, <1>3 DEF Apart
  <2>3. QED
    BY <1>3, <2>1, <2>2 DEF Apart
<1>6. Effected(o)
  <2>1. \A f \in z.effects : \E r \in Asked(o) :
          o.events[r].call = f.call /\ o.events[r].attempt = f.attempt
    <3>1. \A r \in Asked(z) : r \in Asked(o) /\ o.events[r] = z.events[r]
      BY <1>3 DEF Asked
    <3>2. QED
      BY <1>1, <3>1 DEF Effected
  <2>2. QED
    BY <1>3, <2>1 DEF Effected, EffectsOf
<1>7. \A r \in Asked(o) : Chosen(p, w, o, r)
  BY <1>1, <1>3, OthersChosen
<1>8. \A r \in Asked(o) : Results(o, r) # {} => Whole(o, r) /\ Felt(p, o, r)
  <2> SUFFICES ASSUME NEW r \in Asked(o), r # a.at, Results(o, r) # {}
               PROVE  Whole(o, r) /\ Felt(p, o, r)
    OBVIOUS
  <2>1. r \in Asked(z)
    BY <1>3
  <2>2. Results(z, r) # {}
    BY OthersEvidence
  <2>3. Whole(z, r) /\ Felt(p, z, r)
    BY <1>1, <2>1, <2>2
  <2>4. Whole(o, r)
    BY <1>1, <2>1, <2>3, OthersWhole
  <2>5. Felt(p, o, r)
    BY <1>1, <2>1, <2>3, OthersFelt
  <2>6. QED
    BY <2>4, <2>5
<1>9. QED
  BY <1>2, <1>4, <1>5, <1>6, <1>7, <1>8 DEF Base

\* What an attempt that applied As answers, and whether it has an effect.
Loses(As) == \E j \in DOMAIN As : As[j].phase = "after_commit"

Tells(As, code, o, a) ==
  /\ Loses(As) => code = "fault_timeout"
  /\ \/ Loses(As)
     \/ /\ \A j \in DOMAIN As : failure_code(As[j]) \in {"", code}
        /\ code \in FAILURES => \E j \in DOMAIN As : failure_code(As[j]) = code
  /\ HasEffect(o, a.at) <=> Loses(As) \/ code = "newly_applied"

\* Nothing but rows without evidence changed.
LEMMA StageSame ==
  ASSUME NEW p, NEW w, NEW z, NEW y, NEW a, NEW As, NEW PS, Stage(p, w, z, y, a, As, PS),
         NEW y2, Same(y, y2), y2.events = y.events
  PROVE  Stage(p, w, z, y2, a, As, PS)
<1>1. \A type : Positions(y2, type, a.at) = Positions(y, type, a.at)
  BY DEF Positions
<1>2. /\ Matches(y2, a.at) = Matches(y, a.at) /\ Applies(y2, a.at) = Applies(y, a.at)
      /\ Results(y2, a.at) = Results(y, a.at) /\ Observed(y2, a.at) = Observed(y, a.at)
  BY <1>1 DEF Matches, Applies, Results, Observed
<1>3. Same(z, y2) /\ Longer(z, y2, a) /\ Named(p, y2) /\ Asks(y2, a)
  <2>1. Same(z, y) /\ Longer(z, y, a) /\ Named(p, y) /\ Asks(y, a)
    BY DEF Stage
  <2>2. Same(z, y2)
    BY <2>1 DEF Same
  <2>3. Longer(z, y2, a)
    BY <2>1 DEF Longer
  <2>4. Named(p, y2)
    BY <2>1 DEF Named
  <2>5. Asks(y2, a)
    BY <2>1 DEF Asks, Asked
  <2>6. QED
    BY <2>2, <2>3, <2>4, <2>5
<1>4. Logged(y2)
  <2>1. Logged(y)
    BY DEF Stage
  <2>2. QED
    BY <2>1 DEF Logged
<1>5. Chosen(p, w, y2, a.at) /\ InPhases(p, y2, a, PS) /\ HasApplied(y2, a, As)
  <2>1. Chosen(p, w, y, a.at) /\ InPhases(p, y, a, PS) /\ HasApplied(y, a, As)
    BY DEF Stage
  <2>2. Chosen(p, w, y2, a.at)
    BY <1>2, <2>1 DEF Chosen
  <2>3. InPhases(p, y2, a, PS) /\ HasApplied(y2, a, As)
    BY <1>2, <2>1 DEF InPhases, HasApplied
  <2>4. QED
    BY <2>2, <2>3
<1>6. QED
  BY <1>2, <1>3, <1>4, <1>5 DEF Stage

\* A sequence of one event.
LEMMA Single ==
  ASSUME NEW S, NEW e \in S
  PROVE  <<e>> \in Seq(S) /\ Len(<<e>>) = 1 /\ <<e>>[1] = e
OBVIOUS

\* The number after the last.
LEMMA NextNumber ==
  ASSUME NEW n \in Nat
  PROVE  /\ n + 1 \in n + 1 .. n + 1 /\ n + 1 - n = 1 /\ n + 1 \notin 1 .. n
         /\ n + 1 \in 1 .. n + 1 /\ 0 \in 0 .. n + 1 - 1 /\ n <= n + 1
         /\ \A i \in n + 1 .. n + 1 : i = n + 1
         /\ \A i \in 1 .. n + 1 : i \in 1 .. n \/ i = n + 1
OBVIOUS

\* No rules.
LEMMA EmptyList ==
  ASSUME NEW p
  PROVE  List(p, <<>>) /\ <<>> \in Seq(CompiledFaultRules) /\ DOMAIN <<>> = {}
<1>1. <<>> \in Seq(CompiledFaultRules) /\ DOMAIN <<>> = {}
  OBVIOUS
<1>2. QED
  BY <1>1 DEF List

\* The request event of an attempt.
Begins(z, y, a, n, e) ==
  /\ n \in Nat /\ DOMAIN z.events = 1 .. n /\ DOMAIN y.events = 1 .. n + 1
  /\ Len(z.events) = n /\ Len(y.events) = n + 1 /\ a.at = n + 1
  /\ Same(z, y) /\ Rest(z, y)
  /\ \A i \in 1 .. n : y.events[i] = z.events[i]
  /\ y.events[n + 1] = e
  /\ e.type = "tool.requested" /\ e.cause = 0 /\ e.rule = "" /\ e.info = a.q
  /\ e.request = a.at /\ e.call = a.call /\ e.attempt = a.attempt

\* It is added at the end.
LEMMA Beginning ==
  ASSUME NEW z \in Databases, NEW a \in Attempts, a.at = Len(z.events) + 1,
         NEW y, y = Add(z, <<Event("tool.requested", a, "", 0, a.q)>>),
         NEW n, n = Len(z.events), NEW e, e = Event("tool.requested", a, "", 0, a.q)
  PROVE  Begins(z, y, a, n, e)
<1>1. PICK es : es = <<e>>
  OBVIOUS
<1>2. y = Add(z, es)
  BY <1>1
<1>3. DOMAIN z.events = 1 .. n /\ n \in Nat
  BY Evidence
<1>4. /\ e.type = "tool.requested" /\ e.cause = 0 /\ e.rule = "" /\ e.info = a.q
      /\ e.request = a.at /\ e.call = a.call /\ e.attempt = a.attempt
  BY DEF Event
<1>5. e \in Events
  <2>1. /\ a.at \in Nat /\ a.call \in Numbers /\ a.attempt \in Numbers /\ a.q \in Requests
    BY DEF Attempts
  <2>2. a.q \in Codes \cup Requests \cup {""} /\ "" \in STRING \cup {""}
        /\ "tool.requested" \in EVENT_TYPES /\ 0 \in Nat
    BY <2>1 DEF EVENT_TYPES
  <2>3. QED
    BY <2>1, <2>2 DEF Event, Events
<1>6. es \in Seq(Events) /\ Len(es) = 1 /\ es[1] = e
  BY <1>1, <1>5, Single
<1>7. /\ Same(z, y) /\ Rest(z, y) /\ Len(y.events) = Len(z.events) + Len(es)
      /\ \A i \in 1 .. Len(z.events) : y.events[i] = z.events[i]
      /\ \A i \in Len(z.events) + 1 .. Len(z.events) + Len(es) :
           y.events[i] = es[i - Len(z.events)]
  BY <1>2, <1>6, Adds
<1>8. /\ Len(y.events) = n + 1
      /\ \A i \in 1 .. n : y.events[i] = z.events[i]
      /\ y.events[n + 1] = e
  <2>1. n + 1 \in n + 1 .. n + 1 /\ n + 1 - n = 1
    BY <1>3, NextNumber
  <2>2. \A i \in n + 1 .. n + 1 : y.events[i] = es[i - n]
    BY <1>6, <1>7
  <2>3. y.events[n + 1] = es[1]
    BY ONLY <1>3, <2>1, <2>2
  <2>4. QED
    BY <1>6, <1>7, <2>1, <2>3
<1>9. y \in Databases
  BY <1>7 DEF Same
<1>10. DOMAIN y.events = 1 .. n + 1
  BY <1>8, <1>9, Evidence
<1>11. QED
  BY <1>3, <1>4, <1>7, <1>8, <1>10 DEF Begins

\* An event refers to its request, and to a cause before it.
LoggedAt(d, i) ==
  LET v == d.events[i]
  IN /\ v.request \in 1 .. i /\ v.cause \in 0 .. i - 1
     /\ v.type = "tool.requested" <=> v.request = i
     /\ v.type = "tool.requested" => v.info \in Requests
     /\ v.type = "tool.result" => v.info \in Codes
     /\ d.events[v.request].request = v.request
     /\ d.events[v.request].call = v.call
     /\ d.events[v.request].attempt = v.attempt

\* Every event does.
LEMMA LoggedAll ==
  ASSUME NEW d, \A i \in DOMAIN d.events : LoggedAt(d, i)
  PROVE  Logged(d)
BY DEF Logged, LoggedAt

\* The request event refers to itself.
LEMMA RequestLogged ==
  ASSUME NEW y, NEW i \in Nat, i # 0, NEW a \in Attempts, NEW e, y.events[i] = e, a.at = i,
         e.type = "tool.requested", e.cause = 0, e.info = a.q, e.request = i
  PROVE  LoggedAt(y, i)
<1>1. i \in 1 .. i /\ 0 \in 0 .. i - 1
  OBVIOUS
<1>2. a.q \in Requests
  BY DEF Attempts
<1>3. e.request \in 1 .. i /\ e.cause \in 0 .. i - 1
  BY <1>1
<1>4. QED
  BY <1>2, <1>3 DEF LoggedAt

\* An attempt has no other evidence then.
Opening(p, w, z, y, a) ==
  /\ Stage(p, w, z, y, a, <<>>, {}) /\ Rest(z, y)
  /\ Len(y.events) = Len(z.events) + 1
  /\ Matches(y, a.at) = {} /\ Applies(y, a.at) = {}

\* An attempt begins with its request.
LEMMA Opens ==
  ASSUME NEW p, NEW w, NEW z \in Databases, Logged(z), Named(p, z),
         NEW a \in Attempts, NEW n, NEW e, NEW y, Begins(z, y, a, n, e), a.ordinal = a.call
  PROVE  Opening(p, w, z, y, a)
<1>1. /\ n \in Nat /\ DOMAIN z.events = 1 .. n /\ DOMAIN y.events = 1 .. n + 1
      /\ Len(z.events) = n /\ Len(y.events) = n + 1 /\ a.at = n + 1
  BY DEF Begins
<1>2. Same(z, y) /\ Rest(z, y) /\ \A i \in 1 .. n : y.events[i] = z.events[i]
  BY DEF Begins
<1>3. y.events[n + 1] = e
  BY DEF Begins
<1>4. /\ e.type = "tool.requested" /\ e.cause = 0 /\ e.rule = "" /\ e.info = a.q
      /\ e.request = a.at /\ e.call = a.call /\ e.attempt = a.attempt
  BY DEF Begins
<1>5. \A i \in 1 .. n + 1 : i \in 1 .. n \/ i = n + 1
  BY <1>1
<1>6. n + 1 \notin 1 .. n /\ n + 1 \in 1 .. n + 1
  BY <1>1
<1>7. Logged(y)
  <2>1. \A i \in 1 .. n : /\ z.events[i].request \in 1 .. i /\ z.events[i].request \in 1 .. n
    <3>1. \A i \in 1 .. n : z.events[i].request \in 1 .. i
      BY <1>1 DEF Logged
    <3>2. QED
      BY <1>1, <3>1
  <2>2. ASSUME NEW i \in 1 .. n
        PROVE  LoggedAt(y, i)
    <3>1. y.events[i] = z.events[i] /\ y.events[z.events[i].request] = z.events[z.events[i].request]
      BY <1>2, <2>1
    <3>2. i \in DOMAIN z.events
      BY <1>1
    <3>3. QED
      BY <3>1, <3>2 DEF Logged, LoggedAt
  <2>3. LoggedAt(y, n + 1)
    <3>1. n + 1 \in Nat /\ n + 1 # 0
      BY <1>1
    <3>2. QED
      BY <1>1, <1>3, <1>4, <3>1, RequestLogged
  <2>4. \A i \in DOMAIN y.events : LoggedAt(y, i)
    BY <1>1, <1>5, <2>2, <2>3, Zenon
  <2>5. QED
    BY <2>4, LoggedAll
<1>8. Longer(z, y, a)
  <2>1. \A i \in n + 1 .. n + 1 : i = n + 1
    BY <1>1
  <2>2. n <= n + 1
    BY <1>1
  <2>3. Mine(a, e)
    BY <1>4 DEF Mine
  <2>4. QED
    BY <1>1, <1>2, <1>3, <2>1, <2>2, <2>3 DEF Longer
<1>9. Named(p, y)
  <2>1. \A i \in 1 .. n : y.events[i].rule = "" \/ \E x \in DOMAIN p : p[x].id = y.events[i].rule
    BY <1>1, <1>2 DEF Named
  <2>2. QED
    BY <1>1, <1>3, <1>4, <1>5, <2>1 DEF Named
<1>10. Asks(y, a)
  BY <1>1, <1>3, <1>4, <1>6 DEF Asks, Asked, Mine
<1>11. \A type : type # "tool.requested" => Positions(y, type, a.at) = {}
  <2>1. \A i \in 1 .. n : z.events[i].request # n + 1
    <3>1. \A i \in 1 .. n : z.events[i].request \in 1 .. i
      BY <1>1 DEF Logged
    <3>2. QED
      BY <1>1, <3>1
  <2>2. \A i \in 1 .. n + 1 : y.events[i].request = a.at => i = n + 1
    BY <1>1, <1>2, <1>5, <2>1
  <2>3. QED
    BY <1>1, <1>3, <1>4, <2>2 DEF Positions
<1>12. /\ Matches(y, a.at) = {} /\ Applies(y, a.at) = {}
       /\ Results(y, a.at) = {} /\ Observed(y, a.at) = {}
  BY <1>11 DEF Matches, Applies, Results, Observed
<1>13. Chosen(p, w, y, a.at) /\ InPhases(p, y, a, {})
  BY <1>12 DEF Chosen, InPhases
<1>14. List(p, <<>>) /\ DOMAIN <<>> = {}
  BY EmptyList
<1>15. HasApplied(y, a, <<>>)
  BY <1>12, <1>14 DEF HasApplied
<1>16. Stage(p, w, z, y, a, <<>>, {})
  BY <1>2, <1>7, <1>8, <1>9, <1>10, <1>12, <1>13, <1>14, <1>15 DEF Stage
<1>17. QED
  BY <1>1, <1>2, <1>12, <1>16 DEF Opening

\* A closed attempt is whole, and its answer the declared one.
LEMMA ClosedIsWhole ==
  ASSUME NEW p, NEW w, NEW z, NEW o, NEW a, NEW As, NEW Bs, NEW code, NEW k, IsPlan(p),
         Closed(p, w, z, o, a, As, Bs, code, k),
         \A i \in DOMAIN Bs : \E j \in DOMAIN As : As[j] = Bs[i],
         SharedAt(o, a.at) \/ \A j \in DOMAIN As : \E i \in DOMAIN Bs : Bs[i] = As[j],
         Tells(As, code, o, a)
  PROVE  Whole(o, a.at) /\ Felt(p, o, a.at)
<1>1. HasApplied(o, a, As) /\ List(p, As) /\ Results(o, a.at) = {k} /\ o.events[k].info = code
  BY DEF Closed
<1>2. Whole(o, a.at)
  <2>1. \A u \in Observed(o, a.at) :
          /\ k < u /\ o.events[u].cause = k
          /\ \E i \in Applies(o, a.at) : o.events[i].rule = o.events[u].rule
    <3>1. \A u \in Observed(o, a.at) : \E j \in DOMAIN As : As[j].id = o.events[u].rule
      BY DEF Closed
    <3>2. \A j \in DOMAIN As : \E i \in Applies(o, a.at) : o.events[i].rule = As[j].id
      BY <1>1 DEF HasApplied
    <3>3. \A u \in Observed(o, a.at) : k < u /\ o.events[u].cause = k
      BY DEF Closed
    <3>4. QED
      BY <3>1, <3>2, <3>3
  <2>2. \/ SharedAt(o, a.at)
        \/ \A i \in Applies(o, a.at) : \E u \in Observed(o, a.at) : o.events[u].rule = o.events[i].rule
    <3>1. CASE \A j \in DOMAIN As : \E i \in DOMAIN Bs : Bs[i] = As[j]
      <4>1. \A i \in DOMAIN Bs : \E u \in Observed(o, a.at) : Bs[i].id = o.events[u].rule
        BY DEF Closed
      <4>2. \A i \in Applies(o, a.at) : \E j \in DOMAIN As : As[j].id = o.events[i].rule
        BY <1>1 DEF HasApplied
      <4>3. \A j \in DOMAIN As : \E u \in Observed(o, a.at) : As[j].id = o.events[u].rule
        BY <3>1, <4>1
      <4>4. QED
        BY <4>2, <4>3
    <3>2. QED
      BY <3>1
  <2>3. k \in DOMAIN o.events /\ \A i \in Applies(o, a.at) : i < k
    BY DEF Closed
  <2>4. \/ Applies(o, a.at) = {} /\ o.events[k].cause = a.at
        \/ o.events[k].cause \in Applies(o, a.at) /\ \A i \in Applies(o, a.at) : i <= o.events[k].cause
    BY DEF Closed
  <2>5. \A u, v \in Observed(o, a.at) : o.events[u].rule = o.events[v].rule => u = v
    BY DEF Closed
  <2>6. QED
    BY <1>1, <2>1, <2>2, <2>3, <2>4, <2>5 DEF Whole
<1>3. \A x \in Used(p, o, a.at) : \E j \in DOMAIN As : As[j] = p[x]
  <2> SUFFICES ASSUME NEW x \in Used(p, o, a.at) PROVE \E j \in DOMAIN As : As[j] = p[x]
    OBVIOUS
  <2>1. PICK i \in Applies(o, a.at) : o.events[i].rule = p[x].id
    BY DEF Used
  <2>2. PICK j \in DOMAIN As : As[j].id = p[x].id
    BY <1>1, <2>1 DEF HasApplied
  <2>3. PICK v \in DOMAIN p : p[v] = As[j]
    BY <1>1 DEF List
  <2>4. v = x
    BY <2>2, <2>3 DEF IsPlan, Used
  <2>5. QED
    BY <2>3, <2>4
<1>4. \A j \in DOMAIN As : \E x \in Used(p, o, a.at) : As[j] = p[x]
  <2> SUFFICES ASSUME NEW j \in DOMAIN As PROVE \E x \in Used(p, o, a.at) : As[j] = p[x]
    OBVIOUS
  <2>1. PICK v \in DOMAIN p : p[v] = As[j]
    BY <1>1 DEF List
  <2>2. \E i \in Applies(o, a.at) : o.events[i].rule = p[v].id
    BY <1>1, <2>1 DEF HasApplied
  <2>3. QED
    BY <2>1, <2>2 DEF Used
<1>5. Ambiguity(p, o, a.at) <=> Loses(As)
  BY <1>3, <1>4 DEF Ambiguity, Loses
<1>6. Felt(p, o, a.at)
  <2>1. \A x \in Used(p, o, a.at) : Loses(As) \/ failure_code(p[x]) \in {"", code}
    BY <1>3 DEF Tells
  <2>2. ASSUME ~Loses(As), code \in FAILURES
        PROVE  \E x \in Used(p, o, a.at) : failure_code(p[x]) = code
    <3>1. PICK j \in DOMAIN As : failure_code(As[j]) = code
      BY <2>2 DEF Tells
    <3>2. PICK x \in Used(p, o, a.at) : As[j] = p[x]
      BY <1>4
    <3>3. QED
      BY <3>1, <3>2
  <2>3. QED
    BY <1>1, <1>5, <2>1, <2>2 DEF Tells, Felt
<1>7. QED
  BY <1>2, <1>6

-----------------------------------------------------------------------------
(* A physical attempt of the pending call.                                 *)

\* The next attempt has no evidence and no rows yet.
Starts(z, a) ==
  /\ a \in Attempts /\ a = Current(z) /\ a.ordinal = a.call
  /\ a.at = Len(z.events) + 1 /\ Fresh(z, a)
  /\ \A f \in z.effects : ~(f.call = a.call /\ f.attempt = a.attempt)
  /\ \A m \in z.markers : m.at # a.at /\ ~(m.call = a.call /\ m.attempt = a.attempt)

\* The rows of the pending call and of its turns.
LEMMA PendingTypes ==
  ASSUME NEW z \in Databases, z.pending # <<>>
  PROVE  /\ z.pending[1] \in Pendings /\ z.turns \in Seq(Turns) /\ z.pending \in Seq(Pendings)
         /\ z.pending[1].call \in Numbers /\ z.pending[1].attempt \in Numbers
         /\ z.pending[1].q \in Requests /\ z.boundary \in Nat
         /\ z.pending[1].call \in Nat \ {0} /\ z.pending[1].attempt \in Nat \ {0}
<1>1. z.pending \in Seq(Pendings) /\ z.turns \in Seq(Turns) /\ z.boundary \in Nat
  BY DEF Databases
<1>2. z.pending[1] \in Pendings
  BY <1>1
<1>3. MaxTools \in Nat
  BY FaultAssumption
<1>4. z.pending[1].call \in Numbers /\ z.pending[1].attempt \in Numbers /\ z.pending[1].q \in Requests
  BY <1>2 DEF Pendings
<1>5. Numbers \in SUBSET (Nat \ {0})
  BY <1>3 DEF Numbers
<1>6. QED
  BY <1>1, <1>2, <1>4, <1>5

\* The calls are numbered without a gap, so that the ordinal is the number.
LEMMA Ordinal ==
  ASSUME NEW z \in Databases, Frame(z), z.pending # <<>>
  PROVE  logical_call_ordinal(z) = z.pending[1].call
<1>1. PICK K \in Nat : FrameOf(z, K)
  BY DEF Frame
<1>2. PICK c : c = z.pending[1].call
  OBVIOUS
<1>3. PICK seen : seen = {z.turns[i].call : i \in DOMAIN z.turns}
  OBVIOUS
<1>4. seen = 1 .. K /\ c \in Nat \ {0} /\ c = IF z.pending[1].attempt = 1 THEN K + 1 ELSE K
  BY <1>1, <1>2, <1>3, PendingTypes DEF FrameOf
<1>5. Cardinality(1 .. K) = K
  <2>1. Cardinality(1 .. K) = IF 1 > K THEN 0 ELSE K - 1 + 1
    BY FS_Interval
  <2>2. QED
    BY <2>1
<1>6. logical_call_ordinal(z) = IF c \in seen THEN Cardinality({x \in seen : x <= c})
                                ELSE Cardinality(seen) + 1
  BY <1>2, <1>3 DEF logical_call_ordinal
<1>7. CASE c = K + 1
  <2>1. c \notin seen
    BY <1>4, <1>7
  <2>2. QED
    BY <1>2, <1>4, <1>5, <1>6, <1>7, <2>1
<1>8. CASE c = K
  <2>1. c \in seen
    BY <1>4, <1>8
  <2>2. {x \in seen : x <= c} = 1 .. K
    BY <1>4, <1>8
  <2>3. QED
    BY <1>2, <1>5, <1>6, <1>8, <2>1, <2>2
<1>9. QED
  BY <1>4, <1>7, <1>8

\* The attempt at a position, with its ordinal.
LEMMA AttemptIs ==
  ASSUME NEW z \in Databases, Frame(z), z.pending # <<>>
  PROVE  /\ Attempt(z, z.boundary + 1) = Current(z) /\ Current(z) \in Attempts
         /\ Current(z).ordinal = Current(z).call /\ Current(z).at = z.boundary + 1
         /\ Current(z).call = z.pending[1].call /\ Current(z).attempt = z.pending[1].attempt
         /\ Current(z).q = z.pending[1].q
<1>1. logical_call_ordinal(z) = z.pending[1].call
  BY Ordinal
<1>2. Attempt(z, z.boundary + 1) = Current(z)
  BY <1>1 DEF Attempt, Current
<1>3. /\ z.pending[1].call \in Numbers /\ z.pending[1].attempt \in Numbers
      /\ z.pending[1].q \in Requests /\ z.boundary \in Nat /\ z.pending[1].call \in Nat
  BY PendingTypes
<1>4. Current(z) \in Attempts
  BY <1>3 DEF Current, Attempts
<1>5. QED
  BY <1>2, <1>4 DEF Current

\* Nothing of it is there before it starts.
LEMMA Starting ==
  ASSUME NEW p, NEW w, NEW z, Base(p, w, z), Frame(z), ~Started(z), z.pending # <<>>
  PROVE  /\ Starts(z, Current(z)) /\ z.boundary = Len(z.events)
         /\ Attempt(z, Len(z.events) + 1) = Current(z)
<1>1. z \in Databases /\ Logged(z) /\ Effected(z) /\ Marked(p, z)
  BY DEF Base
<1>2. PICK K \in Nat : FrameOf(z, K)
  BY DEF Frame
<1>3. z.boundary = Len(z.events) /\ Len(z.events) \in Nat /\ DOMAIN z.events = 1 .. Len(z.events)
  <2>1. z.boundary \in Nat /\ Len(z.events) \in Nat /\ DOMAIN z.events = 1 .. Len(z.events)
    BY <1>1, Evidence, PendingTypes
  <2>2. z.boundary <= Len(z.events)
    BY <1>2 DEF FrameOf
  <2>3. QED
    BY <2>1, <2>2 DEF Started
<1>4. PICK a : a = Current(z)
  OBVIOUS
<1>5. /\ Attempt(z, z.boundary + 1) = a /\ a \in Attempts
      /\ a.ordinal = a.call /\ a.at = z.boundary + 1
      /\ a.call = z.pending[1].call /\ a.attempt = z.pending[1].attempt
  BY <1>1, <1>4, AttemptIs
<1>6. \A i \in DOMAIN z.events : ~(z.events[i].call = a.call /\ z.events[i].attempt = a.attempt)
  <2>1. \A i \in DOMAIN z.events : i <= z.boundary
    BY <1>3
  <2>2. \A i \in DOMAIN z.events :
          z.events[i].call = z.pending[1].call => z.events[i].attempt < z.pending[1].attempt
    BY <1>2, <2>1 DEF FrameOf
  <2>3. z.pending[1].attempt \in Nat
    BY <1>1, PendingTypes
  <2>4. QED
    BY <1>5, <2>2, <2>3
<1>7. Fresh(z, a)
  BY <1>6 DEF Fresh
<1>8. \A f \in z.effects : ~(f.call = a.call /\ f.attempt = a.attempt)
  <2>1. \A f \in z.effects : \E r \in Asked(z) :
          z.events[r].call = f.call /\ z.events[r].attempt = f.attempt
    BY <1>1 DEF Effected
  <2>2. Asked(z) \in SUBSET DOMAIN z.events
    BY DEF Asked
  <2>3. QED
    BY <1>6, <2>1, <2>2
<1>9. \A m \in z.markers : m.at # a.at /\ ~(m.call = a.call /\ m.attempt = a.attempt)
  <2>1. \A m \in z.markers : /\ m.at \in DOMAIN z.events
                             /\ z.events[m.at].call = m.call /\ z.events[m.at].attempt = m.attempt
    BY <1>1 DEF Marked, Asked
  <2>2. a.at \notin DOMAIN z.events
    BY <1>3, <1>5
  <2>3. QED
    BY <1>6, <2>1, <2>2
<1>10. Starts(z, a)
  BY <1>3, <1>4, <1>5, <1>7, <1>8, <1>9 DEF Starts
<1>11. QED
  BY <1>3, <1>4, <1>5, <1>10

-----------------------------------------------------------------------------
(* An answer keeps the whole well formed.                                  *)

\* The markers there were stay valid rows.
LEMMA MarkedStays ==
  ASSUME NEW p, NEW z, NEW o, NEW a, Underway(p, z, o, a), Marked(p, z), o.markers = z.markers
  PROVE  Marked(p, o)
<1>1. \A i \in DOMAIN z.events : i \in DOMAIN o.events /\ o.events[i] = z.events[i]
  BY AskedGrows
<1>2. \A r \in Asked(z) : r \in Asked(o) /\ o.events[r] = z.events[r]
  BY <1>1 DEF Asked
<1>3. QED
  BY <1>1, <1>2 DEF Marked

\* From a closed attempt.
LEMMA Keeps ==
  ASSUME NEW p, NEW w, NEW z, NEW o, NEW a, NEW As, NEW Bs, NEW code, NEW k, IsPlan(p),
         Base(p, w, z), Fresh(z, a), Closed(p, w, z, o, a, As, Bs, code, k),
         \A i \in DOMAIN Bs : \E j \in DOMAIN As : As[j] = Bs[i],
         SharedAt(o, a.at) \/ \A j \in DOMAIN As : \E i \in DOMAIN Bs : Bs[i] = As[j],
         Tells(As, code, o, a), EffectsOf(z, o, a), o.markers = z.markers
  PROVE  Base(p, w, o) /\ Underway(p, z, o, a)
<1>1. Whole(o, a.at) /\ Felt(p, o, a.at)
  BY ClosedIsWhole
<1>2. Underway(p, z, o, a)
  BY DEF Closed, Underway
<1>3. Marked(p, z)
  BY DEF Base
<1>4. Marked(p, o)
  BY <1>2, <1>3, MarkedStays
<1>5. MarkersOf(z, o, a)
  BY DEF MarkersOf
<1>6. /\ Chosen(p, w, o, a.at) /\ List(p, As) /\ HasApplied(o, a, As)
      /\ \A j \in DOMAIN As : ~Capped(z, As[j], a)
  BY DEF Closed
<1>7. QED
  BY <1>1, <1>2, <1>4, <1>5, <1>6, BaseKept

-----------------------------------------------------------------------------
(* One phase: what it selects is matched, and what is applied was selected. *)

\* A stage may have looked at a phase without matching in it.
LEMMA StageWidens ==
  ASSUME NEW p, NEW w, NEW z, NEW y, NEW a, NEW As, NEW PS, Stage(p, w, z, y, a, As, PS),
         NEW QS, PS \in SUBSET QS
  PROVE  Stage(p, w, z, y, a, As, QS)
<1>1. InPhases(p, y, a, PS) /\ \A k \in DOMAIN As : As[k].phase \in PS
  BY DEF Stage
<1>2. InPhases(p, y, a, QS) /\ \A k \in DOMAIN As : As[k].phase \in QS
  BY <1>1 DEF InPhases
<1>3. QED
  BY <1>2 DEF Stage

\* The sequences that are added to nothing and to which nothing is added.
LEMMA Nothing ==
  ASSUME NEW S, NEW s \in Seq(S)
  PROVE  <<>> \o s = s /\ s \o <<>> = s
OBVIOUS

\* What is selected for a phase, and matched after the evidence there was.
Selected(z, y, chosen, a, As, PS, phase, ms) ==
  /\ List(plan, ms) /\ Stage(plan, draws, z, chosen, a, As, PS \cup {phase})
  /\ MatchedNow(y, chosen, a, ms)
  /\ \A k \in DOMAIN ms : Wants(draws, z, ms[k], a, phase)

\* The engine's selection, or none.
LEMMA Selects ==
  ASSUME NEW z, NEW y, NEW a, NEW As, NEW PS, NEW phase, phase \notin PS, IsPlan(plan),
         Stage(plan, draws, z, y, a, As, PS), NEW engine \in BOOLEAN,
         NEW ms, ms = select_faults(y, a, phase, engine),
         NEW chosen, chosen = record_selection(y, a, phase, ms, engine)
  PROVE  /\ Selected(z, y, chosen, a, As, PS, phase, ms)
         /\ ms = IF engine THEN Sel(plan, draws, z, a, phase) ELSE <<>>
<1>1. z \in Databases /\ y \in Databases /\ Longer(z, y, a)
  BY DEF Stage, Same
<1>2. CASE engine
  <2>1. ms = select(y, a, phase) /\ chosen = record_fault_selection(y, a, phase, ms)
    BY <1>2 DEF select_faults, record_selection
  <2>2. ms = Sel(plan, draws, z, a, phase)
    <3>1. ms = Sel(plan, draws, y, a, phase)
      BY <2>1, SelectIs
    <3>2. Sel(plan, draws, y, a, phase) = Sel(plan, draws, z, a, phase)
      BY <1>1, SelStays
    <3>3. QED
      BY <3>1, <3>2
  <2>3. List(plan, ms) /\ \A k \in DOMAIN ms : Wants(draws, z, ms[k], a, phase)
    BY <2>2, Selecting
  <2>4. Stage(plan, draws, z, chosen, a, As, PS \cup {phase}) /\ MatchedNow(y, chosen, a, ms)
    BY <2>1, <2>3, Matching
  <2>5. QED
    BY <1>2, <2>2, <2>3, <2>4 DEF Selected
<1>3. CASE ~engine
  <2>1. ms = <<>> /\ chosen = y
    BY <1>3 DEF select_faults, record_selection
  <2>2. List(plan, ms) /\ DOMAIN ms = {}
    BY <2>1, EmptyList
  <2>3. Stage(plan, draws, z, chosen, a, As, PS \cup {phase})
    BY <2>1, StageWidens
  <2>4. MatchedNow(y, chosen, a, ms)
    <3>1. Rest(y, y) /\ Longer(y, y, a)
      <4>1. Len(y.events) \in Nat
        BY <1>1, Evidence
      <4>2. QED
        BY <4>1 DEF Rest, Longer
    <3>2. QED
      BY <2>1, <2>2, <3>1 DEF MatchedNow
  <2>5. QED
    BY <1>3, <2>1, <2>2, <2>3, <2>4 DEF Selected
<1>4. QED
  BY <1>2, <1>3

\* The rules applied by then are of other phases.
LEMMA OtherPhases ==
  ASSUME NEW p, NEW w, NEW z, NEW y, NEW a, NEW As, NEW PS, NEW QS, NEW phase, phase \notin PS,
         Stage(p, w, z, y, a, As, QS), IsPlan(p), \A k \in DOMAIN As : As[k].phase \in PS,
         NEW r, r.phase = phase, \E x \in DOMAIN p : p[x] = r
  PROVE  \A i \in Applies(y, a.at) : y.events[i].rule # r.id
<1> SUFFICES ASSUME NEW i \in Applies(y, a.at), y.events[i].rule = r.id
             PROVE  FALSE
  OBVIOUS
<1>1. List(p, As) /\ HasApplied(y, a, As)
  BY DEF Stage
<1>2. PICK k \in DOMAIN As : As[k].id = r.id
  BY <1>1 DEF HasApplied
<1>3. PICK x \in DOMAIN p : p[x] = As[k]
  BY <1>1 DEF List
<1>4. PICK v \in DOMAIN p : p[v] = r
  OBVIOUS
<1>5. x = v
  BY <1>2, <1>3, <1>4 DEF IsPlan
<1>6. QED
  BY <1>3, <1>4, <1>5

\* Rules that were selected, of which one may fail the attempt.
SomeOf(ms, Bs) ==
  List(plan, Bs) /\ OneFails(Bs) /\ \A k \in DOMAIN Bs : \E i \in DOMAIN ms : Bs[k] = ms[i]

\* The engine applies some of the matched rules.
LEMMA AppliesSome ==
  ASSUME NEW ms, List(plan, ms), NEW Bs, Bs = apply(ms)
  PROVE  SomeOf(ms, Bs)
BY Applying DEF SomeOf

\* What the applied rules make of a code.
Replaces(s, code, c) ==
  \/ c = code /\ \A k \in DOMAIN s : failure_code(s[k]) = ""
  \/ \E k \in DOMAIN s : /\ failure_code(s[k]) # "" /\ c = failure_code(s[k])
                         /\ \A l \in DOMAIN s : failure_code(s[l]) # "" => l = k

\* The answer is the one rule's failure code, or the tool's own.
LEMMA ReplacesCode ==
  ASSUME NEW s \in Seq(CompiledFaultRules), OneFails(s), NEW code, NEW c, c = replaced(s, code)
  PROVE  Replaces(s, code, c)
<1>1. Replaces(s, code, replaced(s, code))
  BY Replacing DEF Replaces
<1>2. QED
  BY <1>1

\* A phase is done: what was selected is matched, some of it applied.
PhaseDone(z, y, y2, chosen, a, Cs, QS, Bs, phase) ==
  /\ Stage(plan, draws, z, y2, a, Cs, QS) /\ Rest(y, y2)
  /\ AppliedNow(chosen, y2, a, Bs)
  /\ \A k \in DOMAIN Bs : Bs[k].phase = phase

\* Some of what was selected is applied.
LEMMA PhaseApplies ==
  ASSUME NEW z, NEW y, NEW chosen, NEW a, NEW As, NEW PS, NEW phase, phase \notin PS, IsPlan(plan),
         Stage(plan, draws, z, y, a, As, PS), NEW ms,
         Selected(z, y, chosen, a, As, PS, phase, ms),
         NEW Bs, SomeOf(ms, Bs),
         NEW y2, y2 = record_applied_faults(chosen, a, Bs)
  PROVE  PhaseDone(z, y, y2, chosen, a, As \o Bs, PS \cup {phase}, Bs, phase)
<1>1. List(plan, Bs) /\ \A k \in DOMAIN Bs : \E i \in DOMAIN ms : Bs[k] = ms[i]
  BY DEF SomeOf
<1>2. Stage(plan, draws, z, chosen, a, As, PS \cup {phase}) /\ MatchedNow(y, chosen, a, ms)
  BY DEF Selected
<1>3. \A k \in DOMAIN Bs : /\ Bs[k].phase = phase /\ ~Capped(z, Bs[k], a)
                           /\ \E m \in Matches(chosen, a.at) : chosen.events[m].rule = Bs[k].id
  <2>1. \A i \in DOMAIN ms : /\ ms[i].phase = phase /\ ~Capped(z, ms[i], a)
    BY DEF Selected, Wants
  <2>2. \A i \in DOMAIN ms : \E m \in Matches(chosen, a.at) : chosen.events[m].rule = ms[i].id
    BY <1>2 DEF MatchedNow
  <2>3. QED
    BY <1>1, <2>1, <2>2
<1>4. \A k \in DOMAIN As : As[k].phase \in PS
  BY DEF Stage
<1>5. \A k \in DOMAIN Bs : \A i \in Applies(chosen, a.at) : chosen.events[i].rule # Bs[k].id
  <2> SUFFICES ASSUME NEW k \in DOMAIN Bs
               PROVE  \A i \in Applies(chosen, a.at) : chosen.events[i].rule # Bs[k].id
    OBVIOUS
  <2>1. \E x \in DOMAIN plan : plan[x] = Bs[k]
    BY <1>1 DEF List
  <2>2. PICK r : r = Bs[k]
    OBVIOUS
  <2>3. r.phase = phase /\ \E x \in DOMAIN plan : plan[x] = r
    BY <1>3, <2>1, <2>2
  <2>4. PICK QS : QS = PS \cup {phase}
    OBVIOUS
  <2>5. Stage(plan, draws, z, chosen, a, As, QS)
    BY <1>2, <2>4
  <2>6. \A i \in Applies(chosen, a.at) : chosen.events[i].rule # r.id
    BY <1>4, <2>3, <2>5, OtherPhases
  <2>7. QED
    BY <2>2, <2>6
<1>6. Stage(plan, draws, z, y2, a, As \o Bs, PS \cup {phase}) /\ AppliedNow(chosen, y2, a, Bs)
  BY <1>1, <1>2, <1>3, <1>5, ApplyingNow
<1>7. Rest(y, y2)
  <2>1. Rest(y, chosen) /\ Rest(chosen, y2)
    BY <1>2, <1>6 DEF MatchedNow, AppliedNow
  <2>2. QED
    BY <2>1 DEF Rest
<1>8. QED
  BY <1>3, <1>6, <1>7 DEF PhaseDone

\* The same, with names for what it applied and for its phases.
LEMMA PhaseApplied ==
  ASSUME NEW z, NEW y, NEW chosen, NEW a, NEW As, NEW PS, NEW phase, phase \notin PS, IsPlan(plan),
         Stage(plan, draws, z, y, a, As, PS), NEW ms,
         Selected(z, y, chosen, a, As, PS, phase, ms),
         NEW Bs, SomeOf(ms, Bs),
         NEW y2, y2 = record_applied_faults(chosen, a, Bs),
         NEW Cs, Cs = As \o Bs, NEW QS, QS = PS \cup {phase}
  PROVE  PhaseDone(z, y, y2, chosen, a, Cs, QS, Bs, phase)
BY PhaseApplies

-----------------------------------------------------------------------------
(* What an attempt comes to.                                               *)

\* The effect of an attempt.
Effect(a) == [q |-> a.q, call |-> a.call, attempt |-> a.attempt]

\* A result k with its code, and what belongs to it.
Answers(o, a, k, code) ==
  /\ k \in DOMAIN o.events /\ code \in Codes
  /\ Results(o, a.at) = {k} /\ o.events[k].info = code
  /\ code = "read" => a.q \notin Mutations
  /\ code = "newly_applied" =>
       /\ Effect(a) \in o.effects
       /\ \E s \in DOMAIN o.events :
            \A i \in DOMAIN o.events :
              i = s <=> k < i /\ o.events[i].type = "state.evidence_recorded" /\ o.events[i].cause = k

Kept(p, w, z, o, a) ==
  /\ Base(p, w, o) /\ Underway(p, z, o, a) /\ o.markers = z.markers
  /\ \E k \in Nat, code \in Codes : Answers(o, a, k, code)

\* The code is what the applied rules declare, and loses no acknowledgement.
Clear(As, code) ==
  /\ ~Loses(As) /\ \A j \in DOMAIN As : failure_code(As[j]) \in {"", code}
  /\ code \in FAILURES => \E j \in DOMAIN As : failure_code(As[j]) = code

\* Neither rows nor effects of the attempt.
LEMMA NoEffect ==
  ASSUME NEW p, NEW w, NEW z, NEW o, NEW a, Starts(z, a), Underway(p, z, o, a), Base(p, w, z),
         o.effects = z.effects
  PROVE  ~HasEffect(o, a.at) /\ EffectsOf(z, o, a)
<1>1. o.events[a.at].call = a.call /\ o.events[a.at].attempt = a.attempt
  BY AskedGrows
<1>2. \A f \in z.effects : ~(f.call = a.call /\ f.attempt = a.attempt)
  BY DEF Starts
<1>3. ~HasEffect(o, a.at)
  BY <1>1, <1>2 DEF HasEffect
<1>4. \A f, g \in z.effects : f.q = g.q => f = g
  <2>1. Effected(z)
    BY DEF Base
  <2>2. QED
    BY <2>1 DEF Effected
<1>5. EffectsOf(z, o, a)
  <2>1. z.effects \in SUBSET o.effects /\ \A f \in o.effects : f \in z.effects
    OBVIOUS
  <2>2. \A f, g \in o.effects : f.q = g.q => f = g
    BY <1>4
  <2>3. QED
    BY <2>1, <2>2 DEF EffectsOf
<1>6. QED
  BY <1>3, <1>5

\* An answer without an effect.
LEMMA AnswersIdle ==
  ASSUME NEW p, NEW w, NEW z, NEW y, NEW a, NEW As, NEW PS, IsPlan(p), Base(p, w, z),
         Starts(z, a), Stage(p, w, z, y, a, As, PS), y.effects = z.effects, y.markers = z.markers,
         NEW code \in Codes, code # "newly_applied", Clear(As, code),
         code = "read" => a.q \notin Mutations,
         NEW o, o = answer(y, a, code, As)
  PROVE  Kept(p, w, z, o, a)
<1>1. y \in Databases /\ List(p, As)
  BY DEF Stage, Same
<1>2. PICK k : k = Len(y.events) + 1
  OBVIOUS
<1>3. k \in Nat
  BY <1>1, <1>2, Evidence
<1>4. Closed(p, w, z, o, a, As, As, code, k) /\ AnsweredNow(y, o, a)
  BY <1>1, <1>2, Answering
<1>5. o.effects = z.effects /\ o.markers = z.markers
  BY <1>4 DEF AnsweredNow, Rest
<1>6. Underway(p, z, o, a)
  BY <1>4 DEF Closed, Underway
<1>7. ~HasEffect(o, a.at) /\ EffectsOf(z, o, a)
  BY <1>5, <1>6, NoEffect
<1>8. Tells(As, code, o, a)
  BY <1>7 DEF Tells, Clear
<1>9. Fresh(z, a)
  BY DEF Starts
<1>10. Base(p, w, o)
  BY <1>4, <1>5, <1>7, <1>8, <1>9, Keeps
<1>11. Answers(o, a, k, code)
  BY <1>4 DEF Closed, Answers
<1>12. QED
  BY <1>3, <1>5, <1>6, <1>10, <1>11 DEF Kept

\* The codes of an attempt.
LEMMA CodesAre ==
         /\ FAILURES \in SUBSET Codes /\ WAITS \in SUBSET Codes /\ SUCCESSES \in SUBSET Codes
         /\ "approval_denied" \in Codes /\ "failed" \in Codes /\ "infrastructure_error" \in Codes
         /\ "read" \in Codes /\ "newly_applied" \in Codes /\ "already_applied" \in Codes
         /\ "newly_applied" \notin FAILURES /\ "read" \notin FAILURES
         /\ "already_applied" \notin FAILURES /\ "failed" \notin FAILURES
         /\ "infrastructure_error" \notin FAILURES /\ "" \notin FAILURES
BY DEF Codes, FAILURES, WAITS, SUCCESSES

\* A gate that does not let the attempt pass.
LEMMA GateCodes ==
  ASSUME NEW z, NEW q, gate(z, q) # "pass"
  PROVE  gate(z, q) \in {"approval_required", "approval_pending", "approval_denied"}
BY DEF gate

\* An attempt that does not pass the gate.
LEMMA Gating ==
  ASSUME NEW z, NEW y, NEW a, IsPlan(plan), Base(plan, draws, z), Starts(z, a),
         Opening(plan, draws, z, y, a), gate(z, a.q) # "pass", NEW o, o = Gated(y, a)
  PROVE  Kept(plan, draws, z, o, a)
<1>1. Stage(plan, draws, z, y, a, <<>>, {}) /\ Rest(z, y)
  BY DEF Opening
<1>2. y \in Databases /\ a.q \in Requests
  BY <1>1 DEF Stage, Same, Attempts
<1>3. gate(y, a.q) = gate(z, a.q)
  BY <1>1 DEF gate, Rest
<1>4. PICK x : x = IF gate(y, a.q) = "approval_required"
                   THEN [y EXCEPT !.approvals[a.q] = "pending"] ELSE y
  OBVIOUS
<1>5. x \in Databases /\ Same(y, x) /\ x.events = y.events
  <2>1. CASE x = y
    BY <1>2, <2>1 DEF Same
  <2>2. CASE x = [y EXCEPT !.approvals[a.q] = "pending"]
    <3>1. y.approvals \in [Requests -> {"none", "pending", "approved", "denied"}]
      BY <1>2 DEF Databases
    <3>2. PICK ap : ap = [y.approvals EXCEPT ![a.q] = "pending"]
      OBVIOUS
    <3>3. ap \in [Requests -> {"none", "pending", "approved", "denied"}]
      BY <1>2, <3>1, <3>2
    <3>4. x = [y EXCEPT !.approvals = ap]
      BY <2>2, <3>2
    <3>5. QED
      BY <1>2, <3>3, <3>4 DEF Databases, Same
  <2>3. QED
    BY <1>4, <2>1, <2>2
<1>6. x.effects = z.effects /\ x.markers = z.markers
  BY <1>1, <1>4 DEF Rest
<1>7. Stage(plan, draws, z, x, a, <<>>, {})
  BY <1>1, <1>5, StageSame
<1>8. PICK code : code = gate(y, a.q)
  OBVIOUS
<1>9. code \in {"approval_required", "approval_pending", "approval_denied"}
  BY <1>3, <1>8, GateCodes
<1>10. code \in Codes /\ code \notin FAILURES /\ code # "newly_applied" /\ code # "read"
  BY <1>9 DEF Codes, WAITS, FAILURES
<1>11. Clear(<<>>, code)
  BY <1>10, EmptyList DEF Clear, Loses
<1>12. o = answer(x, a, code, <<>>)
  BY <1>4, <1>8 DEF Gated
<1>13. QED
  BY <1>6, <1>7, <1>10, <1>11, <1>12, AnswersIdle

\* The rules of the before_tool phase that were applied.
Ready(z, y, a, before) ==
  /\ Stage(plan, draws, z, y, a, before, {"before_tool"}) /\ Rest(z, y) /\ OneFails(before)

\* The before_tool phase.
LEMMA Preparing ==
  ASSUME NEW z, NEW y, NEW a, IsPlan(plan), Opening(plan, draws, z, y, a), NEW engine \in BOOLEAN,
         NEW ms, ms = select_faults(y, a, "before_tool", engine),
         NEW chosen, chosen = record_selection(y, a, "before_tool", ms, engine),
         NEW before, before = apply(ms),
         NEW y2, y2 = record_applied_faults(chosen, a, before)
  PROVE  Ready(z, y2, a, before)
<1>1. Stage(plan, draws, z, y, a, <<>>, {}) /\ Rest(z, y)
  BY DEF Opening
<1>2. Selected(z, y, chosen, a, <<>>, {}, "before_tool", ms)
  BY <1>1, Selects
<1>3. List(plan, ms)
  BY <1>2 DEF Selected
<1>4. SomeOf(ms, before)
  BY <1>3, AppliesSome
<1>5. before \in Seq(CompiledFaultRules) /\ OneFails(before)
  BY <1>4 DEF SomeOf, List
<1>6. before = <<>> \o before
  BY <1>5, Nothing
<1>7. "before_tool" \notin {} /\ {"before_tool"} = {} \cup {"before_tool"}
  OBVIOUS
<1>8. PhaseDone(z, y, y2, chosen, a, before, {"before_tool"}, before, "before_tool")
  BY <1>1, <1>2, <1>4, <1>6, <1>7, PhaseApplied
<1>9. Stage(plan, draws, z, y2, a, before, {"before_tool"}) /\ Rest(y, y2)
  BY <1>8 DEF PhaseDone
<1>10. Rest(z, y2)
  BY <1>1, <1>9 DEF Rest
<1>11. QED
  BY <1>5, <1>9, <1>10 DEF Ready

\* They lose no acknowledgement.
LEMMA BeforeClear ==
  ASSUME NEW z, NEW y, NEW a, NEW before, Ready(z, y, a, before)
  PROVE  /\ ~Loses(before) /\ before \in Seq(CompiledFaultRules) /\ List(plan, before)
         /\ replaced(before, "") # "" => Clear(before, replaced(before, ""))
                                         /\ replaced(before, "") \in FAILURES
         /\ replaced(before, "") = "" => \A k \in DOMAIN before : failure_code(before[k]) = ""
<1>1. Stage(plan, draws, z, y, a, before, {"before_tool"}) /\ OneFails(before)
  BY DEF Ready
<1>2. List(plan, before) /\ \A k \in DOMAIN before : before[k].phase = "before_tool"
  BY <1>1 DEF Stage
<1>3. before \in Seq(CompiledFaultRules) /\ ~Loses(before)
  BY <1>2 DEF List, Loses
<1>4. PICK code : code = replaced(before, "")
  OBVIOUS
<1>5. Replaces(before, "", code)
  BY <1>4, <1>1, <1>3, ReplacesCode
<1>6. ASSUME code # ""
      PROVE  Clear(before, code) /\ code \in FAILURES
  <2>1. PICK k \in DOMAIN before : /\ failure_code(before[k]) # "" /\ code = failure_code(before[k])
                                   /\ \A l \in DOMAIN before : failure_code(before[l]) # "" => l = k
    BY <1>5, <1>6 DEF Replaces
  <2>2. code \in FAILURES
    BY <2>1, FailureCodes
  <2>3. \A l \in DOMAIN before : failure_code(before[l]) \in {"", code}
    BY <2>1
  <2>4. QED
    BY <1>3, <2>1, <2>2, <2>3 DEF Clear
<1>7. ASSUME code = ""
      PROVE  \A k \in DOMAIN before : failure_code(before[k]) = ""
  BY <1>5, <1>7 DEF Replaces
<1>8. QED
  BY <1>4, <1>2, <1>3, <1>6, <1>7

\* A declared failure, or a broken rule or handler.
LEMMA Failing ==
  ASSUME NEW z, NEW y, NEW a, IsPlan(plan), Base(plan, draws, z), Starts(z, a),
         NEW before, Ready(z, y, a, before), NEW code, NEW o, o = answer(y, a, code, before),
         \/ replaced(before, "") # "" /\ code = replaced(before, "")
         \/ replaced(before, "") = "" /\ code \in {"failed", "infrastructure_error", "already_applied"}
  PROVE  Kept(plan, draws, z, o, a)
<1>1. Stage(plan, draws, z, y, a, before, {"before_tool"}) /\ Rest(z, y)
  BY DEF Ready
<1>2. code \in Codes /\ code # "newly_applied" /\ code # "read"
  <2>1. CASE replaced(before, "") # "" /\ code = replaced(before, "")
    <3>1. code \in FAILURES
      BY <2>1, BeforeClear
    <3>2. QED
      BY <3>1, CodesAre
  <2>2. CASE code \in {"failed", "infrastructure_error", "already_applied"}
    BY <2>2, CodesAre
  <2>3. QED
    BY <2>1, <2>2
<1>3. Clear(before, code)
  <2>1. CASE replaced(before, "") # "" /\ code = replaced(before, "")
    BY <2>1, BeforeClear
  <2>2. CASE replaced(before, "") = "" /\ code \in {"failed", "infrastructure_error", "already_applied"}
    <3>1. ~Loses(before) /\ \A k \in DOMAIN before : failure_code(before[k]) = ""
      BY <2>2, BeforeClear
    <3>2. code \notin FAILURES
      BY <2>2, CodesAre
    <3>3. QED
      BY <3>1, <3>2 DEF Clear
  <2>3. QED
    BY <2>1, <2>2
<1>4. y.effects = z.effects /\ y.markers = z.markers
  BY <1>1 DEF Rest
<1>5. QED
  BY <1>1, <1>2, <1>3, <1>4, AnswersIdle

\* The elements of two sequences.
Both(s, t, u) ==
  /\ \A j \in DOMAIN u : \/ \E k \in DOMAIN s : u[j] = s[k]
                        \/ \E k \in DOMAIN t : u[j] = t[k]
  /\ \A k \in DOMAIN s : \E j \in DOMAIN u : u[j] = s[k]
  /\ \A k \in DOMAIN t : \E j \in DOMAIN u : u[j] = t[k]

\* Their concatenation has them all and no other.
LEMMA SeqsJoined ==
  ASSUME NEW S, NEW s \in Seq(S), NEW t \in Seq(S), NEW u, u = s \o t
  PROVE  Both(s, t, u)
<1>1. /\ DOMAIN u = 1 .. Len(s) + Len(t) /\ Len(s) \in Nat /\ Len(t) \in Nat
      /\ DOMAIN s = 1 .. Len(s) /\ DOMAIN t = 1 .. Len(t)
      /\ \A i \in 1 .. Len(s) : u[i] = s[i]
      /\ \A i \in 1 .. Len(t) : u[Len(s) + i] = t[i]
  <2>1. u \in Seq(S) /\ Len(u) = Len(s) + Len(t)
    BY Joins
  <2>2. DOMAIN u = 1 .. Len(u)
    BY <2>1, SeqDomain
  <2>3. QED
    BY <2>1, <2>2, Joins
<1>2. ASSUME NEW j \in DOMAIN u, j \notin 1 .. Len(s)
      PROVE  \E k \in 1 .. Len(t) : j = Len(s) + k
  <2>1. j - Len(s) \in 1 .. Len(t) /\ j = Len(s) + (j - Len(s))
    BY <1>1, <1>2
  <2>2. QED
    BY <2>1
<1>3. \A j \in DOMAIN u : \/ \E k \in DOMAIN s : u[j] = s[k]
                          \/ \E k \in DOMAIN t : u[j] = t[k]
  <2> SUFFICES ASSUME NEW j \in DOMAIN u
               PROVE  \/ \E k \in DOMAIN s : u[j] = s[k]
                      \/ \E k \in DOMAIN t : u[j] = t[k]
    OBVIOUS
  <2>1. CASE j \in 1 .. Len(s)
    BY <1>1, <2>1
  <2>2. CASE j \notin 1 .. Len(s)
    <3>1. PICK k \in 1 .. Len(t) : j = Len(s) + k
      BY <1>2, <2>2
    <3>2. u[j] = t[k] /\ k \in DOMAIN t
      BY <1>1, <3>1
    <3>3. QED
      BY <3>2
  <2>3. QED
    BY <2>1, <2>2
<1>4. /\ \A i \in 1 .. Len(s) : i \in DOMAIN u
      /\ \A i \in 1 .. Len(t) : Len(s) + i \in DOMAIN u
  BY <1>1
<1>5. /\ \A k \in DOMAIN s : \E j \in DOMAIN u : u[j] = s[k]
      /\ \A k \in DOMAIN t : \E j \in DOMAIN u : u[j] = t[k]
  BY <1>1, <1>4
<1>6. QED
  BY <1>3, <1>5 DEF Both

\* A read, whose answer the rules of the after_tool phase may replace.
LEMMA Reading ==
  ASSUME NEW z, NEW y, NEW a, IsPlan(plan), Base(plan, draws, z), Starts(z, a),
         NEW before, Ready(z, y, a, before), replaced(before, "") = "", a.q \notin Mutations,
         NEW engine \in BOOLEAN, NEW o, o = Read(y, a, before, engine)
  PROVE  Kept(plan, draws, z, o, a)
<1>1. Stage(plan, draws, z, y, a, before, {"before_tool"}) /\ Rest(z, y)
  BY DEF Ready
<1>2. PICK ms : ms = select_faults(y, a, "after_tool", engine)
  OBVIOUS
<1>3. PICK chosen : chosen = record_selection(y, a, "after_tool", ms, engine)
  OBVIOUS
<1>4. PICK after : after = apply(ms)
  OBVIOUS
<1>5. PICK y2 : y2 = record_applied_faults(chosen, a, after)
  OBVIOUS
<1>6. PICK code : code = replaced(after, "read")
  OBVIOUS
<1>7. PICK As : As = before \o after
  OBVIOUS
<1>8. o = answer(y2, a, code, As)
  BY <1>2, <1>3, <1>4, <1>5, <1>6, <1>7 DEF Read
<1>9. "after_tool" \notin {"before_tool"}
  OBVIOUS
<1>10. Selected(z, y, chosen, a, before, {"before_tool"}, "after_tool", ms)
  BY <1>1, <1>2, <1>3, <1>9, Selects
<1>11. List(plan, ms)
  BY <1>10 DEF Selected
<1>12. SomeOf(ms, after)
  BY <1>4, <1>11, AppliesSome
<1>13. PICK QS : QS = {"before_tool"} \cup {"after_tool"}
  OBVIOUS
<1>14. PhaseDone(z, y, y2, chosen, a, As, QS, after, "after_tool")
  BY <1>1, <1>5, <1>7, <1>9, <1>10, <1>12, <1>13, PhaseApplied
<1>15. /\ Stage(plan, draws, z, y2, a, As, QS) /\ Rest(y, y2)
       /\ \A k \in DOMAIN after : after[k].phase = "after_tool"
  BY <1>14 DEF PhaseDone
<1>16. /\ after \in Seq(CompiledFaultRules) /\ OneFails(after)
       /\ before \in Seq(CompiledFaultRules) /\ ~Loses(before)
       /\ \A k \in DOMAIN before : failure_code(before[k]) = ""
  <2>1. after \in Seq(CompiledFaultRules) /\ OneFails(after)
    BY <1>12 DEF SomeOf, List
  <2>2. QED
    BY <2>1, BeforeClear
<1>17. Both(before, after, As)
  BY <1>7, <1>16, SeqsJoined
<1>18. Replaces(after, "read", code)
  BY <1>6, <1>16, ReplacesCode
<1>19. code \in Codes /\ code # "newly_applied"
  <2>1. code = "read" \/ code \in FAILURES
    BY <1>18, FailureCodes DEF Replaces
  <2>2. QED
    BY <2>1, CodesAre
<1>20. Clear(As, code)
  <2>1. ~Loses(As)
    <3> SUFFICES ASSUME NEW j \in DOMAIN As, As[j].phase = "after_commit" PROVE FALSE
      BY DEF Loses
    <3>1. CASE \E k \in DOMAIN before : As[j] = before[k]
      BY <1>16, <3>1 DEF Loses
    <3>2. CASE \E k \in DOMAIN after : As[j] = after[k]
      BY <1>15, <3>2
    <3>3. QED
      BY <1>17, <3>1, <3>2 DEF Both
  <2>2. \A k \in DOMAIN after : failure_code(after[k]) \in {"", code}
    BY <1>18 DEF Replaces
  <2>3. \A j \in DOMAIN As : failure_code(As[j]) \in {"", code}
    BY <1>16, <1>17, <2>2 DEF Both
  <2>4. ASSUME code \in FAILURES PROVE \E j \in DOMAIN As : failure_code(As[j]) = code
    <3>1. code # "read"
      BY <2>4, CodesAre
    <3>2. \E k \in DOMAIN after : failure_code(after[k]) = code
      BY <1>18, <3>1 DEF Replaces
    <3>3. QED
      BY <1>17, <3>2 DEF Both
  <2>5. QED
    BY <2>1, <2>3, <2>4 DEF Clear
<1>21. y2.effects = z.effects /\ y2.markers = z.markers
  BY <1>1, <1>15 DEF Rest
<1>22. QED
  BY <1>8, <1>15, <1>19, <1>20, <1>21, AnswersIdle

-----------------------------------------------------------------------------
(* An attempt that changes the company.                                    *)

\* The effect is added to the ledger, and nothing else.
Affected(y, c, a) ==
  /\ Same(y, c) /\ c.events = y.events /\ c.markers = y.markers /\ c.approvals = y.approvals
  /\ c.effects = y.effects \cup {Effect(a)}

\* A mutation adds its own effect to the ledger and changes no other row.
LEMMA EffectAdded ==
  ASSUME NEW y \in Databases, NEW a \in Attempts, a.q \in Mutations, NEW c, c = Applied(y, a)
  PROVE  Affected(y, c, a)
<1>1. Effect(a) \in Effects
  BY DEF Effect, Effects, Attempts
<1>2. PICK fs : fs = y.effects \cup {Effect(a)}
  OBVIOUS
<1>3. fs \in SUBSET Effects
  BY <1>1, <1>2 DEF Databases
<1>4. c = [y EXCEPT !.effects = fs]
  BY <1>2 DEF Applied, Effect
<1>5. c \in Databases /\ c.effects = fs
  BY <1>3, <1>4 DEF Databases
<1>6. /\ c.events = y.events /\ c.markers = y.markers /\ c.approvals = y.approvals
      /\ c.status = y.status /\ c.turns = y.turns /\ c.pending = y.pending
      /\ c.boundary = y.boundary
  BY <1>4 DEF Databases
<1>7. QED
  BY <1>2, <1>5, <1>6 DEF Affected, Same

\* The effect is the attempt's, and the only one of its request.
LEMMA HasIt ==
  ASSUME NEW p, NEW w, NEW z, NEW o, NEW a, Underway(p, z, o, a), Base(p, w, z), Starts(z, a),
         ~Established(z, a.q), o.effects = z.effects \cup {Effect(a)}
  PROVE  HasEffect(o, a.at) /\ EffectsOf(z, o, a) /\ Effect(a) \in o.effects
<1>1. o.events[a.at].call = a.call /\ o.events[a.at].attempt = a.attempt
  BY AskedGrows
<1>2. Effect(a).q = a.q /\ Effect(a).call = a.call /\ Effect(a).attempt = a.attempt
  BY DEF Effect
<1>3. HasEffect(o, a.at)
  BY <1>1, <1>2 DEF HasEffect
<1>4. \A f \in z.effects : f.q # a.q
  BY DEF Established
<1>5. \A f, g \in z.effects : f.q = g.q => f = g
  <2>1. Effected(z)
    BY DEF Base
  <2>2. QED
    BY <2>1 DEF Effected
<1>6. \A f, g \in o.effects : f.q = g.q => f = g
  BY <1>2, <1>4, <1>5
<1>7. \A f \in o.effects : f \in z.effects \/ f = Effect(a)
  OBVIOUS
<1>8. z.effects \in SUBSET o.effects
  OBVIOUS
<1>9. EffectsOf(z, o, a)
  BY <1>2, <1>6, <1>7, <1>8 DEF EffectsOf
<1>10. QED
  BY <1>3, <1>9

\* It is answered in the same transaction.
LEMMA Telling ==
  ASSUME NEW z, NEW y, NEW a, IsPlan(plan), Base(plan, draws, z), Starts(z, a),
         NEW before, Ready(z, y, a, before), replaced(before, "") = "",
         a.q \in Mutations, ~Established(z, a.q), NEW c, Affected(y, c, a),
         NEW durable \in BOOLEAN, select_faults(c, a, "after_commit", durable) = <<>>,
         NEW y2, y2 = record_selection(c, a, "after_commit", <<>>, durable),
         NEW t, t = answer(y2, a, "newly_applied", before),
         NEW o, o = append_state_evidence(t, a, Max(Positions(t, "tool.result", a.at)))
  PROVE  Kept(plan, draws, z, o, a)
<1>1. Stage(plan, draws, z, y, a, before, {"before_tool"}) /\ Rest(z, y)
  BY DEF Ready
<1>2. Stage(plan, draws, z, c, a, before, {"before_tool"})
  <2>1. Same(y, c) /\ c.events = y.events
    BY DEF Affected
  <2>2. QED
    BY <1>1, <2>1, StageSame
<1>3. PICK QS : QS = {"before_tool"} \cup {"after_commit"}
  OBVIOUS
<1>4. Stage(plan, draws, z, y2, a, before, QS) /\ Rest(c, y2)
  <2>1. "after_commit" \notin {"before_tool"}
    OBVIOUS
  <2>2. PICK ms : ms = select_faults(c, a, "after_commit", durable)
    OBVIOUS
  <2>3. ms = <<>>
    BY <2>2
  <2>4. y2 = record_selection(c, a, "after_commit", ms, durable)
    BY <2>3
  <2>5. Selected(z, c, y2, a, before, {"before_tool"}, "after_commit", ms)
    BY <1>2, <2>1, <2>2, <2>4, Selects
  <2>6. Stage(plan, draws, z, y2, a, before, QS) /\ MatchedNow(c, y2, a, ms)
    BY <1>3, <2>5 DEF Selected
  <2>7. QED
    BY <2>6 DEF MatchedNow
<1>5. y2 \in Databases /\ List(plan, before)
  BY <1>4 DEF Stage, Same
<1>6. PICK k : k = Len(y2.events) + 1
  OBVIOUS
<1>7. k \in Nat /\ DOMAIN y2.events = 1 .. Len(y2.events) /\ Len(y2.events) \in Nat
  <2>1. DOMAIN y2.events = 1 .. Len(y2.events) /\ Len(y2.events) \in Nat
    BY <1>5, Evidence
  <2>2. QED
    BY ONLY <1>6, <2>1
<1>8. Closed(plan, draws, z, t, a, before, before, "newly_applied", k) /\ AnsweredNow(y2, t, a)
  BY <1>4, <1>5, <1>6, Answering, CodesAre
<1>9. /\ Results(t, a.at) = {k} /\ t \in Databases /\ k \in DOMAIN t.events
  BY <1>8 DEF Closed, Same
<1>10. DOMAIN t.events = 1 .. Len(t.events) /\ Len(t.events) \in Nat
  BY <1>9, Evidence
<1>11. Max(Positions(t, "tool.result", a.at)) = k
  <2>1. {k} \in SUBSET (1 .. k) /\ {k} # {}
    <3>1. k \in 1 .. k
      BY ONLY <1>9, <1>10
    <3>2. QED
      BY <3>1
  <2>2. Max({k}) \in {k}
    BY <1>7, <2>1, Extremes
  <2>3. QED
    BY <1>9, <2>2 DEF Results
<1>12. o = append_state_evidence(t, a, k) /\ k \in 1 .. Len(t.events)
  BY <1>9, <1>10, <1>11
<1>13. Closed(plan, draws, z, o, a, before, before, "newly_applied", k) /\ StateNow(t, o, a, k)
  BY <1>8, <1>12, ClosedState
<1>14. Underway(plan, z, o, a)
  BY <1>13 DEF Closed, Underway
<1>15. o.effects = z.effects \cup {Effect(a)} /\ o.markers = z.markers
  <2>1. Rest(y2, t) /\ Rest(t, o)
    BY <1>8, <1>13 DEF AnsweredNow, StateNow
  <2>2. QED
    BY <1>1, <1>4, <2>1 DEF Rest, Affected
<1>16. HasEffect(o, a.at) /\ EffectsOf(z, o, a) /\ Effect(a) \in o.effects
  BY <1>14, <1>15, HasIt
<1>17. Tells(before, "newly_applied", o, a)
  <2>1. \A j \in DOMAIN before : failure_code(before[j]) = ""
    BY BeforeClear
  <2>2. ~Loses(before)
    BY BeforeClear
  <2>3. "newly_applied" \notin FAILURES
    BY CodesAre
  <2>4. QED
    BY <1>16, <2>1, <2>2, <2>3 DEF Tells
<1>18. Fresh(z, a)
  BY DEF Starts
<1>19. Base(plan, draws, o)
  BY <1>13, <1>15, <1>16, <1>17, <1>18, Keeps
<1>20. PICK s : s = Len(o.events)
  OBVIOUS
<1>21. \A i \in DOMAIN o.events :
         i = s <=> k < i /\ o.events[i].type = "state.evidence_recorded" /\ o.events[i].cause = k
  <2>1. /\ Len(o.events) = Len(t.events) + 1
        /\ o.events[s].type = "state.evidence_recorded" /\ o.events[s].cause = k
        /\ \A i \in DOMAIN t.events : o.events[i] = t.events[i]
    BY <1>13, <1>20 DEF StateNow
  <2>2. s = Len(t.events) + 1 /\ k < s
    BY ONLY <1>10, <1>12, <1>20, <2>1
  <2>3. DOMAIN o.events = 1 .. s
    <3>1. o \in Databases
      BY <1>14 DEF Underway, Same
    <3>2. QED
      BY <1>20, <3>1, Evidence
  <2>4. ASSUME NEW i \in DOMAIN o.events, i # s, k < i
        PROVE  o.events[i].type # "state.evidence_recorded"
    <3>1. i \in DOMAIN t.events
      BY ONLY <1>10, <2>2, <2>3, <2>4
    <3>2. i \notin DOMAIN y2.events
      BY ONLY <1>6, <1>7, <2>4
    <3>3. t.events[i].type # "state.evidence_recorded"
      BY <1>8, <3>1, <3>2 DEF AnsweredNow
    <3>4. QED
      BY <2>1, <3>1, <3>3
  <2>5. QED
    BY <2>1, <2>2, <2>4
<1>22. s \in DOMAIN o.events
  <2>1. o \in Databases
    BY <1>14 DEF Underway, Same
  <2>2. Len(o.events) = Len(t.events) + 1
    BY <1>13 DEF StateNow
  <2>3. DOMAIN o.events = 1 .. Len(o.events)
    BY <2>1, Evidence
  <2>4. QED
    BY ONLY <1>10, <1>20, <2>2, <2>3
<1>23. Answers(o, a, k, "newly_applied")
  <2>1. k \in DOMAIN o.events /\ Results(o, a.at) = {k} /\ o.events[k].info = "newly_applied"
    BY <1>13 DEF Closed
  <2>2. QED
    BY <1>16, <1>21, <1>22, <2>1, CodesAre DEF Answers
<1>24. QED
  BY <1>7, <1>14, <1>15, <1>19, <1>23, CodesAre DEF Kept

\* An acknowledgement is owed: request, effect and marker are there.
Owes(p, w, z, o, a, ms) ==
  /\ Base(p, w, o) /\ Underway(p, z, o, a) /\ Results(o, a.at) = {} /\ Half(p, w, o)
  /\ ms = Sel(p, w, o, a, "after_commit") /\ ms # <<>>

\* The acknowledgement's marker.
MarkerOf(a, r, state) ==
  [call |-> a.call, attempt |-> a.attempt, ordinal |-> a.ordinal, at |-> a.at, rule |-> r.id,
   state |-> state]

\* Only a row is added.
Marks(x, o, m) ==
  /\ Same(x, o) /\ o.events = x.events /\ o.effects = x.effects /\ o.approvals = x.approvals
  /\ o.markers = x.markers \cup {m}

\* The marker is created beside the rows there are.
LEMMA Marking ==
  ASSUME NEW x \in Databases, NEW a \in Attempts, NEW r \in CompiledFaultRules,
         NEW m, m = MarkerOf(a, r, Len(x.events)),
         NEW o, o = create_post_commit_acknowledgement(x, a, r)
  PROVE  Marks(x, o, m)
<1>1. Len(x.events) \in Nat
  BY Evidence
<1>2. r.id \in STRING
  BY DEF CompiledFaultRules
<1>3. m \in Markers
  BY <1>1, <1>2 DEF MarkerOf, Markers, Attempts
<1>4. PICK ks : ks = x.markers \cup {m}
  OBVIOUS
<1>5. ks \in SUBSET Markers
  BY <1>3, <1>4 DEF Databases
<1>6. o = [x EXCEPT !.markers = ks]
  BY <1>4 DEF create_post_commit_acknowledgement, MarkerOf
<1>7. o \in Databases /\ o.markers = ks
  BY <1>5, <1>6 DEF Databases
<1>8. /\ o.events = x.events /\ o.effects = x.effects /\ o.approvals = x.approvals
      /\ o.status = x.status /\ o.turns = x.turns /\ o.pending = x.pending
      /\ o.boundary = x.boundary
  BY <1>6 DEF Databases
<1>9. QED
  BY <1>4, <1>7, <1>8 DEF Marks, Same

\* Evidence is what it was.
LEMMA MarksEvidence ==
  ASSUME NEW p, NEW w, NEW z, NEW x, NEW o, NEW a, NEW m, NEW As, Marks(x, o, m), Underway(p, z, x, a)
  PROVE  /\ Underway(p, z, o, a) /\ KeptEvidence(x, o, a)
         /\ Chosen(p, w, x, a.at) => Chosen(p, w, o, a.at)
         /\ HasApplied(x, a, As) => HasApplied(o, a, As)
<1>1. Same(x, o) /\ o.events = x.events
  BY DEF Marks
<1>2. \A type : Positions(o, type, a.at) = Positions(x, type, a.at)
  BY <1>1 DEF Positions
<1>3. KeptEvidence(x, o, a)
  BY <1>1, <1>2 DEF KeptEvidence, Matches, Applies, Results, Observed
<1>4. Underway(p, z, o, a)
  <2>1. /\ z \in Databases /\ Same(z, x) /\ Logged(x) /\ Longer(z, x, a) /\ Named(p, x)
        /\ a \in Attempts /\ Asks(x, a)
    BY DEF Underway
  <2>2. Same(z, o)
    BY <1>1, <2>1 DEF Same
  <2>3. Logged(o)
    BY <1>1, <2>1 DEF Logged
  <2>4. Longer(z, o, a)
    BY <1>1, <2>1 DEF Longer
  <2>5. Named(p, o)
    BY <1>1, <2>1 DEF Named
  <2>6. Asks(o, a)
    BY <1>1, <2>1 DEF Asks, Asked
  <2>7. QED
    BY <2>1, <2>2, <2>3, <2>4, <2>5, <2>6 DEF Underway
<1>5. Chosen(p, w, x, a.at) => Chosen(p, w, o, a.at)
  BY <1>1, <1>3 DEF KeptEvidence, Chosen
<1>6. HasApplied(x, a, As) => HasApplied(o, a, As)
  BY <1>1, <1>3 DEF KeptEvidence, HasApplied
<1>7. QED
  BY <1>3, <1>4, <1>5, <1>6

\* The rules that take the acknowledgement, and the first of them.
FirstOf(z, a, ms, r) == ms = Sel(plan, draws, z, a, "after_commit") /\ ms # <<>> /\ r = ms[1]

\* The rule whose acknowledgement is owed is a rule of the plan that matched.
LEMMA FirstIs ==
  ASSUME NEW z, NEW a, NEW ms, NEW r, IsPlan(plan), FirstOf(z, a, ms, r)
  PROVE  /\ r \in CompiledFaultRules /\ Wants(draws, z, r, a, "after_commit")
         /\ \E v \in DOMAIN plan : plan[v] = r
<1>1. ms = Sel(plan, draws, z, a, "after_commit") /\ ms # <<>> /\ r = ms[1]
  BY DEF FirstOf
<1>2. List(plan, ms) /\ \A k \in DOMAIN ms : Wants(draws, z, ms[k], a, "after_commit")
  BY <1>1, Selecting
<1>3. ms \in Seq(CompiledFaultRules)
  BY <1>2 DEF List
<1>4. 1 \in DOMAIN ms /\ ms[1] \in CompiledFaultRules
  BY <1>1, <1>3
<1>5. QED
  BY <1>1, <1>2, <1>4 DEF List

\* The rules of the before_tool phase, none of which fails the attempt.
Passed(before) ==
  /\ before \in Seq(CompiledFaultRules) /\ List(plan, before) /\ ~Loses(before)
  /\ \A k \in DOMAIN before : failure_code(before[k]) = ""

\* What the transaction of an owed acknowledgement has added.
Owed(z, c, x, o, a, m, r, before) ==
  /\ Stage(plan, draws, z, c, a, before, {"before_tool"})
  /\ Underway(plan, z, x, a) /\ StateNow(c, x, a, a.at)
  /\ m = MarkerOf(a, r, Len(x.events)) /\ Marks(x, o, m)
  /\ c.effects = z.effects \cup {Effect(a)} /\ c.approvals = z.approvals /\ c.markers = z.markers

\* The evidence it has added.
OwedEvidence(z, c, o, a, before) ==
  /\ Underway(plan, z, o, a) /\ Chosen(plan, draws, o, a.at) /\ HasApplied(o, a, before)
  /\ List(plan, before) /\ \A k \in DOMAIN before : ~Capped(z, before[k], a)
  /\ Results(o, a.at) = {} /\ Observed(o, a.at) = {} /\ InPhases(plan, o, a, {"before_tool"})

\* What an owed attempt adds to the evidence.
LEMMA OwedAdds ==
  ASSUME NEW z, NEW c, NEW x, NEW o, NEW a, NEW m, NEW r, NEW before,
         Owed(z, c, x, o, a, m, r, before)
  PROVE  OwedEvidence(z, c, o, a, before)
<1>1. /\ Stage(plan, draws, z, c, a, before, {"before_tool"})
      /\ Underway(plan, z, x, a) /\ StateNow(c, x, a, a.at) /\ Marks(x, o, m)
  BY DEF Owed
<1>2. a.at \in DOMAIN c.events
  BY <1>1 DEF Stage, Asks, Asked
<1>3. /\ Chosen(plan, draws, c, a.at) /\ HasApplied(c, a, before) /\ List(plan, before)
      /\ Results(c, a.at) = {} /\ Observed(c, a.at) = {} /\ InPhases(plan, c, a, {"before_tool"})
      /\ \A k \in DOMAIN before : ~Capped(z, before[k], a)
  BY <1>1 DEF Stage
<1>4. Chosen(plan, draws, x, a.at) /\ HasApplied(x, a, before) /\ KeptEvidence(c, x, a)
  BY <1>1, <1>2, <1>3, StateChosen
<1>5. /\ Underway(plan, z, o, a) /\ KeptEvidence(x, o, a)
      /\ Chosen(plan, draws, o, a.at) /\ HasApplied(o, a, before)
  BY <1>1, <1>4, MarksEvidence
<1>6. /\ Results(o, a.at) = {} /\ Observed(o, a.at) = {}
      /\ Matches(o, a.at) = Matches(c, a.at)
      /\ \A i \in Matches(c, a.at) : o.events[i] = c.events[i]
  BY <1>3, <1>4, <1>5 DEF KeptEvidence, Matches
<1>7. InPhases(plan, o, a, {"before_tool"})
  BY <1>3, <1>6 DEF InPhases
<1>8. QED
  BY <1>3, <1>5, <1>6, <1>7 DEF OwedEvidence

\* The rows it has added.
OwedRows(z, o, a, m, r) ==
  /\ o.effects = z.effects \cup {Effect(a)} /\ o.approvals = z.approvals
  /\ o.markers = z.markers \cup {m}
  /\ o.pending = z.pending /\ o.boundary = z.boundary
  /\ m.call = a.call /\ m.attempt = a.attempt /\ m.ordinal = a.ordinal /\ m.at = a.at
  /\ m.rule = r.id
  /\ m.state = Len(o.events) /\ a.at < m.state /\ m.state \in DOMAIN o.events
  /\ o.events[m.state].type = "state.evidence_recorded" /\ o.events[m.state].cause = a.at

\* What an owed attempt adds to the markers: one, for its own request and its last event.
LEMMA OwedMarks ==
  ASSUME NEW z, NEW c, NEW x, NEW o, NEW a, NEW m, NEW r, NEW before,
         Owed(z, c, x, o, a, m, r, before)
  PROVE  OwedRows(z, o, a, m, r)
<1>1. /\ Stage(plan, draws, z, c, a, before, {"before_tool"})
      /\ Underway(plan, z, x, a) /\ StateNow(c, x, a, a.at) /\ Marks(x, o, m)
      /\ m = MarkerOf(a, r, Len(x.events))
  BY DEF Owed
<1>2. c \in Databases /\ a.at \in DOMAIN c.events /\ x \in Databases
  BY <1>1 DEF Stage, Asks, Asked, Same, Underway
<1>3. DOMAIN c.events = 1 .. Len(c.events) /\ Len(c.events) \in Nat
      /\ DOMAIN x.events = 1 .. Len(x.events)
  BY <1>2, Evidence
<1>4. /\ m.call = a.call /\ m.attempt = a.attempt /\ m.ordinal = a.ordinal /\ m.at = a.at
      /\ m.rule = r.id /\ m.state = Len(x.events)
  BY <1>1 DEF MarkerOf
<1>5. /\ Len(x.events) = Len(c.events) + 1
      /\ x.events[Len(x.events)].type = "state.evidence_recorded"
      /\ x.events[Len(x.events)].cause = a.at
  BY <1>1 DEF StateNow
<1>6. a.at < Len(x.events) /\ Len(x.events) \in 1 .. Len(x.events)
  BY ONLY <1>2, <1>3, <1>5
<1>7. /\ Same(x, o) /\ o.events = x.events /\ o.effects = x.effects /\ o.approvals = x.approvals
      /\ o.markers = x.markers \cup {m}
  BY <1>1 DEF Marks
<1>8. Rest(c, x)
  BY <1>1 DEF StateNow
<1>9. o.pending = z.pending /\ o.boundary = z.boundary
  <2>1. Same(z, x)
    BY <1>1 DEF Underway
  <2>2. QED
    BY <1>7, <2>1 DEF Same
<1>10. c.effects = z.effects \cup {Effect(a)} /\ c.approvals = z.approvals /\ c.markers = z.markers
  BY DEF Owed
<1>11. /\ o.effects = z.effects \cup {Effect(a)} /\ o.approvals = z.approvals
       /\ o.markers = z.markers \cup {m}
  BY <1>7, <1>8, <1>10 DEF Rest
<1>12. /\ m.state = Len(o.events) /\ a.at < m.state /\ m.state \in DOMAIN o.events
       /\ o.events[m.state].type = "state.evidence_recorded" /\ o.events[m.state].cause = a.at
  BY <1>3, <1>4, <1>5, <1>6, <1>7
<1>13. QED
  BY <1>4, <1>9, <1>11, <1>12 DEF OwedRows

\* The new marker is a valid row beside the others.
LEMMA OwedMarked ==
  ASSUME NEW z, NEW o, NEW a, NEW m, NEW r, Underway(plan, z, o, a), OwedRows(z, o, a, m, r),
         Marked(plan, z), \A n \in z.markers : n.at # a.at,
         NEW v \in DOMAIN plan, plan[v] = r
  PROVE  Marked(plan, o)
<1>1. /\ o.markers = z.markers \cup {m}
      /\ m.call = a.call /\ m.attempt = a.attempt /\ m.at = a.at /\ m.rule = r.id
      /\ m.state \in DOMAIN o.events
  BY DEF OwedRows
<1>2. a.at \in Asked(o) /\ o.events[a.at].call = a.call /\ o.events[a.at].attempt = a.attempt
  BY AskedGrows
<1>3. \A i \in DOMAIN z.events : i \in DOMAIN o.events /\ o.events[i] = z.events[i]
  BY AskedGrows
<1>4. \A i \in Asked(z) : i \in Asked(o) /\ o.events[i] = z.events[i]
  BY <1>3 DEF Asked
<1>5. ASSUME NEW n \in o.markers
      PROVE  /\ n.at \in Asked(o) /\ n.state \in DOMAIN o.events
             /\ o.events[n.at].call = n.call /\ o.events[n.at].attempt = n.attempt
             /\ \E u \in DOMAIN plan : plan[u].id = n.rule
  <2>1. CASE n = m
    BY <1>1, <1>2, <2>1
  <2>2. CASE n \in z.markers
    BY <1>3, <1>4, <2>2 DEF Marked
  <2>3. QED
    BY <1>1, <2>1, <2>2
<1>6. ASSUME NEW n \in o.markers, NEW l \in o.markers, n.at = l.at
      PROVE  n = l
  <2>1. CASE n \in z.markers /\ l \in z.markers
    BY <1>6, <2>1 DEF Marked
  <2>2. CASE n = m \/ l = m
    BY <1>1, <1>6, <2>2
  <2>3. QED
    BY <1>1, <2>1, <2>2
<1>7. QED
  BY <1>5, <1>6 DEF Marked

\* An after_commit rule takes the acknowledgement of a new effect.
LEMMA Owing ==
  ASSUME NEW z, NEW a, IsPlan(plan), Base(plan, draws, z), Starts(z, a),
         NEW before, Passed(before), ~Established(z, a.q), gate(z, a.q) = "pass",
         NEW ms, NEW r, FirstOf(z, a, ms, r),
         NEW c, NEW x, NEW o, NEW m, Owed(z, c, x, o, a, m, r, before)
  PROVE  Owes(plan, draws, z, o, a, ms)
<1>1. OwedEvidence(z, c, o, a, before) /\ OwedRows(z, o, a, m, r)
  BY OwedAdds, OwedMarks
<1>2. /\ Underway(plan, z, o, a) /\ Chosen(plan, draws, o, a.at) /\ HasApplied(o, a, before)
      /\ List(plan, before) /\ \A k \in DOMAIN before : ~Capped(z, before[k], a)
      /\ Results(o, a.at) = {} /\ Observed(o, a.at) = {} /\ InPhases(plan, o, a, {"before_tool"})
  BY <1>1 DEF OwedEvidence
<1>3. /\ o.effects = z.effects \cup {Effect(a)} /\ o.approvals = z.approvals
      /\ o.markers = z.markers \cup {m}
      /\ o.pending = z.pending /\ o.boundary = z.boundary
      /\ m.call = a.call /\ m.attempt = a.attempt /\ m.ordinal = a.ordinal /\ m.at = a.at
      /\ m.rule = r.id
      /\ m.state = Len(o.events) /\ a.at < m.state /\ m.state \in DOMAIN o.events
      /\ o.events[m.state].type = "state.evidence_recorded" /\ o.events[m.state].cause = a.at
  BY <1>1 DEF OwedRows
<1>4. Wants(draws, z, r, a, "after_commit") /\ \E v \in DOMAIN plan : plan[v] = r
  BY FirstIs
<1>5. HasEffect(o, a.at) /\ EffectsOf(z, o, a) /\ Effect(a) \in o.effects
  BY <1>2, <1>3, HasIt
<1>6. MarkersOf(z, o, a)
  BY <1>3 DEF MarkersOf
<1>7. Marked(plan, z) /\ z \in Databases
  BY DEF Base
<1>8. \A n \in z.markers : n.at # a.at /\ ~(n.call = a.call /\ n.attempt = a.attempt)
  BY DEF Starts
<1>9. Marked(plan, o)
  BY <1>1, <1>2, <1>4, <1>7, <1>8, OwedMarked
<1>10. Fresh(z, a) /\ a = Current(z) /\ a.ordinal = a.call
  BY DEF Starts
<1>11. Base(plan, draws, o)
  BY <1>2, <1>5, <1>6, <1>9, <1>10, BaseKept
<1>12. ms = Sel(plan, draws, z, a, "after_commit") /\ ms # <<>> /\ r = ms[1]
  BY DEF FirstOf
<1>13. Sel(plan, draws, o, a, "after_commit") = ms
  <2>1. o \in Databases /\ Longer(z, o, a)
    BY <1>2 DEF Underway, Same
  <2>2. Sel(plan, draws, o, a, "after_commit") = Sel(plan, draws, z, a, "after_commit")
    BY <1>7, <2>1, SelStays
  <2>3. QED
    BY <1>12, <2>2
<1>14. /\ Current(o) = a /\ a.call = o.pending[1].call /\ a.attempt = o.pending[1].attempt
       /\ a.q = o.pending[1].q /\ a.at = o.boundary + 1
  <2>1. Current(o) = Current(z)
    BY <1>3 DEF Current
  <2>2. QED
    BY <1>3, <1>10, <2>1 DEF Current
<1>15. \A n \in Marker(o) : n = m
  <2>1. \A n \in Marker(o) : n \in o.markers /\ n.call = a.call /\ n.attempt = a.attempt
    BY <1>14 DEF Marker
  <2>2. QED
    BY <1>3, <1>8, <2>1
<1>16. m \in Marker(o)
  BY <1>3, <1>14 DEF Marker
<1>17. Valid(plan, draws, o, m)
  <2>1. \E v \in DOMAIN plan :
          /\ plan[v].id = m.rule /\ plan[v].phase = "after_commit"
          /\ plan[v].tool = ToolOf[o.pending[1].q] /\ plan[v].ordinal \in {0, m.call}
          /\ o.pending[1].q \in plan[v].args /\ Draw(draws, plan[v], m.call, m.attempt)
    BY <1>3, <1>4, <1>10, <1>14 DEF Wants
  <2>2. [q |-> o.pending[1].q, call |-> m.call, attempt |-> m.attempt] \in o.effects
    BY <1>3, <1>5, <1>14 DEF Effect
  <2>3. gate(o, o.pending[1].q) = "pass"
    BY <1>3, <1>14 DEF gate
  <2>4. m.ordinal = m.call /\ m.at = o.boundary + 1 /\ m.at < m.state
    BY <1>3, <1>10, <1>14
  <2>5. o.events[m.state].type = "state.evidence_recorded" /\ o.events[m.state].cause = m.at
    BY <1>3
  <2>6. QED
    BY <2>1, <2>2, <2>3, <2>4, <2>5 DEF Valid
<1>18. Waits(plan, draws, o, m)
  <2>1. m.state = Len(o.events) /\ Observed(o, m.at) = {}
    BY <1>2, <1>3
  <2>2. \A i \in Matches(o, m.at) : \E v \in DOMAIN plan :
          plan[v].id = o.events[i].rule /\ plan[v].phase = "before_tool"
    BY <1>2, <1>3 DEF InPhases
  <2>3. ASSUME NEW v \in Used(plan, o, a.at) PROVE failure_code(plan[v]) = ""
    <3>1. PICK i \in Applies(o, a.at) : o.events[i].rule = plan[v].id
      BY DEF Used
    <3>2. PICK k \in DOMAIN before : before[k].id = plan[v].id
      BY <1>2, <3>1 DEF HasApplied
    <3>3. PICK u \in DOMAIN plan : plan[u] = before[k]
      BY <1>2 DEF List
    <3>4. u = v
      BY <3>2, <3>3 DEF IsPlan, Used
    <3>5. failure_code(before[k]) = ""
      BY DEF Passed
    <3>6. QED
      BY <3>3, <3>4, <3>5
  <2>4. Sel(plan, draws, o, Current(o), "after_commit") = ms /\ ms[1].id = m.rule /\ ms # <<>>
    BY <1>3, <1>12, <1>13, <1>14
  <2>5. \A v \in Used(plan, o, m.at) : failure_code(plan[v]) = ""
    BY <1>3, <2>3
  <2>6. QED
    BY <2>1, <2>2, <2>4, <2>5 DEF Waits
<1>19. Half(plan, draws, o)
  BY <1>15, <1>16, <1>17, <1>18 DEF Half
<1>20. QED
  BY <1>2, <1>11, <1>12, <1>13, <1>19 DEF Owes

\* An outcome of an attempt: an answer, or an effect whose acknowledgement is owed.
Fate(z, a, durable, u) ==
  \/ u.owed = <<>> /\ Kept(plan, draws, z, u.db, a)
  \/ durable /\ Owes(plan, draws, z, u.db, a, u.owed)

\* A simple outcome.
LEMMA OutcomeKept ==
  ASSUME NEW z, NEW a, NEW durable, NEW d, Kept(plan, draws, z, d, a), NEW u, u = Outcome(d)
  PROVE  Fate(z, a, durable, u)
<1>1. u.owed = <<>> /\ u.db = d
  BY DEF Outcome
<1>2. QED
  BY <1>1 DEF Fate

\* The parts of an outcome.
LEMMA OutcomeParts ==
  ASSUME NEW o, NEW ms, NEW u, u = [db |-> o, owed |-> ms]
  PROVE  u.db = o /\ u.owed = ms
OBVIOUS

\* The engine's selection.
IsSelected(z, a, phase, engine, ms) == engine /\ ms = Sel(plan, draws, z, a, phase)

\* What the engine selects, in terms of the evidence before the attempt.
LEMMA SelectsAre ==
  ASSUME NEW z \in Databases, NEW y \in Databases, NEW a, Longer(z, y, a), NEW phase,
         NEW engine \in BOOLEAN, NEW ms, ms = select_faults(y, a, phase, engine), ms # <<>>
  PROVE  IsSelected(z, a, phase, engine, ms)
<1>1. CASE ~engine
  BY <1>1 DEF select_faults
<1>2. CASE engine
  <2>1. ms = select(y, a, phase)
    BY <1>2 DEF select_faults
  <2>2. ms = Sel(plan, draws, y, a, phase)
    BY <2>1, SelectIs
  <2>3. Sel(plan, draws, y, a, phase) = Sel(plan, draws, z, a, phase)
    BY SelStays
  <2>4. QED
    BY <1>2, <2>2, <2>3 DEF IsSelected
<1>3. QED
  BY <1>1, <1>2

\* A new effect.
LEMMA Mutating ==
  ASSUME NEW z, NEW y, NEW a, IsPlan(plan), Base(plan, draws, z), Starts(z, a),
         NEW before, Ready(z, y, a, before), replaced(before, "") = "",
         a.q \in Mutations, ~Established(z, a.q), gate(z, a.q) = "pass",
         NEW durable \in BOOLEAN, NEW u, u = Mutate(y, a, before, durable)
  PROVE  Fate(z, a, durable, u)
<1>1. Stage(plan, draws, z, y, a, before, {"before_tool"}) /\ Rest(z, y)
  BY DEF Ready
<1>2. y \in Databases /\ a \in Attempts
  BY <1>1 DEF Stage, Same
<1>3. PICK c : c = Applied(y, a)
  OBVIOUS
<1>4. Affected(y, c, a)
  BY <1>2, <1>3, EffectAdded
<1>5. PICK ms : ms = select_faults(c, a, "after_commit", durable)
  OBVIOUS
<1>6. Stage(plan, draws, z, c, a, before, {"before_tool"})
  <2>1. Same(y, c) /\ c.events = y.events
    BY <1>4 DEF Affected
  <2>2. QED
    BY <1>1, <2>1, StageSame
<1>7. ASSUME ms # <<>> PROVE IsSelected(z, a, "after_commit", durable, ms)
  <2>1. z \in Databases /\ c \in Databases /\ Longer(z, c, a)
    BY <1>6 DEF Stage, Same
  <2>2. QED
    BY <1>5, <1>7, <2>1, SelectsAre
<1>8. CASE ms = <<>>
  <2>1. PICK y2 : y2 = record_selection(c, a, "after_commit", <<>>, durable)
    OBVIOUS
  <2>2. PICK t : t = answer(y2, a, "newly_applied", before)
    OBVIOUS
  <2>3. PICK o : o = append_state_evidence(t, a, Max(Positions(t, "tool.result", a.at)))
    OBVIOUS
  <2>4. u = Outcome(o)
    BY <1>3, <1>5, <1>8, <2>1, <2>2, <2>3 DEF Mutate
  <2>5. select_faults(c, a, "after_commit", durable) = <<>>
    BY <1>5, <1>8
  <2>6. Kept(plan, draws, z, o, a)
    BY <1>4, <2>1, <2>2, <2>3, <2>5, Telling
  <2>7. QED
    BY <2>4, <2>6, OutcomeKept
<1>9. CASE ms # <<>>
  <2>1. durable /\ ms = Sel(plan, draws, z, a, "after_commit")
    BY <1>7, <1>9 DEF IsSelected
  <2>2. PICK r : r = ms[1]
    OBVIOUS
  <2>3. FirstOf(z, a, ms, r)
    BY <1>9, <2>1, <2>2 DEF FirstOf
  <2>4. PICK x : x = append_state_evidence(c, a, a.at)
    OBVIOUS
  <2>5. PICK o : o = create_post_commit_acknowledgement(x, a, r)
    OBVIOUS
  <2>6. u = [db |-> o, owed |-> ms]
    BY <1>3, <1>5, <1>9, <2>2, <2>4, <2>5 DEF Mutate
  <2>7. Passed(before)
    BY BeforeClear DEF Passed
  <2>8. Underway(plan, z, x, a) /\ StateNow(c, x, a, a.at)
    <3>1. Underway(plan, z, c, a)
      BY <1>6, StageUnderway
    <3>2. c \in Databases /\ a.at \in DOMAIN c.events
      BY <1>6 DEF Stage, Same, Asks, Asked
    <3>3. a.at \in 1 .. Len(c.events)
      BY <3>2, Evidence
    <3>4. QED
      BY <2>4, <3>1, <3>3, StateAdds
  <2>9. PICK m : m = MarkerOf(a, r, Len(x.events))
    OBVIOUS
  <2>10. Marks(x, o, m)
    <3>1. x \in Databases
      BY <2>8 DEF Underway, Same
    <3>2. r \in CompiledFaultRules
      BY <2>3, FirstIs
    <3>3. QED
      BY <1>2, <2>5, <2>9, <3>1, <3>2, Marking
  <2>11. c.effects = z.effects \cup {Effect(a)} /\ c.approvals = z.approvals /\ c.markers = z.markers
    BY <1>1, <1>4 DEF Affected, Rest
  <2>12. Owed(z, c, x, o, a, m, r, before)
    BY <1>6, <2>8, <2>9, <2>10, <2>11 DEF Owed
  <2>13. Owes(plan, draws, z, o, a, ms)
    BY <2>3, <2>7, <2>12, Owing
  <2>14. u.db = o /\ u.owed = ms
    BY ONLY <2>6, OutcomeParts
  <2>15. QED
    BY <2>1, <2>13, <2>14 DEF Fate
<1>10. QED
  BY <1>8, <1>9

\* What an authorised attempt comes to.
LEMMA Handling ==
  ASSUME NEW z, NEW y, NEW a, IsPlan(plan), Base(plan, draws, z), Starts(z, a),
         NEW before, Ready(z, y, a, before), gate(z, a.q) = "pass",
         NEW durable \in BOOLEAN, NEW engine \in BOOLEAN,
         NEW u \in Handled(y, a, before, durable, engine)
  PROVE  Fate(z, a, durable, u)
<1>1. Rest(z, y)
  BY DEF Ready
<1>2. Established(y, a.q) <=> Established(z, a.q)
  BY <1>1 DEF Established, Rest
<1>3. CASE replaced(before, "") # ""
  <2>1. PICK code : code = replaced(before, "")
    OBVIOUS
  <2>2. PICK o : o = answer(y, a, code, before)
    OBVIOUS
  <2>3. u = Outcome(o)
    BY <1>3, <2>1, <2>2 DEF Handled
  <2>4. Kept(plan, draws, z, o, a)
    BY <1>3, <2>1, <2>2, Failing
  <2>5. QED
    BY <2>3, <2>4, OutcomeKept
<1>4. CASE replaced(before, "") = ""
  <2>1. \/ \E code \in {"failed", "infrastructure_error"} : u = Outcome(answer(y, a, code, before))
        \/ a.q \notin Mutations /\ u = Outcome(Read(y, a, before, engine))
        \/ a.q \in Mutations /\ Established(y, a.q) /\ u = Outcome(Replayed(y, a, before))
        \/ a.q \in Mutations /\ ~Established(y, a.q) /\ u = Mutate(y, a, before, durable)
    BY <1>4 DEF Handled
  <2>2. ASSUME NEW code \in {"failed", "infrastructure_error"}, u = Outcome(answer(y, a, code, before))
        PROVE  Fate(z, a, durable, u)
    <3>1. PICK o : o = answer(y, a, code, before)
      OBVIOUS
    <3>2. Kept(plan, draws, z, o, a)
      BY <1>4, <3>1, Failing
    <3>3. QED
      BY <2>2, <3>1, <3>2, OutcomeKept
  <2>3. CASE a.q \notin Mutations /\ u = Outcome(Read(y, a, before, engine))
    <3>1. PICK o : o = Read(y, a, before, engine)
      OBVIOUS
    <3>2. Kept(plan, draws, z, o, a)
      BY <1>4, <2>3, <3>1, Reading
    <3>3. QED
      BY <2>3, <3>1, <3>2, OutcomeKept
  <2>4. CASE u = Outcome(Replayed(y, a, before))
    <3>1. PICK o : o = answer(y, a, "already_applied", before)
      OBVIOUS
    <3>2. Kept(plan, draws, z, o, a)
      BY <1>4, <3>1, Failing
    <3>3. u = Outcome(o)
      BY <2>4, <3>1 DEF Replayed
    <3>4. QED
      BY <3>2, <3>3, OutcomeKept
  <2>5. CASE a.q \in Mutations /\ ~Established(y, a.q) /\ u = Mutate(y, a, before, durable)
    BY <1>2, <1>4, <2>5, Mutating
  <2>6. QED
    BY <2>1, <2>2, <2>3, <2>4, <2>5
<1>5. QED
  BY <1>3, <1>4

\* A physical attempt, in the transaction of its caller.
LEMMA Executing ==
  ASSUME NEW z, IsPlan(plan), Base(plan, draws, z), Frame(z), ~Started(z), z.pending # <<>>,
         NEW durable \in BOOLEAN, NEW engine \in BOOLEAN,
         NEW u \in execute(z, durable, engine), NEW a, a = Current(z)
  PROVE  Fate(z, a, durable, u)
<1>1. Starts(z, a) /\ Attempt(z, Len(z.events) + 1) = a
  BY Starting
<1>2. z \in Databases /\ Logged(z) /\ Named(plan, z)
  BY DEF Base
<1>3. a \in Attempts /\ a.at = Len(z.events) + 1 /\ a.ordinal = a.call /\ a.q = z.pending[1].q
  BY <1>1 DEF Starts, Current
<1>4. PICK y : y = Opened(z)
  OBVIOUS
<1>5. PICK n : n = Len(z.events)
  OBVIOUS
<1>6. PICK e : e = Event("tool.requested", a, "", 0, a.q)
  OBVIOUS
<1>7. y = Add(z, <<Event("tool.requested", a, "", 0, a.q)>>)
  BY <1>1, <1>3, <1>4 DEF Opened
<1>8. Begins(z, y, a, n, e)
  BY <1>2, <1>3, <1>5, <1>6, <1>7, Beginning
<1>9. Opening(plan, draws, z, y, a)
  BY <1>2, <1>3, <1>8, Opens
<1>10. PICK ms : ms = select_faults(y, a, "before_tool", engine)
  OBVIOUS
<1>11. PICK chosen : chosen = record_selection(y, a, "before_tool", ms, engine)
  OBVIOUS
<1>12. PICK before : before = apply(ms)
  OBVIOUS
<1>13. PICK y2 : y2 = record_applied_faults(chosen, a, before)
  OBVIOUS
<1>14. u \in IF gate(z, a.q) # "pass" THEN {Outcome(Gated(y, a))}
             ELSE IF ~authoritative_fault_history(z, a, engine) THEN {}
             ELSE Handled(y2, a, before, durable, engine)
  BY <1>1, <1>4, <1>10, <1>11, <1>12, <1>13 DEF execute
<1>15. CASE gate(z, a.q) # "pass"
  <2>1. PICK o : o = Gated(y, a)
    OBVIOUS
  <2>2. u = Outcome(o)
    BY <1>14, <1>15, <2>1
  <2>3. Kept(plan, draws, z, o, a)
    BY <1>1, <1>9, <1>15, <2>1, Gating
  <2>4. QED
    BY <2>2, <2>3, OutcomeKept
<1>16. CASE gate(z, a.q) = "pass"
  <2>1. u \in Handled(y2, a, before, durable, engine)
    BY <1>14, <1>16
  <2>2. Ready(z, y2, a, before)
    BY <1>9, <1>10, <1>11, <1>12, <1>13, Preparing
  <2>3. QED
    BY <1>1, <1>16, <2>1, <2>2, Handling
<1>17. QED
  BY <1>15, <1>16

-----------------------------------------------------------------------------
(* The acknowledgement of an attempt whose effect is committed.            *)

\* The attempt whose evidence is committed beyond the checkpoint.
LEMMA UnderFrame ==
  ASSUME NEW p, NEW w, NEW z, Base(p, w, z), Frame(z), Started(z), NEW a, a = Current(z)
  PROVE  /\ z \in Databases /\ z.pending # <<>> /\ a \in Attempts /\ a.ordinal = a.call
         /\ a.at = z.boundary + 1 /\ Asks(z, a) /\ Fresh(z, a)
         /\ a.call = z.pending[1].call /\ a.attempt = z.pending[1].attempt /\ a.q = z.pending[1].q
<1>1. z \in Databases /\ Logged(z)
  BY DEF Base
<1>2. PICK K \in Nat : FrameOf(z, K)
  BY DEF Frame
<1>3. PICK b : b = z.boundary
  OBVIOUS
<1>4. b \in Nat /\ Len(z.events) \in Nat /\ DOMAIN z.events = 1 .. Len(z.events) /\ b < Len(z.events)
  <2>1. Len(z.events) \in Nat /\ DOMAIN z.events = 1 .. Len(z.events)
    BY <1>1, Evidence
  <2>2. z.boundary \in Nat
    BY <1>1 DEF Databases
  <2>3. QED
    BY <1>3, <2>1, <2>2 DEF Started
<1>5. b + 1 \in DOMAIN z.events /\ b < b + 1
  BY <1>4
<1>6. /\ z.pending # <<>> /\ z.events[b + 1].request = b + 1
      /\ z.events[b + 1].call = z.pending[1].call /\ z.events[b + 1].attempt = z.pending[1].attempt
      /\ z.pending[1].q = z.events[b + 1].info
  BY <1>2, <1>3, <1>5 DEF FrameOf
<1>7. /\ a \in Attempts /\ a.ordinal = a.call /\ a.at = z.boundary + 1
      /\ a.call = z.pending[1].call /\ a.attempt = z.pending[1].attempt /\ a.q = z.pending[1].q
  BY <1>1, <1>6, AttemptIs
<1>8. Asks(z, a)
  <2>1. z.events[b + 1].type = "tool.requested"
    BY <1>1, <1>5, <1>6 DEF Logged
  <2>2. QED
    BY <1>3, <1>5, <1>6, <1>7, <2>1 DEF Asks, Asked, Mine
<1>9. Fresh(z, a)
  <2> SUFFICES ASSUME NEW i \in DOMAIN z.events, z.events[i].call = a.call, z.events[i].attempt = a.attempt
               PROVE  z.events[i].request = a.at
    BY DEF Fresh
  <2>1. i <= b \/ b < i
    BY <1>4
  <2>2. CASE i <= b
    <3>1. z.events[i].attempt < z.pending[1].attempt
      BY <1>2, <1>3, <1>6, <1>7, <2>2 DEF FrameOf
    <3>2. z.pending[1].attempt \in Nat
      BY <1>1, <1>6, PendingTypes
    <3>3. QED
      BY <1>7, <3>1, <3>2
  <2>3. CASE b < i
    BY <1>2, <1>3, <1>7, <2>3 DEF FrameOf
  <2>4. QED
    BY <2>1, <2>2, <2>3
<1>10. QED
  BY <1>1, <1>6, <1>7, <1>8, <1>9

\* A rule this attempt applied was below its cap without it.
LEMMA BelowCap ==
  ASSUME NEW p, NEW z \in Databases, Caps(p, z), Logged(z), NEW a, NEW x \in DOMAIN p,
         NEW i \in Applies(z, a.at), z.events[i].rule = p[x].id,
         p[x].max_occurrences \in Nat
  PROVE  ~Capped(z, p[x], a)
<1>1. PICK S : S = AppliesBut(z, p[x], 0)
  OBVIOUS
<1>2. PICK T : T = AppliesBut(z, p[x], a.at)
  OBVIOUS
<1>3. IsFiniteSet(S) /\ Cardinality(S) = Occurrences(z, p[x], 0) /\ Cardinality(S) \in Nat
  BY <1>1, AppliesButAre
<1>4. IsFiniteSet(T) /\ Cardinality(T) = Occurrences(z, p[x], a.at) /\ Cardinality(T) \in Nat
  BY <1>2, AppliesButAre
<1>5. DOMAIN z.events = 1 .. Len(z.events) /\ Len(z.events) \in Nat
  BY Evidence
<1>6. \A k \in DOMAIN z.events : z.events[k].request # 0
  <2>1. \A k \in DOMAIN z.events : z.events[k].request \in 1 .. k
    BY DEF Logged
  <2>2. QED
    BY <1>5, <2>1
<1>7. T \in SUBSET S /\ i \in S /\ i \notin T
  BY <1>1, <1>2, <1>6 DEF AppliesBut, Applies, Positions
<1>8. T \subseteq S \ {i}
  BY <1>7
<1>9. Cardinality(S \ {i}) = Cardinality(S) - 1 /\ IsFiniteSet(S \ {i})
  BY <1>3, <1>7, FS_RemoveElement
<1>10. Cardinality(T) <= Cardinality(S \ {i})
  BY <1>8, <1>9, FS_Subset
<1>11. Occurrences(z, p[x], 0) <= p[x].max_occurrences
  BY DEF Caps
<1>12. Cardinality(T) < p[x].max_occurrences
  BY ONLY <1>3, <1>4, <1>9, <1>10, <1>11, p[x].max_occurrences \in Nat
<1>13. QED
  BY ONLY <1>4, <1>12, p[x].max_occurrences \in Nat DEF Capped

\* A marker whose acknowledgement is owed, for the rule r.
Awaits(p, w, z, a, m, r) ==
  /\ Base(p, w, z) /\ Frame(z) /\ Started(z) /\ Results(z, a.at) = {} /\ a = Current(z)
  /\ m \in Marker(z) /\ Valid(p, w, z, m) /\ Waits(p, w, z, m)
  /\ r = Sel(p, w, z, a, "after_commit")[1]

\* The rules it has applied by then are those of the before_tool phase.
LEMMA UsedBefore ==
  ASSUME NEW p, NEW w, NEW z, NEW a, NEW m, NEW r, IsPlan(p), Awaits(p, w, z, a, m, r),
         NEW x \in Used(p, z, a.at)
  PROVE  p[x].phase = "before_tool" /\ ~Capped(z, p[x], a) /\ failure_code(p[x]) = ""
<1>1. Base(p, w, z) /\ Frame(z) /\ Started(z) /\ a = Current(z) /\ Valid(p, w, z, m) /\ Waits(p, w, z, m)
  BY DEF Awaits
<1>2. z \in Databases /\ Asks(z, a) /\ a.at = z.boundary + 1
  BY <1>1, UnderFrame
<1>3. m.at = a.at
  BY <1>1, <1>2 DEF Valid
<1>4. a.at \in Asked(z)
  BY <1>2 DEF Asks
<1>5. Chosen(p, w, z, a.at) /\ Caps(p, z) /\ Logged(z)
  BY <1>1, <1>4 DEF Base
<1>6. PICK i \in Applies(z, a.at) : z.events[i].rule = p[x].id
  BY DEF Used
<1>7. PICK j \in Matches(z, a.at) : z.events[j].rule = p[x].id
  BY <1>5, <1>6 DEF Chosen
<1>8. PICK v \in DOMAIN p : p[v].id = z.events[j].rule /\ p[v].phase = "before_tool"
  BY <1>1, <1>3, <1>7 DEF Waits
<1>9. x \in DOMAIN p
  BY DEF Used
<1>10. v = x
  BY <1>7, <1>8, <1>9 DEF IsPlan
<1>11. p[x].max_occurrences \in Nat
  <2>1. p[x] \in CompiledFaultRules
    BY <1>9 DEF IsPlan
  <2>2. QED
    BY <2>1 DEF CompiledFaultRules
<1>12. ~Capped(z, p[x], a)
  BY <1>2, <1>5, <1>6, <1>9, <1>11, BelowCap
<1>13. failure_code(p[x]) = ""
  BY <1>1, <1>3 DEF Waits
<1>14. QED
  BY <1>8, <1>10, <1>12, <1>13

\* The rules an attempt applied, as a list.
ListOf(p, z, a, As) ==
  /\ List(p, As)
  /\ \A k \in DOMAIN As : \E x \in Used(p, z, a.at) : As[k] = p[x]
  /\ \A x \in Used(p, z, a.at) : \E k \in DOMAIN As : As[k] = p[x]

\* They are rules of the plan, each once.
LEMMA Listing ==
  ASSUME NEW p, IsPlan(p), NEW z, NEW a, NEW As, As = Picked(p, Used(p, z, a.at))
  PROVE  ListOf(p, z, a, As)
<1>1. PICK I : I = Used(p, z, a.at)
  OBVIOUS
<1>2. I \in SUBSET DOMAIN p /\ List(p, p)
  BY <1>1, PlanIsList DEF Used
<1>3. /\ List(p, Picked(p, I))
      /\ \A k \in DOMAIN Picked(p, I) : \E i \in I : Picked(p, I)[k] = p[i]
      /\ \A i \in I : \E k \in DOMAIN Picked(p, I) : Picked(p, I)[k] = p[i]
  BY <1>2, Sublists
<1>4. As = Picked(p, I)
  BY <1>1
<1>5. QED
  BY <1>1, <1>3, <1>4 DEF ListOf

\* The attempt is at the stage it was left in.
LEMMA Restage ==
  ASSUME NEW p, NEW w, NEW z, NEW a, NEW m, NEW r, IsPlan(p), Awaits(p, w, z, a, m, r),
         NEW As, ListOf(p, z, a, As)
  PROVE  Stage(p, w, z, z, a, As, {"before_tool"})
<1>1. Base(p, w, z) /\ Frame(z) /\ Started(z) /\ a = Current(z) /\ Results(z, a.at) = {}
      /\ Valid(p, w, z, m) /\ Waits(p, w, z, m)
  BY DEF Awaits
<1>2. /\ z \in Databases /\ Asks(z, a) /\ a.at = z.boundary + 1 /\ a \in Attempts
      /\ a.ordinal = a.call
  BY <1>1, UnderFrame
<1>3. m.at = a.at
  BY <1>1, <1>2 DEF Valid
<1>4. a.at \in Asked(z)
  BY <1>2 DEF Asks
<1>5. Chosen(p, w, z, a.at) /\ Logged(z) /\ Named(p, z)
  BY <1>1, <1>4 DEF Base
<1>6. Same(z, z) /\ Longer(z, z, a)
  <2>1. Len(z.events) \in Nat
    BY <1>2, Evidence
  <2>2. QED
    BY <1>2, <2>1 DEF Same, Longer
<1>7. Observed(z, a.at) = {} /\ InPhases(p, z, a, {"before_tool"})
  BY <1>1, <1>3 DEF Waits, InPhases
<1>8. HasApplied(z, a, As)
  <2>1. ASSUME NEW i \in Applies(z, a.at) PROVE \E k \in DOMAIN As : As[k].id = z.events[i].rule
    <3>1. PICK j \in Matches(z, a.at) : z.events[j].rule = z.events[i].rule
      BY <1>5 DEF Chosen
    <3>2. PICK x \in DOMAIN p : p[x].id = z.events[j].rule
      BY <1>5, <3>1 DEF Chosen
    <3>3. x \in Used(p, z, a.at)
      BY <3>1, <3>2 DEF Used
    <3>4. QED
      BY <3>1, <3>2, <3>3 DEF ListOf
  <2>2. ASSUME NEW k \in DOMAIN As PROVE \E i \in Applies(z, a.at) : As[k].id = z.events[i].rule
    <3>1. PICK x \in Used(p, z, a.at) : As[k] = p[x]
      BY DEF ListOf
    <3>2. QED
      BY <3>1 DEF Used
  <2>3. QED
    BY <2>1, <2>2 DEF HasApplied
<1>9. List(p, As) /\ \A k \in DOMAIN As : As[k].phase \in {"before_tool"} /\ ~Capped(z, As[k], a)
  <2>1. \A x \in Used(p, z, a.at) : p[x].phase = "before_tool" /\ ~Capped(z, p[x], a)
    BY UsedBefore
  <2>2. QED
    BY <2>1 DEF ListOf
<1>10. QED
  BY <1>1, <1>2, <1>5, <1>6, <1>7, <1>8, <1>9 DEF Stage

\* The transaction of the acknowledgement.
Acknowledges(z, o, a, owed) ==
  \E chosen, applied, y :
    /\ chosen = record_fault_selection(z, a, "after_commit", owed)
    /\ applied = apply_post_commit(owed)
    /\ y = record_applied_faults(chosen, a, applied)
    /\ o = answer(y, a, "fault_timeout", applied)

\* The one rule that is applied.
LEMMA OneOf ==
  ASSUME NEW z, NEW a, NEW ms, NEW r, IsPlan(plan), FirstOf(z, a, ms, r), NEW Bs, Bs = <<r>>
  PROVE  SomeOf(ms, Bs) /\ DOMAIN Bs = {1} /\ Bs[1] = r
<1>1. r \in CompiledFaultRules /\ Wants(draws, z, r, a, "after_commit") /\ \E v \in DOMAIN plan : plan[v] = r
  BY FirstIs
<1>2. ms = Sel(plan, draws, z, a, "after_commit") /\ ms # <<>> /\ r = ms[1]
  BY DEF FirstOf
<1>3. List(plan, ms)
  BY <1>2, Selecting
<1>4. ms \in Seq(CompiledFaultRules)
  BY <1>3 DEF List
<1>5. 1 \in DOMAIN ms
  BY <1>2, <1>4
<1>6. Bs \in Seq(CompiledFaultRules) /\ DOMAIN Bs = {1} /\ Bs[1] = r
  BY <1>1
<1>7. List(plan, Bs)
  BY <1>1, <1>6 DEF List
<1>8. OneFails(Bs)
  BY <1>6 DEF OneFails
<1>9. QED
  BY <1>2, <1>5, <1>6, <1>7, <1>8 DEF SomeOf

\* The acknowledgement is answered.
Acked(z, o, a, m) ==
  /\ Base(plan, draws, o) /\ Underway(plan, z, o, a) /\ Rest(z, o)
  /\ Results(o, a.at) # {} /\ Told(o, m)

\* Its matched rule comes after the marker, is applied last, and is observed.
LEMMA ToldLast ==
  ASSUME NEW z, NEW o, NEW a, NEW m, NEW r, IsPlan(plan), Awaits(plan, draws, z, a, m, r),
         r.id = m.rule, NEW owed, owed # <<>>, r = owed[1], 1 \in DOMAIN owed,
         NEW chosen, MatchedNow(z, chosen, a, owed),
         NEW y, NEW Bs, DOMAIN Bs = {1}, Bs[1] = r, AppliedNow(chosen, y, a, Bs),
         NEW Cs, NEW k, Closed(plan, draws, z, o, a, Cs, Bs, "fault_timeout", k),
         AnsweredNow(y, o, a), chosen \in Databases
  PROVE  Told(o, m)
<1>1. Waits(plan, draws, z, m) /\ Valid(plan, draws, z, m) /\ a = Current(z) /\ z \in Databases
  BY DEF Awaits, Base
<1>2. m.state = Len(z.events) /\ m.at = a.at
  BY <1>1 DEF Waits, Valid, Current
<1>3. PICK i \in Matches(chosen, a.at) : chosen.events[i].rule = r.id /\ Len(z.events) < i
  BY DEF MatchedNow
<1>4. DOMAIN chosen.events = 1 .. Len(chosen.events) /\ Len(chosen.events) \in Nat
  BY Evidence
<1>5. PICK j : j = Len(chosen.events) + 1
  OBVIOUS
<1>6. j \in Applies(y, a.at) /\ y.events[j].rule = r.id
  BY <1>5 DEF AppliedNow
<1>7. \A l \in Applies(y, a.at) : l <= j
  <2>1. \A l \in Applies(chosen, a.at) : l \in DOMAIN chosen.events
    BY DEF Applies, Positions
  <2>2. \A l \in Applies(y, a.at) : l \in Applies(chosen, a.at) \/ l = j
    BY <1>5 DEF AppliedNow
  <2>3. j <= j /\ \A l \in DOMAIN chosen.events : l <= j
    BY ONLY <1>4, <1>5
  <2>4. QED
    BY <2>1, <2>2, <2>3
<1>8. /\ Matches(y, a.at) = Matches(chosen, a.at) /\ \A l \in Matches(chosen, a.at) : y.events[l] = chosen.events[l]
  BY DEF AppliedNow
<1>9. /\ Matches(o, a.at) = Matches(y, a.at) /\ Applies(o, a.at) = Applies(y, a.at)
      /\ \A l \in Matches(y, a.at) \cup Applies(y, a.at) : o.events[l] = y.events[l]
  BY DEF AnsweredNow
<1>10. i \in Matches(o, a.at) /\ o.events[i].rule = r.id
  BY <1>3, <1>8, <1>9
<1>11. j \in Applies(o, a.at) /\ o.events[j].rule = r.id
  BY <1>6, <1>9
<1>12. Chosen(plan, draws, o, a.at)
  BY DEF Closed
<1>13. o.events[j].cause = i
  <2>1. o.events[j].cause \in Matches(o, a.at) /\ o.events[o.events[j].cause].rule = o.events[j].rule
    BY <1>11, <1>12 DEF Chosen
  <2>2. QED
    BY <1>10, <1>11, <1>12, <2>1 DEF Chosen
<1>14. PICK u \in Observed(o, a.at) : o.events[u].rule = r.id
  BY DEF Closed
<1>15. Results(o, a.at) = {k} /\ o.events[k].info = "fault_timeout" /\ o.events[k].cause = j
  <2>1. /\ Results(o, a.at) = {k} /\ o.events[k].info = "fault_timeout"
        /\ \/ Applies(o, a.at) = {} /\ o.events[k].cause = a.at
           \/ /\ o.events[k].cause \in Applies(o, a.at)
              /\ \A l \in Applies(o, a.at) : l <= o.events[k].cause
    BY DEF Closed
  <2>2. o.events[k].cause \in Applies(o, a.at) /\ j <= o.events[k].cause /\ o.events[k].cause <= j
    BY <1>7, <1>9, <1>11, <2>1
  <2>3. \A l \in Applies(o, a.at) : l \in Int
    <3>1. o \in Databases
      BY DEF Closed, Same
    <3>2. DOMAIN o.events = 1 .. Len(o.events) /\ Len(o.events) \in Nat
      BY <3>1, Evidence
    <3>3. QED
      BY <3>2 DEF Applies, Positions
  <2>4. o.events[k].cause \in Int /\ j \in Int
    BY <1>11, <2>2, <2>3
  <2>5. o.events[k].cause = j
    BY ONLY <2>2, <2>4
  <2>6. QED
    BY <2>1, <2>5
<1>16. m.state < i
  BY <1>2, <1>3
<1>17. QED
  BY <1>2, <1>10, <1>11, <1>13, <1>14, <1>15, <1>16 DEF Told

\* What was applied before stands between the request and the marker's state.
LEMMA Shares ==
  ASSUME NEW z, NEW o, NEW a, NEW m, NEW r, IsPlan(plan), Awaits(plan, draws, z, a, m, r),
         Underway(plan, z, o, a), Rest(z, o), NEW x \in Used(plan, z, a.at)
  PROVE  SharedAt(o, a.at)
<1>1. /\ Waits(plan, draws, z, m) /\ Valid(plan, draws, z, m) /\ a = Current(z)
      /\ Base(plan, draws, z) /\ m \in z.markers
  BY DEF Awaits, Marker
<1>2. m.state = Len(z.events) /\ m.at = a.at /\ z.events[m.state].type = "state.evidence_recorded"
  BY <1>1 DEF Waits, Valid, Current
<1>3. PICK i \in Applies(z, a.at) : z.events[i].rule = plan[x].id
  BY DEF Used
<1>4. i \in DOMAIN z.events /\ z.events[i].type = "fault.applied" /\ z.events[i].request = a.at
  BY DEF Applies, Positions
<1>5. z \in Databases /\ Logged(z)
  BY <1>1 DEF Base
<1>6. DOMAIN z.events = 1 .. Len(z.events) /\ Len(z.events) \in Nat
  BY <1>5, Evidence
<1>7. a.at \in 1 .. i /\ a.at # i
  BY <1>4, <1>5 DEF Logged
<1>8. i # m.state
  BY <1>2, <1>4
<1>9. i \in a.at + 1 .. m.state - 1
  BY ONLY <1>2, <1>4, <1>6, <1>7, <1>8
<1>10. o.events[i].request = a.at
  <2>1. o.events[i] = z.events[i]
    BY <1>4, AskedGrows
  <2>2. QED
    BY <1>4, <2>1
<1>11. m \in o.markers
  BY <1>1 DEF Rest
<1>12. QED
  BY <1>2, <1>9, <1>10, <1>11 DEF SharedAt

\* Transaction two of the durable path.
LEMMA Acknowledging ==
  ASSUME NEW z, NEW o, NEW a, NEW m, NEW r, IsPlan(plan), Awaits(plan, draws, z, a, m, r),
         r.id = m.rule, NEW owed, owed = Sel(plan, draws, z, a, "after_commit"), owed # <<>>,
         Acknowledges(z, o, a, owed)
  PROVE  Acked(z, o, a, m)
<1>1. PICK As : As = Picked(plan, Used(plan, z, a.at))
  OBVIOUS
<1>2. ListOf(plan, z, a, As)
  BY <1>1, Listing
<1>3. Stage(plan, draws, z, z, a, As, {"before_tool"})
  BY <1>2, Restage
<1>4. r = owed[1]
  BY DEF Awaits
<1>5. FirstOf(z, a, owed, r)
  BY <1>4 DEF FirstOf
<1>6. PICK chosen, applied, y :
        /\ chosen = record_fault_selection(z, a, "after_commit", owed)
        /\ applied = apply_post_commit(owed)
        /\ y = record_applied_faults(chosen, a, applied)
        /\ o = answer(y, a, "fault_timeout", applied)
  BY DEF Acknowledges
<1>7. List(plan, owed) /\ \A k \in DOMAIN owed : Wants(draws, z, owed[k], a, "after_commit")
  BY Selecting
<1>8. 1 \in DOMAIN owed
  <2>1. owed \in Seq(CompiledFaultRules)
    BY <1>7 DEF List
  <2>2. QED
    BY <2>1
<1>9. "after_commit" \notin {"before_tool"}
  OBVIOUS
<1>10. PICK QS : QS = {"before_tool"} \cup {"after_commit"}
  OBVIOUS
<1>11. /\ Stage(plan, draws, z, chosen, a, As, {"before_tool"} \cup {"after_commit"})
       /\ MatchedNow(z, chosen, a, owed)
  BY <1>3, <1>6, <1>7, <1>9, Matching
<1>12. Selected(z, z, chosen, a, As, {"before_tool"}, "after_commit", owed)
  BY <1>7, <1>11 DEF Selected
<1>13. PICK Bs : Bs = <<r>>
  OBVIOUS
<1>14. SomeOf(owed, Bs) /\ DOMAIN Bs = {1} /\ Bs[1] = r
  BY <1>5, <1>13, OneOf
<1>15. applied = Bs
  BY <1>4, <1>6, <1>13 DEF apply_post_commit
<1>16. PICK Cs : Cs = As \o Bs
  OBVIOUS
<1>17. y = record_applied_faults(chosen, a, Bs)
  BY <1>6, <1>15
<1>18. PhaseDone(z, z, y, chosen, a, Cs, QS, Bs, "after_commit")
  BY <1>3, <1>9, <1>10, <1>12, <1>14, <1>16, <1>17, PhaseApplied
<1>19. Stage(plan, draws, z, y, a, Cs, QS) /\ Rest(z, y) /\ AppliedNow(chosen, y, a, Bs)
  BY <1>18 DEF PhaseDone
<1>20. As \in Seq(CompiledFaultRules) /\ Bs \in Seq(CompiledFaultRules) /\ List(plan, Bs)
       /\ Cs \in Seq(CompiledFaultRules)
  BY <1>2, <1>14, <1>19 DEF ListOf, SomeOf, List, Stage
<1>21. Both(As, Bs, Cs)
  BY <1>16, <1>20, SeqsJoined
<1>22. /\ \A i \in DOMAIN Bs : \E j \in DOMAIN Cs : Cs[j] = Bs[i]
       /\ \E j \in DOMAIN Cs : Cs[j] = r
  BY <1>14, <1>21 DEF Both
<1>23. Bs # <<>> /\ Cs # <<>>
  <2>1. DOMAIN Bs # {} /\ DOMAIN Cs # {}
    BY <1>14, <1>22
  <2>2. DOMAIN <<>> = {}
    BY EmptyList
  <2>3. QED
    BY <2>1, <2>2
<1>24. PICK k : k = Len(y.events) + 1
  OBVIOUS
<1>25. "fault_timeout" \in Codes /\ o = answer(y, a, "fault_timeout", Bs)
  BY <1>6, <1>15 DEF Codes
<1>26. Closed(plan, draws, z, o, a, Cs, Bs, "fault_timeout", k) /\ AnsweredNow(y, o, a)
  BY <1>19, <1>20, <1>22, <1>23, <1>24, <1>25, Answering
<1>27. Underway(plan, z, o, a)
  BY <1>26 DEF Closed, Underway
<1>28. Rest(z, o)
  <2>1. Rest(y, o)
    BY <1>26 DEF AnsweredNow
  <2>2. QED
    BY <1>19, <2>1 DEF Rest
<1>29. SharedAt(o, a.at) \/ \A j \in DOMAIN Cs : \E i \in DOMAIN Bs : Bs[i] = Cs[j]
  <2>1. CASE DOMAIN As = {}
    BY <1>21, <2>1 DEF Both
  <2>2. CASE DOMAIN As # {}
    <3>1. PICK x \in Used(plan, z, a.at) : TRUE
      BY <1>2, <2>2 DEF ListOf
    <3>2. QED
      BY <1>27, <1>28, <3>1, Shares
  <2>3. QED
    BY <2>1, <2>2
<1>30. Base(plan, draws, z) /\ Frame(z) /\ Started(z) /\ a = Current(z) /\ m \in Marker(z)
       /\ Valid(plan, draws, z, m)
  BY DEF Awaits
<1>31. /\ Fresh(z, a) /\ a.call = z.pending[1].call /\ a.attempt = z.pending[1].attempt
  BY <1>30, UnderFrame
<1>32. HasEffect(o, a.at)
  <2>1. [q |-> z.pending[1].q, call |-> m.call, attempt |-> m.attempt] \in o.effects
    BY <1>28, <1>30 DEF Valid, Rest
  <2>2. m.call = a.call /\ m.attempt = a.attempt
    BY <1>30, <1>31 DEF Marker
  <2>3. o.events[a.at].call = a.call /\ o.events[a.at].attempt = a.attempt
    BY <1>27, AskedGrows
  <2>4. QED
    BY <2>1, <2>2, <2>3 DEF HasEffect
<1>33. Loses(Cs)
  <2>1. r.phase = "after_commit"
    BY <1>5, FirstIs DEF Wants
  <2>2. QED
    BY <1>22, <2>1 DEF Loses
<1>34. Tells(Cs, "fault_timeout", o, a)
  BY <1>32, <1>33 DEF Tells
<1>35. EffectsOf(z, o, a) /\ o.markers = z.markers
  <2>1. Effected(z)
    BY <1>30 DEF Base
  <2>2. \A f, g \in z.effects : f.q = g.q => f = g
    BY <2>1 DEF Effected
  <2>3. o.effects = z.effects /\ o.markers = z.markers
    BY <1>28 DEF Rest
  <2>4. QED
    BY <2>2, <2>3 DEF EffectsOf
<1>36. Base(plan, draws, o)
  BY <1>22, <1>26, <1>29, <1>30, <1>31, <1>34, <1>35, Keeps
<1>37. chosen \in Databases
  BY <1>11 DEF Stage, Same
<1>38. Told(o, m)
  BY <1>4, <1>8, <1>11, <1>14, <1>19, <1>26, <1>37, ToldLast
<1>39. Results(o, a.at) # {}
  BY <1>26 DEF Closed
<1>40. QED
  BY <1>27, <1>28, <1>36, <1>38, <1>39 DEF Acked

-----------------------------------------------------------------------------
(* The checkpoint.                                                         *)

\* A pending call, and its attempt's evidence beyond the checkpoint, if any.
Loose(d, K) ==
  /\ K <= Len(d.turns) /\ Len(d.turns) < MaxTools
  /\ {d.turns[i].call : i \in DOMAIN d.turns} = 1 .. K
  /\ d.pending # <<>> /\ Len(d.pending) <= 1 /\ d.boundary <= Len(d.events)
  /\ d.pending[1].attempt <= Len(d.turns) + 1
  /\ d.pending[1].call = IF d.pending[1].attempt = 1 THEN K + 1 ELSE K
  /\ \A i \in DOMAIN d.events : i <= d.boundary =>
       /\ d.events[i].call <= K
       /\ d.events[i].call = d.pending[1].call => d.events[i].attempt < d.pending[1].attempt
  /\ \A i \in DOMAIN d.events : d.boundary < i =>
       /\ d.events[i].request = d.boundary + 1
       /\ d.events[i].call = d.pending[1].call /\ d.events[i].attempt = d.pending[1].attempt
  /\ \A i \in DOMAIN d.turns : /\ d.turns[i].result \in 1 .. d.boundary
                               /\ d.events[d.turns[i].result].type = "tool.result"

\* The frame of an attempt that has started.
LEMMA FrameIsLoose ==
  ASSUME NEW p, NEW w, NEW z, Base(p, w, z), NEW K \in Nat, FrameOf(z, K), z.pending # <<>>,
         Len(z.turns) < MaxTools
  PROVE  Loose(z, K)
BY DEF FrameOf, Loose

\* Its evidence grows, the checkpoint and the rows of the calls stay.
LEMMA LooseGrows ==
  ASSUME NEW p, NEW w, NEW z, Base(p, w, z), NEW K \in Nat, FrameOf(z, K), z.pending # <<>>,
         Len(z.turns) < MaxTools, NEW a, a = Current(z), NEW o, Underway(p, z, o, a)
  PROVE  Loose(o, K)
<1>1. /\ z \in Databases /\ o \in Databases
      /\ o.turns = z.turns /\ o.pending = z.pending /\ o.boundary = z.boundary
  BY DEF Base, Underway, Same
<1>2. /\ Len(z.events) \in Nat /\ Len(o.events) \in Nat /\ z.boundary \in Nat
      /\ DOMAIN z.events = 1 .. Len(z.events) /\ DOMAIN o.events = 1 .. Len(o.events)
  BY <1>1, Evidence, PendingTypes
<1>3. /\ a.at = z.boundary + 1 /\ a.call = z.pending[1].call /\ a.attempt = z.pending[1].attempt
  BY DEF Current
<1>4. /\ Len(z.events) <= Len(o.events)
      /\ \A i \in 1 .. Len(z.events) : o.events[i] = z.events[i]
      /\ \A i \in Len(z.events) + 1 .. Len(o.events) :
           /\ o.events[i].request = z.boundary + 1
           /\ o.events[i].call = z.pending[1].call /\ o.events[i].attempt = z.pending[1].attempt
  BY <1>3 DEF Underway, Longer, Mine
<1>5. Loose(z, K)
  BY FrameIsLoose
<1>6. z.boundary <= Len(z.events)
  BY <1>5 DEF Loose
<1>7. ASSUME NEW i \in DOMAIN o.events, i <= o.boundary
      PROVE  i \in DOMAIN z.events /\ i <= z.boundary /\ o.events[i] = z.events[i]
  <2>1. i \in 1 .. Len(z.events)
    BY <1>1, <1>2, <1>6, <1>7
  <2>2. QED
    BY <1>1, <1>2, <1>4, <1>7, <2>1
<1>8. ASSUME NEW i \in DOMAIN o.events, o.boundary < i
      PROVE  /\ o.events[i].request = o.boundary + 1
             /\ o.events[i].call = o.pending[1].call /\ o.events[i].attempt = o.pending[1].attempt
  <2>1. CASE i \in 1 .. Len(z.events)
    BY <1>1, <1>2, <1>4, <1>5, <1>8, <2>1 DEF Loose
  <2>2. CASE i \in Len(z.events) + 1 .. Len(o.events)
    BY <1>1, <1>4, <2>2
  <2>3. QED
    BY <1>2, <2>1, <2>2
<1>9. ASSUME NEW i \in DOMAIN o.turns
      PROVE  o.turns[i].result \in 1 .. o.boundary /\ o.events[o.turns[i].result].type = "tool.result"
  <2>1. /\ z.turns[i].result \in 1 .. z.boundary /\ i \in DOMAIN z.turns
        /\ z.events[z.turns[i].result].type = "tool.result"
    BY <1>1, <1>5, <1>9 DEF Loose
  <2>2. z.turns[i].result \in 1 .. Len(z.events)
    BY <1>2, <1>6, <2>1
  <2>3. QED
    BY <1>1, <1>4, <2>1, <2>2
<1>10. ASSUME NEW i \in DOMAIN o.events, i <= o.boundary
       PROVE  /\ o.events[i].call <= K
              /\ o.events[i].call = o.pending[1].call => o.events[i].attempt < o.pending[1].attempt
  BY <1>1, <1>5, <1>7, <1>10 DEF Loose
<1>11. o.boundary <= Len(o.events)
  BY <1>1, <1>2, <1>4, <1>6
<1>12. QED
  BY <1>1, <1>5, <1>8, <1>9, <1>10, <1>11 DEF Loose

\* A mutation's evidence may stay beyond the checkpoint.
LEMMA LooseIsFrame ==
  ASSUME NEW p, NEW w, NEW z, Base(p, w, z), Frame(z), z.pending # <<>>,
         Len(z.turns) < MaxTools, NEW a, a = Current(z), NEW o, Underway(p, z, o, a),
         a.q \in Mutations
  PROVE  Frame(o)
<1>1. PICK K \in Nat : FrameOf(z, K)
  BY DEF Frame
<1>2. Loose(o, K)
  BY <1>1, LooseGrows
<1>3. /\ o.events[o.boundary + 1].info = a.q /\ o.pending[1].q = a.q
  BY DEF Underway, Same, Asks, Current
<1>4. o.boundary \in Nat /\ Len(o.events) \in Nat /\ DOMAIN o.events = 1 .. Len(o.events)
  <2>1. o \in Databases /\ o.pending # <<>>
    BY <1>2 DEF Underway, Same, Loose
  <2>2. QED
    BY <2>1, Evidence, PendingTypes
<1>5. \A i \in DOMAIN o.events : o.boundary < i => o.events[i].request = o.boundary + 1
  BY <1>2 DEF Loose
<1>6. FrameOf(o, K)
  <2>1. /\ K <= Len(o.turns) /\ Len(o.turns) < MaxTools
        /\ {o.turns[i].call : i \in DOMAIN o.turns} = 1 .. K
        /\ o.pending # <<>> /\ Len(o.pending) <= 1 /\ o.boundary <= Len(o.events)
        /\ o.pending[1].attempt <= Len(o.turns) + 1
        /\ o.pending[1].call = IF o.pending[1].attempt = 1 THEN K + 1 ELSE K
    BY <1>2 DEF Loose
  <2>2. Len(o.turns) <= MaxTools
    <3>1. Len(o.turns) \in Nat /\ MaxTools \in Nat
      BY FaultAssumption DEF Underway, Same, Databases
    <3>2. QED
      BY <2>1, <3>1
  <2>3. \A i \in DOMAIN o.events : i <= o.boundary =>
          /\ o.events[i].call <= K
          /\ o.events[i].call = o.pending[1].call => o.events[i].attempt < o.pending[1].attempt
    BY <1>2 DEF Loose
  <2>4. \A i \in DOMAIN o.events : o.boundary < i =>
          /\ o.events[i].request = o.boundary + 1
          /\ o.events[i].call = o.pending[1].call /\ o.events[i].attempt = o.pending[1].attempt
    BY <1>2 DEF Loose
  <2>5. \A i \in DOMAIN o.turns : /\ o.turns[i].result \in 1 .. o.boundary
                                  /\ o.events[o.turns[i].result].type = "tool.result"
    BY <1>2 DEF Loose
  <2>6. QED
    BY ONLY <1>3, <2>1, <2>2, <2>3, <2>4, <2>5, a.q \in Mutations DEF FrameOf
<1>7. QED
  BY <1>6 DEF Frame

\* Calls and attempts are natural numbers.
LEMMA NumbersAre ==
  Numbers \in SUBSET (Nat \ {0})
BY DEF Numbers

\* The request and the results of the pending attempt.
LEMMA RequestedIs ==
  ASSUME NEW d \in Databases, Logged(d), NEW K \in Nat, Loose(d, K), Started(d)
  PROVE  /\ Requested(d) = {d.boundary + 1} /\ Answered(d) = Results(d, d.boundary + 1)
         /\ d.boundary + 1 \in DOMAIN d.events
<1>1. /\ Len(d.events) \in Nat /\ d.boundary \in Nat /\ DOMAIN d.events = 1 .. Len(d.events)
      /\ d.pending[1].attempt \in Nat
  BY Evidence, PendingTypes DEF Loose
<1>2. d.boundary + 1 \in DOMAIN d.events
  BY <1>1 DEF Started
<1>3. \A i \in DOMAIN d.events :
        d.events[i].type = "tool.requested" <=> d.events[i].request = i
  BY DEF Logged
<1>4. \A i \in DOMAIN d.events : d.events[i].attempt \in Nat
  BY Evidence, NumbersAre DEF Events
<1>5. d.events[d.boundary + 1].request = d.boundary + 1
      /\ d.events[d.boundary + 1].call = d.pending[1].call
      /\ d.events[d.boundary + 1].attempt = d.pending[1].attempt
  BY <1>1, <1>2 DEF Loose
<1>6. ASSUME NEW i \in Requested(d)
      PROVE  i = d.boundary + 1
  <2>1. /\ i \in DOMAIN d.events /\ d.events[i].type = "tool.requested"
        /\ d.events[i].call = d.pending[1].call /\ d.events[i].attempt = d.pending[1].attempt
    BY DEF Requested
  <2>2. ~(i <= d.boundary)
    BY <1>1, <1>4, <2>1 DEF Loose
  <2>3. d.events[i].request = d.boundary + 1
    BY <1>1, <2>1, <2>2 DEF Loose
  <2>4. QED
    BY <1>3, <2>1, <2>3
<1>7. d.boundary + 1 \in Requested(d)
  BY <1>2, <1>3, <1>5 DEF Requested
<1>8. Requested(d) = {d.boundary + 1}
  BY <1>6, <1>7
<1>9. Answered(d) = Results(d, d.boundary + 1)
  BY <1>8 DEF Answered, Results
<1>10. QED
  BY <1>2, <1>8, <1>9

\* An attempt that has not started has neither.
LEMMA RequestedNone ==
  ASSUME NEW d \in Databases, Logged(d), NEW K \in Nat, FrameOf(d, K), d.pending # <<>>, ~Started(d)
  PROVE  Requested(d) = {} /\ Answered(d) = {}
<1>1. /\ Len(d.events) \in Nat /\ d.boundary \in Nat /\ DOMAIN d.events = 1 .. Len(d.events)
      /\ d.pending[1].attempt \in Nat
  BY Evidence, PendingTypes
<1>2. \A i \in DOMAIN d.events : d.events[i].attempt \in Nat /\ i <= d.boundary
  <2>1. \A i \in DOMAIN d.events : d.events[i].attempt \in Nat
    BY Evidence, NumbersAre DEF Events
  <2>2. \A i \in DOMAIN d.events : i <= d.boundary
    BY <1>1 DEF Started
  <2>3. QED
    BY <2>1, <2>2
<1>3. \A i \in DOMAIN d.events : d.events[i].call = d.pending[1].call =>
         d.events[i].attempt < d.pending[1].attempt
  BY <1>2 DEF FrameOf
<1>4. \A i \in DOMAIN d.events : ~(d.events[i].call = d.pending[1].call
                                   /\ d.events[i].attempt = d.pending[1].attempt)
  BY <1>1, <1>2, <1>3
<1>5. Requested(d) = {}
  BY <1>4 DEF Requested
<1>6. QED
  BY <1>5 DEF Answered

\* Evidence, effects and markers are what they were.
SameEvidence(d, c) ==
  c \in Databases /\ c.events = d.events /\ c.effects = d.effects /\ c.markers = d.markers

\* What is said of them holds of them still.
LEMMA BaseSame ==
  ASSUME NEW p, NEW w, NEW d, Base(p, w, d), NEW c, SameEvidence(d, c)
  PROVE  Base(p, w, c)
<1>1. c \in Databases /\ c.events = d.events /\ c.effects = d.effects /\ c.markers = d.markers
  BY DEF SameEvidence
<1>2. Logged(c) /\ Named(p, c) /\ Asked(c) = Asked(d)
  <2>1. Logged(d) /\ Named(p, d)
    BY DEF Base
  <2>2. Logged(c)
    BY <1>1, <2>1 DEF Logged
  <2>3. Named(p, c)
    BY <1>1, <2>1 DEF Named
  <2>4. Asked(c) = Asked(d)
    BY <1>1 DEF Asked
  <2>5. QED
    BY <2>2, <2>3, <2>4
<1>3. Caps(p, c)
  BY <1>1 DEF Base, Caps, Occurrences
<1>4. Apart(c) /\ Effected(c) /\ Marked(p, c)
  BY <1>1, <1>2 DEF Base, Apart, Effected, Marked
<1>5. \A r : /\ Matches(c, r) = Matches(d, r) /\ Applies(c, r) = Applies(d, r)
             /\ Results(c, r) = Results(d, r) /\ Observed(c, r) = Observed(d, r)
  BY <1>1 DEF Matches, Applies, Results, Observed, Positions
<1>6. ASSUME NEW r \in Asked(c)
      PROVE  Chosen(p, w, c, r)
  <2>1. Chosen(p, w, d, r)
    BY <1>2 DEF Base
  <2>2. QED
    BY <1>1, <1>5, <2>1 DEF Chosen
<1>7. ASSUME NEW r \in Asked(c), Results(c, r) # {}
      PROVE  Whole(c, r) /\ Felt(p, c, r)
  <2>1. Whole(d, r) /\ Felt(p, d, r)
    BY <1>2, <1>5, <1>7 DEF Base
  <2>2. SharedAt(c, r) <=> SharedAt(d, r)
    BY <1>1 DEF SharedAt
  <2>3. Whole(c, r)
    BY <1>1, <1>5, <2>1, <2>2 DEF Whole
  <2>4. Used(p, c, r) = Used(p, d, r)
    BY <1>1, <1>5 DEF Used
  <2>5. (Ambiguity(p, c, r) <=> Ambiguity(p, d, r)) /\ (HasEffect(c, r) <=> HasEffect(d, r))
    BY <1>1, <2>4 DEF Ambiguity, HasEffect
  <2>6. Felt(p, c, r)
    BY <1>1, <1>5, <2>1, <2>4, <2>5 DEF Felt
  <2>7. QED
    BY <2>3, <2>6
<1>8. QED
  BY <1>1, <1>2, <1>3, <1>4, <1>6, <1>7 DEF Base

\* Every attempt before the checkpoint has its answer.
Settled(d) == \A r \in Asked(d) : Results(d, r) = {} => d.boundary < r

\* The turn of an attempt, and what is pending after it.
Turned(d, c, k, code) ==
  /\ Results(d, d.boundary + 1) = {k} /\ k \in DOMAIN d.events /\ code \in Codes
  /\ d.events[k].type = "tool.result" /\ d.events[k].info = code
  /\ c = [d EXCEPT !.turns = Append(@, [call |-> d.pending[1].call, attempt |-> d.pending[1].attempt,
                                        code |-> code, result |-> k]),
                   !.pending = IF code \in WAITS THEN <<[d.pending[1] EXCEPT !.attempt = @ + 1]>>
                               ELSE <<>>,
                   !.boundary = Len(d.events)]

\* The checkpoint takes the one result there is.
LEMMA Turning ==
  ASSUME NEW p, NEW w, NEW d, Base(p, w, d), NEW K \in Nat, Loose(d, K),
         Results(d, d.boundary + 1) # {}, Started(d), NEW c, c = checkpoint_after_tool(d)
  PROVE  \E k \in Nat, code \in Codes : Turned(d, c, k, code)
<1>1. d \in Databases /\ Logged(d)
  BY DEF Base
<1>2. /\ Requested(d) = {d.boundary + 1} /\ Answered(d) = Results(d, d.boundary + 1)
      /\ d.boundary + 1 \in DOMAIN d.events
  BY <1>1, RequestedIs
<1>3. d.boundary + 1 \in Asked(d)
  BY <1>2 DEF Requested, Asked
<1>4. Whole(d, d.boundary + 1)
  BY <1>3 DEF Base
<1>5. PICK k \in DOMAIN d.events : Results(d, d.boundary + 1) = {k}
  BY <1>4 DEF Whole
<1>6. k \in Nat /\ d.events[k].type = "tool.result"
  BY <1>1, <1>5, Evidence DEF Results, Positions
<1>7. PICK code : code = d.events[k].info
  OBVIOUS
<1>8. code \in Codes
  BY <1>1, <1>6, <1>7 DEF Logged
<1>9. (CHOOSE i \in Answered(d) : TRUE) = k
  BY <1>2, <1>5
<1>10. PICK t : t = [call |-> d.pending[1].call, attempt |-> d.pending[1].attempt,
                     code |-> code, result |-> k]
  OBVIOUS
<1>11. t.code = code
  BY <1>10
<1>12. c = [d EXCEPT !.turns = Append(@, t),
                     !.pending = IF t.code \in WAITS THEN <<[d.pending[1] EXCEPT !.attempt = @ + 1]>>
                                 ELSE <<>>,
                     !.boundary = Len(d.events)]
  BY <1>7, <1>9, <1>10 DEF checkpoint_after_tool
<1>13. Turned(d, c, k, code)
  BY <1>5, <1>6, <1>7, <1>8, <1>10, <1>11, <1>12 DEF Turned
<1>14. QED
  BY <1>6, <1>8, <1>13

\* A turn is added after the others.
LEMMA Appends ==
  ASSUME NEW s \in Seq(Turns), NEW t \in Turns, NEW u, u = Append(s, t)
  PROVE  /\ u \in Seq(Turns) /\ Len(u) = Len(s) + 1 /\ Len(s) \in Nat
         /\ DOMAIN u = 1 .. Len(s) + 1 /\ DOMAIN s = 1 .. Len(s)
         /\ \A i \in DOMAIN s : u[i] = s[i]
         /\ u[Len(s) + 1] = t
OBVIOUS

\* The rows after the checkpoint.
TurnedRows(d, c, k, code, call, attempt) ==
  /\ SameEvidence(d, c) /\ c.boundary = Len(d.events) /\ c.status = d.status
  /\ c.approvals = d.approvals
  /\ call = d.pending[1].call /\ attempt = d.pending[1].attempt
  /\ call \in Nat \ {0} /\ attempt \in Nat \ {0}
  /\ Len(d.turns) \in Nat /\ DOMAIN d.turns = 1 .. Len(d.turns)
  /\ DOMAIN c.turns = 1 .. Len(d.turns) + 1 /\ Len(c.turns) = Len(d.turns) + 1
  /\ \A i \in DOMAIN d.turns : c.turns[i] = d.turns[i]
  /\ c.turns[Len(d.turns) + 1].call = call /\ c.turns[Len(d.turns) + 1].result = k
  /\ \/ c.pending = <<>>
     \/ /\ c.pending # <<>> /\ Len(c.pending) <= 1
        /\ c.pending[1].call = call /\ c.pending[1].attempt = attempt + 1

\* They are well typed.
LEMMA TurningRows ==
  ASSUME NEW p, NEW w, NEW d, Base(p, w, d), NEW K \in Nat, Loose(d, K), NEW c,
         NEW k \in Nat, NEW code \in Codes, Turned(d, c, k, code),
         NEW call, call = d.pending[1].call, NEW attempt, attempt = d.pending[1].attempt
  PROVE  TurnedRows(d, c, k, code, call, attempt)
<1>1. d \in Databases /\ d.pending # <<>>
  BY DEF Base, Loose
<1>2. /\ d.pending[1] \in Pendings /\ d.turns \in Seq(Turns)
      /\ call \in Numbers /\ attempt \in Numbers /\ call \in Nat \ {0} /\ attempt \in Nat \ {0}
      /\ d.pending[1].q \in Requests
  BY <1>1, PendingTypes
<1>3. PICK t : t = [call |-> d.pending[1].call, attempt |-> d.pending[1].attempt,
                    code |-> code, result |-> k]
  OBVIOUS
<1>4. t \in Turns /\ t.call = call /\ t.result = k
  BY <1>2, <1>3 DEF Turns
<1>5. PICK ts : ts = Append(d.turns, t)
  OBVIOUS
<1>6. /\ ts \in Seq(Turns) /\ Len(ts) = Len(d.turns) + 1 /\ Len(d.turns) \in Nat
      /\ DOMAIN ts = 1 .. Len(d.turns) + 1 /\ DOMAIN d.turns = 1 .. Len(d.turns)
      /\ \A i \in DOMAIN d.turns : ts[i] = d.turns[i]
      /\ ts[Len(d.turns) + 1] = t
  BY <1>2, <1>4, <1>5, Appends
<1>7. attempt + 1 \in Numbers
  <2>1. attempt <= Len(d.turns) + 1 /\ Len(d.turns) < MaxTools /\ MaxTools \in Nat
    BY FaultAssumption DEF Loose
  <2>2. QED
    BY <1>2, <1>6, <2>1 DEF Numbers
<1>8. PICK n : n = [d.pending[1] EXCEPT !.attempt = @ + 1]
  OBVIOUS
<1>9. n \in Pendings /\ n.call = call /\ n.attempt = attempt + 1
  BY <1>2, <1>7, <1>8 DEF Pendings
<1>10. PICK ps : ps = IF code \in WAITS THEN <<n>> ELSE <<>>
  OBVIOUS
<1>11. /\ ps \in Seq(Pendings)
       /\ \/ ps = <<>>
          \/ /\ ps # <<>> /\ Len(ps) <= 1 /\ ps[1].call = call /\ ps[1].attempt = attempt + 1
  <2>1. CASE code \in WAITS
    <3>1. ps = <<n>>
      BY <1>10, <2>1
    <3>2. <<n>> \in Seq(Pendings) /\ Len(<<n>>) = 1 /\ <<n>>[1] = n
      BY <1>9, Single
    <3>3. QED
      BY <1>9, <3>1, <3>2
  <2>2. CASE code \notin WAITS
    BY <1>10, <2>2
  <2>3. QED
    BY <2>1, <2>2
<1>12. c = [d EXCEPT !.turns = ts, !.pending = ps, !.boundary = Len(d.events)]
  BY <1>3, <1>5, <1>8, <1>10 DEF Turned
<1>13. Len(d.events) \in Nat
  BY <1>1, Evidence
<1>14. /\ c \in Databases /\ c.turns = ts /\ c.pending = ps /\ c.boundary = Len(d.events)
       /\ c.events = d.events /\ c.effects = d.effects /\ c.markers = d.markers
       /\ c.status = d.status /\ c.approvals = d.approvals
  BY <1>1, <1>6, <1>11, <1>12, <1>13 DEF Databases
<1>15. QED
  BY <1>2, <1>4, <1>6, <1>11, <1>14 DEF TurnedRows, SameEvidence

\* The frame after the checkpoint.
LEMMA TurningFrame ==
  ASSUME NEW p, NEW w, NEW d, Base(p, w, d), NEW K \in Nat, Loose(d, K), NEW c,
         NEW k \in Nat, NEW code \in Codes, Turned(d, c, k, code),
         NEW call, NEW attempt, TurnedRows(d, c, k, code, call, attempt)
  PROVE  FrameOf(c, call) /\ call \in Nat /\ ~Started(c)
<1>1. /\ Len(d.events) \in Nat /\ DOMAIN d.events = 1 .. Len(d.events)
      /\ \A i \in DOMAIN d.events : d.events[i].call \in Nat /\ d.events[i].attempt \in Nat
      /\ d.boundary \in Nat
  <2>1. d \in Databases
    BY DEF Base
  <2>2. QED
    BY <2>1, Evidence, NumbersAre, PendingTypes DEF Events, Loose
<1>2. /\ c.events = d.events /\ c.boundary = Len(d.events)
      /\ call = d.pending[1].call /\ attempt = d.pending[1].attempt
      /\ call \in Nat \ {0} /\ attempt \in Nat \ {0}
      /\ Len(d.turns) \in Nat /\ DOMAIN d.turns = 1 .. Len(d.turns)
      /\ DOMAIN c.turns = 1 .. Len(d.turns) + 1 /\ Len(c.turns) = Len(d.turns) + 1
      /\ \A i \in DOMAIN d.turns : c.turns[i] = d.turns[i]
      /\ c.turns[Len(d.turns) + 1].call = call /\ c.turns[Len(d.turns) + 1].result = k
      /\ \/ c.pending = <<>>
         \/ /\ c.pending # <<>> /\ Len(c.pending) <= 1
            /\ c.pending[1].call = call /\ c.pending[1].attempt = attempt + 1
  BY DEF TurnedRows, SameEvidence
<1>3. /\ K <= Len(d.turns) /\ Len(d.turns) < MaxTools
      /\ {d.turns[i].call : i \in DOMAIN d.turns} = 1 .. K
      /\ attempt <= Len(d.turns) + 1 /\ call = IF attempt = 1 THEN K + 1 ELSE K
      /\ d.boundary <= Len(d.events) /\ MaxTools \in Nat
  BY <1>2, FaultAssumption DEF Loose
<1>4. call <= Len(d.turns) + 1 /\ Len(d.turns) + 1 <= MaxTools /\ K <= call
  BY <1>2, <1>3
<1>5. {c.turns[i].call : i \in DOMAIN c.turns} = 1 .. call
  <2>1. ASSUME NEW x \in {c.turns[i].call : i \in DOMAIN c.turns}
        PROVE  x \in 1 .. call
    <3>1. PICK i \in DOMAIN c.turns : x = c.turns[i].call
      BY <2>1
    <3>2. CASE i = Len(d.turns) + 1
      BY <1>2, <3>1, <3>2
    <3>3. CASE i \in DOMAIN d.turns
      <4>1. x = d.turns[i].call
        BY <1>2, <3>1, <3>3
      <4>2. x \in 1 .. K
        BY <1>3, <3>3, <4>1
      <4>3. QED
        BY <1>2, <1>4, <4>2
    <3>4. QED
      BY <1>2, <3>1, <3>2, <3>3
  <2>2. ASSUME NEW x \in 1 .. call
        PROVE  x \in {c.turns[i].call : i \in DOMAIN c.turns}
    <3>1. CASE x = call
      <4>1. Len(d.turns) + 1 \in DOMAIN c.turns
        BY <1>2
      <4>2. QED
        BY <1>2, <3>1, <4>1
    <3>2. CASE x # call
      <4>1. x \in 1 .. K
        BY <1>2, <1>3, <2>2, <3>2
      <4>2. PICK i \in DOMAIN d.turns : x = d.turns[i].call
        BY <1>3, <4>1
      <4>3. i \in DOMAIN c.turns /\ c.turns[i] = d.turns[i]
        BY <1>2
      <4>4. QED
        BY <4>2, <4>3
    <3>3. QED
      BY <3>1, <3>2
  <2>3. QED
    BY <2>1, <2>2
<1>6. ASSUME NEW i \in DOMAIN c.events
      PROVE  /\ c.events[i].call <= call /\ i <= c.boundary
             /\ c.events[i].call = call => c.events[i].attempt < attempt + 1
  <2>1. i \in DOMAIN d.events /\ i <= c.boundary /\ c.events[i] = d.events[i]
    BY <1>1, <1>2
  <2>2. d.events[i].call \in Nat /\ d.events[i].attempt \in Nat
    BY <1>1, <2>1
  <2>3. CASE i <= d.boundary
    <3>1. /\ d.events[i].call <= K
          /\ d.events[i].call = call => d.events[i].attempt < attempt
      BY <1>2, <2>1, <2>3 DEF Loose
    <3>2. d.events[i].call <= call
      BY <1>2, <1>4, <2>2, <3>1
    <3>3. d.events[i].call = call => d.events[i].attempt < attempt + 1
      BY <1>2, <2>2, <3>1
    <3>4. QED
      BY <2>1, <3>2, <3>3
  <2>4. CASE d.boundary < i
    <3>1. d.events[i].call = call /\ d.events[i].attempt = attempt
      BY <1>2, <2>4 DEF Loose
    <3>2. QED
      BY <1>1, <1>2, <3>1
  <2>5. QED
    BY <1>1, <1>2, <2>3, <2>4
<1>7. ASSUME NEW i \in DOMAIN c.turns
      PROVE  c.turns[i].result \in 1 .. c.boundary /\ c.events[c.turns[i].result].type = "tool.result"
  <2>1. CASE i = Len(d.turns) + 1
    <3>1. k \in DOMAIN d.events /\ d.events[k].type = "tool.result"
      BY DEF Turned
    <3>2. c.turns[i].result = k
      BY <1>2, <2>1
    <3>3. k \in 1 .. c.boundary
      BY <1>1, <1>2, <3>1
    <3>4. QED
      BY <1>2, <3>1, <3>2, <3>3
  <2>2. CASE i \in DOMAIN d.turns
    <3>1. /\ d.turns[i].result \in 1 .. d.boundary
          /\ d.events[d.turns[i].result].type = "tool.result"
      BY <2>2 DEF Loose
    <3>2. c.turns[i] = d.turns[i]
      BY <1>2, <2>2
    <3>3. d.turns[i].result \in 1 .. Len(d.events)
      BY <1>1, <1>3, <3>1
    <3>4. QED
      BY <1>2, <3>1, <3>2, <3>3
  <2>3. QED
    BY <1>2, <2>1, <2>2
<1>8. ~Started(c)
  BY <1>1, <1>2 DEF Started
<1>9. FrameOf(c, call)
  <2>1. call <= Len(c.turns) /\ Len(c.turns) <= MaxTools
    BY <1>2, <1>4
  <2>2. Len(c.pending) <= 1 /\ c.boundary <= Len(c.events)
    <3>1. Len(<<>>) = 0
      OBVIOUS
    <3>2. QED
      BY <1>1, <1>2, <3>1
  <2>3. c.pending # <<>> =>
          /\ c.pending[1].attempt <= Len(c.turns) + 1
          /\ c.pending[1].call = IF c.pending[1].attempt = 1 THEN call + 1 ELSE call
    <3>1. attempt + 1 <= Len(d.turns) + 1 + 1 /\ attempt + 1 # 1
      BY <1>2, <1>3
    <3>2. QED
      BY <1>2, <3>1
  <2>4. \A i \in DOMAIN c.events : i <= c.boundary =>
          /\ c.events[i].call <= call
          /\ c.pending # <<>> /\ c.events[i].call = c.pending[1].call
             => c.events[i].attempt < c.pending[1].attempt
    BY <1>2, <1>6
  <2>5. \A i \in DOMAIN c.events : ~(c.boundary < i)
    BY <1>1, <1>2
  <2>6. QED
    BY ONLY <1>5, <1>7, <1>8, <2>1, <2>2, <2>3, <2>4, <2>5 DEF FrameOf
<1>10. QED
  BY <1>2, <1>8, <1>9

\* What a checkpoint leaves.
Checkpointed(p, w, d, c) ==
  /\ Base(p, w, c) /\ Frame(c) /\ ~Started(c) /\ Beyond(p, w, c)
  /\ SameEvidence(d, c)

\* The checkpoint of an answered attempt.
LEMMA Checkpointing ==
  ASSUME NEW p, NEW w, NEW d, Base(p, w, d), NEW K \in Nat, Loose(d, K), Settled(d),
         Results(d, d.boundary + 1) # {}, Started(d), NEW c, c = checkpoint_after_tool(d)
  PROVE  Checkpointed(p, w, d, c)
<1>1. PICK k \in Nat, code \in Codes : Turned(d, c, k, code)
  BY Turning
<1>2. PICK call : call = d.pending[1].call
  OBVIOUS
<1>3. PICK attempt : attempt = d.pending[1].attempt
  OBVIOUS
<1>4. TurnedRows(d, c, k, code, call, attempt)
  BY <1>1, <1>2, <1>3, TurningRows
<1>5. FrameOf(c, call) /\ call \in Nat /\ ~Started(c)
  BY <1>1, <1>4, TurningFrame
<1>6. SameEvidence(d, c)
  BY <1>4 DEF TurnedRows
<1>7. Base(p, w, c)
  BY <1>6, BaseSame
<1>8. ASSUME NEW r \in Asked(c)
      PROVE  Results(c, r) # {}
  <2>1. r \in Asked(d) /\ Results(c, r) = Results(d, r)
    BY <1>6 DEF SameEvidence, Asked, Results, Positions
  <2>2. ~(d.boundary < r) \/ r = d.boundary + 1
    <3>1. d.boundary < r => d.events[r].request = d.boundary + 1
      BY <2>1 DEF Loose, Asked
    <3>2. d.events[r].request = r
      BY <2>1 DEF Base, Logged, Asked
    <3>3. QED
      BY <3>1, <3>2
  <2>3. QED
    BY <2>1, <2>2 DEF Settled
<1>9. Beyond(p, w, c)
  BY <1>5, <1>8 DEF Beyond
<1>10. QED
  BY <1>5, <1>6, <1>7, <1>9 DEF Checkpointed, Frame

-----------------------------------------------------------------------------
(* The committed rows, step by step.                                       *)

Sound(p, w, d) == Base(p, w, d) /\ Frame(d) /\ Beyond(p, w, d)

\* A pending call that can be executed.
Executable(p, w, z) == Sound(p, w, z) /\ ~Started(z) /\ z.pending # <<>> /\ Len(z.turns) < MaxTools

\* The other attempts keep their answers.
LEMMA SettledStays ==
  ASSUME NEW p, NEW w, NEW z, NEW o, NEW a, Settled(z), Underway(p, z, o, a), a = Current(z)
  PROVE  Settled(o)
<1>1. o.boundary = z.boundary /\ a.at = z.boundary + 1 /\ z \in Databases
  BY DEF Underway, Same, Current
<1>2. z.boundary \in Nat
  BY <1>1 DEF Databases
<1>3. ASSUME NEW r \in Asked(o), Results(o, r) = {}
      PROVE  o.boundary < r
  <2>1. CASE r = a.at
    BY <1>1, <1>2, <2>1
  <2>2. CASE r # a.at
    <3>1. r \in Asked(z)
      BY <2>2, AskedGrows
    <3>2. Results(z, r) = {}
      BY <1>3, <2>2, OthersEvidence
    <3>3. QED
      BY <1>1, <3>1, <3>2 DEF Settled
  <2>3. QED
    BY <2>1, <2>2
<1>4. QED
  BY <1>3 DEF Settled

\* The pending attempt's evidence begins beyond the checkpoint.
LEMMA StartedNow ==
  ASSUME NEW p, NEW z, NEW o, NEW a, Underway(p, z, o, a), a = Current(z)
  PROVE  Started(o) /\ a.at = o.boundary + 1 /\ o.boundary = z.boundary /\ o \in Databases
<1>1. o.boundary = z.boundary /\ a.at = z.boundary + 1 /\ z \in Databases /\ o \in Databases
  BY DEF Underway, Same, Current
<1>2. z.boundary \in Nat /\ DOMAIN o.events = 1 .. Len(o.events) /\ Len(o.events) \in Nat
  BY <1>1, Evidence DEF Databases
<1>3. a.at \in DOMAIN o.events
  BY DEF Underway, Asks, Asked
<1>4. QED
  BY <1>1, <1>2, <1>3 DEF Started

\* An attempt answered in the transaction of its checkpoint.
LEMMA Dispatching ==
  ASSUME NEW z, IsPlan(plan), Executable(plan, draws, z), NEW engine \in BOOLEAN,
         NEW u \in execute(z, FALSE, engine), NEW c, c = checkpoint_after_tool(u.db)
  PROVE  Sound(plan, draws, c) /\ ~Started(c)
<1>1. PICK a : a = Current(z)
  OBVIOUS
<1>2. /\ Base(plan, draws, z) /\ Frame(z) /\ Beyond(plan, draws, z)
      /\ ~Started(z) /\ z.pending # <<>> /\ Len(z.turns) < MaxTools
  BY DEF Executable, Sound
<1>3. Fate(z, a, FALSE, u)
  BY <1>1, <1>2, Executing
<1>4. PICK o : o = u.db
  OBVIOUS
<1>5. Kept(plan, draws, z, o, a)
  BY <1>3, <1>4 DEF Fate
<1>6. PICK K \in Nat : FrameOf(z, K)
  BY <1>2 DEF Frame
<1>7. Base(plan, draws, o) /\ Underway(plan, z, o, a)
  BY <1>5 DEF Kept
<1>8. Loose(o, K)
  BY <1>1, <1>2, <1>6, <1>7, LooseGrows
<1>9. Settled(z)
  BY <1>2 DEF Beyond, Settled
<1>10. Settled(o)
  BY <1>1, <1>7, <1>9, SettledStays
<1>11. Started(o) /\ a.at = o.boundary + 1
  BY <1>1, <1>7, StartedNow
<1>12. Results(o, o.boundary + 1) # {}
  BY <1>5, <1>11 DEF Kept, Answers
<1>13. Checkpointed(plan, draws, o, c)
  BY <1>4, <1>7, <1>8, <1>10, <1>11, <1>12, Checkpointing
<1>14. QED
  BY <1>13 DEF Checkpointed, Sound

\* No marker before the attempt starts.
LEMMA NoMarker ==
  ASSUME NEW p, NEW w, NEW z, Base(p, w, z), Frame(z), ~Started(z), z.pending # <<>>
  PROVE  Marker(z) = {}
<1>1. PICK a : a = Current(z)
  OBVIOUS
<1>2. Starts(z, a)
  BY <1>1, Starting
<1>3. a.call = z.pending[1].call /\ a.attempt = z.pending[1].attempt
  BY <1>1 DEF Current
<1>4. QED
  BY <1>2, <1>3 DEF Starts, Marker

\* The first transaction of the durable path, with an answer or a debt.
LEMMA Durable ==
  ASSUME NEW z, IsPlan(plan), Executable(plan, draws, z), z.pending[1].q \in Mutations,
         NEW u \in execute(z, TRUE, TRUE), NEW o, o = u.db
  PROVE  /\ Sound(plan, draws, o) /\ Started(o)
         /\ \/ u.owed = <<>> /\ ~Unanswered(o)
            \/ /\ u.owed # <<>> /\ Unanswered(o)
               /\ u.owed = Sel(plan, draws, o, Current(o), "after_commit")
<1>1. PICK a : a = Current(z)
  OBVIOUS
<1>2. /\ Base(plan, draws, z) /\ Frame(z) /\ Beyond(plan, draws, z)
      /\ ~Started(z) /\ z.pending # <<>> /\ Len(z.turns) < MaxTools
  BY DEF Executable, Sound
<1>3. Fate(z, a, TRUE, u)
  BY <1>1, <1>2, Executing
<1>4. Settled(z) /\ a.q \in Mutations
  BY <1>1, <1>2 DEF Beyond, Settled, Current
<1>5. CASE u.owed = <<>> /\ Kept(plan, draws, z, o, a)
  <2>1. Base(plan, draws, o) /\ Underway(plan, z, o, a) /\ o.markers = z.markers
    BY <1>5 DEF Kept
  <2>2. Frame(o)
    BY <1>1, <1>2, <1>4, <2>1, LooseIsFrame
  <2>3. Settled(o)
    BY <1>1, <1>4, <2>1, SettledStays
  <2>4. Started(o) /\ a.at = o.boundary + 1
    BY <1>1, <2>1, StartedNow
  <2>5. PICK k \in Nat, code \in Codes : Answers(o, a, k, code)
    BY <1>5 DEF Kept
  <2>6. Results(o, o.boundary + 1) = {k}
    BY <2>4, <2>5 DEF Answers
  <2>7. o.pending = z.pending
    BY <2>1 DEF Underway, Same
  <2>8. Marker(o) = {}
    <3>1. Marker(z) = {}
      BY <1>2, NoMarker
    <3>2. QED
      BY <2>1, <2>7, <3>1 DEF Marker
  <2>9. Finished(o)
    <3>1. /\ o.events[k].info \in {"read", "newly_applied"} => Effect(a) \in o.effects
          /\ o.events[k].info = "newly_applied" =>
               \E s \in DOMAIN o.events :
                 \A i \in DOMAIN o.events :
                   i = s <=> k < i /\ o.events[i].type = "state.evidence_recorded" /\ o.events[i].cause = k
      BY <1>4, <2>5 DEF Answers
    <3>2. Effect(a) = [q |-> o.pending[1].q, call |-> o.pending[1].call,
                       attempt |-> o.pending[1].attempt]
      BY <1>1, <2>7 DEF Effect, Current
    <3>3. QED
      BY <2>6, <3>1, <3>2 DEF Finished
  <2>10. Done(plan, draws, o)
    BY <2>8, <2>9 DEF Done
  <2>11. Beyond(plan, draws, o)
    BY <2>3, <2>6, <2>10 DEF Beyond, Settled
  <2>12. ~Unanswered(o)
    BY <2>6 DEF Unanswered
  <2>13. QED
    BY <1>5, <2>1, <2>2, <2>4, <2>11, <2>12 DEF Sound
<1>6. CASE Owes(plan, draws, z, o, a, u.owed)
  <2>1. /\ Base(plan, draws, o) /\ Underway(plan, z, o, a) /\ Results(o, a.at) = {}
        /\ Half(plan, draws, o) /\ u.owed = Sel(plan, draws, o, a, "after_commit")
        /\ u.owed # <<>>
    BY <1>6 DEF Owes
  <2>2. Frame(o)
    BY <1>1, <1>2, <1>4, <2>1, LooseIsFrame
  <2>3. Settled(o)
    BY <1>1, <1>4, <2>1, SettledStays
  <2>4. Started(o) /\ a.at = o.boundary + 1
    BY <1>1, <2>1, StartedNow
  <2>5. Beyond(plan, draws, o)
    BY <2>1, <2>3, <2>4 DEF Beyond, Settled
  <2>6. Unanswered(o)
    BY <2>1, <2>4 DEF Unanswered
  <2>7. Current(o) = a
    BY <1>1, <2>1 DEF Underway, Same, Current
  <2>8. QED
    BY <2>1, <2>2, <2>4, <2>5, <2>6, <2>7 DEF Sound
<1>7. QED
  BY <1>3, <1>5, <1>6 DEF Fate

\* The marker of an attempt whose acknowledgement is owed.
LEMMA MarkerIs ==
  ASSUME NEW p, NEW w, NEW z, Sound(p, w, z), Unanswered(z), NEW m \in Marker(z),
         NEW a, a = Current(z)
  PROVE  /\ z.pending # <<>> /\ Len(z.turns) < MaxTools /\ z.pending[1].q \in Mutations
         /\ Attempt(z, m.at) = a /\ m.at = a.at
         /\ Sel(p, w, z, a, "after_commit") # <<>>
         /\ Sel(p, w, z, a, "after_commit")[1].id = m.rule
         /\ \E r : Awaits(p, w, z, a, m, r) /\ r.id = m.rule
         /\ Valid(p, w, z, m)
<1>1. Base(p, w, z) /\ Frame(z) /\ Beyond(p, w, z) /\ Started(z) /\ Results(z, z.boundary + 1) = {}
  BY DEF Sound, Unanswered
<1>2. Half(p, w, z)
  BY <1>1 DEF Beyond
<1>3. Valid(p, w, z, m) /\ Waits(p, w, z, m)
  BY <1>2 DEF Half
<1>4. PICK K \in Nat : FrameOf(z, K)
  BY <1>1 DEF Frame
<1>5. Len(z.turns) < MaxTools /\ z.pending[1].q \in Mutations
  BY <1>1, <1>4 DEF FrameOf
<1>6. /\ z \in Databases /\ z.pending # <<>> /\ a.at = z.boundary + 1
  BY <1>1, UnderFrame
<1>7. m.at = z.boundary + 1
  BY <1>3 DEF Valid
<1>8. Attempt(z, z.boundary + 1) = a
  BY <1>1, <1>6, AttemptIs
<1>9. /\ Sel(p, w, z, a, "after_commit") # <<>>
      /\ Sel(p, w, z, a, "after_commit")[1].id = m.rule
  BY <1>3 DEF Waits
<1>10. PICK r : r = Sel(p, w, z, a, "after_commit")[1]
  OBVIOUS
<1>11. Awaits(p, w, z, a, m, r) /\ r.id = m.rule
  BY <1>1, <1>3, <1>6, <1>9, <1>10 DEF Awaits
<1>12. QED
  BY <1>3, <1>5, <1>6, <1>7, <1>8, <1>9, <1>11

\* There is one.
LEMMA MarkerThere ==
  ASSUME NEW p, NEW w, NEW z, Sound(p, w, z), Unanswered(z)
  PROVE  Marker(z) # {}
<1>1. Beyond(p, w, z) /\ Started(z) /\ Results(z, z.boundary + 1) = {}
  BY DEF Sound, Unanswered
<1>2. QED
  BY <1>1 DEF Beyond, Half

\* An acknowledged attempt's marker is valid still.
LEMMA ValidStays ==
  ASSUME NEW p, NEW w, NEW z, NEW o, NEW a, NEW m \in z.markers, Marked(p, z), Valid(p, w, z, m),
         Underway(p, z, o, a), Rest(z, o)
  PROVE  Valid(p, w, o, m)
<1>1. m.state \in DOMAIN z.events
  BY DEF Marked
<1>2. o.events[m.state] = z.events[m.state]
  BY <1>1, AskedGrows
<1>3. /\ o.pending = z.pending /\ o.boundary = z.boundary
      /\ o.effects = z.effects /\ o.approvals = z.approvals
  BY DEF Underway, Same, Rest
<1>4. gate(o, o.pending[1].q) = gate(z, z.pending[1].q)
  BY <1>3 DEF gate
<1>5. QED
  BY <1>2, <1>3, <1>4 DEF Valid

\* The second transaction of the durable path.
LEMMA Acknowledged ==
  ASSUME NEW z, IsPlan(plan), Sound(plan, draws, z), Unanswered(z), NEW a, a = Current(z),
         NEW owed, owed = Sel(plan, draws, z, a, "after_commit"),
         NEW o, Acknowledges(z, o, a, owed)
  PROVE  Sound(plan, draws, o) /\ Started(o) /\ ~Unanswered(o)
<1>1. Base(plan, draws, z) /\ Frame(z) /\ Beyond(plan, draws, z)
  BY DEF Sound
<1>2. ASSUME NEW m \in Marker(z)
      PROVE  /\ Acked(z, o, a, m) /\ Valid(plan, draws, z, m) /\ z.pending # <<>>
             /\ Len(z.turns) < MaxTools /\ z.pending[1].q \in Mutations
  <2>1. PICK r : Awaits(plan, draws, z, a, m, r) /\ r.id = m.rule
    BY MarkerIs
  <2>2. owed # <<>>
    BY MarkerIs
  <2>3. Acked(z, o, a, m)
    BY <2>1, <2>2, Acknowledging
  <2>4. QED
    BY <2>3, MarkerIs
<1>3. PICK n \in Marker(z) : TRUE
  BY MarkerThere
<1>4. /\ Acked(z, o, a, n) /\ z.pending # <<>> /\ Len(z.turns) < MaxTools
      /\ z.pending[1].q \in Mutations
  BY <1>2
<1>5. /\ Base(plan, draws, o) /\ Underway(plan, z, o, a) /\ Rest(z, o) /\ Results(o, a.at) # {}
  BY <1>4 DEF Acked
<1>6. a.q \in Mutations
  BY <1>4 DEF Current
<1>7. Frame(o)
  BY <1>1, <1>4, <1>5, <1>6, LooseIsFrame
<1>8. Settled(z)
  BY <1>1 DEF Beyond, Settled
<1>9. Settled(o)
  BY <1>5, <1>8, SettledStays
<1>10. Started(o) /\ a.at = o.boundary + 1
  BY <1>5, StartedNow
<1>11. Marker(o) = Marker(z)
  BY <1>5 DEF Underway, Same, Rest, Marker
<1>12. Done(plan, draws, o)
  <2>1. ASSUME NEW m \in Marker(o)
        PROVE  Valid(plan, draws, o, m) /\ Told(o, m)
    <3>1. m \in Marker(z) /\ m \in z.markers
      BY <1>11 DEF Marker
    <3>2. Acked(z, o, a, m) /\ Valid(plan, draws, z, m)
      BY <1>2, <3>1
    <3>3. Marked(plan, z)
      BY <1>1 DEF Base
    <3>4. Valid(plan, draws, o, m)
      BY <1>5, <3>1, <3>2, <3>3, ValidStays
    <3>5. Told(o, m)
      BY <3>2 DEF Acked
    <3>6. QED
      BY <3>4, <3>5
  <2>2. QED
    BY <1>3, <1>11, <2>1 DEF Done
<1>13. Beyond(plan, draws, o)
  BY <1>5, <1>9, <1>10, <1>12 DEF Beyond, Settled
<1>14. ~Unanswered(o)
  BY <1>5, <1>10 DEF Unanswered
<1>15. QED
  BY <1>5, <1>7, <1>10, <1>13, <1>14 DEF Sound

\* A checkpoint of what is answered.
LEMMA Storing ==
  ASSUME NEW p, NEW w, NEW z, Sound(p, w, z), Started(z), ~Unanswered(z),
         NEW c, c = checkpoint_after_tool(z)
  PROVE  Sound(p, w, c) /\ ~Started(c) /\ SameEvidence(z, c)
<1>1. Base(p, w, z) /\ Frame(z) /\ Beyond(p, w, z)
  BY DEF Sound
<1>2. PICK K \in Nat : FrameOf(z, K)
  BY <1>1 DEF Frame
<1>3. z.pending # <<>>
  BY <1>1, UnderFrame
<1>4. Len(z.turns) < MaxTools
  BY <1>2 DEF FrameOf
<1>5. Loose(z, K)
  BY <1>1, <1>2, <1>3, <1>4, FrameIsLoose
<1>6. Results(z, z.boundary + 1) # {}
  BY DEF Unanswered
<1>7. Settled(z)
  BY <1>1 DEF Beyond, Settled
<1>8. Checkpointed(p, w, z, c)
  BY <1>1, <1>5, <1>6, <1>7, Checkpointing
<1>9. QED
  BY <1>8 DEF Checkpointed, Sound

\* Rows of the Run that evidence does not refer to.
SameRows(z, c) ==
  /\ SameEvidence(z, c) /\ c.turns = z.turns /\ c.pending = z.pending /\ c.boundary = z.boundary
  /\ gate(z, z.pending[1].q) = "pass" => gate(c, z.pending[1].q) = "pass"

\* They leave what is said of the evidence.
LEMMA SoundSame ==
  ASSUME NEW p, NEW w, NEW z, Sound(p, w, z), NEW c, SameRows(z, c)
  PROVE  /\ Sound(p, w, c) /\ (Started(c) <=> Started(z)) /\ (Unanswered(c) <=> Unanswered(z))
         /\ Current(c) = Current(z)
         /\ \A a : Sel(p, w, c, a, "after_commit") = Sel(p, w, z, a, "after_commit")
<1>1. /\ c \in Databases /\ c.events = z.events /\ c.effects = z.effects /\ c.markers = z.markers
      /\ c.turns = z.turns /\ c.pending = z.pending /\ c.boundary = z.boundary
  BY DEF SameRows, SameEvidence
<1>2. Base(p, w, c)
  BY BaseSame DEF Sound, SameRows
<1>3. Started(c) <=> Started(z)
  BY <1>1 DEF Started
<1>4. Frame(c)
  <2>1. PICK K \in Nat : FrameOf(z, K)
    BY DEF Sound, Frame
  <2>2. FrameOf(c, K)
    BY <1>1, <1>3, <2>1 DEF FrameOf
  <2>3. QED
    BY <2>2 DEF Frame
<1>5. \A r : /\ Matches(c, r) = Matches(z, r) /\ Applies(c, r) = Applies(z, r)
             /\ Results(c, r) = Results(z, r) /\ Observed(c, r) = Observed(z, r)
  BY <1>1 DEF Matches, Applies, Results, Observed, Positions
<1>6. Current(c) = Current(z) /\ Marker(c) = Marker(z) /\ Asked(c) = Asked(z)
  BY <1>1 DEF Current, Marker, Asked
<1>7. \A a : Sel(p, w, c, a, "after_commit") = Sel(p, w, z, a, "after_commit")
  BY <1>1 DEF Sel, Wants, Capped, Occurrences
<1>8. ASSUME NEW m, Valid(p, w, z, m)
      PROVE  Valid(p, w, c, m)
  <2>1. gate(c, c.pending[1].q) = "pass"
    BY <1>1, <1>8 DEF Valid, SameRows
  <2>2. QED
    BY <1>1, <1>8, <2>1 DEF Valid
<1>9. ASSUME NEW m, Waits(p, w, z, m)
      PROVE  Waits(p, w, c, m)
  <2>1. Used(p, c, m.at) = Used(p, z, m.at)
    BY <1>1, <1>5 DEF Used
  <2>2. QED
    BY <1>1, <1>5, <1>6, <1>7, <1>9, <2>1 DEF Waits
<1>10. ASSUME NEW m, Told(z, m)
       PROVE  Told(c, m)
  BY <1>1, <1>5, <1>10 DEF Told
<1>11. Half(p, w, z) => Half(p, w, c)
  BY <1>6, <1>8, <1>9 DEF Half
<1>12. Done(p, w, z) => Done(p, w, c)
  <2>1. Finished(z) => Finished(c)
    BY <1>1, <1>5 DEF Finished
  <2>2. QED
    BY <1>6, <1>8, <1>10, <2>1 DEF Done
<1>13. Beyond(p, w, c)
  <2>1. Beyond(p, w, z)
    BY DEF Sound
  <2>2. QED
    BY <1>1, <1>3, <1>5, <1>6, <1>11, <1>12, <2>1 DEF Beyond
<1>14. Unanswered(c) <=> Unanswered(z)
  BY <1>1, <1>3, <1>5 DEF Unanswered
<1>15. QED
  BY <1>2, <1>3, <1>4, <1>6, <1>7, <1>13, <1>14 DEF Sound

\* A load adopts what has an answer.
LEMMA Adopting ==
  ASSUME NEW p, NEW w, NEW z, Sound(p, w, z), NEW engine \in BOOLEAN, recovery(z, engine) = "adopt"
  PROVE  Started(z) /\ ~Unanswered(z)
<1>1. Base(p, w, z) /\ Frame(z) /\ Beyond(p, w, z) /\ z \in Databases /\ Logged(z)
  BY DEF Sound, Base
<1>2. z.pending # <<>> /\ engine
  BY DEF recovery
<1>3. PICK K \in Nat : FrameOf(z, K)
  BY <1>1 DEF Frame
<1>4. CASE Marker(z) # {}
  <2>1. PICK m : m = CHOOSE k \in Marker(z) : TRUE
    OBVIOUS
  <2>2. m \in Marker(z)
    BY <1>4, <2>1
  <2>3. Started(z)
    BY <1>1, <1>2, <2>2, NoMarker
  <2>4. recover_post_commit_attempt(z, m) = "adopt"
    BY <1>2, <1>4, <2>1 DEF recovery
  <2>5. acknowledged(z, m)
    BY <2>4 DEF recover_post_commit_attempt
  <2>6. PICK i \in DOMAIN z.events : m.state < i /\
          \E j, k, o \in i + 1 .. Len(z.events) : z.events[k].type = "tool.result"
    BY <2>5 DEF acknowledged
  <2>7. PICK k \in i + 1 .. Len(z.events) : z.events[k].type = "tool.result"
    BY <2>6
  <2>8. ASSUME Unanswered(z)
        PROVE  FALSE
    <3>1. Valid(p, w, z, m)
      BY <2>2, <2>8, MarkerIs
    <3>2. m.at = z.boundary + 1 /\ m.at < m.state
      BY <3>1 DEF Valid
    <3>3. m \in Markers
      BY <1>1, <2>2 DEF Databases, Marker
    <3>4. m.state \in Nat /\ m.at \in Nat
      BY <3>3 DEF Markers
    <3>5. z.boundary \in Nat /\ DOMAIN z.events = 1 .. Len(z.events) /\ Len(z.events) \in Nat
      BY <1>1, Evidence DEF Databases
    <3>6. k \in DOMAIN z.events /\ z.boundary < k
      BY ONLY <2>6, <2>7, <3>2, <3>4, <3>5
    <3>7. z.events[k].request = z.boundary + 1
      BY <1>3, <3>6 DEF FrameOf
    <3>8. k \in Results(z, z.boundary + 1)
      BY <2>7, <3>6, <3>7 DEF Results, Positions
    <3>9. QED
      BY <2>8, <3>8 DEF Unanswered
  <2>9. QED
    BY <2>3, <2>8
<1>5. CASE Marker(z) = {}
  <2>1. recover_committed_tool_attempt(z) = "adopt"
    BY <1>2, <1>5 DEF recovery
  <2>2. Requested(z) # {} /\ Cardinality(Answered(z)) = 1
    BY <2>1 DEF recover_committed_tool_attempt
  <2>3. Started(z)
    BY <1>1, <1>2, <1>3, <2>2, RequestedNone
  <2>4. Len(z.turns) < MaxTools
    BY <1>3, <2>3 DEF FrameOf
  <2>5. Loose(z, K)
    BY <1>1, <1>2, <1>3, <2>4, FrameIsLoose
  <2>6. Answered(z) = Results(z, z.boundary + 1)
    BY <1>1, <2>3, <2>5, RequestedIs
  <2>7. Answered(z) # {}
    <3>1. Cardinality({}) = 0
      BY FS_EmptySet
    <3>2. QED
      BY <2>2, <3>1
  <2>8. QED
    BY <2>3, <2>6, <2>7 DEF Unanswered
<1>6. QED
  BY <1>4, <1>5

\* What a load leaves beyond the checkpoint is an acknowledgement still owed.
LEMMA LoadingWaits ==
  ASSUME NEW p, NEW w, NEW z, Sound(p, w, z), NEW engine \in BOOLEAN, Loads(z, engine),
         recovery(z, engine) # "adopt", Started(z)
  PROVE  engine /\ Unanswered(z)
<1>1. Base(p, w, z) /\ Frame(z) /\ z \in Databases /\ Logged(z)
  BY DEF Sound, Base
<1>2. load_state(z, engine) = z
  BY DEF load_state
<1>3. z.boundary + 1 .. Len(z.events) \in SUBSET allowed_event_ids(z, engine)
  BY <1>2 DEF Loads
<1>4. z.boundary \in Nat /\ Len(z.events) \in Nat
  BY <1>1, Evidence DEF Databases
<1>5. z.boundary + 1 \in z.boundary + 1 .. Len(z.events)
  BY <1>4 DEF Started
<1>6. recovery(z, engine) = "wait"
  BY <1>3, <1>5 DEF allowed_event_ids
<1>7. z.pending # <<>> /\ engine
  BY <1>6 DEF recovery
<1>8. Marker(z) # {}
  BY <1>6, <1>7 DEF recovery, recover_committed_tool_attempt
<1>9. recover_post_commit_attempt(z, CHOOSE m \in Marker(z) : TRUE) = "wait"
  BY <1>6, <1>7, <1>8 DEF recovery
<1>10. Answered(z) = {}
  BY <1>9 DEF recover_post_commit_attempt
<1>11. PICK K \in Nat : FrameOf(z, K)
  BY <1>1 DEF Frame
<1>12. Len(z.turns) < MaxTools
  BY <1>11 DEF FrameOf
<1>13. Loose(z, K)
  BY <1>1, <1>7, <1>11, <1>12, FrameIsLoose
<1>14. Answered(z) = Results(z, z.boundary + 1)
  BY <1>1, <1>13, RequestedIs
<1>15. QED
  BY <1>7, <1>10, <1>14 DEF Unanswered

\* A load, whatever it does.
LEMMA Loading ==
  ASSUME NEW p, NEW w, NEW z, Sound(p, w, z), NEW engine \in BOOLEAN, Loads(z, engine),
         NEW c, c = load_state(z, engine)
  PROVE  Sound(p, w, c) /\ (Started(c) => engine /\ Unanswered(c))
<1>1. CASE recovery(z, engine) = "adopt"
  <2>1. c = checkpoint_after_tool(z)
    BY <1>1 DEF load_state
  <2>2. Started(z) /\ ~Unanswered(z)
    BY <1>1, Adopting
  <2>3. QED
    BY <2>1, <2>2, Storing
<1>2. CASE recovery(z, engine) # "adopt"
  <2>1. c = z
    BY <1>2 DEF load_state
  <2>2. QED
    BY <1>2, <2>1, LoadingWaits
<1>3. QED
  BY <1>1, <1>2

\* The agent asks for another call.
LEMMA Asking ==
  ASSUME NEW p, NEW w, NEW z, Sound(p, w, z), z.pending = <<>>, NEW q \in Requests,
         NEW n, n = Cardinality({z.turns[i].call : i \in DOMAIN z.turns}) + 1,
         NEW c, c = [z EXCEPT !.pending = <<[call |-> n, attempt |-> 1, q |-> q]>>]
  PROVE  Sound(p, w, c) /\ ~Started(c)
<1>1. Base(p, w, z) /\ Frame(z) /\ Beyond(p, w, z) /\ z \in Databases
  BY DEF Sound, Base
<1>2. PICK K \in Nat : FrameOf(z, K)
  BY <1>1 DEF Frame
<1>3. /\ K <= Len(z.turns) /\ Len(z.turns) <= MaxTools
      /\ {z.turns[i].call : i \in DOMAIN z.turns} = 1 .. K
      /\ z.boundary <= Len(z.events) /\ z.turns \in Seq(Turns) /\ Len(z.turns) \in Nat
  BY <1>1, <1>2 DEF FrameOf, Databases
<1>4. n = K + 1
  <2>1. Cardinality(1 .. K) = K
    <3>1. 1 \in Int /\ K \in Int /\ 1 <= K + 1
      OBVIOUS
    <3>2. Cardinality(1 .. K) = IF 1 > K THEN 0 ELSE K - 1 + 1
      BY <3>1, FS_Interval
    <3>3. QED
      BY <3>2
  <2>2. QED
    BY <1>3, <2>1
<1>5. n \in Numbers /\ 1 \in Numbers
  BY <1>3, <1>4, FaultAssumption DEF Numbers
<1>6. /\ z.boundary \in Nat /\ Len(z.events) \in Nat /\ DOMAIN z.events = 1 .. Len(z.events)
  BY <1>1, Evidence DEF Databases
<1>7. PICK x : x = [call |-> n, attempt |-> 1, q |-> q]
  OBVIOUS
<1>8. x \in Pendings /\ x.call = n /\ x.attempt = 1
  BY <1>5, <1>7 DEF Pendings
<1>9. <<x>> \in Seq(Pendings) /\ Len(<<x>>) = 1 /\ <<x>>[1] = x
  BY <1>8, Single
<1>10. c = [z EXCEPT !.pending = <<x>>]
  BY <1>7
<1>11. /\ c \in Databases /\ c.pending = <<x>> /\ c.events = z.events /\ c.effects = z.effects
       /\ c.markers = z.markers /\ c.turns = z.turns /\ c.boundary = z.boundary
  BY <1>1, <1>9, <1>10 DEF Databases
<1>12. \A i \in DOMAIN z.events : i <= z.boundary
  <2>1. \A i \in DOMAIN z.events : ~(z.boundary < i)
    BY <1>2 DEF FrameOf
  <2>2. QED
    BY <1>6, <2>1
<1>13. ~Started(c) /\ ~Started(z)
  <2>1. ~(z.boundary < Len(z.events))
    <3>1. z.boundary < Len(z.events) => Len(z.events) \in DOMAIN z.events
      BY ONLY <1>6
    <3>2. z.boundary < Len(z.events) => Len(z.events) <= z.boundary
      BY ONLY <3>1, <1>12
    <3>3. QED
      BY ONLY <1>6, <3>2
  <2>2. QED
    BY <1>11, <2>1 DEF Started
<1>14. SameEvidence(z, c)
  BY <1>11 DEF SameEvidence
<1>15. Base(p, w, c)
  BY <1>1, <1>14, BaseSame
<1>16. Frame(c)
  <2>1. \A i \in DOMAIN z.events : z.events[i].call <= K /\ z.events[i].call # K + 1
    <3>1. \A i \in DOMAIN z.events : z.events[i].call <= K
      BY <1>2, <1>12 DEF FrameOf
    <3>2. \A i \in DOMAIN z.events : z.events[i].call \in Nat
      BY <1>1, Evidence, NumbersAre DEF Events
    <3>3. QED
      BY <3>1, <3>2
  <2>2. /\ c.pending[1].call = K + 1 /\ c.pending[1].attempt = 1 /\ c.pending # <<>>
        /\ Len(c.pending) <= 1
    BY <1>4, <1>8, <1>9, <1>11
  <2>3. \A i \in DOMAIN c.turns : /\ c.turns[i].result \in 1 .. c.boundary
                                  /\ c.events[c.turns[i].result].type = "tool.result"
    BY <1>2, <1>11 DEF FrameOf
  <2>4. 1 <= Len(c.turns) + 1
    BY <1>3, <1>11
  <2>5. \A i \in DOMAIN c.events : ~(c.boundary < i)
    <3>1. \A i \in DOMAIN z.events : i \in Nat /\ i <= z.boundary
      BY ONLY <1>6, <1>12
    <3>2. \A i \in DOMAIN z.events : ~(z.boundary < i)
      BY ONLY <1>6, <3>1
    <3>3. QED
      BY <1>11, <3>2
  <2>6. FrameOf(c, K)
    BY ONLY <1>3, <1>11, <1>13, <2>1, <2>2, <2>3, <2>4, <2>5 DEF FrameOf
  <2>7. QED
    BY <2>6 DEF Frame
<1>17. Beyond(p, w, c)
  <2>1. Asked(c) = Asked(z) /\ \A r : Results(c, r) = Results(z, r)
    BY <1>11 DEF Asked, Results, Positions
  <2>2. QED
    BY <1>1, <1>11, <1>13, <2>1 DEF Beyond
<1>18. QED
  BY <1>13, <1>15, <1>16, <1>17 DEF Sound

-----------------------------------------------------------------------------
(* The call in memory.                                                     *)

\* No call.
LEMMA ProcIdle ==
  ASSUME NEW p, NEW w, NEW d
  PROVE  Process(p, w, d, Idle)
<1>1. Idle.pc = "idle" /\ Idle.owed = <<>> /\ Idle.engine = FALSE
  BY DEF Idle
<1>2. Idle \in Procs
  BY EmptyList DEF Idle, Procs
<1>3. DOMAIN <<>> = {}
  OBVIOUS
<1>4. QED
  BY <1>1, <1>2, <1>3 DEF Process

\* A call that has taken the Run over.
LEMMA ProcTakes ==
  ASSUME NEW p, NEW w, NEW d, NEW engine \in BOOLEAN,
         NEW c, c = [Idle EXCEPT !.pc = "loading", !.engine = engine]
  PROVE  Process(p, w, d, c)
<1>1. Idle \in Procs /\ Idle.owed = <<>>
  BY EmptyList DEF Idle, Procs
<1>2. c.pc = "loading" /\ c.owed = <<>> /\ c \in Procs
  BY <1>1 DEF Procs
<1>3. DOMAIN <<>> = {}
  OBVIOUS
<1>4. QED
  BY <1>2, <1>3 DEF Process

\* What a point of the call asks of the rows.
MayGo(c, d, s) ==
  /\ s = "ready" => c.pc = "loading" /\ (Started(d) => c.engine /\ Unanswered(d))
  /\ s = "checkpoint" => Started(d) /\ ~Unanswered(d)

\* The same call with other rows, at a point that asks nothing of them.
LEMMA ProcGoes ==
  ASSUME NEW p, NEW w, NEW z, NEW d, NEW c, Process(p, w, z, c),
         NEW s \in {"ready", "checkpoint", "terminating"}, NEW n, n = [c EXCEPT !.pc = s],
         MayGo(c, d, s)
  PROVE  Process(p, w, d, n)
<1>1. c \in Procs
  BY DEF Process
<1>2. n \in Procs /\ n.pc = s /\ n.engine = c.engine /\ n.owed = c.owed
  BY <1>1 DEF Procs
<1>3. s = "ready" => n.owed = <<>>
  BY <1>2 DEF Process, MayGo
<1>4. \A k \in DOMAIN n.owed : \E x \in DOMAIN p : p[x] = n.owed[k]
  BY <1>2 DEF Process
<1>5. QED
  BY <1>2, <1>3, <1>4 DEF Process, MayGo

MayOwe(p, w, c, d, ms) ==
  c.engine /\ Unanswered(d) /\ ms = Sel(p, w, d, Current(d), "after_commit")

Holds(c, n, ms) == n = [c EXCEPT !.pc = "acknowledge", !.owed = ms]

\* A call that holds the rules of an acknowledgement it owes.
LEMMA ProcOwes ==
  ASSUME NEW p, NEW w, IsPlan(p), NEW z, NEW d, NEW c, Process(p, w, z, c),
         NEW ms, MayOwe(p, w, c, d, ms),
         NEW n, Holds(c, n, ms)
  PROVE  Process(p, w, d, n)
<1>1. c \in Procs
  BY DEF Process
<1>2. List(p, ms)
  BY Selecting DEF MayOwe
<1>3. ms \in Seq(CompiledFaultRules) /\ \A k \in DOMAIN ms : \E x \in DOMAIN p : p[x] = ms[k]
  BY <1>2 DEF List
<1>4. n \in Procs /\ n.pc = "acknowledge" /\ n.engine = c.engine /\ n.owed = ms
  BY <1>1, <1>3 DEF Procs, Holds
<1>5. QED
  BY <1>3, <1>4 DEF Process, MayOwe

\* After a checkpoint the call loads the Run anew.
LEMMA ProcLoads ==
  ASSUME NEW p, NEW w, NEW z, NEW d, NEW c, Process(p, w, z, c),
         NEW n, n = [c EXCEPT !.pc = "loading", !.owed = <<>>]
  PROVE  Process(p, w, d, n)
<1>1. c \in Procs
  BY DEF Process
<1>2. n \in Procs /\ n.pc = "loading" /\ n.owed = <<>>
  BY <1>1, EmptyList DEF Procs
<1>3. DOMAIN <<>> = {}
  OBVIOUS
<1>4. QED
  BY <1>2, <1>3 DEF Process

\* Rows that evidence does not refer to leave the call as it is.
LEMMA ProcSame ==
  ASSUME NEW p, NEW w, NEW z, Sound(p, w, z), NEW d, SameRows(z, d), NEW c, Process(p, w, z, c)
  PROVE  Process(p, w, d, c)
<1>1. /\ (Started(d) <=> Started(z)) /\ (Unanswered(d) <=> Unanswered(z))
      /\ Current(d) = Current(z)
      /\ \A a : Sel(p, w, d, a, "after_commit") = Sel(p, w, z, a, "after_commit")
  BY SoundSame
<1>2. Sel(p, w, d, Current(d), "after_commit") = Sel(p, w, z, Current(z), "after_commit")
  BY <1>1
<1>3. QED
  BY <1>1, <1>2 DEF Process

\* A status, or an answer of the operator, changes no other row.
LEMMA Statuses ==
  ASSUME NEW z \in Databases, NEW s \in Terminal, NEW c, c = [z EXCEPT !.status = s]
  PROVE  SameRows(z, c)
<1>1. /\ c \in Databases /\ c.events = z.events /\ c.effects = z.effects /\ c.markers = z.markers
      /\ c.turns = z.turns /\ c.pending = z.pending /\ c.boundary = z.boundary
      /\ c.approvals = z.approvals
  BY DEF Databases
<1>2. QED
  BY <1>1 DEF SameRows, SameEvidence, gate

\* An answer of the operator closes no gate that was open.
LEMMA Resolutions ==
  ASSUME NEW z \in Databases, NEW q \in NeedsApproval, NEW s \in {"approved", "denied"},
         z.approvals[q] = "pending", NEW c, c = [z EXCEPT !.approvals[q] = s]
  PROVE  SameRows(z, c)
<1>1. q \in Requests
  BY FaultAssumption
<1>2. /\ c \in Databases /\ c.events = z.events /\ c.effects = z.effects /\ c.markers = z.markers
      /\ c.turns = z.turns /\ c.pending = z.pending /\ c.boundary = z.boundary
      /\ \A r \in Requests : c.approvals[r] = IF r = q THEN s ELSE z.approvals[r]
  BY <1>1 DEF Databases
<1>3. \A r : gate(z, r) = "pass" => gate(c, r) = "pass"
  <2>1. ASSUME NEW r, gate(z, r) = "pass"
        PROVE  gate(c, r) = "pass"
    <3>1. r \notin NeedsApproval \/ z.approvals[r] = "approved"
      BY <2>1 DEF gate
    <3>2. CASE r \notin NeedsApproval
      BY <3>2 DEF gate
    <3>3. CASE r \in NeedsApproval
      <4>1. r \in Requests /\ r # q
        BY <3>1, <3>3, FaultAssumption
      <4>2. c.approvals[r] = "approved"
        BY <1>2, <3>1, <3>3, <4>1
      <4>3. QED
        BY <4>2 DEF gate
    <3>4. QED
      BY <3>2, <3>3
  <2>2. QED
    BY <2>1
<1>4. QED
  BY <1>2, <1>3 DEF SameRows, SameEvidence

-----------------------------------------------------------------------------
(* The invariant.                                                          *)

\* The plans are compiled.
LEMMA PlansAre ==
  ASSUME NEW p \in Plans
  PROVE  IsPlan(p)
BY FaultAssumption DEF IsPlan

\* A new Run has it.
LEMMA Initially ==
  ASSUME Init
  PROVE  IInv
<1>1. /\ plan \in Plans /\ proc = Idle
      /\ run = [status |-> "running", events |-> <<>>, effects |-> {}, markers |-> {},
                turns |-> <<>>, pending |-> <<>>, boundary |-> 0,
                approvals |-> [q \in Requests |-> "none"]]
  BY DEF Init
<1>2. PICK d : d = run
  OBVIOUS
<1>3. /\ d.events = <<>> /\ d.effects = {} /\ d.markers = {} /\ d.turns = <<>>
      /\ d.pending = <<>> /\ d.boundary = 0
  BY <1>1, <1>2
<1>4. /\ <<>> \in Seq(Events) /\ <<>> \in Seq(Turns) /\ <<>> \in Seq(Pendings)
      /\ DOMAIN <<>> = {} /\ Len(<<>>) = 0
  OBVIOUS
<1>5. d \in Databases
  BY <1>1, <1>2, <1>4 DEF Databases
<1>6. Asked(d) = {} /\ DOMAIN d.events = {} /\ DOMAIN d.turns = {} /\ Len(d.events) = 0
      /\ Len(d.turns) = 0
  BY <1>3, <1>4 DEF Asked
<1>7. Logged(d) /\ Named(plan, d)
  BY <1>6 DEF Logged, Named
<1>8. Caps(plan, d)
  <2>1. IsPlan(plan)
    BY <1>1, PlansAre
  <2>2. ASSUME NEW x \in DOMAIN plan
        PROVE  Occurrences(d, plan[x], 0) <= plan[x].max_occurrences
    <3>1. Occurrences(d, plan[x], 0) = Cardinality({})
      BY <1>6 DEF Occurrences
    <3>2. Cardinality({}) = 0
      BY FS_EmptySet
    <3>3. plan[x].max_occurrences \in Nat
      <4>1. plan[x] \in CompiledFaultRules
        BY <2>1 DEF IsPlan
      <4>2. QED
        BY <4>1 DEF CompiledFaultRules
    <3>4. QED
      BY <3>1, <3>2, <3>3
  <2>3. QED
    BY <2>2 DEF Caps
<1>9. Apart(d) /\ Effected(d) /\ Marked(plan, d)
  BY <1>3, <1>6 DEF Apart, Effected, Marked
<1>10. Base(plan, draws, d)
  BY <1>5, <1>6, <1>7, <1>8, <1>9 DEF Base
<1>11. ~Started(d)
  BY <1>3, <1>6 DEF Started
<1>12. Frame(d)
  <2>1. {d.turns[i].call : i \in DOMAIN d.turns} = 1 .. 0
    BY <1>6
  <2>2. FrameOf(d, 0)
    BY <1>3, <1>4, <1>6, <1>11, <2>1, FaultAssumption DEF FrameOf
  <2>3. QED
    BY <2>2 DEF Frame
<1>13. Beyond(plan, draws, d)
  BY <1>6, <1>11 DEF Beyond
<1>14. Process(plan, draws, d, proc)
  BY <1>1, ProcIdle
<1>15. QED
  BY <1>1, <1>2, <1>10, <1>12, <1>13, <1>14 DEF IInv

\* The invariant from its parts.
LEMMA Invariant ==
  ASSUME NEW c, NEW n, IInv, plan' = plan, draws' = draws, run' = c, proc' = n,
         Sound(plan, draws, c), Process(plan, draws, c, n)
  PROVE  IInv'
BY DEF IInv, Sound

\* What it says of the step's beginning.
LEMMA Before ==
  ASSUME IInv
  PROVE  /\ plan \in Plans /\ IsPlan(plan) /\ Sound(plan, draws, run)
         /\ Process(plan, draws, run, proc) /\ proc \in Procs /\ run \in Databases
         /\ proc.engine \in BOOLEAN
<1>1. /\ plan \in Plans /\ Sound(plan, draws, run) /\ Process(plan, draws, run, proc)
  BY DEF IInv, Sound
<1>2. IsPlan(plan)
  BY <1>1, PlansAre
<1>3. proc \in Procs /\ run \in Databases
  BY <1>1 DEF Process, Sound, Base
<1>4. QED
  BY <1>1, <1>2, <1>3 DEF Procs

\* A status ends the call, or the agent answers finally.
LEMMA Ending ==
  ASSUME IInv, plan' = plan, draws' = draws, NEW s \in Terminal, Ends(s), proc' = Idle
  PROVE  IInv'
<1>1. Sound(plan, draws, run) /\ run \in Databases
  BY Before
<1>2. PICK c : c = [run EXCEPT !.status = s]
  OBVIOUS
<1>3. SameRows(run, c)
  BY <1>1, <1>2, Statuses
<1>4. Sound(plan, draws, c)
  BY <1>1, <1>3, SoundSame
<1>5. Process(plan, draws, c, Idle)
  BY ProcIdle
<1>6. run' = c
  BY <1>2 DEF Ends
<1>7. QED
  BY <1>4, <1>5, <1>6, Invariant

\* A call that stops leaves the rows.
LEMMA Stopping ==
  ASSUME IInv, plan' = plan, draws' = draws, run' = run, proc' = Idle
  PROVE  IInv'
<1>1. Sound(plan, draws, run)
  BY Before
<1>2. Process(plan, draws, run, Idle)
  BY ProcIdle
<1>3. QED
  BY <1>1, <1>2, Invariant

\* A checkpoint, after which the call returns or loads the Run anew.
LEMMA Stored ==
  ASSUME IInv, plan' = plan, draws' = draws, NEW d, store(d),
         Sound(plan, draws, checkpoint_after_tool(d))
  PROVE  IInv'
<1>1. PICK c : c = checkpoint_after_tool(d)
  OBVIOUS
<1>2. run' = c /\ Sound(plan, draws, c)
  BY <1>1 DEF store
<1>3. Process(plan, draws, run, proc)
  BY Before
<1>4. CASE proc' = [proc EXCEPT !.pc = "loading", !.owed = <<>>]
  <2>1. PICK n : n = [proc EXCEPT !.pc = "loading", !.owed = <<>>]
    OBVIOUS
  <2>2. Process(plan, draws, c, n)
    BY <1>3, <2>1, ProcLoads
  <2>3. QED
    BY <1>2, <1>4, <2>1, <2>2, Invariant
<1>5. CASE proc' = Idle
  <2>1. Process(plan, draws, c, Idle)
    BY ProcIdle
  <2>2. QED
    BY <1>2, <1>5, <2>1, Invariant
<1>6. QED
  BY <1>4, <1>5 DEF store

\* The call goes on with the rows d.
LEMMA Going ==
  ASSUME IInv, plan' = plan, draws' = draws, NEW d, run' = d, Sound(plan, draws, d),
         NEW s \in {"ready", "checkpoint", "terminating"}, Goto(s),
         s = "ready" => proc.pc = "loading" /\ (Started(d) => proc.engine /\ Unanswered(d)),
         s = "checkpoint" => Started(d) /\ ~Unanswered(d)
  PROVE  IInv'
<1>1. Process(plan, draws, run, proc)
  BY Before
<1>2. PICK n : n = [proc EXCEPT !.pc = s]
  OBVIOUS
<1>3. MayGo(proc, d, s)
  BY DEF MayGo
<1>4. Process(plan, draws, d, n)
  BY <1>1, <1>2, <1>3, ProcGoes
<1>5. proc' = n
  BY <1>2 DEF Goto
<1>6. QED
  BY <1>4, <1>5, Invariant

\* The call holds what it owes.
LEMMA Indebted ==
  ASSUME IInv, plan' = plan, draws' = draws, NEW d, run' = d, Sound(plan, draws, d),
         proc.engine, Unanswered(d), NEW ms, ms = Sel(plan, draws, d, Current(d), "after_commit"),
         proc' = [proc EXCEPT !.pc = "acknowledge", !.owed = ms]
  PROVE  IInv'
<1>1. Process(plan, draws, run, proc) /\ IsPlan(plan)
  BY Before
<1>2. PICK n : n = [proc EXCEPT !.pc = "acknowledge", !.owed = ms]
  OBVIOUS
<1>3. MayOwe(plan, draws, proc, d, ms) /\ Holds(proc, n, ms)
  BY <1>2 DEF MayOwe, Holds
<1>4. Process(plan, draws, d, n)
  BY <1>1, <1>3, ProcOwes
<1>5. QED
  BY <1>2, <1>4, Invariant

\* A call that dispatches finds no evidence beyond the checkpoint, or an
\* acknowledgement that a rule for its tool took.
LEMMA Dispatchable ==
  ASSUME IInv, MayDispatch
  PROVE  /\ run.pending # <<>> /\ Len(run.turns) < MaxTools
         /\ \/ Executable(plan, draws, run)
            \/ Unanswered(run) /\ has_after_commit_rule(run.pending[1].q)
<1>1. /\ Sound(plan, draws, run) /\ Process(plan, draws, run, proc)
  BY Before
<1>2. proc.pc = "ready" /\ run.pending # <<>> /\ Len(run.turns) < MaxTools
  BY DEF MayDispatch
<1>3. CASE ~Started(run)
  BY <1>1, <1>2, <1>3 DEF Executable
<1>4. CASE Started(run)
  <2>1. proc.engine /\ Unanswered(run)
    BY <1>1, <1>2, <1>4 DEF Process
  <2>2. PICK m \in Marker(run) : TRUE
    BY <1>1, <2>1, MarkerThere
  <2>3. PICK a : a = Current(run)
    OBVIOUS
  <2>4. Valid(plan, draws, run, m)
    BY <1>1, <2>1, <2>3, MarkerIs
  <2>5. has_after_commit_rule(run.pending[1].q)
    BY <2>1, <2>4 DEF Valid, has_after_commit_rule
  <2>6. QED
    BY <1>2, <2>1, <2>5
<1>5. QED
  BY <1>3, <1>4

\* An attempt and its checkpoint in one transaction keep it.
LEMMA DispatchStep ==
  ASSUME IInv, dispatch_pending, plan' = plan, draws' = draws
  PROVE  IInv'
<1>1. MayDispatch /\ ~has_after_commit_rule(run.pending[1].q)
  BY DEF dispatch_pending
<1>2. Executable(plan, draws, run)
  BY <1>1, Dispatchable
<1>3. IsPlan(plan) /\ proc.engine \in BOOLEAN
  BY Before
<1>4. CASE Ends("infra_error") /\ proc' = Idle
  <2>1. "infra_error" \in Terminal
    BY DEF Terminal
  <2>2. QED
    BY <1>4, <2>1, Ending
<1>5. ASSUME NEW u \in execute(run, FALSE, proc.engine), store(u.db)
      PROVE  IInv'
  <2>1. PICK c : c = checkpoint_after_tool(u.db)
    OBVIOUS
  <2>2. Sound(plan, draws, c)
    BY <1>2, <1>3, <2>1, Dispatching
  <2>3. QED
    BY <1>5, <2>1, <2>2, Stored
<1>6. QED
  BY <1>4, <1>5 DEF dispatch_pending

\* So does the first transaction of the durable path, new or resumed,
LEMMA DurableStep ==
  ASSUME IInv, execute_durable_post_commit, plan' = plan, draws' = draws
  PROVE  IInv'
<1>1. MayDispatch /\ has_after_commit_rule(run.pending[1].q)
  BY DEF execute_durable_post_commit
<1>2. proc.engine
  BY <1>1 DEF has_after_commit_rule
<1>3. IsPlan(plan) /\ Sound(plan, draws, run)
  BY Before
<1>4. PICK m : m = CHOOSE k \in Marker(run) : TRUE
  OBVIOUS
<1>5. CASE /\ Marker(run) # {}
           /\ proc' = [proc EXCEPT !.pc = "acknowledge",
                                   !.owed = select(run, Attempt(run, m.at), "after_commit")]
           /\ UNCHANGED run
  <2>1. m \in Marker(run)
    BY <1>4, <1>5
  <2>2. Unanswered(run)
    <3>1. Base(plan, draws, run) /\ Frame(run)
      BY <1>3 DEF Sound
    <3>2. Executable(plan, draws, run) => Marker(run) = {}
      BY <3>1, NoMarker DEF Executable
    <3>3. QED
      BY <1>1, <1>5, <3>2, Dispatchable
  <2>3. PICK a : a = Current(run)
    OBVIOUS
  <2>4. Attempt(run, m.at) = a
    BY <1>3, <2>1, <2>2, <2>3, MarkerIs
  <2>5. PICK ms : ms = Sel(plan, draws, run, a, "after_commit")
    OBVIOUS
  <2>6. select(run, Attempt(run, m.at), "after_commit") = ms
    BY <2>4, <2>5, SelectIs
  <2>7. run' = run
    BY <1>5
  <2>8. QED
    BY <1>2, <1>3, <1>5, <2>2, <2>3, <2>5, <2>6, <2>7, Indebted
<1>6. ASSUME NEW u \in execute(run, TRUE, TRUE), Marker(run) = {}, run.pending[1].q \in Mutations,
             run' = u.db,
             IF u.owed # <<>> THEN proc' = [proc EXCEPT !.pc = "acknowledge", !.owed = u.owed]
             ELSE Goto(IF Broken(u) THEN "terminating" ELSE "checkpoint")
      PROVE  IInv'
  <2>1. Executable(plan, draws, run)
    <3>1. ~Unanswered(run)
      BY <1>3, <1>6, MarkerThere
    <3>2. QED
      BY <1>1, <3>1, Dispatchable
  <2>2. PICK o : o = u.db
    OBVIOUS
  <2>3. /\ Sound(plan, draws, o) /\ Started(o)
        /\ \/ u.owed = <<>> /\ ~Unanswered(o)
           \/ /\ u.owed # <<>> /\ Unanswered(o)
              /\ u.owed = Sel(plan, draws, o, Current(o), "after_commit")
    BY <1>3, <1>6, <2>1, <2>2, Durable
  <2>4. CASE u.owed # <<>>
    <3>1. proc' = [proc EXCEPT !.pc = "acknowledge", !.owed = u.owed]
      BY <1>6, <2>4
    <3>2. QED
      BY <1>2, <1>6, <2>2, <2>3, <2>4, <3>1, Indebted
  <2>5. CASE u.owed = <<>>
    <3>1. PICK s : s = IF Broken(u) THEN "terminating" ELSE "checkpoint"
      OBVIOUS
    <3>2. Goto(s)
      BY <1>6, <2>5, <3>1
    <3>3. s \in {"ready", "checkpoint", "terminating"} /\ s # "ready"
      BY <3>1
    <3>4. QED
      BY <1>6, <2>2, <2>3, <2>5, <3>2, <3>3, Going
  <2>6. QED
    BY <2>4, <2>5
<1>7. CASE Goto("terminating") /\ UNCHANGED run
  <2>1. run' = run
    BY <1>7
  <2>2. QED
    BY <1>3, <1>7, <2>1, Going
<1>8. QED
  BY <1>4, <1>5, <1>6, <1>7 DEF execute_durable_post_commit

\* the second one, which completes the evidence,
LEMMA AcknowledgeStep ==
  ASSUME IInv, acknowledge_post_commit, plan' = plan, draws' = draws
  PROVE  IInv'
<1>1. proc.pc = "acknowledge"
  BY DEF acknowledge_post_commit
<1>2. IsPlan(plan) /\ Sound(plan, draws, run) /\ Process(plan, draws, run, proc)
  BY Before
<1>3. /\ Unanswered(run) /\ proc.engine
      /\ proc.owed = Sel(plan, draws, run, Current(run), "after_commit")
  BY <1>1, <1>2 DEF Process
<1>4. PICK m : m = CHOOSE k \in Marker(run) : TRUE
  OBVIOUS
<1>5. m \in Marker(run)
  BY <1>2, <1>3, <1>4, MarkerThere
<1>6. PICK a : a = Current(run)
  OBVIOUS
<1>7. Attempt(run, m.at) = a
  BY <1>2, <1>3, <1>5, <1>6, MarkerIs
<1>8. PICK chosen : chosen = record_fault_selection(run, a, "after_commit", proc.owed)
  OBVIOUS
<1>9. PICK applied : applied = apply_post_commit(proc.owed)
  OBVIOUS
<1>10. PICK y : y = record_applied_faults(chosen, a, applied)
  OBVIOUS
<1>11. PICK o : o = answer(y, a, "fault_timeout", applied)
  OBVIOUS
<1>12. CASE run' = o /\ Goto("checkpoint")
  <2>1. Acknowledges(run, o, a, proc.owed)
    BY <1>8, <1>9, <1>10, <1>11 DEF Acknowledges
  <2>2. Sound(plan, draws, o) /\ Started(o) /\ ~Unanswered(o)
    BY <1>2, <1>3, <1>6, <2>1, Acknowledged
  <2>3. QED
    BY <1>12, <2>2, Going
<1>13. CASE Goto("terminating") /\ UNCHANGED run
  <2>1. run' = run
    BY <1>13
  <2>2. QED
    BY <1>2, <1>13, <2>1, Going
<1>14. QED
  BY <1>4, <1>7, <1>8, <1>9, <1>10, <1>11, <1>12, <1>13 DEF acknowledge_post_commit

\* a load, adopting or not,
LEMMA LoadStep ==
  ASSUME IInv, load, plan' = plan, draws' = draws
  PROVE  IInv'
<1>1. proc.pc = "loading"
  BY DEF load
<1>2. Sound(plan, draws, run) /\ proc.engine \in BOOLEAN
  BY Before
<1>3. CASE Loads(run, proc.engine)
  <2>1. PICK c : c = load_state(run, proc.engine)
    OBVIOUS
  <2>2. run' = c /\ Goto("ready")
    BY <1>3, <2>1 DEF load
  <2>3. Sound(plan, draws, c) /\ (Started(c) => proc.engine /\ Unanswered(c))
    BY <1>2, <1>3, <2>1, Loading
  <2>4. QED
    BY <1>1, <2>2, <2>3, Going
<1>4. CASE ~Loads(run, proc.engine)
  <2>1. run' = run /\ proc' = Idle
    BY <1>4 DEF load
  <2>2. QED
    BY <2>1, Stopping
<1>5. QED
  BY <1>3, <1>4

\* what the agent asks for or answers,
LEMMA AgentStep ==
  ASSUME IInv, persist_agent_output, plan' = plan, draws' = draws
  PROVE  IInv'
<1>1. proc.pc = "ready" /\ run.pending = <<>>
  BY DEF persist_agent_output
<1>2. Sound(plan, draws, run) /\ Process(plan, draws, run, proc) /\ proc \in Procs
  BY Before
<1>3. CASE Ends("evaluating") /\ proc' = Idle
  <2>1. "evaluating" \in Terminal
    BY DEF Terminal
  <2>2. QED
    BY <1>3, <2>1, Ending
<1>4. ASSUME NEW q \in Requests,
             run' = [run EXCEPT !.pending = <<[call |-> NextCall, attempt |-> 1, q |-> q]>>],
             UNCHANGED proc
      PROVE  IInv'
  <2>1. PICK n : n = NextCall
    OBVIOUS
  <2>2. n = Cardinality({run.turns[i].call : i \in DOMAIN run.turns}) + 1
    BY <2>1 DEF NextCall
  <2>3. PICK c : c = [run EXCEPT !.pending = <<[call |-> n, attempt |-> 1, q |-> q]>>]
    OBVIOUS
  <2>4. Sound(plan, draws, c) /\ ~Started(c)
    BY <1>1, <1>2, <2>2, <2>3, Asking
  <2>5. run' = c
    BY <1>4, <2>1, <2>3
  <2>6. Process(plan, draws, c, proc)
    BY <1>1, <1>2, <2>4 DEF Process
  <2>7. proc' = proc
    BY <1>4
  <2>8. QED
    BY <2>4, <2>5, <2>6, <2>7, Invariant
<1>5. QED
  BY <1>3, <1>4 DEF persist_agent_output

\* the operator,
LEMMA ResolveStep ==
  ASSUME IInv, resolve_approval_request, plan' = plan, draws' = draws
  PROVE  IInv'
<1>1. Sound(plan, draws, run) /\ Process(plan, draws, run, proc) /\ run \in Databases
  BY Before
<1>2. PICK q \in NeedsApproval, s \in {"approved", "denied"} :
        /\ run.approvals[q] = "pending" /\ run' = [run EXCEPT !.approvals[q] = s]
        /\ UNCHANGED proc
  BY DEF resolve_approval_request
<1>3. PICK c : c = [run EXCEPT !.approvals[q] = s]
  OBVIOUS
<1>4. SameRows(run, c)
  BY <1>1, <1>2, <1>3, Resolutions
<1>5. Sound(plan, draws, c)
  BY <1>1, <1>4, SoundSame
<1>6. Process(plan, draws, c, proc)
  BY <1>1, <1>4, ProcSame
<1>7. run' = c /\ proc' = proc
  BY <1>2, <1>3
<1>8. QED
  BY <1>5, <1>6, <1>7, Invariant

\* and the checkpoint after the durable path.
LEMMA CheckpointStep ==
  ASSUME IInv, checkpoint_post_commit, plan' = plan, draws' = draws
  PROVE  IInv'
<1>1. proc.pc = "checkpoint" /\ store(run)
  BY DEF checkpoint_post_commit
<1>2. Sound(plan, draws, run) /\ Process(plan, draws, run, proc)
  BY Before
<1>3. Started(run) /\ ~Unanswered(run)
  BY <1>1, <1>2 DEF Process
<1>4. PICK c : c = checkpoint_after_tool(run)
  OBVIOUS
<1>5. Sound(plan, draws, c)
  BY <1>2, <1>3, <1>4, Storing
<1>6. QED
  BY <1>1, <1>4, <1>5, Stored

\* Every step keeps the invariant.
LEMMA Step ==
  ASSUME IInv, [Next]_vars
  PROVE  IInv'
<1>1. CASE UNCHANGED vars
  <2>1. plan' = plan /\ draws' = draws /\ run' = run /\ proc' = proc
    BY <1>1 DEF vars
  <2>2. Sound(plan, draws, run) /\ Process(plan, draws, run, proc)
    BY Before
  <2>3. QED
    BY <2>1, <2>2, Invariant
<1>2. CASE Next
  <2>1. plan' = plan /\ draws' = draws
    BY <1>2 DEF Next
  <2>2. CASE execute_run
    <3>1. PICK engine \in BOOLEAN : proc' = [Idle EXCEPT !.pc = "loading", !.engine = engine]
      BY <2>2 DEF execute_run
    <3>2. PICK n : n = [Idle EXCEPT !.pc = "loading", !.engine = engine]
      OBVIOUS
    <3>3. Sound(plan, draws, run)
      BY Before
    <3>4. Process(plan, draws, run, n)
      BY <3>2, ProcTakes
    <3>5. run' = run /\ proc' = n
      BY <2>2, <3>1, <3>2 DEF execute_run
    <3>6. QED
      BY <2>1, <3>3, <3>4, <3>5, Invariant
  <2>3. CASE load
    BY <2>1, <2>3, LoadStep
  <2>4. CASE persist_agent_output
    BY <2>1, <2>4, AgentStep
  <2>5. CASE stop_at_budget
    <3>1. "timed_out" \in Terminal
      BY DEF Terminal
    <3>2. Ends("timed_out") /\ proc' = Idle
      BY <2>5 DEF stop_at_budget
    <3>3. QED
      BY <2>1, <3>1, <3>2, Ending
  <2>6. CASE dispatch_pending
    BY <2>1, <2>6, DispatchStep
  <2>7. CASE execute_durable_post_commit
    BY <2>1, <2>7, DurableStep
  <2>8. CASE acknowledge_post_commit
    BY <2>1, <2>8, AcknowledgeStep
  <2>9. CASE checkpoint_post_commit
    BY <2>1, <2>9, CheckpointStep
  <2>10. CASE terminate
    <3>1. "infra_error" \in Terminal
      BY DEF Terminal
    <3>2. Ends("infra_error") /\ proc' = Idle
      BY <2>10 DEF terminate
    <3>3. QED
      BY <2>1, <3>1, <3>2, Ending
  <2>11. CASE crash
    <3>1. run' = run /\ proc' = Idle
      BY <2>11 DEF crash
    <3>2. QED
      BY <2>1, <3>1, Stopping
  <2>12. CASE resolve_approval_request
    BY <2>1, <2>12, ResolveStep
  <2>13. QED
    BY <1>2, <2>2, <2>3, <2>4, <2>5, <2>6, <2>7, <2>8, <2>9, <2>10, <2>11, <2>12 DEF Next, Running
<1>3. QED
  BY <1>1, <1>2

\* What the engine, the gateway and the runtime leave committed after every
\* transaction and crash: evidence that is well formed attempt by attempt, at
\* most one attempt beyond the checkpoint, and that one either answered or
\* owed with a marker the next worker validates.  All that follows rests on it.
THEOREM Inductive == Spec => []IInv
<1>1. Init => IInv
  BY Initially
<1>2. IInv /\ [Next]_vars => IInv'
  BY Step
<1>3. QED
  BY <1>1, <1>2, PTL DEF Spec

-----------------------------------------------------------------------------
(* What follows from it.                                                   *)

\* The rule of an id.
LEMMA RuleIs ==
  ASSUME IsPlan(plan), NEW x \in DOMAIN plan
  PROVE  Rule(plan[x].id) = plan[x]
<1>1. PICK c : c = CHOOSE i \in DOMAIN plan : plan[i].id = plan[x].id
  OBVIOUS
<1>2. c \in DOMAIN plan /\ plan[c].id = plan[x].id
  BY <1>1
<1>3. c = x
  BY <1>2 DEF IsPlan
<1>4. QED
  BY <1>1, <1>3 DEF Rule

\* An event's attempt.
LEMMA RequestOf ==
  ASSUME NEW d \in Databases, Logged(d), NEW i \in DOMAIN d.events, NEW r, r = d.events[i].request
  PROVE  /\ r \in Asked(d) /\ d.events[r].call = d.events[i].call
         /\ d.events[r].attempt = d.events[i].attempt
<1>1. /\ r \in 1 .. i /\ d.events[r].request = r
      /\ d.events[r].call = d.events[i].call /\ d.events[r].attempt = d.events[i].attempt
  BY DEF Logged
<1>2. r \in DOMAIN d.events
  <2>1. DOMAIN d.events = 1 .. Len(d.events) /\ Len(d.events) \in Nat
    BY Evidence
  <2>2. QED
    BY ONLY <1>1, <2>1, i \in DOMAIN d.events
<1>3. d.events[r].type = "tool.requested"
  BY <1>1, <1>2 DEF Logged
<1>4. QED
  BY <1>1, <1>2, <1>3 DEF Asked

\* Every value is of its type.
LEMMA Typed ==
  ASSUME IInv
  PROVE  TypeOK
<1>1. /\ Base(plan, draws, run) /\ Frame(run) /\ proc \in Procs /\ run \in Databases
      /\ Process(plan, draws, run, proc) /\ IsPlan(plan)
  BY Before DEF Sound
<1>2. /\ run.status \in Terminal \cup {"running"} /\ run.effects \in SUBSET Effects
      /\ run.turns \in Seq(Turns) /\ run.boundary \in Nat
      /\ run.approvals \in [Requests -> {"none", "pending", "approved", "denied"}]
  BY <1>1 DEF Databases
<1>3. PICK K \in Nat : FrameOf(run, K)
  BY <1>1 DEF Frame
<1>4. Len(run.pending) <= 1 /\ run.boundary <= Len(run.events)
  BY <1>3 DEF FrameOf
<1>5. Len(run.events) \in Nat
  BY <1>1, Evidence
<1>6. run.boundary \in 0 .. Len(run.events)
  BY <1>2, <1>4, <1>5
<1>7. PICK Ids : Ids = {r.id : r \in {plan[i] : i \in DOMAIN plan}}
  OBVIOUS
<1>8. \A x \in DOMAIN plan : plan[x].id \in Ids
  BY <1>7
<1>9. ASSUME NEW i \in DOMAIN run.events
      PROVE  LET e == run.events[i]
             IN /\ e.type \in EVENT_TYPES /\ e.request \in 1 .. i /\ e.cause \in 0 .. i - 1
                /\ e.call \in Numbers /\ e.rule \in Ids \cup {""}
                /\ e.type = "tool.result" => e.info \in Codes
  <2>1. run.events[i] \in Events
    BY <1>1, Evidence
  <2>2. /\ run.events[i].request \in 1 .. i /\ run.events[i].cause \in 0 .. i - 1
        /\ run.events[i].type = "tool.result" => run.events[i].info \in Codes
    BY <1>1 DEF Base, Logged
  <2>3. run.events[i].rule \in Ids \cup {""}
    BY <1>1, <1>8 DEF Base, Named
  <2>4. run.events[i].type \in EVENT_TYPES /\ run.events[i].call \in Numbers
    BY <2>1 DEF Events
  <2>5. QED
    BY <2>2, <2>3, <2>4
<1>10. ASSUME NEW m \in run.markers
       PROVE  m.at \in DOMAIN run.events /\ m.rule \in Ids
  BY <1>1, <1>8 DEF Base, Marked, Asked
<1>11. \A i \in DOMAIN run.turns : run.turns[i].code \in Codes
  <2>1. \A i \in DOMAIN run.turns : run.turns[i] \in Turns
    BY <1>2
  <2>2. QED
    BY <2>1 DEF Turns
<1>12. proc.pc \in {"idle", "loading", "ready", "acknowledge", "checkpoint", "terminating"}
  BY <1>1 DEF Procs
<1>13. Range(proc.owed) \in SUBSET {plan[i] : i \in DOMAIN plan}
  <2>1. \A k \in DOMAIN proc.owed : \E x \in DOMAIN plan : plan[x] = proc.owed[k]
    BY <1>1 DEF Process
  <2>2. QED
    BY <2>1 DEF Range
<1>14. run.effects \in SUBSET [q : Mutations, call : Numbers, attempt : Numbers]
  BY <1>2 DEF Effects
<1>15. QED
  BY ONLY <1>2, <1>4, <1>6, <1>7, <1>9, <1>10, <1>11, <1>12, <1>13, <1>14
     DEF TypeOK, Codes, EVENT_TYPES, Numbers

\* A rule is applied as it was declared.
LEMMA Declares ==
  ASSUME IInv
  PROVE  AppliedAsDeclared
<1>1. /\ run \in Databases /\ Base(plan, draws, run) /\ IsPlan(plan) /\ Logged(run) /\ Caps(plan, run)
  BY Before DEF Sound, Base
<1>2. \A i \in DOMAIN plan : Occurrences(run, plan[i], 0) <= plan[i].max_occurrences
  BY <1>1 DEF Caps
<1>3. ASSUME NEW i \in DOMAIN run.events, run.events[i].type = "fault.applied",
             Rule(run.events[i].rule).ordinal # 0
      PROVE  run.events[i].call = Rule(run.events[i].rule).ordinal
  <2>1. PICK r : r = run.events[i].request
    OBVIOUS
  <2>2. r \in Asked(run) /\ run.events[r].call = run.events[i].call
    BY <1>1, <2>1, RequestOf
  <2>3. i \in Applies(run, r)
    BY <1>3, <2>1 DEF Applies, Positions
  <2>4. Chosen(plan, draws, run, r)
    BY <1>1, <2>2 DEF Base
  <2>5. PICK m \in Matches(run, r) : run.events[m].rule = run.events[i].rule
    BY <2>3, <2>4 DEF Chosen
  <2>6. PICK x \in DOMAIN plan : /\ plan[x].id = run.events[m].rule
                                 /\ plan[x].ordinal \in {0, run.events[r].call}
    BY <2>4 DEF Chosen
  <2>7. Rule(run.events[i].rule) = plan[x]
    BY <1>1, <2>5, <2>6, RuleIs
  <2>8. QED
    BY <1>3, <2>2, <2>6, <2>7
<1>4. QED
  BY <1>2, <1>3 DEF AppliedAsDeclared

\* The rules an attempt applied.
LEMMA UsedAre ==
  ASSUME NEW d, IsPlan(plan), NEW w, NEW r, Chosen(plan, w, d, r)
  PROVE  {Rule(id) : id \in Activations(d, "fault.applied", r)} = {plan[x] : x \in Used(plan, d, r)}
<1>1. ASSUME NEW id \in Activations(d, "fault.applied", r)
      PROVE  \E x \in Used(plan, d, r) : plan[x] = Rule(id)
  <2>1. PICK i \in Applies(d, r) : d.events[i].rule = id
    BY DEF Activations, Applies
  <2>2. PICK m \in Matches(d, r) : d.events[m].rule = id
    BY <2>1 DEF Chosen
  <2>3. PICK x \in DOMAIN plan : plan[x].id = id
    BY <2>2 DEF Chosen
  <2>4. x \in Used(plan, d, r)
    BY <2>1, <2>3 DEF Used
  <2>5. Rule(id) = plan[x]
    BY <2>3, RuleIs
  <2>6. QED
    BY <2>4, <2>5
<1>2. ASSUME NEW x \in Used(plan, d, r)
      PROVE  \E id \in Activations(d, "fault.applied", r) : plan[x] = Rule(id)
  <2>1. x \in DOMAIN plan /\ \E i \in Applies(d, r) : d.events[i].rule = plan[x].id
    BY DEF Used
  <2>2. plan[x].id \in Activations(d, "fault.applied", r)
    BY <2>1 DEF Activations, Applies
  <2>3. Rule(plan[x].id) = plan[x]
    BY <2>1, RuleIs
  <2>4. QED
    BY <2>2, <2>3
<1>3. QED
  BY <1>1, <1>2

\* The consequences of a fault are the declared ones.
LEMMA Consequences ==
  ASSUME IInv
  PROVE  FaultsFelt
<1>1. /\ run \in Databases /\ Base(plan, draws, run) /\ IsPlan(plan) /\ Logged(run) /\ Effected(run)
  BY Before DEF Sound, Base
<1>2. \A f, g \in run.effects : f.q = g.q => f = g
  BY <1>1 DEF Effected
<1>3. ASSUME NEW i \in DOMAIN run.events, run.events[i].type = "tool.result",
             NEW rules,
             rules = {Rule(id) : id \in Activations(run, "fault.applied", run.events[i].request)},
             NEW declared, declared = {failure_code(r) : r \in rules} \ {""}
      PROVE  /\ IF \E r \in rules : r.phase = "after_commit" THEN run.events[i].info = "fault_timeout"
                ELSE IF declared # {} THEN {run.events[i].info} = declared
                ELSE run.events[i].info \notin FAILURES
             /\ (\E f \in run.effects : f.call = run.events[i].call /\ f.attempt = run.events[i].attempt)
                <=> ((\E r \in rules : r.phase = "after_commit") \/ run.events[i].info = "newly_applied")
  <2>1. PICK q : q = run.events[i].request
    OBVIOUS
  <2>2. /\ q \in Asked(run) /\ run.events[q].call = run.events[i].call
        /\ run.events[q].attempt = run.events[i].attempt
    BY <1>1, <2>1, RequestOf
  <2>3. i \in Results(run, q)
    BY <1>3, <2>1 DEF Results, Positions
  <2>4. Chosen(plan, draws, run, q) /\ Felt(plan, run, q)
    BY <1>1, <2>2, <2>3 DEF Base
  <2>5. rules = {plan[x] : x \in Used(plan, run, q)}
    BY <1>1, <1>3, <2>1, <2>4, UsedAre
  <2>6. (\E r \in rules : r.phase = "after_commit") <=> Ambiguity(plan, run, q)
    BY <2>5 DEF Ambiguity
  <2>7. HasEffect(run, q) <=> \E f \in run.effects : /\ f.call = run.events[i].call
                                                    /\ f.attempt = run.events[i].attempt
    BY <2>2 DEF HasEffect
  <2>8. /\ Ambiguity(plan, run, q) => run.events[i].info = "fault_timeout"
        /\ \/ Ambiguity(plan, run, q)
           \/ /\ \A x \in Used(plan, run, q) : failure_code(plan[x]) \in {"", run.events[i].info}
              /\ run.events[i].info \in FAILURES =>
                   \E x \in Used(plan, run, q) : failure_code(plan[x]) = run.events[i].info
        /\ HasEffect(run, q) <=> Ambiguity(plan, run, q) \/ run.events[i].info = "newly_applied"
    BY <2>3, <2>4 DEF Felt
  <2>9. ASSUME ~Ambiguity(plan, run, q)
        PROVE  IF declared # {} THEN {run.events[i].info} = declared
               ELSE run.events[i].info \notin FAILURES
    <3>1. \A x \in declared : x = run.events[i].info
      BY <1>3, <2>5, <2>8, <2>9
    <3>2. "" \notin FAILURES
      BY CodesAre
    <3>3. run.events[i].info \in FAILURES => run.events[i].info \in declared
      BY <1>3, <2>5, <2>8, <2>9, <3>2
    <3>4. QED
      BY <3>1, <3>3
  <2>10. QED
    BY <2>6, <2>7, <2>8, <2>9
<1>4. QED
  BY ONLY <1>2, <1>3 DEF FaultsFelt, FAILURES

\* Every row and every value in memory is of its type: events refer to earlier
\* ones, rules are the plan's, and no more than one call is pending.
THEOREM TypeCorrect == Spec => []TypeOK
BY Inductive, Typed, PTL

\* No rule is applied more often than it was declared, and one for the n-th
\* logical call disturbs no other, for every plan and every draw of the seed.
THEOREM FaultsApplied == Spec => []AppliedAsDeclared
BY Inductive, Declares, PTL

\* An answer says what the applied rules declare and nothing else, an effect is
\* there exactly when it should be, and no request has two.
THEOREM FaultsAnswered == Spec => []FaultsFelt
BY Inductive, Consequences, PTL

-----------------------------------------------------------------------------
(* The history authenticates.                                              *)

\* Positions are finitely many.
LEMMA FinitePositions ==
  ASSUME NEW d \in Databases, NEW type, NEW r
  PROVE  /\ IsFiniteSet(Positions(d, type, r)) /\ Positions(d, type, r) \in SUBSET DOMAIN d.events
         /\ DOMAIN d.events = 1 .. Len(d.events) /\ Len(d.events) \in Nat
<1>1. DOMAIN d.events = 1 .. Len(d.events) /\ Len(d.events) \in Nat
  BY Evidence
<1>2. IsFiniteSet(1 .. Len(d.events))
  <2>1. 1 \in Int /\ Len(d.events) \in Int
    BY <1>1
  <2>2. QED
    BY <2>1, FS_Interval
<1>3. Positions(d, type, r) \in SUBSET (1 .. Len(d.events))
  BY <1>1 DEF Positions
<1>4. QED
  BY <1>1, <1>2, <1>3, FS_Subset

\* Where no rule has two events of a type, there are as many as rules.
LEMMA OncePer ==
  ASSUME NEW d \in Databases, NEW type, NEW r,
         \A i, j \in Positions(d, type, r) : d.events[i].rule = d.events[j].rule => i = j
  PROVE  Once(d, type, r)
<1>1. PICK P : P = Positions(d, type, r)
  OBVIOUS
<1>2. PICK A : A = Activations(d, type, r)
  OBVIOUS
<1>3. IsFiniteSet(P)
  BY <1>1, FinitePositions
<1>4. PICK f : f = [i \in P |-> d.events[i].rule]
  OBVIOUS
<1>5. /\ \A i \in P : d.events[i].rule \in A
      /\ \A id \in A : \E i \in P : d.events[i].rule = id
  BY <1>1, <1>2 DEF Activations
<1>6. f \in [P -> A] /\ \A id \in A : \E i \in P : f[i] = id
  BY <1>4, <1>5
<1>7. \A i, j \in P : f[i] = f[j] => i = j
  BY <1>1, <1>4
<1>8. f \in Bijection(P, A)
  BY <1>6, <1>7 DEF Bijection, Injection, Surjection, IsInjective
<1>9. Cardinality(A) = Cardinality(P)
  BY <1>3, <1>8, FS_Bijection DEF ExistsBijection
<1>10. QED
  BY <1>1, <1>2, <1>9 DEF Once

\* An answered attempt, each of whose applications was observed.
Complete(p, w, d, r) ==
  d \in Databases /\ Logged(d) /\ Chosen(p, w, d, r) /\ Whole(d, r) /\ ~SharedAt(d, r)

\* Its result, and the evidence around it.
Around(d, r, k) ==
  /\ Results(d, r) = {k} /\ k \in DOMAIN d.events
  /\ \A i \in Applies(d, r) : i < k
  /\ \/ Applies(d, r) = {} /\ d.events[k].cause = r
     \/ /\ d.events[k].cause \in Applies(d, r)
        /\ d.events[k].cause = Max(Applies(d, r))
  /\ \A i \in Applies(d, r) : \E o \in Observed(d, r) : /\ d.events[o].rule = d.events[i].rule
                                                        /\ k < o /\ d.events[o].cause = k
  /\ \A o \in Observed(d, r) : k < o /\ d.events[o].cause = k
  /\ Once(d, "fault.matched", r) /\ Once(d, "fault.applied", r) /\ Once(d, "fault.observed", r)
  /\ Activations(d, "fault.observed", r) = Activations(d, "fault.applied", r)
  /\ \A o, u \in Observed(d, r) : d.events[o].rule = d.events[u].rule => o = u

\* Such an attempt has one result, and its evidence lies around it.
LEMMA Surrounding ==
  ASSUME NEW p, NEW w, NEW d, NEW r, Complete(p, w, d, r)
  PROVE  \E k \in DOMAIN d.events : Around(d, r, k)
<1>1. /\ d \in Databases /\ Chosen(p, w, d, r) /\ Whole(d, r) /\ ~SharedAt(d, r)
  BY DEF Complete
<1>2. PICK k \in DOMAIN d.events :
        /\ Results(d, r) = {k}
        /\ \A i \in Applies(d, r) : i < k
        /\ \/ Applies(d, r) = {} /\ d.events[k].cause = r
           \/ d.events[k].cause \in Applies(d, r) /\ \A i \in Applies(d, r) : i <= d.events[k].cause
        /\ \A o \in Observed(d, r) :
             /\ k < o /\ d.events[o].cause = k
             /\ \E i \in Applies(d, r) : d.events[i].rule = d.events[o].rule
        /\ \A o, u \in Observed(d, r) : d.events[o].rule = d.events[u].rule => o = u
        /\ \A i \in Applies(d, r) : \E o \in Observed(d, r) : d.events[o].rule = d.events[i].rule
  BY <1>1 DEF Whole
<1>3. \/ Applies(d, r) = {} /\ d.events[k].cause = r
      \/ /\ d.events[k].cause \in Applies(d, r)
         /\ d.events[k].cause = Max(Applies(d, r))
  <2>1. CASE Applies(d, r) = {} /\ d.events[k].cause = r
    BY <2>1
  <2>2. CASE d.events[k].cause \in Applies(d, r) /\ \A i \in Applies(d, r) : i <= d.events[k].cause
    <3>1. /\ Applies(d, r) \in SUBSET (1 .. Len(d.events)) /\ Len(d.events) \in Nat
      BY <1>1, FinitePositions DEF Applies
    <3>2. /\ Max(Applies(d, r)) \in Applies(d, r)
          /\ \A j \in Applies(d, r) : j <= Max(Applies(d, r))
      BY <2>2, <3>1, Extremes
    <3>3. PICK x : x = d.events[k].cause
      OBVIOUS
    <3>4. PICK y : y = Max(Applies(d, r))
      OBVIOUS
    <3>5. x <= y /\ y <= x /\ x \in Nat /\ y \in Nat
      BY <2>2, <3>1, <3>2, <3>3, <3>4
    <3>6. x = y
      BY ONLY <3>5
    <3>7. QED
      BY <2>2, <3>3, <3>4, <3>6
  <2>3. QED
    BY <1>2, <2>1, <2>2
<1>4. Once(d, "fault.matched", r) /\ Once(d, "fault.applied", r)
  BY <1>1, OncePer DEF Chosen, Matches, Applies
<1>5. Once(d, "fault.observed", r)
  BY <1>1, <1>2, OncePer DEF Observed
<1>6. Activations(d, "fault.observed", r) = Activations(d, "fault.applied", r)
  <2>1. /\ \A o \in Observed(d, r) : \E i \in Applies(d, r) : d.events[i].rule = d.events[o].rule
        /\ \A i \in Applies(d, r) : \E o \in Observed(d, r) : d.events[o].rule = d.events[i].rule
    BY <1>2
  <2>2. ASSUME NEW id \in Activations(d, "fault.observed", r)
        PROVE  id \in Activations(d, "fault.applied", r)
    BY <2>1 DEF Activations, Observed, Applies
  <2>3. ASSUME NEW id \in Activations(d, "fault.applied", r)
        PROVE  id \in Activations(d, "fault.observed", r)
    BY <2>1 DEF Activations, Observed, Applies
  <2>4. QED
    BY <2>2, <2>3
<1>7. Around(d, r, k)
  BY <1>2, <1>3, <1>4, <1>5, <1>6 DEF Around
<1>8. QED
  BY <1>7

\* The links of its evidence.
LEMMA Linked ==
  ASSUME NEW p, NEW w, NEW d, NEW r, Complete(p, w, d, r)
  PROVE  Chained(d, r)
<1>1. d \in Databases /\ Logged(d) /\ Chosen(p, w, d, r)
  BY DEF Complete
<1>2. PICK k \in DOMAIN d.events : Around(d, r, k)
  BY Surrounding
<1>3. Results(d, r) = {k}
  BY <1>2 DEF Around
<1>4. Cardinality(Positions(d, "tool.result", r)) = 1
  BY <1>3, FS_Singleton DEF Results
<1>5. ASSUME NEW i \in Positions(d, "fault.applied", r)
      PROVE  /\ \E m \in Positions(d, "fault.matched", r) :
                  /\ d.events[m].rule = d.events[i].rule /\ d.events[i].cause = m /\ m < i
             /\ \E l \in Positions(d, "tool.result", r), o \in Positions(d, "fault.observed", r) :
                  /\ d.events[o].rule = d.events[i].rule /\ d.events[o].cause = l
                  /\ d.events[l].cause = Max(Positions(d, "fault.applied", r)) /\ i < l /\ l < o
  <2>1. i \in Applies(d, r) /\ i \in DOMAIN d.events
    BY DEF Applies, Positions
  <2>2. PICK m : m = d.events[i].cause
    OBVIOUS
  <2>3. m \in Matches(d, r) /\ d.events[m].rule = d.events[i].rule
    BY <1>1, <2>1, <2>2 DEF Chosen
  <2>4. m < i
    <3>1. d.events[i].cause \in 0 .. i - 1
      BY <1>1, <2>1 DEF Logged
    <3>2. i \in Nat
      BY <1>1, <2>1, Evidence
    <3>3. QED
      BY ONLY <2>2, <3>1, <3>2
  <2>5. PICK o \in Observed(d, r) : d.events[o].rule = d.events[i].rule /\ k < o /\ d.events[o].cause = k
    BY <1>2, <2>1 DEF Around
  <2>6. i < k /\ d.events[k].cause = Max(Applies(d, r))
    BY <1>2, <2>1 DEF Around
  <2>7. k \in Positions(d, "tool.result", r)
    BY <1>3 DEF Results
  <2>8. QED
    BY <2>2, <2>3, <2>4, <2>5, <2>6, <2>7 DEF Matches, Applies, Observed
<1>6. QED
  BY <1>4, <1>5 DEF Chained

\* What the history of one attempt authenticates.
Authentic(d, q) ==
  /\ \A type \in {"fault.matched", "fault.applied", "fault.observed"} : Once(d, type, q)
  /\ Chained(d, q)
  /\ Activations(d, "fault.matched", q) = Activations(d, "fault.applied", q)
  /\ Activations(d, "fault.observed", q) = Activations(d, "fault.applied", q)
  /\ \A id \in Activations(d, "fault.matched", q) :
       /\ Rule(id).tool = ToolOf[d.events[q].info]
       /\ Sampled(Rule(id), d.events[q].call, d.events[q].attempt)

\* A complete attempt whose matches were all applied authenticates.
LEMMA Authenticating ==
  ASSUME NEW d, NEW r, IsPlan(plan), Complete(plan, draws, d, r),
         Activations(d, "fault.matched", r) \in SUBSET Activations(d, "fault.applied", r)
  PROVE  Authentic(d, r)
<1>1. d \in Databases /\ Logged(d) /\ Chosen(plan, draws, d, r)
  BY DEF Complete
<1>2. PICK k \in DOMAIN d.events : Around(d, r, k)
  BY Surrounding
<1>3. ASSUME NEW id \in Activations(d, "fault.applied", r)
      PROVE  id \in Activations(d, "fault.matched", r)
  <2>1. PICK i \in Applies(d, r) : d.events[i].rule = id
    BY DEF Activations, Applies
  <2>2. PICK m \in Matches(d, r) : d.events[m].rule = id
    BY <1>1, <2>1 DEF Chosen
  <2>3. QED
    BY <2>2 DEF Activations, Matches
<1>4. Activations(d, "fault.matched", r) = Activations(d, "fault.applied", r)
  BY <1>3
<1>5. ASSUME NEW id \in Activations(d, "fault.matched", r)
      PROVE  /\ Rule(id).tool = ToolOf[d.events[r].info]
             /\ Sampled(Rule(id), d.events[r].call, d.events[r].attempt)
  <2>1. PICK m \in Matches(d, r) : d.events[m].rule = id
    BY DEF Activations, Matches
  <2>2. PICK x \in DOMAIN plan : /\ plan[x].id = id
                                 /\ plan[x].tool = ToolOf[d.events[r].info]
                                 /\ Draw(draws, plan[x], d.events[r].call, d.events[r].attempt)
    BY <1>1, <2>1 DEF Chosen
  <2>3. Rule(id) = plan[x]
    BY <2>2, RuleIs
  <2>4. QED
    BY <2>2, <2>3 DEF Draw, Sampled
<1>6. Chained(d, r)
  BY Linked
<1>7. QED
  BY <1>2, <1>4, <1>5, <1>6 DEF Around, Authentic

\* Fewer applications without one attempt's than with all of them.
LEMMA CapsBut ==
  ASSUME NEW d \in Databases, Logged(d), IsPlan(plan), Caps(plan, d), NEW ignored,
         NEW x \in DOMAIN plan
  PROVE  Occurrences(d, plan[x], ignored) <= plan[x].max_occurrences
<1>1. PICK n : n = Cardinality(AppliesBut(d, plan[x], ignored))
  OBVIOUS
<1>2. PICK k : k = Cardinality(AppliesBut(d, plan[x], 0))
  OBVIOUS
<1>3. AppliesBut(d, plan[x], ignored) \in SUBSET AppliesBut(d, plan[x], 0)
  <2>1. \A i \in DOMAIN d.events : d.events[i].request \in 1 .. i
    BY DEF Logged
  <2>2. \A i \in DOMAIN d.events : d.events[i].request # 0
    BY <2>1
  <2>3. QED
    BY <2>2 DEF AppliesBut
<1>4. n <= k
  BY <1>1, <1>2, <1>3, AppliesButAre, FS_Subset
<1>5. Occurrences(d, plan[x], ignored) = n /\ Occurrences(d, plan[x], 0) = k /\ n \in Nat /\ k \in Nat
  BY <1>1, <1>2, AppliesButAre
<1>6. plan[x].max_occurrences \in Nat /\ k <= plan[x].max_occurrences
  <2>1. plan[x] \in CompiledFaultRules
    BY DEF IsPlan
  <2>2. plan[x].max_occurrences \in Nat
    BY <2>1 DEF CompiledFaultRules
  <2>3. QED
    BY <1>5, <2>2 DEF Caps
<1>7. QED
  BY <1>4, <1>5, <1>6

\* The rows of an attempt that has started.
LEMMA StartedRows ==
  ASSUME NEW p, NEW w, NEW z, Sound(p, w, z), Started(z)
  PROVE  /\ z.pending # <<>> /\ z.pending[1].q \in Mutations /\ z \in Databases /\ Logged(z)
         /\ Requested(z) = {z.boundary + 1} /\ Answered(z) = Results(z, z.boundary + 1)
         /\ z.boundary + 1 \in Asked(z)
         /\ \A i \in DOMAIN z.events : z.boundary < i => z.events[i].request = z.boundary + 1
<1>1. Base(p, w, z) /\ Frame(z) /\ z \in Databases /\ Logged(z)
  BY DEF Sound, Base
<1>2. PICK K \in Nat : FrameOf(z, K)
  BY <1>1 DEF Frame
<1>3. z.pending # <<>>
  BY <1>1, UnderFrame
<1>4. /\ Len(z.turns) < MaxTools /\ z.pending[1].q \in Mutations
      /\ \A i \in DOMAIN z.events : z.boundary < i => z.events[i].request = z.boundary + 1
  BY <1>2 DEF FrameOf
<1>5. Loose(z, K)
  BY <1>1, <1>2, <1>3, <1>4, FrameIsLoose
<1>6. /\ Requested(z) = {z.boundary + 1} /\ Answered(z) = Results(z, z.boundary + 1)
  BY <1>1, <1>5, RequestedIs
<1>7. z.boundary + 1 \in Asked(z)
  BY <1>6 DEF Requested, Asked
<1>8. QED
  BY <1>1, <1>3, <1>4, <1>6, <1>7

\* An attempt other than the open one is complete.
LEMMA AnsweredWhole ==
  ASSUME IInv, ~SharedMarker, NEW q \in Asked(run), q # Open
  PROVE  Complete(plan, draws, run, q)
<1>1. /\ Sound(plan, draws, run) /\ Base(plan, draws, run) /\ Beyond(plan, draws, run)
      /\ run \in Databases /\ Logged(run)
  BY Before DEF Sound, Base
<1>2. Results(run, q) # {}
  <2>1. ASSUME Results(run, q) = {}
        PROVE  FALSE
    <3>1. run.boundary < q /\ q \in DOMAIN run.events
      BY <1>1, <2>1 DEF Beyond, Asked
    <3>2. Started(run)
      <4>1. q \in 1 .. Len(run.events) /\ Len(run.events) \in Nat /\ run.boundary \in Nat
        BY <1>1, <3>1, Evidence DEF Databases
      <4>2. run.boundary < Len(run.events)
        BY ONLY <3>1, <4>1
      <4>3. QED
        BY <4>2 DEF Started
    <3>3. /\ run.pending # <<>> /\ Requested(run) = {run.boundary + 1}
          /\ Answered(run) = Results(run, run.boundary + 1)
          /\ run.events[q].request = run.boundary + 1
      BY <1>1, <3>1, <3>2, StartedRows
    <3>4. run.events[q].request = q
      BY <1>1 DEF Logged, Asked
    <3>5. Requested(run) = {q} /\ Answered(run) = {}
      BY <2>1, <3>3, <3>4
    <3>6. Open = q
      BY <3>3, <3>5 DEF Open
    <3>7. QED
      BY <3>6
  <2>2. QED
    BY <2>1
<1>3. Whole(run, q) /\ Chosen(plan, draws, run, q)
  BY <1>1, <1>2 DEF Base
<1>4. ~SharedAt(run, q)
  BY DEF SharedAt, SharedMarker, Shared
<1>5. QED
  BY <1>1, <1>3, <1>4 DEF Complete

\* What is committed authenticates.
LEMMA Histories ==
  ASSUME IInv
  PROVE  HistoryAuthentic
<1>1. /\ Base(plan, draws, run) /\ run \in Databases /\ Logged(run) /\ IsPlan(plan)
      /\ Caps(plan, run)
  BY Before DEF Sound, Base
<1>2. SUFFICES ASSUME ~Contradicted, ~SharedMarker
               PROVE  authenticate_fault_history(run, Open)
  BY DEF HistoryAuthentic
<1>3. PICK open : open = Open
  OBVIOUS
<1>4. ASSUME NEW q \in {run.events[i].request : i \in DOMAIN run.events} \ {open}
      PROVE  Authentic(run, q)
  <2>1. q \in Asked(run) /\ q # Open
    BY <1>1, <1>3, RequestOf
  <2>2. Complete(plan, draws, run, q)
    BY <1>2, <2>1, AnsweredWhole
  <2>3. Activations(run, "fault.matched", q) \in SUBSET Activations(run, "fault.applied", q)
    <3>1. ASSUME NEW id \in Activations(run, "fault.matched", q)
          PROVE  id \in Activations(run, "fault.applied", q)
      <4>1. PICK i \in DOMAIN run.events : /\ run.events[i].type = "fault.matched"
                                           /\ run.events[i].request = q /\ run.events[i].rule = id
        BY DEF Activations, Positions
      <4>2. QED
        BY <1>2, <2>1, <4>1 DEF Contradicted
    <3>2. QED
      BY <3>1
  <2>4. QED
    BY <1>1, <2>2, <2>3, Authenticating
<1>5. \A x \in DOMAIN plan : Occurrences(run, plan[x], open) <= plan[x].max_occurrences
  BY <1>1, CapsBut
<1>6. authenticate_fault_history(run, open)
  BY <1>4, <1>5 DEF authenticate_fault_history, Authentic
<1>7. QED
  BY <1>3, <1>6

-----------------------------------------------------------------------------
(* A worker with the Run's engine loads it again.                          *)

\* Evidence of a database beside a marker.
SharedWith(d, m) == \E i \in m.at + 1 .. m.state - 1 : d.events[i].request = m.at

\* What an answer is caused by.
LEMMA Caused ==
  ASSUME NEW p, NEW w, NEW d, Base(p, w, d), NEW k \in DOMAIN d.events,
         d.events[k].type = "tool.result", \A m \in d.markers : ~SharedWith(d, m)
  PROVE  fault_causation_is_valid(d, k)
<1>1. d \in Databases /\ Logged(d)
  BY DEF Base
<1>2. PICK r : r = d.events[k].request
  OBVIOUS
<1>3. r \in Asked(d)
  BY <1>1, <1>2, RequestOf
<1>4. k \in Results(d, r)
  BY <1>2 DEF Results, Positions
<1>5. Whole(d, r) /\ Chosen(p, w, d, r)
  BY <1>3, <1>4 DEF Base
<1>6. ~SharedAt(d, r)
  BY DEF SharedAt, SharedWith
<1>7. Complete(p, w, d, r)
  BY <1>1, <1>5, <1>6 DEF Complete
<1>8. PICK l \in DOMAIN d.events : Around(d, r, l)
  BY <1>7, Surrounding
<1>9. l = k
  BY <1>4, <1>8 DEF Around
<1>10. /\ Once(d, "fault.applied", r) /\ Once(d, "fault.observed", r)
       /\ Activations(d, "fault.observed", r) = Activations(d, "fault.applied", r)
  BY <1>8 DEF Around
<1>11. Cardinality(Positions(d, "fault.observed", r)) = Cardinality(Positions(d, "fault.applied", r))
  BY <1>10 DEF Once
<1>12. CASE d.events[k].cause = r
  BY <1>2, <1>12 DEF fault_causation_is_valid
<1>13. CASE /\ d.events[k].cause \in Applies(d, r) /\ d.events[k].cause = Max(Applies(d, r))
  <2>1. ASSUME NEW i \in Positions(d, "fault.applied", r)
        PROVE  /\ d.events[i].cause \in Positions(d, "fault.matched", r)
               /\ Cardinality({o \in Positions(d, "fault.observed", r) :
                                 /\ d.events[o].rule = d.events[i].rule
                                 /\ d.events[o].cause = k /\ o > k}) = 1
    <3>1. d.events[i].cause \in Positions(d, "fault.matched", r)
      BY <1>5, <2>1 DEF Chosen, Matches, Applies
    <3>2. PICK u \in Observed(d, r) : d.events[u].rule = d.events[i].rule /\ k < u /\ d.events[u].cause = k
      BY <1>8, <1>9, <2>1 DEF Around, Applies
    <3>3. \A o, v \in Observed(d, r) : d.events[o].rule = d.events[v].rule => o = v
      BY <1>8 DEF Around
    <3>4. u > k
      <4>1. u \in Nat /\ k \in Nat
        BY <1>1, <3>2, Evidence DEF Observed, Positions
      <4>2. QED
        BY ONLY <3>2, <4>1
    <3>5. {o \in Positions(d, "fault.observed", r) : /\ d.events[o].rule = d.events[i].rule
                                                     /\ d.events[o].cause = k /\ o > k} = {u}
      BY <3>2, <3>3, <3>4 DEF Observed
    <3>6. QED
      BY <3>1, <3>5, FS_Singleton
  <2>2. Positions(d, "fault.applied", r) # {}
    BY <1>13 DEF Applies
  <2>3. d.events[k].cause = Max(Positions(d, "fault.applied", r))
    BY <1>13 DEF Applies
  <2>4. QED
    BY <1>2, <1>11, <2>1, <2>2, <2>3 DEF fault_causation_is_valid
<1>14. QED
  BY <1>8, <1>9, <1>12, <1>13 DEF Around

\* The turns of a Run whose attempts were answered in one phase.
LEMMA TurnsCaused ==
  ASSUME NEW p, NEW w, NEW l, Sound(p, w, l), \A m \in l.markers : ~SharedWith(l, m),
         NEW i \in DOMAIN l.turns
  PROVE  fault_causation_is_valid(l, l.turns[i].result)
<1>1. Base(p, w, l) /\ Frame(l) /\ l \in Databases
  BY DEF Sound, Base
<1>2. PICK K \in Nat : FrameOf(l, K)
  BY <1>1 DEF Frame
<1>3. PICK k : k = l.turns[i].result
  OBVIOUS
<1>4. k \in 1 .. l.boundary /\ l.events[k].type = "tool.result" /\ l.boundary <= Len(l.events)
  BY <1>2, <1>3 DEF FrameOf
<1>5. l.boundary \in Nat /\ Len(l.events) \in Nat /\ DOMAIN l.events = 1 .. Len(l.events)
  BY <1>1, Evidence DEF Databases
<1>6. k \in DOMAIN l.events
  BY ONLY <1>4, <1>5
<1>7. QED
  BY <1>1, <1>3, <1>4, <1>6, Caused

\* Nothing is beyond the checkpoint.
LEMMA NothingBeyond ==
  ASSUME NEW d \in Databases, ~Started(d)
  PROVE  d.boundary + 1 .. Len(d.events) = {}
<1>1. d.boundary \in Nat /\ Len(d.events) \in Nat
  BY Evidence DEF Databases
<1>2. ~(d.boundary < Len(d.events))
  BY DEF Started
<1>3. QED
  BY ONLY <1>1, <1>2

\* A call that has no evidence needs no recovery.
LEMMA NoRecovery ==
  ASSUME NEW p, NEW w, NEW z, Sound(p, w, z), ~Started(z)
  PROVE  recovery(z, TRUE) = "none"
<1>1. Base(p, w, z) /\ Frame(z) /\ z \in Databases /\ Logged(z)
  BY DEF Sound, Base
<1>2. PICK K \in Nat : FrameOf(z, K)
  BY <1>1 DEF Frame
<1>3. CASE z.pending = <<>>
  BY <1>3 DEF recovery
<1>4. CASE z.pending # <<>>
  <2>1. Marker(z) = {}
    BY <1>1, <1>4, NoMarker
  <2>2. Requested(z) = {}
    BY <1>1, <1>2, <1>4, RequestedNone
  <2>3. recover_committed_tool_attempt(z) = "none"
    BY <2>2 DEF recover_committed_tool_attempt
  <2>4. QED
    BY <1>4, <2>1, <2>3 DEF recovery
<1>5. QED
  BY <1>3, <1>4

\* A worker with the engine validates the marker of the attempt.
LEMMA Validates ==
  ASSUME IsPlan(plan), NEW z, Sound(plan, draws, z), Started(z), NEW m \in Marker(z),
         Valid(plan, draws, z, m)
  PROVE  validate_post_commit_marker(z, m)
<1>1. /\ Base(plan, draws, z) /\ Frame(z) /\ Marked(plan, z) /\ z \in Databases
  BY DEF Sound, Base
<1>2. z.pending # <<>>
  BY <1>1, UnderFrame
<1>3. m.call = z.pending[1].call /\ m.attempt = z.pending[1].attempt /\ m \in z.markers
  BY DEF Marker
<1>4. m.ordinal = logical_call_ordinal(z)
  <2>1. logical_call_ordinal(z) = z.pending[1].call
    BY <1>1, <1>2, Ordinal
  <2>2. QED
    BY <1>3, <2>1 DEF Valid
<1>5. PICK x \in DOMAIN plan :
        /\ plan[x].id = m.rule /\ plan[x].phase = "after_commit"
        /\ plan[x].tool = ToolOf[z.pending[1].q] /\ plan[x].ordinal \in {0, m.call}
        /\ z.pending[1].q \in plan[x].args /\ Draw(draws, plan[x], m.call, m.attempt)
  BY DEF Valid
<1>6. Rule(m.rule) = plan[x]
  BY <1>5, RuleIs
<1>7. Sampled(plan[x], m.call, m.attempt)
  BY <1>5 DEF Sampled, Draw
<1>8. PICK K \in Nat : FrameOf(z, K)
  BY <1>1 DEF Frame
<1>9. /\ m.at = z.boundary + 1 /\ m.at < m.state /\ m.ordinal = m.call
      /\ [q |-> z.pending[1].q, call |-> m.call, attempt |-> m.attempt] \in z.effects
      /\ gate(z, z.pending[1].q) = "pass"
      /\ z.events[m.state].type = "state.evidence_recorded" /\ z.events[m.state].cause = m.at
  BY DEF Valid
<1>10. /\ z.events[m.at].type = "tool.requested" /\ z.events[m.at].info = z.pending[1].q
       /\ z.events[m.at].call = m.call /\ z.events[m.at].attempt = m.attempt
  BY <1>1, <1>3, <1>8, <1>9 DEF Marked, Asked, FrameOf
<1>11. QED
  BY <1>3, <1>4, <1>5, <1>6, <1>7, <1>9, <1>10 DEF validate_post_commit_marker

\* The planned evidence of an answered attempt's marker is whole.
LEMMA AcknowledgedIs ==
  ASSUME NEW p, NEW w, NEW z, z \in Databases, Logged(z), NEW m, Told(z, m),
         Chosen(p, w, z, m.at), Whole(z, m.at)
  PROVE  acknowledged(z, m)
<1>1. PICK i \in Matches(z, m.at), j \in Applies(z, m.at), o \in Observed(z, m.at) :
        /\ m.state < i /\ z.events[j].cause = i
        /\ \A e \in {i, j, o} : z.events[e].rule = m.rule
        /\ \A k \in Results(z, m.at) : z.events[k].info = "fault_timeout" /\ z.events[k].cause = j
  BY DEF Told
<1>2. PICK k \in DOMAIN z.events :
        Results(z, m.at) = {k} /\ \A u \in Observed(z, m.at) : k < u /\ z.events[u].cause = k
  BY DEF Whole
<1>3. k \in Results(z, m.at)
  BY <1>2
<1>4. /\ z.events[k].info = "fault_timeout" /\ z.events[k].cause = j
      /\ k < o /\ z.events[o].cause = k /\ z.events[i].cause = m.at
  BY <1>1, <1>2, <1>3 DEF Chosen
<1>5. /\ i \in DOMAIN z.events /\ z.events[i].type = "fault.matched"
      /\ j \in DOMAIN z.events /\ z.events[j].type = "fault.applied"
      /\ o \in DOMAIN z.events /\ z.events[o].type = "fault.observed"
      /\ z.events[k].type = "tool.result"
  BY <1>3 DEF Matches, Applies, Observed, Results, Positions
<1>6. z.events[j].cause \in 0 .. j - 1 /\ z.events[k].cause \in 0 .. k - 1
  BY <1>2, <1>5 DEF Logged
<1>7. DOMAIN z.events = 1 .. Len(z.events) /\ Len(z.events) \in Nat
  BY Evidence
<1>8. i \in 0 .. j - 1 /\ j \in 0 .. k - 1
  BY <1>1, <1>4, <1>6
<1>9. i \in Nat /\ j \in Nat /\ k \in Nat /\ o \in Nat
  BY <1>2, <1>5, <1>7
<1>10. i < j /\ j < k
  BY ONLY <1>8, <1>9
<1>11. j \in i + 1 .. Len(z.events) /\ k \in i + 1 .. Len(z.events) /\ o \in i + 1 .. Len(z.events)
  <2>1. j \in 1 .. Len(z.events) /\ k \in 1 .. Len(z.events) /\ o \in 1 .. Len(z.events)
    BY <1>2, <1>5, <1>7
  <2>2. QED
    BY ONLY <1>4, <1>7, <1>9, <1>10, <2>1
<1>12. QED
  BY <1>1, <1>4, <1>5, <1>10, <1>11 DEF acknowledged

\* A load adopts an attempt that was answered under a marker.
LEMMA AdoptsMarked ==
  ASSUME IsPlan(plan), NEW z, Sound(plan, draws, z), Started(z), ~Unanswered(z), Marker(z) # {}
  PROVE  recovery(z, TRUE) = "adopt"
<1>1. PICK m : m = CHOOSE k \in Marker(z) : TRUE
  OBVIOUS
<1>2. m \in Marker(z)
  BY <1>1
<1>3. Base(plan, draws, z) /\ Beyond(plan, draws, z) /\ z \in Databases /\ Logged(z)
  BY DEF Sound, Base
<1>4. /\ z.pending # <<>> /\ z.boundary + 1 \in Asked(z)
  BY StartedRows
<1>5. Results(z, z.boundary + 1) # {}
  BY DEF Unanswered
<1>6. Done(plan, draws, z)
  BY <1>3, <1>5 DEF Beyond
<1>7. Valid(plan, draws, z, m) /\ Told(z, m)
  BY <1>2, <1>6 DEF Done
<1>8. m.at = z.boundary + 1
  BY <1>7 DEF Valid
<1>9. Chosen(plan, draws, z, m.at) /\ Whole(z, m.at)
  BY <1>3, <1>4, <1>5, <1>8 DEF Base
<1>10. acknowledged(z, m)
  BY <1>3, <1>7, <1>9, AcknowledgedIs
<1>11. validate_post_commit_marker(z, m)
  BY <1>2, <1>7, Validates
<1>12. recover_post_commit_attempt(z, m) = "adopt"
  BY <1>10, <1>11 DEF recover_post_commit_attempt
<1>13. QED
  BY <1>1, <1>4, <1>12 DEF recovery

\* It adopts an attempt that has no marker and was answered, and whose effect
\* is its own.
LEMMA AdoptsUnmarked ==
  ASSUME NEW p, NEW w, NEW z, Sound(p, w, z), Started(z), ~Unanswered(z), Marker(z) = {},
         \A i \in Answered(z) : z.events[i].info # "already_applied"
  PROVE  recovery(z, TRUE) = "adopt"
<1>1. Base(p, w, z) /\ Beyond(p, w, z) /\ z \in Databases /\ Logged(z)
  BY DEF Sound, Base
<1>2. /\ z.pending # <<>> /\ z.pending[1].q \in Mutations /\ z.boundary + 1 \in Asked(z)
      /\ Requested(z) = {z.boundary + 1} /\ Answered(z) = Results(z, z.boundary + 1)
  BY StartedRows
<1>3. Results(z, z.boundary + 1) # {}
  BY DEF Unanswered
<1>4. Whole(z, z.boundary + 1) /\ Finished(z)
  BY <1>1, <1>2, <1>3 DEF Base, Beyond, Done
<1>5. PICK k \in DOMAIN z.events : Results(z, z.boundary + 1) = {k}
  BY <1>4 DEF Whole
<1>6. Answered(z) = {k}
  BY <1>2, <1>5
<1>7. (CHOOSE i \in Answered(z) : TRUE) = k
  BY <1>6
<1>8. PICK code : code = z.events[k].info
  OBVIOUS
<1>9. PICK e : e = [q |-> z.pending[1].q, call |-> z.pending[1].call, attempt |-> z.pending[1].attempt]
  OBVIOUS
<1>10. code \in SUCCESSES => e \in z.effects
  BY <1>4, <1>5, <1>6, <1>8, <1>9 DEF Finished, SUCCESSES
<1>11. PICK S : S = {i \in k + 1 .. Len(z.events) : /\ z.events[i].type = "state.evidence_recorded"
                                                   /\ z.events[i].cause = k}
  OBVIOUS
<1>12. code = "newly_applied" => Cardinality(S) = 1
  <2>1. SUFFICES ASSUME code = "newly_applied" PROVE Cardinality(S) = 1
    OBVIOUS
  <2>2. PICK s \in DOMAIN z.events :
          \A i \in DOMAIN z.events :
            i = s <=> k < i /\ z.events[i].type = "state.evidence_recorded" /\ z.events[i].cause = k
    BY <1>4, <1>5, <1>8, <2>1 DEF Finished
  <2>3. DOMAIN z.events = 1 .. Len(z.events) /\ Len(z.events) \in Nat
    BY <1>1, Evidence
  <2>4. \A i : i \in k + 1 .. Len(z.events) <=> i \in DOMAIN z.events /\ k < i
    BY ONLY <1>5, <2>3
  <2>5. \A i \in S : i \in DOMAIN z.events /\ k < i
    BY <1>11, <2>4
  <2>6. \A i \in S : i = s
    BY <1>11, <2>2, <2>5
  <2>7. s \in S
    BY <1>11, <2>2, <2>4
  <2>8. S = {s}
    BY <2>6, <2>7
  <2>9. QED
    BY <2>8, FS_Singleton
<1>13. Cardinality(Requested(z)) = 1 /\ Cardinality(Answered(z)) = 1 /\ Requested(z) # {}
  BY <1>2, <1>6, FS_Singleton
<1>14. recover_committed_tool_attempt(z) = "adopt"
  BY <1>7, <1>8, <1>9, <1>10, <1>11, <1>12, <1>13 DEF recover_committed_tool_attempt
<1>15. QED
  BY <1>2, <1>14 DEF recovery

\* An acknowledgement that is owed is waited for.
LEMMA WaitsFor ==
  ASSUME IsPlan(plan), NEW z, Sound(plan, draws, z), Unanswered(z),
         NEW m, m = CHOOSE k \in Marker(z) : TRUE
  PROVE  recovery(z, TRUE) = "wait" /\ m \in Marker(z)
<1>1. Started(z) /\ Results(z, z.boundary + 1) = {}
  BY DEF Unanswered
<1>2. m \in Marker(z) /\ Marker(z) # {}
  BY MarkerThere
<1>3. z.pending # <<>> /\ Answered(z) = {}
  BY <1>1, StartedRows
<1>4. PICK a : a = Current(z)
  OBVIOUS
<1>5. Valid(plan, draws, z, m)
  BY <1>2, <1>4, MarkerIs
<1>6. validate_post_commit_marker(z, m)
  BY <1>1, <1>2, <1>5, Validates
<1>7. recovery(z, TRUE) = recover_post_commit_attempt(z, m)
  BY <1>2, <1>3 DEF recovery
<1>8. ~acknowledged(z, m)
  <2>1. acknowledged(z, m) => recovery(z, TRUE) = "adopt"
    BY <1>6, <1>7 DEF recover_post_commit_attempt
  <2>2. recovery(z, TRUE) # "adopt"
    BY Adopting
  <2>3. QED
    BY <2>1, <2>2
<1>9. QED
  BY <1>2, <1>3, <1>6, <1>7, <1>8 DEF recover_post_commit_attempt

\* All that is beyond the checkpoint is then the marker's.
LEMMA OnlyTheMarkers ==
  ASSUME IsPlan(plan), NEW z, Sound(plan, draws, z), Unanswered(z),
         \A m \in z.markers : ~SharedWith(z, m)
  PROVE  z.boundary + 1 .. Len(z.events) \in SUBSET allowed_event_ids(z, TRUE)
<1>1. PICK m : m = CHOOSE k \in Marker(z) : TRUE
  OBVIOUS
<1>2. recovery(z, TRUE) = "wait" /\ m \in Marker(z)
  BY <1>1, WaitsFor
<1>3. /\ Base(plan, draws, z) /\ Beyond(plan, draws, z) /\ Started(z) /\ z \in Databases
      /\ Results(z, z.boundary + 1) = {}
  BY DEF Sound, Base, Unanswered
<1>4. Half(plan, draws, z)
  BY <1>3 DEF Beyond
<1>5. Valid(plan, draws, z, m) /\ Waits(plan, draws, z, m)
  BY <1>2, <1>4 DEF Half
<1>6. m.at = z.boundary + 1 /\ m.state = Len(z.events)
  BY <1>5 DEF Valid, Waits
<1>7. ~SharedWith(z, m)
  BY <1>2 DEF Marker
<1>8. \A i \in DOMAIN z.events : z.boundary < i => z.events[i].request = z.boundary + 1
  BY <1>3, StartedRows
<1>9. z.boundary \in Nat /\ DOMAIN z.events = 1 .. Len(z.events) /\ Len(z.events) \in Nat
  BY <1>3, Evidence DEF Databases
<1>10. ASSUME NEW e \in z.boundary + 1 .. Len(z.events)
       PROVE  e \in {m.at, m.state}
  <2>1. CASE e \in m.at + 1 .. m.state - 1
    <3>1. e \in DOMAIN z.events /\ z.boundary < e
      BY ONLY <1>6, <1>9, <1>10, <2>1
    <3>2. z.events[e].request = m.at
      BY <1>6, <1>8, <3>1
    <3>3. QED
      BY <1>7, <2>1, <3>2 DEF SharedWith
  <2>2. CASE e \notin m.at + 1 .. m.state - 1
    BY ONLY <1>6, <1>9, <1>10, <2>2
  <2>3. QED
    BY <2>1, <2>2
<1>11. {m.at, m.state} \in SUBSET allowed_event_ids(z, TRUE)
  BY <1>2 DEF allowed_event_ids
<1>12. QED
  BY <1>10, <1>11

\* A worker with the engine loads what is committed.
LEMMA LoadsAgain ==
  ASSUME IsPlan(plan), NEW z, Sound(plan, draws, z), \A m \in z.markers : ~SharedWith(z, m),
         z.pending # <<>> => \A i \in Answered(z) : z.events[i].info # "already_applied"
  PROVE  Loads(z, TRUE)
<1>1. z \in Databases
  BY DEF Sound, Base
<1>2. \A i \in DOMAIN z.turns : fault_causation_is_valid(z, z.turns[i].result)
  BY TurnsCaused
<1>3. CASE ~Started(z)
  <2>1. recovery(z, TRUE) = "none"
    BY <1>3, NoRecovery
  <2>2. load_state(z, TRUE) = z
    BY <2>1 DEF load_state
  <2>3. z.boundary + 1 .. Len(z.events) = {}
    BY <1>1, <1>3, NothingBeyond
  <2>4. QED
    BY <1>2, <2>1, <2>2, <2>3 DEF Loads
<1>4. CASE Unanswered(z)
  <2>1. recovery(z, TRUE) = "wait"
    BY <1>4, WaitsFor
  <2>2. load_state(z, TRUE) = z
    BY <2>1 DEF load_state
  <2>3. z.boundary + 1 .. Len(z.events) \in SUBSET allowed_event_ids(z, TRUE)
    BY <1>4, OnlyTheMarkers
  <2>4. QED
    BY <1>2, <2>1, <2>2, <2>3 DEF Loads
<1>5. CASE Started(z) /\ ~Unanswered(z)
  <2>1. z.pending # <<>>
    BY <1>5, StartedRows
  <2>2. recovery(z, TRUE) = "adopt"
    BY <1>5, <2>1, AdoptsMarked, AdoptsUnmarked
  <2>3. PICK c : c = checkpoint_after_tool(z)
    OBVIOUS
  <2>4. Sound(plan, draws, c) /\ ~Started(c) /\ SameEvidence(z, c)
    BY <1>5, <2>3, Storing
  <2>5. c \in Databases /\ c.events = z.events /\ c.markers = z.markers
    BY <2>4 DEF SameEvidence
  <2>6. \A m \in c.markers : ~SharedWith(c, m)
    BY <2>5 DEF SharedWith
  <2>7. \A i \in DOMAIN c.turns : fault_causation_is_valid(c, c.turns[i].result)
    BY <2>4, <2>6, TurnsCaused
  <2>8. c.boundary + 1 .. Len(c.events) = {}
    BY <2>4, <2>5, NothingBeyond
  <2>9. load_state(z, TRUE) = c
    BY <2>2, <2>3 DEF load_state
  <2>10. QED
    BY <2>2, <2>7, <2>8, <2>9 DEF Loads
<1>6. QED
  BY <1>3, <1>4, <1>5

\* The acknowledgement that is owed is owed for the rule of its marker still.
LEMMA OwedStill ==
  ASSUME IInv, run.pending # <<>>, Answered(run) = {}, NEW m \in Marker(run)
  PROVE  LET again == select(run, Attempt(run, m.at), "after_commit")
         IN again # <<>> /\ again[1].id = m.rule
<1>1. Sound(plan, draws, run) /\ Base(plan, draws, run) /\ Frame(run)
  BY Before DEF Sound
<1>2. Started(run)
  BY <1>1, NoMarker
<1>3. Answered(run) = Results(run, run.boundary + 1)
  BY <1>1, <1>2, StartedRows
<1>4. Unanswered(run)
  BY <1>2, <1>3 DEF Unanswered
<1>5. PICK a : a = Current(run)
  OBVIOUS
<1>6. /\ Attempt(run, m.at) = a /\ Sel(plan, draws, run, a, "after_commit") # <<>>
      /\ Sel(plan, draws, run, a, "after_commit")[1].id = m.rule
  BY <1>1, <1>4, <1>5, MarkerIs
<1>7. select(run, a, "after_commit") = Sel(plan, draws, run, a, "after_commit")
  BY SelectIs
<1>8. QED
  BY <1>6, <1>7

\* Wherever the process dies, it recovers.
LEMMA Recovers ==
  ASSUME IInv
  PROVE  Recoverable
<1>1. IsPlan(plan) /\ Sound(plan, draws, run)
  BY Before
<1>2. ASSUME ~SharedMarker, ~UnadoptedReplay
      PROVE  Loads(run, TRUE)
  <2>1. \A m \in run.markers : ~SharedWith(run, m)
    BY <1>2 DEF SharedMarker, Shared, SharedWith
  <2>2. run.pending # <<>> => \A i \in Answered(run) : run.events[i].info # "already_applied"
    BY <1>2 DEF UnadoptedReplay
  <2>3. QED
    BY <1>1, <2>1, <2>2, LoadsAgain
<1>3. ASSUME run.pending # <<>>, Answered(run) = {}, NEW m \in Marker(run)
      PROVE  LET again == select(run, Attempt(run, m.at), "after_commit")
             IN again # <<>> /\ again[1].id = m.rule
  BY <1>3, OwedStill
<1>4. QED
  BY <1>2, <1>3 DEF Recoverable

\* The committed evidence passes authenticate_fault_history, except where two
\* rules of one phase contradict each other or a marker's attempt has other faults.
THEOREM HistoriesAuthentic == Spec => []HistoryAuthentic
BY Inductive, Histories, PTL

\* Wherever the process died, _load_state of a worker with the engine accepts
\* what is committed, except for a replayed effect that no checkpoint adopted and
\* a marker beside other faults; what is owed is owed for the marker's rule still.
THEOREM CrashesRecovered == Spec => []Recoverable
BY Inductive, Recovers, PTL
=============================================================================
