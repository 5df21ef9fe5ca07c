---------------------- MODULE CampaignStatisticsProofs ----------------------
(***************************************************************************)
(* Theorems about CampaignStatistics, for any number of planned trials,    *)
(* any group sizes, selected faults and observations, and every order in   *)
(* which trials come: that the closed form of pass@k counts what pass@k is *)
(* about, that groups and pairs account for every trial once, and that the *)
(* rates agree where they speak of the same trials.                        *)
(***************************************************************************)
EXTENDS CampaignStatistics, TLAPS, FiniteSetTheorems, WellFoundedInduction

-----------------------------------------------------------------------------
(* Factorials: math.comb is their quotient.                                *)

\* A set of numbers has a least one.
LEMMA Least ==
  ASSUME NEW T, T \subseteq Nat, T # {}
  PROVE  \E m \in T : \A n \in T : m <= n
<1>1. PICK m \in T : \A n \in T : <<n, m>> \notin OpToRel(<, Nat)
  BY WFMin, NatLessThanWellFounded, Zenon
<1>2. ASSUME NEW n \in T PROVE m <= n
  <2>1. m \in Nat /\ n \in Nat
    OBVIOUS
  <2>2. ~(n < m)
    BY <1>1, <2>1 DEF OpToRel
  <2>3. QED
    BY <2>1, <2>2
<1>3. QED
  BY <1>2

\* f multiplies the numbers up to n.
Multiplies(f, n) == f = [i \in 0 .. n |-> IF i = 0 THEN 1 ELSE i * f[i - 1]]

\* It is the only one to do so.
LEMMA MultipliesOnce ==
  ASSUME NEW n \in Nat, NEW m \in Nat, NEW f, NEW g, Multiplies(f, n), Multiplies(g, m)
  PROVE  \A i \in Nat : i <= n /\ i <= m => f[i] = g[i]
<1> DEFINE T == {i \in Nat : i <= n /\ i <= m /\ f[i] # g[i]}
<1> SUFFICES ASSUME T # {} PROVE FALSE
  OBVIOUS
<1>1. PICK k \in T : \A i \in T : k <= i
  <2>1. T \subseteq Nat
    OBVIOUS
  <2> HIDE DEF T
  <2>2. QED
    BY <2>1, Least
<1>2. k \in Nat /\ k <= n /\ k <= m /\ f[k] # g[k]
  OBVIOUS
<1>3. k # 0
  BY <1>2 DEF Multiplies
<1>4. k - 1 \in Nat /\ k - 1 \notin T
  BY <1>1, <1>2, <1>3
<1>5. f[k - 1] = g[k - 1]
  BY <1>2, <1>4
<1>6. f[k] = k * f[k - 1] /\ g[k] = k * g[k - 1]
  BY <1>2, <1>3 DEF Multiplies
<1>7. QED
  BY <1>2, <1>5, <1>6

\* There is one for every n.
LEMMA MultipliesExists ==
  ASSUME NEW n \in Nat
  PROVE  \E f : Multiplies(f, n)
<1> DEFINE T == {i \in Nat : ~(\E f : Multiplies(f, i))}
<1> SUFFICES ASSUME T # {} PROVE FALSE
  OBVIOUS
<1>1. PICK k \in T : \A i \in T : k <= i
  <2>1. T \subseteq Nat
    OBVIOUS
  <2> HIDE DEF T
  <2>2. QED
    BY <2>1, Least
<1>2. CASE k = 0
  <2> DEFINE f == [i \in 0 .. 0 |-> 1]
  <2>1. f = [i \in 0 .. 0 |-> IF i = 0 THEN 1 ELSE i * f[i - 1]]
    OBVIOUS
  <2>2. Multiplies(f, 0)
    BY <2>1 DEF Multiplies
  <2>3. QED
    BY <1>2, <2>2
<1>3. CASE k # 0
  <2>1. k \in Nat /\ k - 1 \in Nat /\ k - 1 \notin T
    BY <1>1, <1>3
  <2>2. PICK g : Multiplies(g, k - 1)
    BY <2>1
  <2> DEFINE f == [i \in 0 .. k |-> IF i = k THEN k * g[k - 1] ELSE g[i]]
  <2>3. ASSUME NEW i \in 0 .. k PROVE f[i] = IF i = 0 THEN 1 ELSE i * f[i - 1]
    <3>1. CASE i = k
      BY <1>3, <2>1, <3>1
    <3>2. CASE i # k
      <4>1. i \in 0 .. k - 1 /\ (i # 0 => i - 1 \in 0 .. k - 1 /\ i - 1 # k)
        BY <2>1, <3>2
      <4>2. g[i] = IF i = 0 THEN 1 ELSE i * g[i - 1]
        BY <2>1, <2>2, <4>1 DEF Multiplies
      <4>3. f[i] = g[i] /\ (i # 0 => f[i - 1] = g[i - 1])
        BY <2>1, <3>2, <4>1
      <4>4. QED
        BY <4>2, <4>3
    <3>3. QED
      BY <3>1, <3>2
  <2>4. f = [i \in 0 .. k |-> f[i]]
    OBVIOUS
  <2> HIDE DEF f
  <2>5. [i \in 0 .. k |-> f[i]] = [i \in 0 .. k |-> IF i = 0 THEN 1 ELSE i * f[i - 1]]
    BY <2>3
  <2>6. Multiplies(f, k)
    BY <2>4, <2>5 DEF Multiplies
  <2>7. QED
    BY <2>6
<1>4. QED
  BY <1>2, <1>3

\* What factorial is declared to be, it is.
LEMMA FactorialIs ==
  factorial = [n \in Nat |-> IF n = 0 THEN 1 ELSE n * factorial[n - 1]]
<1> DEFINE upto(n) == CHOOSE f : Multiplies(f, n)
           F == [n \in Nat |-> upto(n)[n]]
<1>1. ASSUME NEW n \in Nat PROVE Multiplies(upto(n), n)
  BY MultipliesExists
<1>2. ASSUME NEW n \in Nat PROVE F[n] = IF n = 0 THEN 1 ELSE n * F[n - 1]
  <2>1. Multiplies(upto(n), n) /\ n \in 0 .. n
    BY <1>1
  <2>2. upto(n)[n] = IF n = 0 THEN 1 ELSE n * upto(n)[n - 1]
    BY <2>1 DEF Multiplies
  <2>3. n # 0 => upto(n)[n - 1] = upto(n - 1)[n - 1]
    <3>1. n # 0 => n - 1 \in Nat /\ n - 1 <= n /\ n - 1 <= n - 1
      OBVIOUS
    <3> HIDE DEF upto
    <3>2. QED
      BY <1>1, <3>1, MultipliesOnce
  <2>4. QED
    BY <2>2, <2>3
<1>3. F = [n \in Nat |-> F[n]]
  OBVIOUS
<1> HIDE DEF F
<1>4. F = [n \in Nat |-> IF n = 0 THEN 1 ELSE n * F[n - 1]]
  BY <1>2, <1>3
<1>5. QED
  BY <1>4 DEF factorial

\* Factorials are positive numbers.
LEMMA Factorials ==
  /\ factorial[0] = 1
  /\ \A n \in Nat : factorial[n] \in Nat \ {0} /\ factorial[n + 1] = (n + 1) * factorial[n]
<1>1. PICK F : F = factorial
  OBVIOUS
<1>2. F = [n \in Nat |-> IF n = 0 THEN 1 ELSE n * F[n - 1]]
  BY <1>1, FactorialIs
<1>3. F[0] = 1 /\ \A n \in Nat \ {0} : F[n] = n * F[n - 1]
  BY <1>2
<1> DEFINE T == {n \in Nat : F[n] \notin Nat \ {0}}
<1>4. ASSUME T # {} PROVE FALSE
  <2>1. PICK k \in T : \A i \in T : k <= i
    <3>1. T \subseteq Nat
      OBVIOUS
    <3> HIDE DEF T
    <3>2. QED
      BY <1>4, <3>1, Least
  <2>2. k \in Nat /\ k # 0
    BY <1>3
  <2>3. k - 1 \in Nat /\ k - 1 \notin T
    BY <2>1, <2>2
  <2>4. PICK m \in Nat : m = F[k - 1] /\ m # 0
    BY <2>3
  <2>5. F[k] = k * m
    BY <1>3, <2>2, <2>4
  <2>6. k * m \in Nat /\ k * m # 0
    BY <2>2, <2>4
  <2>7. QED
    BY <2>5, <2>6
<1>5. ASSUME NEW n \in Nat PROVE F[n] \in Nat \ {0} /\ F[n + 1] = (n + 1) * F[n]
  <2>1. n + 1 \in Nat \ {0} /\ (n + 1) - 1 = n
    OBVIOUS
  <2>2. F[n + 1] = (n + 1) * F[(n + 1) - 1]
    BY <1>3, <2>1
  <2>3. QED
    BY <1>4, <2>1, <2>2
<1>6. QED
  BY <1>1, <1>3, <1>5

-----------------------------------------------------------------------------
(* Subsets of a size.                                                      *)

\* They are finitely many.
LEMMA SubsetsFinite ==
  ASSUME NEW S, IsFiniteSet(S), NEW k
  PROVE  IsFiniteSet(kSubset(k, S)) /\ Cardinality(kSubset(k, S)) \in Nat
<1>1. IsFiniteSet(SUBSET S) /\ kSubset(k, S) \in SUBSET (SUBSET S)
  BY FS_SUBSET DEF kSubset
<1>2. QED
  BY <1>1, FS_Subset, FS_CardinalityType

\* Those with a given element in them are as many as those one smaller without it.
LEMMA WithElement ==
  ASSUME NEW S, IsFiniteSet(S), NEW x, x \notin S, NEW k \in Nat \ {0}
  PROVE  LET U == {s \in kSubset(k, S \cup {x}) : x \in s}
         IN IsFiniteSet(U) /\ Cardinality(U) = Cardinality(kSubset(k - 1, S))
<1> DEFINE U == {s \in kSubset(k, S \cup {x}) : x \in s}
           V == kSubset(k - 1, S)
           f == [s \in V |-> s \cup {x}]
<1>1. ASSUME NEW s \in V PROVE f[s] \in U
  <2>1. s \in SUBSET S /\ Cardinality(s) = k - 1 /\ x \notin s
    BY DEF kSubset
  <2>2. IsFiniteSet(s)
    BY <2>1, FS_Subset
  <2>3. Cardinality(s \cup {x}) = k
    <3>1. Cardinality(s \cup {x}) = Cardinality(s) + 1
      BY <2>1, <2>2, FS_AddElement
    <3>2. (k - 1) + 1 = k
      OBVIOUS
    <3>3. QED
      BY <2>1, <3>1, <3>2
  <2>4. QED
    BY <2>1, <2>3 DEF kSubset
<1>2. ASSUME NEW s \in V, NEW t \in V, f[s] = f[t] PROVE s = t
  <2>1. x \notin s /\ x \notin t
    BY DEF kSubset
  <2>2. s \cup {x} = t \cup {x}
    BY <1>2
  <2>3. QED
    BY <2>1, <2>2
<1>3. ASSUME NEW u \in U PROVE \E s \in V : f[s] = u
  <2>1. u \in SUBSET (S \cup {x}) /\ Cardinality(u) = k /\ x \in u
    BY DEF kSubset
  <2>2. IsFiniteSet(u)
    BY <2>1, FS_Subset, FS_AddElement
  <2>3. Cardinality(u \ {x}) = k - 1
    BY <2>1, <2>2, FS_RemoveElement
  <2>4. u \ {x} \in V /\ (u \ {x}) \cup {x} = u
    BY <2>1, <2>3 DEF kSubset
  <2>5. QED
    BY <2>4
<1>4. f \in Bijection(V, U)
  BY <1>1, <1>2, <1>3 DEF Bijection, Injection, Surjection, IsInjective
<1>5. IsFiniteSet(V)
  BY SubsetsFinite
<1> HIDE DEF f, U, V
<1>6. ExistsBijection(V, U)
  BY <1>4 DEF ExistsBijection
<1>7. IsFiniteSet(U) /\ Cardinality(U) = Cardinality(V)
  BY <1>5, <1>6, FS_Bijection
<1>8. QED
  BY <1>7 DEF U, V

\* The rule of Pascal's triangle.
LEMMA Pascal ==
  ASSUME NEW S, IsFiniteSet(S), NEW x, x \notin S, NEW k \in Nat \ {0}
  PROVE  Cardinality(kSubset(k, S \cup {x})) =
           Cardinality(kSubset(k, S)) + Cardinality(kSubset(k - 1, S))
<1> DEFINE U == {s \in kSubset(k, S \cup {x}) : x \in s}
<1>1. IsFiniteSet(U) /\ Cardinality(U) = Cardinality(kSubset(k - 1, S))
  BY WithElement
<1>2. IsFiniteSet(kSubset(k, S)) /\ Cardinality(kSubset(k, S)) \in Nat
      /\ Cardinality(kSubset(k - 1, S)) \in Nat
  BY SubsetsFinite
<1>3. kSubset(k, S \cup {x}) = kSubset(k, S) \cup U /\ kSubset(k, S) \cap U = {}
  BY DEF kSubset
<1> HIDE DEF U
<1>4. Cardinality(kSubset(k, S) \cup U) = Cardinality(kSubset(k, S)) + Cardinality(U) - Cardinality({})
  BY <1>1, <1>2, <1>3, FS_Union
<1>5. Cardinality({}) = 0
  BY FS_EmptySet
<1>6. PICK a \in Nat, b \in Nat :
        a = Cardinality(kSubset(k, S)) /\ b = Cardinality(kSubset(k - 1, S))
  BY <1>2
<1>7. Cardinality(kSubset(k, S \cup {x})) = a + b - 0
  BY <1>1, <1>3, <1>4, <1>5, <1>6
<1>8. a + b - 0 = a + b
  OBVIOUS
<1>9. QED
  BY <1>6, <1>7, <1>8

\* Of some parts of a finite set, one has none of the others in it.
LEMMA Smallest ==
  ASSUME NEW S, IsFiniteSet(S), NEW T, T \subseteq SUBSET S, T # {}
  PROVE  \E s \in T : \A r \in T : r \subseteq s => r = s
<1>1. IsWellFoundedOn(StrictSubsetOrdering(S), SUBSET S)
  BY FS_StrictSubsetOrderingWellFounded, FS_FiniteSubsetsOfFinite
<1>2. PICK s \in T : \A r \in T : ~(<<r, s>> \in StrictSubsetOrdering(S))
  BY <1>1, WFMin, Zenon
<1>3. QED
  BY <1>2 DEF StrictSubsetOrdering

\* Two terms of the triangle add up to the next.
LEMMA Triangle ==
  ASSUME NEW a \in Nat, NEW b \in Nat, NEW k \in Nat, NEW m \in Nat,
         NEW p \in Nat, NEW q \in Nat, NEW r \in Nat,
         a * ((k * q) * r) = p, b * (q * (m * r)) = p
  PROVE  (a + b) * ((k * q) * (m * r)) = (k + m) * p
<1>1. a * ((k * q) * (m * r)) = m * (a * ((k * q) * r))
  OBVIOUS
<1>2. b * ((k * q) * (m * r)) = k * (b * (q * (m * r)))
  OBVIOUS
<1>3. (a + b) * ((k * q) * (m * r)) = a * ((k * q) * (m * r)) + b * ((k * q) * (m * r))
  OBVIOUS
<1>4. (k + m) * p = m * p + k * p
  OBVIOUS
<1>5. QED
  BY <1>1, <1>2, <1>3, <1>4

\* How many there are.
Counted(S) ==
  \A k \in 0 .. Cardinality(S) :
    Cardinality(kSubset(k, S)) * (factorial[k] * factorial[Cardinality(S) - k])
      = factorial[Cardinality(S)]

\* With one more element.
LEMMA CountedMore ==
  ASSUME NEW S, IsFiniteSet(S), NEW x, x \notin S, Counted(S)
  PROVE  Counted(S \cup {x})
<1>1. PICK n \in Nat : n = Cardinality(S)
  BY FS_CardinalityType
<1>2. PICK R : R = S \cup {x}
  OBVIOUS
<1>3. IsFiniteSet(R) /\ Cardinality(R) = n + 1
  BY <1>1, <1>2, FS_AddElement
<1>4. ASSUME NEW k \in 0 .. n + 1
      PROVE  Cardinality(kSubset(k, R)) * (factorial[k] * factorial[n + 1 - k]) = factorial[n + 1]
  <2>1. PICK w \in Nat : w = factorial[n + 1]
    BY Factorials
  <2>2. CASE k = 0
    <3>1. kSubset(0, R) = {{}}
      <4>1. ASSUME NEW s \in SUBSET R PROVE Cardinality(s) = 0 <=> s = {}
        BY <1>3, FS_Subset, FS_EmptySet
      <4>2. QED
        BY <4>1 DEF kSubset
    <3>2. Cardinality(kSubset(k, R)) = 1
      BY <2>2, <3>1, FS_Singleton
    <3>3. factorial[k] = 1 /\ factorial[n + 1 - k] = w
      BY <2>1, <2>2, Factorials
    <3>4. QED
      BY <2>1, <3>2, <3>3
  <2>3. CASE k = n + 1
    <3>1. kSubset(n + 1, R) = {R}
      <4>1. ASSUME NEW s \in SUBSET R PROVE Cardinality(s) = n + 1 <=> s = R
        BY <1>3, FS_Subset
      <4>2. QED
        BY <4>1 DEF kSubset
    <3>2. Cardinality(kSubset(k, R)) = 1
      BY <2>3, <3>1, FS_Singleton
    <3>3. n + 1 - k = 0 /\ factorial[k] = w /\ factorial[0] = 1
      BY <2>1, <2>3, Factorials
    <3>4. QED
      BY <2>1, <3>2, <3>3
  <2>4. CASE k # 0 /\ k # n + 1
    <3>1. PICK j \in Nat : k = j + 1 /\ j + 1 <= n
      <4>1. k - 1 \in Nat /\ k = (k - 1) + 1 /\ (k - 1) + 1 <= n
        BY <2>4
      <4>2. QED
        BY <4>1
    <3>2. PICK m \in Nat : n = j + (m + 1)
      <4>1. n - (j + 1) \in Nat /\ n = j + ((n - (j + 1)) + 1)
        BY <3>1
      <4>2. QED
        BY <4>1
    <3>3. PICK p \in Nat, q \in Nat, r \in Nat :
            p = factorial[n] /\ q = factorial[j] /\ r = factorial[m]
      BY Factorials
    <3>4. PICK a \in Nat, b \in Nat :
            a = Cardinality(kSubset(k, S)) /\ b = Cardinality(kSubset(j, S))
      BY SubsetsFinite
    <3>5. /\ factorial[k] = k * q /\ factorial[m + 1] = (m + 1) * r
          /\ factorial[n + 1] = (n + 1) * p
      BY <3>1, <3>3, Factorials
    <3>6. a * ((k * q) * r) = p
      <4>1. k \in 0 .. n /\ n - k = m
        BY <3>1, <3>2
      <4>2. QED
        BY <1>1, <3>3, <3>4, <3>5, <4>1 DEF Counted
    <3>7. b * (q * ((m + 1) * r)) = p
      <4>1. j \in 0 .. n /\ n - j = m + 1
        BY <3>1, <3>2
      <4>2. QED
        BY <1>1, <3>3, <3>4, <3>5, <4>1 DEF Counted
    <3>8. k \in Nat /\ m + 1 \in Nat
      OBVIOUS
    <3>9. (a + b) * ((k * q) * ((m + 1) * r)) = (k + (m + 1)) * p
      BY <3>6, <3>7, <3>8, Triangle
    <3>10. Cardinality(kSubset(k, R)) = a + b
      <4>1. k \in Nat \ {0} /\ k - 1 = j
        BY <3>1
      <4>2. QED
        BY <1>2, <3>4, <4>1, Pascal
    <3>11. n + 1 - k = m + 1 /\ k + (m + 1) = n + 1
      BY <3>1, <3>2
    <3>12. QED
      BY <3>5, <3>9, <3>10, <3>11
  <2>5. QED
    BY <2>2, <2>3, <2>4
<1>5. QED
  BY <1>2, <1>3, <1>4 DEF Counted

\* All finite sets: no smallest one is counted wrong.
LEMMA AllCounted ==
  ASSUME NEW S, IsFiniteSet(S)
  PROVE  Counted(S)
<1> DEFINE T == {s \in SUBSET S : ~Counted(s)}
<1> SUFFICES ASSUME S \in T PROVE FALSE
  OBVIOUS
<1>1. PICK s \in T : \A r \in T : r \subseteq s => r = s
  <2>1. T \subseteq SUBSET S /\ T # {}
    OBVIOUS
  <2> HIDE DEF T
  <2>2. QED
    BY <2>1, Smallest
<1>2. CASE s = {}
  <2>1. Cardinality({}) = 0
    BY FS_EmptySet
  <2>2. kSubset(0, {}) = {{}}
    BY <2>1 DEF kSubset
  <2>3. Cardinality(kSubset(0, {})) = 1
    BY <2>2, FS_Singleton
  <2>4. Counted({})
    BY <2>1, <2>3, Factorials DEF Counted
  <2>5. QED
    BY <1>2, <2>4
<1>3. CASE s # {}
  <2>1. PICK x \in s : TRUE
    BY <1>3
  <2>2. PICK r : r = s \ {x}
    OBVIOUS
  <2>3. r \in SUBSET S /\ r \subseteq s /\ r # s /\ x \notin r /\ s = r \cup {x}
    BY <2>2
  <2>4. IsFiniteSet(r)
    BY <2>3, FS_Subset
  <2>5. Counted(r)
    BY <1>1, <2>3
  <2>6. Counted(s)
    BY <2>3, <2>4, <2>5, CountedMore
  <2>7. QED
    BY <2>6
<1>4. QED
  BY <1>2, <1>3

\* A product divided by one of its factors.
LEMMA Quotient ==
  ASSUME NEW a \in Nat, NEW d \in Nat \ {0}
  PROVE  (a * d) \div d = a
OBVIOUS

\* math.comb counts the subsets of a size.
LEMMA Chosen ==
  ASSUME NEW S, IsFiniteSet(S), NEW k \in Nat, k <= Cardinality(S)
  PROVE  choose(Cardinality(S), k) = Cardinality(kSubset(k, S))
<1>1. PICK n \in Nat : n = Cardinality(S)
  BY FS_CardinalityType
<1>2. PICK a \in Nat : a = Cardinality(kSubset(k, S))
  BY SubsetsFinite
<1>3. k \in 0 .. n /\ n - k \in Nat
  BY <1>1
<1>4. PICK q \in Nat \ {0}, r \in Nat \ {0} : q = factorial[k] /\ r = factorial[n - k]
  BY <1>3, Factorials
<1>5. a * (q * r) = factorial[n]
  BY <1>1, <1>2, <1>3, <1>4, AllCounted DEF Counted
<1>6. q * r \in Nat \ {0}
  BY <1>4
<1>7. (a * (q * r)) \div (q * r) = a
  BY <1>6, Quotient
<1>8. QED
  BY <1>1, <1>2, <1>4, <1>5, <1>7 DEF choose

-----------------------------------------------------------------------------
(* Cohorts.                                                                *)

\* An arm's trial has arrived or is missing.
CInv == cohorts \in [Arms -> [Indexes -> {Missing} \cup Trial("baseline") \cup Trial("faulted")]]

\* Trials arrive one at a time.
LEMMA CohortsStay == Spec => []CInv
<1>1. Init => CInv
  BY DEF Init, CInv
<1>2. ASSUME CInv, [Next]_vars PROVE CInv'
  <2>1. ASSUME NEW arm \in Arms, NEW i \in Indexes, mint_campaign_trial(arm, i) PROVE CInv'
    <3>1. PICK trial \in Trial(arm) : cohorts' = [cohorts EXCEPT ![arm][i] = trial]
      BY <2>1 DEF mint_campaign_trial
    <3>2. trial \in Trial("baseline") \cup Trial("faulted")
      BY <3>1 DEF Arms
    <3>3. QED
      BY <1>2, <2>1, <3>1, <3>2 DEF CInv
  <2>2. CASE UNCHANGED vars
    BY <1>2, <2>2 DEF vars, CInv
  <2>3. QED
    BY <1>2, <2>1, <2>2 DEF Next
<1>3. QED
  BY <1>1, <1>2, PTL DEF Spec

\* There are finitely many indexes.
LEMMA IndexesFinite ==
  /\ Indexes \subseteq Nat /\ IsFiniteSet(Indexes) /\ Cardinality(Indexes) = planned_trials
  /\ planned_trials \in Nat \ {0}
<1>1. planned_trials \in Nat \ {0}
  BY StatisticsAssumption DEF StatisticsAssumption
<1>2. QED
  BY <1>1, FS_Interval DEF Indexes

\* Trials that arrived passed, failed or are invalid; a subset is finite.
LEMMA Classified ==
  ASSUME CInv, NEW arm \in Arms, NEW S, S \subseteq Trials(arm)
  PROVE  /\ S \subseteq Indexes /\ IsFiniteSet(S) /\ Cardinality(S) \in Nat
         /\ \A i \in S : cohorts[arm][i].classification \in {"pass", "fail", "invalid"}
<1>1. S \subseteq Indexes
  BY DEF Trials
<1>2. IsFiniteSet(S) /\ Cardinality(S) \in Nat
  BY <1>1, IndexesFinite, FS_Subset, FS_CardinalityType
<1>3. ASSUME NEW i \in S PROVE cohorts[arm][i].classification \in {"pass", "fail", "invalid"}
  <2>1. PICK t : t = cohorts[arm][i]
    OBVIOUS
  <2>2. t \in Trial("baseline") \cup Trial("faulted")
    BY <2>1 DEF CInv, Trials
  <2>3. t.classification \in {"pass", "fail", "invalid"}
    BY <2>2 DEF Trial
  <2>4. QED
    BY <2>1, <2>3
<1>4. QED
  BY <1>1, <1>2, <1>3

\* The parts of a set of trials.
LEMMA Parts ==
  ASSUME CInv, NEW arm \in Arms, NEW S, S \subseteq Trials(arm)
  PROVE  LET P == Of(arm, S, "pass")
             F == Of(arm, S, "fail")
             V == Valid(arm, S)
         IN /\ V = P \cup F /\ P \cap F = {} /\ V \ P = F /\ V \subseteq S
            /\ IsFiniteSet(P) /\ IsFiniteSet(F) /\ IsFiniteSet(V)
            /\ Cardinality(P) \in Nat /\ Cardinality(F) \in Nat
            /\ Cardinality(V) = Cardinality(P) + Cardinality(F)
<1> DEFINE P == Of(arm, S, "pass")
           F == Of(arm, S, "fail")
           V == Valid(arm, S)
<1>1. /\ V = P \cup F /\ P \cap F = {} /\ V \ P = F /\ V \subseteq S
      /\ P \subseteq S /\ F \subseteq S
  BY Classified DEF Of, Valid
<1>2. IsFiniteSet(S)
  BY Classified
<1> HIDE DEF P, F, V
<1>3. IsFiniteSet(P) /\ IsFiniteSet(F) /\ IsFiniteSet(V)
  BY <1>1, <1>2, FS_Subset
<1>4. PICK p \in Nat, f \in Nat : p = Cardinality(P) /\ f = Cardinality(F)
  BY <1>3, FS_CardinalityType
<1>5. Cardinality(V) = p + f - 0
  BY <1>1, <1>3, <1>4, FS_Union, FS_EmptySet
<1>6. p + f - 0 = p + f
  OBVIOUS
<1>7. QED
  BY <1>1, <1>3, <1>4, <1>5, <1>6 DEF P, F, V

-----------------------------------------------------------------------------
(* pass@k.                                                                 *)

Lucky(V, P, k) == {s \in kSubset(k, V) : \E i \in s : i \in P}

\* The samples without a pass are those of the trials that failed.
LEMMA LuckyCount ==
  ASSUME NEW V, IsFiniteSet(V), NEW P, P \subseteq V, NEW k \in Nat
  PROVE  /\ Cardinality(Lucky(V, P, k)) \in Nat
         /\ Cardinality(kSubset(k, V)) =
              Cardinality(Lucky(V, P, k)) + Cardinality(kSubset(k, V \ P))
<1>1. PICK A, B : A = Lucky(V, P, k) /\ B = kSubset(k, V \ P)
  OBVIOUS
<1>2. kSubset(k, V) = A \cup B /\ A \cap B = {}
  BY <1>1 DEF Lucky, kSubset
<1>3. IsFiniteSet(kSubset(k, V)) /\ A \in SUBSET kSubset(k, V) /\ B \in SUBSET kSubset(k, V)
  BY <1>2, SubsetsFinite
<1>4. IsFiniteSet(A) /\ IsFiniteSet(B)
  BY <1>3, FS_Subset
<1>5. PICK a \in Nat, b \in Nat : a = Cardinality(A) /\ b = Cardinality(B)
  BY <1>4, FS_CardinalityType
<1>6. Cardinality(kSubset(k, V)) = a + b - 0
  BY <1>2, <1>4, <1>5, FS_Union, FS_EmptySet
<1>7. a + b - 0 = a + b
  OBVIOUS
<1>8. QED
  BY <1>1, <1>5, <1>6, <1>7

\* There is no subset larger than its set.
LEMMA NoneLarger ==
  ASSUME NEW S, IsFiniteSet(S), NEW k \in Nat, ~(k <= Cardinality(S))
  PROVE  kSubset(k, S) = {} /\ Cardinality(kSubset(k, S)) = 0
<1>1. ASSUME NEW s \in SUBSET S PROVE Cardinality(s) # k
  BY FS_Subset, FS_CardinalityType
<1>2. kSubset(k, S) = {}
  BY <1>1 DEF kSubset
<1>3. QED
  BY <1>2, FS_EmptySet

\* The closed form of pass@k is the share of samples with a pass in them.
LEMMA ClosedForm ==
  ASSUME CInv, NEW arm \in Arms, NEW S, S \subseteq Trials(arm), NEW k \in Nat
  PROVE  LET V == Valid(arm, S)
         IN pass_at_k(arm, S, k) =
              rate(Cardinality(Lucky(V, Of(arm, S, "pass"), k)), Cardinality(kSubset(k, V)))
<1>1. PICK V, P, F : V = Valid(arm, S) /\ P = Of(arm, S, "pass") /\ F = Of(arm, S, "fail")
  OBVIOUS
<1>2. /\ V \ P = F /\ P \subseteq V
      /\ IsFiniteSet(P) /\ IsFiniteSet(F) /\ IsFiniteSet(V)
      /\ Cardinality(P) \in Nat /\ Cardinality(F) \in Nat
      /\ Cardinality(V) = Cardinality(P) + Cardinality(F)
  BY <1>1, Parts
<1>3. PICK p \in Nat, f \in Nat, n \in Nat :
        p = Cardinality(P) /\ f = Cardinality(F) /\ n = Cardinality(V) /\ n = p + f
  BY <1>2
<1>4. n - p = f
  BY <1>3
<1>5. PICK a \in Nat, b \in Nat :
        /\ a = Cardinality(Lucky(V, P, k)) /\ b = Cardinality(kSubset(k, F))
        /\ Cardinality(kSubset(k, V)) = a + b
  BY <1>2, LuckyCount, SubsetsFinite
<1>6. sample_size(arm, S) = n
  BY <1>1, <1>3 DEF sample_size
<1>7. CASE k > n
  <2>1. Cardinality(kSubset(k, V)) = 0
    BY <1>2, <1>3, <1>7, NoneLarger
  <2>2. QED
    BY <1>1, <1>6, <1>7, <2>1 DEF pass_at_k, rate
<1>8. CASE ~(k > n)
  <2>1. choose(n, k) = a + b
    BY <1>2, <1>3, <1>5, <1>8, Chosen
  <2>2. (IF k > f THEN 0 ELSE choose(f, k)) = b
    <3>1. CASE k > f
      <4>1. Cardinality(kSubset(k, F)) = 0
        BY <1>2, <1>3, <3>1, NoneLarger
      <4>2. QED
        BY <1>5, <3>1, <4>1
    <3>2. CASE ~(k > f)
      BY <1>2, <1>3, <1>5, <3>2, Chosen
    <3>3. QED
      BY <3>1, <3>2
  <2>3. (a + b) - b = a
    OBVIOUS
  <2>4. pass_at_k(arm, S, k) = rate(choose(n, k) - (IF k > f THEN 0 ELSE choose(f, k)), choose(n, k))
    BY <1>1, <1>3, <1>4, <1>6, <1>8 DEF pass_at_k
  <2>5. pass_at_k(arm, S, k) = rate(a, a + b)
    BY <2>1, <2>2, <2>3, <2>4
  <2>6. QED
    BY <1>1, <1>5, <2>5
<1>9. QED
  BY <1>7, <1>8

-----------------------------------------------------------------------------
(* pass^k.                                                                 *)

\* Quotient and remainder of an index.
LEMMA Division ==
  ASSUME NEW k \in Nat \ {0}, NEW i \in Nat
  PROVE  /\ i \div k \in Nat /\ i % k \in 0 .. k - 1
         /\ (i \div k) * k + (i % k) = i
<1>1. PICK q \in Nat : q = i \div k
  OBVIOUS
<1>2. q * k <= i /\ i < q * k + k
  BY <1>1
<1>3. PICK r \in 0 .. k - 1 : q * k + r = i
  <2>1. i - q * k \in 0 .. k - 1 /\ q * k + (i - q * k) = i
    BY <1>2
  <2>2. QED
    BY <2>1
<1>4. (q * k + r) % k = r
  OBVIOUS
<1>5. i % k = r
  BY <1>3, <1>4
<1>6. QED
  BY <1>1, <1>3, <1>5

\* The block of an index.
LEMMA Blocks ==
  ASSUME NEW k \in Nat \ {0}, NEW i \in Nat, NEW g \in Nat, NEW S
  PROVE  i \in group(S, g, k) <=> i \div k = g
<1>1. PICK q \in Nat, r \in 0 .. k - 1 : q = i \div k /\ q * k + r = i
  BY Division
<1>2. PICK m \in Nat : m = g * k
  OBVIOUS
<1>3. (g + 1) * k = m + k
  BY <1>2
<1>4. i \in group(S, g, k) <=> m <= i /\ i <= m + k - 1
  BY <1>2, <1>3 DEF group
<1>5. CASE q = g
  BY <1>1, <1>2, <1>4, <1>5
<1>6. CASE q < g
  <2>1. PICK d \in Nat : g = q + 1 + d
    <3>1. g - q - 1 \in Nat /\ g = q + 1 + (g - q - 1)
      BY <1>6
    <3>2. QED
      BY <3>1
  <2>2. d * k \in Nat /\ m = q * k + k + d * k
    BY <1>2, <2>1
  <2>3. q * k \in Nat
    OBVIOUS
  <2>4. ~(m <= i)
    BY <1>1, <2>2, <2>3
  <2>5. QED
    BY <1>1, <1>4, <1>6, <2>4
<1>7. CASE g < q
  <2>1. PICK d \in Nat : q = g + 1 + d
    <3>1. q - g - 1 \in Nat /\ q = g + 1 + (q - g - 1)
      BY <1>7
    <3>2. QED
      BY <3>1
  <2>2. d * k \in Nat /\ q * k = m + k + d * k
    BY <1>2, <2>1
  <2>3. ~(i <= m + k - 1)
    BY <1>1, <2>2
  <2>4. QED
    BY <1>1, <1>4, <1>7, <2>3
<1>8. QED
  BY <1>1, <1>5, <1>6, <1>7

\* A complete group is of planned trials.
LEMMA GroupPlanned ==
  ASSUME NEW k \in Nat \ {0}, NEW g \in complete_groups(k), NEW S
  PROVE  g \in Nat /\ group(S, g, k) \subseteq Indexes
<1>1. PICK n \in Nat \ {0} : n = planned_trials
  BY IndexesFinite
<1>2. PICK q \in Nat, r \in 0 .. k - 1 : q = n \div k /\ q * k + r = n
  BY Division
<1>3. g \in 0 .. q - 1
  BY <1>1, <1>2 DEF complete_groups
<1>4. PICK d \in Nat : q = g + 1 + d
  <2>1. q - g - 1 \in Nat /\ q = g + 1 + (q - g - 1)
    BY <1>3
  <2>2. QED
    BY <2>1
<1>5. d * k \in Nat /\ g * k \in Nat /\ (g + 1) * k \in Nat /\ q * k = (g + 1) * k + d * k
  BY <1>3, <1>4
<1>6. (g + 1) * k - 1 <= n - 1
  BY <1>2, <1>5
<1>7. group(S, g, k) \subseteq 0 .. n - 1
  BY <1>5, <1>6 DEF group
<1>8. QED
  BY <1>1, <1>3, <1>7 DEF Indexes

\* The groups of which every trial is in T.
Whole(T, k) == {g \in complete_groups(k) : \A i \in Indexes : i \div k = g => i \in T}

\* Those are the groups within T.
LEMMA WholeIs ==
  ASSUME NEW k \in Nat \ {0}, NEW g \in complete_groups(k), NEW S, NEW T
  PROVE  g \in Whole(T, k) <=> group(S, g, k) \subseteq T
<1>1. g \in Nat /\ group(S, g, k) \subseteq Indexes
  BY GroupPlanned
<1>2. \A i \in Indexes : i \in group(S, g, k) <=> i \div k = g
  BY <1>1, Blocks, IndexesFinite
<1>3. QED
  BY <1>1, <1>2 DEF Whole

\* How a group ended.
LEMMA Outcomes ==
  ASSUME CInv, NEW arm \in Arms, NEW S, S \subseteq Trials(arm),
         NEW k \in Nat \ {0}, NEW g \in complete_groups(k)
  PROVE  LET o == outcome(arm, S, g, k)
         IN /\ o \in {"missing", "invalid", "successful", "failed"}
            /\ o = "successful" <=> g \in Whole(Of(arm, S, "pass"), k)
            /\ o \in {"successful", "failed"} <=> g \in Whole(Valid(arm, S), k)
<1>1. PICK t : t = group(S, g, k)
  OBVIOUS
<1>2. /\ g \in Whole(Of(arm, S, "pass"), k) <=> t \subseteq Of(arm, S, "pass")
      /\ g \in Whole(Valid(arm, S), k) <=> t \subseteq Valid(arm, S)
  BY <1>1, WholeIs
<1>3. PICK o : o = outcome(arm, S, g, k)
  OBVIOUS
<1>4. o = IF ~(t \subseteq S) THEN "missing"
          ELSE IF Of(arm, t, "invalid") # {} THEN "invalid"
          ELSE IF t = Of(arm, t, "pass") THEN "successful"
          ELSE "failed"
  BY <1>1, <1>3 DEF outcome
<1>5. /\ t \subseteq Of(arm, S, "pass") <=> t \subseteq S /\ t = Of(arm, t, "pass")
      /\ t \subseteq Valid(arm, S) <=> t \subseteq S /\ Of(arm, t, "invalid") = {}
      /\ t \subseteq S /\ t = Of(arm, t, "pass") => Of(arm, t, "invalid") = {}
  BY Classified DEF Of, Valid
<1>6. /\ o \in {"missing", "invalid", "successful", "failed"}
      /\ o = "successful" <=> t \subseteq S /\ t = Of(arm, t, "pass")
      /\ o \in {"successful", "failed"} <=> t \subseteq S /\ Of(arm, t, "invalid") = {}
  BY <1>4, <1>5
<1>7. QED
  BY <1>2, <1>3, <1>5, <1>6

Ended(arm, S, k, result) == {g \in complete_groups(k) : outcome(arm, S, g, k) = result}

\* Complete groups are finitely many.
LEMMA GroupsFinite ==
  ASSUME NEW k \in Nat \ {0}
  PROVE  /\ IsFiniteSet(complete_groups(k))
         /\ Cardinality(complete_groups(k)) = planned_trials \div k
         /\ planned_trials \div k \in Nat
<1>1. PICK n \in Nat : n = planned_trials
  BY IndexesFinite
<1>2. PICK q \in Nat : q = n \div k
  BY Division
<1>3. complete_groups(k) = 0 .. q - 1
  BY <1>1, <1>2 DEF complete_groups
<1>4. IsFiniteSet(0 .. q - 1) /\ Cardinality(0 .. q - 1) = q
  BY FS_Interval
<1>5. QED
  BY <1>1, <1>2, <1>3, <1>4

\* The fields of pass^k.
LEMMA Power ==
  ASSUME CInv, NEW arm \in Arms, NEW S, S \subseteq Trials(arm), NEW k \in Nat \ {0}
  PROVE  LET power == pass_power_k(arm, S, k)
         IN /\ power.successful = Cardinality(Whole(Of(arm, S, "pass"), k))
            /\ power.valid = Cardinality(Whole(Valid(arm, S), k))
            /\ power.valid + power.invalid + power.missing = power.complete
            /\ power.complete * k + power.discarded = planned_trials
            /\ power.estimate = rate(power.successful, power.valid)
<1>1. PICK A, B, C, D :
        /\ A = Ended(arm, S, k, "successful") /\ B = Ended(arm, S, k, "failed")
        /\ C = Ended(arm, S, k, "invalid") /\ D = Ended(arm, S, k, "missing")
  OBVIOUS
<1>2. /\ A = Whole(Of(arm, S, "pass"), k) /\ A \cup B = Whole(Valid(arm, S), k)
      /\ (A \cup B) \cup (C \cup D) = complete_groups(k)
      /\ A \cap B = {} /\ C \cap D = {} /\ (A \cup B) \cap (C \cup D) = {}
  BY <1>1, Outcomes DEF Ended, Whole
<1>3. /\ A \in SUBSET complete_groups(k) /\ B \in SUBSET complete_groups(k)
      /\ C \in SUBSET complete_groups(k) /\ D \in SUBSET complete_groups(k)
  BY <1>2
<1>4. IsFiniteSet(A) /\ IsFiniteSet(B) /\ IsFiniteSet(C) /\ IsFiniteSet(D)
  BY <1>3, GroupsFinite, FS_Subset
<1>5. PICK a \in Nat, b \in Nat, c \in Nat, d \in Nat :
        a = Cardinality(A) /\ b = Cardinality(B) /\ c = Cardinality(C) /\ d = Cardinality(D)
  BY <1>4, FS_CardinalityType
<1>6. IsFiniteSet(A \cup B) /\ Cardinality(A \cup B) = a + b
  <2>1. IsFiniteSet(A \cup B) /\ Cardinality(A \cup B) = a + b - 0
    BY <1>2, <1>4, <1>5, FS_Union, FS_EmptySet
  <2>2. QED
    BY <2>1
<1>7. IsFiniteSet(C \cup D) /\ Cardinality(C \cup D) = c + d
  <2>1. IsFiniteSet(C \cup D) /\ Cardinality(C \cup D) = c + d - 0
    BY <1>2, <1>4, <1>5, FS_Union, FS_EmptySet
  <2>2. QED
    BY <2>1
<1>8. Cardinality(complete_groups(k)) = (a + b) + (c + d)
  <2>1. PICK X, Y : X = A \cup B /\ Y = C \cup D
    OBVIOUS
  <2>2. Cardinality(X \cup Y) = Cardinality(X) + Cardinality(Y) - Cardinality({})
    BY <1>2, <1>6, <1>7, <2>1, FS_Union
  <2>3. Cardinality(X \cup Y) = (a + b) + (c + d) - 0
    BY <1>6, <1>7, <2>1, <2>2, FS_EmptySet
  <2>4. (a + b) + (c + d) - 0 = (a + b) + (c + d)
    OBVIOUS
  <2>5. QED
    BY <1>2, <2>1, <2>3, <2>4
<1>9. PICK power : power = pass_power_k(arm, S, k)
  OBVIOUS
<1>10. /\ power.complete = planned_trials \div k /\ power.discarded = planned_trials % k
       /\ power.valid = a + b /\ power.successful = a /\ power.invalid = c /\ power.missing = d
       /\ power.estimate = rate(a, a + b)
  BY <1>1, <1>5, <1>9 DEF pass_power_k, Ended
<1>11. (planned_trials \div k) * k + (planned_trials % k) = planned_trials
  BY Division, IndexesFinite
<1>12. power.valid + power.invalid + power.missing = power.complete
  BY <1>8, <1>10, GroupsFinite
<1>13. power.complete * k + power.discarded = planned_trials
  <2>1. PICK n \in Nat, q \in Nat, r \in 0 .. k - 1 :
          n = planned_trials /\ q = planned_trials \div k /\ r = planned_trials % k /\ q * k + r = n
    BY <1>11, Division, IndexesFinite
  <2>2. QED
    BY <1>10, <2>1
<1>14. QED
  BY <1>2, <1>5, <1>6, <1>9, <1>10, <1>12, <1>13

\* There are as many subsets of one element as elements.
LEMMA Singles ==
  ASSUME NEW S, IsFiniteSet(S)
  PROVE  Cardinality(kSubset(1, S)) = Cardinality(S)
<1> DEFINE f == [x \in S |-> {x}]
<1>1. kSubset(1, S) = {{x} : x \in S}
  <2>1. ASSUME NEW s \in SUBSET S PROVE Cardinality(s) = 1 <=> \E x : s = {x}
    BY FS_Singleton, FS_Subset
  <2>2. ASSUME NEW s \in kSubset(1, S) PROVE s \in {{x} : x \in S}
    <3>1. s \in SUBSET S /\ Cardinality(s) = 1
      BY DEF kSubset
    <3>2. PICK x : s = {x}
      BY <2>1, <3>1
    <3>3. QED
      BY <3>1, <3>2
  <2>3. ASSUME NEW x \in S PROVE {x} \in kSubset(1, S)
    BY <2>1 DEF kSubset
  <2>4. QED
    BY <2>2, <2>3
<1>2. f \in Bijection(S, kSubset(1, S))
  BY <1>1 DEF Bijection, Injection, Surjection, IsInjective
<1>3. ExistsBijection(S, kSubset(1, S))
  BY <1>2 DEF ExistsBijection
<1>4. QED
  BY <1>3, FS_Bijection

\* One trial at a time, blocks are trials.
LEMMA WholeOfOne ==
  ASSUME NEW T, T \subseteq Indexes
  PROVE  Whole(T, 1) = T
<1>1. PICK n \in Nat : n = planned_trials
  BY IndexesFinite
<1>2. n \div 1 = n /\ \A i \in Nat : i \div 1 = i
  OBVIOUS
<1>3. complete_groups(1) = Indexes
  BY <1>1, <1>2 DEF complete_groups, Indexes
<1>4. \A i \in Indexes : i \div 1 = i
  BY <1>2, IndexesFinite
<1>5. QED
  BY <1>3, <1>4 DEF Whole

\* One trial at a time, pass@k and pass^k are the pass rate.
LEMMA AtOne ==
  ASSUME CInv, NEW arm \in Arms, NEW S, S \subseteq Trials(arm)
  PROVE  LET c == counts(arm, S)
         IN /\ pass_at_k(arm, S, 1) = rate(c.pass, c.valid_evaluated)
            /\ pass_power_k(arm, S, 1).estimate = rate(c.pass, c.valid_evaluated)
<1>1. PICK V, P, F : V = Valid(arm, S) /\ P = Of(arm, S, "pass") /\ F = Of(arm, S, "fail")
  OBVIOUS
<1>2. /\ V \ P = F /\ P \subseteq V /\ V \subseteq S
      /\ IsFiniteSet(F) /\ IsFiniteSet(V)
      /\ Cardinality(P) \in Nat /\ Cardinality(F) \in Nat
      /\ Cardinality(V) = Cardinality(P) + Cardinality(F)
  BY <1>1, Parts
<1>3. PICK c : c = counts(arm, S)
  OBVIOUS
<1>4. c.pass = Cardinality(P) /\ c.valid_evaluated = Cardinality(V)
  BY <1>1, <1>3 DEF counts
<1>5. pass_at_k(arm, S, 1) = rate(c.pass, c.valid_evaluated)
  <2>1. PICK a \in Nat : a = Cardinality(Lucky(V, P, 1))
    BY <1>2, LuckyCount
  <2>2. Cardinality(kSubset(1, V)) = a + Cardinality(kSubset(1, F))
    BY <1>2, <2>1, LuckyCount
  <2>3. Cardinality(V) = a + Cardinality(F)
    BY <1>2, <2>2, Singles
  <2>4. a = Cardinality(P)
    BY <1>2, <2>3
  <2>5. pass_at_k(arm, S, 1) = rate(a, Cardinality(kSubset(1, V)))
    BY <1>1, <2>1, ClosedForm
  <2>6. QED
    BY <1>2, <1>4, <2>4, <2>5, Singles
<1>6. pass_power_k(arm, S, 1).estimate = rate(c.pass, c.valid_evaluated)
  <2>1. PICK w : w = pass_power_k(arm, S, 1)
    OBVIOUS
  <2>2. /\ w.successful = Cardinality(Whole(P, 1)) /\ w.valid = Cardinality(Whole(V, 1))
        /\ w.estimate = rate(w.successful, w.valid)
    BY <1>1, <2>1, Power
  <2>3. Whole(P, 1) = P /\ Whole(V, 1) = V
    BY <1>2, Classified, WholeOfOne
  <2>4. QED
    BY <1>4, <2>1, <2>2, <2>3
<1>7. QED
  BY <1>3, <1>5, <1>6

\* What one group size is told of a set of trials.
Reliable(arm, S, k) ==
  LET samples == kSubset(k, Valid(arm, S))
      lucky == {sample \in samples : \E i \in sample : cohorts[arm][i].classification = "pass"}
      blocks(T) == {g \in complete_groups(k) : \A i \in Indexes : i \div k = g => i \in T}
      c == counts(arm, S)
      power == pass_power_k(arm, S, k)
  IN /\ pass_at_k(arm, S, k) = rate(Cardinality(lucky), Cardinality(samples))
     /\ power.successful = Cardinality(blocks(Of(arm, S, "pass")))
     /\ power.valid = Cardinality(blocks(Valid(arm, S)))
     /\ power.valid + power.invalid + power.missing = power.complete
     /\ power.complete * k + power.discarded = planned_trials
     /\ k = 1 => pass_at_k(arm, S, k) = rate(c.pass, c.valid_evaluated)
                 /\ power.estimate = rate(c.pass, c.valid_evaluated)

\* It is true of any trials that arrived.
LEMMA IsReliable ==
  ASSUME CInv, NEW arm \in Arms, NEW S, S \subseteq Trials(arm), NEW k \in Nat \ {0}
  PROVE  Reliable(arm, S, k)
<1> DEFINE samples == kSubset(k, Valid(arm, S))
           lucky == {sample \in samples : \E i \in sample : cohorts[arm][i].classification = "pass"}
           power == pass_power_k(arm, S, k)
           c == counts(arm, S)
<1>1. lucky = Lucky(Valid(arm, S), Of(arm, S, "pass"), k)
  BY DEF Lucky, kSubset, Of, Valid
<1>2. pass_at_k(arm, S, k) = rate(Cardinality(lucky), Cardinality(samples))
  BY <1>1, ClosedForm
<1>3. /\ power.successful = Cardinality(Whole(Of(arm, S, "pass"), k))
      /\ power.valid = Cardinality(Whole(Valid(arm, S), k))
      /\ power.valid + power.invalid + power.missing = power.complete
      /\ power.complete * k + power.discarded = planned_trials
  BY Power
<1>4. k = 1 => /\ pass_at_k(arm, S, k) = rate(c.pass, c.valid_evaluated)
               /\ power.estimate = rate(c.pass, c.valid_evaluated)
  BY AtOne
<1> HIDE DEF lucky, power, c
<1>5. QED
  BY <1>2, <1>3, <1>4 DEF Reliable, Whole, lucky, power, c

\* The published pass@k is the share of k-subsets of valid trials with a pass in
\* them, although math.comb computes it without looking at one; pass^k counts the
\* predetermined blocks; and one trial at a time all rates agree.  For any number
\* of trials, any group sizes and whatever is missing, invalid or unobserved.
THEOREM RatesAreExact == Spec => []ReliabilityExact
<1>1. CInv => ReliabilityExact
  <2> SUFFICES ASSUME CInv, NEW arm \in Arms, NEW S \in {Trials(arm), observed_trials(arm)},
                      NEW k \in Ks
               PROVE  Reliable(arm, S, k)
    BY DEF ReliabilityExact, Reliable
  <2>1. S \subseteq Trials(arm)
    BY DEF observed_trials
  <2>2. k \in Nat \ {0}
    BY StatisticsAssumption DEF StatisticsAssumption
  <2>3. QED
    BY <2>1, <2>2, IsReliable
<1>2. QED
  BY <1>1, CohortsStay, PTL

-----------------------------------------------------------------------------
(* Pairs.                                                                  *)

\* Disjoint sets add up.
LEMMA Disjoint ==
  ASSUME NEW A, NEW B, IsFiniteSet(A), IsFiniteSet(B), A \cap B = {}
  PROVE  /\ IsFiniteSet(A \cup B)
         /\ Cardinality(A) \in Nat /\ Cardinality(B) \in Nat
         /\ Cardinality(A \cup B) = Cardinality(A) + Cardinality(B)
<1>1. PICK a \in Nat, b \in Nat : a = Cardinality(A) /\ b = Cardinality(B)
  BY FS_CardinalityType
<1>2. IsFiniteSet(A \cup B) /\ Cardinality(A \cup B) = a + b - 0
  BY <1>1, FS_Union, FS_EmptySet
<1>3. a + b - 0 = a + b
  OBVIOUS
<1>4. QED
  BY <1>1, <1>2, <1>3

\* What is in one set and not in another, against the sizes of both.
LEMMA Balance ==
  ASSUME NEW A, NEW B, IsFiniteSet(A), IsFiniteSet(B)
  PROVE  /\ Cardinality(A \ B) \in Nat /\ Cardinality(B \ A) \in Nat
         /\ Cardinality(A) \in Nat /\ Cardinality(B) \in Nat
         /\ Cardinality(A \ B) - Cardinality(B \ A) = Cardinality(A) - Cardinality(B)
<1>1. PICK X, Y, Z : X = A \ B /\ Y = B \ A /\ Z = A \cap B
  OBVIOUS
<1>2. X \cup Z = A /\ Y \cup Z = B /\ X \cap Z = {} /\ Y \cap Z = {}
  BY <1>1
<1>3. IsFiniteSet(X) /\ IsFiniteSet(Y) /\ IsFiniteSet(Z)
  BY <1>1, FS_Difference, FS_Intersection
<1>4. PICK x \in Nat, y \in Nat, z \in Nat :
        x = Cardinality(X) /\ y = Cardinality(Y) /\ z = Cardinality(Z)
  BY <1>3, FS_CardinalityType
<1>5. Cardinality(A) = x + z /\ Cardinality(B) = y + z
  BY <1>2, <1>3, <1>4, Disjoint
<1>6. (x + z) - (y + z) = x - y
  OBVIOUS
<1>7. QED
  BY <1>1, <1>4, <1>5, <1>6

\* A pair's trials arrived, and none is invalid.
LEMMA PairsValid ==
  ASSUME CInv
  PROVE  /\ common \subseteq Trials("baseline") /\ common \subseteq Trials("faulted")
         /\ valid_pairs \subseteq common /\ IsFiniteSet(valid_pairs)
         /\ \A i \in valid_pairs : \A arm \in Arms : cohorts[arm][i].classification \in {"pass", "fail"}
<1>1. common \subseteq Trials("baseline") /\ common \subseteq Trials("faulted")
  BY DEF common
<1>2. "baseline" \in Arms /\ "faulted" \in Arms /\ Arms = {"baseline", "faulted"}
  BY DEF Arms
<1>3. valid_pairs \subseteq Valid("baseline", common) /\ valid_pairs \subseteq Valid("faulted", common)
      /\ valid_pairs \subseteq common
  BY DEF valid_pairs, Valid
<1>4. IsFiniteSet(valid_pairs)
  <2>1. valid_pairs \subseteq Trials("baseline")
    BY <1>1, <1>3
  <2>2. QED
    BY <1>2, <2>1, Classified
<1>5. ASSUME NEW i \in valid_pairs, NEW arm \in Arms
      PROVE  cohorts[arm][i].classification \in {"pass", "fail"}
  <2>1. common \subseteq Trials(arm) /\ i \in Valid(arm, common)
    BY <1>1, <1>2, <1>3
  <2>2. i \in common /\ cohorts[arm][i].classification # "invalid"
    BY <2>1 DEF Valid, Of
  <2>3. cohorts[arm][i].classification \in {"pass", "fail", "invalid"}
    BY <2>1, <2>2, Classified
  <2>4. QED
    BY <2>2, <2>3
<1>6. QED
  BY <1>1, <1>3, <1>4, <1>5

\* Improved and regressed pairs, against the passes of both arms.
LEMMA PairsBalance ==
  ASSUME CInv
  PROVE  LET pairs == paired_rows(valid_pairs)
         IN /\ pairs.improved - pairs.regressed =
                 Cardinality(Of("faulted", valid_pairs, "pass"))
                   - Cardinality(Of("baseline", valid_pairs, "pass"))
            /\ pairs.unchanged >= 0
<1>1. PICK A, B, S : /\ A = Of("faulted", valid_pairs, "pass") /\ S = valid_pairs
                     /\ B = Of("baseline", valid_pairs, "pass")
  OBVIOUS
<1>2. IsFiniteSet(S) /\ A \in SUBSET S /\ B \in SUBSET S
  BY <1>1, PairsValid DEF Of
<1>3. IsFiniteSet(A) /\ IsFiniteSet(B)
  BY <1>2, FS_Subset
<1>4. Went(S, "fail", "pass") = A \ B /\ Went(S, "pass", "fail") = B \ A
  <2>1. \A i \in S : /\ cohorts["baseline"][i].classification \in {"pass", "fail"}
                     /\ cohorts["faulted"][i].classification \in {"pass", "fail"}
    BY <1>1, PairsValid DEF Arms
  <2>2. QED
    BY <1>1, <2>1 DEF Went, Of
<1>5. PICK pairs : pairs = paired_rows(valid_pairs)
  OBVIOUS
<1>6. PICK x \in Nat, y \in Nat : /\ x = Cardinality(A \ B) /\ y = Cardinality(B \ A)
                                  /\ x - y = Cardinality(A) - Cardinality(B)
  BY <1>3, Balance
<1>7. /\ pairs.improved = x /\ pairs.regressed = y
      /\ pairs.unchanged = Cardinality(S) - x - y
  BY <1>1, <1>4, <1>5, <1>6 DEF paired_rows
<1>8. x + y <= Cardinality(S) /\ Cardinality(S) \in Nat
  <2>1. PICK X, Y : X = A \ B /\ Y = B \ A
    OBVIOUS
  <2>2. X \in SUBSET S /\ Y \in SUBSET S /\ X \cap Y = {} /\ X \cup Y \in SUBSET S
    BY <1>2, <2>1
  <2>3. IsFiniteSet(X) /\ IsFiniteSet(Y)
    BY <1>2, <2>2, FS_Subset
  <2>4. Cardinality(X \cup Y) = x + y
    BY <1>6, <2>1, <2>2, <2>3, Disjoint
  <2>5. Cardinality(X \cup Y) <= Cardinality(S)
    BY <1>2, <2>2, FS_Subset
  <2>6. QED
    BY <1>2, <2>4, <2>5, FS_CardinalityType
<1>9. pairs.unchanged >= 0
  BY <1>7, <1>8
<1>10. QED
  BY <1>1, <1>5, <1>6, <1>7, <1>9

\* Every trial is in a pair or misses its counterpart.
LEMMA PairsPartition ==
  ASSUME CInv
  PROVE  Cardinality(common) + Cardinality(missing_baseline) + Cardinality(missing_faulted)
           = Cardinality(Trials("baseline") \cup Trials("faulted"))
<1>1. PICK A, B : A = Trials("baseline") /\ B = Trials("faulted")
  OBVIOUS
<1>2. IsFiniteSet(A) /\ IsFiniteSet(B)
  BY <1>1, Classified DEF Arms
<1>3. PICK X, Y, Z : X = A \cap B /\ Y = B \ A /\ Z = A \ B
  OBVIOUS
<1>4. X = common /\ Y = missing_baseline /\ Z = missing_faulted
  BY <1>1, <1>3 DEF common, missing_baseline, missing_faulted
<1>5. IsFiniteSet(X) /\ IsFiniteSet(Y) /\ IsFiniteSet(Z)
  BY <1>2, <1>3, FS_Intersection, FS_Difference
<1>6. X \cap Y = {} /\ (X \cup Y) \cap Z = {} /\ (X \cup Y) \cup Z = A \cup B
  BY <1>3
<1>7. IsFiniteSet(X \cup Y) /\ Cardinality(X \cup Y) = Cardinality(X) + Cardinality(Y)
  BY <1>5, <1>6, Disjoint
<1>8. Cardinality((X \cup Y) \cup Z) = Cardinality(X \cup Y) + Cardinality(Z)
  BY <1>5, <1>6, <1>7, Disjoint
<1>9. QED
  BY <1>1, <1>4, <1>6, <1>7, <1>8

Complete == \A arm \in Arms : Trials(arm) = Indexes /\ Of(arm, Indexes, "invalid") = {}

\* When both arms are complete, every index is a valid pair.
LEMMA CompletePairs ==
  ASSUME Complete
  PROVE  /\ common = Indexes /\ valid_pairs = Indexes
         /\ missing_baseline = {} /\ missing_faulted = {}
<1>1. /\ Trials("baseline") = Indexes /\ Of("baseline", Indexes, "invalid") = {}
      /\ Trials("faulted") = Indexes /\ Of("faulted", Indexes, "invalid") = {}
  BY DEF Complete, Arms
<1>2. common = Indexes
  BY <1>1 DEF common
<1>3. QED
  BY <1>1, <1>2 DEF valid_pairs, Valid, missing_baseline, missing_faulted

Alarms == {"missing_pairs", "invalid_pairs_excluded", "missing_planned_trials",
           "invalid_evaluations_present"}

\* Then no warning says that something is missing or invalid.
LEMMA NoAlarm ==
  ASSUME Complete
  PROVE  comparison_warnings \cap Alarms = {}
<1>1. ASSUME NEW arm \in Arms PROVE statistics_warnings(arm) \cap Alarms = {}
  <2> DEFINE S == Trials(arm)
  <2>2. S = Indexes /\ Of(arm, S, "invalid") = {}
    BY DEF Complete
  <2>3. Cardinality(S) = planned_trials
    BY <2>2, IndexesFinite
  <2>4. counts(arm, S).invalid = 0
    BY <2>2, FS_EmptySet DEF counts
  <2>5. count_warnings(counts(arm, S)) \cap Alarms = {}
    BY <2>4 DEF count_warnings, Alarms
  <2>6. \A T, k : reliability_warnings(arm, T, k) \cap Alarms = {}
    BY DEF reliability_warnings, Alarms
  <2>7. \A T : (UNION {reliability_warnings(arm, T, k) : k \in Ks}) \cap Alarms = {}
    BY <2>6
  <2>8. /\ "observed_fault_condition_empty" \notin Alarms
        /\ "unobserved_fault_trials" \notin Alarms
    BY DEF Alarms
  <2> DEFINE A == count_warnings(counts(arm, S))
             B == UNION {reliability_warnings(arm, S, k) : k \in Ks}
             C == UNION {reliability_warnings(arm, observed_trials(arm), k) : k \in Ks}
             D == {"observed_fault_condition_empty"}
             E == {"unobserved_fault_trials"}
  <2>9. statistics_warnings(arm) =
          A \cup (IF Cardinality(S) # planned_trials THEN {"missing_planned_trials"} ELSE {})
            \cup B \cup (IF Selected(arm) # {} THEN C ELSE {})
            \cup (IF Selected(arm) # {} /\ observed_trials(arm) = {} THEN D ELSE {})
            \cup (IF Selected(arm) # {} /\ observed_trials(arm) # S THEN E ELSE {})
    BY DEF statistics_warnings
  <2>10. A \cap Alarms = {} /\ B \cap Alarms = {} /\ C \cap Alarms = {}
         /\ D \cap Alarms = {} /\ E \cap Alarms = {}
    BY <2>5, <2>7, <2>8
  <2> HIDE DEF A, B, C, D, E
  <2>11. statistics_warnings(arm) \subseteq A \cup B \cup C \cup D \cup E
    BY <2>3, <2>9
  <2>12. QED
    BY <2>10, <2>11
<1>2. paired_warnings \cap Alarms = {}
  BY CompletePairs DEF paired_warnings, Alarms
<1>3. QED
  BY <1>1, <1>2 DEF comparison_warnings, Arms

\* A comparison of two arms accounts for every trial once, balances like the
\* passes of its pairs, and for complete arms is the difference of their passes
\* without a warning to the contrary; for any number of trials and any cohorts.
THEOREM ComparisonsAreExact == Spec => []PairsExact
<1>1. ASSUME CInv PROVE PairsExact
  <2>1. PICK pairs : pairs = paired_rows(valid_pairs)
    OBVIOUS
  <2>2. /\ pairs.improved - pairs.regressed =
             Cardinality(Of("faulted", valid_pairs, "pass"))
               - Cardinality(Of("baseline", valid_pairs, "pass"))
        /\ pairs.unchanged >= 0
    BY <1>1, <2>1, PairsBalance
  <2>3. ASSUME Complete
        PROVE  /\ pairs.improved - pairs.regressed =
                    Cardinality(Of("faulted", common, "pass")) - Cardinality(Of("baseline", common, "pass"))
               /\ comparison_warnings \cap Alarms = {}
    BY <2>2, <2>3, CompletePairs, NoAlarm
  <2>4. QED
    BY <1>1, <2>1, <2>2, <2>3, PairsValid, PairsPartition DEF PairsExact, Complete, Alarms
<1>2. QED
  BY <1>1, CohortsStay, PTL

=============================================================================
