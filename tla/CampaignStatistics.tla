-------------------------- MODULE CampaignStatistics --------------------------
(***************************************************************************)
(* The arithmetic of Campaign statistics and comparisons (campaigns.py),   *)
(* over every cohort the trials of two arms can make, in whatever order    *)
(* they come and whichever of them never comes.                            *)
(*                                                                         *)
(* A trial is its classification and the faults it observed.  A rate is    *)
(* its numerator and denominator, <<>> when it is unavailable: its decimal *)
(* text and its Wilson interval follow from them.                          *)
(***************************************************************************)
EXTENDS Integers, FiniteSets, FiniteSetsExt, Combinatorics

CONSTANTS
  planned_trials,
  Ks,                  \* group sizes asked for
  selected_fault_ids,  \* of the faulted arm
  Observations,        \* sets of faults a trial may observe
  SmallSample          \* the threshold of the small-sample warnings

ASSUME StatisticsAssumption ==
  /\ planned_trials \in Nat \ {0} /\ SmallSample \in Nat
  /\ Ks \subseteq 1 .. 1000
  /\ selected_fault_ids # {} /\ \A o \in Observations : IsFiniteSet(o)

Arms == {"baseline", "faulted"}
Indexes == 0 .. planned_trials - 1
Missing == [classification |-> "missing", observed |-> {}]

VARIABLE cohorts   \* arm -> trial index -> its trial, or Missing

vars == <<cohorts>>

Selected(arm) == IF arm = "faulted" THEN selected_fault_ids ELSE {}

\* A trial with an invalid evaluation observed nothing.
Trial(arm) ==
  [classification : {"pass", "fail"}, observed : IF arm = "faulted" THEN Observations ELSE {{}}]
  \cup [classification : {"invalid"}, observed : {{}}]

Init == cohorts = [arm \in Arms |-> [i \in Indexes |-> Missing]]

\* An index is taken once.
mint_campaign_trial(arm, i) ==
  /\ cohorts[arm][i] = Missing
  /\ \E trial \in Trial(arm) : cohorts' = [cohorts EXCEPT ![arm][i] = trial]

Next == \E arm \in Arms, i \in Indexes : mint_campaign_trial(arm, i)

Spec == Init /\ [][Next]_vars

-----------------------------------------------------------------------------
(* Statistics of the trials S of an arm.                                   *)

Trials(arm) == {i \in Indexes : cohorts[arm][i] # Missing}

Of(arm, S, classification) == {i \in S : cohorts[arm][i].classification = classification}
Valid(arm, S) == S \ Of(arm, S, "invalid")

counts(arm, S) ==
  [total_runs |-> Cardinality(S), valid_evaluated |-> Cardinality(Valid(arm, S)),
   pass |-> Cardinality(Of(arm, S, "pass")), fail |-> Cardinality(Of(arm, S, "fail")),
   invalid |-> Cardinality(Of(arm, S, "invalid"))]

count_warnings(c) ==
  (IF c.valid_evaluated = 0 THEN {"no_valid_evaluations"}
   ELSE IF c.valid_evaluated < SmallSample THEN {"small_sample"} ELSE {})
  \cup IF c.invalid > 0 THEN {"invalid_evaluations_present"} ELSE {}

rate(numerator, denominator) == IF denominator = 0 THEN <<>> ELSE <<numerator, denominator>>

sample_size(arm, S) == Cardinality(Valid(arm, S))

\* 1 - C(n - c, k) / C(n, k); math.comb(n, k) is 0 when k > n.
pass_at_k(arm, S, k) ==
  LET n == sample_size(arm, S)
      failing == n - Cardinality(Of(arm, S, "pass"))
  IN IF k > n THEN <<>>
     ELSE rate(choose(n, k) - (IF k > failing THEN 0 ELSE choose(failing, k)), choose(n, k))

\* Mutant: the trials there are, grouped as they come; no group is short of any.
group_Compacted(S, g, k) ==
  LET block == {i \in S : Cardinality({j \in S : j < i}) \in g * k .. (g + 1) * k - 1}
  IN IF Cardinality(block) = k THEN block ELSE Indexes

\* Predetermined by the index, whatever is missing or invalid.
group(S, g, k) == g * k .. (g + 1) * k - 1

outcome(arm, S, g, k) ==
  LET trials == group(S, g, k)
  IN IF ~(trials \subseteq S) THEN "missing"
     ELSE IF Of(arm, trials, "invalid") # {} THEN "invalid"
     ELSE IF trials = Of(arm, trials, "pass") THEN "successful"
     ELSE "failed"

complete_groups(k) == 0 .. planned_trials \div k - 1

pass_power_k(arm, S, k) ==
  LET Ended(result) == Cardinality({g \in complete_groups(k) : outcome(arm, S, g, k) = result})
      valid == Ended("successful") + Ended("failed")
  IN [complete |-> planned_trials \div k, discarded |-> planned_trials % k,
      valid |-> valid, successful |-> Ended("successful"),
      invalid |-> Ended("invalid"), missing |-> Ended("missing"),
      estimate |-> rate(Ended("successful"), valid)]

reliability_warnings(arm, S, k) ==
  LET power == pass_power_k(arm, S, k)
  IN (IF k > sample_size(arm, S) THEN {"insufficient_pass_at_k_samples"} ELSE {})
     \cup (IF power.discarded > 0 THEN {"incomplete_pass_power_group"} ELSE {})
     \cup (IF power.invalid > 0 THEN {"invalid_pass_power_groups"} ELSE {})
     \cup IF power.missing > 0 THEN {"missing_pass_power_groups"} ELSE {}

\* The trials that observed every fault selected for the arm.
observed_trials(arm) == {i \in Trials(arm) : Selected(arm) \subseteq cohorts[arm][i].observed}

statistics_warnings(arm) ==
  LET S == Trials(arm)
      observed == observed_trials(arm)
      conditioned == Selected(arm) # {}
  IN count_warnings(counts(arm, S))
     \cup (IF Cardinality(S) # planned_trials THEN {"missing_planned_trials"} ELSE {})
     \cup (UNION {reliability_warnings(arm, S, k) : k \in Ks})
     \cup (IF conditioned THEN UNION {reliability_warnings(arm, observed, k) : k \in Ks} ELSE {})
     \cup (IF conditioned /\ observed = {} THEN {"observed_fault_condition_empty"} ELSE {})
     \cup IF conditioned /\ observed # S THEN {"unobserved_fault_trials"} ELSE {}

-----------------------------------------------------------------------------
(* A comparison of the arms, by trial index.                               *)

common == Trials("baseline") \cap Trials("faulted")

\* Mutant: a pair is left out only when both evaluations are invalid.
valid_pairs_Either ==
  Valid("baseline", common) \cup Valid("faulted", common)

valid_pairs == Valid("baseline", common) \cap Valid("faulted", common)

Went(S, before, after) == Of("baseline", S, before) \cap Of("faulted", S, after)

paired_rows(S) ==
  LET improved == Cardinality(Went(S, "fail", "pass"))
      regressed == Cardinality(Went(S, "pass", "fail"))
  IN [n |-> Cardinality(S), improved |-> improved, regressed |-> regressed,
      unchanged |-> Cardinality(S) - improved - regressed,
      delta |-> rate(improved - regressed, Cardinality(S))]

observed_pairs == valid_pairs \cap observed_trials("faulted")

missing_baseline == Trials("faulted") \ Trials("baseline")
missing_faulted == Trials("baseline") \ Trials("faulted")

paired_warnings ==
  (IF missing_baseline \cup missing_faulted # {} THEN {"missing_pairs"} ELSE {})
  \cup (IF valid_pairs # common THEN {"invalid_pairs_excluded"} ELSE {})
  \cup (IF Cardinality(valid_pairs) < SmallSample THEN {"small_paired_sample"} ELSE {})
  \cup IF observed_pairs = {} THEN {"observed_fault_pair_set_empty"} ELSE {}

comparison_warnings ==
  statistics_warnings("baseline") \cup statistics_warnings("faulted") \cup paired_warnings

-----------------------------------------------------------------------------
(* Properties.                                                             *)

\* The closed form of pass@k is what its definition says, the share of the
\* k-subsets of valid trials with a pass in them.  Groups are predetermined: a
\* block of k planned indexes counts when each of its trials has a valid result,
\* whatever of the blocks before it is missing, and blocks and rest account for
\* every planned trial.  One trial at a time, pass@k, pass^k and the pass rate
\* are the same number, although each is computed its own way.
ReliabilityExact ==
  \A arm \in Arms : \A S \in {Trials(arm), observed_trials(arm)} : \A k \in Ks :
    LET samples == kSubset(k, Valid(arm, S))
        lucky == {sample \in samples : \E i \in sample : cohorts[arm][i].classification = "pass"}
        blocks(T) == {g \in complete_groups(k) : \A i \in Indexes : i \div k = g => i \in T}
        c == counts(arm, S)
        power == pass_power_k(arm, S, k)
    IN /\ pass_at_k(arm, S, k) = rate(Cardinality(lucky), Cardinality(samples))
       /\ power.successful = Cardinality(blocks(Of(arm, S, "pass")))
       /\ power.valid = Cardinality(blocks(Valid(arm, S)))
       /\ power.valid + power.invalid + power.missing = power.complete
       /\ power.complete * k + power.discarded = planned_trials
       /\ k = 1 => pass_at_k(arm, S, k) = rate(c.pass, c.valid_evaluated)
                   /\ power.estimate = rate(c.pass, c.valid_evaluated)

\* A comparison accounts for every trial of either arm once, and its balance of
\* improved and regressed pairs is the difference of the arms' passes over the
\* pairs that are valid; when both arms are complete and valid, it is the
\* difference of the pass rates the arms report, and no warning says otherwise.
PairsExact ==
  LET pairs == paired_rows(valid_pairs)
      passes(arm) == Cardinality(Of(arm, common, "pass"))
      complete == \A arm \in Arms : Trials(arm) = Indexes /\ Of(arm, Indexes, "invalid") = {}
  IN /\ \A i \in valid_pairs : \A arm \in Arms : cohorts[arm][i].classification \in {"pass", "fail"}
     /\ pairs.improved - pairs.regressed =
          Cardinality(Of("faulted", valid_pairs, "pass")) - Cardinality(Of("baseline", valid_pairs, "pass"))
     /\ pairs.unchanged >= 0
     /\ Cardinality(common) + Cardinality(missing_baseline) + Cardinality(missing_faulted)
          = Cardinality(Trials("baseline") \cup Trials("faulted"))
     /\ complete =>
          /\ pairs.improved - pairs.regressed = passes("faulted") - passes("baseline")
          /\ comparison_warnings \cap {"missing_pairs", "invalid_pairs_excluded",
               "missing_planned_trials", "invalid_evaluations_present"} = {}
=============================================================================
