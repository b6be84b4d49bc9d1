-------------------------- MODULE ValidationGates --------------------------
(***************************************************************************)
(* The ten validation gates of evaluation/gates.py and the verdict on the  *)
(* strategy.  Returns and drawdowns are per mille, ratios hundredths; a    *)
(* ratio that may be NaN or was never computed is a set with one element   *)
(* or none, and no comparison with a missing one is true.                  *)
(***************************************************************************)
EXTENDS Integers, Sequences, SequencesExt, FiniteSets, FiniteSetsExt

Absolute(x) == IF x < 0 THEN -x ELSE x

\* GateConfig.
RETURN_TOLERANCE == 10      \* core_return_tolerance_cagr, per mille
DRAWDOWN_GAIN == 20         \* target_drawdown_improvement, percent
CALMAR_GAIN == 15           \* target_calmar_improvement, percent
SORTINO_GAIN == 10          \* target_sortino_improvement, percent
ROBUSTNESS == 80            \* parameter_robustness_threshold, percent
MAX_PBO == 20               \* max_pbo, percent
MIN_DEFLATED == 50          \* min_deflated_sharpe, hundredths

Gates == {"G1", "G2", "G3", "G4", "G5", "G6", "G7", "G8", "G9", "G10"}

\* The outcomes of a stress test.
Outcomes == {"passed", "failed", "missing"}

\* Facts: cagr and drawdown of the strategy and of the benchmark.
\* Evidence: what else the report holds (see Evaluation).
Passed(holds) == IF holds THEN "pass" ELSE "fail"

\* Without a benchmark the three comparisons are skipped.
Compared(evidence, status) == IF evidence.compared THEN status ELSE "skip"

Gate2(facts) == Passed(facts.cagr - facts.saa_cagr >= -RETURN_TOLERANCE)

\* Fault: the improvement is taken without its sign.
Gate3_Unsigned(facts) ==
  Passed(facts.saa_drawdown # 0 /\
         Absolute(facts.drawdown - facts.saa_drawdown) * 100
           >= DRAWDOWN_GAIN * Absolute(facts.saa_drawdown))
\* A benchmark without a drawdown cannot be improved on: the improvement is 0.
Gate3(facts) ==
  Passed(facts.saa_drawdown # 0 /\
         (facts.drawdown - facts.saa_drawdown) * 100
           >= DRAWDOWN_GAIN * Absolute(facts.saa_drawdown))

\* calmar is NaN without a drawdown, and nothing improves on a ratio of 0.
CalmarImproved(facts) ==
  LET mine == facts.cagr * Absolute(facts.saa_drawdown)
      theirs == facts.saa_cagr * Absolute(facts.drawdown)
  IN /\ facts.drawdown # 0 /\ facts.saa_drawdown # 0 /\ facts.saa_cagr # 0
     /\ (mine - theirs) * 100 >= CALMAR_GAIN * Absolute(theirs)
SortinoImproved(evidence) ==
  \E mine \in evidence.sortino, theirs \in evidence.saa_sortino :
    theirs # 0 /\ (mine - theirs) * 100 >= SORTINO_GAIN * Absolute(theirs)
Gate4(facts, evidence) == Passed(CalmarImproved(facts) \/ SortinoImproved(evidence))

\* compute_parameter_robustness: the share of the parameter values that keep
\* 70% of the ratio of the largest parameter value (max of the keys).
Robustness(surface) ==
  LET best == surface[Max(DOMAIN surface)]
  IN (100 * Cardinality({p \in DOMAIN surface : surface[p] * 10 >= best * 7}))
       \div Cardinality(DOMAIN surface)

\* Evidence that was not gathered is skipped (G5 to G7) or warned of (G8).
Gate5(evidence) ==
  IF evidence.surfaces = <<>> THEN "skip"
  ELSE Passed(FoldFunction(+, 0, [i \in DOMAIN evidence.surfaces |-> Robustness(evidence.surfaces[i])])
                >= ROBUSTNESS * Len(evidence.surfaces))
Gate6(evidence) ==
  IF evidence.regimes = <<>> THEN "skip"
  ELSE Passed(2 * Cardinality({i \in DOMAIN evidence.regimes : evidence.regimes[i] > 0})
                >= Len(evidence.regimes))
Stress(outcome, missing) ==
  IF outcome = "missing" THEN missing ELSE Passed(outcome = "passed")

\* The complexity is an issue of the gate and never fails it; max(0, NaN) is 0.
Gate10(evidence) ==
  Passed(/\ evidence.pbo <= MAX_PBO
         /\ \E deflated \in evidence.deflated : deflated >= MIN_DEFLATED)

\* GateEngine.evaluate.  G1 and G9 always pass.
Evaluated(facts, evidence) ==
  [g \in Gates |->
     CASE g \in {"G1", "G9"} -> "pass"
       [] g = "G2" -> Compared(evidence, Gate2(facts))
       [] g = "G3" -> Compared(evidence, Gate3(facts))
       [] g = "G4" -> Compared(evidence, Gate4(facts, evidence))
       [] g = "G5" -> Gate5(evidence)
       [] g = "G6" -> Gate6(evidence)
       [] g = "G7" -> Stress(evidence.cost, "skip")
       [] g = "G8" -> Stress(evidence.delay, "warn")
       [] g = "G10" -> Gate10(evidence)]

Failures(gates) == {g \in Gates : gates[g] = "fail"}

\* _determine_status.
Status(gates) ==
  CASE Failures(gates) = {} -> "validated"
    [] Cardinality(Failures(gates)) >= 3 -> "rejected"
    [] OTHER -> "research"

\* The order of the verdicts.
Rank(status) ==
  CASE status = "rejected" -> 0 [] status = "research" -> 1 [] OTHER -> 2
=============================================================================
