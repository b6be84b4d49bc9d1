----------------------------- MODULE Evaluation -----------------------------
(***************************************************************************)
(* The evaluation of a strategy, cli/evaluate.py: the market and the       *)
(* backtest lengthen the unit NAV of the strategy and of its benchmark bar *)
(* by bar; the program, started on any prefix, computes the report, lets   *)
(* the gates judge it and tells what an investor would have lived through. *)
(* The horizon is one year, so the CAGR is the return; the Sortino and the *)
(* deflated Sharpe ratio come with the evidence, as any numbers.           *)
(***************************************************************************)
EXTENDS Investor, ValidationGates

CONSTANTS
  Levels,      \* the unit NAVs the strategy may close at
  Opening,     \* initial_unit_nav
  Benchmarks,  \* unit NAVs of B1_Rebal, as sequences
  Calendars,   \* trading days, as sequences
  EvidenceSet, \* what is known of the strategy besides its NAV
  Goals,       \* the amounts of the milestones
  MaxBars      \* length of a history (bound)

ASSUME EvaluationAssumption ==
  /\ Levels \subseteq Nat \ {0} /\ Opening \in Nat \ {0} /\ MaxBars \in Nat \ {0}
  /\ Goals \subseteq Nat
  /\ \A s \in Benchmarks \union Calendars : s \in Seq(Nat) /\ Len(s) >= MaxBars
  /\ \A calendar \in Calendars, i, j \in 1..MaxBars : i < j => calendar[i] < calendar[j]
  /\ \A level \in Levels : Capital % level = 0 /\ Contribution % level = 0
  /\ EvidenceSet \subseteq
       [compared : BOOLEAN, sortino : SUBSET Int, saa_sortino : SUBSET Int,
        deflated : SUBSET Int, pbo : Int, surfaces : {e.surfaces : e \in EvidenceSet},
        regimes : Seq(Int), cost : Outcomes, delay : Outcomes]

VARIABLES nav, calendar, bench, report

vars == <<nav, calendar, bench, report>>

NoReport == [status |-> "none"]
days == SubSeq(calendar, 1, Len(nav))
saa == SubSeq(bench, 1, Len(nav))

Init ==
  /\ nav \in {<<level>> : level \in Levels}
  /\ calendar \in Calendars
  /\ bench \in Benchmarks
  /\ report = NoReport

Bar(level) ==
  /\ report = NoReport
  /\ Len(nav) < MaxBars
  /\ nav' = Append(nav, level)
  /\ UNCHANGED <<calendar, bench, report>>

\* twr of performance_summary, per mille.
Return(path) == (Last(path) * 1000) \div Opening - 1000
\* max_drawdown: the opening NAV counts as a close before the first.
MaxDrawdown(path) ==
  LET closes == <<Opening>> \o path
  IN Min({(closes[i] * 1000) \div Peak(closes, i) - 1000 : i \in DOMAIN closes})

\* build_report and extract_metrics of the benchmark.
Facts == [cagr |-> Return(nav), drawdown |-> MaxDrawdown(nav),
          saa_cagr |-> Return(saa), saa_drawdown |-> MaxDrawdown(saa)]

\* The rest of main: the gates judge the report, and the program ends.  A
\* history of one day has no CAGR and is not evaluated here.
Evaluate(evidence) ==
  /\ report = NoReport
  /\ Len(nav) > 1
  /\ LET gates == Evaluated(Facts, evidence)
     IN report' = [status |-> Status(gates), gates |-> gates, facts |-> Facts,
                   evidence |-> evidence]
  /\ UNCHANGED <<nav, calendar, bench>>

Next ==
  \/ \E level \in Levels : Bar(level)
  \/ \E evidence \in EvidenceSet : Evaluate(evidence)

Spec == Init /\ [][Next]_vars

-----------------------------------------------------------------------------
(* The verdict *)

\* Evidence is at least as good in what both reports hold, of the same kinds.
NoWorse(a, b) ==
  /\ a.compared = b.compared /\ a.surfaces = b.surfaces /\ b.pbo <= a.pbo
  /\ a.saa_sortino = b.saa_sortino
  /\ \A x \in a.sortino : \E y \in b.sortino : y >= x
  /\ \A x \in a.deflated : \E y \in b.deflated : y >= x
  /\ DOMAIN a.regimes = DOMAIN b.regimes
  /\ \A i \in DOMAIN a.regimes : b.regimes[i] >= a.regimes[i]
  /\ \A test \in {"cost", "delay"} : b[test] \in {a[test]} \union
       (IF a[test] = "failed" THEN {"passed"} ELSE {})

\* A higher return, or a shallower drawdown of a strategy that lost nothing.
With(facts, cagr, drawdown) == [facts EXCEPT !.cagr = cagr, !.drawdown = drawdown]
Improvements(facts) ==
  {With(facts, c, d) :
     c \in {facts.cagr, facts.cagr + 9, facts.cagr + 200},
     d \in {facts.drawdown} \union
           (IF facts.cagr >= 0 /\ facts.drawdown < -1
            THEN {-1, facts.drawdown + 1, facts.drawdown \div 2} ELSE {})}

\* The gates compare ratios with signs and missing numbers: a better report,
\* with a better return, drawdown or any better piece of evidence, never gets
\* a lower verdict.  (Two cases are excepted, where the code does lower it: a
\* drawdown of zero, which has no Calmar ratio, and a losing strategy, whose
\* Calmar ratio rises with its drawdown.)
VerdictMonotone ==
  report # NoReport =>
    \A evidence \in {e \in EvidenceSet : NoWorse(report.evidence, e)},
       facts \in Improvements(report.facts) :
      Rank(Status(Evaluated(facts, evidence))) >= Rank(report.status)

\* gates.py: ten gates that every strategy must pass.  The code does not keep this:
\* a gate whose evidence was never gathered is skipped or warned of, and counts as
\* passed in the verdict.
ValidatedPassedEveryGate ==
  report.status = "validated" => \A g \in Gates : report.gates[g] = "pass"

-----------------------------------------------------------------------------
(* The investor *)

\* Every variable has its type; wealth is whole and contributions are bounded
\* by the months.
TypeOK ==
  /\ nav \in Seq(Levels) /\ Len(nav) \in 1..MaxBars
  /\ calendar \in Calendars /\ bench \in Benchmarks
  /\ report.status \in {"none", "rejected", "research", "validated"}
  /\ report # NoReport => report.gates \in [Gates -> {"pass", "fail", "warn", "skip"}]
  /\ \A i \in Bars(nav) : Wealth(days, nav, Capital)[i] \in Nat
  /\ Contributed(days, Capital) <=
       Capital + Contribution * Cardinality(MonthStarts(days[1], Last(days)))

\* What is reported as profit was earned: the units held over each bar times
\* its move.  No contribution is counted as profit, and none is lost or paid
\* twice in a month.
ProfitIsEarned ==
  /\ TypeOK
  /\ Profit(days, nav, Capital) =
       SumFunction([i \in 2..Len(nav) |->
         UnitsAt(nav, Contributing(days), Capital, i - 1) * (nav[i] - nav[i - 1])])

\* Contributions soften the wealth path and never make it fall deeper: over no
\* stretch does wealth do worse than the unit NAV, so the investor's
\* max_drawdown is at most the reported one.
WealthFallsNoDeeper ==
  LET wealth == Wealth(days, nav, Capital)
  IN \A i, j \in Bars(nav) : j <= i => wealth[i] * nav[j] >= wealth[j] * nav[i]

\* Four passes over the drawdowns agree: the episodes are the runs below the
\* threshold that ended, the longest streak covers them, and recovery_time is
\* max_drawdown_duration, which covers the streaks of the 1% threshold.
ScannersAgree ==
  LET ended == Scan(nav).ended
      Ended(i, n) == /\ i > 1 /\ i + n <= Len(nav)
                     /\ ~Below(nav, i - 1, UNDERWATER) /\ ~Below(nav, i + n, UNDERWATER)
                     /\ \A j \in i..(i + n - 1) : Below(nav, j, UNDERWATER)
      runs == {run \in Bars(nav) \X Bars(nav) : Ended(run[1], run[2])}
  IN /\ Range(ended) = runs /\ IsInjective(ended)
     /\ \A episode \in Range(ended) : episode[2] <= Longest(nav, UNDERWATER)
     /\ RecoveryTime(nav) = Longest(nav, 0)
     /\ Longest(nav, UNDERWATER) <= Longest(nav, 0)

\* BROAD_INDEX handoff par. 12.2: the recovery times are those of the drawdowns of
\* more than 5, 10 and 20%.  The code does not keep this: only the depth of the
\* first bar of a drawdown is looked at.
DeepEpisodesCounted ==
  \A percent \in {5, 10, 20}, episode \in Range(Scan(nav).ended) :
    (\E i \in episode[1]..(episode[1] + episode[2] - 1) : Below(nav, i, percent))
      => episode \in Recoveries(nav, percent)

\* No starting point loses more than the drawdown the report shows.
LossWithinDrawdown ==
  \A window \in StartingWindows(days) \union ProbabilityWindows(days) :
    (Exit(nav, window) * 1000) \div Entry(nav, window) - 1000 >= MaxDrawdown(nav)

\* Whatever the investor is told about drawdowns is of the same drawdowns.
DrawdownsAgree == ScannersAgree /\ LossWithinDrawdown

\* A higher goal is never reached sooner: neither by the fastest start nor by
\* more starts, although one simulation decides that it is reached and another when.
MilestonesOrdered ==
  \A low, high \in Goals :
    LET soon == MilestoneDays(days, nav, Capital, low)
        late == MilestoneDays(days, nav, Capital, high)
    IN (low < high /\ late # {}) => soon # {} /\ Min(soon) <= Min(late)

=============================================================================
