------------------------------ MODULE Investor ------------------------------
(***************************************************************************)
(* What an investor lives through while a strategy moves its unit NAV:     *)
(* backtest/investor.py, with the drawdowns of analytics/.  A history is a *)
(* pair of sequences, the trading days and the unit NAV at their close.    *)
(* Days are counted on a calendar of equal months; money is divisible by   *)
(* every NAV, so units are whole.                                          *)
(***************************************************************************)
EXTENDS Integers, Sequences, SequencesExt, FiniteSets, FiniteSetsExt

CONSTANTS
  Month,             \* days of a month
  ContributionDay,   \* contribution_day, counted from the month's start
  Capital,           \* initial_capital
  Contribution,      \* monthly_contribution
  Resim,             \* bars between contributions of _sim_wealth_series: 21
  YearBars,          \* 252
  HoldingBars,       \* holding_years * 252
  HoldingDays,       \* holding_years * 365
  Step,              \* days between starting points
  NegativeBars,      \* the bars a window of compute_probabilities needs: 500
  MaxStarts,         \* the starts compute_milestones looks at: 60
  Bracket            \* how far the root of xirr may lie: final wealth over flows

ASSUME InvestorAssumption ==
  /\ {Month, Contribution, Resim, YearBars, HoldingBars, HoldingDays,
      Step, NegativeBars, MaxStarts, Bracket} \subseteq Nat \ {0}
  /\ {ContributionDay, Capital} \subseteq Nat

Bars(nav) == 1..Len(nav)
\* nav.cummax().
Peak(nav, i) == Max({nav[j] : j \in 1..i})

-----------------------------------------------------------------------------
(* simulate_investor *)

\* pd.date_range(first, last, freq="MS").
MonthStarts(first, last) == {d \in first..last : d % Month = 0}

\* contribution_schedule.
Schedule(days) ==
  {m + ContributionDay : m \in MonthStarts(days[1], Last(days))} \intersect (days[1]..Last(days))

\* The bars that contribute: not the first, and only if the very day trades.
Contributing(days) == {i \in 2..Len(days) : days[i] \in Schedule(days)}

\* Fault: a contribution buys at the NAV of the first day.
Issued_AtFirst(nav, i, amount) == amount \div nav[1]
\* The units an amount buys at the close of a bar.
Issued(nav, i, amount) == amount \div nav[i]

\* Fault: only the contribution of the bar counts.
UnitsAt_ThisBar(nav, contributing, capital, i) ==
  Issued(nav, 1, capital)
  + SumFunctionOnSet([j \in contributing |-> Issued(nav, j, Contribution)],
                     {j \in contributing : j = i})
\* The units held after the contribution of a bar.
UnitsAt(nav, contributing, capital, i) ==
  Issued(nav, 1, capital)
  + SumFunctionOnSet([j \in contributing |-> Issued(nav, j, Contribution)],
                     {j \in contributing : j <= i})

\* A wealth path: the units held at each close, at its NAV.
WealthPath(nav, contributing, capital) ==
  [i \in Bars(nav) |-> UnitsAt(nav, contributing, capital, i) * nav[i]]

Wealth(days, nav, capital) == WealthPath(nav, Contributing(days), capital)
Contributed(days, capital) == capital + Contribution * Cardinality(Contributing(days))
Profit(days, nav, capital) == Last(Wealth(days, nav, capital)) - Contributed(days, capital)

\* The sign of xirr over the flows of the simulation.  They hold the
\* contributions and not the initial capital; without a flow or a root within
\* brentq's bracket the result is NaN, which the simulation reports as 0.
XirrSign(days, nav, capital) ==
  LET flows == Contributed(days, capital) - capital
      final == Last(Wealth(days, nav, capital))
  IN CASE flows = 0 \/ final > Bracket * flows -> 0
       [] flows > 0 /\ final <= Bracket * flows /\ final > flows -> 1
       [] flows > 0 /\ final <= Bracket * flows /\ final < flows -> -1
       [] OTHER -> 0

-----------------------------------------------------------------------------
(* Drawdowns *)

\* drawdown(nav) below minus some percent.
Below(nav, i, percent) == nav[i] * 100 < (100 - percent) * Peak(nav, i)
\* The same, or at it.
AtLeast(nav, i, percent) == nav[i] * 100 <= (100 - percent) * Peak(nav, i)

\* compute_underwater_metrics counts dd < -1%, the extended metrics dd < 0.
UNDERWATER == 1

\* streaks: the bars of a run below, up to a bar.
Streak(nav, i, percent) ==
  i - Max({0} \union {j \in 1..i : ~Below(nav, j, percent)})
\* longest_underwater_days, and max_drawdown_duration.
Longest(nav, percent) == Max({Streak(nav, i, percent) : i \in Bars(nav)})

\* Fault: the end of a run does not end the drawdown.
Scanned_NeverEnds(nav, seen, i) ==
  IF Below(nav, i, UNDERWATER) /\ ~seen.in_dd
  THEN [seen EXCEPT !.in_dd = TRUE, !.start = i]
  ELSE IF ~Below(nav, i, UNDERWATER) /\ seen.in_dd
  THEN [seen EXCEPT !.ended = Append(@, <<seen.start, i - seen.start>>)]
  ELSE seen
\* What the pass has seen after a bar: a drawdown begins, ends, or goes on.
Scanned(nav, seen, i) ==
  IF Below(nav, i, UNDERWATER) /\ ~seen.in_dd
  THEN [seen EXCEPT !.in_dd = TRUE, !.start = i]
  ELSE IF ~Below(nav, i, UNDERWATER) /\ seen.in_dd
  THEN [seen EXCEPT !.in_dd = FALSE, !.ended = Append(@, <<seen.start, i - seen.start>>)]
  ELSE seen

NothingSeen == [in_dd |-> FALSE, start |-> 0, ended |-> <<>>]
\* The pass of compute_underwater_metrics: where each drawdown started, and the
\* bars until it was over.
Scan(nav) ==
  LET pass[i \in 0..Len(nav)] ==
        IF i = 0 THEN NothingSeen ELSE Scanned(nav, pass[i - 1], i)
  IN pass[Len(nav)]

\* recovery[threshold]: peak_dd is the depth of the first bar and is never deepened.
Recoveries(nav, percent) ==
  {episode \in Range(Scan(nav).ended) : AtLeast(nav, episode[1], percent)}

\* recovery_time of the extended metrics: the bars below the peak are counted
\* per group, and a group ends wherever peak_reached changes.
RecoveryTime(nav) ==
  LET reached(i) == ~Below(nav, i, 0)
      group(i) == Cardinality({j \in 2..i : reached(j) # reached(j - 1)})
  IN Max({Cardinality({j \in Bars(nav) : group(j) = group(i) /\ ~reached(j)}) : i \in Bars(nav)})

-----------------------------------------------------------------------------
(* Starting points and milestones *)

\* clean.loc[start : start + holding_years * 365 days].
Window(days, start) == {i \in DOMAIN days : start <= days[i] /\ days[i] <= start + HoldingDays}

\* The windows from the starts that leave enough bars, if they hold enough.
Windows(days, starts, least) ==
  IF Len(days) < HoldingBars THEN {}
  ELSE {w \in {Window(days, start) : start \in
                  starts \intersect (days[1]..days[Len(days) - HoldingBars + 1])} :
          Cardinality(w) >= least}

\* compute_starting_points starts at the beginning of a period and
\* compute_probabilities at its end (freq "MS" and "QE").
StartingWindows(days) ==
  Windows(days, {d \in days[1]..Last(days) : d % Step = 0}, YearBars)
ProbabilityWindows(days) ==
  Windows(days, {d \in days[1]..Last(days) : (d + 1) % Step = 0}, NegativeBars)

\* The NAV a window starts and ends with.
Entry(nav, window) == nav[Min(window)]
Exit(nav, window) == nav[Max(window)]

\* Fault: the first bar that reaches the goal is taken as the last.
Crossing_Last(path, goal) == Max({i \in DOMAIN path : path[i] >= goal})
\* crossed.index[0].
Crossing(path, goal) == Min({i \in DOMAIN path : path[i] >= goal})

\* _sim_wealth_series: a contribution every Resim bars instead of every month.
SimWealth(nav, capital) ==
  WealthPath(nav, {i \in 2..Len(nav) : (i - 1) % Resim = 0}, capital)

\* The days compute_milestones finds from one amount to a goal, over the first starts
\* that leave a year: the goal is tested on one simulation and timed on the other.
MilestoneDays(days, nav, capital, goal) ==
  LET months == IF Len(days) < YearBars THEN {}
                ELSE MonthStarts(days[1], days[Len(days) - YearBars + 1])
      starts == {start \in months : Cardinality({m \in months : m <= start}) <= MaxStarts}
      from(start) == Max({i \in DOMAIN days : days[i] <= start})
      dayTail(start) == SubSeq(days, from(start), Len(days))
      navTail(start) == SubSeq(nav, from(start), Len(nav))
      reached == {start \in starts :
        /\ Len(navTail(start)) >= YearBars
        /\ Last(Wealth(dayTail(start), navTail(start), capital)) >= goal
        /\ \E i \in Bars(navTail(start)) : SimWealth(navTail(start), capital)[i] >= goal}
  IN {dayTail(start)[Crossing(SimWealth(navTail(start), capital), goal)] - dayTail(start)[1] :
        start \in reached}
=============================================================================
