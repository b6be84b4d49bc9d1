---------------------------- MODULE RiskOverlay ----------------------------
(***************************************************************************)
(* The drawdown-driven risk overlay of portfolio/overlay.py: one update    *)
(* per bar classifies the drawdown, cuts the risk multiplier at once when  *)
(* the drawdown deepens, and raises it again step by step after a          *)
(* cooldown.  Multipliers are whole percents, drawdowns basis points.      *)
(* A definition marked "Fault" is no part of the specification: it is the  *)
(* slip that the property it is paired with would catch.                   *)
(***************************************************************************)
EXTENDS Bounds, Integers

CONSTANTS
  Drawdowns,      \* the drawdowns a bar can show, in basis points, never positive
  RecoveryStep    \* recovery_step: percent regained per recovery update

ASSUME DrawdownsAssumption == Drawdowns \subseteq {d \in Int : d <= 0}
ASSUME RecoveryStepAssumption == RecoveryStep \in Nat \ {0}

VARIABLES
  multiplier,         \* current_risk_multiplier
  drawdown_state,
  overlay_state,
  recovery_cooldown,
  previous_drawdown,
  spike,              \* _correlation_spike_detected
  calm                \* history: updates in a row that ended NORMAL, up to CALM

vars == <<multiplier, drawdown_state, overlay_state, recovery_cooldown,
          previous_drawdown, spike, calm>>

DrawdownStates == {"normal", "notable", "significant", "severe", "critical"}
OverlayStates == {"full_risk", "reducing", "reduced", "recovering", "paused"}

FULL == 100           \* the whole target risk
FLOOR == 10           \* the clamp of update's step 5
NEARLY_FULL == 95     \* from here a recovery snaps to FULL
SNAP == FULL - NEARLY_FULL
COOLDOWN == 10        \* calm updates a cut must be followed by
CALM == COOLDOWN + 1  \* bound of the history variable

\* What the caller measured of the average pairwise correlation: no value,
\* below 0.5, in between, or above 0.7.
Correlations == {"none", "low", "mid", "high"}

\* DD_THRESHOLDS: the first threshold, from the deepest, that dd is at or below.
Classify(dd) ==
  CASE dd <= -2500 -> "critical"
    [] -2500 < dd /\ dd <= -1500 -> "severe"
    [] -1500 < dd /\ dd <= -1000 -> "significant"
    [] -1000 < dd /\ dd <= -600 -> "notable"
    [] OTHER -> "normal"

\* RISK_MULTIPLIERS (the second definition of the class, which is the one in force).
RiskMultiplier(state) ==
  CASE state = "normal" -> 100
    [] state = "notable" -> 80
    [] state = "significant" -> 55
    [] state = "severe" -> 30
    [] OTHER -> 10

Init ==
  /\ multiplier = FULL
  /\ drawdown_state = "normal"
  /\ overlay_state = "full_risk"
  /\ recovery_cooldown = 0
  /\ previous_drawdown = 0
  /\ spike = FALSE
  /\ calm = 0

-----------------------------------------------------------------------------
(* One update, in the order of the code. *)

\* The observation: previous drawdown, drawdown state, correlation flag.
Observe(dd, corr) ==
  /\ previous_drawdown' = dd
  /\ drawdown_state' = Classify(dd)
  /\ spike' = IF corr = "high" THEN TRUE
              ELSE IF corr = "low" THEN FALSE ELSE spike
  /\ calm' = IF Classify(dd) = "normal" THEN Least(calm + 1, CALM) ELSE 0

\* Steps 4 and 5: the correlation penalty, then the clamp.
Settle(m, penalised) ==
  Greatest(FLOOR, Least(FULL, IF penalised THEN (85 * m) \div 100 ELSE m))

Worsening(dd) == dd < previous_drawdown /\ Classify(dd) # "normal"
Returning(dd) == Classify(dd) = "normal" /\ overlay_state # "full_risk"

\* Fault: a cut that leaves the cooldown as it was.
Cut_NoCooldown(dd) ==
  /\ Worsening(dd)
  /\ overlay_state' = "reducing"
  /\ multiplier' = Settle(Least(multiplier, RiskMultiplier(Classify(dd))), spike')
  /\ UNCHANGED recovery_cooldown

\* The drawdown deepens outside NORMAL: cut at once and restart the cooldown.
Cut(dd) ==
  /\ Worsening(dd)
  /\ overlay_state' = "reducing"
  /\ recovery_cooldown' = COOLDOWN
  /\ multiplier' = Settle(Least(multiplier, RiskMultiplier(Classify(dd))), spike')

\* Fault: a cooldown that does not run down.
Cool_Frozen(dd) ==
  /\ Returning(dd)
  /\ recovery_cooldown > 0
  /\ overlay_state' = "reduced"
  /\ multiplier' = Settle(multiplier, spike')
  /\ UNCHANGED recovery_cooldown

\* Back to NORMAL, the cooldown still running.
Cool(dd) ==
  /\ Returning(dd)
  /\ recovery_cooldown > 0
  /\ overlay_state' = "reduced"
  /\ recovery_cooldown' = recovery_cooldown - 1
  /\ multiplier' = Settle(multiplier, spike')

\* Fault: a recovery in one jump.
Recover_AtOnce(dd) ==
  /\ Returning(dd)
  /\ recovery_cooldown = 0
  /\ overlay_state' = "full_risk"
  /\ multiplier' = Settle(FULL, spike')
  /\ UNCHANGED recovery_cooldown

\* Back to NORMAL, the cooldown over: one step up, or the last one.
Recover(dd) ==
  /\ Returning(dd)
  /\ recovery_cooldown = 0
  /\ LET raised == Least(RiskMultiplier("normal"), multiplier + RecoveryStep)
         last == raised >= NEARLY_FULL
     IN /\ overlay_state' = IF last THEN "full_risk" ELSE "recovering"
        /\ multiplier' = Settle(IF last THEN FULL ELSE raised, spike')
  /\ UNCHANGED recovery_cooldown

\* Fault: the full-risk state restores the multiplier with its name.
Hold_Restores(dd) ==
  /\ ~Worsening(dd)
  /\ ~Returning(dd)
  /\ overlay_state' = "full_risk"
  /\ multiplier' = Settle(FULL, spike')
  /\ UNCHANGED recovery_cooldown

\* Anything else, a drawdown that lasts without deepening included.
Hold(dd) ==
  /\ ~Worsening(dd)
  /\ ~Returning(dd)
  /\ overlay_state' = "full_risk"
  /\ multiplier' = Settle(multiplier, spike')
  /\ UNCHANGED recovery_cooldown

Update(dd, corr) ==
  /\ Observe(dd, corr)
  /\ Cut(dd) \/ Cool(dd) \/ Recover(dd) \/ Hold(dd)

Next == \E dd \in Drawdowns, corr \in Correlations : Update(dd, corr)

Spec == Init /\ [][Next]_vars

\* The backtest calls update on every bar: bars keep coming.
FairSpec == Spec /\ WF_vars(Next)

-----------------------------------------------------------------------------
(* Properties *)

\* Every field holds a value of its kind.
TypeOK ==
  /\ multiplier \in FLOOR..FULL
  /\ drawdown_state \in DrawdownStates
  /\ overlay_state \in OverlayStates \ {"paused"}
  /\ recovery_cooldown \in 0..COOLDOWN
  /\ previous_drawdown \in Drawdowns \cup {0}
  /\ spike \in BOOLEAN
  /\ calm \in 0..CALM

\* In a drawdown the exposure never exceeds the ceiling of its severity,
\* whatever path led there: deepening, easing by a level, or holding, which
\* the code answers by calling the overlay FULL_RISK again.
ExposureCapped ==
  drawdown_state # "normal" => multiplier <= RiskMultiplier(drawdown_state)

\* Risk is only ever raised after COOLDOWN calm updates in a row ("fast risk
\* reduction, slow recovery"); no mix of cuts, holds and interrupted
\* recoveries shortens the wait.
RiseOnlyWhenCalm == [][multiplier' > multiplier => calm >= COOLDOWN]_vars

\* A rise is one step, plus at most the final snap to full risk.
RiseIsGradual ==
  [][multiplier' <= multiplier + RecoveryStep + SNAP]_vars

\* A recovery under way is finished: from the ladder the multiplier reaches
\* full risk unless a new drawdown or a correlation spike interrupts it.
RecoveryCompletes ==
  overlay_state \in {"reduced", "recovering"}
    ~> (multiplier = FULL \/ drawdown_state # "normal" \/ spike)

\* "Risk recovery is slow (gradual, stepped increases)" (overlay.py:40-41): a
\* multiplier below full risk is brought back to it once the drawdown is over,
\* unless a new drawdown or a correlation spike comes first.  A drawdown that
\* holds for one bar refutes it: the overlay is then called FULL_RISK, and
\* nothing leads from there to the recovery.
EveryDrawdownRecovers ==
  multiplier < FULL ~> (multiplier = FULL \/ drawdown_state # "normal" \/ spike)
=============================================================================
