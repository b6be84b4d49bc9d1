-------------------------- MODULE RebalanceTrigger --------------------------
(***************************************************************************)
(* The trigger engine of allocation/triggers.py: once a bar it compares    *)
(* the portfolio with its target and its memory of the signals and of the  *)
(* drawdown, and says whether to rebalance.  A cooldown holds a rebalance  *)
(* back unless a risk event overrides it.                                  *)
(***************************************************************************)
EXTENDS Integers, FiniteSets

CONSTANTS
  CooldownDays,     \* cooldown_days
  DrawdownLevels,   \* drawdown_levels, in basis points
  None              \* no rebalance yet, no signals yet

VARIABLES
  last_rebalance,     \* _last_rebalance: a date, or None
  previous_bucket,    \* _previous_signal_bucket: the bucket of every symbol, or None
  previous_level,     \* _previous_drawdown_level
  decision            \* the TriggerDecision the caller acts on

triggerVars == <<last_rebalance, previous_bucket, previous_level, decision>>

RiskReasons == {"volatility_breach", "drawdown_level"}
Reasons == RiskReasons \cup
  {"initial_deployment", "weight_drift", "signal_bucket", "cash_flow"}

TriggerInit ==
  /\ last_rebalance = None
  /\ previous_bucket = None
  /\ previous_level = 0
  /\ decision = [should |-> FALSE, reasons |-> {}]

\* How many of the drawdown levels dd is at or below.
Level(dd) == Cardinality({t \in DrawdownLevels : dd <= t})

CooledDown(date) ==
  last_rebalance = None \/ date - last_rebalance >= CooldownDays

\* The reasons one evaluation collects, drift being that of any symbol.
Collected(drift, bucket, breach, dd, flow) ==
  LET holds == [weight_drift |-> drift,
                signal_bucket |-> previous_bucket \notin {None, bucket},
                volatility_breach |-> breach,
                drawdown_level |-> Level(dd) > previous_level,
                cash_flow |-> flow > 0]
  IN {r \in DOMAIN holds : holds[r]}

\* The TriggerDecision of one evaluation.
Verdict(date, drift, bucket, breach, dd, flow) ==
  LET reasons == Collected(drift, bucket, breach, dd, flow)
  IN [should |-> /\ reasons # {}
                 /\ CooledDown(date) \/ reasons \cap RiskReasons # {},
      reasons |-> reasons]

\* Fault: the date of the rebalance is not remembered.
Evaluate_Forgets(date, drift, bucket, breach, dd, flow) ==
  /\ previous_bucket' = bucket
  /\ previous_level' = Level(dd)
  /\ UNCHANGED last_rebalance

\* evaluate: the memories of bucket and level move on whatever is decided.
Evaluate(date, drift, bucket, breach, dd, flow) ==
  /\ last_rebalance' = IF Verdict(date, drift, bucket, breach, dd, flow).should
                       THEN date ELSE last_rebalance
  /\ previous_bucket' = bucket
  /\ previous_level' = Level(dd)

\* The fields of the engine keep their types.
TriggerTypeOK ==
  /\ last_rebalance \in Nat \cup {None}
  /\ previous_level \in 0..Cardinality(DrawdownLevels)
  /\ decision \in [should : BOOLEAN, reasons : SUBSET Reasons]
=============================================================================
