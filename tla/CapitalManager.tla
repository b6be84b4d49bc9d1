--------------------------- MODULE CapitalManager ---------------------------
(***************************************************************************)
(* The capital manager of portfolio/capital.py: cash pools per currency,   *)
(* the capital deployed out of them step by step, and external flows that  *)
(* issue and redeem units.  Money is whole units and divisions truncate;   *)
(* a pool that was never opened is None.                                   *)
(***************************************************************************)
EXTENDS Bounds, Integers, FiniteSets, Functions

CONSTANTS
  Currencies,
  None,
  InitialPools,      \* the pools a manager can be created with
  DeploymentTarget,  \* deployment_target, percent
  MinStep,           \* min_deployment_step, percent
  Interval,          \* deployment_interval_days
  Amounts,           \* amounts of external flows
  InterestBps,       \* interest of one accrual, basis points
  Bookings           \* number of flows and accruals (bound)

ASSUME CapitalAssumption ==
  /\ IsFiniteSet(Currencies)
  /\ None \notin Int
  /\ InitialPools \subseteq [Currencies -> Nat \cup {None}]
  /\ DeploymentTarget \in 0..100 /\ MinStep \in 0..100
  /\ Interval \in Nat \ {0}
  /\ Amounts \subseteq Nat \ {0}
  /\ InterestBps \in Nat /\ Bookings \in Nat

VARIABLES
  pools,           \* balance per currency
  deployed,        \* deployed_capital
  total_capital,
  contributions,   \* total_contributions, net
  units,           \* units_outstanding
  state,
  days,            \* deployment_days_elapsed, modulo the interval
  opening,         \* history: the capital at the start
  interest,        \* history: interest accrued
  bookings

capitalVars == <<pools, deployed, total_capital, contributions, units,
                 state, days, opening, interest, bookings>>
moneyVars == <<total_capital, contributions, units, opening, interest, bookings>>

UNITS == 1000      \* units at the start

Opened == {c \in Currencies : pools[c] # None}
\* total_cash_balance
Cash == SumFunctionOnSet(pools, Opened)
\* _total_balance
Balance == Cash + deployed

CapitalInit ==
  /\ pools \in InitialPools
  /\ total_capital = Cash /\ opening = Cash
  /\ deployed = 0 /\ contributions = 0 /\ interest = 0
  /\ units = UNITS
  /\ state = "deploying" /\ days = 0
  /\ bookings = 0

-----------------------------------------------------------------------------
\* Fault: a pool that holds less than asked pays nothing.
Withdrawn_Refused(balance, amount) == IF amount > balance THEN balance ELSE balance - amount
\* CashPool.withdraw: a balance stops at zero.
Withdrawn(balance, amount) == Greatest(0, balance - amount)

Target == (total_capital * DeploymentTarget) \div 100

\* What a step deploys: all that the target lacks, however little the least step is.
Step ==
  Least(Greatest(Target - deployed, (total_capital * MinStep) \div 100),
        total_capital - deployed)

\* Every pool pays the same share of a step, whatever it holds.
Deploy ==
  /\ deployed' = deployed + Step
  /\ pools' = [c \in Currencies |->
       IF pools[c] = None THEN None
       ELSE Withdrawn(pools[c], Step \div Cardinality(Opened))]
  /\ UNCHANGED state

\* Fault: the days are not counted.
StepDeployment_NotCounted ==
  /\ state = "deploying"
  /\ UNCHANGED <<days, pools, deployed, state, moneyVars>>

\* step_deployment: one more day; on every Interval-th day a step, or the end.
StepDeployment ==
  /\ state = "deploying"
  /\ days' = (days + 1) % Interval
  /\ IF days' # 0 THEN UNCHANGED <<pools, deployed, state>>
     ELSE IF deployed >= Target
     THEN state' = "fully_deployed" /\ UNCHANGED <<pools, deployed>>
     ELSE Deploy
  /\ UNCHANGED moneyVars

\* record_contribution, at the unit NAV of the moment.
Contribute(amount, currency) ==
  /\ bookings < Bookings
  /\ bookings' = bookings + 1
  /\ contributions' = contributions + amount
  /\ total_capital' = total_capital + amount
  /\ units' = units + (IF Balance = 0 THEN amount ELSE (amount * units) \div Balance)
  /\ pools' = [pools EXCEPT ![currency] = IF @ = None THEN amount ELSE @ + amount]
  /\ UNCHANGED <<deployed, state, days, opening, interest>>

\* record_withdrawal: at most what there is, deployed or not, and out of the
\* pool of its currency, if there is one.
Redeem(amount, currency) ==
  /\ bookings < Bookings
  /\ bookings' = bookings + 1
  /\ LET paid == Least(amount, Balance)
     IN /\ contributions' = contributions - paid
        /\ total_capital' = total_capital - paid
        /\ units' = Greatest(0, units - (IF Balance = 0 THEN 0 ELSE (paid * units) \div Balance))
        /\ pools' = [pools EXCEPT ![currency] =
             IF @ = None THEN None ELSE Withdrawn(@, paid)]
  /\ UNCHANGED <<deployed, state, days, opening, interest>>

\* accrue_cash: interest stays in the pools and out of total_capital.
Accrue ==
  /\ bookings < Bookings
  /\ bookings' = bookings + 1
  /\ pools' = [c \in Currencies |->
       IF pools[c] = None THEN None
       ELSE (pools[c] * (10000 + InterestBps)) \div 10000]
  /\ interest' = interest + SumFunctionOnSet(pools', Opened) - Cash
  /\ UNCHANGED <<deployed, total_capital, contributions, units, state, days, opening>>

CapitalNext ==
  \/ StepDeployment
  \/ \E amount \in Amounts, currency \in Currencies :
       Contribute(amount, currency) \/ Redeem(amount, currency)
  \/ Accrue

CapitalSpec == CapitalInit /\ [][CapitalNext]_capitalVars

\* The manager is stepped every day.
FairCapitalSpec == CapitalSpec /\ WF_capitalVars(StepDeployment)

-----------------------------------------------------------------------------
(* Properties *)

\* Every variable has its type; no pool is overdrawn.
CapitalTypeOK ==
  /\ pools \in [Currencies -> Nat \cup {None}]
  /\ {deployed, units, opening, interest} \subseteq Nat
  /\ {total_capital, contributions} \subseteq Int
  /\ state \in {"deploying", "fully_deployed"}
  /\ days \in 0..Interval - 1 /\ bookings \in 0..Bookings

\* What the books show beyond what was put in and earned.
Surplus == Balance - (opening + contributions + interest)

\* No pool is overdrawn, and no money disappears from the books.
NothingLost == CapitalTypeOK /\ Surplus >= 0

\* docs/09 par. 6: wealth is what was put in and what it earned.  The code does not
\* keep this: a redemption is booked in full and paid out of one pool as far as it
\* goes, and a deployment takes from a pool no more than it holds.
BooksBalance == Surplus = 0

\* Where the books go off: no step loses money, and none makes any, but for the
\* remainder of a deployment step that the pools share, for a deployment step that
\* runs a pool dry, and for a redemption that does so or finds no pool of its
\* currency.  What is made then is no more than the step deployed or redeemed.
BooksOffOnlyWhenDry ==
  [][LET off == Surplus' - Surplus
     IN /\ off >= 0
        /\ \/ off = 0
           \/ /\ off <= deployed' - deployed
              /\ off < Cardinality(Opened) \/ \E c \in Opened : pools'[c] = 0
           \/ /\ off <= contributions - contributions'
              /\ \E c \in Currencies :
                   pools'[c] = 0 \/ (pools'[c] = None /\ pools' = pools)]_capitalVars

\* A step deploys something and never more than the capital, although least steps
\* overshoot the target and redemptions may leave less capital than is deployed
\* already: no step takes deployed capital back.
StepsWithinCapital ==
  [][deployed' # deployed => deployed < deployed' /\ deployed' <= total_capital']_capitalVars

\* capital.py: phased initial deployment.  The code does not keep this: the first
\* step deploys the whole target.
DeploysInPhases == [][deployed = 0 /\ deployed' > 0 => deployed' < Target]_capitalVars

\* The initial deployment comes to its end.
DeploymentCompletes == (state = "deploying") ~> (state = "fully_deployed")
=============================================================================
