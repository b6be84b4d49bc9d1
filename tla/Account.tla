------------------------------ MODULE Account ------------------------------
(***************************************************************************)
(* What any account of the system promises about its worth: it moves only  *)
(* by market results, by external flows and by trading costs, and each     *)
(* movement is entered in the books (accounting/__init__.py).              *)
(***************************************************************************)
EXTENDS Integers

CONSTANT Opening      \* the worth the account opens with

VARIABLES worth, earned, funded, paid

accountVars == <<worth, earned, funded, paid>>

Init ==
  /\ worth = Opening
  /\ earned = 0
  /\ funded = 0
  /\ paid = 0

\* The market revalues the positions, or cash earns interest.
Earn ==
  /\ worth' - worth = earned' - earned
  /\ UNCHANGED <<funded, paid>>

\* Money comes in or goes out.
Fund ==
  /\ worth' - worth = funded' - funded
  /\ UNCHANGED <<earned, paid>>

\* A trade moves value between cash and positions and costs what it costs.
Pay ==
  /\ worth' - worth = paid - paid'
  /\ paid' >= paid
  /\ UNCHANGED <<earned, funded>>

Next == Earn \/ Fund \/ Pay

Spec == Init /\ [][Next]_accountVars

\* NAV change = market result + external flow - costs, since the opening.
Conserved == worth = Opening + earned + funded - paid
=============================================================================
