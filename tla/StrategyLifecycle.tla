------------------------- MODULE StrategyLifecycle -------------------------
(***************************************************************************)
(* The strategy lifecycle of validation/governance.py: a strategy moves    *)
(* between states along ALLOWED_TRANSITIONS, or anywhere by force, and     *)
(* every move is appended to its history.                                  *)
(***************************************************************************)
EXTENDS Integers, Sequences

CONSTANTS
  NOBODY,            \* the default of approved_by
  Approvers,         \* whom callers name in approved_by, NOBODY among them
  MaxTransitions     \* length of a history (bound)

ASSUME ApproversAssumption == NOBODY \in Approvers

VARIABLES
  current_state,
  history       \* of StrategyTransition: from_state, to_state, approved_by

lifecycleVars == <<current_state, history>>

States == {"research", "candidate", "shadow", "limited_capital", "production",
           "review", "suspended", "retired"}

\* The states in which a strategy runs real money.
Invested == {"limited_capital", "production", "review"}

\* Fault: a suspended strategy goes straight back.
Allowed_Resumes(state) ==
  CASE state = "research" -> {"candidate", "retired"}
    [] state = "candidate" -> {"shadow", "research", "retired"}
    [] state = "shadow" -> {"limited_capital", "candidate", "suspended", "retired"}
    [] state = "limited_capital" -> {"production", "shadow", "suspended"}
    [] state = "production" -> {"review", "limited_capital", "suspended"}
    [] state = "review" -> {"production", "suspended", "retired"}
    [] state = "suspended" -> {"shadow", "production", "retired"}
    [] OTHER -> {}

\* ALLOWED_TRANSITIONS
Allowed(state) ==
  CASE state = "research" -> {"candidate", "retired"}
    [] state = "candidate" -> {"shadow", "research", "retired"}
    [] state = "shadow" -> {"limited_capital", "candidate", "suspended", "retired"}
    [] state = "limited_capital" -> {"production", "shadow", "suspended"}
    [] state = "production" -> {"review", "limited_capital", "suspended"}
    [] state = "review" -> {"production", "suspended", "retired"}
    [] state = "suspended" -> {"shadow", "retired"}
    [] OTHER -> {}

LifecycleInit ==
  /\ current_state = "research"
  /\ history = <<>>

\* Fault: the entry is made after the state has moved.
Entered_Late(to, approver) ==
  [from_state |-> to, to_state |-> to, approved_by |-> approver]
\* The entry of a move in the history.
Entered(to, approver) ==
  [from_state |-> current_state, to_state |-> to, approved_by |-> approver]

\* transition, when it returns True; when it returns False nothing changes.  Who
\* approves is written down and never asked for.
Transition(to, force, approver) ==
  /\ Len(history) < MaxTransitions
  /\ force \/ to \in Allowed(current_state)
  /\ history' = Append(history, Entered(to, approver))
  /\ current_state' = to

LifecycleNext ==
  \E to \in States, force \in BOOLEAN, approver \in Approvers :
    Transition(to, force, approver)

LifecycleSpec == LifecycleInit /\ [][LifecycleNext]_lifecycleVars

-----------------------------------------------------------------------------
(* Properties *)

\* The state after the first i moves, as the history tells it.
StateAfter(i) == IF i = 0 THEN "research" ELSE history[i].to_state

\* The audit trail is a chain from RESEARCH to the current state: every move
\* starts where the one before it ended, forced or not.
TrailReplays ==
  /\ \A i \in 1..Len(history) : history[i].from_state = StateAfter(i - 1)
  /\ current_state = StateAfter(Len(history))

\* The history shows no forced move.
ByTheTable ==
  \A i \in 1..Len(history) : history[i].to_state \in Allowed(history[i].from_state)

\* docs/09 par. 12: human approval before production.  The code does not keep this,
\* not even on the moves of the table.
ProductionNeedsApproval ==
  ByTheTable =>
    \A i \in 1..Len(history) :
      history[i].to_state = "production" => history[i].approved_by # NOBODY

\* A strategy whose history shows no forced move runs money only if it was in
\* SHADOW since it was last in research, a candidate, suspended or retired:
\* no path of the table, a suspension included, leads back past the shadow.
ShadowBeforeMoney ==
  ByTheTable /\ current_state \in Invested =>
    \E i \in 1..Len(history) :
      /\ StateAfter(i) = "shadow"
      /\ \A j \in i..Len(history) :
           StateAfter(j) \notin {"research", "candidate", "suspended", "retired"}
=============================================================================
