---------------------------- MODULE MCEvaluation ----------------------------
(* Months of three days, NAVs that fall by 4% to 41%, a calendar with holidays *)
(* and one without, a benchmark that falls and one that does not.              *)
EXTENDS Evaluation

MCCalendars == {<<0, 1, 2, 3, 4, 5>>, <<1, 4, 6, 9, 10, 11>>}
MCBenchmarks == {<<100, 80, 75, 96, 100, 104>>, <<101, 102, 103, 104, 105, 106>>}

Missing == [compared |-> TRUE, sortino |-> {90}, saa_sortino |-> {80}, deflated |-> {60},
            pbo |-> 0, surfaces |-> <<>>, regimes |-> <<>>, cost |-> "missing",
            delay |-> "missing"]
Full == [Missing EXCEPT !.surfaces = <<(1 :> 40 @@ 2 :> 90 @@ 3 :> 100)>>,
           !.regimes = <<1, -1>>, !.cost = "passed", !.delay = "passed"]
MCEvidence == {
  Missing, [Missing EXCEPT !.sortino = {}], [Missing EXCEPT !.deflated = {}],
  [Missing EXCEPT !.compared = FALSE], [Missing EXCEPT !.pbo = 30],
  Full, [Full EXCEPT !.regimes = <<-1, -1>>], [Full EXCEPT !.cost = "failed"],
  [Full EXCEPT !.cost = "failed", !.delay = "failed"],
  [Full EXCEPT !.surfaces = <<(1 :> 90 @@ 2 :> 90 @@ 3 :> 100)>>]}
=============================================================================
