---------------------------- MODULE MCPlanFigures ----------------------------
(* PlanFigures on small plans: short weeks, so that a few days span several *)
(* of them, starts on active and inactive days, and terms that end with a   *)
(* week and within one.                                                     *)
EXTENDS PlanFigures

Agreed(count, start, weekdays) ==
  [daily |-> 2, count |-> count, start |-> start, weekdays |-> weekdays]
SmallPlans ==
  {Agreed(4, 1, {1, 2, 4}), Agreed(3, 0, {1, 5}), Agreed(3, 2, 0..6),
   Agreed(2, 0, {1, 5})}
=============================================================================
