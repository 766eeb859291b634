----------------------------- MODULE MCCapBudget -----------------------------
(* Model checking of CapBudget: the caps of each run, and symmetry.          *)
EXTENDS CapBudget, TLC

CONSTANTS a1, a2, heavy, light, c1, c2, r1, r2, p1, p2

Symmetry == Permutations(Requests)

Cap(state, dimension, value, metric, action, limit) ==
    [state |-> state, dimension |-> dimension, value |-> value, metric |-> metric,
     action |-> action, limit |-> limit, period |-> "day"]

\* A budget for everything and a quota of requests of one application.
BudgetAndQuota ==
    c1 :> Cap("on", "global", "all", "spend", "block", 2)
    @@ c2 :> Cap("on", "application", a1, "requests", "block", 2)

\* A budget that blocks and a smaller one that downgrades.
BlockAndDowngrade ==
    c1 :> Cap("on", "global", "all", "spend", "block", 2)
    @@ c2 :> Cap("on", "application", a1, "spend", "downgrade", 1)

\* A budget created later, and one that only alerts until it is edited.
LaterBudget ==
    c1 :> Cap("new", "global", "all", "spend", "block", 1)
    @@ c2 :> Cap("on", "application", a1, "spend", "alert", 1)

NoLight == [m \in Models |-> m]
NoFallback == [m \in Models |-> {}]

ToBlock == {[limit |-> 1, period |-> "day", action |-> "block"]}
NoChange == {}
=============================================================================
