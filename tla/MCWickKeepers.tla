--------------------------- MODULE MCWickKeepers ---------------------------
(* Small instances of WickKeepers: a few deployments, each with bounds of its own. *)
EXTENDS WickKeepers

CONSTANTS a, b, above, below

MCSideOf == [bot \in Bot |-> IF bot = above THEN "Above" ELSE "Below"]

Runs(x, y) == [m \in Market |-> IF m = a THEN x ELSE y]

Deploys(loop, tagged, spots, until, which, budget) ==
  [loop |-> loop, tagged |-> tagged, spots |-> spots, until |-> until,
   faults |-> which, budget |-> budget]

\* A demo market by itself: any fault, any spot, statuses that can be read or not.
Alone ==
  {Deploys(Runs("demo", "off"), FALSE, Spot, 4, FaultKind, 1),
   Deploys(Runs("demo", "off"), TRUE, Spot, 3, FaultKind, 1)}

\* Two demo markets with the same keys, of which a transaction may be lost.
SharedKeys == {Deploys(Runs("demo", "demo"), FALSE, {0}, 3, {"drop"}, 1)}

\* The XLM keeper by itself: any two faults.
Xlm == {Deploys(Runs("off", "xlm"), tagged, {0}, 4, FaultKind, 2) : tagged \in BOOLEAN}

\* Two processes that sign with the admin's key.
SharedAdmin == {Deploys(Runs("demo", "xlm"), FALSE, {0}, 3, {}, 0)}

MCDeployment == Alone \cup SharedKeys \cup Xlm \cup SharedAdmin

=============================================================================
