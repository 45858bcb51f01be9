------------------------------ MODULE MCKeeper ------------------------------
(* Small instances of Keeper.  Times are scaled: a tick every two units. *)
EXTENDS Keeper

CONSTANTS k1, k2

Runs(who, assets, until, budget) ==
  [keepers |-> who, assets |-> assets, until |-> until, budget |-> budget]

\* Two keepers on one asset over three ticks, one keeper on two assets, and two on
\* two while nothing fails.
MCDeployment ==
  {Runs({k1, k2}, 1, MaxTime, 2), Runs({k1}, 2, MaxTime - 1, 2),
   Runs({k1, k2}, 2, MaxTime - 2, 0)}

MCSmallest == {Runs({k1}, 1, MaxTime, 1)}

=============================================================================
