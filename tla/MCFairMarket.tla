---------------------------- MODULE MCFairMarket ----------------------------
(* Small instances of FairMarket.  Times are scaled: a tick every two units. *)
EXTENDS FairMarket, TLC

\* The feeds are interchangeable.
AssetSymmetry == Permutations(Asset)

Placed == {p \in RoundId \X User : positions[p[1]][p[2]] # None}

\* Bound: three stakes at a time, and as nothing tells bettors apart they come to a
\* round in the order of their numbers.
FewStakes ==
  \A r \in RoundId, u \in User :
    positions[r][u] = None /\ positions'[r][u] # None =>
      /\ Cardinality(Placed) < 3
      /\ \A v \in User : v < u => positions[r][v] # None

FewStakesSpec == Init /\ [][Next /\ FewStakes]_vars

=============================================================================
