-------------------------- MODULE WickPredictProofs --------------------------
(***************************************************************************)
(* Theorems about WickPredict, for every value of its constants.  What is  *)
(* true of a round is said of its three entries (the round, its positions, *)
(* its part of the vault) and of the time, so that each call is one lemma  *)
(* about the entries it rewrites.                                          *)
(***************************************************************************)
EXTENDS WickPredict, SumTheorems, FiniteSetTheorems

USE WickAssumption, OracleAssumption, NoneAssumption
  DEF WickAssumption, OracleAssumption, NoneAssumption

-----------------------------------------------------------------------------
(* One round: its entry, the row of its positions, what it holds, the time *)

StakeOn(pos, side) == IF pos # None /\ pos.side = side THEN pos.amount ELSE 0
WeightOn(pos, side) == IF pos # None /\ pos.side = side THEN pos.boosted ELSE 0

StakesOn(row, side) == Sum([u \in User |-> StakeOn(row[u], side)], NumUsers)
WeightsOn(row, side) == Sum([u \in User |-> WeightOn(row[u], side)], NumUsers)

Row == [User -> Position \cup {None}]

\* A weight is at least what a stake of this moment would get, and storage keeps
\* a position at least a lifetime from its round's tick.
SoundPosition(round, pos, t) ==
  /\ round.strike_ts + TempBump <= pos.live_until
  /\ pos.amount * (round.lock_ts - t) <= pos.boosted
  /\ pos.amount = 0 => pos.boosted = 0

\* The pools and the sums of weights are those of the positions, but for positions
\* that have left storage; the weights are missing only where stakes are.
SoundPools(round, row) ==
  \A side \in Side :
    /\ StakesOn(row, side) <= round.pool[side]
    /\ WeightsOn(row, side) <= round.boosted[side]
    /\ round.pool[side] <= round.boosted[side]
    /\ StakesOn(row, side) = round.pool[side] =>
         WeightsOn(row, side) = round.boosted[side]

Sound(round, row, held, t) ==
  /\ round \in Round \cup {None} /\ row \in Row /\ held \in Int
  /\ round # None =>
       /\ round.strike_ts <= t
       /\ round.strike_ts + TempBump <= round.live_until
       /\ \A u \in User : row[u] # None => SoundPosition(round, row[u], t)
       /\ SoundPools(round, row)
       /\ round.status = "Open" =>
            /\ held = round.pool["Above"] + round.pool["Below"]
            /\ \A u \in User : row[u] # None => ~row[u].claimed
       /\ round.status = "Settled" /\ round.outcome # "Void" =>
            round.pool["Above"] > 0 /\ round.pool["Below"] > 0

-----------------------------------------------------------------------------
(* Arithmetic *)

LEMMA DivisionFacts ==
  \A m, n \in Nat, c \in Nat \ {0} :
    /\ m \div c \in Nat
    /\ (m \div c) * c <= m
    /\ m <= n => m \div c <= n \div c
OBVIOUS

LEMMA ProductFacts ==
  /\ \A x, y \in Nat : x * y \in Nat
  /\ \A x, y, z \in Nat : x <= y => z * x <= z * y /\ x * z <= y * z
  /\ \A x, y \in Nat, z \in Nat \ {0} : x * z <= y * z => x <= y
OBVIOUS

\* A fee is part of the pool it is taken from, and a higher rate takes no less.
LEMMA FeeFacts ==
  ASSUME NEW total \in Nat, NEW bps \in 0..MaxFeeBps
  PROVE  /\ Fee(total, bps) \in 0..total
         /\ \A higher \in 0..MaxFeeBps : bps <= higher =>
              Fee(total, bps) <= Fee(total, higher)
<1>1. \A rate \in 0..MaxFeeBps : total * rate \in Nat
  OBVIOUS
<1>2. total * bps <= total * BpsDenominator
  BY ProductFacts
<1>3. Fee(total, bps) * BpsDenominator <= total * BpsDenominator
  BY <1>1, <1>2, DivisionFacts DEF Fee
<1>4. Fee(total, bps) \in Nat
  BY <1>1, DivisionFacts DEF Fee
<1>5. Fee(total, bps) <= total
  BY <1>3, <1>4, ProductFacts
<1>6. ASSUME NEW higher \in 0..MaxFeeBps, bps <= higher
      PROVE  Fee(total, bps) <= Fee(total, higher)
  <2>1. total * bps <= total * higher
    BY <1>6, ProductFacts
  <2>. QED BY <2>1, <1>1, DivisionFacts DEF Fee
<1>. QED BY <1>4, <1>5, <1>6

\* A share grows with the weight and with what is shared, and is part of it.
PartOf(whole, weight, ofAll) ==
  IF ofAll = 0 THEN 0 ELSE (whole * weight) \div ofAll

LEMMA PartFacts ==
  ASSUME NEW whole \in Nat, NEW weight \in Nat, NEW ofAll \in Nat
  PROVE  /\ PartOf(whole, weight, ofAll) \in Nat
         /\ PartOf(whole, weight, ofAll) * ofAll <= weight * whole
         /\ \A more \in Nat : weight <= more =>
              PartOf(whole, weight, ofAll) <= PartOf(whole, more, ofAll)
         /\ \A more \in Nat : whole <= more =>
              PartOf(whole, weight, ofAll) <= PartOf(more, weight, ofAll)
<1>1. \A x, y \in Nat : x * y \in Nat /\ x * y = y * x
  OBVIOUS
<1>2. CASE ofAll = 0
  BY <1>1, <1>2 DEF PartOf
<1>3. CASE ofAll # 0
  <2>1. /\ PartOf(whole, weight, ofAll) \in Nat
        /\ PartOf(whole, weight, ofAll) * ofAll <= weight * whole
    BY <1>1, <1>3, DivisionFacts DEF PartOf
  <2>2. ASSUME NEW more \in Nat, weight <= more
        PROVE  PartOf(whole, weight, ofAll) <= PartOf(whole, more, ofAll)
    <3>1. whole * weight <= whole * more
      BY <2>2, ProductFacts
    <3>. QED BY <1>1, <1>3, <3>1, DivisionFacts DEF PartOf
  <2>3. ASSUME NEW more \in Nat, whole <= more
        PROVE  PartOf(whole, weight, ofAll) <= PartOf(more, weight, ofAll)
    <3>1. whole * weight <= more * weight
      BY <2>3, ProductFacts
    <3>. QED BY <1>1, <1>3, <3>1, DivisionFacts DEF PartOf
  <2>. QED BY <2>1, <2>2, <2>3
<1>. QED BY <1>2, <1>3

\* What winners and all bettors share, together at most what is left to share.
Cut(distributed, pct) == (distributed * pct) \div PctDenominator

LEMMA CutFacts ==
  ASSUME NEW d \in Nat
  PROVE  /\ Cut(d, WinnerPct) \in Nat /\ Cut(d, RefundPct) \in Nat
         /\ Cut(d, WinnerPct) + Cut(d, RefundPct) \in (d - 1)..d
         /\ \A more \in Nat : d <= more =>
              /\ Cut(d, WinnerPct) <= Cut(more, WinnerPct)
              /\ Cut(d, RefundPct) <= Cut(more, RefundPct)
<1>1. PICK x, y \in Nat : x = d * WinnerPct /\ y = d * RefundPct
  BY \A a, b \in Nat : a * b \in Nat
<1>2. x + y = d * PctDenominator
  BY <1>1, \A a, b, c \in Nat : c * a + c * b = c * (a + b)
<1>3. \A m \in Nat, c \in Nat \ {0} :
        /\ m \div c \in Nat
        /\ (m \div c) * c <= m
        /\ m < (m \div c) * c + c
  OBVIOUS
<1>4. PICK p, q \in Nat : p = Cut(d, WinnerPct) /\ q = Cut(d, RefundPct)
  BY <1>1, <1>3 DEF Cut
<1>5. /\ p * PctDenominator <= x /\ x < p * PctDenominator + PctDenominator
      /\ q * PctDenominator <= y /\ y < q * PctDenominator + PctDenominator
  BY <1>1, <1>3, <1>4 DEF Cut
<1>6. /\ (p + q) * PctDenominator <= d * PctDenominator
      /\ d * PctDenominator < (p + q + 2) * PctDenominator
  <2>1. PICK n \in Nat \ {0} : n = PctDenominator
    OBVIOUS
  <2>2. /\ (p + q) * n = p * n + q * n
        /\ (p + q + 2) * n = (p * n + n) + (q * n + n)
    OBVIOUS
  <2>3. PICK v, w \in Nat : v = p * n /\ w = q * n
    BY \A a, b \in Nat : a * b \in Nat
  <2>. QED BY <1>2, <1>5, <2>1, <2>2, <2>3
<1>7. p + q <= d /\ d < p + q + 2
  <2>1. \A a, b \in Nat, c \in Nat \ {0} :
          /\ a * c <= b * c => a <= b
          /\ a * c < b * c => a < b
    OBVIOUS
  <2>2. p + q \in Nat /\ p + q + 2 \in Nat
    OBVIOUS
  <2>. QED BY <1>6, <2>1, <2>2
<1>8. ASSUME NEW more \in Nat, d <= more
      PROVE  /\ Cut(d, WinnerPct) <= Cut(more, WinnerPct)
             /\ Cut(d, RefundPct) <= Cut(more, RefundPct)
  <2>1. /\ d * WinnerPct <= more * WinnerPct /\ more * WinnerPct \in Nat
        /\ d * RefundPct <= more * RefundPct /\ more * RefundPct \in Nat
    BY <1>8, ProductFacts
  <2>2. d * WinnerPct \in Nat /\ d * RefundPct \in Nat
    BY <1>1
  <2>. QED BY <2>1, <2>2, DivisionFacts DEF Cut
<1>9. Cut(d, WinnerPct) + Cut(d, RefundPct) \in (d - 1)..d
  BY <1>4, <1>7
<1>. QED BY <1>4, <1>8, <1>9

-----------------------------------------------------------------------------
(* What each call does to a sound round *)

LEMMA TermsNat ==
  ASSUME NEW row \in Row, NEW side \in Side
  PROVE  \A u \in User : /\ StakeOn(row[u], side) \in Nat
                         /\ WeightOn(row[u], side) \in Nat
BY DEF Row, Position, StakeOn, WeightOn

LEMMA StakesNat ==
  ASSUME NEW row \in Row, NEW side \in Side
  PROVE  StakesOn(row, side) \in Nat /\ WeightsOn(row, side) \in Nat
<1> DEFINE f == [u \in User |-> StakeOn(row[u], side)]
           g == [u \in User |-> WeightOn(row[u], side)]
<1>1. \A u \in 1..NumUsers : f[u] \in Nat /\ g[u] \in Nat
  BY TermsNat DEF User
<1> HIDE DEF f, g
<1>2. Sum(f, NumUsers) \in Nat /\ Sum(g, NumUsers) \in Nat
  BY <1>1, SumNat
<1>. QED BY <1>2 DEF StakesOn, WeightsOn, f, g

\* A stake adds to the sums of its side what it adds to the pools.
HasAdded(after, row, u, pos) ==
  /\ after \in Row
  /\ after[u] = pos /\ \A v \in User : v # u => after[v] = row[v]
  /\ \A side \in Side :
       /\ StakesOn(after, side)
            = StakesOn(row, side) + (IF pos.side = side THEN pos.amount ELSE 0)
       /\ WeightsOn(after, side)
            = WeightsOn(row, side) + (IF pos.side = side THEN pos.boosted ELSE 0)

LEMMA StakeAdds ==
  ASSUME NEW row \in Row, NEW u \in User, row[u] = None, NEW pos \in Position,
         NEW after, after = [row EXCEPT ![u] = pos]
  PROVE  HasAdded(after, row, u, pos)
<1>1. SUFFICES ASSUME NEW side \in Side
               PROVE  /\ StakesOn(after, side) = StakesOn(row, side)
                            + (IF pos.side = side THEN pos.amount ELSE 0)
                      /\ WeightsOn(after, side) = WeightsOn(row, side)
                            + (IF pos.side = side THEN pos.boosted ELSE 0)
  BY DEF HasAdded, Row
<1>2. after \in Row /\ after[u] = pos /\ \A v \in User : v # u => after[v] = row[v]
  BY DEF Row
<1> DEFINE f == [v \in User |-> StakeOn(row[v], side)]
           g == [v \in User |-> StakeOn(after[v], side)]
           p == [v \in User |-> WeightOn(row[v], side)]
           q == [v \in User |-> WeightOn(after[v], side)]
<1>3. u \in 1..NumUsers
  BY DEF User
<1>4. \A v \in 1..NumUsers : /\ f[v] \in Int /\ g[v] \in Int /\ p[v] \in Int /\ q[v] \in Int
                             /\ v # u => g[v] = f[v] /\ q[v] = p[v]
  <2>1. \A v \in User : /\ StakeOn(row[v], side) \in Nat /\ WeightOn(row[v], side) \in Nat
                        /\ StakeOn(after[v], side) \in Nat
                        /\ WeightOn(after[v], side) \in Nat
    BY <1>2, TermsNat
  <2>. QED BY <1>2, <2>1 DEF User
<1>5. /\ f[u] = 0 /\ g[u] = IF pos.side = side THEN pos.amount ELSE 0
      /\ p[u] = 0 /\ q[u] = IF pos.side = side THEN pos.boosted ELSE 0
  BY <1>2 DEF StakeOn, WeightOn, Position
<1>6. /\ StakesOn(row, side) = Sum(f, NumUsers) /\ StakesOn(after, side) = Sum(g, NumUsers)
      /\ WeightsOn(row, side) = Sum(p, NumUsers) /\ WeightsOn(after, side) = Sum(q, NumUsers)
  BY DEF StakesOn, WeightsOn
<1> HIDE DEF f, g, p, q
<1>7. Sum(g, NumUsers) = Sum(f, NumUsers) - f[u] + g[u]
  BY <1>3, <1>4, SumChange
<1>8. Sum(q, NumUsers) = Sum(p, NumUsers) - p[u] + q[u]
  BY <1>3, <1>4, SumChange
<1>9. Sum(f, NumUsers) \in Int /\ Sum(p, NumUsers) \in Int
  BY <1>4, SumInt
<1>10. pos.amount \in Nat /\ pos.boosted \in Nat
  BY DEF Position
<1>. QED BY <1>2, <1>5, <1>6, <1>7, <1>8, <1>9, <1>10

\* Positions that only leave storage, or are only marked, leave sums that the
\* pools still cover; and when the stakes are all there so are the weights.
Fewer(row, after) ==
  \A u \in User : after[u] # None =>
    /\ row[u] # None
    /\ after[u].side = row[u].side /\ after[u].amount = row[u].amount
    /\ after[u].boosted = row[u].boosted /\ after[u].live_until = row[u].live_until

LEMMA FewerSound ==
  ASSUME NEW round \in Round, NEW row \in Row, NEW after \in Row, Fewer(row, after),
         \A u \in User : row[u] # None /\ row[u].amount = 0 => row[u].boosted = 0,
         SoundPools(round, row)
  PROVE  SoundPools(round, after)
<1> SUFFICES ASSUME NEW side \in Side
             PROVE  /\ StakesOn(after, side) <= round.pool[side]
                    /\ WeightsOn(after, side) <= round.boosted[side]
                    /\ round.pool[side] <= round.boosted[side]
                    /\ StakesOn(after, side) = round.pool[side] =>
                         WeightsOn(after, side) = round.boosted[side]
  BY DEF SoundPools
<1> DEFINE f == [v \in User |-> StakeOn(row[v], side)]
           g == [v \in User |-> StakeOn(after[v], side)]
           p == [v \in User |-> WeightOn(row[v], side)]
           q == [v \in User |-> WeightOn(after[v], side)]
<1>1. \A u \in User : /\ StakeOn(after[u], side) <= StakeOn(row[u], side)
                      /\ WeightOn(after[u], side) <= WeightOn(row[u], side)
                      /\ StakeOn(after[u], side) = StakeOn(row[u], side) =>
                           WeightOn(after[u], side) = WeightOn(row[u], side)
  <2> SUFFICES ASSUME NEW u \in User
               PROVE  /\ StakeOn(after[u], side) <= StakeOn(row[u], side)
                      /\ WeightOn(after[u], side) <= WeightOn(row[u], side)
                      /\ StakeOn(after[u], side) = StakeOn(row[u], side) =>
                           WeightOn(after[u], side) = WeightOn(row[u], side)
    OBVIOUS
  <2>1. CASE after[u] # None
    <3>1. /\ StakeOn(after[u], side) = StakeOn(row[u], side)
          /\ WeightOn(after[u], side) = WeightOn(row[u], side)
      BY <2>1 DEF Fewer, StakeOn, WeightOn
    <3>. QED BY <3>1, TermsNat
  <2>2. CASE after[u] = None
    <3>1. StakeOn(after[u], side) = 0 /\ WeightOn(after[u], side) = 0
      BY <2>2 DEF StakeOn, WeightOn
    <3>2. StakeOn(row[u], side) = 0 => WeightOn(row[u], side) = 0
      BY DEF StakeOn, WeightOn
    <3>. QED BY <3>1, <3>2, TermsNat
  <2>. QED BY <2>1, <2>2
<1>2. \A u \in 1..NumUsers :
        /\ f[u] \in Nat /\ g[u] \in Nat /\ p[u] \in Nat /\ q[u] \in Nat
        /\ g[u] <= f[u] /\ q[u] <= p[u]
        /\ g[u] = f[u] => q[u] = p[u]
  <2>1. \A v \in User : /\ StakeOn(row[v], side) \in Nat /\ WeightOn(row[v], side) \in Nat
                        /\ StakeOn(after[v], side) \in Nat
                        /\ WeightOn(after[v], side) \in Nat
    BY TermsNat
  <2>. QED BY <1>1, <2>1 DEF User
<1>3. /\ StakesOn(row, side) = Sum(f, NumUsers) /\ StakesOn(after, side) = Sum(g, NumUsers)
      /\ WeightsOn(row, side) = Sum(p, NumUsers) /\ WeightsOn(after, side) = Sum(q, NumUsers)
  BY DEF StakesOn, WeightsOn
<1> HIDE DEF f, g, p, q
<1>4. Sum(g, NumUsers) <= Sum(f, NumUsers) /\ Sum(q, NumUsers) <= Sum(p, NumUsers)
  BY <1>2, SumMonotone
<1>5. /\ Sum(f, NumUsers) \in Nat /\ Sum(g, NumUsers) \in Nat
      /\ Sum(p, NumUsers) \in Nat /\ Sum(q, NumUsers) \in Nat
  BY <1>2, SumNat
<1>6. /\ Sum(f, NumUsers) <= round.pool[side] /\ Sum(p, NumUsers) <= round.boosted[side]
      /\ round.pool[side] <= round.boosted[side]
      /\ Sum(f, NumUsers) = round.pool[side] => Sum(p, NumUsers) = round.boosted[side]
  BY <1>3 DEF SoundPools
<1>7. round.pool[side] \in Nat /\ round.boosted[side] \in Nat
  BY DEF Round
<1>8. ASSUME Sum(g, NumUsers) = round.pool[side]
      PROVE  Sum(q, NumUsers) = round.boosted[side]
  <2>1. Sum(g, NumUsers) = Sum(f, NumUsers)
    BY <1>4, <1>5, <1>6, <1>7, <1>8
  <2>2. \A u \in 1..NumUsers : g[u] = f[u]
    BY <1>2, <2>1, SumSqueezed
  <2>3. \A u \in 1..NumUsers : q[u] = p[u]
    BY <1>2, <2>2
  <2>4. Sum(q, NumUsers) = Sum(p, NumUsers)
    BY <2>3, SumEqual
  <2>. QED BY <1>6, <1>8, <2>1, <2>4
<1>9. /\ Sum(g, NumUsers) <= round.pool[side] /\ Sum(q, NumUsers) <= round.boosted[side]
  BY <1>4, <1>5, <1>6, <1>7
<1>. QED BY <1>3, <1>6, <1>8, <1>9


LEMMA FreshSound ==
  ASSUME NEW round \in Round, NEW row \in Row, \A u \in User : row[u] = None,
         NEW t \in Nat,
         round.strike_ts <= t, round.strike_ts + TempBump <= round.live_until,
         round.pool = [side \in Side |-> 0], round.boosted = [side \in Side |-> 0],
         round.status = "Open"
  PROVE  Sound(round, row, 0, t)
<1>1. ASSUME NEW side \in Side
      PROVE  StakesOn(row, side) = 0 /\ WeightsOn(row, side) = 0
  <2> DEFINE f == [u \in User |-> StakeOn(row[u], side)]
             g == [u \in User |-> WeightOn(row[u], side)]
  <2>1. \A u \in 1..NumUsers : f[u] = 0 /\ g[u] = 0
    BY DEF User, StakeOn, WeightOn
  <2> HIDE DEF f, g
  <2>2. Sum(f, NumUsers) = 0 /\ Sum(g, NumUsers) = 0
    BY <2>1, SumZero
  <2>. QED BY <2>2 DEF StakesOn, WeightsOn, f, g
<1>2. SoundPools(round, row)
  BY <1>1 DEF SoundPools
<1>3. round.pool["Above"] = 0 /\ round.pool["Below"] = 0
  BY DEF Side
<1>. QED BY <1>2, <1>3 DEF Sound

Staked(round, side, amount, boosted, live) ==
  [round EXCEPT !.pool[side] = @ + amount, !.boosted[side] = @ + boosted,
                !.live_until = live]

IsStaked(after, round, side, amount, boosted, live) ==
  /\ after \in Round
  /\ after.strike = round.strike /\ after.strike_ts = round.strike_ts
  /\ after.lock_ts = round.lock_ts /\ after.settle_ts = round.settle_ts
  /\ after.status = round.status /\ after.outcome = round.outcome
  /\ after.live_until = live
  /\ \A s \in Side :
       /\ after.pool[s] = round.pool[s] + (IF s = side THEN amount ELSE 0)
       /\ after.boosted[s] = round.boosted[s] + (IF s = side THEN boosted ELSE 0)

LEMMA StakedFields ==
  ASSUME NEW round \in Round, NEW side \in Side, NEW amount \in Nat,
         NEW boosted \in Nat, NEW live \in Nat
  PROVE  IsStaked(Staked(round, side, amount, boosted, live),
                  round, side, amount, boosted, live)
<1> DEFINE pool == [round.pool EXCEPT ![side] = @ + amount]
           weight == [round.boosted EXCEPT ![side] = @ + boosted]
<1>1. round.pool \in [Side -> Nat] /\ round.boosted \in [Side -> Nat]
  BY DEF Round
<1>2. /\ pool \in [Side -> Nat] /\ weight \in [Side -> Nat]
      /\ \A s \in Side :
           /\ pool[s] = round.pool[s] + (IF s = side THEN amount ELSE 0)
           /\ weight[s] = round.boosted[s] + (IF s = side THEN boosted ELSE 0)
  BY <1>1
<1>3. Staked(round, side, amount, boosted, live)
        = [round EXCEPT !.pool = pool, !.boosted = weight, !.live_until = live]
  BY DEF Staked, Round
<1> HIDE DEF pool, weight
<1>. QED BY <1>2, <1>3 DEF Round, IsStaked

BoostedAt(round, amount, t) == amount * (round.lock_ts - t)

LEMMA BetSound ==
  ASSUME NEW round \in Round, NEW row \in Row, NEW held \in Int, NEW t \in Nat,
         Sound(round, row, held, t),
         NEW u \in User, row[u] = None, NEW side \in Side, NEW amount \in Nat,
         round.status = "Open", t < round.lock_ts,
         NEW live \in Nat, round.strike_ts + TempBump <= live,
         NEW pos \in Position,
         pos.side = side, pos.amount = amount, pos.claimed = FALSE,
         pos.boosted = BoostedAt(round, amount, t), pos.live_until = t + TempBump
  PROVE  Sound(Staked(round, side, amount, pos.boosted, live),
               [row EXCEPT ![u] = pos], held + amount, t)
<1>1. PICK after : after = Staked(round, side, amount, pos.boosted, live)
  OBVIOUS
<1>2. PICK line : line = [row EXCEPT ![u] = pos]
  OBVIOUS
<1>3. pos.boosted \in Nat /\ amount <= pos.boosted /\ (amount = 0 => pos.boosted = 0)
  <2>1. round.lock_ts \in Nat /\ pos.boosted \in Nat
    BY DEF Round, Position
  <2>2. PICK d \in Nat : d = round.lock_ts - t /\ 1 <= d
    BY <2>1
  <2>3. amount * 1 <= amount * d /\ amount * 1 = amount /\ 0 * d = 0
    BY <2>2, ProductFacts
  <2>. QED BY <2>1, <2>2, <2>3 DEF BoostedAt
<1>4. /\ after \in Round
      /\ after.strike_ts = round.strike_ts /\ after.lock_ts = round.lock_ts
      /\ after.status = "Open" /\ after.live_until = live
      /\ \A s \in Side :
           /\ after.pool[s] = round.pool[s] + (IF s = side THEN amount ELSE 0)
           /\ after.boosted[s] = round.boosted[s]
                                   + (IF s = side THEN pos.boosted ELSE 0)
  <2>1. IsStaked(after, round, side, amount, pos.boosted, live)
    BY <1>1, <1>3, StakedFields
  <2>. QED BY <2>1 DEF IsStaked
<1>5. /\ line \in Row /\ line[u] = pos /\ \A v \in User : v # u => line[v] = row[v]
      /\ \A s \in Side :
           /\ StakesOn(line, s) = StakesOn(row, s) + (IF s = side THEN amount ELSE 0)
           /\ WeightsOn(line, s) = WeightsOn(row, s)
                                     + (IF s = side THEN pos.boosted ELSE 0)
  <2>1. HasAdded(line, row, u, pos)
    BY <1>2, StakeAdds
  <2>. QED BY <2>1 DEF HasAdded
<1>6. SoundPools(after, line)
  <2> SUFFICES ASSUME NEW s \in Side
               PROVE  /\ StakesOn(line, s) <= after.pool[s]
                      /\ WeightsOn(line, s) <= after.boosted[s]
                      /\ after.pool[s] <= after.boosted[s]
                      /\ StakesOn(line, s) = after.pool[s] =>
                           WeightsOn(line, s) = after.boosted[s]
    BY DEF SoundPools
  <2>1. /\ StakesOn(row, s) <= round.pool[s]
        /\ WeightsOn(row, s) <= round.boosted[s]
        /\ round.pool[s] <= round.boosted[s]
        /\ StakesOn(row, s) = round.pool[s] => WeightsOn(row, s) = round.boosted[s]
    BY DEF Sound, SoundPools
  <2>2. /\ round.pool[s] \in Nat /\ round.boosted[s] \in Nat
        /\ StakesOn(row, s) \in Nat /\ WeightsOn(row, s) \in Nat
    BY StakesNat DEF Round
  <2>. QED BY <1>3, <1>4, <1>5, <2>1, <2>2
<1>7. \A v \in User : line[v] # None => SoundPosition(after, line[v], t) /\ ~line[v].claimed
  <2> SUFFICES ASSUME NEW v \in User, line[v] # None
               PROVE  SoundPosition(after, line[v], t) /\ ~line[v].claimed
    OBVIOUS
  <2>1. CASE v = u
    <3>1. round.strike_ts <= t /\ round.strike_ts \in Nat
      BY DEF Sound, Round
    <3>2. pos.amount * (after.lock_ts - t) <= pos.boosted
      BY <1>3, <1>4 DEF BoostedAt
    <3>. QED BY <1>3, <1>4, <1>5, <2>1, <3>1, <3>2 DEF SoundPosition
  <2>2. CASE v # u
    <3>1. line[v] = row[v]
      BY <1>5, <2>2
    <3>2. SoundPosition(round, row[v], t) /\ ~row[v].claimed
      BY <3>1 DEF Sound
    <3>. QED BY <1>4, <3>1, <3>2 DEF SoundPosition
  <2>. QED BY <2>1, <2>2
<1>8. held + amount = after.pool["Above"] + after.pool["Below"]
  <2>1. held = round.pool["Above"] + round.pool["Below"]
    BY DEF Sound
  <2>2. round.pool["Above"] \in Nat /\ round.pool["Below"] \in Nat
    BY DEF Round, Side
  <2>3. side = "Above" \/ side = "Below"
    BY DEF Side
  <2>. QED BY <1>4, <2>1, <2>2, <2>3 DEF Side
<1>9. round.strike_ts <= t
  BY DEF Sound
<1>10. Sound(after, line, held + amount, t)
  BY <1>4, <1>5, <1>6, <1>7, <1>8, <1>9 DEF Sound
<1>. QED BY <1>1, <1>2, <1>10

LEMMA SettleSound ==
  ASSUME NEW round \in Round, NEW row \in Row, NEW held \in Int, NEW t \in Nat,
         Sound(round, row, held, t),
         NEW left \in Int, NEW outcome \in Outcome,
         outcome # "Void" => round.pool["Above"] > 0 /\ round.pool["Below"] > 0,
         NEW live \in Nat, round.strike_ts + TempBump <= live
  PROVE  Sound([round EXCEPT !.outcome = outcome, !.status = "Settled",
                             !.live_until = live], row, left, t)
<1>1. PICK after : after = [round EXCEPT !.outcome = outcome, !.status = "Settled",
                                         !.live_until = live]
  OBVIOUS
<1>2. /\ after \in Round
      /\ after.strike_ts = round.strike_ts /\ after.lock_ts = round.lock_ts
      /\ after.pool = round.pool /\ after.boosted = round.boosted
      /\ after.status = "Settled" /\ after.outcome = outcome /\ after.live_until = live
  BY <1>1 DEF Round
<1>3. \A u \in User : row[u] # None => SoundPosition(after, row[u], t)
  BY <1>2 DEF Sound, SoundPosition
<1>4. SoundPools(after, row)
  BY <1>2 DEF Sound, SoundPools
<1>5. round.strike_ts <= t
  BY DEF Sound
<1>6. Sound(after, row, left, t)
  BY <1>2, <1>3, <1>4, <1>5 DEF Sound
<1>. QED BY <1>1, <1>6

LEMMA ClaimSound ==
  ASSUME NEW round \in Round, NEW row \in Row, NEW held \in Int, NEW t \in Nat,
         Sound(round, row, held, t), round.status = "Settled",
         NEW u \in User, row[u] # None, NEW left \in Int
  PROVE  Sound(round, [row EXCEPT ![u].claimed = TRUE], left, t)
<1>1. PICK after : after = [row EXCEPT ![u].claimed = TRUE]
  OBVIOUS
<1>2. /\ after \in Row
      /\ after[u] # None
      /\ after[u].side = row[u].side /\ after[u].amount = row[u].amount
      /\ after[u].boosted = row[u].boosted /\ after[u].live_until = row[u].live_until
      /\ \A v \in User : v # u => after[v] = row[v]
  <2>1. row[u] \in Position
    BY DEF Row
  <2>2. PICK pos : pos = [row[u] EXCEPT !.claimed = TRUE]
    OBVIOUS
  <2>3. /\ pos \in Position
        /\ pos.side = row[u].side /\ pos.amount = row[u].amount
        /\ pos.boosted = row[u].boosted /\ pos.live_until = row[u].live_until
    BY <2>1, <2>2 DEF Position
  <2>4. after = [row EXCEPT ![u] = pos]
    BY <1>1, <2>2 DEF Row
  <2>5. pos # None
    BY <2>3
  <2>. QED BY <2>3, <2>4, <2>5 DEF Row
<1>3. Fewer(row, after)
  BY <1>2 DEF Fewer
<1>4. SoundPools(round, after)
  <2>1. \A v \in User : row[v] # None /\ row[v].amount = 0 => row[v].boosted = 0
    BY DEF Sound, SoundPosition
  <2>2. SoundPools(round, row)
    BY DEF Sound
  <2>. QED BY <1>2, <1>3, <2>1, <2>2, FewerSound
<1>5. \A v \in User : after[v] # None => SoundPosition(round, after[v], t)
  BY <1>3 DEF Fewer, Sound, SoundPosition
<1>6. Sound(round, after, left, t)
  BY <1>2, <1>4, <1>5 DEF Sound
<1>. QED BY <1>1, <1>6

\* A second goes by, and some of the entries may leave storage.
LEMMA AgeSound ==
  ASSUME NEW round, NEW row, NEW held, NEW t \in Nat,
         Sound(round, row, held, t),
         NEW after, after \in {round, None},
         NEW line \in Row, \A u \in User : line[u] \in {row[u], None}
  PROVE  Sound(after, line, held, t + 1)
<1>1. round \in Round \cup {None} /\ row \in Row /\ held \in Int
  BY DEF Sound
<1>2. CASE after = None
  BY <1>1, <1>2 DEF Sound
<1>3. CASE after # None
  <2>1. after = round /\ round \in Round
    BY <1>1, <1>3
  <2>2. Fewer(row, line)
    BY DEF Fewer
  <2>3. SoundPools(round, line)
    <3>1. \A v \in User : row[v] # None /\ row[v].amount = 0 => row[v].boosted = 0
      BY <2>1 DEF Sound, SoundPosition
    <3>2. SoundPools(round, row)
      BY <2>1 DEF Sound
    <3>. QED BY <1>1, <2>1, <2>2, <3>1, <3>2, FewerSound
  <2>4. ASSUME NEW u \in User, line[u] # None
        PROVE  SoundPosition(round, line[u], t + 1)
    <3>1. line[u] = row[u] /\ row[u] \in Position
      BY <1>1, <2>4 DEF Row
    <3>2. SoundPosition(round, row[u], t)
      BY <2>1, <2>4, <3>1 DEF Sound
    <3>3. PICK a, b, l \in Nat : a = row[u].amount /\ b = row[u].boosted /\ l = round.lock_ts
      BY <2>1, <3>1 DEF Position, Round
    <3>4. a * (l - t) <= b
      BY <3>2, <3>3 DEF SoundPosition
    <3>5. a * (l - (t + 1)) <= a * (l - t)
      <4>1. PICK d \in Int : d = l - (t + 1)
        OBVIOUS
      <4>2. l - t = d + 1 /\ a * (d + 1) = a * d + a /\ a * d \in Int
        BY <4>1
      <4>. QED BY <4>1, <4>2
    <3>6. a * (l - (t + 1)) \in Int /\ a * (l - t) \in Int
      OBVIOUS
    <3>7. a * (l - (t + 1)) <= b
      BY <3>4, <3>5, <3>6
    <3>. QED BY <3>1, <3>2, <3>3, <3>7 DEF SoundPosition
  <2>5. \A u \in User : line[u] # None => row[u] # None /\ line[u] = row[u]
    OBVIOUS
  <2>6. round.strike_ts <= t + 1
    BY <2>1 DEF Sound, Round
  <2>. QED BY <1>1, <2>1, <2>3, <2>4, <2>5, <2>6 DEF Sound
<1>. QED BY <1>2, <1>3


-----------------------------------------------------------------------------
(* The invariant *)

SetupInv ==
  /\ config = None => counter = 0
  /\ config # None => /\ config.lock_offset \in LockOffset
                      /\ config.oracle_interval \in OracleInterval

\* Prices come from the past, and the feed that a round was opened on stays.
OracleInv ==
  /\ price # NoPrice => price.timestamp <= now
  /\ \A s \in Symbol : assetPrice[s] # NoPrice => assetPrice[s].timestamp <= now
  /\ counter > 0 => LastPrice(Feed) # NoPrice

UnopenedInv ==
  \A r \in RoundId : r > counter =>
    /\ rounds[r] = None /\ escrow[r] = 0
    /\ \A u \in User : positions[r][u] = None

RoundsInv == \A r \in RoundId : Sound(rounds[r], positions[r], escrow[r], now)

MarketInv ==
  /\ TypeOK
  /\ SetupInv
  /\ OracleInv
  /\ UnopenedInv
  /\ RoundsInv

-----------------------------------------------------------------------------
(* What a step does to one round, and which rounds it does it to *)

Stays(r) ==
  /\ rounds'[r] = rounds[r] /\ positions'[r] = positions[r] /\ escrow'[r] = escrow[r]

KeepsTheRest(r) == \A q \in RoundId : q # r => Stays(q)

Opens(r) ==
  /\ r = counter + 1 /\ counter' = r
  /\ config \in Config /\ LastPrice(Feed) \in PriceData
  /\ rounds'[r] \in Round
  /\ rounds'[r].strike = LastPrice(Feed).price
  /\ rounds'[r].strike_ts = LastPrice(Feed).timestamp
  /\ rounds'[r].lock_ts = LastPrice(Feed).timestamp + config.lock_offset
  /\ rounds'[r].settle_ts = LastPrice(Feed).timestamp + config.oracle_interval
  /\ rounds'[r].pool = [side \in Side |-> 0]
  /\ rounds'[r].boosted = [side \in Side |-> 0]
  /\ rounds'[r].status = "Open" /\ rounds'[r].outcome = "Void"
  /\ rounds'[r].live_until = now + TempBump
  /\ positions'[r] = positions[r] /\ escrow'[r] = escrow[r]

StakeOf(r, u, side, amount, pos, live) ==
  /\ pos \in Position /\ live \in Nat
  /\ pos.side = side /\ pos.amount = amount
  /\ pos.boosted = BoostedAt(rounds[r], amount, now)
  /\ pos.claimed = FALSE /\ pos.live_until = now + TempBump
  /\ live = Extended(rounds[r].live_until)
  /\ rounds'[r] = Staked(rounds[r], side, amount, pos.boosted, live)
  /\ positions'[r] = [positions[r] EXCEPT ![u] = pos]

Stakes(r, u, side, amount) ==
  /\ u \in User /\ side \in Side /\ amount \in BetAmount /\ amount >= MinBet
  /\ rounds[r] \in Round /\ rounds[r].status = "Open" /\ now < rounds[r].lock_ts
  /\ positions[r][u] = None
  /\ escrow'[r] = escrow[r] + amount
  /\ \E pos, live : StakeOf(r, u, side, amount, pos, live)

FeeTaken(r) ==
  LET outcome == Verdict(rounds[r], LastPrice(Feed))
  IN IF outcome = "Void" THEN 0
     ELSE Fee(rounds[r].pool[Opposite(outcome)], config.fee_bps)

Settles(r) ==
  /\ config \in Config
  /\ rounds[r] \in Round /\ rounds[r].status = "Open" /\ now >= rounds[r].settle_ts
  /\ rounds'[r] = [rounds[r] EXCEPT !.outcome = Verdict(rounds[r], LastPrice(Feed)),
                                    !.status = "Settled",
                                    !.live_until = Extended(rounds[r].live_until)]
  /\ positions'[r] = positions[r]
  /\ escrow'[r] = escrow[r] - FeeTaken(r)

Pays(r, u) ==
  /\ config \in Config
  /\ u \in User /\ Claimable(r, u)
  /\ rounds'[r] = rounds[r]
  /\ positions'[r] = [positions[r] EXCEPT ![u].claimed = TRUE]
  /\ escrow'[r] = escrow[r] - Worth(rounds[r], positions[r][u])

Ages(r) ==
  /\ \/ rounds'[r] = rounds[r]
     \/ rounds'[r] = None /\ rounds[r] # None /\ rounds[r].live_until < now'
  /\ \A u \in User :
       \/ positions'[r][u] = positions[r][u]
       \/ /\ positions'[r][u] = None
          /\ positions[r][u] # None /\ positions[r][u].live_until < now'
  /\ positions'[r] \in Row
  /\ escrow'[r] = escrow[r]

LEMMA CreateEffect ==
  ASSUME TypeOK, CreateRound
  PROVE  /\ counter + 1 \in RoundId
         /\ Opens(counter + 1) /\ KeepsTheRest(counter + 1)
<1>1. PICK tick : tick = LastPrice(Feed)
  OBVIOUS
<1>2. tick \in PriceData
  BY <1>1 DEF CreateRound, LastPrice, TypeOK
<1>3. config \in Config /\ counter \in Nat /\ counter < MaxRounds /\ now \in Nat
  BY DEF CreateRound, TypeOK
<1>4. PICK r \in RoundId : r = counter + 1
  BY <1>3 DEF RoundId
<1>5. PICK round : round =
        [strike |-> tick.price, strike_ts |-> tick.timestamp,
         lock_ts |-> tick.timestamp + config.lock_offset,
         settle_ts |-> tick.timestamp + config.oracle_interval,
         pool |-> [side \in Side |-> 0], boosted |-> [side \in Side |-> 0],
         status |-> "Open", outcome |-> "Void", live_until |-> now + TempBump]
  OBVIOUS
<1>6. round \in Round
  <2>1. tick.price \in Price /\ tick.timestamp \in Nat
    BY <1>2 DEF PriceData
  <2>2. config.lock_offset \in Nat /\ config.oracle_interval \in Nat
    BY <1>3 DEF Config
  <2>. QED BY <1>3, <1>5, <2>1, <2>2 DEF Round, Outcome
<1>7. /\ rounds' = [rounds EXCEPT ![r] = round]
      /\ counter' = r /\ positions' = positions /\ escrow' = escrow
  BY <1>1, <1>4, <1>5 DEF CreateRound
<1>8. rounds'[r] = round /\ \A q \in RoundId : q # r => rounds'[q] = rounds[q]
  BY <1>7 DEF TypeOK
<1>9. /\ round.strike = tick.price /\ round.strike_ts = tick.timestamp
      /\ round.lock_ts = tick.timestamp + config.lock_offset
      /\ round.settle_ts = tick.timestamp + config.oracle_interval
      /\ round.pool = [side \in Side |-> 0] /\ round.boosted = [side \in Side |-> 0]
      /\ round.status = "Open" /\ round.outcome = "Void"
      /\ round.live_until = now + TempBump
  BY <1>5
<1>10. Opens(r)
  BY <1>1, <1>2, <1>3, <1>4, <1>6, <1>7, <1>8, <1>9 DEF Opens
<1>11. KeepsTheRest(r)
  BY <1>7, <1>8 DEF KeepsTheRest, Stays
<1>. QED BY <1>4, <1>10, <1>11

LEMMA ExtendedLives ==
  ASSUME TypeOK, NEW round \in Round, round.strike_ts <= now,
         round.strike_ts + TempBump <= round.live_until
  PROVE  /\ Extended(round.live_until) \in Nat
         /\ round.strike_ts + TempBump <= Extended(round.live_until)
BY DEF TypeOK, Round, Extended

LEMMA BetEffect ==
  ASSUME MarketInv, NEW u \in User, NEW r \in RoundId, NEW side \in Side,
         NEW amount \in BetAmount, Bet(u, r, side, amount)
  PROVE  Stakes(r, u, side, amount) /\ KeepsTheRest(r)
<1>1. PICK round \in Round : round = rounds[r]
  BY DEF Bet, MarketInv, TypeOK
<1>2. /\ now < round.lock_ts /\ round.status = "Open" /\ positions[r][u] = None
      /\ amount >= MinBet /\ amount \in Nat /\ now \in Nat
  BY <1>1 DEF Bet, MarketInv, TypeOK
<1>3. PICK boosted : boosted = BoostedAt(round, amount, now)
  OBVIOUS
<1>4. boosted \in Nat
  <2>1. round.lock_ts \in Nat
    BY DEF Round
  <2>2. PICK d \in Nat : d = round.lock_ts - now
    BY <1>2, <2>1
  <2>. QED BY <1>2, <1>3, <2>2, ProductFacts DEF BoostedAt
<1>5. PICK live : live = Extended(round.live_until)
  OBVIOUS
<1>6. live \in Nat
  BY <1>1, <1>5, ExtendedLives DEF MarketInv, RoundsInv, Sound
<1>7. PICK pos : pos = [side |-> side, amount |-> amount, boosted |-> boosted,
                        claimed |-> FALSE, live_until |-> now + TempBump]
  OBVIOUS
<1>8. pos \in Position
  BY <1>2, <1>4, <1>7 DEF Position
<1>9. /\ rounds' = [rounds EXCEPT ![r].pool[side] = @ + amount,
                                  ![r].boosted[side] = @ + boosted,
                                  ![r].live_until = live]
      /\ positions' = [positions EXCEPT ![r][u] = pos]
      /\ escrow' = [escrow EXCEPT ![r] = @ + amount]
  BY <1>1, <1>3, <1>5, <1>7 DEF Bet, Boosted, BoostedAt
<1>10. rounds'[r] = Staked(round, side, amount, boosted, live)
  BY <1>1, <1>9 DEF Staked, MarketInv, TypeOK
<1>11. /\ positions'[r] = [positions[r] EXCEPT ![u] = pos]
       /\ escrow'[r] = escrow[r] + amount
  BY <1>9 DEF MarketInv, TypeOK
<1>12. KeepsTheRest(r)
  BY <1>9 DEF KeepsTheRest, Stays, MarketInv, TypeOK
<1>13. /\ pos.side = side /\ pos.amount = amount /\ pos.boosted = boosted
       /\ pos.claimed = FALSE /\ pos.live_until = now + TempBump
  BY <1>7
<1>14. StakeOf(r, u, side, amount, pos, live)
  BY <1>1, <1>3, <1>5, <1>6, <1>8, <1>10, <1>11, <1>13 DEF StakeOf
<1>. QED BY <1>1, <1>2, <1>11, <1>12, <1>14 DEF Stakes

LEMMA SettleEffect ==
  ASSUME TypeOK, NEW r \in RoundId, Settle(r)
  PROVE  Settles(r) /\ KeepsTheRest(r)
<1>1. /\ config \in Config /\ rounds[r] \in Round /\ rounds[r].status # "Settled"
      /\ now >= rounds[r].settle_ts
  BY DEF Settle, MaySettle, TypeOK
<1>2. rounds[r].status = "Open"
  BY <1>1 DEF Round
<1>3. /\ rounds' = [rounds EXCEPT ![r].outcome = Verdict(rounds[r], LastPrice(Feed)),
                                  ![r].status = "Settled",
                                  ![r].live_until = Extended(@)]
      /\ positions' = positions
      /\ escrow' = [escrow EXCEPT ![r] = @ - FeeTaken(r)]
  BY DEF Settle, FeeTaken
<1>4. rounds'[r] = [rounds[r] EXCEPT !.outcome = Verdict(rounds[r], LastPrice(Feed)),
                                     !.status = "Settled",
                                     !.live_until = Extended(rounds[r].live_until)]
  BY <1>1, <1>3 DEF TypeOK, Round
<1>5. escrow'[r] = escrow[r] - FeeTaken(r)
  BY <1>3 DEF TypeOK
<1>6. KeepsTheRest(r)
  BY <1>3 DEF KeepsTheRest, Stays, TypeOK
<1>. QED BY <1>1, <1>2, <1>3, <1>4, <1>5, <1>6 DEF Settles

LEMMA ClaimEffect ==
  ASSUME TypeOK, NEW r \in RoundId, NEW u \in User, Claim(u, r)
  PROVE  Pays(r, u) /\ KeepsTheRest(r)
<1>1. config \in Config /\ Claimable(r, u)
  BY DEF Claim, TypeOK
<1>2. PICK payout : payout = Worth(rounds[r], positions[r][u])
  OBVIOUS
<1>3. /\ rounds' = rounds
      /\ positions' = [positions EXCEPT ![r][u].claimed = TRUE]
      /\ escrow' = [escrow EXCEPT ![r] = @ - payout]
  BY <1>2 DEF Claim
<1>4. positions'[r] = [positions[r] EXCEPT ![u].claimed = TRUE]
  BY <1>3 DEF TypeOK
<1>5. escrow'[r] = escrow[r] - payout
  BY <1>3 DEF TypeOK
<1>6. KeepsTheRest(r)
  BY <1>3 DEF KeepsTheRest, Stays, TypeOK
<1>. QED BY <1>1, <1>2, <1>3, <1>4, <1>5, <1>6 DEF Pays

LEMMA AdvanceEffect ==
  ASSUME TypeOK, AdvanceTime
  PROVE  now' = now + 1 /\ \A r \in RoundId : Ages(r)
<1>1. /\ now' = now + 1 /\ escrow' = escrow
      /\ rounds' = [r \in RoundId |->
           IF rounds[r] # None /\ rounds[r].live_until < now'
           THEN None ELSE rounds[r]]
      /\ positions' = [r \in RoundId |-> [u \in User |->
           IF positions[r][u] # None /\ positions[r][u].live_until < now'
           THEN None ELSE positions[r][u]]]
  BY DEF AdvanceTime
<1>2. ASSUME NEW r \in RoundId PROVE Ages(r)
  <2>1. /\ rounds'[r] = IF rounds[r] # None /\ rounds[r].live_until < now'
                        THEN None ELSE rounds[r]
        /\ positions'[r] = [u \in User |->
             IF positions[r][u] # None /\ positions[r][u].live_until < now'
             THEN None ELSE positions[r][u]]
        /\ escrow'[r] = escrow[r]
    BY <1>1
  <2>2. positions[r] \in Row
    BY DEF TypeOK, Row
  <2>3. positions'[r] \in Row
    BY <2>1, <2>2 DEF Row
  <2>. QED BY <2>1, <2>3 DEF Ages
<1>. QED BY <1>1, <1>2


-----------------------------------------------------------------------------
(* What a stake is worth, at a given fee *)

Left(losing, bps) == losing - Fee(losing, bps)

OfWinners(round, pos, d) ==
  PartOf(Cut(d, WinnerPct), pos.boosted, round.boosted[pos.side])

OfAll(round, pos, d) ==
  PartOf(Cut(d, RefundPct), pos.boosted,
         round.boosted["Above"] + round.boosted["Below"])

WorthAt(round, pos, d) ==
  IF round.outcome = "Void" THEN pos.amount
  ELSE IF pos.side = round.outcome
  THEN pos.amount + OfWinners(round, pos, d) + OfAll(round, pos, d)
  ELSE OfAll(round, pos, d)

LEMMA WorthIs ==
  ASSUME NEW round, NEW pos
  PROVE  Worth(round, pos) =
           WorthAt(round, pos,
                   Left(round.pool[Opposite(round.outcome)], config.fee_bps))
BY DEF Worth, WorthAt, WinnerBonus, Refund, Share, Distributed, OfWinners, OfAll,
       PartOf, Cut, Left

LEMMA LeftFacts ==
  ASSUME NEW losing \in Nat, NEW bps \in 0..MaxFeeBps
  PROVE  /\ Left(losing, bps) \in 0..losing
         /\ Left(losing, bps) + Fee(losing, bps) = losing
         /\ \A higher \in 0..MaxFeeBps : bps <= higher =>
              Left(losing, higher) <= Left(losing, bps)
<1>1. Fee(losing, bps) \in 0..losing
  BY FeeFacts
<1>2. ASSUME NEW higher \in 0..MaxFeeBps, bps <= higher
      PROVE  Left(losing, higher) <= Left(losing, bps)
  <2>1. Fee(losing, bps) <= Fee(losing, higher) /\ Fee(losing, higher) \in 0..losing
    BY <1>2, FeeFacts
  <2>. QED BY <1>1, <2>1 DEF Left
<1>. QED BY <1>1, <1>2 DEF Left

\* Worth is a number, and grows with what the losers leave and with the weight.
LEMMA WorthGrows ==
  ASSUME NEW round \in Round, NEW pos \in Position, NEW d \in Nat
  PROVE  /\ OfWinners(round, pos, d) \in Nat /\ OfAll(round, pos, d) \in Nat
         /\ WorthAt(round, pos, d) \in Nat
         /\ \A more \in Nat : d <= more =>
              WorthAt(round, pos, d) <= WorthAt(round, pos, more)
         /\ \A rival \in Position :
              /\ rival.side = pos.side /\ rival.amount = pos.amount
              /\ pos.boosted <= rival.boosted
              => WorthAt(round, pos, d) <= WorthAt(round, rival, d)
<1>1. PICK ofSide, all \in Nat :
        ofSide = round.boosted[pos.side]
        /\ all = round.boosted["Above"] + round.boosted["Below"]
  BY DEF Round, Position, Side
<1>2. /\ Cut(d, WinnerPct) \in Nat /\ Cut(d, RefundPct) \in Nat
      /\ \A more \in Nat : d <= more =>
           /\ Cut(d, WinnerPct) <= Cut(more, WinnerPct)
           /\ Cut(d, RefundPct) <= Cut(more, RefundPct)
           /\ Cut(more, WinnerPct) \in Nat /\ Cut(more, RefundPct) \in Nat
  BY CutFacts
<1>3. pos.amount \in Nat /\ pos.boosted \in Nat
  BY DEF Position
<1>4. OfWinners(round, pos, d) \in Nat /\ OfAll(round, pos, d) \in Nat
  BY <1>1, <1>2, <1>3, PartFacts DEF OfWinners, OfAll
<1>5. WorthAt(round, pos, d) \in Nat
  BY <1>3, <1>4 DEF WorthAt
<1>6. ASSUME NEW more \in Nat, d <= more
      PROVE  WorthAt(round, pos, d) <= WorthAt(round, pos, more)
  <2>1. /\ OfWinners(round, pos, d) <= OfWinners(round, pos, more)
        /\ OfAll(round, pos, d) <= OfAll(round, pos, more)
        /\ OfWinners(round, pos, more) \in Nat /\ OfAll(round, pos, more) \in Nat
    BY <1>1, <1>2, <1>3, <1>6, PartFacts DEF OfWinners, OfAll
  <2>. QED BY <1>3, <1>4, <2>1 DEF WorthAt
<1>7. ASSUME NEW rival \in Position, rival.side = pos.side, rival.amount = pos.amount,
             pos.boosted <= rival.boosted
      PROVE  WorthAt(round, pos, d) <= WorthAt(round, rival, d)
  <2>1. rival.boosted \in Nat
    BY DEF Position
  <2>2. /\ OfWinners(round, pos, d) <= OfWinners(round, rival, d)
        /\ OfAll(round, pos, d) <= OfAll(round, rival, d)
        /\ OfWinners(round, rival, d) \in Nat /\ OfAll(round, rival, d) \in Nat
    BY <1>1, <1>2, <1>3, <1>7, <2>1, PartFacts DEF OfWinners, OfAll
  <2>. QED BY <1>3, <1>4, <1>7, <2>2 DEF WorthAt
<1>. QED BY <1>4, <1>5, <1>6, <1>7

LEMMA LosingNat ==
  ASSUME NEW round \in Round
  PROVE  \A outcome \in Outcome : round.pool[Opposite(outcome)] \in Nat
BY DEF Round, Opposite, Side

LEMMA WorthNat ==
  ASSUME NEW round \in Round, NEW pos \in Position, config \in Config
  PROVE  Worth(round, pos) \in Nat
<1>1. PICK losing \in Nat : losing = round.pool[Opposite(round.outcome)]
  BY LosingNat DEF Round
<1>2. PICK bps \in 0..MaxFeeBps : bps = config.fee_bps
  BY DEF Config
<1>3. PICK d \in Nat : d = Left(losing, bps)
  BY LeftFacts
<1>4. Worth(round, pos) = WorthAt(round, pos, d)
  BY <1>1, <1>2, <1>3, WorthIs
<1>. QED BY <1>4, WorthGrows

LEMMA FeeTakenNat ==
  ASSUME NEW r, rounds[r] \in Round, config \in Config
  PROVE  FeeTaken(r) \in Nat
<1>1. PICK bps \in 0..MaxFeeBps : bps = config.fee_bps
  BY DEF Config
<1>2. PICK outcome \in Outcome : outcome = Verdict(rounds[r], LastPrice(Feed))
  BY DEF Verdict, Outcome
<1>3. PICK losing \in Nat : losing = rounds[r].pool[Opposite(outcome)]
  BY LosingNat
<1>4. Fee(losing, bps) \in Nat
  BY FeeFacts
<1>. QED BY <1>1, <1>2, <1>3, <1>4 DEF FeeTaken

-----------------------------------------------------------------------------
(* Every step keeps the invariant *)

LEMMA InitInv == Init => MarketInv
<1> SUFFICES ASSUME Init PROVE MarketInv
  OBVIOUS
<1>1. /\ now = 1 /\ price = NoPrice /\ assetPrice = [s \in Symbol |-> NoPrice]
      /\ config = None /\ counter = 0 /\ fees = 0 /\ lastStrikeTs = 0 /\ vault = 0
      /\ rounds = [r \in RoundId |-> None]
      /\ positions = [r \in RoundId |-> [u \in User |-> None]]
      /\ escrow = [r \in RoundId |-> 0]
  BY DEF Init, OracleInit
<1>2. \A r \in RoundId : /\ rounds[r] = None /\ escrow[r] = 0
                         /\ positions[r] = [u \in User |-> None]
  BY <1>1
<1>3. [u \in User |-> None] \in Row
  BY DEF Row
<1>4. RoundsInv
  BY <1>2, <1>3 DEF RoundsInv, Sound
<1>5. UnopenedInv
  BY <1>2 DEF UnopenedInv
<1>6. SetupInv /\ OracleInv
  BY <1>1 DEF SetupInv, OracleInv
<1>7. TypeOK
  BY <1>1 DEF TypeOK
<1>. QED BY <1>4, <1>5, <1>6, <1>7 DEF MarketInv


\* One round: whatever a step does to it, it stays sound.
SoundNext(r) == Sound(rounds'[r], positions'[r], escrow'[r], now')

LEMMA StaysSound ==
  ASSUME MarketInv, NEW r \in RoundId, Stays(r), now' = now
  PROVE  SoundNext(r)
BY DEF MarketInv, RoundsInv, Stays, SoundNext

LEMMA OpensSound ==
  ASSUME MarketInv, NEW r \in RoundId, Opens(r), now' = now
  PROVE  SoundNext(r)
<1>1. PICK round \in Round : round = rounds'[r]
  BY DEF Opens
<1>2. PICK row \in Row : row = positions[r]
  BY DEF MarketInv, TypeOK, Row
<1>3. escrow[r] = 0 /\ \A u \in User : row[u] = None
  <2>1. r > counter
    BY DEF Opens, MarketInv, TypeOK
  <2>. QED BY <1>2, <2>1 DEF MarketInv, UnopenedInv
<1>4. LastPrice(Feed).timestamp <= now
  BY DEF Opens, MarketInv, OracleInv, LastPrice
<1>5. now \in Nat /\ round.strike_ts \in Nat
  BY DEF MarketInv, TypeOK, Round
<1>6. /\ round.strike_ts <= now /\ round.strike_ts + TempBump <= round.live_until
      /\ round.pool = [side \in Side |-> 0] /\ round.boosted = [side \in Side |-> 0]
      /\ round.status = "Open"
  BY <1>1, <1>4, <1>5 DEF Opens
<1>7. Sound(round, row, 0, now)
  BY <1>3, <1>5, <1>6, FreshSound
<1>. QED BY <1>1, <1>2, <1>3, <1>7 DEF SoundNext, Opens

LEMMA StakesSound ==
  ASSUME MarketInv, NEW r \in RoundId, NEW u, NEW side, NEW amount,
         Stakes(r, u, side, amount), now' = now
  PROVE  SoundNext(r)
<1>1. PICK round \in Round, row \in Row, held \in Int, t \in Nat :
        round = rounds[r] /\ row = positions[r] /\ held = escrow[r] /\ t = now
  BY DEF Stakes, MarketInv, TypeOK, Row
<1>2. Sound(round, row, held, t)
  BY <1>1 DEF MarketInv, RoundsInv
<1>3. /\ u \in User /\ side \in Side /\ amount \in Nat
      /\ round.status = "Open" /\ t < round.lock_ts /\ row[u] = None
      /\ escrow'[r] = held + amount
  BY <1>1 DEF Stakes
<1>4. PICK pos, live : StakeOf(r, u, side, amount, pos, live)
  BY DEF Stakes
<1>5. /\ pos \in Position /\ live \in Nat
      /\ pos.side = side /\ pos.amount = amount /\ pos.claimed = FALSE
      /\ pos.boosted = BoostedAt(round, amount, t) /\ pos.live_until = t + TempBump
      /\ live = Extended(round.live_until)
      /\ rounds'[r] = Staked(round, side, amount, pos.boosted, live)
      /\ positions'[r] = [row EXCEPT ![u] = pos]
  BY <1>1, <1>4 DEF StakeOf
<1>6. round.strike_ts + TempBump <= live
  BY <1>1, <1>2, <1>5, ExtendedLives DEF Sound, MarketInv
<1>7. Sound(Staked(round, side, amount, pos.boosted, live),
            [row EXCEPT ![u] = pos], held + amount, t)
  BY <1>2, <1>3, <1>5, <1>6, BetSound
<1>. QED BY <1>1, <1>3, <1>5, <1>7 DEF SoundNext

LEMMA SettlesSound ==
  ASSUME MarketInv, NEW r \in RoundId, Settles(r), now' = now
  PROVE  SoundNext(r)
<1>1. PICK round \in Round, row \in Row, held \in Int, t \in Nat :
        round = rounds[r] /\ row = positions[r] /\ held = escrow[r] /\ t = now
  BY DEF Settles, MarketInv, TypeOK, Row
<1>2. Sound(round, row, held, t)
  BY <1>1 DEF MarketInv, RoundsInv
<1>3. PICK outcome \in Outcome : outcome = Verdict(round, LastPrice(Feed))
  BY DEF Verdict, Outcome
<1>4. outcome # "Void" => round.pool["Above"] > 0 /\ round.pool["Below"] > 0
  BY <1>3 DEF Verdict, Round, Side
<1>5. PICK live \in Nat : live = Extended(round.live_until)
                          /\ round.strike_ts + TempBump <= live
  BY <1>1, <1>2, ExtendedLives DEF Sound, MarketInv
<1>6. PICK left \in Int : left = escrow'[r]
  BY <1>1, FeeTakenNat DEF Settles
<1>7. Sound([round EXCEPT !.outcome = outcome, !.status = "Settled",
                          !.live_until = live], row, left, t)
  BY <1>2, <1>4, <1>5, SettleSound
<1>. QED BY <1>1, <1>3, <1>5, <1>6, <1>7 DEF SoundNext, Settles

LEMMA PaysSound ==
  ASSUME MarketInv, NEW r \in RoundId, NEW u, Pays(r, u), now' = now
  PROVE  SoundNext(r)
<1>1. /\ u \in User /\ config \in Config
      /\ rounds[r] # None /\ rounds[r].status = "Settled" /\ positions[r][u] # None
      /\ rounds'[r] = rounds[r]
      /\ positions'[r] = [positions[r] EXCEPT ![u].claimed = TRUE]
      /\ escrow'[r] = escrow[r] - Worth(rounds[r], positions[r][u])
  BY DEF Pays, Claimable, Settled
<1>2. PICK round \in Round, row \in Row, held \in Int, t \in Nat :
        round = rounds[r] /\ row = positions[r] /\ held = escrow[r] /\ t = now
  BY <1>1 DEF MarketInv, TypeOK, Row
<1>3. Sound(round, row, held, t)
  BY <1>2 DEF MarketInv, RoundsInv
<1>4. PICK left \in Int : left = escrow'[r]
  <2>1. row[u] \in Position
    BY <1>1, <1>2 DEF Row
  <2>2. Worth(round, row[u]) \in Nat
    BY <1>1, <2>1, WorthNat
  <2>. QED BY <1>1, <1>2, <2>2
<1>5. Sound(round, [row EXCEPT ![u].claimed = TRUE], left, t)
  BY <1>1, <1>2, <1>3, ClaimSound
<1>. QED BY <1>1, <1>2, <1>4, <1>5 DEF SoundNext

LEMMA AgesSound ==
  ASSUME MarketInv, NEW r \in RoundId, Ages(r), now' = now + 1
  PROVE  SoundNext(r)
<1>1. PICK round \in Round \cup {None}, row \in Row, held \in Int, t \in Nat :
        round = rounds[r] /\ row = positions[r] /\ held = escrow[r] /\ t = now
  BY DEF MarketInv, TypeOK, Row
<1>2. Sound(round, row, held, t)
  BY <1>1 DEF MarketInv, RoundsInv
<1>3. PICK after \in Round \cup {None}, line \in Row :
        after = rounds'[r] /\ line = positions'[r]
  BY <1>1 DEF Ages
<1>4. after \in {round, None} /\ \A u \in User : line[u] \in {row[u], None}
  BY <1>1, <1>3 DEF Ages
<1>5. Sound(after, line, held, t + 1)
  BY <1>2, <1>4, AgeSound
<1>. QED BY <1>1, <1>3, <1>5 DEF SoundNext, Ages


\* The three tables keep their domains.
LEMMA Tables ==
  ASSUME TypeOK, Next
  PROVE  /\ rounds' = [r \in RoundId |-> rounds'[r]]
         /\ positions' = [r \in RoundId |-> positions'[r]]
         /\ escrow' = [r \in RoundId |-> escrow'[r]]
<1>1. /\ rounds = [r \in RoundId |-> rounds[r]]
      /\ positions = [r \in RoundId |-> positions[r]]
      /\ escrow = [r \in RoundId |-> escrow[r]]
  BY DEF TypeOK
<1>2. CASE UNCHANGED <<rounds, positions, escrow>>
  BY <1>1, <1>2
<1>3. CASE CreateRound
  BY <1>1, <1>3 DEF CreateRound
<1>4. ASSUME NEW u \in User, NEW r \in RoundId, NEW side \in Side,
             NEW amount \in BetAmount, Bet(u, r, side, amount)
      PROVE  /\ rounds' = [q \in RoundId |-> rounds'[q]]
             /\ positions' = [q \in RoundId |-> positions'[q]]
             /\ escrow' = [q \in RoundId |-> escrow'[q]]
  <2>1. PICK boosted, live, pos :
          /\ rounds' = [rounds EXCEPT ![r].pool[side] = @ + amount,
                                      ![r].boosted[side] = @ + boosted,
                                      ![r].live_until = live]
          /\ positions' = [positions EXCEPT ![r][u] = pos]
          /\ escrow' = [escrow EXCEPT ![r] = @ + amount]
    BY <1>4 DEF Bet
  <2>2. rounds' = [q \in RoundId |-> rounds'[q]]
    BY <1>1, <2>1
  <2>. QED BY <1>1, <2>1, <2>2
<1>5. ASSUME NEW r \in RoundId, Settle(r)
      PROVE  /\ rounds' = [q \in RoundId |-> rounds'[q]]
             /\ positions' = [q \in RoundId |-> positions'[q]]
             /\ escrow' = [q \in RoundId |-> escrow'[q]]
  BY <1>1, <1>5 DEF Settle
<1>6. ASSUME NEW u \in User, NEW r \in RoundId, Claim(u, r)
      PROVE  /\ rounds' = [q \in RoundId |-> rounds'[q]]
             /\ positions' = [q \in RoundId |-> positions'[q]]
             /\ escrow' = [q \in RoundId |-> escrow'[q]]
  BY <1>1, <1>6 DEF Claim
<1>7. CASE AdvanceTime
  BY <1>1, <1>7 DEF AdvanceTime
<1>8. CASE SweepFees \/ OracleMoves
  BY <1>2, <1>8 DEF SweepFees, OracleMoves
<1>9. ASSUME NEW fee, NEW offset, NEW interval, Initialize(fee, offset, interval)
      PROVE  UNCHANGED <<rounds, positions, escrow>>
  BY <1>9 DEF Initialize
<1>10. ASSUME NEW x, SetFeeBps(x) \/ SetLockOffset(x) \/ SetOracleInterval(x)
       PROVE  UNCHANGED <<rounds, positions, escrow>>
  BY <1>10 DEF SetFeeBps, SetLockOffset, SetOracleInterval, Configure
<1>. QED BY <1>2, <1>3, <1>4, <1>5, <1>6, <1>7, <1>8, <1>9, <1>10 DEF Next

\* What the calls of the admin, of the fee's receiver and of the oracle leave alone.
Untouched == UNCHANGED <<rounds, positions, escrow, now>>

\* A step, by what it does to the rounds.
NextCases ==
  \/ Untouched
  \/ CreateRound
  \/ \E u \in User, r \in RoundId, side \in Side, amount \in BetAmount :
       Bet(u, r, side, amount)
  \/ \E r \in RoundId : Settle(r)
  \/ \E u \in User, r \in RoundId : Claim(u, r)
  \/ AdvanceTime

LEMMA NextIsCases == ASSUME Next PROVE NextCases
<1>1. CASE SweepFees \/ OracleMoves
  BY <1>1 DEF SweepFees, OracleMoves, environment, NextCases, Untouched
<1>2. ASSUME NEW fee, NEW offset, NEW interval, Initialize(fee, offset, interval)
      PROVE  Untouched
  BY <1>2 DEF Initialize, environment, Untouched
<1>3. ASSUME NEW x, SetFeeBps(x) \/ SetLockOffset(x) \/ SetOracleInterval(x)
      PROVE  Untouched
  BY <1>3 DEF SetFeeBps, SetLockOffset, SetOracleInterval, Configure, environment,
              Untouched
<1>. QED BY <1>1, <1>2, <1>3 DEF Next, NextCases

LEMMA RoundsStep ==
  ASSUME MarketInv, Next
  PROVE  \A r \in RoundId : SoundNext(r)
<1>1. CASE Untouched
  <2>1. ASSUME NEW r \in RoundId PROVE Stays(r) /\ now' = now
    BY <1>1 DEF Untouched, Stays
  <2>. QED BY <2>1, StaysSound
<1>2. ASSUME NEW r \in RoundId, KeepsTheRest(r), SoundNext(r), now' = now
      PROVE  \A q \in RoundId : SoundNext(q)
  BY <1>2, StaysSound DEF KeepsTheRest
<1>3. CASE CreateRound
  <2>1. now' = now
    BY <1>3 DEF CreateRound, environment
  <2>2. /\ counter + 1 \in RoundId
        /\ Opens(counter + 1) /\ KeepsTheRest(counter + 1)
    BY <1>3, CreateEffect DEF MarketInv
  <2>. QED BY <1>2, <2>1, <2>2, OpensSound
<1>4. ASSUME NEW u \in User, NEW r \in RoundId, NEW side \in Side,
             NEW amount \in BetAmount, Bet(u, r, side, amount)
      PROVE  \A q \in RoundId : SoundNext(q)
  <2>1. now' = now
    BY <1>4 DEF Bet, environment
  <2>. QED BY <1>2, <1>4, <2>1, BetEffect, StakesSound
<1>5. ASSUME NEW r \in RoundId, Settle(r)
      PROVE  \A q \in RoundId : SoundNext(q)
  <2>1. now' = now
    BY <1>5 DEF Settle, environment
  <2>2. Settles(r) /\ KeepsTheRest(r)
    BY <1>5, SettleEffect DEF MarketInv
  <2>. QED BY <1>2, <2>1, <2>2, SettlesSound
<1>6. ASSUME NEW u \in User, NEW r \in RoundId, Claim(u, r)
      PROVE  \A q \in RoundId : SoundNext(q)
  <2>1. now' = now
    BY <1>6 DEF Claim, environment
  <2>2. Pays(r, u) /\ KeepsTheRest(r)
    BY <1>6, ClaimEffect DEF MarketInv
  <2>. QED BY <1>2, <2>1, <2>2, PaysSound
<1>7. CASE AdvanceTime
  BY <1>7, AdvanceEffect, AgesSound DEF MarketInv
<1>. QED BY <1>1, <1>3, <1>4, <1>5, <1>6, <1>7, NextIsCases DEF NextCases

LEMMA RoundTypes ==
  ASSUME TypeOK, Next, \A r \in RoundId : SoundNext(r)
  PROVE  /\ rounds' \in [RoundId -> Round \cup {None}]
         /\ positions' \in [RoundId -> [User -> Position \cup {None}]]
         /\ escrow' \in [RoundId -> Int]
<1>1. \A r \in RoundId : /\ rounds'[r] \in Round \cup {None}
                         /\ positions'[r] \in Row /\ escrow'[r] \in Int
  BY DEF SoundNext, Sound
<1>. QED BY <1>1, Tables DEF Row


ScalarsOK ==
  /\ now \in 1..MaxTime
  /\ config \in Config \cup {None}
  /\ counter \in 0..MaxRounds
  /\ fees \in Nat
  /\ lastStrikeTs \in Nat
  /\ vault \in Nat

\* The oracle moves on its own, and only forward.
LEMMA OracleStep ==
  ASSUME MarketInv, Next
  PROVE  /\ price' \in PriceData \cup {NoPrice}
         /\ assetPrice' \in [Symbol -> PriceData \cup {NoPrice}]
         /\ price' # NoPrice => price'.timestamp <= now'
         /\ \A s \in Symbol : assetPrice'[s] # NoPrice => assetPrice'[s].timestamp <= now'
         /\ LastPrice(Feed) # NoPrice => LastPrice(Feed)' # NoPrice
<1>1. /\ price \in PriceData \cup {NoPrice} /\ now \in Nat
      /\ assetPrice \in [Symbol -> PriceData \cup {NoPrice}]
      /\ price # NoPrice => price.timestamp <= now
      /\ \A s \in Symbol : assetPrice[s] # NoPrice => assetPrice[s].timestamp <= now
  BY DEF MarketInv, TypeOK, OracleInv
<1>2. CASE UNCHANGED environment
  BY <1>1, <1>2 DEF environment, oracle, LastPrice
<1>3. CASE AdvanceTime
  <2>1. now' = now + 1 /\ UNCHANGED oracle
    BY <1>3 DEF AdvanceTime
  <2>2. \A data \in PriceData : data.timestamp <= now => data.timestamp <= now + 1
    BY <1>1 DEF PriceData
  <2>3. price' = price /\ assetPrice' = assetPrice
    BY <2>1 DEF oracle
  <2>. QED BY <1>1, <2>1, <2>2, <2>3 DEF LastPrice
<1>4. ASSUME NEW p \in Price
      PROVE  Quote(p) \in PriceData /\ Quote(p) # NoPrice /\ Quote(p).timestamp = now
  BY <1>1 DEF Quote, PriceData
<1>5. ASSUME NEW p \in Price, UpdatePrice(p), now' = now
      PROVE  /\ price' \in PriceData \cup {NoPrice}
             /\ assetPrice' \in [Symbol -> PriceData \cup {NoPrice}]
             /\ price' # NoPrice => price'.timestamp <= now'
             /\ \A s \in Symbol :
                  assetPrice'[s] # NoPrice => assetPrice'[s].timestamp <= now'
             /\ LastPrice(Feed) # NoPrice => LastPrice(Feed)' # NoPrice
  BY <1>1, <1>4, <1>5 DEF UpdatePrice, LastPrice
<1>6. ASSUME NEW s \in Symbol, NEW p \in Price, UpdateAssetPrice(s, p), now' = now
      PROVE  /\ price' \in PriceData \cup {NoPrice}
             /\ assetPrice' \in [Symbol -> PriceData \cup {NoPrice}]
             /\ price' # NoPrice => price'.timestamp <= now'
             /\ \A q \in Symbol :
                  assetPrice'[q] # NoPrice => assetPrice'[q].timestamp <= now'
             /\ LastPrice(Feed) # NoPrice => LastPrice(Feed)' # NoPrice
  <2>1. PICK quote \in PriceData :
          quote = Quote(p) /\ quote # NoPrice /\ quote.timestamp = now
    BY <1>4
  <2>2. /\ assetPrice' = [assetPrice EXCEPT ![s] = quote]
        /\ price' = IF s = XLM THEN quote ELSE price
    BY <1>6, <2>1 DEF UpdateAssetPrice
  <2>3. assetPrice'[s] = quote /\ \A q \in Symbol : q # s => assetPrice'[q] = assetPrice[q]
    BY <1>1, <2>2
  <2>4. assetPrice' \in [Symbol -> PriceData \cup {NoPrice}]
    BY <1>1, <2>1, <2>2
  <2>5. price' \in {quote, price}
    BY <2>2
  <2>6. LastPrice(Feed) # NoPrice => LastPrice(Feed)' # NoPrice
    BY <2>1, <2>3, <2>5, Feed \in Symbol DEF LastPrice
  <2>. QED BY <1>1, <1>6, <2>1, <2>3, <2>4, <2>5, <2>6
<1>7. CASE OracleMoves
  BY <1>5, <1>6, <1>7 DEF OracleMoves
<1>8. CASE CreateRound \/ SweepFees
  BY <1>2, <1>8 DEF CreateRound, SweepFees
<1>9. ASSUME NEW u, NEW r, NEW side, NEW amount,
             Bet(u, r, side, amount) \/ Settle(r) \/ Claim(u, r)
      PROVE  UNCHANGED environment
  BY <1>9 DEF Bet, Settle, Claim
<1>10. ASSUME NEW fee, NEW offset, NEW interval, Initialize(fee, offset, interval)
       PROVE  UNCHANGED environment
  BY <1>10 DEF Initialize
<1>11. ASSUME NEW x, SetFeeBps(x) \/ SetLockOffset(x) \/ SetOracleInterval(x)
       PROVE  UNCHANGED environment
  BY <1>11 DEF SetFeeBps, SetLockOffset, SetOracleInterval, Configure
<1>. QED BY <1>2, <1>3, <1>7, <1>8, <1>9, <1>10, <1>11 DEF Next

\* The admin's calls keep the settings within what the code lets in.
LEMMA SettingsStep ==
  ASSUME TypeOK, SetupInv, Next
  PROVE  /\ config' \in Config \cup {None}
         /\ config' # None => /\ config'.lock_offset \in LockOffset
                              /\ config'.oracle_interval \in OracleInterval
         /\ config # None => config' # None
<1>1. /\ config \in Config \cup {None}
      /\ config # None => /\ config.lock_offset \in LockOffset
                          /\ config.oracle_interval \in OracleInterval
  BY DEF TypeOK, SetupInv
<1>2. CASE config' = config
  BY <1>1, <1>2
<1>3. ASSUME NEW fee \in FeeBps, NEW offset \in LockOffset,
             NEW interval \in OracleInterval, Initialize(fee, offset, interval)
      PROVE  /\ config' \in Config
             /\ config'.lock_offset \in LockOffset
             /\ config'.oracle_interval \in OracleInterval
             /\ config = None
  <2>1. /\ config' = [fee_bps |-> fee, lock_offset |-> offset,
                      oracle_interval |-> interval]
        /\ fee \in 0..MaxFeeBps /\ config = None
    BY <1>3 DEF Initialize, FeeAllowed
  <2>. QED BY <2>1 DEF Config
<1>4. ASSUME NEW bps \in FeeBps, SetFeeBps(bps)
      PROVE  /\ config' \in Config
             /\ config'.lock_offset \in LockOffset
             /\ config'.oracle_interval \in OracleInterval
  <2>1. /\ config # None /\ config' = [config EXCEPT !.fee_bps = bps]
        /\ bps \in 0..MaxFeeBps
    BY <1>4 DEF SetFeeBps, FeeAllowed, Configure
  <2>. QED BY <1>1, <2>1 DEF Config
<1>5. ASSUME NEW seconds \in LockOffset, SetLockOffset(seconds)
      PROVE  /\ config' \in Config
             /\ config'.lock_offset \in LockOffset
             /\ config'.oracle_interval \in OracleInterval
  <2>1. config # None /\ config' = [config EXCEPT !.lock_offset = seconds]
    BY <1>5 DEF SetLockOffset, Configure
  <2>. QED BY <1>1, <2>1 DEF Config
<1>6. ASSUME NEW seconds \in OracleInterval, SetOracleInterval(seconds)
      PROVE  /\ config' \in Config
             /\ config'.lock_offset \in LockOffset
             /\ config'.oracle_interval \in OracleInterval
  <2>1. config # None /\ config' = [config EXCEPT !.oracle_interval = seconds]
    BY <1>6 DEF SetOracleInterval, Configure
  <2>. QED BY <1>1, <2>1 DEF Config
<1>7. ASSUME NEW u, NEW r, NEW side, NEW amount,
             \/ Bet(u, r, side, amount) \/ Settle(r) \/ Claim(u, r)
             \/ CreateRound \/ SweepFees \/ AdvanceTime \/ OracleMoves
      PROVE  config' = config
  BY <1>7 DEF Bet, Settle, Claim, CreateRound, SweepFees, AdvanceTime, OracleMoves
<1>. QED BY <1>2, <1>3, <1>4, <1>5, <1>6, <1>7 DEF Next

\* Rounds are numbered one after the other, from the first on.
LEMMA CounterStep ==
  ASSUME TypeOK, SetupInv, Next
  PROVE  /\ counter' \in 0..MaxRounds
         /\ \/ counter' = counter
            \/ CreateRound /\ counter' = counter + 1 /\ config # None
               /\ LastPrice(Feed) # NoPrice
         /\ config' = None => counter' = 0
<1>1. /\ counter \in 0..MaxRounds /\ (config = None => counter = 0)
      /\ config' = None => config = None
  BY SettingsStep DEF TypeOK, SetupInv
<1>2. CASE counter' = counter
  BY <1>1, <1>2
<1>3. CASE CreateRound
  BY <1>1, <1>3 DEF CreateRound
<1>4. ASSUME NEW fee, NEW offset, NEW interval, Initialize(fee, offset, interval)
      PROVE  counter' = counter
  BY <1>1, <1>4 DEF Initialize
<1>5. ASSUME NEW x, SetFeeBps(x) \/ SetLockOffset(x) \/ SetOracleInterval(x)
      PROVE  counter' = counter
  BY <1>5 DEF SetFeeBps, SetLockOffset, SetOracleInterval, Configure
<1>6. ASSUME NEW u, NEW r, NEW side, NEW amount,
             \/ Bet(u, r, side, amount) \/ Settle(r) \/ Claim(u, r)
             \/ SweepFees \/ AdvanceTime \/ OracleMoves
      PROVE  counter' = counter
  BY <1>6 DEF Bet, Settle, Claim, SweepFees, AdvanceTime, OracleMoves
<1>. QED BY <1>2, <1>3, <1>4, <1>5, <1>6 DEF Next

LEMMA ScalarsStep ==
  ASSUME MarketInv, Next
  PROVE  ScalarsOK'
<1>1. /\ now \in 1..MaxTime /\ fees \in Nat /\ lastStrikeTs \in Nat /\ vault \in Nat
      /\ TypeOK /\ SetupInv
  BY DEF MarketInv, TypeOK
<1>2. /\ config' \in Config \cup {None} /\ counter' \in 0..MaxRounds
  BY <1>1, SettingsStep, CounterStep
<1>3. SUFFICES now' \in 1..MaxTime /\ fees' \in Nat /\ lastStrikeTs' \in Nat /\ vault' \in Nat
  BY <1>2 DEF ScalarsOK
<1>4. CASE UNCHANGED <<now, fees, lastStrikeTs, vault>>
  BY <1>1, <1>4
<1>5. ASSUME NEW fee, NEW offset, NEW interval, Initialize(fee, offset, interval)
      PROVE  now' \in 1..MaxTime /\ fees' \in Nat /\ lastStrikeTs' \in Nat /\ vault' \in Nat
  BY <1>1, <1>5 DEF Initialize, environment
<1>6. CASE CreateRound
  <2>1. LastPrice(Feed) \in PriceData
    BY <1>1, <1>6, CreateEffect DEF Opens
  <2>2. lastStrikeTs' \in Nat
    BY <1>6, <2>1 DEF CreateRound, PriceData
  <2>. QED BY <1>1, <1>6, <2>2 DEF CreateRound, environment
<1>7. ASSUME NEW u \in User, NEW r \in RoundId, NEW side \in Side,
             NEW amount \in BetAmount, Bet(u, r, side, amount)
      PROVE  now' \in 1..MaxTime /\ fees' \in Nat /\ lastStrikeTs' \in Nat /\ vault' \in Nat
  BY <1>1, <1>7 DEF Bet, environment
<1>8. ASSUME NEW r \in RoundId, Settle(r)
      PROVE  now' \in 1..MaxTime /\ fees' \in Nat /\ lastStrikeTs' \in Nat /\ vault' \in Nat
  <2>1. rounds[r] \in Round /\ config \in Config
    BY <1>1, <1>8, SettleEffect DEF Settles
  <2>2. FeeTaken(r) \in Nat /\ fees' = fees + FeeTaken(r)
    BY <1>8, <2>1, FeeTakenNat DEF Settle, FeeTaken
  <2>. QED BY <1>1, <1>8, <2>2 DEF Settle, environment
<1>9. ASSUME NEW u \in User, NEW r \in RoundId, Claim(u, r)
      PROVE  now' \in 1..MaxTime /\ fees' \in Nat /\ lastStrikeTs' \in Nat /\ vault' \in Nat
  <2>1. rounds[r] \in Round /\ config \in Config /\ positions[r][u] \in Position
    BY <1>1, <1>9 DEF Claim, Claimable, Settled, TypeOK
  <2>2. PICK payout \in Nat : payout = Worth(rounds[r], positions[r][u])
    BY <2>1, WorthNat
  <2>. QED BY <1>1, <1>9, <2>2 DEF Claim, environment
<1>10. CASE SweepFees
  BY <1>1, <1>10 DEF SweepFees, environment
<1>11. CASE AdvanceTime
  BY <1>1, <1>11 DEF AdvanceTime
<1>12. CASE OracleMoves
  BY <1>1, <1>12 DEF OracleMoves
<1>13. ASSUME NEW x, SetFeeBps(x) \/ SetLockOffset(x) \/ SetOracleInterval(x)
       PROVE  UNCHANGED <<now, fees, lastStrikeTs, vault>>
  BY <1>13 DEF SetFeeBps, SetLockOffset, SetOracleInterval, Configure, environment
<1>. QED BY <1>4, <1>5, <1>6, <1>7, <1>8, <1>9, <1>10, <1>11, <1>12, <1>13 DEF Next


LEMMA UnopenedStep ==
  ASSUME MarketInv, Next
  PROVE  UnopenedInv'
<1> SUFFICES ASSUME NEW r \in RoundId, r > counter'
             PROVE  /\ rounds'[r] = None /\ escrow'[r] = 0
                    /\ \A u \in User : positions'[r][u] = None
  BY DEF UnopenedInv
<1>1. /\ counter \in Nat
      /\ \/ counter' = counter
         \/ CreateRound /\ counter' = counter + 1
  BY CounterStep DEF MarketInv, TypeOK
<1>2. r > counter
  BY <1>1 DEF RoundId
<1>3. rounds[r] = None /\ escrow[r] = 0 /\ \A u \in User : positions[r][u] = None
  BY <1>2 DEF MarketInv, UnopenedInv
<1>4. CASE Stays(r)
  BY <1>3, <1>4 DEF Stays
<1>5. CASE Untouched
  BY <1>4, <1>5 DEF Untouched, Stays
<1>6. CASE CreateRound
  <2>1. counter' = counter + 1 /\ KeepsTheRest(counter + 1)
    BY <1>6, CreateEffect DEF CreateRound, MarketInv
  <2>2. r # counter + 1
    BY <1>1, <2>1 DEF RoundId
  <2>. QED BY <1>4, <2>1, <2>2 DEF KeepsTheRest
<1>7. ASSUME NEW u \in User, NEW q \in RoundId, NEW side \in Side,
             NEW amount \in BetAmount, Bet(u, q, side, amount)
      PROVE  Stays(r)
  <2>1. rounds[q] # None /\ KeepsTheRest(q)
    BY <1>7, BetEffect DEF Bet
  <2>. QED BY <1>3, <2>1 DEF KeepsTheRest
<1>8. ASSUME NEW q \in RoundId, Settle(q)
      PROVE  Stays(r)
  <2>1. rounds[q] # None /\ KeepsTheRest(q)
    BY <1>8, SettleEffect DEF Settle, MaySettle, MarketInv
  <2>. QED BY <1>3, <2>1 DEF KeepsTheRest
<1>9. ASSUME NEW u \in User, NEW q \in RoundId, Claim(u, q)
      PROVE  Stays(r)
  <2>1. rounds[q] # None /\ KeepsTheRest(q)
    BY <1>9, ClaimEffect DEF Claim, Claimable, Settled, MarketInv
  <2>. QED BY <1>3, <2>1 DEF KeepsTheRest
<1>10. CASE AdvanceTime
  <2>1. Ages(r)
    BY <1>10, AdvanceEffect DEF MarketInv
  <2>. QED BY <1>3, <2>1 DEF Ages
<1>. QED BY <1>4, <1>5, <1>6, <1>7, <1>8, <1>9, <1>10, NextIsCases DEF NextCases

LEMMA NextInv == MarketInv /\ Next => MarketInv'
<1> SUFFICES ASSUME MarketInv, Next PROVE MarketInv'
  OBVIOUS
<1>1. TypeOK /\ SetupInv /\ OracleInv
  BY DEF MarketInv
<1>2. \A r \in RoundId : SoundNext(r)
  BY RoundsStep
<1>3. TypeOK'
  BY <1>1, <1>2, RoundTypes, ScalarsStep, OracleStep DEF ScalarsOK, TypeOK
<1>4. SetupInv'
  BY <1>1, SettingsStep, CounterStep DEF SetupInv
<1>5. OracleInv'
  <2>1. counter' > 0 => LastPrice(Feed)' # NoPrice
    <3>1. \/ counter' = counter
          \/ LastPrice(Feed) # NoPrice
      BY <1>1, CounterStep
    <3>2. counter > 0 => LastPrice(Feed) # NoPrice
      BY <1>1 DEF OracleInv
    <3>. QED BY <3>1, <3>2, OracleStep
  <2>. QED BY <2>1, OracleStep DEF OracleInv
<1>6. UnopenedInv'
  BY UnopenedStep
<1>7. RoundsInv'
  BY <1>2 DEF RoundsInv, SoundNext
<1>. QED BY <1>3, <1>4, <1>5, <1>6, <1>7 DEF MarketInv

LEMMA StutterInv == MarketInv /\ UNCHANGED vars => MarketInv'
<1> SUFFICES ASSUME MarketInv, UNCHANGED vars PROVE MarketInv'
  OBVIOUS
<1>1. /\ now' = now /\ price' = price /\ assetPrice' = assetPrice /\ config' = config
      /\ counter' = counter /\ fees' = fees /\ lastStrikeTs' = lastStrikeTs
      /\ rounds' = rounds /\ positions' = positions /\ vault' = vault
      /\ escrow' = escrow
  BY DEF vars, oracle
<1>2. TypeOK' /\ SetupInv' /\ UnopenedInv' /\ RoundsInv'
  BY <1>1 DEF MarketInv, TypeOK, SetupInv, UnopenedInv, RoundsInv
<1>3. OracleInv'
  BY <1>1 DEF MarketInv, OracleInv, LastPrice
<1>. QED BY <1>2, <1>3 DEF MarketInv

\* The invariant holds in every reachable state, whatever the admin does.
THEOREM Invariant == Spec => []MarketInv
<1>1. MarketInv /\ [Next]_vars => MarketInv'
  BY NextInv, StutterInv
<1>. QED BY InitInv, <1>1, PTL DEF Spec

\* TypeOK: every entry keeps its type; in particular neither the vault nor the
\* fees ever go below zero, and the settings stay within what the setters allow.
THEOREM TypeCorrect == Spec => []TypeOK
<1>1. MarketInv => TypeOK
  BY DEF MarketInv
<1>. QED BY Invariant, <1>1, PTL

-----------------------------------------------------------------------------
(* Earlier bettors earn more *)

LEMMA EarlierStep ==
  ASSUME MarketInv, Next, NEW r \in RoundId, NEW u \in User, NEW v \in User,
         NEW outcome \in Outcome,
         positions[r][u] # None, positions[r][v] = None, positions'[r][v] # None,
         positions[r][u].side = positions'[r][v].side,
         positions[r][u].amount = positions'[r][v].amount
  PROVE  Worth([rounds'[r] EXCEPT !.outcome = outcome], positions'[r][v])
           <= Worth([rounds'[r] EXCEPT !.outcome = outcome], positions[r][u])
<1>1. ~Stays(r)
  BY DEF Stays
<1>2. CASE Untouched
  BY <1>1, <1>2 DEF Untouched, Stays
<1>3. CASE CreateRound
  <2>1. Opens(counter + 1) /\ KeepsTheRest(counter + 1)
    BY <1>3, CreateEffect DEF MarketInv
  <2>2. positions'[r] = positions[r]
    BY <2>1 DEF Opens, KeepsTheRest, Stays
  <2>. QED BY <2>2
<1>4. ASSUME NEW q \in RoundId, Settle(q)
      PROVE  FALSE
  <2>1. Settles(q) /\ KeepsTheRest(q)
    BY <1>4, SettleEffect DEF MarketInv
  <2>2. positions'[r] = positions[r]
    BY <2>1 DEF Settles, KeepsTheRest, Stays
  <2>. QED BY <2>2
<1>5. ASSUME NEW w \in User, NEW q \in RoundId, Claim(w, q)
      PROVE  FALSE
  <2>1. Pays(q, w) /\ KeepsTheRest(q)
    BY <1>5, ClaimEffect DEF MarketInv
  <2>2. r = q
    BY <1>1, <2>1 DEF KeepsTheRest
  <2>3. positions'[r] = [positions[r] EXCEPT ![w].claimed = TRUE] /\ positions[r][w] # None
    BY <2>1, <2>2 DEF Pays, Claimable
  <2>4. positions'[r][v] = positions[r][v]
    BY <2>3 DEF MarketInv, TypeOK
  <2>. QED BY <2>4
<1>6. CASE AdvanceTime
  <2>1. Ages(r)
    BY <1>6, AdvanceEffect DEF MarketInv
  <2>. QED BY <2>1 DEF Ages
<1>7. ASSUME NEW w \in User, NEW q \in RoundId, NEW side \in Side,
             NEW amount \in BetAmount, Bet(w, q, side, amount)
      PROVE  Worth([rounds'[r] EXCEPT !.outcome = outcome], positions'[r][v])
               <= Worth([rounds'[r] EXCEPT !.outcome = outcome], positions[r][u])
  <2>1. Stakes(q, w, side, amount) /\ KeepsTheRest(q)
    BY <1>7, BetEffect
  <2>2. r = q
    BY <1>1, <2>1 DEF KeepsTheRest
  <2>3. PICK pos, live : StakeOf(r, w, side, amount, pos, live)
    BY <2>1, <2>2 DEF Stakes
  <2>4. positions'[r] = [positions[r] EXCEPT ![w] = pos] /\ pos \in Position
    BY <2>3 DEF StakeOf
  <2>5. v = w /\ positions'[r][v] = pos
    BY <2>4 DEF MarketInv, TypeOK
  <2>6. PICK old \in Position : old = positions[r][u]
    BY DEF MarketInv, TypeOK
  <2>7. pos.boosted <= old.boosted
    <3>1. pos.boosted = old.amount * (rounds[r].lock_ts - now)
      BY <2>3, <2>5, <2>6 DEF StakeOf, BoostedAt
    <3>2. SoundPosition(rounds[r], old, now)
      BY <2>1, <2>2, <2>6 DEF Stakes, MarketInv, RoundsInv, Sound
    <3>. QED BY <3>1, <3>2 DEF SoundPosition
  <2>8. PICK round : round = [rounds'[r] EXCEPT !.outcome = outcome]
    OBVIOUS
  <2>9. round \in Round /\ round.outcome = outcome
    <3>1. rounds'[r] \in Round
      <4>1. rounds'[r] = Staked(rounds[r], side, amount, pos.boosted, live)
        BY <2>3 DEF StakeOf
      <4>2. /\ rounds[r] \in Round /\ side \in Side /\ amount \in Nat
            /\ pos.boosted \in Nat /\ live \in Nat
        BY <2>1, <2>2, <2>3 DEF Stakes, StakeOf, Position
      <4>. QED BY <4>1, <4>2, StakedFields DEF IsStaked
    <3>. QED BY <2>8, <3>1 DEF Round
  <2>10. PICK bps \in 0..MaxFeeBps : bps = config.fee_bps
    BY <1>7 DEF Bet, MarketInv, TypeOK, Config
  <2>11. PICK losing \in Nat : losing = round.pool[Opposite(round.outcome)]
    BY <2>9, LosingNat
  <2>12. PICK d \in Nat : d = Left(losing, bps)
    BY LeftFacts
  <2>13. Worth(round, pos) = WorthAt(round, pos, d) /\ Worth(round, old) = WorthAt(round, old, d)
    BY <2>10, <2>11, <2>12, WorthIs
  <2>14. WorthAt(round, pos, d) <= WorthAt(round, old, d)
    BY <2>4, <2>5, <2>6, <2>7, <2>9, WorthGrows
  <2>. QED BY <2>5, <2>6, <2>8, <2>13, <2>14
<1>. QED BY <1>2, <1>3, <1>4, <1>5, <1>6, <1>7, NextIsCases DEF NextCases


\* EarlierEarnsMore: whoever stakes as much on the same side later in the round
\* gets no more than the earlier bettor, under any outcome and any settings.
THEOREM EarlierIsBetter == Spec => EarlierEarnsMore
<1> DEFINE Ahead == \A r \in RoundId, u, v \in User :
      LET old == positions[r][u]
          new == positions'[r][v]
      IN /\ old # None /\ positions[r][v] = None /\ new # None
         /\ old.side = new.side /\ old.amount = new.amount
         => \A outcome \in Outcome :
              LET decided == [rounds'[r] EXCEPT !.outcome = outcome]
              IN Worth(decided, new) <= Worth(decided, old)
<1>1. MarketInv /\ [Next]_vars => [Ahead]_vars
  <2>1. ASSUME MarketInv, Next PROVE Ahead
    BY <2>1, EarlierStep
  <2>. QED BY <2>1
<1>2. Spec => [][Ahead]_vars
  <2> HIDE DEF Ahead
  <2>. QED BY Invariant, <1>1, PTL DEF Spec
<1>. QED BY <1>2 DEF EarlierEarnsMore

-----------------------------------------------------------------------------
(* Betting closes before settlement *)

\* Under SteadySpec the lock offset is below the interval from the first call on,
\* and the setters keep it there.
ClosingInv ==
  /\ config # None => config.lock_offset < config.oracle_interval
  /\ \A r \in RoundId : rounds[r] # None => rounds[r].lock_ts < rounds[r].settle_ts

LEMMA SettingsApart ==
  ASSUME TypeOK, Next, SaneStart,
         config # None => config.lock_offset < config.oracle_interval
  PROVE  config' # None => config'.lock_offset < config'.oracle_interval
<1>1. config \in Config \cup {None}
  BY DEF TypeOK
<1>2. CASE config' = config
  BY <1>2
<1>3. CASE config = None
  BY <1>3 DEF SaneStart
<1>4. ASSUME NEW bps \in FeeBps, SetFeeBps(bps)
      PROVE  config'.lock_offset < config'.oracle_interval
  BY <1>1, <1>4 DEF SetFeeBps, Configure, Config
<1>5. ASSUME NEW seconds \in LockOffset, SetLockOffset(seconds)
      PROVE  config'.lock_offset < config'.oracle_interval
  BY <1>1, <1>5 DEF SetLockOffset, OffsetAllowed, Configure, Config
<1>6. ASSUME NEW seconds \in OracleInterval, SetOracleInterval(seconds)
      PROVE  config'.lock_offset < config'.oracle_interval
  BY <1>1, <1>6 DEF SetOracleInterval, Configure, Config
<1>7. ASSUME NEW fee, NEW offset, NEW interval, Initialize(fee, offset, interval)
      PROVE  config = None
  BY <1>7 DEF Initialize
<1>8. ASSUME NEW u, NEW r, NEW side, NEW amount,
             \/ Bet(u, r, side, amount) \/ Settle(r) \/ Claim(u, r)
             \/ CreateRound \/ SweepFees \/ AdvanceTime \/ OracleMoves
      PROVE  config' = config
  BY <1>8 DEF Bet, Settle, Claim, CreateRound, SweepFees, AdvanceTime, OracleMoves
<1>. QED BY <1>2, <1>3, <1>4, <1>5, <1>6, <1>7, <1>8 DEF Next

\* A round's times are set when it is opened, and never again.
LEMMA TimesStay ==
  ASSUME MarketInv, Next, NEW r \in RoundId, rounds'[r] # None
  PROVE  \/ /\ rounds[r] # None
            /\ rounds'[r].strike = rounds[r].strike
            /\ rounds'[r].strike_ts = rounds[r].strike_ts
            /\ rounds'[r].lock_ts = rounds[r].lock_ts
            /\ rounds'[r].settle_ts = rounds[r].settle_ts
         \/ CreateRound /\ Opens(r)
<1>1. CASE rounds'[r] = rounds[r]
  BY <1>1
<1>2. CASE Untouched
  BY <1>1, <1>2 DEF Untouched
<1>3. CASE CreateRound
  <2>1. Opens(counter + 1) /\ KeepsTheRest(counter + 1)
    BY <1>3, CreateEffect DEF MarketInv
  <2>. QED BY <1>1, <1>3, <2>1 DEF KeepsTheRest, Stays
<1>4. ASSUME NEW u \in User, NEW q \in RoundId, NEW side \in Side,
             NEW amount \in BetAmount, Bet(u, q, side, amount), rounds'[r] # rounds[r]
      PROVE  /\ rounds[r] # None
             /\ rounds'[r].strike = rounds[r].strike
             /\ rounds'[r].strike_ts = rounds[r].strike_ts
             /\ rounds'[r].lock_ts = rounds[r].lock_ts
             /\ rounds'[r].settle_ts = rounds[r].settle_ts
  <2>1. Stakes(q, u, side, amount) /\ r = q
    BY <1>4, BetEffect DEF KeepsTheRest, Stays
  <2>2. PICK pos, live : StakeOf(r, u, side, amount, pos, live)
    BY <2>1 DEF Stakes
  <2>3. rounds'[r] = Staked(rounds[r], side, amount, pos.boosted, live)
    BY <2>2 DEF StakeOf
  <2>4. /\ rounds[r] \in Round /\ amount \in Nat
        /\ pos.boosted \in Nat /\ live \in Nat
    BY <2>1, <2>2 DEF Stakes, StakeOf, Position
  <2>5. IsStaked(rounds'[r], rounds[r], side, amount, pos.boosted, live)
    BY <2>3, <2>4, StakedFields
  <2>. QED BY <2>4, <2>5 DEF IsStaked
<1>5. ASSUME NEW q \in RoundId, Settle(q), rounds'[r] # rounds[r]
      PROVE  /\ rounds[r] # None
             /\ rounds'[r].strike = rounds[r].strike
             /\ rounds'[r].strike_ts = rounds[r].strike_ts
             /\ rounds'[r].lock_ts = rounds[r].lock_ts
             /\ rounds'[r].settle_ts = rounds[r].settle_ts
  <2>1. Settles(q) /\ r = q
    BY <1>5, SettleEffect DEF KeepsTheRest, Stays, MarketInv
  <2>. QED BY <2>1 DEF Settles, Round
<1>6. ASSUME NEW u \in User, NEW q \in RoundId, Claim(u, q)
      PROVE  rounds'[r] = rounds[r]
  BY <1>6 DEF Claim
<1>7. CASE AdvanceTime
  <2>1. Ages(r)
    BY <1>7, AdvanceEffect DEF MarketInv
  <2>. QED BY <1>1, <2>1 DEF Ages
<1>. QED BY <1>1, <1>2, <1>3, <1>4, <1>5, <1>6, <1>7, NextIsCases DEF NextCases

LEMMA ClosingStep ==
  ASSUME MarketInv, ClosingInv, Next, SaneStart
  PROVE  ClosingInv'
<1>1. config' # None => config'.lock_offset < config'.oracle_interval
  BY SettingsApart DEF ClosingInv, MarketInv
<1>2. ASSUME NEW r \in RoundId, rounds'[r] # None
      PROVE  rounds'[r].lock_ts < rounds'[r].settle_ts
  <2>1. CASE /\ rounds[r] # None
             /\ rounds'[r].lock_ts = rounds[r].lock_ts
             /\ rounds'[r].settle_ts = rounds[r].settle_ts
    BY <2>1 DEF ClosingInv
  <2>2. CASE Opens(r)
    <3>1. /\ config.lock_offset < config.oracle_interval
          /\ config.lock_offset \in Nat /\ config.oracle_interval \in Nat
          /\ LastPrice(Feed).timestamp \in Nat
      BY <2>2 DEF Opens, ClosingInv, Config, PriceData
    <3>. QED BY <2>2, <3>1 DEF Opens
  <2>. QED BY <1>2, <2>1, <2>2, TimesStay
<1>. QED BY <1>1, <1>2 DEF ClosingInv

\* What a round holds grows by stakes only, and those come before its lock.
LEMMA OnlyStakesComeIn ==
  ASSUME MarketInv, Next, NEW r \in RoundId, escrow'[r] > escrow[r]
  PROVE  rounds[r] \in Round /\ now < rounds[r].lock_ts
<1>1. escrow[r] \in Int
  BY DEF MarketInv, TypeOK
<1>2. escrow'[r] # escrow[r]
  BY <1>1
<1>3. ~Untouched
  BY <1>2 DEF Untouched
<1>4. ~CreateRound /\ ~AdvanceTime
  BY <1>2 DEF CreateRound, AdvanceTime
<1>5. ASSUME NEW u \in User, NEW q \in RoundId, NEW side \in Side,
             NEW amount \in BetAmount, Bet(u, q, side, amount)
      PROVE  rounds[r] \in Round /\ now < rounds[r].lock_ts
  <2>1. Stakes(q, u, side, amount) /\ r = q
    BY <1>2, <1>5, BetEffect DEF KeepsTheRest, Stays
  <2>. QED BY <2>1 DEF Stakes
<1>6. ASSUME NEW q \in RoundId, Settle(q) PROVE FALSE
  <2>1. Settles(q) /\ r = q
    BY <1>2, <1>6, SettleEffect DEF KeepsTheRest, Stays, MarketInv
  <2>2. FeeTaken(r) \in Nat /\ escrow'[r] = escrow[r] - FeeTaken(r)
    BY <2>1, FeeTakenNat DEF Settles
  <2>. QED BY <1>1, <2>2
<1>7. ASSUME NEW u \in User, NEW q \in RoundId, Claim(u, q) PROVE FALSE
  <2>1. Pays(q, u) /\ r = q
    BY <1>2, <1>7, ClaimEffect DEF KeepsTheRest, Stays, MarketInv
  <2>2. rounds[r] \in Round /\ positions[r][u] \in Position /\ config \in Config
    BY <2>1 DEF Pays, Claimable, Settled, MarketInv, TypeOK
  <2>3. PICK payout \in Nat : payout = Worth(rounds[r], positions[r][u])
    BY <2>2, WorthNat
  <2>. QED BY <1>1, <2>1, <2>3 DEF Pays
<1>. QED BY <1>3, <1>4, <1>5, <1>6, <1>7, NextIsCases DEF NextCases

LEMMA SteadyIsSpec == SteadySpec => Spec
BY PTL DEF SteadySpec, Spec

\* BetsCloseBeforeSettlement: with initialize called as the setters ask for, no
\* round takes a stake at or after its settlement time, in whatever order the admin
\* moves the two settings.
THEOREM BettingClosesInTime == SteadySpec => BetsCloseBeforeSettlement
<1> DEFINE InTime == \A r \in RoundId :
                       escrow'[r] > escrow[r] => now < rounds[r].settle_ts
<1>1. Init => ClosingInv
  BY DEF Init, ClosingInv
<1>2. MarketInv /\ ClosingInv /\ [Next /\ NoFeeCutWhileOwed /\ SaneStart]_vars
        => ClosingInv'
  <2>1. CASE Next /\ SaneStart
    BY <2>1, ClosingStep
  <2>2. CASE UNCHANGED vars
    BY <2>2 DEF vars, ClosingInv
  <2>. QED BY <2>1, <2>2
<1>3. MarketInv /\ ClosingInv /\ [Next /\ NoFeeCutWhileOwed /\ SaneStart]_vars
        => [InTime]_vars
  <2>1. ASSUME MarketInv, ClosingInv, Next, NEW r \in RoundId, escrow'[r] > escrow[r]
        PROVE  now < rounds[r].settle_ts
    <3>1. rounds[r] \in Round /\ now < rounds[r].lock_ts
      BY <2>1, OnlyStakesComeIn
    <3>2. rounds[r].lock_ts < rounds[r].settle_ts
      BY <2>1, <3>1 DEF ClosingInv
    <3>3. now \in Nat /\ rounds[r].lock_ts \in Nat /\ rounds[r].settle_ts \in Nat
      BY <2>1, <3>1 DEF MarketInv, TypeOK, Round
    <3>. QED BY <3>1, <3>2, <3>3
  <2>. QED BY <2>1
<1>4. SteadySpec => [][InTime]_vars
  <2> HIDE DEF InTime
  <2>. QED BY Invariant, SteadyIsSpec, <1>1, <1>2, <1>3, PTL DEF SteadySpec
<1>. QED BY <1>4 DEF BetsCloseBeforeSettlement


-----------------------------------------------------------------------------
(* Shares of a round: what all of its positions together are granted *)

\* Parts by weight of a whole add up to no more than the whole.
LEMMA PartsWithin ==
  ASSUME NEW n \in Nat, NEW w, NEW p, NEW whole \in Nat, NEW all \in Nat,
         \A k \in 1..n : w[k] \in Nat /\ p[k] = PartOf(whole, w[k], all),
         Sum(w, n) <= all
  PROVE  Sum(p, n) \in 0..whole
<1>1. ASSUME NEW k \in 1..n PROVE p[k] \in Nat /\ p[k] * all <= w[k] * whole
  <2>1. PICK x \in Nat : x = w[k]
    OBVIOUS
  <2>2. p[k] = PartOf(whole, x, all)
    BY <2>1
  <2>3. PartOf(whole, x, all) \in Nat /\ PartOf(whole, x, all) * all <= x * whole
    BY PartFacts
  <2>. QED BY <2>1, <2>2, <2>3
<1>2. Sum(p, n) \in Nat /\ Sum(w, n) \in Nat
  BY <1>1, SumNat
<1>3. CASE all = 0
  <2>1. \A k \in 1..n : p[k] = 0
    BY <1>3 DEF PartOf
  <2>. QED BY <2>1, SumZero
<1>4. CASE all # 0
  <2>1. Sum(p, n) * all <= Sum(w, n) * whole
    BY <1>1, SumShares
  <2>2. Sum(w, n) * whole <= all * whole
    BY <1>2, ProductFacts
  <2>3. PICK x, y \in Nat : x = Sum(p, n) /\ y = Sum(w, n)
    BY <1>2
  <2>4. x * all <= y * whole /\ y * whole <= all * whole
    BY <2>1, <2>2, <2>3
  <2>5. /\ x * all \in Nat /\ y * whole \in Nat /\ all * whole \in Nat
        /\ all * whole = whole * all
    OBVIOUS
  <2>6. x * all <= whole * all
    BY <2>4, <2>5
  <2>7. x <= whole
    BY <1>4, <2>6, ProductFacts
  <2>. QED BY <2>3, <2>7
<1>. QED BY <1>3, <1>4

\* And to all of it but less than one for each part, when the weights do.
LEMMA PartsNearly ==
  ASSUME NEW n \in Nat, NEW w, NEW p, NEW c, NEW whole \in Nat, NEW all \in Nat \ {0},
         \A k \in 1..n : /\ w[k] \in Nat /\ p[k] = PartOf(whole, w[k], all)
                         /\ c[k] \in {0, 1} /\ (w[k] > 0 => c[k] = 1),
         Sum(w, n) = all
  PROVE  whole <= Sum(p, n) + Sum(c, n)
<1> DEFINE a == [k \in 1..n |-> p[k] + c[k]]
<1>1. ASSUME NEW k \in 1..n
      PROVE  p[k] \in Nat /\ c[k] \in Nat /\ a[k] = p[k] + c[k]
  <2>1. PICK x \in Nat : x = w[k] /\ p[k] = PartOf(whole, x, all)
    OBVIOUS
  <2>2. PartOf(whole, x, all) \in Nat
    BY PartFacts
  <2>. QED BY <2>1, <2>2
<1> HIDE DEF a
<1>2. ASSUME NEW k \in 1..n PROVE a[k] \in Nat /\ w[k] * whole <= a[k] * all
  <2>1. PICK x, y \in Nat : x = w[k] /\ y = p[k]
    BY <1>1
  <2>2. CASE x = 0
    <3>1. a[k] \in Nat /\ 0 * whole = 0
      BY <1>1
    <3>2. a[k] * all \in Nat
      BY <3>1
    <3>. QED BY <2>1, <2>2, <3>1, <3>2
  <2>3. CASE x # 0
    <3>1. a[k] = y + 1
      BY <1>1, <2>1, <2>3
    <3>2. PICK z \in Nat : z = whole * x
      OBVIOUS
    <3>3. y = z \div all
      BY <2>1, <3>2 DEF PartOf
    <3>4. z < (z \div all) * all + all
      OBVIOUS
    <3>5. (y + 1) * all = y * all + all /\ y * all \in Nat /\ x * whole = whole * x
      OBVIOUS
    <3>. QED BY <2>1, <3>1, <3>2, <3>3, <3>4, <3>5
  <2>. QED BY <2>2, <2>3
<1>3. Sum(w, n) * whole <= Sum(a, n) * all
  BY <1>2, SumShares
<1>4. Sum(a, n) \in Nat
  BY <1>2, SumNat
<1>5. Sum(a, n) = Sum(p, n) + Sum(c, n)
  BY <1>1, SumPlus
<1>6. whole <= Sum(a, n)
  <2>1. PICK x \in Nat : x = Sum(a, n)
    BY <1>4
  <2>2. whole * all <= x * all
    <3>1. all * whole <= x * all
      BY <1>3, <2>1
    <3>2. all * whole = whole * all
      OBVIOUS
    <3>. QED BY <3>1, <3>2
  <2>3. whole <= x
    BY <2>2, ProductFacts
  <2>. QED BY <2>1, <2>3
<1>. QED BY <1>5, <1>6

Grant(round, pos, d) == IF pos = None THEN 0 ELSE WorthAt(round, pos, d)

Granted(round, row, d) == Sum([u \in User |-> Grant(round, row[u], d)], NumUsers)

Winners(round, row) == {u \in User : row[u] # None /\ row[u].side = round.outcome}
Bettors(row) == {u \in User : row[u] # None}

\* What winners and losers are granted of a decided round is what was staked on the
\* winning side and what is left of the other one, up to rounding.
LEMMA GrantsAddUp ==
  ASSUME NEW round \in Round, NEW row \in Row, SoundPools(round, row),
         round.outcome # "Void", NEW d \in Nat
  PROVE  /\ Granted(round, row, d) <= round.pool[round.outcome] + d
         /\ round.pool[round.outcome] > 0 /\ (\A side \in Side :
              StakesOn(row, side) = round.pool[side])
            => round.pool[round.outcome] + d <=
                 Granted(round, row, d) + 1
                   + Cardinality(Winners(round, row)) + Cardinality(Bettors(row))
<1>1. PICK side \in Side : side = round.outcome
  BY DEF Round, Outcome, Side
<1>2. PICK ofSide, all \in Nat :
        ofSide = round.boosted[side]
        /\ all = round.boosted["Above"] + round.boosted["Below"]
  BY DEF Round, Side
<1>3. PICK forWinners, forAll \in Nat :
        /\ forWinners = Cut(d, WinnerPct) /\ forAll = Cut(d, RefundPct)
        /\ forWinners + forAll <= d /\ d <= forWinners + forAll + 1
  <2>1. PICK x, y \in Nat : x = Cut(d, WinnerPct) /\ y = Cut(d, RefundPct)
    BY CutFacts
  <2>2. x + y \in (d - 1)..d
    BY <2>1, CutFacts
  <2>. QED BY <2>1, <2>2
<1> DEFINE stake == [u \in User |-> StakeOn(row[u], side)]
           onSide == [u \in User |-> WeightOn(row[u], side)]
           above == [u \in User |-> WeightOn(row[u], "Above")]
           below == [u \in User |-> WeightOn(row[u], "Below")]
           weight == [u \in User |-> above[u] + below[u]]
           bonus == [u \in User |-> PartOf(forWinners, onSide[u], ofSide)]
           refund == [u \in User |-> PartOf(forAll, weight[u], all)]
           shares == [u \in User |-> bonus[u] + refund[u]]
           grants == [u \in User |-> Grant(round, row[u], d)]
           winner == [u \in User |-> IF u \in Winners(round, row) THEN 1 ELSE 0]
           bettor == [u \in User |-> IF u \in Bettors(row) THEN 1 ELSE 0]
<1>4. \A u \in User :
        /\ stake[u] \in Nat /\ onSide[u] \in Nat
        /\ above[u] \in Nat /\ below[u] \in Nat
  BY TermsNat DEF Side
<1>5. \A u \in User : grants[u] = stake[u] + shares[u]
  <2> SUFFICES ASSUME NEW u \in User
               PROVE  Grant(round, row[u], d) = StakeOn(row[u], side) + shares[u]
    OBVIOUS
  <2>0. \A m \in Nat : PartOf(m, 0, ofSide) = 0 /\ PartOf(m, 0, all) = 0
    <3>1. \A m \in Nat, b \in Nat \ {0} : (m * 0) \div b = 0
      OBVIOUS
    <3>. QED BY <3>1 DEF PartOf
  <2>1. CASE row[u] = None
    <3>1. onSide[u] = 0 /\ above[u] = 0 /\ below[u] = 0
      BY <2>1 DEF WeightOn
    <3>2. shares[u] = 0
      BY <2>0, <3>1
    <3>. QED BY <2>1, <3>2 DEF StakeOn, Grant
  <2>2. CASE row[u] # None
    <3>1. PICK pos \in Position : pos = row[u]
      BY <2>2 DEF Row
    <3>2. /\ weight[u] = pos.boosted
          /\ onSide[u] = IF pos.side = side THEN pos.boosted ELSE 0
          /\ pos.boosted \in Nat /\ pos.amount \in Nat
      BY <2>2, <3>1 DEF WeightOn, Position, Side
    <3>3. refund[u] = OfAll(round, pos, d)
      BY <1>2, <1>3, <3>2 DEF OfAll
    <3>4. CASE pos.side = side
      <4>1. bonus[u] = OfWinners(round, pos, d)
        BY <1>2, <1>3, <3>2, <3>4 DEF OfWinners
      <4>2. /\ OfWinners(round, pos, d) \in Nat /\ OfAll(round, pos, d) \in Nat
        BY WorthGrows
      <4>3. Grant(round, row[u], d)
              = pos.amount + OfWinners(round, pos, d) + OfAll(round, pos, d)
        BY <1>1, <2>2, <3>1, <3>4 DEF Grant, WorthAt
      <4>4. StakeOn(row[u], side) = pos.amount
        BY <2>2, <3>1, <3>4 DEF StakeOn
      <4>. QED BY <3>2, <3>3, <4>1, <4>2, <4>3, <4>4
    <3>5. CASE pos.side # side
      <4>1. bonus[u] = 0
        BY <2>0, <3>2, <3>5
      <4>2. OfAll(round, pos, d) \in Nat
        BY WorthGrows
      <4>3. Grant(round, row[u], d) = OfAll(round, pos, d)
        BY <1>1, <2>2, <3>1, <3>5 DEF Grant, WorthAt
      <4>4. StakeOn(row[u], side) = 0
        BY <2>2, <3>1, <3>5 DEF StakeOn
      <4>. QED BY <3>3, <4>1, <4>2, <4>3, <4>4
    <3>. QED BY <3>4, <3>5
  <2>. QED BY <2>1, <2>2
<1>6. \A k \in 1..NumUsers :
        /\ stake[k] \in Nat /\ onSide[k] \in Nat
        /\ above[k] \in Nat /\ below[k] \in Nat
        /\ weight[k] = above[k] + below[k] /\ weight[k] \in Nat
        /\ bonus[k] = PartOf(forWinners, onSide[k], ofSide) /\ bonus[k] \in Nat
        /\ refund[k] = PartOf(forAll, weight[k], all) /\ refund[k] \in Nat
        /\ shares[k] = bonus[k] + refund[k]
        /\ grants[k] = stake[k] + shares[k]
  <2> SUFFICES ASSUME NEW k \in User
               PROVE  /\ stake[k] \in Nat /\ onSide[k] \in Nat
                      /\ above[k] \in Nat /\ below[k] \in Nat
                      /\ weight[k] = above[k] + below[k] /\ weight[k] \in Nat
                      /\ bonus[k] = PartOf(forWinners, onSide[k], ofSide)
                      /\ bonus[k] \in Nat
                      /\ refund[k] = PartOf(forAll, weight[k], all)
                      /\ refund[k] \in Nat
                      /\ shares[k] = bonus[k] + refund[k]
                      /\ grants[k] = stake[k] + shares[k]
    BY DEF User
  <2>1. PICK x, y \in Nat : x = onSide[k] /\ y = weight[k]
    BY <1>4
  <2>2. bonus[k] = PartOf(forWinners, x, ofSide) /\ refund[k] = PartOf(forAll, y, all)
    BY <2>1
  <2>3. PartOf(forWinners, x, ofSide) \in Nat /\ PartOf(forAll, y, all) \in Nat
    BY PartFacts
  <2>4. weight[k] = above[k] + below[k] /\ shares[k] = bonus[k] + refund[k]
    OBVIOUS
  <2>. HIDE DEF stake, onSide, above, below, weight, bonus, refund, shares, grants
  <2>. QED BY <1>4, <1>5, <2>1, <2>2, <2>3, <2>4
<1>7. \A k \in 1..NumUsers :
        /\ winner[k] = IF k \in Winners(round, row) THEN 1 ELSE 0
        /\ bettor[k] = IF k \in Bettors(row) THEN 1 ELSE 0
        /\ winner[k] \in {0, 1} /\ bettor[k] \in {0, 1}
        /\ onSide[k] > 0 => winner[k] = 1
        /\ weight[k] > 0 => bettor[k] = 1
  BY <1>1 DEF User, Winners, Bettors, WeightOn
<1>8. /\ StakesOn(row, side) = Sum(stake, NumUsers)
      /\ WeightsOn(row, side) = Sum(onSide, NumUsers)
      /\ WeightsOn(row, "Above") = Sum(above, NumUsers)
      /\ WeightsOn(row, "Below") = Sum(below, NumUsers)
      /\ Granted(round, row, d) = Sum(grants, NumUsers)
  BY DEF StakesOn, WeightsOn, Granted
<1>9. Winners(round, row) \in SUBSET (1..NumUsers) /\ Bettors(row) \in SUBSET (1..NumUsers)
  BY DEF Winners, Bettors, User
<1> HIDE DEF stake, onSide, above, below, weight, bonus, refund, shares, grants, winner,
             bettor
<1>10. Sum(weight, NumUsers) = Sum(above, NumUsers) + Sum(below, NumUsers)
  BY <1>6, SumPlus
<1>11. Sum(shares, NumUsers) = Sum(bonus, NumUsers) + Sum(refund, NumUsers)
  BY <1>6, SumPlus
<1>12. Sum(grants, NumUsers) = Sum(stake, NumUsers) + Sum(shares, NumUsers)
  BY <1>6, SumPlus
<1>13. /\ Sum(stake, NumUsers) \in Nat /\ Sum(onSide, NumUsers) \in Nat
       /\ Sum(above, NumUsers) \in Nat /\ Sum(below, NumUsers) \in Nat
  BY <1>6, SumNat
<1>14. PICK pool, onAbove, onBelow \in Nat :
         pool = round.pool[side]
         /\ onAbove = round.boosted["Above"] /\ onBelow = round.boosted["Below"]
  BY DEF Round, Side
<1>15. /\ Sum(stake, NumUsers) <= pool /\ Sum(onSide, NumUsers) <= ofSide
       /\ Sum(above, NumUsers) <= onAbove /\ Sum(below, NumUsers) <= onBelow
       /\ pool <= ofSide
  BY <1>2, <1>8, <1>14 DEF SoundPools, Side
<1>16. Sum(weight, NumUsers) <= all
  BY <1>2, <1>10, <1>13, <1>14, <1>15
<1>17. Sum(bonus, NumUsers) \in 0..forWinners
  BY <1>6, <1>15, PartsWithin
<1>18. Sum(refund, NumUsers) \in 0..forAll
  BY <1>6, <1>16, PartsWithin
<1>19. Granted(round, row, d) <= round.pool[round.outcome] + d
  BY <1>1, <1>3, <1>8, <1>11, <1>12, <1>13, <1>14, <1>15, <1>17, <1>18
<1>20. ASSUME pool > 0, \A s \in Side : StakesOn(row, s) = round.pool[s]
       PROVE  pool + d <= Granted(round, row, d) + 1
                + Cardinality(Winners(round, row)) + Cardinality(Bettors(row))
  <2>1. /\ Sum(stake, NumUsers) = pool /\ Sum(onSide, NumUsers) = ofSide
        /\ Sum(above, NumUsers) = onAbove /\ Sum(below, NumUsers) = onBelow
    BY <1>2, <1>8, <1>14, <1>20 DEF SoundPools, Side
  <2>2. Sum(weight, NumUsers) = all
    BY <1>2, <1>10, <1>14, <2>1
  <2>3. ofSide # 0 /\ all # 0
    <3>1. ofSide # 0
      BY <1>15, <1>20
    <3>2. ofSide <= all
      BY <1>2, <1>14 DEF Side
    <3>. QED BY <3>1, <3>2
  <2>4. forWinners <= Sum(bonus, NumUsers) + Sum(winner, NumUsers)
    BY <1>6, <1>7, <2>1, <2>3, PartsNearly
  <2>5. forAll <= Sum(refund, NumUsers) + Sum(bettor, NumUsers)
    <3>1. \A k \in 1..NumUsers :
            /\ weight[k] \in Nat /\ refund[k] = PartOf(forAll, weight[k], all)
            /\ bettor[k] \in {0, 1} /\ (weight[k] > 0 => bettor[k] = 1)
      BY <1>6, <1>7
    <3>2. all \in Nat \ {0}
      BY <2>3
    <3>. HIDE DEF weight
    <3>. QED BY <2>2, <3>1, <3>2, PartsNearly
  <2>6. /\ Sum(winner, NumUsers) = Cardinality(Winners(round, row))
        /\ Sum(bettor, NumUsers) = Cardinality(Bettors(row))
    BY <1>7, <1>9, SumCount
  <2>7. /\ Sum(winner, NumUsers) \in Nat /\ Sum(bettor, NumUsers) \in Nat
    <3>1. \A k \in 1..NumUsers : winner[k] \in Nat /\ bettor[k] \in Nat
      BY <1>7
    <3>. QED BY <3>1, SumNat
  <2>. QED BY <1>3, <1>8, <1>11, <1>12, <1>17, <1>18, <2>1, <2>4, <2>5, <2>6, <2>7
<1>. QED BY <1>1, <1>14, <1>19, <1>20


-----------------------------------------------------------------------------
(* Each round is an escrow: which step of Escrow each call is *)

LEMMA EscrowSets ==
  /\ RoundEscrow!Rounds = RoundId /\ RoundEscrow!Users = User
  /\ \A f, n : RoundEscrow!Sum(f, n) = Sum(f, n)
BY DEF RoundEscrow!Rounds, RoundId, RoundEscrow!Users, User,
       RoundEscrow!Sum, Sum, RoundEscrow!Prefix, Prefix

\* What is stored belongs to a round that was opened under some settings.
LEMMA StoredFacts ==
  ASSUME MarketInv, NEW r \in RoundId, rounds[r] # None
  PROVE  /\ ~(r > counter) /\ config \in Config /\ rounds[r] \in Round
         /\ Phase(r) = IF rounds[r].status = "Settled" THEN "decided" ELSE "open"
<1>1. ~(r > counter)
  BY DEF MarketInv, UnopenedInv
<1>2. counter # 0
  BY <1>1 DEF RoundId, MarketInv, TypeOK
<1>. QED BY <1>1, <1>2 DEF Phase, MarketInv, SetupInv, TypeOK

LEMMA OwedNat ==
  ASSUME MarketInv, NEW r \in RoundId, NEW u \in User
  PROVE  Owed(r, u) \in Nat
<1>1. CASE rounds[r] = None \/ positions[r][u] = None
  BY <1>1 DEF Owed
<1>2. CASE rounds[r] # None /\ positions[r][u] # None
  <2>1. rounds[r] \in Round /\ config \in Config /\ positions[r][u] \in Position
    BY <1>2, StoredFacts DEF MarketInv, TypeOK
  <2>2. Worth(rounds[r], positions[r][u]) \in Nat /\ positions[r][u].amount \in Nat
    BY <2>1, WorthNat DEF Position
  <2>. QED BY <2>2 DEF Owed
<1>. QED BY <1>1, <1>2

OwedNumbers == MarketInv => \A r \in RoundId, u \in User : Owed(r, u) \in Nat

LEMMA OwedNumbersNow == OwedNumbers
BY OwedNat DEF OwedNumbers

LEMMA OwedNumbersNext == OwedNumbers'
BY OwedNumbersNow, PTL

LEMMA OwedFrame ==
  ASSUME NEW r, NEW u, rounds'[r] = rounds[r], positions'[r][u] = positions[r][u],
         config' = config
  PROVE  Owed(r, u)' = Owed(r, u)
BY DEF Owed, Settled, Worth, WinnerBonus, Refund, Share, Distributed

LEMMA PhaseFrame ==
  ASSUME NEW r, rounds'[r] = rounds[r], counter' = counter
  PROVE  Phase(r)' = Phase(r)
BY DEF Phase

\* A step that no escrow sees.
EscrowStutter ==
  /\ escrow' = escrow
  /\ \A r \in RoundId : Phase(r)' = Phase(r)
  /\ \A r \in RoundId, u \in User : Owed(r, u)' = Owed(r, u)

LEMMA StutterIsEscrowStutter ==
  ASSUME EscrowStutter PROVE UNCHANGED RoundEscrow!escrowVars
BY DEF EscrowStutter, RoundEscrow!escrowVars

LEMMA InitEscrow == Init => RoundEscrow!EscrowInit
<1> SUFFICES ASSUME Init PROVE RoundEscrow!EscrowInit
  OBVIOUS
<1>1. \A r \in RoundId : Phase(r) = "none"
  BY DEF Init, Phase, RoundId
<1>2. \A r \in RoundId, u \in User : Owed(r, u) = 0
  BY DEF Init, Owed
<1>. QED BY <1>1, <1>2, EscrowSets DEF Init, RoundEscrow!EscrowInit

LEMMA CreateIsOpen ==
  ASSUME MarketInv, CreateRound
  PROVE  RoundEscrow!EscrowNext
<1>1. PICK id \in RoundId : id = counter + 1 /\ Opens(id) /\ KeepsTheRest(id)
  BY CreateEffect DEF MarketInv
<1>2. /\ counter \in Nat /\ counter' = id
      /\ positions' = positions /\ escrow' = escrow /\ config' = config
  BY <1>1 DEF CreateRound, MarketInv, TypeOK
<1>3. /\ \A r \in RoundId : r # id => rounds'[r] = rounds[r]
      /\ rounds'[id] # None /\ rounds'[id].status = "Open"
  BY <1>1 DEF Opens, KeepsTheRest, Stays
<1>4. \A r \in RoundId, u \in User : Owed(r, u)' = Owed(r, u)
  <2>1. TAKE r \in RoundId, u \in User
  <2>2. CASE r = id
    <3>1. positions[r][u] = None
      BY <1>1, <1>2, <2>2 DEF MarketInv, UnopenedInv
    <3>. QED BY <1>2, <3>1 DEF Owed
  <2>3. CASE r # id
    BY <1>2, <1>3, <2>3, OwedFrame
  <2>. QED BY <2>2, <2>3
<1>5. Phase(id) = "none"
  BY <1>1, <1>2 DEF Phase
<1>6. Phase(id)' = "open"
  BY <1>2, <1>3 DEF Phase, RoundId
<1>7. \A r \in RoundId : r # id => Phase(r)' = Phase(r)
  BY <1>1, <1>2, <1>3 DEF Phase, RoundId
<1>8. [r \in RoundId |-> Phase(r)']
        = [[r \in RoundId |-> Phase(r)] EXCEPT ![id] = "open"]
  BY <1>6, <1>7
<1>9. RoundEscrow!Open(id)
  BY <1>2, <1>4, <1>5, <1>8 DEF RoundEscrow!Open
<1>. QED BY <1>9, EscrowSets DEF RoundEscrow!EscrowNext

LEMMA BetIsStake ==
  ASSUME MarketInv, NEW u \in User, NEW r \in RoundId, NEW side \in Side,
         NEW amount \in BetAmount, Bet(u, r, side, amount)
  PROVE  RoundEscrow!EscrowNext
<1>1. Stakes(r, u, side, amount) /\ KeepsTheRest(r)
  BY BetEffect
<1>2. PICK pos, live : StakeOf(r, u, side, amount, pos, live)
  BY <1>1 DEF Stakes
<1>3. /\ amount \in Nat /\ counter' = counter /\ config' = config
      /\ escrow' = [escrow EXCEPT ![r] = @ + amount]
  BY DEF Bet
<1>4. /\ \A s \in RoundId : s # r => rounds'[s] = rounds[s] /\ positions'[s] = positions[s]
      /\ positions[r][u] = None
      /\ rounds[r] # None /\ rounds[r].status = "Open"
  BY <1>1 DEF KeepsTheRest, Stays, Stakes
<1>5. /\ positions'[r][u] = pos /\ pos # None /\ pos.amount = amount /\ ~pos.claimed
      /\ \A v \in User : v # u => positions'[r][v] = positions[r][v]
  BY <1>2 DEF StakeOf, MarketInv, TypeOK
<1>6. rounds'[r] # None /\ rounds'[r].status = "Open"
  <2>1. rounds'[r] = Staked(rounds[r], side, amount, pos.boosted, live)
    BY <1>2 DEF StakeOf
  <2>2. /\ rounds[r] \in Round /\ pos.boosted \in Nat /\ live \in Nat
    BY <1>1, <1>2 DEF Stakes, StakeOf, Position
  <2>3. IsStaked(rounds'[r], rounds[r], side, amount, pos.boosted, live)
    BY <1>3, <2>1, <2>2, StakedFields
  <2>. QED BY <1>4, <2>3 DEF IsStaked
<1>7. Owed(r, u) = 0 /\ Owed(r, u)' = amount
  BY <1>4, <1>5, <1>6 DEF Owed, Settled
<1>8. \A s \in RoundId, v \in User : s # r \/ v # u => Owed(s, v)' = Owed(s, v)
  <2>1. TAKE s \in RoundId, v \in User
  <2>2. HAVE s # r \/ v # u
  <2>3. CASE s # r
    BY <1>3, <1>4, <2>3, OwedFrame
  <2>4. CASE s = r /\ v # u
    BY <1>4, <1>5, <1>6, <2>4 DEF Owed, Settled
  <2>. QED BY <2>2, <2>3, <2>4
<1>9. Phase(r) = "open" /\ \A s \in RoundId : Phase(s)' = Phase(s)
  <2>1. Phase(r) = "open" /\ ~(r > counter)
    BY <1>4, StoredFacts
  <2>2. Phase(r)' = "open"
    BY <1>3, <1>6, <2>1 DEF Phase
  <2>. QED BY <1>3, <1>4, <2>1, <2>2, PhaseFrame
<1>10. [s \in RoundId |-> [v \in User |-> Owed(s, v)']]
         = [[s \in RoundId |-> [v \in User |-> Owed(s, v)]]
              EXCEPT ![r][u] = Owed(r, u)']
  BY <1>8
<1>11. escrow' = [escrow EXCEPT ![r] = @ + Owed(r, u)']
  BY <1>3, <1>7
<1>12. Owed(r, u)' >= 0
  BY <1>3, <1>7
<1>13. RoundEscrow!Stake(r, u)
  BY <1>7, <1>9, <1>10, <1>11, <1>12 DEF RoundEscrow!Stake
<1>. QED BY <1>13, EscrowSets DEF RoundEscrow!EscrowNext

LEMMA ClaimIsDraw ==
  ASSUME MarketInv, NEW u \in User, NEW r \in RoundId, Claim(u, r)
  PROVE  RoundEscrow!EscrowNext
<1>1. Pays(r, u) /\ KeepsTheRest(r)
  BY ClaimEffect DEF MarketInv
<1>2. /\ rounds' = rounds /\ config' = config /\ counter' = counter
  BY DEF Claim
<1>3. \A s \in RoundId : Phase(s)' = Phase(s)
  BY <1>2, PhaseFrame
<1>4. /\ positions'[r][u] # None /\ positions'[r][u].claimed
      /\ \A v \in User : v # u => positions'[r][v] = positions[r][v]
  <2>1. positions[r][u] \in Position
    BY <1>1 DEF Pays, Claimable, MarketInv, TypeOK
  <2>2. PICK pos : pos = [positions[r][u] EXCEPT !.claimed = TRUE]
    OBVIOUS
  <2>3. pos \in Position /\ pos.claimed
    BY <2>1, <2>2 DEF Position
  <2>4. positions'[r] = [positions[r] EXCEPT ![u] = pos]
    BY <1>1, <2>2 DEF Pays, MarketInv, TypeOK
  <2>. QED BY <2>3, <2>4 DEF MarketInv, TypeOK
<1>5. \A s \in RoundId, v \in User : s # r \/ v # u => Owed(s, v)' = Owed(s, v)
  <2>1. TAKE s \in RoundId, v \in User
  <2>2. HAVE s # r \/ v # u
  <2>3. positions'[s][v] = positions[s][v]
    BY <1>1, <1>4, <2>2 DEF KeepsTheRest, Stays
  <2>. QED BY <1>2, <2>3, OwedFrame
<1>6. /\ Owed(r, u) = Worth(rounds[r], positions[r][u]) /\ Owed(r, u)' = 0
      /\ Phase(r) = "decided"
  <2>1. Claimable(r, u)
    BY <1>1 DEF Pays
  <2>2. Owed(r, u)' = 0
    BY <1>4 DEF Owed
  <2>3. Owed(r, u) = Worth(rounds[r], positions[r][u])
    BY <2>1 DEF Claimable, Owed, Settled
  <2>4. Phase(r) = "decided"
    BY <2>1, StoredFacts DEF Claimable, Settled
  <2>. QED BY <2>2, <2>3, <2>4
<1>7. \A s \in RoundId :
        [v \in User |-> Owed(s, v)']
          = [[v \in User |-> Owed(s, v)] EXCEPT ![u] = Owed(s, u)']
  BY <1>5
<1>8. \A s \in RoundId : \/ Owed(s, u)' = Owed(s, u)
                         \/ Owed(s, u)' = 0 /\ Phase(s) = "decided"
  BY <1>5, <1>6
<1>9. escrow' = [s \in RoundId |-> escrow[s] - (Owed(s, u) - Owed(s, u)')]
  <2>1. escrow \in [RoundId -> Int] /\ \A s \in RoundId : Owed(s, u) \in Int
    BY OwedNat DEF MarketInv, TypeOK
  <2>2. escrow' = [escrow EXCEPT ![r] = @ - Owed(r, u)]
    BY <1>6 DEF Claim
  <2>3. ASSUME NEW s \in RoundId
        PROVE  escrow'[s] = escrow[s] - (Owed(s, u) - Owed(s, u)')
    <3>1. CASE s = r
      BY <1>6, <2>1, <2>2, <3>1
    <3>2. CASE s # r
      BY <1>5, <2>1, <2>2, <3>2
    <3>. QED BY <3>1, <3>2
  <2>. QED BY <2>1, <2>2, <2>3
<1>10. RoundEscrow!Draw(u)
  BY <1>3, <1>7, <1>8, <1>9, EscrowSets DEF RoundEscrow!Draw
<1>. QED BY <1>10, EscrowSets DEF RoundEscrow!EscrowNext


LEMMA SettledRound ==
  ASSUME MarketInv, NEW r \in RoundId, Settles(r)
  PROVE  /\ rounds'[r] \in Round /\ rounds'[r].status = "Settled"
         /\ rounds'[r].pool = rounds[r].pool
         /\ rounds'[r].outcome = Verdict(rounds[r], LastPrice(Feed))
<1>1. PICK round \in Round : round = rounds[r]
  BY DEF Settles
<1>2. PICK outcome \in Outcome : outcome = Verdict(round, LastPrice(Feed))
  BY DEF Verdict, Outcome
<1>3. Sound(round, positions[r], escrow[r], now)
  BY <1>1 DEF MarketInv, RoundsInv
<1>4. PICK live \in Nat : live = Extended(round.live_until)
  BY <1>3, ExtendedLives DEF Sound, MarketInv
<1>5. rounds'[r] = [round EXCEPT !.outcome = outcome, !.status = "Settled",
                                 !.live_until = live]
  BY <1>1, <1>2, <1>4 DEF Settles
<1>. QED BY <1>1, <1>2, <1>5 DEF Round

\* What a round with a winner grants at its settlement, and what it then holds.
Granting(r, d) ==
  /\ rounds'[r] \in Round /\ rounds'[r].status = "Settled"
  /\ rounds'[r].outcome # "Void"
  /\ rounds'[r].pool = rounds[r].pool
  /\ rounds'[r].pool[rounds'[r].outcome] > 0
  /\ SoundPools(rounds'[r], positions[r])
  /\ d \in Nat
  /\ \A u \in User : Owed(r, u)' = Grant(rounds'[r], positions[r][u], d)
  /\ escrow'[r] = rounds'[r].pool[rounds'[r].outcome] + d
  /\ escrow'[r] <= escrow[r]

LEMMA SettleGrants ==
  ASSUME MarketInv, NEW r \in RoundId, Settle(r), rounds'[r].outcome # "Void"
  PROVE  \E d : Granting(r, d)
<1>1. Settles(r) /\ KeepsTheRest(r) /\ config' = config /\ now' = now /\ positions' = positions
  BY SettleEffect DEF Settle, MarketInv, environment
<1>2. PICK round \in Round : round = rounds[r] /\ round.status = "Open"
  BY <1>1 DEF Settles
<1>3. PICK after : after = rounds'[r]
  OBVIOUS
<1>4. SoundNext(r)
  BY <1>1, SettlesSound
<1>5. /\ after \in Round /\ after.status = "Settled" /\ after.pool = round.pool
      /\ after.outcome = Verdict(round, LastPrice(Feed)) /\ after.outcome # "Void"
  BY <1>1, <1>2, <1>3, SettledRound
<1>6. /\ SoundPools(after, positions[r])
      /\ after.pool["Above"] > 0 /\ after.pool["Below"] > 0
  BY <1>1, <1>3, <1>4, <1>5 DEF SoundNext, Sound
<1>7. PICK win \in Side : win = after.outcome
  BY <1>5 DEF Round, Outcome, Side
<1>8. PICK winning, losing \in Nat :
        /\ winning = round.pool[win] /\ losing = round.pool[Opposite(win)]
        /\ winning + losing = round.pool["Above"] + round.pool["Below"]
  BY <1>7 DEF Round, Side, Opposite
<1>9. PICK bps \in 0..MaxFeeBps : bps = config.fee_bps
  BY <1>1 DEF Settles, Config
<1>10. PICK d \in Nat : d = Left(losing, bps) /\ d + Fee(losing, bps) = losing
  <2>1. Left(losing, bps) \in 0..losing /\ Left(losing, bps) + Fee(losing, bps) = losing
    BY LeftFacts
  <2>. QED BY <2>1
<1>11. FeeTaken(r) = Fee(losing, bps) /\ Fee(losing, bps) \in Nat
  <2>1. Fee(losing, bps) \in Nat
    BY FeeFacts
  <2>. QED BY <1>2, <1>5, <1>7, <1>8, <1>9, <2>1 DEF FeeTaken
<1>12. escrow'[r] = winning + d /\ escrow'[r] <= escrow[r]
  <2>1. escrow[r] = winning + losing
    BY <1>2, <1>8 DEF MarketInv, RoundsInv, Sound
  <2>2. escrow'[r] = escrow[r] - Fee(losing, bps)
    BY <1>1, <1>11 DEF Settles
  <2>. QED BY <1>10, <1>11, <2>1, <2>2
<1>13. ASSUME NEW u \in User
       PROVE  Owed(r, u)' = Grant(rounds'[r], positions[r][u], d)
  <2>1. CASE positions[r][u] = None
    BY <1>1, <2>1 DEF Owed, Grant
  <2>2. CASE positions[r][u] # None
    <3>1. ~positions[r][u].claimed
      BY <1>2, <2>2 DEF MarketInv, RoundsInv, Sound
    <3>2. Owed(r, u)' = Worth(rounds[r], positions[r][u])'
      BY <1>1, <1>3, <1>4, <1>5, <2>2, <3>1 DEF Owed, Settled
    <3>3. Worth(rounds[r], positions[r][u])'
            = WorthAt(rounds'[r], positions'[r][u],
                Left(rounds'[r].pool[Opposite(rounds'[r].outcome)], config'.fee_bps))
      BY DEF Worth, WorthAt, WinnerBonus, Refund, Share, Distributed, OfWinners, OfAll,
             PartOf, Cut, Left
    <3>4. Left(rounds'[r].pool[Opposite(rounds'[r].outcome)], config'.fee_bps) = d
      BY <1>1, <1>3, <1>5, <1>7, <1>8, <1>9, <1>10
    <3>. QED BY <1>1, <2>2, <3>2, <3>3, <3>4 DEF Grant
  <2>. QED BY <2>1, <2>2
<1>14. after.pool[win] = winning /\ winning > 0
  BY <1>5, <1>6, <1>7, <1>8 DEF Side
<1>15. Granting(r, d)
  BY <1>2, <1>3, <1>5, <1>6, <1>7, <1>12, <1>13, <1>14 DEF Granting
<1>. QED BY <1>15

LEMMA GrantingSum ==
  ASSUME NEW r \in RoundId, NEW d, Granting(r, d)
  PROVE  OwedByRound(r)' = Granted(rounds'[r], positions[r], d)
<1> DEFINE f == [u \in User |-> Owed(r, u)']
           g == [u \in User |-> Grant(rounds'[r], positions[r][u], d)]
<1>1. f = g
  BY DEF Granting
<1>2. OwedByRound(r)' = Sum(f, NumUsers) /\ Granted(rounds'[r], positions[r], d) = Sum(g, NumUsers)
  BY DEF OwedByRound, Granted
<1> HIDE DEF f, g
<1>. QED BY <1>1, <1>2

\* settle() refunds a void round and awards any other.
LEMMA SettleDecides ==
  ASSUME MarketInv, MarketInv', NEW r \in RoundId, Settle(r)
  PROVE  RoundEscrow!EscrowNext
<1>1. /\ Settles(r) /\ KeepsTheRest(r)
      /\ config' = config /\ counter' = counter /\ positions' = positions
  BY SettleEffect DEF Settle, MarketInv
<1>2. \A s \in RoundId : s # r => rounds'[s] = rounds[s]
  BY <1>1 DEF KeepsTheRest, Stays
<1>3. \A s \in RoundId, u \in User : s # r => Owed(s, u)' = Owed(s, u)
  BY <1>1, <1>2, OwedFrame
<1>4. \A u \in User : positions[r][u] # None => ~positions[r][u].claimed
  BY <1>1 DEF Settles, MarketInv, RoundsInv, Sound
<1>5. \A u \in User : Owed(r, u) = IF positions[r][u] = None THEN 0
                                  ELSE positions[r][u].amount
  BY <1>1, <1>4 DEF Owed, Settled, Settles
<1>6. Phase(r) = "open" /\ ~(r > counter) /\ rounds[r] \in Round
  BY <1>1, StoredFacts DEF Settles
<1>7. rounds'[r] # None /\ rounds'[r].status = "Settled"
  <2>1. rounds'[r] \in Round /\ rounds'[r].status = "Settled"
    BY <1>1, SettledRound
  <2>. QED BY <2>1
<1>8. [s \in RoundId |-> Phase(s)']
        = [[s \in RoundId |-> Phase(s)] EXCEPT ![r] = "decided"]
  <2>1. Phase(r)' = "decided"
    BY <1>1, <1>6, <1>7 DEF Phase
  <2>2. \A s \in RoundId : s # r => Phase(s)' = Phase(s)
    BY <1>1, <1>2, PhaseFrame
  <2>. QED BY <2>1, <2>2
<1>9. escrow' \in [RoundId -> Int] /\ escrow' = [escrow EXCEPT ![r] = escrow'[r]]
  <2>1. escrow \in [RoundId -> Int] /\ escrow' \in [RoundId -> Int]
    BY DEF MarketInv, TypeOK
  <2>2. \A s \in RoundId : s # r => escrow'[s] = escrow[s]
    BY <1>1 DEF KeepsTheRest, Stays
  <2>. QED BY <2>1, <2>2
<1>10. CASE rounds'[r].outcome = "Void"
  <2>1. \A u \in User : Owed(r, u)' = Owed(r, u)
    <3>1. TAKE u \in User
    <3>2. CASE positions[r][u] = None
      BY <1>1, <3>2 DEF Owed
    <3>3. CASE positions[r][u] # None
      <4>1. Owed(r, u)' = Worth(rounds[r], positions[r][u])'
        BY <1>1, <1>4, <1>7, <3>3 DEF Owed, Settled
      <4>2. Worth(rounds[r], positions[r][u])' = positions[r][u].amount
        BY <1>1, <1>10 DEF Worth
      <4>. QED BY <1>5, <3>3, <4>1, <4>2
    <3>. QED BY <3>2, <3>3
  <2>2. escrow' = escrow
    <3>1. rounds'[r].outcome = Verdict(rounds[r], LastPrice(Feed))
      BY <1>1, <1>6 DEF Settles, Round
    <3>2. FeeTaken(r) = 0
      BY <1>10, <3>1 DEF FeeTaken
    <3>3. escrow'[r] = escrow[r]
      BY <1>1, <3>2 DEF Settles, MarketInv, TypeOK
    <3>. QED BY <1>9, <3>3 DEF MarketInv, TypeOK
  <2>3. \A s \in RoundId, u \in User : Owed(s, u)' = Owed(s, u)
    BY <1>3, <2>1
  <2>4. RoundEscrow!Refund(r)
    BY <1>6, <1>8, <2>2, <2>3 DEF RoundEscrow!Refund
  <2>. QED BY <2>4, EscrowSets DEF RoundEscrow!EscrowNext
<1>11. CASE rounds'[r].outcome # "Void"
  <2> DEFINE new == [u \in User |-> Owed(r, u)']
  <2>1. PICK d : Granting(r, d)
    BY <1>11, SettleGrants
  <2>2. \A u \in User : Owed(r, u)' >= 0
    BY OwedNumbersNext DEF OwedNumbers
  <2>3. ASSUME NEW u \in User, Owed(r, u) = 0 PROVE Owed(r, u)' = 0
    <3>1. CASE positions[r][u] = None
      BY <2>1, <3>1 DEF Granting, Grant
    <3>2. CASE positions[r][u] # None
      <4>1. PICK pos \in Position : pos = positions[r][u] /\ pos.amount = 0
        BY <1>5, <2>3, <3>2 DEF MarketInv, TypeOK
      <4>2. pos.boosted = 0
        BY <1>1, <3>2, <4>1 DEF Settles, MarketInv, RoundsInv, Sound, SoundPosition
      <4>3. \A m, all \in Nat : PartOf(m, 0, all) = 0
        <5>1. \A m \in Nat, b \in Nat \ {0} : (m * 0) \div b = 0
          OBVIOUS
        <5>. QED BY <5>1 DEF PartOf
      <4>4. PICK round \in Round : round = rounds'[r]
        BY <2>1 DEF Granting
      <4>5. Cut(d, WinnerPct) \in Nat /\ Cut(d, RefundPct) \in Nat
        BY <2>1, CutFacts DEF Granting
      <4>6. /\ round.boosted[pos.side] \in Nat
            /\ round.boosted["Above"] + round.boosted["Below"] \in Nat
        BY DEF Round, Position, Side
      <4>7. OfWinners(round, pos, d) = 0 /\ OfAll(round, pos, d) = 0
        BY <4>2, <4>3, <4>5, <4>6 DEF OfWinners, OfAll
      <4>8. WorthAt(round, pos, d) = 0
        BY <4>1, <4>7 DEF WorthAt
      <4>. QED BY <2>1, <3>2, <4>1, <4>4, <4>8 DEF Granting, Grant
    <3>. QED BY <3>1, <3>2
  <2>4. Sum(new, NumUsers) <= escrow'[r]
    <3>1. positions[r] \in Row
      BY DEF MarketInv, TypeOK, Row
    <3>2. Granted(rounds'[r], positions[r], d) <= escrow'[r]
      BY <2>1, <3>1, GrantsAddUp DEF Granting
    <3>. QED BY <2>1, <3>2, GrantingSum DEF OwedByRound
  <2>5. [s \in RoundId |-> [u \in User |-> Owed(s, u)']]
          = [[s \in RoundId |-> [u \in User |-> Owed(s, u)]] EXCEPT ![r] = new]
    BY <1>3
  <2>6. RoundEscrow!Sum(new, NumUsers) <= escrow'[r]
    BY <2>4, EscrowSets
  <2>7. escrow'[r] <= escrow[r]
    BY <2>1 DEF Granting
  <2> HIDE DEF new
  <2>8. [s \in RoundId |-> [u \in User |-> Owed(s, u)']][r] = new
    BY DEF new
  <2>9. \A u \in User : new[u] = Owed(r, u)'
    BY DEF new
  <2>10. RoundEscrow!Award(r)
    BY <1>6, <1>8, <1>9, <2>2, <2>3, <2>5, <2>6, <2>7, <2>8, <2>9, EscrowSets
       DEF RoundEscrow!Award
  <2>. QED BY <2>10, EscrowSets DEF RoundEscrow!EscrowNext
<1>. QED BY <1>10, <1>11

\* The calls and steps of the environment that only let claims shrink or lapse.
LEMMA ShrinkSteps ==
  ASSUME MarketInv, MarketInv', escrow' = escrow, counter' = counter,
         \A r \in RoundId : rounds'[r] = rounds[r] \/ rounds'[r] = None,
         \A r \in RoundId, u \in User : Owed(r, u)' <= Owed(r, u),
         \A r \in RoundId, u \in User :
           positions'[r][u] = positions[r][u] \/ positions'[r][u] = None
  PROVE  RoundEscrow!EscrowNext
<1>1. \A r \in RoundId, u \in User : 0 <= Owed(r, u)'
  BY OwedNumbersNext DEF OwedNumbers
<1>2. \A r \in RoundId : Phase(r)' = Phase(r) \/ Phase(r)' = "gone"
  BY DEF Phase
<1>3. ASSUME NEW r \in RoundId, NEW u \in User, Phase(r)' = "open"
      PROVE  Owed(r, u)' \in {0, Owed(r, u)}
  BY <1>3 DEF Phase, Owed, Settled
<1>4. RoundEscrow!Shrink
  BY <1>1, <1>2, <1>3, EscrowSets DEF RoundEscrow!Shrink
<1>. QED BY <1>4 DEF RoundEscrow!EscrowNext

\* A new fee: claims do not grow, and under the admin rule no share of a decided round
\* that is still to be claimed shrinks by a cut.
LEMMA FeeShrinks ==
  ASSUME MarketInv, NEW bps \in FeeBps, SetFeeBps(bps), NoFeeCutWhileOwed,
         NEW r \in RoundId, NEW u \in User
  PROVE  Owed(r, u)' <= Owed(r, u)
<1>1. /\ config # None /\ config' = [config EXCEPT !.fee_bps = bps]
      /\ bps \in 0..MaxFeeBps /\ rounds' = rounds /\ positions' = positions
  BY DEF SetFeeBps, FeeAllowed, Configure
<1>2. PICK old \in 0..MaxFeeBps : old = config.fee_bps
  BY <1>1 DEF MarketInv, TypeOK, Config
<1>3. config'.fee_bps = bps
  BY <1>1 DEF MarketInv, TypeOK, Config
<1>4. Owed(r, u) \in Nat
  BY OwedNat
<1>5. CASE ~Claimable(r, u)
  <2>1. Owed(r, u)' = Owed(r, u)
    BY <1>1, <1>5 DEF Owed, Claimable, Settled
  <2>. QED BY <1>4, <2>1
<1>6. CASE Claimable(r, u)
  <2>1. rounds[r] \in Round /\ positions[r][u] \in Position
    BY <1>6 DEF Claimable, Settled, MarketInv, TypeOK
  <2>2. /\ Owed(r, u) = Worth(rounds[r], positions[r][u])
        /\ Owed(r, u)' = Worth(rounds[r], positions[r][u])'
    BY <1>1, <1>6 DEF Claimable, Settled, Owed
  <2>3. CASE rounds[r].outcome = "Void"
    BY <1>1, <1>4, <2>2, <2>3 DEF Worth
  <2>4. CASE rounds[r].outcome # "Void"
    <3>1. old <= bps
      BY <1>1, <1>2, <1>3, <1>6, <2>4 DEF NoFeeCutWhileOwed
    <3>2. PICK round \in Round, pos \in Position : round = rounds[r] /\ pos = positions[r][u]
      BY <2>1
    <3>3. PICK losing \in Nat : losing = round.pool[Opposite(round.outcome)]
      BY LosingNat DEF Round
    <3>4. PICK d, e \in Nat : d = Left(losing, bps) /\ e = Left(losing, old) /\ d <= e
      BY <1>1, <3>1, LeftFacts
    <3>5. Worth(rounds[r], positions[r][u]) = WorthAt(round, pos, e)
      BY <1>2, <3>2, <3>3, <3>4, WorthIs
    <3>6. Worth(rounds[r], positions[r][u])' = WorthAt(round, pos, d)
      <4>1. Worth(rounds[r], positions[r][u])'
              = WorthAt(rounds'[r], positions'[r][u],
                  Left(rounds'[r].pool[Opposite(rounds'[r].outcome)], config'.fee_bps))
        BY DEF Worth, WorthAt, WinnerBonus, Refund, Share, Distributed, OfWinners, OfAll,
               PartOf, Cut, Left
      <4>. QED BY <1>1, <1>3, <3>2, <3>3, <3>4, <4>1
    <3>7. WorthAt(round, pos, d) <= WorthAt(round, pos, e)
      BY <3>4, WorthGrows
    <3>. QED BY <2>2, <3>5, <3>6, <3>7
  <2>. QED BY <2>3, <2>4
<1>. QED BY <1>5, <1>6

LEMMA StepIsEscrowStep ==
  ASSUME MarketInv, MarketInv', [Next /\ NoFeeCutWhileOwed /\ SaneStart]_vars
  PROVE  [RoundEscrow!EscrowNext]_(RoundEscrow!escrowVars)
<1>1. \A r \in RoundId, u \in User : Owed(r, u) \in Nat
  BY OwedNat
<1>2. ASSUME NEW fee, NEW offset, NEW interval, Initialize(fee, offset, interval)
      PROVE  EscrowStutter
  <2>1. counter' = counter /\ UNCHANGED <<rounds, positions, escrow>>
    BY <1>2 DEF Initialize, MarketInv, SetupInv
  <2>2. \A r \in RoundId : rounds[r] = None
    BY <1>2 DEF Initialize, MarketInv, SetupInv, UnopenedInv, RoundId
  <2>. QED BY <2>1, <2>2 DEF EscrowStutter, Phase, Owed
<1>3. ASSUME NEW bps \in FeeBps, SetFeeBps(bps), NoFeeCutWhileOwed
      PROVE  RoundEscrow!EscrowNext
  <2>1. UNCHANGED <<counter, rounds, positions, escrow>>
    BY <1>3 DEF SetFeeBps, Configure
  <2>. QED BY <1>3, <2>1, FeeShrinks, ShrinkSteps
<1>4. ASSUME NEW x, SetLockOffset(x) \/ SetOracleInterval(x)
      PROVE  EscrowStutter
  <2>1. UNCHANGED <<counter, rounds, positions, escrow>>
    BY <1>4 DEF SetLockOffset, SetOracleInterval, Configure
  <2>2. config'.fee_bps = config.fee_bps
    BY <1>4 DEF SetLockOffset, SetOracleInterval, Configure, MarketInv, TypeOK, Config
  <2>3. ASSUME NEW r \in RoundId, NEW u \in User PROVE Owed(r, u)' = Owed(r, u)
    BY <2>1, <2>2 DEF Owed, Settled, Worth, WinnerBonus, Refund, Share, Distributed
  <2>. QED BY <2>1, <2>3, PhaseFrame DEF EscrowStutter
<1>5. CASE SweepFees \/ OracleMoves \/ UNCHANGED vars
  <2>1. UNCHANGED <<config, counter, rounds, positions, escrow>>
    BY <1>5 DEF SweepFees, OracleMoves, vars
  <2>2. ASSUME NEW r \in RoundId, NEW u \in User PROVE Owed(r, u)' = Owed(r, u)
    BY <2>1, OwedFrame
  <2>3. ASSUME NEW r \in RoundId PROVE Phase(r)' = Phase(r)
    BY <2>1, PhaseFrame
  <2>4. escrow' = escrow
    BY <2>1
  <2>5. EscrowStutter
    BY <2>2, <2>3, <2>4 DEF EscrowStutter
  <2>. QED BY <2>5, StutterIsEscrowStutter
<1>6. CASE AdvanceTime
  <2>1. escrow' = escrow /\ counter' = counter /\ config' = config
    BY <1>6 DEF AdvanceTime
  <2>2. /\ \A r \in RoundId : rounds'[r] = rounds[r] \/ rounds'[r] = None
        /\ \A r \in RoundId, u \in User :
             positions'[r][u] = positions[r][u] \/ positions'[r][u] = None
    BY <1>6, AdvanceEffect DEF Ages, MarketInv
  <2>3. \A r \in RoundId, u \in User : Owed(r, u)' <= Owed(r, u)
    <3>1. TAKE r \in RoundId, u \in User
    <3>2. CASE rounds'[r] = None \/ positions'[r][u] = None
      BY <1>1, <3>2 DEF Owed
    <3>3. CASE rounds'[r] # None /\ positions'[r][u] # None
      BY <1>1, <2>1, <2>2, <3>3, OwedFrame
    <3>. QED BY <3>2, <3>3
  <2>. QED BY <2>1, <2>2, <2>3, ShrinkSteps
<1>7. ASSUME NEW u \in User, NEW r \in RoundId, NEW side \in Side,
             NEW amount \in BetAmount, Bet(u, r, side, amount)
      PROVE  RoundEscrow!EscrowNext
  BY <1>7, BetIsStake
<1>8. ASSUME NEW u \in User, NEW r \in RoundId, Claim(u, r) PROVE RoundEscrow!EscrowNext
  BY <1>8, ClaimIsDraw
<1>9. ASSUME NEW r \in RoundId, Settle(r) PROVE RoundEscrow!EscrowNext
  BY <1>9, SettleDecides
<1>. QED BY <1>2, <1>3, <1>4, <1>5, <1>6, <1>7, <1>8, <1>9, CreateIsOpen,
            StutterIsEscrowStutter DEF Next

\* Under the admin rule the market implements Escrow: whatever the weights, the
\* roundings and the moments of the claims, winners and losers together draw no more
\* than their round took in, each of them once.
THEOREM MarketIsEscrows == SteadySpec => RoundsAreEscrows
<1>1. MarketInv /\ MarketInv' /\ [Next /\ NoFeeCutWhileOwed /\ SaneStart]_vars
        => [RoundEscrow!EscrowNext]_(RoundEscrow!escrowVars)
  BY StepIsEscrowStep
<1>2. Init => RoundEscrow!EscrowInit
  BY InitEscrow
<1>. QED BY <1>1, <1>2, Invariant, SteadyIsSpec, PTL
         DEF SteadySpec, RoundsAreEscrows, RoundEscrow!EscrowSpec


-----------------------------------------------------------------------------
(* One balance covers every round and the treasury *)

\* The promise of Escrow: no round owes more than it holds.
Covered == \A r \in RoundId : OwedByRound(r) <= escrow[r]

OwedRow(r) == [u \in User |-> Owed(r, u)]

OwedSums == MarketInv => \A r \in RoundId : OwedByRound(r) \in Nat

LEMMA OwedSumsNow == OwedSums
<1> SUFFICES ASSUME MarketInv, NEW r \in RoundId PROVE OwedByRound(r) \in Nat
  BY DEF OwedSums
<1>1. \A u \in 1..NumUsers : OwedRow(r)[u] \in Nat
  BY OwedNat DEF OwedRow, User
<1>2. Sum(OwedRow(r), NumUsers) \in Nat
  BY <1>1, SumNat, WickAssumption DEF WickAssumption
<1>. QED BY <1>2 DEF OwedByRound, OwedRow

LEMMA OwedSumsNext == OwedSums'
BY OwedSumsNow, PTL

\* Rounds whose claims and pot are as they were, and rounds where one claim or all
\* of them change, the pot following.
LEMMA SameClaimsCovered ==
  ASSUME MarketInv, NEW r \in RoundId, OwedByRound(r) <= escrow[r],
         escrow'[r] = escrow[r], \A u \in User : Owed(r, u)' = Owed(r, u)
  PROVE  OwedByRound(r)' <= escrow'[r]
<1>1. OwedByRound(r)' = Sum([u \in User |-> Owed(r, u)'], NumUsers)
  BY DEF OwedByRound
<1>2. [u \in User |-> Owed(r, u)'] = OwedRow(r)
  BY DEF OwedRow
<1>. QED BY <1>1, <1>2 DEF OwedByRound, OwedRow

LEMMA OneClaimCovered ==
  ASSUME MarketInv, MarketInv', NEW r \in RoundId, NEW u \in User,
         OwedByRound(r) <= escrow[r],
         \A v \in User : v # u => Owed(r, v)' = Owed(r, v),
         escrow'[r] = escrow[r] - Owed(r, u) + Owed(r, u)'
  PROVE  OwedByRound(r)' <= escrow'[r]
<1> DEFINE before == OwedRow(r)
           after == [v \in User |-> Owed(r, v)']
<1>1. /\ \A k \in 1..NumUsers : before[k] \in Int /\ after[k] \in Int
      /\ \A k \in 1..NumUsers : k # u => after[k] = before[k]
      /\ u \in 1..NumUsers
      /\ before[u] = Owed(r, u) /\ after[u] = Owed(r, u)'
  BY OwedNat, OwedNumbersNext DEF OwedNumbers, OwedRow, User
<1>2. OwedByRound(r) = Sum(before, NumUsers) /\ OwedByRound(r)' = Sum(after, NumUsers)
  BY DEF OwedByRound, OwedRow
<1> HIDE DEF before, after
<1>3. Sum(after, NumUsers) = Sum(before, NumUsers) - before[u] + after[u]
  <2>1. NumUsers \in Nat
    BY WickAssumption DEF WickAssumption
  <2>. QED BY <1>1, <2>1, SumChange
<1>4. OwedByRound(r) \in Int /\ escrow[r] \in Int /\ before[u] \in Int /\ after[u] \in Int
  BY <1>1, OwedSumsNow DEF OwedSums, MarketInv, TypeOK
<1>. QED BY <1>1, <1>2, <1>3, <1>4

LEMMA FewerClaimsCovered ==
  ASSUME MarketInv, MarketInv', NEW r \in RoundId, OwedByRound(r) <= escrow[r],
         \A u \in User : Owed(r, u)' <= Owed(r, u), escrow'[r] = escrow[r]
  PROVE  OwedByRound(r)' <= escrow'[r]
<1> DEFINE before == OwedRow(r)
           after == [v \in User |-> Owed(r, v)']
<1>1. \A k \in 1..NumUsers :
        after[k] \in Int /\ before[k] \in Int /\ after[k] <= before[k]
  BY OwedNat, OwedNumbersNext DEF OwedNumbers, OwedRow, User
<1>2. OwedByRound(r) = Sum(before, NumUsers) /\ OwedByRound(r)' = Sum(after, NumUsers)
  BY DEF OwedByRound, OwedRow
<1> HIDE DEF before, after
<1>3. Sum(after, NumUsers) <= Sum(before, NumUsers)
  BY <1>1, SumMonotone, WickAssumption DEF WickAssumption
<1>4. /\ OwedByRound(r) \in Int /\ escrow[r] \in Int /\ OwedByRound(r)' \in Int
  BY OwedSumsNow, OwedSumsNext DEF OwedSums, MarketInv, TypeOK
<1>. QED BY <1>2, <1>3, <1>4

\* What each step of Escrow leaves of what the rounds hold and owe.
LEMMA EscrowCovers ==
  ASSUME MarketInv, MarketInv', Covered,
         [RoundEscrow!EscrowNext]_(RoundEscrow!escrowVars)
  PROVE  Covered'
<1> SUFFICES ASSUME NEW r \in RoundId PROVE OwedByRound(r)' <= escrow'[r]
  BY DEF Covered
<1>1. OwedByRound(r) <= escrow[r] /\ escrow \in [RoundId -> Int]
  BY DEF Covered, MarketInv, TypeOK
<1> DEFINE due == [q \in RoundId |-> [u \in User |-> Owed(q, u)]]
           dueNext == [q \in RoundId |-> [u \in User |-> Owed(q, u)']]
<1>2. \A q \in RoundId, u \in User :
        /\ due[q][u] = Owed(q, u) /\ dueNext[q][u] = Owed(q, u)'
        /\ Owed(q, u) \in Nat /\ Owed(q, u)' \in Nat
  BY OwedNat, OwedNumbersNext DEF OwedNumbers
<1>3. CASE escrow' = escrow /\ dueNext = due
  <2>1. \A u \in User : Owed(r, u)' = Owed(r, u)
    BY <1>2, <1>3
  <2>. QED BY <1>1, <1>3, <2>1, SameClaimsCovered
<1>4. CASE UNCHANGED RoundEscrow!escrowVars
  BY <1>3, <1>4 DEF RoundEscrow!escrowVars
<1>5. ASSUME NEW q \in RoundId, RoundEscrow!Open(q) \/ RoundEscrow!Refund(q)
      PROVE  OwedByRound(r)' <= escrow'[r]
  BY <1>3, <1>5 DEF RoundEscrow!Open, RoundEscrow!Refund
<1>6. ASSUME NEW q \in RoundId, RoundEscrow!Award(q)
      PROVE  OwedByRound(r)' <= escrow'[r]
  <2>1. /\ escrow' = [escrow EXCEPT ![q] = escrow'[q]]
        /\ dueNext = [due EXCEPT ![q] = dueNext[q]]
        /\ Sum(dueNext[q], NumUsers) <= escrow'[q]
    BY <1>6, EscrowSets DEF RoundEscrow!Award
  <2>2. CASE r = q
    BY <2>1, <2>2 DEF OwedByRound
  <2>3. CASE r # q
    <3>1. escrow'[r] = escrow[r] /\ dueNext[r] = due[r]
      BY <1>1, <2>1, <2>3
    <3>2. \A u \in User : Owed(r, u)' = Owed(r, u)
      BY <1>2, <3>1
    <3>. QED BY <1>1, <3>1, <3>2, SameClaimsCovered
  <2>. QED BY <2>2, <2>3
<1>7. ASSUME NEW q \in RoundId, NEW u \in User, RoundEscrow!Stake(q, u)
      PROVE  OwedByRound(r)' <= escrow'[r]
  <2>1. /\ due[q][u] = 0
        /\ dueNext = [due EXCEPT ![q][u] = dueNext[q][u]]
        /\ escrow' = [escrow EXCEPT ![q] = @ + dueNext[q][u]]
    BY <1>7 DEF RoundEscrow!Stake
  <2>2. CASE r = q
    <3>1. \A v \in User : v # u => dueNext[r][v] = due[r][v]
      BY <2>1, <2>2
    <3>2. escrow'[r] = escrow[r] + dueNext[r][u]
      BY <1>1, <2>1, <2>2
    <3>3. \A v \in User : v # u => Owed(r, v)' = Owed(r, v)
      BY <1>2, <3>1
    <3>4. escrow'[r] = escrow[r] - Owed(r, u) + Owed(r, u)'
      BY <1>1, <1>2, <2>1, <2>2, <3>2
    <3>. QED BY <1>1, <3>3, <3>4, OneClaimCovered
  <2>3. CASE r # q
    <3>1. escrow'[r] = escrow[r] /\ dueNext[r] = due[r]
      BY <1>1, <2>1, <2>3
    <3>2. \A v \in User : Owed(r, v)' = Owed(r, v)
      BY <1>2, <3>1
    <3>. QED BY <1>1, <3>1, <3>2, SameClaimsCovered
  <2>. QED BY <2>2, <2>3
<1>8. ASSUME NEW u \in User, RoundEscrow!Draw(u)
      PROVE  OwedByRound(r)' <= escrow'[r]
  <2>1. /\ dueNext[r] = [due[r] EXCEPT ![u] = dueNext[r][u]]
        /\ escrow'[r] = escrow[r] - (due[r][u] - dueNext[r][u])
    BY <1>8, EscrowSets DEF RoundEscrow!Draw
  <2>2. \A v \in User : v # u => dueNext[r][v] = due[r][v]
    BY <2>1
  <2>3. \A v \in User : v # u => Owed(r, v)' = Owed(r, v)
    BY <1>2, <2>2
  <2>4. escrow'[r] = escrow[r] - Owed(r, u) + Owed(r, u)'
    BY <1>1, <1>2, <2>1
  <2>. QED BY <1>1, <2>3, <2>4, OneClaimCovered
<1>9. CASE RoundEscrow!Shrink
  <2>1. escrow' = escrow /\ \A u \in User : dueNext[r][u] <= due[r][u]
    BY <1>9, EscrowSets DEF RoundEscrow!Shrink
  <2>2. \A u \in User : Owed(r, u)' <= Owed(r, u)
    BY <1>2, <2>1
  <2>. QED BY <1>1, <2>1, <2>2, FewerClaimsCovered
<1>. QED BY <1>4, <1>5, <1>6, <1>7, <1>8, <1>9, EscrowSets DEF RoundEscrow!EscrowNext

\* The balance is the treasury and what the rounds hold, to the stroop.
VaultAccounted == vault = fees + Sum(escrow, MaxRounds)

\* initialize sets the treasury to zero, which it is until then.
NothingBooked == config = None => fees = 0

LEMMA BookedOnlySetUp ==
  ASSUME MarketInv, NothingBooked, [Next]_vars PROVE NothingBooked'
<1> SUFFICES ASSUME config' = None PROVE fees' = 0
  BY DEF NothingBooked
<1>1. config = None
  BY SettingsStep DEF MarketInv, vars
<1>2. ASSUME NEW fee, NEW offset, NEW interval, Initialize(fee, offset, interval)
      PROVE  fees' = 0
  BY <1>2 DEF Initialize
<1>3. ASSUME NEW x, NEW r, SetFeeBps(x) \/ SetLockOffset(x) \/ SetOracleInterval(x)
                           \/ Settle(r) \/ SweepFees
      PROVE  FALSE
  BY <1>1, <1>3 DEF SetFeeBps, SetLockOffset, SetOracleInterval, Configure, Settle, SweepFees
<1>4. ASSUME NEW u, NEW r, NEW side, NEW amount,
             \/ Bet(u, r, side, amount) \/ Claim(u, r)
             \/ CreateRound \/ AdvanceTime \/ OracleMoves \/ UNCHANGED vars
      PROVE  fees' = fees
  BY <1>4 DEF Bet, Claim, CreateRound, AdvanceTime, OracleMoves, vars
<1>. QED BY <1>1, <1>2, <1>3, <1>4 DEF Next, NothingBooked

LEMMA VaultFollowsRound ==
  ASSUME MarketInv, NEW r \in RoundId, NEW d \in Int, VaultAccounted,
         escrow'[r] = escrow[r] + d, \A q \in RoundId : q # r => escrow'[q] = escrow[q],
         MarketInv', vault' - fees' = vault - fees + d
  PROVE  VaultAccounted'
<1>1. /\ \A k \in 1..MaxRounds : escrow[k] \in Int /\ escrow'[k] \in Int
      /\ vault \in Int /\ fees \in Int /\ vault' \in Int /\ fees' \in Int
      /\ MaxRounds \in Nat /\ r \in 1..MaxRounds
  BY WickAssumption DEF WickAssumption, MarketInv, TypeOK, RoundId
<1>2. \A k \in 1..MaxRounds : k # r => escrow'[k] = escrow[k]
  BY DEF RoundId
<1>3. Sum(escrow', MaxRounds) = Sum(escrow, MaxRounds) - escrow[r] + escrow'[r]
  BY <1>1, <1>2, SumChange
<1>4. Sum(escrow, MaxRounds) \in Int
  BY <1>1, SumInt
<1>5. Sum(escrow', MaxRounds) = Sum(escrow, MaxRounds) + d
  BY <1>1, <1>3, <1>4
<1>. QED BY <1>1, <1>4, <1>5 DEF VaultAccounted

LEMMA StepAccounted ==
  ASSUME MarketInv, MarketInv', NothingBooked, VaultAccounted, [Next]_vars
  PROVE  VaultAccounted'
<1>1. vault \in Int /\ fees \in Int /\ Sum(escrow, MaxRounds) \in Int
  <2>1. \A k \in 1..MaxRounds : escrow[k] \in Int
    BY DEF MarketInv, TypeOK, RoundId
  <2>. QED BY <2>1, SumInt, WickAssumption DEF WickAssumption, MarketInv, TypeOK
<1>2. ASSUME NEW fee, NEW offset, NEW interval, Initialize(fee, offset, interval)
      PROVE  VaultAccounted'
  <2>1. fees = 0 /\ fees' = 0 /\ UNCHANGED <<vault, escrow>>
    BY <1>2 DEF Initialize, NothingBooked
  <2>. QED BY <2>1 DEF VaultAccounted
<1>3. CASE UNCHANGED <<vault, fees, escrow>>
  BY <1>3 DEF VaultAccounted
<1>4. CASE CreateRound \/ AdvanceTime \/ OracleMoves \/ UNCHANGED vars
  BY <1>3, <1>4 DEF CreateRound, AdvanceTime, OracleMoves, vars
<1>5. ASSUME NEW x, SetFeeBps(x) \/ SetLockOffset(x) \/ SetOracleInterval(x)
      PROVE  VaultAccounted'
  BY <1>3, <1>5 DEF SetFeeBps, SetLockOffset, SetOracleInterval, Configure
<1>6. CASE SweepFees
  <2>1. vault' = vault - fees /\ fees' = 0 /\ escrow' = escrow
    BY <1>6 DEF SweepFees
  <2>. QED BY <1>1, <2>1 DEF VaultAccounted
<1>7. ASSUME NEW u \in User, NEW r \in RoundId, NEW side \in Side,
             NEW amount \in BetAmount, Bet(u, r, side, amount)
      PROVE  VaultAccounted'
  <2>1. Stakes(r, u, side, amount) /\ KeepsTheRest(r)
    BY <1>7, BetEffect DEF MarketInv
  <2>2. /\ amount \in Int /\ vault' - fees' = vault - fees + amount
        /\ escrow'[r] = escrow[r] + amount
        /\ \A q \in RoundId : q # r => escrow'[q] = escrow[q]
    BY <1>1, <1>7, <2>1, WickAssumption DEF Bet, Stakes, KeepsTheRest, Stays, WickAssumption
  <2>. QED BY <2>2, VaultFollowsRound
<1>8. ASSUME NEW r \in RoundId, Settle(r) PROVE VaultAccounted'
  <2>1. Settles(r) /\ KeepsTheRest(r)
    BY <1>8, SettleEffect DEF MarketInv
  <2>2. PICK fee \in Nat : fee = FeeTaken(r)
    BY <2>1, FeeTakenNat DEF Settles
  <2>3. fees' = fees + fee /\ vault' = vault
    BY <1>8, <2>2 DEF Settle, FeeTaken
  <2>4. escrow[r] \in Int
    BY DEF MarketInv, TypeOK
  <2>5. /\ -fee \in Int /\ vault' - fees' = vault - fees + (-fee)
        /\ escrow'[r] = escrow[r] + (-fee)
    BY <1>1, <2>1, <2>2, <2>3, <2>4 DEF Settles
  <2>6. \A q \in RoundId : q # r => escrow'[q] = escrow[q]
    BY <2>1 DEF KeepsTheRest, Stays
  <2>. QED BY <2>5, <2>6, VaultFollowsRound
<1>9. ASSUME NEW u \in User, NEW r \in RoundId, Claim(u, r) PROVE VaultAccounted'
  <2>1. Pays(r, u) /\ KeepsTheRest(r)
    BY <1>9, ClaimEffect DEF MarketInv
  <2>2. rounds[r] \in Round /\ positions[r][u] \in Position /\ config \in Config
    BY <2>1 DEF Pays, Claimable, Settled, MarketInv, TypeOK
  <2>3. PICK payout \in Nat : payout = Worth(rounds[r], positions[r][u])
    BY <2>2, WorthNat
  <2>4. vault' = vault - payout /\ fees' = fees
    BY <1>9, <2>3 DEF Claim
  <2>5. escrow[r] \in Int
    BY DEF MarketInv, TypeOK
  <2>6. /\ -payout \in Int /\ vault' - fees' = vault - fees + (-payout)
        /\ escrow'[r] = escrow[r] + (-payout)
    BY <1>1, <2>1, <2>3, <2>4, <2>5 DEF Pays
  <2>7. \A q \in RoundId : q # r => escrow'[q] = escrow[q]
    BY <2>1 DEF KeepsTheRest, Stays
  <2>. QED BY <2>6, <2>7, VaultFollowsRound
<1>. QED BY <1>2, <1>4, <1>5, <1>6, <1>7, <1>8, <1>9 DEF Next

LEMMA InitCovered == Init => Covered /\ VaultAccounted /\ NothingBooked
<1> SUFFICES ASSUME Init PROVE Covered /\ VaultAccounted /\ NothingBooked
  OBVIOUS
<1>1. NumUsers \in Nat /\ MaxRounds \in Nat
  BY WickAssumption DEF WickAssumption
<1>2. ASSUME NEW r \in RoundId PROVE OwedByRound(r) = 0
  <2>1. \A u \in 1..NumUsers : OwedRow(r)[u] = 0
    BY DEF Init, Owed, OwedRow, User
  <2>2. Sum(OwedRow(r), NumUsers) = 0
    BY <1>1, <2>1, SumZero
  <2>. QED BY <2>2 DEF OwedByRound, OwedRow
<1>3. \A r \in 1..MaxRounds : escrow[r] = 0
  BY DEF Init, RoundId
<1>4. Sum(escrow, MaxRounds) = 0
  BY <1>1, <1>3, SumZero
<1>. QED BY <1>2, <1>3, <1>4 DEF Init, Covered, VaultAccounted, NothingBooked

\* Whatever the admin does, and whatever expires, the balance is the treasury and what
\* the rounds hold: what settle books as a fee leaves the round, a payout leaves the
\* round it is for, and a sweep takes the treasury only.
THEOREM BalanceIsConserved == Spec => []VaultAccounted
<1>1. MarketInv /\ MarketInv' /\ NothingBooked /\ VaultAccounted /\ [Next]_vars
        => NothingBooked' /\ VaultAccounted'
  BY BookedOnlySetUp, StepAccounted
<1>. QED BY <1>1, InitCovered, Invariant, PTL DEF Spec

\* Under the admin rule the market is solvent at any time, so no transfer of claim or
\* sweep_fees is turned down, in whatever order they come.
THEOREM Solvency == SteadySpec => []Solvent
<1>1. MarketInv /\ MarketInv' /\ Covered
        /\ [Next /\ NoFeeCutWhileOwed /\ SaneStart]_vars => Covered'
  BY StepIsEscrowStep, EscrowCovers
<1>2. SteadySpec => []Covered
  BY <1>1, InitCovered, Invariant, SteadyIsSpec, PTL DEF SteadySpec
<1>3. MarketInv /\ Covered /\ VaultAccounted => Solvent
  <2> SUFFICES ASSUME MarketInv, Covered, VaultAccounted PROVE Solvent
    OBVIOUS
  <2> DEFINE owed == [r \in RoundId |-> OwedByRound(r)]
  <2>1. \A k \in 1..MaxRounds :
          owed[k] \in Int /\ escrow[k] \in Int /\ owed[k] <= escrow[k]
    BY OwedSumsNow DEF OwedSums, Covered, MarketInv, TypeOK, RoundId
  <2>2. MaxRounds \in Nat /\ fees \in Int
    BY WickAssumption DEF WickAssumption, MarketInv, TypeOK
  <2> HIDE DEF owed
  <2>3. Sum(owed, MaxRounds) <= Sum(escrow, MaxRounds)
    BY <2>1, <2>2, SumMonotone
  <2>4. Sum(owed, MaxRounds) \in Int /\ Sum(escrow, MaxRounds) \in Int
    BY <2>1, <2>2, SumInt
  <2>5. fees + Sum(owed, MaxRounds) <= vault
    BY <2>2, <2>3, <2>4 DEF VaultAccounted
  <2>. QED BY <2>5 DEF Solvent, owed
<1>. QED BY <1>2, <1>3, BalanceIsConserved, Invariant, SteadyIsSpec, PTL


-----------------------------------------------------------------------------
(* All that is shared out is handed out *)

\* The positions say of themselves what the two pools took in.
LEMMA StakesSavedSplit ==
  ASSUME MarketInv, NEW r \in RoundId, rounds[r] # None
  PROVE  StakesSaved(r) = StakesOn(positions[r], "Above") + StakesOn(positions[r], "Below")
<1>1. PICK row \in Row : row = positions[r]
  BY DEF MarketInv, TypeOK, Row
<1> DEFINE f == [u \in User |-> StakeOn(row[u], "Above")]
           g == [u \in User |-> StakeOn(row[u], "Below")]
           h == [u \in User |-> IF positions[r][u] = None THEN 0
                                ELSE positions[r][u].amount]
<1>2. \A u \in User : f[u] \in Nat /\ g[u] \in Nat
  BY TermsNat DEF Side
<1>3. \A u \in User : h[u] = f[u] + g[u]
  BY <1>1 DEF StakeOn, Row, Position, Side
<1>4. \A k \in 1..NumUsers : f[k] \in Int /\ g[k] \in Int /\ h[k] = f[k] + g[k]
  BY <1>2, <1>3 DEF User
<1>5. /\ StakesSaved(r) = Sum(h, NumUsers)
      /\ StakesOn(row, "Above") = Sum(f, NumUsers)
      /\ StakesOn(row, "Below") = Sum(g, NumUsers)
  BY DEF StakesSaved, StakesOn
<1> HIDE DEF f, g, h
<1>6. Sum(h, NumUsers) = Sum(f, NumUsers) + Sum(g, NumUsers)
  BY <1>4, SumPlus
<1>. QED BY <1>1, <1>5, <1>6

LEMMA SharesStep ==
  ASSUME MarketInv, MarketInv', Next, NEW r \in RoundId,
         Phase(r) = "open", Phase(r)' = "decided", rounds'[r].outcome # "Void",
         StakesSaved(r) = rounds[r].pool["Above"] + rounds[r].pool["Below"]
  PROVE  LET winners == {u \in User : /\ positions[r][u] # None
                                      /\ positions[r][u].side = rounds'[r].outcome}
             bettors == {u \in User : positions[r][u] # None}
         IN escrow'[r] - OwedByRound(r)'
              \in 0..(1 + Cardinality(winners) + Cardinality(bettors))
<1>1. rounds[r] \in Round /\ rounds[r].status # "Settled"
  BY DEF Phase, MarketInv, TypeOK
<1>2. rounds'[r] # None /\ rounds'[r].status = "Settled"
  BY DEF Phase
<1>3. rounds'[r] # rounds[r]
  BY <1>1, <1>2
<1>4. Settle(r)
  <2>1. ~Untouched
    BY <1>3 DEF Untouched
  <2>2. ~CreateRound
    <3>1. ASSUME CreateRound PROVE FALSE
      <4>1. Opens(r)
        BY <1>3, <3>1, CreateEffect DEF KeepsTheRest, Stays, MarketInv
      <4>. QED BY <1>2, <4>1 DEF Opens
    <3>. QED BY <3>1
  <2>3. ASSUME NEW u \in User, NEW q \in RoundId, NEW side \in Side,
               NEW amount \in BetAmount, Bet(u, q, side, amount)
        PROVE  FALSE
    <3>1. Stakes(q, u, side, amount) /\ q = r
      BY <1>3, <2>3, BetEffect DEF KeepsTheRest, Stays
    <3>2. PICK pos, live : StakeOf(r, u, side, amount, pos, live)
      BY <3>1 DEF Stakes
    <3>3. IsStaked(rounds'[r], rounds[r], side, amount, pos.boosted, live)
      <4>1. rounds'[r] = Staked(rounds[r], side, amount, pos.boosted, live)
        BY <3>2 DEF StakeOf
      <4>2. pos.boosted \in Nat /\ live \in Nat /\ amount \in Nat
        BY <3>2 DEF StakeOf, Position
      <4>. QED BY <1>1, <4>1, <4>2, StakedFields
    <3>. QED BY <1>1, <1>2, <3>3 DEF IsStaked
  <2>4. ASSUME NEW u \in User, NEW q \in RoundId, Claim(u, q) PROVE FALSE
    BY <1>3, <2>4 DEF Claim
  <2>5. ~AdvanceTime
    BY <1>2, <1>3, AdvanceEffect DEF Ages, MarketInv
  <2>6. ASSUME NEW q \in RoundId, Settle(q) PROVE q = r
    BY <1>3, <2>6, SettleEffect DEF KeepsTheRest, Stays, MarketInv
  <2>. QED BY <2>1, <2>2, <2>3, <2>4, <2>5, <2>6, NextIsCases DEF NextCases
<1>5. PICK d : Granting(r, d)
  BY <1>4, SettleGrants
<1>6. PICK row \in Row : row = positions[r]
  BY DEF MarketInv, TypeOK, Row
<1>7. PICK round \in Round : round = rounds'[r]
  BY <1>5 DEF Granting
<1>8. \A side \in Side : StakesOn(row, side) = round.pool[side]
  <2>1. StakesOn(row, "Above") + StakesOn(row, "Below")
          = round.pool["Above"] + round.pool["Below"]
    BY <1>1, <1>5, <1>6, <1>7, StakesSavedSplit DEF Granting
  <2>2. /\ StakesOn(row, "Above") <= round.pool["Above"]
        /\ StakesOn(row, "Below") <= round.pool["Below"]
    BY <1>5, <1>6, <1>7 DEF Granting, SoundPools, Side
  <2>3. /\ StakesOn(row, "Above") \in Nat /\ StakesOn(row, "Below") \in Nat
        /\ round.pool["Above"] \in Nat /\ round.pool["Below"] \in Nat
    BY StakesNat DEF Side, Round
  <2>. QED BY <2>1, <2>2, <2>3 DEF Side
<1>9. PICK held, owed \in Int, w, b \in Nat :
        /\ held = escrow'[r] /\ owed = Granted(round, row, d)
        /\ w = Cardinality(Winners(round, row)) /\ b = Cardinality(Bettors(row))
  <2>1. escrow'[r] \in Int
    BY DEF MarketInv, TypeOK
  <2>2. Granted(round, row, d) \in Int
    <3> DEFINE f == [u \in User |-> Grant(round, row[u], d)]
    <3>1. \A u \in User : Grant(round, row[u], d) \in Nat
      BY <1>5, WorthGrows DEF Grant, Granting, Row
    <3>2. \A k \in 1..NumUsers : f[k] \in Int
      BY <3>1 DEF User
    <3> HIDE DEF f
    <3>3. Sum(f, NumUsers) \in Int
      BY <3>2, SumInt
    <3>. QED BY <3>3 DEF Granted, f
  <2>3. IsFiniteSet(User)
    BY FS_Interval DEF User
  <2>4. /\ Cardinality(Winners(round, row)) \in Nat /\ Cardinality(Bettors(row)) \in Nat
    BY <2>3, FS_Subset, FS_CardinalityType DEF Winners, Bettors
  <2>. QED BY <2>1, <2>2, <2>4
<1>10. owed <= held /\ held <= owed + 1 + w + b
  <2>1. /\ SoundPools(round, row) /\ round.outcome # "Void" /\ d \in Nat
        /\ round.pool[round.outcome] > 0
        /\ held = round.pool[round.outcome] + d
    BY <1>5, <1>6, <1>7, <1>9 DEF Granting
  <2>. QED BY <1>8, <1>9, <2>1, GrantsAddUp
<1>11. OwedByRound(r)' = owed
  BY <1>5, <1>6, <1>7, <1>9, GrantingSum
<1>12. held - owed \in 0..(1 + w + b)
  BY <1>10
<1>. QED BY <1>6, <1>7, <1>9, <1>11, <1>12 DEF Winners, Bettors

\* SharesAddUp: a round with a winner hands out all that it holds, but for less than
\* one stroop of each division: one for each winner's bonus, one for each bettor's
\* refund and one for the split between the two.
THEOREM SharesAreAll == Spec => SharesAddUp
<1> DEFINE AllShared == \A r \in RoundId :
       /\ Phase(r) = "open" /\ Phase(r)' = "decided"
       /\ rounds'[r].outcome # "Void"
       /\ StakesSaved(r) = rounds[r].pool["Above"] + rounds[r].pool["Below"]
       => LET winners == {u \in User : /\ positions[r][u] # None
                                       /\ positions[r][u].side = rounds'[r].outcome}
              bettors == {u \in User : positions[r][u] # None}
          IN escrow'[r] - OwedByRound(r)'
               \in 0..(1 + Cardinality(winners) + Cardinality(bettors))
<1>1. MarketInv /\ MarketInv' /\ [Next]_vars => [AllShared]_vars
  <2>1. ASSUME MarketInv, MarketInv', Next PROVE AllShared
    BY <2>1, SharesStep
  <2>. QED BY <2>1
<1>2. Spec => [][AllShared]_vars
  <2> HIDE DEF AllShared
  <2>. QED BY Invariant, <1>1, PTL DEF Spec
<1>. QED BY <1>2, PTL DEF SharesAddUp



-----------------------------------------------------------------------------
(* The contract is a BetSeries: what its callers rely on, step by step *)

LEMMA SeenFacts ==
  ASSUME NEW round \in Round
  PROVE  /\ Seen(round) \in SeenRound /\ Seen(round) # None
         /\ Seen(round).strike = round.strike
         /\ Seen(round).strike_ts = round.strike_ts
         /\ Seen(round).lock_ts = round.lock_ts
         /\ Seen(round).settle_ts = round.settle_ts
         /\ Seen(round).sides = {s \in Side : round.pool[s] > 0}
         /\ Seen(round).status = round.status
         /\ Seen(round).outcome = round.outcome
<1>1. round # None
  BY NoneAssumption
<1>2. Seen(round) =
        [strike |-> round.strike, strike_ts |-> round.strike_ts,
         lock_ts |-> round.lock_ts, settle_ts |-> round.settle_ts,
         sides |-> {s \in Side : round.pool[s] > 0},
         status |-> round.status, outcome |-> round.outcome]
  BY <1>1 DEF Seen
<1>3. Seen(round) \in SeenRound
  BY <1>2 DEF SeenRound, Round
<1>4. Seen(round) # None
  BY <1>3, NoneAssumption
<1>. QED BY <1>2, <1>3, <1>4

StakesKnown == {"none", "staked", "claimed"}

LEMMA SeenTypes ==
  ASSUME TypeOK
  PROVE  /\ SeenRounds \in [RoundId -> SeenRound \cup {None}]
         /\ SeenStakes \in [RoundId -> [User -> StakesKnown]]
<1>1. ASSUME NEW r \in RoundId PROVE Seen(rounds[r]) \in SeenRound \cup {None}
  <2>1. CASE rounds[r] = None
    BY <2>1 DEF Seen
  <2>2. CASE rounds[r] # None
    BY <2>2, SeenFacts DEF TypeOK
  <2>. QED BY <2>1, <2>2
<1>2. ASSUME NEW r \in RoundId, NEW u \in User
      PROVE  StakeSeen(positions[r][u]) \in StakesKnown
  BY DEF StakeSeen, StakesKnown
<1>. QED BY <1>1, <1>2 DEF SeenRounds, SeenStakes

SeenTypesHold ==
  TypeOK => /\ SeenRounds \in [RoundId -> SeenRound \cup {None}]
            /\ SeenStakes \in [RoundId -> [User -> StakesKnown]]

LEMMA SeenTypesNow == SeenTypesHold
BY SeenTypes DEF SeenTypesHold

LEMMA SeenTypesNext == SeenTypesHold'
BY SeenTypesNow, PTL

\* What the next state shows, round by round and stake by stake.
LEMMA SeenNext ==
  /\ SeenRounds' = [r \in RoundId |-> Seen(rounds'[r])]
  /\ SeenStakes' = [r \in RoundId |-> [u \in User |-> StakeSeen(positions'[r][u])]]
BY DEF SeenRounds, SeenStakes, Seen, StakeSeen

SeriesStutter ==
  UNCHANGED <<now, Told, counter, lastStrikeTs, SeenRounds, SeenStakes>>

LEMMA StutterIsSeriesStutter ==
  ASSUME SeriesStutter PROVE UNCHANGED Series!series
BY DEF SeriesStutter, Series!series

LEMMA TablesUnseen ==
  ASSUME UNCHANGED <<rounds, positions>> PROVE UNCHANGED <<SeenRounds, SeenStakes>>
BY DEF SeenRounds, SeenStakes

LEMMA ToldUnseen ==
  ASSUME UNCHANGED oracle PROVE UNCHANGED Told
BY DEF Told, LastPrice, oracle

LEMMA ToldFacts ==
  ASSUME TypeOK
  PROVE  /\ Told \in PriceData \cup {None}
         /\ LastPrice(Feed) # NoPrice =>
              Told = LastPrice(Feed) /\ Told \in PriceData /\ Told # None
<1>1. LastPrice(Feed) \in PriceData \cup {NoPrice}
  BY WickAssumption DEF TypeOK, LastPrice
<1>. QED BY <1>1, NoneAssumption DEF Told

LEMMA CreateIsCreate ==
  ASSUME MarketInv, CreateRound
  PROVE  Series!Create(Feed, config.lock_offset, config.oracle_interval)
<1>1. Opens(counter + 1) /\ KeepsTheRest(counter + 1) /\ counter + 1 \in RoundId
  BY CreateEffect DEF MarketInv, TypeOK, RoundId, CreateRound
<1>2. PICK tick \in PriceData :
        /\ tick = LastPrice(Feed) /\ tick = Told /\ tick # None
        /\ tick.timestamp # lastStrikeTs
  <2>1. LastPrice(Feed) \in PriceData /\ LastPrice(Feed) # NoPrice
        /\ LastPrice(Feed).timestamp # lastStrikeTs
    BY <1>1 DEF Opens, CreateRound, FreshTick
  <2>. QED BY <2>1, ToldFacts DEF MarketInv
<1>3. /\ counter < MaxRounds /\ counter' = counter + 1
      /\ lastStrikeTs' = tick.timestamp /\ now' = now /\ positions' = positions
      /\ Told' = Told
  BY <1>2, ToldUnseen DEF CreateRound, environment, oracle
<1>4. PICK offset, interval \in Nat :
        offset = config.lock_offset /\ interval = config.oracle_interval
  BY <1>1 DEF Opens, Config
<1>5. Seen(rounds'[counter + 1]) =
        [strike |-> tick.price, strike_ts |-> tick.timestamp,
         lock_ts |-> tick.timestamp + offset,
         settle_ts |-> tick.timestamp + interval,
         sides |-> {}, status |-> "Open", outcome |-> "Void"]
  <2>1. PICK round \in Round :
          /\ round = rounds'[counter + 1]
          /\ round.strike = tick.price /\ round.strike_ts = tick.timestamp
          /\ round.lock_ts = tick.timestamp + offset
          /\ round.settle_ts = tick.timestamp + interval
          /\ round.pool = [side \in Side |-> 0]
          /\ round.status = "Open" /\ round.outcome = "Void"
    BY <1>1, <1>2, <1>4 DEF Opens
  <2>2. {s \in Side : round.pool[s] > 0} = {}
    BY <2>1
  <2>3. round # None
    BY NoneAssumption
  <2>. QED BY <2>1, <2>2, <2>3 DEF Seen
<1>6. SeenRounds' = [SeenRounds EXCEPT ![counter + 1] =
        [strike |-> tick.price, strike_ts |-> tick.timestamp,
         lock_ts |-> tick.timestamp + offset,
         settle_ts |-> tick.timestamp + interval,
         sides |-> {}, status |-> "Open", outcome |-> "Void"]]
  <2> DEFINE fresh == [strike |-> tick.price, strike_ts |-> tick.timestamp,
                       lock_ts |-> tick.timestamp + offset,
                       settle_ts |-> tick.timestamp + interval,
                       sides |-> {}, status |-> "Open", outcome |-> "Void"]
  <2>1. Seen(rounds'[counter + 1]) = fresh
    BY <1>5
  <2> HIDE DEF fresh
  <2>2. \A r \in RoundId : r # counter + 1 => Seen(rounds'[r]) = Seen(rounds[r])
    BY <1>1 DEF KeepsTheRest, Stays
  <2>3. SeenRounds' = [SeenRounds EXCEPT ![counter + 1] = fresh]
    BY <1>1, <2>1, <2>2, SeenNext DEF SeenRounds
  <2>. QED BY <2>3 DEF fresh
<1>7. SeenStakes' = SeenStakes
  BY <1>3, SeenNext DEF SeenStakes
<1>8. counter \in Nat /\ lastStrikeTs \in Nat
  BY DEF MarketInv, TypeOK
<1>. QED BY <1>2, <1>3, <1>4, <1>6, <1>7, <1>8 DEF Series!Create, Series!CanCreate

LEMMA BetIsBet ==
  ASSUME MarketInv, MinBet > 0, NEW u \in User, NEW r \in RoundId, NEW side \in Side,
         NEW amount \in BetAmount, Bet(u, r, side, amount)
  PROVE  Series!Bet(Feed, r, u, side)
<1>1. Stakes(r, u, side, amount) /\ KeepsTheRest(r)
  BY BetEffect
<1>2. PICK pos \in Position, live \in Nat :
        /\ StakeOf(r, u, side, amount, pos, live)
        /\ ~pos.claimed /\ positions'[r] = [positions[r] EXCEPT ![u] = pos]
  BY <1>1 DEF Stakes, StakeOf
<1>3. /\ now' = now /\ counter' = counter /\ lastStrikeTs' = lastStrikeTs
      /\ Told' = Told
  BY ToldUnseen DEF Bet, environment, oracle
<1>4. PICK round \in Round : round = rounds[r] /\ round.status = "Open" /\ now < round.lock_ts
  BY <1>1 DEF Stakes
<1>5. PICK after : after = rounds'[r]
  OBVIOUS
<1>6. amount \in Nat /\ amount > 0
  BY <1>1, WickAssumption DEF Stakes
<1>7. IsStaked(after, round, side, amount, pos.boosted, live)
  <2>1. after = Staked(round, side, amount, pos.boosted, live) /\ pos.boosted \in Nat
    BY <1>2, <1>4, <1>5 DEF StakeOf, Position
  <2>. QED BY <1>6, <2>1, StakedFields
<1>8. /\ after \in Round /\ after # None
      /\ after.strike = round.strike /\ after.strike_ts = round.strike_ts
      /\ after.lock_ts = round.lock_ts /\ after.settle_ts = round.settle_ts
      /\ after.status = round.status /\ after.outcome = round.outcome
      /\ \A s \in Side : after.pool[s] =
           IF s = side THEN round.pool[s] + amount ELSE round.pool[s]
  <2>1. after \in Round /\ after # None
    BY <1>7, NoneAssumption DEF IsStaked
  <2>2. \A s \in Side : after.pool[s] = round.pool[s] + (IF s = side THEN amount ELSE 0)
    BY <1>7 DEF IsStaked
  <2>3. \A s \in Side : round.pool[s] \in Nat
    BY DEF Round
  <2>4. \A s \in Side : after.pool[s] =
          IF s = side THEN round.pool[s] + amount ELSE round.pool[s]
    BY <1>6, <2>2, <2>3
  <2>. QED BY <1>7, <2>1, <2>4 DEF IsStaked
<1>9. {s \in Side : after.pool[s] > 0} = {s \in Side : round.pool[s] > 0} \cup {side}
  <2>1. \A s \in Side : round.pool[s] \in Nat
    BY DEF Round
  <2>2. \A s \in Side : after.pool[s] > 0 <=> round.pool[s] > 0 \/ s = side
    BY <1>6, <1>8, <2>1
  <2>. QED BY <2>2
<1>10. Seen(after) = [Seen(round) EXCEPT !.sides = @ \cup {side}]
  <2>1. /\ Seen(round) \in SeenRound
        /\ Seen(round).sides = {s \in Side : round.pool[s] > 0}
        /\ Seen(round).strike = round.strike
        /\ Seen(round).strike_ts = round.strike_ts
        /\ Seen(round).lock_ts = round.lock_ts
        /\ Seen(round).settle_ts = round.settle_ts
        /\ Seen(round).status = round.status
        /\ Seen(round).outcome = round.outcome
    BY SeenFacts
  <2>2. Seen(after) =
          [strike |-> Seen(round).strike, strike_ts |-> Seen(round).strike_ts,
           lock_ts |-> Seen(round).lock_ts, settle_ts |-> Seen(round).settle_ts,
           sides |-> Seen(round).sides \cup {side},
           status |-> Seen(round).status, outcome |-> Seen(round).outcome]
    BY <1>8, <1>9, <2>1 DEF Seen
  <2>3. PICK seen \in SeenRound : seen = Seen(round)
    BY <2>1
  <2>4. [seen EXCEPT !.sides = @ \cup {side}] =
          [strike |-> seen.strike, strike_ts |-> seen.strike_ts,
           lock_ts |-> seen.lock_ts, settle_ts |-> seen.settle_ts,
           sides |-> seen.sides \cup {side},
           status |-> seen.status, outcome |-> seen.outcome]
    <3>1. seen = [strike |-> seen.strike, strike_ts |-> seen.strike_ts,
                  lock_ts |-> seen.lock_ts, settle_ts |-> seen.settle_ts,
                  sides |-> seen.sides,
                  status |-> seen.status, outcome |-> seen.outcome]
      BY DEF SeenRound
    <3>. QED BY <3>1
  <2>. QED BY <2>2, <2>3, <2>4
<1>11. SeenRounds' = [SeenRounds EXCEPT ![r].sides = @ \cup {side}]
  <2>1. \A q \in RoundId : q # r => Seen(rounds'[q]) = Seen(rounds[q])
    BY <1>1 DEF KeepsTheRest, Stays
  <2>2. Seen(rounds'[r]) = [Seen(rounds[r]) EXCEPT !.sides = @ \cup {side}]
    BY <1>4, <1>5, <1>10
  <2>. QED BY <2>1, <2>2, SeenNext DEF SeenRounds
<1>12. SeenStakes' = [SeenStakes EXCEPT ![r][u] = "staked"]
  <2>1. \A q \in RoundId : q # r => positions'[q] = positions[q]
    BY <1>1 DEF KeepsTheRest, Stays
  <2>2. StakeSeen(pos) = "staked"
    BY <1>2, NoneAssumption DEF StakeSeen
  <2>3. positions[r] \in Row
    BY DEF MarketInv, TypeOK, Row
  <2>4. /\ positions'[r][u] = pos
        /\ \A v \in User : v # u => positions'[r][v] = positions[r][v]
    BY <1>2, <2>3 DEF Row
  <2>5. \A q \in RoundId, v \in User :
          StakeSeen(positions'[q][v]) =
            IF q = r /\ v = u THEN "staked" ELSE StakeSeen(positions[q][v])
    BY <2>1, <2>2, <2>4
  <2>. QED BY <2>5, SeenNext DEF SeenStakes
<1>13. /\ SeenRounds[r] # None /\ SeenRounds[r].status = "Open"
       /\ now < SeenRounds[r].lock_ts /\ SeenStakes[r][u] = "none"
  <2>1. SeenRounds[r] = Seen(round) /\ SeenStakes[r][u] = StakeSeen(positions[r][u])
    BY <1>4 DEF SeenRounds, SeenStakes
  <2>2. StakeSeen(positions[r][u]) = "none"
    BY <1>1 DEF Stakes, StakeSeen
  <2>. QED BY <1>4, <2>1, <2>2, SeenFacts
<1>. QED BY <1>3, <1>11, <1>12, <1>13
         DEF Series!Bet, Series!CanBet, Series!HasStatus

LEMMA SettleIsSettle ==
  ASSUME MarketInv, NEW r \in RoundId, Settle(r)
  PROVE  Series!SettleRound(Feed, r)
<1>1. Settles(r) /\ KeepsTheRest(r)
  BY SettleEffect DEF MarketInv
<1>2. /\ now' = now /\ counter' = counter /\ lastStrikeTs' = lastStrikeTs
      /\ Told' = Told /\ positions' = positions
  BY ToldUnseen DEF Settle, environment, oracle
<1>3. PICK round \in Round :
        round = rounds[r] /\ round.status = "Open" /\ now >= round.settle_ts
  BY <1>1 DEF Settles
<1>4. PICK tick \in PriceData : tick = LastPrice(Feed) /\ tick = Told /\ tick # NoPrice
  <2>1. rounds[r] # None
    BY <1>3, NoneAssumption
  <2>2. ~(r > counter)
    BY <2>1 DEF MarketInv, UnopenedInv
  <2>3. counter > 0
    BY <2>2 DEF MarketInv, TypeOK, RoundId
  <2>. QED BY <2>3, ToldFacts DEF MarketInv, OracleInv
<1>5. PICK outcome \in Outcome : outcome = Verdict(round, tick)
  BY DEF Verdict, Outcome
<1>6. PICK after \in Round :
        /\ after = rounds'[r]
        /\ after.strike = round.strike /\ after.strike_ts = round.strike_ts
        /\ after.lock_ts = round.lock_ts /\ after.settle_ts = round.settle_ts
        /\ after.pool = round.pool
        /\ after.status = "Settled" /\ after.outcome = outcome
  <2>1. Sound(round, positions[r], escrow[r], now)
    BY <1>3 DEF MarketInv, RoundsInv
  <2>2. PICK live \in Nat : live = Extended(round.live_until)
    BY <2>1, ExtendedLives DEF Sound, MarketInv
  <2>3. rounds'[r] = [round EXCEPT !.outcome = outcome, !.status = "Settled",
                                   !.live_until = live]
    BY <1>1, <1>3, <1>4, <1>5, <2>2 DEF Settles
  <2>. QED BY <2>3 DEF Round
<1>7. outcome = IF Seen(round).sides # Side \/ tick.price = Seen(round).strike THEN "Void"
                ELSE IF tick.price > Seen(round).strike THEN "Above" ELSE "Below"
  <2>1. Seen(round).sides = {s \in Side : round.pool[s] > 0}
        /\ Seen(round).strike = round.strike
    BY SeenFacts
  <2>2. /\ round.pool["Above"] \in Nat /\ round.pool["Below"] \in Nat
        /\ round.strike \in Int /\ tick.price \in Int
    BY OracleAssumption DEF Round, Side, PriceData
  <2>3. Seen(round).sides # Side <=> round.pool["Above"] = 0 \/ round.pool["Below"] = 0
    BY <2>1, <2>2 DEF Side
  <2>. QED BY <1>4, <1>5, <2>1, <2>2, <2>3 DEF Verdict
<1>8. Seen(after) = [Seen(round) EXCEPT !.status = "Settled", !.outcome = outcome]
  <2>1. /\ Seen(round) \in SeenRound
        /\ Seen(round).sides = {s \in Side : round.pool[s] > 0}
        /\ Seen(round).strike = round.strike
        /\ Seen(round).strike_ts = round.strike_ts
        /\ Seen(round).lock_ts = round.lock_ts
        /\ Seen(round).settle_ts = round.settle_ts
    BY SeenFacts
  <2>2. Seen(after) =
          [strike |-> Seen(round).strike, strike_ts |-> Seen(round).strike_ts,
           lock_ts |-> Seen(round).lock_ts, settle_ts |-> Seen(round).settle_ts,
           sides |-> Seen(round).sides, status |-> "Settled", outcome |-> outcome]
    BY <1>6, <2>1, NoneAssumption DEF Seen
  <2>3. PICK seen \in SeenRound : seen = Seen(round)
    BY <2>1
  <2>4. [seen EXCEPT !.status = "Settled", !.outcome = outcome] =
          [strike |-> seen.strike, strike_ts |-> seen.strike_ts,
           lock_ts |-> seen.lock_ts, settle_ts |-> seen.settle_ts,
           sides |-> seen.sides, status |-> "Settled", outcome |-> outcome]
    <3>1. seen = [strike |-> seen.strike, strike_ts |-> seen.strike_ts,
                  lock_ts |-> seen.lock_ts, settle_ts |-> seen.settle_ts,
                  sides |-> seen.sides,
                  status |-> seen.status, outcome |-> seen.outcome]
      BY DEF SeenRound
    <3>2. [seen EXCEPT !.status = "Settled"] =
            [strike |-> seen.strike, strike_ts |-> seen.strike_ts,
             lock_ts |-> seen.lock_ts, settle_ts |-> seen.settle_ts,
             sides |-> seen.sides, status |-> "Settled", outcome |-> seen.outcome]
      BY <3>1
    <3>3. PICK mid : mid = [seen EXCEPT !.status = "Settled"]
      OBVIOUS
    <3>4. [mid EXCEPT !.outcome = outcome] =
            [strike |-> mid.strike, strike_ts |-> mid.strike_ts,
             lock_ts |-> mid.lock_ts, settle_ts |-> mid.settle_ts,
             sides |-> mid.sides, status |-> mid.status, outcome |-> outcome]
      <4>1. mid = [strike |-> mid.strike, strike_ts |-> mid.strike_ts,
                   lock_ts |-> mid.lock_ts, settle_ts |-> mid.settle_ts,
                   sides |-> mid.sides, status |-> mid.status,
                   outcome |-> mid.outcome]
        BY <3>2, <3>3
      <4>. QED BY <4>1
    <3>5. [seen EXCEPT !.status = "Settled", !.outcome = outcome]
            = [mid EXCEPT !.outcome = outcome]
      BY <3>1, <3>3
    <3>. QED BY <3>2, <3>3, <3>4, <3>5
  <2>. QED BY <2>2, <2>3, <2>4
<1>9. SeenRounds' = [SeenRounds EXCEPT ![r].status = "Settled", ![r].outcome = outcome]
  <2>1. \A q \in RoundId : q # r => Seen(rounds'[q]) = Seen(rounds[q])
    BY <1>1 DEF KeepsTheRest, Stays
  <2>2. Seen(rounds'[r]) = [Seen(rounds[r]) EXCEPT !.status = "Settled",
                                                   !.outcome = outcome]
    BY <1>3, <1>6, <1>8
  <2>. QED BY <2>1, <2>2, SeenNext DEF SeenRounds
<1>10. SeenStakes' = SeenStakes
  BY <1>2, SeenNext DEF SeenStakes
<1>11. /\ SeenRounds[r] # None /\ SeenRounds[r].status = "Open"
       /\ now >= SeenRounds[r].settle_ts
  <2>1. SeenRounds[r] = Seen(round)
    BY <1>3 DEF SeenRounds
  <2>. QED BY <1>3, <2>1, SeenFacts
<1>12. outcome = Series!Verdict(SeenRounds[r], Told.price)
  <2>1. SeenRounds[r] = Seen(round)
    BY <1>3 DEF SeenRounds
  <2>. QED BY <1>4, <1>7, <2>1 DEF Series!Verdict, Series!Side, Side
<1>. QED BY <1>2, <1>9, <1>10, <1>11, <1>12
         DEF Series!SettleRound, Series!CanSettle, Series!HasStatus

LEMMA ClaimIsClaim ==
  ASSUME MarketInv, NEW u \in User, NEW r \in RoundId, Claim(u, r)
  PROVE  Series!Claim(Feed, r, u)
<1>1. Pays(r, u) /\ KeepsTheRest(r)
  BY ClaimEffect DEF MarketInv
<1>2. /\ now' = now /\ counter' = counter /\ lastStrikeTs' = lastStrikeTs
      /\ Told' = Told /\ rounds' = rounds
  BY ToldUnseen DEF Claim, environment, oracle
<1>3. PICK pos \in Position : pos = positions[r][u] /\ ~pos.claimed
  BY <1>1 DEF Pays, Claimable, MarketInv, TypeOK
<1>4. PICK round \in Round : round = rounds[r] /\ round.status = "Settled"
  BY <1>1 DEF Pays, Claimable, Settled, MarketInv, TypeOK
<1>5. SeenRounds' = SeenRounds
  BY <1>2, SeenNext DEF SeenRounds
<1>6. /\ StakeSeen(positions[r][u]) = "staked"
      /\ StakeSeen(positions'[r][u]) = "claimed"
      /\ \A v \in User : v # u => positions'[r][v] = positions[r][v]
  <2>1. positions[r] \in Row
    BY DEF MarketInv, TypeOK, Row
  <2>2. PICK paid : paid = [pos EXCEPT !.claimed = TRUE]
    OBVIOUS
  <2>3. paid \in Position /\ paid.claimed
    BY <2>2 DEF Position
  <2>4. /\ positions'[r][u] = paid
        /\ \A v \in User : v # u => positions'[r][v] = positions[r][v]
    <3>1. positions'[r] = [positions[r] EXCEPT ![u] = paid]
      BY <1>1, <1>3, <2>1, <2>2 DEF Pays, Row
    <3>. QED BY <2>1, <3>1 DEF Row
  <2>. QED BY <1>3, <2>3, <2>4, NoneAssumption DEF StakeSeen
<1>7. SeenStakes' = [SeenStakes EXCEPT ![r][u] = "claimed"]
  <2>1. \A q \in RoundId : q # r => positions'[q] = positions[q]
    BY <1>1 DEF KeepsTheRest, Stays
  <2>2. \A q \in RoundId, v \in User :
          StakeSeen(positions'[q][v]) =
            IF q = r /\ v = u THEN "claimed" ELSE StakeSeen(positions[q][v])
    BY <1>6, <2>1
  <2>. QED BY <2>2, SeenNext DEF SeenStakes
<1>8. /\ SeenRounds[r] # None /\ SeenRounds[r].status = "Settled"
      /\ SeenStakes[r][u] = "staked"
  <2>1. SeenRounds[r] = Seen(round) /\ SeenStakes[r][u] = StakeSeen(positions[r][u])
    BY <1>4 DEF SeenRounds, SeenStakes
  <2>. QED BY <1>4, <1>6, <2>1, SeenFacts
<1>. QED BY <1>2, <1>5, <1>7, <1>8
         DEF Series!Claim, Series!CanClaim, Series!HasStatus

\* What leaves storage is older than a lifetime after its round's strike.
LEMMA TimeIsTime ==
  ASSUME MarketInv, MarketInv', AdvanceTime
  PROVE  Series!TimePasses
<1>1. /\ now' \in {now, now + 1} \cap 0..MaxTime /\ now' \in Nat
      /\ counter' = counter /\ lastStrikeTs' = lastStrikeTs /\ Told' = Told
  BY ToldUnseen, WickAssumption DEF AdvanceTime, oracle, MarketInv, TypeOK
<1>2. /\ SeenRounds' \in [RoundId -> SeenRound \cup {None}]
      /\ SeenStakes' \in [RoundId -> [User -> StakesKnown]]
  BY SeenTypesNext DEF SeenTypesHold, MarketInv
<1>3. ASSUME NEW r \in RoundId
      PROVE  /\ SeenRounds'[r] # SeenRounds[r] =>
                  /\ SeenRounds'[r] = None /\ SeenRounds[r] # None
                  /\ SeenRounds[r].strike_ts + TempBump < now'
             /\ \A u \in User : SeenStakes'[r][u] # SeenStakes[r][u] =>
                  /\ SeenStakes'[r][u] = "none"
                  /\ SeenRounds[r] # None =>
                       SeenRounds[r].strike_ts + TempBump < now'
  <2>1. Ages(r)
    BY AdvanceEffect DEF MarketInv
  <2>2. Sound(rounds[r], positions[r], escrow[r], now)
    BY DEF MarketInv, RoundsInv
  <2>3. SeenRounds'[r] = Seen(rounds'[r]) /\ SeenRounds[r] = Seen(rounds[r])
    BY SeenNext DEF SeenRounds
  <2>4. \A u \in User : /\ SeenStakes'[r][u] = StakeSeen(positions'[r][u])
                        /\ SeenStakes[r][u] = StakeSeen(positions[r][u])
    BY SeenNext DEF SeenStakes
  <2>5. rounds[r] = None => SeenRounds[r] = None
    BY <2>3 DEF Seen
  <2>6. rounds[r] # None =>
          /\ rounds[r] \in Round /\ SeenRounds[r] # None
          /\ SeenRounds[r].strike_ts = rounds[r].strike_ts
          /\ rounds[r].strike_ts \in Nat /\ rounds[r].live_until \in Nat
    <3>1. CASE rounds[r] # None
      <4>1. PICK round \in Round : round = rounds[r]
        BY <2>2, <3>1 DEF Sound
      <4>. QED BY <2>3, <4>1, SeenFacts DEF Round
    <3>. QED BY <3>1
  <2>7. CASE rounds'[r] # rounds[r]
    <3>1. /\ rounds'[r] = None /\ rounds[r] # None /\ rounds[r].live_until < now'
          /\ rounds[r].strike_ts + TempBump <= rounds[r].live_until
      BY <2>1, <2>2, <2>7 DEF Ages, Sound
    <3>2. SeenRounds'[r] = None /\ SeenRounds[r].strike_ts + TempBump < now'
      BY <1>1, <2>3, <2>6, <3>1, WickAssumption DEF Seen
    <3>3. ASSUME NEW u \in User, SeenStakes'[r][u] # SeenStakes[r][u]
          PROVE  SeenStakes'[r][u] = "none"
      <4>1. positions'[r][u] = None
        BY <2>1, <2>4, <3>3 DEF Ages
      <4>. QED BY <2>4, <4>1 DEF StakeSeen
    <3>. QED BY <2>6, <3>1, <3>2, <3>3
  <2>8. CASE rounds'[r] = rounds[r]
    <3>1. SeenRounds'[r] = SeenRounds[r]
      BY <2>3, <2>8
    <3>2. ASSUME NEW u \in User, SeenStakes'[r][u] # SeenStakes[r][u]
          PROVE  /\ SeenStakes'[r][u] = "none"
                 /\ SeenRounds[r] # None =>
                      SeenRounds[r].strike_ts + TempBump < now'
      <4>1. positions'[r][u] = None /\ positions[r][u] # None
            /\ positions[r][u].live_until < now'
        BY <2>1, <2>4, <3>2 DEF Ages
      <4>2. PICK pos \in Position : pos = positions[r][u]
        BY <4>1 DEF MarketInv, TypeOK
      <4>3. rounds[r] # None =>
              rounds[r].strike_ts + TempBump <= pos.live_until
        BY <2>2, <4>1, <4>2 DEF Sound, SoundPosition
      <4>4. pos.live_until \in Nat
        BY DEF Position
      <4>5. SeenRounds[r] # None => SeenRounds[r].strike_ts + TempBump < now'
        BY <1>1, <2>5, <2>6, <4>1, <4>2, <4>3, <4>4, WickAssumption
      <4>. QED BY <2>4, <4>1, <4>5 DEF StakeSeen
    <3>. QED BY <3>1, <3>2
  <2>. QED BY <2>7, <2>8
<1>. QED BY <1>1, <1>2, <1>3
         DEF Series!TimePasses, Series!MayBeGone, Series!RoundId, RoundId,
             Series!Round, SeenRound, Series!Side, Side, Outcome, StakesKnown

\* The feed shows a price from the moment it is set, or an older one of its own.
LEMMA OracleIsPush ==
  ASSUME MarketInv, OracleMoves
  PROVE  SeriesStutter \/ \E p \in Price : Series!Push(Feed, p)
<1>1. /\ now' = now /\ counter' = counter /\ lastStrikeTs' = lastStrikeTs
      /\ SeenRounds' = SeenRounds /\ SeenStakes' = SeenStakes
  BY TablesUnseen DEF OracleMoves
<1>2. ASSUME NEW p \in Price, Told' = [price |-> p, timestamp |-> now]
      PROVE  Series!Push(Feed, p)
  BY <1>1, <1>2 DEF Series!Push
<1>3. CASE Told' = Told
  BY <1>1, <1>3 DEF SeriesStutter
<1>4. ASSUME NEW p \in Price, LastPrice(Feed)' = Quote(p)
      PROVE  Told' = [price |-> p, timestamp |-> now]
  <2>1. Quote(p) \in PriceData
    BY DEF Quote, PriceData, MarketInv, TypeOK
  <2>2. LastPrice(Feed)' # NoPrice
    BY <1>4, <2>1, NoneAssumption
  <2>. QED BY <1>4, <2>2 DEF Told, Quote
<1>5. CASE LastPrice(Feed)' = LastPrice(Feed)
  BY <1>3, <1>5 DEF Told
<1>6. ASSUME NEW p \in Price, UpdatePrice(p)
      PROVE  LastPrice(Feed)' \in {LastPrice(Feed), Quote(p)}
  BY <1>6 DEF UpdatePrice, LastPrice
<1>7. ASSUME NEW s \in Symbol, NEW p \in Price, UpdateAssetPrice(s, p)
      PROVE  LastPrice(Feed)' \in {LastPrice(Feed), Quote(p)}
  <2>1. Quote(p) \in PriceData /\ Quote(p) # NoPrice
    BY NoneAssumption DEF Quote, PriceData, MarketInv, TypeOK
  <2>2. assetPrice'[Feed] = IF Feed = s THEN Quote(p) ELSE assetPrice[Feed]
    BY <1>7, WickAssumption DEF UpdateAssetPrice, MarketInv, TypeOK
  <2>. QED BY <1>7, <2>1, <2>2 DEF UpdateAssetPrice, LastPrice
<1>. QED BY <1>2, <1>4, <1>5, <1>6, <1>7 DEF OracleMoves

LEMMA StepIsSeriesStep ==
  ASSUME MarketInv, MarketInv', MinBet > 0, [Next]_vars
  PROVE  [Series!SeriesNext]_(Series!series)
<1> USE DEF Series!RoundId, RoundId, Series!Side, Side
<1>1. CASE CreateRound
  <2>1. config.lock_offset \in LockOffset /\ config.oracle_interval \in OracleInterval
    BY <1>1 DEF CreateRound, MarketInv, SetupInv
  <2>. QED BY <1>1, <2>1, CreateIsCreate DEF Series!SeriesNext, Series!Opens
<1>2. ASSUME NEW u \in User, NEW r \in RoundId, NEW side \in Side,
             NEW amount \in BetAmount, Bet(u, r, side, amount)
      PROVE  Series!SeriesNext
  BY <1>2, BetIsBet DEF Series!SeriesNext, Series!Moves
<1>3. ASSUME NEW r \in RoundId, Settle(r) PROVE Series!SeriesNext
  BY <1>3, SettleIsSettle DEF Series!SeriesNext, Series!Moves
<1>4. ASSUME NEW u \in User, NEW r \in RoundId, Claim(u, r) PROVE Series!SeriesNext
  BY <1>4, ClaimIsClaim DEF Series!SeriesNext, Series!Moves
<1>5. CASE AdvanceTime
  BY <1>5, TimeIsTime DEF Series!SeriesNext
<1>6. CASE SeriesStutter
  BY <1>6, StutterIsSeriesStutter
<1>7. CASE OracleMoves
  BY <1>6, <1>7, OracleIsPush DEF Series!SeriesNext
<1>8. ASSUME UNCHANGED <<environment, counter, lastStrikeTs, rounds, positions>>
      PROVE  SeriesStutter
  BY <1>8, ToldUnseen, TablesUnseen DEF SeriesStutter, environment
<1>9. ASSUME NEW fee \in FeeBps, NEW offset \in LockOffset, NEW interval \in OracleInterval,
             Initialize(fee, offset, interval)
      PROVE  SeriesStutter
  BY <1>8, <1>9 DEF Initialize, MarketInv, SetupInv
<1>10. ASSUME NEW new, Configure(new) PROVE SeriesStutter
  BY <1>8, <1>10 DEF Configure
<1>11. CASE SweepFees
  BY <1>6, <1>8, <1>11 DEF SweepFees
<1>12. CASE \/ \E bps \in FeeBps : SetFeeBps(bps)
            \/ \E seconds \in LockOffset : SetLockOffset(seconds)
            \/ \E seconds \in OracleInterval : SetOracleInterval(seconds)
  BY <1>6, <1>10, <1>12 DEF SetFeeBps, SetLockOffset, SetOracleInterval
<1>13. CASE UNCHANGED vars
  BY <1>6, <1>8, <1>13 DEF vars, environment, oracle
<1>. QED BY <1>1, <1>2, <1>3, <1>4, <1>5, <1>6, <1>7, <1>9, <1>11, <1>12, <1>13 DEF Next

\* IsBetSeries: whatever the admin changes and whatever expires, callers see a
\* BetSeries: a round opens on a new oracle update only, is settled once with the
\* verdict on the sides it took in, pays a stake once, and stays readable for a
\* lifetime.  A stake of nothing would not show as a side, so min_bet is positive.
THEOREM MarketIsBetSeries == ASSUME MinBet > 0 PROVE Spec => IsBetSeries
<1>1. Init => Series!SeriesInit
  <2> SUFFICES ASSUME Init PROVE Series!SeriesInit
    OBVIOUS
  <2>1. Told = None
    BY WickAssumption DEF Init, OracleInit, Told, LastPrice
  <2>2. SeenRounds = [r \in RoundId |-> None]
    BY DEF Init, SeenRounds, Seen
  <2>3. SeenStakes = [r \in RoundId |-> [u \in User |-> "none"]]
    BY DEF Init, SeenStakes, StakeSeen
  <2>. QED BY <2>1, <2>2, <2>3
           DEF Init, Series!SeriesInit, Series!RoundId, RoundId
<1>. QED BY <1>1, StepIsSeriesStep, Invariant, PTL
         DEF Spec, IsBetSeries, Series!SeriesSpec

=============================================================================
