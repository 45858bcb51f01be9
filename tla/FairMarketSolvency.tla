------------------------- MODULE FairMarketSolvency -------------------------
(***************************************************************************)
(* Under the admin rule of SteadySpec the contract of FairMarket always    *)
(* holds what it owes.  The vault is one pile of tokens, so the induction   *)
(* goes round by round: every round covers what it owes out of what it took *)
(* in, and the vault is the treasury plus what the rounds hold.            *)
(***************************************************************************)
EXTENDS FairMarketProofs

USE BoundsAssumption, ParametersAssumption, NoneAssumption
  DEF BoundsAssumption, ParametersAssumption, NoneAssumption,
      SettlePrice, MaySettle, Locked, FreshTick

\* Nothing exists before initialize, and a round that was never created is
\* empty.
Fresh ==
  /\ config = None => counter = 0 /\ fees = 0
  /\ \A r \in RoundId : r > counter =>
       /\ rounds[r] = None /\ escrow[r] = 0
       /\ \A u \in User : positions[r][u] = None

\* Until it is settled a round holds its two pools, and nobody has claimed.
OpenRoundsHoldTheirPools ==
  \A r \in RoundId : rounds[r] # None /\ rounds[r].status = "Open" =>
    /\ escrow[r] = Total(rounds[r])
    /\ \A u \in User : positions[r][u] # None => ~positions[r][u].claimed

RoundsCoverThemselves == \A r \in RoundId : OwedByRound(r) <= escrow[r]

MoneyInv ==
  /\ TypeInv
  /\ Fresh
  /\ PoolsCoverStakes
  /\ OpenRoundsHoldTheirPools
  /\ RoundsCoverThemselves
  /\ VaultAccounted

-----------------------------------------------------------------------------
(* What a round owes *)

LEMMA OwedNat ==
  ASSUME TypeInv, Fresh, NEW r \in RoundId, NEW u \in User
  PROVE  Owed(r, u) \in Nat
<1>1. CASE rounds[r] = None \/ positions[r][u] = None
  BY <1>1 DEF Owed
<1>2. CASE rounds[r] # None /\ positions[r][u] # None
  <2>1. rounds[r] \in Round /\ positions[r][u] \in Position
    BY <1>2 DEF TypeInv, TypeOK
  <2>2. config \in Config
    <3>1. ~(r > counter)
      BY <1>2 DEF Fresh
    <3>2. counter # 0
      BY <3>1 DEF RoundId, TypeInv, TypeOK
    <3>. QED BY <3>2 DEF Fresh, TypeInv, TypeOK
  <2>3. Settled(r) => Worth(rounds[r], positions[r][u]) \in Nat
    BY <2>1, <2>2, WorthNat DEF TypeInv, WinnersHavePools
  <2>4. positions[r][u].amount \in Nat
    BY <2>1 DEF Position
  <2>. QED BY <2>3, <2>4 DEF Owed
<1>. QED BY <1>1, <1>2

OwedNumbers ==
  TypeInv /\ Fresh => \A r \in RoundId, u \in User : Owed(r, u) \in Nat

LEMMA OwedNumbersNow == OwedNumbers
BY OwedNat DEF OwedNumbers

LEMMA OwedNumbersNext == OwedNumbers'
BY OwedNumbersNow, PTL

LEMMA OwedByRoundNat ==
  ASSUME TypeInv, Fresh, NEW r \in RoundId
  PROVE  /\ OwedByRound(r) \in Nat
         /\ \A u \in User : Owed(r, u) <= OwedByRound(r)
<1> DEFINE f == [u \in User |-> Owed(r, u)]
<1>1. \A u \in 1..NumUsers : f[u] \in Nat /\ f[u] = Owed(r, u)
  BY OwedNat DEF User
<1> HIDE DEF f
<1>2. /\ Sum(f, NumUsers) \in Nat
      /\ \A u \in 1..NumUsers : f[u] <= Sum(f, NumUsers)
  BY <1>1, SumNat
<1>. QED BY <1>1, <1>2 DEF OwedByRound, f, User

OwedByRoundNumbers ==
  TypeInv /\ Fresh => \A r \in RoundId : OwedByRound(r) \in Nat

LEMMA OwedByRoundNow == OwedByRoundNumbers
BY OwedByRoundNat DEF OwedByRoundNumbers

LEMMA OwedByRoundNext == OwedByRoundNumbers'
BY OwedByRoundNow, PTL

\* The invariant gives solvency.
LEMMA MoneyInvSolvent == MoneyInv => Solvent
<1> SUFFICES ASSUME MoneyInv PROVE Solvent
  OBVIOUS
<1> DEFINE owed == [r \in RoundId |-> OwedByRound(r)]
<1>1. \A r \in 1..MaxRounds : /\ owed[r] \in Int /\ escrow[r] \in Int
                              /\ owed[r] <= escrow[r]
  BY OwedByRoundNat DEF MoneyInv, RoundsCoverThemselves, RoundId, TypeInv, TypeOK
<1> HIDE DEF owed
<1>2. Sum(owed, MaxRounds) <= Sum(escrow, MaxRounds)
  BY <1>1, SumMonotone
<1>3. Sum(owed, MaxRounds) \in Int /\ Sum(escrow, MaxRounds) \in Int
  BY <1>1, SumInt
<1>4. vault = fees + Sum(escrow, MaxRounds) /\ fees \in Nat
  BY DEF MoneyInv, VaultAccounted, TypeInv, TypeOK
<1>. QED BY <1>2, <1>3, <1>4 DEF Solvent, owed

\* Owing each user no more means owing no more in all.
LEMMA OwedByRoundDrops ==
  ASSUME TypeInv, Fresh, TypeInv', Fresh', NEW r \in RoundId,
         \A u \in User : Owed(r, u)' <= Owed(r, u)
  PROVE  OwedByRound(r)' <= OwedByRound(r)
<1> DEFINE f == [u \in User |-> Owed(r, u)]
           g == [u \in User |-> Owed(r, u)']
<1>1. \A u \in 1..NumUsers : f[u] \in Int /\ g[u] \in Int /\ g[u] <= f[u]
  <2>1. \A u \in User : Owed(r, u) \in Nat
    BY OwedNat
  <2>2. \A u \in User : Owed(r, u)' \in Nat
    BY OwedNumbersNext DEF OwedNumbers
  <2>. QED BY <2>1, <2>2 DEF User
<1> HIDE DEF f, g
<1>2. Sum(g, NumUsers) <= Sum(f, NumUsers)
  BY <1>1, SumMonotone
<1>3. OwedByRound(r) = Sum(f, NumUsers) /\ OwedByRound(r)' = Sum(g, NumUsers)
  BY DEF OwedByRound, f, g
<1>. QED BY <1>2, <1>3

LEMMA StakesOnDrops ==
  ASSUME TypeOK, TypeOK', NEW r \in RoundId, NEW side \in Side,
         \A u \in User : StakeOn(r, u, side)' <= StakeOn(r, u, side)
  PROVE  StakesOn(r, side)' <= StakesOn(r, side)
<1> DEFINE f == [u \in User |-> StakeOn(r, u, side)]
           g == [u \in User |-> StakeOn(r, u, side)']
<1>1. \A u \in 1..NumUsers : f[u] \in Int /\ g[u] \in Int /\ g[u] <= f[u]
  BY DEF User, StakeOn, TypeOK, Position
<1> HIDE DEF f, g
<1>2. Sum(g, NumUsers) <= Sum(f, NumUsers)
  BY <1>1, SumMonotone
<1>3. StakesOn(r, side) = Sum(f, NumUsers)
      /\ StakesOn(r, side)' = Sum(g, NumUsers)
  BY DEF StakesOn, f, g
<1>. QED BY <1>2, <1>3

\* A step that touches neither a round, its positions nor the fee leaves what
\* the round owes alone.
LEMMA OwedFrame ==
  ASSUME NEW r \in RoundId, NEW u \in User, rounds'[r] = rounds[r],
         positions'[r][u] = positions[r][u], config' = config
  PROVE  Owed(r, u)' = Owed(r, u) /\ ClaimValue(r, u)' = ClaimValue(r, u)
BY DEF Owed, ClaimValue, Claimable, Settled, Worth

LEMMA RoundFrame ==
  ASSUME NEW r \in RoundId, rounds'[r] = rounds[r],
         positions'[r] = positions[r], config' = config
  PROVE  OwedByRound(r)' = OwedByRound(r)
<1>1. \A u \in User : Owed(r, u)' = Owed(r, u)
  BY OwedFrame
<1>. QED BY <1>1 DEF OwedByRound

-----------------------------------------------------------------------------
(* One claim *)

\* Marking a position claimed takes exactly the claim off what the round owes.
LEMMA ClaimTakesItsValue ==
  ASSUME TypeInv, Fresh, TypeInv', Fresh',
         NEW r \in RoundId, NEW u \in User, Claimable(r, u),
         rounds' = rounds, config' = config,
         positions'[r] = [positions[r] EXCEPT ![u].claimed = TRUE]
  PROVE  OwedByRound(r)' = OwedByRound(r) - ClaimValue(r, u)
<1> DEFINE f == [k \in User |-> Owed(r, k)]
           g == [k \in User |-> Owed(r, k)']
<1>1. \A k \in 1..NumUsers : f[k] \in Int /\ g[k] \in Int
  BY OwedNat, OwedNumbersNext DEF OwedNumbers, User
<1>2. \A k \in 1..NumUsers : k # u => g[k] = f[k]
  <2>1. ASSUME NEW k \in User, k # u PROVE Owed(r, k)' = Owed(r, k)
    <3>1. positions'[r][k] = positions[r][k]
      BY <2>1 DEF TypeInv, TypeOK
    <3>. QED BY <3>1, OwedFrame
  <2>. QED BY <2>1 DEF User
<1>3. f[u] = ClaimValue(r, u)
  BY DEF Owed, ClaimValue, Claimable, Settled
<1>4. g[u] = 0
  <2>1. positions[r] \in [User -> Position \cup {None}]
        /\ positions[r][u] \in Position
    BY DEF TypeInv, TypeOK, Claimable
  <2>2. positions'[r][u] = [positions[r][u] EXCEPT !.claimed = TRUE]
    BY <2>1
  <2>3. positions'[r][u].claimed
    BY <2>1, <2>2 DEF Position
  <2>. QED BY <2>3 DEF Owed
<1> HIDE DEF f, g
<1>5. u \in 1..NumUsers
  BY DEF User
<1>6. Sum(g, NumUsers) = Sum(f, NumUsers) - f[u] + g[u]
  BY <1>1, <1>2, <1>5, SumChange
<1>7. Sum(f, NumUsers) \in Int /\ f[u] \in Int
  BY <1>1, <1>5, SumInt
<1>8. OwedByRound(r) = Sum(f, NumUsers) /\ OwedByRound(r)' = Sum(g, NumUsers)
  BY DEF OwedByRound, f, g
<1>. QED BY <1>3, <1>4, <1>6, <1>7, <1>8

-----------------------------------------------------------------------------
(* Settlement *)

\* A winner's claim is at most its share of what is left after the fee.
LEMMA WorthShare ==
  ASSUME NEW round \in Round, NEW pos \in Position, config \in Config,
         round.outcome # "Void", round.pool_up > 0, round.pool_down > 0,
         pos.side = round.outcome
  PROVE  Worth(round, pos) * WinningPool(round)
           <= pos.amount * (Total(round) - Fee(Total(round), config.fee_bps))
<1>1. Total(round) \in Nat /\ config.fee_bps \in 0..MaxFeeBps
  BY DEF Total, Round, Config
<1>2. Fee(Total(round), config.fee_bps) \in 0..Total(round)
  BY <1>1, FeeFacts
<1>3. pos.amount * (Total(round) - Fee(Total(round), config.fee_bps)) \in Nat
  <2>1. pos.amount \in Nat
    BY DEF Position
  <2>. QED BY <1>1, <1>2, <2>1
<1>4. WinningPool(round) \in Nat \ {0}
  BY DEF WinningPool, Round
<1>5. Worth(round, pos)
        = (pos.amount * (Total(round) - Fee(Total(round), config.fee_bps)))
            \div WinningPool(round)
  BY DEF Worth
<1>. QED BY <1>3, <1>4, <1>5, DivisionFacts

\* What settle() leaves of the round and its escrow.
LEMMA SettleEffect ==
  ASSUME MoneyInv, NEW r \in RoundId, Settle(r)
  PROVE  /\ rounds[r] \in Round /\ rounds'[r] \in Round
         /\ config \in Config /\ config' = config
         /\ positions' = positions
         /\ rounds'[r].status = "Settled"
         /\ rounds'[r].pool_up = rounds[r].pool_up
         /\ rounds'[r].pool_down = rounds[r].pool_down
         /\ rounds' = [rounds EXCEPT ![r] = rounds'[r]]
         /\ \E fee \in Nat :
              /\ fee = IF rounds'[r].outcome = "Void" THEN 0
                       ELSE Fee(Total(rounds[r]), config.fee_bps)
              /\ fees' = fees + fee
              /\ escrow' = [escrow EXCEPT ![r] = @ - fee]
<1> DEFINE round == rounds[r]
           price == feed[round.asset][round.settle_ts]
           outcome == Verdict(round, price)
           fee == IF outcome = "Void" THEN 0
                  ELSE Fee(Total(round), config.fee_bps)
<1>1. round \in Round /\ config \in Config
  BY DEF Settle, MoneyInv, TypeInv, TypeOK
<1>2. /\ rounds' = [rounds EXCEPT ![r] = WithOutcome(round, price, outcome)]
      /\ fees' = fees + fee
      /\ escrow' = [escrow EXCEPT ![r] = @ - fee]
      /\ config' = config /\ positions' = positions
  BY DEF Settle
<1>3. Total(round) \in Nat /\ config.fee_bps \in 0..MaxFeeBps
  BY <1>1 DEF Total, Round, Config
<1>4. fee \in Nat
  BY <1>3, FeeFacts
<1> HIDE DEF price, outcome
<1>5. rounds'[r] = WithOutcome(round, price, outcome)
  BY <1>2 DEF MoneyInv, TypeInv, TypeOK
<1>6. /\ rounds'[r].status = "Settled"
      /\ rounds'[r].outcome = outcome
      /\ rounds'[r].pool_up = round.pool_up
      /\ rounds'[r].pool_down = round.pool_down
  BY <1>1, <1>5 DEF WithOutcome, Round
<1>7. rounds'[r] \in Round
  BY SettleType DEF MoneyInv, TypeInv
<1>8. rounds' = [rounds EXCEPT ![r] = rounds'[r]]
  BY <1>2, <1>5
<1>9. fee = IF rounds'[r].outcome = "Void" THEN 0
             ELSE Fee(Total(rounds[r]), config.fee_bps)
  BY <1>6
<1> HIDE DEF fee
<1>. QED BY <1>1, <1>2, <1>4, <1>6, <1>7, <1>8, <1>9

\* The winners' claims, each rounded down, add up to no more than the pools less
\* the fee; a void round owes the stakes it already owed.
LEMMA SettlementCovered ==
  ASSUME MoneyInv, NEW r \in RoundId, Settle(r), TypeInv', Fresh'
  PROVE  OwedByRound(r)' <= escrow'[r]
<1> USE DEF MoneyInv
<1>1. PICK fee \in Nat :
        /\ fee = IF rounds'[r].outcome = "Void" THEN 0
                 ELSE Fee(Total(rounds[r]), config.fee_bps)
        /\ escrow' = [escrow EXCEPT ![r] = @ - fee]
  BY SettleEffect
<1>2. rounds[r] # None /\ rounds[r].status = "Open"
  BY SettleEffect DEF Settle, Round
<1>3. escrow[r] = Total(rounds[r])
      /\ \A u \in User : positions[r][u] # None => ~positions[r][u].claimed
  BY <1>2 DEF OpenRoundsHoldTheirPools
<1>4. escrow'[r] = escrow[r] - fee
  BY <1>1 DEF TypeInv, TypeOK
<1>5. positions' = positions /\ config' = config /\ config \in Config
      /\ rounds'[r] \in Round /\ rounds'[r].status = "Settled"
      /\ Total(rounds'[r]) = Total(rounds[r])
  BY SettleEffect DEF Total
<1>6. Settled(r)' /\ ~Settled(r)
  BY <1>2, <1>5, NoneAssumption DEF Settled
<1>7. CASE rounds'[r].outcome = "Void"
  <2>1. ASSUME NEW u \in User PROVE Owed(r, u)' = Owed(r, u)
    <3>1. CASE positions[r][u] = None
      BY <1>5, <3>1 DEF Owed
    <3>2. CASE positions[r][u] # None
      <4>1. Owed(r, u) = positions[r][u].amount
        BY <1>2, <1>3, <1>6, <3>2 DEF Owed
      <4>2. Worth(rounds[r], positions[r][u])' = positions[r][u].amount
        <5>1. positions[r][u] \in Position
          BY <3>2 DEF TypeInv, TypeOK
        <5>2. positions[r][u].side # "Void"
          BY <5>1 DEF Position, Side
        <5>. QED BY <1>5, <1>7, <5>2 DEF Worth
      <4>3. Owed(r, u)' = Worth(rounds[r], positions[r][u])'
        BY <1>3, <1>5, <1>6, <3>2 DEF Owed
      <4>. QED BY <4>1, <4>2, <4>3
    <3>. QED BY <3>1, <3>2
  <2>2. OwedByRound(r)' = OwedByRound(r)
    BY <2>1 DEF OwedByRound
  <2>3. escrow[r] \in Int
    BY DEF TypeInv, TypeOK
  <2>. QED BY <1>1, <1>4, <1>7, <2>2, <2>3 DEF RoundsCoverThemselves
<1>8. CASE rounds'[r].outcome # "Void"
  <2> DEFINE new == rounds'[r]
             w == WinningPool(new)
             d == Total(new) - Fee(Total(new), config.fee_bps)
             x == [u \in User |-> Owed(r, u)']
             a == [u \in User |-> StakeOn(r, u, new.outcome)]
  <2>1. new.pool_up > 0 /\ new.pool_down > 0 /\ new.outcome \in Side
    BY <1>5, <1>6, <1>8 DEF TypeInv, WinnersHavePools, Round, Outcome, Side
  <2>2. w \in Nat \ {0}
    BY <1>5, <2>1 DEF WinningPool, Round
  <2>3. d \in Nat /\ d = Total(rounds[r]) - fee
    <3>1. Total(new) \in Nat /\ config.fee_bps \in 0..MaxFeeBps
      BY <1>5 DEF Total, Round, Config
    <3>2. Fee(Total(new), config.fee_bps) \in 0..Total(new)
      BY <3>1, FeeFacts
    <3>3. fee = Fee(Total(new), config.fee_bps)
      BY <1>1, <1>5, <1>8
    <3>. QED BY <1>5, <3>1, <3>2, <3>3
  <2>4. \A u \in User : /\ Owed(r, u)' \in Nat
                        /\ StakeOn(r, u, new.outcome) \in Nat
                        /\ Owed(r, u)' * w <= StakeOn(r, u, new.outcome) * d
    <3>1. TAKE u \in User
    <3>2. Owed(r, u)' \in Nat
      BY OwedNumbersNext DEF OwedNumbers
    <3>3. StakeOn(r, u, new.outcome) \in Nat
      BY DEF StakeOn, TypeInv, TypeOK, Position
    <3>4. CASE positions[r][u] = None \/ positions[r][u].side # new.outcome
      <4>1. Owed(r, u)' = 0
        BY <1>5, <1>6, <1>8, <3>4 DEF Owed, Worth
      <4>2. StakeOn(r, u, new.outcome) = 0
        BY <3>4 DEF StakeOn
      <4>. QED BY <3>2, <3>3, <4>1, <4>2, <2>2, <2>3
    <3>5. CASE positions[r][u] # None /\ positions[r][u].side = new.outcome
      <4>1. positions[r][u] \in Position
        BY <3>5 DEF TypeInv, TypeOK
      <4>2. Owed(r, u)' = Worth(new, positions[r][u])
        BY <1>3, <1>5, <1>6, <3>5 DEF Owed, Worth, Settled
      <4>3. StakeOn(r, u, new.outcome) = positions[r][u].amount
        BY <3>5 DEF StakeOn
      <4>4. Worth(new, positions[r][u]) * w <= positions[r][u].amount * d
        BY <1>5, <1>8, <2>1, <3>5, <4>1, WorthShare
      <4>. QED BY <3>2, <3>3, <4>2, <4>3, <4>4
    <3>. QED BY <3>4, <3>5
  <2>5. Sum(a, NumUsers) <= w
    <3>1. StakesOn(r, new.outcome) = Sum(a, NumUsers)
      BY DEF StakesOn
    <3>2. new.pool_up = rounds[r].pool_up /\ new.pool_down = rounds[r].pool_down
      BY SettleEffect
    <3>3. CASE new.outcome = "Up"
      BY <1>2, <3>1, <3>2, <3>3 DEF PoolsCoverStakes, WinningPool
    <3>4. CASE new.outcome = "Down"
      BY <1>2, <3>1, <3>2, <3>4 DEF PoolsCoverStakes, WinningPool
    <3>. QED BY <2>1, <3>3, <3>4 DEF Side
  <2>6. OwedByRound(r)' = Sum(x, NumUsers)
    BY DEF OwedByRound
  <2>7. \A k \in 1..NumUsers : /\ x[k] \in Nat /\ a[k] \in Nat
                               /\ x[k] * w <= a[k] * d
    BY <2>4 DEF User
  <2> HIDE DEF w, d, x, a
  <2>8. Sum(x, NumUsers) * w <= Sum(a, NumUsers) * d
    BY <2>2, <2>3, <2>7, SumShares
  <2>9. Sum(x, NumUsers) \in Nat /\ Sum(a, NumUsers) \in Nat
    BY <2>7, SumNat
  <2>10. Sum(x, NumUsers) <= d
    <3>1. Sum(a, NumUsers) * d <= w * d
      BY <2>2, <2>3, <2>5, <2>9,
         \A i, j, k \in Nat : i <= j => i * k <= j * k
    <3>2. Sum(x, NumUsers) * w <= d * w
      BY <2>2, <2>3, <2>8, <2>9, <3>1
    <3>. QED BY <2>2, <2>3, <2>9, <3>2,
                \A i, j \in Nat, k \in Nat \ {0} : i * k <= j * k => i <= j
  <2>. QED BY <1>3, <1>4, <2>3, <2>6, <2>10
<1>. QED BY <1>7, <1>8

-----------------------------------------------------------------------------
(* Every step preserves the invariant *)

\* The pools and the stakes on them change only in bet.
LEMMA PoolsStayCovered ==
  ASSUME MoneyInv, TypeInv', NEW r \in RoundId, rounds'[r] # None,
         rounds[r] # None,
         rounds'[r].pool_up = rounds[r].pool_up,
         rounds'[r].pool_down = rounds[r].pool_down,
         \A u \in User, side \in Side :
           StakeOn(r, u, side)' <= StakeOn(r, u, side)
  PROVE  /\ StakesOn(r, "Up")' <= rounds'[r].pool_up
         /\ StakesOn(r, "Down")' <= rounds'[r].pool_down
<1> USE DEF MoneyInv, TypeInv
<1>1. \A side \in Side : StakesOn(r, side)' <= StakesOn(r, side)
  BY StakesOnDrops
<1>2. \A side \in Side : StakesOn(r, side) \in Int /\ StakesOn(r, side)' \in Int
  <2>1. TAKE side \in Side
  <2> DEFINE f == [u \in User |-> StakeOn(r, u, side)]
             g == [u \in User |-> StakeOn(r, u, side)']
  <2>2. \A k \in 1..NumUsers : f[k] \in Int /\ g[k] \in Int
    BY DEF User, StakeOn, TypeOK, Position
  <2>3. StakesOn(r, side) = Sum(f, NumUsers)
        /\ StakesOn(r, side)' = Sum(g, NumUsers)
    BY DEF StakesOn
  <2> HIDE DEF f, g
  <2>. QED BY <2>2, <2>3, SumInt
<1>3. rounds[r] \in Round
  BY DEF TypeOK
<1>. QED BY <1>1, <1>2, <1>3 DEF PoolsCoverStakes, Side, Round

LEMMA SameStakes ==
  ASSUME TypeOK, NEW r \in RoundId, NEW u \in User, NEW side \in Side,
         positions'[r][u] = positions[r][u]
  PROVE  StakeOn(r, u, side)' = StakeOn(r, u, side)
         /\ StakeOn(r, u, side) \in Nat
BY DEF StakeOn, TypeOK, Position

\* The calls that touch neither rounds, positions nor escrows.
LEMMA UntouchedMoney ==
  ASSUME MoneyInv, TypeInv', rounds' = rounds, positions' = positions,
         escrow' = escrow, counter' = counter,
         config' = None => fees' = 0 /\ config = None,
         vault' - fees' = vault - fees,
         \A r \in RoundId, u \in User :
           Fresh' => Owed(r, u)' <= Owed(r, u)
  PROVE  MoneyInv'
<1> USE DEF MoneyInv
<1>1. Fresh'
  BY DEF Fresh
<1>2. PoolsCoverStakes'
  <2>1. SUFFICES ASSUME NEW r \in RoundId, rounds'[r] # None
                 PROVE  /\ StakesOn(r, "Up")' <= rounds'[r].pool_up
                        /\ StakesOn(r, "Down")' <= rounds'[r].pool_down
    BY DEF PoolsCoverStakes
  <2>2. \A u \in User, side \in Side :
          StakeOn(r, u, side)' <= StakeOn(r, u, side)
    BY SameStakes DEF TypeInv
  <2>. QED BY <2>1, <2>2, PoolsStayCovered
<1>3. OpenRoundsHoldTheirPools'
  BY DEF OpenRoundsHoldTheirPools, Total
<1>4. RoundsCoverThemselves'
  <2>1. SUFFICES ASSUME NEW r \in RoundId
                 PROVE  OwedByRound(r)' <= escrow'[r]
    BY DEF RoundsCoverThemselves
  <2>2. OwedByRound(r)' <= OwedByRound(r)
    BY <1>1, OwedByRoundDrops
  <2>3. OwedByRound(r) \in Int /\ escrow[r] \in Int
    BY OwedByRoundNat DEF TypeInv, TypeOK
  <2>4. OwedByRound(r)' \in Int
    <3>1. \A u \in User : Owed(r, u)' \in Nat
      BY <1>1, OwedNumbersNext DEF OwedNumbers
    <3> DEFINE g == [u \in User |-> Owed(r, u)']
    <3>2. \A k \in 1..NumUsers : g[k] \in Int
      BY <3>1 DEF User
    <3>3. OwedByRound(r)' = Sum(g, NumUsers)
      BY DEF OwedByRound
    <3> HIDE DEF g
    <3>. QED BY <3>2, <3>3, SumInt
  <2>. QED BY <2>2, <2>3, <2>4 DEF RoundsCoverThemselves
<1>5. VaultAccounted'
  <2>1. Sum(escrow, MaxRounds) \in Int
    BY SumInt DEF TypeInv, TypeOK, RoundId
  <2>2. fees \in Int /\ fees' \in Int /\ vault \in Int /\ vault' \in Int
    BY DEF TypeInv, TypeOK
  <2>. QED BY <2>1, <2>2 DEF VaultAccounted
<1>. QED BY <1>1, <1>2, <1>3, <1>4, <1>5

LEMMA InitializeMoney ==
  ASSUME MoneyInv, TypeInv', NEW fee \in FeeBps, NEW offset \in LockOffset,
         Initialize(fee, offset)
  PROVE  MoneyInv'
<1> USE DEF MoneyInv
<1>1. counter = 0 /\ fees = 0
  BY DEF Initialize, Fresh
<1>2. \A r \in RoundId : rounds[r] = None
  BY <1>1 DEF Fresh, RoundId
<1>3. \A r \in RoundId, u \in User : Owed(r, u)' <= Owed(r, u)
  BY <1>2 DEF Initialize, Owed
<1>4. config' # None
  <2>1. fee \in 0..MaxFeeBps /\ offset \in Nat
    BY DEF Initialize
  <2>2. config' = [fee_bps |-> fee, lock_offset |-> offset]
    BY DEF Initialize
  <2>3. config' \in Config
    BY <2>1, <2>2 DEF Config
  <2>. QED BY <2>3
<1>. QED BY <1>1, <1>3, <1>4, UntouchedMoney DEF Initialize, TypeInv, TypeOK

\* A higher fee lowers every claim on a round that has a winner; a lower one is
\* only set, under the admin rule, when no such claim is left.
LEMMA SetFeeOwed ==
  ASSUME MoneyInv, NEW bps \in FeeBps, SetFeeBps(bps), NoFeeCutWhileOwed,
         NEW r \in RoundId, NEW u \in User
  PROVE  Owed(r, u)' <= Owed(r, u)
<1> USE DEF MoneyInv
<1> DEFINE round == rounds[r]
           pos == positions[r][u]
           old == config.fee_bps
           d(rate) == Total(round) - Fee(Total(round), rate)
<1>1. config \in Config /\ old \in 0..MaxFeeBps
      /\ config' = [config EXCEPT !.fee_bps = bps] /\ bps \in 0..MaxFeeBps
      /\ config'.fee_bps = bps /\ rounds' = rounds /\ positions' = positions
  BY DEF SetFeeBps, TypeInv, TypeOK, Config
<1>2. Owed(r, u) \in Nat
  BY OwedNat
<1>3. CASE ~(Claimable(r, u) /\ round.outcome = pos.side)
  <2>1. Owed(r, u)' = Owed(r, u)
    <3>1. CASE ~Claimable(r, u)
      BY <1>1, <3>1 DEF Claimable, Owed, Settled
    <3>2. CASE Claimable(r, u) /\ round.outcome # pos.side
      <4>1. Worth(round, pos)' = Worth(round, pos)
        BY <1>1, <3>2 DEF Worth
      <4>. QED BY <1>1, <4>1 DEF Owed, Settled
    <3>. QED BY <1>3, <3>1, <3>2
  <2>. QED BY <1>2, <2>1
<1>4. CASE Claimable(r, u) /\ round.outcome = pos.side
  <2>1. old <= bps
    <3>1. ~(config'.fee_bps < config.fee_bps)
      BY <1>1, <1>4 DEF NoFeeCutWhileOwed
    <3>. QED BY <1>1, <3>1
  <2>2. round \in Round /\ pos \in Position
    BY <1>4 DEF Claimable, Settled, TypeInv, TypeOK
  <2>3. Total(round) \in Nat /\ pos.amount \in Nat /\ pos.side # "Void"
    BY <2>2 DEF Round, Position, Total, Side
  <2>4. d(old) \in Nat /\ d(bps) \in Nat /\ d(bps) <= d(old)
    <3>1. /\ Fee(Total(round), old) \in 0..Total(round)
          /\ Fee(Total(round), bps) \in 0..Total(round)
          /\ Fee(Total(round), old) <= Fee(Total(round), bps)
      BY <1>1, <2>1, <2>3, FeeFacts
    <3>. QED BY <2>3, <3>1
  <2>5. WinningPool(round) \in Nat \ {0}
    BY <1>4, <2>2, <2>3
       DEF TypeInv, WinnersHavePools, Claimable, WinningPool, Round
  <2>6. /\ Owed(r, u) = (pos.amount * d(old)) \div WinningPool(round)
        /\ Owed(r, u)' = (pos.amount * d(bps)) \div WinningPool(round)
    <3>1. Owed(r, u) = Worth(round, pos)
      BY <1>4 DEF Owed, Claimable, Settled
    <3>2. Owed(r, u)' = Worth(round, pos)'
      BY <1>1, <1>4 DEF Owed, Claimable, Settled
    <3>3. Worth(round, pos) = (pos.amount * d(old)) \div WinningPool(round)
      BY <1>4, <2>3 DEF Worth
    <3>4. Worth(round, pos)' = (pos.amount * d(bps)) \div WinningPool(round)
      BY <1>1, <1>4, <2>3 DEF Worth, Total, WinningPool, Fee
    <3>. QED BY <3>1, <3>2, <3>3, <3>4
  <2> HIDE DEF d, round, pos, old
  <2>7. /\ pos.amount * d(bps) \in Nat /\ pos.amount * d(old) \in Nat
        /\ pos.amount * d(bps) <= pos.amount * d(old)
    BY <2>3, <2>4, \A i, j, k \in Nat : i <= j => k * i \in Nat /\ k * j \in Nat
                                                 /\ k * i <= k * j
  <2>. QED BY <2>5, <2>6, <2>7, DivisionFacts
<1>. QED BY <1>3, <1>4

LEMMA SetFeeMoney ==
  ASSUME MoneyInv, TypeInv', NEW bps \in FeeBps, SetFeeBps(bps),
         NoFeeCutWhileOwed
  PROVE  MoneyInv'
<1>1. config' # None
  BY DEF SetFeeBps, MoneyInv, TypeInv, TypeOK, Config
<1>. QED BY <1>1, SetFeeOwed, UntouchedMoney
         DEF SetFeeBps, MoneyInv, TypeInv, TypeOK

LEMMA SetLockMoney ==
  ASSUME MoneyInv, TypeInv', NEW seconds \in LockOffset, SetLockOffset(seconds)
  PROVE  MoneyInv'
<1> USE DEF MoneyInv
<1>1. config' # None /\ config'.fee_bps = config.fee_bps
  BY DEF SetLockOffset, TypeInv, TypeOK, Config
<1>2. \A r \in RoundId, u \in User : Owed(r, u)' = Owed(r, u)
                                    /\ Owed(r, u) \in Nat
  BY <1>1, OwedNat DEF SetLockOffset, Owed, Settled, Worth
<1>. QED BY <1>1, <1>2, UntouchedMoney DEF SetLockOffset, TypeInv, TypeOK

LEMMA SweepMoney ==
  ASSUME MoneyInv, TypeInv', SweepFees
  PROVE  MoneyInv'
<1> USE DEF MoneyInv
<1>1. \A r \in RoundId, u \in User : Owed(r, u)' = Owed(r, u)
                                    /\ Owed(r, u) \in Nat
  BY OwedFrame, OwedNat DEF SweepFees
<1>. QED BY <1>1, UntouchedMoney DEF SweepFees, TypeInv, TypeOK

LEMMA LateTickMoney ==
  ASSUME MoneyInv, TypeInv', NEW a, NEW tick, NEW price, LateTick(a, tick, price)
  PROVE  MoneyInv'
<1> USE DEF MoneyInv
<1>1. \A r \in RoundId, u \in User : Owed(r, u)' = Owed(r, u)
                                    /\ Owed(r, u) \in Nat
  BY OwedFrame, OwedNat DEF LateTick
<1>. QED BY <1>1, UntouchedMoney DEF LateTick, Fresh, TypeInv, TypeOK

LEMMA CreateRoundMoney ==
  ASSUME MoneyInv, TypeInv', NEW a \in Asset, NEW tick \in Tick,
         CreateRound(a, tick)
  PROVE  MoneyInv'
<1> USE DEF MoneyInv
<1>1. PICK id \in RoundId : id = counter + 1 /\ counter \in Nat
  BY DEF CreateRound, TypeInv, TypeOK, RoundId
<1>2. rounds[id] = None /\ escrow[id] = 0
      /\ \A u \in User : positions[id][u] = None
  BY <1>1 DEF Fresh
<1>3. /\ counter' = id /\ config' = config /\ config # None
      /\ positions' = positions /\ escrow' = escrow
      /\ fees' = fees /\ vault' = vault
      /\ \A r \in RoundId : r # id => rounds'[r] = rounds[r]
  BY <1>1 DEF CreateRound, TypeInv, TypeOK
<1>4. rounds'[id].pool_up = 0 /\ rounds'[id].pool_down = 0
      /\ rounds'[id].status = "Open"
  BY <1>1 DEF CreateRound, TypeInv, TypeOK
<1>5. Fresh'
  <2>1. ASSUME NEW r \in RoundId, r > counter'
        PROVE  r > counter /\ r # id
    BY <1>1, <1>3, <2>1 DEF RoundId
  <2>. QED BY <1>3, <2>1 DEF Fresh
<1>6. ASSUME NEW r \in RoundId, r # id
      PROVE  /\ rounds'[r] = rounds[r]
             /\ OwedByRound(r)' = OwedByRound(r)
             /\ StakesOn(r, "Up")' = StakesOn(r, "Up")
             /\ StakesOn(r, "Down")' = StakesOn(r, "Down")
  BY <1>3, <1>6, RoundFrame DEF StakesOn, StakeOn
<1> DEFINE zero == [u \in User |-> 0]
<1>7. Sum(zero, NumUsers) = 0
  <2>1. \A k \in 1..NumUsers : zero[k] \in Int /\ zero[k] = zero[k] - zero[k]
    BY DEF User
  <2> HIDE DEF zero
  <2>2. Sum(zero, NumUsers) = Sum(zero, NumUsers) - Sum(zero, NumUsers)
    BY <2>1, SumMinus
  <2>3. Sum(zero, NumUsers) \in Int
    BY <2>1, SumInt
  <2>. QED BY <2>2, <2>3
<1>8. OwedByRound(id)' = 0 /\ StakesOn(id, "Up")' = 0 /\ StakesOn(id, "Down")' = 0
  <2>1. \A u \in User : positions'[id][u] = None
    BY <1>2, <1>3
  <2>2. \A u \in User : Owed(id, u)' = 0
    BY <2>1 DEF Owed
  <2>3. \A u \in User : StakeOn(id, u, "Up")' = 0 /\ StakeOn(id, u, "Down")' = 0
    BY <2>1 DEF StakeOn
  <2>. QED BY <1>7, <2>2, <2>3 DEF OwedByRound, StakesOn
<1>9. PoolsCoverStakes'
  <2>1. ASSUME NEW r \in RoundId, rounds'[r] # None
        PROVE  /\ StakesOn(r, "Up")' <= rounds'[r].pool_up
               /\ StakesOn(r, "Down")' <= rounds'[r].pool_down
    <3>1. CASE r = id
      BY <1>4, <1>8, <3>1
    <3>2. CASE r # id
      BY <1>6, <2>1, <3>2 DEF PoolsCoverStakes
    <3>. QED BY <3>1, <3>2
  <2>. QED BY <2>1 DEF PoolsCoverStakes
<1>10. OpenRoundsHoldTheirPools'
  BY <1>2, <1>3, <1>4 DEF OpenRoundsHoldTheirPools, Total
<1>11. RoundsCoverThemselves'
  <2>1. ASSUME NEW r \in RoundId PROVE OwedByRound(r)' <= escrow'[r]
    <3>1. CASE r = id
      BY <1>2, <1>3, <1>8, <3>1
    <3>2. CASE r # id
      BY <1>3, <1>6, <3>2 DEF RoundsCoverThemselves
    <3>. QED BY <3>1, <3>2
  <2>. QED BY <2>1 DEF RoundsCoverThemselves
<1>12. VaultAccounted'
  BY <1>3 DEF VaultAccounted
<1>. QED BY <1>5, <1>9, <1>10, <1>11, <1>12

\* Money entering or leaving one round moves the vault by as much.
LEMMA VaultFollowsRound ==
  ASSUME MoneyInv, NEW r \in RoundId, NEW delta \in Int, NEW cut \in Int,
         escrow' = [escrow EXCEPT ![r] = @ + delta],
         fees' = fees + cut, vault' = vault + delta + cut
  PROVE  VaultAccounted'
<1> USE DEF MoneyInv
<1>1. \A k \in 1..MaxRounds : escrow[k] \in Int /\ escrow'[k] \in Int
                             /\ (k # r => escrow'[k] = escrow[k])
  BY DEF TypeInv, TypeOK, RoundId
<1>2. r \in 1..MaxRounds /\ escrow'[r] = escrow[r] + delta
  BY DEF TypeInv, TypeOK, RoundId
<1>3. Sum(escrow', MaxRounds) = Sum(escrow, MaxRounds) - escrow[r] + escrow'[r]
  <2> DEFINE f == escrow
             g == escrow'
  <2>1. /\ \A k \in 1..MaxRounds : f[k] \in Int /\ g[k] \in Int
        /\ \A k \in 1..MaxRounds : k # r => g[k] = f[k]
    BY <1>1
  <2> HIDE DEF f, g
  <2>2. Sum(g, MaxRounds) = Sum(f, MaxRounds) - f[r] + g[r]
    BY <1>2, <2>1, SumChange
  <2>. QED BY <2>2 DEF f, g
<1>4. Sum(escrow, MaxRounds) \in Int
  BY <1>1, SumInt
<1>. QED BY <1>1, <1>2, <1>3, <1>4 DEF VaultAccounted, TypeInv, TypeOK

LEMMA SettleMoney ==
  ASSUME MoneyInv, TypeInv', NEW r \in RoundId, Settle(r)
  PROVE  MoneyInv'
<1> USE DEF MoneyInv
<1>1. PICK fee \in Nat : fees' = fees + fee
                       /\ escrow' = [escrow EXCEPT ![r] = @ - fee]
  BY SettleEffect
<1>2. /\ config' = config /\ positions' = positions /\ config # None
      /\ counter' = counter /\ vault' = vault
      /\ rounds[r] # None /\ rounds'[r] # None /\ rounds'[r].status = "Settled"
      /\ rounds'[r].pool_up = rounds[r].pool_up
      /\ rounds'[r].pool_down = rounds[r].pool_down
  BY SettleEffect DEF Settle
<1>3. \A s \in RoundId : s # r => rounds'[s] = rounds[s] /\ escrow'[s] = escrow[s]
  BY <1>1, SettleEffect DEF TypeInv, TypeOK
<1>4. Fresh'
  <2>1. ~(r > counter)
    BY <1>2 DEF Fresh
  <2>. QED BY <1>2, <1>3, <2>1 DEF Fresh
<1>5. PoolsCoverStakes'
  BY <1>2, <1>3 DEF PoolsCoverStakes, StakesOn, StakeOn
<1>6. OpenRoundsHoldTheirPools'
  BY <1>2, <1>3 DEF OpenRoundsHoldTheirPools, Total
<1>7. RoundsCoverThemselves'
  <2>1. OwedByRound(r)' <= escrow'[r]
    BY <1>4, SettlementCovered
  <2>2. \A s \in RoundId : s # r => OwedByRound(s)' <= escrow'[s]
    BY <1>2, <1>3, RoundFrame DEF RoundsCoverThemselves
  <2>. QED BY <2>1, <2>2 DEF RoundsCoverThemselves
<1>8. VaultAccounted'
  <2>1. escrow' = [escrow EXCEPT ![r] = @ + (-fee)]
    BY <1>1 DEF TypeInv, TypeOK
  <2>2. vault' = vault + (-fee) + fee
    BY <1>2 DEF TypeInv, TypeOK
  <2>3. -fee \in Int /\ fee \in Int
    OBVIOUS
  <2>. QED BY <1>1, <2>1, <2>2, <2>3, VaultFollowsRound
<1>. QED BY <1>4, <1>5, <1>6, <1>7, <1>8

\* The step of bet on the round it is placed on: the pool, the stakes and what
\* the round owes all grow by the amount.
LEMMA BetRound ==
  ASSUME MoneyInv, TypeInv', Fresh', NEW u \in User, NEW r \in RoundId,
         NEW side \in Side, NEW amount \in BetAmount, Bet(u, r, side, amount)
  PROVE  /\ OwedByRound(r)' = OwedByRound(r) + amount
         /\ \A s \in Side : StakesOn(r, s)'
                = StakesOn(r, s) + IF s = side THEN amount ELSE 0
<1> USE DEF MoneyInv
<1>1. amount \in Nat /\ rounds[r] \in Round /\ u \in 1..NumUsers
  BY DEF Bet, TypeInv, TypeOK, User
<1>2. /\ positions[r][u] = None
      /\ positions'[r][u] = [side |-> side, amount |-> amount,
                             claimed |-> FALSE, live_until |-> now + TempBump]
      /\ \A k \in User : k # u => positions'[r][k] = positions[r][k]
      /\ config' = config
  BY DEF Bet, TypeInv, TypeOK
<1>3. rounds[r].status = "Open" /\ rounds'[r].status = "Open"
      /\ rounds'[r] # None /\ rounds[r] # None
  <2>1. rounds'[r] = WithStake(rounds[r], side, amount)
        /\ rounds[r].status = "Open" /\ rounds[r] # None
    BY DEF Bet, TypeInv, TypeOK
  <2>2. WithStake(rounds[r], side, amount) \in Round
    BY <1>1, WithStakeType DEF TypeInv
  <2>3. WithStake(rounds[r], side, amount).status = rounds[r].status
    BY <1>1 DEF WithStake, Round
  <2>. QED BY <2>1, <2>2, <2>3
<1>4. positions'[r][u] # None
  <2>1. now + TempBump \in Nat
    BY DEF TypeInv, TypeOK, Time
  <2>2. positions'[r][u] \in Position
    BY <1>1, <1>2, <2>1 DEF Position
  <2>. QED BY <2>2
<1>5. /\ Owed(r, u) = 0 /\ Owed(r, u)' = amount
      /\ \A k \in User : k # u => Owed(r, k)' = Owed(r, k)
  BY <1>2, <1>3, <1>4 DEF Owed, Settled
<1>6. OwedByRound(r)' = OwedByRound(r) + amount
  <2> DEFINE f == [k \in User |-> Owed(r, k)]
             g == [k \in User |-> Owed(r, k)']
  <2>1. \A k \in 1..NumUsers : f[k] \in Int /\ g[k] \in Int
    BY OwedNat, OwedNumbersNext DEF OwedNumbers, User
  <2>2. (\A k \in 1..NumUsers : k # u => g[k] = f[k])
        /\ f[u] = 0 /\ g[u] = amount
    BY <1>5 DEF User
  <2>3. OwedByRound(r) = Sum(f, NumUsers) /\ OwedByRound(r)' = Sum(g, NumUsers)
    BY DEF OwedByRound
  <2> HIDE DEF f, g
  <2>4. Sum(g, NumUsers) = Sum(f, NumUsers) - f[u] + g[u]
    BY <1>1, <2>1, <2>2, SumChange
  <2>5. Sum(f, NumUsers) \in Int
    BY <2>1, SumInt
  <2>. QED BY <1>1, <2>2, <2>3, <2>4, <2>5
<1>7. ASSUME NEW s \in Side
      PROVE  StakesOn(r, s)' = StakesOn(r, s) + IF s = side THEN amount ELSE 0
  <2> DEFINE f == [k \in User |-> StakeOn(r, k, s)]
             g == [k \in User |-> StakeOn(r, k, s)']
             gain == IF s = side THEN amount ELSE 0
  <2>1. \A k \in 1..NumUsers : f[k] \in Int /\ g[k] \in Int
    BY DEF User, StakeOn, TypeInv, TypeOK, Position
  <2>2. \A k \in 1..NumUsers : k # u => g[k] = f[k]
    BY <1>2 DEF User, StakeOn
  <2>3. f[u] = 0 /\ g[u] = gain
    BY <1>1, <1>2, <1>4 DEF User, StakeOn
  <2>4. StakesOn(r, s) = Sum(f, NumUsers) /\ StakesOn(r, s)' = Sum(g, NumUsers)
    BY DEF StakesOn
  <2>5. gain \in Int
    BY <1>1
  <2> HIDE DEF f, g, gain
  <2>6. Sum(g, NumUsers) = Sum(f, NumUsers) - f[u] + g[u]
    BY <1>1, <2>1, <2>2, SumChange
  <2>7. Sum(f, NumUsers) \in Int
    BY <2>1, SumInt
  <2>. QED BY <2>3, <2>4, <2>5, <2>6, <2>7 DEF gain
<1>. QED BY <1>6, <1>7

LEMMA StakesOnInt ==
  ASSUME TypeOK, NEW r \in RoundId, NEW side \in Side
  PROVE  StakesOn(r, side) \in Int
<1> DEFINE f == [u \in User |-> StakeOn(r, u, side)]
<1>1. \A k \in 1..NumUsers : f[k] \in Int
  BY DEF User, StakeOn, TypeOK, Position
<1>2. StakesOn(r, side) = Sum(f, NumUsers)
  BY DEF StakesOn
<1> HIDE DEF f
<1>. QED BY <1>1, <1>2, SumInt

LEMMA BetMoney ==
  ASSUME MoneyInv, TypeInv', NEW u \in User, NEW r \in RoundId,
         NEW side \in Side, NEW amount \in BetAmount, Bet(u, r, side, amount)
  PROVE  MoneyInv'
<1> USE DEF MoneyInv
<1>1. amount \in Nat /\ rounds[r] \in Round
  BY DEF Bet, TypeInv, TypeOK
<1>2. /\ config' = config /\ config # None /\ counter' = counter
      /\ fees' = fees /\ vault' = vault + amount
      /\ escrow' = [escrow EXCEPT ![r] = @ + amount]
      /\ rounds[r] # None /\ rounds[r].status = "Open"
  BY DEF Bet
<1>3. \A s \in RoundId : s # r => /\ rounds'[s] = rounds[s]
                                 /\ positions'[s] = positions[s]
                                 /\ escrow'[s] = escrow[s]
  BY DEF Bet, TypeInv, TypeOK
<1>4. rounds'[r] = WithStake(rounds[r], side, amount)
  BY DEF Bet, TypeInv, TypeOK
<1>5. /\ rounds'[r].pool_up
           = rounds[r].pool_up + IF side = "Up" THEN amount ELSE 0
      /\ rounds'[r].pool_down
           = rounds[r].pool_down + IF side = "Down" THEN amount ELSE 0
      /\ rounds[r].pool_up \in Nat /\ rounds[r].pool_down \in Nat
  BY <1>1, <1>4 DEF WithStake, Round
<1>6. Fresh'
  <2>1. ~(r > counter)
    BY <1>2 DEF Fresh
  <2>. QED BY <1>2, <1>3, <2>1 DEF Fresh
<1>7. PoolsCoverStakes'
  <2>1. ASSUME NEW s \in RoundId, rounds'[s] # None
        PROVE  /\ StakesOn(s, "Up")' <= rounds'[s].pool_up
               /\ StakesOn(s, "Down")' <= rounds'[s].pool_down
    <3>1. CASE s # r
      BY <1>3, <2>1, <3>1 DEF PoolsCoverStakes, StakesOn, StakeOn
    <3>2. CASE s = r
      <4>1. /\ StakesOn(r, "Up") \in Int /\ StakesOn(r, "Down") \in Int
            /\ StakesOn(r, "Up") <= rounds[r].pool_up
            /\ StakesOn(r, "Down") <= rounds[r].pool_down
        BY <1>2, StakesOnInt DEF TypeInv, PoolsCoverStakes, Side
      <4>2. /\ StakesOn(r, "Up")'
                 = StakesOn(r, "Up") + IF side = "Up" THEN amount ELSE 0
            /\ StakesOn(r, "Down")'
                 = StakesOn(r, "Down") + IF side = "Down" THEN amount ELSE 0
        BY <1>6, BetRound DEF Side
      <4>. QED BY <1>1, <1>5, <3>2, <4>1, <4>2
    <3>. QED BY <3>1, <3>2
  <2>. QED BY <2>1 DEF PoolsCoverStakes
<1>8. OpenRoundsHoldTheirPools'
  <2>1. ASSUME NEW s \in RoundId, rounds'[s] # None, rounds'[s].status = "Open"
        PROVE  /\ escrow'[s] = Total(rounds'[s])
               /\ \A k \in User :
                    positions'[s][k] # None => ~positions'[s][k].claimed
    <3>1. CASE s # r
      BY <1>3, <2>1, <3>1 DEF OpenRoundsHoldTheirPools
    <3>2. CASE s = r
      <4>1. escrow[r] = Total(rounds[r])
            /\ \A k \in User : positions[r][k] # None => ~positions[r][k].claimed
        BY <1>2 DEF OpenRoundsHoldTheirPools
      <4>2. escrow'[r] = escrow[r] + amount /\ escrow[r] \in Int
        BY <1>2 DEF TypeInv, TypeOK
      <4>3. escrow'[r] = Total(rounds'[r])
        BY <1>1, <1>5, <4>1, <4>2 DEF Total, Side
      <4>4. positions'[r] = [positions[r] EXCEPT ![u] = positions'[r][u]]
            /\ positions'[r][u].claimed = FALSE
        BY DEF Bet, TypeInv, TypeOK
      <4>5. \A k \in User : positions'[r][k] # None => ~positions'[r][k].claimed
        BY <4>1, <4>4 DEF TypeInv, TypeOK
      <4>. QED BY <3>2, <4>3, <4>5
    <3>. QED BY <3>1, <3>2
  <2>. QED BY <2>1 DEF OpenRoundsHoldTheirPools, Total
<1>9. RoundsCoverThemselves'
  <2>1. ASSUME NEW s \in RoundId PROVE OwedByRound(s)' <= escrow'[s]
    <3>1. CASE s # r
      BY <1>2, <1>3, <3>1, RoundFrame DEF RoundsCoverThemselves
    <3>2. CASE s = r
      <4>1. OwedByRound(r)' = OwedByRound(r) + amount
        BY <1>6, BetRound
      <4>2. escrow'[r] = escrow[r] + amount /\ escrow[r] \in Int
        BY <1>2 DEF TypeInv, TypeOK
      <4>3. OwedByRound(r) \in Int /\ OwedByRound(r) <= escrow[r]
        BY OwedByRoundNat DEF RoundsCoverThemselves
      <4>. QED BY <1>1, <3>2, <4>1, <4>2, <4>3
    <3>. QED BY <3>1, <3>2
  <2>. QED BY <2>1 DEF RoundsCoverThemselves
<1>10. VaultAccounted'
  <2>1. fees' = fees + 0 /\ vault' = vault + amount + 0
    BY <1>1, <1>2 DEF TypeInv, TypeOK
  <2>2. amount \in Int /\ 0 \in Int
    BY <1>1
  <2>. QED BY <1>2, <2>1, <2>2, VaultFollowsRound
<1>. QED BY <1>6, <1>7, <1>8, <1>9, <1>10

\* A step that pays user u what some rounds owe it, and marks it claimed there:
\* the common part of claim and claim_many.
Paid(u, R) ==
  /\ rounds' = rounds /\ config' = config /\ counter' = counter /\ fees' = fees
  /\ \A r \in RoundId :
       IF r \in R
       THEN /\ Claimable(r, u)
            /\ positions'[r] = [positions[r] EXCEPT ![u].claimed = TRUE]
            /\ escrow'[r] = escrow[r] - ClaimValue(r, u)
       ELSE positions'[r] = positions[r] /\ escrow'[r] = escrow[r]

LEMMA ClaimKeepsStake ==
  ASSUME TypeOK, NEW r \in RoundId, NEW u \in User, positions[r][u] # None,
         positions'[r] = [positions[r] EXCEPT ![u].claimed = TRUE]
  PROVE  \A k \in User, side \in Side :
           StakeOn(r, k, side)' = StakeOn(r, k, side)
<1>1. positions[r] \in [User -> Position \cup {None}]
      /\ positions[r][u] \in Position
  BY DEF TypeOK
<1>2. positions'[r][u] = [positions[r][u] EXCEPT !.claimed = TRUE]
      /\ \A k \in User : k # u => positions'[r][k] = positions[r][k]
  BY <1>1
<1>3. /\ positions'[r][u].side = positions[r][u].side
      /\ positions'[r][u].amount = positions[r][u].amount
      /\ positions'[r][u] \in Position
  BY <1>1, <1>2 DEF Position
<1>. QED BY <1>2, <1>3 DEF StakeOn

LEMMA PaidMoney ==
  ASSUME MoneyInv, TypeInv', NEW u \in User, NEW R \in SUBSET RoundId,
         Paid(u, R), config # None
  PROVE  /\ Fresh' /\ PoolsCoverStakes' /\ OpenRoundsHoldTheirPools'
         /\ RoundsCoverThemselves'
<1> USE DEF MoneyInv
<1>1. rounds' = rounds /\ config' = config /\ counter' = counter /\ fees' = fees
  BY DEF Paid
<1>2. \A r \in R : /\ Claimable(r, u)
                  /\ positions'[r] = [positions[r] EXCEPT ![u].claimed = TRUE]
                  /\ escrow'[r] = escrow[r] - ClaimValue(r, u)
  BY DEF Paid
<1>3. \A r \in RoundId \ R : positions'[r] = positions[r] /\ escrow'[r] = escrow[r]
  BY DEF Paid
<1>4. \A r \in R : rounds[r] # None /\ rounds[r].status = "Settled"
                  /\ positions[r][u] # None
  BY <1>2 DEF Claimable, Settled
<1>5. Fresh'
  <2>1. ASSUME NEW r \in RoundId, r > counter PROVE r \notin R
    BY <1>4, <2>1 DEF Fresh
  <2>. QED BY <1>1, <1>3, <2>1 DEF Fresh
<1>6. PoolsCoverStakes'
  <2>1. ASSUME NEW r \in RoundId, NEW k \in User, NEW side \in Side
        PROVE  StakeOn(r, k, side)' = StakeOn(r, k, side)
    <3>1. CASE r \in R
      BY <1>2, <1>4, <3>1, ClaimKeepsStake DEF TypeInv
    <3>2. CASE r \notin R
      BY <1>3, <3>2 DEF StakeOn
    <3>. QED BY <3>1, <3>2
  <2>2. \A r \in RoundId, side \in Side : StakesOn(r, side)' = StakesOn(r, side)
    BY <2>1 DEF StakesOn
  <2>. QED BY <1>1, <2>2 DEF PoolsCoverStakes, Side
<1>7. OpenRoundsHoldTheirPools'
  BY <1>1, <1>3, <1>4 DEF OpenRoundsHoldTheirPools, Total
<1>8. RoundsCoverThemselves'
  <2>1. ASSUME NEW r \in RoundId PROVE OwedByRound(r)' <= escrow'[r]
    <3>1. CASE r \in R
      <4>1. OwedByRound(r)' = OwedByRound(r) - ClaimValue(r, u)
        BY <1>1, <1>2, <1>5, <3>1, ClaimTakesItsValue
      <4>2. OwedByRound(r) \in Int
        BY OwedByRoundNat
      <4>3. ClaimValue(r, u) \in Int
        BY ClaimValueNat
      <4>4. escrow[r] \in Int /\ OwedByRound(r) <= escrow[r]
        BY DEF RoundsCoverThemselves, TypeInv, TypeOK
      <4>5. escrow'[r] = escrow[r] - ClaimValue(r, u)
        BY <1>2, <3>1
      <4>6. \A x, y, z \in Int : x <= y => x - z <= y - z
        OBVIOUS
      <4>. QED BY <4>1, <4>2, <4>3, <4>4, <4>5, <4>6
    <3>2. CASE r \notin R
      BY <1>1, <1>3, <3>2, RoundFrame DEF RoundsCoverThemselves
    <3>. QED BY <3>1, <3>2
  <2>. QED BY <2>1 DEF RoundsCoverThemselves
<1>. QED BY <1>5, <1>6, <1>7, <1>8

LEMMA ClaimIsPaid ==
  ASSUME TypeInv, NEW u \in User, NEW r \in RoundId, Claim(u, r)
  PROVE  Paid(u, {r})
<1>1. positions' = [positions EXCEPT
                      ![r] = [positions[r] EXCEPT ![u].claimed = TRUE]]
  BY DEF Claim, TypeInv, TypeOK
<1>2. escrow' = [escrow EXCEPT ![r] = escrow[r] - ClaimValue(r, u)]
  BY DEF Claim
<1>. QED BY <1>1, <1>2 DEF Paid, Claim, TypeInv, TypeOK

LEMMA ClaimManyIsPaid ==
  ASSUME TypeInv, NEW u \in User, NEW ids \in Batch, ClaimMany(u, ids)
  PROVE  \E R \in SUBSET RoundId : Paid(u, R)
<1> DEFINE R == {r \in RoundId : InBatch(r, ids) /\ Claimable(r, u)}
<1>1. \A r \in RoundId : ~Claimable(r, u) =>
         ClaimValue(r, u) = 0 /\ escrow[r] - ClaimValue(r, u) = escrow[r]
  BY DEF ClaimValue, TypeInv, TypeOK
<1>2. Paid(u, R)
  BY <1>1 DEF Paid, ClaimMany
<1>. QED BY <1>2

LEMMA ClaimMoney ==
  ASSUME MoneyInv, TypeInv', NEW u \in User, NEW r \in RoundId, Claim(u, r)
  PROVE  MoneyInv'
<1> USE DEF MoneyInv
<1>1. config # None /\ ClaimValue(r, u) \in Nat
  BY ClaimValueNat DEF Claim
<1>2. Paid(u, {r})
  BY ClaimIsPaid
<1>3. VaultAccounted'
  <2>1. PICK value \in Nat : value = ClaimValue(r, u)
    BY <1>1
  <2>2. /\ escrow' = [escrow EXCEPT ![r] = @ - value]
        /\ fees' = fees /\ vault' = vault - value
    BY <2>1 DEF Claim
  <2>3. escrow' = [escrow EXCEPT ![r] = @ + (-value)]
    BY <2>2 DEF TypeInv, TypeOK
  <2>4. fees' = fees + 0 /\ vault' = vault + (-value) + 0
    BY <2>2 DEF TypeInv, TypeOK
  <2>5. -value \in Int /\ 0 \in Int
    OBVIOUS
  <2>. QED BY <2>3, <2>4, <2>5, VaultFollowsRound
<1>4. {r} \in SUBSET RoundId
  OBVIOUS
<1>. QED BY <1>1, <1>2, <1>3, <1>4, PaidMoney

LEMMA ClaimManyMoney ==
  ASSUME MoneyInv, TypeInv', NEW u \in User, NEW ids \in Batch,
         ClaimMany(u, ids)
  PROVE  MoneyInv'
<1> USE DEF MoneyInv
<1> DEFINE c == [r \in 1..MaxRounds |->
                   IF \E k \in 1..Len(ids) : ids[k] = r
                   THEN ClaimValue(r, u) ELSE 0]
           v == [r \in RoundId |-> ClaimValue(r, u)]
<1>1. config # None /\ \A r \in RoundId : ClaimValue(r, u) \in Nat
  BY ClaimValueNat DEF ClaimMany
<1>2. \E paid \in SUBSET RoundId : Paid(u, paid)
  BY ClaimManyIsPaid
<1>3. BatchTotal(u, ids) = Sum(c, MaxRounds)
  <2>1. PICK n \in Nat : n = Len(ids)
    BY BatchIndices
  <2>2. \A k \in 1..n : ids[k] \in 1..MaxRounds
    BY <2>1, BatchIndices DEF RoundId
  <2>3. \A r \in 1..MaxRounds : v[r] \in Int
    BY <1>1 DEF RoundId
  <2> DEFINE listed == [k \in 1..n |-> BatchValue(u, ids, k)]
  <2>4. BatchTotal(u, ids) = Sum(listed, n)
    BY <2>1 DEF BatchTotal
  <2>5. listed = FirstOnly(ids, v, n)
    BY <2>2 DEF BatchValue, FirstOnly, RoundId
  <2>6. c = Listed(ids, v, n, MaxRounds)
    BY <2>1 DEF Listed, RoundId
  <2>7. MaxRounds \in Nat
    OBVIOUS
  <2> HIDE DEF c, v, listed
  <2>8. Sum(FirstOnly(ids, v, n), n) = Sum(Listed(ids, v, n, MaxRounds), MaxRounds)
    BY <2>2, <2>3, <2>7, SumOfFirsts
  <2>. QED BY <2>4, <2>5, <2>6, <2>8
<1>4. VaultAccounted'
  <2> DEFINE f == escrow
             h == escrow'
  <2>1. \A r \in 1..MaxRounds : /\ f[r] \in Int /\ c[r] \in Int
                                /\ h[r] = f[r] - c[r]
    BY <1>1 DEF ClaimMany, InBatch, TypeInv, TypeOK, RoundId
  <2> HIDE DEF f, h, c
  <2>2. Sum(h, MaxRounds) = Sum(f, MaxRounds) - Sum(c, MaxRounds)
    BY <2>1, SumMinus
  <2>3. Sum(f, MaxRounds) \in Int /\ Sum(c, MaxRounds) \in Int
    BY <2>1, SumInt
  <2>4. vault' = vault - BatchTotal(u, ids) /\ fees' = fees
    BY DEF ClaimMany
  <2>. QED BY <1>3, <2>2, <2>3, <2>4 DEF VaultAccounted, TypeInv, TypeOK, f, h
<1>. QED BY <1>1, <1>2, <1>4, PaidMoney

\* As time passes entries lapse: what is owed on them is owed no longer, and
\* what was taken in for them stays in the vault.
LEMMA AdvanceTimeMoney ==
  ASSUME MoneyInv, TypeInv', AdvanceTime
  PROVE  MoneyInv'
<1> USE DEF MoneyInv
<1>1. UNCHANGED <<config, counter, fees, vault, escrow>>
  BY DEF AdvanceTime
<1>2. \A r \in RoundId : rounds'[r] = None \/ rounds'[r] = rounds[r]
  BY DEF AdvanceTime
<1>3. \A r \in RoundId, u \in User :
        positions'[r][u] = None \/ positions'[r][u] = positions[r][u]
  BY DEF AdvanceTime
<1>4. Fresh'
  BY <1>1, <1>2, <1>3 DEF Fresh
<1>5. PoolsCoverStakes'
  <2>1. SUFFICES ASSUME NEW r \in RoundId, rounds'[r] # None
                 PROVE  /\ StakesOn(r, "Up")' <= rounds'[r].pool_up
                        /\ StakesOn(r, "Down")' <= rounds'[r].pool_down
    BY DEF PoolsCoverStakes
  <2>2. rounds'[r] = rounds[r]
    BY <1>2, <2>1
  <2>3. \A u \in User, side \in Side :
          StakeOn(r, u, side)' <= StakeOn(r, u, side)
    BY <1>3 DEF StakeOn, TypeInv, TypeOK, Position
  <2>. QED BY <2>1, <2>2, <2>3, PoolsStayCovered
<1>6. OpenRoundsHoldTheirPools'
  BY <1>1, <1>2, <1>3 DEF OpenRoundsHoldTheirPools, Total
<1>7. RoundsCoverThemselves'
  <2>1. SUFFICES ASSUME NEW r \in RoundId
                 PROVE  OwedByRound(r)' <= escrow'[r]
    BY DEF RoundsCoverThemselves
  <2>2. ASSUME NEW u \in User PROVE Owed(r, u)' <= Owed(r, u)
    <3>1. Owed(r, u) \in Nat
      BY OwedNat
    <3>2. CASE rounds'[r] = None \/ positions'[r][u] = None
      BY <3>1, <3>2 DEF Owed
    <3>3. CASE rounds'[r] # None /\ positions'[r][u] # None
      BY <1>1, <1>2, <1>3, <3>1, <3>3, OwedFrame
    <3>. QED BY <3>2, <3>3
  <2>3. OwedByRound(r)' <= OwedByRound(r)
    BY <1>4, <2>2, OwedByRoundDrops
  <2>4. OwedByRound(r) \in Int /\ escrow[r] \in Int
    BY OwedByRoundNat DEF TypeInv, TypeOK
  <2>5. OwedByRound(r)' \in Int
    BY <1>4, OwedByRoundNext DEF OwedByRoundNumbers
  <2>. QED BY <1>1, <2>3, <2>4, <2>5 DEF RoundsCoverThemselves
<1>8. VaultAccounted'
  BY <1>1 DEF VaultAccounted
<1>. QED BY <1>4, <1>5, <1>6, <1>7, <1>8

LEMMA InitMoney == Init => MoneyInv
<1> SUFFICES ASSUME Init PROVE MoneyInv
  OBVIOUS
<1>1. TypeInv
  BY InitType DEF Init, TypeInv, WinnersHavePools, Settled
<1>2. Fresh /\ PoolsCoverStakes /\ OpenRoundsHoldTheirPools
  BY DEF Init, Fresh, PoolsCoverStakes, OpenRoundsHoldTheirPools
<1>3. \A n \in Nat : \A f : (\A k \in 1..n : f[k] = 0) => Sum(f, n) = 0
  <2>1. SUFFICES ASSUME NEW n \in Nat, NEW f, \A k \in 1..n : f[k] = 0
                 PROVE  Sum(f, n) = 0
    OBVIOUS
  <2>2. \A k \in 1..n : f[k] \in Int /\ f[k] = f[k] - f[k]
    BY <2>1
  <2>3. Sum(f, n) = Sum(f, n) - Sum(f, n) /\ Sum(f, n) \in Int
    BY <2>2, SumMinus, SumInt
  <2>. QED BY <2>3
<1>4. RoundsCoverThemselves
  <2>1. SUFFICES ASSUME NEW r \in RoundId PROVE OwedByRound(r) <= escrow[r]
    BY DEF RoundsCoverThemselves
  <2> DEFINE f == [u \in User |-> Owed(r, u)]
  <2>2. \A k \in 1..NumUsers : f[k] = 0
    BY DEF Init, Owed, User
  <2> HIDE DEF f
  <2>3. Sum(f, NumUsers) = 0
    BY <1>3, <2>2
  <2>4. OwedByRound(r) = 0 /\ escrow[r] = 0
    BY <2>3 DEF OwedByRound, f, Init
  <2>. QED BY <2>4
<1>5. VaultAccounted
  <2>1. \A k \in 1..MaxRounds : escrow[k] = 0
    BY DEF Init, RoundId
  <2>2. Sum(escrow, MaxRounds) = 0
    BY <1>3, <2>1
  <2>. QED BY <2>2 DEF Init, VaultAccounted
<1>. QED BY <1>1, <1>2, <1>4, <1>5 DEF MoneyInv

LEMMA StutterMoney ==
  ASSUME MoneyInv, TypeInv', UNCHANGED vars PROVE MoneyInv'
<1> USE DEF MoneyInv
<1>1. \A r \in RoundId, u \in User : Owed(r, u)' = Owed(r, u)
                                    /\ Owed(r, u) \in Nat
  BY OwedFrame, OwedNat DEF vars
<1>. QED BY <1>1, UntouchedMoney DEF vars, Fresh, TypeInv, TypeOK

LEMMA NextMoney ==
  ASSUME MoneyInv, [Next /\ NoFeeCutWhileOwed]_vars PROVE MoneyInv'
<1>1. TypeInv'
  BY NextType, NextWinnersHavePools DEF MoneyInv, TypeInv
<1>2. CASE UNCHANGED vars
  BY <1>1, <1>2, StutterMoney
<1>3. CASE Next /\ NoFeeCutWhileOwed
  <2>1. ASSUME NEW fee \in FeeBps, NEW offset \in LockOffset,
               Initialize(fee, offset)
        PROVE  MoneyInv'
    BY <1>1, <2>1, InitializeMoney
  <2>2. ASSUME NEW a \in Asset, NEW tick \in Tick, CreateRound(a, tick)
        PROVE  MoneyInv'
    BY <1>1, <2>2, CreateRoundMoney
  <2>3. ASSUME NEW u \in User, NEW r \in RoundId, NEW side \in Side,
               NEW amount \in BetAmount, Bet(u, r, side, amount)
        PROVE  MoneyInv'
    BY <1>1, <2>3, BetMoney
  <2>4. ASSUME NEW r \in RoundId, Settle(r) PROVE MoneyInv'
    BY <1>1, <2>4, SettleMoney
  <2>5. ASSUME NEW u \in User, NEW r \in RoundId, Claim(u, r) PROVE MoneyInv'
    BY <1>1, <2>5, ClaimMoney
  <2>6. ASSUME NEW u \in User, NEW ids \in Batch, ClaimMany(u, ids)
        PROVE  MoneyInv'
    BY <1>1, <2>6, ClaimManyMoney
  <2>7. ASSUME NEW bps \in FeeBps, SetFeeBps(bps) PROVE MoneyInv'
    BY <1>1, <1>3, <2>7, SetFeeMoney
  <2>8. ASSUME NEW seconds \in LockOffset, SetLockOffset(seconds)
        PROVE  MoneyInv'
    BY <1>1, <2>8, SetLockMoney
  <2>9. CASE SweepFees
    BY <1>1, <2>9, SweepMoney
  <2>10. CASE AdvanceTime
    BY <1>1, <2>10, AdvanceTimeMoney
  <2>11. ASSUME NEW a \in Asset, NEW tick \in Tick, NEW price \in Price,
                LateTick(a, tick, price)
         PROVE  MoneyInv'
    BY <1>1, <2>11, LateTickMoney
  <2>. QED BY <1>3, <2>1, <2>2, <2>3, <2>4, <2>5, <2>6, <2>7, <2>8, <2>9,
              <2>10, <2>11 DEF Next
<1>. QED BY <1>2, <1>3

LEMMA MoneyInvariant == SteadySpec => []MoneyInv
<1>1. MoneyInv /\ [Next /\ NoFeeCutWhileOwed]_vars => MoneyInv'
  BY NextMoney
<1>. QED BY <1>1, InitMoney, PTL DEF SteadySpec

\* Under the admin rule the contract can always pay its treasury and everything
\* it owes on every round: no claim and no sweep is ever turned down by the
\* token transfer, however many rounds are open at once.
THEOREM Solvency == SteadySpec => []Solvent
BY MoneyInvariant, MoneyInvSolvent, PTL

\* The pools of a round never understate the stakes that can claim a share.
THEOREM PoolsCoverTheStakes == SteadySpec => []PoolsCoverStakes
<1>1. MoneyInv => PoolsCoverStakes
  BY DEF MoneyInv
<1>. QED BY <1>1, MoneyInvariant, PTL

\* The balance of the contract is the treasury and what came in for the rounds,
\* to the stroop, also for the rounds whose entries have expired.
THEOREM VaultIsAccounted == SteadySpec => []VaultAccounted
<1>1. MoneyInv => VaultAccounted
  BY DEF MoneyInv
<1>. QED BY <1>1, MoneyInvariant, PTL

-----------------------------------------------------------------------------
(* Each round is an escrow: the step simulation of Escrow.  The invariant says *)
(* of every state what the mapped variables are; what remains is which step of *)
(* the abstract escrow each call is.                                           *)

EscrowInv == MoneyInv /\ SeriesInv

LEMMA EscrowSets ==
  /\ RoundEscrow!Rounds = RoundId /\ RoundEscrow!Users = User
  /\ \A f, n : RoundEscrow!Sum(f, n) = Sum(f, n)
BY DEF RoundEscrow!Rounds, RoundId, RoundEscrow!Users, User,
       RoundEscrow!Sum, Sum, RoundEscrow!Prefix, Prefix

\* A step that no escrow sees.
EscrowStutter ==
  /\ escrow' = escrow
  /\ \A r \in RoundId : Phase(r)' = Phase(r)
  /\ \A r \in RoundId, u \in User : Owed(r, u)' = Owed(r, u)

LEMMA StutterIsEscrowStutter ==
  ASSUME EscrowStutter PROVE UNCHANGED RoundEscrow!escrowVars
BY DEF EscrowStutter, RoundEscrow!escrowVars

\* A round that is stored is open or decided.
LEMMA StoredPhase ==
  ASSUME EscrowInv, NEW r \in RoundId, rounds[r] # None
  PROVE  /\ ~(r > counter)
         /\ Phase(r) = IF rounds[r].status = "Settled" THEN "decided" ELSE "open"
<1>1. ~(r > counter)
  BY DEF EscrowInv, MoneyInv, Fresh
<1>. QED BY <1>1 DEF Phase

LEMMA InitEscrow == Init => RoundEscrow!EscrowInit
<1> SUFFICES ASSUME Init PROVE RoundEscrow!EscrowInit
  OBVIOUS
<1>1. \A r \in RoundId : Phase(r) = "none"
  BY DEF Init, Phase, RoundId
<1>2. \A r \in RoundId, u \in User : Owed(r, u) = 0
  BY DEF Init, Owed
<1>. QED BY <1>1, <1>2, EscrowSets DEF Init, RoundEscrow!EscrowInit

LEMMA CreateIsOpen ==
  ASSUME EscrowInv, NEW a \in Asset, NEW tick \in Tick, CreateRound(a, tick)
  PROVE  \E id \in RoundId : RoundEscrow!Open(id)
<1> USE DEF EscrowInv, MoneyInv
<1>1. PICK id \in RoundId : id = counter + 1
  BY CreatedRound DEF TypeInv
<1>2. /\ counter \in Nat /\ counter' = id
      /\ positions' = positions /\ escrow' = escrow /\ config' = config
  BY <1>1 DEF CreateRound, TypeInv, TypeOK
<1>3. /\ \A r \in RoundId : r # id => rounds'[r] = rounds[r]
      /\ rounds'[id] # None /\ rounds'[id].status = "Open"
  BY <1>1, CreatedRound DEF TypeInv
<1>4. \A r \in RoundId, u \in User : Owed(r, u)' = Owed(r, u)
  <2>1. TAKE r \in RoundId, u \in User
  <2>2. CASE r = id
    <3>1. positions[r][u] = None
      BY <1>1, <1>2, <2>2 DEF Fresh
    <3>. QED BY <1>2, <3>1 DEF Owed
  <2>3. CASE r # id
    BY <1>2, <1>3, <2>3, OwedFrame
  <2>. QED BY <2>2, <2>3
<1>5. Phase(id) = "none"
  BY <1>1, <1>2 DEF Phase
<1>6. Phase(id)' = "open"
  BY <1>2, <1>3 DEF Phase, RoundId
<1>7. \A r \in RoundId : r # id => Phase(r)' = Phase(r)
  BY <1>1, <1>2, <1>3 DEF Phase, RoundId
<1>8. [r \in RoundId |-> Phase(r)']
        = [[r \in RoundId |-> Phase(r)] EXCEPT ![id] = "open"]
  BY <1>6, <1>7
<1>9. RoundEscrow!Open(id)
  BY <1>2, <1>4, <1>5, <1>8 DEF RoundEscrow!Open
<1>. QED BY <1>9

LEMMA BetIsStake ==
  ASSUME EscrowInv, MoneyInv', NEW u \in User, NEW r \in RoundId,
         NEW side \in Side, NEW amount \in BetAmount, Bet(u, r, side, amount)
  PROVE  RoundEscrow!Stake(r, u)
<1> USE DEF EscrowInv, MoneyInv, TypeInv
<1>1. /\ amount \in Nat /\ counter' = counter /\ config' = config
      /\ \A s \in RoundId : s # r =>
            rounds'[s] = rounds[s] /\ positions'[s] = positions[s]
      /\ \A v \in User : v # u => positions'[r][v] = positions[r][v]
      /\ positions[r][u] = None
      /\ positions'[r][u] = [side |-> side, amount |-> amount,
                             claimed |-> FALSE, live_until |-> now + TempBump]
      /\ escrow' = [escrow EXCEPT ![r] = @ + amount]
      /\ rounds[r] # None /\ rounds[r].status = "Open"
  BY DEF Bet, TypeOK
<1>2. rounds'[r] # None /\ rounds'[r].status = "Open"
  <2>1. rounds'[r] = WithStake(rounds[r], side, amount) /\ rounds[r] \in Round
    BY DEF Bet, TypeOK
  <2>2. WithStake(rounds[r], side, amount) \in Round
    BY <1>1, <2>1, WithStakeType
  <2>. QED BY <2>1, <2>2, BetTerms
<1>3. positions'[r][u] # None
  <2>1. now + TempBump \in Nat
    BY DEF TypeOK, Time
  <2>2. positions'[r][u] \in Position
    BY <1>1, <2>1 DEF Position
  <2>. QED BY <2>2
<1>4. Owed(r, u) = 0 /\ Owed(r, u)' = amount
  BY <1>1, <1>2, <1>3 DEF Owed, Settled
<1>5. \A s \in RoundId, v \in User : s # r \/ v # u =>
        Owed(s, v)' = Owed(s, v)
  <2>1. TAKE s \in RoundId, v \in User
  <2>2. HAVE s # r \/ v # u
  <2>3. CASE s # r
    BY <1>1, <2>3, OwedFrame
  <2>4. CASE s = r /\ v # u
    BY <1>1, <1>2, <2>4 DEF Owed, Settled
  <2>. QED BY <2>2, <2>3, <2>4
<1>6. Phase(r) = "open" /\ \A s \in RoundId : Phase(s)' = Phase(s)
  BY <1>1, <1>2, StoredPhase DEF Phase
<1>7. [s \in RoundId |-> [v \in User |-> Owed(s, v)']]
        = [[s \in RoundId |-> [v \in User |-> Owed(s, v)]]
             EXCEPT ![r][u] = Owed(r, u)']
  BY <1>5
<1>8. escrow' = [escrow EXCEPT ![r] = @ + Owed(r, u)']
  BY <1>1, <1>4
<1>9. Owed(r, u)' >= 0
  BY <1>1, <1>4
<1>. QED BY <1>4, <1>6, <1>7, <1>8, <1>9 DEF RoundEscrow!Stake

\* Nothing staked, nothing won.
LEMMA WorthOfNothing ==
  ASSUME TypeInv', NEW r \in RoundId, NEW u \in User, rounds'[r] \in Round,
         config \in Config, config' = config, rounds'[r].status = "Settled",
         rounds'[r].outcome # "Void", positions' = positions,
         positions[r][u] \in Position, positions[r][u].amount = 0
  PROVE  Worth(rounds[r], positions[r][u])' = 0
<1> DEFINE round == rounds'[r]
           left == Total(round) - Fee(Total(round), config.fee_bps)
           pool == WinningPool(round)
<1>1. Total(round) \in Nat /\ config.fee_bps \in 0..MaxFeeBps
  BY DEF Total, Round, Config
<1>2. left \in Int
  BY <1>1, FeeFacts
<1>3. rounds'[r] # None
  OBVIOUS
<1>4. pool \in Nat \ {0}
  BY <1>3 DEF TypeInv, WinnersHavePools, Settled, WinningPool, Round
<1>5. Worth(rounds[r], positions[r][u])' \in {0, (0 * left) \div pool}
  BY DEF Worth, Total, WinningPool, Fee
<1> HIDE DEF left, pool
<1>6. 0 * left = 0 /\ 0 \div pool = 0
  BY <1>2, <1>4
<1>. QED BY <1>5, <1>6

\* settle() refunds a void round and awards any other.
LEMMA SettleDecides ==
  ASSUME EscrowInv, MoneyInv', NEW r \in RoundId, Settle(r)
  PROVE  RoundEscrow!Refund(r) \/ RoundEscrow!Award(r)
<1> USE DEF EscrowInv, MoneyInv
<1>1. PICK fee \in Nat :
        /\ fee = IF rounds'[r].outcome = "Void" THEN 0
                 ELSE Fee(Total(rounds[r]), config.fee_bps)
        /\ escrow' = [escrow EXCEPT ![r] = @ - fee]
  BY SettleEffect
<1>2. /\ rounds[r] # None /\ rounds[r].status = "Open"
      /\ rounds[r] \in Round /\ rounds'[r] \in Round
      /\ rounds'[r] # None /\ rounds'[r].status = "Settled"
      /\ config \in Config /\ config' = config /\ positions' = positions
      /\ counter' = counter
  BY SettleEffect DEF Settle, Round
<1>3. \A s \in RoundId : s # r => rounds'[s] = rounds[s]
  BY SettleEffect DEF TypeInv, TypeOK
<1>4. \A s \in RoundId, u \in User : s # r => Owed(s, u)' = Owed(s, u)
  BY <1>2, <1>3, OwedFrame
<1>5. \A u \in User : positions[r][u] # None => ~positions[r][u].claimed
  BY <1>2 DEF OpenRoundsHoldTheirPools
<1>6. \A u \in User : Owed(r, u) = IF positions[r][u] = None THEN 0
                                  ELSE positions[r][u].amount
  BY <1>2, <1>5 DEF Owed, Settled
<1>7. Phase(r) = "open"
  BY <1>2, StoredPhase
<1>8. [s \in RoundId |-> Phase(s)']
        = [[s \in RoundId |-> Phase(s)] EXCEPT ![r] = "decided"]
  <2>1. Phase(r)' = "decided"
    BY <1>2, <1>7 DEF Phase
  <2>2. \A s \in RoundId : s # r => Phase(s)' = Phase(s)
    BY <1>2, <1>3 DEF Phase
  <2>. QED BY <2>1, <2>2
<1>9. CASE rounds'[r].outcome = "Void"
  <2>1. \A u \in User : Owed(r, u)' = Owed(r, u)
    <3>1. TAKE u \in User
    <3>2. CASE positions[r][u] = None
      BY <1>2, <3>2 DEF Owed
    <3>3. CASE positions[r][u] # None
      <4>1. Owed(r, u)' = Worth(rounds[r], positions[r][u])'
        BY <1>2, <1>5, <3>3 DEF Owed, Settled
      <4>2. Worth(rounds[r], positions[r][u])' = positions[r][u].amount
        <5>1. positions[r][u].side # "Void"
          BY <3>3 DEF TypeInv, TypeOK, Position, Side
        <5>. QED BY <1>2, <1>9, <5>1 DEF Worth
      <4>. QED BY <1>6, <3>3, <4>1, <4>2
    <3>. QED BY <3>2, <3>3
  <2>2. escrow' = escrow
    BY <1>1, <1>9 DEF TypeInv, TypeOK
  <2>3. \A s \in RoundId, u \in User : Owed(s, u)' = Owed(s, u)
    BY <1>4, <2>1
  <2>. QED BY <1>7, <1>8, <2>2, <2>3 DEF RoundEscrow!Refund
<1>10. CASE rounds'[r].outcome # "Void"
  <2> DEFINE new == [u \in User |-> Owed(r, u)']
  <2>1. escrow'[r] <= escrow[r] /\ escrow' = [escrow EXCEPT ![r] = escrow'[r]]
    BY <1>1 DEF TypeInv, TypeOK
  <2>2. \A u \in User : Owed(r, u)' >= 0
    BY OwedNumbersNext DEF OwedNumbers
  <2>3. ASSUME NEW u \in User, Owed(r, u) = 0 PROVE Owed(r, u)' = 0
    <3>1. CASE positions[r][u] = None
      BY <1>2, <3>1 DEF Owed
    <3>2. CASE positions[r][u] # None
      <4>1. positions[r][u] \in Position /\ positions[r][u].amount = 0
        BY <1>6, <2>3, <3>2 DEF TypeInv, TypeOK
      <4>2. Owed(r, u)' = Worth(rounds[r], positions[r][u])'
        BY <1>2, <1>5, <3>2 DEF Owed, Settled
      <4>3. Worth(rounds[r], positions[r][u])' = 0
        BY <1>2, <1>10, <4>1, WorthOfNothing
      <4>. QED BY <4>2, <4>3
    <3>. QED BY <3>1, <3>2
  <2>4. Sum(new, NumUsers) <= escrow'[r]
    BY SettlementCovered DEF OwedByRound
  <2>5. [s \in RoundId |-> [u \in User |-> Owed(s, u)']]
          = [[s \in RoundId |-> [u \in User |-> Owed(s, u)]] EXCEPT ![r] = new]
    BY <1>4
  <2>6. RoundEscrow!Sum(new, NumUsers) <= escrow'[r]
    BY <2>4, EscrowSets
  <2> HIDE DEF new
  <2>7. [s \in RoundId |-> [u \in User |-> Owed(s, u)']][r] = new
    BY DEF new
  <2>8. \A u \in User : new[u] = Owed(r, u)'
    BY DEF new
  <2>. QED BY <1>7, <1>8, <2>1, <2>2, <2>3, <2>5, <2>6, <2>7, <2>8, EscrowSets
           DEF RoundEscrow!Award
<1>. QED BY <1>9, <1>10

\* Paying a user some of its claims draws them from their rounds.
LEMMA PaidIsDraw ==
  ASSUME EscrowInv, MoneyInv', NEW u \in User, NEW R \in SUBSET RoundId,
         Paid(u, R)
  PROVE  RoundEscrow!Draw(u)
<1> USE DEF EscrowInv, MoneyInv
<1>1. /\ rounds' = rounds /\ config' = config /\ counter' = counter
      /\ \A r \in R : /\ Claimable(r, u)
                      /\ positions'[r] = [positions[r] EXCEPT ![u].claimed = TRUE]
                      /\ escrow'[r] = escrow[r] - ClaimValue(r, u)
      /\ \A r \in RoundId \ R :
           positions'[r] = positions[r] /\ escrow'[r] = escrow[r]
  BY DEF Paid
<1>2. \A r \in RoundId : Phase(r)' = Phase(r)
  BY <1>1 DEF Phase
<1>3. \A r \in RoundId, k \in User : r \notin R \/ k # u =>
        Owed(r, k)' = Owed(r, k)
  <2>1. TAKE r \in RoundId, k \in User
  <2>2. HAVE r \notin R \/ k # u
  <2>3. positions'[r][k] = positions[r][k]
    <3>1. positions[r] \in [User -> Position \cup {None}]
      BY DEF TypeInv, TypeOK
    <3>2. CASE r \in R
      BY <1>1, <2>2, <3>1, <3>2
    <3>3. CASE r \notin R
      BY <1>1, <3>3
    <3>. QED BY <3>2, <3>3
  <2>. QED BY <1>1, <2>3, OwedFrame
<1>4. \A r \in R : /\ Owed(r, u) = ClaimValue(r, u) /\ Owed(r, u)' = 0
                  /\ Phase(r) = "decided"
  <2>1. TAKE r \in R
  <2>2. /\ positions[r] \in [User -> Position \cup {None}]
        /\ positions[r][u] \in Position
    <3>1. r \in RoundId /\ positions[r][u] # None
      BY <1>1 DEF Claimable
    <3>. QED BY <3>1 DEF TypeInv, TypeOK
  <2>3. positions'[r][u] = [positions[r][u] EXCEPT !.claimed = TRUE]
    BY <1>1, <2>2
  <2>4. positions'[r][u].claimed
    BY <2>2, <2>3 DEF Position
  <2>5. Owed(r, u)' = 0
    BY <2>4 DEF Owed
  <2>6. Owed(r, u) = ClaimValue(r, u)
    BY <1>1 DEF Owed, ClaimValue, Claimable, Settled
  <2>7. Phase(r) = "decided"
    BY <1>1, StoredPhase DEF Claimable, Settled
  <2>. QED BY <2>5, <2>6, <2>7
<1>5. \A r \in RoundId :
        [k \in User |-> Owed(r, k)']
          = [[k \in User |-> Owed(r, k)] EXCEPT ![u] = Owed(r, u)']
  BY <1>3
<1>6. \A r \in RoundId :
        \/ Owed(r, u)' = Owed(r, u)
        \/ Owed(r, u)' = 0 /\ Phase(r) = "decided"
  BY <1>3, <1>4
<1>7. escrow' = [r \in RoundId |-> escrow[r] - (Owed(r, u) - Owed(r, u)')]
  <2>1. escrow' \in [RoundId -> Int] /\ \A r \in RoundId : escrow[r] \in Int
    BY DEF TypeInv, TypeOK
  <2>2. \A r \in RoundId : Owed(r, u) \in Int
    BY OwedNat
  <2>3. \A r \in RoundId : escrow'[r] = escrow[r] - (Owed(r, u) - Owed(r, u)')
    <3>1. TAKE r \in RoundId
    <3>2. CASE r \in R
      <4>1. /\ escrow'[r] = escrow[r] - ClaimValue(r, u)
            /\ Owed(r, u) = ClaimValue(r, u) /\ Owed(r, u)' = 0
        BY <1>1, <1>4, <3>2
      <4>. QED BY <2>2, <4>1
    <3>3. CASE r \notin R
      BY <1>1, <1>3, <2>1, <2>2, <3>3
    <3>. QED BY <3>2, <3>3
  <2>. QED BY <2>1, <2>3
<1>. QED BY <1>2, <1>5, <1>6, <1>7, EscrowSets DEF RoundEscrow!Draw

\* The calls and steps of the environment that only let claims shrink or lapse.
LEMMA ShrinkSteps ==
  ASSUME EscrowInv, MoneyInv', escrow' = escrow, counter' = counter,
         \A r \in RoundId : rounds'[r] = rounds[r] \/ rounds'[r] = None,
         \A r \in RoundId, u \in User : Owed(r, u)' <= Owed(r, u),
         \A r \in RoundId, u \in User :
           positions'[r][u] = positions[r][u] \/ positions'[r][u] = None
  PROVE  RoundEscrow!Shrink
<1> USE DEF EscrowInv, MoneyInv
<1>1. \A r \in RoundId, u \in User : 0 <= Owed(r, u)'
  BY OwedNumbersNext DEF OwedNumbers
<1>2. \A r \in RoundId : Phase(r)' = Phase(r) \/ Phase(r)' = "gone"
  BY DEF Phase
<1>3. ASSUME NEW r \in RoundId, NEW u \in User, Phase(r)' = "open"
      PROVE  Owed(r, u)' \in {0, Owed(r, u)}
  BY <1>3 DEF Phase, Owed, Settled
<1>. QED BY <1>1, <1>2, <1>3, EscrowSets DEF RoundEscrow!Shrink

LEMMA StepIsEscrowStep ==
  ASSUME EscrowInv, MoneyInv', [Next /\ NoFeeCutWhileOwed]_vars
  PROVE  [RoundEscrow!EscrowNext]_(RoundEscrow!escrowVars)
<1> USE DEF EscrowInv, MoneyInv
<1>1. \A r \in RoundId, u \in User : Owed(r, u) \in Nat
  BY OwedNat
<1>2. ASSUME NEW fee \in FeeBps, NEW offset \in LockOffset,
             Initialize(fee, offset)
      PROVE  EscrowStutter
  <2>1. counter' = counter /\ UNCHANGED <<rounds, positions, escrow>>
    BY <1>2 DEF Initialize, Fresh
  <2>2. \A r \in RoundId : rounds[r] = None
    BY <1>2 DEF Initialize, Fresh, RoundId
  <2>. QED BY <2>1, <2>2 DEF EscrowStutter, Phase, Owed
<1>3. ASSUME NEW a \in Asset, NEW tick \in Tick, CreateRound(a, tick)
      PROVE  RoundEscrow!EscrowNext
  BY <1>3, CreateIsOpen, EscrowSets DEF RoundEscrow!EscrowNext
<1>4. ASSUME NEW u \in User, NEW r \in RoundId, NEW side \in Side,
             NEW amount \in BetAmount, Bet(u, r, side, amount)
      PROVE  RoundEscrow!EscrowNext
  BY <1>4, BetIsStake, EscrowSets DEF RoundEscrow!EscrowNext
<1>5. ASSUME NEW r \in RoundId, Settle(r) PROVE RoundEscrow!EscrowNext
  BY <1>5, SettleDecides, EscrowSets DEF RoundEscrow!EscrowNext
<1>6. ASSUME NEW u \in User, NEW r \in RoundId, Claim(u, r)
      PROVE  RoundEscrow!EscrowNext
  <2>1. Paid(u, {r})
    BY <1>6, ClaimIsPaid
  <2>2. RoundEscrow!Draw(u)
    BY <2>1, PaidIsDraw
  <2>. QED BY <2>2, EscrowSets DEF RoundEscrow!EscrowNext
<1>7. ASSUME NEW u \in User, NEW ids \in Batch, ClaimMany(u, ids)
      PROVE  RoundEscrow!EscrowNext
  <2>1. PICK R \in SUBSET RoundId : Paid(u, R)
    BY <1>7, ClaimManyIsPaid
  <2>2. RoundEscrow!Draw(u)
    BY <2>1, PaidIsDraw
  <2>. QED BY <2>2, EscrowSets DEF RoundEscrow!EscrowNext
<1>8. ASSUME NEW bps \in FeeBps, SetFeeBps(bps), NoFeeCutWhileOwed
      PROVE  RoundEscrow!EscrowNext
  <2>1. RoundEscrow!Shrink
    BY <1>8, SetFeeOwed, ShrinkSteps DEF SetFeeBps
  <2>. QED BY <2>1 DEF RoundEscrow!EscrowNext
<1>9. ASSUME NEW seconds \in LockOffset, SetLockOffset(seconds)
      PROVE  EscrowStutter
  <2>1. config'.fee_bps = config.fee_bps
    BY <1>9 DEF SetLockOffset, TypeInv, TypeOK, Config
  <2>. QED BY <1>9, <2>1
           DEF EscrowStutter, SetLockOffset, Phase, Owed, Settled, Worth
<1>10. CASE SweepFees
  BY <1>10, StutterIsEscrowStutter, OwedFrame
     DEF EscrowStutter, SweepFees, Phase
<1>11. CASE AdvanceTime
  <2>1. RoundEscrow!Shrink
    <3>1. /\ escrow' = escrow /\ counter' = counter /\ config' = config
          /\ \A r \in RoundId : rounds'[r] = rounds[r] \/ rounds'[r] = None
          /\ \A r \in RoundId, u \in User :
               positions'[r][u] = positions[r][u] \/ positions'[r][u] = None
      BY <1>11 DEF AdvanceTime
    <3>2. \A r \in RoundId, u \in User : Owed(r, u)' <= Owed(r, u)
      <4>1. TAKE r \in RoundId, u \in User
      <4>2. CASE rounds'[r] = None \/ positions'[r][u] = None
        BY <1>1, <4>2 DEF Owed
      <4>3. CASE rounds'[r] # None /\ positions'[r][u] # None
        BY <1>1, <3>1, <4>3, OwedFrame
      <4>. QED BY <4>2, <4>3
    <3>. QED BY <3>1, <3>2, ShrinkSteps
  <2>. QED BY <2>1 DEF RoundEscrow!EscrowNext
<1>12. ASSUME NEW a, NEW tick, NEW price, LateTick(a, tick, price)
       PROVE  EscrowStutter
  BY <1>12, OwedFrame DEF EscrowStutter, LateTick, Phase
<1>13. CASE UNCHANGED vars
  BY <1>13, StutterIsEscrowStutter, OwedFrame DEF EscrowStutter, vars, Phase
<1>. QED BY <1>2, <1>3, <1>4, <1>5, <1>6, <1>7, <1>8, <1>9, <1>10, <1>11,
            <1>12, <1>13, StutterIsEscrowStutter DEF Next

\* Under the admin rule the contract implements Escrow: on every round together,
\* for any number of bettors and rounds, a call is one step of an escrow that
\* grants no more than the round took in and lets each grant be drawn once.
THEOREM MarketIsEscrows == SteadySpec => RoundsAreEscrows
<1>1. SteadySpec => Spec
  <2>1. [Next /\ NoFeeCutWhileOwed]_vars => [Next]_vars
    OBVIOUS
  <2>. QED BY <2>1, PTL DEF SteadySpec, Spec
<1>2. SteadySpec => [](EscrowInv)
  BY <1>1, MoneyInvariant, SeriesInvariant, PTL DEF EscrowInv
<1>3. EscrowInv /\ EscrowInv' /\ [Next /\ NoFeeCutWhileOwed]_vars
        => [RoundEscrow!EscrowNext]_(RoundEscrow!escrowVars)
  BY StepIsEscrowStep DEF EscrowInv
<1>. QED BY <1>2, <1>3, InitEscrow, PTL
         DEF SteadySpec, RoundsAreEscrows, RoundEscrow!EscrowSpec


-----------------------------------------------------------------------------
(* What the rounding leaves behind.  Once a round is settled, its escrow and what *)
(* its bettors have drawn are together what the settlement left, as long as every *)
(* stake is still stored and the fee of the claims is the fee of the settlement.  *)

\* The rule the bound needs: the fee stays while a settled round is stored.
FeeStays ==
  config # None /\ (\E r \in RoundId : Settled(r))
    => config'.fee_bps = config.fee_bps

\* Every stake of the pools is still stored.
Complete(r) ==
  /\ StakesOn(r, "Up") = rounds[r].pool_up
  /\ StakesOn(r, "Down") = rounds[r].pool_down

\* What a claimed position was paid.
DrawnBy(r, u) ==
  IF positions[r][u] = None THEN 0
  ELSE IF positions[r][u].claimed THEN Worth(rounds[r], positions[r][u]) ELSE 0

Drawn(r) == Sum([u \in User |-> DrawnBy(r, u)], NumUsers)

\* What the settlement left for the bettors.
Kept(r) ==
  IF rounds[r].outcome = "Void" THEN Total(rounds[r])
  ELSE Total(rounds[r]) - Fee(Total(rounds[r]), config.fee_bps)

DrawsAddUp(r) == Settled(r) /\ Complete(r) => escrow[r] + Drawn(r) = Kept(r)

DrawnInv == \A r \in RoundId : DrawsAddUp(r)

DustInv == MoneyInv /\ DrawnInv

LEMMA SettledConfig ==
  ASSUME MoneyInv, NEW r \in RoundId, rounds[r] # None
  PROVE  /\ config \in Config /\ rounds[r] \in Round
         /\ Total(rounds[r]) \in Nat
         /\ Fee(Total(rounds[r]), config.fee_bps) \in 0..Total(rounds[r])
<1> USE DEF MoneyInv, TypeInv
<1>1. ~(r > counter)
  BY DEF Fresh
<1>2. counter # 0
  BY <1>1 DEF RoundId, TypeOK
<1>3. config \in Config /\ rounds[r] \in Round
  BY <1>2 DEF Fresh, TypeOK
<1>4. Total(rounds[r]) \in Nat /\ config.fee_bps \in 0..MaxFeeBps
  BY <1>3 DEF Total, Round, Config
<1>. QED BY <1>3, <1>4, FeeFacts

LEMMA WorthOfStored ==
  ASSUME MoneyInv, NEW r \in RoundId, NEW u \in User, Settled(r),
         positions[r][u] # None
  PROVE  Worth(rounds[r], positions[r][u]) \in Nat
<1> USE DEF MoneyInv, TypeInv
<1>1. rounds[r] \in Round /\ config \in Config
  BY SettledConfig DEF Settled
<1>2. positions[r][u] \in Position
  BY DEF TypeOK
<1>3. rounds[r].outcome # "Void" => rounds[r].pool_up > 0 /\ rounds[r].pool_down > 0
  BY DEF WinnersHavePools
<1>. QED BY <1>1, <1>2, <1>3, WorthNat

LEMMA DrawnByNat ==
  ASSUME MoneyInv, NEW r \in RoundId, Settled(r)
  PROVE  \A u \in User : DrawnBy(r, u) \in Nat
BY WorthOfStored DEF DrawnBy

DrawnNumbers ==
  MoneyInv => \A r \in RoundId : Settled(r) =>
                \A u \in User : DrawnBy(r, u) \in Nat

LEMMA DrawnNumbersNow == DrawnNumbers
BY DrawnByNat DEF DrawnNumbers

LEMMA DrawnNumbersNext == DrawnNumbers'
BY DrawnNumbersNow, PTL

\* The fee the claims read does not change.
SameFee == config'.fee_bps = config.fee_bps

\* A step that leaves a round and its positions alone.
LEMMA DrawnFrame ==
  ASSUME NEW r \in RoundId, DrawsAddUp(r), SameFee, rounds'[r] = rounds[r],
         positions'[r] = positions[r], escrow'[r] = escrow[r]
  PROVE  DrawsAddUp(r)'
<1>1. Settled(r)' = Settled(r) /\ Complete(r)' = Complete(r)
  BY DEF Settled, Complete, StakesOn, StakeOn
<1>2. \A u \in User : DrawnBy(r, u)' = DrawnBy(r, u)
  BY DEF SameFee, DrawnBy, Worth
<1>3. Drawn(r)' = Drawn(r)
  BY <1>2 DEF Drawn
<1>4. Kept(r)' = Kept(r)
  BY DEF SameFee, Kept
<1>. QED BY <1>1, <1>3, <1>4 DEF DrawsAddUp


\* settle() finds nothing drawn, and its fee is what it takes off the escrow.
LEMMA SettleDraws ==
  ASSUME MoneyInv, NEW r \in RoundId, Settle(r)
  PROVE  DrawsAddUp(r)'
<1> USE DEF MoneyInv
<1>1. PICK fee \in Nat :
        /\ fee = IF rounds'[r].outcome = "Void" THEN 0
                 ELSE Fee(Total(rounds[r]), config.fee_bps)
        /\ escrow' = [escrow EXCEPT ![r] = @ - fee]
  BY SettleEffect
<1>2. rounds[r] # None /\ rounds[r].status = "Open"
  BY SettleEffect DEF Settle, Round
<1>3. escrow[r] = Total(rounds[r])
      /\ \A u \in User : positions[r][u] # None => ~positions[r][u].claimed
  BY <1>2 DEF OpenRoundsHoldTheirPools
<1>4. escrow'[r] = Total(rounds[r]) - fee
  BY <1>1, <1>3 DEF TypeInv, TypeOK
<1>5. positions' = positions /\ config' = config
      /\ Total(rounds'[r]) = Total(rounds[r])
  BY SettleEffect DEF Total
<1>6. Total(rounds[r]) \in Nat
  BY <1>2, SettledConfig
<1>7. Kept(r)' = Total(rounds[r]) - fee
  <2>1. Kept(r)' = IF rounds'[r].outcome = "Void" THEN Total(rounds'[r])
                   ELSE Total(rounds'[r]) - Fee(Total(rounds'[r]), config'.fee_bps)
    BY DEF Kept, Total, Fee
  <2>. QED BY <1>1, <1>5, <1>6, <2>1
<1>8. Drawn(r)' = 0
  <2> DEFINE f == [u \in User |-> DrawnBy(r, u)']
  <2>1. \A k \in 1..NumUsers : f[k] = 0
    BY <1>3, <1>5 DEF DrawnBy, User
  <2>2. Drawn(r)' = Sum(f, NumUsers)
    BY DEF Drawn
  <2> HIDE DEF f
  <2>. QED BY <2>1, <2>2, SumZero
<1>. QED BY <1>4, <1>6, <1>7, <1>8 DEF DrawsAddUp

\* A claim moves its value from the escrow to what has been drawn.
LEMMA PaidDraws ==
  ASSUME MoneyInv, MoneyInv', DrawnInv, NEW u \in User, NEW R \in SUBSET RoundId,
         Paid(u, R), NEW r \in R
  PROVE  DrawsAddUp(r)'
<1> USE DEF MoneyInv
<1>1. /\ rounds' = rounds /\ config' = config
      /\ Claimable(r, u)
      /\ positions'[r] = [positions[r] EXCEPT ![u].claimed = TRUE]
      /\ escrow'[r] = escrow[r] - ClaimValue(r, u)
      /\ r \in RoundId
  BY DEF Paid
<1>2. /\ Settled(r) /\ Settled(r)' /\ positions[r][u] # None
      /\ ~positions[r][u].claimed
  BY <1>1 DEF Claimable, Settled
<1>3. positions[r] \in [User -> Position \cup {None}]
      /\ positions[r][u] \in Position
  BY <1>1, <1>2 DEF TypeInv, TypeOK
<1>4. positions'[r][u] = [positions[r][u] EXCEPT !.claimed = TRUE]
      /\ \A k \in User : k # u => positions'[r][k] = positions[r][k]
  BY <1>1, <1>3
<1>5. /\ positions'[r][u] \in Position /\ positions'[r][u].claimed
      /\ positions'[r][u].side = positions[r][u].side
      /\ positions'[r][u].amount = positions[r][u].amount
  BY <1>3, <1>4 DEF Position
<1>6. DrawnBy(r, u) = 0 /\ DrawnBy(r, u)' = ClaimValue(r, u)
  <2>1. DrawnBy(r, u) = 0
    BY <1>2 DEF DrawnBy
  <2>2. ClaimValue(r, u) = Worth(rounds[r], positions[r][u])
    BY <1>1 DEF ClaimValue
  <2>3. positions'[r][u] # None
    BY <1>5
  <2>4. DrawnBy(r, u)' = Worth(rounds[r], positions[r][u])'
    BY <1>5, <2>3 DEF DrawnBy
  <2>5. Worth(rounds[r], positions[r][u])' = Worth(rounds[r], positions[r][u])
    BY <1>1, <1>5 DEF Worth
  <2>. QED BY <2>1, <2>2, <2>4, <2>5
<1>7. \A k \in User : k # u => DrawnBy(r, k)' = DrawnBy(r, k)
  BY <1>1, <1>4 DEF DrawnBy, Worth
<1>8. /\ \A k \in User : DrawnBy(r, k) \in Nat
      /\ \A k \in User : DrawnBy(r, k)' \in Nat
  BY <1>1, <1>2, DrawnNumbersNow, DrawnNumbersNext DEF DrawnNumbers
<1>9. Drawn(r)' = Drawn(r) + ClaimValue(r, u) /\ Drawn(r) \in Int
  <2> DEFINE f == [k \in User |-> DrawnBy(r, k)]
             g == [k \in User |-> DrawnBy(r, k)']
  <2>1. \A k \in 1..NumUsers : f[k] \in Int /\ g[k] \in Int
    BY <1>8 DEF User
  <2>2. (\A k \in 1..NumUsers : k # u => g[k] = f[k])
        /\ f[u] = 0 /\ g[u] = ClaimValue(r, u)
    BY <1>6, <1>7 DEF User
  <2>3. Drawn(r) = Sum(f, NumUsers) /\ Drawn(r)' = Sum(g, NumUsers)
    BY DEF Drawn
  <2>4. u \in 1..NumUsers
    BY DEF User
  <2> HIDE DEF f, g
  <2>5. Sum(g, NumUsers) = Sum(f, NumUsers) - f[u] + g[u]
    BY <2>1, <2>2, <2>4, SumChange
  <2>6. Sum(f, NumUsers) \in Int /\ g[u] \in Int
    BY <2>1, <2>4, SumInt
  <2>. QED BY <2>2, <2>3, <2>5, <2>6
<1>10. Complete(r)' = Complete(r)
  <2>1. \A k \in User, side \in Side : StakeOn(r, k, side)' = StakeOn(r, k, side)
    BY <1>1, <1>2, ClaimKeepsStake DEF TypeInv
  <2>2. \A side \in Side : StakesOn(r, side)' = StakesOn(r, side)
    BY <2>1 DEF StakesOn
  <2>. QED BY <1>1, <2>2 DEF Complete, Side
<1>11. Kept(r)' = Kept(r)
  BY <1>1 DEF Kept
<1>12. escrow[r] \in Int /\ ClaimValue(r, u) \in Int
  <2>1. ClaimValue(r, u) = DrawnBy(r, u)'
    BY <1>6
  <2>2. DrawnBy(r, u)' \in Nat
    BY <1>8
  <2>. QED BY <1>1, <2>1, <2>2 DEF TypeInv, TypeOK
<1>13. Complete(r) => escrow[r] + Drawn(r) = Kept(r)
  BY <1>1, <1>2 DEF DrawnInv, DrawsAddUp
<1>. QED BY <1>1, <1>9, <1>10, <1>11, <1>12, <1>13 DEF DrawsAddUp


\* Stakes only lapse, so if they still fill the pools none with an amount has.
LEMMA StakesStay ==
  ASSUME MoneyInv, MoneyInv', NEW r \in RoundId, NEW side \in Side,
         StakesOn(r, side)' = StakesOn(r, side),
         \A u \in User :
           positions'[r][u] = positions[r][u] \/ positions'[r][u] = None
  PROVE  \A u \in User : StakeOn(r, u, side)' = StakeOn(r, u, side)
<1> USE DEF MoneyInv, TypeInv
<1> DEFINE f == [u \in User |-> StakeOn(r, u, side)']
           g == [u \in User |-> StakeOn(r, u, side)]
<1>1. \A k \in 1..NumUsers : f[k] \in Nat /\ g[k] \in Nat /\ f[k] <= g[k]
  BY DEF User, StakeOn, TypeOK, Position
<1>2. StakesOn(r, side) = Sum(g, NumUsers) /\ StakesOn(r, side)' = Sum(f, NumUsers)
  BY DEF StakesOn
<1>3. \A u \in User : f[u] = StakeOn(r, u, side)' /\ g[u] = StakeOn(r, u, side)
  OBVIOUS
<1> HIDE DEF f, g
<1>4. Sum(f, NumUsers) = Sum(g, NumUsers) /\ NumUsers \in Nat
  BY <1>2
<1>5. \A k \in 1..NumUsers : f[k] = g[k]
  BY <1>1, <1>4, SumSqueezed
<1>. QED BY <1>3, <1>5 DEF User

\* A position without an amount is worth nothing.
LEMMA WorthWithoutAmount ==
  ASSUME MoneyInv, NEW r \in RoundId, NEW u \in User, Settled(r),
         positions[r][u] # None, positions[r][u].amount = 0
  PROVE  Worth(rounds[r], positions[r][u]) = 0
<1> USE DEF MoneyInv, TypeInv
<1> DEFINE round == rounds[r]
           left == Total(round) - Fee(Total(round), config.fee_bps)
           pool == WinningPool(round)
<1>1. CASE round.outcome = "Void"
  <2>1. positions[r][u].side # "Void"
    BY DEF TypeOK, Position, Side
  <2>. QED BY <1>1, <2>1 DEF Worth
<1>2. CASE round.outcome # "Void"
  <2>1. left \in Int /\ round \in Round
    BY SettledConfig DEF Settled
  <2>2. pool \in Nat \ {0}
    BY <1>2, <2>1 DEF WinnersHavePools, WinningPool, Round
  <2>3. Worth(round, positions[r][u]) \in {0, (0 * left) \div pool}
    BY <1>2 DEF Worth
  <2> HIDE DEF left, pool
  <2>4. 0 * left = 0 /\ 0 \div pool = 0
    BY <2>1, <2>2
  <2>. QED BY <2>3, <2>4
<1>. QED BY <1>1, <1>2

\* As time passes a round keeps adding up while its stakes are all there.
LEMMA AdvanceDraws ==
  ASSUME MoneyInv, MoneyInv', DrawnInv, AdvanceTime, NEW r \in RoundId
  PROVE  DrawsAddUp(r)'
<1> USE DEF MoneyInv
<1>1. UNCHANGED <<config, escrow>>
  BY DEF AdvanceTime
<1>2. rounds'[r] = None \/ rounds'[r] = rounds[r]
  BY DEF AdvanceTime
<1>3. \A u \in User :
        positions'[r][u] = positions[r][u] \/ positions'[r][u] = None
  BY DEF AdvanceTime
<1>4. SUFFICES ASSUME Settled(r)', Complete(r)'
               PROVE  (escrow[r] + Drawn(r) = Kept(r))'
  BY DEF DrawsAddUp
<1>5. rounds'[r] = rounds[r] /\ Settled(r) /\ rounds[r] # None
  BY <1>2, <1>4 DEF Settled
<1>6. \A side \in Side : /\ StakesOn(r, side) \in Int /\ StakesOn(r, side)' \in Int
                         /\ StakesOn(r, side)' <= StakesOn(r, side)
  <2>1. TAKE side \in Side
  <2>2. \A u \in User : StakeOn(r, u, side)' <= StakeOn(r, u, side)
    BY <1>3 DEF StakeOn, TypeInv, TypeOK, Position
  <2>3. StakesOn(r, side)' <= StakesOn(r, side)
    BY <2>2, StakesOnDrops DEF TypeInv
  <2>4. StakesOn(r, side) \in Int
    BY StakesOnInt DEF TypeInv
  <2>5. StakesOn(r, side)' \in Int
    <3> DEFINE f == [u \in User |-> StakeOn(r, u, side)']
    <3>1. \A k \in 1..NumUsers : f[k] \in Int
      BY DEF User, StakeOn, TypeInv, TypeOK, Position
    <3>2. StakesOn(r, side)' = Sum(f, NumUsers)
      BY DEF StakesOn
    <3> HIDE DEF f
    <3>. QED BY <3>1, <3>2, SumInt
  <2>. QED BY <2>3, <2>4, <2>5
<1>7. /\ StakesOn(r, "Up") <= rounds[r].pool_up
      /\ StakesOn(r, "Down") <= rounds[r].pool_down
      /\ rounds[r].pool_up \in Int /\ rounds[r].pool_down \in Int
  BY <1>5 DEF PoolsCoverStakes, TypeInv, TypeOK, Round
<1>8. /\ StakesOn(r, "Up")' = rounds[r].pool_up
      /\ StakesOn(r, "Down")' = rounds[r].pool_down
  BY <1>4, <1>5 DEF Complete
<1>9. /\ StakesOn(r, "Up")' = StakesOn(r, "Up")
      /\ StakesOn(r, "Down")' = StakesOn(r, "Down")
      /\ Complete(r)
  BY <1>6, <1>7, <1>8 DEF Side, Complete
<1>10. \A u \in User, side \in Side : StakeOn(r, u, side)' = StakeOn(r, u, side)
  BY <1>3, <1>9, StakesStay DEF Side
<1>11. \A u \in User : DrawnBy(r, u)' = DrawnBy(r, u)
  <2>1. TAKE u \in User
  <2>2. CASE positions'[r][u] = positions[r][u]
    BY <1>1, <1>5, <2>2 DEF DrawnBy, Worth
  <2>3. CASE positions'[r][u] = None /\ positions[r][u] # None
    <3>1. positions[r][u] \in Position
      BY <2>3 DEF TypeInv, TypeOK
    <3>2. positions[r][u].side \in Side
      BY <3>1 DEF Position
    <3>3. positions[r][u].amount = 0
      <4>1. PICK side \in Side : side = positions[r][u].side
        BY <3>2
      <4>2. StakeOn(r, u, side) = positions[r][u].amount
        BY <2>3, <4>1 DEF StakeOn
      <4>3. StakeOn(r, u, side)' = 0
        BY <2>3 DEF StakeOn
      <4>4. StakeOn(r, u, side)' = StakeOn(r, u, side)
        BY <1>10
      <4>. QED BY <4>2, <4>3, <4>4
    <3>4. Worth(rounds[r], positions[r][u]) = 0
      BY <1>5, <2>3, <3>3, WorthWithoutAmount
    <3>5. DrawnBy(r, u)' = 0
      BY <2>3 DEF DrawnBy
    <3>. QED BY <3>4, <3>5 DEF DrawnBy
  <2>. QED BY <1>3, <2>2, <2>3
<1>12. Drawn(r)' = Drawn(r)
  BY <1>11 DEF Drawn
<1>13. Kept(r)' = Kept(r)
  BY <1>1, <1>5 DEF Kept
<1>14. escrow[r] + Drawn(r) = Kept(r)
  BY <1>5, <1>9 DEF DrawnInv, DrawsAddUp
<1>. QED BY <1>1, <1>12, <1>13, <1>14


LEMMA UntouchedDraws ==
  ASSUME MoneyInv, DrawnInv, SameFee, rounds' = rounds, positions' = positions,
         escrow' = escrow
  PROVE  DrawnInv'
<1>1. ASSUME NEW r \in RoundId PROVE DrawsAddUp(r)'
  BY DrawnFrame DEF DrawnInv
<1>. QED BY <1>1 DEF DrawnInv

\* A round that is open, or not stored, has nothing to add up.
LEMMA NothingDecided ==
  ASSUME NEW r \in RoundId, rounds'[r] = None \/ rounds'[r].status = "Open"
  PROVE  DrawsAddUp(r)'
BY DEF DrawsAddUp, Settled

LEMMA NextDraws ==
  ASSUME MoneyInv, MoneyInv', DrawnInv, [Next]_vars, FeeStays \/ UNCHANGED vars
  PROVE  DrawnInv'
<1> USE DEF MoneyInv
<1>1. ASSUME NEW fee \in FeeBps, NEW offset \in LockOffset, Initialize(fee, offset)
      PROVE  DrawnInv'
  <2>1. \A r \in RoundId : rounds'[r] = None
    BY <1>1 DEF Initialize, Fresh, RoundId
  <2>. QED BY <2>1, NothingDecided DEF DrawnInv
<1>2. ASSUME NEW a \in Asset, NEW tick \in Tick, CreateRound(a, tick)
      PROVE  DrawnInv'
  <2>1. PICK id \in RoundId : id = counter + 1
    BY <1>2 DEF CreateRound, TypeInv, TypeOK, RoundId
  <2>2. /\ SameFee /\ positions' = positions /\ escrow' = escrow
        /\ \A r \in RoundId : r # id => rounds'[r] = rounds[r]
    BY <1>2, <2>1 DEF CreateRound, TypeInv, TypeOK, SameFee
  <2>3. rounds'[id].status = "Open"
    BY <1>2, <2>1 DEF CreateRound, TypeInv, TypeOK
  <2>4. ASSUME NEW r \in RoundId PROVE DrawsAddUp(r)'
    <3>1. CASE r = id
      BY <2>3, <3>1, NothingDecided
    <3>2. CASE r # id
      BY <2>2, <3>2, DrawnFrame DEF DrawnInv
    <3>. QED BY <3>1, <3>2
  <2>. QED BY <2>4 DEF DrawnInv
<1>3. ASSUME NEW u \in User, NEW r \in RoundId, NEW side \in Side,
             NEW amount \in BetAmount, Bet(u, r, side, amount)
      PROVE  DrawnInv'
  <2>1. /\ SameFee
        /\ \A s \in RoundId : s # r => /\ rounds'[s] = rounds[s]
                                       /\ positions'[s] = positions[s]
                                       /\ escrow'[s] = escrow[s]
    BY <1>3 DEF Bet, TypeInv, TypeOK, SameFee
  <2>2. rounds'[r].status = "Open"
    <3>1. rounds'[r] = WithStake(rounds[r], side, amount)
          /\ rounds[r].status = "Open" /\ rounds[r] \in Round
      BY <1>3 DEF Bet, TypeInv, TypeOK
    <3>. QED BY <3>1 DEF WithStake, Round
  <2>3. ASSUME NEW s \in RoundId PROVE DrawsAddUp(s)'
    <3>1. CASE s = r
      BY <2>2, <3>1, NothingDecided
    <3>2. CASE s # r
      BY <2>1, <3>2, DrawnFrame DEF DrawnInv
    <3>. QED BY <3>1, <3>2
  <2>. QED BY <2>3 DEF DrawnInv
<1>4. ASSUME NEW r \in RoundId, Settle(r) PROVE DrawnInv'
  <2>1. /\ SameFee /\ positions' = positions
        /\ \A s \in RoundId : s # r => rounds'[s] = rounds[s] /\ escrow'[s] = escrow[s]
    <3>1. PICK fee \in Nat : escrow' = [escrow EXCEPT ![r] = @ - fee]
      BY <1>4, SettleEffect
    <3>. QED BY <1>4, <3>1, SettleEffect DEF SameFee, TypeInv, TypeOK
  <2>2. ASSUME NEW s \in RoundId PROVE DrawsAddUp(s)'
    <3>1. CASE s = r
      BY <1>4, <3>1, SettleDraws
    <3>2. CASE s # r
      BY <2>1, <3>2, DrawnFrame DEF DrawnInv
    <3>. QED BY <3>1, <3>2
  <2>. QED BY <2>2 DEF DrawnInv
<1>5. ASSUME NEW u \in User, NEW R \in SUBSET RoundId, Paid(u, R)
      PROVE  DrawnInv'
  <2>1. ASSUME NEW r \in RoundId PROVE DrawsAddUp(r)'
    <3>1. CASE r \in R
      BY <1>5, <3>1, PaidDraws
    <3>2. CASE r \notin R
      <4>1. /\ SameFee /\ rounds'[r] = rounds[r]
            /\ positions'[r] = positions[r] /\ escrow'[r] = escrow[r]
        BY <1>5, <3>2 DEF Paid, SameFee
      <4>. QED BY <4>1, DrawnFrame DEF DrawnInv
    <3>. QED BY <3>1, <3>2
  <2>. QED BY <2>1 DEF DrawnInv
<1>6. ASSUME NEW u \in User, NEW r \in RoundId, Claim(u, r) PROVE DrawnInv'
  <2>1. Paid(u, {r}) /\ {r} \in SUBSET RoundId
    BY <1>6, ClaimIsPaid
  <2>. QED BY <1>5, <2>1
<1>7. ASSUME NEW u \in User, NEW ids \in Batch, ClaimMany(u, ids) PROVE DrawnInv'
  <2>1. PICK R \in SUBSET RoundId : Paid(u, R)
    BY <1>7, ClaimManyIsPaid
  <2>. QED BY <1>5, <2>1
<1>8. ASSUME NEW bps \in FeeBps, SetFeeBps(bps) PROVE DrawnInv'
  <2>1. rounds' = rounds /\ positions' = positions /\ escrow' = escrow
        /\ config # None
    BY <1>8 DEF SetFeeBps
  <2>2. CASE \E r \in RoundId : Settled(r)
    <3>1. SameFee
      BY <2>1, <2>2 DEF FeeStays, SameFee, vars
    <3>. QED BY <2>1, <3>1, UntouchedDraws
  <2>3. CASE ~\E r \in RoundId : Settled(r)
    <3>1. \A r \in RoundId : ~Settled(r)'
      BY <2>1, <2>3 DEF Settled
    <3>. QED BY <3>1 DEF DrawnInv, DrawsAddUp
  <2>. QED BY <2>2, <2>3
<1>9. ASSUME NEW seconds \in LockOffset, SetLockOffset(seconds) PROVE DrawnInv'
  <2>1. SameFee
    BY <1>9 DEF SetLockOffset, SameFee, TypeInv, TypeOK, Config
  <2>. QED BY <1>9, <2>1, UntouchedDraws DEF SetLockOffset
<1>10. CASE SweepFees
  BY <1>10, UntouchedDraws DEF SweepFees, SameFee
<1>11. CASE AdvanceTime
  <2>1. ASSUME NEW r \in RoundId PROVE DrawsAddUp(r)'
    BY <1>11, AdvanceDraws
  <2>. QED BY <2>1 DEF DrawnInv
<1>12. ASSUME NEW a, NEW tick, NEW price, LateTick(a, tick, price)
       PROVE  DrawnInv'
  BY <1>12, UntouchedDraws DEF LateTick, SameFee
<1>13. CASE UNCHANGED vars
  BY <1>13, UntouchedDraws DEF vars, SameFee
<1>. QED BY <1>1, <1>2, <1>3, <1>4, <1>6, <1>7, <1>8, <1>9, <1>10, <1>11,
            <1>12, <1>13 DEF Next



\* Shares of d in proportion to a, each rounded down, miss less than one for each
\* of the parties A that hold the whole w between them.
LEMMA SharesNearly ==
  ASSUME NEW n \in Nat, NEW x, NEW a, NEW A \in SUBSET (1..n),
         NEW d \in Nat, NEW w \in Nat \ {0},
         \A k \in 1..n : a[k] \in Nat /\ x[k] = (a[k] * d) \div w,
         \A k \in 1..n : k \notin A => a[k] = 0,
         Sum(a, n) = w
  PROVE  d - Sum(x, n) \in 0..(Cardinality(A) - 1)
<1> DEFINE c == [k \in 1..n |-> IF k \in A THEN 1 ELSE 0]
           e == [k \in 1..n |-> x[k] + c[k]]
           f == [k \in 1..n |-> e[k] * w]
           g == [k \in 1..n |-> a[k] * d]
           h == [k \in 1..n |-> g[k] + c[k]]
<1>1. ASSUME NEW k \in 1..n
      PROVE  /\ x[k] \in Nat /\ x[k] * w <= a[k] * d
             /\ c[k] \in {0, 1} /\ c[k] = (IF k \in A THEN 1 ELSE 0)
             /\ e[k] = x[k] + c[k] /\ e[k] \in Nat
             /\ f[k] = e[k] * w /\ f[k] \in Nat
             /\ g[k] = a[k] * d /\ g[k] \in Nat
             /\ h[k] = g[k] + c[k] /\ h[k] \in Nat
             /\ h[k] <= f[k]
  <2>1. PICK z \in Nat : z = a[k]
    OBVIOUS
  <2>2. PICK v \in Nat : v = z * d
    OBVIOUS
  <2>3. /\ v \div w \in Nat /\ (v \div w) * w <= v
        /\ v + 1 <= (v \div w) * w + w
    OBVIOUS
  <2>4. PICK q \in Nat : q = v \div w
    BY <2>3
  <2>5. x[k] = q /\ q * w <= v /\ v + 1 <= q * w + w
    BY <2>1, <2>2, <2>3, <2>4
  <2>6. c[k] \in {0, 1} /\ c[k] = (IF k \in A THEN 1 ELSE 0)
    OBVIOUS
  <2>7. e[k] = q + c[k] /\ f[k] = e[k] * w /\ g[k] = v /\ h[k] = v + c[k]
    BY <2>1, <2>2, <2>5
  <2> HIDE DEF c, e, f, g, h
  <2>8. h[k] <= f[k]
    <3>1. CASE c[k] = 0
      <4>1. k \notin A
        BY <2>6, <3>1
      <4>2. z = 0 /\ 0 * d = 0
        BY <2>1, <4>1
      <4>3. v = 0 /\ q * w \in Nat
        BY <2>2, <4>2
      <4>4. h[k] = 0 /\ f[k] = q * w
        BY <2>4, <2>7, <3>1, <4>3
      <4>. QED BY <4>3, <4>4
    <3>2. CASE c[k] = 1
      <4>1. f[k] = (q + 1) * w /\ (q + 1) * w = q * w + w
        BY <2>7, <3>2
      <4>. QED BY <2>5, <2>7, <3>2, <4>1
    <3>. QED BY <2>6, <3>1, <3>2
  <2>9. e[k] \in Nat
    BY <2>6, <2>7
  <2>10. f[k] \in Nat
    BY <2>7, <2>9
  <2>. QED BY <2>1, <2>2, <2>5, <2>6, <2>7, <2>8, <2>9, <2>10
<1> HIDE DEF c, e, f, g, h
<1>2. /\ Sum(x, n) \in Nat /\ Sum(c, n) \in Nat /\ Sum(e, n) \in Nat
      /\ Sum(f, n) \in Nat /\ Sum(g, n) \in Nat /\ Sum(h, n) \in Nat
      /\ \A k \in 1..n : c[k] <= Sum(c, n)
  <2>1. \A k \in 1..n : c[k] \in Nat
    BY <1>1
  <2>. QED BY <1>1, <2>1, SumNat
<1>3. Sum(c, n) = Cardinality(A)
  BY <1>1, SumCount
<1>4. Sum(e, n) = Sum(x, n) + Sum(c, n)
  <2>1. \A k \in 1..n : x[k] \in Int /\ c[k] \in Int /\ e[k] = x[k] + c[k]
    BY <1>1
  <2>. QED BY <2>1, SumPlus
<1>5. Sum(h, n) = Sum(g, n) + Sum(c, n)
  <2>1. \A k \in 1..n : g[k] \in Int /\ c[k] \in Int /\ h[k] = g[k] + c[k]
    BY <1>1
  <2>. QED BY <2>1, SumPlus
<1>6. Sum(h, n) <= Sum(f, n)
  BY <1>1, SumMonotone
<1>7. Sum(f, n) <= Sum(e, n) * w
  <2>1. \A k \in 1..n : f[k] \in Nat /\ e[k] \in Nat /\ f[k] * 1 <= e[k] * w
    BY <1>1
  <2>2. Sum(f, n) * 1 <= Sum(e, n) * w
    BY <2>1, SumShares
  <2>. QED BY <1>2, <2>2
<1>8. w * d <= Sum(g, n)
  <2>1. \A k \in 1..n : a[k] \in Nat /\ g[k] \in Nat /\ a[k] * d <= g[k] * 1
    BY <1>1
  <2>2. Sum(a, n) * d <= Sum(g, n) * 1
    BY <2>1, SumShares
  <2>. QED BY <1>2, <2>2
<1>9. Sum(x, n) * w <= w * d
  <2>1. \A k \in 1..n : x[k] \in Nat /\ a[k] \in Nat /\ x[k] * w <= a[k] * d
    BY <1>1
  <2>. QED BY <2>1, SumShares
<1>10. Sum(c, n) >= 1
  <2>1. SUFFICES ASSUME Sum(c, n) = 0 PROVE FALSE
    BY <1>2
  <2>2. \A k \in 1..n : c[k] = 0
    BY <1>1, <1>2, <2>1
  <2>3. \A k \in 1..n : a[k] = 0
    BY <1>1, <2>2
  <2>. QED BY <2>3, SumZero
<1>11. PICK s, m \in Nat : s = Sum(x, n) /\ m = Cardinality(A)
  BY <1>2, <1>3
<1>12. m >= 1 /\ s * w <= w * d /\ w * d + m <= (s + m) * w
  <2>1. Sum(e, n) = s + m
    BY <1>3, <1>4, <1>11
  <2>2. w * d + m <= Sum(h, n)
    <3>1. w * d \in Nat
      OBVIOUS
    <3>. QED BY <1>2, <1>3, <1>5, <1>8, <1>11, <3>1
  <2>3. w * d \in Nat /\ (s + m) * w \in Nat
    OBVIOUS
  <2>. QED BY <1>2, <1>3, <1>6, <1>7, <1>9, <1>10, <1>11, <2>1, <2>2, <2>3
<1>13. s <= d
  BY <1>12, \A i, j \in Nat, k \in Nat \ {0} : i * k <= k * j => i <= j
<1>14. d < s + m
  <2>1. w * d < (s + m) * w
    <3>1. w * d \in Nat /\ (s + m) * w \in Nat
      OBVIOUS
    <3>. QED BY <1>12, <3>1
  <2>. QED BY <2>1, \A i, j \in Nat, k \in Nat \ {0} : k * i < j * k => i < j
<1>. QED BY <1>11, <1>13, <1>14

\* What a round still holds when all of its stakes have been claimed.
LEMMA DustInvBounds == DustInv => DustBounded
<1> SUFFICES ASSUME DustInv, NEW r \in RoundId, AllClaimed(r)
             PROVE  LET winners == {u \in User : /\ positions[r][u] # None
                                       /\ positions[r][u].side = rounds[r].outcome}
                    IN IF rounds[r].outcome = "Void" THEN escrow[r] = 0
                       ELSE escrow[r] \in 0..(Cardinality(winners) - 1)
  BY DEF DustBounded
<1> USE DEF DustInv, MoneyInv, TypeInv
<1> DEFINE round == rounds[r]
           winners == {u \in User : /\ positions[r][u] # None
                                    /\ positions[r][u].side = round.outcome}
           x == [u \in User |-> DrawnBy(r, u)]
<1>1. /\ Settled(r) /\ Complete(r) /\ round # None
      /\ \A u \in User : positions[r][u] # None => positions[r][u].claimed
  BY DEF AllClaimed, Complete, Claimable, Settled
<1>2. /\ round \in Round /\ config \in Config /\ Total(round) \in Nat
      /\ Fee(Total(round), config.fee_bps) \in 0..Total(round)
  BY <1>1, SettledConfig
<1>3. escrow[r] + Drawn(r) = Kept(r)
  BY <1>1 DEF DrawnInv, DrawsAddUp
<1>4. Drawn(r) = Sum(x, NumUsers) /\ escrow[r] \in Int
  BY DEF Drawn, TypeOK
<1>5. \A k \in 1..NumUsers : x[k] \in Nat
  BY <1>1, DrawnByNat DEF User
<1>6. Sum(x, NumUsers) \in Nat
  <2> HIDE DEF x
  <2>. QED BY <1>5, SumNat
<1>7. CASE round.outcome = "Void"
  <2> DEFINE up == [u \in User |-> StakeOn(r, u, "Up")]
             down == [u \in User |-> StakeOn(r, u, "Down")]
  <2>1. \A k \in 1..NumUsers : up[k] \in Int /\ down[k] \in Int /\ x[k] = up[k] + down[k]
    <3>1. TAKE k \in 1..NumUsers
    <3>2. k \in User
      BY DEF User
    <3>3. CASE positions[r][k] = None
      BY <3>2, <3>3 DEF StakeOn, DrawnBy
    <3>4. CASE positions[r][k] # None
      <4>1. positions[r][k] \in Position
        BY <3>2, <3>4 DEF TypeOK
      <4>2. positions[r][k].side \in {"Up", "Down"} /\ positions[r][k].amount \in Nat
        BY <4>1 DEF Position, Side
      <4>3. x[k] = positions[r][k].amount
        <5>1. positions[r][k].side # "Void"
          BY <4>2
        <5>2. x[k] = Worth(round, positions[r][k])
          BY <1>1, <3>2, <3>4 DEF DrawnBy
        <5>3. Worth(round, positions[r][k]) = positions[r][k].amount
          BY <1>7, <5>1 DEF Worth
        <5>. QED BY <5>2, <5>3
      <4>. QED BY <3>2, <3>4, <4>2, <4>3 DEF StakeOn
    <3>. QED BY <3>3, <3>4
  <2>2. Sum(up, NumUsers) = round.pool_up /\ Sum(down, NumUsers) = round.pool_down
    BY <1>1 DEF Complete, StakesOn
  <2> HIDE DEF x, up, down
  <2>3. Sum(x, NumUsers) = Sum(up, NumUsers) + Sum(down, NumUsers)
    BY <2>1, SumPlus
  <2>4. Kept(r) = Sum(x, NumUsers)
    BY <1>7, <2>2, <2>3 DEF Kept, Total
  <2>5. escrow[r] = 0
    BY <1>3, <1>4, <1>6, <2>4
  <2>. QED BY <1>7, <2>5
<1>8. CASE round.outcome # "Void"
  <2> DEFINE d == Total(round) - Fee(Total(round), config.fee_bps)
             w == WinningPool(round)
             a == [u \in User |-> StakeOn(r, u, round.outcome)]
  <2>1. d \in Nat /\ Kept(r) = d
    BY <1>2, <1>8 DEF Kept
  <2>2. w \in Nat \ {0} /\ round.outcome \in {"Up", "Down"}
    BY <1>1, <1>2, <1>8 DEF WinnersHavePools, WinningPool, Round, Outcome
  <2>3. ASSUME NEW k \in 1..NumUsers
        PROVE  /\ a[k] \in Nat /\ x[k] = (a[k] * d) \div w
               /\ (k \notin winners => a[k] = 0)
    <3>1. k \in User
      BY DEF User
    <3>2. CASE k \notin winners
      <4>1. a[k] = 0
        BY <3>1, <3>2 DEF StakeOn
      <4>2. x[k] = 0
        BY <1>8, <3>1, <3>2 DEF DrawnBy, Worth
      <4> HIDE DEF a, d, w, x
      <4>3. 0 * d = 0 /\ 0 \div w = 0
        BY <2>1, <2>2
      <4>. QED BY <4>1, <4>2, <4>3
    <3>3. CASE k \in winners
      <4>1. positions[r][k] \in Position
        BY <3>1, <3>3 DEF TypeOK
      <4>2. a[k] = positions[r][k].amount /\ a[k] \in Nat
        BY <3>1, <3>3, <4>1 DEF StakeOn, Position
      <4>3. x[k] = Worth(round, positions[r][k])
        BY <1>1, <3>1, <3>3 DEF DrawnBy
      <4>4. Worth(round, positions[r][k]) = (positions[r][k].amount * d) \div w
        BY <1>8, <3>3 DEF Worth
      <4>. QED BY <3>3, <4>2, <4>3, <4>4
    <3>. QED BY <3>2, <3>3
  <2>4. Sum(a, NumUsers) = w
    <3>1. Sum(a, NumUsers) = StakesOn(r, round.outcome)
      BY DEF StakesOn
    <3>. QED BY <1>1, <2>2, <3>1 DEF Complete, WinningPool
  <2>5. winners \in SUBSET (1..NumUsers)
    BY DEF User
  <2> HIDE DEF winners, x, a, d, w
  <2>6. d - Sum(x, NumUsers) \in 0..(Cardinality(winners) - 1)
    BY <2>1, <2>2, <2>3, <2>4, <2>5, SharesNearly
  <2>7. escrow[r] = d - Sum(x, NumUsers)
    BY <1>3, <1>4, <1>6, <2>1
  <2>8. escrow[r] \in 0..(Cardinality(winners) - 1)
    BY <2>6, <2>7
  <2>. QED BY <1>8, <2>8 DEF winners
<1>. QED BY <1>7, <1>8

\* As long as the fee is not changed while a settled round is stored, a round whose
\* stakes have all been claimed keeps nothing when it was void, and otherwise less
\* than one stroop for each winner, whatever the stakes and the pools.
THEOREM DustIsBounded == Spec /\ [][FeeStays]_vars => []DustBounded
<1>1. TypeInv /\ [Next]_vars /\ [FeeStays]_vars => [Next /\ NoFeeCutWhileOwed]_vars
  <2> SUFFICES ASSUME TypeInv, Next, FeeStays, config # None,
                      config'.fee_bps < config.fee_bps, NEW r \in RoundId,
                      NEW u \in User, Claimable(r, u)
               PROVE  FALSE
    BY DEF NoFeeCutWhileOwed
  <2>1. config'.fee_bps = config.fee_bps
    BY DEF FeeStays, Claimable
  <2>2. config.fee_bps \in Nat
    BY DEF TypeInv, TypeOK, Config
  <2>. QED BY <2>1, <2>2
<1>2. Spec /\ [][FeeStays]_vars => SteadySpec
  BY TypeInvariant, <1>1, PTL DEF Spec, SteadySpec
<1>3. Init /\ MoneyInv => DustInv
  BY DEF DustInv, DrawnInv, DrawsAddUp, Settled, Init
<1>4. DustInv /\ MoneyInv' /\ [Next]_vars /\ [FeeStays]_vars => DustInv'
  BY NextDraws DEF DustInv
<1>5. Spec /\ [][FeeStays]_vars => []DustInv
  BY <1>2, <1>3, <1>4, MoneyInvariant, PTL DEF Spec, SteadySpec
<1>. QED BY <1>5, DustInvBounds, PTL

=============================================================================
