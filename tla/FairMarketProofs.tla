-------------------------- MODULE FairMarketProofs --------------------------
(* Theorems about FairMarket, for every value of its constants. *)
EXTENDS FairMarket, SumTheorems, SequenceTheorems

USE BoundsAssumption, ParametersAssumption, NoneAssumption
  DEF BoundsAssumption, ParametersAssumption, NoneAssumption,
      SettlePrice, MaySettle, Locked, FreshTick

LEMMA DivisionFacts ==
  \A a, b \in Nat, c \in Nat \ {0} :
    /\ a \div c \in Nat
    /\ (a \div c) * c <= a
    /\ a <= b => a \div c <= b \div c
OBVIOUS

\* A fee is part of the total, and a higher rate takes no less.
LEMMA FeeFacts ==
  ASSUME NEW total \in Nat, NEW bps \in 0..MaxFeeBps
  PROVE  /\ Fee(total, bps) \in 0..total
         /\ \A higher \in 0..MaxFeeBps : bps <= higher =>
              Fee(total, bps) <= Fee(total, higher)
<1>1. \A rate \in 0..MaxFeeBps : total * rate \in Nat
  OBVIOUS
<1>2. total * bps <= total * BpsDenominator
  BY \A x, y, z \in Nat : x <= y => z * x <= z * y
<1>3. Fee(total, bps) * BpsDenominator <= total * BpsDenominator
  BY <1>1, <1>2, DivisionFacts DEF Fee
<1>4. Fee(total, bps) \in Nat
  BY <1>1, DivisionFacts DEF Fee
<1>5. Fee(total, bps) <= total
  BY <1>3, <1>4, \A x, y \in Nat, z \in Nat \ {0} : x * z <= y * z => x <= y
<1>6. ASSUME NEW higher \in 0..MaxFeeBps, bps <= higher
      PROVE  Fee(total, bps) <= Fee(total, higher)
  <2>1. total * bps <= total * higher
    BY <1>6, \A x, y, z \in Nat : x <= y => z * x <= z * y
  <2>. QED BY <2>1, <1>1, DivisionFacts DEF Fee
<1>. QED BY <1>4, <1>5, <1>6

-----------------------------------------------------------------------------
(* Type correctness.  A claim divides by the winning pool, so that its value *)
(* is a number rests on settle() never naming a winner of an empty pool.     *)

WinnersHavePools ==
  \A r \in RoundId : Settled(r) /\ rounds[r].outcome # "Void" =>
    rounds[r].pool_up > 0 /\ rounds[r].pool_down > 0

TypeInv == TypeOK /\ WinnersHavePools

LEMMA WorthNat ==
  ASSUME NEW round \in Round, NEW pos \in Position, config \in Config,
         round.outcome # "Void" => round.pool_up > 0 /\ round.pool_down > 0
  PROVE  Worth(round, pos) \in Nat
<1>1. Total(round) \in Nat /\ config.fee_bps \in 0..MaxFeeBps
  BY DEF Total, Round, Config
<1>2. Fee(Total(round), config.fee_bps) \in 0..Total(round)
  BY <1>1, FeeFacts
<1>3. pos.amount * (Total(round) - Fee(Total(round), config.fee_bps)) \in Nat
  <2>1. pos.amount \in Nat
    BY DEF Position
  <2>. QED BY <1>1, <1>2, <2>1
<1>4. CASE round.outcome = "Void"
  BY <1>4 DEF Worth, Position, Side
<1>5. CASE round.outcome # "Void"
  <2>1. WinningPool(round) \in Nat \ {0}
    BY <1>5 DEF WinningPool, Round
  <2>2. (pos.amount * (Total(round) - Fee(Total(round), config.fee_bps)))
          \div WinningPool(round) \in Nat
    BY <1>3, <2>1, DivisionFacts
  <2>. QED BY <1>5, <2>2 DEF Worth
<1>. QED BY <1>4, <1>5

LEMMA ClaimValueNat ==
  ASSUME TypeInv, config # None, NEW r \in RoundId, NEW u \in User
  PROVE  ClaimValue(r, u) \in Nat
<1>1. CASE Claimable(r, u)
  <2>1. rounds[r] \in Round /\ positions[r][u] \in Position
        /\ config \in Config
    BY <1>1 DEF TypeInv, TypeOK, Claimable, Settled
  <2>2. rounds[r].outcome # "Void" =>
          rounds[r].pool_up > 0 /\ rounds[r].pool_down > 0
    BY <1>1 DEF TypeInv, WinnersHavePools, Claimable
  <2>. QED BY <1>1, <2>1, <2>2, WorthNat DEF ClaimValue
<1>2. CASE ~Claimable(r, u)
  BY <1>2 DEF ClaimValue
<1>. QED BY <1>1, <1>2

LEMMA InitType == Init => TypeOK
BY DEF Init, TypeOK, Time, Config, RoundId, User

LEMMA ExtendedNat ==
  ASSUME TypeOK, NEW liveUntil \in Nat PROVE Extended(liveUntil) \in Nat
BY DEF TypeOK, Time, Extended

\* What bet and settle write back is a round.
LEMMA WithStakeType ==
  ASSUME TypeOK, NEW round \in Round, NEW side, NEW amount \in Nat
  PROVE  WithStake(round, side, amount) \in Round
<1>1. Extended(round.live_until) \in Nat
  BY ExtendedNat DEF Round
<1>2. /\ (IF side = "Up" THEN round.pool_up + amount ELSE round.pool_up) \in Nat
      /\ (IF side = "Down" THEN round.pool_down + amount
          ELSE round.pool_down) \in Nat
  BY DEF Round
<1>. QED BY <1>1, <1>2 DEF Round, WithStake

LEMMA WithOutcomeType ==
  ASSUME TypeOK, NEW round \in Round, NEW price \in Price \cup {None},
         NEW outcome \in Outcome
  PROVE  WithOutcome(round, price, outcome) \in Round
<1>1. Extended(round.live_until) \in Nat
  BY ExtendedNat DEF Round
<1>. QED BY <1>1 DEF Round, WithOutcome

LEMMA VerdictOutcome ==
  ASSUME NEW round, NEW price PROVE Verdict(round, price) \in Outcome
BY DEF Verdict, Outcome

LEMMA BetType ==
  ASSUME TypeOK, NEW u \in User, NEW r \in RoundId, NEW side \in Side,
         NEW amount \in BetAmount, Bet(u, r, side, amount)
  PROVE  TypeOK'
<1>1. rounds[r] \in Round /\ amount \in Nat
  BY DEF Bet, TypeOK
<1>2. WithStake(rounds[r], side, amount) \in Round
  BY <1>1, WithStakeType
<1>3. rounds' \in [RoundId -> Round \cup {None}]
  BY <1>2 DEF Bet, TypeOK
<1>4. positions' \in [RoundId -> [User -> Position \cup {None}]]
  <2>1. now + TempBump \in Nat
    BY DEF TypeOK, Time
  <2>2. [side |-> side, amount |-> amount, claimed |-> FALSE,
         live_until |-> now + TempBump] \in Position
    BY <1>1, <2>1 DEF Position
  <2>. QED BY <2>2 DEF Bet, TypeOK
<1>. QED BY <1>1, <1>3, <1>4 DEF Bet, TypeOK, environment

LEMMA SettleType ==
  ASSUME TypeOK, NEW r \in RoundId, Settle(r)
  PROVE  TypeOK' /\ rounds'[r] \in Round
<1> DEFINE round == rounds[r]
           price == feed[round.asset][round.settle_ts]
           outcome == Verdict(round, price)
           fee == IF outcome = "Void" THEN 0
                  ELSE Fee(Total(round), config.fee_bps)
<1>1. round \in Round /\ config \in Config
  BY DEF Settle, TypeOK
<1>2. round.settle_ts \in Time
  BY <1>1 DEF Settle, TypeOK, Time, Round
<1>3. price \in Price \cup {None}
  BY <1>1, <1>2 DEF TypeOK, Round
<1>4. Total(round) \in Nat /\ config.fee_bps \in 0..MaxFeeBps
  BY <1>1 DEF Total, Round, Config
<1>5. fee \in Nat
  BY <1>4, FeeFacts
<1>6. /\ rounds' = [rounds EXCEPT ![r] = WithOutcome(round, price, outcome)]
      /\ fees' = fees + fee
      /\ escrow' = [escrow EXCEPT ![r] = @ - fee]
  BY DEF Settle
<1>7. outcome \in Outcome
  BY VerdictOutcome
<1> HIDE DEF price, outcome, fee
<1>8. WithOutcome(round, price, outcome) \in Round
  BY <1>1, <1>3, <1>7, WithOutcomeType
<1>9. rounds' \in [RoundId -> Round \cup {None}]
  BY <1>6, <1>8 DEF TypeOK
<1>10. rounds'[r] \in Round
  BY <1>6, <1>8 DEF TypeOK
<1>. QED BY <1>5, <1>6, <1>9, <1>10 DEF Settle, TypeOK, environment

LEMMA BatchIndices ==
  ASSUME NEW ids \in Batch
  PROVE  Len(ids) \in Nat /\ \A k \in 1..Len(ids) : ids[k] \in RoundId
<1>1. ids \in Seq(RoundId)
  BY SeqDef DEF Batch
<1>. QED BY <1>1, LenProperties, ElementOfSeq

LEMMA BatchTotalNat ==
  ASSUME TypeInv, config # None, NEW u \in User, NEW ids \in Batch
  PROVE  BatchTotal(u, ids) \in Nat
<1> DEFINE f == [k \in 1..Len(ids) |-> BatchValue(u, ids, k)]
<1>1. \A k \in 1..Len(ids) : f[k] \in Nat
  BY BatchIndices, ClaimValueNat DEF BatchValue
<1> HIDE DEF f
<1>2. Sum(f, Len(ids)) \in Nat
  BY <1>1, BatchIndices, SumNat
<1>. QED BY <1>2 DEF BatchTotal, f

LEMMA ClaimedType ==
  ASSUME TypeOK, NEW r \in RoundId, NEW u \in User, positions[r][u] # None
  PROVE  [positions[r] EXCEPT ![u].claimed = TRUE]
           \in [User -> Position \cup {None}]
<1>1. positions[r] \in [User -> Position \cup {None}]
      /\ positions[r][u] \in Position
  BY DEF TypeOK
<1>2. [positions[r][u] EXCEPT !.claimed = TRUE] \in Position
  BY <1>1 DEF Position
<1>. QED BY <1>1, <1>2

LEMMA ClaimType ==
  ASSUME TypeInv, NEW u \in User, NEW r \in RoundId, Claim(u, r)
  PROVE  TypeOK'
<1>1. ClaimValue(r, u) \in Nat
  BY ClaimValueNat DEF Claim
<1>2. positions' = [positions EXCEPT
                      ![r] = [positions[r] EXCEPT ![u].claimed = TRUE]]
  BY DEF Claim, TypeInv, TypeOK
<1>3. positions' \in [RoundId -> [User -> Position \cup {None}]]
  BY <1>2, ClaimedType DEF TypeInv, TypeOK, Claim, Claimable
<1>4. vault' \in Nat /\ escrow' \in [RoundId -> Int]
  BY <1>1 DEF Claim, TypeInv, TypeOK
<1>. QED BY <1>3, <1>4 DEF Claim, TypeInv, TypeOK, environment

LEMMA ClaimManyType ==
  ASSUME TypeInv, NEW u \in User, NEW ids \in Batch, ClaimMany(u, ids)
  PROVE  TypeOK'
<1>1. BatchTotal(u, ids) \in Nat /\ \A r \in RoundId : ClaimValue(r, u) \in Nat
  BY BatchTotalNat, ClaimValueNat DEF ClaimMany
<1>2. positions' \in [RoundId -> [User -> Position \cup {None}]]
  BY ClaimedType DEF ClaimMany, TypeInv, TypeOK, Claimable
<1>3. vault' \in Nat
  BY <1>1 DEF ClaimMany, TypeInv, TypeOK
<1>4. escrow' \in [RoundId -> Int]
  <2>1. \A r \in RoundId : escrow[r] \in Int
                          /\ escrow[r] - ClaimValue(r, u) \in Int
    BY <1>1 DEF TypeInv, TypeOK
  <2>. QED BY <2>1 DEF ClaimMany
<1>. QED BY <1>2, <1>3, <1>4 DEF ClaimMany, TypeInv, TypeOK, environment

LEMMA AdvanceTimeType ==
  ASSUME TypeOK, AdvanceTime PROVE TypeOK'
<1>1. now' \in Time
  BY DEF AdvanceTime, TypeOK, Time
<1>2. feed' \in [Asset -> [Time -> Price \cup {None}]]
  BY DEF AdvanceTime, TypeOK, Ticking, Tick
<1>3. rounds' \in [RoundId -> Round \cup {None}]
  BY DEF AdvanceTime, TypeOK
<1>4. positions' \in [RoundId -> [User -> Position \cup {None}]]
  BY DEF AdvanceTime, TypeOK
<1>. QED BY <1>1, <1>2, <1>3, <1>4 DEF AdvanceTime, TypeOK

LEMMA CreateRoundType ==
  ASSUME TypeOK, NEW a \in Asset, NEW tick \in Tick, CreateRound(a, tick)
  PROVE  TypeOK'
<1>1. counter + 1 \in RoundId /\ counter + 1 \in 0..MaxRounds
  BY DEF CreateRound, TypeOK, RoundId
<1>2. tick \in Nat /\ tick \in Time /\ now + TempBump \in Nat
  BY DEF Tick, Time, TypeOK
<1>3. feed[a][tick] \in Price
  BY <1>2 DEF CreateRound, Published, TypeOK
<1>4. config.lock_offset \in Nat
  BY DEF CreateRound, TypeOK, Config
<1>5. rounds'[counter + 1] \in Round
  BY <1>1, <1>2, <1>3, <1>4 DEF CreateRound, TypeOK, Round, Outcome
<1>6. rounds' \in [RoundId -> Round \cup {None}]
  BY <1>5 DEF CreateRound, TypeOK
<1>. QED BY <1>1, <1>2, <1>6 DEF CreateRound, TypeOK, environment

LEMMA ConfigType ==
  ASSUME TypeOK,
         \/ \E fee \in FeeBps, offset \in LockOffset : Initialize(fee, offset)
         \/ \E bps \in FeeBps : SetFeeBps(bps)
         \/ \E seconds \in LockOffset : SetLockOffset(seconds)
  PROVE  TypeOK'
BY DEF Initialize, SetFeeBps, SetLockOffset, TypeOK, Config, environment

LEMMA NextType ==
  ASSUME TypeInv, [Next]_vars PROVE TypeOK'
<1> USE DEF TypeInv
<1>1. CASE \E fee \in FeeBps, offset \in LockOffset : Initialize(fee, offset)
  BY <1>1, ConfigType
<1>2. CASE \E a \in Asset, tick \in Tick : CreateRound(a, tick)
  BY <1>2, CreateRoundType
<1>3. CASE \E u \in User, r \in RoundId, side \in Side, amount \in BetAmount :
             Bet(u, r, side, amount)
  BY <1>3, BetType
<1>4. CASE \E r \in RoundId : Settle(r)
  BY <1>4, SettleType
<1>5. CASE \E u \in User, r \in RoundId : Claim(u, r)
  BY <1>5, ClaimType
<1>6. CASE \E u \in User, ids \in Batch : ClaimMany(u, ids)
  BY <1>6, ClaimManyType
<1>7. CASE \E bps \in FeeBps : SetFeeBps(bps)
  BY <1>7, ConfigType
<1>8. CASE \E seconds \in LockOffset : SetLockOffset(seconds)
  BY <1>8, ConfigType
<1>9. CASE SweepFees
  BY <1>9 DEF SweepFees, TypeOK, environment
<1>10. CASE AdvanceTime
  BY <1>10, AdvanceTimeType
<1>11. CASE \E a \in Asset, tick \in Tick, price \in Price :
              LateTick(a, tick, price)
  BY <1>11 DEF LateTick, TypeOK, Tick
<1>12. CASE UNCHANGED vars
  BY <1>12 DEF vars, TypeOK
<1>. QED BY <1>1, <1>2, <1>3, <1>4, <1>5, <1>6, <1>7, <1>8, <1>9, <1>10,
            <1>11, <1>12 DEF Next

\* A round is settled by settle() alone, and its pools are then fixed.
LEMMA SettledBySettle ==
  ASSUME TypeInv, NEW r \in RoundId, rounds'[r] # rounds[r],
         rounds'[r] # None, rounds'[r].status = "Settled", [Next]_vars
  PROVE  Settle(r)
<1> USE DEF TypeInv
<1>1. ASSUME NEW a \in Asset, NEW tick \in Tick, CreateRound(a, tick)
      PROVE  FALSE
  <2>1. counter + 1 \in RoundId
    BY <1>1 DEF CreateRound, TypeOK, RoundId
  <2>. QED BY <1>1, <2>1 DEF CreateRound, TypeOK
<1>2. ASSUME NEW u \in User, NEW s \in RoundId, NEW side \in Side,
             NEW amount \in BetAmount, Bet(u, s, side, amount)
      PROVE  FALSE
  <2>1. rounds' = [rounds EXCEPT ![s] = WithStake(rounds[s], side, amount)]
        /\ rounds[s] \in Round /\ rounds[s].status = "Open"
    BY <1>2 DEF Bet, TypeOK
  <2>2. WithStake(rounds[s], side, amount).status = "Open"
    BY <2>1 DEF WithStake, Round
  <2>. QED BY <2>1, <2>2 DEF TypeOK
<1>3. ASSUME NEW s \in RoundId, Settle(s) PROVE Settle(r)
  <2>1. rounds' = [rounds EXCEPT ![s] = rounds'[s]]
    BY <1>3 DEF Settle, TypeOK
  <2>2. r = s
    BY <2>1 DEF TypeOK
  <2>. QED BY <1>3, <2>2
<1>4. CASE AdvanceTime
  BY <1>4 DEF AdvanceTime
<1>5. CASE UNCHANGED rounds
  BY <1>5
<1>. QED BY <1>1, <1>2, <1>3, <1>4, <1>5
         DEF Next, vars, Initialize, Claim, ClaimMany, SetFeeBps,
             SetLockOffset, SweepFees, LateTick

LEMMA NextWinnersHavePools ==
  ASSUME TypeInv, [Next]_vars PROVE WinnersHavePools'
<1> SUFFICES ASSUME NEW r \in RoundId, rounds'[r] # None,
                    rounds'[r].status = "Settled", rounds'[r].outcome # "Void"
             PROVE  rounds'[r].pool_up > 0 /\ rounds'[r].pool_down > 0
  BY DEF WinnersHavePools, Settled
<1>1. CASE rounds'[r] = rounds[r]
  BY <1>1 DEF TypeInv, WinnersHavePools, Settled
<1>2. CASE rounds'[r] # rounds[r]
  <2>1. Settle(r)
    BY <1>2, SettledBySettle
  <2> DEFINE round == rounds[r]
             price == feed[round.asset][round.settle_ts]
             outcome == Verdict(round, price)
  <2>2. round \in Round
    BY <2>1 DEF Settle, TypeInv, TypeOK
  <2>3. rounds'[r] = WithOutcome(round, price, outcome)
    BY <2>1 DEF Settle, TypeInv, TypeOK
  <2> HIDE DEF price, outcome
  <2>4. /\ rounds'[r].outcome = outcome
        /\ rounds'[r].pool_up = round.pool_up
        /\ rounds'[r].pool_down = round.pool_down
    BY <2>2, <2>3 DEF WithOutcome, Round
  <2>5. round.pool_up # 0 /\ round.pool_down # 0
    BY <2>4 DEF outcome, Verdict
  <2>. QED BY <2>2, <2>4, <2>5 DEF Round
<1>. QED BY <1>1, <1>2

LEMMA TypeInvariant == Spec => []TypeInv
<1>1. Init => TypeInv
  BY InitType DEF Init, TypeInv, WinnersHavePools, Settled
<1>2. TypeInv /\ [Next]_vars => TypeInv'
  BY NextType, NextWinnersHavePools DEF TypeInv
<1>. QED BY <1>1, <1>2, PTL DEF Spec

\* Every storage entry of the contract keeps its type in every execution; in
\* particular the vault and the treasury never go below zero.
THEOREM TypeCorrect == Spec => []TypeOK
BY TypeInvariant, PTL DEF TypeInv


-----------------------------------------------------------------------------
(* The rounds and the feed.  Every tick on the feed is in the past and stays *)
(* there; a round is anchored to one of them and outlives it by a lifetime;   *)
(* a position falls behind its round by less than the lock offset the round   *)
(* was created under.                                                         *)

FeedInv == \A a \in Asset : \A t \in Published(a) : t \in Tick /\ t <= now

OpenedInv == \A a \in Asset : strikeTs[a] = 0 \/ strikeTs[a] \in Published(a)

ConfigInv ==
  IF config = None THEN counter = 0 ELSE config.lock_offset \in LockOffset

Anchored(round) ==
  /\ round.strike_ts \in Published(round.asset)
  /\ round.settle_ts = round.strike_ts + OracleInterval
  /\ \E offset \in LockOffset : round.lock_ts = round.strike_ts + offset
  /\ round.strike_ts + TempBump <= round.live_until
  /\ round.live_until <= now + TempBump

RoundsInv ==
  \A r \in RoundId : rounds[r] # None => r <= counter /\ Anchored(rounds[r])

\* A winner was named by a tick that the feed has, and keeps.
Decided(round) ==
  round.status = "Settled" /\ round.outcome # "Void" =>
    /\ round.settle_ts \in Published(round.asset)
    /\ round.settle_price = feed[round.asset][round.settle_ts]
    /\ round.outcome = Verdict(round, round.settle_price)

DecidedInv == \A r \in RoundId : rounds[r] # None => Decided(rounds[r])

\* Until the round is gone its position is at most an offset behind it; from
\* then on the difference to the clock only shrinks.
BehindRound(r, u) ==
  \E offset \in LockOffset :
    IF rounds[r] = None THEN positions[r][u].live_until - now + 1 < offset
    ELSE positions[r][u].live_until < rounds[r].live_until + offset

PositionsInv ==
  \A r \in RoundId, u \in User : positions[r][u] # None =>
    r <= counter /\ BehindRound(r, u)

SeriesInv ==
  /\ TypeInv
  /\ FeedInv
  /\ OpenedInv
  /\ ConfigInv
  /\ RoundsInv
  /\ DecidedInv
  /\ PositionsInv

\* What a step leaves of the positions when it takes and expires none.
PositionsKept ==
  \A r \in RoundId, u \in User :
    /\ positions'[r][u] = None <=> positions[r][u] = None
    /\ positions[r][u] # None =>
         positions'[r][u].live_until = positions[r][u].live_until

Quiet ==
  UNCHANGED <<now, feed, counter, strikeTs, rounds>> /\ PositionsKept

\* The calls that only move money or set parameters leave the rounds alone.
LEMMA QuietSteps ==
  ASSUME TypeInv, ConfigInv,
         \/ \E fee \in FeeBps, offset \in LockOffset : Initialize(fee, offset)
         \/ \E u \in User, r \in RoundId : Claim(u, r)
         \/ \E u \in User, ids \in Batch : ClaimMany(u, ids)
         \/ \E bps \in FeeBps : SetFeeBps(bps)
         \/ \E seconds \in LockOffset : SetLockOffset(seconds)
         \/ SweepFees
         \/ UNCHANGED vars
  PROVE  Quiet /\ ConfigInv'
<1> USE DEF TypeInv, TypeOK, Quiet, environment
<1>1. ASSUME NEW r \in RoundId, NEW u \in User, positions[r][u] # None
      PROVE  [positions[r][u] EXCEPT !.claimed = TRUE] \in Position
             /\ [positions[r][u] EXCEPT !.claimed = TRUE].live_until
                  = positions[r][u].live_until
  <2>1. positions[r][u] \in Position
    BY <1>1
  <2>. QED BY <2>1 DEF Position
<1>2. CASE \E fee \in FeeBps, offset \in LockOffset : Initialize(fee, offset)
  BY <1>2 DEF Initialize, PositionsKept, ConfigInv
<1>3. ASSUME NEW u \in User, NEW r \in RoundId, Claim(u, r)
      PROVE  Quiet /\ ConfigInv'
  <2>1. PositionsKept
    BY <1>1, <1>3 DEF Claim, Claimable, PositionsKept
  <2>. QED BY <1>3, <2>1 DEF Claim, ConfigInv
<1>4. ASSUME NEW u \in User, NEW ids \in Batch, ClaimMany(u, ids)
      PROVE  Quiet /\ ConfigInv'
  <2>1. ASSUME NEW r \in RoundId, NEW v \in User
        PROVE  \/ positions'[r][v] = positions[r][v]
               \/ /\ positions[r][v] # None
                  /\ positions'[r][v]
                       = [positions[r][v] EXCEPT !.claimed = TRUE]
    BY <1>4 DEF ClaimMany, Claimable
  <2>2. PositionsKept
    <3> SUFFICES ASSUME NEW r \in RoundId, NEW v \in User
                 PROVE  /\ positions'[r][v] = None <=> positions[r][v] = None
                        /\ positions[r][v] # None =>
                             positions'[r][v].live_until
                               = positions[r][v].live_until
      BY Zenon DEF PositionsKept
    <3>1. CASE positions'[r][v] = positions[r][v]
      BY <3>1
    <3>2. CASE /\ positions[r][v] # None
               /\ positions'[r][v] = [positions[r][v] EXCEPT !.claimed = TRUE]
      BY <3>2, <1>1
    <3>. QED BY <3>1, <3>2, <2>1
  <2>. QED BY <1>4, <2>2 DEF ClaimMany, ConfigInv
<1>5. CASE \E bps \in FeeBps : SetFeeBps(bps)
  BY <1>5 DEF SetFeeBps, PositionsKept, ConfigInv, Config
<1>6. CASE \E seconds \in LockOffset : SetLockOffset(seconds)
  BY <1>6 DEF SetLockOffset, PositionsKept, ConfigInv, Config
<1>7. CASE SweepFees
  BY <1>7 DEF SweepFees, PositionsKept, ConfigInv
<1>8. CASE UNCHANGED vars
  BY <1>8 DEF vars, PositionsKept, ConfigInv
<1>. QED BY <1>2, <1>3, <1>4, <1>5, <1>6, <1>7, <1>8

\* The steps that are left once the quiet ones are set aside.
LEMMA SeriesSteps ==
  ASSUME TypeInv, ConfigInv, [Next]_vars
  PROVE  \/ \E a \in Asset, tick \in Tick : CreateRound(a, tick)
         \/ \E u \in User, r \in RoundId, side \in Side,
               amount \in BetAmount : Bet(u, r, side, amount)
         \/ \E r \in RoundId : Settle(r)
         \/ AdvanceTime
         \/ \E a \in Asset, tick \in Tick, price \in Price :
              LateTick(a, tick, price)
         \/ Quiet /\ ConfigInv'
BY QuietSteps DEF Next

LEMMA FeedGrows ==
  ASSUME TypeInv, FeedInv, ConfigInv, [Next]_vars
  PROVE  /\ now <= now'
         /\ FeedInv'
         /\ \A a \in Asset : \A t \in Published(a) :
              t \in Published(a)' /\ feed'[a][t] = feed[a][t]
<1> USE DEF TypeInv, TypeOK, FeedInv, Published
<1>1. now \in Int
  BY DEF Time
<1>2. CASE UNCHANGED <<now, feed>>
  BY <1>1, <1>2
<1>3. CASE AdvanceTime
  <2>1. now' = now + 1 /\ now' \in Time
    BY <1>3 DEF AdvanceTime, Time
  <2>2. ASSUME NEW a \in Asset, NEW t \in Time
        PROVE  \/ feed'[a][t] = feed[a][t]
               \/ t = now' /\ t \in Tick
    BY <1>3 DEF AdvanceTime, Ticking
  <2>3. \A a \in Asset : \A t \in Published(a) : t < now'
    BY <2>1, <1>1 DEF Time
  <2>4. \A a \in Asset : \A t \in Published(a) :
              t \in Published(a)' /\ feed'[a][t] = feed[a][t]
    BY <2>2, <2>3, <1>1, <2>1
  <2>5. FeedInv'
    <3> SUFFICES ASSUME NEW a \in Asset, NEW t \in Time, feed'[a][t] # None
                 PROVE  t \in Tick /\ t <= now'
      OBVIOUS
    <3>1. CASE feed'[a][t] = feed[a][t]
      BY <3>1, <2>3, <2>1, <1>1 DEF Time
    <3>2. CASE t = now' /\ t \in Tick
      BY <3>2, <2>1 DEF Time
    <3>. QED BY <3>1, <3>2, <2>2
  <2>. QED BY <2>1, <2>4, <2>5, <1>1
<1>4. ASSUME NEW a \in Asset, NEW tick \in Tick, NEW price \in Price,
             LateTick(a, tick, price)
      PROVE  /\ now <= now'
             /\ FeedInv'
             /\ \A b \in Asset : \A t \in Published(b) :
                  t \in Published(b)' /\ feed'[b][t] = feed[b][t]
  <2>1. \A b \in Asset, t \in Time :
          \/ feed'[b][t] = feed[b][t]
          \/ b = a /\ t = tick /\ t \notin Published(a)
    BY <1>4 DEF LateTick, Time
  <2>2. now' = now /\ tick < now
    BY <1>4 DEF LateTick
  <2>3. \A b \in Asset : \A t \in Published(b) :
          t \in Published(b)' /\ feed'[b][t] = feed[b][t]
    BY <2>1
  <2>4. ASSUME NEW b \in Asset, NEW t \in Time, feed'[b][t] # None
        PROVE  t \in Tick /\ t <= now'
    <3>1. CASE feed'[b][t] = feed[b][t]
      BY <2>2, <2>4, <3>1
    <3>2. CASE b = a /\ t = tick
      BY <2>2, <3>2, <1>1 DEF Tick, Time
    <3>. QED BY <2>1, <3>1, <3>2
  <2>. QED BY <2>2, <2>3, <2>4, <1>1
<1>. QED BY <1>2, <1>3, <1>4, SeriesSteps
         DEF Quiet, CreateRound, Bet, Settle, environment

LEMMA ExtendedLater ==
  ASSUME TypeOK, NEW liveUntil \in Nat, liveUntil <= now + TempBump
  PROVE  liveUntil <= Extended(liveUntil) /\ Extended(liveUntil) <= now + TempBump
BY DEF TypeOK, Time, Extended

\* What can become of a round: nothing, its creation, a bet on it or its
\* settlement; otherwise it expires.
LEMMA RoundSteps ==
  ASSUME TypeInv, ConfigInv, [Next]_vars
  PROVE  /\ counter <= counter'
         /\ \A r \in RoundId : rounds'[r] # None =>
              \/ rounds'[r] = rounds[r]
              \/ r = counter + 1 /\ \E a \in Asset, tick \in Tick :
                                      CreateRound(a, tick)
              \/ \E u \in User, side \in Side, amount \in BetAmount :
                   Bet(u, r, side, amount)
              \/ Settle(r)
<1> USE DEF TypeInv, TypeOK
<1>1. ASSUME NEW a \in Asset, NEW tick \in Tick, CreateRound(a, tick)
      PROVE  counter' = counter + 1
             /\ \A r \in RoundId : rounds'[r] = rounds[r] \/ r = counter + 1
  BY <1>1 DEF CreateRound
<1>2. ASSUME NEW u \in User, NEW s \in RoundId, NEW side \in Side,
             NEW amount \in BetAmount, Bet(u, s, side, amount)
      PROVE  counter' = counter
             /\ \A r \in RoundId : rounds'[r] = rounds[r] \/ r = s
  BY <1>2 DEF Bet
<1>3. ASSUME NEW s \in RoundId, Settle(s)
      PROVE  counter' = counter
             /\ \A r \in RoundId : rounds'[r] = rounds[r] \/ r = s
  <2>1. rounds' = [rounds EXCEPT ![s] = rounds'[s]]
    BY <1>3 DEF Settle
  <2>. QED BY <1>3, <2>1 DEF Settle
<1>4. CASE AdvanceTime
  BY <1>4 DEF AdvanceTime
<1>5. CASE \E a \in Asset, tick \in Tick, price \in Price :
             LateTick(a, tick, price)
  BY <1>5 DEF LateTick
<1>6. CASE Quiet
  BY <1>6 DEF Quiet
<1>7. CASE \E a \in Asset, tick \in Tick : CreateRound(a, tick)
  BY <1>7, <1>1
<1>8. CASE \E u \in User, r \in RoundId, side \in Side, amount \in BetAmount :
             Bet(u, r, side, amount)
  BY <1>8, <1>2
<1>9. CASE \E r \in RoundId : Settle(r)
  BY <1>9, <1>3
<1>. QED BY <1>4, <1>5, <1>6, <1>7, <1>8, <1>9, SeriesSteps

\* A bet and a settlement leave the terms of a round as they were created and
\* write the entry back with its expiry renewed.
SameTerms(r) ==
  /\ rounds[r] # None
  /\ rounds'[r].asset = rounds[r].asset
  /\ rounds'[r].strike = rounds[r].strike
  /\ rounds'[r].strike_ts = rounds[r].strike_ts
  /\ rounds'[r].settle_ts = rounds[r].settle_ts
  /\ rounds'[r].lock_ts = rounds[r].lock_ts
  /\ rounds[r].status = "Open"
  /\ rounds'[r].live_until = Extended(rounds[r].live_until)

LEMMA BetTerms ==
  ASSUME TypeOK, NEW u \in User, NEW r \in RoundId, NEW side \in Side,
         NEW amount \in BetAmount, Bet(u, r, side, amount)
  PROVE  SameTerms(r) /\ rounds'[r].status = "Open"
<1>1. rounds[r] \in Round /\ rounds[r].status = "Open"
  BY DEF Bet, TypeOK
<1>2. rounds'[r] = WithStake(rounds[r], side, amount)
  BY DEF Bet, TypeOK
<1>. QED BY <1>1, <1>2 DEF SameTerms, WithStake, Round

LEMMA SettleTerms ==
  ASSUME TypeOK, NEW r \in RoundId, Settle(r)
  PROVE  /\ SameTerms(r)
         /\ rounds'[r].status = "Settled"
         /\ rounds'[r].pool_up = rounds[r].pool_up
         /\ rounds'[r].pool_down = rounds[r].pool_down
         /\ rounds'[r].outcome = Verdict(rounds[r], SettlePrice(rounds[r]))
         /\ SettlePrice(rounds[r]) # None =>
              rounds'[r].settle_price = SettlePrice(rounds[r])
<1> DEFINE price == SettlePrice(rounds[r])
           outcome == Verdict(rounds[r], price)
<1>1. rounds[r] \in Round /\ rounds[r].status = "Open"
  BY DEF Settle, TypeOK, Round
<1>2. rounds'[r] = WithOutcome(rounds[r], price, outcome)
  BY DEF Settle, TypeOK
<1> HIDE DEF price, outcome
<1>3. /\ SameTerms(r)
      /\ rounds'[r].status = "Settled"
      /\ rounds'[r].pool_up = rounds[r].pool_up
      /\ rounds'[r].pool_down = rounds[r].pool_down
      /\ rounds'[r].outcome = outcome
      /\ price # None => rounds'[r].settle_price = price
  BY <1>1, <1>2 DEF SameTerms, WithOutcome, Round
<1>. QED BY <1>3 DEF price, outcome

LEMMA CreatedRound ==
  ASSUME TypeOK, NEW a \in Asset, NEW tick \in Tick, CreateRound(a, tick)
  PROVE  /\ counter' = counter + 1 /\ counter + 1 \in RoundId
         /\ \A r \in RoundId : r # counter + 1 => rounds'[r] = rounds[r]
         /\ rounds'[counter + 1] # None
         /\ rounds'[counter + 1].asset = a
         /\ rounds'[counter + 1].strike_ts = tick
         /\ rounds'[counter + 1].settle_ts = tick + OracleInterval
         /\ rounds'[counter + 1].lock_ts = tick + config.lock_offset
         /\ rounds'[counter + 1].status = "Open"
         /\ rounds'[counter + 1].live_until = now + TempBump
<1>1. counter + 1 \in RoundId
  BY DEF CreateRound, TypeOK, RoundId
<1>2. rounds'[counter + 1] =
        [asset |-> a, strike |-> feed[a][tick], strike_ts |-> tick,
         settle_ts |-> tick + OracleInterval,
         lock_ts |-> tick + config.lock_offset,
         pool_up |-> 0, pool_down |-> 0, status |-> "Open",
         outcome |-> "Void", settle_price |-> 0,
         live_until |-> now + TempBump]
  BY <1>1 DEF CreateRound, TypeOK
<1>3. rounds'[counter + 1] # None
  <2>1. /\ tick \in Nat /\ config.lock_offset \in Nat /\ now \in Nat
        /\ feed[a][tick] \in Price
    BY DEF CreateRound, TypeOK, Config, Tick, Time, Published
  <2>2. rounds'[counter + 1] \in Round
    BY <1>2, <2>1 DEF Round, Outcome
  <2>. QED BY <2>2
<1>. QED BY <1>1, <1>2, <1>3 DEF CreateRound, TypeOK

LEMMA NextOpened ==
  ASSUME SeriesInv, [Next]_vars PROVE OpenedInv'
<1>1. /\ \A a \in Asset : \A t \in Published(a) : t \in Published(a)'
      /\ TypeInv /\ ConfigInv /\ OpenedInv
  BY FeedGrows DEF SeriesInv
<1>2. CASE UNCHANGED strikeTs
  BY <1>1, <1>2 DEF OpenedInv
<1>3. ASSUME NEW a \in Asset, NEW tick \in Tick, CreateRound(a, tick)
      PROVE  OpenedInv'
  BY <1>1, <1>3 DEF CreateRound, OpenedInv, TypeInv, TypeOK
<1>. QED BY <1>1, <1>2, <1>3, SeriesSteps
         DEF Bet, Settle, AdvanceTime, LateTick, Quiet

LEMMA NextConfig ==
  ASSUME TypeInv, ConfigInv, [Next]_vars PROVE ConfigInv'
BY SeriesSteps DEF ConfigInv, CreateRound, Bet, Settle, AdvanceTime, LateTick

LEMMA NextRounds ==
  ASSUME SeriesInv, [Next]_vars PROVE RoundsInv'
<1> USE DEF SeriesInv, TypeInv
<1> SUFFICES ASSUME NEW r \in RoundId, rounds'[r] # None
             PROVE  r <= counter' /\ Anchored(rounds[r])'
  BY DEF RoundsInv
<1>1. /\ counter <= counter' /\ now <= now'
      /\ counter \in Nat /\ counter' \in Nat /\ now \in Nat /\ now' \in Nat
      /\ \A a \in Asset : \A t \in Published(a) : t \in Published(a)'
  BY RoundSteps, FeedGrows, NextType DEF TypeOK, Time
<1>2. CASE rounds'[r] = rounds[r]
  <2>1. rounds[r] \in Round /\ r <= counter /\ Anchored(rounds[r])
    BY <1>2 DEF RoundsInv, TypeOK
  <2>2. /\ rounds[r].asset \in Asset
        /\ rounds[r].live_until \in Nat /\ rounds[r].strike_ts \in Nat
    BY <2>1 DEF Round
  <2>3. rounds[r].live_until <= now' + TempBump
    BY <1>1, <2>1, <2>2 DEF Anchored
  <2>4. rounds[r].strike_ts \in Published(rounds[r].asset)'
    BY <1>1, <1>2, <2>1, <2>2 DEF Anchored
  <2>5. r <= counter'
    BY <1>1, <2>1 DEF RoundId
  <2>. QED BY <1>2, <2>1, <2>3, <2>4, <2>5 DEF Anchored
<1>3. ASSUME NEW a \in Asset, NEW tick \in Tick, CreateRound(a, tick),
             r = counter + 1
      PROVE  r <= counter' /\ Anchored(rounds[r])'
  <2>1. /\ tick \in Nat /\ tick <= now /\ tick \in Published(a)
        /\ config.lock_offset \in LockOffset /\ now' = now
    BY <1>3 DEF CreateRound, FeedInv, ConfigInv, Tick, Time, environment
  <2>2. /\ rounds'[r].asset = a /\ rounds'[r].strike_ts = tick
        /\ rounds'[r].settle_ts = tick + OracleInterval
        /\ rounds'[r].lock_ts = tick + config.lock_offset
        /\ rounds'[r].live_until = now + TempBump
    BY <1>3, CreatedRound
  <2>3. tick \in Published(a)' /\ r <= counter'
    <3>1. counter' = counter + 1
      BY <1>3 DEF CreateRound
    <3>. QED BY <1>1, <1>3, <2>1, <3>1
  <2>4. tick + TempBump <= now + TempBump
    BY <1>1, <2>1
  <2>5. rounds'[r].strike_ts \in Published(rounds[r].asset)'
    BY <2>2, <2>3
  <2>6. \E offset \in LockOffset :
          rounds'[r].lock_ts = rounds'[r].strike_ts + offset
    BY <2>1, <2>2
  <2>7. /\ rounds'[r].settle_ts = rounds'[r].strike_ts + OracleInterval
        /\ rounds'[r].strike_ts + TempBump <= rounds'[r].live_until
        /\ rounds'[r].live_until <= now' + TempBump
    BY <1>1, <2>1, <2>2, <2>4
  <2>. QED BY <2>3, <2>5, <2>6, <2>7 DEF Anchored
<1>4. ASSUME SameTerms(r), now' = now PROVE r <= counter' /\ Anchored(rounds[r])'
  <2>1. rounds[r] \in Round /\ r <= counter /\ Anchored(rounds[r])
    BY <1>4 DEF RoundsInv, TypeOK, SameTerms
  <2>2. /\ rounds[r].live_until \in Nat /\ rounds[r].strike_ts \in Nat
        /\ rounds[r].asset \in Asset
    BY <2>1 DEF Round
  <2>3. /\ rounds[r].live_until <= Extended(rounds[r].live_until)
        /\ Extended(rounds[r].live_until) <= now + TempBump
        /\ Extended(rounds[r].live_until) \in Nat
    BY <2>1, <2>2, ExtendedLater, ExtendedNat DEF Anchored
  <2>. QED BY <1>1, <1>4, <2>1, <2>2, <2>3 DEF SameTerms, Anchored, RoundId
<1>. QED BY <1>2, <1>3, <1>4, RoundSteps, BetTerms, SettleTerms
         DEF Bet, Settle, environment

LEMMA NextDecided ==
  ASSUME SeriesInv, [Next]_vars PROVE DecidedInv'
<1> USE DEF SeriesInv, TypeInv
<1> SUFFICES ASSUME NEW r \in RoundId, rounds'[r] # None
             PROVE  Decided(rounds[r])'
  BY DEF DecidedInv
<1>1. CASE rounds'[r] = rounds[r]
  <2>1. rounds[r] \in Round /\ Decided(rounds[r])
    BY <1>1 DEF DecidedInv, TypeOK
  <2>2. rounds[r].asset \in Asset
    BY <2>1 DEF Round
  <2>3. rounds[r].settle_ts \in Published(rounds[r].asset) =>
          /\ rounds[r].settle_ts \in Published(rounds[r].asset)'
          /\ feed'[rounds[r].asset][rounds[r].settle_ts]
               = feed[rounds[r].asset][rounds[r].settle_ts]
    BY <1>1, <2>2, FeedGrows
  <2>. QED BY <1>1, <2>1, <2>3 DEF Decided, Verdict
<1>2. ASSUME Settle(r) PROVE Decided(rounds[r])'
  <2> DEFINE price == feed[rounds[r].asset][rounds[r].settle_ts]
  <2>1. /\ rounds[r] \in Round
        /\ rounds[r].settle_ts <= now /\ feed' = feed
    BY <1>2 DEF Settle, TypeOK, environment
  <2>2. rounds[r].settle_ts \in Time
    BY <2>1 DEF TypeOK, Time, Round
  <2>3. rounds'[r].outcome = Verdict(rounds[r], price)
        /\ (price # None => rounds'[r].settle_price = price)
    BY <1>2, SettleTerms
  <2>4. rounds'[r].outcome # "Void" => price # None
    BY <2>3 DEF Verdict
  <2>5. Verdict(rounds[r], price) = Verdict(rounds[r], price)'
    BY <1>2, <2>1, SettleTerms DEF Verdict, SameTerms
  <2>6. price # None => rounds[r].settle_ts \in Published(rounds[r].asset)
    BY <2>2 DEF Published
  <2>7. /\ rounds'[r].asset = rounds[r].asset
        /\ rounds'[r].settle_ts = rounds[r].settle_ts
    BY <1>2, SettleTerms DEF SameTerms
  <2>8. price # None => rounds'[r].settle_ts \in Published(rounds[r].asset)'
    BY <2>1, <2>6, <2>7 DEF Published
  <2>9. price' = price
    BY <2>1, <2>7
  <2> HIDE DEF price
  <2>10. rounds'[r].outcome # "Void" =>
           /\ rounds'[r].settle_price = price'
           /\ rounds'[r].outcome = Verdict(rounds[r], rounds[r].settle_price)'
           /\ rounds'[r].settle_ts \in Published(rounds[r].asset)'
    BY <2>3, <2>4, <2>5, <2>8, <2>9
  <2>. QED BY <2>10 DEF Decided, price
<1>3. ASSUME rounds'[r].status = "Open" PROVE Decided(rounds[r])'
  BY <1>3 DEF Decided
<1>4. ASSUME NEW a \in Asset, NEW tick \in Tick, CreateRound(a, tick),
             r = counter + 1
      PROVE  rounds'[r].status = "Open"
  BY <1>4, CreatedRound
<1>. QED BY <1>1, <1>2, <1>3, <1>4, RoundSteps, BetTerms

\* A renewed round moves away from none of its positions.
LEMMA BehindRenewed ==
  ASSUME SeriesInv, NEW r \in RoundId, NEW u \in User, SameTerms(r),
         positions[r][u] # None, positions'[r][u] = positions[r][u],
         rounds'[r] # None
  PROVE  BehindRound(r, u)'
<1> USE DEF SeriesInv, TypeInv
<1>1. rounds[r] \in Round /\ positions[r][u] \in Position
  BY DEF SameTerms, TypeOK
<1>2. /\ rounds[r].live_until \in Nat /\ positions[r][u].live_until \in Nat
      /\ rounds[r].live_until <= now + TempBump
  BY <1>1 DEF Round, Position, RoundsInv, Anchored, SameTerms
<1>3. /\ rounds[r].live_until <= rounds'[r].live_until
      /\ rounds'[r].live_until \in Nat
  BY <1>2, ExtendedLater, ExtendedNat DEF SameTerms
<1>4. PICK offset \in LockOffset :
        positions[r][u].live_until < rounds[r].live_until + offset
  BY DEF PositionsInv, BehindRound, SameTerms
<1>5. positions[r][u].live_until < rounds'[r].live_until + offset
  <2>1. offset \in Nat
    OBVIOUS
  <2>. QED BY <1>2, <1>3, <1>4, <2>1
<1>. QED BY <1>5 DEF BehindRound

LEMMA BetPositions ==
  ASSUME SeriesInv, NEW u \in User, NEW r \in RoundId, NEW side \in Side,
         NEW amount \in BetAmount, Bet(u, r, side, amount)
  PROVE  BehindRound(r, u)'
<1> USE DEF SeriesInv, TypeInv
<1>1. rounds[r] \in Round /\ Anchored(rounds[r]) /\ now < rounds[r].lock_ts
      /\ now \in Nat /\ SameTerms(r)
  <2>1. rounds[r] \in Round /\ now \in Nat /\ ~(now >= rounds[r].lock_ts)
        /\ rounds[r].lock_ts \in Nat
    BY DEF Bet, TypeOK, Round, Time
  <2>2. SameTerms(r)
    BY BetTerms
  <2>3. Anchored(rounds[r])
    BY <2>2 DEF RoundsInv, SameTerms
  <2>. QED BY <2>1, <2>2, <2>3
<1>2. /\ rounds[r].live_until \in Nat /\ rounds[r].strike_ts \in Nat
      /\ rounds[r].live_until <= rounds'[r].live_until
      /\ rounds'[r].live_until \in Nat
  BY <1>1, ExtendedLater, ExtendedNat DEF Round, Anchored, SameTerms
<1>3. PICK offset \in LockOffset :
        rounds[r].lock_ts = rounds[r].strike_ts + offset
  BY <1>1 DEF Anchored
<1>4. positions'[r][u].live_until = now + TempBump
  BY DEF Bet, TypeOK
<1>5. rounds[r].strike_ts + TempBump <= rounds[r].live_until
  BY <1>1 DEF Anchored
<1>6. positions'[r][u].live_until < rounds'[r].live_until + offset
  BY <1>1, <1>2, <1>3, <1>4, <1>5
<1>7. rounds'[r] # None
  <2>1. rounds'[r] = WithStake(rounds[r], side, amount)
    BY DEF Bet, TypeOK
  <2>2. WithStake(rounds[r], side, amount) \in Round
    BY <1>1, WithStakeType
  <2>. QED BY <2>1, <2>2
<1>. QED BY <1>6, <1>7 DEF BehindRound

\* Nothing but its expiry takes a round out of storage.
LEMMA Expires ==
  ASSUME SeriesInv, [Next]_vars, NEW r \in RoundId, rounds[r] # None,
         rounds'[r] = None
  PROVE  AdvanceTime /\ rounds[r].live_until < now'
<1> USE DEF SeriesInv, TypeInv, TypeOK
<1>1. ASSUME NEW a \in Asset, NEW tick \in Tick, CreateRound(a, tick)
      PROVE  FALSE
  BY <1>1, CreatedRound
<1>2. ASSUME NEW u \in User, NEW s \in RoundId, NEW side \in Side,
             NEW amount \in BetAmount, Bet(u, s, side, amount)
      PROVE  FALSE
  <2>1. rounds' = [rounds EXCEPT ![s] = WithStake(rounds[s], side, amount)]
        /\ rounds[s] \in Round /\ amount \in Nat
    BY <1>2 DEF Bet
  <2>2. WithStake(rounds[s], side, amount) \in Round
    BY <2>1, WithStakeType
  <2>. QED BY <2>1, <2>2
<1>3. ASSUME NEW s \in RoundId, Settle(s) PROVE FALSE
  <2>1. rounds'[s] \in Round /\ \A q \in RoundId \ {s} : rounds'[q] = rounds[q]
    BY <1>3, SettleType DEF Settle
  <2>. QED BY <2>1
<1>4. CASE AdvanceTime
  BY <1>4 DEF AdvanceTime
<1>5. CASE UNCHANGED rounds
  BY <1>5
<1>. QED BY <1>1, <1>2, <1>3, <1>4, <1>5, SeriesSteps DEF Quiet, LateTick

\* A position comes with its bet and is then only marked claimed.
LEMMA PositionSteps ==
  ASSUME TypeInv, ConfigInv, [Next]_vars, NEW r \in RoundId, NEW u \in User,
         positions'[r][u] # None
  PROVE  \/ \E side \in Side, amount \in BetAmount : Bet(u, r, side, amount)
         \/ /\ positions[r][u] # None
            /\ positions'[r][u].live_until = positions[r][u].live_until
<1> USE DEF TypeInv, TypeOK
<1>1. ASSUME NEW v \in User, NEW s \in RoundId, NEW side \in Side,
             NEW amount \in BetAmount, Bet(v, s, side, amount)
      PROVE  (v = u /\ s = r) \/ positions'[r][u] = positions[r][u]
  BY <1>1 DEF Bet
<1>2. CASE UNCHANGED positions
  BY <1>2
<1>3. CASE AdvanceTime
  BY <1>3 DEF AdvanceTime
<1>4. CASE Quiet
  BY <1>4 DEF Quiet, PositionsKept
<1>. QED BY <1>1, <1>2, <1>3, <1>4, SeriesSteps
         DEF CreateRound, Settle, LateTick

LEMMA NextPositions ==
  ASSUME SeriesInv, [Next]_vars PROVE PositionsInv'
<1> USE DEF SeriesInv, TypeInv
<1> SUFFICES ASSUME NEW r \in RoundId, NEW u \in User, positions'[r][u] # None
             PROVE  r <= counter' /\ BehindRound(r, u)'
  BY DEF PositionsInv
<1>1. counter <= counter' /\ counter \in Nat /\ counter' \in Nat
      /\ now \in Nat /\ now' \in Nat /\ now <= now'
  BY RoundSteps, FeedGrows, NextType DEF TypeOK, Time
<1>2. ASSUME NEW side \in Side, NEW amount \in BetAmount,
             Bet(u, r, side, amount)
      PROVE  r <= counter' /\ BehindRound(r, u)'
  BY <1>1, <1>2, BetPositions DEF Bet, RoundsInv, RoundId
<1>3. ASSUME positions[r][u] # None,
             positions'[r][u].live_until = positions[r][u].live_until
      PROVE  r <= counter' /\ BehindRound(r, u)'
  <2>1. r <= counter /\ BehindRound(r, u)
    BY <1>3 DEF PositionsInv
  <2>2. r <= counter'
    BY <2>1, <1>1 DEF RoundId
  <2>3. PICK offset \in LockOffset :
          IF rounds[r] = None THEN positions[r][u].live_until - now + 1 < offset
          ELSE positions[r][u].live_until < rounds[r].live_until + offset
    BY <2>1 DEF BehindRound
  <2>4. positions[r][u].live_until \in Nat /\ offset \in Nat
    <3>1. positions[r][u] \in Position
      BY <1>3 DEF TypeOK
    <3>. QED BY <3>1 DEF Position
  <2>5. rounds'[r] # None => rounds[r] # None
    BY <2>1, <1>1, RoundSteps, SettleTerms DEF RoundId, Bet, Settle, SameTerms
  <2>6. rounds[r] # None =>
          rounds[r].live_until \in Nat /\ rounds[r].strike_ts \in Nat
    BY DEF TypeOK, Round
  <2>7. CASE rounds'[r] # None
    <3>1. rounds[r].live_until <= rounds'[r].live_until
          /\ rounds'[r].live_until \in Nat
      <4>1. rounds[r].live_until \in Nat
            /\ rounds[r].live_until <= now + TempBump
        BY <2>5, <2>6, <2>7 DEF RoundsInv, Anchored
      <4>2. rounds'[r] = rounds[r] \/ SameTerms(r)
        BY <2>1, <2>7, <1>1, RoundSteps, SettleTerms, BetTerms DEF RoundId
      <4>. QED BY <4>1, <4>2, ExtendedLater, ExtendedNat DEF SameTerms
    <3>2. positions[r][u].live_until < rounds'[r].live_until + offset
      BY <2>3, <2>4, <2>5, <2>6, <2>7, <3>1
    <3>. QED BY <1>3, <2>2, <2>7, <3>2 DEF BehindRound
  <2>8. CASE rounds'[r] = None
    <3>1. positions[r][u].live_until - now' + 1 < offset
      <4>1. CASE rounds[r] = None
        BY <4>1, <1>1, <2>3, <2>4
      <4>2. CASE rounds[r] # None
        <5>1. rounds[r].live_until < now'
          BY <4>2, <2>8, <2>1, <1>1, Expires
        <5>. QED BY <4>2, <5>1, <1>1, <2>3, <2>4, <2>6
      <4>. QED BY <4>1, <4>2
    <3>. QED BY <1>3, <2>2, <2>8, <3>1 DEF BehindRound
  <2>. QED BY <2>7, <2>8
<1>. QED BY <1>2, <1>3, PositionSteps

LEMMA InitSeries == Init => SeriesInv
<1> SUFFICES ASSUME Init PROVE SeriesInv
  OBVIOUS
<1>1. TypeInv
  BY InitType DEF Init, TypeInv, WinnersHavePools, Settled
<1>. QED BY <1>1 DEF Init, SeriesInv, FeedInv, Published, OpenedInv, ConfigInv,
            RoundsInv, DecidedInv, PositionsInv

LEMMA SeriesInvariant == Spec => []SeriesInv
<1>1. SeriesInv /\ [Next]_vars => SeriesInv'
  BY NextType, NextWinnersHavePools, FeedGrows, NextOpened, NextConfig,
     NextRounds, NextDecided, NextPositions DEF SeriesInv, TypeInv
<1>. QED BY <1>1, InitSeries, PTL DEF Spec

\* "A late keeper call produces the exact same result as an on-time one":
\* however late settle() is called, a winner it names is the one the feed's tick
\* at settle_ts gives, and the feed never says otherwise later.
THEOREM WinnersMatchTheFeed == Spec => []WinnerMatchesFeed
<1>1. SeriesInv => WinnerMatchesFeed
  BY DEF SeriesInv, DecidedInv, Decided, WinnerMatchesFeed, Settled
<1>. QED BY <1>1, SeriesInvariant, PTL

\* A position that is still stored after its round has expired goes within less
\* than one of the lock offsets, whatever thresholds and bumps the entries have.
THEOREM PositionsGoSoon == Spec => []PositionsOutliveRoundsBriefly
<1>1. SeriesInv => PositionsOutliveRoundsBriefly
  BY DEF SeriesInv, PositionsInv, BehindRound, PositionsOutliveRoundsBriefly
<1>. QED BY <1>1, SeriesInvariant, PTL

\* No call ever rewrites a settled round, moves its pools or brings back one
\* that has expired.
THEOREM SettlementsAreFinal == Spec => SettlementFinal
<1>1. ASSUME SeriesInv, [Next]_vars, NEW r \in RoundId, r <= counter
      PROVE  \/ rounds'[r] = rounds[r]
             \/ rounds'[r] = None
             \/ rounds[r] # None /\ rounds[r].status = "Open"
  <2>1. counter \in Nat /\ TypeInv /\ ConfigInv
    BY <1>1 DEF SeriesInv, TypeInv, TypeOK
  <2>. QED BY <1>1, <2>1, RoundSteps, BetTerms, SettleTerms
           DEF RoundId, SameTerms, TypeInv
<1>2. SeriesInv /\ [Next]_vars =>
        [\A r \in RoundId : r <= counter =>
           \/ rounds'[r] = rounds[r]
           \/ rounds'[r] = None
           \/ rounds[r] # None /\ rounds[r].status = "Open"]_vars
  BY <1>1
<1>. QED BY <1>2, SeriesInvariant, PTL DEF Spec, SettlementFinal

-----------------------------------------------------------------------------
(* When stakes come in *)

LEMMA OnlyBetsFill ==
  ASSUME TypeInv, [Next]_vars, NEW r \in RoundId, escrow'[r] > escrow[r]
  PROVE  \E u \in User, side \in Side, amount \in BetAmount :
           Bet(u, r, side, amount)
<1> USE DEF TypeInv, TypeOK
<1>1. escrow[r] \in Int
  OBVIOUS
<1>2. ASSUME NEW v \in User, NEW s \in RoundId, NEW side \in Side,
             NEW amount \in BetAmount, Bet(v, s, side, amount)
      PROVE  s = r
  BY <1>1, <1>2 DEF Bet
<1>3. ASSUME NEW s \in RoundId, Settle(s) PROVE FALSE
  <2> DEFINE outcome == Verdict(rounds[s], SettlePrice(rounds[s]))
             fee == IF outcome = "Void" THEN 0
                    ELSE Fee(Total(rounds[s]), config.fee_bps)
  <2>1. Total(rounds[s]) \in Nat /\ config.fee_bps \in 0..MaxFeeBps
    BY <1>3 DEF Settle, Total, Round, Config
  <2>2. fee \in Nat
    BY <2>1, FeeFacts
  <2>3. escrow' = [escrow EXCEPT ![s] = @ - fee]
    BY <1>3 DEF Settle
  <2> HIDE DEF fee
  <2>. QED BY <1>1, <2>2, <2>3
<1>4. ASSUME NEW u \in User, NEW s \in RoundId, Claim(u, s) PROVE FALSE
  <2>1. ClaimValue(s, u) \in Nat
    BY <1>4, ClaimValueNat DEF Claim
  <2>. QED BY <1>1, <1>4, <2>1 DEF Claim
<1>5. ASSUME NEW u \in User, NEW ids \in Batch, ClaimMany(u, ids) PROVE FALSE
  <2>1. ClaimValue(r, u) \in Nat
    BY <1>5, ClaimValueNat DEF ClaimMany
  <2>. QED BY <1>1, <1>5, <2>1 DEF ClaimMany
<1>6. CASE UNCHANGED escrow
  BY <1>1, <1>6
<1>7. \/ \E u \in User, s \in RoundId, side \in Side, amount \in BetAmount :
           Bet(u, s, side, amount)
      \/ \E s \in RoundId : Settle(s)
      \/ \E u \in User, s \in RoundId : Claim(u, s)
      \/ \E u \in User, ids \in Batch : ClaimMany(u, ids)
      \/ UNCHANGED escrow
  BY DEF Next, vars, Initialize, CreateRound, SetFeeBps, SetLockOffset,
         SweepFees, AdvanceTime, LateTick
<1>. QED BY <1>2, <1>3, <1>4, <1>5, <1>6, <1>7

LocksByTheTick == \A offset \in LockOffset : offset <= OracleInterval

\* As long as the admin keeps the lock offset within the oracle interval, which
\* set_lock_offset does not see to, no stake is taken on a round whose settling
\* price is on the feed: not even on a round created late, on a missed tick.
THEOREM NoBetOnAKnownPrice ==
  ASSUME LocksByTheTick PROVE Spec => NoBetOnKnownPrice
<1>1. ASSUME SeriesInv, [Next]_vars, NEW r \in RoundId, escrow'[r] > escrow[r]
      PROVE  rounds[r].settle_ts \notin Published(rounds[r].asset)
  <2> USE DEF SeriesInv, TypeInv
  <2>1. PICK u \in User, side \in Side, amount \in BetAmount :
          Bet(u, r, side, amount)
    BY <1>1, OnlyBetsFill
  <2>2. rounds[r] \in Round /\ Anchored(rounds[r])
        /\ ~(now >= rounds[r].lock_ts) /\ now \in Nat
    BY <1>1, <2>1 DEF Bet, RoundsInv, TypeOK, Time
  <2>3. rounds[r].asset \in Asset /\ rounds[r].strike_ts \in Nat
        /\ rounds[r].settle_ts = rounds[r].strike_ts + OracleInterval
    BY <2>2 DEF Round, Anchored
  <2>4. PICK offset \in LockOffset :
          rounds[r].lock_ts = rounds[r].strike_ts + offset
    BY <2>2 DEF Anchored
  <2>5. now < rounds[r].settle_ts
    BY <2>2, <2>3, <2>4, LocksByTheTick DEF LocksByTheTick
  <2>6. \A t \in Published(rounds[r].asset) : t <= now
    BY <1>1, <2>3 DEF FeedInv
  <2>. QED BY <2>2, <2>3, <2>5, <2>6
<1>2. SeriesInv /\ [Next]_vars =>
        [\A r \in RoundId : escrow'[r] > escrow[r] =>
           rounds[r].settle_ts \notin Published(rounds[r].asset)]_vars
  BY <1>1
<1>. QED BY <1>2, SeriesInvariant, PTL DEF Spec, NoBetOnKnownPrice

-----------------------------------------------------------------------------
(* The contract is a series of rounds: what RoundSeries promises, step by step *)

LEMMA LastTickIsLast ==
  ASSUME NEW S \in SUBSET Nat, NEW n \in Nat, \A t \in S : t <= n, S # {}
  PROVE  \E t \in S : \A s \in S : s <= t
<1> DEFINE D == {n - t : t \in S}
<1>1. D \in SUBSET Nat /\ D # {}
  <2>1. \A t \in S : n - t \in Nat
    OBVIOUS
  <2>. QED BY <2>1
<1>2. PICK d \in D : \A e \in D : d <= e
  <2> HIDE DEF D
  <2>. QED BY <1>1, LeastNatural
<1>3. PICK t \in S : d = n - t
  BY <1>2
<1>4. \A s \in S : n - s \in D
  OBVIOUS
<1> HIDE DEF D
<1>5. \A s \in S : s <= t
  BY <1>2, <1>3, <1>4
<1>. QED BY <1>5

LEMMA LastTickNow ==
  ASSUME TypeInv, NEW a \in Asset
  PROVE  IF Published(a) = {} THEN LastTick(a) = 0
         ELSE /\ LastTick(a) \in Published(a)
              /\ \A t \in Published(a) : t <= LastTick(a)
<1>1. Published(a) \in SUBSET Nat /\ \A t \in Published(a) : t <= MaxTime
  BY DEF Published, Time
<1>2. CASE Published(a) # {}
  <2>1. \E t \in Published(a) : \A s \in Published(a) : s <= t
    BY <1>1, <1>2, LastTickIsLast
  <2>. QED BY <1>2, <2>1 DEF LastTick
<1>. QED BY <1>2 DEF LastTick

LastTicks ==
  TypeInv => \A a \in Asset :
    IF Published(a) = {} THEN LastTick(a) = 0
    ELSE /\ LastTick(a) \in Published(a)
         /\ \A t \in Published(a) : t <= LastTick(a)

LEMMA LastTicksNow == LastTicks
BY LastTickNow DEF LastTicks

LEMMA LastTicksNext == LastTicks'
BY LastTicksNow, PTL

\* The last tick on the feed is in the past, and the feed only moves on.
LEMMA LastTickMoves ==
  ASSUME SeriesInv, [Next]_vars, NEW a \in Asset
  PROVE  /\ LastTick(a) \in Nat
         /\ LastTick(a) <= LastTick(a)'
         /\ LastTick(a)' \in Tick \cup {0}
         /\ LastTick(a)' <= now'
<1>1. TypeInv /\ TypeInv' /\ FeedInv /\ FeedInv' /\ now' \in Nat
      /\ \A t \in Published(a) : t \in Published(a)'
  BY FeedGrows, NextType, NextWinnersHavePools
     DEF SeriesInv, TypeInv, TypeOK, Time
<1>2. Published(a) \in SUBSET Nat /\ Published(a)' \in SUBSET Nat
  BY DEF Published, Time
<1>3. IF Published(a) = {} THEN LastTick(a) = 0
      ELSE /\ LastTick(a) \in Published(a)
           /\ \A t \in Published(a) : t <= LastTick(a)
  BY <1>1, LastTicksNow DEF LastTicks
<1>4. IF Published(a)' = {} THEN LastTick(a)' = 0
      ELSE /\ LastTick(a)' \in Published(a)'
           /\ \A t \in Published(a)' : t <= LastTick(a)'
  BY <1>1, LastTicksNext DEF LastTicks
<1>5. \A t \in Published(a)' : t \in Tick /\ t <= now'
  BY <1>1 DEF FeedInv
<1>. QED BY <1>1, <1>2, <1>3, <1>4, <1>5

\* A step that callers of the series do not see.
SeriesStutter ==
  /\ UNCHANGED <<now, feed, counter, strikeTs>>
  /\ \A r \in RoundId : Seen(rounds'[r]) = Seen(rounds[r])

LEMMA StutterIsSeriesStutter ==
  ASSUME SeriesStutter PROVE UNCHANGED Series!series
BY DEF SeriesStutter, Series!series, LastTick, Published, Seen

LEMMA CreateRoundCreates ==
  ASSUME SeriesInv, [Next]_vars, NEW a \in Asset, NEW tick \in Tick,
         CreateRound(a, tick)
  PROVE  Series!Create(a)
<1> USE DEF SeriesInv, TypeInv
<1>1. LastTick(a) = tick
  <2>1. tick \in Published(a) /\ \A t \in Published(a) : t <= tick
    BY DEF CreateRound
  <2>2. LastTick(a) \in Published(a) /\ tick <= LastTick(a)
        /\ LastTick(a) <= tick
    BY <2>1, LastTickNow
  <2>. QED BY <2>1, <2>2 DEF Published, Time
<1>2. \A b \in Asset : LastTick(b)' = LastTick(b)
  BY DEF CreateRound, LastTick, Published, environment
<1>3. /\ strikeTs[a] # tick /\ counter < MaxRounds
      /\ strikeTs' = [strikeTs EXCEPT ![a] = tick]
      /\ now' = now /\ counter' = counter + 1
  BY DEF CreateRound, environment
<1>4. /\ counter + 1 \in RoundId
      /\ \A r \in RoundId : r # counter + 1 => rounds'[r] = rounds[r]
      /\ Seen(rounds'[counter + 1]) =
           [asset |-> a, strike_ts |-> tick, settle_ts |-> tick + OracleInterval,
            status |-> "Open"]
  BY CreatedRound DEF Seen
<1>5. [r \in RoundId |-> Seen(rounds'[r])]
        = [[r \in RoundId |-> Seen(rounds[r])] EXCEPT ![counter + 1] =
             [asset |-> a, strike_ts |-> tick,
              settle_ts |-> tick + OracleInterval, status |-> "Open"]]
  BY <1>4
<1>6. strikeTs \in [Asset -> Nat]
  BY DEF TypeOK
<1>. QED BY <1>1, <1>2, <1>3, <1>5, <1>6
         DEF Series!Create, Series!Accepts

LEMMA SettleSettles ==
  ASSUME TypeOK, NEW r \in RoundId, Settle(r) PROVE Series!SettleRound(r)
<1>1. /\ SameTerms(r) /\ rounds'[r].status = "Settled" /\ rounds'[r] # None
      /\ \A s \in RoundId : s # r => rounds'[s] = rounds[s]
  BY SettleTerms, SettleType DEF Settle, TypeOK
<1>2. /\ Seen(rounds[r]) = [asset |-> rounds[r].asset,
           strike_ts |-> rounds[r].strike_ts,
           settle_ts |-> rounds[r].settle_ts, status |-> "Open"]
      /\ Seen(rounds'[r]) = [asset |-> rounds[r].asset,
           strike_ts |-> rounds[r].strike_ts,
           settle_ts |-> rounds[r].settle_ts, status |-> "Settled"]
  BY <1>1 DEF Seen, SameTerms
<1>3. /\ Seen(rounds'[r]) = [Seen(rounds[r]) EXCEPT !.status = "Settled"]
      /\ Seen(rounds[r]) # None
  <2>1. rounds[r] \in Round
    BY <1>1 DEF SameTerms, TypeOK
  <2>2. Seen(rounds[r]) \in SeenRound
    BY <1>2, <2>1 DEF SeenRound, Round
  <2>. QED BY <1>2, <2>2
<1>4. [s \in RoundId |-> Seen(rounds'[s])]
        = [[s \in RoundId |-> Seen(rounds[s])] EXCEPT ![r].status = "Settled"]
  BY <1>1, <1>3
<1>5. /\ now >= rounds[r].settle_ts
      /\ UNCHANGED <<now, feed, counter, strikeTs>>
  BY DEF Settle, environment
<1>6. \A a \in Asset : LastTick(a)' = LastTick(a)
  BY <1>5 DEF LastTick, Published
<1>. QED BY <1>2, <1>3, <1>4, <1>5, <1>6
         DEF Series!SettleRound, Series!CanSettle, Series!IsOpen

LEMMA BetIsUnseen ==
  ASSUME TypeOK, NEW u \in User, NEW r \in RoundId, NEW side \in Side,
         NEW amount \in BetAmount, Bet(u, r, side, amount)
  PROVE  SeriesStutter
<1>1. SameTerms(r) /\ rounds'[r].status = "Open"
  BY BetTerms
<1>2. /\ rounds'[r] # None
      /\ \A s \in RoundId : s # r => rounds'[s] = rounds[s]
  <2>1. rounds' = [rounds EXCEPT ![r] = WithStake(rounds[r], side, amount)]
        /\ rounds[r] \in Round /\ amount \in Nat
    BY DEF Bet, TypeOK
  <2>2. WithStake(rounds[r], side, amount) \in Round
    BY <2>1, WithStakeType
  <2>. QED BY <2>1, <2>2 DEF TypeOK
<1>3. Seen(rounds'[r]) = Seen(rounds[r])
  BY <1>1, <1>2 DEF Seen, SameTerms
<1>. QED BY <1>2, <1>3 DEF SeriesStutter, Bet, environment

\* The clock, the feed and the expiry of entries are the environment that
\* RoundSeries allows for.
LEMMA EnvironmentPasses ==
  ASSUME SeriesInv, [Next]_vars,
         \/ AdvanceTime
         \/ \E a \in Asset, tick \in Tick, price \in Price :
              LateTick(a, tick, price)
  PROVE  Series!TimePasses
<1> USE DEF SeriesInv, TypeInv
<1> DEFINE S == [r \in RoundId |-> Seen(rounds[r])]
           expired == {r \in RoundId : rounds[r] # None /\ rounds'[r] = None}
<1>1. /\ now' \in {now, now + 1} \cap Time
      /\ UNCHANGED <<strikeTs, counter>>
  BY DEF AdvanceTime, LateTick, TypeOK, Time
<1>2. /\ [a \in Asset |-> LastTick(a)'] \in [Asset -> Tick \cup {0}]
      /\ \A a \in Asset : LastTick(a) <= LastTick(a)' /\ LastTick(a)' <= now'
  BY LastTickMoves
<1>3. ASSUME NEW r \in RoundId, rounds[r] # None
      PROVE  /\ S[r] # None /\ S[r].strike_ts = rounds[r].strike_ts
  <2>1. rounds[r] \in Round
    BY <1>3 DEF TypeOK
  <2>2. Seen(rounds[r]) \in SeenRound
    BY <1>3, <2>1 DEF Seen, SeenRound, Round
  <2>. QED BY <1>3, <2>2 DEF Seen
<1>4. ASSUME NEW r \in expired
      PROVE  S[r] # None /\ S[r].strike_ts + TempBump < now'
  <2>1. rounds[r] # None /\ rounds[r].live_until < now' /\ rounds[r] \in Round
        /\ now' \in Nat
    BY <1>1, Expires DEF TypeOK, Time
  <2>2. rounds[r].strike_ts + TempBump <= rounds[r].live_until
        /\ rounds[r].strike_ts \in Nat /\ rounds[r].live_until \in Nat
    BY <2>1 DEF RoundsInv, Anchored, Round
  <2>3. rounds[r].strike_ts + TempBump < now'
    BY <2>1, <2>2
  <2>. QED BY <1>3, <2>1, <2>3
<1>5. ASSUME NEW r \in RoundId
      PROVE  Seen(rounds'[r]) = IF r \in expired THEN None ELSE S[r]
  <2>1. rounds'[r] = rounds[r] \/ rounds'[r] = None
    BY DEF AdvanceTime, LateTick
  <2>. QED BY <2>1 DEF Seen
<1> HIDE DEF S, expired
<1>6. [r \in RoundId |-> Seen(rounds'[r])]
        = [r \in RoundId |-> IF r \in expired THEN None ELSE S[r]]
  BY <1>5
<1>7. expired \in SUBSET {r \in RoundId :
          S[r] # None /\ S[r].strike_ts + TempBump < now'}
  BY <1>4 DEF expired
<1>8. \E gone \in SUBSET {r \in RoundId :
          S[r] # None /\ S[r].strike_ts + TempBump < now'} :
        [r \in RoundId |-> Seen(rounds'[r])]
          = [r \in RoundId |-> IF r \in gone THEN None ELSE S[r]]
  BY <1>6, <1>7
<1>. QED BY <1>1, <1>2, <1>8
         DEF S, Series!TimePasses, Series!Time, Series!Tick, Series!RoundId,
             Time, Tick, RoundId

LEMMA StepIsSeriesStep ==
  ASSUME SeriesInv, [Next]_vars PROVE [Series!SeriesNext]_(Series!series)
<1> USE DEF SeriesInv, TypeInv
<1>1. ASSUME NEW a \in Asset, NEW tick \in Tick, CreateRound(a, tick)
      PROVE  Series!SeriesNext
  BY <1>1, CreateRoundCreates DEF Series!SeriesNext
<1>2. ASSUME NEW r \in RoundId, Settle(r) PROVE Series!SeriesNext
  BY <1>2, SettleSettles DEF Series!SeriesNext, Series!RoundId, RoundId
<1>3. CASE \/ AdvanceTime
           \/ \E a \in Asset, tick \in Tick, price \in Price :
                LateTick(a, tick, price)
  BY <1>3, EnvironmentPasses DEF Series!SeriesNext
<1>4. CASE SeriesStutter
  BY <1>4, StutterIsSeriesStutter
<1>5. CASE Quiet
  BY <1>4, <1>5 DEF Quiet, SeriesStutter
<1>6. ASSUME NEW u \in User, NEW r \in RoundId, NEW side \in Side,
             NEW amount \in BetAmount, Bet(u, r, side, amount)
      PROVE  SeriesStutter
  BY <1>6, BetIsUnseen
<1>. QED BY <1>1, <1>2, <1>3, <1>4, <1>5, <1>6, SeriesSteps

\* The market implements RoundSeries, the contract its callers work against:
\* whatever is bet, claimed, swept or configured, a round opens only on the
\* feed's newest tick and once per tick, is settled once and not before its
\* time, and stays readable for a full lifetime after its strike.
THEOREM MarketIsRoundSeries == Spec => IsRoundSeries
<1>1. Init => Series!SeriesInit
  <2> SUFFICES ASSUME Init PROVE Series!SeriesInit
    OBVIOUS
  <2>1. \A a \in Asset : LastTick(a) = 0
    BY DEF Init, LastTick, Published
  <2>2. \A r \in RoundId : Seen(rounds[r]) = None
    BY DEF Init, Seen
  <2>. QED BY <2>1, <2>2
           DEF Init, Series!SeriesInit, Series!RoundId, RoundId
<1>. QED BY <1>1, StepIsSeriesStep, SeriesInvariant, PTL
         DEF Spec, IsRoundSeries, Series!SeriesSpec

=============================================================================
