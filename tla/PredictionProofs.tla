-------------------------- MODULE PredictionProofs --------------------------
(***************************************************************************)
(* Theorems about Prediction, for every value of its constants.  A call    *)
(* touches several rounds at once; the proofs first say what may happen to *)
(* one round in one step, and then follow each round on its own.           *)
(***************************************************************************)
EXTENDS Prediction, SumTheorems, SequenceTheorems

USE PredictionAssumption, NoneAssumption
  DEF PredictionAssumption, NoneAssumption

-----------------------------------------------------------------------------
(* What the invariants say of one round *)

Exists(a, e) == rounds[a][e] # None

StakeOn(a, e, u, direction) ==
  IF bets[a][e][u] # None /\ bets[a][e][u].direction = direction
  THEN bets[a][e][u].amount ELSE 0

StakesOn(a, e, direction) ==
  Sum([u \in User |-> StakeOn(a, e, u, direction)], NumUsers)

\* The pools of a round are its stakes, nothing is claimed before it is final,
\* and what a resolved round shares out is the pot without the fee.
RoundInv(a, e) ==
  /\ \A u \in User : bets[a][e][u] # None => Exists(a, e)
  /\ \A u \in User :
       bets[a][e][u] # None /\ bets[a][e][u].claimed => Final(a, e)
  /\ Exists(a, e) =>
       /\ rounds[a][e].up_amount = StakesOn(a, e, "Up")
       /\ rounds[a][e].down_amount = StakesOn(a, e, "Down")
       /\ rounds[a][e].total_amount
            = rounds[a][e].up_amount + rounds[a][e].down_amount
       /\ rounds[a][e].status # "Resolved" => rounds[a][e].treasury_fee = 0
       /\ rounds[a][e].status = "Resolved" =>
            /\ rounds[a][e].up_amount > 0 /\ rounds[a][e].down_amount > 0
            /\ rounds[a][e].reward_pool
                 = rounds[a][e].total_amount - rounds[a][e].treasury_fee

RoundsInv == \A a \in Asset, e \in Epoch : RoundInv(a, e)

\* No asset starts before initialize, and none has rounds before it starts.
SetupInv ==
  \A a \in Asset :
    /\ config = None => genesis[a] = "None"
    /\ genesis[a] = "None" => \A e \in Epoch : rounds[a][e] = None

MarketInv == TypeOK /\ SetupInv /\ RoundsInv

-----------------------------------------------------------------------------
(* Arithmetic *)

LEMMA DivisionFacts ==
  \A m, n \in Nat, c \in Nat \ {0} :
    /\ m \div c \in Nat
    /\ (m \div c) * c <= m
    /\ m <= n => m \div c <= n \div c
OBVIOUS

LEMMA EpochFacts ==
  ASSUME now \in Time
  PROVE  /\ LastEpoch \in Nat /\ CurrentEpoch \in Nat
         /\ CurrentEpoch + 1 \in Epoch
         /\ CurrentEpoch * Interval <= now
<1>1. now \in Nat /\ now <= MaxTime
  BY DEF Time
<1>2. /\ now \div Interval \in Nat /\ MaxTime \div Interval \in Nat
      /\ now \div Interval <= MaxTime \div Interval
      /\ (now \div Interval) * Interval <= now
  BY <1>1, DivisionFacts
<1>. QED BY <1>2 DEF CurrentEpoch, LastEpoch, Epoch

\* A fee is part of the total.
LEMMA FeePart ==
  ASSUME config \in Config, NEW round \in Round
  PROVE  Fee(round) \in 0..round.total_amount
<1> DEFINE total == round.total_amount
<1>1. total \in Nat /\ config.fee_bps \in 0..BpsDenominator
  BY DEF Round, Config
<1> HIDE DEF total
<1>2. total * config.fee_bps <= total * BpsDenominator
  BY <1>1, \A x, y, z \in Nat : x <= y => z * x <= z * y
<1>3. total * config.fee_bps \in Nat
  BY <1>1
<1>4. /\ (total * config.fee_bps) \div BpsDenominator \in Nat
      /\ ((total * config.fee_bps) \div BpsDenominator) * BpsDenominator
           <= total * BpsDenominator
  BY <1>1, <1>2, <1>3, DivisionFacts
<1>5. (total * config.fee_bps) \div BpsDenominator <= total
  BY <1>1, <1>4, \A x, y \in Nat, z \in Nat \ {0} : x * z <= y * z => x <= y
<1>. QED BY <1>1, <1>4, <1>5 DEF Fee, total

\* A nonempty set of times has a last one.
LEMMA Newest ==
  ASSUME NEW S \in SUBSET Time, S # {}
  PROVE  \E t \in S : \A s \in S : s <= t
<1> DEFINE D == {MaxTime - t : t \in S}
<1>1. D \in SUBSET Nat /\ D # {}
  <2>1. \A t \in S : MaxTime - t \in Nat
    BY DEF Time
  <2>. QED BY <2>1
<1>2. PICK d \in D : \A x \in D : d <= x
  <2> HIDE DEF D
  <2>. QED BY <1>1, LeastNatural
<1>3. PICK t \in S : d = MaxTime - t
  BY <1>2
<1>4. \A s \in S : MaxTime - s \in D
  OBVIOUS
<1> HIDE DEF D
<1>5. \A s \in S : s <= t
  BY <1>2, <1>3, <1>4 DEF Time
<1>. QED BY <1>5

LEMMA PriceFound ==
  ASSUME TypeOK, NEW a \in Asset, NEW timestamp
  PROVE  FetchPrice(a, timestamp) \in Price \cup {None}
<1> DEFINE known == {t \in Time : t <= timestamp /\ feed[a][t] # None}
           newest == CHOOSE t \in known : \A s \in known : s <= t
<1>1. CASE known = {}
  BY <1>1 DEF FetchPrice
<1>2. CASE known # {}
  <2>1. \E t \in known : \A s \in known : s <= t
    BY <1>2, Newest
  <2>2. newest \in Time
    BY <2>1
  <2> HIDE DEF newest
  <2>3. feed[a][newest] \in Price \cup {None}
    BY <2>2 DEF TypeOK
  <2>. QED BY <2>3 DEF FetchPrice, newest
<1>. QED BY <1>1, <1>2

LEMMA WorthNat ==
  ASSUME NEW round \in Round, NEW bet \in BetEntry,
         round.status = "Resolved" =>
           round.up_amount > 0 /\ round.down_amount > 0
  PROVE  Worth(round, bet) \in Nat
<1>1. round.reward_pool \in Nat /\ bet.amount \in Nat
  BY DEF Round, BetEntry
<1>2. bet.amount * round.reward_pool \in Nat
  BY <1>1
<1>3. CASE round.status = "Resolved"
  <2>1. WinningAmount(round) \in Nat \ {0}
    BY <1>3 DEF WinningAmount, Round
  <2>2. (bet.amount * round.reward_pool) \div WinningAmount(round) \in Nat
    BY <1>2, <2>1, DivisionFacts
  <2>. QED BY <1>3, <2>2 DEF Worth, Payout
<1>4. CASE round.status # "Resolved"
  BY <1>1, <1>4 DEF Worth
<1>. QED BY <1>3, <1>4

-----------------------------------------------------------------------------
(* What may happen to one round in one step *)

SameBets(a, e) == bets'[a][e] = bets[a][e]

Stays(a, e) == rounds'[a][e] = rounds[a][e] /\ SameBets(a, e)

Opens(a, e) ==
  /\ e = CurrentEpoch + 1
  /\ ~Exists(a, e)
  /\ rounds'[a][e] = NewRound
  /\ SameBets(a, e)

Locks(a, e) ==
  /\ e = CurrentEpoch
  /\ Is(a, e, "Open")
  /\ BoundaryPrice(a, e) \in Price /\ BoundaryPrice(a, e) # None
  /\ rounds'[a][e] = [rounds[a][e] EXCEPT !.start_price = BoundaryPrice(a, e),
                                          !.status = "Locked"]
  /\ SameBets(a, e)

Voids(a, e) ==
  /\ e <= CurrentEpoch
  /\ Is(a, e, "Open") \/ Is(a, e, "Locked")
  /\ \E price \in Price \cup {0} :
       rounds'[a][e] = [rounds[a][e] EXCEPT !.end_price = price,
                                            !.status = "Cancelled"]
  /\ SameBets(a, e)

Resolves(a, e) ==
  /\ e + 1 <= CurrentEpoch
  /\ config # None
  /\ Is(a, e, "Locked")
  /\ rounds[a][e].up_amount # 0 /\ rounds[a][e].down_amount # 0
  /\ BoundaryPrice(a, e + 1) \in Price /\ BoundaryPrice(a, e + 1) # None
  /\ rounds'[a][e] = [rounds[a][e] EXCEPT
       !.end_price = BoundaryPrice(a, e + 1),
       !.treasury_fee = Fee(rounds[a][e]),
       !.reward_pool = rounds[a][e].total_amount - Fee(rounds[a][e]),
       !.status = "Resolved"]
  /\ SameBets(a, e)

Takes(a, e, u, direction, amount) ==
  /\ e = CurrentEpoch + 1
  /\ Is(a, e, "Open")
  /\ bets[a][e][u] = None
  /\ rounds'[a][e] = WithBet(rounds[a][e], direction, amount)
  /\ bets'[a][e] = [bets[a][e] EXCEPT ![u] =
       [direction |-> direction, amount |-> amount, claimed |-> FALSE]]

Pays(a, e, u) ==
  /\ Final(a, e)
  /\ Unclaimed(a, e, u)
  /\ rounds'[a][e] = rounds[a][e]
  /\ bets'[a][e] = [bets[a][e] EXCEPT ![u].claimed = TRUE]

\* What execute_round may do.
Moves(a, e) ==
  Stays(a, e) \/ Opens(a, e) \/ Locks(a, e) \/ Voids(a, e) \/ Resolves(a, e)

Fates(a, e) ==
  \/ Moves(a, e)
  \/ \E u \in User, direction \in Direction, amount \in BetAmount :
       Takes(a, e, u, direction, amount)
  \/ \E u \in User : Pays(a, e, u)

LEMMA SettleFate ==
  ASSUME TypeOK, config # None, NEW a \in Asset, NEW e \in Epoch,
         Is(a, e, "Locked"), e + 1 <= CurrentEpoch, SameBets(a, e),
         rounds'[a][e] = Settle(rounds[a][e], BoundaryPrice(a, e + 1))
  PROVE  Voids(a, e) \/ Resolves(a, e)
<1> DEFINE price == BoundaryPrice(a, e + 1)
<1>1. rounds[a][e] \in Round /\ rounds[a][e] # None
  BY DEF TypeOK, Is, RoundAt
<1>2. price \in Price \cup {None}
  BY PriceFound DEF BoundaryPrice
<1>3. e <= CurrentEpoch
  BY EpochFacts DEF TypeOK, Epoch
<1>4. CASE price = None
  <2>1. rounds'[a][e] = [rounds[a][e] EXCEPT !.end_price = rounds[a][e].end_price,
                                             !.status = "Cancelled"]
    BY <1>1, <1>4 DEF Settle, Round
  <2>2. rounds[a][e].end_price \in Price \cup {0}
    BY <1>1 DEF Round
  <2>. QED BY <1>3, <2>1, <2>2 DEF Voids
<1>5. CASE /\ price # None
           /\ \/ rounds[a][e].up_amount = 0 \/ rounds[a][e].down_amount = 0
              \/ config.tie_refund /\ rounds[a][e].start_price = price
  <2>1. rounds'[a][e] = [rounds[a][e] EXCEPT !.end_price = price,
                                             !.status = "Cancelled"]
    BY <1>5 DEF Settle
  <2>. QED BY <1>2, <1>3, <1>5, <2>1 DEF Voids
<1>6. CASE /\ price # None
           /\ rounds[a][e].up_amount # 0 /\ rounds[a][e].down_amount # 0
           /\ ~(config.tie_refund /\ rounds[a][e].start_price = price)
  <2>1. rounds'[a][e] = [rounds[a][e] EXCEPT
            !.end_price = price,
            !.treasury_fee = Fee(rounds[a][e]),
            !.reward_pool = rounds[a][e].total_amount - Fee(rounds[a][e]),
            !.status = "Resolved"]
    BY <1>6 DEF Settle
  <2>. QED BY <1>2, <1>6, <2>1 DEF Resolves
<1>. QED BY <1>4, <1>5, <1>6

LEMMA LockFate ==
  ASSUME TypeOK, config # None, NEW a \in Asset, NEW e \in Epoch,
         Is(a, e, "Open"), e = CurrentEpoch, SameBets(a, e),
         rounds'[a][e] = Lock(rounds[a][e], BoundaryPrice(a, e))
  PROVE  Locks(a, e) \/ Voids(a, e)
<1> DEFINE price == BoundaryPrice(a, e)
<1>1. rounds[a][e] \in Round
  BY DEF TypeOK, Is, RoundAt
<1>2. price \in Price \cup {None}
  BY PriceFound DEF BoundaryPrice
<1>3. e <= CurrentEpoch
  BY DEF Epoch
<1>4. CASE price = None
  <2>1. rounds'[a][e] = [rounds[a][e] EXCEPT !.end_price = rounds[a][e].end_price,
                                             !.status = "Cancelled"]
    BY <1>1, <1>4 DEF Lock, Round
  <2>2. rounds[a][e].end_price \in Price \cup {0}
    BY <1>1 DEF Round
  <2>. QED BY <1>3, <2>1, <2>2 DEF Voids
<1>5. CASE price # None
  BY <1>2, <1>5 DEF Lock, Locks
<1>. QED BY <1>4, <1>5

\* execute_round moves each round of its asset at most one stage.
LEMMA ExecuteFates ==
  ASSUME TypeOK, NEW a \in Asset, ExecuteRound(a), NEW e \in Epoch
  PROVE  Moves(a, e)
<1> DEFINE c == CurrentEpoch
<1>1. rounds'[a][e] = Executed(a)[e] /\ SameBets(a, e) /\ config # None
  BY DEF ExecuteRound, TypeOK, SameBets
<1>2. RoundAt(a, e) = rounds[a][e]
  BY DEF RoundAt
<1>3. c \in Nat /\ e \in Nat
  BY EpochFacts DEF TypeOK, Epoch
<1> HIDE DEF c
<1>4. CASE e = c - 2 /\ Is(a, e, "Locked")
  <2>1. rounds'[a][e] = Settle(rounds[a][e], BoundaryPrice(a, e + 1))
    BY <1>1, <1>2, <1>4 DEF Executed, RetroSettle, c
  <2>2. e + 1 <= CurrentEpoch
    BY <1>3, <1>4 DEF c
  <2>. QED BY <1>1, <1>4, <2>1, <2>2, SettleFate DEF Moves
<1>5. CASE e = c - 1 /\ Is(a, e, "Locked")
  <2>1. e + 1 = c /\ e # c - 2
    BY <1>3, <1>5
  <2>2. rounds'[a][e] = Settle(rounds[a][e], BoundaryPrice(a, c))
    BY <1>1, <1>2, <1>5, <2>1 DEF Executed, Close, c
  <2>3. e + 1 <= CurrentEpoch
    BY <1>3, <2>1 DEF c
  <2>. QED BY <1>1, <1>5, <2>1, <2>2, <2>3, SettleFate DEF Moves
<1>6. CASE e = c - 1 /\ Is(a, e, "Open")
  <2>1. e # c - 2 /\ e <= c
    BY <1>3, <1>6
  <2>2. rounds[a][e] \in Round /\ rounds[a][e].status = "Open"
    BY <1>2, <1>6 DEF TypeOK, Is
  <2>3. rounds'[a][e] = [rounds[a][e] EXCEPT !.status = "Cancelled"]
    BY <1>1, <1>2, <1>6, <2>1, <2>2 DEF Executed, Close, Is, c
  <2>4. /\ rounds'[a][e] = [rounds[a][e] EXCEPT !.end_price = rounds[a][e].end_price,
                                                !.status = "Cancelled"]
        /\ rounds[a][e].end_price \in Price \cup {0}
    BY <2>2, <2>3 DEF Round
  <2>. QED BY <1>1, <1>6, <2>1, <2>4 DEF Voids, Moves, c
<1>7. CASE e = c /\ Is(a, e, "Open")
  <2>1. e # c - 2 /\ e # c - 1
    BY <1>3, <1>7
  <2>2. rounds'[a][e] = Lock(rounds[a][e], BoundaryPrice(a, e))
    BY <1>1, <1>2, <1>7, <2>1 DEF Executed, LockIfOpen, c
  <2>. QED BY <1>1, <1>7, <2>2, LockFate DEF Moves, c
<1>8. CASE e = c + 1 /\ rounds[a][e] = None
  <2>1. e # c - 2 /\ e # c - 1 /\ e # c
    BY <1>3, <1>8
  <2>2. rounds'[a][e] = NewRound
    BY <1>1, <1>2, <1>8, <2>1 DEF Executed, Opened, c
  <2>. QED BY <1>1, <1>8, <2>2 DEF Opens, Exists, Moves, c
<1>9. CASE /\ ~(e = c - 2 /\ Is(a, e, "Locked"))
           /\ ~(e = c - 1 /\ (Is(a, e, "Locked") \/ Is(a, e, "Open")))
           /\ ~(e = c /\ Is(a, e, "Open"))
           /\ ~(e = c + 1 /\ rounds[a][e] = None)
  <2>1. rounds'[a][e] = rounds[a][e]
    BY <1>1, <1>2, <1>3, <1>9
       DEF Executed, RetroSettle, Close, LockIfOpen, Opened, c
  <2>. QED BY <1>1, <2>1 DEF Stays, Moves
<1>. QED BY <1>4, <1>5, <1>6, <1>7, <1>8, <1>9


LEMMA GenesisLockFates ==
  ASSUME TypeOK, NEW a \in Asset, GenesisLock(a), NEW e \in Epoch
  PROVE  Moves(a, e)
<1> DEFINE c == CurrentEpoch
<1>1. /\ SameBets(a, e) /\ config # None /\ Is(a, c, "Open")
      /\ rounds' = [rounds EXCEPT ![a] =
           [@ EXCEPT ![c] = Lock(RoundAt(a, c), BoundaryPrice(a, c)),
                     ![c + 1] = Opened(RoundAt(a, c + 1))]]
  BY DEF GenesisLock, SameBets
<1>2. c \in Nat /\ c + 1 \in Epoch
  BY EpochFacts DEF TypeOK
<1>3. c \in Epoch /\ RoundAt(a, c) = rounds[a][c]
      /\ RoundAt(a, c + 1) = rounds[a][c + 1]
  BY <1>1, <1>2 DEF Is, RoundAt
<1> HIDE DEF c
<1>4. rounds[a] \in [Epoch -> Round \cup {None}]
      /\ rounds \in [Asset -> [Epoch -> Round \cup {None}]]
  BY DEF TypeOK
<1>5. c # c + 1
  BY <1>2
<1>6. rounds'[a] = [[rounds[a] EXCEPT ![c] = Lock(rounds[a][c], BoundaryPrice(a, c))]
                      EXCEPT ![c + 1] = Opened(rounds[a][c + 1])]
  BY <1>1, <1>3, <1>4
<1>7. CASE e = c
  <2>1. rounds'[a][e] = Lock(rounds[a][e], BoundaryPrice(a, e))
    BY <1>3, <1>4, <1>5, <1>6, <1>7
  <2>. QED BY <1>1, <1>7, <2>1, LockFate DEF Moves, c
<1>8. CASE e = c + 1
  <2>1. rounds'[a][e] = Opened(rounds[a][e])
    BY <1>2, <1>4, <1>6, <1>8
  <2>. QED BY <1>1, <1>8, <2>1 DEF Opened, Opens, Exists, Stays, Moves, c
<1>9. CASE e # c /\ e # c + 1
  <2>1. rounds'[a][e] = rounds[a][e]
    BY <1>4, <1>6, <1>9
  <2>. QED BY <1>1, <2>1 DEF Stays, Moves
<1>. QED BY <1>7, <1>8, <1>9

LEMMA GenesisStartFates ==
  ASSUME TypeOK, SetupInv, NEW a \in Asset, GenesisStart(a), NEW e \in Epoch
  PROVE  Moves(a, e)
<1>1. CurrentEpoch + 1 \in Epoch
  BY EpochFacts DEF TypeOK
<1>2. rounds \in [Asset -> [Epoch -> Round \cup {None}]] /\ rounds[a][e] = None
  BY DEF TypeOK, SetupInv, GenesisStart
<1>3. SameBets(a, e)
  BY DEF GenesisStart, SameBets
<1>4. CASE e = CurrentEpoch + 1
  <2>1. rounds'[a][e] = NewRound
    BY <1>1, <1>2, <1>4 DEF GenesisStart
  <2>. QED BY <1>2, <1>3, <1>4, <2>1 DEF Opens, Exists, Moves
<1>5. CASE e # CurrentEpoch + 1
  <2>1. rounds'[a][e] = rounds[a][e]
    BY <1>1, <1>2, <1>5 DEF GenesisStart
  <2>. QED BY <1>3, <2>1 DEF Stays, Moves
<1>. QED BY <1>4, <1>5

LEMMA BetFates ==
  ASSUME TypeOK, NEW u \in User, NEW a \in Asset, NEW e \in Epoch,
         NEW direction \in Direction, NEW amount \in BetAmount,
         Bet(u, a, e, direction, amount)
  PROVE  /\ Takes(a, e, u, direction, amount)
         /\ \A b \in Asset, f \in Epoch : b # a \/ f # e => Stays(b, f)
<1>1. /\ rounds \in [Asset -> [Epoch -> Round \cup {None}]]
      /\ bets \in [Asset -> [Epoch -> [User -> BetEntry \cup {None}]]]
  BY DEF TypeOK
<1>2. /\ rounds' = [rounds EXCEPT ![a][e] = WithBet(rounds[a][e], direction, amount)]
      /\ bets' = [bets EXCEPT ![a][e][u] =
           [direction |-> direction, amount |-> amount, claimed |-> FALSE]]
      /\ e = CurrentEpoch + 1 /\ Is(a, e, "Open") /\ bets[a][e][u] = None
  BY DEF Bet, RoundAt
<1>3. Takes(a, e, u, direction, amount)
  BY <1>1, <1>2 DEF Takes
<1>4. ASSUME NEW b \in Asset, NEW f \in Epoch, b # a \/ f # e
      PROVE  Stays(b, f)
  BY <1>1, <1>2, <1>4 DEF Stays, SameBets
<1>. QED BY <1>3, <1>4

\* A payment marks the bets of the rounds that are paid.
LEMMA PayOutFates ==
  ASSUME TypeOK, NEW u \in User, NEW a \in Asset, NEW paid \in SUBSET Epoch,
         PayOut(u, a, paid),
         \A e \in paid : Final(a, e) /\ Unclaimed(a, e, u)
  PROVE  /\ \A e \in paid : Pays(a, e, u)
         /\ \A e \in Epoch \ paid : Stays(a, e)
         /\ \A b \in Asset \ {a}, e \in Epoch : Stays(b, e)
<1>1. bets \in [Asset -> [Epoch -> [User -> BetEntry \cup {None}]]]
  BY DEF TypeOK
<1>2. /\ rounds' = rounds
      /\ bets' = [bets EXCEPT ![a] = [e \in Epoch |->
           IF e \in paid THEN [bets[a][e] EXCEPT ![u].claimed = TRUE]
           ELSE bets[a][e]]]
  BY DEF PayOut, entries
<1>3. ASSUME NEW e \in paid PROVE Pays(a, e, u)
  <2>1. e \in Epoch
    OBVIOUS
  <2>2. bets'[a][e] = [bets[a][e] EXCEPT ![u].claimed = TRUE]
    BY <1>1, <1>2, <2>1
  <2>. QED BY <1>2, <2>2 DEF Pays
<1>4. ASSUME NEW e \in Epoch \ paid PROVE Stays(a, e)
  BY <1>1, <1>2 DEF Stays, SameBets
<1>5. ASSUME NEW b \in Asset \ {a}, NEW e \in Epoch PROVE Stays(b, e)
  BY <1>1, <1>2 DEF Stays, SameBets
<1>. QED BY <1>3, <1>4, <1>5

\* claim and refund pay u, on some rounds that are final, what they are worth.
Paying(u, a, paid) ==
  /\ config # None
  /\ PayOut(u, a, paid)
  /\ \A e \in paid : Final(a, e) /\ Unclaimed(a, e, u)

LEMMA ClaimPays ==
  ASSUME NEW u \in User, NEW a \in Asset, NEW epochs \in SUBSET Epoch,
         Claim(u, a, epochs) \/ Refund(u, a, epochs)
  PROVE  \E paid \in SUBSET Epoch : Paying(u, a, paid)
<1>1. CASE Claim(u, a, epochs)
  <2> DEFINE paid == {e \in epochs : Claimable(a, e, u)}
  <2>1. Paying(u, a, paid)
    BY <1>1 DEF Claim, Claimable, Final, Paying
  <2>. QED BY <2>1
<1>2. CASE Refund(u, a, epochs)
  <2> DEFINE paid == {e \in epochs : Refundable(a, e, u)}
  <2>1. Paying(u, a, paid)
    BY <1>2 DEF Refund, Refundable, Final, Paying
  <2>. QED BY <2>1
<1>. QED BY <1>1, <1>2

\* The calls that leave rounds, bets and money alone.
Quiet ==
  \/ \E fee \in FeeBps, minBet \in MinBet : Initialize(fee, minBet)
  \/ Pause \/ Unpause
  \/ \E fee \in FeeBps \cup {None}, minBet \in MinBet \cup {None},
       tolerance \in Tolerance \cup {None}, tieRefund \in TieRefund \cup {None} :
       SetConfig(fee, minBet, tolerance, tieRefund)
  \/ AdvanceTime
  \/ \E a \in Asset, tick \in Tick, price \in Price : LateTick(a, tick, price)
  \/ UNCHANGED vars

LEMMA QuietKeeps ==
  ASSUME Quiet PROVE UNCHANGED <<genesis, rounds, bets, userEpochs, money>>
BY DEF Quiet, Initialize, Pause, Unpause, SetConfig, AdvanceTime, LateTick, vars,
       entries, money

LEMMA Steps ==
  ASSUME [Next]_vars
  PROVE  \/ Quiet
         \/ ClaimTreasury
         \/ \E a \in Asset : GenesisStart(a) \/ GenesisLock(a) \/ ExecuteRound(a)
         \/ \E u \in User, a \in Asset, e \in Epoch, direction \in Direction,
              amount \in BetAmount : Bet(u, a, e, direction, amount)
         \/ \E u \in User, a \in Asset, paid \in SUBSET Epoch : Paying(u, a, paid)
BY ClaimPays DEF Next, Quiet


LEMMA NextFates ==
  ASSUME TypeOK, SetupInv, [Next]_vars
  PROVE  \A a \in Asset, e \in Epoch : Fates(a, e)
<1>1. ASSUME rounds' = rounds, bets' = bets, NEW a \in Asset, NEW e \in Epoch
      PROVE  Stays(a, e)
  BY <1>1 DEF Stays, SameBets
<1>2. CASE Quiet \/ ClaimTreasury
  BY <1>1, <1>2, QuietKeeps DEF ClaimTreasury, entries, Fates, Moves
<1>3. ASSUME NEW a \in Asset, GenesisStart(a) \/ GenesisLock(a) \/ ExecuteRound(a)
      PROVE  \A b \in Asset, e \in Epoch : Fates(b, e)
  <2>1. \A e \in Epoch : Moves(a, e)
    BY <1>3, GenesisStartFates, GenesisLockFates, ExecuteFates
  <2>2. \A b \in Asset \ {a} : rounds'[b] = rounds[b] /\ bets'[b] = bets[b]
    BY <1>3 DEF GenesisStart, GenesisLock, ExecuteRound, TypeOK
  <2>3. \A b \in Asset \ {a}, e \in Epoch : Moves(b, e)
    BY <2>2 DEF Moves, Stays, SameBets
  <2>. QED BY <2>1, <2>3 DEF Fates
<1>4. ASSUME NEW u \in User, NEW a \in Asset, NEW e \in Epoch,
             NEW direction \in Direction, NEW amount \in BetAmount,
             Bet(u, a, e, direction, amount)
      PROVE  \A b \in Asset, f \in Epoch : Fates(b, f)
  BY <1>4, BetFates DEF Fates, Moves
<1>5. ASSUME NEW u \in User, NEW a \in Asset, NEW paid \in SUBSET Epoch,
             Paying(u, a, paid)
      PROVE  \A b \in Asset, e \in Epoch : Fates(b, e)
  BY <1>5, PayOutFates DEF Paying, Fates, Moves
<1>. QED BY <1>2, <1>3, <1>4, <1>5, Steps

-----------------------------------------------------------------------------
(* The fate of a round keeps it a round whose pools are its stakes *)

\* The stakes of a round change only by a bet.
LEMMA SameStakes ==
  ASSUME TypeOK, NEW a \in Asset, NEW e \in Epoch,
         SameBets(a, e) \/ \E u \in User : Pays(a, e, u)
  PROVE  \A direction \in Direction :
           StakesOn(a, e, direction)' = StakesOn(a, e, direction)
<1>1. bets[a][e] \in [User -> BetEntry \cup {None}]
  BY DEF TypeOK
<1>2. ASSUME NEW v \in User, NEW direction \in Direction
      PROVE  StakeOn(a, e, v, direction)' = StakeOn(a, e, v, direction)
  <2>1. CASE SameBets(a, e)
    BY <2>1 DEF SameBets, StakeOn
  <2>2. ASSUME NEW u \in User, Pays(a, e, u)
        PROVE  StakeOn(a, e, v, direction)' = StakeOn(a, e, v, direction)
    <3>1. CASE v = u
      <4>1. bets[a][e][u] \in BetEntry
        BY <1>1, <2>2 DEF Pays, Unclaimed
      <4>2. bets'[a][e][u] = [bets[a][e][u] EXCEPT !.claimed = TRUE]
        BY <1>1, <2>2 DEF Pays
      <4>3. /\ bets'[a][e][u] \in BetEntry
            /\ bets'[a][e][u].direction = bets[a][e][u].direction
            /\ bets'[a][e][u].amount = bets[a][e][u].amount
        BY <4>1, <4>2 DEF BetEntry
      <4>. QED BY <3>1, <4>1, <4>3 DEF StakeOn
    <3>2. CASE v # u
      <4>1. bets'[a][e][v] = bets[a][e][v]
        BY <1>1, <2>2, <3>2 DEF Pays
      <4>. QED BY <4>1 DEF StakeOn
    <3>. QED BY <3>1, <3>2
  <2>. QED BY <2>1, <2>2
<1>3. TAKE direction \in Direction
<1>4. [v \in User |-> StakeOn(a, e, v, direction)']
        = [v \in User |-> StakeOn(a, e, v, direction)]
  BY <1>2
<1>. QED BY <1>4 DEF StakesOn

LEMMA StakesGrow ==
  ASSUME TypeOK, NEW a \in Asset, NEW e \in Epoch, NEW u \in User,
         NEW direction \in Direction, NEW amount \in BetAmount,
         Takes(a, e, u, direction, amount)
  PROVE  /\ StakesOn(a, e, direction)' = StakesOn(a, e, direction) + amount
         /\ \A other \in Direction : other # direction =>
              StakesOn(a, e, other)' = StakesOn(a, e, other)
<1> DEFINE entry == [direction |-> direction, amount |-> amount, claimed |-> FALSE]
<1>0. /\ entry \in BetEntry /\ amount \in Nat
      /\ entry.direction = direction /\ entry.amount = amount
  BY DEF BetEntry
<1>2. bets'[a][e] = [bets[a][e] EXCEPT ![u] = entry] /\ bets[a][e][u] = None
  BY DEF Takes
<1> HIDE DEF entry
<1>1. /\ bets[a][e] \in [User -> BetEntry \cup {None}]
      /\ \A v \in User : v # u => bets'[a][e][v] = bets[a][e][v]
      /\ bets'[a][e][u] = entry /\ entry # None
  <2>1. bets[a][e] \in [User -> BetEntry \cup {None}]
    BY DEF TypeOK
  <2>. QED BY <1>0, <1>2, <2>1
<1>3. ASSUME NEW d \in Direction
      PROVE  StakesOn(a, e, d)' = StakesOn(a, e, d)
                                    + (IF d = direction THEN amount ELSE 0)
  <2> DEFINE f == [v \in User |-> StakeOn(a, e, v, d)]
             g == [v \in User |-> StakeOn(a, e, v, d)']
  <2>1. \A v \in 1..NumUsers : v # u => g[v] = f[v]
    BY <1>1 DEF StakeOn, User
  <2>2. f[u] = 0 /\ g[u] = IF d = direction THEN amount ELSE 0
    BY <1>0, <1>1, <1>2 DEF StakeOn
  <2>3. \A v \in 1..NumUsers : f[v] \in Int
    BY <1>1 DEF StakeOn, User, BetEntry
  <2>4. \A v \in 1..NumUsers : g[v] \in Int
    <3> HIDE DEF f, g
    <3>. QED BY <1>0, <2>1, <2>2, <2>3
  <2>5. u \in 1..NumUsers
    BY DEF User
  <2> HIDE DEF f, g
  <2>6. Sum(g, NumUsers) = Sum(f, NumUsers) - f[u] + g[u]
    BY <2>1, <2>3, <2>4, <2>5, SumChange
  <2>7. Sum(f, NumUsers) \in Int
    BY <2>3, SumInt
  <2>8. Sum(g, NumUsers)
          = Sum(f, NumUsers) + (IF d = direction THEN amount ELSE 0)
    BY <1>0, <2>2, <2>6, <2>7
  <2>. QED BY <2>8 DEF StakesOn, f, g
<1>4. \A d \in Direction : StakesOn(a, e, d) \in Int
  <2>1. TAKE d \in Direction
  <2> DEFINE f == [v \in User |-> StakeOn(a, e, v, d)]
  <2>2. \A v \in 1..NumUsers : f[v] \in Int
    BY <1>1 DEF StakeOn, User, BetEntry
  <2> HIDE DEF f
  <2>. QED BY <2>2, SumInt DEF StakesOn, f
<1>. QED BY <1>0, <1>3, <1>4


\* How a round that exists looks after each fate.
LEMMA FateTerms ==
  ASSUME TypeOK, NEW a \in Asset, NEW e \in Epoch
  PROVE  /\ Opens(a, e) => rounds'[a][e] \in Round
         /\ Locks(a, e) =>
              /\ rounds[a][e] \in Round /\ rounds'[a][e] \in Round
              /\ rounds'[a][e].up_amount = rounds[a][e].up_amount
              /\ rounds'[a][e].down_amount = rounds[a][e].down_amount
              /\ rounds'[a][e].total_amount = rounds[a][e].total_amount
              /\ rounds'[a][e].treasury_fee = rounds[a][e].treasury_fee
              /\ rounds[a][e].status = "Open" /\ rounds'[a][e].status = "Locked"
              /\ rounds'[a][e].start_price = BoundaryPrice(a, e)
         /\ Voids(a, e) =>
              /\ rounds[a][e] \in Round /\ rounds'[a][e] \in Round
              /\ rounds'[a][e].up_amount = rounds[a][e].up_amount
              /\ rounds'[a][e].down_amount = rounds[a][e].down_amount
              /\ rounds'[a][e].total_amount = rounds[a][e].total_amount
              /\ rounds'[a][e].treasury_fee = rounds[a][e].treasury_fee
              /\ rounds[a][e].status \in {"Open", "Locked"}
              /\ rounds'[a][e].status = "Cancelled"
         /\ Resolves(a, e) =>
              /\ rounds[a][e] \in Round /\ rounds'[a][e] \in Round
              /\ rounds'[a][e].up_amount = rounds[a][e].up_amount
              /\ rounds'[a][e].down_amount = rounds[a][e].down_amount
              /\ rounds'[a][e].total_amount = rounds[a][e].total_amount
              /\ rounds'[a][e].treasury_fee = Fee(rounds[a][e])
              /\ rounds'[a][e].reward_pool
                   = rounds[a][e].total_amount - Fee(rounds[a][e])
              /\ Fee(rounds[a][e]) \in 0..rounds[a][e].total_amount
              /\ rounds[a][e].status = "Locked" /\ rounds'[a][e].status = "Resolved"
              /\ rounds[a][e].up_amount > 0 /\ rounds[a][e].down_amount > 0
              /\ rounds'[a][e].start_price = rounds[a][e].start_price
              /\ rounds'[a][e].end_price = BoundaryPrice(a, e + 1)
<1> DEFINE round == rounds[a][e]
<1>1. round \in Round \cup {None}
  BY DEF TypeOK
<1>2. Opens(a, e) => rounds'[a][e] \in Round
  BY DEF Opens, NewRound, Round
<1>3. ASSUME Locks(a, e)
      PROVE  /\ round \in Round /\ rounds'[a][e] \in Round
             /\ round.status = "Open" /\ BoundaryPrice(a, e) \in Price
             /\ rounds'[a][e] = [round EXCEPT !.start_price = BoundaryPrice(a, e),
                                              !.status = "Locked"]
  <2>1. /\ round \in Round /\ round.status = "Open"
        /\ BoundaryPrice(a, e) \in Price
        /\ rounds'[a][e] = [round EXCEPT !.start_price = BoundaryPrice(a, e),
                                         !.status = "Locked"]
    BY <1>1, <1>3 DEF Locks, Is, RoundAt
  <2> HIDE DEF round
  <2>. QED BY <2>1 DEF Round
<1>4. ASSUME Voids(a, e)
      PROVE  /\ round \in Round /\ round.status \in {"Open", "Locked"}
             /\ \E price \in Price \cup {0} :
                  rounds'[a][e] = [round EXCEPT !.end_price = price,
                                                !.status = "Cancelled"]
  BY <1>1, <1>4 DEF Voids, Is, RoundAt
<1>5. ASSUME Resolves(a, e)
      PROVE  /\ round \in Round /\ round.status = "Locked"
             /\ round.up_amount > 0 /\ round.down_amount > 0
             /\ Fee(round) \in 0..round.total_amount
             /\ BoundaryPrice(a, e + 1) \in Price
             /\ rounds'[a][e] = [round EXCEPT
                  !.end_price = BoundaryPrice(a, e + 1),
                  !.treasury_fee = Fee(round),
                  !.reward_pool = round.total_amount - Fee(round),
                  !.status = "Resolved"]
  <2>1. round \in Round /\ round.status = "Locked"
    BY <1>1, <1>5 DEF Resolves, Is, RoundAt
  <2>2. config \in Config
    BY <1>5 DEF Resolves, TypeOK
  <2>3. Fee(round) \in 0..round.total_amount
    BY <2>1, <2>2, FeePart
  <2>4. round.up_amount > 0 /\ round.down_amount > 0
    BY <1>5, <2>1 DEF Resolves, Round
  <2>. QED BY <1>5, <2>1, <2>3, <2>4 DEF Resolves
<1> HIDE DEF round
<1>6. Locks(a, e) =>
        /\ rounds'[a][e] \in Round
        /\ rounds'[a][e].up_amount = round.up_amount
        /\ rounds'[a][e].down_amount = round.down_amount
        /\ rounds'[a][e].total_amount = round.total_amount
        /\ rounds'[a][e].treasury_fee = round.treasury_fee
        /\ rounds'[a][e].status = "Locked"
        /\ rounds'[a][e].start_price = BoundaryPrice(a, e)
  BY <1>3 DEF Round
<1>7. Voids(a, e) =>
        /\ rounds'[a][e] \in Round
        /\ rounds'[a][e].up_amount = round.up_amount
        /\ rounds'[a][e].down_amount = round.down_amount
        /\ rounds'[a][e].total_amount = round.total_amount
        /\ rounds'[a][e].treasury_fee = round.treasury_fee
        /\ rounds'[a][e].status = "Cancelled"
  BY <1>4 DEF Round
<1>8. ASSUME Resolves(a, e)
      PROVE  /\ rounds'[a][e] \in Round
             /\ rounds'[a][e].up_amount = round.up_amount
             /\ rounds'[a][e].down_amount = round.down_amount
             /\ rounds'[a][e].total_amount = round.total_amount
             /\ rounds'[a][e].treasury_fee = Fee(round)
             /\ rounds'[a][e].reward_pool = round.total_amount - Fee(round)
             /\ rounds'[a][e].status = "Resolved"
             /\ rounds'[a][e].start_price = round.start_price
             /\ rounds'[a][e].end_price = BoundaryPrice(a, e + 1)
  <2>1. PICK fee \in Nat, share \in Nat, price \in Price :
          /\ fee = Fee(round) /\ share = round.total_amount - Fee(round)
          /\ price = BoundaryPrice(a, e + 1)
    <3>1. round.total_amount \in Nat
      BY <1>5, <1>8 DEF Round
    <3>2. Fee(round) \in Nat /\ round.total_amount - Fee(round) \in Nat
      BY <1>5, <1>8, <3>1
    <3>. QED BY <1>5, <1>8, <3>2
  <2>2. rounds'[a][e] = [round EXCEPT
          !.end_price = price, !.treasury_fee = fee, !.reward_pool = share,
          !.status = "Resolved"] /\ round \in Round
    BY <1>5, <1>8, <2>1
  <2>. QED BY <2>1, <2>2 DEF Round
<1>. QED BY <1>2, <1>3, <1>4, <1>5, <1>6, <1>7, <1>8 DEF round

LEMMA TakesTerms ==
  ASSUME TypeOK, NEW a \in Asset, NEW e \in Epoch, NEW u \in User,
         NEW direction \in Direction, NEW amount \in BetAmount,
         Takes(a, e, u, direction, amount)
  PROVE  /\ rounds[a][e] \in Round /\ rounds'[a][e] \in Round
         /\ rounds[a][e].status = "Open" /\ rounds'[a][e].status = "Open"
         /\ rounds'[a][e].up_amount =
              rounds[a][e].up_amount + (IF direction = "Up" THEN amount ELSE 0)
         /\ rounds'[a][e].down_amount =
              rounds[a][e].down_amount + (IF direction = "Down" THEN amount ELSE 0)
         /\ rounds'[a][e].total_amount = rounds[a][e].total_amount + amount
         /\ rounds'[a][e].treasury_fee = rounds[a][e].treasury_fee
<1> DEFINE round == rounds[a][e]
<1>1. round \in Round /\ round.status = "Open"
  <2>1. round \in Round \cup {None}
    BY DEF TypeOK
  <2>. QED BY <2>1 DEF Takes, Is, RoundAt
<1>2. rounds'[a][e] = WithBet(round, direction, amount)
  BY DEF Takes
<1> HIDE DEF round
<1>3. PICK up \in Nat, down \in Nat, total \in Nat :
        /\ up = round.up_amount + (IF direction = "Up" THEN amount ELSE 0)
        /\ down = round.down_amount + (IF direction = "Down" THEN amount ELSE 0)
        /\ total = round.total_amount + amount
  <2>1. /\ round.up_amount \in Nat /\ round.down_amount \in Nat
        /\ round.total_amount \in Nat /\ amount \in Nat
    BY <1>1 DEF Round
  <2>. QED BY <2>1
<1>4. rounds'[a][e] = [round EXCEPT !.up_amount = up, !.down_amount = down,
                                    !.total_amount = total]
  <2>1. /\ round.up_amount \in Nat /\ round.down_amount \in Nat
    BY <1>1 DEF Round
  <2>2. /\ up = IF direction = "Up" THEN round.up_amount + amount
                ELSE round.up_amount
        /\ down = IF direction = "Down" THEN round.down_amount + amount
                  ELSE round.down_amount
    BY <1>3, <2>1
  <2>. QED BY <1>2, <1>3, <2>2 DEF WithBet
<1>5. /\ rounds'[a][e] \in Round /\ rounds'[a][e].status = "Open"
      /\ rounds'[a][e].up_amount = up /\ rounds'[a][e].down_amount = down
      /\ rounds'[a][e].total_amount = total
      /\ rounds'[a][e].treasury_fee = round.treasury_fee
  BY <1>1, <1>4 DEF Round
<1>. QED BY <1>1, <1>3, <1>5 DEF round

LEMMA NextTypes ==
  ASSUME TypeOK, NEW a \in Asset, NEW e \in Epoch, Fates(a, e)
  PROVE  /\ rounds'[a][e] \in Round \cup {None}
         /\ bets'[a][e] \in [User -> BetEntry \cup {None}]
<1>1. /\ rounds[a][e] \in Round \cup {None}
      /\ bets[a][e] \in [User -> BetEntry \cup {None}]
  BY DEF TypeOK
<1>2. CASE Moves(a, e)
  <2>1. bets'[a][e] = bets[a][e]
    BY <1>2 DEF Moves, Stays, Opens, Locks, Voids, Resolves, SameBets
  <2>2. rounds'[a][e] \in Round \cup {None}
    BY <1>1, <1>2, FateTerms DEF Moves, Stays
  <2>. QED BY <1>1, <2>1, <2>2
<1>3. ASSUME NEW u \in User, NEW direction \in Direction, NEW amount \in BetAmount,
             Takes(a, e, u, direction, amount)
      PROVE  /\ rounds'[a][e] \in Round
             /\ bets'[a][e] \in [User -> BetEntry \cup {None}]
  <2>1. [direction |-> direction, amount |-> amount, claimed |-> FALSE] \in BetEntry
    BY DEF BetEntry
  <2>2. bets'[a][e] \in [User -> BetEntry \cup {None}]
    BY <1>1, <1>3, <2>1 DEF Takes
  <2>. QED BY <1>3, <2>2, TakesTerms
<1>4. ASSUME NEW u \in User, Pays(a, e, u)
      PROVE  /\ rounds'[a][e] = rounds[a][e]
             /\ bets'[a][e] \in [User -> BetEntry \cup {None}]
  <2>1. /\ bets[a][e][u] \in BetEntry
        /\ bets'[a][e] = [bets[a][e] EXCEPT ![u] =
                            [bets[a][e][u] EXCEPT !.claimed = TRUE]]
    BY <1>1, <1>4 DEF Pays, Unclaimed
  <2>2. [bets[a][e][u] EXCEPT !.claimed = TRUE] \in BetEntry
    BY <2>1 DEF BetEntry
  <2>. QED BY <1>1, <1>4, <2>1, <2>2 DEF Pays
<1>. QED BY <1>1, <1>2, <1>3, <1>4 DEF Fates


LEMMA FinalMeans ==
  ASSUME NEW a, NEW e \in Epoch
  PROVE  Final(a, e) <=> /\ rounds[a][e] # None
                         /\ rounds[a][e].status \in {"Resolved", "Cancelled"}
BY DEF Final, Is, RoundAt

FinalMeaning ==
  \A a \in Asset, e \in Epoch :
    Final(a, e) <=> /\ rounds[a][e] # None
                    /\ rounds[a][e].status \in {"Resolved", "Cancelled"}

LEMMA FinalNow == FinalMeaning
BY FinalMeans DEF FinalMeaning

LEMMA FinalNext == FinalMeaning'
BY FinalNow, PTL

\* A bet that was not made in this step is as it was, or has been claimed.
LEMMA BetTerms ==
  ASSUME TypeOK, NEW a \in Asset, NEW e \in Epoch, Fates(a, e), NEW v \in User
  PROVE  \/ bets'[a][e][v] = bets[a][e][v]
         \/ Pays(a, e, v) /\ bets[a][e][v] # None
         \/ \E direction \in Direction, amount \in BetAmount :
              /\ Takes(a, e, v, direction, amount)
              /\ bets'[a][e][v].claimed = FALSE
<1>1. bets[a][e] \in [User -> BetEntry \cup {None}]
  BY DEF TypeOK
<1>2. CASE Moves(a, e)
  BY <1>2 DEF Moves, Stays, Opens, Locks, Voids, Resolves, SameBets
<1>3. ASSUME NEW u \in User, NEW direction \in Direction, NEW amount \in BetAmount,
             Takes(a, e, u, direction, amount)
      PROVE  \/ bets'[a][e][v] = bets[a][e][v]
             \/ Takes(a, e, v, direction, amount) /\ bets'[a][e][v].claimed = FALSE
  <2> DEFINE entry == [direction |-> direction, amount |-> amount, claimed |-> FALSE]
  <2>1. bets'[a][e] = [bets[a][e] EXCEPT ![u] = entry]
    BY <1>3 DEF Takes
  <2>2. entry.claimed = FALSE
    OBVIOUS
  <2> HIDE DEF entry
  <2>3. CASE v = u
    BY <1>1, <1>3, <2>1, <2>2, <2>3
  <2>4. CASE v # u
    BY <1>1, <2>1, <2>4
  <2>. QED BY <2>3, <2>4
<1>4. ASSUME NEW u \in User, Pays(a, e, u)
      PROVE  \/ bets'[a][e][v] = bets[a][e][v]
             \/ Pays(a, e, v) /\ bets[a][e][v] # None
  <2>1. CASE v = u
    BY <1>4, <2>1 DEF Pays, Unclaimed
  <2>2. CASE v # u
    BY <1>1, <1>4, <2>2 DEF Pays
  <2>. QED BY <2>1, <2>2
<1>. QED BY <1>2, <1>3, <1>4 DEF Fates

LEMMA NextRound ==
  ASSUME TypeOK, NEW a \in Asset, NEW e \in Epoch, RoundInv(a, e), Fates(a, e)
  PROVE  RoundInv(a, e)'
<1> DEFINE round == rounds[a][e]
           next == rounds'[a][e]
<1>1. round \in Round \cup {None} /\ next \in Round \cup {None}
  BY NextTypes DEF TypeOK
<1>2. CASE Stays(a, e)
  <2>1. /\ rounds'[a][e] = rounds[a][e] /\ bets'[a][e] = bets[a][e]
        /\ \A direction \in Direction :
             StakesOn(a, e, direction)' = StakesOn(a, e, direction)
    BY <1>2, SameStakes DEF Stays, SameBets
  <2>2. "Up" \in Direction /\ "Down" \in Direction
    BY DEF Direction
  <2>. QED BY <2>1, <2>2 DEF RoundInv, Exists, Final, Is, RoundAt
<1>3. CASE Opens(a, e)
  <2>1. /\ round = None /\ next = NewRound /\ next # None
        /\ bets'[a][e] = bets[a][e]
    BY <1>3, FateTerms DEF Opens, Exists, SameBets
  <2>2. \A u \in User : bets[a][e][u] = None
    BY <2>1 DEF RoundInv, Exists
  <2>3. ASSUME NEW direction \in Direction PROVE StakesOn(a, e, direction)' = 0
    <3> DEFINE f == [v \in User |-> StakeOn(a, e, v, direction)']
    <3>1. \A v \in 1..NumUsers : f[v] = 0
      BY <2>1, <2>2 DEF StakeOn, User
    <3> HIDE DEF f
    <3>2. Sum(f, NumUsers) = 0
      BY <3>1, SumZero
    <3>. QED BY <3>2 DEF StakesOn, f
  <2>4. StakesOn(a, e, "Up")' = 0 /\ StakesOn(a, e, "Down")' = 0
    BY <2>3 DEF Direction
  <2>5. /\ next.up_amount = 0 /\ next.down_amount = 0 /\ next.total_amount = 0
        /\ next.treasury_fee = 0 /\ next.status = "Open"
    BY <2>1 DEF NewRound
  <2>. QED BY <2>1, <2>2, <2>4, <2>5 DEF RoundInv, Exists
<1>4. CASE Locks(a, e) \/ Voids(a, e) \/ Resolves(a, e)
  <2>1. /\ round \in Round /\ next \in Round
        /\ next.up_amount = round.up_amount
        /\ next.down_amount = round.down_amount
        /\ next.total_amount = round.total_amount
        /\ round.status \in {"Open", "Locked"}
        /\ bets'[a][e] = bets[a][e]
        /\ SameBets(a, e)
    <3>1. SameBets(a, e)
      BY <1>4 DEF Locks, Voids, Resolves
    <3>. QED BY <1>4, <3>1, FateTerms DEF SameBets
  <2>2. \/ next.status \in {"Locked", "Cancelled"}
           /\ next.treasury_fee = round.treasury_fee
        \/ /\ next.status = "Resolved"
           /\ next.up_amount > 0 /\ next.down_amount > 0
           /\ next.treasury_fee = Fee(round)
           /\ next.reward_pool = next.total_amount - next.treasury_fee
    BY <1>4, FateTerms
  <2>3. /\ StakesOn(a, e, "Up")' = StakesOn(a, e, "Up")
        /\ StakesOn(a, e, "Down")' = StakesOn(a, e, "Down")
    BY <2>1, SameStakes DEF Direction
  <2>4. ~Final(a, e)
    BY <2>1, FinalNow DEF FinalMeaning
  <2>5. \A u \in User : bets[a][e][u] # None => ~bets[a][e][u].claimed
    BY <2>4 DEF RoundInv
  <2> HIDE DEF round, next
  <2>6. /\ round.up_amount = StakesOn(a, e, "Up")
        /\ round.down_amount = StakesOn(a, e, "Down")
        /\ round.total_amount = round.up_amount + round.down_amount
        /\ round.treasury_fee = 0
    BY <2>1 DEF RoundInv, Exists, round
  <2>. QED BY <2>1, <2>2, <2>3, <2>5, <2>6 DEF RoundInv, Exists, next
<1>5. ASSUME NEW u \in User, NEW direction \in Direction, NEW amount \in BetAmount,
             Takes(a, e, u, direction, amount)
      PROVE  RoundInv(a, e)'
  <2>1. /\ round \in Round /\ next \in Round
        /\ round.status = "Open" /\ next.status = "Open"
        /\ next.up_amount =
             round.up_amount + (IF direction = "Up" THEN amount ELSE 0)
        /\ next.down_amount =
             round.down_amount + (IF direction = "Down" THEN amount ELSE 0)
        /\ next.total_amount = round.total_amount + amount
        /\ next.treasury_fee = round.treasury_fee
    BY <1>5, TakesTerms
  <2>2. ~Final(a, e)
    BY <2>1, FinalNow DEF FinalMeaning
  <2>3. \A v \in User : bets'[a][e][v] # None => ~bets'[a][e][v].claimed
    <3>1. TAKE v \in User
    <3>2. ~Pays(a, e, v)
      BY <2>2 DEF Pays
    <3>3. bets[a][e][v] # None => ~bets[a][e][v].claimed
      BY <2>2 DEF RoundInv
    <3>. QED BY <3>2, <3>3, BetTerms
  <2>4. /\ StakesOn(a, e, "Up")' =
             StakesOn(a, e, "Up") + (IF direction = "Up" THEN amount ELSE 0)
        /\ StakesOn(a, e, "Down")' =
             StakesOn(a, e, "Down") + (IF direction = "Down" THEN amount ELSE 0)
    <3>1. /\ round.up_amount = StakesOn(a, e, "Up")
          /\ round.down_amount = StakesOn(a, e, "Down")
          /\ round.up_amount \in Nat /\ round.down_amount \in Nat
      BY <2>1 DEF RoundInv, Exists, Round
    <3>2. direction = "Up" \/ direction = "Down"
      BY DEF Direction
    <3>3. /\ StakesOn(a, e, direction)' = StakesOn(a, e, direction) + amount
          /\ \A other \in Direction : other # direction =>
               StakesOn(a, e, other)' = StakesOn(a, e, other)
      BY <1>5, StakesGrow
    <3>4. "Up" \in Direction /\ "Down" \in Direction /\ "Up" # "Down"
      BY DEF Direction
    <3> HIDE DEF round
    <3>. QED BY <3>1, <3>2, <3>3, <3>4
  <2>5. /\ round.up_amount = StakesOn(a, e, "Up")
        /\ round.down_amount = StakesOn(a, e, "Down")
        /\ round.total_amount = round.up_amount + round.down_amount
        /\ round.treasury_fee = 0
        /\ round.up_amount \in Nat /\ round.down_amount \in Nat
    BY <2>1 DEF RoundInv, Exists, Round
  <2> HIDE DEF round, next
  <2>6. next.total_amount = next.up_amount + next.down_amount
    BY <2>1, <2>5 DEF Direction
  <2>. QED BY <2>1, <2>3, <2>4, <2>5, <2>6 DEF RoundInv, Exists, next
<1>6. ASSUME NEW u \in User, Pays(a, e, u) PROVE RoundInv(a, e)'
  <2>1. next = round /\ Final(a, e)
    BY <1>6 DEF Pays
  <2>2. Final(a, e)' /\ next # None
    BY <2>1, FinalNow, FinalNext DEF FinalMeaning
  <2>3. /\ StakesOn(a, e, "Up")' = StakesOn(a, e, "Up")
        /\ StakesOn(a, e, "Down")' = StakesOn(a, e, "Down")
    BY <1>6, SameStakes DEF Direction
  <2>. QED BY <2>1, <2>2, <2>3 DEF RoundInv, Exists
<1>. QED BY <1>2, <1>3, <1>4, <1>5, <1>6 DEF Fates, Moves


-----------------------------------------------------------------------------
(* What a step does to the pots *)

\* Nothing has been claimed from the round.
Untouched(a, e) ==
  \A u \in User : bets[a][e][u] # None => ~bets[a][e][u].claimed

PaidOut(a, e) == Sum([u \in User |-> Paid(a, e, u)], NumUsers)

LEMMA UntouchedPot ==
  ASSUME NEW a, NEW e, Untouched(a, e) PROVE PaidOut(a, e) = 0
<1> DEFINE f == [u \in User |-> Paid(a, e, u)]
<1>1. \A u \in 1..NumUsers : f[u] = 0
  BY DEF Untouched, Paid, Unclaimed, User
<1> HIDE DEF f
<1>. QED BY <1>1, SumZero DEF PaidOut, f

UntouchedPots ==
  \A a \in Asset, e \in Epoch : Untouched(a, e) => PaidOut(a, e) = 0

LEMMA UntouchedNow == UntouchedPots
BY UntouchedPot DEF UntouchedPots

LEMMA UntouchedNext == UntouchedPots'
BY UntouchedNow, PTL

\* Until it is final nothing has been claimed.
LEMMA OpenUntouched ==
  ASSUME NEW a \in Asset, NEW e \in Epoch, RoundInv(a, e), ~Final(a, e)
  PROVE  Untouched(a, e)
BY DEF RoundInv, Untouched

LEMMA PaidNat ==
  ASSUME TypeOK, NEW a \in Asset, NEW e \in Epoch, RoundInv(a, e), NEW u \in User
  PROVE  /\ Paid(a, e, u) \in Nat
         /\ bets[a][e][u] # None => Worth(rounds[a][e], bets[a][e][u]) \in Nat
<1>1. CASE bets[a][e][u] = None
  BY <1>1 DEF Paid
<1>2. CASE bets[a][e][u] # None
  <2>1. bets[a][e][u] \in BetEntry /\ rounds[a][e] \in Round
    BY <1>2 DEF TypeOK, RoundInv, Exists
  <2>2. rounds[a][e].status = "Resolved" =>
          rounds[a][e].up_amount > 0 /\ rounds[a][e].down_amount > 0
    BY <2>1 DEF RoundInv, Exists
  <2>3. Worth(rounds[a][e], bets[a][e][u]) \in Nat
    BY <2>1, <2>2, WorthNat
  <2>. QED BY <2>3 DEF Paid
<1>. QED BY <1>1, <1>2

PaidNumbers ==
  MarketInv => \A a \in Asset, e \in Epoch, u \in User :
    /\ Paid(a, e, u) \in Nat
    /\ bets[a][e][u] # None => Worth(rounds[a][e], bets[a][e][u]) \in Nat

LEMMA PaidNow == PaidNumbers
BY PaidNat DEF PaidNumbers, MarketInv, RoundsInv

LEMMA PaidNext == PaidNumbers'
BY PaidNow, PTL

LEMMA PotInt ==
  ASSUME MarketInv, NEW a \in Asset, NEW e \in Epoch
  PROVE  PaidOut(a, e) \in Int /\ Pot(a, e) \in Int
<1> DEFINE f == [u \in User |-> Paid(a, e, u)]
<1>1. \A u \in 1..NumUsers : f[u] \in Int
  BY PaidNow DEF PaidNumbers, User
<1> HIDE DEF f
<1>2. PaidOut(a, e) \in Int
  BY <1>1, SumInt DEF PaidOut, f
<1>3. CASE rounds[a][e] = None
  BY <1>2, <1>3 DEF Pot
<1>4. CASE rounds[a][e] # None
  <2>1. rounds[a][e] \in Round
    BY <1>4 DEF MarketInv, TypeOK
  <2>2. rounds[a][e].total_amount \in Int /\ rounds[a][e].treasury_fee \in Int
    BY <2>1 DEF Round
  <2>3. Pot(a, e) = rounds[a][e].total_amount - rounds[a][e].treasury_fee
                      - PaidOut(a, e)
    BY <1>4 DEF Pot, PaidOut
  <2>. QED BY <1>2, <2>2, <2>3
<1>. QED BY <1>2, <1>3, <1>4

PotNumbers ==
  MarketInv => \A a \in Asset, e \in Epoch :
    PaidOut(a, e) \in Int /\ Pot(a, e) \in Int

LEMMA PotNow == PotNumbers
BY PotInt DEF PotNumbers

LEMMA PotNext == PotNumbers'
BY PotNow, PTL

PotMeaning ==
  \A a \in Asset, e \in Epoch :
    Pot(a, e) = IF rounds[a][e] = None THEN 0
                ELSE rounds[a][e].total_amount - rounds[a][e].treasury_fee
                       - PaidOut(a, e)

LEMMA PotMeans == PotMeaning
BY DEF PotMeaning, Pot, PaidOut

LEMMA PotMeansNext == PotMeaning'
BY PotMeans, PTL

LEMMA PotStays ==
  ASSUME NEW a \in Asset, NEW e \in Epoch, Stays(a, e)
  PROVE  Pot(a, e)' = Pot(a, e)
<1>1. rounds'[a][e] = rounds[a][e] /\ bets'[a][e] = bets[a][e]
  BY DEF Stays, SameBets
<1>2. \A u \in User : Paid(a, e, u)' = Paid(a, e, u)
  BY <1>1 DEF Paid, Unclaimed, Worth, Payout, WinningSide, WinningAmount
<1>3. [u \in User |-> Paid(a, e, u)'] = [u \in User |-> Paid(a, e, u)]
  BY <1>2
<1>. QED BY <1>1, <1>3 DEF Pot

\* execute_round takes nothing out of a round but its fee.
LEMMA PotMoves ==
  ASSUME MarketInv, NEW a \in Asset, NEW e \in Epoch, Moves(a, e)
  PROVE  /\ Pot(a, e)' = Pot(a, e) - FeeTaken(rounds[a][e], rounds'[a][e])
         /\ FeeTaken(rounds[a][e], rounds'[a][e]) \in Nat
<1> USE DEF MarketInv
<1>1. Pot(a, e) \in Int
  BY PotInt
<1>2. CASE Stays(a, e)
  <2>1. FeeTaken(rounds[a][e], rounds'[a][e]) = 0
    <3>1. CASE rounds[a][e] = None
      BY <3>1 DEF FeeTaken
    <3>2. CASE rounds[a][e] # None
      <4>1. rounds[a][e] \in Round /\ rounds'[a][e] = rounds[a][e]
        BY <1>2, <3>2 DEF TypeOK, Stays
      <4>2. rounds[a][e].treasury_fee \in Nat
        BY <4>1 DEF Round
      <4>. QED BY <3>2, <4>1, <4>2 DEF FeeTaken
    <3>. QED BY <3>1, <3>2
  <2>. QED BY <1>1, <1>2, <2>1, PotStays
<1>3. CASE Opens(a, e)
  <2>1. /\ rounds[a][e] = None /\ rounds'[a][e] = NewRound
        /\ bets'[a][e] = bets[a][e] /\ rounds'[a][e] # None
    BY <1>3, FateTerms DEF Opens, Exists, SameBets
  <2>2. Untouched(a, e)'
    BY <2>1 DEF Untouched, RoundsInv, RoundInv, Exists
  <2>3. PaidOut(a, e)' = 0
    BY <2>2, UntouchedNext DEF UntouchedPots
  <2>4. Pot(a, e) = 0 /\ Pot(a, e)' = 0
    <3>1. /\ rounds'[a][e].total_amount = 0 /\ rounds'[a][e].treasury_fee = 0
      BY <2>1 DEF NewRound
    <3>2. Pot(a, e)' = rounds'[a][e].total_amount - rounds'[a][e].treasury_fee
                         - PaidOut(a, e)'
      BY <2>1, PotMeansNext DEF PotMeaning
    <3>. QED BY <2>1, <2>3, <3>1, <3>2, PotMeans DEF PotMeaning
  <2>. QED BY <2>1, <2>4 DEF FeeTaken
<1>4. CASE Locks(a, e) \/ Voids(a, e) \/ Resolves(a, e)
  <2>1. /\ rounds[a][e] \in Round /\ rounds'[a][e] \in Round
        /\ rounds'[a][e].total_amount = rounds[a][e].total_amount
        /\ rounds[a][e].status \in {"Open", "Locked"}
        /\ \/ rounds'[a][e].treasury_fee = rounds[a][e].treasury_fee
           \/ rounds'[a][e].treasury_fee \in Nat
      BY <1>4, FateTerms
  <2>2. SameBets(a, e)
    BY <1>4 DEF Locks, Voids, Resolves
  <2>3. ~Final(a, e) /\ RoundInv(a, e)
    BY <2>1, FinalNow DEF FinalMeaning, RoundsInv
  <2>4. Untouched(a, e) /\ Untouched(a, e)'
    BY <2>2, <2>3, OpenUntouched DEF Untouched, SameBets
  <2>5. PaidOut(a, e) = 0 /\ PaidOut(a, e)' = 0
    BY <2>4, UntouchedNow, UntouchedNext DEF UntouchedPots
  <2>6. rounds[a][e].treasury_fee = 0
    BY <2>1, <2>3 DEF RoundInv, Exists
  <2>7. rounds[a][e].total_amount \in Nat /\ rounds'[a][e].treasury_fee \in Nat
    BY <2>1 DEF Round
  <2>8. Pot(a, e) = rounds[a][e].total_amount - 0 - 0
    BY <2>1, <2>5, <2>6, PotMeans DEF PotMeaning
  <2>9. Pot(a, e)' = rounds'[a][e].total_amount - rounds'[a][e].treasury_fee - 0
    BY <2>1, <2>5, PotMeansNext DEF PotMeaning
  <2>10. FeeTaken(rounds[a][e], rounds'[a][e]) = rounds'[a][e].treasury_fee
    BY <2>1, <2>6, <2>7 DEF FeeTaken
  <2>. QED BY <2>1, <2>7, <2>8, <2>9, <2>10
<1>. QED BY <1>2, <1>3, <1>4 DEF Moves

\* Only a settlement takes a fee, and setting up an asset is none.
LEMMA GenesisTakesNoFee ==
  ASSUME MarketInv, NEW a \in Asset, NEW e \in Epoch, Moves(a, e),
         GenesisStart(a) \/ GenesisLock(a)
  PROVE  FeeTaken(rounds[a][e], rounds'[a][e]) = 0
<1> USE DEF MarketInv
<1>1. ~Resolves(a, e)
  <2>1. CASE GenesisStart(a)
    BY <2>1 DEF GenesisStart, SetupInv, Resolves, Is, RoundAt
  <2>2. CASE GenesisLock(a) /\ Resolves(a, e)
    <3>1. /\ e \in Nat /\ CurrentEpoch \in Nat /\ e + 1 <= CurrentEpoch
      BY <2>2, EpochFacts DEF Resolves, TypeOK, Epoch
    <3>2. e # CurrentEpoch /\ e # CurrentEpoch + 1
      BY <3>1
    <3>3. rounds'[a][e] = rounds[a][e]
      <4>1. PICK lock, open :
              rounds' = [rounds EXCEPT ![a] =
                [rounds[a] EXCEPT ![CurrentEpoch] = lock,
                                  ![CurrentEpoch + 1] = open]]
        BY <2>2 DEF GenesisLock
      <4>. QED BY <3>2, <4>1 DEF TypeOK
    <3>4. rounds[a][e].status = "Locked" /\ rounds'[a][e].status = "Resolved"
      BY <2>2, FateTerms
    <3>. QED BY <3>3, <3>4
  <2>. QED BY <2>1, <2>2
<1>2. CASE rounds[a][e] = None
  BY <1>2 DEF FeeTaken
<1>3. CASE rounds[a][e] # None
  <2>1. rounds[a][e] \in Round
    BY <1>3 DEF TypeOK
  <2>2. ~Opens(a, e)
    BY <1>3 DEF Opens, Exists
  <2>3. rounds'[a][e].treasury_fee = rounds[a][e].treasury_fee
    BY <1>1, <2>2, FateTerms DEF Moves, Stays
  <2>4. rounds[a][e].treasury_fee \in Nat
    BY <2>1 DEF Round
  <2>. QED BY <1>3, <2>3, <2>4 DEF FeeTaken
<1>. QED BY <1>2, <1>3

LEMMA PotTakes ==
  ASSUME MarketInv, NEW a \in Asset, NEW e \in Epoch, RoundInv(a, e)',
         NEW u \in User, NEW direction \in Direction, NEW amount \in BetAmount,
         Takes(a, e, u, direction, amount)
  PROVE  Pot(a, e)' = Pot(a, e) + amount
<1>1. /\ rounds[a][e] \in Round /\ rounds'[a][e] \in Round
      /\ rounds[a][e].status = "Open" /\ rounds'[a][e].status = "Open"
      /\ rounds'[a][e].total_amount = rounds[a][e].total_amount + amount
      /\ rounds'[a][e].treasury_fee = rounds[a][e].treasury_fee
  BY TakesTerms DEF MarketInv
<1>2. ~Final(a, e) /\ ~Final(a, e)'
  BY <1>1, FinalNow, FinalNext DEF FinalMeaning
<1>3. Untouched(a, e) /\ Untouched(a, e)'
  <2>1. RoundInv(a, e)
    BY DEF MarketInv, RoundsInv
  <2>. QED BY <1>2, <2>1 DEF RoundInv, Untouched
<1>4. PaidOut(a, e) = 0 /\ PaidOut(a, e)' = 0
  BY <1>3, UntouchedNow, UntouchedNext DEF UntouchedPots
<1>5. /\ rounds[a][e].total_amount \in Nat /\ rounds[a][e].treasury_fee \in Nat
      /\ amount \in Nat
  BY <1>1 DEF Round
<1>6. Pot(a, e) = rounds[a][e].total_amount - rounds[a][e].treasury_fee - 0
  BY <1>1, <1>4, PotMeans DEF PotMeaning
<1>7. Pot(a, e)' = rounds'[a][e].total_amount - rounds'[a][e].treasury_fee - 0
  BY <1>1, <1>4, PotMeansNext DEF PotMeaning
<1>. QED BY <1>1, <1>5, <1>6, <1>7

LEMMA PotPays ==
  ASSUME MarketInv, NEW a \in Asset, NEW e \in Epoch, NEW u \in User, Pays(a, e, u)
  PROVE  /\ Pot(a, e)' = Pot(a, e) - Worth(rounds[a][e], bets[a][e][u])
         /\ Worth(rounds[a][e], bets[a][e][u]) \in Nat
<1> DEFINE f == [v \in User |-> Paid(a, e, v)]
           g == [v \in User |-> Paid(a, e, v)']
           worth == Worth(rounds[a][e], bets[a][e][u])
<1>1. /\ bets[a][e] \in [User -> BetEntry \cup {None}]
      /\ rounds'[a][e] = rounds[a][e] /\ bets[a][e][u] # None
      /\ ~bets[a][e][u].claimed
      /\ bets'[a][e] = [bets[a][e] EXCEPT ![u].claimed = TRUE]
  BY DEF MarketInv, TypeOK, Pays, Unclaimed
<1>2. /\ bets[a][e][u] \in BetEntry /\ bets'[a][e][u] \in BetEntry
      /\ bets'[a][e][u].claimed
      /\ bets'[a][e][u].amount = bets[a][e][u].amount
      /\ bets'[a][e][u].direction = bets[a][e][u].direction
  <2>1. bets[a][e][u] \in BetEntry
        /\ bets'[a][e][u] = [bets[a][e][u] EXCEPT !.claimed = TRUE]
    BY <1>1
  <2>. QED BY <2>1 DEF BetEntry
<1>3. worth \in Nat
  BY <1>1, PaidNow DEF PaidNumbers
<1>4. f[u] = 0
  BY <1>1 DEF Paid, Unclaimed
<1>5. g[u] = worth
  <2>1. Worth(rounds[a][e], bets[a][e][u])' = worth
    BY <1>1, <1>2 DEF Worth, Payout, WinningSide, WinningAmount
  <2>. QED BY <1>2, <2>1 DEF Paid, Unclaimed
<1>6. ASSUME NEW v \in 1..NumUsers, v # u PROVE g[v] = f[v]
  <2>1. bets'[a][e][v] = bets[a][e][v] /\ v \in User
    BY <1>1, <1>6 DEF User
  <2>. QED BY <1>1, <2>1
           DEF Paid, Unclaimed, Worth, Payout, WinningSide, WinningAmount
<1>7. \A v \in 1..NumUsers : f[v] \in Int
  BY PaidNow DEF PaidNumbers, User
<1>8. u \in 1..NumUsers
  BY DEF User
<1>9. PaidOut(a, e) = Sum(f, NumUsers) /\ PaidOut(a, e)' = Sum(g, NumUsers)
  BY DEF PaidOut
<1> HIDE DEF f, g, worth
<1>10. \A v \in 1..NumUsers : f[v] \in Int /\ g[v] \in Int
  BY <1>3, <1>5, <1>6, <1>7
<1>11. Sum(g, NumUsers) = Sum(f, NumUsers) - f[u] + g[u]
  BY <1>6, <1>8, <1>10, SumChange
<1>12. Sum(f, NumUsers) \in Int
  BY <1>7, SumInt
<1>13. /\ rounds[a][e] # None
       /\ rounds[a][e].total_amount \in Int /\ rounds[a][e].treasury_fee \in Int
  <2>1. rounds[a][e] \in Round
    BY <1>1 DEF MarketInv, TypeOK, RoundsInv, RoundInv, Exists
  <2>. QED BY <2>1 DEF Round
<1>14. /\ Pot(a, e) = rounds[a][e].total_amount - rounds[a][e].treasury_fee
                        - Sum(f, NumUsers)
       /\ Pot(a, e)' = rounds[a][e].total_amount - rounds[a][e].treasury_fee
                         - Sum(g, NumUsers)
  BY <1>1, <1>9, <1>13, PotMeans, PotMeansNext DEF PotMeaning
<1>15. Pot(a, e)' = Pot(a, e) - worth
  BY <1>3, <1>4, <1>5, <1>11, <1>12, <1>13, <1>14
<1>. QED BY <1>3, <1>15 DEF worth


-----------------------------------------------------------------------------
(* Type correctness *)

\* The storage keeps its shape.
LEMMA NextShapes ==
  ASSUME TypeOK, [Next]_vars
  PROVE  /\ rounds' = [a \in Asset |-> [e \in Epoch |-> rounds'[a][e]]]
         /\ bets' = [a \in Asset |-> [e \in Epoch |-> bets'[a][e]]]
<1>1. /\ rounds = [a \in Asset |-> [e \in Epoch |-> rounds[a][e]]]
      /\ bets = [a \in Asset |-> [e \in Epoch |-> bets[a][e]]]
  BY DEF TypeOK
<1>2. CASE Quiet \/ ClaimTreasury
  BY <1>1, <1>2, QuietKeeps DEF ClaimTreasury, entries
<1>3. \A a \in Asset : rounds[a] \in [Epoch -> Round \cup {None}]
  BY DEF TypeOK
<1>4. ASSUME NEW a \in Asset, GenesisStart(a) \/ GenesisLock(a) \/ ExecuteRound(a)
      PROVE  /\ rounds' = [b \in Asset |-> [e \in Epoch |-> rounds'[b][e]]]
             /\ bets' = bets
  <2>1. bets' = bets
    BY <1>4 DEF GenesisStart, GenesisLock, ExecuteRound
  <2>2. PICK own : /\ rounds' = [rounds EXCEPT ![a] = own]
                   /\ own = [e \in Epoch |-> own[e]]
    <3>1. CASE GenesisStart(a)
      <4> DEFINE after == [rounds[a] EXCEPT ![CurrentEpoch + 1] = NewRound]
      <4>1. rounds' = [rounds EXCEPT ![a] = after]
        BY <3>1 DEF GenesisStart
      <4>2. after = [e \in Epoch |-> after[e]]
        BY <1>3
      <4>. QED BY <4>1, <4>2
    <3>2. CASE GenesisLock(a)
      <4>1. PICK lock, open :
              rounds' = [rounds EXCEPT ![a] =
                [rounds[a] EXCEPT ![CurrentEpoch] = lock,
                                  ![CurrentEpoch + 1] = open]]
        BY <3>2 DEF GenesisLock
      <4> DEFINE after == [rounds[a] EXCEPT ![CurrentEpoch] = lock,
                                            ![CurrentEpoch + 1] = open]
      <4>2. after = [e \in Epoch |-> after[e]]
        BY <1>3
      <4>. QED BY <4>1, <4>2
    <3>3. CASE ExecuteRound(a)
      <4>1. rounds' = [rounds EXCEPT ![a] = Executed(a)]
        BY <3>3 DEF ExecuteRound
      <4>2. Executed(a) = [e \in Epoch |-> Executed(a)[e]]
        BY DEF Executed
      <4>. QED BY <4>1, <4>2
    <3>. QED BY <1>4, <3>1, <3>2, <3>3
  <2>. QED BY <1>1, <2>1, <2>2
<1>5. ASSUME NEW u \in User, NEW a \in Asset, NEW e \in Epoch,
             NEW direction \in Direction, NEW amount \in BetAmount,
             Bet(u, a, e, direction, amount)
      PROVE  /\ rounds' = [b \in Asset |-> [f \in Epoch |-> rounds'[b][f]]]
             /\ bets' = [b \in Asset |-> [f \in Epoch |-> bets'[b][f]]]
  BY <1>1, <1>5 DEF Bet
<1>6. ASSUME NEW u \in User, NEW a \in Asset, NEW paid \in SUBSET Epoch,
             Paying(u, a, paid)
      PROVE  /\ rounds' = rounds
             /\ bets' = [b \in Asset |-> [e \in Epoch |-> bets'[b][e]]]
  BY <1>1, <1>6 DEF Paying, PayOut
<1>. QED BY <1>1, <1>2, <1>4, <1>5, <1>6, Steps

LEMMA NextTables ==
  ASSUME TypeOK, SetupInv, [Next]_vars
  PROVE  /\ rounds' \in [Asset -> [Epoch -> Round \cup {None}]]
         /\ bets' \in [Asset -> [Epoch -> [User -> BetEntry \cup {None}]]]
<1>1. \A a \in Asset, e \in Epoch :
        /\ rounds'[a][e] \in Round \cup {None}
        /\ bets'[a][e] \in [User -> BetEntry \cup {None}]
  BY NextFates, NextTypes
<1>. QED BY <1>1, NextShapes

LEMMA PushType ==
  ASSUME NEW buf \in Seq(Epoch), NEW e \in Epoch PROVE Push(buf, e) \in Seq(Epoch)
<1>1. CASE Len(buf) >= UserEpochsCap
  <2>1. buf # <<>>
    BY <1>1
  <2>2. Tail(buf) \in Seq(Epoch)
    BY <2>1
  <2>. QED BY <2>2 DEF Push
<1>2. CASE ~(Len(buf) >= UserEpochsCap)
  BY <1>2 DEF Push
<1>. QED BY <1>1, <1>2

\* What execute_round adds to the treasury, and what a payment takes.
FeesOf(a) ==
  Sum([e \in Epoch |-> FeeTaken(rounds[a][e], Executed(a)[e])], LastEpoch)

Payments(u, a, paid) ==
  Sum([e \in Epoch |-> IF e \in paid
         THEN Worth(rounds[a][e], bets[a][e][u]) ELSE 0], LastEpoch)

LEMMA LastEpochNat == LastEpoch \in Nat
<1>1. MaxTime \div Interval \in Nat
  BY DivisionFacts
<1>. QED BY <1>1 DEF LastEpoch

LEMMA FeesNat ==
  ASSUME MarketInv, NEW a \in Asset, ExecuteRound(a)
  PROVE  /\ FeesOf(a) \in Nat /\ treasury' = treasury + FeesOf(a)
         /\ FeesOf(a) = Sum([e \in Epoch |->
                              FeeTaken(rounds[a][e], rounds'[a][e])], LastEpoch)
<1> DEFINE f == [e \in Epoch |-> FeeTaken(rounds[a][e], Executed(a)[e])]
           g == [e \in Epoch |-> FeeTaken(rounds[a][e], rounds'[a][e])]
<1>1. rounds'[a] = Executed(a)
  BY DEF ExecuteRound, MarketInv, TypeOK
<1>2. \A e \in Epoch : f[e] = g[e] /\ f[e] \in Nat
  <2>1. \A e \in Epoch : Moves(a, e)
    BY ExecuteFates DEF MarketInv
  <2>. QED BY <1>1, <2>1, PotMoves
<1>3. f = g
  BY <1>2
<1>4. \A e \in 1..LastEpoch : f[e] \in Nat
  BY <1>2 DEF Epoch
<1>5. treasury' = treasury + Sum(f, LastEpoch)
  BY DEF ExecuteRound
<1>6. FeesOf(a) = Sum(f, LastEpoch)
  BY DEF FeesOf
<1> HIDE DEF f
<1>7. Sum(f, LastEpoch) \in Nat
  BY <1>4, LastEpochNat, SumNat
<1>. QED BY <1>3, <1>5, <1>6, <1>7

LEMMA PaymentsNat ==
  ASSUME MarketInv, NEW u \in User, NEW a \in Asset, NEW paid \in SUBSET Epoch,
         Paying(u, a, paid)
  PROVE  /\ Payments(u, a, paid) \in Nat
         /\ vault >= Payments(u, a, paid)
         /\ vault' = vault - Payments(u, a, paid)
<1> DEFINE f == [e \in Epoch |-> IF e \in paid
                   THEN Worth(rounds[a][e], bets[a][e][u]) ELSE 0]
<1>1. \A e \in 1..LastEpoch : f[e] \in Nat
  <2>1. \A e \in paid : bets[a][e][u] # None
    BY DEF Paying, Unclaimed
  <2>. QED BY <2>1, PaidNow DEF PaidNumbers, Epoch
<1>2. vault >= Sum(f, LastEpoch) /\ vault' = vault - Sum(f, LastEpoch)
  BY DEF Paying, PayOut
<1>3. Payments(u, a, paid) = Sum(f, LastEpoch)
  BY DEF Payments
<1> HIDE DEF f
<1>. QED BY <1>1, <1>2, <1>3, LastEpochNat, SumNat

LEMMA NextMoney ==
  ASSUME MarketInv, [Next]_vars PROVE treasury' \in Nat /\ vault' \in Nat
<1>1. treasury \in Nat /\ vault \in Nat
  BY DEF MarketInv, TypeOK
<1>2. CASE Quiet
  BY <1>1, <1>2, QuietKeeps DEF money
<1>3. CASE ClaimTreasury
  BY <1>1, <1>3 DEF ClaimTreasury
<1>4. ASSUME NEW a \in Asset, GenesisStart(a) \/ GenesisLock(a)
      PROVE  treasury' \in Nat /\ vault' \in Nat
  BY <1>1, <1>4 DEF GenesisStart, GenesisLock, money
<1>5. ASSUME NEW a \in Asset, ExecuteRound(a)
      PROVE  treasury' \in Nat /\ vault' \in Nat
  <2>1. FeesOf(a) \in Nat /\ treasury' = treasury + FeesOf(a)
    BY <1>5, FeesNat
  <2>. QED BY <1>1, <1>5, <2>1 DEF ExecuteRound
<1>6. ASSUME NEW u \in User, NEW a \in Asset, NEW e \in Epoch,
             NEW direction \in Direction, NEW amount \in BetAmount,
             Bet(u, a, e, direction, amount)
      PROVE  treasury' \in Nat /\ vault' \in Nat
  BY <1>1, <1>6 DEF Bet
<1>7. ASSUME NEW u \in User, NEW a \in Asset, NEW paid \in SUBSET Epoch,
             Paying(u, a, paid)
      PROVE  treasury' \in Nat /\ vault' \in Nat
  <2>1. treasury' = treasury
    BY <1>7 DEF Paying, PayOut
  <2>. QED BY <1>1, <1>7, <2>1, PaymentsNat
<1>. QED BY <1>2, <1>3, <1>4, <1>5, <1>6, <1>7, Steps

LEMMA ConfigTypes ==
  ASSUME TypeOK, Quiet
  PROVE  config' \in Config \cup {None} /\ (config # None => config' # None)
<1>1. CASE \E fee \in FeeBps, minBet \in MinBet : Initialize(fee, minBet)
  <2>1. config' \in Config
    BY <1>1 DEF Initialize, Config
  <2>. QED BY <2>1
<1>2. CASE Pause \/ Unpause
  <2>1. config \in Config
    BY <1>2 DEF Pause, Unpause, TypeOK
  <2>2. PICK paused \in BOOLEAN : config' = [config EXCEPT !.paused = paused]
    BY <1>2 DEF Pause, Unpause
  <2>3. config' \in Config
    BY <2>1, <2>2 DEF Config
  <2>. QED BY <2>3
<1>3. ASSUME NEW fee \in FeeBps \cup {None}, NEW minBet \in MinBet \cup {None},
             NEW tolerance \in Tolerance \cup {None},
             NEW tieRefund \in TieRefund \cup {None},
             SetConfig(fee, minBet, tolerance, tieRefund)
      PROVE  config' \in Config
  <2>1. config \in Config
    BY <1>3 DEF SetConfig, TypeOK
  <2>2. PICK f \in FeeBps, m \in MinBet, t \in Nat, r \in BOOLEAN :
          config' = [config EXCEPT !.fee_bps = f, !.min_bet = m,
                                   !.tolerance = t, !.tie_refund = r]
    <3>1. /\ Given(fee, config.fee_bps) \in FeeBps
          /\ Given(minBet, config.min_bet) \in MinBet
          /\ Given(tolerance, config.tolerance) \in Nat
          /\ Given(tieRefund, config.tie_refund) \in BOOLEAN
      BY <2>1 DEF Given, Config
    <3>. QED BY <1>3, <3>1 DEF SetConfig
  <2>. QED BY <2>1, <2>2 DEF Config
<1>4. CASE \/ AdvanceTime
           \/ \E a \in Asset, tick \in Tick, price \in Price :
                LateTick(a, tick, price)
           \/ UNCHANGED vars
  BY <1>4 DEF AdvanceTime, LateTick, vars, TypeOK
<1>. QED BY <1>1, <1>2, <1>3, <1>4 DEF Quiet

LEMMA FeedTypes ==
  ASSUME TypeOK, Quiet
  PROVE  now' \in Time /\ feed' \in [Asset -> [Time -> Price \cup {None}]]
<1>1. now \in Time /\ feed \in [Asset -> [Time -> Price \cup {None}]]
  BY DEF TypeOK
<1>2. CASE AdvanceTime
  <2>1. now' \in Time
    BY <1>1, <1>2 DEF AdvanceTime, Time
  <2>2. PICK p \in [Asset -> Price \cup {None}] :
          feed' = IF now' \in Tick
                  THEN [a \in Asset |-> [feed[a] EXCEPT ![now'] = p[a]]] ELSE feed
    BY <1>2 DEF AdvanceTime
  <2>. QED BY <1>1, <2>1, <2>2
<1>3. ASSUME NEW a \in Asset, NEW tick \in Tick, NEW price \in Price,
             LateTick(a, tick, price)
      PROVE  now' = now /\ feed' \in [Asset -> [Time -> Price \cup {None}]]
  BY <1>1, <1>3 DEF LateTick, Tick
<1>. QED BY <1>1, <1>2, <1>3
         DEF Quiet, Initialize, Pause, Unpause, SetConfig, vars, environment

\* The calls about rounds and money need a market that is set up.
LEMMA CallFrames ==
  ASSUME [Next]_vars
  PROVE  Quiet \/ (config # None /\ config' = config /\ now' = now /\ feed' = feed)
<1>1. CASE ClaimTreasury
  BY <1>1 DEF ClaimTreasury, environment
<1>2. ASSUME NEW a \in Asset, GenesisStart(a) \/ GenesisLock(a) \/ ExecuteRound(a)
      PROVE  config # None /\ config' = config /\ now' = now /\ feed' = feed
  BY <1>2 DEF GenesisStart, GenesisLock, ExecuteRound, environment
<1>3. ASSUME NEW u \in User, NEW a \in Asset, NEW e \in Epoch,
             NEW direction \in Direction, NEW amount \in BetAmount,
             Bet(u, a, e, direction, amount)
      PROVE  config # None /\ config' = config /\ now' = now /\ feed' = feed
  BY <1>3 DEF Bet, environment
<1>4. ASSUME NEW u \in User, NEW a \in Asset, NEW paid \in SUBSET Epoch,
             Paying(u, a, paid)
      PROVE  config # None /\ config' = config /\ now' = now /\ feed' = feed
  BY <1>4 DEF Paying, PayOut, environment
<1>. QED BY <1>1, <1>2, <1>3, <1>4, Steps

LEMMA GenesisSteps ==
  ASSUME TypeOK, [Next]_vars, NEW a \in Asset
  PROVE  \/ genesis'[a] = genesis[a]
         \/ GenesisStart(a) /\ genesis'[a] = "Started"
         \/ GenesisLock(a) /\ genesis'[a] = "Running"
<1>1. genesis \in [Asset -> {"None", "Started", "Running"}]
  BY DEF TypeOK
<1>2. CASE Quiet \/ ClaimTreasury
  BY <1>2, QuietKeeps DEF ClaimTreasury
<1>3. ASSUME NEW b \in Asset, GenesisStart(b) \/ GenesisLock(b) \/ ExecuteRound(b)
      PROVE  \/ genesis'[a] = genesis[a]
             \/ GenesisStart(a) /\ genesis'[a] = "Started"
             \/ GenesisLock(a) /\ genesis'[a] = "Running"
  BY <1>1, <1>3 DEF GenesisStart, GenesisLock, ExecuteRound
<1>4. ASSUME NEW u \in User, NEW b \in Asset, NEW e \in Epoch,
             NEW direction \in Direction, NEW amount \in BetAmount,
             Bet(u, b, e, direction, amount)
      PROVE  genesis' = genesis
  BY <1>4 DEF Bet
<1>5. ASSUME NEW u \in User, NEW b \in Asset, NEW paid \in SUBSET Epoch,
             Paying(u, b, paid)
      PROVE  genesis' = genesis
  BY <1>5 DEF Paying, PayOut
<1>. QED BY <1>2, <1>3, <1>4, <1>5, Steps

LEMMA GenesisShape ==
  ASSUME TypeOK, [Next]_vars PROVE genesis' = [a \in Asset |-> genesis'[a]]
<1>1. genesis = [a \in Asset |-> genesis[a]]
  BY DEF TypeOK
<1>2. CASE Quiet \/ ClaimTreasury
  BY <1>1, <1>2, QuietKeeps DEF ClaimTreasury
<1>3. ASSUME NEW b \in Asset, GenesisStart(b) \/ GenesisLock(b) \/ ExecuteRound(b)
      PROVE  genesis' = [a \in Asset |-> genesis'[a]]
  BY <1>1, <1>3 DEF GenesisStart, GenesisLock, ExecuteRound
<1>4. ASSUME NEW u \in User, NEW b \in Asset, NEW e \in Epoch,
             NEW direction \in Direction, NEW amount \in BetAmount,
             Bet(u, b, e, direction, amount)
      PROVE  genesis' = genesis
  BY <1>4 DEF Bet
<1>5. ASSUME NEW u \in User, NEW b \in Asset, NEW paid \in SUBSET Epoch,
             Paying(u, b, paid)
      PROVE  genesis' = genesis
  BY <1>5 DEF Paying, PayOut
<1>. QED BY <1>1, <1>2, <1>3, <1>4, <1>5, Steps

\* Rounds of an asset come with its genesis.
LEMMA NextSetup ==
  ASSUME TypeOK, SetupInv, [Next]_vars PROVE SetupInv'
<1>1. ASSUME NEW a \in Asset, config' = None PROVE genesis'[a] = "None"
  <2>1. Quiet /\ config = None
    BY <1>1, CallFrames, ConfigTypes
  <2>2. genesis' = genesis
    BY <2>1, QuietKeeps
  <2>. QED BY <2>1, <2>2 DEF SetupInv
<1>2. ASSUME NEW a \in Asset, genesis'[a] = "None", NEW e \in Epoch
      PROVE  rounds'[a][e] = None
  <2>1. genesis[a] = "None" /\ \A f \in Epoch : rounds[a][f] = None
    BY <1>2, GenesisSteps DEF SetupInv
  <2>2. ~GenesisStart(a) /\ ~GenesisLock(a) /\ ~ExecuteRound(a)
    <3>1. ~GenesisStart(a)
      BY <1>2 DEF GenesisStart, TypeOK
    <3>. QED BY <2>1, <3>1 DEF GenesisLock, ExecuteRound
  <2>3. CASE Quiet \/ ClaimTreasury
    BY <2>1, <2>3, QuietKeeps DEF ClaimTreasury, entries
  <2>4. ASSUME NEW b \in Asset \ {a}, GenesisStart(b) \/ GenesisLock(b) \/ ExecuteRound(b)
        PROVE  rounds'[a] = rounds[a]
    BY <2>4 DEF GenesisStart, GenesisLock, ExecuteRound, TypeOK
  <2>5. ASSUME NEW u \in User, NEW b \in Asset, NEW f \in Epoch,
               NEW direction \in Direction, NEW amount \in BetAmount,
               Bet(u, b, f, direction, amount)
        PROVE  rounds'[a] = rounds[a]
    <3>1. b # a
      BY <2>1, <2>5 DEF Bet, Is, RoundAt
    <3>. QED BY <2>5, <3>1 DEF Bet, TypeOK
  <2>6. ASSUME NEW u \in User, NEW b \in Asset, NEW paid \in SUBSET Epoch,
               Paying(u, b, paid)
        PROVE  rounds' = rounds
    BY <2>6 DEF Paying, PayOut
  <2>. QED BY <2>1, <2>2, <2>3, <2>4, <2>5, <2>6, Steps
<1>. QED BY <1>1, <1>2 DEF SetupInv

LEMMA NextMarket ==
  ASSUME MarketInv, [Next]_vars PROVE MarketInv'
<1> USE DEF MarketInv
<1>1. TypeOK
  OBVIOUS
<1>2. /\ now' \in Time /\ feed' \in [Asset -> [Time -> Price \cup {None}]]
      /\ config' \in Config \cup {None}
  BY CallFrames, ConfigTypes, FeedTypes DEF TypeOK
<1>3. genesis' \in [Asset -> {"None", "Started", "Running"}]
  <2>1. \A a \in Asset : genesis'[a] \in {"None", "Started", "Running"}
    BY GenesisSteps DEF TypeOK
  <2>. QED BY <2>1, GenesisShape
<1>4. userEpochs' \in [Asset -> [User -> Seq(Epoch)]]
  <2>1. ASSUME NEW u \in User, NEW a \in Asset, NEW e \in Epoch,
               NEW direction \in Direction, NEW amount \in BetAmount,
               Bet(u, a, e, direction, amount)
        PROVE  userEpochs' \in [Asset -> [User -> Seq(Epoch)]]
    <3>1. Push(userEpochs[a][u], e) \in Seq(Epoch)
      BY PushType DEF TypeOK
    <3>. QED BY <2>1, <3>1 DEF Bet, TypeOK
  <2>2. CASE UNCHANGED userEpochs
    BY <2>2 DEF TypeOK
  <2>. QED BY <2>1, <2>2, QuietKeeps, Steps
           DEF ClaimTreasury, GenesisStart, GenesisLock, ExecuteRound, Paying,
               PayOut, entries
<1>5. TypeOK'
  BY <1>2, <1>3, <1>4, NextTables, NextMoney DEF TypeOK
<1>6. SetupInv'
  BY NextSetup
<1>7. RoundsInv'
  <2>1. \A a \in Asset, e \in Epoch : RoundInv(a, e)'
    BY NextFates, NextRound DEF RoundsInv
  <2>2. LastEpoch' = LastEpoch /\ Epoch' = Epoch
    BY DEF Epoch, LastEpoch
  <2>. QED BY <2>1 DEF RoundsInv
<1>. QED BY <1>5, <1>6, <1>7


LEMMA InitMarket == Init => MarketInv
<1> SUFFICES ASSUME Init PROVE MarketInv
  OBVIOUS
<1>1. TypeOK
  BY DEF Init, TypeOK, Time
<1>2. SetupInv
  BY DEF Init, SetupInv
<1>3. RoundsInv
  BY DEF Init, RoundsInv, RoundInv, Exists
<1>. QED BY <1>1, <1>2, <1>3 DEF MarketInv

LEMMA MarketInvariant == Spec => []MarketInv
<1>1. MarketInv /\ [Next]_vars => MarketInv'
  BY NextMarket
<1>. QED BY InitMarket, <1>1, PTL DEF Spec

\* Every storage entry keeps its type under every call.  That no balance, pool or
\* share becomes negative needs that fees are part of the pot and that a round
\* without stakes on both sides is never resolved.
THEOREM TypeCorrect == Spec => []TypeOK
BY MarketInvariant, PTL DEF MarketInv

-----------------------------------------------------------------------------
(* The balance is the treasury and what the rounds hold *)

HeldBy(a) == Sum([e \in Epoch |-> Pot(a, e)], LastEpoch)

Held == Sum([a \in Asset |-> HeldBy(a)], NumAssets)

LEMMA HeldInt ==
  ASSUME MarketInv PROVE Held \in Int /\ \A a \in Asset : HeldBy(a) \in Int
<1>1. ASSUME NEW a \in Asset PROVE HeldBy(a) \in Int
  <2> DEFINE f == [e \in Epoch |-> Pot(a, e)]
  <2>1. \A e \in 1..LastEpoch : f[e] \in Int
    BY PotNow DEF PotNumbers, Epoch
  <2> HIDE DEF f
  <2>. QED BY <2>1, SumInt, LastEpochNat DEF HeldBy, f
<1> DEFINE g == [a \in Asset |-> HeldBy(a)]
<1>2. \A a \in 1..NumAssets : g[a] \in Int
  BY <1>1 DEF Asset
<1> HIDE DEF g
<1>3. Sum(g, NumAssets) \in Int
  BY <1>2, SumInt
<1>. QED BY <1>1, <1>3 DEF Held, g

HeldNumbers == MarketInv => Held \in Int /\ \A a \in Asset : HeldBy(a) \in Int

LEMMA HeldNow == HeldNumbers
BY HeldInt DEF HeldNumbers

LEMMA HeldNext == HeldNumbers'
BY HeldNow, PTL

\* What the pots of one asset give up is missing in what is held.
LEMMA HeldDrops ==
  ASSUME MarketInv, MarketInv', NEW a \in Asset, NEW d,
         \A e \in Epoch : d[e] \in Int /\ Pot(a, e)' = Pot(a, e) - d[e],
         \A b \in Asset \ {a}, e \in Epoch : Pot(b, e)' = Pot(b, e)
  PROVE  Held' = Held - Sum(d, LastEpoch)
<1>1. HeldBy(a)' = HeldBy(a) - Sum(d, LastEpoch)
  <2> DEFINE f == [e \in Epoch |-> Pot(a, e)]
             g == [e \in Epoch |-> Pot(a, e)']
  <2>1. HeldBy(a) = Sum(f, LastEpoch) /\ HeldBy(a)' = Sum(g, LastEpoch)
    BY DEF HeldBy
  <2>2. \A e \in 1..LastEpoch : f[e] \in Int /\ d[e] \in Int /\ g[e] = f[e] - d[e]
    BY PotNow DEF PotNumbers, Epoch
  <2> HIDE DEF f, g
  <2>. QED BY <2>1, <2>2, SumMinus, LastEpochNat
<1>2. \A b \in Asset \ {a} : HeldBy(b)' = HeldBy(b)
  <2>1. TAKE b \in Asset \ {a}
  <2>2. [e \in Epoch |-> Pot(b, e)'] = [e \in Epoch |-> Pot(b, e)]
    OBVIOUS
  <2>. QED BY <2>2 DEF HeldBy
<1> DEFINE f == [b \in Asset |-> HeldBy(b)]
           g == [b \in Asset |-> HeldBy(b)']
<1>3. Held = Sum(f, NumAssets) /\ Held' = Sum(g, NumAssets)
  BY DEF Held
<1>4. \A b \in 1..NumAssets : f[b] \in Int /\ g[b] \in Int
  BY HeldNow, HeldNext DEF HeldNumbers, Asset
<1>5. \A b \in 1..NumAssets : b # a => g[b] = f[b]
  BY <1>2 DEF Asset
<1>6. a \in 1..NumAssets /\ f[a] = HeldBy(a) /\ g[a] = HeldBy(a)'
  BY DEF Asset
<1>7. HeldBy(a) \in Int /\ HeldBy(a)' \in Int
  BY HeldNow, HeldNext DEF HeldNumbers
<1> HIDE DEF f, g
<1>8. Sum(g, NumAssets) = Sum(f, NumAssets) - f[a] + g[a]
  BY <1>4, <1>5, <1>6, SumChange
<1>9. Sum(f, NumAssets) \in Int
  BY <1>4, SumInt
<1>10. Sum(d, LastEpoch) \in Int
  BY SumInt, LastEpochNat DEF Epoch
<1>. QED BY <1>1, <1>3, <1>6, <1>7, <1>8, <1>9, <1>10

LEMMA HeldStays ==
  ASSUME rounds' = rounds, bets' = bets PROVE Held' = Held
<1>1. \A a \in Asset, e \in Epoch : Pot(a, e)' = Pot(a, e)
  BY PotStays DEF Stays, SameBets
<1>2. \A a \in Asset : HeldBy(a)' = HeldBy(a)
  <2>1. TAKE a \in Asset
  <2>2. [e \in Epoch |-> Pot(a, e)'] = [e \in Epoch |-> Pot(a, e)]
    BY <1>1
  <2>. QED BY <2>2 DEF HeldBy
<1>3. [a \in Asset |-> HeldBy(a)'] = [a \in Asset |-> HeldBy(a)]
  BY <1>2
<1>. QED BY <1>3 DEF Held

LEMMA NextConserved ==
  ASSUME MarketInv, MarketInv', vault = treasury + Held, [Next]_vars
  PROVE  vault' = treasury' + Held'
<1> USE DEF MarketInv
<1>1. treasury \in Nat /\ vault \in Nat /\ Held \in Int
  BY HeldNow DEF HeldNumbers, TypeOK
<1>2. CASE Quiet
  BY <1>2, QuietKeeps, HeldStays DEF money
<1>3. CASE ClaimTreasury
  <2>1. Held' = Held /\ vault' = vault - treasury /\ treasury' = 0
    BY <1>3, HeldStays DEF ClaimTreasury, entries
  <2>. QED BY <1>1, <2>1
<1>4. ASSUME NEW a \in Asset, GenesisStart(a) \/ GenesisLock(a) \/ ExecuteRound(a)
      PROVE  vault' = treasury' + Held'
  <2> DEFINE d == [e \in Epoch |-> FeeTaken(rounds[a][e], rounds'[a][e])]
  <2>1. \A e \in Epoch : Moves(a, e)
    BY <1>4, GenesisStartFates, GenesisLockFates, ExecuteFates
  <2>2. \A e \in Epoch : d[e] \in Nat /\ Pot(a, e)' = Pot(a, e) - d[e]
    BY <2>1, PotMoves
  <2>3. \A b \in Asset \ {a}, e \in Epoch : Pot(b, e)' = Pot(b, e)
    <3>1. \A b \in Asset \ {a}, e \in Epoch : Stays(b, e)
      BY <1>4 DEF GenesisStart, GenesisLock, ExecuteRound, TypeOK, Stays, SameBets
    <3>. QED BY <3>1, PotStays
  <2>4. CASE ExecuteRound(a)
    <3>1. /\ treasury' = treasury + Sum(d, LastEpoch) /\ vault' = vault
          /\ Sum(d, LastEpoch) \in Nat
      <4>1. vault' = vault
        BY <2>4 DEF ExecuteRound
      <4>2. /\ FeesOf(a) \in Nat /\ treasury' = treasury + FeesOf(a)
            /\ FeesOf(a) = Sum(d, LastEpoch)
        BY <2>4, FeesNat
      <4> HIDE DEF d
      <4>. QED BY <4>1, <4>2
    <3> HIDE DEF d
    <3>2. Held' = Held - Sum(d, LastEpoch)
      BY <2>2, <2>3, HeldDrops
    <3>. QED BY <1>1, <3>1, <3>2
  <2>5. CASE GenesisStart(a) \/ GenesisLock(a)
    <3>1. treasury' = treasury /\ vault' = vault
      BY <2>5 DEF GenesisStart, GenesisLock, money
    <3>2. \A e \in 1..LastEpoch : d[e] = 0
      <4>1. \A e \in Epoch : FeeTaken(rounds[a][e], rounds'[a][e]) = 0
        BY <2>1, <2>5, GenesisTakesNoFee
      <4>. QED BY <4>1 DEF Epoch
    <3> HIDE DEF d
    <3>3. Sum(d, LastEpoch) = 0
      BY <3>2, SumZero, LastEpochNat
    <3>4. Held' = Held - Sum(d, LastEpoch)
      BY <2>2, <2>3, HeldDrops
    <3>. QED BY <1>1, <3>1, <3>3, <3>4
  <2>. QED BY <1>4, <2>4, <2>5
<1>5. ASSUME NEW u \in User, NEW a \in Asset, NEW e \in Epoch,
             NEW direction \in Direction, NEW amount \in BetAmount,
             Bet(u, a, e, direction, amount)
      PROVE  vault' = treasury' + Held'
  <2> DEFINE d == [f \in Epoch |-> IF f = e THEN -amount ELSE 0]
  <2>1. vault' = vault + amount /\ treasury' = treasury /\ amount \in Nat
    BY <1>5 DEF Bet
  <2>2. Pot(a, e)' = Pot(a, e) + amount /\ Pot(a, e) \in Int
    BY <1>5, BetFates, PotTakes, PotNow DEF PotNumbers, RoundsInv
  <2>3. \A b \in Asset, f \in Epoch : b # a \/ f # e => Pot(b, f)' = Pot(b, f)
    BY <1>5, BetFates, PotStays
  <2>4. \A f \in Epoch : d[f] \in Int /\ Pot(a, f)' = Pot(a, f) - d[f]
    BY <2>1, <2>2, <2>3, PotNow DEF PotNumbers
  <2>5. e \in 1..LastEpoch /\ d[e] = -amount
        /\ \A f \in 1..LastEpoch : f # e => d[f] = 0
    BY DEF Epoch
  <2> HIDE DEF d
  <2>6. Held' = Held - Sum(d, LastEpoch)
    BY <2>3, <2>4, HeldDrops
  <2>7. Sum(d, LastEpoch) = -amount
    BY <2>4, <2>5, SumOne, LastEpochNat
  <2>. QED BY <1>1, <2>1, <2>6, <2>7
<1>6. ASSUME NEW u \in User, NEW a \in Asset, NEW paid \in SUBSET Epoch,
             Paying(u, a, paid)
      PROVE  vault' = treasury' + Held'
  <2> DEFINE d == [e \in Epoch |-> IF e \in paid
                     THEN Worth(rounds[a][e], bets[a][e][u]) ELSE 0]
  <2>1. /\ \A e \in paid : Pays(a, e, u)
        /\ \A e \in Epoch \ paid : Stays(a, e)
        /\ \A b \in Asset \ {a}, e \in Epoch : Stays(b, e)
    BY <1>6, PayOutFates DEF Paying
  <2>2. ASSUME NEW e \in Epoch
        PROVE  d[e] \in Int /\ Pot(a, e)' = Pot(a, e) - d[e]
    <3>1. CASE e \in paid
      BY <2>1, <3>1, PotPays
    <3>2. CASE e \notin paid
      BY <2>1, <3>2, PotStays, PotNow DEF PotNumbers
    <3>. QED BY <3>1, <3>2
  <2>3. \A b \in Asset \ {a}, e \in Epoch : Pot(b, e)' = Pot(b, e)
    BY <2>1, PotStays
  <2>4. vault' = vault - Sum(d, LastEpoch) /\ treasury' = treasury
    BY <1>6 DEF Paying, PayOut
  <2>5. Sum(d, LastEpoch) \in Nat
    BY <1>6, PaymentsNat DEF Payments
  <2> HIDE DEF d
  <2>6. Held' = Held - Sum(d, LastEpoch)
    BY <2>2, <2>3, HeldDrops
  <2>. QED BY <1>1, <2>4, <2>5, <2>6
<1>. QED BY <1>2, <1>3, <1>4, <1>5, <1>6, Steps

LEMMA InitConserved == Init => vault = treasury + Held
<1> SUFFICES ASSUME Init PROVE Held = 0 /\ vault = 0 /\ treasury = 0
  OBVIOUS
<1>1. \A a \in Asset, e \in Epoch : Pot(a, e) = 0
  BY DEF Init, Pot
<1>2. ASSUME NEW a \in Asset PROVE HeldBy(a) = 0
  <2> DEFINE f == [e \in Epoch |-> Pot(a, e)]
  <2>1. \A e \in 1..LastEpoch : f[e] = 0
    BY <1>1 DEF Epoch
  <2> HIDE DEF f
  <2>. QED BY <2>1, SumZero, LastEpochNat DEF HeldBy, f
<1> DEFINE g == [a \in Asset |-> HeldBy(a)]
<1>3. \A a \in 1..NumAssets : g[a] = 0
  BY <1>2 DEF Asset
<1> HIDE DEF g
<1>4. Sum(g, NumAssets) = 0
  BY <1>3, SumZero
<1>5. Held = 0
  BY <1>4 DEF Held, g
<1>. QED BY <1>5 DEF Init

\* claim, refund and claim_treasury draw on one balance.  It is at any time the
\* treasury and what the rounds hold, to the stroop: what leaves, leaves the round
\* it belongs to, and what execute_round credits to the treasury is what the
\* rounds it settles give up.
THEOREM BalanceIsConserved == Spec => []Conserved
<1>1. MarketInv /\ MarketInv' /\ vault = treasury + Held /\ [Next]_vars
        => (vault = treasury + Held)'
  BY NextConserved
<1>2. vault = treasury + Held => Conserved
  BY DEF Conserved, Held, HeldBy
<1>. QED BY InitConserved, MarketInvariant, <1>1, <1>2, PTL DEF Spec

-----------------------------------------------------------------------------
(* Every round is an escrow of its own *)

PhaseOf(a, e) ==
  IF rounds[a][e] = None THEN "none"
  ELSE IF Final(a, e) THEN "decided" ELSE "open"

LEMMA EscrowSets ==
  ASSUME NEW a, NEW e
  PROVE  /\ RoundEscrow(a, e)!Rounds = 1..1 /\ RoundEscrow(a, e)!Users = User
         /\ \A f, n : RoundEscrow(a, e)!Sum(f, n) = Sum(f, n)
BY DEF RoundEscrow!Rounds, RoundEscrow!Users, User, RoundEscrow!Sum, Sum,
       RoundEscrow!Prefix, Prefix

\* What is due on a round, said once for each kind of round.
DueMeaning ==
  \A a \in Asset, e \in Epoch, u \in User :
    Due(a, e, u) =
      IF bets[a][e][u] = None \/ bets[a][e][u].claimed THEN 0
      ELSE IF Final(a, e) THEN Worth(rounds[a][e], bets[a][e][u])
      ELSE bets[a][e][u].amount

LEMMA DueMeans == DueMeaning
BY DEF DueMeaning, Due, Unclaimed

LEMMA DueMeansNext == DueMeaning'
BY DueMeans, PTL

DueNumbers ==
  MarketInv => \A a \in Asset, e \in Epoch, u \in User : Due(a, e, u) \in Nat

LEMMA DueNow == DueNumbers
<1> SUFFICES ASSUME MarketInv, NEW a \in Asset, NEW e \in Epoch, NEW u \in User
             PROVE  Due(a, e, u) \in Nat
  BY DEF DueNumbers
<1>1. bets[a][e][u] # None => bets[a][e][u].amount \in Nat
  BY DEF MarketInv, TypeOK, BetEntry
<1>. QED BY <1>1, DueMeans, PaidNow DEF DueMeaning, PaidNumbers

LEMMA DueNext == DueNumbers'
BY DueNow, PTL

\* Nothing that an escrow sees has changed.
SameRound(a, e) ==
  /\ PhaseOf(a, e)' = PhaseOf(a, e)
  /\ Pot(a, e)' = Pot(a, e)
  /\ \A u \in User : Due(a, e, u)' = Due(a, e, u)

LEMMA SameRoundIsStutter ==
  ASSUME NEW a \in Asset, NEW e \in Epoch, SameRound(a, e)
  PROVE  UNCHANGED RoundEscrow(a, e)!escrowVars
BY DEF SameRound, PhaseOf, RoundEscrow!escrowVars

LEMMA StaysIsStutter ==
  ASSUME NEW a \in Asset, NEW e \in Epoch, Stays(a, e) PROVE SameRound(a, e)
<1>1. rounds'[a][e] = rounds[a][e] /\ bets'[a][e] = bets[a][e]
  BY DEF Stays, SameBets
<1>2. Final(a, e)' <=> Final(a, e)
  BY <1>1, FinalNow, FinalNext DEF FinalMeaning
<1>3. \A u \in User : Due(a, e, u)' = Due(a, e, u)
  BY <1>1, <1>2 DEF Due, Unclaimed, Worth, Payout, WinningSide, WinningAmount
<1>. QED BY <1>1, <1>2, <1>3, PotStays DEF SameRound, PhaseOf

LEMMA OpensIsOpen ==
  ASSUME MarketInv, NEW a \in Asset, NEW e \in Epoch, Opens(a, e)
  PROVE  RoundEscrow(a, e)!Open(1)
<1>1. /\ rounds[a][e] = None /\ rounds'[a][e] = NewRound /\ rounds'[a][e] # None
      /\ bets'[a][e] = bets[a][e]
  BY FateTerms DEF MarketInv, Opens, Exists, SameBets
<1>2. \A u \in User : bets[a][e][u] = None
  BY <1>1 DEF MarketInv, RoundsInv, RoundInv, Exists
<1>3. \A u \in User : Due(a, e, u) = 0 /\ Due(a, e, u)' = 0
  BY <1>1, <1>2, DueMeans, DueMeansNext DEF DueMeaning
<1>4. PhaseOf(a, e) = "none" /\ PhaseOf(a, e)' = "open"
  <2>1. ~Final(a, e)'
    BY <1>1, FinalNext DEF FinalMeaning, NewRound
  <2>. QED BY <1>1, <2>1 DEF PhaseOf
<1>5. Pot(a, e)' = Pot(a, e)
  <2>1. FeeTaken(rounds[a][e], rounds'[a][e]) = 0 /\ Pot(a, e) \in Int
    BY <1>1, PotNow DEF FeeTaken, PotNumbers
  <2>2. Pot(a, e)' = Pot(a, e) - FeeTaken(rounds[a][e], rounds'[a][e])
    BY PotMoves DEF Moves
  <2>. QED BY <2>1, <2>2
<1>. QED BY <1>3, <1>4, <1>5 DEF RoundEscrow!Open, PhaseOf

\* Before it is final a round owes every bettor the stake.
LEMMA StakeDue ==
  ASSUME MarketInv, NEW a \in Asset, NEW e \in Epoch, rounds[a][e] # None,
         rounds[a][e].status \in {"Open", "Locked"}
  PROVE  /\ PhaseOf(a, e) = "open"
         /\ \A u \in User : bets[a][e][u] # None => ~bets[a][e][u].claimed
         /\ \A u \in User : Due(a, e, u) = IF bets[a][e][u] = None THEN 0
                                           ELSE bets[a][e][u].amount
<1>1. ~Final(a, e)
  BY FinalNow DEF FinalMeaning
<1>2. \A u \in User : bets[a][e][u] # None => ~bets[a][e][u].claimed
  BY <1>1 DEF MarketInv, RoundsInv, RoundInv
<1>. QED BY <1>1, <1>2, DueMeans DEF DueMeaning, PhaseOf

LEMMA LocksIsStutter ==
  ASSUME MarketInv, NEW a \in Asset, NEW e \in Epoch, Locks(a, e)
  PROVE  SameRound(a, e)
<1>1. /\ rounds[a][e] \in Round /\ rounds'[a][e] \in Round
      /\ rounds[a][e].status = "Open" /\ rounds'[a][e].status = "Locked"
      /\ rounds'[a][e].treasury_fee = rounds[a][e].treasury_fee
  BY FateTerms DEF MarketInv
<1>2. rounds[a][e] # None /\ rounds'[a][e] # None /\ bets'[a][e] = bets[a][e]
      /\ rounds[a][e].treasury_fee \in Nat
  BY <1>1 DEF Locks, SameBets, Round
<1>3. ~Final(a, e)'
  BY <1>1, <1>2, FinalNext DEF FinalMeaning
<1>4. /\ PhaseOf(a, e) = "open"
      /\ \A u \in User : bets[a][e][u] # None => ~bets[a][e][u].claimed
      /\ \A u \in User : Due(a, e, u) = IF bets[a][e][u] = None THEN 0
                                        ELSE bets[a][e][u].amount
  BY <1>1, <1>2, StakeDue
<1>5. PhaseOf(a, e)' = "open"
  BY <1>2, <1>3 DEF PhaseOf
<1>6. \A u \in User : Due(a, e, u)' = Due(a, e, u)
  BY <1>2, <1>3, <1>4, DueMeansNext DEF DueMeaning
<1>7. Pot(a, e)' = Pot(a, e)
  <2>1. FeeTaken(rounds[a][e], rounds'[a][e]) = 0 /\ Pot(a, e) \in Int
    BY <1>1, <1>2, PotNow DEF FeeTaken, PotNumbers
  <2>2. Pot(a, e)' = Pot(a, e) - FeeTaken(rounds[a][e], rounds'[a][e])
    BY PotMoves DEF Moves
  <2>. QED BY <2>1, <2>2
<1>. QED BY <1>4, <1>5, <1>6, <1>7 DEF SameRound

LEMMA VoidsIsRefund ==
  ASSUME MarketInv, NEW a \in Asset, NEW e \in Epoch, Voids(a, e)
  PROVE  RoundEscrow(a, e)!Refund(1)
<1>1. /\ rounds[a][e] \in Round /\ rounds'[a][e] \in Round
      /\ rounds[a][e].status \in {"Open", "Locked"}
      /\ rounds'[a][e].status = "Cancelled"
      /\ rounds'[a][e].treasury_fee = rounds[a][e].treasury_fee
  BY FateTerms DEF MarketInv
<1>2. rounds[a][e] # None /\ rounds'[a][e] # None /\ bets'[a][e] = bets[a][e]
      /\ rounds[a][e].treasury_fee \in Nat
  BY <1>1 DEF Voids, SameBets, Round
<1>3. Final(a, e)'
  BY <1>1, <1>2, FinalNext DEF FinalMeaning
<1>4. /\ PhaseOf(a, e) = "open"
      /\ \A u \in User : bets[a][e][u] # None => ~bets[a][e][u].claimed
      /\ \A u \in User : Due(a, e, u) = IF bets[a][e][u] = None THEN 0
                                        ELSE bets[a][e][u].amount
  BY <1>1, <1>2, StakeDue
<1>5. PhaseOf(a, e)' = "decided"
  BY <1>2, <1>3 DEF PhaseOf
<1>6. \A u \in User : Due(a, e, u)' = Due(a, e, u)
  BY <1>1, <1>2, <1>3, <1>4, DueMeansNext DEF DueMeaning, Worth
<1>7. Pot(a, e)' = Pot(a, e)
  <2>1. FeeTaken(rounds[a][e], rounds'[a][e]) = 0 /\ Pot(a, e) \in Int
    BY <1>1, <1>2, PotNow DEF FeeTaken, PotNumbers
  <2>2. Pot(a, e)' = Pot(a, e) - FeeTaken(rounds[a][e], rounds'[a][e])
    BY PotMoves DEF Moves
  <2>. QED BY <2>1, <2>2
<1>. QED BY <1>4, <1>5, <1>6, <1>7 DEF RoundEscrow!Refund, PhaseOf

\* Each share is rounded down, so all of them together fit the reward pool.
LEMMA SharesFit ==
  ASSUME NEW round \in Round, round.up_amount > 0, round.down_amount > 0,
         NEW x, NEW stakes,
         \A u \in 1..NumUsers :
           /\ stakes[u] \in Nat
           /\ x[u] = (stakes[u] * round.reward_pool) \div WinningAmount(round),
         Sum(stakes, NumUsers) = WinningAmount(round)
  PROVE  Sum(x, NumUsers) <= round.reward_pool
<1> DEFINE w == WinningAmount(round)
           d == round.reward_pool
<1>1. w \in Nat \ {0} /\ d \in Nat
  BY DEF WinningAmount, Round
<1>2. \A u \in 1..NumUsers :
        /\ stakes[u] \in Nat /\ x[u] = (stakes[u] * d) \div w
  OBVIOUS
<1>3. Sum(stakes, NumUsers) = w
  OBVIOUS
<1> HIDE DEF w, d
<1>4. ASSUME NEW u \in 1..NumUsers
      PROVE  x[u] \in Nat /\ stakes[u] \in Nat /\ x[u] * w <= stakes[u] * d
  <2>1. stakes[u] * d \in Nat
    BY <1>1, <1>2
  <2>. QED BY <1>1, <1>2, <2>1, DivisionFacts
<1>5. Sum(x, NumUsers) * w <= Sum(stakes, NumUsers) * d
  BY <1>1, <1>4, SumShares
<1>6. Sum(x, NumUsers) \in Nat
  BY <1>4, SumNat
<1>7. Sum(x, NumUsers) * w <= d * w
  BY <1>1, <1>3, <1>5
<1>8. Sum(x, NumUsers) <= d
  BY <1>1, <1>6, <1>7, \A m, n \in Nat, z \in Nat \ {0} : m * z <= n * z => m <= n
<1>. QED BY <1>8 DEF d


LEMMA ResolvesIsAward ==
  ASSUME MarketInv, MarketInv', NEW a \in Asset, NEW e \in Epoch, Resolves(a, e)
  PROVE  RoundEscrow(a, e)!Award(1)
<1> DEFINE new == rounds'[a][e]
           side == WinningSide(new)
           stakes == [u \in User |-> StakeOn(a, e, u, side)]
           shares == [u \in User |-> Due(a, e, u)']
<1>1. /\ rounds[a][e] \in Round /\ new \in Round
      /\ new.up_amount = rounds[a][e].up_amount
      /\ new.down_amount = rounds[a][e].down_amount
      /\ new.total_amount = rounds[a][e].total_amount
      /\ rounds[a][e].status = "Locked" /\ new.status = "Resolved"
  BY FateTerms DEF MarketInv
<1>2. /\ rounds[a][e] # None /\ new # None /\ bets'[a][e] = bets[a][e]
      /\ new.up_amount > 0 /\ new.down_amount > 0
      /\ new.reward_pool = new.total_amount - new.treasury_fee
  BY <1>1 DEF Resolves, SameBets, MarketInv, RoundsInv, RoundInv, Exists
<1>3. Final(a, e)'
  BY <1>1, <1>2, FinalNext DEF FinalMeaning
<1>4. /\ PhaseOf(a, e) = "open"
      /\ \A u \in User : bets[a][e][u] # None => ~bets[a][e][u].claimed
      /\ \A u \in User : Due(a, e, u) = IF bets[a][e][u] = None THEN 0
                                        ELSE bets[a][e][u].amount
  BY <1>1, <1>2, StakeDue
<1>5. PhaseOf(a, e)' = "decided"
  BY <1>2, <1>3 DEF PhaseOf
<1>6. Pot(a, e)' = new.reward_pool /\ Pot(a, e)' <= Pot(a, e)
  <2>1. Untouched(a, e)'
    BY <1>2, <1>4 DEF Untouched
  <2>2. PaidOut(a, e)' = 0
    BY <2>1, UntouchedNext DEF UntouchedPots
  <2>3. Pot(a, e)' = new.total_amount - new.treasury_fee - 0
    BY <1>2, <2>2, PotMeansNext DEF PotMeaning
  <2>4. /\ Pot(a, e)' = Pot(a, e) - FeeTaken(rounds[a][e], rounds'[a][e])
        /\ FeeTaken(rounds[a][e], rounds'[a][e]) \in Nat
    BY PotMoves DEF Moves
  <2>5. Pot(a, e) \in Int /\ new.total_amount \in Nat /\ new.treasury_fee \in Nat
    BY <1>1, PotNow DEF PotNumbers, Round
  <2>. QED BY <1>2, <2>3, <2>4, <2>5
<1>7. ASSUME NEW u \in User
      PROVE  /\ stakes[u] \in Nat
             /\ shares[u] = (stakes[u] * new.reward_pool) \div WinningAmount(new)
             /\ Due(a, e, u) = 0 => shares[u] = 0
  <2>1. WinningAmount(new) \in Nat \ {0} /\ new.reward_pool \in Nat
    BY <1>1, <1>2 DEF WinningAmount, Round
  <2>2. (0 * new.reward_pool) \div WinningAmount(new) = 0
    BY <2>1
  <2>3. shares[u] = Due(a, e, u)' /\ stakes[u] = StakeOn(a, e, u, side)
    OBVIOUS
  <2>4. CASE bets[a][e][u] = None
    <3>1. stakes[u] = 0
      BY <2>3, <2>4 DEF StakeOn
    <3>2. shares[u] = 0
      BY <1>2, <2>3, <2>4, DueMeansNext DEF DueMeaning
    <3>. QED BY <2>2, <3>1, <3>2
  <2>5. CASE bets[a][e][u] # None
    <3> DEFINE bet == bets[a][e][u]
    <3>1. bet.amount \in Nat /\ ~bet.claimed /\ Due(a, e, u) = bet.amount
      BY <1>4, <2>5 DEF MarketInv, TypeOK, BetEntry
    <3>2. Due(a, e, u)' = Worth(new, bet)
      BY <1>2, <1>3, <1>4, <2>5, DueMeansNext
         DEF DueMeaning, Worth, Payout, WinningSide, WinningAmount
    <3>3. shares[u] = Payout(new, bet)
      BY <1>1, <2>3, <3>2 DEF Worth
    <3>4. CASE bet.direction = side
      <4>1. stakes[u] = bet.amount
        BY <2>3, <2>5, <3>4 DEF StakeOn
      <4>2. shares[u] = (bet.amount * new.reward_pool) \div WinningAmount(new)
        BY <3>3, <3>4 DEF Payout
      <4> HIDE DEF stakes, shares, bet
      <4>. QED BY <2>2, <3>1, <4>1, <4>2
    <3>5. CASE bet.direction # side
      <4>1. stakes[u] = 0
        BY <2>3, <2>5, <3>5 DEF StakeOn
      <4>2. shares[u] = 0
        BY <3>3, <3>5 DEF Payout
      <4>. QED BY <2>2, <4>1, <4>2
    <3>. QED BY <3>4, <3>5
  <2>. QED BY <2>4, <2>5
<1>8. Sum(stakes, NumUsers) = WinningAmount(new)
  <2>1. Sum(stakes, NumUsers) = StakesOn(a, e, side) /\ side \in {"Up", "Down"}
    BY DEF StakesOn, WinningSide
  <2>2. /\ rounds[a][e].up_amount = StakesOn(a, e, "Up")
        /\ rounds[a][e].down_amount = StakesOn(a, e, "Down")
    BY <1>2 DEF MarketInv, RoundsInv, RoundInv, Exists
  <2>3. WinningAmount(new) = IF side = "Up" THEN new.up_amount ELSE new.down_amount
    BY DEF WinningAmount
  <2> HIDE DEF side, stakes, new
  <2>. QED BY <1>1, <2>1, <2>2, <2>3
<1>9. \A u \in User : shares[u] = Due(a, e, u)' /\ Due(a, e, u)' \in Nat
  BY DueNext DEF DueNumbers
<1>10. /\ shares = [u \in User |-> Due(a, e, u)']
       /\ new = rounds'[a][e]
  OBVIOUS
<1> HIDE DEF stakes, shares, side, new
<1>11. Sum(shares, NumUsers) <= new.reward_pool
  BY <1>1, <1>2, <1>7, <1>8, SharesFit DEF User
<1>12. RoundEscrow(a, e)!Sum(shares, NumUsers) <= Pot(a, e)'
  BY <1>6, <1>11, EscrowSets
<1> DEFINE phase == [r \in 1..1 |-> PhaseOf(a, e)]
           nextPhase == [r \in 1..1 |-> PhaseOf(a, e)']
           pot == [r \in 1..1 |-> Pot(a, e)]
           nextPot == [r \in 1..1 |-> Pot(a, e)']
           due == [r \in 1..1 |-> [u \in User |-> Due(a, e, u)]]
           nextDue == [r \in 1..1 |-> shares]
<1>13. phase[1] = "open" /\ nextPhase = [phase EXCEPT ![1] = "decided"]
  BY <1>4, <1>5
<1>14. nextPot[1] <= pot[1] /\ nextPot = [pot EXCEPT ![1] = nextPot[1]]
  BY <1>6
<1>15. \A u \in User : nextDue[1][u] >= 0 /\ (due[1][u] = 0 => nextDue[1][u] = 0)
  BY <1>7, <1>9
<1>16. RoundEscrow(a, e)!Sum(nextDue[1], NumUsers) <= nextPot[1]
  BY <1>12
<1>17. nextDue = [due EXCEPT ![1] = nextDue[1]]
  OBVIOUS
<1>. QED BY <1>10, <1>13, <1>14, <1>15, <1>16, <1>17, EscrowSets
         DEF RoundEscrow!Award, PhaseOf


LEMMA TakesIsStake ==
  ASSUME MarketInv, MarketInv', NEW a \in Asset, NEW e \in Epoch, NEW u \in User,
         NEW direction \in Direction, NEW amount \in BetAmount,
         Takes(a, e, u, direction, amount)
  PROVE  RoundEscrow(a, e)!Stake(1, u)
<1> DEFINE entry == [direction |-> direction, amount |-> amount, claimed |-> FALSE]
<1>1. /\ rounds[a][e] \in Round /\ rounds'[a][e] \in Round
      /\ rounds[a][e].status = "Open" /\ rounds'[a][e].status = "Open"
  BY TakesTerms DEF MarketInv
<1>2. /\ rounds[a][e] # None /\ rounds'[a][e] # None /\ bets[a][e][u] = None
      /\ bets[a][e] \in [User -> BetEntry \cup {None}]
      /\ bets'[a][e] = [bets[a][e] EXCEPT ![u] = entry]
      /\ entry \in BetEntry /\ entry.amount = amount /\ entry.claimed = FALSE
      /\ amount \in Nat
  <2>1. rounds[a][e] # None /\ rounds'[a][e] # None
    BY <1>1
  <2>2. /\ bets[a][e][u] = None /\ bets'[a][e] = [bets[a][e] EXCEPT ![u] = entry]
        /\ bets[a][e] \in [User -> BetEntry \cup {None}]
    BY DEF Takes, MarketInv, TypeOK
  <2>3. entry \in BetEntry /\ amount \in Nat
    BY DEF BetEntry
  <2>4. entry.amount = amount /\ entry.claimed = FALSE
    OBVIOUS
  <2> HIDE DEF entry
  <2>. QED BY <2>1, <2>2, <2>3, <2>4
<1> HIDE DEF entry
<1>3. bets'[a][e][u] = entry /\ \A v \in User \ {u} : bets'[a][e][v] = bets[a][e][v]
  BY <1>2
<1>4. ~Final(a, e)'
  BY <1>1, <1>2, FinalNext DEF FinalMeaning
<1>5. /\ PhaseOf(a, e) = "open"
      /\ \A v \in User : bets[a][e][v] # None => ~bets[a][e][v].claimed
      /\ \A v \in User : Due(a, e, v) = IF bets[a][e][v] = None THEN 0
                                        ELSE bets[a][e][v].amount
  BY <1>1, <1>2, StakeDue
<1>6. PhaseOf(a, e)' = "open"
  BY <1>2, <1>4 DEF PhaseOf
<1>7. Due(a, e, u) = 0 /\ Due(a, e, u)' = amount
  BY <1>2, <1>3, <1>4, <1>5, DueMeansNext DEF DueMeaning
<1>8. \A v \in User \ {u} : Due(a, e, v)' = Due(a, e, v)
  BY <1>3, <1>4, <1>5, DueMeansNext DEF DueMeaning
<1>9. Pot(a, e)' = Pot(a, e) + amount
  BY PotTakes DEF MarketInv, RoundsInv
<1> DEFINE phase == [r \in 1..1 |-> PhaseOf(a, e)]
           nextPhase == [r \in 1..1 |-> PhaseOf(a, e)']
           pot == [r \in 1..1 |-> Pot(a, e)]
           nextPot == [r \in 1..1 |-> Pot(a, e)']
           due == [r \in 1..1 |-> [v \in User |-> Due(a, e, v)]]
           nextDue == [r \in 1..1 |-> [v \in User |-> Due(a, e, v)']]
<1>10. phase[1] = "open" /\ nextPhase = phase
  BY <1>5, <1>6
<1>11. due[1][u] = 0 /\ nextDue[1][u] = amount /\ nextDue[1][u] >= 0
  BY <1>2, <1>7
<1>12. nextDue = [due EXCEPT ![1][u] = nextDue[1][u]]
  <2>1. [v \in User |-> Due(a, e, v)']
          = [[v \in User |-> Due(a, e, v)] EXCEPT ![u] = Due(a, e, u)']
    BY <1>8
  <2>2. nextDue[1] = [due[1] EXCEPT ![u] = nextDue[1][u]]
    BY <2>1
  <2>3. due = [r \in 1..1 |-> due[r]] /\ nextDue = [r \in 1..1 |-> nextDue[r]]
    OBVIOUS
  <2> HIDE DEF due, nextDue
  <2>. QED BY <2>2, <2>3
<1>13. nextPot = [pot EXCEPT ![1] = pot[1] + nextDue[1][u]]
  BY <1>9, <1>11
<1>. QED BY <1>10, <1>11, <1>12, <1>13 DEF RoundEscrow!Stake, PhaseOf

LEMMA PaysIsDraw ==
  ASSUME MarketInv, MarketInv', NEW a \in Asset, NEW e \in Epoch, NEW u \in User,
         Pays(a, e, u)
  PROVE  RoundEscrow(a, e)!Draw(u)
<1> DEFINE worth == Worth(rounds[a][e], bets[a][e][u])
<1>1. /\ rounds'[a][e] = rounds[a][e] /\ rounds[a][e] # None
      /\ bets[a][e][u] # None /\ ~bets[a][e][u].claimed
      /\ bets[a][e] \in [User -> BetEntry \cup {None}]
      /\ bets'[a][e] = [bets[a][e] EXCEPT ![u].claimed = TRUE]
  BY FinalNow DEF Pays, Unclaimed, FinalMeaning, MarketInv, TypeOK
<1>2. Final(a, e) /\ Final(a, e)'
  BY <1>1, FinalNow, FinalNext DEF FinalMeaning, Pays
<1>3. PhaseOf(a, e) = "decided" /\ PhaseOf(a, e)' = "decided"
  BY <1>1, <1>2 DEF PhaseOf
<1>4. bets'[a][e][u].claimed
      /\ \A v \in User \ {u} : bets'[a][e][v] = bets[a][e][v]
  <2>1. bets[a][e][u] \in BetEntry
        /\ bets'[a][e][u] = [bets[a][e][u] EXCEPT !.claimed = TRUE]
    BY <1>1
  <2>2. bets'[a][e][u].claimed
    BY <2>1 DEF BetEntry
  <2>. QED BY <1>1, <2>2
<1>5. Due(a, e, u) = worth /\ Due(a, e, u)' = 0
  BY <1>1, <1>2, <1>4, DueMeans, DueMeansNext DEF DueMeaning
<1>6. \A v \in User \ {u} : Due(a, e, v)' = Due(a, e, v)
  <2>1. TAKE v \in User \ {u}
  <2>2. bets'[a][e][v] = bets[a][e][v] /\ rounds'[a][e] = rounds[a][e]
    BY <1>1, <1>4
  <2>3. Worth(rounds'[a][e], bets'[a][e][v]) = Worth(rounds[a][e], bets[a][e][v])
    BY <2>2
  <2>. QED BY <1>2, <2>2 DEF Due, Unclaimed, Worth, Payout, WinningSide, WinningAmount
<1>7. Pot(a, e)' = Pot(a, e) - worth /\ worth \in Nat /\ Pot(a, e) \in Int
  BY PotPays, PotNow DEF PotNumbers
<1> HIDE DEF worth
<1> DEFINE phase == [r \in 1..1 |-> PhaseOf(a, e)]
           nextPhase == [r \in 1..1 |-> PhaseOf(a, e)']
           pot == [r \in 1..1 |-> Pot(a, e)]
           nextPot == [r \in 1..1 |-> Pot(a, e)']
           due == [r \in 1..1 |-> [v \in User |-> Due(a, e, v)]]
           nextDue == [r \in 1..1 |-> [v \in User |-> Due(a, e, v)']]
<1>8. nextPhase = phase /\ phase[1] = "decided"
  BY <1>3
<1>9. \A r \in 1..1 : nextDue[r] = [due[r] EXCEPT ![u] = nextDue[r][u]]
  <2>1. [v \in User |-> Due(a, e, v)']
          = [[v \in User |-> Due(a, e, v)] EXCEPT ![u] = Due(a, e, u)']
    BY <1>6
  <2>. QED BY <2>1
<1>10. \A r \in 1..1 : nextDue[r][u] = 0 /\ phase[r] = "decided"
  BY <1>3, <1>5
<1>11. nextPot = [r \in 1..1 |-> pot[r] - (due[r][u] - nextDue[r][u])]
  BY <1>5, <1>7
<1>. QED BY <1>8, <1>9, <1>10, <1>11, EscrowSets DEF RoundEscrow!Draw, PhaseOf

LEMMA FatesAreEscrowSteps ==
  ASSUME MarketInv, MarketInv', NEW a \in Asset, NEW e \in Epoch, Fates(a, e)
  PROVE  \/ UNCHANGED RoundEscrow(a, e)!escrowVars
         \/ RoundEscrow(a, e)!EscrowNext
<1>1. RoundEscrow(a, e)!Rounds = 1..1 /\ RoundEscrow(a, e)!Users = User
      /\ 1 \in RoundEscrow(a, e)!Rounds
  BY EscrowSets
<1>2. CASE Stays(a, e) \/ Locks(a, e)
  BY <1>2, StaysIsStutter, LocksIsStutter, SameRoundIsStutter
<1>3. CASE Opens(a, e)
  BY <1>1, <1>3, OpensIsOpen DEF RoundEscrow!EscrowNext
<1>4. CASE Voids(a, e)
  BY <1>1, <1>4, VoidsIsRefund DEF RoundEscrow!EscrowNext
<1>5. CASE Resolves(a, e)
  BY <1>1, <1>5, ResolvesIsAward DEF RoundEscrow!EscrowNext
<1>6. ASSUME NEW u \in User, NEW direction \in Direction, NEW amount \in BetAmount,
             Takes(a, e, u, direction, amount)
      PROVE  RoundEscrow(a, e)!EscrowNext
  BY <1>1, <1>6, TakesIsStake DEF RoundEscrow!EscrowNext
<1>7. ASSUME NEW u \in User, Pays(a, e, u)
      PROVE  RoundEscrow(a, e)!EscrowNext
  BY <1>1, <1>7, PaysIsDraw DEF RoundEscrow!EscrowNext
<1>. QED BY <1>2, <1>3, <1>4, <1>5, <1>6, <1>7 DEF Fates, Moves

LEMMA EscrowsBegin ==
  Init => \A a \in Asset, e \in Epoch : RoundEscrow(a, e)!EscrowInit
<1> SUFFICES ASSUME Init, NEW a \in Asset, NEW e \in Epoch
             PROVE  RoundEscrow(a, e)!EscrowInit
  OBVIOUS
<1>1. rounds[a][e] = None /\ \A u \in User : bets[a][e][u] = None
  BY DEF Init
<1>2. Pot(a, e) = 0 /\ \A u \in User : Due(a, e, u) = 0
  BY <1>1 DEF Pot, Due, Unclaimed
<1>. QED BY <1>1, <1>2, EscrowSets DEF RoundEscrow!EscrowInit

\* Whatever the admin sets between a bet and its claim, every round is decided
\* once, is never paid out of another round's stakes, and owes a bettor either the
\* stake or a share of its own reward pool, which is drawn once.
THEOREM MarketIsEscrows == Spec => RoundsAreEscrows
<1>1. MarketInv /\ MarketInv' /\ [Next]_vars
        => [\A a \in Asset, e \in Epoch :
             \/ UNCHANGED RoundEscrow(a, e)!escrowVars
             \/ RoundEscrow(a, e)!EscrowNext]_vars
  BY NextFates, FatesAreEscrowSteps DEF MarketInv
<1>. QED BY EscrowsBegin, MarketInvariant, <1>1, PTL DEF Spec, RoundsAreEscrows


-----------------------------------------------------------------------------
(* The epochs a user is shown are those of the latest bets *)

\* buf lists the latest members of on.
Lists(buf, on) ==
  /\ Len(buf) <= UserEpochsCap
  /\ \A i \in 1..Len(buf) : buf[i] \in on
  /\ \A i, j \in 1..Len(buf) : i < j => buf[i] < buf[j]
  /\ \A f \in on : (\A i \in 1..Len(buf) : buf[i] # f) =>
       Len(buf) = UserEpochsCap /\ \A i \in 1..Len(buf) : f < buf[i]

LEMMA PushLists ==
  ASSUME NEW buf \in Seq(Epoch), NEW on \in SUBSET Epoch, Lists(buf, on),
         NEW e \in Epoch, \A f \in on : f < e
  PROVE  Lists(Push(buf, e), on \cup {e})
<1>1. /\ Len(buf) \in Nat /\ \A i \in 1..Len(buf) : buf[i] \in Epoch
      /\ \A f \in Epoch : f \in Int
  <2>1. \A f \in Epoch : f \in Int
    BY LastEpochNat DEF Epoch
  <2>. QED BY <2>1
<1>2. \A i \in 1..Len(buf) : buf[i] < e /\ buf[i] # e
  BY <1>1 DEF Lists
<1>3. CASE Len(buf) < UserEpochsCap
  <2> DEFINE new == Append(buf, e)
  <2>1. Push(buf, e) = new
    BY <1>1, <1>2, <1>3 DEF Push
  <2>2. /\ Len(new) = Len(buf) + 1 /\ new[Len(buf) + 1] = e
        /\ \A i \in 1..Len(buf) : new[i] = buf[i]
    OBVIOUS
  <2> HIDE DEF new
  <2>3. \A f \in on : \E i \in 1..Len(buf) : buf[i] = f
    BY <1>1, <1>3 DEF Lists
  <2>4. \A f \in on \cup {e} : \E i \in 1..Len(new) : new[i] = f
    BY <1>1, <2>2, <2>3
  <2>5. \A i \in 1..Len(new) : new[i] \in on \cup {e}
    BY <1>1, <2>2 DEF Lists
  <2>6. \A i, j \in 1..Len(new) : i < j => new[i] < new[j]
    <3>1. TAKE i, j \in 1..Len(new)
    <3>2. HAVE i < j
    <3>3. i \in 1..Len(buf) /\ new[i] = buf[i]
      BY <1>1, <2>2, <3>2
    <3>4. CASE j = Len(buf) + 1
      BY <1>2, <2>2, <3>3, <3>4
    <3>5. CASE j # Len(buf) + 1
      <4>1. j \in 1..Len(buf) /\ new[j] = buf[j]
        BY <1>1, <2>2, <3>5
      <4>. QED BY <3>2, <3>3, <4>1 DEF Lists
    <3>. QED BY <3>4, <3>5
  <2>. QED BY <1>1, <1>3, <2>1, <2>2, <2>4, <2>5, <2>6 DEF Lists
<1>4. CASE Len(buf) >= UserEpochsCap
  <2> DEFINE new == Append(Tail(buf), e)
  <2>1. Push(buf, e) = new
    BY <1>2, <1>4 DEF Push
  <2>2. Len(buf) = UserEpochsCap /\ Len(buf) >= 1
    BY <1>1, <1>4 DEF Lists
  <2>3. /\ Tail(buf) \in Seq(Epoch) /\ Len(Tail(buf)) = Len(buf) - 1
        /\ \A i \in 1..(Len(buf) - 1) : Tail(buf)[i] = buf[i + 1]
    BY <1>1, <2>2
  <2>4. /\ Len(new) = Len(buf) /\ new[Len(buf)] = e
        /\ \A i \in 1..(Len(buf) - 1) : new[i] = buf[i + 1]
    BY <1>1, <2>2, <2>3
  <2> HIDE DEF new
  <2>5. \A i \in 1..Len(new) : new[i] \in on \cup {e}
    BY <1>1, <2>2, <2>4 DEF Lists
  <2>6. \A i, j \in 1..Len(new) : i < j => new[i] < new[j]
    <3>1. TAKE i, j \in 1..Len(new)
    <3>2. HAVE i < j
    <3>3. i + 1 \in 1..Len(buf) /\ i \in 1..(Len(buf) - 1) /\ new[i] = buf[i + 1]
      BY <1>1, <2>4, <3>2
    <3>4. CASE j = Len(buf)
      BY <1>2, <2>4, <3>3, <3>4
    <3>5. CASE j # Len(buf)
      <4>1. j + 1 \in 1..Len(buf) /\ j \in 1..(Len(buf) - 1) /\ new[j] = buf[j + 1]
            /\ i + 1 < j + 1
        BY <1>1, <2>4, <3>2, <3>5
      <4>. QED BY <3>3, <4>1 DEF Lists
    <3>. QED BY <3>4, <3>5
  <2>7. ASSUME NEW f \in on \cup {e}, \A i \in 1..Len(new) : new[i] # f
        PROVE  \A i \in 1..Len(new) : f < new[i]
    <3>1. f # e /\ f \in on
      BY <1>1, <2>2, <2>4, <2>7
    <3>2. \A i \in 2..Len(buf) : buf[i] # f
      <4>1. TAKE i \in 2..Len(buf)
      <4>2. i - 1 \in 1..(Len(buf) - 1) /\ i - 1 \in 1..Len(new) /\ (i - 1) + 1 = i
        BY <1>1, <2>4
      <4>. QED BY <2>4, <2>7, <4>2
    <3>3. \A i \in 2..Len(buf) : f < buf[i]
      <4>1. CASE f = buf[1]
        BY <1>1, <2>2, <4>1 DEF Lists
      <4>2. CASE f # buf[1]
        <5>1. \A i \in 1..Len(buf) : buf[i] # f
          BY <1>1, <3>2, <4>2
        <5>. QED BY <1>1, <3>1, <5>1 DEF Lists
      <4>. QED BY <4>1, <4>2
    <3>4. TAKE i \in 1..Len(new)
    <3>5. CASE i = Len(buf)
      BY <2>4, <3>1, <3>5
    <3>6. CASE i # Len(buf)
      <4>1. i \in 1..(Len(buf) - 1) /\ i + 1 \in 2..Len(buf)
        BY <1>1, <2>4, <3>6
      <4>. QED BY <2>4, <3>3, <4>1
    <3>. QED BY <3>5, <3>6
  <2>. QED BY <2>1, <2>2, <2>4, <2>5, <2>6, <2>7 DEF Lists
<1>. QED BY <1>1, <1>3, <1>4

BetOn(a, u) == {e \in Epoch : bets[a][e][u] # None}

\* Bets are on the epoch after the current one, so a new one is always the latest.
ShownInv ==
  \A a \in Asset, u \in User :
    /\ Lists(userEpochs[a][u], BetOn(a, u))
    /\ \A e \in BetOn(a, u) : e <= CurrentEpoch + 1

LEMMA ShownLatest ==
  ASSUME TypeOK, ShownInv PROVE LatestBetsListed
<1> SUFFICES ASSUME NEW a \in Asset, NEW u \in User
             PROVE  LET buf == userEpochs[a][u]
                        betOn == BetOn(a, u)
                        listed == {buf[i] : i \in 1..Len(buf)}
                    IN /\ listed \subseteq betOn
                       /\ \A i, j \in 1..Len(buf) : i < j => buf[i] < buf[j]
                       /\ \A e \in betOn \ listed :
                            Len(buf) = UserEpochsCap /\ \A f \in listed : e < f
  BY DEF LatestBetsListed, BetOn
<1> DEFINE buf == userEpochs[a][u]
<1>1. Lists(buf, BetOn(a, u))
  BY DEF ShownInv
<1>. QED BY <1>1 DEF Lists

\* Time does not run backwards.
LEMMA EpochsAdvance ==
  ASSUME TypeOK, TypeOK', [Next]_vars PROVE CurrentEpoch <= CurrentEpoch'
<1>1. now' = now \/ now' = now + 1
  BY CallFrames DEF Quiet, Initialize, Pause, Unpause, SetConfig, AdvanceTime,
                    LateTick, vars, environment
<1>2. now \in Nat /\ now' \in Nat /\ now <= now'
  BY <1>1 DEF TypeOK, Time
<1>. QED BY <1>2, DivisionFacts DEF CurrentEpoch

\* A bet stays on record.
LEMMA BetOnGrows ==
  ASSUME TypeOK, [Next]_vars, NEW a \in Asset, NEW u \in User
  PROVE  \/ BetOn(a, u)' = BetOn(a, u) /\ userEpochs'[a][u] = userEpochs[a][u]
         \/ \E e \in Epoch :
              /\ e = CurrentEpoch + 1 /\ CurrentEpoch' = CurrentEpoch
              /\ e \notin BetOn(a, u)
              /\ BetOn(a, u)' = BetOn(a, u) \cup {e}
              /\ userEpochs'[a][u] = Push(userEpochs[a][u], e)
<1>1. ASSUME bets' = bets PROVE BetOn(a, u)' = BetOn(a, u)
  BY <1>1 DEF BetOn, Epoch, LastEpoch
<1>2. CASE Quiet \/ ClaimTreasury
  BY <1>1, <1>2, QuietKeeps DEF ClaimTreasury, entries
<1>3. ASSUME NEW b \in Asset, GenesisStart(b) \/ GenesisLock(b) \/ ExecuteRound(b)
      PROVE  BetOn(a, u)' = BetOn(a, u) /\ userEpochs' = userEpochs
  BY <1>1, <1>3 DEF GenesisStart, GenesisLock, ExecuteRound
<1>4. ASSUME NEW v \in User, NEW b \in Asset, NEW e \in Epoch,
             NEW direction \in Direction, NEW amount \in BetAmount,
             Bet(v, b, e, direction, amount)
      PROVE  \/ BetOn(a, u)' = BetOn(a, u) /\ userEpochs'[a][u] = userEpochs[a][u]
             \/ /\ e = CurrentEpoch + 1 /\ CurrentEpoch' = CurrentEpoch
                /\ e \notin BetOn(a, u)
                /\ BetOn(a, u)' = BetOn(a, u) \cup {e}
                /\ userEpochs'[a][u] = Push(userEpochs[a][u], e)
  <2> DEFINE entry == [direction |-> direction, amount |-> amount, claimed |-> FALSE]
  <2>1. /\ bets' = [bets EXCEPT ![b][e][v] = entry]
        /\ userEpochs' = [userEpochs EXCEPT ![b][v] = Push(userEpochs[b][v], e)]
        /\ bets[b][e][v] = None /\ e = CurrentEpoch + 1
    BY <1>4 DEF Bet
  <2>2. entry # None
    <3>1. entry \in BetEntry
      BY DEF BetEntry
    <3>. QED BY <3>1
  <2>3. CurrentEpoch' = CurrentEpoch
    BY <1>4 DEF Bet, environment, CurrentEpoch
  <2> HIDE DEF entry
  <2>4. /\ bets \in [Asset -> [Epoch -> [User -> BetEntry \cup {None}]]]
        /\ userEpochs \in [Asset -> [User -> Seq(Epoch)]]
    BY DEF TypeOK
  <2>5. CASE b = a /\ v = u
    <3>1. bets'[a][e][u] = entry
          /\ \A f \in Epoch : f # e => bets'[a][f][u] = bets[a][f][u]
      BY <2>1, <2>4, <2>5
    <3>2. BetOn(a, u)' = BetOn(a, u) \cup {e}
      BY <2>2, <3>1 DEF BetOn, Epoch, LastEpoch
    <3>3. userEpochs'[a][u] = Push(userEpochs[a][u], e)
      BY <2>1, <2>4, <2>5
    <3>4. e \notin BetOn(a, u)
      BY <2>1, <2>5 DEF BetOn
    <3>. QED BY <2>1, <2>3, <3>2, <3>3, <3>4
  <2>6. CASE b # a \/ v # u
    <3>1. \A f \in Epoch : bets'[a][f][u] = bets[a][f][u]
      BY <2>1, <2>4, <2>6
    <3>2. userEpochs'[a][u] = userEpochs[a][u]
      BY <2>1, <2>4, <2>6
    <3>. QED BY <3>1, <3>2 DEF BetOn, Epoch, LastEpoch
  <2>. QED BY <2>5, <2>6
<1>5. ASSUME NEW v \in User, NEW b \in Asset, NEW paid \in SUBSET Epoch,
             Paying(v, b, paid)
      PROVE  BetOn(a, u)' = BetOn(a, u) /\ userEpochs' = userEpochs
  <2>1. ASSUME NEW e \in Epoch
        PROVE  bets'[a][e][u] # None <=> bets[a][e][u] # None
    <3>1. CASE Stays(a, e)
      BY <3>1 DEF Stays, SameBets
    <3>2. CASE Pays(a, e, v)
      <4>1. bets[a][e] \in [User -> BetEntry \cup {None}]
            /\ bets'[a][e] = [bets[a][e] EXCEPT ![v].claimed = TRUE]
            /\ bets[a][e][v] # None
        BY <3>2 DEF Pays, Unclaimed, TypeOK
      <4>2. CASE v = u
        <5>1. bets[a][e][u] \in BetEntry
              /\ bets'[a][e][u] = [bets[a][e][u] EXCEPT !.claimed = TRUE]
          BY <4>1, <4>2
        <5>2. bets'[a][e][u] \in BetEntry
          BY <5>1 DEF BetEntry
        <5>. QED BY <5>1, <5>2
      <4>3. CASE v # u
        BY <4>1, <4>3
      <4>. QED BY <4>2, <4>3
    <3>. QED BY <1>5, <3>1, <3>2, PayOutFates DEF Paying
  <2>. QED BY <1>5, <2>1 DEF BetOn, Epoch, LastEpoch, Paying, PayOut
<1>. QED BY <1>2, <1>3, <1>4, <1>5, Steps

LEMMA NextShown ==
  ASSUME TypeOK, TypeOK', ShownInv, [Next]_vars PROVE ShownInv'
<1> SUFFICES ASSUME NEW a \in Asset, NEW u \in User
             PROVE  /\ Lists(userEpochs[a][u], BetOn(a, u))'
                    /\ \A e \in BetOn(a, u)' : e <= CurrentEpoch' + 1
  BY DEF ShownInv
<1>1. /\ Lists(userEpochs[a][u], BetOn(a, u))
      /\ \A e \in BetOn(a, u) : e <= CurrentEpoch + 1
      /\ BetOn(a, u) \in SUBSET Epoch /\ userEpochs[a][u] \in Seq(Epoch)
  BY DEF ShownInv, BetOn, TypeOK
<1>2. CurrentEpoch \in Nat /\ CurrentEpoch' \in Nat /\ CurrentEpoch <= CurrentEpoch'
      /\ \A e \in Epoch : e \in Nat
  <2>1. now \in Nat /\ now' \in Nat
    BY DEF TypeOK, Time
  <2>2. CurrentEpoch \in Nat /\ CurrentEpoch' \in Nat
    BY <2>1, DivisionFacts DEF CurrentEpoch
  <2>3. \A e \in Epoch : e \in Nat
    BY LastEpochNat DEF Epoch
  <2>. QED BY <2>2, <2>3, EpochsAdvance
<1>3. CASE BetOn(a, u)' = BetOn(a, u) /\ userEpochs'[a][u] = userEpochs[a][u]
  BY <1>1, <1>2, <1>3 DEF Lists
<1>4. ASSUME NEW e \in Epoch, e = CurrentEpoch + 1, CurrentEpoch' = CurrentEpoch,
             e \notin BetOn(a, u), BetOn(a, u)' = BetOn(a, u) \cup {e},
             userEpochs'[a][u] = Push(userEpochs[a][u], e)
      PROVE  /\ Lists(userEpochs[a][u], BetOn(a, u))'
             /\ \A f \in BetOn(a, u)' : f <= CurrentEpoch' + 1
  <2>1. \A f \in BetOn(a, u) : f < e
    <3>1. TAKE f \in BetOn(a, u)
    <3>2. f \in Nat /\ f <= CurrentEpoch + 1 /\ f # CurrentEpoch + 1
      BY <1>1, <1>2, <1>4
    <3>. QED BY <1>2, <1>4, <3>2
  <2>2. Lists(Push(userEpochs[a][u], e), BetOn(a, u) \cup {e})
    BY <1>1, <2>1, PushLists
  <2>3. Lists(userEpochs'[a][u], BetOn(a, u)')
    BY <1>4, <2>2
  <2>. QED BY <1>1, <1>2, <1>4, <2>3 DEF Lists
<1>. QED BY <1>3, <1>4, BetOnGrows

\* user_epochs keeps the epochs of a user's latest bets, in order and without
\* repetition: push_user_epoch drops the oldest one when the list is full.
THEOREM TheLatestAreListed == Spec => []LatestBetsListed
<1>1. Init => ShownInv
  BY DEF Init, ShownInv, Lists, BetOn
<1>2. MarketInv /\ MarketInv' /\ ShownInv /\ [Next]_vars => ShownInv'
  BY NextShown DEF MarketInv
<1>3. MarketInv /\ ShownInv => LatestBetsListed
  BY ShownLatest DEF MarketInv
<1>. QED BY MarketInvariant, <1>1, <1>2, <1>3, PTL DEF Spec


-----------------------------------------------------------------------------
(* A round is settled at the prices of its own boundaries *)

\* No price appears after the fact, and the tolerance stays what it was: a price
\* that is read again later is the price that was read.
Published == MaxLag = 0 /\ Tolerance = {}

LEMMA FeedIsKept ==
  ASSUME Published, TypeOK, [Next]_vars
  PROVE  \A a \in Asset, t \in Time : t <= now => feed'[a][t] = feed[a][t]
<1>1. now \in Nat
  BY DEF TypeOK, Time
<1>2. ASSUME NEW b \in Asset, NEW tick \in Tick, NEW price \in Price,
             LateTick(b, tick, price)
      PROVE  FALSE
  <2>1. tick \in Nat /\ tick < now /\ now <= tick + MaxLag /\ MaxLag = 0
    BY <1>2 DEF LateTick, Tick, Time, Published
  <2>. QED BY <1>1, <2>1
<1>3. CASE AdvanceTime
  <2>1. TAKE a \in Asset, t \in Time
  <2>2. HAVE t <= now
  <2>3. t # now' /\ feed \in [Asset -> [Time -> Price \cup {None}]]
    BY <1>1, <1>3, <2>2 DEF AdvanceTime, Time, TypeOK
  <2>. QED BY <1>3, <2>3 DEF AdvanceTime
<1>4. CASE feed' = feed
  BY <1>4
<1>5. Quiet => AdvanceTime \/ feed' = feed
  BY <1>2 DEF Quiet, Initialize, Pause, Unpause, SetConfig, vars, environment
<1>. QED BY <1>3, <1>4, <1>5, CallFrames

LEMMA ToleranceIsKept ==
  ASSUME Published, TypeOK, config # None, [Next]_vars
  PROVE  config' # None /\ config'.tolerance = config.tolerance
<1>1. config \in Config /\ DOMAIN config
        = {"fee_bps", "min_bet", "tolerance", "paused", "tie_refund"}
  BY DEF TypeOK, Config
<1>2. CASE config' = config
  BY <1>2
<1>3. CASE Pause \/ Unpause
  <2>1. PICK flag \in BOOLEAN : config' = [config EXCEPT !.paused = flag]
    BY <1>3 DEF Pause, Unpause
  <2>2. config' \in Config /\ config'.tolerance = config.tolerance
    BY <1>1, <2>1 DEF Config
  <2>. QED BY <2>2
<1>4. ASSUME NEW fee \in FeeBps \cup {None}, NEW minBet \in MinBet \cup {None},
             NEW tolerance \in Tolerance \cup {None},
             NEW tieRefund \in TieRefund \cup {None},
             SetConfig(fee, minBet, tolerance, tieRefund)
      PROVE  config'.tolerance = config.tolerance
  <2>1. tolerance = None
    BY DEF Published
  <2>2. config' = [config EXCEPT
          !.fee_bps = Given(fee, config.fee_bps),
          !.min_bet = Given(minBet, config.min_bet),
          !.tolerance = config.tolerance,
          !.tie_refund = Given(tieRefund, config.tie_refund)]
    BY <1>4, <2>1 DEF SetConfig, Given
  <2>. QED BY <1>1, <2>2
<1>5. config' # None
  BY <1>1, CallFrames, ConfigTypes DEF Quiet, Initialize
<1>6. CASE Quiet
  BY <1>2, <1>3, <1>4, <1>5, <1>6
     DEF Quiet, Initialize, AdvanceTime, LateTick, vars
<1>. QED BY <1>2, <1>6, CallFrames

\* What the feed answers about the past does not change.
LEMMA PriceIsKept ==
  ASSUME Published, TypeOK, config # None, [Next]_vars,
         NEW a \in Asset, NEW timestamp \in Nat, timestamp <= now
  PROVE  FetchPrice(a, timestamp)' = FetchPrice(a, timestamp)
<1> DEFINE known == {t \in Time : t <= timestamp /\ feed[a][t] # None}
           later == {t \in Time : t <= timestamp /\ feed'[a][t] # None}
           newest == CHOOSE t \in known : \A s \in known : s <= t
<1>1. now \in Nat /\ Time \subseteq Nat
  BY DEF TypeOK, Time
<1>2. \A t \in Time : t <= timestamp => feed'[a][t] = feed[a][t]
  <2>1. TAKE t \in Time
  <2>2. HAVE t <= timestamp
  <2>3. t <= now
    BY <1>1, <2>2
  <2>. QED BY <2>3, FeedIsKept
<1>3. later = known
  BY <1>2
<1>4. config'.tolerance = config.tolerance
  BY ToleranceIsKept
<1>5. CASE known = {}
  BY <1>3, <1>5 DEF FetchPrice, Time
<1>6. CASE known # {}
  <2>1. \E t \in known : \A s \in known : s <= t
    BY <1>6, Newest
  <2>2. newest \in known
    BY <2>1
  <2>3. feed'[a][newest] = feed[a][newest]
    BY <1>2, <2>2
  <2>4. FetchPrice(a, timestamp) =
          IF timestamp - newest > config.tolerance THEN None ELSE feed[a][newest]
    BY <1>6 DEF FetchPrice
  <2>5. FetchPrice(a, timestamp)' =
          IF timestamp - newest > config'.tolerance THEN None ELSE feed'[a][newest]
    <3>1. FetchPrice(a, timestamp)' =
            IF later = {} THEN None
            ELSE LET n == CHOOSE t \in later : \A s \in later : s <= t
                 IN IF timestamp - n > config'.tolerance THEN None ELSE feed'[a][n]
      BY DEF FetchPrice, Time
    <3> HIDE DEF later, known
    <3>. QED BY <1>3, <1>6, <3>1
  <2> HIDE DEF newest
  <2>. QED BY <1>4, <2>3, <2>4, <2>5
<1>. QED BY <1>5, <1>6

LEMMA BoundaryIsKept ==
  ASSUME Published, TypeOK, config # None, [Next]_vars,
         NEW a \in Asset, NEW e \in Nat, e <= CurrentEpoch
  PROVE  BoundaryPrice(a, e)' = BoundaryPrice(a, e)
<1>1. CurrentEpoch \in Nat /\ CurrentEpoch * Interval <= now /\ now \in Nat
  BY EpochFacts DEF TypeOK, Time
<1>2. e * Interval <= CurrentEpoch * Interval /\ e * Interval \in Nat
  BY <1>1, \A x, y, z \in Nat : x <= y => x * z <= y * z
<1>3. e * Interval <= now
  BY <1>1, <1>2
<1>. QED BY <1>2, <1>3, PriceIsKept DEF BoundaryPrice

\* A locked round has the price where its epoch began, a resolved one also that
\* of where it ended; both are in the past.
BoundaryInv ==
  \A a \in Asset, e \in Epoch :
    rounds[a][e] # None /\ rounds[a][e].status \in {"Locked", "Resolved"} =>
      /\ e <= CurrentEpoch
      /\ rounds[a][e].start_price = BoundaryPrice(a, e)
      /\ rounds[a][e].status = "Resolved" =>
           /\ e + 1 <= CurrentEpoch
           /\ rounds[a][e].end_price = BoundaryPrice(a, e + 1)

LEMMA NextBoundaries ==
  ASSUME Published, MarketInv, MarketInv', BoundaryInv, [Next]_vars
  PROVE  BoundaryInv'
<1> SUFFICES
      ASSUME NEW a \in Asset, NEW e \in Epoch, rounds'[a][e] # None,
             rounds'[a][e].status \in {"Locked", "Resolved"}
      PROVE  /\ e <= CurrentEpoch'
             /\ rounds'[a][e].start_price = BoundaryPrice(a, e)'
             /\ rounds'[a][e].status = "Resolved" =>
                  /\ e + 1 <= CurrentEpoch'
                  /\ rounds'[a][e].end_price = BoundaryPrice(a, e + 1)'
  BY DEF BoundaryInv, Epoch, LastEpoch
<1> USE DEF MarketInv
<1>1. /\ CurrentEpoch \in Nat /\ CurrentEpoch' \in Nat
      /\ CurrentEpoch <= CurrentEpoch' /\ e \in Nat /\ e + 1 \in Nat
  <2>1. now \in Nat /\ now' \in Nat
    BY DEF TypeOK, Time
  <2>2. CurrentEpoch \in Nat /\ CurrentEpoch' \in Nat
    BY <2>1, DivisionFacts DEF CurrentEpoch
  <2>3. e \in Nat
    BY LastEpochNat DEF Epoch
  <2>. QED BY <2>2, <2>3, EpochsAdvance
<1>2. rounds[a][e] # None =>
        /\ config # None
        /\ \A f \in Nat : f <= CurrentEpoch =>
             BoundaryPrice(a, f)' = BoundaryPrice(a, f)
  BY BoundaryIsKept DEF SetupInv
<1>3. CASE rounds'[a][e] = rounds[a][e]
  BY <1>1, <1>2, <1>3 DEF BoundaryInv
<1>4. CASE Locks(a, e)
  <2>1. /\ rounds[a][e] # None /\ e = CurrentEpoch
        /\ rounds'[a][e].status = "Locked"
        /\ rounds'[a][e].start_price = BoundaryPrice(a, e)
    BY <1>4, FateTerms DEF Locks, Is, RoundAt
  <2>. QED BY <1>1, <1>2, <2>1
<1>5. CASE Resolves(a, e)
  <2>1. /\ rounds[a][e] # None /\ e + 1 <= CurrentEpoch
        /\ rounds[a][e].status = "Locked"
        /\ rounds'[a][e].start_price = rounds[a][e].start_price
        /\ rounds'[a][e].end_price = BoundaryPrice(a, e + 1)
    BY <1>5, FateTerms DEF Resolves, Is, RoundAt
  <2>. QED BY <1>1, <1>2, <2>1 DEF BoundaryInv
<1>6. ~Opens(a, e) /\ ~Voids(a, e)
  <2>1. ~Opens(a, e)
    BY DEF Opens, NewRound
  <2>. QED BY <2>1, FateTerms
<1>7. \A u \in User, direction \in Direction, amount \in BetAmount :
        ~Takes(a, e, u, direction, amount)
  BY TakesTerms
<1>8. Fates(a, e)
  BY NextFates
<1>. QED BY <1>3, <1>4, <1>5, <1>6, <1>7, <1>8 DEF Fates, Moves, Stays, Pays

\* The outcome does not depend on when execute_round lands: provided prices are
\* published on time and the tolerance is not changed, a resolved round has the
\* prices of its own two boundaries, also when it was settled an epoch late.
THEOREM SettlesAtTheBoundaries ==
  ASSUME MaxLag = 0, Tolerance = {}
  PROVE  Spec => []SettledAtItsBoundaries
<1>1. Init => BoundaryInv
  BY DEF Init, BoundaryInv
<1>2. MarketInv /\ MarketInv' /\ BoundaryInv /\ [Next]_vars => BoundaryInv'
  BY NextBoundaries DEF Published
<1>3. BoundaryInv => SettledAtItsBoundaries
  BY DEF BoundaryInv, SettledAtItsBoundaries, Is, RoundAt
<1>. QED BY MarketInvariant, <1>1, <1>2, <1>3, PTL DEF Spec


\* The prices of a round are read by the calls that lock and resolve it.
PricedByTheFeed(a, e) ==
  /\ Final(a, e) => rounds'[a][e] = rounds[a][e]
  /\ Is(a, e, "Open") /\ Is(a, e, "Locked")' =>
       /\ rounds'[a][e].start_price = BoundaryPrice(a, e)
       /\ BoundaryPrice(a, e) \in Price
  /\ ~Is(a, e, "Resolved") /\ Is(a, e, "Resolved")' =>
       /\ Is(a, e, "Locked")
       /\ rounds'[a][e].start_price = rounds[a][e].start_price
       /\ rounds'[a][e].end_price = BoundaryPrice(a, e + 1)
       /\ BoundaryPrice(a, e + 1) \in Price

\* Also when prices are late or the tolerance changes: whenever execute_round
\* lands, it takes what the feed answers for the round's own boundaries and never
\* a stand-in, and a round that is resolved or cancelled does not change again.
THEOREM PricesAreOfTheBoundaries ==
  Spec => [][\A a \in Asset, e \in Epoch : PricedByTheFeed(a, e)]_vars
<1>1. ASSUME MarketInv, [Next]_vars, NEW a \in Asset, NEW e \in Epoch
      PROVE  PricedByTheFeed(a, e)
  <2>1. TypeOK /\ Fates(a, e)
    BY <1>1, NextFates DEF MarketInv
  <2>2. /\ Final(a, e) <=> /\ rounds[a][e] # None
                           /\ rounds[a][e].status \in {"Resolved", "Cancelled"}
        /\ \A s : Is(a, e, s) <=> rounds[a][e] # None /\ rounds[a][e].status = s
    BY FinalNow DEF FinalMeaning, Is, RoundAt
  <2>3. \A s : Is(a, e, s)' <=> rounds'[a][e] # None /\ rounds'[a][e].status = s
    BY DEF Is, RoundAt, Epoch, LastEpoch
  <2>4. CASE rounds'[a][e] = rounds[a][e]
    BY <2>2, <2>3, <2>4 DEF PricedByTheFeed
  <2>5. CASE Opens(a, e)
    <3>1. rounds[a][e] = None /\ rounds'[a][e].status = "Open"
      BY <2>5 DEF Opens, Exists, NewRound
    <3>. QED BY <2>2, <2>3, <3>1 DEF PricedByTheFeed
  <2>6. CASE Locks(a, e)
    <3>1. /\ rounds[a][e].status = "Open" /\ rounds'[a][e].status = "Locked"
          /\ rounds'[a][e].start_price = BoundaryPrice(a, e)
      BY <2>1, <2>6, FateTerms
    <3>2. BoundaryPrice(a, e) \in Price
      BY <2>6 DEF Locks
    <3>. QED BY <2>2, <2>3, <3>1, <3>2 DEF PricedByTheFeed
  <2>7. CASE Voids(a, e)
    <3>1. /\ rounds[a][e].status \in {"Open", "Locked"}
          /\ rounds'[a][e].status = "Cancelled"
      BY <2>1, <2>7, FateTerms
    <3>. QED BY <2>2, <2>3, <3>1 DEF PricedByTheFeed
  <2>8. CASE Resolves(a, e)
    <3>1. /\ Is(a, e, "Locked")
          /\ rounds[a][e].status = "Locked" /\ rounds'[a][e].status = "Resolved"
          /\ rounds'[a][e].start_price = rounds[a][e].start_price
          /\ rounds'[a][e].end_price = BoundaryPrice(a, e + 1)
          /\ BoundaryPrice(a, e + 1) \in Price
      BY <2>1, <2>8, FateTerms DEF Resolves
    <3>. QED BY <2>2, <2>3, <3>1 DEF PricedByTheFeed
  <2>9. ASSUME NEW u \in User, NEW direction \in Direction, NEW amount \in BetAmount,
               Takes(a, e, u, direction, amount)
        PROVE  PricedByTheFeed(a, e)
    <3>1. rounds[a][e].status = "Open" /\ rounds'[a][e].status = "Open"
      BY <2>1, <2>9, TakesTerms
    <3>. QED BY <2>2, <2>3, <3>1 DEF PricedByTheFeed
  <2>. QED BY <2>1, <2>4, <2>5, <2>6, <2>7, <2>8, <2>9
           DEF Fates, Moves, Stays, Pays
<1>2. MarketInv /\ [Next]_vars
        => [\A a \in Asset, e \in Epoch : PricedByTheFeed(a, e)]_vars
  BY <1>1
<1>. QED BY MarketInvariant, <1>2, PTL DEF Spec

-----------------------------------------------------------------------------
(* Only two missed calls in a row leave a round behind *)

Has(a, e, status) == rounds[a][e] # None /\ rounds[a][e].status = status

Closed(a, e) ==
  rounds[a][e] # None => rounds[a][e].status \in {"Resolved", "Cancelled"}

\* The epochs whose round may have been left behind.
Missed(a) == {e \in Epoch : CallsMissed(a, e)}

\* t is the newest round of a: it is open; but for calls that were missed since,
\* the one before it is not open any more and all the earlier ones are final.
Pipeline(a, t) ==
  /\ t <= CurrentEpoch + 1
  /\ Has(a, t, "Open")
  /\ \A e \in Epoch :
       /\ e > t => rounds[a][e] = None
       /\ e = t - 1 => ~Has(a, e, "Open") \/ e \in Missed(a)
       /\ e < t - 1 => Closed(a, e) \/ e \in Missed(a)
  /\ genesis[a] = "Started" => \A e \in Epoch \ {t} : rounds[a][e] = None

PipelineInv ==
  \A a \in Asset : genesis[a] # "None" => \E t \in Epoch : Pipeline(a, t)

LEMMA SettleCloses ==
  ASSUME NEW round \in Round, NEW price
  PROVE  Settle(round, price).status \in {"Resolved", "Cancelled"}
<1>1. CASE price = None
  BY <1>1 DEF Settle, Round
<1>2. CASE price # None
  BY <1>2 DEF Settle, Round
<1>. QED BY <1>1, <1>2

LEMMA LockTakes ==
  ASSUME NEW round \in Round, NEW price
  PROVE  Lock(round, price).status \in {"Locked", "Cancelled"}
BY DEF Lock, Round

LEMMA NewIsOpen == NewRound # None /\ NewRound.status = "Open"
<1>1. NewRound \in Round
  BY DEF NewRound, Round
<1>. QED BY <1>1 DEF NewRound

\* What execute_round leaves in each epoch.
LEMMA ExecuteStatus ==
  ASSUME TypeOK, NEW a \in Asset, ExecuteRound(a), NEW e \in Epoch
  PROVE  /\ e = CurrentEpoch + 1 =>
              rounds'[a][e] = Opened(rounds[a][e])
         /\ e = CurrentEpoch => ~(rounds'[a][e] # None
                                   /\ rounds'[a][e].status = "Open")
         /\ e = CurrentEpoch - 1 /\ rounds'[a][e] # None =>
              rounds'[a][e].status \in {"Resolved", "Cancelled"}
         /\ e = CurrentEpoch - 2 /\ ~Has(a, e, "Open") /\ rounds'[a][e] # None =>
              rounds'[a][e].status \in {"Resolved", "Cancelled"}
         /\ e > CurrentEpoch + 1 \/ e < CurrentEpoch - 2 =>
              rounds'[a][e] = rounds[a][e]
<1> DEFINE c == CurrentEpoch
           round == rounds[a][e]
<1>1. rounds'[a][e] = Executed(a)[e]
  BY DEF ExecuteRound, TypeOK
<1>2. RoundAt(a, e) = round /\ \A s : Is(a, e, s) <=> round # None /\ round.status = s
  BY DEF Is, RoundAt
<1>3. c \in Nat /\ e \in Nat
  BY EpochFacts DEF TypeOK, Epoch
<1>4. round \in Round \cup {None}
      /\ (round \in Round =>
            round.status \in {"Open", "Locked", "Resolved", "Cancelled"})
  BY DEF TypeOK, Round
<1> HIDE DEF c, round
<1>5. CASE e = c + 1
  <2>1. e # c /\ e # c - 1 /\ e # c - 2 /\ ~(e > c + 1) /\ ~(e < c - 2)
    BY <1>3, <1>5
  <2>2. rounds'[a][e] = Opened(round)
    BY <1>1, <1>2, <1>5, <2>1 DEF Executed, c
  <2>. QED BY <1>5, <2>1, <2>2 DEF c, round
<1>6. CASE e = c
  <2>1. e # c + 1 /\ e # c - 1 /\ e # c - 2 /\ ~(e > c + 1) /\ ~(e < c - 2)
    BY <1>3, <1>6
  <2>2. rounds'[a][e] = IF Is(a, e, "Open") THEN Lock(round, BoundaryPrice(a, e))
                        ELSE round
    BY <1>1, <1>2, <1>6, <2>1 DEF Executed, LockIfOpen, c
  <2>3. ~(rounds'[a][e] # None /\ rounds'[a][e].status = "Open")
    BY <1>2, <1>4, <2>2, LockTakes
  <2>. QED BY <1>6, <2>1, <2>3 DEF c
<1>7. CASE e = c - 1
  <2>1. e # c + 1 /\ e # c /\ e # c - 2 /\ ~(e > c + 1) /\ ~(e < c - 2)
    BY <1>3, <1>7
  <2>2. rounds'[a][e] = Close(a, e, BoundaryPrice(a, c))
    BY <1>1, <1>7, <2>1 DEF Executed, c
  <2>3. rounds'[a][e] # None => rounds'[a][e].status \in {"Resolved", "Cancelled"}
    <3>1. CASE Is(a, e, "Locked")
      BY <1>2, <1>4, <2>2, <3>1, SettleCloses DEF Close
    <3>2. CASE Is(a, e, "Open")
      <4>1. round \in Round /\ rounds'[a][e] = [round EXCEPT !.status = "Cancelled"]
        BY <1>2, <1>4, <2>2, <3>2 DEF Close
      <4>. QED BY <4>1 DEF Round
    <3>3. CASE ~Is(a, e, "Locked") /\ ~Is(a, e, "Open")
      BY <1>2, <1>4, <2>2, <3>3 DEF Close
    <3>. QED BY <3>1, <3>2, <3>3
  <2>. QED BY <1>7, <2>1, <2>3 DEF c
<1>8. CASE e = c - 2
  <2>1. e # c + 1 /\ e # c /\ e # c - 1 /\ ~(e > c + 1) /\ ~(e < c - 2)
    BY <1>3, <1>8
  <2>2. rounds'[a][e] = RetroSettle(a, e)
    BY <1>1, <1>8, <2>1 DEF Executed, c
  <2>3. ~Has(a, e, "Open") /\ rounds'[a][e] # None =>
          rounds'[a][e].status \in {"Resolved", "Cancelled"}
    BY <1>2, <1>4, <2>2, SettleCloses DEF RetroSettle, Has, round
  <2>. QED BY <1>8, <2>1, <2>3 DEF c
<1>9. CASE e # c + 1 /\ e # c /\ e # c - 1 /\ e # c - 2
  <2>1. rounds'[a][e] = round
    BY <1>1, <1>2, <1>3, <1>9 DEF Executed, c
  <2>. QED BY <1>9, <2>1 DEF c, round
<1>. QED BY <1>5, <1>6, <1>7, <1>8, <1>9


\* Where the newest round is of an epoch before the last one, calls were missed.
LEMMA BehindIsMissed ==
  ASSUME TypeOK, NEW a \in Asset, NEW t \in Epoch, NEW e \in Epoch,
         \A f \in Epoch : f > t => rounds[a][f] = None,
         t + 1 < CurrentEpoch, e <= t
  PROVE  e \in Missed(a)
<1>1. /\ CurrentEpoch \in Nat /\ LastEpoch \in Nat /\ CurrentEpoch + 1 \in Epoch
      /\ t \in Nat /\ e \in Nat
  BY EpochFacts, LastEpochNat DEF TypeOK, Epoch
<1>2. /\ t + 1 \in Epoch /\ e < t + 1 /\ t + 1 > t /\ t + 2 > t
      /\ (t + 1) + 1 = t + 2
  BY <1>1 DEF Epoch
<1>3. RoundAt(a, t + 1) = None /\ RoundAt(a, (t + 1) + 1) = None
  BY <1>2 DEF RoundAt
<1>. QED BY <1>2, <1>3 DEF CallsMissed, Missed

\* What was missed stays missed.
Frozen(a) ==
  /\ CurrentEpoch <= CurrentEpoch'
  /\ \A e \in Epoch :
       e <= CurrentEpoch /\ rounds[a][e] = None => rounds'[a][e] = None

LEMMA MissedStays ==
  ASSUME TypeOK, TypeOK', NEW a \in Asset, Frozen(a)
  PROVE  Missed(a) \subseteq Missed(a)'
<1> SUFFICES ASSUME NEW e \in Epoch, CallsMissed(a, e)
             PROVE  CallsMissed(a, e)'
  BY DEF Missed, Epoch, LastEpoch
<1>1. PICK f \in Epoch :
        /\ e < f /\ f < CurrentEpoch
        /\ RoundAt(a, f) = None /\ RoundAt(a, f + 1) = None
  BY DEF CallsMissed
<1>2. /\ CurrentEpoch \in Nat /\ CurrentEpoch' \in Nat
      /\ f \in Nat /\ f + 1 <= CurrentEpoch /\ f <= CurrentEpoch /\ f < CurrentEpoch'
  <2>1. CurrentEpoch \in Nat /\ CurrentEpoch' \in Nat
    <3>1. now \in Nat /\ now' \in Nat
      BY DEF TypeOK, Time
    <3>. QED BY <3>1, DivisionFacts DEF CurrentEpoch
  <2>. QED BY <1>1, <2>1, LastEpochNat DEF Frozen, Epoch
<1>3. ASSUME NEW g, g <= CurrentEpoch, RoundAt(a, g) = None
      PROVE  RoundAt(a, g)' = None
  BY <1>3 DEF RoundAt, Frozen, Epoch, LastEpoch
<1>4. RoundAt(a, f)' = None /\ RoundAt(a, f + 1)' = None
  BY <1>1, <1>2, <1>3
<1>. QED BY <1>1, <1>2, <1>4 DEF CallsMissed, Epoch, LastEpoch

LEMMA ExecuteFreezes ==
  ASSUME TypeOK, NEW a \in Asset, ExecuteRound(a)
  PROVE  Frozen(a)
<1>1. CurrentEpoch \in Nat /\ CurrentEpoch' = CurrentEpoch
  BY EpochFacts DEF TypeOK, ExecuteRound, environment, CurrentEpoch
<1>2. ASSUME NEW e \in Epoch, e <= CurrentEpoch, rounds[a][e] = None
      PROVE  rounds'[a][e] = None
  <2>1. RoundAt(a, e) = None /\ \A s : ~Is(a, e, s)
    BY <1>2 DEF Is, RoundAt
  <2>2. rounds'[a][e] = Executed(a)[e]
    BY DEF ExecuteRound, TypeOK
  <2>3. e # CurrentEpoch + 1
    BY <1>1, <1>2, LastEpochNat DEF Epoch
  <2>. QED BY <2>1, <2>2, <2>3 DEF Executed, RetroSettle, Close, LockIfOpen
<1>. QED BY <1>1, <1>2 DEF Frozen

LEMMA ExecutePipeline ==
  ASSUME TypeOK, TypeOK', NEW a \in Asset, ExecuteRound(a),
         NEW t \in Epoch, Pipeline(a, t)
  PROVE  \E T \in Epoch : Pipeline(a, T)'
<1> DEFINE c == CurrentEpoch
<1>1. /\ c \in Nat /\ t \in Nat /\ c + 1 \in Epoch /\ CurrentEpoch' = c
      /\ \A e \in Epoch : e \in Nat
  <2>1. CurrentEpoch' = c
    BY DEF ExecuteRound, environment, CurrentEpoch
  <2>2. \A e \in Epoch : e \in Nat
    BY LastEpochNat DEF Epoch
  <2>. QED BY <2>1, <2>2, EpochFacts DEF TypeOK
<1>2. genesis[a] = "Running" /\ genesis' = genesis
  BY DEF ExecuteRound
<1>3. /\ t <= c + 1 /\ Has(a, t, "Open")
      /\ \A e \in Epoch :
           /\ e > t => rounds[a][e] = None
           /\ e = t - 1 => ~Has(a, e, "Open") \/ e \in Missed(a)
           /\ e < t - 1 => Closed(a, e) \/ e \in Missed(a)
  BY DEF Pipeline
<1>4. \A e \in Epoch : e <= t /\ t + 1 < c => e \in Missed(a)
  BY <1>3, BehindIsMissed
<1>5. Missed(a) \subseteq Missed(a)'
  BY ExecuteFreezes, MissedStays
<1>6. \A e \in Epoch : e <= c /\ rounds[a][e] = None => rounds'[a][e] = None
  BY ExecuteFreezes DEF Frozen
<1> HIDE DEF c
<1>7. \A e \in Epoch :
        /\ e = c + 1 => rounds'[a][e] = Opened(rounds[a][e])
        /\ e = c => ~(rounds'[a][e] # None /\ rounds'[a][e].status = "Open")
        /\ e = c - 1 /\ rounds'[a][e] # None =>
             rounds'[a][e].status \in {"Resolved", "Cancelled"}
        /\ e = c - 2 /\ ~Has(a, e, "Open") /\ rounds'[a][e] # None =>
             rounds'[a][e].status \in {"Resolved", "Cancelled"}
        /\ e > c + 1 \/ e < c - 2 => rounds'[a][e] = rounds[a][e]
  BY ExecuteStatus DEF c
<1>8. rounds'[a][c + 1] # None /\ rounds'[a][c + 1].status = "Open"
  <2>1. CASE t = c + 1
    BY <1>1, <1>3, <1>7, <2>1 DEF Has, Opened
  <2>2. CASE t # c + 1
    <3>1. rounds[a][c + 1] = None
      BY <1>1, <1>3, <2>2
    <3>. QED BY <1>1, <1>7, <3>1, NewIsOpen DEF Opened
  <2>. QED BY <2>1, <2>2
<1>9. ASSUME NEW e \in Epoch, e > c + 1 PROVE rounds'[a][e] = None
  <2>1. e > t
    <3>1. e \in Nat
      BY <1>1
    <3>. QED BY <1>1, <1>3, <1>9, <3>1
  <2>. QED BY <1>3, <1>7, <1>9, <2>1
<1>10. ASSUME NEW e \in Epoch, e < c, rounds'[a][e] # None, e \notin Missed(a)
       PROVE  rounds'[a][e].status \in {"Resolved", "Cancelled"}
  <2>1. e \in Nat /\ e <= t /\ ~(t + 1 < c)
    <3>1. e \in Nat
      BY <1>1
    <3>2. ~(e > t)
      BY <1>1, <1>3, <1>6, <1>10, <3>1
    <3>. QED BY <1>1, <1>4, <1>10, <3>1, <3>2
  <2>2. CASE e = c - 1
    BY <1>7, <1>10, <2>2
  <2>3. CASE e = c - 2
    <3>1. e = t - 1 \/ e < t - 1
      BY <1>1, <2>1, <2>3
    <3>2. ~Has(a, e, "Open")
      BY <1>3, <1>10, <3>1 DEF Has, Closed
    <3>. QED BY <1>7, <1>10, <2>3, <3>2
  <2>4. CASE e < c - 2
    <3>1. e < t - 1
      BY <1>1, <2>1, <2>4
    <3>2. rounds'[a][e] = rounds[a][e]
      BY <1>7, <2>4
    <3>. QED BY <1>3, <1>10, <3>1, <3>2 DEF Closed
  <2>. QED BY <1>1, <1>10, <2>1, <2>2, <2>3, <2>4
<1> PICK T \in Epoch : T = c + 1
  BY <1>1
<1>11. /\ T <= c + 1
       /\ rounds'[a][T] # None /\ rounds'[a][T].status = "Open"
       /\ \A e \in Epoch :
            /\ e > T => rounds'[a][e] = None
            /\ e = T - 1 => ~(rounds'[a][e] # None /\ rounds'[a][e].status = "Open")
            /\ e < T - 1 /\ rounds'[a][e] # None =>
                 \/ rounds'[a][e].status \in {"Resolved", "Cancelled"}
                 \/ e \in Missed(a)'
  <2>1. T - 1 = c /\ T <= c + 1
    BY <1>1
  <2>2. \A e \in Epoch :
          /\ e > T => rounds'[a][e] = None
          /\ e = c => ~(rounds'[a][e] # None /\ rounds'[a][e].status = "Open")
          /\ e < c /\ rounds'[a][e] # None =>
               \/ rounds'[a][e].status \in {"Resolved", "Cancelled"}
               \/ e \in Missed(a)'
    BY <1>5, <1>7, <1>9, <1>10
  <2>. QED BY <1>8, <2>1, <2>2
<1>12. genesis'[a] # "Started"
  BY <1>2
<1>13. Pipeline(a, T)'
  BY <1>1, <1>11, <1>12 DEF Pipeline, Has, Closed, Epoch, LastEpoch
<1>. QED BY <1>13

LEMMA GenesisPipeline ==
  ASSUME TypeOK, SetupInv, PipelineInv, NEW a \in Asset,
         GenesisStart(a) \/ GenesisLock(a)
  PROVE  \E t \in Epoch : Pipeline(a, t)'
<1> DEFINE c == CurrentEpoch
<1>1. /\ c \in Nat /\ c + 1 \in Epoch /\ CurrentEpoch' = c
      /\ \A e \in Epoch : e \in Nat
  <2>1. CurrentEpoch' = c
    BY DEF GenesisStart, GenesisLock, environment, CurrentEpoch
  <2>2. \A e \in Epoch : e \in Nat
    BY LastEpochNat DEF Epoch
  <2>. QED BY <2>1, <2>2, EpochFacts DEF TypeOK
<1>2. rounds \in [Asset -> [Epoch -> Round \cup {None}]]
      /\ genesis \in [Asset -> {"None", "Started", "Running"}]
  BY DEF TypeOK
<1> PICK T \in Epoch : T = c + 1
  BY <1>1
<1>3. CASE GenesisStart(a)
  <2>1. \A e \in Epoch : rounds[a][e] = None
    BY <1>3 DEF GenesisStart, SetupInv
  <2>2. rounds' = [rounds EXCEPT ![a][T] = NewRound]
    BY <1>3 DEF GenesisStart
  <2>3. rounds'[a][T] = NewRound /\ \A e \in Epoch : e # T => rounds'[a][e] = None
    BY <1>1, <1>2, <2>1, <2>2
  <2>4. rounds'[a][T] # None /\ rounds'[a][T].status = "Open"
    BY <2>3, NewIsOpen
  <2>5. T <= c + 1 /\ T # T - 1
    BY <1>1
  <2>6. \A e \in Epoch : e > T \/ e = T - 1 \/ e < T - 1 => rounds'[a][e] = None
    BY <1>1, <2>3
  <2> HIDE DEF c
  <2>7. Pipeline(a, T)'
    BY <1>1, <2>3, <2>4, <2>5, <2>6
       DEF Pipeline, Has, Closed, Epoch, LastEpoch
  <2>. QED BY <2>7
<1>4. CASE GenesisLock(a)
  <2>1. genesis[a] = "Started" /\ genesis'[a] = "Running" /\ Is(a, c, "Open")
        /\ rounds' = [rounds EXCEPT ![a] =
             [@ EXCEPT ![c] = Lock(RoundAt(a, c), BoundaryPrice(a, c)),
                       ![c + 1] = Opened(RoundAt(a, c + 1))]]
    BY <1>2, <1>4 DEF GenesisLock
  <2>2. c \in Epoch /\ rounds[a][c] # None /\ RoundAt(a, c) = rounds[a][c]
        /\ RoundAt(a, c + 1) = rounds[a][c + 1] /\ rounds[a][c] \in Round
    BY <1>1, <1>2, <2>1 DEF Is, RoundAt
  <2>3. PICK t \in Epoch : Pipeline(a, t)
    BY <2>1 DEF PipelineInv
  <2>4. t = c /\ \A e \in Epoch \ {c} : rounds[a][e] = None
    BY <2>1, <2>2, <2>3 DEF Pipeline
  <2> HIDE DEF c
  <2>5. rounds[a] \in [Epoch -> Round \cup {None}] /\ c # c + 1
    BY <1>1, <1>2
  <2>6. rounds'[a] = [rounds[a] EXCEPT ![c] = Lock(rounds[a][c], BoundaryPrice(a, c)),
                                       ![c + 1] = Opened(rounds[a][c + 1])]
    BY <1>2, <2>1, <2>2
  <2>7. /\ rounds'[a][c] = Lock(rounds[a][c], BoundaryPrice(a, c))
        /\ rounds'[a][c + 1] = Opened(rounds[a][c + 1])
        /\ \A e \in Epoch : e # c /\ e # c + 1 => rounds'[a][e] = rounds[a][e]
    BY <1>1, <2>2, <2>5, <2>6
  <2>8. /\ ~(rounds'[a][c] # None /\ rounds'[a][c].status = "Open")
        /\ rounds'[a][c + 1] # None /\ rounds'[a][c + 1].status = "Open"
        /\ \A e \in Epoch : e # c /\ e # c + 1 => rounds'[a][e] = None
    BY <1>1, <2>2, <2>4, <2>5, <2>7, LockTakes, NewIsOpen DEF Opened
  <2>9. T <= c + 1 /\ T - 1 = c
    BY <1>1
  <2>10. \A e \in Epoch : e > T \/ e < c => rounds'[a][e] = None
    BY <1>1, <2>8
  <2>11. Pipeline(a, T)'
    <3>1. rounds'[a][T] # None /\ rounds'[a][T].status = "Open"
      BY <2>8
    <3>2. \A e \in Epoch :
            /\ e > T => rounds'[a][e] = None
            /\ e = T - 1 => ~(rounds'[a][e] # None /\ rounds'[a][e].status = "Open")
            /\ e < T - 1 => rounds'[a][e] = None
      BY <2>8, <2>9, <2>10
    <3>3. CurrentEpoch' = c
      BY <1>1
    <3>4. T <= c + 1 /\ genesis'[a] # "Started"
      BY <2>1, <2>9
    <3>. QED BY <3>1, <3>2, <3>3, <3>4
             DEF Pipeline, Has, Closed, Epoch, LastEpoch
  <2>. QED BY <2>11
<1>. QED BY <1>3, <1>4


\* The rounds of a are what they were, up to their pools.
SameStatus(a) ==
  \A e \in Epoch :
    /\ rounds'[a][e] = None <=> rounds[a][e] = None
    /\ rounds[a][e] # None => rounds'[a][e].status = rounds[a][e].status

LEMMA StatusSteps ==
  ASSUME TypeOK, TypeOK', [Next]_vars, NEW a \in Asset
  PROVE  \/ GenesisStart(a) \/ GenesisLock(a) \/ ExecuteRound(a)
         \/ SameStatus(a) /\ genesis'[a] = genesis[a]
<1>1. CASE Quiet \/ ClaimTreasury
  BY <1>1, QuietKeeps DEF ClaimTreasury, entries, SameStatus
<1>2. ASSUME NEW b \in Asset, GenesisStart(b) \/ GenesisLock(b) \/ ExecuteRound(b),
             b # a
      PROVE  SameStatus(a) /\ genesis'[a] = genesis[a]
  BY <1>2 DEF GenesisStart, GenesisLock, ExecuteRound, SameStatus, TypeOK
<1>3. ASSUME NEW u \in User, NEW b \in Asset, NEW e \in Epoch,
             NEW direction \in Direction, NEW amount \in BetAmount,
             Bet(u, b, e, direction, amount)
      PROVE  SameStatus(a) /\ genesis' = genesis
  <2>1. genesis' = genesis
    BY <1>3 DEF Bet
  <2>2. ASSUME NEW f \in Epoch
        PROVE  /\ rounds'[a][f] = None <=> rounds[a][f] = None
               /\ rounds[a][f] # None => rounds'[a][f].status = rounds[a][f].status
    <3>1. CASE a = b /\ f = e
      <4>1. Takes(a, f, u, direction, amount)
        BY <1>3, <3>1, BetFates
      <4>2. /\ rounds[a][f] \in Round /\ rounds'[a][f] \in Round
            /\ rounds[a][f].status = "Open" /\ rounds'[a][f].status = "Open"
        BY <4>1, TakesTerms
      <4>. QED BY <4>2
    <3>2. CASE ~(a = b /\ f = e)
      BY <1>3, <3>2, BetFates DEF Stays
    <3>. QED BY <3>1, <3>2
  <2>. QED BY <2>1, <2>2 DEF SameStatus
<1>4. ASSUME NEW u \in User, NEW b \in Asset, NEW paid \in SUBSET Epoch,
             Paying(u, b, paid)
      PROVE  SameStatus(a) /\ genesis' = genesis
  BY <1>4 DEF Paying, PayOut, SameStatus
<1>. QED BY <1>1, <1>2, <1>3, <1>4, Steps

LEMMA ClockSteps ==
  ASSUME TypeOK, TypeOK', [Next]_vars
  PROVE  CurrentEpoch' = CurrentEpoch \/ CurrentEpoch' = CurrentEpoch + 1
<1>1. now' = now \/ now' = now + 1
  BY CallFrames DEF Quiet, Initialize, Pause, Unpause, SetConfig, AdvanceTime,
                    LateTick, vars, environment
<1>2. now \in Nat /\ now' \in Nat
  BY DEF TypeOK, Time
<1>3. \A n \in Nat, k \in Nat \ {0} :
        (n + 1) \div k = n \div k \/ (n + 1) \div k = n \div k + 1
  OBVIOUS
<1>. QED BY <1>1, <1>2, <1>3 DEF CurrentEpoch

LEMMA SameStatusPipeline ==
  ASSUME TypeOK, TypeOK', [Next]_vars, NEW a \in Asset, SameStatus(a),
         genesis'[a] = genesis[a], NEW t \in Epoch, Pipeline(a, t)
  PROVE  Pipeline(a, t)'
<1>1. /\ CurrentEpoch \in Nat /\ CurrentEpoch' \in Nat /\ CurrentEpoch <= CurrentEpoch'
      /\ t \in Nat
  <2>1. CurrentEpoch \in Nat /\ t \in Nat
    BY EpochFacts, LastEpochNat DEF TypeOK, Epoch
  <2>. QED BY <2>1, ClockSteps
<1>2. Frozen(a)
  BY <1>1 DEF Frozen, SameStatus
<1>3. Missed(a) \subseteq Missed(a)'
  BY <1>2, MissedStays
<1>4. /\ t <= CurrentEpoch + 1
      /\ Has(a, t, "Open")
      /\ \A e \in Epoch :
           /\ e > t => rounds[a][e] = None
           /\ e = t - 1 => ~Has(a, e, "Open") \/ e \in Missed(a)
           /\ e < t - 1 => Closed(a, e) \/ e \in Missed(a)
      /\ genesis[a] = "Started" => \A e \in Epoch \ {t} : rounds[a][e] = None
  BY DEF Pipeline
<1>5. t <= CurrentEpoch' + 1 /\ Has(a, t, "Open")'
  <2>1. t <= CurrentEpoch' + 1
    BY <1>1, <1>4
  <2>2. rounds'[a][t] # None /\ rounds'[a][t].status = "Open"
    BY <1>4 DEF SameStatus, Has
  <2>. QED BY <2>1, <2>2 DEF Has
<1>6. \A e \in Epoch :
        /\ e > t => rounds'[a][e] = None
        /\ e = t - 1 => ~Has(a, e, "Open")' \/ e \in Missed(a)'
        /\ e < t - 1 => Closed(a, e)' \/ e \in Missed(a)'
  BY <1>3, <1>4 DEF SameStatus, Has, Closed
<1>7. genesis'[a] = "Started" => \A e \in Epoch \ {t} : rounds'[a][e] = None
  BY <1>4 DEF SameStatus
<1>. QED BY <1>5, <1>6, <1>7 DEF Pipeline, Has, Closed, Epoch, LastEpoch

LEMMA NextPipeline ==
  ASSUME TypeOK, TypeOK', SetupInv, PipelineInv, [Next]_vars
  PROVE  PipelineInv'
<1> SUFFICES ASSUME NEW a \in Asset, genesis'[a] # "None"
             PROVE  \E t \in Epoch : Pipeline(a, t)'
  BY DEF PipelineInv, Epoch, LastEpoch
<1>1. CASE GenesisStart(a) \/ GenesisLock(a)
  BY <1>1, GenesisPipeline
<1>2. CASE ExecuteRound(a)
  <2>1. PICK t \in Epoch : Pipeline(a, t)
    BY <1>2 DEF ExecuteRound, PipelineInv
  <2>. QED BY <1>2, <2>1, ExecutePipeline
<1>3. CASE SameStatus(a) /\ genesis'[a] = genesis[a]
  <2>1. PICK t \in Epoch : Pipeline(a, t)
    BY <1>3 DEF PipelineInv
  <2>. QED BY <1>3, <2>1, SameStatusPipeline
<1>. QED BY <1>1, <1>2, <1>3, StatusSteps

LEMMA PipelineLeavesNone ==
  ASSUME TypeOK, SetupInv, PipelineInv PROVE NothingStranded
<1> SUFFICES ASSUME NEW a \in Asset, NEW e \in Epoch, rounds[a][e] # None,
                    \/ e + 2 < CurrentEpoch
                    \/ e < CurrentEpoch /\ RoundAt(a, CurrentEpoch + 1) # None,
                    ~CallsMissed(a, e)
             PROVE  Final(a, e)
  BY DEF NothingStranded
<1>1. /\ CurrentEpoch \in Nat /\ CurrentEpoch + 1 \in Epoch
      /\ \A f \in Epoch : f \in Nat
  BY EpochFacts, LastEpochNat DEF TypeOK, Epoch
<1>2. PICK t \in Epoch : Pipeline(a, t)
  BY DEF SetupInv, PipelineInv
<1>3. e < t - 1
  <2>1. t \in Nat /\ e \in Nat /\ t <= CurrentEpoch + 1
        /\ \A f \in Epoch : f > t => rounds[a][f] = None
    BY <1>1, <1>2 DEF Pipeline
  <2>2. e <= t
    BY <2>1
  <2>3. CASE e + 2 < CurrentEpoch
    <3>1. ~(t + 1 < CurrentEpoch)
      BY <2>1, <2>2, BehindIsMissed DEF Missed
    <3>. QED BY <1>1, <2>1, <2>3, <3>1
  <2>4. CASE e < CurrentEpoch /\ RoundAt(a, CurrentEpoch + 1) # None
    <3>1. ~(CurrentEpoch + 1 > t)
      BY <1>1, <2>1, <2>4 DEF RoundAt
    <3>. QED BY <1>1, <2>1, <2>4, <3>1
  <2>. QED BY <2>3, <2>4
<1>4. rounds[a][e].status \in {"Resolved", "Cancelled"}
  BY <1>2, <1>3 DEF Pipeline, Closed, Missed
<1>. QED BY <1>4, FinalNow DEF FinalMeaning

\* Whatever calls are missed, late or refused, only two missed in a row leave a
\* round behind: but for those, once execute_round has run in an epoch every earlier
\* round is final, and two epochs after its own a round is final in any case.
THEOREM OnlyMissedCallsStrand == Spec => []NothingStranded
<1>1. Init => PipelineInv
  BY DEF Init, PipelineInv
<1>2. MarketInv /\ MarketInv' /\ PipelineInv /\ [Next]_vars => PipelineInv'
  BY NextPipeline DEF MarketInv
<1>3. MarketInv /\ PipelineInv => NothingStranded
  BY PipelineLeavesNone DEF MarketInv
<1>. QED BY MarketInvariant, <1>1, <1>2, <1>3, PTL DEF Spec

=============================================================================
