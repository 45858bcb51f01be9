----------------------------- MODULE WickPredict -----------------------------
(***************************************************************************)
(* contracts/wick-predict on the test oracle: above or below the price at  *)
(* which the round was opened.  A stake weighs more the earlier it is      *)
(* placed; winners share 70% of what the losers leave and everybody shares *)
(* the other 30%, by weight.  One contract is one market.                  *)
(***************************************************************************)
EXTENDS Integers, FiniteSets, Sums, TestOracle

CONSTANTS
  Feed,            \* config.asset
  NumUsers,        \* bettors are 1..NumUsers
  MaxRounds,       \* bound: rounds are numbered 1..MaxRounds
  MaxTime,         \* bound: the ledger clock stops at MaxTime
  MaxBets,         \* bound: on the number of stakes
  BetAmount,       \* the stakes a bettor may try
  FeeBps, LockOffset, OracleInterval,   \* the settings the admin may try
  MinBet, MaxFeeBps, MinLockOffset,
  BpsDenominator,  \* 10_000 in the code
  WinnerPct, RefundPct, PctDenominator,   \* 7_000, 3_000 and 10_000
  TempThreshold, TempBump,
  None             \* an absent storage entry

User == 1..NumUsers
RoundId == 1..MaxRounds
Side == {"Above", "Below"}
Outcome == {"Above", "Below", "Void"}

Config == [fee_bps : 0..MaxFeeBps, lock_offset : Nat, oracle_interval : Nat]

Round == [strike : Price, strike_ts : Nat, lock_ts : Nat, settle_ts : Nat,
          pool : [Side -> Nat], boosted : [Side -> Nat],
          status : {"Open", "Settled"}, outcome : Outcome, live_until : Nat]

SeenRound == [strike : Price, strike_ts : Nat, lock_ts : Nat, settle_ts : Nat,
              sides : SUBSET Side, status : {"Open", "Settled"}, outcome : Outcome]

Position == [side : Side, amount : Nat, boosted : Nat, claimed : BOOLEAN,
             live_until : Nat]

ASSUME WickAssumption ==
  /\ Feed \in Symbol
  /\ NumUsers \in Nat /\ MaxRounds \in Nat /\ MaxTime \in Nat \ {0} /\ MaxBets \in Nat
  /\ BetAmount \subseteq Nat /\ FeeBps \subseteq Nat
  /\ LockOffset \subseteq Nat /\ OracleInterval \subseteq Nat
  /\ MinBet \in Nat /\ MinLockOffset \in Nat /\ BpsDenominator \in Nat \ {0}
  /\ MaxFeeBps \in 0..BpsDenominator
  /\ WinnerPct \in Nat /\ RefundPct \in Nat /\ PctDenominator \in Nat \ {0}
  /\ WinnerPct + RefundPct = PctDenominator
  /\ TempThreshold \in Nat /\ TempBump \in Nat

ASSUME NoneAssumption ==
  /\ None \notin Round \cup SeenRound \cup Position \cup Config \cup PriceData
  /\ NoPrice \notin PriceData

VARIABLES
  config,         \* Key::Config
  counter,        \* Key::Counter
  fees,           \* Key::Fees
  lastStrikeTs,   \* Key::LastStrikeTs
  rounds,         \* Key::Round
  positions,      \* Key::Position
  vault,          \* the contract's balance in the token
  escrow          \* history: what of the vault belongs to each round

vars == <<now, oracle, config, counter, fees, lastStrikeTs, rounds, positions,
          vault, escrow>>
environment == <<now, oracle>>

-----------------------------------------------------------------------------
(* Payouts *)

Settled(r) == rounds[r] # None /\ rounds[r].status = "Settled"

Opposite(side) == IF side = "Above" THEN "Below" ELSE "Above"

\* boosted_shares: the time left to lock_ts is the weight of each token.
WeightFromStrike(round, amount) == amount * (now - round.strike_ts) \* mutant: late bets weigh more

Boosted(round, amount) == amount * (round.lock_ts - now)

Fee(losingPool, bps) == (losingPool * bps) \div BpsDenominator

\* What the losers leave, at the fee of the moment of the claim.
Distributed(round) ==
  LET losing == round.pool[Opposite(round.outcome)]
  IN losing - Fee(losing, config.fee_bps)

\* pct of what is distributed, by weight.
Share(round, pct, weight, ofAll) ==
  IF ofAll = 0 THEN 0
  ELSE (((Distributed(round) * pct) \div PctDenominator) * weight) \div ofAll

WinnerBonus(round, pos) ==
  Share(round, WinnerPct, pos.boosted, round.boosted[pos.side])

RefundOfSide(round, pos) == \* mutant: shared by each side on its own
  Share(round, RefundPct, pos.boosted, round.boosted[pos.side])

Refund(round, pos) ==
  Share(round, RefundPct, pos.boosted, round.boosted["Above"] + round.boosted["Below"])

\* winner_payout and loser_payout
Worth(round, pos) ==
  IF round.outcome = "Void" THEN pos.amount
  ELSE IF pos.side = round.outcome
  THEN pos.amount + WinnerBonus(round, pos) + Refund(round, pos)
  ELSE Refund(round, pos)

ClaimableAgain(r, u) == Settled(r) /\ positions[r][u] # None \* mutant: claimed unread

Claimable(r, u) ==
  /\ Settled(r)
  /\ positions[r][u] # None
  /\ ~positions[r][u].claimed

\* extend_ttl(threshold, bump)
Extended(liveUntil) ==
  IF liveUntil - now <= TempThreshold THEN now + TempBump ELSE liveUntil

-----------------------------------------------------------------------------
(* The contract *)

Init ==
  /\ now = 1
  /\ OracleInit
  /\ config = None
  /\ counter = 0 /\ fees = 0 /\ lastStrikeTs = 0
  /\ rounds = [r \in RoundId |-> None]
  /\ positions = [r \in RoundId |-> [u \in User |-> None]]
  /\ vault = 0
  /\ escrow = [r \in RoundId |-> 0]

FeeBelowWhole(bps) == bps <= BpsDenominator \* mutant: MAX_FEE_BPS unread

FeeAllowed(bps) == bps <= MaxFeeBps

\* The interval is taken as it is given, also one that is not above the offset.
Initialize(fee, offset, interval) ==
  /\ config = None
  /\ FeeAllowed(fee)
  /\ offset >= MinLockOffset
  /\ config' = [fee_bps |-> fee, lock_offset |-> offset, oracle_interval |-> interval]
  /\ counter' = 0 /\ fees' = 0
  /\ UNCHANGED <<environment, lastStrikeTs, rounds, positions, vault, escrow>>

AnyTick(tick) == TRUE \* mutant: no DuplicateRound check

FreshTick(tick) == lastStrikeTs # tick

CreateRound ==
  LET tick == LastPrice(Feed)
  IN /\ config # None
     /\ tick # NoPrice
     /\ FreshTick(tick.timestamp)
     /\ counter < MaxRounds
     /\ counter' = counter + 1
     /\ rounds' = [rounds EXCEPT ![counter + 1] =
          [strike |-> tick.price, strike_ts |-> tick.timestamp,
           lock_ts |-> tick.timestamp + config.lock_offset,
           settle_ts |-> tick.timestamp + config.oracle_interval,
           pool |-> [side \in Side |-> 0], boosted |-> [side \in Side |-> 0],
           status |-> "Open", outcome |-> "Void", live_until |-> now + TempBump]]
     /\ lastStrikeTs' = tick.timestamp
     /\ UNCHANGED <<environment, config, fees, positions, vault, escrow>>

Placed == {p \in RoundId \X User : positions[p[1]][p[2]] # None}

\* Bound: MaxBets, and as nothing tells bettors apart they come to a round in the
\* order of their numbers.
InTurn(u, r) ==
  /\ Cardinality(Placed) < MaxBets
  /\ \A v \in User : v < u => positions[r][v] # None

Bet(u, r, side, amount) ==
  /\ InTurn(u, r)
  /\ config # None
  /\ amount >= MinBet
  /\ rounds[r] # None
  /\ now < rounds[r].lock_ts
  /\ rounds[r].status = "Open"
  /\ positions[r][u] = None
  /\ LET boosted == Boosted(rounds[r], amount)
     IN /\ rounds' = [rounds EXCEPT ![r].pool[side] = @ + amount,
                                    ![r].boosted[side] = @ + boosted,
                                    ![r].live_until = Extended(@)]
        /\ positions' = [positions EXCEPT ![r][u] =
             [side |-> side, amount |-> amount, boosted |-> boosted,
              claimed |-> FALSE, live_until |-> now + TempBump]]
  /\ vault' = vault + amount
  /\ escrow' = [escrow EXCEPT ![r] = @ + amount]
  /\ UNCHANGED <<environment, config, counter, fees, lastStrikeTs>>

\* A missing price, an empty side and a tie void the round.
Verdict(round, tick) ==
  IF tick = NoPrice \/ round.pool["Above"] = 0 \/ round.pool["Below"] = 0 THEN "Void"
  ELSE IF tick.price > round.strike THEN "Above"
  ELSE IF tick.price < round.strike THEN "Below"
  ELSE "Void"

MaySettle(r) ==
  /\ rounds[r] # None
  /\ rounds[r].status # "Settled"
  /\ now >= rounds[r].settle_ts

\* The fee is taken from the losing pool.
Settle(r) ==
  /\ config # None
  /\ MaySettle(r)
  /\ LET round == rounds[r]
         outcome == Verdict(round, LastPrice(Feed))
         fee == IF outcome = "Void" THEN 0
                ELSE Fee(round.pool[Opposite(outcome)], config.fee_bps)
     IN /\ fees' = fees + fee
        /\ escrow' = [escrow EXCEPT ![r] = @ - fee]
        /\ rounds' = [rounds EXCEPT ![r].outcome = outcome,
                                    ![r].status = "Settled",
                                    ![r].live_until = Extended(@)]
  /\ UNCHANGED <<environment, config, counter, lastStrikeTs, positions, vault>>

\* The claim is marked before the transfer, which reverts the call when the
\* vault cannot cover it.
Claim(u, r) ==
  /\ config # None
  /\ Claimable(r, u)
  /\ LET payout == Worth(rounds[r], positions[r][u])
     IN /\ vault >= payout
        /\ vault' = vault - payout
        /\ escrow' = [escrow EXCEPT ![r] = @ - payout]
  /\ positions' = [positions EXCEPT ![r][u].claimed = TRUE]
  /\ UNCHANGED <<environment, config, counter, fees, lastStrikeTs, rounds>>

SweepAgain == \* mutant: the treasury is not set to zero
  /\ config # None
  /\ fees > 0
  /\ vault >= fees
  /\ vault' = vault - fees
  /\ UNCHANGED <<environment, config, counter, fees, lastStrikeTs, rounds, positions,
                 escrow>>

SweepFees ==
  /\ config # None
  /\ fees > 0
  /\ vault >= fees
  /\ vault' = vault - fees
  /\ fees' = 0
  /\ UNCHANGED <<environment, config, counter, lastStrikeTs, rounds, positions,
                 escrow>>

AnyOffset(seconds) == seconds >= MinLockOffset \* mutant: the interval unread

OffsetAllowed(seconds) ==
  seconds >= MinLockOffset /\ seconds < config.oracle_interval

\* set_fee_bps, set_lock_offset and set_oracle_interval
Configure(new) ==
  /\ config # None
  /\ config' = new
  /\ UNCHANGED <<environment, counter, fees, lastStrikeTs, rounds, positions,
                 vault, escrow>>

SetFeeBps(bps) ==
  /\ FeeAllowed(bps)
  /\ Configure([config EXCEPT !.fee_bps = bps])

SetLockOffset(seconds) ==
  /\ config # None
  /\ OffsetAllowed(seconds)
  /\ Configure([config EXCEPT !.lock_offset = seconds])

SetOracleInterval(seconds) ==
  /\ config # None
  /\ seconds > config.lock_offset
  /\ Configure([config EXCEPT !.oracle_interval = seconds])

-----------------------------------------------------------------------------
(* The environment *)

\* Time passes; temporary entries past their expiry are gone.
AdvanceTime ==
  /\ now < MaxTime
  /\ now' = now + 1
  /\ rounds' = [r \in RoundId |->
       IF rounds[r] # None /\ rounds[r].live_until < now'
       THEN None ELSE rounds[r]]
  /\ positions' = [r \in RoundId |-> [u \in User |->
       IF positions[r][u] # None /\ positions[r][u].live_until < now'
       THEN None ELSE positions[r][u]]]
  /\ UNCHANGED <<oracle, config, counter, fees, lastStrikeTs, vault, escrow>>

\* Bound: the oracle is updated at most once a second.
OracleMoves ==
  /\ \A data \in {price} \cup {assetPrice[s] : s \in Symbol} :
       data # NoPrice => data.timestamp < now
  /\ \/ \E p \in Price : UpdatePrice(p)
     \/ \E s \in Symbol, p \in Price : UpdateAssetPrice(s, p)
  /\ UNCHANGED <<now, config, counter, fees, lastStrikeTs, rounds, positions,
                 vault, escrow>>

Next ==
  \/ \E fee \in FeeBps, offset \in LockOffset, interval \in OracleInterval :
       Initialize(fee, offset, interval)
  \/ CreateRound
  \/ \E u \in User, r \in RoundId, side \in Side, amount \in BetAmount :
       Bet(u, r, side, amount)
  \/ \E r \in RoundId : Settle(r)
  \/ \E u \in User, r \in RoundId : Claim(u, r)
  \/ SweepFees
  \/ \E bps \in FeeBps : SetFeeBps(bps)
  \/ \E seconds \in LockOffset : SetLockOffset(seconds)
  \/ \E seconds \in OracleInterval : SetOracleInterval(seconds)
  \/ AdvanceTime
  \/ OracleMoves

Spec == Init /\ [][Next]_vars

-----------------------------------------------------------------------------
(* Properties *)

TypeOK ==
  /\ now \in 1..MaxTime
  /\ price \in PriceData \cup {NoPrice}
  /\ assetPrice \in [Symbol -> PriceData \cup {NoPrice}]
  /\ config \in Config \cup {None}
  /\ counter \in 0..MaxRounds
  /\ fees \in Nat
  /\ lastStrikeTs \in Nat
  /\ rounds \in [RoundId -> Round \cup {None}]
  /\ positions \in [RoundId -> [User -> Position \cup {None}]]
  /\ vault \in Nat
  /\ escrow \in [RoundId -> Int]

Owed(r, u) ==
  IF rounds[r] = None \/ positions[r][u] = None THEN 0
  ELSE IF positions[r][u].claimed THEN 0
  ELSE IF Settled(r) THEN Worth(rounds[r], positions[r][u])
  ELSE positions[r][u].amount

OwedByRound(r) == Sum([u \in User |-> Owed(r, u)], NumUsers)

\* One balance pays the claims of all rounds and the sweeps: it covers the treasury
\* and whatever is owed on every round together, so that no transfer of claim or
\* sweep_fees is turned down, whoever is paid first.
Solvent ==
  fees + Sum([r \in RoundId |-> OwedByRound(r)], MaxRounds) <= vault

\* The admin rule under which a round covers its claims: no cut of the fee while
\* somebody has not claimed a share of a decided round.
NoFeeCutWhileOwed ==
  config # None /\ config'.fee_bps < config.fee_bps =>
    \A r \in RoundId, u \in User :
      Claimable(r, u) => rounds[r].outcome = "Void"

\* And the one under which betting closes in time: initialize is called with a
\* lock offset below the interval, as the setters ask for.
SaneStart ==
  config = None /\ config' # None => config'.lock_offset < config'.oracle_interval

SteadySpec == Init /\ [][Next /\ NoFeeCutWhileOwed /\ SaneStart]_vars

Phase(r) ==
  IF r > counter THEN "none"
  ELSE IF rounds[r] = None THEN "gone"
  ELSE IF rounds[r].status = "Settled" THEN "decided" ELSE "open"

RoundEscrow == INSTANCE Escrow WITH
  phase <- [r \in RoundId |-> Phase(r)],
  pot <- escrow,
  due <- [r \in RoundId |-> [u \in User |-> Owed(r, u)]]

\* Under the admin rule winners and losers of a round together never draw more
\* than that round took in, and each draws once, whatever the weights are.
RoundsAreEscrows == RoundEscrow!EscrowSpec

\* What callers see of the oracle, of a round and of a stake.
Told == IF LastPrice(Feed) = NoPrice THEN None ELSE LastPrice(Feed)

Seen(round) ==
  IF round = None THEN None
  ELSE [strike |-> round.strike, strike_ts |-> round.strike_ts,
        lock_ts |-> round.lock_ts, settle_ts |-> round.settle_ts,
        sides |-> {s \in Side : round.pool[s] > 0},
        status |-> round.status, outcome |-> round.outcome]

StakeSeen(pos) ==
  IF pos = None THEN "none" ELSE IF pos.claimed THEN "claimed" ELSE "staked"

SeenRounds == [r \in RoundId |-> Seen(rounds[r])]
SeenStakes == [r \in RoundId |-> [u \in User |-> StakeSeen(positions[r][u])]]

Series == INSTANCE BetSeries WITH
  Market <- {Feed}, Bettor <- User, Lifetime <- TempBump,
  tick <- [m \in {Feed} |-> Told],
  counter <- [m \in {Feed} |-> counter],
  lastStrikeTs <- [m \in {Feed} |-> lastStrikeTs],
  rounds <- [m \in {Feed} |-> SeenRounds],
  stakes <- [m \in {Feed} |-> SeenStakes]

\* To its callers the market is a BetSeries: whatever the admin changes meanwhile
\* and whatever expires, no two rounds are opened on one oracle update, although only
\* the last one is remembered (DuplicateRound); a round is settled once, with the
\* verdict on the sides it took in, pays a stake once, and stays readable for a
\* lifetime.
IsBetSeries == Series!SeriesSpec

\* "pool_above + loser_pool - fee = total paid out", to the rounding: when a round
\* with a winner is decided, what it grants is all it holds but for less than
\* one stroop of each division.
StakesSaved(r) == Sum([u \in User |-> IF positions[r][u] = None THEN 0
                                      ELSE positions[r][u].amount], NumUsers)

SharesAddUp ==
  [][\A r \in RoundId :
       /\ Phase(r) = "open" /\ Phase(r)' = "decided"
       /\ rounds'[r].outcome # "Void"
       /\ StakesSaved(r) = rounds[r].pool["Above"] + rounds[r].pool["Below"]
       => LET winners == {u \in User : /\ positions[r][u] # None
                                       /\ positions[r][u].side = rounds'[r].outcome}
              bettors == {u \in User : positions[r][u] # None}
          IN escrow'[r] - OwedByRound(r)'
               \in 0..(1 + Cardinality(winners) + Cardinality(bettors))]_vars

\* set_lock_offset and set_oracle_interval guard each other: in whatever order
\* they are called, no round takes a stake at or after its settlement time.
BetsCloseBeforeSettlement ==
  [][\A r \in RoundId : escrow'[r] > escrow[r] => now < rounds[r].settle_ts]_vars

\* "Earlier bettors earn more": no later stake of the same size on the same side
\* is ever worth more than an earlier one, whatever the outcome.
EarlierEarnsMore ==
  [][\A r \in RoundId, u, v \in User :
       LET old == positions[r][u]
           new == positions'[r][v]
       IN /\ old # None /\ positions[r][v] = None /\ new # None
          /\ old.side = new.side /\ old.amount = new.amount
          => \A outcome \in Outcome :
               LET decided == [rounds'[r] EXCEPT !.outcome = outcome]
               IN Worth(decided, new) <= Worth(decided, old)]_vars

=============================================================================
