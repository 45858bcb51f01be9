----------------------------- MODULE FairMarket -----------------------------
(***************************************************************************)
(* contracts/fair-market: the five-minute parimutuel market.  One action   *)
(* per contract function; a call that panics reverts, so it is a step that *)
(* is not taken.  The ledger's clock, the Reflector price feed and the     *)
(* expiry of temporary storage are the environment.                        *)
(***************************************************************************)
EXTENDS Integers, Sequences, FiniteSets, Sums

CONSTANTS
  Asset,           \* the feeds require_valid_asset accepts
  NumUsers,        \* bettors are 1..NumUsers
  MaxRounds,       \* bound: rounds are numbered 1..MaxRounds
  MaxTime,         \* bound: the ledger clock stops at MaxTime
  Price,           \* the prices the feed may publish
  BetAmount,       \* the stakes a bettor may try
  FeeBps,          \* the fees the admin may try
  LockOffset,      \* the lock offsets the admin may try
  MinBet,
  OracleInterval,
  MinLockOffset,
  MaxFeeBps,
  BpsDenominator,  \* 10_000 in the code
  MaxClaimBatch,
  TempThreshold, TempBump,
  MaxLag,          \* how long after its timestamp a tick may still appear
  None             \* an absent storage entry or price

User == 1..NumUsers
RoundId == 1..MaxRounds
Time == 0..MaxTime
Side == {"Up", "Down"}
Outcome == {"Up", "Down", "Void"}

Config == [fee_bps : 0..MaxFeeBps, lock_offset : Nat]

Round == [asset : Asset, strike : Price, strike_ts : Nat, settle_ts : Nat,
          lock_ts : Nat, pool_up : Nat, pool_down : Nat,
          status : {"Open", "Settled"}, outcome : Outcome,
          settle_price : Price \cup {0}, live_until : Nat]

\* What a caller that does not care for money reads of a round.
SeenRound == [asset : Asset, strike_ts : Nat, settle_ts : Nat,
              status : {"Open", "Settled"}]

Position == [side : Side, amount : Nat, claimed : BOOLEAN, live_until : Nat]

ASSUME BoundsAssumption ==
  /\ NumUsers \in Nat /\ MaxRounds \in Nat /\ MaxTime \in Nat
  /\ Price \subseteq Int /\ BetAmount \subseteq Nat
  /\ FeeBps \subseteq Nat /\ LockOffset \subseteq Nat

ASSUME ParametersAssumption ==
  /\ MinBet \in Nat /\ OracleInterval \in Nat \ {0} /\ MinLockOffset \in Nat
  /\ BpsDenominator \in Nat \ {0} /\ MaxFeeBps \in 0..BpsDenominator
  /\ MaxClaimBatch \in Nat /\ TempThreshold \in Nat /\ TempBump \in Nat
  /\ MaxLag \in Nat

ASSUME NoneAssumption ==
  /\ None \notin Price /\ None \notin Config
  /\ None \notin Round /\ None \notin SeenRound /\ None \notin Position

VARIABLES
  now,            \* e.ledger().timestamp()
  feed,           \* what the oracle has published: [Asset -> [Time -> price]]
  config,         \* Key::Config
  counter,        \* Key::Counter, the last round id given out
  fees,           \* Key::Fees, the unswept treasury
  strikeTs,       \* Key::AssetStrikeTs
  rounds,         \* Key::Round
  positions,      \* Key::Position
  vault,          \* the contract's balance in the token
  escrow          \* history: what of the vault came in for a round and has
                  \* neither been paid to its bettors nor taken as its fee

vars == <<now, feed, config, counter, fees, strikeTs, rounds, positions,
          vault, escrow>>
environment == <<now, feed>>

-----------------------------------------------------------------------------
(* Reading the state *)

Published(a) == {t \in Time : feed[a][t] # None}

Tick == {t \in Time : t > 0 /\ t % OracleInterval = 0}

Settled(r) == rounds[r] # None /\ rounds[r].status = "Settled"

\* No stake is taken from lock_ts on.
LockedAfterSettlement(round) == now > round.settle_ts \* mutant: the wrong time

Locked(round) == now >= round.lock_ts

\* A tick opens one round of an asset.
NotOlderTick(a, tick) == strikeTs[a] <= tick \* mutant: the last tick passes

FreshTick(a, tick) == strikeTs[a] # tick

MaySettleAgain(r) == \* mutant: no AlreadySettled check
  /\ rounds[r] # None
  /\ now >= rounds[r].settle_ts

MaySettle(r) ==
  /\ rounds[r] # None
  /\ rounds[r].status # "Settled"
  /\ now >= rounds[r].settle_ts

\* extend_ttl(threshold, bump): an entry close to expiry lives for another
\* bump, any other entry keeps the expiry it has.
Extended(liveUntil) ==
  IF liveUntil - now <= TempThreshold THEN now + TempBump ELSE liveUntil

Total(round) == round.pool_up + round.pool_down

WinningPool(round) ==
  IF round.outcome = "Up" THEN round.pool_up ELSE round.pool_down

HighestPrice(round) == \* mutant: mixes the feeds of the assets up
  LET known == {feed[a][round.settle_ts] : a \in Asset} \ {None}
  IN IF known = {} THEN None ELSE CHOOSE p \in known : \A q \in known : q <= p

\* The price a round settles on: the tick at settle_ts, None when the feed has
\* none there.
SettlePrice(round) == feed[round.asset][round.settle_ts]

Fee(total, bps) == (total * bps) \div BpsDenominator

WorthBeforeFee(round, pos) == \* mutant: shares out the fee as well
  CASE round.outcome = "Void" -> pos.amount
    [] round.outcome = pos.side ->
         (pos.amount * Total(round)) \div WinningPool(round)
    [] OTHER -> 0

WorthDividedFirst(round, pos) == \* mutant: rounds before it multiplies
  CASE round.outcome = "Void" -> pos.amount
    [] round.outcome = pos.side ->
         pos.amount * ((Total(round) - Fee(Total(round), config.fee_bps))
           \div WinningPool(round))
    [] OTHER -> 0

\* What a position is worth in a settled round.  The fee is the one configured
\* when the claim is made, not the one the settlement took.
Worth(round, pos) ==
  CASE round.outcome = "Void" -> pos.amount
    [] round.outcome = pos.side ->
         (pos.amount * (Total(round) - Fee(Total(round), config.fee_bps)))
           \div WinningPool(round)
    [] OTHER -> 0

ClaimableAgain(r, u) == \* mutant: no AlreadyClaimed check
  /\ Settled(r)
  /\ positions[r][u] # None

Claimable(r, u) ==
  /\ Settled(r)
  /\ positions[r][u] # None
  /\ ~positions[r][u].claimed

\* compute_claim: what a claim on round r by u yields now.
ClaimValue(r, u) ==
  IF Claimable(r, u) THEN Worth(rounds[r], positions[r][u]) ELSE 0

Verdict(round, price) ==
  IF round.pool_up = 0 \/ round.pool_down = 0 \/ price = None THEN "Void"
  ELSE IF price > round.strike THEN "Up"
  ELSE IF price < round.strike THEN "Down"
  ELSE "Void"

-----------------------------------------------------------------------------
(* The contract *)

Init ==
  /\ now = 0
  /\ feed = [a \in Asset |-> [t \in Time |-> None]]
  /\ config = None
  /\ counter = 0
  /\ fees = 0
  /\ strikeTs = [a \in Asset |-> 0]
  /\ rounds = [r \in RoundId |-> None]
  /\ positions = [r \in RoundId |-> [u \in User |-> None]]
  /\ vault = 0
  /\ escrow = [r \in RoundId |-> 0]

Initialize(fee, offset) ==
  /\ config = None
  /\ fee <= MaxFeeBps
  /\ offset >= MinLockOffset
  /\ config' = [fee_bps |-> fee, lock_offset |-> offset]
  /\ counter' = 0 /\ fees' = 0
  /\ UNCHANGED <<environment, strikeTs, rounds, positions, vault, escrow>>

\* The strike is the feed's latest tick, wherever the clock is.
CreateRound(a, tick) ==
  /\ config # None
  /\ tick \in Published(a)
  /\ \A t \in Published(a) : t <= tick
  /\ FreshTick(a, tick)
  /\ counter < MaxRounds
  /\ counter' = counter + 1
  /\ rounds' = [rounds EXCEPT ![counter + 1] =
       [asset |-> a, strike |-> feed[a][tick], strike_ts |-> tick,
        settle_ts |-> tick + OracleInterval,
        lock_ts |-> tick + config.lock_offset,
        pool_up |-> 0, pool_down |-> 0, status |-> "Open",
        outcome |-> "Void", settle_price |-> 0,
        live_until |-> now + TempBump]]
  /\ strikeTs' = [strikeTs EXCEPT ![a] = tick]
  /\ UNCHANGED <<environment, config, fees, positions, vault, escrow>>

WithStake(round, side, amount) ==
  [round EXCEPT
     !.pool_up = IF side = "Up" THEN @ + amount ELSE @,
     !.pool_down = IF side = "Down" THEN @ + amount ELSE @,
     !.live_until = Extended(@)]

Bet(u, r, side, amount) ==
  /\ config # None
  /\ amount >= MinBet
  /\ rounds[r] # None
  /\ ~Locked(rounds[r])
  /\ rounds[r].status = "Open"
  /\ positions[r][u] = None
  /\ vault' = vault + amount
  /\ rounds' = [rounds EXCEPT ![r] =
       WithStake(rounds[r], side, amount)]
  /\ positions' = [positions EXCEPT ![r][u] =
       [side |-> side, amount |-> amount, claimed |-> FALSE,
        live_until |-> now + TempBump]]
  /\ escrow' = [escrow EXCEPT ![r] = @ + amount]
  /\ UNCHANGED <<environment, config, counter, fees, strikeTs>>

WithRawPrice(round, price, outcome) == \* mutant: stores a missing price
  [round EXCEPT
     !.settle_price = price,
     !.outcome = outcome,
     !.status = "Settled",
     !.live_until = Extended(@)]

WithOutcome(round, price, outcome) ==
  [round EXCEPT
     !.settle_price = IF price = None THEN @ ELSE price,
     !.outcome = outcome,
     !.status = "Settled",
     !.live_until = Extended(@)]

\* The fee is taken only when the round has a winner.
Settle(r) ==
  /\ config # None
  /\ MaySettle(r)
  /\ LET round == rounds[r]
         price == SettlePrice(round)
         outcome == Verdict(round, price)
         fee == IF outcome = "Void" THEN 0
                ELSE Fee(Total(round), config.fee_bps)
     IN /\ fees' = fees + fee
        /\ escrow' = [escrow EXCEPT ![r] = @ - fee]
        /\ rounds' = [rounds EXCEPT ![r] =
             WithOutcome(round, price, outcome)]
  /\ UNCHANGED <<environment, config, counter, strikeTs, positions, vault>>

\* The position is marked claimed whatever it yields; the transfer reverts the
\* whole call when the vault cannot cover it.
Claim(u, r) ==
  /\ config # None
  /\ Claimable(r, u)
  /\ vault >= ClaimValue(r, u)
  /\ positions' = [positions EXCEPT ![r][u].claimed = TRUE]
  /\ vault' = vault - ClaimValue(r, u)
  /\ escrow' = [escrow EXCEPT ![r] = @ - ClaimValue(r, u)]
  /\ UNCHANGED <<environment, config, counter, fees, strikeTs, rounds>>

BatchValueRepeated(u, ids, k) == ClaimValue(ids[k], u) \* mutant: pays each entry

\* The k-th entry of a batch yields nothing if an earlier entry named the same
\* round: that entry has already marked the position claimed.
BatchValue(u, ids, k) ==
  IF \E j \in 1..(k - 1) : ids[j] = ids[k] THEN 0 ELSE ClaimValue(ids[k], u)

BatchTotal(u, ids) ==
  Sum([k \in 1..Len(ids) |-> BatchValue(u, ids, k)], Len(ids))

InBatch(r, ids) == \E k \in 1..Len(ids) : ids[k] = r

ClaimMany(u, ids) ==
  /\ config # None
  /\ Len(ids) <= MaxClaimBatch
  /\ vault >= BatchTotal(u, ids)
  /\ positions' = [r \in RoundId |->
       IF InBatch(r, ids) /\ Claimable(r, u)
       THEN [positions[r] EXCEPT ![u].claimed = TRUE]
       ELSE positions[r]]
  /\ vault' = vault - BatchTotal(u, ids)
  /\ escrow' = [r \in RoundId |->
       IF InBatch(r, ids) THEN escrow[r] - ClaimValue(r, u) ELSE escrow[r]]
  /\ UNCHANGED <<environment, config, counter, fees, strikeTs, rounds>>

SetFeeBps(bps) ==
  /\ config # None
  /\ bps <= MaxFeeBps
  /\ config' = [config EXCEPT !.fee_bps = bps]
  /\ UNCHANGED <<environment, counter, fees, strikeTs, rounds, positions,
                 vault, escrow>>

\* Only a lower bound is checked.
SetLockOffset(seconds) ==
  /\ config # None
  /\ seconds >= MinLockOffset
  /\ config' = [config EXCEPT !.lock_offset = seconds]
  /\ UNCHANGED <<environment, counter, fees, strikeTs, rounds, positions,
                 vault, escrow>>

SweepFees ==
  /\ config # None
  /\ fees > 0
  /\ vault >= fees
  /\ vault' = vault - fees
  /\ fees' = 0
  /\ UNCHANGED <<environment, config, counter, strikeTs, rounds, positions,
                 escrow>>

-----------------------------------------------------------------------------
(* The environment *)

\* At a tick the feed publishes a price for an asset or misses it.
Ticking(tick) ==
  \E p \in [Asset -> Price \cup {None}] :
    feed' = [a \in Asset |-> [feed[a] EXCEPT ![tick] = p[a]]]

\* Time passes; temporary entries past their expiry are gone.
AdvanceTime ==
  /\ now < MaxTime
  /\ now' = now + 1
  /\ IF now' \in Tick THEN Ticking(now') ELSE UNCHANGED feed
  /\ rounds' = [r \in RoundId |->
       IF rounds[r] # None /\ rounds[r].live_until < now'
       THEN None ELSE rounds[r]]
  /\ positions' = [r \in RoundId |-> [u \in User |->
       IF positions[r][u] # None /\ positions[r][u].live_until < now'
       THEN None ELSE positions[r][u]]]
  /\ UNCHANGED <<config, counter, fees, strikeTs, vault, escrow>>

\* A tick missed at its timestamp appears up to MaxLag later, in order.
LateTick(a, tick, price) ==
  /\ tick < now /\ now <= tick + MaxLag
  /\ \A t \in Published(a) : t < tick
  /\ feed' = [feed EXCEPT ![a][tick] = price]
  /\ UNCHANGED <<now, config, counter, fees, strikeTs, rounds, positions,
                 vault, escrow>>

-----------------------------------------------------------------------------
Batch == UNION {[1..n -> RoundId] : n \in 0..MaxClaimBatch}

Next ==
  \/ \E fee \in FeeBps, offset \in LockOffset : Initialize(fee, offset)
  \/ \E a \in Asset, tick \in Tick : CreateRound(a, tick)
  \/ \E u \in User, r \in RoundId, side \in Side, amount \in BetAmount :
       Bet(u, r, side, amount)
  \/ \E r \in RoundId : Settle(r)
  \/ \E u \in User, r \in RoundId : Claim(u, r)
  \/ \E u \in User, ids \in Batch : ClaimMany(u, ids)
  \/ \E bps \in FeeBps : SetFeeBps(bps)
  \/ \E seconds \in LockOffset : SetLockOffset(seconds)
  \/ SweepFees
  \/ AdvanceTime
  \/ \E a \in Asset, tick \in Tick, price \in Price : LateTick(a, tick, price)

Spec == Init /\ [][Next]_vars

-----------------------------------------------------------------------------
(* Properties *)

TypeOK ==
  /\ now \in Time
  /\ feed \in [Asset -> [Time -> Price \cup {None}]]
  /\ config \in Config \cup {None}
  /\ counter \in 0..MaxRounds
  /\ fees \in Nat
  /\ strikeTs \in [Asset -> Nat]
  /\ rounds \in [RoundId -> Round \cup {None}]
  /\ positions \in [RoundId -> [User -> Position \cup {None}]]
  /\ vault \in Nat
  /\ escrow \in [RoundId -> Int]

\* What the contract would still have to pay u for round r: a refund while the
\* outcome is open, the claim once it is known, nothing once the round, the
\* position or the claim is gone.
Owed(r, u) ==
  IF rounds[r] = None \/ positions[r][u] = None THEN 0
  ELSE IF positions[r][u].claimed THEN 0
  ELSE IF Settled(r) THEN Worth(rounds[r], positions[r][u])
  ELSE positions[r][u].amount

OwedByRound(r) == Sum([u \in User |-> Owed(r, u)], NumUsers)

\* The contract holds enough tokens for its treasury and for everything it owes
\* on every round together, so no claim, refund or sweep can be turned down by
\* the token transfer (claim, claim_many and sweep_fees).
Solvent ==
  fees + Sum([r \in RoundId |-> OwedByRound(r)], MaxRounds) <= vault

\* The balance is the treasury and what the rounds still hold, to the stroop, after
\* any calls and expiries.  The treasury takes nothing but fees, so the stakes of
\* a round that nobody settled in its lifetime (settle) stay in the vault for good.
VaultAccounted == vault = fees + Sum(escrow, MaxRounds)

\* save_round in bet keeps the pools in step with the positions saved after it:
\* a pool never understates the stakes that can still claim a share of it.
StakeOn(r, u, side) ==
  IF positions[r][u] = None THEN 0
  ELSE IF positions[r][u].side = side THEN positions[r][u].amount ELSE 0

StakesOn(r, side) == Sum([u \in User |-> StakeOn(r, u, side)], NumUsers)

PoolsCoverStakes ==
  \A r \in RoundId : rounds[r] # None =>
    /\ StakesOn(r, "Up") <= rounds[r].pool_up
    /\ StakesOn(r, "Down") <= rounds[r].pool_down

\* The lock buffer: no stake is ever taken on a round whose settling price is
\* already on the feed, not even on a round that was created late.  It holds while
\* the admin keeps the lock offset within the oracle interval.
NoBetOnKnownPrice ==
  [][\A r \in RoundId : escrow'[r] > escrow[r] =>
       rounds[r].settle_ts \notin Published(rounds[r].asset)]_vars

\* "A late keeper call produces the exact same result as an on-time one": a round
\* that has a winner has the winner the feed gives at its settle_ts, whenever
\* settle() was called.  Only a void can be premature, when a tick appears late.
WinnerMatchesFeed ==
  \A r \in RoundId : Settled(r) /\ rounds[r].outcome # "Void" =>
    LET round == rounds[r]
    IN /\ round.settle_price = feed[round.asset][round.settle_ts]
       /\ round.outcome = Verdict(round, round.settle_price)

\* A settlement is final: it never changes afterwards and its pools are frozen,
\* until the entry expires and never comes back (round ids are not reused).
SettlementFinal ==
  [][\A r \in RoundId : r <= counter =>
       \/ rounds'[r] = rounds[r]
       \/ rounds'[r] = None
       \/ rounds[r] # None /\ rounds[r].status = "Open"]_vars

\* "Unclaimed winnings expire after 7 days", with entries "bumped on write": a
\* position outlives its round by less than the lock offset it was taken under,
\* because create_round and bet start the two entries less than that apart and
\* settle never shortens the round's.
PositionsOutliveRoundsBriefly ==
  \A r \in RoundId, u \in User :
    positions[r][u] # None /\ rounds[r] = None =>
      \E offset \in LockOffset : positions[r][u].live_until - now + 1 < offset

\* sum(payouts) <= distributed, and by how much: once every bettor has claimed,
\* a void round has nothing left and any other round less than one stroop for
\* each winner (under a fee that did not change).
AllClaimed(r) ==
  /\ Settled(r)
  /\ StakesOn(r, "Up") = rounds[r].pool_up
  /\ StakesOn(r, "Down") = rounds[r].pool_down
  /\ \A u \in User : ~Claimable(r, u)

DustBounded ==
  \A r \in RoundId : AllClaimed(r) =>
    LET winners == {u \in User : /\ positions[r][u] # None
                                 /\ positions[r][u].side = rounds[r].outcome}
    IN IF rounds[r].outcome = "Void" THEN escrow[r] = 0
       ELSE escrow[r] \in 0..(Cardinality(winners) - 1)

\* The admin rule under which the market is solvent: no cut of the fee while a
\* winner of a settled round has not claimed.
NoFeeCutWhileOwed ==
  config # None /\ config'.fee_bps < config.fee_bps =>
    \A r \in RoundId, u \in User :
      Claimable(r, u) => rounds[r].outcome # positions[r][u].side

SteadySpec == Init /\ [][Next /\ NoFeeCutWhileOwed]_vars

-----------------------------------------------------------------------------
(* Each round is an escrow of its own *)

Phase(r) ==
  IF r > counter THEN "none"
  ELSE IF rounds[r] = None THEN "gone"
  ELSE IF rounds[r].status = "Settled" THEN "decided" ELSE "open"

RoundEscrow == INSTANCE Escrow WITH
  phase <- [r \in RoundId |-> Phase(r)],
  pot <- escrow,
  due <- [r \in RoundId |-> [u \in User |-> Owed(r, u)]]

\* Under the admin rule every call is one step of the abstract escrow, or none:
\* stakes and grants of a round are covered by what that round took in, each
\* grant is drawn once, and no round pays for another.
RoundsAreEscrows == RoundEscrow!EscrowSpec

-----------------------------------------------------------------------------
(* What callers that do not care for money see *)

LastTick(a) ==
  IF Published(a) = {} THEN 0
  ELSE CHOOSE t \in Published(a) : \A s \in Published(a) : s <= t

Seen(round) ==
  IF round = None THEN None
  ELSE [asset |-> round.asset, strike_ts |-> round.strike_ts,
        settle_ts |-> round.settle_ts, status |-> round.status]

Series == INSTANCE RoundSeries WITH
  lastTick <- [a \in Asset |-> LastTick(a)],
  opened <- strikeTs,
  rounds <- [r \in RoundId |-> Seen(rounds[r])],
  Lifetime <- TempBump

\* The contract behaves as the keeper expects of it: bets, claims and admin calls
\* never move a round, a round opens on the newest tick only and once, and it
\* stays readable for a full lifetime after its strike.
IsRoundSeries == Series!SeriesSpec

=============================================================================
