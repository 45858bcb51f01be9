----------------------------- MODULE Prediction -----------------------------
(***************************************************************************)
(* contracts/prediction: the market as a pipeline of epochs.  While epoch  *)
(* e is running, the round of e + 1 takes bets, the round of e is locked   *)
(* at the price of the boundary where e began, and the round of e - 1 is   *)
(* closed at that same price.  Anybody may call execute_round, and it may  *)
(* be called late, twice or not at all.                                    *)
(***************************************************************************)
EXTENDS Integers, Sequences, FiniteSets, Sums

CONSTANTS
  NumAssets,       \* assets are 1..NumAssets
  NumUsers,        \* bettors are 1..NumUsers
  MaxTime,         \* bound: the ledger clock stops at MaxTime
  MaxBets,         \* bound: on the number of bets
  Price,           \* the prices the feed may publish
  BetAmount,       \* the stakes a bettor may try
  FeeBps, MinBet, Tolerance, TieRefund,   \* the settings the admin may try
  Interval,        \* config.interval_secs, fixed at initialize
  FirstTolerance,  \* the staleness tolerance set by initialize
  BpsDenominator,  \* 10_000 in the code
  UserEpochsCap,
  MaxLag,          \* how long after its timestamp a price may still appear
  None             \* an absent storage entry, price or argument

Asset == 1..NumAssets
User == 1..NumUsers
Time == 0..MaxTime
LastEpoch == MaxTime \div Interval + 1
Epoch == 1..LastEpoch
Direction == {"Up", "Down"}

Config == [fee_bps : FeeBps, min_bet : MinBet, tolerance : Nat,
           paused : BOOLEAN, tie_refund : BOOLEAN]

Round == [start_price : Price \cup {0}, end_price : Price \cup {0},
          up_amount : Nat, down_amount : Nat, total_amount : Nat,
          reward_pool : Nat, treasury_fee : Nat,
          status : {"Open", "Locked", "Resolved", "Cancelled"}]

BetEntry == [direction : Direction, amount : Nat, claimed : BOOLEAN]

\* set_config takes any fee; one above the whole pool makes reward_pool negative.
ASSUME PredictionAssumption ==
  /\ NumAssets \in Nat /\ NumUsers \in Nat /\ MaxTime \in Nat /\ MaxBets \in Nat
  /\ Interval \in Nat \ {0} /\ BpsDenominator \in Nat \ {0}
  /\ UserEpochsCap \in Nat \ {0} /\ MaxLag \in Nat /\ FirstTolerance \in Nat
  /\ Price \subseteq Int /\ BetAmount \subseteq Nat
  /\ FeeBps \subseteq 0..BpsDenominator /\ MinBet \subseteq Nat
  /\ Tolerance \subseteq Nat /\ TieRefund \subseteq BOOLEAN

ASSUME NoneAssumption == None \notin Round \cup BetEntry \cup Config

VARIABLES
  now,          \* e.ledger().timestamp()
  feed,         \* what the oracle has published: [Asset -> [Time -> price]]
  config,       \* DataKey::Config
  genesis,      \* DataKey::GenesisStatus
  rounds,       \* DataKey::Round
  bets,         \* DataKey::Bet
  userEpochs,   \* DataKey::UserEpochs
  treasury,     \* DataKey::Treasury
  vault         \* the contract's balance in the token

vars == <<now, feed, config, genesis, rounds, bets, userEpochs, treasury, vault>>
environment == <<now, feed>>
entries == <<rounds, bets, userEpochs>>
money == <<treasury, vault>>

-----------------------------------------------------------------------------
(* Reading the state *)

CurrentEpoch == now \div Interval

RoundAt(a, e) == IF e \in Epoch THEN rounds[a][e] ELSE None

Is(a, e, status) == RoundAt(a, e) # None /\ RoundAt(a, e).status = status

\* price(asset, timestamp) is the newest price at or before the timestamp, and
\* it is refused when it is too old.
FetchPrice(a, timestamp) ==
  LET known == {t \in Time : t <= timestamp /\ feed[a][t] # None}
  IN IF known = {} THEN None
     ELSE LET newest == CHOOSE t \in known : \A s \in known : s <= t
          IN IF timestamp - newest > config.tolerance THEN None
             ELSE feed[a][newest]

\* The price of the boundary where epoch e begins.
BoundaryPrice(a, e) == FetchPrice(a, e * Interval)

-----------------------------------------------------------------------------
(* Payouts *)

Fee(round) == (round.total_amount * config.fee_bps) \div BpsDenominator

\* Not above is down, ties included.
WinningSide(round) ==
  IF round.end_price > round.start_price THEN "Up" ELSE "Down"

WinningAmount(round) ==
  IF WinningSide(round) = "Up" THEN round.up_amount ELSE round.down_amount

PayoutOfTotal(round, bet) == \* mutant: shares out the fee as well
  IF bet.direction # WinningSide(round) THEN 0
  ELSE (bet.amount * round.total_amount) \div WinningAmount(round)

Payout(round, bet) ==
  IF bet.direction # WinningSide(round) THEN 0
  ELSE (bet.amount * round.reward_pool) \div WinningAmount(round)

Worth(round, bet) ==
  CASE round.status = "Cancelled" -> bet.amount
    [] round.status = "Resolved" -> Payout(round, bet)
    [] OTHER -> 0

Unclaimed(a, e, u) == bets[a][e][u] # None /\ ~bets[a][e][u].claimed

\* claim() passes over rounds that are not resolved, bets already claimed and
\* bets that yield nothing; refund() over rounds that are not cancelled.
Claimable(a, e, u) ==
  /\ Is(a, e, "Resolved") /\ Unclaimed(a, e, u)
  /\ Payout(rounds[a][e], bets[a][e][u]) # 0

RefundableAgain(a, e, u) == \* mutant: the claimed flag unread
  Is(a, e, "Cancelled") /\ bets[a][e][u] # None

Refundable(a, e, u) == Is(a, e, "Cancelled") /\ Unclaimed(a, e, u)

-----------------------------------------------------------------------------
(* Setting up *)

Init ==
  /\ now = 0
  /\ feed = [a \in Asset |-> [t \in Time |-> None]]
  /\ config = None
  /\ genesis = [a \in Asset |-> "None"]
  /\ rounds = [a \in Asset |-> [e \in Epoch |-> None]]
  /\ bets = [a \in Asset |-> [e \in Epoch |-> [u \in User |-> None]]]
  /\ userEpochs = [a \in Asset |-> [u \in User |-> <<>>]]
  /\ treasury = 0
  /\ vault = 0

Initialize(fee, minBet) ==
  /\ config = None
  /\ config' = [fee_bps |-> fee, min_bet |-> minBet, tolerance |-> FirstTolerance,
                paused |-> FALSE, tie_refund |-> TRUE]
  /\ UNCHANGED <<environment, genesis, entries, money>>

NewRound ==
  [start_price |-> 0, end_price |-> 0, up_amount |-> 0, down_amount |-> 0,
   total_amount |-> 0, reward_pool |-> 0, treasury_fee |-> 0, status |-> "Open"]

GenesisStart(a) ==
  /\ config # None /\ ~config.paused
  /\ genesis[a] = "None"
  /\ rounds' = [rounds EXCEPT ![a][CurrentEpoch + 1] = NewRound]
  /\ genesis' = [genesis EXCEPT ![a] = "Started"]
  /\ UNCHANGED <<environment, config, bets, userEpochs, money>>

\* Without a price the round is cancelled.
LockWithAnyPrice(round, price) == \* mutant: a missing price is stored
  [round EXCEPT !.start_price = price, !.status = "Locked"]

Lock(round, price) ==
  IF price = None THEN [round EXCEPT !.status = "Cancelled"]
  ELSE [round EXCEPT !.start_price = price, !.status = "Locked"]

Opened(round) == IF round = None THEN NewRound ELSE round

\* The round that was opened for this epoch and no other can be locked.
GenesisLock(a) ==
  LET e == CurrentEpoch
  IN /\ config # None /\ ~config.paused
     /\ genesis[a] = "Started"
     /\ Is(a, e, "Open")
     /\ rounds' = [rounds EXCEPT ![a] =
          [@ EXCEPT ![e] = Lock(RoundAt(a, e), BoundaryPrice(a, e)),
                    ![e + 1] = Opened(RoundAt(a, e + 1))]]
     /\ genesis' = [genesis EXCEPT ![a] = "Running"]
     /\ UNCHANGED <<environment, config, bets, userEpochs, money>>

-----------------------------------------------------------------------------
(* execute_round *)

\* settle_locked_round: a one-sided round, a tie and a missing price cancel it.
Settle(round, price) ==
  IF price = None THEN [round EXCEPT !.status = "Cancelled"]
  ELSE IF \/ round.up_amount = 0 \/ round.down_amount = 0
          \/ config.tie_refund /\ round.start_price = price
  THEN [round EXCEPT !.end_price = price, !.status = "Cancelled"]
  ELSE [round EXCEPT
          !.end_price = price,
          !.treasury_fee = Fee(round),
          !.reward_pool = round.total_amount - Fee(round),
          !.status = "Resolved"]

\* Round(E-1): settled if it is locked, cancelled if nobody ever locked it.
Close(a, e, price) ==
  IF Is(a, e, "Locked") THEN Settle(RoundAt(a, e), price)
  ELSE IF Is(a, e, "Open") THEN [RoundAt(a, e) EXCEPT !.status = "Cancelled"]
  ELSE RoundAt(a, e)

\* Round(E-2): settled at its own boundary if an epoch was missed.
RetroSettleNow(a, e) == \* mutant: settles it at the price of the call's epoch
  IF Is(a, e, "Locked") THEN Settle(RoundAt(a, e), BoundaryPrice(a, e + 2))
  ELSE RoundAt(a, e)

NoRetroSettle(a, e) == RoundAt(a, e) \* mutant: reaches back one epoch only

RetroSettle(a, e) ==
  IF Is(a, e, "Locked") THEN Settle(RoundAt(a, e), BoundaryPrice(a, e + 1))
  ELSE RoundAt(a, e)

LockIfOpen(a, e, price) ==
  IF Is(a, e, "Open") THEN Lock(RoundAt(a, e), price) ELSE RoundAt(a, e)

\* The rounds of an asset after execute_round in the current epoch.
Executed(a) ==
  LET now_e == CurrentEpoch
      price == BoundaryPrice(a, now_e)
  IN [e \in Epoch |->
       IF e = now_e - 2 THEN RetroSettle(a, e)
       ELSE IF e = now_e - 1 THEN Close(a, e, price)
       ELSE IF e = now_e THEN LockIfOpen(a, e, price)
       ELSE IF e = now_e + 1 THEN Opened(RoundAt(a, e))
       ELSE RoundAt(a, e)]

FeeTaken(old, new) ==
  IF old = None THEN 0 ELSE new.treasury_fee - old.treasury_fee

\* Once the round of this epoch is locked or cancelled, the call changes nothing.
ExecuteRound(a) ==
  /\ config # None
  /\ genesis[a] = "Running"
  /\ RoundAt(a, CurrentEpoch) = None \/ Is(a, CurrentEpoch, "Open")
  /\ rounds' = [rounds EXCEPT ![a] = Executed(a)]
  /\ treasury' = treasury
       + Sum([e \in Epoch |-> FeeTaken(rounds[a][e], Executed(a)[e])], LastEpoch)
  /\ UNCHANGED <<environment, config, genesis, bets, userEpochs, vault>>

-----------------------------------------------------------------------------
(* Bettors *)

PushUnlessFull(buf, e) == \* mutant: a full buffer takes no new epoch
  IF Len(buf) >= UserEpochsCap THEN buf ELSE Append(buf, e)

\* push_user_epoch: the oldest entry makes room, and no epoch is listed twice.
Push(buf, e) ==
  IF \E i \in 1..Len(buf) : buf[i] = e THEN buf
  ELSE IF Len(buf) >= UserEpochsCap THEN Append(Tail(buf), e)
  ELSE Append(buf, e)

WithBet(round, direction, amount) ==
  [round EXCEPT
     !.up_amount = IF direction = "Up" THEN @ + amount ELSE @,
     !.down_amount = IF direction = "Down" THEN @ + amount ELSE @,
     !.total_amount = @ + amount]

Placed == {p \in Asset \X Epoch \X User : bets[p[1]][p[2]][p[3]] # None}

Bet(u, a, e, direction, amount) ==
  /\ Cardinality(Placed) < MaxBets
  /\ config # None /\ ~config.paused
  /\ amount >= config.min_bet
  /\ e = CurrentEpoch + 1
  /\ Is(a, e, "Open")
  /\ bets[a][e][u] = None
  /\ vault' = vault + amount
  /\ rounds' = [rounds EXCEPT ![a][e] = WithBet(RoundAt(a, e), direction, amount)]
  /\ bets' = [bets EXCEPT ![a][e][u] =
       [direction |-> direction, amount |-> amount, claimed |-> FALSE]]
  /\ userEpochs' = [userEpochs EXCEPT ![a][u] = Push(userEpochs[a][u], e)]
  /\ UNCHANGED <<environment, config, genesis, treasury>>

\* Pays u everything the rounds of paid are worth to it in one transfer, which
\* reverts the call when the vault cannot cover it.  An epoch that is named
\* twice finds its bet claimed.
PayOut(u, a, paid) ==
  LET total == Sum([e \in Epoch |-> IF e \in paid
                      THEN Worth(rounds[a][e], bets[a][e][u]) ELSE 0], LastEpoch)
  IN /\ paid # {}
     /\ vault >= total
     /\ vault' = vault - total
     /\ bets' = [bets EXCEPT ![a] = [e \in Epoch |->
          IF e \in paid THEN [bets[a][e] EXCEPT ![u].claimed = TRUE] ELSE bets[a][e]]]
     /\ UNCHANGED <<environment, config, genesis, rounds, userEpochs, treasury>>

Claim(u, a, epochs) ==
  /\ config # None
  /\ PayOut(u, a, {e \in epochs : Claimable(a, e, u)})

Refund(u, a, epochs) ==
  /\ config # None
  /\ PayOut(u, a, {e \in epochs : Refundable(a, e, u)})

-----------------------------------------------------------------------------
(* The admin *)

Pause ==
  /\ config # None
  /\ config' = [config EXCEPT !.paused = TRUE]
  /\ UNCHANGED <<environment, genesis, entries, money>>

Unpause ==
  /\ config # None
  /\ config' = [config EXCEPT !.paused = FALSE]
  /\ UNCHANGED <<environment, genesis, entries, money>>

Given(option, old) == IF option = None THEN old ELSE option

SetConfig(fee, minBet, tolerance, tieRefund) ==
  /\ config # None
  /\ config' = [config EXCEPT
       !.fee_bps = Given(fee, @), !.min_bet = Given(minBet, @),
       !.tolerance = Given(tolerance, @), !.tie_refund = Given(tieRefund, @)]
  /\ UNCHANGED <<environment, genesis, entries, money>>

ClaimTreasury ==
  /\ config # None
  /\ treasury > 0
  /\ vault >= treasury
  /\ vault' = vault - treasury
  /\ treasury' = 0
  /\ UNCHANGED <<environment, config, genesis, entries>>

-----------------------------------------------------------------------------
(* The environment *)

Tick == {t \in Time : t > 0 /\ t % Interval = 0}

\* At a boundary the feed publishes a price for an asset or misses it.
AdvanceTime ==
  /\ now < MaxTime
  /\ now' = now + 1
  /\ \E p \in [Asset -> Price \cup {None}] :
       feed' = IF now' \in Tick
               THEN [a \in Asset |-> [feed[a] EXCEPT ![now'] = p[a]]] ELSE feed
  /\ UNCHANGED <<config, genesis, entries, money>>

LateTick(a, tick, price) ==
  /\ tick < now /\ now <= tick + MaxLag
  /\ \A t \in Time : t >= tick => feed[a][t] = None
  /\ feed' = [feed EXCEPT ![a][tick] = price]
  /\ UNCHANGED <<now, config, genesis, entries, money>>

-----------------------------------------------------------------------------
Next ==
  \/ \E fee \in FeeBps, minBet \in MinBet : Initialize(fee, minBet)
  \/ \E a \in Asset : GenesisStart(a) \/ GenesisLock(a) \/ ExecuteRound(a)
  \/ \E u \in User, a \in Asset, e \in Epoch, direction \in Direction,
       amount \in BetAmount : Bet(u, a, e, direction, amount)
  \/ \E u \in User, a \in Asset, epochs \in SUBSET Epoch :
       Claim(u, a, epochs) \/ Refund(u, a, epochs)
  \/ Pause
  \/ Unpause
  \/ \E fee \in FeeBps \cup {None}, minBet \in MinBet \cup {None},
       tolerance \in Tolerance \cup {None}, tieRefund \in TieRefund \cup {None} :
       SetConfig(fee, minBet, tolerance, tieRefund)
  \/ ClaimTreasury
  \/ AdvanceTime
  \/ \E a \in Asset, tick \in Tick, price \in Price : LateTick(a, tick, price)

Spec == Init /\ [][Next]_vars

-----------------------------------------------------------------------------
(* Properties *)

TypeOK ==
  /\ now \in Time
  /\ feed \in [Asset -> [Time -> Price \cup {None}]]
  /\ config \in Config \cup {None}
  /\ genesis \in [Asset -> {"None", "Started", "Running"}]
  /\ rounds \in [Asset -> [Epoch -> Round \cup {None}]]
  /\ bets \in [Asset -> [Epoch -> [User -> BetEntry \cup {None}]]]
  /\ userEpochs \in [Asset -> [User -> Seq(Epoch)]]
  /\ treasury \in Nat
  /\ vault \in Nat

Final(a, e) == Is(a, e, "Resolved") \/ Is(a, e, "Cancelled")

\* What u may still get out of a round: the stake until the round is final, what
\* the bet is worth from then on, nothing once it is claimed.
Due(a, e, u) ==
  IF ~Unclaimed(a, e, u) THEN 0
  ELSE IF Final(a, e) THEN Worth(rounds[a][e], bets[a][e][u])
  ELSE bets[a][e][u].amount

Paid(a, e, u) ==
  IF bets[a][e][u] = None \/ Unclaimed(a, e, u) THEN 0
  ELSE Worth(rounds[a][e], bets[a][e][u])

\* What a round holds: its stakes less its fee and what it has paid.
Pot(a, e) ==
  IF rounds[a][e] = None THEN 0
  ELSE rounds[a][e].total_amount - rounds[a][e].treasury_fee
         - Sum([u \in User |-> Paid(a, e, u)], NumUsers)

\* claim, refund and claim_treasury draw on one balance: it is the treasury and
\* what the rounds hold, to the stroop, after any sequence of calls.
Conserved ==
  vault = treasury
    + Sum([a \in Asset |-> Sum([e \in Epoch |-> Pot(a, e)], LastEpoch)], NumAssets)

RoundEscrow(a, e) == INSTANCE Escrow WITH
  MaxRounds <- 1,
  phase <- [r \in 1..1 |-> IF rounds[a][e] = None THEN "none"
                           ELSE IF Final(a, e) THEN "decided" ELSE "open"],
  pot <- [r \in 1..1 |-> Pot(a, e)],
  due <- [r \in 1..1 |-> [u \in User |-> Due(a, e, u)]]

\* Every round is an escrow of its own, whatever the admin sets and whenever:
\* it is decided once, grants no more than it holds, and pays each grant once.
RoundsAreEscrows ==
  /\ \A a \in Asset, e \in Epoch : RoundEscrow(a, e)!EscrowInit
  /\ [][\A a \in Asset, e \in Epoch :
         \/ UNCHANGED RoundEscrow(a, e)!escrowVars
         \/ RoundEscrow(a, e)!EscrowNext]_vars

\* "A single oracle read that makes the outcome independent of when this tx
\* lands": a resolved round has the prices of its own two boundaries, also when
\* it was settled an epoch late.
SettledAtItsBoundaries ==
  \A a \in Asset, e \in Epoch : Is(a, e, "Resolved") =>
    /\ rounds[a][e].start_price = BoundaryPrice(a, e)
    /\ rounds[a][e].end_price = BoundaryPrice(a, e + 1)

\* The calls of two epochs in a row after e were missed: no round was opened for
\* the epochs after them.
CallsMissed(a, e) ==
  \E f \in Epoch :
    /\ e < f /\ f < CurrentEpoch
    /\ RoundAt(a, f) = None /\ RoundAt(a, f + 1) = None

\* Whatever calls are missed, a round is left behind only by two missed calls in a
\* row, of genesis_lock or of execute_round: otherwise, once execute_round has run
\* in an epoch, every earlier round is final and its stakes can be claimed or
\* refunded, and two epochs after its own a round is final in any case.
NothingStranded ==
  \A a \in Asset, e \in Epoch :
    /\ rounds[a][e] # None
    /\ \/ e + 2 < CurrentEpoch
       \/ e < CurrentEpoch /\ RoundAt(a, CurrentEpoch + 1) # None
    => Final(a, e) \/ CallsMissed(a, e)

\* user_epochs is where a user's interface finds the rounds to claim: it has
\* the epochs of the user's latest bets, in order, and none that was not bet on.
LatestBetsListed ==
  \A a \in Asset, u \in User :
    LET buf == userEpochs[a][u]
        betOn == {e \in Epoch : bets[a][e][u] # None}
        listed == {buf[i] : i \in 1..Len(buf)}
    IN /\ listed \subseteq betOn
       /\ \A i, j \in 1..Len(buf) : i < j => buf[i] < buf[j]
       /\ \A e \in betOn \ listed :
            Len(buf) = UserEpochsCap /\ \A f \in listed : e < f

=============================================================================
