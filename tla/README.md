# Wick: a verification project in TLA+

Wick is a prediction market on Stellar/Soroban: users stake tokens on whether an
asset closes above or below a reference price one oracle interval later, and the
winners share the pot. This directory models its contracts and the services
around them, checks the models with TLC on small instances, and proves the
properties that matter most, for every instance, with TLAPS.

## 1. The system

### Components

| Component | Code | State it keeps | Operations |
|---|---|---|---|
| Fair market contract | `contracts/fair-market` | config, round counter, treasury, last strike tick per asset (instance storage); rounds and positions (temporary storage); token balance | `initialize`, `create_round`, `bet`, `settle`, `claim`, `claim_many`, `set_fee_bps`, `set_lock_offset`, `sweep_fees` |
| Prediction contract | `contracts/prediction` | config, current epoch per asset, rounds by (asset, epoch), positions, each user's last epochs, treasury, pause flag | `initialize`, `genesis_start`, `genesis_lock`, `execute_round`, `bet_up/down`, `claim`, `refund`, `pause`, `unpause`, `set_config`, `claim_treasury` |
| Wick-predict contract | `contracts/wick-predict` | as the fair market, with payout shares boosted for early bettors and a part of the pot for the losers | `initialize`, `create_round`, `bet_above/below`, `settle`, `claim`, `sweep_fees`, admin setters, `upgrade` |
| Test oracle | `contracts/test-oracle` | one price and timestamp per asset | `initialize`, `update_price`, `update_asset_price`, `lastprice`, `price`, `set_admin` |
| Keeper | `keeper/src/{index,contract,state}.ts` | a JSON file with one round id per asset; transactions in flight | `tick`: per asset `get_round`, `settle`, `create_round`, save |
| Demo keeper | `keeper/src/demo-keeper.ts` | in memory: per market the round minded, the last price pushed, the bots' bets and claims; per key a chain of calls | a loop per market: push a price, open and settle rounds, bet and claim for the bots |
| XLM keeper | `keeper/src/xlm-keeper.ts` | the round minded, in memory | one loop: settle, open |
| Price feed, market initialisation | `keeper/src/{price-feed,init-markets}.ts` | a cache of spot prices | `getSpot`; a script run once |
| Indexer | `indexer/src` | Postgres tables rounds, bets, claims, and a cursor over the event stream | `poll`, `processEvent` |
| API | `api/src` | none of its own: reads the tables, relays Binance prices and round state over a WebSocket | REST handlers, WebSocket push |
| Bindings, types | `packages` | none: generated clients | |
| Scripts | `scripts` | none: one-off deployment | |

### How they interact

The contracts know each other only through calls: a market calls the oracle
(`lastprice` when a round opens, `price(asset, settle_ts)` when it settles) and
the token. Every contract call is one atomic transaction; a panic reverts all of
it. Anybody may create and settle rounds; users bet and claim; the admin sets
fees and lock offsets and sweeps the treasury. The keeper is one such caller. It
talks to an RPC node that may refuse a transaction, lose it, or land it after
the keeper has given up waiting, and it remembers in a file which round it is
responsible for. The demo keeper and the XLM keeper do the same for the wick-predict
markets, without a file; the demo keeper is also the feed of its markets and signs
for the bettors, so that several loops share the admin's and the bots' keys, and the
XLM keeper may sign with the same admin key from another process. The indexer reads
the contract's events through the same kind of node, and the API reads what the
indexer wrote.

### What is hard here

* One balance for everything. All rounds and the treasury share the contract's
  tokens, so an error in one round's arithmetic is paid by another's bettors.
* Time. A round is anchored to the oracle's last tick, not to the clock; ticks may
  be missed or late; the lock, the settlement and the claim each look at a
  different clock value, and entries of temporary storage expire on their own.
* Settings read twice. The fee is read at settlement and again at every claim.
* Rounding. Each share is rounded down on its own.
* Retries and crashes. The keeper's file and the chain disagree after a crash or a
  timeout; two keepers may work on the same round.
* Shared keys. Two transactions of one account built at the same time have the same
  sequence number, and only one of them lands.
* A feed without a memory. The test oracle answers with its newest price whatever time
  it is asked for, so a round settles at the price somebody pushed last.
* Replays and gaps. The indexer re-reads events after a restart and must neither
  lose nor double them.

PROJECT.json lists each of these at the line where it bites, with the properties
that watch it.

## 2. Plan

Done, in this order:

1. `FairMarket` (core): the contract with its storage, the feed and time; the
   money invariants; `Escrow`, the abstract specification of what a market
   promises about money, and the market shown to implement it.
2. `FairMarketProofs`, `FairMarketSolvency`: type correctness and solvency proved.
3. `RoundSeries`, the market as its callers see it, which `FairMarket` is shown to
   implement, and `Keeper`, keepers with their files against it; liveness.
4. `Prediction`: the epoch machine of the first contract, each round an `Escrow`.
5. `Indexer`: the event stream, the cursor, the tables and what the API lists.
6. `TestOracle` and `WickPredict`: weighted stakes and the losers' share, again an
   `Escrow`.

7. `BetSeries`, the weighted market as its callers see it, which `WickPredict` is shown
   to implement, and `WickKeepers`, the demo and the XLM keeper against it.
8. The proofs: `FairMarketProofs` and `FairMarketSolvency` (every safety property of
   `FairMarket` and both of its refinements), `KeeperProofs`, `PredictionProofs`,
   `IndexerProofs`, `WickPredictProofs` and `WickKeepersProofs` (every safety property
   of the five, the `Escrow` and `BetSeries` refinements included).

Left:

9. That rounds and ticks rise together, as a theorem of `RoundSeries` and `BetSeries`.

How the modules fit together:

```
Sums ── Escrow            what a market promises about money
          ▲  ▲  ▲
FairMarket Prediction WickPredict ── TestOracle
   │                      │
   │                      ▼
   │                  BetSeries      what a weighted market promises its callers
   │                      ▲
   │                  WickKeepers
   ▼
RoundSeries               what a market promises its callers
   ▲
Keeper                    Indexer                 (its own view of the market)
```

The proofs extend the module they are about:

```
Sums ── SumTheorems
FairMarket  ── FairMarketProofs ── FairMarketSolvency       (with SumTheorems)
Prediction  ── PredictionProofs                             (with SumTheorems)
WickPredict ── WickPredictProofs                            (with SumTheorems)
Keeper      ── KeeperProofs
Indexer     ── IndexerProofs
WickKeepers ── WickKeepersProofs
```

`MCFairMarket`, `MCKeeper` and `MCWickKeepers` hold what the small instances need; the
other modules are instantiated by their .cfg alone.

Conventions. A call that panics is a step that is not taken, because a panic
reverts the transaction. Who may call what (`require_auth`) is left out: the
admin's calls are made at any moment by somebody entitled to them. `now` is the
clock of the ledger. Times and rates are scaled down: an interval is 1 to 3 units
and not 60 to 300 seconds, fees are in tenths and not in ten-thousandths, so that the
rounding of a fee and of a share shows with small stakes. Definitions marked
`mutant` are faulty versions of the definition below them. They are not used by the
specification: each is substituted for the real one to see that the property
meant to catch that bug does. A constant called `Max...` that is marked as a bound
only bounds the instance.

## 3. The fair market

### FairMarket

One action per contract function, named after it. `feed` is what the oracle has
published, per asset and timestamp; `rounds` and `positions` are the temporary
entries with their expiry in `live_until`; `vault` is the contract's token
balance. `escrow` is a history variable: what came in for a round and has not
been paid out to its bettors or taken as its fee. `AdvanceTime` moves the clock,
publishes or misses a tick, and drops expired entries; `LateTick` publishes a
missed tick up to `MaxLag` later.

| Code | Model |
|---|---|
| `save_round`, `save_position` and `extend_ttl` | `Extended`: a lifetime is renewed only when close to its end |
| settlement price | `SettlePrice`: the exact tick at `settle_ts`, or `None` |
| `compute_claim` | `Claimable`, `Worth` (the fee configured at the claim) |
| `claim_many` | `BatchValue`: a repeated id yields nothing the second time; one transfer of the total |
| `get_round` | the derived Locked status is `Locked`, computed from the clock |

Properties:

* `Solvent`: the vault covers the treasury and everything owed on all rounds.
* `VaultAccounted`: the vault is the treasury and what the rounds hold, to the stroop:
  nothing leaves or enters but through the round it belongs to, and what an expired
  round held stays.
* `RoundsAreEscrows`: the market implements `Escrow`: a round is decided once,
  grants no more than it took in, and pays each grant once.
* `DustBounded`: how much the rounding can leave behind.
* `NoBetOnKnownPrice`: no stake on a round whose settling price is published.
* `WinnerMatchesFeed`, `SettlementFinal`: a winner is the feed's winner at
  `settle_ts` however late the call, and it stays.
* `PositionsOutliveRoundsBriefly`: how long a claim can be lost to expiry.
* `IsRoundSeries`: the market implements `RoundSeries`: a round is opened on the newest
  tick and no tick opens two of an asset, no bet, claim or admin call moves a round,
  and a round stays readable for a lifetime after its strike.

`SteadySpec` adds one admin rule to `Spec`: the fee is not cut while a winner of
a settled round has not claimed. The contract does not enforce it, and without
it `Solvent` fails (`fair_market_fee_cut`).

| Run | Bounds that matter | Why they are enough |
|---|---|---|
| `fair_market_money` | 3 bettors, stakes 1 and 2, fees 0 and 50%, 1 round, lifetime 4, threshold 1, batches of 2, clock to 8 | two winners and a loser; a fee that changes between settlement and claim; a batch that names the round twice; entries that expire in every phase |
| `fair_market_rounds` | 2 assets (interchangeable), 2 rounds, 3 bettors with at most three stakes at a time (`FewStakes`), a stake of 2, a fee of 30%, batches of 2 that may repeat, ticks up to one unit late, clock to 5 | one vault for two rounds; two rounds of one asset and one of each; a settlement on, after and before the late tick; two winners and a loser, whose fee of 1.8 is rounded to 1 and whose pot of 5 leaves 1, which is the bound of `DustBounded` for two winners |
| `fair_market_fee_cut` | as the first, fees 0, 30% and 50%, every admin call | expected to fail |

### The proofs

`SumTheorems` proves what `Sum` does for every length, by an induction over sets
of naturals. The assumptions are those of `FairMarket` on its constants: the fee limit
is at most 100%, amounts are naturals, and `None` is none of the values an entry may have.

`FairMarketProofs` is about `Spec`, that is, about every admin. Its invariant is
`SeriesInv`:

| Part | What it says | Needed for |
|---|---|---|
| `TypeInv` | the types, and that a round with a winner has stakes on both sides | shares are not divided by zero |
| `FeedInv`, `OpenedInv` | a tick is not published before its time; the last strike of an asset is a tick it published | the newest tick is what `RoundSeries` keeps |
| `ConfigInv`, `RoundsInv` | a stored round is `Anchored`: settle and lock times and the lifetime all hang on its strike tick | `NoBetOnAKnownPrice`, the lifetime of `RoundSeries` |
| `DecidedInv` | a winner is what a tick the feed still has says | `WinnersMatchTheFeed` |
| `PositionsInv` | while the round is stored, a position ends less than an offset after it; from then on the clock only closes in | `PositionsGoSoon` |

The last one is why `PositionsOutliveRoundsBriefly` is not inductive: it speaks of
positions whose round is gone, and how far they can lag was decided while it was there.
From `SeriesInv` follow `TypeCorrect`, `WinnersMatchTheFeed`, `PositionsGoSoon`,
`SettlementsAreFinal`, `NoBetOnAKnownPrice` and the step simulation of
`MarketIsRoundSeries`. `NoBetOnAKnownPrice` has the hypothesis `LocksByTheTick`, that no
lock offset is longer than the oracle interval: `set_lock_offset` does not check it, and
with a longer one the statement is false.

`FairMarketSolvency` is about `SteadySpec`. Its invariant is `MoneyInv`. Solvency is
about one sum over all rounds and is not inductive: the vault does not remember for whom
it holds what. The history variable `escrow` does, and the induction goes round by
round: `RoundsCoverThemselves` (a round owes at most its escrow), `VaultAccounted` (the
vault is the treasury plus all escrows), `OpenRoundsHoldTheirPools` (until settlement
the escrow is the two pools and nobody has claimed), `PoolsCoverStakes` (so that the
winners' shares, each rounded down, add up to no more than the pot), and `Fresh` (a
round not yet created is empty). It gives `Solvency`, `VaultIsAccounted` and
`PoolsCoverTheStakes`, which is proved and not run: a pool never understates the stakes
that share it. `EscrowInv == MoneyInv /\ SeriesInv` carries `MarketIsEscrows`, one lemma
per call: `Bet` is a `Stake`, `Settle` a `Refund` or an `Award`, a claim or a batch of
claims one `Draw`, and a fee that rises, time that passes and entries that lapse are a
`Shrink`.

`DustIsBounded` has a hypothesis of its own, `FeeStays`: the fee does not change while a
settled round is stored (it implies the rule of `SteadySpec`; `fair_market_rounds` has a
single fee). Its invariant `DrawnInv` says that the escrow of a settled round and what
its bettors have drawn are together what the settlement left, as long as every stake is
still stored. The hard step is the expiry: if stakes lapse and the rest still fills the
pools, those that lapsed were of nothing (`SumSqueezed`). When all have claimed, what is
left is what the rounding kept, less than one for each winner (`SharesNearly`).

## 4. The keeper

`RoundSeries` is what the contract shows a caller that does not care for money:
`Create` on the newest tick and once per tick, `SettleRound` once and not before
the time, rounds that are gone some day. `Keeper` runs several keepers against it.

| Code | Model |
|---|---|
| `keeper-state.json` | `file`: per keeper and asset, the round minded |
| `main`, `tick`, `processAsset` | `Wake`, `Read`, then one action per await; an error ends the asset's turn (`NextAsset`) |
| `getRound` | `Read`: a missing round counts as archived; `ReadFails`: so does every error |
| the cast of `status` in `getRound` | `Decoded`: the SDK turns a unit variant into a vector that holds its name, which equals no string; so `Finished` is never true |
| `invoke` | `SubmitSettle`, `SubmitCreate`: simulated, then sent; `SendFails` |
| `waitForTx` | `Land` answers it; `Throw` when the transaction is dead; `GiveUp` while it may still land |
| sequence numbers | when one transaction of an account lands, the others built on the same number are dead |
| `saveState` | `Save` after the round was read back; `SaveFails`; `TornWrite` |
| a restart | `Crash`: memory is lost, the file and the transactions in flight stay |

`deployed` says which keepers run on how many assets, and bounds the clock and the
faults; `faults` counts what has gone wrong. `misread` is a history variable: `getRound`
turned an error into a missing round, which the keeper takes for an archived one. A
keeper's clock runs up to `MaxSkew` ahead of the ledger's.

Properties: `OneKeeperPerRound` (while nothing fails, each open round is minded by
exactly one of the keepers), `HandsOver` (a keeper leaves a round only for a newer one of
the same asset, and only when it is settled or gone), `MindedRoundsSettle` (whatever
fails, what is in a file is settled in the end), `StallsOnlyOnSettledRounds` (whatever
fails, in the end there is a round on the newest tick of every asset, or each keeper of
the asset is stuck on a round that is settled and still in storage).

The comparison of `index.ts:54` is never true, so a keeper that reads a settled round
tries to settle it once more, is refused, and returns. It opens the next round only in
the pass of its own `settle`, and only if the next tick is already published then; else
it stays where it is until the settled round leaves storage, after seven days, and
`getRound` finds nothing. `keeper_stalls` checks `MarketKeepsMoving`, which is what the
documentation of the loop promises, and shows the stall without a single failure.

A query that fails while a round is read makes the keeper open the next round and
overwrite its entry while the old round may still be open. `HandsOver` and
`MindedRoundsSettle` therefore hold until some keeper has misread a round;
`StallsOnlyOnSettledRounds` holds with misreads, and `OneKeeperPerRound` speaks of the time
before any fault. A crash after `create_round` has landed and before the file is written
(`index.ts:98-106`) leaves an open round in no file, which the keeper does not find again:
with one crash `NoRoundForgotten` is false, which is why it stands in the proofs only up
to the first fault.

Fairness. `WF(Works(k))`: `main` is a `while (true)` that catches every error and sleeps a
fixed time, and each await of a call returns or throws. `WF(Land)`: a transaction that is
valid and not dropped is included by the network. `WF` on the clock. No fairness is
assumed of a failure, and faults are bounded: forever failing nodes settle nothing. None
is assumed of expiry either, so that a round may stay in storage for good.

`KeeperProofs` proves the two safety properties and the types for every number of
keepers, assets, rounds and faults. Its invariant `LoopInv` is one of the market, one of
what is shared, and `LocalInv(k)` of each keeper: where it is in its loop (`Located`),
that an awaited transaction is that of the step it is at (`Queued`), what it knows of
the round in its file (`Knows`), and that what it has in hand exists and is newer
(`Holds`). Keepers interfere only through the market, so one relation on steps,
`MarketGrows` (a closed round stays closed, an id never becomes another asset's), is all
that a keeper's invariant needs of the other keepers and of the environment.
`TypeCorrect` and `HandsOverOnlyClosedRounds` follow. For `ParallelKeepersAreHarmless`
the invariant is `MindInv == Apart /\ (faults = 0 => AllAwaited /\ NoRoundForgotten)`:
that no two keepers mind the same round holds whatever fails (`KeepersMindTheirOwn`,
proved and not run); that somebody minds each open round holds until the first fault,
because until then every transaction is awaited by the keeper that sent it. The two
liveness properties stay with TLC.

| Run | Bounds that matter | Why they are enough |
|---|---|---|
| `keeper_parallel` | three deployments: 2 keepers on 1 asset over three ticks, and 1 keeper on 2 assets over two, each with two faults of any kind; 2 keepers on 2 assets over two ticks, without; rounds may leave storage one unit after their strike | both keepers in every pair of awaits; a transaction that lands after its sender gave up, crashed or went on to the other asset, where it kills the next one; a second fault on top; rounds that expire before they are read; ids and files of two keepers and two assets that must not cross |
| `keeper_stalls` | 1 keeper, no faults, two ticks, rounds that stay in storage | expected to fail: a round that was settled before the next tick came is never followed by another |

## 5. The prediction contract

Epochs instead of rounds by number: `CurrentEpoch` is the clock divided by the
interval. `ExecuteRound` is the whole of `execute_round`: `Executed` gives the rounds
of the asset after it, in the order of the code (E-2 settled at its own boundary if it
was missed, E-1 settled or cancelled, E locked or cancelled, E+1 opened), and the fee
of each settlement goes to the treasury. A price is the newest at or before the
boundary and is refused when it is older than the tolerance. `Claim` and `Refund` take
any set of epochs; those that yield nothing are passed over, as in the loops of the code.

Properties: `RoundsAreEscrows` (each round of each asset is an `Escrow`), `Conserved` (the
balance is the treasury and what the rounds hold, to the stroop), `LatestBetsListed`
(`push_user_epoch` drops the oldest), `SettledAtItsBoundaries` (a resolved round has
the prices of its own two boundaries), `NothingStranded` (a round that `execute_round`
has left behind is final, unless two calls in a row were missed after it).

`execute_round` looks back two epochs. If the calls of two epochs in a row are missed, no
round is opened for the two epochs after them (`CallsMissed`), and a round before those
may be reached by no later call: it stays Open or Locked, and its stakes can be neither
claimed nor refunded. The same happens to a first round whose `genesis_lock` is not called
in its epoch (`lib.rs:142-144`). `NothingStranded` says that these are the only ways, for
any pattern of calls: it does not say that nothing is ever stranded.

`PredictionProofs` proves all of these for every value of the constants. `execute_round`
rewrites up to four rounds at once, so the proofs first say which fates one round can
have in one step (`Stays`, `Opens`, `Locks`, `Voids`, `Resolves`, `Takes` a stake,
`Pays` a claim) and then follow each round alone.

* `MarketInv == TypeOK /\ SetupInv /\ RoundsInv`: the pools of a round are exactly its
  stakes, only a final round has claims, and a resolved one shares out its pot less the fee.
  `TypeCorrect` is not inductive without it.
* `BalanceIsConserved`: `Held` is the sum of the pots of all rounds of all assets, and each
  fate changes the pot of its round by what the call moves into or out of the vault.
* `MarketIsEscrows`: each fate is a step of the round's `Escrow` or none; no admin rule
  is needed, because here the fee is fixed at the settlement.
* `TheLatestAreListed`: `ShownInv`, the list is the newest epochs bet on, in order, and none
  of them is beyond the next epoch, so that a new bet belongs at the end of the list.
* `SettlesAtTheBoundaries` has the hypotheses `MaxLag = 0` and `Tolerance = {}`, as in
  the run `prediction_cadence`: prices are published on time and the tolerance is not
  changed after `initialize`. Without them the price the oracle answers for a boundary
  can change after a round has taken it. `PricesAreOfTheBoundaries` needs neither: the
  price a settlement takes is at that moment the answer for the round's own boundary,
  and a final round does not change.
* `OnlyMissedCallsStrand`: `PipelineInv`, the newest round of an asset is open and every
  earlier one that is not final has two epochs without a round after it.

Nothing here is only model-checked.

| Run | Bounds that matter | Why they are enough |
|---|---|---|
| `prediction_money` | 3 bettors, 3 bets, epochs of one unit, clock to 2, the tie rule changed at will, ticks missed or late, list of 2 epochs | two winners and a loser, whose stakes of 2 and fee of 20% leave a fee of 1 and a reward that two winners cannot share evenly; all of lock, close, claim, refund and sweep in any order; at time 2 the first round is settled while two more are open |
| `prediction_cadence` | 2 bettors, clock to 4, a tolerance of one interval | every pattern of missed calls over five epochs, with the previous price standing in: a first round that is never locked, a call that comes an epoch late and settles two rounds, two missed calls, and a round that is two epochs behind |

The models take fees up to 100%; `set_config` takes any. Persistent entries are taken
not to be archived.

## 6. The indexer and the API

The market is reduced to what its events say: `chain` and `stakes` are the rounds and
positions it has had, and `stream` has one event per call. `expired` and `lapsed` are the
entries that have left temporary storage: the contract pays nothing from them
(`Owed`), and no event tells of it. The indexer reads batches after its cursor, writes
each event in a transaction of its own and then saves the cursor; a failed event is
rolled back and skipped, an error outside of that transaction means the batch is read
again, and a crash can come between any two of these. `Key` is the pair of transaction
and place in the batch, on which `INSERT ... ON CONFLICT DO NOTHING` relies. `Listed` is
the query behind `GET /users/:address/claimable`. `handled` and `missed` are history
variables: the events handed to `processEvent`, and those whose own transaction failed
when they were last read.

What the indexer makes of an event hangs on three things that nothing in the code
settles, and `deployed` is a choice of each:

| `deployed` | As the code stands | As a comment or a type has it |
|---|---|---|
| `cursor` | `zero`: the migration's `'0'`, from which every poll is refused (`FetchRefused`) | `token`: the token of a ledger before the first event, set by hand |
| `id` | `object`: the `Contract` of stellar-sdk 13, never equal to `CONTRACT_ID` (`PassOver`) | `text`: a string, as `index.ts:50` declares it |
| `layout` | `bare`: the kind is the first topic, and no second topic is a kind | `prefixed`: `"wick"` first, as in `index.ts:11-16` |

The two columns are the repository's two accounts of itself. The first is what runs
today, and under it nothing reaches the tables. The properties of the passing run and
all theorems hold for each of the eight combinations, and say of the first column what is
true there. Where they speak of rows they say something only of a deployment that
recognises events (`Recognised`: `text` and `prefixed`). `indexer_stores` runs the first
column against what the header of `index.ts` promises, `EventsStored`. The three gaps are
independent: with `Cursors = {"token"}` in `IndexerStores.cfg` the property still fails,
because every event is passed over, with `Ids = {"text"}` as well it fails because no
kind is recognised, and only with `Layouts = {"prefixed"}` on top does it hold.

Properties:

* `NoGaps`: every event before the saved cursor was handed to `processEvent`, and where
  that recognises events, each is in the tables or its own transaction failed.
* `NoDoubleRows`: no event has two rows, however often it was read.
* `ListedIsWon`, at any moment of any replay: what the API lists was won by a stake of
  that user. Where the contract would not pay it any more, an entry has expired or a
  claim has not come through: it is unread, or failed, or was one of a batch, whose row
  carries the length of the batch in place of a round. The pools behind the amount are
  the contract's unless a bet is still to be read, or read again, or failed. The
  property names the ways in which the list may be wrong; it does not say that it is
  right, nor that everything owed is listed.
* `EveryEventPassed`: from a cursor set by hand every event is left behind by the cursor
  in the end.

Fairness: `WF(Works)`. The loop of the indexer catches every error of a poll and goes on;
no fairness is assumed of the market's calls, of expiry or of failures.

`IndexerProofs` proves the three safety properties for any users, rounds, length of the
stream, batch limit, number of faults and set of deployments. `MirrorInv` has three
parts. `ContractInv` says what the stream tells of the contract: a round is created
before anything else happens to it, the last bet carries the pools and the settlement the
outcome. `PlaceInv` says where the indexer is: how far it has read beyond its cursor and
how much of the batch is done. `TablesInv` says what the tables hold: each row is that of
one event, the rows beyond the cursor have the keys the next reading will give them
(`Keyed`, which is why a replay doubles none), and every event passed is recorded or its
own transaction failed. A crash puts `Passed` back to the cursor while the rows stay, so
no row may lie beyond `HighMark`, the furthest event that can have been read from this
cursor. `HandedInv`, on top of it, is what a crash does not put back: what was handed to
`processEvent`, and that a claim, whose insertion refers to no other table, then has a
row or has failed. `EveryEventPassed` is a liveness property and stays with TLC.

| Run | Bounds that matter | Why they are enough |
|---|---|---|
| `indexer_replays` | 1 round, 2 users, 5 events, batches of 2, one fault of any kind, all deployments | created, two bets, settled and a claim: every kind of event at every place of a batch, each read again with the batch cut elsewhere, with entries that expire at any moment |
| `indexer_stores` | as deployed, 1 user, 4 events, no faults | expected to fail: nothing is ever read |

Left out: the materialised leaderboard, whose refresh every few polls (`index.ts:192`)
changes no other table, whose error is swallowed, and which nothing reads; a second
stake of a user on a round that is still open after the first has lapsed, a week later;
how long entries last (`FairMarket` has that); and events that the node no longer keeps.

## 7. The weighted market and the test oracle

`TestOracle` keeps one price per symbol and a default, with the time each was set.
`price` does not look at the time it is asked for. `WickPredict` extends it: a round is
opened on the oracle's last update, a stake's weight is its amount times what is left
until the lock, and `Worth` is `winner_payout` and `loser_payout`: 70% of what the
losers leave is shared among the winners and 30% among everybody, by weight. Entries
expire as in the fair market.

Properties: `RoundsAreEscrows` (`Escrow` again: winners and losers together draw no more
than the round took in), `SharesAddUp` (and no less, but for one stroop per division),
`Solvent` (the balance covers the treasury and all claims of all rounds together),
`EarlierEarnsMore` (a later stake of the same size and side is never worth more,
whatever the outcome), `BetsCloseBeforeSettlement` (the two setters guard each other in
any order), `IsBetSeries` (the market implements `BetSeries`: every update of the oracle
opens at most one round, a round settles once, at the price of that moment, a stake is
paid once, and no setter touches a round that is open).

`SteadySpec` adds two admin rules. One is that of the fair market: no cut of the fee
while a share of a decided round is unclaimed. The other: `initialize` is called with a
lock offset below the interval, which both setters ask for and `initialize` does not.

| Run | Bounds that matter | Why they are enough |
|---|---|---|
| `wick_predict_money` | 2 bettors, 2 stakes of 10, two rounds, offsets 1 and 3, intervals 2 and 4, a fee of 20% and one of 60%, which is refused, lifetime 2, clock to 4 | two rounds in one balance; a stake that is gone before its round is settled and one that is not; both setters change their value and both are refused: the pair of 3 and 2, with which a stake would be taken after the settlement time, is one call away from either side |
| `wick_predict_shares` | 3 bettors, 3 stakes of 10, one round, an interval of 3 and an offset of 2, fees of 20% and 30%, lifetime 3, clock to 5 | stakes of weight 2 and 1 are there together at the settlement, on the winners' side and on the losers'; the weights do not divide the pots, so the rounding shows; a fee that rises before the claims, and positions that expire before they are claimed |

The oracle is updated at most once a second, and bettors, whom nothing tells apart, come
to a round in the order of their numbers.

`WickPredictProofs` proves all of these for every value of the constants. What is true
of a round is said of its entries alone: `Sound(round, row, held, t)`, with
`SoundPosition` (a weight is at least what the same stake would get now) and
`SoundPools` (pools and sums of weights are those of the positions, but for positions
that have left storage). `MarketInv == TypeOK /\ SetupInv /\ OracleInv /\ UnopenedInv /\
RoundsInv`, and each call is one lemma about the entries of one round (`Opens`,
`Stakes`, `Settles`, `Pays`, `Ages`) with `KeepsTheRest` for the others.

* `EarlierIsBetter` needs of the invariant only `SoundPosition`, and that `Worth` grows
  with the weight. It holds under `Spec`, whatever the admin does.
* `SharesAreAll`, also under `Spec`: parts by weight, each rounded down, add up to no
  more than the whole and miss less than one for each part (`PartsWithin`,
  `PartsNearly`); a round grants a share of the winners, one of everybody and the split
  between the two (`GrantsAddUp`).
* `MarketIsEscrows`, under `SteadySpec`: the upper half of the same sum covers the
  award; fees that are not cut only shrink what is owed.
* `BettingClosesInTime`: `ClosingInv`, the lock offset is below the
  interval, which needs the rule on `initialize`, and was for every stored round.
* `MarketIsBetSeries`: the step simulation of `BetSeries`. It assumes `MinBet > 0`, because
  `initialize` takes any `min_bet` and a stake of nothing would not show as a side.

Two are about the one balance that pays everybody:

* `BalanceIsConserved`, under `Spec`: the balance is the treasury and what the rounds hold,
  to the stroop. It needs `NothingBooked`, because `initialize` sets the treasury to zero.
* `Solvency`, under `SteadySpec`: `Covered`, that no round owes more than it holds, is kept
  by every step of `Escrow`, hence by every step of the market (`EscrowCovers` on top of
  `StepIsEscrowStep`); with conservation it gives `Solvent`:
  the balance covers the treasury and everything owed on all rounds, so no claim and no
  sweep is turned down by its transfer.

## 8. The keepers of the weighted markets

`BetSeries` is what `WickPredict` shows a caller that does not care for amounts:
`Push`, `Create`, `Bet`, `SettleRound`, `Claim`, and entries that leave storage some
day. `WickKeepers` runs the demo keeper and the XLM keeper against it.

| Code | Model |
|---|---|
| `txLocks`, `withAccountLock` | `queue`: per process and account the calls chained on the key, the head being run; `Chained` appends |
| `processMarket`, `tick` of the XLM keeper | `Wake`, then `Look` with what the round says (`DemoLooks`, `XlmLooks`), then one action per await |
| `query` | answers in `Wake`, `Look` and `Recount`; fails in `WakeBlind`, `Misreads` and `RecountFails` |
| `Date.now()`, read before the round | `LooksAmiss`: a clock one unit early or late |
| `pushPrice`, its nudge | `PushPrice`, `Quote`: a spot equal to the price last pushed is raised by one; prices of the feed are even |
| `openRound`, `autoBet`, `autoClaim` | `CreateEnds`, `AutoBet`, `AutoClaim`, `BotsDone` (the `Promise.all`); `betTracker` and `claimTracker` as in the code, `BotEnds` takes a failed call out |
| `invokeUnlocked` | `Submit` (simulated, then sent), `SendFails`, `Throw`, `GiveUp` while the transaction may still land |
| a value that cannot be decoded | `LandUnread`: the transaction lands and returns `null`; then `Recount` |
| sequence numbers | `Lands`: when one transaction of an account lands, the others built on the same number are dead, those of another process included |
| a restart | `Crash`: nothing is on disk; what was sent may still land |
| `(round.status as { tag }).tag` | `Status`: the client library may return an enum without a `tag`; both cases are deployed |

Each kind of fault happens at most once and `budget` bounds how many kinds. A
deployment says which loops run on which market, what may go wrong, and its bounds:

| Deployment | Bounds that matter | Why they are enough |
|---|---|---|
| `Alone` | one demo market, two bots, two rounds, two spots, any fault; clock to 4 without tags and 3 with | a whole round, its claims and the next one, with each fault at every await, and a spot that moves, stays or comes back |
| `SharedKeys` | two demo markets on the same three keys, one spot, a transaction may be lost | two calls chained on every key in either order, the second waiting for the first or for its end |
| `Xlm` | one XLM market, two faults | a second fault in the recovery from the first, as a crash after a transaction that landed unread |
| `SharedAdmin` | a demo and an XLM market on the admin's key in two processes, no faults | two chains that do not know of each other: transactions that die without any failure |

Two markets stand for four: a chain is first in, first out, and a call only waits for
the one before it.

Properties of `wick_keepers`:

* `OneInFlight`: the demo keeper never has two transactions of a key on the way, unless
  it gave one up or was restarted, when an old one may still land.
* `NothingLeftBehind`: without faults a loop that has moved on leaves a settled round
  and claimed stakes, also in `SharedAdmin`. It needs the condition: a claim that fails is
  put back to be tried again, but the loop opens the next round right after and does not
  return.
* `RoundsResolve`: a round with bots on both sides is not void. It holds while nothing
  fails but decoding and expiry, and no other process signs with the key. After a lost push
  or a failed settle the nudge compares with the price last *sent* and not with the strike,
  so a second push can bring the strike back.
* `FreshSettlement`: the demo keeper settles on a price pushed at or after `settle_ts`,
  whatever fails, unless its clock is off or a stranger settles. `TestOracle` answers with
  the newest price, so nothing but this order makes the result the one of the right time.
* `LeavesOpenOnlyBlind`: no call that fails makes a loop leave a round that is open,
  neither for another nor for none (number 0, from which it opens the next). Two things
  do: a restart, and a query that fails in that very step, because the demo keeper takes
  `null` for a round that is gone (`demo-keeper.ts:130-137`, `309-314`). After the
  second the loop opens the next round and never comes back to the old one, which stays
  open for good: `demo-keeper.ts:310` speaks of a round that "fell out of temporary storage",
  and any failed simulation is taken for that.
* `NoMarketStalls`: whatever fails, in the end every loop has nothing left to do within
  the bounds. An XLM loop whose round has left storage counts as done: its `get_round`
  throws at every pass until somebody restarts it (`xlm-keeper.ts:137`), where the demo
  keeper starts over (`demo-keeper.ts:311`).

Fairness. `WF(Works(m))`: `marketLoop` and `main` catch every error and sleep a fixed time.
`WF(Serves(l))`: a call at the head of a chain is run, and a call whose transaction is
dead throws (`prev.then(fn, fn)` goes on after either). `WF(LandsFor(a))`: of the
transactions of an account that are on the way one is included. `WF` on the clock.

### The proofs

`WickKeepersProofs` proves every property above but the last, for any markets, bots,
prices, deployments and bounds. It assumes what the module does of its constants: at
least one round, a positive interval longer than the lock offset, an admin who is not a
bot, even spots, `None` neither a price nor a round, and a deployment with a spot to
read.

| Theorem | Property | Invariant on top of `LoopInv` |
|---|---|---|
| `TypeCorrect` | `TypeOK` | none |
| `AbandonsOnlyBlind` | `LeavesOpenOnlyBlind` | none |
| `OneTransactionPerAccount` | `OneInFlight` | `AllAwaited` |
| `SettlesOnFreshPrice` | `FreshSettlement` | `FreshInv` |
| `SidesResolve` | `RoundsResolve` | `CalmInv`, with `AllAwaited` and `FreshInv` |
| `StakesRecycled` | `NothingLeftBehind` | `QuietInv`, with `AllAwaited` |

`LoopInv` holds whatever fails, and is of three parts. `MarketInv` is of the markets.
`OwnInv` is of what only a keeper changes: its memory, where each loop is in its pass
(`Placed`: a loop turns to another round only from one that is not open), and the chains,
which hold for each market at most one call, the one of the step its loop is at. The
third, `InflightInv`, says that an awaited transaction is of the call at the head of its
chain. Of the steps of other loops, strangers and time, `OwnInv` needs only what `Grows`
says of them: the counter and the clock rise, a round keeps its strike and its time, and
one that is not open never opens again. What the keepers themselves
do is then of three kinds: a loop moves on or chains a call, a chain sends its head,
and a call ends. `EndsWell` is what the last may do.

None of the other four properties is inductive, nor follows from `LoopInv`: each speaks
of what has gone before and of faults that have not happened. What is missing is

* `AllAwaited`: until the keeper has stopped polling or was restarted, what is on the way
  is awaited, hence the head of a chain, hence one of each key in each process;
* `FreshInv`: a loop that is closing a round is past its time, one that is settling has
  a price of that time in the oracle, and so has every settle that is on the way. The
  last is needed because a settle that was given up may land much later, when only the
  rise of the oracle's timestamps still says that its price is not old;
* `CalmInv`: only the newest round is open, and its strike is the last price sent until
  another is sent to settle it; the oracle is at the last price sent unless a push is on
  its way; a transaction that has died (`Lost`) was no push and no settle of an open
  round. This is where the condition of `RoundsResolve` is used: a lost push leaves the
  oracle at a price which the nudge does not know;
* `QuietInv`: a loop minds the newest round, the rounds are exactly those up to the
  counter, it turns from one that is settled and has every bot's claim in
  `claimTracker`, and a claim in the tracker is done or still in its chain. No claim that
  is on the way can be refused, and none dies: a bot's key is used by one chain only,
  unlike the admin's, whose transactions may die without any failure (`SharedAdmin`).

All of them were model-checked before they were proved. `NoMarketStalls` is liveness
and stays with TLC.

## 9. Where the code and its documentation differ

Kept as runs, with the lines quoted in PROJECT.json: the fee cut
(`fair_market_fee_cut`), the settled round that is never followed by another
(`keeper_stalls`), and the indexer that stores nothing (`indexer_stores`: its first poll,
its check of the contract id and its topics).

Seen while modelling and not kept as runs:

* the keeper's file is said to let it resume "without losing track of which rounds it
  needs to settle" (`state.ts:3-4`); a crash between the transaction and the write loses one
  (section 4).
* prediction's `storage.rs:14-16` says funds are stranded only after 60 days without a call;
  two missed epochs, or a missed `genesis_lock`, do it too (section 5).
* the demo keeper leaves an open round for good after a query that fails (section 8).
* fair-market `settle` called before a late tick is published voids the round, where a call
  after it would name a winner; `WinnerMatchesFeed` is stated for winners only.
* fair-market `set_lock_offset` has no upper bound, so betting may be open until after
  `settle_ts`; `create_round` stamps a round's lifetime and `bet` a position's, so one
  can outlive the other by up to the lock offset.
* prediction leaves the rounding in the round for ever, where `math.rs` speaks of the
  treasury, and pays a tie to Down, where `types.rs` speaks of the house.
* the indexer skips an event whose transaction failed; its row for a batched claim
  carries the length of the batch in place of a round.
* wick-predict's refund is not capped by the stake of the loser; its fee is read again at
  the claim; the test oracle's header promises the price at or before the time asked for.
* the indexer's `REFRESH MATERIALIZED VIEW CONCURRENTLY` runs on a view created
  `WITH NO DATA`, which Postgres refuses to refresh that way the first time; the error is
  swallowed.
* the demo keeper does not return to a stake whose claim failed once the next round is
  open, though `demo-keeper.ts:249` puts the claim back to be tried again.

## 10. Not modelled

The price feed's cache and the initialisation of the demo markets: the model pushes any
spot of a small set, which covers fresh, stale and walked prices, and the script is run
once before the markets exist. The WebSocket relay of the API, which keeps no state, and
its plain reads; the generated bindings and types; deployment scripts, fixtures and the
API description. Within the modelled contracts: who may call, admin hand-over, code
upgrades, the decoding of oracle answers, the archival of persistent storage, and
128-bit overflow, which the contracts trap on.
