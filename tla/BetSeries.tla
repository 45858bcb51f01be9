----------------------------- MODULE BetSeries -----------------------------
(***************************************************************************)
(* Wick-predict markets as their callers see them: per market a series of  *)
(* rounds, each opened on the oracle's newest update, taking stakes on both *)
(* sides until its lock, settled once after its time at the price of that  *)
(* moment, and paying each stake once.  No amounts, no fees, no settings.  *)
(* WickPredict implements it, and the keepers work against it.             *)
(***************************************************************************)
EXTENDS Integers

CONSTANTS
  Market,
  Bettor,
  MaxRounds,   \* bound: the rounds of a market are numbered 1..MaxRounds
  MaxTime,     \* bound: the clock stops at MaxTime
  Price,       \* what the oracle may be told
  LockOffset, OracleInterval,   \* a market's settings, any of which may be in force
  Lifetime,    \* an entry stays in storage at least this long
  None

VARIABLES
  now,
  tick,          \* the oracle's newest update for each market, or None
  counter,       \* last round id given out
  lastStrikeTs,  \* time of the update the last round was opened on
  rounds,
  stakes         \* "none", "staked" or "claimed"

series == <<now, tick, counter, lastStrikeTs, rounds, stakes>>

RoundId == 1..MaxRounds
Side == {"Above", "Below"}

Round == [strike : Price, strike_ts : Nat, lock_ts : Nat, settle_ts : Nat,
          sides : SUBSET Side, status : {"Open", "Settled"},
          outcome : Side \cup {"Void"}]

SeriesInit ==
  /\ tick = [m \in Market |-> None]
  /\ counter = [m \in Market |-> 0]
  /\ lastStrikeTs = [m \in Market |-> 0]
  /\ rounds = [m \in Market |-> [r \in RoundId |-> None]]
  /\ stakes = [m \in Market |-> [r \in RoundId |-> [b \in Bettor |-> "none"]]]

HasStatus(m, r, status) == rounds[m][r] # None /\ rounds[m][r].status = status

Push(m, price) ==
  /\ tick' = [tick EXCEPT ![m] = [price |-> price, timestamp |-> now]]
  /\ UNCHANGED <<now, counter, lastStrikeTs, rounds, stakes>>

CanCreate(m) ==
  /\ tick[m] # None
  /\ tick[m].timestamp # lastStrikeTs[m]
  /\ counter[m] < MaxRounds

Create(m, offset, interval) ==
  /\ CanCreate(m)
  /\ counter' = [counter EXCEPT ![m] = @ + 1]
  /\ lastStrikeTs' = [lastStrikeTs EXCEPT ![m] = tick[m].timestamp]
  /\ rounds' = [rounds EXCEPT ![m][counter[m] + 1] =
       [strike |-> tick[m].price, strike_ts |-> tick[m].timestamp,
        lock_ts |-> tick[m].timestamp + offset,
        settle_ts |-> tick[m].timestamp + interval,
        sides |-> {}, status |-> "Open", outcome |-> "Void"]]
  /\ UNCHANGED <<now, tick, stakes>>

CanBet(m, r, b) ==
  /\ HasStatus(m, r, "Open")
  /\ now < rounds[m][r].lock_ts
  /\ stakes[m][r][b] = "none"

Bet(m, r, b, side) ==
  /\ CanBet(m, r, b)
  /\ stakes' = [stakes EXCEPT ![m][r][b] = "staked"]
  /\ rounds' = [rounds EXCEPT ![m][r].sides = @ \cup {side}]
  /\ UNCHANGED <<now, tick, counter, lastStrikeTs>>

CanSettle(m, r) == HasStatus(m, r, "Open") /\ now >= rounds[m][r].settle_ts

\* A side without stakes and a price that is the strike again void the round.
Verdict(round, price) ==
  IF round.sides # Side \/ price = round.strike THEN "Void"
  ELSE IF price > round.strike THEN "Above" ELSE "Below"

SettleRound(m, r) ==
  /\ CanSettle(m, r)
  /\ rounds' = [rounds EXCEPT ![m][r].status = "Settled",
                              ![m][r].outcome = Verdict(rounds[m][r], tick[m].price)]
  /\ UNCHANGED <<now, tick, counter, lastStrikeTs, stakes>>

CanClaim(m, r, b) == HasStatus(m, r, "Settled") /\ stakes[m][r][b] = "staked"

Claim(m, r, b) ==
  /\ CanClaim(m, r, b)
  /\ stakes' = [stakes EXCEPT ![m][r][b] = "claimed"]
  /\ UNCHANGED <<now, tick, counter, lastStrikeTs, rounds>>

MayBeGone(m, r) == rounds[m][r] # None /\ rounds[m][r].strike_ts + Lifetime < now'

\* Time passes, and old rounds and old stakes leave storage, each on its own.
TimePasses ==
  /\ now' \in {now, now + 1} \cap 0..MaxTime
  /\ UNCHANGED <<tick, counter, lastStrikeTs>>
  /\ rounds' \in [Market -> [RoundId -> Round \cup {None}]]
  /\ stakes' \in [Market -> [RoundId -> [Bettor -> {"none", "staked", "claimed"}]]]
  /\ \A m \in Market, r \in RoundId :
       /\ rounds'[m][r] # rounds[m][r] => rounds'[m][r] = None /\ MayBeGone(m, r)
       /\ \A b \in Bettor : stakes'[m][r][b] # stakes[m][r][b] =>
            /\ stakes'[m][r][b] = "none"
            /\ rounds[m][r] # None => MayBeGone(m, r)

Opens(m) ==
  \E offset \in LockOffset, interval \in OracleInterval : Create(m, offset, interval)

Moves(m, r) ==
  \/ SettleRound(m, r)
  \/ \E b \in Bettor : Claim(m, r, b) \/ \E side \in Side : Bet(m, r, b, side)

SeriesNext ==
  \/ TimePasses
  \/ \E m \in Market : \/ \E price \in Price : Push(m, price)
                      \/ Opens(m)
                      \/ \E r \in RoundId : Moves(m, r)

SeriesSpec == SeriesInit /\ [][SeriesNext]_series

=============================================================================
