---------------------------- MODULE RoundSeries ----------------------------
(***************************************************************************)
(* The market contract as its callers see it: a series of rounds, each     *)
(* opened on the feed's last tick, settled once after its time, and gone   *)
(* from storage some day.  No money and no prices.  FairMarket implements  *)
(* it, and the keeper works against it.                                    *)
(***************************************************************************)
EXTENDS Integers

CONSTANTS
  Asset,
  MaxRounds,       \* bound: rounds are numbered 1..MaxRounds
  MaxTime,         \* bound: the clock stops at MaxTime
  OracleInterval,
  Lifetime,        \* a round stays in storage at least this long
  None

VARIABLES
  now,
  lastTick,   \* timestamp of the last tick published for each asset, or 0
  opened,     \* last tick a round was opened on, or 0
  counter,    \* last round id given out
  rounds

series == <<now, lastTick, opened, counter, rounds>>

RoundId == 1..MaxRounds
Time == 0..MaxTime
Tick == {t \in Time : t > 0 /\ t % OracleInterval = 0}

Round == [asset : Asset, strike_ts : Tick, settle_ts : Nat,
          status : {"Open", "Settled"}]

SeriesInit ==
  /\ now = 0
  /\ lastTick = [a \in Asset |-> 0]
  /\ opened = [a \in Asset |-> 0]
  /\ counter = 0
  /\ rounds = [r \in RoundId |-> None]

Accepts(a) == lastTick[a] # opened[a]

Create(a) ==
  /\ Accepts(a)
  /\ counter < MaxRounds
  /\ counter' = counter + 1
  /\ rounds' = [rounds EXCEPT ![counter + 1] =
       [asset |-> a, strike_ts |-> lastTick[a],
        settle_ts |-> lastTick[a] + OracleInterval, status |-> "Open"]]
  /\ opened' = [opened EXCEPT ![a] = lastTick[a]]
  /\ UNCHANGED <<now, lastTick>>

IsOpen(r) == rounds[r] # None /\ rounds[r].status = "Open"

CanSettle(r) == IsOpen(r) /\ now >= rounds[r].settle_ts

SettleRound(r) ==
  /\ CanSettle(r)
  /\ rounds' = [rounds EXCEPT ![r].status = "Settled"]
  /\ UNCHANGED <<now, lastTick, opened, counter>>

\* Time passes, the feed publishes on time or late, old rounds expire.
TimePasses ==
  /\ now' \in {now, now + 1} \cap Time
  /\ lastTick' \in [Asset -> Tick \cup {0}]
  /\ \A a \in Asset : lastTick[a] <= lastTick'[a] /\ lastTick'[a] <= now'
  /\ \E expired \in SUBSET {r \in RoundId :
          rounds[r] # None /\ rounds[r].strike_ts + Lifetime < now'} :
       rounds' = [r \in RoundId |-> IF r \in expired THEN None ELSE rounds[r]]
  /\ UNCHANGED <<opened, counter>>

SeriesNext ==
  \/ \E a \in Asset : Create(a)
  \/ \E r \in RoundId : SettleRound(r)
  \/ TimePasses

SeriesSpec == SeriesInit /\ [][SeriesNext]_series

=============================================================================
