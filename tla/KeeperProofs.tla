----------------------------- MODULE KeeperProofs -----------------------------
(***************************************************************************)
(* Theorems about Keeper, for every number of keepers, assets and rounds   *)
(* and any faults.  The invariant is one of each keeper: what it awaits    *)
(* agrees with the step it is at, and the round it has in hand with its    *)
(* file.  The market only has to move the way MarketGrows says.            *)
(***************************************************************************)
EXTENDS Keeper, FiniteSetTheorems, TLAPS

USE KeeperAssumption, NoneAssumption
  DEF KeeperAssumption, NoneAssumption, Asset, RoundId, NewRound,
      Series!RoundId, Series!Time, Finished, Due

-----------------------------------------------------------------------------
(* The inductive invariant *)

MarketInv ==
  /\ now \in 0..MaxTime
  /\ lastTick \in [Asset -> Series!Tick \cup {0}]
  /\ opened \in [Asset -> Series!Tick \cup {0}]
  /\ counter \in 0..MaxRounds
  /\ rounds \in [RoundId -> Series!Round \cup {None}]
  /\ \A a \in Asset : opened[a] <= lastTick[a]
  /\ \A r \in RoundId : r > counter => rounds[r] = None

SharedInv ==
  /\ deployed \in Deployment
  /\ faults \in 0..deployed.budget
  /\ misread \in BOOLEAN
  /\ misread => faults > 0
  /\ file \in [Keeper -> [Asset -> RoundId \cup {None}]]
  /\ at \in [Keeper -> 0..NumAssets]
  /\ pc \in [Keeper -> Step]
  /\ target \in [Keeper -> RoundId \cup {None}]
  /\ inflight \in [Keeper -> SUBSET Tx]

\* Where a keeper is in its loop.
Located(k) ==
  /\ at[k] <= deployed.assets
  /\ at[k] = 0 <=> pc[k] = "asleep"
  /\ target[k] # None <=> pc[k] \in {"settle", "settling", "settled", "created"}

\* A transaction that is awaited is the one of the step the keeper is at.
Queued(k) ==
  \A tx \in inflight[k] :
    /\ tx.on \in IF tx.call = "settle" THEN RoundId ELSE Asset
    /\ tx.awaited => IF tx.call = "settle"
                     THEN pc[k] = "settling" /\ tx.on = target[k]
                     ELSE pc[k] = "creating" /\ tx.on = at[k]

\* What a keeper knows of the round in its file: it settles that round, and it
\* turns to a new one only when that round is closed, or misread.
Knows(k) ==
  LET old == file[k][at[k]]
  IN /\ pc[k] \in {"settle", "settling", "settled"} => target[k] = old
     /\ pc[k] = "settled" => ~Series!IsOpen(old)
     /\ pc[k] \in {"create", "creating", "created"} /\ old # None /\ ~misread
          => ~Series!IsOpen(old)

\* The rounds a keeper minds exist, and the one it is about to save is newer
\* than all in its file.
Holds(k) ==
  /\ \A a \in Asset : file[k][a] # None => file[k][a] <= counter
  /\ pc[k] = "created" =>
       /\ target[k] <= counter
       /\ rounds[target[k]] # None => rounds[target[k]].asset = at[k]
       /\ \A a \in Asset : file[k][a] # None => file[k][a] < target[k]

LocalInv(k) == Located(k) /\ Queued(k) /\ Knows(k) /\ Holds(k)

LoopInv == MarketInv /\ SharedInv /\ \A k \in Keeper : LocalInv(k)

-----------------------------------------------------------------------------
(* The market *)

\* What a keeper may rely on while it awaits: a closed round stays closed, and an
\* entry never becomes another round's.
MarketGrows ==
  /\ counter <= counter'
  /\ \A r \in RoundId : r <= counter =>
       /\ Series!IsOpen(r)' => Series!IsOpen(r)
       /\ rounds'[r] # None =>
            rounds[r] # None /\ rounds'[r].asset = rounds[r].asset

LEMMA SameMarket ==
  ASSUME MarketInv, UNCHANGED market PROVE MarketInv' /\ MarketGrows
BY DEF market, MarketInv, MarketGrows, Series!IsOpen

LEMMA SettleGrows ==
  ASSUME MarketInv, NEW r \in RoundId, Series!SettleRound(r)
  PROVE  MarketInv' /\ MarketGrows /\ rounds' # rounds /\ ~Series!IsOpen(r)'
         /\ \A s \in RoundId : Series!IsOpen(s)' => Series!IsOpen(s)
<1> USE DEF MarketInv
<1>1. /\ rounds[r] \in Series!Round /\ rounds[r].status = "Open"
      /\ rounds' = [rounds EXCEPT ![r] = [rounds[r] EXCEPT !.status = "Settled"]]
      /\ UNCHANGED <<now, lastTick, opened, counter>>
  BY DEF Series!SettleRound, Series!CanSettle, Series!IsOpen
<1>2. [rounds[r] EXCEPT !.status = "Settled"] \in Series!Round
      /\ [rounds[r] EXCEPT !.status = "Settled"].asset = rounds[r].asset
      /\ [rounds[r] EXCEPT !.status = "Settled"].status = "Settled"
  BY <1>1 DEF Series!Round
<1>3. /\ rounds'[r] \in Series!Round /\ rounds'[r].status = "Settled"
      /\ rounds'[r].asset = rounds[r].asset
      /\ \A s \in RoundId : s # r => rounds'[s] = rounds[s]
  BY <1>1, <1>2
<1>4. rounds' \in [RoundId -> Series!Round \cup {None}]
  BY <1>1, <1>2
<1>5. MarketInv'
  <2>1. counter \in Nat /\ rounds[r] # None
    BY <1>1
  <2>2. \A s \in RoundId : s > counter => rounds'[s] = None
    BY <1>3, <2>1
  <2>. QED BY <1>1, <1>4, <2>2
<1>6. \A s \in RoundId : Series!IsOpen(s)' => Series!IsOpen(s)
  BY <1>1, <1>3 DEF Series!IsOpen
<1>7. MarketGrows
  <2>1. \A s \in RoundId : rounds'[s] # None =>
          rounds[s] # None /\ rounds'[s].asset = rounds[s].asset
    BY <1>1, <1>3
  <2>. QED BY <1>1, <1>6, <2>1 DEF MarketGrows
<1>8. rounds'[r] # rounds[r] /\ ~Series!IsOpen(r)'
  BY <1>1, <1>3 DEF Series!IsOpen
<1>. QED BY <1>5, <1>6, <1>7, <1>8

LEMMA CreateGrows ==
  ASSUME MarketInv, NEW a \in Asset, Series!Create(a)
  PROVE  /\ MarketInv' /\ MarketGrows /\ rounds' # rounds
         /\ counter' = counter + 1 /\ counter' \in RoundId
         /\ rounds'[counter'] # None /\ rounds'[counter'].asset = a
         /\ \A r \in RoundId : r # counter' => rounds'[r] = rounds[r]
<1> USE DEF MarketInv
<1> DEFINE new == [asset |-> a, strike_ts |-> lastTick[a],
                   settle_ts |-> lastTick[a] + OracleInterval,
                   status |-> "Open"]
<1>1. /\ counter < MaxRounds /\ counter' = counter + 1
      /\ rounds' = [rounds EXCEPT ![counter + 1] = new]
      /\ opened' = [opened EXCEPT ![a] = lastTick[a]]
      /\ UNCHANGED <<now, lastTick>> /\ lastTick[a] # opened[a]
  BY DEF Series!Create, Series!Accepts
<1>2. PICK id \in RoundId : id = counter + 1
  BY <1>1
<1>3. lastTick[a] \in Series!Tick
  BY <1>1 DEF Series!Tick
<1>4. new \in Series!Round
  BY <1>3 DEF Series!Round, Series!Tick
<1> HIDE DEF new
<1>5. rounds' = [rounds EXCEPT ![id] = new]
  BY <1>1, <1>2
<1>6. rounds' \in [RoundId -> Series!Round \cup {None}]
      /\ rounds'[id] = new /\ new # None
      /\ \A r \in RoundId : r # id => rounds'[r] = rounds[r]
  BY <1>4, <1>5
<1>7. new.asset = a
  BY DEF new
<1>8. rounds[id] = None /\ counter' = id
  BY <1>1, <1>2
<1>9. MarketInv'
  <2>1. opened' \in [Asset -> Series!Tick \cup {0}]
    BY <1>1, <1>3
  <2>2. \A b \in Asset : opened'[b] <= lastTick'[b]
    <3>1. \A b \in Asset : b # a => opened'[b] = opened[b]
      BY <1>1
    <3>2. opened'[a] = lastTick[a] /\ lastTick[a] \in Int
      BY <1>1, <1>3 DEF Series!Tick
    <3>. QED BY <1>1, <3>1, <3>2
  <2>3. \A r \in RoundId : r > counter' => rounds'[r] = None
    BY <1>1, <1>2, <1>6
  <2>. QED BY <1>1, <1>2, <1>6, <1>8, <2>1, <2>2, <2>3
<1>10. MarketGrows
  BY <1>1, <1>2, <1>6 DEF MarketGrows, Series!IsOpen
<1>. QED BY <1>1, <1>2, <1>6, <1>7, <1>8, <1>9, <1>10

LEMMA TimeGrows ==
  ASSUME MarketInv, Series!TimePasses
  PROVE  MarketInv' /\ MarketGrows
         /\ \A r \in RoundId : rounds'[r] = rounds[r] \/ rounds'[r] = None
<1> USE DEF MarketInv
<1>1. /\ now' \in 0..MaxTime /\ UNCHANGED <<opened, counter>>
      /\ lastTick' \in [Asset -> Series!Tick \cup {0}]
      /\ \A a \in Asset : lastTick[a] <= lastTick'[a]
  BY DEF Series!TimePasses
<1>2. PICK expired \in SUBSET RoundId :
        rounds' = [r \in RoundId |-> IF r \in expired THEN None ELSE rounds[r]]
  BY DEF Series!TimePasses
<1>3. rounds' \in [RoundId -> Series!Round \cup {None}]
      /\ \A r \in RoundId : rounds'[r] = rounds[r] \/ rounds'[r] = None
  BY <1>2
<1>4. \A a \in Asset : opened'[a] <= lastTick'[a]
  <2>1. TAKE a \in Asset
  <2>2. opened[a] \in Int /\ lastTick[a] \in Int /\ lastTick'[a] \in Int
    BY <1>1 DEF Series!Tick
  <2>. QED BY <1>1, <2>2
<1>. QED BY <1>1, <1>3, <1>4 DEF MarketGrows, Series!IsOpen

-----------------------------------------------------------------------------
(* One keeper's step *)

LEMMA AssetCount ==
  ASSUME SharedInv PROVE deployed.assets \in Asset /\ deployed.assets \in Nat
BY DEF SharedInv

\* Where a keeper is awake it is at an asset.
LEMMA Awake ==
  ASSUME LoopInv, NEW k \in Keeper, pc[k] # "asleep" PROVE at[k] \in Asset
BY DEF LoopInv, SharedInv, LocalInv, Located

LEMMA WrapAround ==
  ASSUME NEW n \in Nat, NEW m \in 1..n
  PROVE  (m + 1) % (n + 1) = IF m = n THEN 0 ELSE m + 1
<1>1. (n + 1) % (n + 1) = 0
  OBVIOUS
<1>2. \A d \in Nat \ {0}, i \in Nat : i < d => i % d = i
  OBVIOUS
<1>3. CASE m < n
  <2>1. n + 1 \in Nat \ {0} /\ m + 1 \in Nat /\ m + 1 < n + 1
    BY <1>3
  <2>2. (m + 1) % (n + 1) = m + 1
    BY <1>2, <2>1
  <2>. QED BY <1>3, <2>2
<1>. QED BY <1>1, <1>3

\* A keeper that does nothing is not disturbed by what the market or the others
\* do.
Idle(j) ==
  /\ file'[j] = file[j] /\ at'[j] = at[j] /\ pc'[j] = pc[j]
  /\ target'[j] = target[j] /\ inflight'[j] = inflight[j]

LEMMA IdleKeeps ==
  ASSUME LoopInv, MarketInv', MarketGrows, deployed' = deployed,
         misread => misread', NEW j \in Keeper, Idle(j)
  PROVE  LocalInv(j)'
<1> USE DEF Idle
<1>1. LocalInv(j) /\ counter \in Nat /\ counter' \in Nat /\ counter <= counter'
      /\ file[j] \in [Asset -> RoundId \cup {None}]
      /\ target[j] \in RoundId \cup {None}
  BY DEF LoopInv, MarketInv, SharedInv, MarketGrows
<1>2. Located(j)'
  BY <1>1 DEF LocalInv, Located
<1>3. Queued(j)'
  BY <1>1 DEF LocalInv, Queued
<1>4. \A r \in RoundId : r <= counter /\ ~Series!IsOpen(r) => ~Series!IsOpen(r)'
  BY DEF MarketGrows
<1>5. ASSUME pc[j] # "asleep", file[j][at[j]] # None
      PROVE  file[j][at[j]] \in RoundId /\ file[j][at[j]] <= counter
  BY <1>1, <1>5, Awake DEF LocalInv, Holds
<1>6. Knows(j)'
  <2>1. pc[j] \in {"settle", "settling", "settled"} =>
          file[j][at[j]] # None
    BY <1>1 DEF LocalInv, Located, Knows
  <2>2. ASSUME pc[j] # "asleep", file[j][at[j]] # None,
               ~Series!IsOpen(file[j][at[j]])
        PROVE  ~Series!IsOpen(file[j][at[j]])'
    <3>1. PICK r \in RoundId : r = file[j][at[j]] /\ r <= counter
      BY <1>5, <2>2
    <3>2. ~Series!IsOpen(r)'
      BY <1>4, <2>2, <3>1
    <3>. QED BY <3>1, <3>2 DEF Series!IsOpen
  <2>. QED BY <1>1, <2>1, <2>2 DEF LocalInv, Knows
<1>7. Holds(j)'
  <2>1. \A a \in Asset : file[j][a] # None => file[j][a] <= counter'
    BY <1>1 DEF LocalInv, Holds
  <2>2. ASSUME pc[j] = "created"
        PROVE  /\ target[j] <= counter'
               /\ rounds'[target[j]] # None =>
                    rounds'[target[j]].asset = at[j]
               /\ \A a \in Asset : file[j][a] # None => file[j][a] < target[j]
    <3>1. target[j] \in RoundId /\ target[j] <= counter
      BY <1>1, <2>2 DEF LocalInv, Located, Holds
    <3>. QED BY <1>1, <2>2, <3>1 DEF LocalInv, Holds, MarketGrows
  <2>. QED BY <2>1, <2>2 DEF Holds
<1>. QED BY <1>2, <1>3, <1>6, <1>7 DEF LocalInv

\* A keeper's step: the keeper moves, the others do not, the market grows.
LEMMA KeeperSteps ==
  ASSUME LoopInv, MarketInv', MarketGrows, SharedInv', deployed' = deployed,
         misread => misread', NEW k \in Keeper, LocalInv(k)',
         \A j \in Keeper : j # k => Idle(j)
  PROVE  LoopInv'
BY IdleKeeps DEF LoopInv

LEMMA NextAssetWhere ==
  ASSUME LoopInv, NEW k \in Keeper, pc[k] # "asleep", NextAsset(k)
  PROVE  /\ at' \in [Keeper -> 0..NumAssets] /\ pc' \in [Keeper -> Step]
         /\ target' \in [Keeper -> RoundId \cup {None}]
         /\ at'[k] <= deployed.assets
         /\ at'[k] = 0 <=> pc'[k] = "asleep"
         /\ pc'[k] \in {"asleep", "read"} /\ target'[k] = None
         /\ \A j \in Keeper : j # k =>
              at'[j] = at[j] /\ pc'[j] = pc[j] /\ target'[j] = target[j]
<1> USE DEF LoopInv, SharedInv, LocalInv, Located
<1>1. at[k] \in 1..deployed.assets /\ deployed.assets \in 1..NumAssets
  BY Awake, AssetCount
<1>2. (at[k] + 1) % (deployed.assets + 1)
        = IF at[k] = deployed.assets THEN 0 ELSE at[k] + 1
  <2>1. PICK n \in Nat : n = deployed.assets
    BY <1>1
  <2>2. at[k] \in 1..n
    BY <1>1, <2>1
  <2>3. (at[k] + 1) % (n + 1) = IF at[k] = n THEN 0 ELSE at[k] + 1
    BY <2>2, WrapAround
  <2>. QED BY <2>1, <2>3
<1>. QED BY <1>1, <1>2 DEF NextAsset, Goes, Step

\* Going on to the next asset, with nothing awaited, leaves nothing to know.
LEMMA NextAssetLocal ==
  ASSUME LoopInv, NEW k \in Keeper, pc[k] # "asleep", NextAsset(k),
         deployed' = deployed,
         \A tx \in inflight'[k] :
           /\ ~tx.awaited
           /\ tx.on \in IF tx.call = "settle" THEN RoundId ELSE Asset,
         \A a \in Asset : file'[k][a] # None => file'[k][a] <= counter'
  PROVE  LocalInv(k)'
<1>1. /\ at'[k] <= deployed.assets
      /\ at'[k] = 0 <=> pc'[k] = "asleep"
      /\ pc'[k] \in {"asleep", "read"} /\ target'[k] = None
  BY NextAssetWhere
<1>2. Located(k)' /\ Queued(k)' /\ Knows(k)' /\ Holds(k)'
  BY <1>1 DEF Located, Queued, Knows, Holds
<1>. QED BY <1>2 DEF LocalInv

\* A step at which a keeper goes on to its next asset.
LEMMA LeavesAsset ==
  ASSUME LoopInv, NEW k \in Keeper, pc[k] # "asleep", NextAsset(k),
         UNCHANGED <<market, deployed>>, misread' = misread,
         faults' \in {faults, faults + 1} /\ faults' <= deployed.budget,
         inflight' \in [Keeper -> SUBSET Tx],
         \A tx \in inflight'[k] :
           /\ ~tx.awaited
           /\ tx.on \in IF tx.call = "settle" THEN RoundId ELSE Asset,
         file' \in [Keeper -> [Asset -> RoundId \cup {None}]],
         \A a \in Asset : file'[k][a] # None => file'[k][a] <= counter,
         \A j \in Keeper : j # k => inflight'[j] = inflight[j] /\ file'[j] = file[j]
  PROVE  LoopInv'
<1>1. MarketInv' /\ MarketGrows /\ counter' = counter
  BY SameMarket DEF LoopInv, market
<1>2. SharedInv'
  <2>1. deployed.budget \in Nat /\ faults \in Nat
    BY DEF LoopInv, SharedInv
  <2>. QED BY <2>1, NextAssetWhere DEF LoopInv, SharedInv
<1>3. LocalInv(k)'
  BY <1>1, NextAssetLocal
<1>4. \A j \in Keeper : j # k => Idle(j)
  BY NextAssetWhere DEF Idle
<1>. QED BY <1>1, <1>2, <1>3, <1>4, KeeperSteps

\* A step at which it stays at its asset.
LEMMA StaysAtAsset ==
  ASSUME LoopInv, NEW k \in Keeper, MarketInv', MarketGrows,
         UNCHANGED <<deployed, file, at>>, misread => misread', SharedInv',
         NEW step \in Step, Goes(k, step), LocalInv(k)',
         \A j \in Keeper : j # k =>
           inflight'[j] = inflight[j] /\ target'[j] = target[j]
  PROVE  LoopInv'
<1>1. \A j \in Keeper : j # k => Idle(j)
  BY DEF Idle, Goes, LoopInv, SharedInv
<1>. QED BY <1>1, KeeperSteps

\* At these steps a keeper awaits no transaction.
LEMMA NothingAwaited ==
  ASSUME LoopInv, NEW k \in Keeper, pc[k] \notin {"settling", "creating"}
  PROVE  \A tx \in inflight[k] :
           /\ ~tx.awaited
           /\ tx.on \in IF tx.call = "settle" THEN RoundId ELSE Asset
BY DEF LoopInv, SharedInv, LocalInv, Queued, Tx

LEMMA FileHeld ==
  ASSUME LoopInv, NEW k \in Keeper
  PROVE  \A a \in Asset : file[k][a] # None => file[k][a] <= counter
BY DEF LoopInv, LocalInv, Holds

LEMMA WakeInv ==
  ASSUME LoopInv, NEW k \in Keeper, Wake(k) PROVE LoopInv'
<1> USE DEF LoopInv
<1>1. MarketInv' /\ MarketGrows /\ counter' = counter
  BY SameMarket DEF Wake, market
<1>2. 1 \in 0..NumAssets /\ 1 <= deployed.assets
  BY AssetCount
<1>3. SharedInv'
  BY <1>2 DEF Wake, SharedInv, Goes, Step
<1>4. pc[k] = "asleep" /\ pc'[k] = "read" /\ at'[k] = 1
      /\ UNCHANGED <<file, target, inflight, deployed>>
  BY DEF Wake, Goes, SharedInv
<1>5. LocalInv(k)'
  BY <1>1, <1>2, <1>4 DEF LocalInv, Located, Queued, Knows, Holds
<1>6. \A j \in Keeper : j # k => Idle(j)
  BY DEF Wake, Goes, Idle, SharedInv
<1>. QED BY <1>1, <1>3, <1>4, <1>5, <1>6, KeeperSteps DEF Wake

\* What a keeper reads of a round never tells it that the round is settled.
LEMMA NeverFinished ==
  ASSUME NEW round \in Series!Round, NEW clock PROVE ~Finished(round, clock)
<1>1. round.status \in {"Open", "Settled"}
  BY DEF Series!Round
<1>2. Decoded["Open"] # "Settled" /\ Decoded["Settled"] # "Settled"
  BY DEF Decoded
<1>. QED BY <1>1, <1>2

LEMMA ReadInv ==
  ASSUME LoopInv, NEW k \in Keeper, Read(k) PROVE LoopInv'
<1> DEFINE saved == file[k][at[k]]
<1>1. MarketInv' /\ MarketGrows /\ counter' = counter
  BY SameMarket DEF LoopInv, Read, market
<1>2. at[k] \in Asset /\ saved \in RoundId \cup {None} /\ pc[k] = "read"
      /\ target[k] = None
  <2>1. pc[k] = "read"
    BY DEF Read
  <2>2. at[k] \in Asset
    BY <2>1, Awake
  <2>3. target[k] = None
    BY <2>1 DEF LoopInv, LocalInv, Located
  <2>. QED BY <2>1, <2>2, <2>3 DEF LoopInv, SharedInv
<1>3. UNCHANGED <<market, deployed, file, inflight, faults, misread>>
  BY DEF Read
<1>4. CASE NextAsset(k)
  <2>1. /\ faults' \in {faults, faults + 1} /\ faults' <= deployed.budget
        /\ file' \in [Keeper -> [Asset -> RoundId \cup {None}]]
        /\ inflight' \in [Keeper -> SUBSET Tx]
    BY <1>3 DEF LoopInv, SharedInv
  <2>2. \A tx \in inflight'[k] :
          /\ ~tx.awaited
          /\ tx.on \in IF tx.call = "settle" THEN RoundId ELSE Asset
    BY <1>2, <1>3, NothingAwaited
  <2>. QED BY <1>2, <1>3, <1>4, <2>1, <2>2, LeavesAsset, FileHeld
<1>5. CASE /\ Goes(k, "create") /\ UNCHANGED <<at, target>>
           /\ saved # None => ~Series!IsOpen(saved)
  <2>1. SharedInv'
    BY <1>3, <1>5 DEF LoopInv, SharedInv, Goes, Step
  <2>2. pc'[k] = "create"
    BY <1>5 DEF Goes, LoopInv, SharedInv
  <2>3. LocalInv(k)'
    <3>1. saved # None => ~Series!IsOpen(saved)'
      BY <1>3, <1>5 DEF market, Series!IsOpen
    <3>. QED BY <1>1, <1>2, <1>3, <1>5, <2>2, <3>1, NothingAwaited
             DEF LoopInv, LocalInv, Located, Queued, Knows, Holds
  <2>. QED BY <1>1, <1>3, <1>5, <2>1, <2>3, StaysAtAsset DEF Step
<1>6. CASE /\ Goes(k, "settle") /\ target' = [target EXCEPT ![k] = saved]
           /\ UNCHANGED at /\ saved # None
  <2>1. SharedInv'
    BY <1>2, <1>3, <1>6 DEF LoopInv, SharedInv, Goes, Step
  <2>2. pc'[k] = "settle" /\ target'[k] = saved
        /\ \A j \in Keeper : j # k => target'[j] = target[j]
    BY <1>6 DEF Goes, LoopInv, SharedInv
  <2>3. LocalInv(k)'
    BY <1>1, <1>2, <1>3, <1>6, <2>2, NothingAwaited
       DEF LoopInv, LocalInv, Located, Queued, Knows, Holds
  <2>. QED BY <1>1, <1>3, <1>6, <2>1, <2>2, <2>3, StaysAtAsset DEF Step
<1>7. \/ NextAsset(k)
      \/ /\ Goes(k, "create") /\ UNCHANGED <<at, target>>
         /\ saved # None => ~Series!IsOpen(saved)
      \/ /\ Goes(k, "settle") /\ target' = [target EXCEPT ![k] = saved]
         /\ UNCHANGED at /\ saved # None
  <2>1. saved # None => rounds[saved] \in Series!Round \cup {None}
    BY <1>2 DEF LoopInv, MarketInv
  <2>2. ASSUME NEW clock, saved # None, Decision(rounds[saved], clock) = "create"
        PROVE rounds[saved] = None
    <3>1. CASE rounds[saved] = None
      BY <3>1
    <3>2. CASE rounds[saved] # None
      <4>1. ~Finished(rounds[saved], clock)
        BY <2>1, <2>2, <3>2, NeverFinished
      <4>. QED BY <2>2, <3>2, <4>1 DEF Decision
    <3>. QED BY <3>1, <3>2
  <2>3. PICK clock \in now..(now + MaxSkew) :
          LET decision == IF saved = None THEN "create"
                          ELSE Decision(rounds[saved], clock)
          IN \/ decision = "create" /\ Goes(k, "create") /\ UNCHANGED <<at, target>>
             \/ /\ decision = "settle" /\ Goes(k, "settle")
                /\ target' = [target EXCEPT ![k] = saved]
                /\ UNCHANGED at
             \/ decision = "wait" /\ NextAsset(k)
    BY DEF Read
  <2>. QED BY <2>2, <2>3 DEF Series!IsOpen
<1>. QED BY <1>4, <1>5, <1>6, <1>7

LEMMA ReadFailsInv ==
  ASSUME LoopInv, NEW k \in Keeper, ReadFails(k) PROVE LoopInv'
<1>1. MarketInv' /\ MarketGrows /\ counter' = counter
  BY SameMarket DEF LoopInv, ReadFails, market
<1>2. pc[k] = "read" /\ at[k] \in Asset /\ pc'[k] = "create" /\ misread'
      /\ Goes(k, "create")
      /\ UNCHANGED <<deployed, file, at, target, inflight>>
  <2>1. pc[k] = "read"
    BY DEF ReadFails
  <2>. QED BY <2>1, Awake DEF ReadFails, Goes, LoopInv, SharedInv
<1>3. SharedInv'
  BY <1>2 DEF ReadFails, Faulty, LoopInv, SharedInv, Goes, Step
<1>4. LocalInv(k)'
  BY <1>1, <1>2, NothingAwaited
     DEF LoopInv, LocalInv, Located, Queued, Knows, Holds
<1>. QED BY <1>1, <1>2, <1>3, <1>4, StaysAtAsset DEF Step

\* The refusals and failures after which a keeper only goes on.
LEMMA MovesOnInv ==
  ASSUME LoopInv, NEW k \in Keeper, NextAsset(k),
         pc[k] \in {"settle", "create", "settling", "creating", "created"},
         Awaited(k) = {}, UNCHANGED <<market, deployed, file, inflight, misread>>,
         faults' = faults \/ \E kind \in FaultKind : Faulty(kind)
  PROVE  LoopInv'
<1>1. \A tx \in inflight'[k] :
        /\ ~tx.awaited
        /\ tx.on \in IF tx.call = "settle" THEN RoundId ELSE Asset
  BY DEF LoopInv, LocalInv, Queued, Awaited
<1>2. faults' \in {faults, faults + 1} /\ faults' <= deployed.budget
  BY DEF Faulty, LoopInv, SharedInv
<1>. QED BY <1>1, <1>2, LeavesAsset, FileHeld DEF LoopInv, SharedInv

LEMMA AwaitsNothing ==
  ASSUME LoopInv, NEW k \in Keeper, pc[k] \notin {"settling", "creating"}
  PROVE  Awaited(k) = {}
BY NothingAwaited DEF Awaited

LEMMA SubmitSettleInv ==
  ASSUME LoopInv, NEW k \in Keeper, SubmitSettle(k) PROVE LoopInv'
<1>1. MarketInv' /\ MarketGrows /\ counter' = counter
  BY SameMarket DEF LoopInv, SubmitSettle, market
<1>2. pc[k] = "settle" /\ at[k] \in Asset /\ target[k] \in RoundId
      /\ UNCHANGED <<market, deployed, file, faults, misread>>
  <2>1. pc[k] = "settle"
    BY DEF SubmitSettle
  <2>2. target[k] # None
    BY <2>1 DEF LoopInv, LocalInv, Located
  <2>. QED BY <2>1, <2>2, Awake DEF SubmitSettle, LoopInv, SharedInv
<1>3. CASE NextAsset(k) /\ UNCHANGED inflight
  BY <1>2, <1>3, AwaitsNothing, MovesOnInv
<1> DEFINE tx == [call |-> "settle", on |-> target[k], awaited |-> TRUE]
<1>4. CASE /\ inflight' = [inflight EXCEPT ![k] = @ \cup {tx}]
           /\ Goes(k, "settling") /\ UNCHANGED <<at, target>>
  <2>1. tx \in Tx
    BY <1>2 DEF Tx
  <2>2. pc'[k] = "settling" /\ inflight'[k] = inflight[k] \cup {tx}
        /\ \A j \in Keeper : j # k => inflight'[j] = inflight[j]
    BY <1>4 DEF Goes, LoopInv, SharedInv
  <2>3. SharedInv'
    BY <1>2, <1>4, <2>1 DEF LoopInv, SharedInv, Goes, Step
  <2>4. Queued(k)'
    BY <1>2, <1>4, <2>2, NothingAwaited DEF Queued
  <2>5. Located(k)' /\ Knows(k)' /\ Holds(k)'
    BY <1>1, <1>2, <1>4, <2>2 DEF LoopInv, LocalInv, Located, Knows, Holds
  <2>6. LocalInv(k)'
    BY <2>4, <2>5 DEF LocalInv
  <2>. QED BY <1>1, <1>2, <1>4, <2>2, <2>3, <2>6, StaysAtAsset DEF Step
<1>. QED BY <1>3, <1>4 DEF SubmitSettle

LEMMA SubmitCreateInv ==
  ASSUME LoopInv, NEW k \in Keeper, SubmitCreate(k) PROVE LoopInv'
<1>1. MarketInv' /\ MarketGrows /\ counter' = counter
  BY SameMarket DEF LoopInv, SubmitCreate, market
<1>2. pc[k] = "create" /\ at[k] \in Asset
      /\ UNCHANGED <<market, deployed, file, faults, misread>>
  <2>1. pc[k] = "create"
    BY DEF SubmitCreate
  <2>. QED BY <2>1, Awake DEF SubmitCreate
<1>3. CASE NextAsset(k) /\ UNCHANGED inflight
  BY <1>2, <1>3, AwaitsNothing, MovesOnInv
<1> DEFINE tx == [call |-> "create", on |-> at[k], awaited |-> TRUE]
<1>4. CASE /\ inflight' = [inflight EXCEPT ![k] = @ \cup {tx}]
           /\ Goes(k, "creating") /\ UNCHANGED <<at, target>>
  <2>1. tx \in Tx
    BY <1>2 DEF Tx
  <2>2. pc'[k] = "creating" /\ inflight'[k] = inflight[k] \cup {tx}
        /\ \A j \in Keeper : j # k => inflight'[j] = inflight[j]
    BY <1>4 DEF Goes, LoopInv, SharedInv
  <2>3. SharedInv'
    BY <1>2, <1>4, <2>1 DEF LoopInv, SharedInv, Goes, Step
  <2>4. Queued(k)'
    BY <1>2, <1>4, <2>2, NothingAwaited DEF Queued
  <2>5. Knows(k)'
    <3>1. file[k][at[k]] # None /\ ~misread => ~Series!IsOpen(file[k][at[k]])
      BY <1>2 DEF LoopInv, LocalInv, Knows
    <3>. QED BY <1>2, <1>4, <2>2, <3>1 DEF Knows, market, Series!IsOpen
  <2>6. Located(k)' /\ Holds(k)'
    BY <1>1, <1>2, <1>4, <2>2 DEF LoopInv, LocalInv, Located, Holds
  <2>7. LocalInv(k)'
    BY <2>4, <2>5, <2>6 DEF LocalInv
  <2>. QED BY <1>1, <1>2, <1>4, <2>2, <2>3, <2>7, StaysAtAsset DEF Step
<1>. QED BY <1>3, <1>4 DEF SubmitCreate

LEMMA SettledInv ==
  ASSUME LoopInv, NEW k \in Keeper, Settled(k) PROVE LoopInv'
<1>1. MarketInv' /\ MarketGrows /\ counter' = counter
  BY SameMarket DEF LoopInv, Settled, market
<1>2. pc[k] = "settled" /\ at[k] \in Asset /\ pc'[k] = "create"
      /\ Goes(k, "create") /\ target'[k] = None
      /\ target' = [target EXCEPT ![k] = None]
      /\ UNCHANGED <<market, deployed, file, at, inflight, faults, misread>>
  <2>1. pc[k] = "settled"
    BY DEF Settled
  <2>. QED BY <2>1, Awake DEF Settled, Goes, LoopInv, SharedInv
<1>3. SharedInv'
  BY <1>2 DEF LoopInv, SharedInv, Goes, Step
<1>4. Knows(k)'
  <2>1. ~Series!IsOpen(file[k][at[k]])
    BY <1>2 DEF LoopInv, LocalInv, Knows
  <2>. QED BY <1>2, <2>1 DEF Knows, market, Series!IsOpen
<1>5. Located(k)' /\ Queued(k)' /\ Holds(k)'
  BY <1>1, <1>2, NothingAwaited
     DEF LoopInv, LocalInv, Located, Queued, Holds
<1>6. \A j \in Keeper : j # k => target'[j] = target[j]
  BY <1>2 DEF LoopInv, SharedInv
<1>. QED BY <1>1, <1>2, <1>3, <1>4, <1>5, <1>6, StaysAtAsset DEF Step, LocalInv

LEMMA SaveInv ==
  ASSUME LoopInv, NEW k \in Keeper, Save(k) PROVE LoopInv'
<1>1. pc[k] = "created" /\ at[k] \in Asset /\ target[k] \in RoundId
      /\ target[k] <= counter /\ NextAsset(k)
      /\ UNCHANGED <<market, deployed, inflight, faults, misread>>
  <2>1. pc[k] = "created"
    BY DEF Save
  <2>2. target[k] # None /\ target[k] <= counter
    BY <2>1 DEF LoopInv, LocalInv, Located, Holds
  <2>. QED BY <2>1, <2>2, Awake DEF Save, LoopInv, SharedInv
<1>2. /\ file' \in [Keeper -> [Asset -> RoundId \cup {None}]]
      /\ \A a \in Asset : file'[k][a] \in {file[k][a], target[k]}
      /\ \A j \in Keeper : j # k => file'[j] = file[j]
  BY <1>1 DEF Save, LoopInv, SharedInv
<1>3. \A a \in Asset : file'[k][a] # None => file'[k][a] <= counter
  BY <1>1, <1>2, FileHeld
<1>4. \A tx \in inflight'[k] :
        /\ ~tx.awaited
        /\ tx.on \in IF tx.call = "settle" THEN RoundId ELSE Asset
  BY <1>1, NothingAwaited
<1>5. /\ faults' \in {faults, faults + 1} /\ faults' <= deployed.budget
      /\ inflight' \in [Keeper -> SUBSET Tx]
      /\ \A j \in Keeper : j # k => inflight'[j] = inflight[j]
  BY <1>1 DEF LoopInv, SharedInv
<1>. QED BY <1>1, <1>2, <1>3, <1>4, <1>5, LeavesAsset

LEMMA ForgottenIs ==
  ASSUME LoopInv, NEW k \in Keeper
  PROVE  /\ Forgotten(k) \in SUBSET Tx
         /\ \A tx \in Forgotten(k) :
              /\ ~tx.awaited
              /\ tx.on \in IF tx.call = "settle" THEN RoundId ELSE Asset
<1>1. inflight[k] \in SUBSET Tx
  BY DEF LoopInv, SharedInv
<1>2. SUFFICES ASSUME NEW old \in inflight[k]
               PROVE  LET tx == [old EXCEPT !.awaited = FALSE]
                      IN /\ tx \in Tx /\ ~tx.awaited
                         /\ tx.on \in IF tx.call = "settle" THEN RoundId ELSE Asset
  BY DEF Forgotten
<1>3. old.on \in IF old.call = "settle" THEN RoundId ELSE Asset
  BY DEF LoopInv, LocalInv, Queued
<1>4. old \in Tx
  BY <1>1
<1>. QED BY <1>3, <1>4 DEF Tx

LEMMA GiveUpInv ==
  ASSUME LoopInv, NEW k \in Keeper, GiveUp(k) PROVE LoopInv'
<1>1. pc[k] # "asleep" /\ NextAsset(k)
      /\ inflight' = [inflight EXCEPT ![k] = Forgotten(k)]
      /\ UNCHANGED <<market, deployed, file, misread>>
  BY DEF GiveUp
<1>2. /\ faults' \in {faults, faults + 1} /\ faults' <= deployed.budget
      /\ file' \in [Keeper -> [Asset -> RoundId \cup {None}]]
      /\ inflight' \in [Keeper -> SUBSET Tx]
      /\ inflight'[k] = Forgotten(k)
      /\ \A j \in Keeper : j # k => inflight'[j] = inflight[j] /\ file'[j] = file[j]
  BY <1>1, ForgottenIs DEF GiveUp, Faulty, LoopInv, SharedInv
<1>3. \A a \in Asset : file'[k][a] # None => file'[k][a] <= counter
  BY <1>1, FileHeld
<1>4. \A tx \in inflight'[k] :
        /\ ~tx.awaited
        /\ tx.on \in IF tx.call = "settle" THEN RoundId ELSE Asset
  BY <1>2, ForgottenIs
<1>. QED BY <1>1, <1>2, <1>3, <1>4, LeavesAsset

\* A keeper that stops, with the file it leaves behind.
LEMMA StopsInv ==
  ASSUME LoopInv, NEW k \in Keeper, Stops(k),
         faults' \in {faults, faults + 1} /\ faults' <= deployed.budget,
         file' \in [Keeper -> [Asset -> RoundId \cup {None}]],
         \A a \in Asset : file'[k][a] # None => file'[k][a] <= counter,
         \A j \in Keeper : j # k => file'[j] = file[j]
  PROVE  LoopInv'
<1>1. MarketInv' /\ MarketGrows /\ counter' = counter
  BY SameMarket DEF LoopInv, Stops, market
<1>2. /\ at'[k] = 0 /\ pc'[k] = "asleep" /\ target'[k] = None
      /\ inflight'[k] = Forgotten(k)
      /\ \A j \in Keeper : j # k => Idle(j)
      /\ deployed' = deployed /\ misread' = misread
  BY DEF Stops, Goes, Idle, LoopInv, SharedInv
<1>3. SharedInv'
  <2>1. deployed.budget \in Nat /\ faults \in Nat
    BY DEF LoopInv, SharedInv
  <2>2. 0 \in 0..NumAssets
    OBVIOUS
  <2>3. /\ at' \in [Keeper -> 0..NumAssets] /\ pc' \in [Keeper -> Step]
        /\ target' \in [Keeper -> RoundId \cup {None}]
    BY <2>2 DEF Stops, Goes, LoopInv, SharedInv, Step
  <2>4. inflight' \in [Keeper -> SUBSET Tx]
    BY ForgottenIs DEF Stops, LoopInv, SharedInv
  <2>. QED BY <1>2, <2>1, <2>3, <2>4 DEF LoopInv, SharedInv
<1>4. LocalInv(k)'
  <2>1. 0 <= deployed.assets
    BY AssetCount DEF LoopInv
  <2>. QED BY <1>1, <1>2, <2>1, ForgottenIs
           DEF LocalInv, Located, Queued, Knows, Holds
<1>. QED BY <1>1, <1>2, <1>3, <1>4, KeeperSteps

LEMMA CrashInv ==
  ASSUME LoopInv, NEW k \in Keeper, Crash(k) PROVE LoopInv'
<1>1. /\ Stops(k) /\ file' = file
      /\ faults' \in {faults, faults + 1} /\ faults' <= deployed.budget
      /\ file' \in [Keeper -> [Asset -> RoundId \cup {None}]]
  BY DEF Crash, Faulty, LoopInv, SharedInv
<1>. QED BY <1>1, FileHeld, StopsInv

LEMMA TornWriteInv ==
  ASSUME LoopInv, NEW k \in Keeper, TornWrite(k) PROVE LoopInv'
<1>1. /\ Stops(k) /\ file' = [file EXCEPT ![k] = [a \in Asset |-> None]]
      /\ faults' \in {faults, faults + 1} /\ faults' <= deployed.budget
  BY DEF TornWrite, Faulty, LoopInv, SharedInv
<1>2. /\ file' \in [Keeper -> [Asset -> RoundId \cup {None}]]
      /\ \A a \in Asset : file'[k][a] = None
      /\ \A j \in Keeper : j # k => file'[j] = file[j]
  BY <1>1 DEF LoopInv, SharedInv
<1>. QED BY <1>1, <1>2, StopsInv

LEMMA DropInv ==
  ASSUME LoopInv, NEW k \in Keeper, NEW tx \in Tx, Drop(k, tx) PROVE LoopInv'
<1>1. MarketInv' /\ MarketGrows /\ counter' = counter
  BY SameMarket DEF LoopInv, Drop, market
<1>2. /\ UNCHANGED <<market, deployed, file, at, pc, target, misread>>
      /\ inflight'[k] = inflight[k] \ {tx}
      /\ \A j \in Keeper : j # k => Idle(j)
  BY DEF Drop, Idle, LoopInv, SharedInv
<1>3. SharedInv'
  <2>1. faults' = faults + 1 /\ faults' <= deployed.budget
    BY DEF Drop, Faulty, LoopInv, SharedInv
  <2>2. inflight' \in [Keeper -> SUBSET Tx]
    BY DEF Drop, LoopInv, SharedInv
  <2>. QED BY <1>2, <2>1, <2>2 DEF LoopInv, SharedInv
<1>4. Knows(k)'
  BY <1>2 DEF LoopInv, LocalInv, Knows, market, Series!IsOpen
<1>5. Located(k)' /\ Queued(k)' /\ Holds(k)'
  BY <1>1, <1>2 DEF LoopInv, LocalInv, Located, Queued, Holds, market
<1>. QED BY <1>1, <1>2, <1>3, <1>4, <1>5, KeeperSteps DEF LocalInv

LEMMA EnvironmentInv ==
  ASSUME LoopInv, Environment PROVE LoopInv'
<1>1. MarketInv' /\ MarketGrows /\ UNCHANGED <<deployed, keepers, faults, misread>>
  BY TimeGrows DEF LoopInv, Environment
<1>2. SharedInv'
  BY <1>1 DEF LoopInv, SharedInv, keepers
<1>3. \A j \in Keeper : Idle(j)
  BY <1>1 DEF Idle, keepers
<1>4. \A j \in Keeper : LocalInv(j)'
  BY <1>1, <1>3, IdleKeeps
<1>. QED BY <1>1, <1>2, <1>4 DEF LoopInv


\* A transaction lands: the market moves or refuses, and the keeper goes on if it
\* was awaiting it.
LEMMA LandMarket ==
  ASSUME LoopInv, NEW k \in Keeper, NEW tx \in Tx, Land(k, tx)
  PROVE  /\ MarketInv' /\ MarketGrows
         /\ tx \in inflight[k] /\ inflight'[k] = {}
         /\ \A j \in Keeper : j # k => Idle(j)
         /\ SharedInv'
         /\ UNCHANGED <<deployed, file, at, faults, misread>>
<1> USE DEF LoopInv
<1>1. /\ tx \in inflight[k]
      /\ tx.on \in IF tx.call = "settle" THEN RoundId ELSE Asset
  BY DEF Land, LocalInv, Queued
<1>2. /\ MarketInv' /\ MarketGrows
      /\ counter' = counter \/ counter' \in RoundId
      /\ tx.call # "settle" /\ rounds' # rounds => counter' \in RoundId
  <2>1. CASE UNCHANGED market
    BY <2>1, SameMarket DEF market
  <2>2. CASE tx.call = "settle" /\ Series!SettleRound(tx.on)
    <3>1. UNCHANGED counter
      BY <2>2 DEF Series!SettleRound
    <3>. QED BY <1>1, <2>2, <3>1, SettleGrows
  <2>3. CASE tx.call # "settle" /\ Series!Create(tx.on)
    BY <1>1, <2>3, CreateGrows
  <2>. QED BY <2>1, <2>2, <2>3 DEF Land
<1>3. \A j \in Keeper : j # k => Idle(j)
  BY DEF Land, Goes, Idle, SharedInv
<1>4. SharedInv'
  <2>1. pc' \in [Keeper -> Step]
    BY DEF Land, Goes, SharedInv, Step
  <2>2. target' \in [Keeper -> RoundId \cup {None}]
    <3>1. \/ target' = target
          \/ target' = [target EXCEPT ![k] = counter'] /\ counter' \in RoundId
      BY <1>2 DEF Land
    <3>. QED BY <3>1 DEF SharedInv
  <2>3. inflight' \in [Keeper -> SUBSET Tx]
    BY DEF Land, SharedInv
  <2>. QED BY <2>1, <2>2, <2>3 DEF Land, SharedInv
<1>5. inflight'[k] = {}
  BY DEF Land, SharedInv
<1>. QED BY <1>1, <1>2, <1>3, <1>4, <1>5 DEF Land

LEMMA LandInv ==
  ASSUME LoopInv, NEW k \in Keeper, NEW tx \in Tx, Land(k, tx) PROVE LoopInv'
<1>1. /\ MarketInv' /\ MarketGrows
      /\ tx \in inflight[k] /\ inflight'[k] = {}
      /\ \A j \in Keeper : j # k => Idle(j)
      /\ SharedInv'
      /\ UNCHANGED <<deployed, file, at, faults, misread>>
  BY LandMarket
<1>2. counter \in Nat /\ counter' \in Nat /\ counter <= counter'
  BY <1>1 DEF LoopInv, MarketInv, MarketGrows
<1>3. LocalInv(k) /\ Queued(k)'
  BY <1>1 DEF LoopInv, Queued
<1> DEFINE old == file[k][at[k]]
<1>4. ASSUME pc[k] # "asleep", old # None, ~Series!IsOpen(old)
      PROVE  ~Series!IsOpen(old)'
  <2>1. PICK r : r = old
    OBVIOUS
  <2>2. at[k] \in Asset
    BY <1>4, Awake
  <2>3. r \in RoundId /\ r <= counter
    BY <1>3, <1>4, <2>1, <2>2 DEF LoopInv, SharedInv, LocalInv, Holds
  <2>4. ~Series!IsOpen(r)'
    BY <1>1, <1>4, <2>1, <2>3 DEF MarketGrows
  <2>. QED BY <1>1, <2>1, <2>4 DEF Series!IsOpen
<1>5. CASE tx.awaited /\ rounds' # rounds /\ tx.call = "settle"
  <2>1. /\ pc[k] = "settling" /\ tx.on = target[k] /\ target[k] = old
        /\ tx.on \in RoundId
    BY <1>1, <1>3, <1>5 DEF LocalInv, Queued, Knows
  <2>2. pc'[k] = "settled" /\ target'[k] = target[k]
    BY <1>5 DEF Land, Goes, LoopInv, SharedInv
  <2>3. ~Series!IsOpen(old)'
    <3>1. PICK r \in RoundId : r = tx.on
      BY <2>1
    <3>2. Series!SettleRound(r)
      BY <1>5, <3>1 DEF Land, market
    <3>3. ~Series!IsOpen(r)'
      BY <3>2, SettleGrows DEF LoopInv
    <3>. QED BY <1>1, <2>1, <3>1, <3>3 DEF Series!IsOpen
  <2>4. Located(k)'
    BY <1>1, <1>3, <2>1, <2>2 DEF LocalInv, Located
  <2>5. Knows(k)'
    BY <1>1, <2>1, <2>2, <2>3 DEF Knows
  <2>6. Holds(k)'
    <3>1. \A a \in Asset : file[k][a] # None => file[k][a] \in RoundId /\ file[k][a] <= counter
      BY <1>3 DEF LocalInv, Holds, LoopInv, SharedInv
    <3>. QED BY <1>1, <1>2, <2>2, <3>1 DEF Holds
  <2>. QED BY <1>1, <1>3, <2>4, <2>5, <2>6, KeeperSteps DEF LocalInv
<1>6. CASE tx.awaited /\ rounds' # rounds /\ tx.call # "settle"
  <2>1. pc[k] = "creating" /\ tx.on = at[k] /\ at[k] \in Asset
    <3>1. pc[k] = "creating" /\ tx.on = at[k]
      BY <1>1, <1>3, <1>6 DEF LocalInv, Queued
    <3>. QED BY <3>1, Awake
  <2>2. pc'[k] = "created" /\ target'[k] = counter'
    BY <1>6 DEF Land, Goes, LoopInv, SharedInv
  <2>3. /\ counter' = counter + 1 /\ counter' \in RoundId
        /\ rounds'[counter'].asset = at[k]
    <3>1. Series!Create(at[k])
      BY <1>6, <2>1 DEF Land, market
    <3>. QED BY <2>1, <3>1, CreateGrows DEF LoopInv
  <2>4. Located(k)'
    BY <1>1, <1>3, <2>1, <2>2, <2>3 DEF LocalInv, Located
  <2>5. Knows(k)'
    <3>1. old # None /\ ~misread => ~Series!IsOpen(old)
      BY <1>3, <2>1 DEF LocalInv, Knows
    <3>2. old # None /\ ~misread => ~Series!IsOpen(old)'
      BY <1>4, <2>1, <3>1
    <3>. QED BY <1>1, <2>2, <3>2 DEF Knows
  <2>6. Holds(k)'
    <3>1. \A a \in Asset : file[k][a] # None => file[k][a] \in RoundId /\ file[k][a] <= counter
      BY <1>3 DEF LocalInv, Holds, LoopInv, SharedInv
    <3>2. \A a \in Asset : file[k][a] # None => file[k][a] < counter'
      BY <1>2, <2>3, <3>1
    <3>. QED BY <1>1, <1>2, <2>2, <2>3, <3>1, <3>2 DEF Holds
  <2>. QED BY <1>1, <1>3, <2>4, <2>5, <2>6, KeeperSteps DEF LocalInv
<1>7. CASE ~(tx.awaited /\ rounds' # rounds)
  <2>1. UNCHANGED <<pc, target>>
    BY <1>7 DEF Land
  <2>2. Located(k)'
    BY <1>1, <1>3, <2>1 DEF LocalInv, Located
  <2>3. Knows(k)'
    <3>1. ASSUME pc[k] \in {"settled", "create", "creating", "created"},
                 old # None, ~Series!IsOpen(old)
          PROVE  ~Series!IsOpen(old)'
      BY <1>4, <3>1
    <3>2. pc[k] = "settled" => old # None /\ ~Series!IsOpen(old)
      BY <1>3 DEF LocalInv, Located, Knows
    <3>. QED BY <1>1, <1>3, <2>1, <3>1, <3>2 DEF LocalInv, Knows
  <2>4. Holds(k)'
    <3>1. \A a \in Asset : file[k][a] # None => file[k][a] \in RoundId /\ file[k][a] <= counter'
      BY <1>2, <1>3 DEF LocalInv, Holds, LoopInv, SharedInv
    <3>2. ASSUME pc[k] = "created"
          PROVE  /\ target[k] <= counter'
                 /\ rounds'[target[k]] # None => rounds'[target[k]].asset = at[k]
      <4>1. target[k] \in RoundId /\ target[k] <= counter
        BY <1>3, <3>2 DEF LocalInv, Located, Holds, LoopInv, SharedInv
      <4>. QED BY <1>1, <1>2, <1>3, <3>2, <4>1 DEF LocalInv, Holds, MarketGrows
    <3>. QED BY <1>1, <1>3, <2>1, <3>1, <3>2 DEF LocalInv, Holds
  <2>. QED BY <1>1, <1>3, <2>2, <2>3, <2>4, KeeperSteps DEF LocalInv
<1>. QED BY <1>5, <1>6, <1>7

LEMMA InitInv == Init => LoopInv
<1> SUFFICES ASSUME Init PROVE LoopInv
  OBVIOUS
<1> USE DEF Init
<1>1. MarketInv
  BY DEF MarketInv, Series!SeriesInit
<1>2. SharedInv
  <2>1. deployed.budget \in Nat
    OBVIOUS
  <2>2. 0 \in 0..NumAssets /\ faults \in 0..deployed.budget
    BY <2>1
  <2>3. /\ at \in [Keeper -> 0..NumAssets] /\ pc \in [Keeper -> Step]
        /\ target \in [Keeper -> RoundId \cup {None}]
        /\ inflight \in [Keeper -> SUBSET Tx]
    BY <2>2 DEF Step
  <2>4. file \in [Keeper -> [Asset -> RoundId \cup {None}]]
    OBVIOUS
  <2>. QED BY <2>2, <2>3, <2>4 DEF SharedInv
<1>3. \A k \in Keeper : LocalInv(k)
  BY <1>2, AssetCount DEF LocalInv, Located, Queued, Knows, Holds
<1>. QED BY <1>1, <1>2, <1>3 DEF LoopInv

LEMMA StutterInv ==
  ASSUME LoopInv, UNCHANGED vars PROVE LoopInv'
<1>1. MarketInv' /\ MarketGrows /\ UNCHANGED <<deployed, keepers, faults, misread>>
  BY SameMarket DEF LoopInv, vars, market
<1>2. SharedInv' /\ \A j \in Keeper : Idle(j)
  BY <1>1 DEF LoopInv, SharedInv, keepers, Idle
<1>. QED BY <1>1, <1>2, IdleKeeps DEF LoopInv

LEMMA NextInv ==
  ASSUME LoopInv, [Next]_vars PROVE LoopInv'
<1>1. ASSUME NEW k \in Keeper, Works(k) PROVE LoopInv'
  <2>1. ASSUME Throw(k) PROVE LoopInv'
    BY <2>1, MovesOnInv DEF Throw
  <2>. QED BY <1>1, <2>1, WakeInv, ReadInv, SubmitSettleInv, SubmitCreateInv,
           SettledInv, SaveInv DEF Works
<1>2. ASSUME NEW k \in Keeper, Fails(k) PROVE LoopInv'
  <2>1. ASSUME SendFails(k) \/ SaveFails(k) PROVE LoopInv'
    <3>1. Awaited(k) = {}
      BY <2>1, AwaitsNothing DEF SendFails, SaveFails
    <3>. QED BY <2>1, <3>1, MovesOnInv DEF SendFails, SaveFails, FaultKind
  <2>. QED BY <1>2, <2>1, ReadFailsInv, GiveUpInv, CrashInv, TornWriteInv DEF Fails
<1>3. ASSUME NEW k \in Keeper, Network(k) PROVE LoopInv'
  BY <1>3, LandInv, DropInv DEF Network
<1>. QED BY <1>1, <1>2, <1>3, EnvironmentInv, StutterInv DEF Next

LEMMA LoopInvariant == Spec => []LoopInv
BY InitInv, NextInv, PTL DEF Spec


-----------------------------------------------------------------------------
(* Types *)

\* A keeper awaits one transaction at a time, and only at the steps that await.
LEMMA OneAwaited ==
  ASSUME LoopInv, NEW k \in Keeper
  PROVE  Cardinality(Awaited(k)) <= IF pc[k] \in {"settling", "creating"} THEN 1 ELSE 0
<1>1. CASE pc[k] \notin {"settling", "creating"}
  <2>1. Awaited(k) = {}
    BY <1>1, AwaitsNothing
  <2>. QED BY <1>1, <2>1, FS_EmptySet
<1>2. CASE pc[k] \in {"settling", "creating"}
  <2>1. PICK the : \A tx \in Awaited(k) : tx = the
    <3>1. \A tx \in Awaited(k) :
            /\ tx \in Tx /\ tx.awaited
            /\ tx.call = IF pc[k] = "settling" THEN "settle" ELSE "create"
            /\ tx.on = IF pc[k] = "settling" THEN target[k] ELSE at[k]
      BY DEF Awaited, Tx, LoopInv, SharedInv, LocalInv, Queued
    <3>2. \A one, two \in Awaited(k) : one = two
      <4>1. TAKE one \in Awaited(k), two \in Awaited(k)
      <4>2. /\ one \in Tx /\ two \in Tx
            /\ one.call = two.call /\ one.on = two.on /\ one.awaited = two.awaited
        BY <3>1 DEF Tx
      <4>. QED BY <4>2 DEF Tx
    <3>. QED BY <3>2
  <2>2. CASE Awaited(k) = {}
    BY <1>2, <2>2, FS_EmptySet
  <2>3. CASE Awaited(k) # {}
    <3>1. Awaited(k) = {the}
      BY <2>1, <2>3
    <3>2. Cardinality({the}) = 1
      BY FS_Singleton, Zenon
    <3>. QED BY <1>2, <3>1, <3>2
  <2>. QED BY <2>2, <2>3
<1>. QED BY <1>1, <1>2

\* Every variable stays in its type, a keeper awaits at most the one transaction
\* of its step, and has a round in hand just where the loop of the source does.
THEOREM TypeCorrect == Spec => []TypeOK
<1>1. LoopInv => TypeOK
  <2>1. SUFFICES ASSUME LoopInv PROVE TypeOK
    OBVIOUS
  <2>2. \A k \in Keeper :
          /\ at[k] = 0 <=> pc[k] = "asleep"
          /\ target[k] # None <=> pc[k] \in {"settle", "settling", "settled", "created"}
    BY <2>1 DEF LoopInv, LocalInv, Located
  <2>3. MarketInv /\ SharedInv
    BY <2>1 DEF LoopInv
  <2>. QED BY <2>1, <2>2, <2>3, OneAwaited DEF TypeOK, MarketInv, SharedInv
<1>. QED BY <1>1, LoopInvariant, PTL

-----------------------------------------------------------------------------
(* Handing a round over *)

\* Only a save enters a round in a file.
LEMMA OnlySavesWrite ==
  ASSUME LoopInv, [Next]_vars, NEW k \in Keeper, NEW a \in Asset,
         file'[k][a] # file[k][a]
  PROVE  \/ file'[k][a] = None
         \/ Save(k) /\ a = at[k] /\ file'[k][a] = target[k]
            /\ rounds[target[k]] # None
<1> USE DEF LoopInv, SharedInv
<1>1. CASE UNCHANGED file
  BY <1>1
<1>2. CASE \E j \in Keeper : Save(j)
  <2>1. PICK j \in Keeper : Save(j)
    BY <1>2
  <2>2. file' = [file EXCEPT ![j][at[j]] = target[j]] /\ rounds[target[j]] # None
    BY <2>1 DEF Save
  <2>3. at[j] \in Asset
    BY <2>1, Awake DEF Save
  <2>4. j = k /\ a = at[k] /\ file'[k][a] = target[k]
    BY <2>2, <2>3
  <2>. QED BY <2>1, <2>2, <2>4
<1>3. CASE \E j \in Keeper : TornWrite(j)
  BY <1>3 DEF TornWrite
<1>. QED BY <1>1, <1>2, <1>3
     DEF Next, Works, Fails, Network, Wake, Read, SubmitSettle, SubmitCreate,
         Settled, Throw, ReadFails, SendFails, SaveFails, GiveUp, Crash, Land,
         Drop, Environment, vars, keepers

\* Unless it failed to read it, a keeper leaves a round only for a newer one of
\* the same asset, and only when the old one is settled or has left storage:
\* whatever crashes, timeouts and late transactions there are.
THEOREM HandsOverOnlyClosedRounds == Spec => HandsOver
<1>1. ASSUME LoopInv, [Next]_vars, ~misread,
             NEW k \in Keeper, NEW a \in Asset,
             file[k][a] # file'[k][a], file[k][a] # None, file'[k][a] # None
      PROVE  /\ file'[k][a] > file[k][a]
             /\ rounds[file'[k][a]].asset = a
             /\ ~Series!IsOpen(file[k][a])
  <2>1. /\ pc[k] = "created" /\ a = at[k] /\ file'[k][a] = target[k]
        /\ rounds[target[k]] # None
    BY <1>1, OnlySavesWrite DEF Save
  <2>2. Knows(k) /\ Holds(k)
    BY <1>1 DEF LoopInv, LocalInv
  <2>3. target[k] \in Int /\ file[k][a] \in Int /\ file[k][a] < target[k]
    BY <1>1, <2>1, <2>2 DEF Holds, LoopInv, SharedInv, LocalInv, Located
  <2>. QED BY <1>1, <2>1, <2>2, <2>3 DEF Knows, Holds
<1>2. LoopInv /\ [Next]_vars =>
        [~misread => \A k \in Keeper, a \in Asset :
           LET old == file[k][a]
               new == file'[k][a]
           IN old # new /\ old # None /\ new # None =>
                /\ new > old
                /\ rounds[new].asset = a
                /\ ~Series!IsOpen(old)]_vars
  BY <1>1
<1>. QED BY <1>2, LoopInvariant, PTL DEF Spec, HandsOver

-----------------------------------------------------------------------------
(* Keepers in parallel *)

\* Two keepers never mind the same round, and as long as nothing has failed every
\* open round is minded and nothing is in flight that is not awaited.
Apart ==
  \A r \in RoundId, i, j \in Keeper : Minds(i, r) /\ Minds(j, r) => i = j

AllAwaited == \A k \in Keeper : \A tx \in inflight[k] : tx.awaited

MindInv == Apart /\ (faults = 0 => AllAwaited /\ NoRoundForgotten)

LEMMA MindsKnown ==
  ASSUME LoopInv, NEW k \in Keeper, NEW r \in RoundId, Minds(k, r)
  PROVE  r <= counter
BY DEF LoopInv, LocalInv, Holds, Minds

\* The step of a keeper leaves the others alone.
LEMMA OneMoves ==
  ASSUME LoopInv, NEW k \in Keeper, Works(k) \/ Fails(k) \/ Network(k)
  PROVE  \A j \in Keeper : j # k => Idle(j)
<1> USE DEF LoopInv, SharedInv, Idle, Goes, NextAsset
<1>1. CASE Works(k)
  BY <1>1 DEF Works, Wake, Read, SubmitSettle, SubmitCreate, Settled, Save, Throw
<1>2. CASE Fails(k)
  BY <1>2 DEF Fails, ReadFails, SendFails, SaveFails, GiveUp, Crash, TornWrite, Stops
<1>3. CASE Network(k)
  BY <1>3 DEF Network, Land, Drop
<1>. QED BY <1>1, <1>2, <1>3

\* A keeper takes up a round only when its own transaction created it.
LEMMA TakesUp ==
  ASSUME LoopInv, NEW k \in Keeper, Works(k) \/ Fails(k) \/ Network(k),
         NEW r \in RoundId, Minds(k, r)'
  PROVE  Minds(k, r) \/ r > counter
<1> USE DEF LoopInv, SharedInv
<1>1. CASE \E a \in Asset : file'[k][a] = r
  <2>1. PICK a \in Asset : file'[k][a] = r
    BY <1>1
  <2>2. CASE file'[k][a] = file[k][a]
    BY <2>1, <2>2 DEF Minds
  <2>3. CASE file'[k][a] # file[k][a]
    <3>1. r # None
      OBVIOUS
    <3>2. Save(k) /\ r = target[k]
      BY <2>1, <2>3, <3>1, OnlySavesWrite DEF Next
    <3>. QED BY <3>2 DEF Save, Minds
  <2>. QED BY <2>2, <2>3
<1>2. CASE pc'[k] = "created" /\ target'[k] = r
  <2>1. CASE pc[k] = "created" /\ target'[k] = target[k]
    BY <1>2, <2>1 DEF Minds
  <2>2. CASE ~(pc[k] = "created" /\ target'[k] = target[k])
    <3>1. PICK tx \in Tx : Land(k, tx)
      <4>1. CASE Works(k)
        BY <1>2, <4>1 DEF Works, Wake, Read, SubmitSettle, SubmitCreate, Settled,
           Save, Throw, Goes, NextAsset
      <4>2. CASE Fails(k)
        BY <1>2, <4>2 DEF Fails, ReadFails, SendFails, SaveFails, GiveUp, Crash,
           TornWrite, Stops, Goes, NextAsset
      <4>3. CASE \E tx \in Tx : Drop(k, tx)
        BY <1>2, <2>2, <4>3 DEF Drop
      <4>. QED BY <4>1, <4>2, <4>3 DEF Network
    <3>2. tx.on \in IF tx.call = "settle" THEN RoundId ELSE Asset
      BY <3>1 DEF LocalInv, Queued, Land
    <3>3. target' = [target EXCEPT ![k] = counter'] /\ rounds' # rounds
          /\ tx.call # "settle"
      BY <1>2, <2>2, <3>1 DEF Land, Goes
    <3>4. counter' = counter + 1
      BY <3>1, <3>2, <3>3, CreateGrows DEF Land, market
    <3>5. counter \in Nat
      BY DEF MarketInv
    <3>. QED BY <1>2, <3>3, <3>4, <3>5
  <2>. QED BY <2>1, <2>2
<1>. QED BY <1>1, <1>2 DEF Minds

LEMMA ApartSteps ==
  ASSUME LoopInv, Apart, [Next]_vars PROVE Apart'
<1>1. ASSUME NEW r \in RoundId, NEW k \in Keeper, Idle(k), Minds(k, r)'
      PROVE  Minds(k, r)
  BY <1>1 DEF Idle, Minds
<1>2. CASE \E k \in Keeper : Works(k) \/ Fails(k) \/ Network(k)
  <2>1. PICK k \in Keeper : Works(k) \/ Fails(k) \/ Network(k)
    BY <1>2
  <2>2. \A j \in Keeper : j # k => Idle(j)
    BY <2>1, OneMoves
  <2>3. SUFFICES ASSUME NEW r \in RoundId, NEW j \in Keeper, j # k,
                        Minds(k, r)', Minds(j, r)'
                 PROVE  FALSE
    BY <1>1, <2>2 DEF Apart
  <2>4. Minds(j, r) /\ r <= counter
    BY <1>1, <2>2, <2>3, MindsKnown
  <2>5. Minds(k, r)
    BY <2>1, <2>3, <2>4, TakesUp DEF LoopInv, MarketInv
  <2>. QED BY <2>3, <2>4, <2>5 DEF Apart
<1>3. CASE Environment \/ UNCHANGED vars
  BY <1>1, <1>3 DEF Environment, vars, keepers, Idle, Apart
<1>. QED BY <1>2, <1>3 DEF Next


\* A round that is opened is minded by the keeper whose transaction opened it.
LEMMA OpenedIsMinded ==
  ASSUME LoopInv, AllAwaited, [Next]_vars,
         NEW r \in RoundId, Series!IsOpen(r)', ~Series!IsOpen(r)
  PROVE  \E k \in Keeper : Minds(k, r)'
<1> USE DEF LoopInv
<1>1. PICK k \in Keeper : \E tx \in Tx : Land(k, tx)
  <2>1. ~UNCHANGED market
    BY DEF market, Series!IsOpen
  <2>2. ~Environment
    BY TimeGrows DEF Environment, Series!IsOpen
  <2>. QED BY <2>1, <2>2
       DEF Next, Works, Fails, Network, Wake, Read, SubmitSettle, SubmitCreate,
           Settled, Save, Throw, ReadFails, SendFails, SaveFails, GiveUp, Crash,
           TornWrite, Stops, Drop, vars
<1>2. PICK tx \in Tx : Land(k, tx)
  BY <1>1
<1>3. /\ tx \in inflight[k] /\ tx.awaited
      /\ tx.on \in IF tx.call = "settle" THEN RoundId ELSE Asset
  BY <1>2 DEF Land, AllAwaited, LocalInv, Queued
<1>4. ~UNCHANGED market
  BY DEF market, Series!IsOpen
<1>5. tx.call # "settle"
  <2>1. SUFFICES ASSUME tx.call = "settle" PROVE FALSE
    OBVIOUS
  <2>2. Series!SettleRound(tx.on) /\ tx.on \in RoundId
    BY <1>2, <1>3, <1>4, <2>1 DEF Land
  <2>. QED BY <2>2, SettleGrows
<1>6. Series!Create(tx.on) /\ tx.on \in Asset
  BY <1>2, <1>3, <1>4, <1>5 DEF Land
<1>7. /\ rounds' # rounds
      /\ \A s \in RoundId : s # counter' => rounds'[s] = rounds[s]
  BY <1>6, CreateGrows
<1>8. r = counter'
  BY <1>7 DEF Series!IsOpen
<1>9. pc'[k] = "created" /\ target'[k] = counter'
  BY <1>2, <1>3, <1>5, <1>7 DEF Land, Goes, SharedInv
<1>. QED BY <1>8, <1>9 DEF Minds

\* While nothing fails a keeper keeps a round for as long as it is open.
LEMMA OpenIsKept ==
  ASSUME LoopInv, AllAwaited, [Next]_vars, faults' = 0, ~misread,
         NEW r \in RoundId, Series!IsOpen(r), NEW k \in Keeper, Minds(k, r)
  PROVE  Minds(k, r)'
<1> USE DEF LoopInv
<1>1. faults \in Nat /\ ~\E kind \in FaultKind : Faulty(kind)
  BY DEF SharedInv, Faulty
<1>2. CASE Idle(k)
  BY <1>2 DEF Idle, Minds
<1>3. CASE Works(k)
  <2>1. CASE Save(k)
    <3>1. /\ pc[k] = "created" /\ at[k] \in Asset /\ target[k] \in RoundId
          /\ file[k] \in [Asset -> RoundId \cup {None}]
      BY <2>1, Awake DEF Save, SharedInv, LocalInv, Located
    <3>2. file' = file \/ /\ rounds[target[k]] # None
                          /\ file' = [file EXCEPT ![k][at[k]] = target[k]]
      BY <2>1 DEF Save
    <3>3. CASE target[k] = r
      <4>1. rounds[target[k]] # None
        BY <3>3 DEF Series!IsOpen
      <4>2. file'[k][at[k]] = r
        BY <2>1, <3>1, <3>3, <4>1 DEF Save, SharedInv
      <4>. QED BY <3>1, <4>2 DEF Minds
    <3>4. CASE \E a \in Asset : file[k][a] = r
      <4>1. PICK a \in Asset : file[k][a] = r
        BY <3>4
      <4>2. a # at[k]
        <5>1. r # None
          OBVIOUS
        <5>. QED BY <3>1, <4>1, <5>1 DEF LocalInv, Knows
      <4>3. file'[k][a] = file[k][a]
        BY <3>1, <3>2, <4>2 DEF SharedInv
      <4>. QED BY <4>1, <4>3 DEF Minds
    <3>. QED BY <3>1, <3>3, <3>4 DEF Minds
  <2>2. CASE Wake(k) \/ Read(k) \/ SubmitSettle(k) \/ SubmitCreate(k)
             \/ Settled(k) \/ Throw(k)
    <3>1. file' = file /\ pc[k] # "created"
      BY <2>2 DEF Wake, Read, SubmitSettle, SubmitCreate, Settled, Throw
    <3>. QED BY <3>1 DEF Minds
  <2>. QED BY <1>3, <2>1, <2>2 DEF Works
<1>4. CASE \E tx \in Tx : Land(k, tx)
  <2>1. PICK tx \in Tx : Land(k, tx)
    BY <1>4
  <2>2. tx \in inflight[k] /\ tx.awaited /\ file' = file
    BY <2>1 DEF Land, AllAwaited
  <2>3. pc[k] # "created"
    BY <2>2, NothingAwaited
  <2>. QED BY <2>2, <2>3 DEF Minds
<1>5. Idle(k) \/ Works(k) \/ \E tx \in Tx : Land(k, tx)
  <2>1. ~Fails(k) /\ ~\E tx \in Tx : Drop(k, tx)
    BY <1>1 DEF Fails, ReadFails, SendFails, SaveFails, GiveUp, Crash, TornWrite,
       Drop, FaultKind
  <2>2. CASE \E j \in Keeper : j # k /\ (Works(j) \/ Fails(j) \/ Network(j))
    BY <2>2, OneMoves
  <2>3. CASE Environment \/ UNCHANGED vars
    BY <2>3 DEF Environment, vars, keepers, Idle
  <2>. QED BY <2>1, <2>2, <2>3 DEF Next, Network
<1>. QED BY <1>2, <1>3, <1>4, <1>5

LEMMA AwaitedSteps ==
  ASSUME LoopInv, AllAwaited, [Next]_vars, faults' = 0 PROVE AllAwaited'
<1>1. faults \in Nat /\ ~\E kind \in FaultKind : Faulty(kind)
  BY DEF LoopInv, SharedInv, Faulty
<1>2. SUFFICES ASSUME NEW k \in Keeper PROVE \A tx \in inflight'[k] : tx.awaited
  BY DEF AllAwaited
<1>3. CASE Idle(k) \/ inflight' = inflight
  BY <1>3 DEF Idle, AllAwaited
<1>4. CASE SubmitSettle(k) \/ SubmitCreate(k)
  BY <1>4 DEF SubmitSettle, SubmitCreate, AllAwaited, LoopInv, SharedInv
<1>5. CASE \E tx \in Tx : Land(k, tx)
  BY <1>5 DEF Land, LoopInv, SharedInv
<1>6. CASE \E j \in Keeper : j # k /\ (Works(j) \/ Fails(j) \/ Network(j))
  BY <1>3, <1>6, OneMoves
<1>7. CASE Environment \/ UNCHANGED vars
  BY <1>3, <1>7 DEF Environment, vars, keepers
<1>8. ~Fails(k) /\ ~\E tx \in Tx : Drop(k, tx)
  BY <1>1 DEF Fails, ReadFails, SendFails, SaveFails, GiveUp, Crash, TornWrite,
     Drop, FaultKind
<1>9. Works(k) => inflight' = inflight \/ SubmitSettle(k) \/ SubmitCreate(k)
  BY DEF Works, Wake, Read, Settled, Save, Throw
<1>. QED BY <1>3, <1>4, <1>5, <1>6, <1>7, <1>8, <1>9 DEF Next, Network

LEMMA FaultsGrow ==
  ASSUME LoopInv, [Next]_vars PROVE faults' \in Nat /\ (faults' = 0 => faults = 0)
<1>1. faults' = faults \/ faults' = faults + 1
  BY DEF Next, Works, Fails, Network, Wake, Read, SubmitSettle, SubmitCreate,
     Settled, Save, Throw, ReadFails, SendFails, SaveFails, GiveUp, Crash,
     TornWrite, Land, Drop, Environment, Faulty, vars
<1>. QED BY <1>1 DEF LoopInv, SharedInv

LEMMA MindInvariant == Spec => []MindInv
<1>1. Init => MindInv
  <2>1. SUFFICES ASSUME Init PROVE MindInv
    OBVIOUS
  <2>2. \A r \in RoundId, k \in Keeper : ~Minds(k, r)
    BY <2>1 DEF Init, Minds
  <2>3. AllAwaited
    BY <2>1 DEF Init, AllAwaited
  <2>4. NoRoundForgotten
    BY <2>1 DEF Init, NoRoundForgotten, Series!SeriesInit, Series!IsOpen
  <2>. QED BY <2>2, <2>3, <2>4 DEF MindInv, Apart
<1>2. LoopInv /\ MindInv /\ [Next]_vars => MindInv'
  <2>1. SUFFICES ASSUME LoopInv, MindInv, [Next]_vars PROVE MindInv'
    OBVIOUS
  <2>2. Apart'
    BY <2>1, ApartSteps DEF MindInv
  <2>3. ASSUME faults' = 0 PROVE AllAwaited' /\ NoRoundForgotten'
    <3>1. faults = 0 /\ ~misread /\ AllAwaited /\ NoRoundForgotten
      BY <2>1, <2>3, FaultsGrow DEF MindInv, LoopInv, SharedInv
    <3>2. ASSUME NEW r \in RoundId, Series!IsOpen(r)'
          PROVE  \E k \in Keeper : Minds(k, r)'
      <4>1. CASE Series!IsOpen(r)
        BY <2>1, <2>3, <3>1, <4>1, OpenIsKept DEF NoRoundForgotten
      <4>2. CASE ~Series!IsOpen(r)
        BY <2>1, <3>1, <3>2, <4>2, OpenedIsMinded
      <4>. QED BY <4>1, <4>2
    <3>. QED BY <2>1, <2>3, <3>1, <3>2, AwaitedSteps DEF NoRoundForgotten
  <2>. QED BY <2>2, <2>3 DEF MindInv
<1>. QED BY <1>1, <1>2, LoopInvariant, PTL DEF Spec

\* "A second keeper running in parallel is harmless": as long as nothing fails,
\* exactly one keeper minds each open round, however many there are and however
\* their reads and transactions interleave.
THEOREM ParallelKeepersAreHarmless == Spec => []OneKeeperPerRound
<1>1. MindInv => OneKeeperPerRound
  <2>1. SUFFICES ASSUME MindInv, faults = 0, NEW r \in RoundId, Series!IsOpen(r)
                 PROVE  Cardinality({k \in Keeper : Minds(k, r)}) = 1
    BY DEF OneKeeperPerRound
  <2>2. PICK the \in Keeper : Minds(the, r)
    BY <2>1 DEF MindInv, NoRoundForgotten
  <2>3. {k \in Keeper : Minds(k, r)} = {the}
    BY <2>1, <2>2 DEF MindInv, Apart
  <2>. QED BY <2>3, FS_Singleton, Zenon
<1>. QED BY <1>1, MindInvariant, PTL

\* No two keepers ever mind the same round, whatever fails: what a file holds is
\* a round that keeper's own transaction created.
THEOREM KeepersMindTheirOwn == Spec => []Apart
BY MindInvariant, PTL DEF MindInv


=============================================================================
