-------------------------- MODULE WickKeepersProofs --------------------------
(***************************************************************************)
(* Theorems about WickKeepers, for any markets, bots, prices, deployments  *)
(* and bounds: its type invariant and every safety property its run checks. *)
(* LoopInv holds whatever fails.  It is of three parts: the markets, whose *)
(* moves a loop may only rely on as far as Grows says; the keepers' own    *)
(* memory and chains; and what is on the way.  Each property then adds an  *)
(* invariant of its own, which holds while the faults it excludes have not *)
(* happened.                                                               *)
(***************************************************************************)
EXTENDS WickKeepers, FiniteSetTheorems, SequenceTheorems, TLAPS

-----------------------------------------------------------------------------
(* The inductive invariants *)

Open(m, r) == Series!HasStatus(m, r, "Open")
Settled(m, r) == Series!HasStatus(m, r, "Settled")

MarketInv ==
  /\ now \in 1..MaxTime
  /\ tick \in [Market -> [price : Price, timestamp : Nat] \cup {None}]
  /\ counter \in [Market -> 0..MaxRounds]
  /\ lastStrikeTs \in [Market -> Nat]
  /\ rounds \in [Market -> [RoundId -> Series!Round \cup {None}]]
  /\ stakes \in [Market -> [RoundId -> [Bot -> {"none", "staked", "claimed"}]]]
  /\ \A m \in Market : tick[m] # None => tick[m].timestamp <= now

MemoryInv ==
  /\ deployed \in Deployment
  /\ current \in [Market -> 0..MaxRounds]
  /\ lastPushed \in [Market -> Price \cup {None}]
  /\ betTracker \in SUBSET (Market \X RoundId \X Bot)
  /\ claimTracker \in SUBSET (Market \X RoundId \X Bot)
  /\ pc \in [Market -> Step]
  /\ faults \in SUBSET deployed.faults

\* Where a loop is in its pass, and that it turns to another round only when the
\* one it minds is not open.
Placed(m) ==
  /\ current[m] <= counter[m]
  /\ Loop(m) = "off" => pc[m] = "asleep"
  /\ Loop(m) = "xlm" => pc[m] \in {"asleep", "look", "creating", "recount", "settling"}
  /\ pc[m] \in {"betting", "close", "closing", "settling", "claiming"} => current[m] # 0
  /\ pc[m] \in {"open", "opening", "creating", "recount", "claiming"} /\ current[m] # 0
       => ~Open(m, current[m])

\* A call of a lane, whatever has become of its caller.
Proper(l, call) ==
  /\ call \in Call
  /\ l[1] = Loop(call.market)
  /\ call.do \in {"push", "create", "settle"} => l[2] = Admin
  /\ call.do \in {"bet", "claim"} => l[2] \in Bot /\ Demo(call.market)
  /\ call.do = "push" => call.arg \in Price
  /\ call.do \in {"bet", "settle", "claim"} =>
       call.arg \in RoundId /\ call.arg <= counter[call.market]

\* The step at which a loop awaits a call.
AwaitedAt(call) ==
  LET m == call.market
  IN /\ call.do = "push" => pc[m] \in {"opening", "closing"}
     /\ call.do = "create" => pc[m] = "creating"
     /\ call.do = "settle" => pc[m] = "settling"
     /\ call.do = "bet" => pc[m] = "betting"
     /\ call.do = "claim" => pc[m] = "claiming"
     /\ call.do \in {"bet", "settle", "claim"} => call.arg = current[m]

Held(chain) == {chain[i] : i \in DOMAIN chain}

Single(chain) ==
  \A i, j \in DOMAIN chain : chain[i].market = chain[j].market => i = j

QueueInv ==
  /\ queue \in [Lane -> Seq(Call)]
  /\ \A l \in Lane :
       /\ Single(queue[l])
       /\ \A call \in Held(queue[l]) : Proper(l, call) /\ AwaitedAt(call)

\* What is awaited is the call at the head of its chain.
InflightInv ==
  /\ sent \in [Lane -> BOOLEAN]
  /\ inflight \in SUBSET Tx
  /\ \A l \in Lane : sent[l] => queue[l] # <<>>
  /\ \A tx \in inflight :
       /\ Proper(tx.lane, tx.call)
       /\ tx.awaited => sent[tx.lane] /\ tx.call = Head(queue[tx.lane])

\* The keepers' own part: it is theirs alone to change.
OwnInv == MemoryInv /\ QueueInv /\ \A m \in Market : Placed(m)

LoopInv == MarketInv /\ OwnInv /\ InflightInv

AllAwaited ==
  faults \cap {"giveup", "crash"} = {} => \A tx \in inflight : tx.awaited

\* FreshSettlement
DueNow(m, r) == rounds[m][r] # None => now >= rounds[m][r].settle_ts

PricedAt(m, r) ==
  rounds[m][r] # None =>
    tick[m] # None /\ tick[m].timestamp >= rounds[m][r].settle_ts

\* The loop closes a round that is due, and settles it once the oracle has a price of
\* that time.
FreshLoop(m) ==
  /\ pc[m] \in {"close", "closing"} => DueNow(m, current[m])
  /\ pc[m] = "settling" => PricedAt(m, current[m])

FreshTx(tx) ==
  tx.call.do = "settle" /\ Demo(tx.call.market) => PricedAt(tx.call.market, tx.call.arg)

FreshInv ==
  "clock" \notin faults =>
    /\ \A m \in Market : Demo(m) => FreshLoop(m)
    /\ \A tx \in inflight : FreshTx(tx)

\* RoundsResolve
NoneOpen(m) == \A r \in RoundId : ~Open(m, r)

\* Nothing fails that could leave a market at a price the loop does not know.
Calm == faults \subseteq {"decode", "expiry"} /\ \A m \in Market : Loop(m) # "xlm"

\* The open round, if there is one, is the newest.  Its strike is the last price sent,
\* until another is sent to settle it.
CalmLoop(m) ==
  /\ \A r \in RoundId : Open(m, r) =>
       /\ r = counter[m]
       /\ rounds[m][r].strike = lastPushed[m] <=> pc[m] \notin {"closing", "settling"}
  /\ pc[m] # "recount" => current[m] = counter[m] \/ (current[m] = 0 /\ NoneOpen(m))
  /\ pc[m] \notin {"opening", "closing"} /\ tick[m] # None => tick[m].price = lastPushed[m]

Resolved(m) ==
  \A r \in RoundId :
    Settled(m, r) /\ rounds[m][r].sides = Series!Side => rounds[m][r].outcome # "Void"

\* The transaction of the call at the head of a chain is no more.
Lost(l) == sent[l] /\ Awaited(l) = {}

CalmLane(l) ==
  /\ \A call \in Held(queue[l]) : call.do = "push" => call.arg = lastPushed[call.market]
  /\ Lost(l) => /\ Head(queue[l]).do # "push"
                /\ Head(queue[l]).do = "settle" =>
                     ~Open(Head(queue[l]).market, Head(queue[l]).arg)

CalmInv ==
  Calm => /\ \A m \in Market : CalmLoop(m) /\ Resolved(m)
          /\ \A l \in Lane : CalmLane(l)

\* NothingLeftBehind
Claims(m, r, b) == Calls(m, "claim", r) \in Held(queue[<<"demo", b>>])

Turning == {"claiming", "open", "opening", "creating", "recount"}

Tracks(m, r) == \A b \in Bot : <<m, r, b>> \in claimTracker

\* A loop minds the newest round, and turns from it when it is settled and every bot's
\* claim has been chained.  A claim in the tracker is done or still in its chain.
LeavingInv(m) ==
  /\ current[m] = counter[m]
  /\ \A r \in RoundId : rounds[m][r] # None <=> r <= counter[m]
  /\ ~Demo(m) => \A r \in RoundId, b \in Bot : stakes[m][r][b] = "none"
  /\ Demo(m) /\ pc[m] \in Turning /\ current[m] # 0 => Tracks(m, current[m])
  /\ \A r \in RoundId : r < current[m] => Settled(m, r) /\ (Demo(m) => Tracks(m, r))
  /\ \A r \in RoundId, b \in Bot : <<m, r, b>> \in claimTracker =>
       Settled(m, r) /\ (stakes[m][r][b] = "staked" => Claims(m, r, b))

ClaimTx(tx) ==
  tx.call.do = "claim" => Series!CanClaim(tx.call.market, tx.call.arg, tx.lane[2])

QuietLane(l) == Lost(l) => Head(queue[l]).do # "claim"

QuietInv ==
  faults = {} =>
    /\ \A m \in Market : LeavingInv(m)
    /\ \A tx \in inflight : ClaimTx(tx)
    /\ \A l \in Lane : QuietLane(l)

-----------------------------------------------------------------------------
(* The constants *)

LEMMA Bounds ==
  /\ MaxRounds \in Nat \ {0} /\ MaxTime \in Nat /\ Lifetime \in Nat
  /\ LockOffset \in Nat /\ OracleInterval \in Nat \ {0} /\ LockOffset < OracleInterval
  /\ Admin \notin Bot /\ SideOf \in [Bot -> {"Above", "Below"}]
BY WickKeepersAssumption DEF WickKeepersAssumption

LEMMA Nones ==
  /\ None \notin Price /\ None \notin Series!Round
  /\ None \notin [price : Price, timestamp : Nat]
BY NoneAssumption DEF NoneAssumption

LEMMA Prices ==
  /\ Price \subseteq Int
  /\ \A spot \in Spot : spot \in Price /\ Nudge(spot) \in Price /\ Nudge(spot) # spot
BY WickKeepersAssumption DEF WickKeepersAssumption, Price, Nudge

LEMMA Deployed ==
  ASSUME deployed \in Deployment
  PROVE  /\ \A m \in Market : Loop(m) \in Process \cup {"off"}
         /\ deployed.tagged \in BOOLEAN
         /\ deployed.spots \in SUBSET Spot /\ deployed.spots # {}
         /\ deployed.until \in 1..MaxTime
         /\ deployed.faults \in SUBSET FaultKind
<1>1. deployed \in [loop : [Market -> Process \cup {"off"}],
                   tagged : BOOLEAN, spots : (SUBSET Spot) \ {{}}, until : 1..MaxTime,
                   faults : SUBSET FaultKind, budget : Nat]
  BY WickKeepersAssumption DEF WickKeepersAssumption
<1>. QED BY <1>1 DEF Loop

LEMMA Lanes ==
  /\ \A l \in Lane : l = <<l[1], l[2]>> /\ l[2] \in Account
  /\ \A p \in Process, a \in Account : <<p, a>> \in Lane
BY DEF Lane

-----------------------------------------------------------------------------
(* Chains of calls *)

LEMMA PoppedChain ==
  ASSUME NEW chain \in Seq(Call), Single(chain), chain # <<>>
  PROVE  /\ Tail(chain) \in Seq(Call) /\ Single(Tail(chain))
         /\ Head(chain) \in Held(chain)
         /\ Held(Tail(chain)) = Held(chain) \ {Head(chain)}
         /\ \A call \in Held(Tail(chain)) : call.market # Head(chain).market
<1>1. /\ Len(chain) \in Nat \ {0} /\ DOMAIN chain = 1..Len(chain)
      /\ Tail(chain) \in Seq(Call) /\ Len(Tail(chain)) = Len(chain) - 1
      /\ \A i \in 1..Len(Tail(chain)) : Tail(chain)[i] = chain[i + 1]
      /\ DOMAIN Tail(chain) = 1..Len(Tail(chain))
  BY EmptySeq, HeadTailProperties, LenProperties
<1>2. Head(chain) = chain[1]
  BY <1>1
<1>3. \A i \in 1..Len(Tail(chain)) :
        i + 1 \in DOMAIN chain /\ i + 1 # 1 /\ chain[i + 1].market # chain[1].market
  BY <1>1 DEF Single
<1>4. Single(Tail(chain))
  BY <1>1 DEF Single
<1>5. \A call \in Held(Tail(chain)) :
        call.market # Head(chain).market /\ call \in Held(chain)
  BY <1>1, <1>2, <1>3 DEF Held
<1>6. Head(chain) \in Held(chain)
  BY <1>1, <1>2 DEF Held
<1>7. ASSUME NEW call \in Held(chain), call # Head(chain)
      PROVE  call \in Held(Tail(chain))
  <2>1. PICK i \in DOMAIN chain : call = chain[i]
    BY DEF Held
  <2>2. i # 1 /\ i - 1 \in 1..Len(Tail(chain)) /\ Tail(chain)[i - 1] = chain[i]
    BY <1>1, <1>2, <1>7, <2>1
  <2>. QED BY <1>1, <2>1, <2>2 DEF Held
<1>. QED BY <1>1, <1>4, <1>5, <1>6, <1>7

LEMMA LongerChain ==
  ASSUME NEW chain \in Seq(Call), NEW call \in Call, Single(chain),
         \A other \in Held(chain) : other.market # call.market
  PROVE  /\ Append(chain, call) \in Seq(Call) /\ Single(Append(chain, call))
         /\ Append(chain, call) # <<>>
         /\ Held(Append(chain, call)) = Held(chain) \cup {call}
         /\ chain # <<>> => Head(Append(chain, call)) = Head(chain)
<1> DEFINE longer == Append(chain, call)
<1>1. /\ Len(chain) \in Nat /\ DOMAIN chain = 1..Len(chain)
      /\ longer \in Seq(Call) /\ Len(longer) = Len(chain) + 1
      /\ \A i \in 1..Len(chain) : longer[i] = chain[i]
      /\ longer[Len(chain) + 1] = call
      /\ DOMAIN longer = 1..(Len(chain) + 1)
  BY LenProperties, AppendProperties
<1>2. Head(longer) = longer[1] /\ Head(chain) = chain[1]
  OBVIOUS
<1> HIDE DEF longer
<1>3. Held(longer) = Held(chain) \cup {call}
  BY <1>1 DEF Held
<1>4. \A i \in 1..Len(chain) : chain[i] \in Held(chain)
  BY <1>1 DEF Held
<1>5. Single(longer)
  BY <1>1, <1>4 DEF Single
<1>6. chain # <<>> => 1 \in 1..Len(chain)
  BY <1>1, EmptySeq
<1>. QED BY <1>1, <1>2, <1>3, <1>5, <1>6 DEF longer

\* What is left in the chains are calls of other markets.
Rest(q, m) ==
  /\ q \in [Lane -> Seq(Call)]
  /\ \A l \in Lane :
       /\ Single(q[l])
       /\ \A call \in Held(q[l]) : call \in Held(queue[l]) /\ call.market # m

\* The chains after a call of m has joined those of some accounts.
Joined(chained, q, m, accounts, call) ==
  /\ chained \in [Lane -> Seq(Call)]
  /\ \A l \in Lane :
       /\ Single(chained[l])
       /\ Held(chained[l]) =
            IF l[1] = Loop(m) /\ l[2] \in accounts THEN Held(q[l]) \cup {call}
            ELSE Held(q[l])
       /\ q[l] # <<>> => chained[l] # <<>> /\ Head(chained[l]) = Head(q[l])

LEMMA ChainedCalls ==
  ASSUME NEW q, NEW m \in Market, Rest(q, m), NEW accounts,
         NEW call \in Call, call.market = m
  PROVE  Joined(Chained(q, m, accounts, call), q, m, accounts, call)
<1> DEFINE chained == Chained(q, m, accounts, call)
<1>1. ASSUME NEW l \in Lane
      PROVE  /\ Append(q[l], call) \in Seq(Call) /\ Single(Append(q[l], call))
             /\ Append(q[l], call) # <<>>
             /\ Held(Append(q[l], call)) = Held(q[l]) \cup {call}
             /\ q[l] # <<>> => Head(Append(q[l], call)) = Head(q[l])
  <2>1. q[l] \in Seq(Call) /\ Single(q[l]) /\ \A other \in Held(q[l]) : other.market # call.market
    BY DEF Rest
  <2>. QED BY <2>1, LongerChain
<1>2. chained \in [Lane -> Seq(Call)]
  BY <1>1 DEF Chained, Rest
<1>3. \A l \in Lane : chained[l] =
        IF l[1] = Loop(m) /\ l[2] \in accounts THEN Append(q[l], call) ELSE q[l]
  BY DEF Chained, Chain
<1> HIDE DEF chained
<1>4. Joined(chained, q, m, accounts, call)
  BY <1>1, <1>2, <1>3 DEF Rest, Joined
<1>. QED BY <1>4 DEF chained

-----------------------------------------------------------------------------
(* The markets *)

\* What a loop may rely on while it awaits: an entry never becomes another
\* round's nor opens again, and time and ticks only advance.
Grows ==
  /\ now <= now'
  /\ \A m \in Market :
       /\ counter[m] <= counter'[m]
       /\ tick[m] # None => tick'[m] # None /\ tick[m].timestamp <= tick'[m].timestamp
       /\ \A r \in RoundId : r <= counter[m] /\ rounds'[m][r] # None =>
            /\ rounds[m][r] # None
            /\ rounds'[m][r].strike = rounds[m][r].strike
            /\ rounds'[m][r].settle_ts = rounds[m][r].settle_ts
            /\ Open(m, r)' => Open(m, r)

Numbers == \A m \in Market : counter[m] \in Int /\ (tick[m] # None => tick[m].timestamp \in Int)

LEMMA Numbered ==
  ASSUME MarketInv
  PROVE  now \in Int /\ Numbers
<1>1. now \in Int /\ \A m \in Market : counter[m] \in Int
  BY Bounds DEF MarketInv
<1>2. \A m \in Market : tick[m] # None => tick[m].timestamp \in Int
  BY DEF MarketInv
<1>. QED BY <1>1, <1>2 DEF Numbers

LEMMA SameMarkets ==
  ASSUME MarketInv, UNCHANGED markets
  PROVE  MarketInv' /\ Grows
<1>1. MarketInv'
  BY DEF MarketInv, markets
<1>2. Grows
  BY Numbered DEF Grows, Numbers, Open, Series!HasStatus, markets
<1>. QED BY <1>1, <1>2

LEMMA PushMoves ==
  ASSUME MarketInv, NEW m \in Market, NEW price \in Price, Series!Push(m, price)
  PROVE  /\ MarketInv' /\ Grows
         /\ tick'[m] # None /\ tick'[m].price = price /\ tick'[m].timestamp = now
         /\ \A n \in Market : n # m => tick'[n] = tick[n]
         /\ UNCHANGED <<now, counter, lastStrikeTs, rounds, stakes>>
<1>1. PICK new : new = [price |-> price, timestamp |-> now]
  OBVIOUS
<1>2. now \in 1..MaxTime /\ now \in Nat /\ now <= now
  BY Bounds DEF MarketInv
<1>3. new \in [price : Price, timestamp : Nat] /\ new.price = price /\ new.timestamp = now
      /\ new # None
  BY <1>1, <1>2, Nones
<1>4. /\ tick' = [tick EXCEPT ![m] = new]
      /\ UNCHANGED <<now, counter, lastStrikeTs, rounds, stakes>>
  BY <1>1 DEF Series!Push
<1>5. tick \in [Market -> [price : Price, timestamp : Nat] \cup {None}]
      /\ \A n \in Market : tick[n] # None => tick[n].timestamp <= now
  BY DEF MarketInv
<1>6. /\ tick' \in [Market -> [price : Price, timestamp : Nat] \cup {None}]
      /\ tick'[m] = new
      /\ \A n \in Market : n # m => tick'[n] = tick[n]
  BY <1>3, <1>4, <1>5
<1>7. \A n \in Market : tick'[n] # None => tick'[n].timestamp <= now'
  <2>1. TAKE n \in Market
  <2>2. CASE n = m
    BY <1>2, <1>3, <1>4, <1>6, <2>2
  <2>3. CASE n # m
    BY <1>4, <1>5, <1>6, <2>3
  <2>. QED BY <2>2, <2>3
<1>8. MarketInv'
  BY <1>4, <1>6, <1>7 DEF MarketInv
<1>9. \A n \in Market : tick[n] # None =>
        tick'[n] # None /\ tick[n].timestamp <= tick'[n].timestamp
  <2>1. TAKE n \in Market
  <2>2. CASE n = m
    BY <1>3, <1>5, <1>6, <2>2
  <2>3. CASE n # m
    BY <1>6, <2>3, Numbered DEF Numbers
  <2>. QED BY <2>2, <2>3
<1>10. Grows
  BY <1>2, <1>4, <1>9, Numbered DEF Grows, Numbers, Open, Series!HasStatus
<1>. QED BY <1>3, <1>4, <1>6, <1>8, <1>10

LEMMA CreateMoves ==
  ASSUME MarketInv, NEW m \in Market, Series!Create(m, LockOffset, OracleInterval)
  PROVE  /\ MarketInv' /\ Grows
         /\ tick[m] # None /\ counter[m] + 1 \in RoundId
         /\ counter'[m] = counter[m] + 1
         /\ rounds'[m][counter[m] + 1] # None
         /\ rounds'[m][counter[m] + 1].strike = tick[m].price
         /\ \A n \in Market : n # m => counter'[n] = counter[n] /\ rounds'[n] = rounds[n]
         /\ \A r \in RoundId : r # counter[m] + 1 => rounds'[m][r] = rounds[m][r]
         /\ rounds'[m][counter[m] + 1].status = "Open"
         /\ UNCHANGED <<now, tick, stakes>>
<1>1. PICK new : new =
       [strike |-> tick[m].price, strike_ts |-> tick[m].timestamp,
        lock_ts |-> tick[m].timestamp + LockOffset,
        settle_ts |-> tick[m].timestamp + OracleInterval,
        sides |-> {}, status |-> "Open", outcome |-> "Void"]
  OBVIOUS
<1>2. /\ tick[m] # None /\ counter[m] < MaxRounds
      /\ counter' = [counter EXCEPT ![m] = @ + 1]
      /\ lastStrikeTs' = [lastStrikeTs EXCEPT ![m] = tick[m].timestamp]
      /\ rounds' = [rounds EXCEPT ![m][counter[m] + 1] = new]
      /\ UNCHANGED <<now, tick, stakes>>
  BY <1>1 DEF Series!Create, Series!CanCreate
<1>3. tick[m].price \in Price /\ tick[m].timestamp \in Nat
  BY <1>2 DEF MarketInv
<1>4. new \in Series!Round /\ new.status = "Open" /\ new.strike = tick[m].price
  BY <1>1, <1>3, Bounds DEF Series!Round, Series!Side
<1>5. PICK id \in RoundId : id = counter[m] + 1
  BY <1>2, Bounds DEF MarketInv, RoundId
<1>6. /\ counter \in [Market -> 0..MaxRounds] /\ lastStrikeTs \in [Market -> Nat]
      /\ rounds \in [Market -> [RoundId -> Series!Round \cup {None}]]
  BY DEF MarketInv, Series!RoundId, RoundId
<1>7. /\ counter' \in [Market -> 0..MaxRounds] /\ counter'[m] = id
      /\ lastStrikeTs' \in [Market -> Nat]
      /\ \A n \in Market : n # m => counter'[n] = counter[n]
  BY <1>2, <1>3, <1>5, <1>6 DEF RoundId
<1>8. rounds' = [rounds EXCEPT ![m][id] = new]
  BY <1>2, <1>5
<1>9. /\ rounds' \in [Market -> [RoundId -> Series!Round \cup {None}]]
      /\ rounds'[m][id] = new /\ new # None
      /\ \A r \in RoundId : r # id => rounds'[m][r] = rounds[m][r]
      /\ \A n \in Market : n # m => rounds'[n] = rounds[n]
  BY <1>4, <1>6, <1>8, Nones
<1>10. MarketInv'
  BY <1>2, <1>7, <1>9 DEF MarketInv, RoundId
<1>11. \A n \in Market : counter[n] <= counter'[n]
  <2>1. TAKE n \in Market
  <2>. QED BY <1>5, <1>7, Numbered DEF Numbers
<1>12. \A n \in Market, r \in RoundId : r <= counter[n] => rounds'[n][r] = rounds[n][r]
  <2>1. TAKE n \in Market, r \in RoundId
  <2>2. CASE n = m
    BY <1>5, <1>9, <2>2, Numbered DEF Numbers, RoundId
  <2>3. CASE n # m
    BY <1>9, <2>3
  <2>. QED BY <2>2, <2>3
<1>13. Grows
  <2>1. \A n \in Market : tick[n] # None => tick[n].timestamp <= tick[n].timestamp
    BY Numbered DEF Numbers
  <2>2. now <= now
    BY Numbered
  <2>. QED BY <1>2, <1>11, <1>12, <2>1, <2>2 DEF Grows, Open, Series!HasStatus
<1>. QED BY <1>2, <1>4, <1>5, <1>7, <1>9, <1>10, <1>13

LEMMA BetMoves ==
  ASSUME MarketInv, NEW m \in Market, NEW r \in RoundId, NEW b \in Bot,
         Series!Bet(m, r, b, SideOf[b])
  PROVE  /\ MarketInv' /\ Grows
         /\ Open(m, r) /\ now < rounds[m][r].lock_ts
         /\ stakes'[m][r][b] = "staked"
         /\ \A n \in Market, s \in RoundId : n # m \/ s # r =>
              rounds'[n][s] = rounds[n][s] /\ stakes'[n][s] = stakes[n][s]
         /\ \A n \in Market, s \in RoundId :
              /\ Open(n, s)' <=> Open(n, s)
              /\ Settled(n, s)' <=> Settled(n, s)
              /\ rounds'[n][s] # None <=> rounds[n][s] # None
              /\ rounds[n][s] # None => rounds'[n][s].strike = rounds[n][s].strike
                                        /\ rounds'[n][s].settle_ts = rounds[n][s].settle_ts
         /\ UNCHANGED <<now, tick, counter, lastStrikeTs>>
<1>1. /\ Open(m, r) /\ now < rounds[m][r].lock_ts
      /\ stakes' = [stakes EXCEPT ![m][r][b] = "staked"]
      /\ UNCHANGED <<now, tick, counter, lastStrikeTs>>
  BY DEF Series!Bet, Series!CanBet, Open
<1>2. PICK new : new = [rounds[m][r] EXCEPT !.sides = @ \cup {SideOf[b]}]
  OBVIOUS
<1>3. /\ rounds \in [Market -> [RoundId -> Series!Round \cup {None}]]
      /\ stakes \in [Market -> [RoundId -> [Bot -> {"none", "staked", "claimed"}]]]
  BY DEF MarketInv
<1>4. rounds[m][r] # None /\ rounds[m][r] \in Series!Round /\ rounds[m][r].status = "Open"
  BY <1>1, <1>3 DEF Open, Series!HasStatus
<1>5. rounds' = [rounds EXCEPT ![m][r] = new]
  BY <1>2, <1>3 DEF Series!Bet
<1>6. SideOf[b] \in Series!Side
  BY Bounds DEF Series!Side
<1>7. /\ new \in Series!Round /\ new.status = "Open"
      /\ new.strike = rounds[m][r].strike /\ new.settle_ts = rounds[m][r].settle_ts
  BY <1>2, <1>4, <1>6 DEF Series!Round
<1>8. /\ rounds' \in [Market -> [RoundId -> Series!Round \cup {None}]]
      /\ rounds'[m][r] = new /\ new # None
      /\ \A n \in Market, s \in RoundId : n # m \/ s # r => rounds'[n][s] = rounds[n][s]
  BY <1>3, <1>5, <1>7, Nones
<1>9. /\ stakes' \in [Market -> [RoundId -> [Bot -> {"none", "staked", "claimed"}]]]
      /\ stakes'[m][r][b] = "staked"
      /\ \A n \in Market, s \in RoundId : n # m \/ s # r => stakes'[n][s] = stakes[n][s]
  BY <1>1, <1>3
<1>10. MarketInv'
  BY <1>1, <1>8, <1>9 DEF MarketInv
<1>11. \A n \in Market, s \in RoundId :
         /\ Open(n, s)' <=> Open(n, s)
         /\ Settled(n, s)' <=> Settled(n, s)
         /\ rounds'[n][s] # None <=> rounds[n][s] # None
         /\ rounds[n][s] # None => rounds'[n][s].strike = rounds[n][s].strike
                                   /\ rounds'[n][s].settle_ts = rounds[n][s].settle_ts
  <2>1. TAKE n \in Market, s \in RoundId
  <2>2. CASE n = m /\ s = r
    BY <1>4, <1>7, <1>8, <2>2 DEF Open, Settled, Series!HasStatus
  <2>3. CASE n # m \/ s # r
    BY <1>8, <2>3 DEF Open, Settled, Series!HasStatus
  <2>. QED BY <2>2, <2>3
<1>12. Grows
  BY <1>1, <1>11, Numbered DEF Grows, Numbers
<1>. QED BY <1>1, <1>8, <1>9, <1>10, <1>11, <1>12

LEMMA SettleMoves ==
  ASSUME MarketInv, NEW m \in Market, NEW r \in RoundId, Series!SettleRound(m, r)
  PROVE  /\ MarketInv' /\ Grows
         /\ Open(m, r) /\ now >= rounds[m][r].settle_ts
         /\ Settled(m, r)' /\ ~Open(m, r)'
         /\ rounds'[m][r].sides = rounds[m][r].sides
         /\ rounds'[m][r].outcome = Series!Verdict(rounds[m][r], tick[m].price)
         /\ \A n \in Market, s \in RoundId : n # m \/ s # r => rounds'[n][s] = rounds[n][s]
         /\ \A n \in Market, s \in RoundId : rounds'[n][s] # None <=> rounds[n][s] # None
         /\ UNCHANGED <<now, tick, counter, lastStrikeTs, stakes>>
<1>1. /\ Open(m, r) /\ now >= rounds[m][r].settle_ts
      /\ UNCHANGED <<now, tick, counter, lastStrikeTs, stakes>>
  BY DEF Series!SettleRound, Series!CanSettle, Open
<1>2. PICK verdict : verdict = Series!Verdict(rounds[m][r], tick[m].price)
  OBVIOUS
<1>3. PICK new : new = [rounds[m][r] EXCEPT !.status = "Settled", !.outcome = verdict]
  OBVIOUS
<1>4. rounds \in [Market -> [RoundId -> Series!Round \cup {None}]]
  BY DEF MarketInv
<1>5. rounds[m][r] # None /\ rounds[m][r] \in Series!Round /\ rounds[m][r].status = "Open"
  BY <1>1, <1>4 DEF Open, Series!HasStatus
<1>6. verdict \in Series!Side \cup {"Void"}
  BY <1>2 DEF Series!Verdict, Series!Side
<1>7. rounds' = [rounds EXCEPT ![m][r] = new]
  <2>1. rounds' = [rounds EXCEPT ![m][r].status = "Settled", ![m][r].outcome = verdict]
    BY <1>2 DEF Series!SettleRound
  <2>2. PICK mid : mid = [rounds EXCEPT ![m][r].status = "Settled"]
    OBVIOUS
  <2>3. mid[m][r] = [rounds[m][r] EXCEPT !.status = "Settled"]
        /\ mid = [rounds EXCEPT ![m] = [rounds[m] EXCEPT ![r] = mid[m][r]]]
    BY <2>2, <1>4
  <2>4. rounds' = [mid EXCEPT ![m][r].outcome = verdict]
    BY <2>1, <2>2
  <2>5. [mid[m][r] EXCEPT !.outcome = verdict] = new
    BY <2>3, <1>3, <1>5 DEF Series!Round
  <2>6. rounds' = [mid EXCEPT ![m][r] = new]
    BY <2>4, <2>5
  <2>. QED BY <2>3, <2>6, <1>4
<1>8. /\ new \in Series!Round /\ new.status = "Settled" /\ new.outcome = verdict
      /\ new.strike = rounds[m][r].strike /\ new.settle_ts = rounds[m][r].settle_ts
      /\ new.sides = rounds[m][r].sides
  BY <1>3, <1>5, <1>6 DEF Series!Round
<1>9. /\ rounds' \in [Market -> [RoundId -> Series!Round \cup {None}]]
      /\ rounds'[m][r] = new /\ new # None
      /\ \A n \in Market, s \in RoundId : n # m \/ s # r => rounds'[n][s] = rounds[n][s]
  BY <1>4, <1>7, <1>8, Nones
<1>10. MarketInv'
  BY <1>1, <1>9 DEF MarketInv
<1>11. \A n \in Market, s \in RoundId :
         /\ Open(n, s)' => Open(n, s)
         /\ rounds'[n][s] # None <=> rounds[n][s] # None
         /\ rounds[n][s] # None => rounds'[n][s].strike = rounds[n][s].strike
                                   /\ rounds'[n][s].settle_ts = rounds[n][s].settle_ts
  <2>1. TAKE n \in Market, s \in RoundId
  <2>2. CASE n = m /\ s = r
    BY <1>1, <1>5, <1>8, <1>9, <2>2 DEF Open, Series!HasStatus
  <2>3. CASE n # m \/ s # r
    BY <1>9, <2>3 DEF Open, Series!HasStatus
  <2>. QED BY <2>2, <2>3
<1>12. Grows
  BY <1>1, <1>11, Numbered DEF Grows, Numbers
<1>13. Settled(m, r)' /\ ~Open(m, r)'
  BY <1>8, <1>9 DEF Settled, Open, Series!HasStatus
<1>. QED BY <1>1, <1>2, <1>8, <1>9, <1>10, <1>11, <1>12, <1>13

LEMMA ClaimMoves ==
  ASSUME MarketInv, NEW m \in Market, NEW r \in RoundId, NEW b \in Bot,
         Series!Claim(m, r, b)
  PROVE  /\ MarketInv' /\ Grows
         /\ Settled(m, r) /\ stakes'[m][r][b] = "claimed"
         /\ \A n \in Market, s \in RoundId, c \in Bot : n # m \/ s # r \/ c # b =>
              stakes'[n][s][c] = stakes[n][s][c]
         /\ UNCHANGED <<now, tick, counter, lastStrikeTs, rounds>>
<1>1. /\ Settled(m, r)
      /\ stakes' = [stakes EXCEPT ![m][r][b] = "claimed"]
      /\ UNCHANGED <<now, tick, counter, lastStrikeTs, rounds>>
  BY DEF Series!Claim, Series!CanClaim, Settled
<1>2. stakes \in [Market -> [RoundId -> [Bot -> {"none", "staked", "claimed"}]]]
  BY DEF MarketInv
<1>3. /\ stakes' \in [Market -> [RoundId -> [Bot -> {"none", "staked", "claimed"}]]]
      /\ stakes'[m][r][b] = "claimed"
      /\ \A n \in Market, s \in RoundId, c \in Bot : n # m \/ s # r \/ c # b =>
           stakes'[n][s][c] = stakes[n][s][c]
  BY <1>1, <1>2
<1>4. MarketInv'
  BY <1>1, <1>3 DEF MarketInv
<1>5. Grows
  BY <1>1, Numbered DEF Grows, Numbers, Open, Series!HasStatus
<1>. QED BY <1>1, <1>3, <1>4, <1>5

LEMMA TimeMoves ==
  ASSUME MarketInv, Series!TimePasses, now' \in 1..MaxTime
  PROVE  /\ MarketInv' /\ Grows
         /\ \A m \in Market, r \in RoundId :
              rounds'[m][r] = rounds[m][r] \/ rounds'[m][r] = None
         /\ UNCHANGED <<tick, counter, lastStrikeTs>>
<1>1. /\ now' \in {now, now + 1} /\ UNCHANGED <<tick, counter, lastStrikeTs>>
      /\ rounds' \in [Market -> [RoundId -> Series!Round \cup {None}]]
      /\ stakes' \in [Market -> [RoundId -> [Bot -> {"none", "staked", "claimed"}]]]
      /\ \A m \in Market, r \in RoundId :
           rounds'[m][r] = rounds[m][r] \/ rounds'[m][r] = None
  BY DEF Series!TimePasses, Series!RoundId, RoundId
<1>2. now \in Int /\ now <= now'
  BY <1>1, Numbered
<1>3. \A m \in Market : tick[m] # None => tick'[m].timestamp <= now'
  <2>1. TAKE m \in Market
  <2>2. HAVE tick[m] # None
  <2>3. tick[m].timestamp \in Int /\ tick[m].timestamp <= now
    BY <2>2, Numbered DEF MarketInv, Numbers
  <2>. QED BY <1>1, <1>2, <2>3
<1>4. MarketInv'
  BY <1>1, <1>3 DEF MarketInv
<1>5. Grows
  BY <1>1, <1>2, Numbered DEF Grows, Numbers, Open, Series!HasStatus
<1>. QED BY <1>1, <1>4, <1>5


-----------------------------------------------------------------------------
(* The loops and their calls *)

LEMMA Calling ==
  ASSUME NEW m \in Market, NEW arg \in RoundId \cup Price \cup {None},
         NEW do \in {"push", "create", "bet", "settle", "claim"}
  PROVE  /\ Calls(m, do, arg) \in Call
         /\ Calls(m, do, arg).market = m /\ Calls(m, do, arg).do = do
         /\ Calls(m, do, arg).arg = arg
BY DEF Calls, Call

LEMMA HeldCalls ==
  ASSUME QueueInv, NEW l \in Lane, NEW call \in Held(queue[l])
  PROVE  /\ Proper(l, call) /\ AwaitedAt(call) /\ call \in Call /\ call.market \in Market
         /\ call.do \in {"push", "create", "bet", "settle", "claim"}
BY DEF QueueInv, Proper, Call

LEMMA ProperStays ==
  ASSUME MarketInv, MarketInv', Grows, UNCHANGED deployed,
         NEW l, NEW call, Proper(l, call)
  PROVE  Proper(l, call)'
<1>1. call.market \in Market
  BY DEF Proper, Call
<1>2. /\ counter[call.market] \in Int /\ counter'[call.market] \in Int
      /\ counter[call.market] <= counter'[call.market]
  BY <1>1, Bounds DEF MarketInv, Grows
<1>3. call.arg \in RoundId /\ call.arg <= counter[call.market] =>
        call.arg <= counter'[call.market]
  BY <1>2 DEF RoundId
<1>. QED BY <1>3 DEF Proper, Loop, Demo

LEMMA PlacedStays ==
  ASSUME MarketInv, MarketInv', MemoryInv, Grows, UNCHANGED deployed,
         NEW m \in Market, Placed(m), pc'[m] = pc[m], current'[m] = current[m]
  PROVE  Placed(m)'
<1>1. /\ counter[m] \in Int /\ counter'[m] \in Int /\ current[m] \in 0..MaxRounds
      /\ counter[m] <= counter'[m]
  BY Bounds DEF MarketInv, MemoryInv, Grows
<1>2. current[m] <= counter[m] /\ current[m] <= counter'[m]
  BY <1>1, Bounds DEF Placed
<1>3. ASSUME current[m] # 0, ~Open(m, current[m])
      PROVE  ~(rounds'[m][current[m]] # None /\ rounds'[m][current[m]].status = "Open")
  <2>1. current[m] \in RoundId
    BY <1>1, <1>3, Bounds DEF RoundId
  <2>2. Open(m, current[m]) <=> rounds[m][current[m]] # None
                                /\ rounds[m][current[m]].status = "Open"
    BY DEF Open, Series!HasStatus
  <2>3. PICK r \in RoundId : r = current[m]
    BY <2>1
  <2>4. rounds'[m][r] # None => (Open(m, r)' => Open(m, r))
    BY <1>2, <2>3 DEF Grows
  <2>. QED BY <1>3, <2>3, <2>4 DEF Open, Series!HasStatus
<1>. QED BY <1>2, <1>3 DEF Placed, Loop, Open, Series!HasStatus

\* Only the loop of market m goes on.
Elsewhere(m) ==
  \A n \in Market : n # m => pc'[n] = pc[n] /\ current'[n] = current[n]

Extends(q) ==
  \A l \in Lane : q[l] # <<>> => queue'[l] # <<>> /\ Head(queue'[l]) = Head(q[l])

LEMMA OthersStay ==
  ASSUME LoopInv, MarketInv', Grows, UNCHANGED deployed, NEW m \in Market, Elsewhere(m)
  PROVE  /\ \A n \in Market : n # m => Placed(n)'
         /\ \A l \in Lane : \A call \in Held(queue[l]) :
              call.market # m => Proper(l, call)' /\ AwaitedAt(call)'
<1>1. ASSUME NEW n \in Market, n # m PROVE Placed(n)'
  BY <1>1, PlacedStays DEF LoopInv, OwnInv, Elsewhere
<1>2. ASSUME NEW l \in Lane, NEW call \in Held(queue[l]), call.market # m
      PROVE  Proper(l, call)' /\ AwaitedAt(call)'
  <2>1. Proper(l, call) /\ AwaitedAt(call) /\ call.market \in Market
    BY HeldCalls DEF LoopInv, OwnInv
  <2>2. Proper(l, call)'
    BY <2>1, ProperStays DEF LoopInv
  <2>3. pc'[call.market] = pc[call.market] /\ current'[call.market] = current[call.market]
    BY <1>2, <2>1 DEF Elsewhere
  <2>. QED BY <2>1, <2>2, <2>3 DEF AwaitedAt
<1>. QED BY <1>1, <1>2

LEMMA Unchained ==
  ASSUME LoopInv, MarketInv', Grows, UNCHANGED deployed, NEW m \in Market, Elsewhere(m),
         NEW q, Rest(q, m), queue' = q
  PROVE  QueueInv' /\ Extends(q) /\ \A n \in Market : n # m => Placed(n)'
<1>1. \A l \in Lane : \A call \in Held(q[l]) : Proper(l, call)' /\ AwaitedAt(call)'
  BY OthersStay DEF Rest
<1>2. QueueInv'
  BY <1>1 DEF QueueInv, Rest
<1>. QED BY <1>2, OthersStay DEF Extends

LEMMA ChainedOn ==
  ASSUME LoopInv, MarketInv', Grows, UNCHANGED deployed, NEW m \in Market, Elsewhere(m),
         NEW q, Rest(q, m), NEW accounts, NEW call \in Call, call.market = m,
         queue' = Chained(q, m, accounts, call),
         AwaitedAt(call)', \A a \in accounts : Proper(<<Loop(m), a>>, call)'
  PROVE  QueueInv' /\ Extends(q) /\ \A n \in Market : n # m => Placed(n)'
<1>1. \A l \in Lane : \A other \in Held(q[l]) : Proper(l, other)' /\ AwaitedAt(other)'
  BY OthersStay DEF Rest
<1>2. Joined(queue', q, m, accounts, call)
  BY ChainedCalls
<1>3. ASSUME NEW l \in Lane, NEW other \in Held(queue'[l])
      PROVE  Proper(l, other)' /\ AwaitedAt(other)'
  <2>1. CASE other \in Held(q[l])
    BY <1>1, <2>1
  <2>2. CASE other \notin Held(q[l])
    <3>1. other = call /\ l[1] = Loop(m) /\ l[2] \in accounts
      BY <1>2, <1>3, <2>2 DEF Joined
    <3>2. l = <<Loop(m), l[2]>> /\ Loop(m)' = Loop(m)
      BY <3>1, Lanes DEF Loop
    <3>3. Proper(<<Loop(m), l[2]>>, call)'
      BY <3>1
    <3>4. PICK k : k = l
      OBVIOUS
    <3>5. Proper(k, call)'
      BY <3>2, <3>3, <3>4
    <3>. QED BY <3>1, <3>4, <3>5
  <2>. QED BY <2>1, <2>2
<1>4. QueueInv'
  BY <1>2, <1>3 DEF QueueInv, Joined
<1>. QED BY <1>2, <1>4, OthersStay DEF Extends, Joined

\* A loop that awaits nothing has no call in any chain.
LEMMA Idle ==
  ASSUME LoopInv, NEW m \in Market, pc[m] \in {"asleep", "look", "open", "close", "recount"}
  PROVE  Rest(queue, m)
<1>1. ASSUME NEW l \in Lane, NEW call \in Held(queue[l]) PROVE call.market # m
  BY HeldCalls DEF LoopInv, OwnInv, AwaitedAt
<1>. QED BY <1>1 DEF Rest, LoopInv, OwnInv, QueueInv

LEMMA Popped ==
  ASSUME LoopInv, NEW l \in Lane, queue[l] # <<>>,
         NEW q, q = [queue EXCEPT ![l] = Tail(@)]
  PROVE  /\ Head(queue[l]) \in Held(queue[l])
         /\ q \in [Lane -> Seq(Call)]
         /\ q[l] = Tail(queue[l]) /\ \A k \in Lane : k # l => q[k] = queue[k]
         /\ \A k \in Lane : Single(q[k]) /\ Held(q[k]) \subseteq Held(queue[k])
         /\ Held(q[l]) = Held(queue[l]) \ {Head(queue[l])}
         /\ Head(queue[l]).do \in {"push", "create", "settle"} =>
              Rest(q, Head(queue[l]).market)
<1>1. queue \in [Lane -> Seq(Call)] /\ \A k \in Lane : Single(queue[k])
  BY DEF LoopInv, OwnInv, QueueInv
<1>2. /\ Tail(queue[l]) \in Seq(Call) /\ Single(Tail(queue[l]))
      /\ Head(queue[l]) \in Held(queue[l])
      /\ Held(Tail(queue[l])) = Held(queue[l]) \ {Head(queue[l])}
      /\ \A call \in Held(Tail(queue[l])) : call.market # Head(queue[l]).market
  BY <1>1, PoppedChain
<1>3. /\ q \in [Lane -> Seq(Call)]
      /\ q[l] = Tail(queue[l]) /\ \A k \in Lane : k # l => q[k] = queue[k]
  BY <1>1, <1>2
<1>4. \A k \in Lane : Single(q[k]) /\ Held(q[k]) \subseteq Held(queue[k])
  BY <1>1, <1>2, <1>3
<1>5. ASSUME NEW call, call = Head(queue[l]), call.do \in {"push", "create", "settle"},
             NEW k \in Lane, NEW other \in Held(q[k])
      PROVE  other.market # call.market
  <2>1. CASE k = l
    BY <1>2, <1>3, <1>5, <2>1
  <2>2. CASE k # l
    <3>1. SUFFICES ASSUME other.market = call.market PROVE FALSE
      OBVIOUS
    <3>2. Proper(k, other) /\ AwaitedAt(other)
          /\ other.do \in {"push", "create", "bet", "settle", "claim"}
      BY <1>4, HeldCalls DEF LoopInv, OwnInv
    <3>3. Proper(l, call) /\ AwaitedAt(call)
      BY <1>2, <1>5, HeldCalls DEF LoopInv, OwnInv
    <3>4. other.do \in {"push", "create", "settle"}
      BY <1>5, <3>1, <3>2, <3>3 DEF AwaitedAt
    <3>5. k[1] = l[1] /\ k[2] = l[2]
      BY <1>5, <3>1, <3>2, <3>3, <3>4 DEF Proper
    <3>. QED BY <2>2, <3>5, Lanes
  <2>. QED BY <2>1, <2>2
<1>6. Head(queue[l]).do \in {"push", "create", "settle"} => Rest(q, Head(queue[l]).market)
  BY <1>3, <1>4, <1>5 DEF Rest
<1>. QED BY <1>2, <1>3, <1>4, <1>6

LEMMA InflightStays ==
  ASSUME LoopInv, MarketInv', Grows, UNCHANGED deployed, sent' \in [Lane -> BOOLEAN],
         \A l \in Lane : sent'[l] =>
           sent[l] /\ queue'[l] # <<>> /\ Head(queue'[l]) = Head(queue[l]),
         \A tx \in inflight' :
           /\ tx \in Tx
           /\ \E old \in inflight :
                /\ tx.lane = old.lane /\ tx.call = old.call
                /\ tx.awaited => old.awaited /\ sent'[tx.lane]
  PROVE  InflightInv'
<1>1. ASSUME NEW tx \in inflight'
      PROVE  /\ Proper(tx.lane, tx.call)'
             /\ tx.awaited => sent'[tx.lane] /\ tx.call = Head(queue'[tx.lane])
  <2>1. PICK old \in inflight :
          /\ tx.lane = old.lane /\ tx.call = old.call
          /\ tx.awaited => old.awaited /\ sent'[tx.lane]
    OBVIOUS
  <2>2. /\ Proper(old.lane, old.call) /\ old.lane \in Lane
        /\ old.awaited => old.call = Head(queue[old.lane])
    BY DEF LoopInv, InflightInv, Tx
  <2>3. Proper(old.lane, old.call)'
    BY <2>2, ProperStays DEF LoopInv
  <2>4. ASSUME tx.awaited
        PROVE  sent'[tx.lane] /\ tx.call = Head(queue'[tx.lane])
    BY <2>1, <2>2, <2>4
  <2>. QED BY <2>1, <2>3, <2>4
<1>. QED BY <1>1 DEF InflightInv

LEMMA InflightSame ==
  ASSUME LoopInv, MarketInv', Grows, UNCHANGED <<deployed, sent, inflight>>,
         Extends(queue)
  PROVE  InflightInv'
<1>1. /\ sent \in [Lane -> BOOLEAN] /\ inflight \in SUBSET Tx
      /\ \A l \in Lane : sent[l] => queue[l] # <<>>
      /\ \A tx \in inflight : tx.awaited => sent[tx.lane]
  BY DEF LoopInv, InflightInv
<1>2. \A l \in Lane : sent'[l] =>
        sent[l] /\ queue'[l] # <<>> /\ Head(queue'[l]) = Head(queue[l])
  BY <1>1 DEF Extends
<1>. QED BY <1>1, <1>2, InflightStays


-----------------------------------------------------------------------------
(* The end of a call *)

Trackers == SUBSET (Market \X RoundId \X Bot)

LEMMA MemoryMoves ==
  ASSUME MemoryInv, NEW m \in Market, NEW step \in Step, Goes(m, step),
         UNCHANGED deployed, faults' \in SUBSET deployed.faults,
         lastPushed' \in [Market -> Price \cup {None}],
         betTracker' \in Trackers, claimTracker' \in Trackers,
         \/ UNCHANGED current
         \/ \E r \in 0..MaxRounds : Minds(m, r)
  PROVE  /\ MemoryInv' /\ Elsewhere(m) /\ pc'[m] = step
<1>1. /\ pc' \in [Market -> Step] /\ pc'[m] = step
      /\ \A n \in Market : n # m => pc'[n] = pc[n]
  BY DEF MemoryInv, Goes
<1>2. /\ current' \in [Market -> 0..MaxRounds]
      /\ \A n \in Market : n # m => current'[n] = current[n]
  BY DEF MemoryInv, Minds
<1>. QED BY <1>1, <1>2 DEF MemoryInv, Elsewhere, Trackers

LEMMA Tracked ==
  ASSUME NEW tracker \in Trackers, NEW m \in Market, NEW r \in RoundId
  PROVE  Tried(tracker, m, r) \in Trackers
BY DEF Tried, Trackers

\* The call that ends: the first of its chain.
Ending(l, call, q) ==
  /\ l \in Lane /\ queue[l] # <<>>
  /\ call = Head(queue[l])
  /\ q = [queue EXCEPT ![l] = Tail(@)]

\* While a call ends the markets may move as far as its loop can bear.
EndsWell(call, result) ==
  /\ MarketInv' /\ Grows
  /\ faults' \in SUBSET deployed.faults
  /\ call.do = "create" /\ result = "ok" =>
       current[call.market] < counter'[call.market]
  /\ call.do = "settle" /\ SettledBySomebody(result) => ~Open(call.market, call.arg)'

LEMMA EndingCall ==
  ASSUME LoopInv, NEW l, NEW call, NEW q, Ending(l, call, q)
  PROVE  /\ l \in Lane /\ Proper(l, call) /\ AwaitedAt(call) /\ call.market \in Market
         /\ call \in Held(queue[l])
         /\ call.do \in {"push", "create", "bet", "settle", "claim"}
         /\ call.do \in {"push", "create", "settle"} => Rest(q, call.market)
         /\ Loop(call.market) \in Process
<1>1. l \in Lane /\ queue[l] # <<>> /\ call = Head(queue[l])
      /\ q = [queue EXCEPT ![l] = Tail(@)]
  BY DEF Ending
<1>2. call \in Held(queue[l]) /\ (call.do \in {"push", "create", "settle"} => Rest(q, call.market))
  BY <1>1, Popped
<1>3. Proper(l, call) /\ AwaitedAt(call) /\ call.market \in Market
      /\ call.do \in {"push", "create", "bet", "settle", "claim"}
  BY <1>1, <1>2, HeldCalls DEF LoopInv, OwnInv
<1>4. Loop(call.market) \in Process
  <2>1. pc[call.market] # "asleep"
    BY <1>3 DEF AwaitedAt
  <2>2. Placed(call.market) /\ deployed \in Deployment
    BY <1>3 DEF LoopInv, OwnInv, MemoryInv
  <2>. QED BY <1>3, <2>1, <2>2, Deployed DEF Placed
<1>. QED BY <1>1, <1>2, <1>3, <1>4

\* current stays: what the loop minds is as open as it was, or less.
LEMMA StillPlaced ==
  ASSUME LoopInv, MarketInv', Grows, UNCHANGED deployed, NEW m \in Market,
         current'[m] = current[m]
  PROVE  /\ current[m] \in 0..MaxRounds /\ current'[m] <= counter'[m]
         /\ Loop(m)' = Loop(m)
         /\ current[m] # 0 => current[m] \in RoundId
         /\ current[m] # 0 /\ ~Open(m, current[m]) => ~Open(m, current[m])'
<1>1. /\ counter[m] \in Int /\ counter'[m] \in Int /\ current[m] \in 0..MaxRounds
      /\ counter[m] <= counter'[m] /\ current[m] <= counter[m]
  BY Bounds DEF LoopInv, OwnInv, MarketInv, MemoryInv, Grows, Placed
<1>2. current[m] # 0 => current[m] \in RoundId
  BY <1>1, Bounds DEF RoundId
<1>3. ASSUME current[m] # 0, ~Open(m, current[m]) PROVE ~Open(m, current[m])'
  <2>1. PICK r \in RoundId : r = current[m]
    BY <1>2, <1>3
  <2>2. ~Open(m, r) /\ (rounds'[m][r] # None => (Open(m, r)' => Open(m, r)))
    BY <1>1, <1>3, <2>1 DEF Grows
  <2>3. ~Open(m, r)'
    BY <2>2 DEF Open, Series!HasStatus
  <2>. QED BY <2>1, <2>3 DEF Open, Series!HasStatus
<1>4. current'[m] <= counter'[m]
  BY <1>1, Bounds
<1>. QED BY <1>1, <1>2, <1>3, <1>4 DEF Loop

LEMMA PushEndsKeeps ==
  ASSUME LoopInv, NEW l, NEW call, NEW q, Ending(l, call, q), call.do = "push",
         NEW result, EndsWell(call, result),
         PushEnds(q, call.market, result), UNCHANGED <<deployed, lastPushed>>
  PROVE  OwnInv' /\ Extends(q)
<1> DEFINE m == call.market
<1>1. /\ m \in Market /\ Rest(q, m) /\ Proper(l, call)
      /\ pc[m] \in {"opening", "closing"} /\ Loop(m) \in Process
  BY EndingCall DEF AwaitedAt
<1>2. MarketInv' /\ Grows /\ faults' \in SUBSET deployed.faults
  BY DEF EndsWell
<1>3. UNCHANGED <<current, betTracker, claimTracker>>
  BY DEF PushEnds
<1>4. MemoryInv /\ Placed(m)
  BY <1>1 DEF LoopInv, OwnInv
<1>5. /\ betTracker' \in Trackers /\ claimTracker' \in Trackers
      /\ lastPushed' \in [Market -> Price \cup {None}]
  BY <1>3, <1>4 DEF MemoryInv, Trackers
<1>6. /\ current[m] \in 0..MaxRounds /\ current'[m] <= counter'[m] /\ Loop(m)' = Loop(m)
      /\ current[m] # 0 => current[m] \in RoundId
      /\ current[m] # 0 /\ ~Open(m, current[m]) => ~Open(m, current[m])'
  BY <1>1, <1>2, <1>3, StillPlaced
<1>7. Loop(m) = "demo" /\ l = <<Loop(m), Admin>>
  BY <1>1, <1>4, EndingCall, Lanes DEF Placed, Process, Proper
<1>8. CASE result # "ok"
  <2>1. queue' = q /\ Goes(m, "asleep")
    BY <1>8 DEF PushEnds
  <2>2. MemoryInv' /\ Elsewhere(m) /\ pc'[m] = "asleep"
    BY <1>1, <1>2, <1>3, <1>4, <1>5, <2>1, MemoryMoves DEF Step
  <2>3. QueueInv' /\ Extends(q) /\ \A n \in Market : n # m => Placed(n)'
    BY <1>1, <1>2, <2>1, <2>2, Unchained
  <2>4. Placed(m)'
    BY <1>6, <1>7, <2>2 DEF Placed
  <2>. QED BY <2>2, <2>3, <2>4 DEF OwnInv
<1>9. CASE result = "ok" /\ pc[m] = "opening"
  <2>1. PICK next : next = Calls(m, "create", None)
    OBVIOUS
  <2>2. next \in Call /\ next.market = m /\ next.do = "create"
    BY <1>1, <2>1, Calling
  <2>3. queue' = Chained(q, m, {Admin}, next) /\ Goes(m, "creating")
    BY <1>9, <2>1 DEF PushEnds, Invoke
  <2>4. MemoryInv' /\ Elsewhere(m) /\ pc'[m] = "creating"
    BY <1>1, <1>2, <1>3, <1>4, <1>5, <2>3, MemoryMoves DEF Step
  <2>5. AwaitedAt(next)'
    BY <2>2, <2>4 DEF AwaitedAt
  <2>6. \A a \in {Admin} : Proper(<<Loop(m), a>>, next)'
    BY <2>2 DEF Proper
  <2>7. QueueInv' /\ Extends(q) /\ \A n \in Market : n # m => Placed(n)'
    BY <1>1, <1>2, <2>2, <2>3, <2>4, <2>5, <2>6, ChainedOn
  <2>8. current[m] # 0 => ~Open(m, current[m])
    BY <1>4, <1>9 DEF Placed
  <2>9. Placed(m)'
    BY <1>3, <1>6, <1>7, <2>4, <2>8 DEF Placed
  <2>. QED BY <2>4, <2>7, <2>9 DEF OwnInv
<1>10. CASE result = "ok" /\ pc[m] = "closing"
  <2>1. PICK next : next = Calls(m, "settle", current[m])
    OBVIOUS
  <2>2. current[m] # 0 /\ current[m] \in RoundId
    BY <1>4, <1>6, <1>10 DEF Placed
  <2>3. next \in Call /\ next.market = m /\ next.do = "settle" /\ next.arg = current[m]
    BY <1>1, <2>1, <2>2, Calling
  <2>4. queue' = Chained(q, m, {Admin}, next) /\ Goes(m, "settling")
    BY <1>10, <2>1 DEF PushEnds, Invoke
  <2>5. MemoryInv' /\ Elsewhere(m) /\ pc'[m] = "settling"
    BY <1>1, <1>2, <1>3, <1>4, <1>5, <2>4, MemoryMoves DEF Step
  <2>6. AwaitedAt(next)'
    BY <1>3, <2>3, <2>5 DEF AwaitedAt
  <2>7. \A a \in {Admin} : Proper(<<Loop(m), a>>, next)'
    BY <1>3, <1>6, <2>2, <2>3 DEF Proper
  <2>8. QueueInv' /\ Extends(q) /\ \A n \in Market : n # m => Placed(n)'
    BY <1>1, <1>2, <2>3, <2>4, <2>5, <2>6, <2>7, ChainedOn
  <2>9. Placed(m)'
    BY <1>3, <1>6, <1>7, <2>2, <2>5 DEF Placed
  <2>. QED BY <2>5, <2>8, <2>9 DEF OwnInv
<1>. QED BY <1>1, <1>8, <1>9, <1>10

LEMMA AdminCalled ==
  ASSUME LoopInv, MarketInv', Grows, UNCHANGED deployed, NEW m \in Market, Elsewhere(m),
         NEW q, Rest(q, m), NEW do \in {"push", "create", "settle"},
         NEW arg \in RoundId \cup Price \cup {None},
         queue' = Chained(q, m, {Admin}, Calls(m, do, arg)),
         do = "push" => arg \in Price /\ pc'[m] \in {"opening", "closing"},
         do = "create" => pc'[m] = "creating",
         do = "settle" => /\ pc'[m] = "settling" /\ arg = current'[m]
                          /\ arg \in RoundId /\ arg <= counter'[m]
  PROVE  QueueInv' /\ Extends(q) /\ \A n \in Market : n # m => Placed(n)'
<1>1. PICK call : call = Calls(m, do, arg)
  OBVIOUS
<1>2. call \in Call /\ call.market = m /\ call.do = do /\ call.arg = arg
  BY <1>1, Calling
<1>3. AwaitedAt(call)'
  BY <1>2 DEF AwaitedAt
<1>4. \A a \in {Admin} : Proper(<<Loop(m), a>>, call)'
  BY <1>2 DEF Proper
<1>. QED BY <1>1, <1>2, <1>3, <1>4, ChainedOn

LEMMA BotsCalled ==
  ASSUME LoopInv, MarketInv', Grows, UNCHANGED deployed, NEW m \in Market, Elsewhere(m),
         Loop(m) = "demo", NEW q, Rest(q, m), NEW do \in {"bet", "claim"},
         NEW bots \in SUBSET Bot, NEW r \in RoundId, r <= counter'[m], r = current'[m],
         queue' = Chained(q, m, bots, Calls(m, do, r)),
         pc'[m] = IF do = "bet" THEN "betting" ELSE "claiming"
  PROVE  QueueInv' /\ Extends(q) /\ \A n \in Market : n # m => Placed(n)'
<1>1. PICK call : call = Calls(m, do, r)
  OBVIOUS
<1>2. call \in Call /\ call.market = m /\ call.do = do /\ call.arg = r
  BY <1>1, Calling
<1>3. AwaitedAt(call)'
  BY <1>2 DEF AwaitedAt
<1>4. \A b \in bots : Proper(<<Loop(m), b>>, call)'
  BY <1>2 DEF Proper, Demo, Loop
<1>. QED BY <1>1, <1>2, <1>3, <1>4, ChainedOn

LEMMA CreateEndsKeeps ==
  ASSUME LoopInv, NEW l, NEW call, NEW q, Ending(l, call, q), call.do = "create",
         NEW result, EndsWell(call, result),
         CreateEnds(q, call.market, result), UNCHANGED <<deployed, lastPushed>>
  PROVE  OwnInv' /\ Extends(q)
<1> DEFINE m == call.market
<1>1. /\ m \in Market /\ Rest(q, m) /\ pc[m] = "creating" /\ Loop(m) \in Process
  BY EndingCall DEF AwaitedAt
<1>2. MarketInv' /\ Grows /\ faults' \in SUBSET deployed.faults
  BY DEF EndsWell
<1>3. UNCHANGED claimTracker
  BY DEF CreateEnds
<1>4. MemoryInv /\ Placed(m)
  BY <1>1 DEF LoopInv, OwnInv
<1>5. /\ claimTracker' \in Trackers /\ betTracker \in Trackers
      /\ lastPushed' \in [Market -> Price \cup {None}]
  BY <1>3, <1>4 DEF MemoryInv, Trackers
<1>6. Loop(m)' = Loop(m)
  BY DEF Loop
<1>7. CASE result = "ok"
  <2>1. Minds(m, counter'[m])
    BY <1>7 DEF CreateEnds
  <2>2. current[m] < counter'[m] /\ counter'[m] \in 0..MaxRounds /\ current[m] \in 0..MaxRounds
    BY <1>1, <1>2, <1>4, <1>7 DEF EndsWell, MarketInv, MemoryInv
  <2>3. PICK r \in RoundId : r = counter'[m]
    BY <2>2, Bounds DEF RoundId
  <2>4. current'[m] = r /\ r # 0 /\ r <= r
    BY <1>1, <1>4, <2>1, <2>3 DEF Minds, MemoryInv, RoundId
  <2>5. CASE Loop(m) = "demo"
    <3>1. AutoBet(q, m, r)
      BY <1>7, <2>3, <2>5 DEF CreateEnds
    <3>2. PICK bots \in SUBSET Bot : bots = Untried(betTracker, m, r)
      BY DEF Untried
    <3>3. /\ queue' = Chained(q, m, bots, Calls(m, "bet", r))
          /\ betTracker' = Tried(betTracker, m, r) /\ Goes(m, "betting")
      BY <3>1, <3>2 DEF AutoBet
    <3>4. betTracker' \in Trackers
      BY <1>1, <1>5, <3>3, Tracked
    <3>5. MemoryInv' /\ Elsewhere(m) /\ pc'[m] = "betting"
      BY <1>1, <1>2, <1>4, <1>5, <2>1, <2>2, <3>3, <3>4, MemoryMoves DEF Step
    <3>6. QueueInv' /\ Extends(q) /\ \A n \in Market : n # m => Placed(n)'
      BY <1>1, <1>2, <2>3, <2>4, <2>5, <3>2, <3>3, <3>5, BotsCalled
    <3>7. Placed(m)'
      BY <1>6, <2>3, <2>4, <2>5, <3>5 DEF Placed
    <3>. QED BY <3>5, <3>6, <3>7 DEF OwnInv
  <2>6. CASE Loop(m) # "demo"
    <3>1. queue' = q /\ Goes(m, "asleep") /\ UNCHANGED betTracker
      BY <1>7, <2>6 DEF CreateEnds
    <3>2. MemoryInv' /\ Elsewhere(m) /\ pc'[m] = "asleep"
      BY <1>1, <1>2, <1>4, <1>5, <2>1, <2>2, <3>1, MemoryMoves DEF Step
    <3>3. QueueInv' /\ Extends(q) /\ \A n \in Market : n # m => Placed(n)'
      BY <1>1, <1>2, <3>1, <3>2, Unchained
    <3>4. Placed(m)'
      BY <1>6, <2>3, <2>4, <3>2 DEF Placed
    <3>. QED BY <3>2, <3>3, <3>4 DEF OwnInv
  <2>. QED BY <2>5, <2>6
<1>8. CASE result # "ok"
  <2>1. PICK step \in {"recount", "asleep"} : Goes(m, step)
    BY <1>8 DEF CreateEnds
  <2>2. queue' = q /\ UNCHANGED <<current, betTracker>>
    BY <1>8 DEF CreateEnds
  <2>3. MemoryInv' /\ Elsewhere(m) /\ pc'[m] = step
    BY <1>1, <1>2, <1>4, <1>5, <2>1, <2>2, MemoryMoves DEF Step
  <2>4. QueueInv' /\ Extends(q) /\ \A n \in Market : n # m => Placed(n)'
    BY <1>1, <1>2, <2>2, <2>3, Unchained
  <2>5. /\ current'[m] <= counter'[m]
        /\ current[m] # 0 /\ ~Open(m, current[m]) => ~Open(m, current[m])'
    BY <1>1, <1>2, <2>2, StillPlaced
  <2>6. Loop(m) # "off"
    BY <1>1 DEF Process
  <2>7. current[m] # 0 => ~Open(m, current[m])
    BY <1>1, <1>4 DEF Placed
  <2>8. Placed(m)'
    BY <1>6, <2>1, <2>2, <2>3, <2>5, <2>6, <2>7 DEF Placed
  <2>. QED BY <2>3, <2>4, <2>8 DEF OwnInv
<1>. QED BY <1>7, <1>8

LEMMA SettleEndsKeeps ==
  ASSUME LoopInv, NEW l, NEW call, NEW q, Ending(l, call, q), call.do = "settle",
         NEW result, EndsWell(call, result),
         SettleEnds(q, call.market, result), UNCHANGED <<deployed, lastPushed>>
  PROVE  OwnInv' /\ Extends(q)
<1> DEFINE m == call.market
<1>1. /\ m \in Market /\ Rest(q, m) /\ pc[m] = "settling" /\ Loop(m) \in Process
      /\ call.arg = current[m]
  BY EndingCall DEF AwaitedAt
<1>2. MarketInv' /\ Grows /\ faults' \in SUBSET deployed.faults
  BY DEF EndsWell
<1>3. UNCHANGED <<current, betTracker>>
  BY DEF SettleEnds
<1>4. MemoryInv /\ Placed(m)
  BY <1>1 DEF LoopInv, OwnInv
<1>5. /\ betTracker' \in Trackers /\ claimTracker \in Trackers
      /\ lastPushed' \in [Market -> Price \cup {None}]
  BY <1>3, <1>4 DEF MemoryInv, Trackers
<1>6. /\ current[m] \in 0..MaxRounds /\ current'[m] <= counter'[m] /\ Loop(m)' = Loop(m)
      /\ current[m] # 0 => current[m] \in RoundId
  BY <1>1, <1>2, <1>3, StillPlaced
<1>7. PICK r \in RoundId : r = current[m] /\ r # 0
  BY <1>1, <1>4, <1>6 DEF Placed
<1>8. CASE ~SettledBySomebody(result)
  <2>1. queue' = q /\ Goes(m, "asleep") /\ UNCHANGED claimTracker
    BY <1>8 DEF SettleEnds
  <2>2. MemoryInv' /\ Elsewhere(m) /\ pc'[m] = "asleep"
    BY <1>1, <1>2, <1>3, <1>4, <1>5, <2>1, MemoryMoves DEF Step
  <2>3. QueueInv' /\ Extends(q) /\ \A n \in Market : n # m => Placed(n)'
    BY <1>1, <1>2, <2>1, <2>2, Unchained
  <2>4. Placed(m)'
    BY <1>1, <1>6, <2>2 DEF Placed, Process
  <2>. QED BY <2>2, <2>3, <2>4 DEF OwnInv
<1>9. CASE SettledBySomebody(result) /\ Loop(m) = "demo"
  <2>1. AutoClaim(q, m, r)
    BY <1>7, <1>9 DEF SettleEnds
  <2>2. PICK bots \in SUBSET Bot : bots = Untried(claimTracker, m, r)
    BY DEF Untried
  <2>3. /\ queue' = Chained(q, m, bots, Calls(m, "claim", r))
        /\ claimTracker' = Tried(claimTracker, m, r) /\ Goes(m, "claiming")
    BY <2>1, <2>2 DEF AutoClaim
  <2>4. claimTracker' \in Trackers
    BY <1>1, <1>5, <2>3, Tracked
  <2>5. MemoryInv' /\ Elsewhere(m) /\ pc'[m] = "claiming"
    BY <1>1, <1>2, <1>3, <1>4, <1>5, <2>3, <2>4, MemoryMoves DEF Step
  <2>6. QueueInv' /\ Extends(q) /\ \A n \in Market : n # m => Placed(n)'
    BY <1>1, <1>2, <1>3, <1>6, <1>7, <1>9, <2>2, <2>3, <2>5, BotsCalled
  <2>7. ~Open(m, current[m])'
    BY <1>1, <1>3, <1>9 DEF EndsWell, Open, Series!HasStatus
  <2>8. Placed(m)'
    BY <1>3, <1>6, <1>7, <1>9, <2>5, <2>7 DEF Placed
  <2>. QED BY <2>5, <2>6, <2>8 DEF OwnInv
<1>10. CASE SettledBySomebody(result) /\ Loop(m) # "demo"
  <2>1. Invoke(q, m, "create", None, "creating") /\ UNCHANGED claimTracker
    BY <1>10 DEF SettleEnds
  <2>2. queue' = Chained(q, m, {Admin}, Calls(m, "create", None)) /\ Goes(m, "creating")
    BY <2>1 DEF Invoke
  <2>3. MemoryInv' /\ Elsewhere(m) /\ pc'[m] = "creating"
    BY <1>1, <1>2, <1>3, <1>4, <1>5, <2>1, <2>2, MemoryMoves DEF Step
  <2>4. QueueInv' /\ Extends(q) /\ \A n \in Market : n # m => Placed(n)'
    BY <1>1, <1>2, <2>2, <2>3, AdminCalled
  <2>5. ~Open(m, current[m])'
    BY <1>1, <1>3, <1>10 DEF EndsWell, Open, Series!HasStatus
  <2>6. Placed(m)'
    BY <1>1, <1>3, <1>6, <2>3, <2>5 DEF Placed, Process
  <2>. QED BY <2>3, <2>4, <2>6 DEF OwnInv
<1>. QED BY <1>8, <1>9, <1>10

LEMMA BotEndsKeeps ==
  ASSUME LoopInv, NEW l, NEW call, NEW q, Ending(l, call, q), call.do \in {"bet", "claim"},
         NEW result, EndsWell(call, result), NEW bot,
         BotEnds(q, call, bot, result), UNCHANGED <<deployed, lastPushed>>
  PROVE  OwnInv' /\ Extends(q)
<1>1. MarketInv /\ MarketInv' /\ Grows /\ faults' \in SUBSET deployed.faults /\ MemoryInv
  BY DEF EndsWell, LoopInv, OwnInv
<1>2. queue' = q /\ UNCHANGED <<current, pc>>
      /\ betTracker' \subseteq betTracker /\ claimTracker' \subseteq claimTracker
  BY DEF BotEnds
<1>3. MemoryInv'
  BY <1>1, <1>2 DEF MemoryInv
<1>4. /\ q \in [Lane -> Seq(Call)]
      /\ \A k \in Lane : Single(q[k]) /\ Held(q[k]) \subseteq Held(queue[k])
  BY Popped DEF Ending
<1>5. \A k \in Lane : \A other \in Held(q[k]) : Proper(k, other)' /\ AwaitedAt(other)'
  <2>1. TAKE k \in Lane
  <2>2. TAKE other \in Held(q[k])
  <2>3. Proper(k, other) /\ AwaitedAt(other)
    BY <1>4, HeldCalls DEF LoopInv, OwnInv
  <2>4. Proper(k, other)'
    BY <1>1, <2>3, ProperStays
  <2>. QED BY <1>2, <2>3, <2>4 DEF AwaitedAt
<1>6. QueueInv'
  BY <1>2, <1>4, <1>5 DEF QueueInv
<1>7. ASSUME NEW m \in Market PROVE Placed(m)'
  <2>1. Placed(m) /\ pc'[m] = pc[m] /\ current'[m] = current[m]
    BY <1>2 DEF LoopInv, OwnInv
  <2>. QED BY <1>1, <2>1, PlacedStays
<1>. QED BY <1>2, <1>3, <1>6, <1>7 DEF OwnInv, Extends

LEMMA EndsKeeps ==
  ASSUME LoopInv, NEW l \in Lane, queue[l] # <<>>, NEW call, call = Head(queue[l]),
         NEW result, EndsWell(call, result), Ends(l, result)
  PROVE  /\ OwnInv'
         /\ sent' = [sent EXCEPT ![l] = FALSE]
         /\ UNCHANGED <<deployed, lastPushed>>
         /\ \A k \in Lane : k # l /\ queue[k] # <<>> =>
              queue'[k] # <<>> /\ Head(queue'[k]) = Head(queue[k])
<1>1. PICK q : q = [queue EXCEPT ![l] = Tail(@)]
  OBVIOUS
<1>2. Ending(l, call, q)
  BY <1>1 DEF Ending
<1>3. call.do \in {"push", "create", "bet", "settle", "claim"}
  BY <1>2, EndingCall
<1>4. /\ sent' = [sent EXCEPT ![l] = FALSE] /\ UNCHANGED <<deployed, lastPushed>>
      /\ call.do = "push" => PushEnds(q, call.market, result)
      /\ call.do = "create" => CreateEnds(q, call.market, result)
      /\ call.do = "settle" => SettleEnds(q, call.market, result)
      /\ call.do \in {"bet", "claim"} => BotEnds(q, call, l[2], result)
  BY <1>1, <1>3 DEF Ends
<1>5. OwnInv' /\ Extends(q)
  <2>1. CASE call.do = "push"
    BY <1>2, <1>4, <2>1, PushEndsKeeps
  <2>2. CASE call.do = "create"
    BY <1>2, <1>4, <2>2, CreateEndsKeeps
  <2>3. CASE call.do = "settle"
    BY <1>2, <1>4, <2>3, SettleEndsKeeps
  <2>4. CASE call.do \in {"bet", "claim"}
    BY <1>2, <1>4, <2>4, BotEndsKeeps
  <2>. QED BY <1>3, <2>1, <2>2, <2>3, <2>4
<1>6. \A k \in Lane : k # l => q[k] = queue[k]
  BY <1>1, Popped
<1>. QED BY <1>4, <1>5, <1>6 DEF Extends

LEMMA InflightAfter ==
  ASSUME LoopInv, MarketInv', Grows, UNCHANGED deployed, NEW l \in Lane,
         sent' = [sent EXCEPT ![l] = FALSE],
         \A k \in Lane : k # l /\ queue[k] # <<>> =>
           queue'[k] # <<>> /\ Head(queue'[k]) = Head(queue[k]),
         \A tx \in inflight' :
           /\ tx \in Tx
           /\ \E old \in inflight :
                /\ tx.lane = old.lane /\ tx.call = old.call
                /\ tx.awaited => old.awaited /\ tx.lane # l
  PROVE  InflightInv'
<1>1. /\ sent \in [Lane -> BOOLEAN]
      /\ \A k \in Lane : sent[k] => queue[k] # <<>>
      /\ \A tx \in inflight : tx.lane \in Lane /\ (tx.awaited => sent[tx.lane])
  BY DEF LoopInv, InflightInv, Tx
<1>2. sent' \in [Lane -> BOOLEAN] /\ ~sent'[l] /\ \A k \in Lane : k # l => sent'[k] = sent[k]
  BY <1>1
<1>3. \A k \in Lane : sent'[k] =>
        sent[k] /\ queue'[k] # <<>> /\ Head(queue'[k]) = Head(queue[k])
  BY <1>1, <1>2
<1>4. \A tx \in inflight' :
        /\ tx \in Tx
        /\ \E old \in inflight :
             /\ tx.lane = old.lane /\ tx.call = old.call
             /\ tx.awaited => old.awaited /\ sent'[tx.lane]
  BY <1>1, <1>2
<1>. QED BY <1>2, <1>3, <1>4, InflightStays

-----------------------------------------------------------------------------
(* One pass of a loop *)

\* What the steps of a pass leave alone.
Passing == UNCHANGED <<markets, deployed, sent, inflight>> /\ faults' \in SUBSET deployed.faults

LEMMA FaultyKept ==
  ASSUME MemoryInv, NEW kind, Faulty(kind)
  PROVE  faults' \in SUBSET deployed.faults /\ kind \in faults' /\ faults \subseteq faults'
BY DEF MemoryInv, Faulty

LEMMA PassingMarkets ==
  ASSUME LoopInv, Passing
  PROVE  /\ MarketInv' /\ Grows /\ UNCHANGED deployed
         /\ faults' \in SUBSET deployed.faults /\ MemoryInv
         /\ UNCHANGED <<sent, inflight>>
         /\ UNCHANGED markets
BY SameMarkets DEF LoopInv, OwnInv, Passing

\* A step of one loop keeps the invariant if the loop comes to a place of its own.
LEMMA PassKeeps ==
  ASSUME LoopInv, NEW m \in Market, Passing, MemoryInv', Placed(m)',
         QueueInv', Extends(queue), \A n \in Market : n # m => Placed(n)'
  PROVE  LoopInv'
BY PassingMarkets, InflightSame DEF LoopInv, OwnInv

LEMMA RestsKeeps ==
  ASSUME LoopInv, NEW m \in Market, Passing, UNCHANGED queue, Rest(queue, m),
         MemoryInv', Elsewhere(m), Placed(m)'
  PROVE  LoopInv'
<1>1. /\ MarketInv' /\ Grows /\ UNCHANGED deployed
  BY PassingMarkets
<1>2. QueueInv' /\ Extends(queue) /\ \A n \in Market : n # m => Placed(n)'
  BY <1>1, Unchained
<1>. QED BY <1>2, PassKeeps

LEMMA MemoryStays ==
  ASSUME MemoryInv, NEW m \in Market, NEW step \in Step, Goes(m, step), Passing,
         UNCHANGED <<lastPushed, betTracker, claimTracker>>,
         \/ UNCHANGED current
         \/ \E r \in 0..MaxRounds : Minds(m, r)
  PROVE  MemoryInv' /\ Elsewhere(m) /\ pc'[m] = step
<1>1. /\ lastPushed' \in [Market -> Price \cup {None}]
      /\ betTracker' \in Trackers /\ claimTracker' \in Trackers
  BY DEF MemoryInv, Trackers
<1>. QED BY <1>1, MemoryMoves DEF Passing

LEMMA WakeKeeps ==
  ASSUME LoopInv, NEW m \in Market, Wake(m)
  PROVE  LoopInv'
<1>1. /\ Loop(m) # "off" /\ pc[m] = "asleep" /\ Goes(m, "look")
      /\ Minds(m, IF current[m] = 0 THEN counter[m] ELSE current[m])
      /\ UNCHANGED <<markets, deployed, lastPushed, betTracker, claimTracker, calls, faults>>
  BY DEF Wake
<1>2. Passing /\ MemoryInv /\ UNCHANGED queue
  BY <1>1 DEF Passing, LoopInv, OwnInv, MemoryInv, calls
<1>3. PICK r \in 0..MaxRounds : Minds(m, r) /\ r <= counter[m]
  <2>1. /\ current[m] \in 0..MaxRounds /\ counter[m] \in 0..MaxRounds
        /\ current[m] <= counter[m] /\ counter[m] <= counter[m]
    BY Bounds DEF LoopInv, OwnInv, MarketInv, MemoryInv, Placed
  <2>. QED BY <1>1, <2>1
<1>4. MemoryInv' /\ Elsewhere(m) /\ pc'[m] = "look"
  BY <1>1, <1>2, <1>3, MemoryStays DEF Step
<1>5. current'[m] = r /\ counter'[m] = counter[m] /\ Loop(m)' = Loop(m)
  BY <1>1, <1>2, <1>3 DEF Minds, MemoryInv, markets, Loop
<1>6. Placed(m)'
  BY <1>1, <1>3, <1>4, <1>5 DEF Placed
<1>. QED BY <1>1, <1>2, <1>4, <1>6, Idle, RestsKeeps

LEMMA WakeBlindKeeps ==
  ASSUME LoopInv, NEW m \in Market, WakeBlind(m)
  PROVE  LoopInv'
<1>1. /\ Loop(m) # "off" /\ pc[m] = "asleep" /\ Goes(m, "look") /\ Faulty("query")
      /\ UNCHANGED <<markets, deployed, current, lastPushed, betTracker, claimTracker, calls>>
  BY DEF WakeBlind
<1>2. Passing /\ MemoryInv /\ UNCHANGED queue
  BY <1>1, FaultyKept DEF Passing, LoopInv, OwnInv, calls
<1>3. MemoryInv' /\ Elsewhere(m) /\ pc'[m] = "look"
  BY <1>1, <1>2, MemoryStays DEF Step
<1>4. /\ current'[m] <= counter'[m] /\ Loop(m)' = Loop(m)
  BY <1>1, PassingMarkets, <1>2, StillPlaced
<1>5. Placed(m)'
  BY <1>1, <1>3, <1>4 DEF Placed
<1>. QED BY <1>1, <1>2, <1>3, <1>5, Idle, RestsKeeps

LEMMA MissingRoundKeeps ==
  ASSUME LoopInv, NEW m \in Market, Passing, pc[m] = "look", Loop(m) # "off",
         MissingRound(m) \/ (Goes(m, "asleep") /\ UNCHANGED <<current, queue>>),
         UNCHANGED <<lastPushed, betTracker, claimTracker>>
  PROVE  LoopInv'
<1>1. MemoryInv /\ MarketInv' /\ Grows /\ UNCHANGED deployed
  BY PassingMarkets
<1>2. UNCHANGED queue /\ Loop(m)' = Loop(m)
  BY <1>1 DEF MissingRound, Loop
<1>3. CASE Loop(m) = "demo" /\ Minds(m, 0) /\ Goes(m, "open")
  <2>1. MemoryInv' /\ Elsewhere(m) /\ pc'[m] = "open" /\ current'[m] = 0
    <3>1. 0 \in 0..MaxRounds /\ current'[m] = 0
      BY <1>1, <1>3, Bounds DEF MemoryInv, Minds
    <3>. QED BY <1>1, <1>3, <3>1, MemoryStays DEF Step
  <2>2. Placed(m)'
    <3>1. 0 <= counter'[m]
      BY <1>1 DEF MarketInv
    <3>. QED BY <1>2, <1>3, <2>1, <3>1 DEF Placed
  <2>. QED BY <1>2, <2>1, <2>2, Idle, RestsKeeps
<1>4. CASE Goes(m, "asleep") /\ UNCHANGED current
  <2>1. MemoryInv' /\ Elsewhere(m) /\ pc'[m] = "asleep"
    BY <1>1, <1>4, MemoryStays DEF Step
  <2>2. current'[m] <= counter'[m]
    BY <1>1, <1>4, StillPlaced
  <2>3. Placed(m)'
    BY <1>2, <2>1, <2>2 DEF Placed
  <2>. QED BY <1>2, <2>1, <2>3, Idle, RestsKeeps
<1>. QED BY <1>3, <1>4 DEF MissingRound

LEMMA CreatesKeeps ==
  ASSUME LoopInv, NEW m \in Market, Passing, Rest(queue, m), Loop(m) = "xlm",
         Invoke(queue, m, "create", None, "creating"),
         UNCHANGED <<current, lastPushed, betTracker, claimTracker>>,
         current[m] # 0 => ~Open(m, current[m])
  PROVE  LoopInv'
<1>1. MemoryInv /\ MarketInv' /\ Grows /\ UNCHANGED deployed
  BY PassingMarkets
<1>2. queue' = Chained(queue, m, {Admin}, Calls(m, "create", None)) /\ Goes(m, "creating")
  BY DEF Invoke
<1>3. MemoryInv' /\ Elsewhere(m) /\ pc'[m] = "creating"
  BY <1>1, <1>2, MemoryStays DEF Step
<1>4. QueueInv' /\ Extends(queue) /\ \A n \in Market : n # m => Placed(n)'
  BY <1>1, <1>2, <1>3, AdminCalled
<1>5. /\ current'[m] <= counter'[m] /\ Loop(m)' = Loop(m)
      /\ current[m] # 0 /\ ~Open(m, current[m]) => ~Open(m, current[m])'
  BY <1>1, StillPlaced
<1>6. Placed(m)'
  BY <1>3, <1>5 DEF Placed
<1>. QED BY <1>3, <1>4, <1>6, PassKeeps

LEMMA StepsKeeps ==
  ASSUME LoopInv, NEW m \in Market, Passing, Rest(queue, m), UNCHANGED queue,
         NEW step \in {"asleep", "open", "close"}, Goes(m, step), Loop(m) # "off",
         step = "asleep" \/ Loop(m) = "demo",
         step = "close" => current[m] # 0,
         step = "open" /\ current[m] # 0 => ~Open(m, current[m]),
         UNCHANGED <<current, lastPushed, betTracker, claimTracker>>
  PROVE  LoopInv'
<1>1. MemoryInv /\ MarketInv' /\ Grows /\ UNCHANGED deployed
  BY PassingMarkets
<1>2. MemoryInv' /\ Elsewhere(m) /\ pc'[m] = step
  BY <1>1, MemoryStays DEF Step
<1>3. /\ current'[m] <= counter'[m] /\ Loop(m)' = Loop(m)
      /\ current[m] # 0 /\ ~Open(m, current[m]) => ~Open(m, current[m])'
  BY <1>1, StillPlaced
<1>4. Placed(m)'
  BY <1>2, <1>3 DEF Placed
<1>. QED BY <1>2, <1>4, RestsKeeps

LEMMA AutoBetKeeps ==
  ASSUME LoopInv, NEW m \in Market, Passing, Rest(queue, m), Loop(m) = "demo",
         NEW r \in RoundId, r <= counter[m], AutoBet(queue, m, r),
         Minds(m, r) \/ (UNCHANGED current /\ r = current[m]),
         UNCHANGED <<lastPushed, claimTracker>>
  PROVE  LoopInv'
<1>1. MemoryInv /\ MarketInv' /\ Grows /\ UNCHANGED deployed
  BY PassingMarkets
<1>2. PICK bots \in SUBSET Bot : bots = Untried(betTracker, m, r)
  BY DEF Untried
<1>3. /\ queue' = Chained(queue, m, bots, Calls(m, "bet", r))
      /\ betTracker' = Tried(betTracker, m, r) /\ Goes(m, "betting")
  BY <1>2 DEF AutoBet
<1>4. /\ betTracker' \in Trackers /\ claimTracker' \in Trackers
      /\ lastPushed' \in [Market -> Price \cup {None}]
      /\ faults' \in SUBSET deployed.faults
  BY <1>1, <1>3, Tracked DEF MemoryInv, Trackers, Passing
<1>5. r \in 0..MaxRounds /\ r # 0
  BY DEF RoundId
<1>6. MemoryInv' /\ Elsewhere(m) /\ pc'[m] = "betting"
  BY <1>1, <1>3, <1>4, <1>5, MemoryMoves DEF Step
<1>7. current'[m] = r /\ counter'[m] = counter[m] /\ Loop(m)' = Loop(m)
  BY <1>1 DEF Minds, MemoryInv, Passing, markets, Loop
<1>8. QueueInv' /\ Extends(queue) /\ \A n \in Market : n # m => Placed(n)'
  BY <1>1, <1>2, <1>3, <1>6, <1>7, BotsCalled
<1>9. Placed(m)'
  BY <1>5, <1>6, <1>7 DEF Placed
<1>. QED BY <1>6, <1>8, <1>9, PassKeeps

LEMMA AutoClaimKeeps ==
  ASSUME LoopInv, NEW m \in Market, Passing, Rest(queue, m), Loop(m) = "demo",
         NEW r \in RoundId, r = current[m], AutoClaim(queue, m, r), ~Open(m, r),
         UNCHANGED <<current, lastPushed, betTracker>>
  PROVE  LoopInv'
<1>1. MemoryInv /\ MarketInv' /\ Grows /\ UNCHANGED deployed
  BY PassingMarkets
<1>2. PICK bots \in SUBSET Bot : bots = Untried(claimTracker, m, r)
  BY DEF Untried
<1>3. /\ queue' = Chained(queue, m, bots, Calls(m, "claim", r))
      /\ claimTracker' = Tried(claimTracker, m, r) /\ Goes(m, "claiming")
  BY <1>2 DEF AutoClaim
<1>4. /\ betTracker' \in Trackers /\ claimTracker' \in Trackers
      /\ lastPushed' \in [Market -> Price \cup {None}]
      /\ faults' \in SUBSET deployed.faults
  BY <1>1, <1>3, Tracked DEF MemoryInv, Trackers, Passing
<1>5. r \in 0..MaxRounds /\ r # 0
  BY DEF RoundId
<1>6. MemoryInv' /\ Elsewhere(m) /\ pc'[m] = "claiming"
  BY <1>1, <1>3, <1>4, MemoryMoves DEF Step
<1>7. /\ current'[m] <= counter'[m] /\ Loop(m)' = Loop(m)
      /\ current[m] # 0 /\ ~Open(m, current[m]) => ~Open(m, current[m])'
  BY <1>1, StillPlaced
<1>8. QueueInv' /\ Extends(queue) /\ \A n \in Market : n # m => Placed(n)'
  BY <1>1, <1>2, <1>3, <1>6, <1>7, BotsCalled
<1>9. Placed(m)'
  BY <1>5, <1>6, <1>7 DEF Placed
<1>. QED BY <1>6, <1>8, <1>9, PassKeeps

LEMMA LooksKeeps ==
  ASSUME LoopInv, NEW m \in Market, NEW clock, Looks(m, clock),
         faults' \in SUBSET deployed.faults
  PROVE  LoopInv'
<1>1. PICK round : round = rounds[m][current[m]]
  OBVIOUS
<1>2. /\ pc[m] = "look"
      /\ UNCHANGED <<markets, deployed, lastPushed, sent, inflight>>
  BY DEF Looks
<1>3. Passing /\ Rest(queue, m) /\ MemoryInv /\ Placed(m)
  BY <1>2, Idle DEF Passing, LoopInv, OwnInv
<1>4. Loop(m) = "demo" \/ Loop(m) = "xlm"
  BY <1>2, <1>3, Deployed DEF Placed, MemoryInv, Process
<1>5. CASE current[m] = 0
  <2>1. NoRound(m) /\ UNCHANGED <<current, betTracker, claimTracker>>
    BY <1>5 DEF Looks
  <2>2. CASE Loop(m) = "demo"
    BY <1>2, <1>3, <1>5, <2>1, <2>2, StepsKeeps DEF NoRound
  <2>3. CASE Loop(m) = "xlm"
    BY <1>2, <1>3, <1>5, <2>1, <2>3, CreatesKeeps DEF NoRound
  <2>. QED BY <1>4, <2>2, <2>3
<1>6. CASE current[m] # 0 /\ round = None
  <2>1. MissingRound(m) /\ UNCHANGED <<betTracker, claimTracker>>
    BY <1>1, <1>6 DEF Looks
  <2>. QED BY <1>2, <1>3, <1>4, <2>1, MissingRoundKeeps
<1>7. CASE current[m] # 0 /\ round # None
  <2>1. PICK r \in RoundId : r = current[m] /\ r <= counter[m]
    BY <1>3, <1>7, Bounds DEF MemoryInv, Placed, RoundId
  <2>2. Status(round) = "Settled" => ~Open(m, r)
    BY <1>1, <2>1 DEF Status, Open, Series!HasStatus
  <2>3. UNCHANGED current
    BY <1>1, <1>7 DEF Looks
  <2>4. CASE Loop(m) = "demo"
    <3>1. DemoLooks(m, round, clock)
      BY <1>1, <1>7, <2>4 DEF Looks
    <3>2. \/ AutoBet(queue, m, r) /\ UNCHANGED claimTracker
          \/ Goes(m, "close") /\ UNCHANGED <<queue, claimTracker, betTracker>>
          \/ Status(round) = "Settled" /\ AutoClaim(queue, m, r) /\ UNCHANGED betTracker
          \/ Goes(m, "asleep") /\ UNCHANGED <<queue, claimTracker, betTracker>>
      BY <2>1, <3>1 DEF DemoLooks
    <3>3. CASE AutoBet(queue, m, r) /\ UNCHANGED claimTracker
      BY <1>2, <1>3, <2>1, <2>3, <2>4, <3>3, AutoBetKeeps
    <3>4. CASE Goes(m, "close") /\ UNCHANGED <<queue, claimTracker, betTracker>>
      BY <1>2, <1>3, <1>7, <2>3, <2>4, <3>4, StepsKeeps
    <3>5. CASE Status(round) = "Settled" /\ AutoClaim(queue, m, r) /\ UNCHANGED betTracker
      BY <1>2, <1>3, <2>1, <2>2, <2>3, <2>4, <3>5, AutoClaimKeeps
    <3>6. CASE Goes(m, "asleep") /\ UNCHANGED <<queue, claimTracker, betTracker>>
      BY <1>2, <1>3, <2>3, <2>4, <3>6, StepsKeeps
    <3>. QED BY <3>2, <3>3, <3>4, <3>5, <3>6
  <2>5. CASE Loop(m) = "xlm"
    <3>1. XlmLooks(m, round, clock)
      BY <1>1, <1>7, <2>5 DEF Looks
    <3>2. UNCHANGED <<betTracker, claimTracker>>
      BY <3>1 DEF XlmLooks
    <3>3. \/ Status(round) = "Settled" /\ Invoke(queue, m, "create", None, "creating")
          \/ Invoke(queue, m, "settle", r, "settling")
          \/ Goes(m, "asleep") /\ UNCHANGED queue
      BY <2>1, <3>1 DEF XlmLooks
    <3>4. CASE Status(round) = "Settled" /\ Invoke(queue, m, "create", None, "creating")
      BY <1>2, <1>3, <2>1, <2>2, <2>3, <2>5, <3>2, <3>4, CreatesKeeps
    <3>5. CASE Invoke(queue, m, "settle", r, "settling")
      <4>1. MarketInv' /\ Grows /\ UNCHANGED deployed /\ counter'[m] = counter[m]
        BY <1>3, PassingMarkets DEF markets
      <4>2. queue' = Chained(queue, m, {Admin}, Calls(m, "settle", r)) /\ Goes(m, "settling")
        BY <3>5 DEF Invoke
      <4>3. MemoryInv' /\ Elsewhere(m) /\ pc'[m] = "settling"
        BY <1>2, <1>3, <2>3, <3>2, <4>2, MemoryStays DEF Step
      <4>4. QueueInv' /\ Extends(queue) /\ \A n \in Market : n # m => Placed(n)'
        BY <1>3, <2>1, <2>3, <4>1, <4>2, <4>3, AdminCalled
      <4>5. Placed(m)'
        BY <1>7, <2>1, <2>3, <2>5, <4>1, <4>3 DEF Placed, Loop
      <4>. QED BY <1>3, <4>3, <4>4, <4>5, PassKeeps
    <3>6. CASE Goes(m, "asleep") /\ UNCHANGED queue
      BY <1>2, <1>3, <2>3, <2>5, <3>2, <3>6, StepsKeeps
    <3>. QED BY <3>3, <3>4, <3>5, <3>6
  <2>. QED BY <1>4, <2>4, <2>5
<1>. QED BY <1>5, <1>6, <1>7

LEMMA MisreadsKeeps ==
  ASSUME LoopInv, NEW m \in Market, Misreads(m)
  PROVE  LoopInv'
<1>1. /\ pc[m] = "look" /\ Faulty("query")
      /\ MissingRound(m) \/ (Goes(m, "asleep") /\ UNCHANGED <<current, queue>>)
      /\ UNCHANGED <<markets, deployed, lastPushed, betTracker, claimTracker, sent, inflight>>
  BY DEF Misreads
<1>2. Passing
  BY <1>1, FaultyKept DEF Passing, LoopInv, OwnInv
<1>3. Loop(m) # "off"
  BY <1>1 DEF LoopInv, OwnInv, Placed
<1>. QED BY <1>1, <1>2, <1>3, MissingRoundKeeps

LEMMA QuotePrice ==
  ASSUME NEW m \in Market, NEW spot \in Spot
  PROVE  Quote(m, spot) \in Price /\ Quote(m, spot) # lastPushed[m]
BY Prices DEF Quote

LEMMA PushPriceKeeps ==
  ASSUME LoopInv, NEW m \in Market, PushPrice(m)
  PROVE  LoopInv'
<1>1. PICK spot \in deployed.spots :
        /\ lastPushed' = [lastPushed EXCEPT ![m] = Quote(m, spot)]
        /\ Invoke(queue, m, "push", Quote(m, spot),
                  IF pc[m] = "open" THEN "opening" ELSE "closing")
  BY DEF PushPrice
<1>2. /\ pc[m] \in {"open", "close"}
      /\ UNCHANGED <<markets, deployed, current, betTracker, claimTracker, sent, inflight, faults>>
  BY DEF PushPrice
<1>3. Passing /\ Rest(queue, m) /\ MemoryInv /\ Placed(m)
  BY <1>2, Idle DEF Passing, LoopInv, OwnInv, MemoryInv
<1>4. MarketInv' /\ Grows /\ UNCHANGED deployed
  BY <1>3, PassingMarkets
<1>5. Quote(m, spot) \in Price
  BY <1>3, Deployed, QuotePrice DEF MemoryInv
<1>6. PICK price \in Price : price = Quote(m, spot)
  BY <1>5
<1>7. PICK step \in {"opening", "closing"} :
        /\ step = IF pc[m] = "open" THEN "opening" ELSE "closing"
        /\ queue' = Chained(queue, m, {Admin}, Calls(m, "push", price))
        /\ Goes(m, step)
  BY <1>1, <1>2, <1>6 DEF Invoke
<1>8. /\ lastPushed' \in [Market -> Price \cup {None}]
      /\ betTracker' \in Trackers /\ claimTracker' \in Trackers
      /\ faults' \in SUBSET deployed.faults
  BY <1>1, <1>2, <1>3, <1>5 DEF MemoryInv, Trackers
<1>9. MemoryInv' /\ Elsewhere(m) /\ pc'[m] = step
  BY <1>2, <1>3, <1>7, <1>8, MemoryMoves DEF Step
<1>10. QueueInv' /\ Extends(queue) /\ \A n \in Market : n # m => Placed(n)'
  BY <1>3, <1>4, <1>7, <1>9, AdminCalled
<1>11. /\ current'[m] <= counter'[m] /\ Loop(m)' = Loop(m)
       /\ current[m] # 0 /\ ~Open(m, current[m]) => ~Open(m, current[m])'
  BY <1>2, <1>4, StillPlaced
<1>12. Placed(m)'
  BY <1>2, <1>3, <1>7, <1>9, <1>11 DEF Placed
<1>. QED BY <1>3, <1>9, <1>10, <1>12, PassKeeps

LEMMA BotsDoneKeeps ==
  ASSUME LoopInv, NEW m \in Market, BotsDone(m)
  PROVE  LoopInv' /\ Rest(queue, m)
<1>1. /\ \/ pc[m] = "betting" /\ ~Pending(m, "bet") /\ Goes(m, "asleep")
         \/ pc[m] = "claiming" /\ ~Pending(m, "claim") /\ Goes(m, "open")
      /\ UNCHANGED <<markets, deployed, current, lastPushed, betTracker, claimTracker, calls,
                     faults>>
  BY DEF BotsDone
<1>2. Passing /\ MemoryInv /\ Placed(m) /\ UNCHANGED queue
  BY <1>1 DEF Passing, LoopInv, OwnInv, MemoryInv, calls
<1>3. ASSUME NEW l \in Lane, NEW call \in Held(queue[l]), call.market = m
      PROVE  FALSE
  <2>1. call.do = IF pc[m] = "betting" THEN "bet" ELSE "claim"
    BY <1>1, <1>3, HeldCalls DEF LoopInv, OwnInv, AwaitedAt
  <2>2. PICK i \in DOMAIN queue[l] : call = queue[l][i]
    BY <1>3 DEF Held
  <2>. QED BY <1>1, <1>3, <2>1, <2>2 DEF Pending
<1>4. Rest(queue, m)
  BY <1>3 DEF Rest, LoopInv, OwnInv, QueueInv
<1>5. Loop(m) = "demo"
  BY <1>1, <1>2, Deployed DEF Placed, MemoryInv, Process
<1>. QED BY <1>1, <1>2, <1>4, <1>5, StepsKeeps DEF Placed

LEMMA RecountKeeps ==
  ASSUME LoopInv, NEW m \in Market, Recount(m)
  PROVE  LoopInv'
<1>1. /\ pc[m] = "recount"
      /\ UNCHANGED <<markets, deployed, lastPushed, claimTracker, sent, inflight, faults>>
  BY DEF Recount
<1>2. Passing /\ Rest(queue, m) /\ MemoryInv /\ Placed(m)
  BY <1>1, Idle DEF Passing, LoopInv, OwnInv, MemoryInv
<1>3. counter[m] \in 0..MaxRounds /\ counter[m] <= counter[m] /\ current[m] \in 0..MaxRounds
  BY <1>2, Bounds DEF LoopInv, MarketInv, MemoryInv
<1>4. CASE Minds(m, counter[m]) /\ Goes(m, "asleep") /\ UNCHANGED <<queue, betTracker>>
  <2>1. MemoryInv' /\ Elsewhere(m) /\ pc'[m] = "asleep"
    BY <1>1, <1>2, <1>3, <1>4, MemoryStays DEF Step
  <2>2. current'[m] = counter[m] /\ counter'[m] = counter[m] /\ Loop(m)' = Loop(m)
    BY <1>1, <1>2, <1>4 DEF Minds, MemoryInv, markets, Loop
  <2>3. Placed(m)'
    BY <1>3, <2>1, <2>2 DEF Placed
  <2>. QED BY <1>2, <1>4, <2>1, <2>3, RestsKeeps
<1>5. CASE Goes(m, "asleep") /\ UNCHANGED <<queue, current, betTracker>>
  <2>1. Loop(m) # "off"
    BY <1>1, <1>2 DEF Placed
  <2>. QED BY <1>1, <1>2, <1>5, <2>1, StepsKeeps
<1>6. CASE /\ Loop(m) # "xlm" /\ counter[m] > current[m]
           /\ Minds(m, counter[m]) /\ AutoBet(queue, m, counter[m])
  <2>1. Loop(m) = "demo"
    BY <1>1, <1>2, <1>6, Deployed DEF Placed, MemoryInv, Process
  <2>2. counter[m] \in RoundId
    BY <1>3, <1>6, Bounds DEF RoundId
  <2>. QED BY <1>1, <1>2, <1>3, <1>6, <2>1, <2>2, AutoBetKeeps
<1>. QED BY <1>4, <1>5, <1>6 DEF Recount

LEMMA RecountFailsKeeps ==
  ASSUME LoopInv, NEW m \in Market, RecountFails(m)
  PROVE  LoopInv'
<1>1. /\ pc[m] = "recount" /\ Faulty("query") /\ Goes(m, "asleep")
      /\ UNCHANGED <<markets, deployed, current, lastPushed, betTracker, claimTracker, calls>>
  BY DEF RecountFails
<1>2. Passing /\ Rest(queue, m) /\ MemoryInv /\ Placed(m) /\ UNCHANGED queue
  BY <1>1, Idle, FaultyKept DEF Passing, LoopInv, OwnInv, calls
<1>3. Loop(m) # "off"
  BY <1>1, <1>2 DEF Placed
<1>. QED BY <1>1, <1>2, <1>3, StepsKeeps


-----------------------------------------------------------------------------
(* invokeUnlocked and the network *)

LEMMA OwnStays ==
  ASSUME LoopInv, MarketInv', Grows, UNCHANGED <<deployed, memory, queue>>,
         faults' \in SUBSET deployed.faults
  PROVE  OwnInv'
<1>1. /\ MarketInv /\ MemoryInv /\ UNCHANGED <<deployed, queue, current, pc>>
      /\ UNCHANGED <<lastPushed, betTracker, claimTracker>>
  BY DEF LoopInv, OwnInv, memory
<1>2. MemoryInv'
  BY <1>1 DEF MemoryInv
<1>3. \A l \in Lane : \A call \in Held(queue[l]) : Proper(l, call)' /\ AwaitedAt(call)'
  <2>1. TAKE l \in Lane
  <2>2. TAKE call \in Held(queue[l])
  <2>3. Proper(l, call) /\ AwaitedAt(call)
    BY HeldCalls DEF LoopInv, OwnInv
  <2>4. Proper(l, call)'
    BY <1>1, <2>3, ProperStays
  <2>. QED BY <1>1, <2>3, <2>4 DEF AwaitedAt
<1>4. QueueInv'
  BY <1>1, <1>3 DEF QueueInv, LoopInv, OwnInv
<1>5. ASSUME NEW m \in Market PROVE Placed(m)'
  BY <1>1, PlacedStays DEF LoopInv, OwnInv
<1>. QED BY <1>2, <1>4, <1>5 DEF OwnInv

\* A transaction that is included changes the market of its call.
LEMMA AppliesMoves ==
  ASSUME LoopInv, NEW l \in Lane, NEW call, Proper(l, call), Applies(call, l[2])
  PROVE  /\ MarketInv' /\ Grows
         /\ call.do = "create" => counter'[call.market] = counter[call.market] + 1
         /\ call.do = "settle" => ~Open(call.market, call.arg)'
<1> DEFINE m == call.market
<1>1. /\ m \in Market /\ call.do \in {"push", "create", "bet", "settle", "claim"} /\ MarketInv
      /\ call.do = "push" => call.arg \in Price
      /\ call.do \in {"bet", "settle", "claim"} => call.arg \in RoundId
      /\ call.do \in {"bet", "claim"} => l[2] \in Bot
  BY DEF Proper, Call, LoopInv
<1>2. CASE call.do = "push"
  <2>1. Series!Push(m, call.arg)
    BY <1>2 DEF Applies
  <2>. QED BY <1>1, <1>2, <2>1, PushMoves
<1>3. CASE call.do = "create"
  <2>1. Series!Create(m, LockOffset, OracleInterval)
    BY <1>3 DEF Applies
  <2>. QED BY <1>1, <1>3, <2>1, CreateMoves
<1>4. CASE call.do = "bet"
  <2>1. Series!Bet(m, call.arg, l[2], SideOf[l[2]])
    BY <1>4 DEF Applies
  <2>. QED BY <1>1, <1>4, <2>1, BetMoves
<1>5. CASE call.do = "settle"
  <2>1. Series!SettleRound(m, call.arg)
    BY <1>5 DEF Applies
  <2>. QED BY <1>1, <1>5, <2>1, SettleMoves
<1>6. CASE call.do = "claim"
  <2>1. Series!Claim(m, call.arg, l[2])
    BY <1>6 DEF Applies
  <2>. QED BY <1>1, <1>6, <2>1, ClaimMoves
<1>. QED BY <1>1, <1>2, <1>3, <1>4, <1>5, <1>6

LEMMA RefusedWell ==
  ASSUME LoopInv, MarketInv', Grows, UNCHANGED markets, faults' \in SUBSET deployed.faults,
         NEW call, NEW result, result = "error" \/ result = Refusal(call)
  PROVE  EndsWell(call, result)
<1>1. result # "ok"
  BY DEF Refusal
<1>2. ASSUME call.do = "settle", SettledBySomebody(result)
      PROVE  ~Open(call.market, call.arg)'
  <2>1. Series!HasStatus(call.market, call.arg, "Settled")
    BY <1>2 DEF SettledBySomebody, Refusal
  <2>. QED BY <2>1 DEF Open, Series!HasStatus, markets
<1>. QED BY <1>1, <1>2 DEF EndsWell

\* A call ends without the markets moving: refused, not sent, given up or failed.
FailsKeeps ==
  \A l \in Lane, result \in {"error", "done"} :
    /\ queue[l] # <<>> /\ UNCHANGED markets /\ faults' \in SUBSET deployed.faults
    /\ result = "error" \/ result = Refusal(Head(queue[l]))
    /\ Ends(l, result)
    /\ \A tx \in inflight' : /\ tx \in Tx
                            /\ \E old \in inflight :
                                 /\ tx.lane = old.lane /\ tx.call = old.call
                                 /\ tx.awaited => old.awaited /\ tx.lane # l
    => LoopInv'

LEMMA FailedCall ==
  ASSUME LoopInv
  PROVE  FailsKeeps
<1> SUFFICES ASSUME NEW l \in Lane, NEW result \in {"error", "done"},
                    queue[l] # <<>>, UNCHANGED markets, faults' \in SUBSET deployed.faults,
                    result = "error" \/ result = Refusal(Head(queue[l])),
                    Ends(l, result),
                    \A tx \in inflight' :
                      /\ tx \in Tx
                      /\ \E old \in inflight :
                           /\ tx.lane = old.lane /\ tx.call = old.call
                           /\ tx.awaited => old.awaited /\ tx.lane # l
             PROVE  LoopInv'
  BY DEF FailsKeeps
<1>1. PICK call : call = Head(queue[l])
  OBVIOUS
<1>2. MarketInv' /\ Grows
  BY SameMarkets DEF LoopInv
<1>3. EndsWell(call, result)
  BY <1>1, <1>2, RefusedWell
<1>4. /\ OwnInv' /\ sent' = [sent EXCEPT ![l] = FALSE] /\ UNCHANGED deployed
      /\ \A k \in Lane : k # l /\ queue[k] # <<>> =>
           queue'[k] # <<>> /\ Head(queue'[k]) = Head(queue[k])
  BY <1>1, <1>3, EndsKeeps
<1>5. InflightInv'
  BY <1>2, <1>4, InflightAfter
<1>. QED BY <1>2, <1>4, <1>5 DEF LoopInv

LEMMA AwaitedFacts ==
  ASSUME LoopInv, NEW l \in Lane
  PROVE  /\ sent[l] => queue[l] # <<>>
         /\ Awaited(l) # {} => sent[l] /\ queue[l] # <<>>
         /\ \A tx \in Awaited(l) : tx \in inflight /\ tx.lane = l /\ tx.awaited
                                   /\ tx = [lane |-> l, call |-> Head(queue[l]), awaited |-> TRUE]
         /\ \A tx \in inflight : tx \in Tx
         /\ \A tx \in inflight : tx.awaited /\ tx.lane = l => tx \in Awaited(l)
BY DEF LoopInv, InflightInv, Awaited, Tx

LEMMA SubmitKeeps ==
  ASSUME LoopInv, NEW l \in Lane, Submit(l)
  PROVE  LoopInv'
<1>1. queue[l] # <<>> /\ ~sent[l] /\ UNCHANGED <<markets, faults>>
  BY DEF Submit
<1>2. PICK call : call = Head(queue[l])
  OBVIOUS
<1>3. faults' \in SUBSET deployed.faults /\ MarketInv' /\ Grows
  BY <1>1, SameMarkets DEF LoopInv, OwnInv, MemoryInv
<1>4. Awaited(l) = {} /\ \A tx \in inflight : tx \in Tx
  BY <1>1, AwaitedFacts
<1>5. CASE ~Accepted(call, l[2])
  <2>1. Ends(l, Refusal(call)) /\ UNCHANGED inflight
    BY <1>2, <1>5 DEF Submit
  <2>2. Refusal(call) \in {"error", "done"}
    BY DEF Refusal
  <2>3. \A tx \in inflight : tx.awaited => tx.lane # l
    BY <1>4 DEF Awaited
  <2>. QED BY <1>1, <1>2, <1>3, <1>4, <2>1, <2>2, <2>3, FailedCall DEF FailsKeeps
<1>6. CASE Accepted(call, l[2])
  <2>1. PICK new : new = [lane |-> l, call |-> call, awaited |-> TRUE]
    OBVIOUS
  <2>2. /\ inflight' = inflight \cup {new}
        /\ sent' = [sent EXCEPT ![l] = TRUE]
        /\ UNCHANGED <<deployed, memory, queue>>
    BY <1>2, <1>6, <2>1 DEF Submit
  <2>3. OwnInv'
    BY <1>3, <2>2, OwnStays
  <2>4. call \in Held(queue[l]) /\ Proper(l, call) /\ call \in Call
    <3>1. PICK q : q = [queue EXCEPT ![l] = Tail(@)]
      OBVIOUS
    <3>. QED BY <1>1, <1>2, <3>1, Popped, HeldCalls DEF LoopInv, OwnInv
  <2>5. new \in Tx /\ new.lane = l /\ new.call = call
    BY <2>1, <2>4 DEF Tx
  <2>6. /\ sent \in [Lane -> BOOLEAN] /\ inflight \in SUBSET Tx
        /\ \A k \in Lane : sent[k] => queue[k] # <<>>
        /\ \A tx \in inflight :
             /\ Proper(tx.lane, tx.call) /\ tx.lane \in Lane
             /\ tx.awaited => sent[tx.lane] /\ tx.call = Head(queue[tx.lane])
    BY DEF LoopInv, InflightInv, Tx
  <2>7. sent' \in [Lane -> BOOLEAN] /\ sent'[l] /\ \A k \in Lane : k # l => sent'[k] = sent[k]
    BY <2>2, <2>6
  <2>8. \A tx \in inflight' :
          /\ Proper(tx.lane, tx.call)'
          /\ tx.awaited => sent'[tx.lane] /\ tx.call = Head(queue'[tx.lane])
    <3>1. TAKE tx \in inflight'
    <3>2. CASE tx = new
      BY <1>2, <1>3, <2>2, <2>4, <2>5, <2>7, <3>2, ProperStays DEF LoopInv
    <3>3. CASE tx \in inflight
      BY <1>3, <2>2, <2>6, <2>7, <3>3, ProperStays DEF LoopInv
    <3>. QED BY <2>2, <3>2, <3>3
  <2>9. InflightInv'
    <3>1. inflight' \in SUBSET Tx
      BY <2>2, <2>5, <2>6
    <3>2. \A k \in Lane : sent'[k] => queue'[k] # <<>>
      BY <1>1, <2>2, <2>6, <2>7
    <3>. QED BY <2>7, <2>8, <3>1, <3>2 DEF InflightInv
  <2>. QED BY <1>3, <2>3, <2>9 DEF LoopInv
<1>. QED BY <1>5, <1>6

LEMMA SendFailsKeeps ==
  ASSUME LoopInv, NEW l \in Lane, SendFails(l)
  PROVE  LoopInv'
<1>1. queue[l] # <<>> /\ ~sent[l] /\ Faulty("send") /\ Ends(l, "error")
      /\ UNCHANGED <<markets, inflight>>
  BY DEF SendFails
<1>2. faults' \in SUBSET deployed.faults
  BY <1>1, FaultyKept DEF LoopInv, OwnInv
<1>3. \A tx \in inflight : tx \in Tx /\ (tx.awaited => tx.lane # l)
  BY <1>1, AwaitedFacts DEF Awaited
<1>. QED BY <1>1, <1>2, <1>3, FailedCall DEF FailsKeeps

LEMMA ThrowKeeps ==
  ASSUME LoopInv, NEW l \in Lane, Throw(l)
  PROVE  LoopInv'
<1>1. sent[l] /\ Awaited(l) = {} /\ Ends(l, "error") /\ UNCHANGED <<markets, inflight, faults>>
  BY DEF Throw
<1>2. queue[l] # <<>> /\ faults' \in SUBSET deployed.faults
  BY <1>1, AwaitedFacts DEF LoopInv, OwnInv, MemoryInv
<1>3. \A tx \in inflight : tx \in Tx /\ (tx.awaited => tx.lane # l)
  BY <1>1, AwaitedFacts DEF Awaited
<1>. QED BY <1>1, <1>2, <1>3, FailedCall DEF FailsKeeps

LEMMA ForgottenTx ==
  ASSUME NEW lanes, \A tx \in inflight : tx \in Tx, NEW tx \in Forgotten(lanes)
  PROVE  /\ tx \in Tx
         /\ \E old \in inflight :
              /\ tx.lane = old.lane /\ tx.call = old.call
              /\ tx.awaited <=> old.awaited /\ tx.lane \notin lanes
<1>1. PICK old \in inflight : tx = [old EXCEPT !.awaited = @ /\ old.lane \notin lanes]
  BY DEF Forgotten
<1>2. PICK still \in BOOLEAN : still <=> (old.awaited /\ old.lane \notin lanes)
  OBVIOUS
<1>3. old \in Tx /\ tx = [old EXCEPT !.awaited = still]
  BY <1>1, <1>2 DEF Tx
<1>4. tx \in Tx /\ tx.lane = old.lane /\ tx.call = old.call /\ tx.awaited = still
  BY <1>3 DEF Tx
<1>. QED BY <1>2, <1>4

LEMMA GiveUpKeeps ==
  ASSUME LoopInv, NEW l \in Lane, GiveUp(l)
  PROVE  LoopInv'
<1>1. Awaited(l) # {} /\ Faulty("giveup") /\ inflight' = Forgotten({l}) /\ Ends(l, "error")
      /\ UNCHANGED markets
  BY DEF GiveUp
<1>2. queue[l] # <<>> /\ faults' \in SUBSET deployed.faults
      /\ \A tx \in inflight : tx \in Tx
  BY <1>1, AwaitedFacts, FaultyKept DEF LoopInv, OwnInv
<1>3. \A tx \in inflight' :
        /\ tx \in Tx
        /\ \E old \in inflight :
             /\ tx.lane = old.lane /\ tx.call = old.call
             /\ tx.awaited => old.awaited /\ tx.lane # l
  <2>1. TAKE tx \in inflight'
  <2>2. tx \in Forgotten({l})
    BY <1>1
  <2>. QED BY <1>2, <2>2, ForgottenTx
<1>. QED BY <1>1, <1>2, <1>3, FailedCall DEF FailsKeeps

LEMMA NothingHeld == Held(<<>>) = {} /\ Single(<<>>) /\ <<>> \in Seq(Call)
BY DEF Held, Single

LEMMA CrashKeeps ==
  ASSUME LoopInv, NEW p \in Process, Crash(p)
  PROVE  LoopInv'
<1>1. PICK own : own = {m \in Market : Loop(m) = p}
  OBVIOUS
<1>2. PICK lanes : lanes = {Chain(m) : m \in own} \X Account
  OBVIOUS
<1>3. /\ Faulty("crash")
      /\ current' = [m \in Market |-> IF m \in own THEN 0 ELSE current[m]]
      /\ lastPushed' = [m \in Market |-> IF m \in own THEN None ELSE lastPushed[m]]
      /\ betTracker' = {key \in betTracker : key[1] \notin own}
      /\ claimTracker' = {key \in claimTracker : key[1] \notin own}
      /\ pc' = [m \in Market |-> IF m \in own THEN "asleep" ELSE pc[m]]
      /\ queue' = [l \in Lane |-> IF l \in lanes THEN <<>> ELSE queue[l]]
      /\ sent' = [l \in Lane |-> sent[l] /\ l \notin lanes]
      /\ inflight' = Forgotten(lanes)
      /\ UNCHANGED <<markets, deployed>>
  BY <1>1, <1>2 DEF Crash
<1>4. /\ MarketInv' /\ Grows /\ MemoryInv /\ MarketInv /\ QueueInv
      /\ faults' \in SUBSET deployed.faults
  BY <1>3, SameMarkets, FaultyKept DEF LoopInv, OwnInv
<1>5. MemoryInv'
  <2>1. current' \in [Market -> 0..MaxRounds]
    BY <1>3, <1>4, Bounds DEF MemoryInv
  <2>2. lastPushed' \in [Market -> Price \cup {None}] /\ pc' \in [Market -> Step]
    BY <1>3, <1>4 DEF MemoryInv, Step
  <2>. QED BY <1>3, <1>4, <2>1, <2>2 DEF MemoryInv
<1>6. ASSUME NEW l \in Lane, NEW call \in Held(queue'[l])
      PROVE  Proper(l, call)' /\ AwaitedAt(call)'
  <2>1. l \notin lanes /\ queue'[l] = queue[l]
    BY <1>3, <1>6, NothingHeld
  <2>2. Proper(l, call) /\ AwaitedAt(call) /\ call.market \in Market
    BY <1>4, <1>6, <2>1, HeldCalls
  <2>3. call.market \notin own
    <3>1. SUFFICES ASSUME call.market \in own PROVE FALSE
      OBVIOUS
    <3>2. l[1] = Chain(call.market) /\ l[2] \in Account /\ l = <<l[1], l[2]>>
      BY <2>2, Lanes DEF Proper, Chain
    <3>. QED BY <1>2, <2>1, <3>1, <3>2
  <2>4. Proper(l, call)'
    BY <1>3, <1>4, <2>2, ProperStays
  <2>5. pc'[call.market] = pc[call.market] /\ current'[call.market] = current[call.market]
    BY <1>3, <2>2, <2>3
  <2>. QED BY <2>2, <2>4, <2>5 DEF AwaitedAt
<1>7. QueueInv'
  BY <1>3, <1>4, <1>6, NothingHeld DEF QueueInv
<1>8. ASSUME NEW m \in Market PROVE Placed(m)'
  <2>1. CASE m \in own
    <3>1. current'[m] = 0 /\ pc'[m] = "asleep" /\ 0 <= counter'[m]
      BY <1>3, <1>4, <2>1, Bounds DEF MarketInv
    <3>. QED BY <3>1 DEF Placed
  <2>2. CASE m \notin own
    BY <1>3, <1>4, <2>2, PlacedStays DEF LoopInv, OwnInv
  <2>. QED BY <2>1, <2>2
<1>9. InflightInv'
  <2>1. sent \in [Lane -> BOOLEAN] /\ (\A tx \in inflight : tx \in Tx)
        /\ \A l \in Lane : sent[l] => queue[l] # <<>>
    BY DEF LoopInv, InflightInv
  <2>2. sent' \in [Lane -> BOOLEAN]
        /\ \A l \in Lane : sent'[l] <=> sent[l] /\ l \notin lanes
    BY <1>3
  <2>3. \A l \in Lane : sent'[l] =>
          sent[l] /\ queue'[l] # <<>> /\ Head(queue'[l]) = Head(queue[l])
    BY <1>3, <2>1, <2>2
  <2>4. \A tx \in inflight' :
          /\ tx \in Tx
          /\ \E old \in inflight :
               /\ tx.lane = old.lane /\ tx.call = old.call
               /\ tx.awaited => old.awaited /\ sent'[tx.lane]
    <3>1. TAKE tx \in inflight'
    <3>2. tx \in Forgotten(lanes)
      BY <1>3
    <3>3. /\ tx \in Tx
          /\ \E old \in inflight :
               /\ tx.lane = old.lane /\ tx.call = old.call
               /\ tx.awaited <=> old.awaited /\ tx.lane \notin lanes
      BY <2>1, <3>2, ForgottenTx
    <3>4. \A old \in inflight : old.lane \in Lane /\ (old.awaited => sent[old.lane])
      BY DEF LoopInv, InflightInv, Tx
    <3>. QED BY <2>2, <3>3, <3>4
  <2>. QED BY <1>3, <1>4, <2>2, <2>3, <2>4, InflightStays
<1>. QED BY <1>4, <1>5, <1>7, <1>8, <1>9 DEF LoopInv, OwnInv

\* The network goes on without ending a call.
LEMMA NetworkKeeps ==
  ASSUME LoopInv, MarketInv', Grows, UNCHANGED <<deployed, memory, queue, sent>>,
         faults' \in SUBSET deployed.faults, inflight' \in SUBSET inflight
  PROVE  LoopInv'
<1>1. OwnInv'
  BY OwnStays
<1>2. /\ sent \in [Lane -> BOOLEAN] /\ inflight \in SUBSET Tx
      /\ \A l \in Lane : sent[l] => queue[l] # <<>>
      /\ \A tx \in inflight : tx.awaited => sent[tx.lane]
  BY DEF LoopInv, InflightInv
<1>3. InflightInv'
  BY <1>2, InflightStays
<1>. QED BY <1>1, <1>3 DEF LoopInv

LEMMA LandsKeeps ==
  ASSUME LoopInv, NEW tx, NEW result, Lands(tx, result),
         result = "ok" \/ (result = "null" /\ tx.call.do = "create"),
         faults' \in SUBSET deployed.faults
  PROVE  LoopInv'
<1>1. /\ tx \in inflight /\ tx \in Tx
      /\ inflight' = inflight \ SameAccount(tx)
  BY DEF Lands, LoopInv, InflightInv
<1>2. PICK l \in Lane : l = tx.lane
  BY <1>1 DEF Tx
<1>3. PICK call : call = tx.call
  OBVIOUS
<1>4. Proper(l, call) /\ (tx.awaited => sent[l] /\ queue[l] # <<>> /\ call = Head(queue[l]))
  BY <1>1, <1>2, <1>3 DEF LoopInv, InflightInv
<1>5. /\ Accepted(call, l[2]) => Applies(call, l[2])
      /\ ~Accepted(call, l[2]) => UNCHANGED markets
      /\ tx.awaited /\ Accepted(call, l[2]) => Ends(l, result)
      /\ ~(tx.awaited /\ Accepted(call, l[2])) =>
           UNCHANGED <<deployed, memory, queue, sent>>
  BY <1>2, <1>3 DEF Lands
<1>6. MarketInv' /\ Grows
  BY <1>4, <1>5, AppliesMoves, SameMarkets DEF LoopInv
<1>7. CASE ~(tx.awaited /\ Accepted(call, l[2]))
  BY <1>1, <1>5, <1>6, <1>7, NetworkKeeps
<1>8. CASE tx.awaited /\ Accepted(call, l[2])
  <2>1. EndsWell(call, result)
    <3>1. /\ call.do = "create" => counter'[call.market] = counter[call.market] + 1
          /\ call.do = "settle" => ~Open(call.market, call.arg)'
      BY <1>4, <1>5, <1>8, AppliesMoves
    <3>2. /\ current[call.market] \in Int /\ counter[call.market] \in Int
          /\ current[call.market] <= counter[call.market]
      BY <1>4 DEF LoopInv, OwnInv, MarketInv, MemoryInv, Placed, Proper, Call
    <3>. QED BY <1>6, <3>1, <3>2 DEF EndsWell
  <2>2. /\ OwnInv' /\ sent' = [sent EXCEPT ![l] = FALSE] /\ UNCHANGED deployed
        /\ \A k \in Lane : k # l /\ queue[k] # <<>> =>
             queue'[k] # <<>> /\ Head(queue'[k]) = Head(queue[k])
    BY <1>4, <1>5, <1>8, <2>1, EndsKeeps
  <2>3. \A other \in inflight' : other \in inflight /\ other \in Tx /\ other.lane # l
    BY <1>1, <1>2 DEF SameAccount, LoopInv, InflightInv
  <2>4. InflightInv'
    BY <1>6, <2>2, <2>3, InflightAfter
  <2>. QED BY <1>6, <2>2, <2>4 DEF LoopInv
<1>. QED BY <1>7, <1>8

LEMMA DropKeeps ==
  ASSUME LoopInv, NEW tx, Drop(tx)
  PROVE  LoopInv'
<1>1. Faulty("drop") /\ inflight' = inflight \ {tx}
      /\ UNCHANGED <<markets, deployed, memory, queue, sent>>
  BY DEF Drop
<1>2. faults' \in SUBSET deployed.faults /\ MarketInv' /\ Grows
  BY <1>1, FaultyKept, SameMarkets DEF LoopInv, OwnInv
<1>. QED BY <1>1, <1>2, NetworkKeeps

LEMMA FeedPrice ==
  ASSUME MemoryInv
  PROVE  (CHOOSE spot \in deployed.spots : TRUE) \in Price
BY Deployed, Prices DEF MemoryInv

LEMMA WorldKeeps ==
  ASSUME LoopInv, NEW m \in Market,
         Stranger(m) \/ FeedMoves(m) \/ (\E r \in RoundId : Expires(m, r))
  PROVE  LoopInv'
<1>1. MarketInv /\ MemoryInv /\ deployed.until \in 1..MaxTime
  BY Deployed DEF LoopInv, OwnInv, MemoryInv
<1>2. UNCHANGED <<deployed, memory, queue, sent, inflight>>
      /\ faults' \in SUBSET deployed.faults
  BY <1>1, FaultyKept DEF Stranger, FeedMoves, Expires, calls, MemoryInv
<1>3. MarketInv' /\ Grows
  <2>1. CASE Stranger(m)
    <3>1. Series!Create(m, LockOffset, OracleInterval)
          \/ \E r \in RoundId : Series!SettleRound(m, r)
      BY <2>1 DEF Stranger
    <3>. QED BY <1>1, <3>1, CreateMoves, SettleMoves
  <2>2. CASE FeedMoves(m)
    <3>1. PICK spot \in Price : Series!Push(m, spot)
      BY <1>1, <2>2, FeedPrice DEF FeedMoves
    <3>. QED BY <1>1, <3>1, PushMoves
  <2>3. CASE \E r \in RoundId : Expires(m, r)
    <3>1. Series!TimePasses /\ now' \in 1..MaxTime
      BY <1>1, <2>3 DEF Expires, MarketInv
    <3>. QED BY <1>1, <3>1, TimeMoves
  <2>. QED BY <2>1, <2>2, <2>3
<1>. QED BY <1>2, <1>3, NetworkKeeps

LEMMA ClockKeeps ==
  ASSUME LoopInv, ClockTicks
  PROVE  LoopInv'
<1>1. MarketInv /\ MemoryInv /\ deployed.until \in 1..MaxTime
  BY Deployed DEF LoopInv, OwnInv, MemoryInv
<1>2. UNCHANGED <<deployed, memory, queue, sent, inflight>>
      /\ faults' \in SUBSET deployed.faults
  BY <1>1 DEF ClockTicks, calls, MemoryInv
<1>3. Series!TimePasses /\ now' \in {now, now + 1} /\ now' <= deployed.until
  BY DEF ClockTicks
<1>4. now' \in 1..MaxTime
  <2>1. now \in 1..MaxTime
    BY <1>1 DEF MarketInv
  <2>. QED BY <1>1, <1>3, <2>1, Bounds
<1>. QED BY <1>1, <1>2, <1>3, <1>4, TimeMoves, NetworkKeeps


-----------------------------------------------------------------------------
(* The invariant of every loop *)

LEMMA InitLoop == Init => LoopInv
<1> SUFFICES ASSUME Init PROVE LoopInv
  OBVIOUS
<1>1. deployed \in Deployment /\ deployed.until \in 1..MaxTime /\ now = 1
  BY Deployed DEF Init
<1>2. 1 \in 1..MaxTime /\ 0 \in 0..MaxRounds
  BY <1>1, Bounds
<1>3. MarketInv
  <2>1. /\ tick = [m \in Market |-> None] /\ counter = [m \in Market |-> 0]
        /\ lastStrikeTs = [m \in Market |-> 0]
        /\ rounds = [m \in Market |-> [r \in RoundId |-> None]]
        /\ stakes = [m \in Market |-> [r \in RoundId |-> [b \in Bot |-> "none"]]]
    BY DEF Init, Series!SeriesInit, Series!RoundId, RoundId
  <2>. QED BY <1>1, <1>2, <2>1 DEF MarketInv
<1>4. /\ current = [m \in Market |-> 0] /\ pc = [m \in Market |-> "asleep"]
      /\ lastPushed = [m \in Market |-> None] /\ betTracker = {} /\ claimTracker = {}
      /\ queue = [l \in Lane |-> <<>>] /\ sent = [l \in Lane |-> FALSE]
      /\ inflight = {} /\ faults = {}
  BY DEF Init
<1>5. MemoryInv
  BY <1>1, <1>2, <1>4 DEF MemoryInv, Step
<1>6. QueueInv
  BY <1>4, NothingHeld DEF QueueInv
<1>7. InflightInv
  BY <1>4 DEF InflightInv
<1>8. ASSUME NEW m \in Market PROVE Placed(m)
  <2>1. current[m] = 0 /\ pc[m] = "asleep" /\ 0 <= counter[m]
    BY <1>3, <1>4, Bounds DEF MarketInv
  <2>. QED BY <2>1 DEF Placed
<1>. QED BY <1>3, <1>5, <1>6, <1>7, <1>8 DEF LoopInv, OwnInv

LEMMA LoopKept == LoopInv /\ [Next]_vars => LoopInv'
<1> SUFFICES ASSUME LoopInv, [Next]_vars PROVE LoopInv'
  OBVIOUS
<1>1. ASSUME NEW m \in Market, Works(m) PROVE LoopInv'
  <2>1. CASE \E clock : Looks(m, clock) /\ UNCHANGED faults
    BY <2>1, LooksKeeps DEF LoopInv, OwnInv, MemoryInv, Looks
  <2>. QED BY <1>1, <2>1, WakeKeeps, PushPriceKeeps, BotsDoneKeeps, RecountKeeps
       DEF Works, Look
<1>2. ASSUME NEW m \in Market, Fails(m) PROVE LoopInv'
  <2>1. CASE LooksAmiss(m)
    <3>1. PICK clock \in {now - 1, now + 1} : Looks(m, clock)
      BY <2>1 DEF LooksAmiss
    <3>2. faults' \in SUBSET deployed.faults
      BY <2>1, FaultyKept DEF LooksAmiss, LoopInv, OwnInv
    <3>3. UNCHANGED deployed
      BY <3>1 DEF Looks
    <3>. QED BY <3>1, <3>2, LooksKeeps
  <2>. QED BY <1>2, <2>1, WakeBlindKeeps, MisreadsKeeps, RecountFailsKeeps, WorldKeeps
       DEF Fails
<1>3. ASSUME NEW m \in Market, FeedMoves(m) PROVE LoopInv'
  BY <1>3, WorldKeeps
<1>4. ASSUME NEW l \in Lane, Serves(l) \/ SendFails(l) \/ GiveUp(l) PROVE LoopInv'
  BY <1>4, SubmitKeeps, ThrowKeeps, SendFailsKeeps, GiveUpKeeps DEF Serves
<1>5. ASSUME NEW p \in Process, Crash(p) PROVE LoopInv'
  BY <1>5, CrashKeeps
<1>6. ASSUME NEW tx \in inflight, Land(tx) \/ LandUnread(tx) \/ Drop(tx) PROVE LoopInv'
  <2>1. CASE Land(tx)
    BY <2>1, LandsKeeps DEF Land, LoopInv, OwnInv, MemoryInv
  <2>2. CASE LandUnread(tx)
    <3>1. Lands(tx, "null") /\ tx.call.do = "create" /\ Faulty("decode")
      BY <2>2 DEF LandUnread
    <3>2. faults' \in SUBSET deployed.faults
      BY <3>1, FaultyKept DEF LoopInv, OwnInv
    <3>. QED BY <3>1, <3>2, LandsKeeps
  <2>. QED BY <1>6, <2>1, <2>2, DropKeeps
<1>7. CASE UNCHANGED vars
  BY <1>7, SameMarkets, NetworkKeeps DEF vars, calls, LoopInv, OwnInv, MemoryInv
<1>. QED BY <1>1, <1>2, <1>3, <1>4, <1>5, <1>6, <1>7, ClockKeeps DEF Next

LEMMA LoopAlways == Spec => []LoopInv
BY InitLoop, LoopKept, PTL DEF Spec

\* Types: whatever fails, chains hold calls, what is awaited is the one transaction
\* of a call that is at the head of its chain, and every loop is at a step it has.
THEOREM TypeCorrect == Spec => []TypeOK
<1>1. LoopInv => TypeOK
  <2> SUFFICES ASSUME LoopInv PROVE TypeOK
    OBVIOUS
  <2>1. ASSUME NEW l \in Lane
        PROVE  /\ sent[l] => queue[l] # <<>>
               /\ Awaited(l) # {} => sent[l] /\ Cardinality(Awaited(l)) = 1
    <3>1. /\ sent[l] => queue[l] # <<>>
          /\ Awaited(l) # {} => sent[l]
          /\ \A tx \in Awaited(l) :
               tx = [lane |-> l, call |-> Head(queue[l]), awaited |-> TRUE]
      BY AwaitedFacts
    <3>2. ASSUME Awaited(l) # {} PROVE Cardinality(Awaited(l)) = 1
      <4>1. PICK tx \in Awaited(l) : TRUE
        BY <3>2
      <4>2. Awaited(l) = {tx}
        BY <3>1, <4>1
      <4>. QED BY <4>2, FS_Singleton
    <3>. QED BY <3>1, <3>2
  <2>2. MarketInv /\ MemoryInv /\ QueueInv /\ InflightInv
    BY DEF LoopInv, OwnInv
  <2>. QED BY <2>1, <2>2 DEF TypeOK, MarketInv, MemoryInv, QueueInv, InflightInv
<1>. QED BY <1>1, LoopAlways, PTL


-----------------------------------------------------------------------------
(* Leaving a round *)

\* The call of l ends in its loop, with a result that is true of the markets.
Ended(l, call, result) ==
  /\ l \in Lane /\ queue[l] # <<>>
  /\ call = Head(queue[l])
  /\ EndsWell(call, result)
  /\ Ends(l, result)

LEMMA LandedWell ==
  ASSUME LoopInv, NEW tx, NEW result, Lands(tx, result),
         faults' \in SUBSET deployed.faults
  PROVE  /\ tx \in inflight /\ tx.lane \in Lane /\ Proper(tx.lane, tx.call)
         /\ MarketInv' /\ Grows
         /\ tx.awaited /\ Accepted(tx.call, tx.lane[2]) => Ended(tx.lane, tx.call, result)
         /\ ~(tx.awaited /\ Accepted(tx.call, tx.lane[2])) =>
              UNCHANGED <<deployed, memory, queue, sent>>
<1>1. tx \in inflight /\ tx.lane \in Lane /\ Proper(tx.lane, tx.call)
      /\ (tx.awaited => queue[tx.lane] # <<>> /\ tx.call = Head(queue[tx.lane]))
  BY DEF Lands, LoopInv, InflightInv, Tx
<1>2. PICK l \in Lane : l = tx.lane
  BY <1>1
<1>3. PICK call : call = tx.call
  OBVIOUS
<1>4. /\ Accepted(call, l[2]) => Applies(call, l[2])
      /\ ~Accepted(call, l[2]) => UNCHANGED markets
      /\ tx.awaited /\ Accepted(call, l[2]) => Ends(l, result)
      /\ ~(tx.awaited /\ Accepted(call, l[2])) =>
           UNCHANGED <<deployed, memory, queue, sent>>
  BY <1>2, <1>3 DEF Lands
<1>5. MarketInv' /\ Grows
  BY <1>1, <1>2, <1>3, <1>4, AppliesMoves, SameMarkets DEF LoopInv
<1>6. ASSUME tx.awaited, Accepted(call, l[2])
      PROVE  Ended(l, call, result)
  <2>1. /\ call.do = "create" => counter'[call.market] = counter[call.market] + 1
        /\ call.do = "settle" => ~Open(call.market, call.arg)'
    BY <1>1, <1>2, <1>3, <1>4, <1>6, AppliesMoves
  <2>2. /\ current[call.market] \in Int /\ counter[call.market] \in Int
        /\ current[call.market] <= counter[call.market]
    BY <1>1, <1>3 DEF LoopInv, OwnInv, MarketInv, MemoryInv, Placed, Proper, Call
  <2>3. EndsWell(call, result)
    BY <1>5, <2>1, <2>2 DEF EndsWell
  <2>. QED BY <1>1, <1>2, <1>3, <1>4, <1>6, <2>3 DEF Ended
<1>. QED BY <1>1, <1>2, <1>3, <1>4, <1>5, <1>6

\* The calls that end without a transaction, and the transaction that ends a call.
LEMMA Unanswered ==
  ASSUME LoopInv, NEW l \in Lane, Serves(l) \/ SendFails(l) \/ GiveUp(l)
  PROVE  /\ UNCHANGED markets
         /\ \/ UNCHANGED <<deployed, memory, queue>>
            \/ \E result \in {"error", "done"} :
                 /\ Ended(l, Head(queue[l]), result)
                 /\ result = "error" \/ result = Refusal(Head(queue[l]))
<1>1. MemoryInv
  BY DEF LoopInv, OwnInv
<1>2. ASSUME queue[l] # <<>>, UNCHANGED markets, faults' \in SUBSET deployed.faults,
             NEW result \in {"error", "done"}, Ends(l, result),
             result = "error" \/ result = Refusal(Head(queue[l]))
      PROVE  Ended(l, Head(queue[l]), result)
  <2>1. PICK call : call = Head(queue[l])
    OBVIOUS
  <2>2. EndsWell(call, result)
    BY <1>2, <2>1, SameMarkets, RefusedWell DEF LoopInv
  <2>3. Ended(l, call, result)
    BY <1>2, <2>1, <2>2 DEF Ended
  <2>. QED BY <2>1, <2>3
<1>3. CASE Submit(l)
  <2>1. queue[l] # <<>> /\ UNCHANGED markets /\ faults' \in SUBSET deployed.faults
    BY <1>1, <1>3 DEF Submit, MemoryInv
  <2>2. PICK call : call = Head(queue[l])
    OBVIOUS
  <2>3. \/ UNCHANGED <<deployed, memory, queue>>
        \/ Ends(l, Refusal(call))
    BY <1>3, <2>2 DEF Submit
  <2>4. PICK result \in {"error", "done"} : result = Refusal(call)
    BY DEF Refusal
  <2>. QED BY <1>2, <2>1, <2>2, <2>3, <2>4
<1>4. CASE Throw(l)
  BY <1>1, <1>2, <1>4, AwaitedFacts DEF Throw, MemoryInv
<1>5. CASE SendFails(l)
  BY <1>1, <1>2, <1>5, FaultyKept DEF SendFails
<1>6. CASE GiveUp(l)
  BY <1>1, <1>2, <1>6, AwaitedFacts, FaultyKept DEF GiveUp
<1>. QED BY <1>3, <1>4, <1>5, <1>6 DEF Serves

\* A call ends, or what serves the calls leaves the loops as they are.
LEMMA Answered ==
  ASSUME LoopInv,
         \/ \E l \in Lane : Serves(l) \/ SendFails(l) \/ GiveUp(l)
         \/ \E tx \in inflight : Land(tx) \/ LandUnread(tx) \/ Drop(tx)
  PROVE  \/ UNCHANGED <<deployed, memory, queue>>
         \/ \E l, call, result : Ended(l, call, result)
<1>1. ASSUME NEW tx \in inflight, Land(tx) \/ LandUnread(tx) \/ Drop(tx)
      PROVE  \/ UNCHANGED <<deployed, memory, queue>>
             \/ \E k, call, result : Ended(k, call, result)
  <2>1. CASE \E result : Lands(tx, result) /\ faults' \in SUBSET deployed.faults
    BY <2>1, LandedWell
  <2>2. CASE Drop(tx)
    BY <2>2 DEF Drop
  <2>. QED BY <1>1, <2>1, <2>2, FaultyKept DEF Land, LandUnread, LoopInv, OwnInv, MemoryInv
<1>. QED BY <1>1, Unanswered

LeavesFor(m, r) ==
  current[m] # 0 /\ r # current[m] =>
    /\ r # 0 => r > current[m]
    /\ Open(m, current[m]) => r = 0 /\ GoesBlind

LeavesWell == \A m \in Market : LeavesFor(m, current'[m])

LEMMA StaysOrTurns ==
  ASSUME LoopInv, NEW m \in Market, NEW r, Minds(m, r), LeavesFor(m, r)
  PROVE  LeavesWell
<1>1. current'[m] = r /\ \A n \in Market : n # m => current'[n] = current[n]
  BY DEF Minds, LoopInv, OwnInv, MemoryInv
<1>. QED BY <1>1 DEF LeavesWell, LeavesFor

LEMMA EndedLeaves ==
  ASSUME LoopInv, NEW l, NEW call, NEW result, Ended(l, call, result)
  PROVE  LeavesWell
<1>1. PICK q : q = [queue EXCEPT ![l] = Tail(@)]
  OBVIOUS
<1>2. Ending(l, call, q) /\ EndsWell(call, result) /\ Ends(l, result)
  BY <1>1 DEF Ended, Ending
<1>3. PICK m \in Market : m = call.market
  BY <1>2, EndingCall
<1>4. AwaitedAt(call) /\ Placed(m) /\ call.do \in {"push", "create", "bet", "settle", "claim"}
  BY <1>2, <1>3, EndingCall DEF LoopInv, OwnInv
<1>5. CASE call.do = "create" /\ result = "ok"
  <2>1. Minds(m, counter'[m])
    BY <1>2, <1>3, <1>5 DEF Ended, Ends, CreateEnds
  <2>2. current[m] < counter'[m] /\ counter'[m] \in Int /\ current[m] \in Int
    BY <1>2, <1>3, <1>5 DEF EndsWell, MarketInv, LoopInv, OwnInv, MemoryInv
  <2>3. current[m] # 0 => ~Open(m, current[m])
    BY <1>3, <1>4, <1>5 DEF AwaitedAt, Placed
  <2>. QED BY <2>1, <2>2, <2>3, StaysOrTurns DEF LeavesFor
<1>6. CASE ~(call.do = "create" /\ result = "ok")
  <2>1. UNCHANGED current
    BY <1>2, <1>4, <1>6 DEF Ended, Ends, PushEnds, CreateEnds, SettleEnds, BotEnds
  <2>. QED BY <2>1 DEF LeavesWell, LeavesFor
<1>. QED BY <1>5, <1>6

LEMMA NextLeaves == LoopInv /\ [Next]_vars => LeavesWell
<1> SUFFICES ASSUME LoopInv, [Next]_vars PROVE LeavesWell
  OBVIOUS
<1>1. CASE UNCHANGED current
  BY <1>1 DEF LeavesWell, LeavesFor
<1>2. ASSUME NEW m \in Market, Wake(m) PROVE LeavesWell
  BY <1>2, StaysOrTurns DEF Wake, LeavesFor
<1>3. ASSUME NEW m \in Market, MissingRound(m), Open(m, current[m]) => GoesBlind
      PROVE  LeavesWell
  <2>1. LeavesFor(m, 0)
    BY <1>3 DEF LeavesFor
  <2>. QED BY <1>1, <1>3, <2>1, StaysOrTurns DEF MissingRound
<1>4. ASSUME NEW m \in Market, NEW clock, Looks(m, clock) PROVE LeavesWell
  <2>1. rounds[m][current[m]] = None => ~Open(m, current[m])
    BY DEF Open, Series!HasStatus
  <2>. QED BY <1>1, <1>3, <1>4, <2>1 DEF Looks
<1>5. ASSUME NEW m \in Market, Recount(m) PROVE LeavesWell
  <2>1. /\ current[m] \in 0..MaxRounds /\ counter[m] \in 0..MaxRounds
        /\ current[m] <= counter[m]
        /\ current[m] # 0 => ~Open(m, current[m])
    BY <1>5 DEF LoopInv, OwnInv, MarketInv, MemoryInv, Placed, Recount
  <2>2. CASE Minds(m, counter[m])
    <3>1. LeavesFor(m, counter[m])
      BY <2>1, Bounds DEF LeavesFor
    <3>. QED BY <2>2, <3>1, StaysOrTurns
  <2>. QED BY <1>1, <1>5, <2>2 DEF Recount
<1>6. ASSUME NEW p \in Process, Crash(p) PROVE LeavesWell
  <2>1. GoesBlind
    BY <1>6 DEF Crash, Faulty, GoesBlind
  <2>2. \A m \in Market : current'[m] \in {0, current[m]}
    BY <1>6 DEF Crash
  <2>. QED BY <2>1, <2>2 DEF LeavesWell, LeavesFor
<1>7. ASSUME \/ \E l \in Lane : Serves(l) \/ SendFails(l) \/ GiveUp(l)
             \/ \E tx \in inflight : Land(tx) \/ LandUnread(tx) \/ Drop(tx)
      PROVE  LeavesWell
  BY <1>1, <1>7, Answered, EndedLeaves DEF memory
<1>8. ASSUME NEW m \in Market, Works(m) PROVE LeavesWell
  BY <1>1, <1>2, <1>4, <1>5, <1>8 DEF Works, Look, PushPrice, BotsDone
<1>9. ASSUME NEW m \in Market, Fails(m) PROVE LeavesWell
  <2>1. CASE WakeBlind(m) \/ RecountFails(m)
    BY <1>1, <2>1 DEF WakeBlind, RecountFails
  <2>2. CASE LooksAmiss(m)
    BY <1>4, <2>2 DEF LooksAmiss
  <2>3. CASE Misreads(m)
    <3>1. GoesBlind
      BY <2>3 DEF Misreads, Faulty, GoesBlind
    <3>. QED BY <1>1, <1>3, <2>3, <3>1 DEF Misreads
  <2>4. CASE Stranger(m) \/ \E r \in RoundId : Expires(m, r)
    BY <1>1, <2>4 DEF Stranger, Expires, memory
  <2>. QED BY <1>9, <2>1, <2>2, <2>3, <2>4 DEF Fails
<1>10. CASE ClockTicks \/ (\E m \in Market : FeedMoves(m)) \/ UNCHANGED vars
  BY <1>1, <1>10 DEF ClockTicks, FeedMoves, vars, memory
<1>. QED BY <1>6, <1>7, <1>8, <1>9, <1>10 DEF Next

\* "try again next cycle rather than abandoning the round": no call that fails makes a
\* loop leave a round that is open, for an earlier or a later one or for none; only a
\* restart of its process does, and a query that fails in that step.
THEOREM AbandonsOnlyBlind == Spec => LeavesOpenOnlyBlind
<1>1. LoopInv /\ [Next]_vars =>
        [\A m \in Market : current[m] # 0 /\ current'[m] # current[m] =>
           /\ current'[m] # 0 => current'[m] > current[m]
           /\ Series!HasStatus(m, current[m], "Open") =>
                current'[m] = 0 /\ GoesBlind]_vars
  BY NextLeaves DEF LeavesWell, LeavesFor, Open
<1>. QED BY <1>1, LoopAlways, PTL DEF Spec, LeavesOpenOnlyBlind


-----------------------------------------------------------------------------
(* One transaction per account *)

LEMMA FaultsGrow == [Next]_vars => faults \subseteq faults'
<1> SUFFICES ASSUME [Next]_vars PROVE faults \subseteq faults'
  OBVIOUS
<1>1. CASE \E kind : Faulty(kind)
  BY <1>1 DEF Faulty
<1>2. CASE UNCHANGED faults
  BY <1>2
<1>3. ASSUME NEW m \in Market, Works(m) PROVE UNCHANGED faults
  BY <1>3 DEF Works, Wake, Look, PushPrice, BotsDone, Recount
<1>4. ASSUME NEW m \in Market, Fails(m) PROVE \E kind : Faulty(kind)
  BY <1>4 DEF Fails, WakeBlind, LooksAmiss, Misreads, RecountFails, Stranger, Expires
<1>5. ASSUME NEW l \in Lane, Serves(l) \/ SendFails(l) \/ GiveUp(l)
      PROVE  UNCHANGED faults \/ \E kind : Faulty(kind)
  BY <1>5 DEF Serves, Submit, Throw, SendFails, GiveUp
<1>6. ASSUME NEW tx \in inflight, Land(tx) \/ LandUnread(tx) \/ Drop(tx)
      PROVE  UNCHANGED faults \/ \E kind : Faulty(kind)
  BY <1>6 DEF Land, LandUnread, Drop
<1>7. CASE (\E m \in Market : FeedMoves(m)) \/ ClockTicks \/ UNCHANGED vars
  BY <1>7, <1>2 DEF FeedMoves, ClockTicks, vars
<1>8. CASE \E p \in Process : Crash(p)
  BY <1>8, <1>1 DEF Crash
<1>. QED BY <1>1, <1>2, <1>3, <1>4, <1>5, <1>6, <1>7, <1>8 DEF Next

\* What is in flight after a step was in flight before it, or is what a call sent.
LEMMA InflightMoves ==
  ASSUME LoopInv, [Next]_vars
  PROVE  \/ inflight' \subseteq inflight
         \/ /\ inflight' \subseteq inflight \cup {tx \in Tx : tx.awaited}
            /\ \E l \in Lane : Submit(l)
         \/ faults' \cap {"giveup", "crash"} # {}
<1>1. ASSUME NEW m \in Market, Works(m) \/ Fails(m) \/ FeedMoves(m)
      PROVE  UNCHANGED inflight
  BY <1>1 DEF Works, Fails, Wake, Look, Looks, PushPrice, BotsDone, Recount, WakeBlind,
              LooksAmiss, Misreads, RecountFails, Stranger, Expires, FeedMoves, calls
<1>2. ASSUME NEW l \in Lane, Submit(l)
      PROVE  inflight' \subseteq inflight \cup {tx \in Tx : tx.awaited}
  <2>1. PICK call : call = Head(queue[l])
    OBVIOUS
  <2>2. queue[l] # <<>> /\ (UNCHANGED inflight
          \/ inflight' = inflight \cup {[lane |-> l, call |-> call, awaited |-> TRUE]})
    BY <1>2, <2>1 DEF Submit
  <2>3. call \in Call
    <3>1. PICK q : q = [queue EXCEPT ![l] = Tail(@)]
      OBVIOUS
    <3>. QED BY <2>1, <2>2, <3>1, Popped, HeldCalls DEF LoopInv, OwnInv
  <2>4. PICK new : new = [lane |-> l, call |-> call, awaited |-> TRUE]
    OBVIOUS
  <2>5. new \in Tx /\ new.awaited
    BY <2>3, <2>4 DEF Tx
  <2>. QED BY <2>2, <2>4, <2>5
<1>3. ASSUME NEW l \in Lane, Throw(l) \/ SendFails(l)
      PROVE  UNCHANGED inflight
  BY <1>3 DEF Throw, SendFails
<1>4. ASSUME \/ \E l \in Lane : GiveUp(l)
             \/ \E p \in Process : Crash(p)
      PROVE  faults' \cap {"giveup", "crash"} # {}
  BY <1>4 DEF GiveUp, Crash, Faulty
<1>5. ASSUME NEW tx \in inflight, Land(tx) \/ LandUnread(tx) \/ Drop(tx)
      PROVE  inflight' \subseteq inflight
  BY <1>5 DEF Land, LandUnread, Drop, Lands
<1>6. CASE ClockTicks \/ UNCHANGED vars
  BY <1>6 DEF ClockTicks, calls, vars
<1>. QED BY <1>1, <1>2, <1>3, <1>4, <1>5, <1>6 DEF Next, Serves

LEMMA AwaitedKept == LoopInv /\ AllAwaited /\ [Next]_vars => AllAwaited'
BY FaultsGrow, InflightMoves DEF AllAwaited

LEMMA AwaitedAlways == Spec => [](LoopInv /\ AllAwaited)
<1>1. Init => AllAwaited
  BY DEF Init, AllAwaited
<1>. QED BY <1>1, InitLoop, LoopKept, AwaitedKept, PTL DEF Spec

LEMMA OneOfAChain ==
  ASSUME LoopInv, NEW tx \in inflight, NEW other \in inflight,
         tx.awaited, other.awaited, tx.lane = other.lane
  PROVE  tx = other
BY AwaitedFacts DEF LoopInv, InflightInv, Tx

\* "One in-flight tx per signing account": the promise chain of a key holds as long
\* as nobody stops polling for a transaction that may still land.
THEOREM OneTransactionPerAccount == Spec => []OneInFlight
<1>1. LoopInv /\ AllAwaited => OneInFlight
  <2> SUFFICES ASSUME LoopInv, AllAwaited, faults \cap {"giveup", "crash"} = {},
                      NEW a \in Account
               PROVE  Cardinality({tx \in inflight :
                                     tx.lane[2] = a /\ Demo(tx.call.market)}) <= 1
    BY DEF OneInFlight
  <2> DEFINE own == {tx \in inflight : tx.lane[2] = a /\ Demo(tx.call.market)}
  <2>1. ASSUME NEW tx \in own PROVE tx.awaited /\ tx.lane = <<"demo", a>>
    <3>1. tx \in Tx /\ tx.lane[1] = Loop(tx.call.market) /\ tx.lane[2] = a
          /\ tx.lane = <<tx.lane[1], tx.lane[2]>>
      BY Lanes DEF LoopInv, InflightInv, Proper, Tx
    <3>. QED BY <3>1 DEF AllAwaited, Demo
  <2>2. \A tx, other \in own : tx = other
    BY <2>1, OneOfAChain
  <2>3. CASE own = {}
    <3>1. Cardinality(own) = 0
      BY <2>3, FS_EmptySet
    <3>. QED BY <3>1
  <2>4. CASE own # {}
    <3>1. PICK tx : own = {tx}
      BY <2>2, <2>4
    <3>2. Cardinality(own) = 1
      BY <3>1, FS_Singleton
    <3>. QED BY <3>2
  <2>. QED BY <2>3, <2>4
<1>. QED BY <1>1, AwaitedAlways, PTL


-----------------------------------------------------------------------------
(* Settling on a fresh price *)

LEMMA NextGrows ==
  ASSUME LoopInv, [Next]_vars
  PROVE  MarketInv' /\ Grows /\ UNCHANGED deployed
<1>1. MarketInv /\ MemoryInv /\ deployed.until \in 1..MaxTime
  BY Deployed DEF LoopInv, OwnInv, MemoryInv
<1>2. ASSUME UNCHANGED markets PROVE MarketInv' /\ Grows
  BY <1>1, <1>2, SameMarkets
<1>3. ASSUME NEW m \in Market, Stranger(m) PROVE MarketInv' /\ Grows
  BY <1>1, <1>3, CreateMoves, SettleMoves DEF Stranger
<1>4. ASSUME NEW m \in Market, FeedMoves(m) PROVE MarketInv' /\ Grows
  <2>1. PICK spot \in Price : Series!Push(m, spot)
    BY <1>1, <1>4, FeedPrice DEF FeedMoves
  <2>. QED BY <1>1, <2>1, PushMoves
<1>5. ASSUME NEW m \in Market, NEW r \in RoundId, Expires(m, r) PROVE MarketInv' /\ Grows
  BY <1>1, <1>5, TimeMoves DEF Expires, MarketInv
<1>6. ASSUME ClockTicks PROVE MarketInv' /\ Grows
  <2>1. Series!TimePasses /\ now' \in {now, now + 1} /\ now' <= deployed.until
    BY <1>6 DEF ClockTicks
  <2>2. now' \in 1..MaxTime
    BY <1>1, <2>1, Bounds DEF MarketInv
  <2>. QED BY <1>1, <2>1, <2>2, TimeMoves
<1>7. ASSUME NEW tx \in inflight, Land(tx) \/ LandUnread(tx) PROVE MarketInv' /\ Grows
  <2>1. PICK result : Lands(tx, result)
    BY <1>7 DEF Land, LandUnread
  <2>2. PICK l \in Lane : l = tx.lane
    BY DEF LoopInv, InflightInv, Tx
  <2>3. Applies(tx.call, l[2]) \/ UNCHANGED markets
    BY <2>1, <2>2 DEF Lands
  <2>4. Proper(l, tx.call)
    BY <2>2 DEF LoopInv, InflightInv
  <2>. QED BY <1>2, <2>3, <2>4, AppliesMoves
<1>8. MarketInv' /\ Grows
  <2>1. ASSUME NEW m \in Market, Works(m) PROVE UNCHANGED markets
    BY <2>1 DEF Works, Wake, Look, Looks, PushPrice, BotsDone, Recount
  <2>2. ASSUME NEW m \in Market, Fails(m)
        PROVE  UNCHANGED markets \/ Stranger(m) \/ \E r \in RoundId : Expires(m, r)
    BY <2>2 DEF Fails, WakeBlind, LooksAmiss, Looks, Misreads, RecountFails
  <2>3. ASSUME NEW l \in Lane, Serves(l) \/ SendFails(l) \/ GiveUp(l)
        PROVE  UNCHANGED markets
    BY <2>3 DEF Serves, Submit, Throw, SendFails, GiveUp
  <2>4. ASSUME (\E p \in Process : Crash(p)) \/ (\E tx \in inflight : Drop(tx)) \/ UNCHANGED vars
        PROVE  UNCHANGED markets
    BY <2>4 DEF Crash, Drop, vars
  <2>. QED BY <1>2, <1>3, <1>4, <1>5, <1>6, <1>7, <2>1, <2>2, <2>3, <2>4 DEF Next
<1>9. UNCHANGED deployed
  <2>1. ASSUME NEW m \in Market, Works(m) \/ Fails(m) \/ FeedMoves(m) PROVE UNCHANGED deployed
    BY <2>1 DEF Works, Wake, Look, Looks, PushPrice, BotsDone, Recount, Fails, WakeBlind,
                LooksAmiss, Misreads, RecountFails, Stranger, Expires, FeedMoves
  <2>2. ASSUME NEW l \in Lane, Serves(l) \/ SendFails(l) \/ GiveUp(l)
        PROVE  UNCHANGED deployed
    BY <2>2 DEF Serves, Submit, Throw, SendFails, GiveUp, Ends
  <2>3. ASSUME NEW tx \in inflight, Land(tx) \/ LandUnread(tx) \/ Drop(tx)
        PROVE  UNCHANGED deployed
    BY <2>3 DEF Land, LandUnread, Drop, Lands, Ends
  <2>4. ASSUME (\E p \in Process : Crash(p)) \/ ClockTicks \/ UNCHANGED vars
        PROVE  UNCHANGED deployed
    BY <2>4 DEF Crash, ClockTicks, vars
  <2>. QED BY <2>1, <2>2, <2>3, <2>4 DEF Next
<1>. QED BY <1>8, <1>9

LEMMA RoundAges ==
  ASSUME MarketInv, MarketInv', Grows, NEW m \in Market, NEW r \in RoundId,
         r <= counter[m]
  PROVE  /\ DueNow(m, r) => DueNow(m, r)'
         /\ PricedAt(m, r) => PricedAt(m, r)'
<1>1. now \in Int /\ now' \in Int /\ now <= now'
  BY Bounds DEF MarketInv, Grows
<1>2. rounds'[m][r] # None =>
        /\ rounds[m][r] # None /\ rounds[m][r].settle_ts \in Int
        /\ rounds'[m][r].settle_ts = rounds[m][r].settle_ts
  <2>1. rounds[m][r] \in Series!Round \cup {None}
    BY DEF MarketInv
  <2>. QED BY <2>1 DEF Grows, Series!Round
<1>3. tick[m] # None =>
        /\ tick'[m] # None /\ tick[m].timestamp \in Int /\ tick'[m].timestamp \in Int
        /\ tick[m].timestamp <= tick'[m].timestamp
  BY DEF MarketInv, Grows
<1>. QED BY <1>1, <1>2, <1>3 DEF DueNow, PricedAt

LEMMA FreshStays ==
  ASSUME LoopInv, MarketInv', Grows, NEW m \in Market, FreshLoop(m),
         pc'[m] = pc[m], current'[m] = current[m]
  PROVE  FreshLoop(m)'
<1>1. CASE pc[m] \in {"close", "closing", "settling"}
  <2>1. PICK r \in RoundId : r = current[m] /\ r <= counter[m]
    <3>1. current[m] # 0 /\ current[m] \in 0..MaxRounds /\ current[m] <= counter[m]
      BY <1>1 DEF LoopInv, OwnInv, MemoryInv, Placed
    <3>. QED BY <3>1, Bounds DEF RoundId
  <2>2. /\ DueNow(m, r) => DueNow(m, r)'
        /\ PricedAt(m, r) => PricedAt(m, r)'
    BY <2>1, RoundAges DEF LoopInv
  <2>3. r = current'[m]
    BY <2>1
  <2>. QED BY <2>1, <2>2, <2>3 DEF FreshLoop, DueNow, PricedAt
<1>2. CASE pc[m] \notin {"close", "closing", "settling"}
  BY <1>2 DEF FreshLoop
<1>. QED BY <1>1, <1>2

LEMMA FreshTxStays ==
  ASSUME LoopInv, MarketInv', Grows, UNCHANGED deployed, NEW tx \in inflight, FreshTx(tx)
  PROVE  FreshTx(tx)'
<1>1. Proper(tx.lane, tx.call)
  BY DEF LoopInv, InflightInv
<1>2. CASE tx.call.do = "settle"
  <2>1. tx.call.market \in Market /\ tx.call.arg \in RoundId
        /\ tx.call.arg <= counter[tx.call.market]
    BY <1>1, <1>2 DEF Proper, Call
  <2>2. PricedAt(tx.call.market, tx.call.arg) => PricedAt(tx.call.market, tx.call.arg)'
    BY <2>1, RoundAges DEF LoopInv
  <2>. QED BY <2>2 DEF FreshTx, Demo, Loop
<1>3. CASE tx.call.do # "settle"
  BY <1>3 DEF FreshTx
<1>. QED BY <1>2, <1>3

\* Where a loop can be found after one of its calls has ended.
LEMMA EndedTurns ==
  ASSUME LoopInv, NEW l, NEW call, NEW result, Ended(l, call, result), NEW m \in Market
  PROVE  \/ pc'[m] = pc[m] /\ current'[m] = current[m]
         \/ pc'[m] \in {"asleep", "betting", "recount", "claiming", "creating"}
         \/ /\ call.do = "push" /\ result = "ok" /\ call.market = m
            /\ pc[m] = "closing" /\ pc'[m] = "settling" /\ current'[m] = current[m]
<1>1. PICK q : q = [queue EXCEPT ![l] = Tail(@)]
  OBVIOUS
<1>2. Ending(l, call, q)
  BY <1>1 DEF Ended, Ending
<1>3. AwaitedAt(call) /\ call.do \in {"push", "create", "bet", "settle", "claim"}
      /\ call.market \in Market
  BY <1>2, EndingCall
<1>4. /\ call.do = "push" => PushEnds(q, call.market, result)
      /\ call.do = "create" => CreateEnds(q, call.market, result)
      /\ call.do = "settle" => SettleEnds(q, call.market, result)
      /\ call.do \in {"bet", "claim"} => BotEnds(q, call, l[2], result)
  BY <1>1, <1>3 DEF Ended, Ends
<1>5. pc \in [Market -> Step] /\ current \in [Market -> 0..MaxRounds]
  BY DEF LoopInv, OwnInv, MemoryInv
<1>6. CASE call.do = "push"
  <2>1. UNCHANGED current
    BY <1>4, <1>6 DEF PushEnds
  <2>2. \/ Goes(call.market, "asleep")
        \/ Goes(call.market, "creating")
        \/ result = "ok" /\ pc[call.market] = "closing" /\ Goes(call.market, "settling")
    BY <1>3, <1>4, <1>6 DEF PushEnds, Invoke, AwaitedAt
  <2>. QED BY <1>3, <1>5, <1>6, <2>1, <2>2 DEF Goes
<1>7. CASE call.do = "create"
  <2>1. /\ UNCHANGED current \/ Minds(call.market, counter'[call.market])
        /\ \/ Goes(call.market, "asleep")
           \/ Goes(call.market, "betting")
           \/ Goes(call.market, "recount")
    BY <1>4, <1>7 DEF CreateEnds, AutoBet
  <2>. QED BY <1>3, <1>5, <2>1 DEF Goes, Minds
<1>8. CASE call.do = "settle"
  <2>1. /\ UNCHANGED current
        /\ \/ Goes(call.market, "asleep")
           \/ Goes(call.market, "claiming")
           \/ Goes(call.market, "creating")
    BY <1>4, <1>8 DEF SettleEnds, AutoClaim, Invoke
  <2>. QED BY <1>3, <1>5, <2>1 DEF Goes
<1>9. CASE call.do \in {"bet", "claim"}
  BY <1>4, <1>9 DEF BotEnds
<1>. QED BY <1>3, <1>6, <1>7, <1>8, <1>9

LEMMA LooksFresh ==
  ASSUME LoopInv, NEW n \in Market, NEW clock, Looks(n, clock), NEW m \in Market
  PROVE  \/ pc'[m] = pc[m] /\ current'[m] = current[m]
         \/ pc'[m] \notin {"close", "closing", "settling"}
         \/ ~Demo(m)
         \/ /\ pc'[m] = "close" /\ current'[m] = current[m]
            /\ rounds[m][current[m]] # None /\ Due(rounds[m][current[m]], clock)
<1>1. pc \in [Market -> Step] /\ current \in [Market -> 0..MaxRounds]
  BY DEF LoopInv, OwnInv, MemoryInv
<1>2. CASE n # m
  <2>1. \E step : Goes(n, step)
    BY DEF Looks, NoRound, MissingRound, DemoLooks, XlmLooks, AutoBet, AutoClaim, Invoke
  <2>2. UNCHANGED current \/ \E r : Minds(n, r)
    BY DEF Looks, MissingRound
  <2>. QED BY <1>1, <1>2, <2>1, <2>2 DEF Goes, Minds
<1>3. CASE n = m /\ Demo(m)
  <2>1. PICK round : round = rounds[m][current[m]]
    OBVIOUS
  <2>2. CASE current[m] = 0
    BY <1>1, <1>3, <2>2 DEF Looks, NoRound, Demo, Goes
  <2>3. CASE current[m] # 0 /\ round = None
    BY <1>1, <1>3, <2>1, <2>3 DEF Looks, MissingRound, Demo, Goes
  <2>4. CASE current[m] # 0 /\ round # None
    <3>1. DemoLooks(m, round, clock) /\ UNCHANGED current
      BY <1>3, <2>1, <2>4 DEF Looks, Demo
    <3>2. \/ Goes(m, "betting")
          \/ Due(round, clock) /\ Goes(m, "close")
          \/ Goes(m, "claiming")
          \/ Goes(m, "asleep")
      BY <3>1 DEF DemoLooks, AutoBet, AutoClaim
    <3>. QED BY <1>1, <2>1, <2>4, <3>1, <3>2 DEF Goes
  <2>. QED BY <2>1, <2>2, <2>3, <2>4
<1>. QED BY <1>2, <1>3

LEMMA FreshLoops ==
  ASSUME LoopInv, [Next]_vars, "clock" \notin faults',
         NEW m \in Market, Demo(m), FreshLoop(m)
  PROVE  FreshLoop(m)'
<1>1. MarketInv' /\ Grows /\ UNCHANGED deployed
  BY NextGrows
<1>2. pc \in [Market -> Step] /\ current \in [Market -> 0..MaxRounds]
  BY DEF LoopInv, OwnInv, MemoryInv
<1>3. CASE pc'[m] = pc[m] /\ current'[m] = current[m]
  BY <1>1, <1>3, FreshStays
<1>4. CASE pc'[m] \notin {"close", "closing", "settling"}
  BY <1>4 DEF FreshLoop
<1>5. CASE /\ pc'[m] \in {"close", "closing"} /\ current'[m] = current[m]
           /\ DueNow(m, current[m]) /\ UNCHANGED markets
  BY <1>5 DEF FreshLoop, DueNow, markets
<1>6. ASSUME NEW n \in Market, NEW clock, Looks(n, clock), clock = now
      PROVE  FreshLoop(m)'
  <2>1. UNCHANGED markets
    BY <1>6 DEF Looks
  <2>2. Due(rounds[m][current[m]], now) => DueNow(m, current[m])
    BY DEF Due, DueNow
  <2>. QED BY <1>3, <1>4, <1>5, <1>6, <2>1, <2>2, LooksFresh
<1>7. ASSUME NEW n \in Market, PushPrice(n) PROVE FreshLoop(m)'
  <2>1. /\ UNCHANGED markets /\ UNCHANGED current
        /\ \/ pc[n] = "open" /\ Goes(n, "opening")
           \/ pc[n] = "close" /\ Goes(n, "closing")
    BY <1>7 DEF PushPrice, Invoke
  <2>2. CASE n = m
    <3>1. pc[m] = "close" => DueNow(m, current[m])
      BY DEF FreshLoop
    <3>. QED BY <1>2, <1>4, <1>5, <2>1, <2>2, <3>1 DEF Goes
  <2>3. CASE n # m
    BY <1>2, <1>3, <2>1, <2>3 DEF Goes
  <2>. QED BY <2>2, <2>3
<1>8. ASSUME NEW n \in Market,
             Wake(n) \/ BotsDone(n) \/ Recount(n) \/ WakeBlind(n) \/ Misreads(n) \/ RecountFails(n)
      PROVE  FreshLoop(m)'
  <2>1. \E step \in {"look", "asleep", "open", "betting"} : Goes(n, step)
    BY <1>8 DEF Wake, BotsDone, Recount, WakeBlind, Misreads, RecountFails, MissingRound, AutoBet
  <2>2. UNCHANGED current \/ \E r : Minds(n, r)
    BY <1>8 DEF Wake, BotsDone, Recount, WakeBlind, Misreads, RecountFails, MissingRound
  <2>. QED BY <1>2, <1>3, <1>4, <2>1, <2>2 DEF Goes, Minds
<1>9. ASSUME UNCHANGED memory PROVE FreshLoop(m)'
  BY <1>3, <1>9 DEF memory
<1>10. ASSUME NEW l, NEW call, NEW result, Ended(l, call, result),
              call.do = "push" /\ call.market = m /\ result = "ok" => tick'[m] # None
                /\ tick'[m].timestamp = now /\ UNCHANGED rounds
       PROVE  FreshLoop(m)'
  <2>1. CASE /\ call.do = "push" /\ result = "ok" /\ call.market = m
             /\ pc[m] = "closing" /\ pc'[m] = "settling" /\ current'[m] = current[m]
    <3>1. DueNow(m, current[m])
      BY <2>1 DEF FreshLoop
    <3>2. PICK r : r = current[m]
      OBVIOUS
    <3>3. PricedAt(m, r)'
      BY <1>10, <2>1, <3>1, <3>2 DEF DueNow, PricedAt
    <3>4. r = current'[m]
      BY <2>1, <3>2
    <3>. QED BY <2>1, <3>3, <3>4 DEF FreshLoop, PricedAt
  <2>. QED BY <1>3, <1>4, <1>10, <2>1, EndedTurns
<1>11. ASSUME NEW l \in Lane, Serves(l) \/ SendFails(l) \/ GiveUp(l) PROVE FreshLoop(m)'
  BY <1>9, <1>10, <1>11, Unanswered
<1>12. ASSUME NEW tx \in inflight, NEW result, Lands(tx, result), faults' \in SUBSET deployed.faults
       PROVE  FreshLoop(m)'
  <2>1. PICK l, call : l = tx.lane /\ call = tx.call
    OBVIOUS
  <2>2. /\ Proper(l, call)
        /\ tx.awaited /\ Accepted(call, l[2]) => Ended(l, call, result)
        /\ ~(tx.awaited /\ Accepted(call, l[2])) => UNCHANGED memory
    BY <1>12, <2>1, LandedWell
  <2>3. Accepted(call, l[2]) => Applies(call, l[2])
    BY <1>12, <2>1 DEF Lands
  <2>4. CASE Accepted(call, l[2]) /\ call.do = "push" /\ call.market = m
    <3>1. Series!Push(m, call.arg) /\ call.arg \in Price
      BY <2>2, <2>3, <2>4 DEF Applies, Proper
    <3>2. tick'[m] # None /\ tick'[m].timestamp = now /\ UNCHANGED rounds
      BY <3>1, PushMoves DEF LoopInv
    <3>. QED BY <1>9, <1>10, <2>2, <2>4, <3>2
  <2>. QED BY <1>9, <1>10, <2>2, <2>4
<1>13. ASSUME NEW p \in Process, Crash(p) PROVE FreshLoop(m)'
  BY <1>3, <1>4, <1>13 DEF Crash
<1>14. faults' \in SUBSET deployed.faults
  BY <1>1, LoopKept DEF LoopInv, OwnInv, MemoryInv
<1>15. ASSUME NEW n \in Market, Works(n) \/ Fails(n) \/ FeedMoves(n) PROVE FreshLoop(m)'
  <2>1. ~LooksAmiss(n)
    BY DEF LooksAmiss, Faulty
  <2>2. Stranger(n) \/ FeedMoves(n) \/ (\E r \in RoundId : Expires(n, r)) => UNCHANGED memory
    BY DEF Stranger, FeedMoves, Expires
  <2>. QED BY <1>6, <1>7, <1>8, <1>9, <1>15, <2>1, <2>2 DEF Works, Fails, Look
<1>16. ASSUME NEW tx \in inflight, Land(tx) \/ LandUnread(tx) \/ Drop(tx) PROVE FreshLoop(m)'
  BY <1>9, <1>12, <1>14, <1>16 DEF Land, LandUnread, Drop
<1>17. CASE ClockTicks \/ UNCHANGED vars
  BY <1>9, <1>17 DEF ClockTicks, vars
<1>. QED BY <1>11, <1>13, <1>15, <1>16, <1>17 DEF Next

\* What is in flight was so before, awaited or not, or is a call a loop awaits.
LEMMA Carried ==
  ASSUME LoopInv, [Next]_vars, NEW tx \in inflight'
  PROVE  \/ \E old \in inflight : tx.lane = old.lane /\ tx.call = old.call
         \/ /\ UNCHANGED <<markets, memory>>
            /\ tx.call.market \in Market /\ AwaitedAt(tx.call)
<1>1. ASSUME NEW m \in Market, Works(m) \/ Fails(m) \/ FeedMoves(m)
      PROVE  UNCHANGED inflight
  BY <1>1 DEF Works, Fails, Wake, Look, Looks, PushPrice, BotsDone, Recount, WakeBlind,
              LooksAmiss, Misreads, RecountFails, Stranger, Expires, FeedMoves, calls
<1>2. ASSUME NEW l \in Lane, Submit(l)
      PROVE  tx \in inflight \/ /\ UNCHANGED <<markets, memory>>
                                /\ tx.call.market \in Market /\ AwaitedAt(tx.call)
  <2>1. PICK call : call = Head(queue[l])
    OBVIOUS
  <2>2. PICK new : new = [lane |-> l, call |-> call, awaited |-> TRUE]
    OBVIOUS
  <2>3. /\ queue[l] # <<>>
        /\ \/ UNCHANGED inflight
           \/ inflight' = inflight \cup {new} /\ UNCHANGED <<markets, memory>>
    BY <1>2, <2>1, <2>2 DEF Submit
  <2>4. call.market \in Market /\ AwaitedAt(call)
    <3>1. PICK q : q = [queue EXCEPT ![l] = Tail(@)]
      OBVIOUS
    <3>. QED BY <2>1, <2>3, <3>1, Popped, HeldCalls DEF LoopInv, OwnInv
  <2>. QED BY <2>2, <2>3, <2>4
<1>3. ASSUME NEW l \in Lane, Throw(l) \/ SendFails(l)
      PROVE  UNCHANGED inflight
  BY <1>3 DEF Throw, SendFails
<1>4. ASSUME NEW lanes, inflight' = Forgotten(lanes)
      PROVE  \E old \in inflight : tx.lane = old.lane /\ tx.call = old.call
  BY <1>4, ForgottenTx DEF LoopInv, InflightInv
<1>5. ASSUME NEW other \in inflight, Land(other) \/ LandUnread(other) \/ Drop(other)
      PROVE  inflight' \subseteq inflight
  BY <1>5 DEF Land, LandUnread, Drop, Lands
<1>6. CASE ClockTicks \/ UNCHANGED vars
  BY <1>6 DEF ClockTicks, calls, vars
<1>. QED BY <1>1, <1>2, <1>3, <1>4, <1>5, <1>6 DEF Next, Serves, GiveUp, Crash

LEMMA FreshKept == LoopInv /\ FreshInv /\ [Next]_vars => FreshInv'
<1> SUFFICES ASSUME LoopInv, FreshInv, [Next]_vars, "clock" \notin faults'
             PROVE  /\ \A m \in Market : Demo(m)' => FreshLoop(m)'
                    /\ \A tx \in inflight' : FreshTx(tx)'
  BY DEF FreshInv
<1>1. /\ \A m \in Market : Demo(m) => FreshLoop(m)
      /\ \A tx \in inflight : FreshTx(tx)
  BY FaultsGrow DEF FreshInv
<1>2. MarketInv' /\ Grows /\ UNCHANGED deployed
  BY NextGrows
<1>3. ASSUME NEW m \in Market, Demo(m)' PROVE FreshLoop(m)'
  BY <1>1, <1>2, <1>3, FreshLoops DEF Demo, Loop
<1>4. ASSUME NEW tx \in inflight' PROVE FreshTx(tx)'
  <2>1. ASSUME NEW old \in inflight, tx.lane = old.lane, tx.call = old.call
        PROVE  FreshTx(tx)'
    <3>1. FreshTx(old)'
      BY <1>1, <1>2, FreshTxStays
    <3>. QED BY <2>1, <3>1 DEF FreshTx
  <2>2. ASSUME UNCHANGED <<markets, memory>>, tx.call.market \in Market, AwaitedAt(tx.call)
        PROVE  FreshTx(tx)'
    <3>1. PICK call : call = tx.call
      OBVIOUS
    <3>2. call.do = "settle" /\ Demo(call.market) => PricedAt(call.market, call.arg)
      BY <1>1, <2>2, <3>1 DEF FreshLoop, AwaitedAt
    <3>3. UNCHANGED <<rounds, tick, deployed>>
      BY <1>2, <2>2 DEF markets
    <3>. QED BY <3>1, <3>2, <3>3 DEF FreshTx, PricedAt, Demo, Loop
  <2>. QED BY <2>1, <2>2, Carried
<1>. QED BY <1>3, <1>4

LEMMA FreshAlways == Spec => [](LoopInv /\ FreshInv)
<1>1. Init => FreshInv
  BY DEF Init, FreshInv, FreshLoop
<1>. QED BY <1>1, InitLoop, LoopKept, FreshKept, PTL DEF Spec

\* A transaction settles the round its call names, and no other.
LEMMA SettlesItsRound ==
  ASSUME LoopInv, NEW l \in Lane, NEW call, Proper(l, call), Applies(call, l[2]),
         NEW m \in Market, NEW r \in RoundId, Open(m, r), Settled(m, r)'
  PROVE  call.do = "settle" /\ call.market = m /\ call.arg = r
<1>1. /\ MarketInv /\ call.market \in Market
      /\ call.do \in {"push", "create", "bet", "settle", "claim"}
      /\ call.do = "push" => call.arg \in Price
      /\ call.do \in {"bet", "settle", "claim"} => call.arg \in RoundId
      /\ call.do \in {"bet", "claim"} => l[2] \in Bot
  BY DEF LoopInv, Proper, Call
<1>2. ~Settled(m, r)
  BY DEF Open, Settled, Series!HasStatus
<1>3. PICK n \in Market : n = call.market
  BY <1>1
<1>4. CASE call.do = "push"
  <2>1. Series!Push(n, call.arg)
    BY <1>3, <1>4 DEF Applies
  <2>2. UNCHANGED rounds
    BY <1>1, <1>4, <2>1, PushMoves
  <2>. QED BY <1>2, <2>2 DEF Settled, Series!HasStatus
<1>5. CASE call.do = "create"
  <2>1. Series!Create(n, LockOffset, OracleInterval)
    BY <1>3, <1>5 DEF Applies
  <2>2. /\ rounds'[n][counter[n] + 1].status = "Open"
        /\ \A k \in Market : k # n => rounds'[k] = rounds[k]
        /\ \A s \in RoundId : s # counter[n] + 1 => rounds'[n][s] = rounds[n][s]
    BY <1>1, <2>1, CreateMoves
  <2>. QED BY <1>2, <2>2 DEF Settled, Series!HasStatus
<1>6. CASE call.do = "bet"
  <2>1. PICK s \in RoundId, b \in Bot : s = call.arg /\ b = l[2]
    BY <1>1, <1>6
  <2>2. Series!Bet(n, s, b, SideOf[b])
    BY <1>3, <1>6, <2>1 DEF Applies
  <2>3. Settled(m, r)' <=> Settled(m, r)
    BY <1>1, <2>2, BetMoves
  <2>. QED BY <1>2, <2>3
<1>7. CASE call.do = "settle"
  <2>1. PICK s \in RoundId : s = call.arg
    BY <1>1, <1>7
  <2>2. Series!SettleRound(n, s)
    BY <1>3, <1>7, <2>1 DEF Applies
  <2>3. m # n \/ r # s => rounds'[m][r] = rounds[m][r]
    BY <1>1, <2>2, SettleMoves
  <2>. QED BY <1>2, <1>3, <1>7, <2>1, <2>3 DEF Settled, Series!HasStatus
<1>8. CASE call.do = "claim"
  <2>1. PICK s \in RoundId, b \in Bot : s = call.arg /\ b = l[2]
    BY <1>1, <1>8
  <2>2. Series!Claim(n, s, b)
    BY <1>3, <1>8, <2>1 DEF Applies
  <2>3. UNCHANGED rounds
    BY <1>1, <2>2, ClaimMoves
  <2>. QED BY <1>2, <2>3 DEF Settled, Series!HasStatus
<1>. QED BY <1>1, <1>4, <1>5, <1>6, <1>7, <1>8

\* Without a stranger a round is settled by a keeper's transaction.
LEMMA SettledByTx ==
  ASSUME LoopInv, [Next]_vars, NEW m \in Market, NEW r \in RoundId,
         Open(m, r), Settled(m, r)', "stranger" \notin faults'
  PROVE  \E tx \in inflight : tx.call.do = "settle" /\ tx.call.market = m /\ tx.call.arg = r
<1>1. ~Settled(m, r)
  BY DEF Open, Settled, Series!HasStatus
<1>2. CASE UNCHANGED markets
  BY <1>1, <1>2 DEF Settled, Series!HasStatus, markets
<1>3. ASSUME MarketInv, Series!TimePasses, now' \in 1..MaxTime
      PROVE  FALSE
  BY <1>1, <1>3, TimeMoves DEF Settled, Series!HasStatus
<1>4. MarketInv /\ MarketInv' /\ MemoryInv
  BY NextGrows DEF LoopInv, OwnInv
<1>5. ASSUME NEW n \in Market, Works(n) \/ Fails(n) \/ FeedMoves(n) PROVE UNCHANGED markets
  <2>1. ~Stranger(n) /\ \A s \in RoundId : ~Expires(n, s)
    BY <1>3, <1>4 DEF Stranger, Faulty, Expires, MarketInv
  <2>2. ~FeedMoves(n)
    BY <1>1, <1>4, FeedPrice, PushMoves DEF FeedMoves, Settled, Series!HasStatus
  <2>. QED BY <1>5, <2>1, <2>2 DEF Works, Wake, Look, Looks, PushPrice, BotsDone, Recount,
              Fails, WakeBlind, LooksAmiss, Misreads, RecountFails
<1>6. ASSUME NEW l \in Lane, Serves(l) \/ SendFails(l) \/ GiveUp(l) PROVE UNCHANGED markets
  BY <1>6, Unanswered
<1>7. ASSUME NEW tx \in inflight, NEW result, Lands(tx, result)
      PROVE  \/ UNCHANGED markets
             \/ tx.call.do = "settle" /\ tx.call.market = m /\ tx.call.arg = r
  <2>1. PICK l \in Lane : l = tx.lane
    BY DEF LoopInv, InflightInv, Tx
  <2>2. PICK call : call = tx.call
    OBVIOUS
  <2>3. Proper(l, call) /\ (Applies(call, l[2]) \/ UNCHANGED markets)
    BY <1>7, <2>1, <2>2 DEF Lands, LoopInv, InflightInv
  <2>. QED BY <2>2, <2>3, SettlesItsRound
<1>8. ASSUME ClockTicks PROVE FALSE
  <2>1. now' \in 1..MaxTime
    BY <1>4 DEF MarketInv
  <2>. QED BY <1>3, <1>4, <1>8, <2>1 DEF ClockTicks
<1>. QED BY <1>2, <1>5, <1>6, <1>7, <1>8 DEF Next, Crash, Land, LandUnread, Drop, vars

\* Although the oracle forgets the price at settle_ts, the demo keeper settles on a
\* price pushed at or after it, unless its clock is off or somebody else settles.
THEOREM SettlesOnFreshPrice == Spec => FreshSettlement
<1>1. LoopInv /\ FreshInv /\ [Next]_vars =>
        [\A m \in Market, r \in RoundId :
           Demo(m) /\ Series!HasStatus(m, r, "Open") /\ Series!HasStatus(m, r, "Settled")'
           /\ faults' \cap {"clock", "stranger"} = {}
           => tick[m].timestamp >= rounds[m][r].settle_ts]_vars
  <2> SUFFICES ASSUME LoopInv, FreshInv, [Next]_vars, NEW m \in Market, NEW r \in RoundId,
                      Demo(m), Open(m, r), Settled(m, r)',
                      faults' \cap {"clock", "stranger"} = {}
               PROVE  tick[m].timestamp >= rounds[m][r].settle_ts
    BY DEF Open, Settled
  <2>1. PICK tx \in inflight :
          tx.call.do = "settle" /\ tx.call.market = m /\ tx.call.arg = r
    BY SettledByTx
  <2>2. FreshTx(tx)
    BY FaultsGrow DEF FreshInv
  <2>3. PricedAt(m, r)
    BY <2>1, <2>2 DEF FreshTx
  <2>. QED BY <2>3 DEF PricedAt, Open, Series!HasStatus
<1>. QED BY <1>1, FreshAlways, PTL DEF Spec, FreshSettlement


-----------------------------------------------------------------------------
(* How a call ends, by its kind *)

\* What a chain holds now it held before, or it is one call.
Held1(new) ==
  \A l \in Lane : \A call \in Held(queue'[l]) : call \in Held(queue[l]) \/ call = new

LEMMA ChainsOne ==
  ASSUME NEW m \in Market, NEW q, Rest(q, m), NEW accounts, NEW call \in Call,
         call.market = m, queue' = Chained(q, m, accounts, call)
  PROVE  /\ Held1(call)
         /\ \A l \in Lane : /\ Held(q[l]) \subseteq Held(queue'[l])
                            /\ l[1] = Loop(m) /\ l[2] \in accounts => call \in Held(queue'[l])
<1>1. Joined(queue', q, m, accounts, call)
  BY ChainedCalls
<1>2. \A l \in Lane : Held(q[l]) \subseteq Held(queue[l])
  BY DEF Rest
<1>. QED BY <1>1, <1>2 DEF Joined, Held1

LEMMA InvokesOne ==
  ASSUME NEW m \in Market, NEW q, Rest(q, m),
         NEW do \in {"push", "create", "bet", "settle", "claim"},
         NEW arg \in RoundId \cup Price \cup {None}, NEW accounts,
         queue' = Chained(q, m, accounts, Calls(m, do, arg))
  PROVE  Held1(Calls(m, do, arg)) /\ \A k \in Lane : Held(q[k]) \subseteq Held(queue'[k])
BY Calling, ChainsOne

LEMMA PushEnded ==
  ASSUME LoopInv, NEW l, NEW call, NEW result, Ended(l, call, result), call.do = "push",
         NEW m \in Market, m = call.market
  PROVE  /\ pc[m] \in {"opening", "closing"} /\ Elsewhere(m)
         /\ UNCHANGED <<current, lastPushed, betTracker, claimTracker>>
         /\ result # "ok" => pc'[m] = "asleep"
         /\ result = "ok" /\ pc[m] = "opening" => pc'[m] = "creating"
         /\ result = "ok" /\ pc[m] = "closing" => pc'[m] = "settling"
         /\ \A k \in Lane : \A other \in Held(queue'[k]) :
              other \in Held(queue[k]) \/ other.do # "push"
         /\ \A k \in Lane : k # l => Held(queue[k]) \subseteq Held(queue'[k])
<1>1. PICK q : q = [queue EXCEPT ![l] = Tail(@)]
  OBVIOUS
<1>2. Ending(l, call, q) /\ l \in Lane /\ queue[l] # <<>>
  BY <1>1 DEF Ended, Ending
<1>3. AwaitedAt(call) /\ Rest(q, m)
  BY <1>2, EndingCall
<1>4. PushEnds(q, m, result) /\ UNCHANGED lastPushed
  BY <1>1 DEF Ended, Ends
<1>5. pc \in [Market -> Step] /\ current \in [Market -> 0..MaxRounds] /\ Placed(m)
  BY DEF LoopInv, OwnInv, MemoryInv
<1>6. pc[m] \in {"opening", "closing"}
  BY <1>3 DEF AwaitedAt
<1>7. \A k \in Lane : k # l => Held(queue[k]) \subseteq Held(q[k])
  BY <1>1, <1>2, Popped
<1>8. CASE result # "ok"
  <2>1. queue' = q /\ Goes(m, "asleep") /\ UNCHANGED <<current, betTracker, claimTracker>>
    BY <1>4, <1>8 DEF PushEnds
  <2>2. \A k \in Lane : \A other \in Held(queue'[k]) : other \in Held(queue[k])
    BY <1>3, <2>1 DEF Rest
  <2>. QED BY <1>4, <1>5, <1>6, <1>7, <1>8, <2>1, <2>2 DEF Goes, Elsewhere
<1>9. CASE result = "ok"
  <2>1. PICK do \in {"create", "settle"}, arg \in RoundId \cup {None} :
          /\ queue' = Chained(q, m, {Admin}, Calls(m, do, arg))
          /\ IF pc[m] = "opening" THEN Goes(m, "creating") ELSE Goes(m, "settling")
    <3>1. pc[m] = "closing" => current[m] \in RoundId
      BY <1>5, Bounds DEF Placed, RoundId
    <3>2. CASE pc[m] = "opening"
      BY <1>4, <1>9, <3>2 DEF PushEnds, Invoke
    <3>3. CASE pc[m] = "closing"
      BY <1>4, <1>9, <3>1, <3>3 DEF PushEnds, Invoke
    <3>. QED BY <1>6, <3>2, <3>3
  <2>2. UNCHANGED <<current, betTracker, claimTracker>>
    BY <1>4 DEF PushEnds
  <2>3. /\ Held1(Calls(m, do, arg)) /\ Calls(m, do, arg).do # "push"
        /\ \A k \in Lane : Held(q[k]) \subseteq Held(queue'[k])
    BY <1>3, <2>1, InvokesOne, Calling
  <2>. QED BY <1>4, <1>5, <1>6, <1>7, <1>9, <2>1, <2>2, <2>3 DEF Goes, Elsewhere, Held1
<1>. QED BY <1>8, <1>9

LEMMA CreateEnded ==
  ASSUME LoopInv, NEW l, NEW call, NEW result, Ended(l, call, result), call.do = "create",
         NEW m \in Market, m = call.market
  PROVE  /\ pc[m] = "creating" /\ Elsewhere(m) /\ UNCHANGED <<lastPushed, claimTracker>>
         /\ result = "ok" =>
              current'[m] = counter'[m] /\ pc'[m] = IF Demo(m) THEN "betting" ELSE "asleep"
         /\ result # "ok" =>
              /\ UNCHANGED current /\ pc'[m] \in {"asleep", "recount"}
              /\ Demo(m) => pc'[m] = "recount"
         /\ \A k \in Lane : \A other \in Held(queue'[k]) :
              other \in Held(queue[k]) \/ other.do = "bet"
         /\ \A k \in Lane : k # l => Held(queue[k]) \subseteq Held(queue'[k])
<1>1. PICK q : q = [queue EXCEPT ![l] = Tail(@)]
  OBVIOUS
<1>2. Ending(l, call, q) /\ l \in Lane /\ queue[l] # <<>> /\ EndsWell(call, result)
  BY <1>1 DEF Ended, Ending
<1>3. AwaitedAt(call) /\ Rest(q, m)
  BY <1>2, EndingCall
<1>4. CreateEnds(q, m, result) /\ UNCHANGED lastPushed
  BY <1>1 DEF Ended, Ends
<1>5. /\ pc \in [Market -> Step] /\ current \in [Market -> 0..MaxRounds]
      /\ counter' \in [Market -> 0..MaxRounds]
  BY <1>2 DEF LoopInv, OwnInv, MemoryInv, EndsWell, MarketInv
<1>6. pc[m] = "creating"
  BY <1>3 DEF AwaitedAt
<1>7. /\ \A k \in Lane : \A other \in Held(q[k]) : other \in Held(queue[k])
      /\ \A k \in Lane : k # l => Held(queue[k]) \subseteq Held(q[k])
  BY <1>1, <1>2, <1>3, Popped DEF Rest
<1>8. CASE result = "ok" /\ Demo(m)
  <2>1. PICK r \in RoundId : r = counter'[m]
    <3>1. counter'[m] > current[m] /\ counter'[m] \in 0..MaxRounds /\ current[m] \in 0..MaxRounds
      BY <1>2, <1>5, <1>8 DEF EndsWell
    <3>. QED BY <3>1, Bounds DEF RoundId
  <2>2. /\ Minds(m, r) /\ Goes(m, "betting") /\ UNCHANGED claimTracker
        /\ queue' = Chained(q, m, Untried(betTracker, m, r), Calls(m, "bet", r))
    BY <1>4, <1>8, <2>1 DEF CreateEnds, AutoBet, Demo
  <2>3. /\ Held1(Calls(m, "bet", r)) /\ Calls(m, "bet", r).do = "bet"
        /\ \A k \in Lane : Held(q[k]) \subseteq Held(queue'[k])
    <3>1. Calls(m, "bet", r).do = "bet"
      BY Calling
    <3>. QED BY <1>3, <2>2, <3>1, InvokesOne
  <2>. QED BY <1>4, <1>5, <1>6, <1>7, <1>8, <2>1, <2>2, <2>3 DEF Goes, Minds, Elsewhere, Held1
<1>9. CASE result = "ok" /\ ~Demo(m)
  <2>1. /\ Minds(m, counter'[m]) /\ Goes(m, "asleep") /\ UNCHANGED claimTracker /\ queue' = q
    BY <1>4, <1>9 DEF CreateEnds, Demo
  <2>. QED BY <1>4, <1>5, <1>6, <1>7, <1>9, <2>1 DEF Goes, Minds, Elsewhere
<1>10. CASE result # "ok"
  <2>1. /\ queue' = q /\ UNCHANGED <<current, claimTracker>>
        /\ Goes(m, IF result = "null" \/ Demo(m) THEN "recount" ELSE "asleep")
    BY <1>4, <1>10 DEF CreateEnds, Demo
  <2>. QED BY <1>4, <1>5, <1>6, <1>7, <1>10, <2>1 DEF Goes, Elsewhere
<1>. QED BY <1>8, <1>9, <1>10

LEMMA SettleEnded ==
  ASSUME LoopInv, NEW l, NEW call, NEW result, Ended(l, call, result), call.do = "settle",
         NEW m \in Market, m = call.market
  PROVE  /\ pc[m] = "settling" /\ Elsewhere(m) /\ UNCHANGED <<current, lastPushed, betTracker>>
         /\ call.arg = current[m] /\ current[m] \in RoundId
         /\ SettledBySomebody(result) =>
              IF Demo(m)
              THEN pc'[m] = "claiming" /\ claimTracker' = Tried(claimTracker, m, current[m])
              ELSE pc'[m] = "creating" /\ UNCHANGED claimTracker
         /\ ~SettledBySomebody(result) => pc'[m] = "asleep" /\ UNCHANGED claimTracker
         /\ \A k \in Lane : \A other \in Held(queue'[k]) :
              other \in Held(queue[k]) \/ other.do # "push"
         /\ \A k \in Lane : k # l => Held(queue[k]) \subseteq Held(queue'[k])
         /\ SettledBySomebody(result) /\ Demo(m) =>
              \A b \in Untried(claimTracker, m, current[m]) :
                Calls(m, "claim", current[m]) \in Held(queue'[<<"demo", b>>])
<1>1. PICK q : q = [queue EXCEPT ![l] = Tail(@)]
  OBVIOUS
<1>2. Ending(l, call, q) /\ l \in Lane /\ queue[l] # <<>>
  BY <1>1 DEF Ended, Ending
<1>3. AwaitedAt(call) /\ Rest(q, m)
  BY <1>2, EndingCall
<1>4. SettleEnds(q, m, result) /\ UNCHANGED lastPushed
  BY <1>1 DEF Ended, Ends
<1>5. /\ pc \in [Market -> Step] /\ current \in [Market -> 0..MaxRounds] /\ Placed(m)
  BY DEF LoopInv, OwnInv, MemoryInv
<1>6. pc[m] = "settling" /\ call.arg = current[m]
  BY <1>3 DEF AwaitedAt
<1>7. PICK r \in RoundId : r = current[m]
  BY <1>5, <1>6, Bounds DEF Placed, RoundId
<1>8. UNCHANGED <<current, betTracker>>
  BY <1>4 DEF SettleEnds
<1>9. /\ \A k \in Lane : \A other \in Held(q[k]) : other \in Held(queue[k])
      /\ \A k \in Lane : k # l => Held(queue[k]) \subseteq Held(q[k])
  BY <1>1, <1>2, <1>3, Popped DEF Rest
<1>10. CASE SettledBySomebody(result) /\ Demo(m)
  <2>1. /\ queue' = Chained(q, m, Untried(claimTracker, m, r), Calls(m, "claim", r))
        /\ claimTracker' = Tried(claimTracker, m, r) /\ Goes(m, "claiming")
    BY <1>4, <1>7, <1>10 DEF SettleEnds, AutoClaim, Demo
  <2>2. PICK next \in Call : next = Calls(m, "claim", r) /\ next.market = m /\ next.do = "claim"
    BY Calling
  <2>3. /\ Held1(next)
        /\ \A k \in Lane : /\ Held(q[k]) \subseteq Held(queue'[k])
                           /\ k[1] = Loop(m) /\ k[2] \in Untried(claimTracker, m, r) =>
                                next \in Held(queue'[k])
    BY <1>3, <2>1, <2>2, ChainsOne
  <2>4. ASSUME NEW b \in Untried(claimTracker, m, r)
        PROVE  next \in Held(queue'[<<"demo", b>>])
    <3>1. <<"demo", b>> \in Lane
      BY Lanes DEF Untried, Process, Account
    <3>. QED BY <1>10, <2>3, <3>1 DEF Demo
  <2>. QED BY <1>4, <1>5, <1>6, <1>7, <1>8, <1>9, <1>10, <2>1, <2>2, <2>3, <2>4
       DEF Goes, Elsewhere, Held1
<1>11. CASE SettledBySomebody(result) /\ ~Demo(m)
  <2>1. /\ queue' = Chained(q, m, {Admin}, Calls(m, "create", None))
        /\ UNCHANGED claimTracker /\ Goes(m, "creating")
    BY <1>4, <1>11 DEF SettleEnds, Invoke, Demo
  <2>2. PICK next \in Call :
          next = Calls(m, "create", None) /\ next.market = m /\ next.do = "create"
    BY Calling
  <2>3. Held1(next) /\ \A k \in Lane : Held(q[k]) \subseteq Held(queue'[k])
    BY <1>3, <2>1, <2>2, ChainsOne
  <2>. QED BY <1>4, <1>5, <1>6, <1>7, <1>8, <1>9, <1>11, <2>1, <2>2, <2>3
       DEF Goes, Elsewhere, Held1
<1>12. CASE ~SettledBySomebody(result)
  <2>1. queue' = q /\ Goes(m, "asleep") /\ UNCHANGED claimTracker
    BY <1>4, <1>12 DEF SettleEnds
  <2>. QED BY <1>4, <1>5, <1>6, <1>7, <1>8, <1>9, <1>12, <2>1 DEF Goes, Elsewhere
<1>. QED BY <1>10, <1>11, <1>12

LEMMA BotEnded ==
  ASSUME LoopInv, NEW l, NEW call, NEW result, Ended(l, call, result),
         call.do \in {"bet", "claim"}
  PROVE  /\ UNCHANGED <<current, pc, lastPushed>>
         /\ claimTracker' = IF call.do = "claim" /\ result = "error"
                            THEN claimTracker \ {<<call.market, call.arg, l[2]>>}
                            ELSE claimTracker
         /\ \A k \in Lane : Held(queue'[k]) \subseteq Held(queue[k])
         /\ \A k \in Lane : Held(queue[k]) \subseteq Held(queue'[k]) \cup
              (IF k = l THEN {call} ELSE {})
<1>1. PICK q : q = [queue EXCEPT ![l] = Tail(@)]
  OBVIOUS
<1>2. BotEnds(q, call, l[2], result) /\ UNCHANGED lastPushed
  BY <1>1 DEF Ended, Ends
<1>3. queue' = q
  BY <1>2 DEF BotEnds
<1>4. /\ \A k \in Lane : k # l => q[k] = queue[k]
      /\ \A k \in Lane : Held(q[k]) \subseteq Held(queue[k])
      /\ Held(q[l]) = Held(queue[l]) \ {call}
  BY <1>1, Popped DEF Ended
<1>. QED BY <1>2, <1>3, <1>4 DEF BotEnds

-----------------------------------------------------------------------------
(* A round with both sides resolves *)

LEMMA NoneOpenThen ==
  ASSUME LoopInv, NEW m \in Market, CalmLoop(m),
         pc[m] \in {"open", "opening", "creating", "claiming"}
           \/ (pc[m] # "recount" /\ current[m] # 0 /\ ~Open(m, current[m]))
  PROVE  NoneOpen(m)
<1>1. current[m] = counter[m] \/ (current[m] = 0 /\ NoneOpen(m))
  BY DEF CalmLoop
<1>2. Placed(m)
  BY DEF LoopInv, OwnInv
<1>3. ASSUME current[m] = counter[m], NEW r \in RoundId, Open(m, r) PROVE FALSE
  <2>1. r = current[m] /\ current[m] # 0
    BY <1>3 DEF CalmLoop, RoundId
  <2>. QED BY <1>2, <1>3, <2>1 DEF Placed
<1>. QED BY <1>1, <1>3 DEF NoneOpen

LEMMA CalmStill ==
  ASSUME NEW m \in Market, CalmLoop(m), counter'[m] = counter[m], tick'[m] = tick[m],
         pc'[m] = pc[m], current'[m] = current[m], lastPushed'[m] = lastPushed[m],
         \A r \in RoundId : Open(m, r)' =>
           Open(m, r) /\ rounds'[m][r].strike = rounds[m][r].strike
  PROVE  CalmLoop(m)'
BY DEF CalmLoop, NoneOpen

LEMMA CalmTurn ==
  ASSUME NEW m \in Market, CalmLoop(m), UNCHANGED markets, lastPushed'[m] = lastPushed[m],
         pc[m] \notin {"opening", "closing"},
         NoneOpen(m) \/ (pc'[m] \in {"closing", "settling"} <=> pc[m] \in {"closing", "settling"}),
         pc'[m] # "recount" =>
           current'[m] = counter[m] \/ (current'[m] = 0 /\ NoneOpen(m))
  PROVE  CalmLoop(m)'
<1>1. \A r \in RoundId : Open(m, r)' <=> Open(m, r)
  BY DEF Open, Series!HasStatus, markets
<1>. QED BY <1>1 DEF CalmLoop, NoneOpen, markets

\* What one pass of a demo loop does to its market's place.
LEMMA DemoPass ==
  ASSUME LoopInv, NEW n \in Market, Loop(n) # "xlm",
         Wake(n) \/ Look(n) \/ PushPrice(n) \/ BotsDone(n) \/ Recount(n)
  PROVE  /\ UNCHANGED <<markets, deployed, sent, inflight, faults>> /\ Elsewhere(n)
         /\ \A k \in Market : k # n => lastPushed'[k] = lastPushed[k]
         /\ \/ /\ pc[n] = "asleep" /\ pc'[n] = "look" /\ lastPushed'[n] = lastPushed[n]
               /\ current'[n] = IF current[n] = 0 THEN counter[n] ELSE current[n]
            \/ /\ pc[n] = "look" /\ lastPushed'[n] = lastPushed[n]
               /\ pc'[n] \in {"asleep", "open", "close", "betting", "claiming"}
               /\ \/ current'[n] = current[n]
                  \/ /\ current'[n] = 0 /\ current[n] # 0
                     /\ rounds[n][current[n]] = None
            \/ /\ pc[n] = "open" /\ pc'[n] = "opening" /\ current'[n] = current[n]
            \/ /\ pc[n] = "close" /\ pc'[n] = "closing" /\ current'[n] = current[n]
               /\ lastPushed'[n] # lastPushed[n]
            \/ /\ pc[n] \in {"betting", "claiming"} /\ pc'[n] \in {"asleep", "open"}
               /\ current'[n] = current[n] /\ lastPushed'[n] = lastPushed[n]
            \/ /\ pc[n] = "recount" /\ pc'[n] \in {"asleep", "betting"}
               /\ current'[n] = counter[n] /\ lastPushed'[n] = lastPushed[n]
<1>1. /\ pc \in [Market -> Step] /\ current \in [Market -> 0..MaxRounds]
      /\ lastPushed \in [Market -> Price \cup {None}] /\ MemoryInv /\ Placed(n)
      /\ counter \in [Market -> 0..MaxRounds]
  BY DEF LoopInv, OwnInv, MemoryInv, MarketInv
<1>2. CASE Wake(n)
  BY <1>1, <1>2 DEF Wake, Goes, Minds, Elsewhere, calls
<1>3. CASE Look(n)
  <2>1. /\ pc[n] = "look" /\ UNCHANGED <<markets, deployed, lastPushed, sent, inflight, faults>>
    BY <1>3 DEF Look, Looks
  <2>2. Loop(n) = "demo"
    BY <1>1, <2>1, Deployed DEF Placed, MemoryInv, Process
  <2>3. PICK round : round = rounds[n][current[n]]
    OBVIOUS
  <2>4. PICK step \in {"asleep", "open", "close", "betting", "claiming"} :
          /\ Goes(n, step)
          /\ UNCHANGED current \/ (Minds(n, 0) /\ current[n] # 0 /\ round = None)
    <3>1. CASE current[n] = 0
      BY <1>3, <2>2, <3>1 DEF Look, Looks, NoRound
    <3>2. CASE current[n] # 0 /\ round = None
      BY <1>3, <2>2, <2>3, <3>2 DEF Look, Looks, MissingRound
    <3>3. CASE current[n] # 0 /\ round # None
      <4>1. DemoLooks(n, round, now) /\ UNCHANGED current
        BY <1>3, <2>2, <2>3, <3>3 DEF Look, Looks
      <4>. QED BY <4>1 DEF DemoLooks, AutoBet, AutoClaim
    <3>. QED BY <3>1, <3>2, <3>3
  <2>. QED BY <1>1, <2>1, <2>3, <2>4 DEF Goes, Minds, Elsewhere
<1>4. CASE PushPrice(n)
  <2>1. PICK spot \in deployed.spots, step \in {"opening", "closing"} :
          /\ lastPushed' = [lastPushed EXCEPT ![n] = Quote(n, spot)]
          /\ Goes(n, step)
          /\ \/ pc[n] = "open" /\ step = "opening"
             \/ pc[n] = "close" /\ step = "closing"
    BY <1>4 DEF PushPrice, Invoke
  <2>2. UNCHANGED <<markets, deployed, current, sent, inflight, faults>>
    BY <1>4 DEF PushPrice
  <2>3. Quote(n, spot) # lastPushed[n]
    BY <1>1, Deployed, QuotePrice DEF MemoryInv
  <2>4. lastPushed'[n] # lastPushed[n]
        /\ \A k \in Market : k # n => lastPushed'[k] = lastPushed[k]
    BY <1>1, <2>1, <2>3
  <2>5. pc'[n] = step /\ Elsewhere(n)
    BY <1>1, <2>1, <2>2 DEF Goes, Elsewhere
  <2>. QED BY <2>1, <2>2, <2>4, <2>5
<1>5. CASE BotsDone(n)
  BY <1>1, <1>5 DEF BotsDone, Goes, Elsewhere, calls
<1>6. CASE Recount(n)
  <2>1. /\ pc[n] = "recount"
        /\ UNCHANGED <<markets, deployed, lastPushed, claimTracker, sent, inflight, faults>>
    BY <1>6 DEF Recount
  <2>2. CASE counter[n] > current[n]
    <3>1. Minds(n, counter[n]) /\ Goes(n, "betting")
      BY <1>6, <2>2 DEF Recount, AutoBet
    <3>. QED BY <1>1, <2>1, <3>1 DEF Goes, Minds, Elsewhere
  <2>3. CASE ~(counter[n] > current[n])
    <3>1. current[n] = counter[n]
      BY <1>1, <2>3, Bounds DEF Placed
    <3>2. Goes(n, "asleep") /\ UNCHANGED current
      BY <1>6, <2>3 DEF Recount
    <3>. QED BY <1>1, <2>1, <3>1, <3>2 DEF Goes, Elsewhere
  <2>. QED BY <2>2, <2>3
<1>. QED BY <1>2, <1>3, <1>4, <1>5, <1>6

LEMMA CalmPass ==
  ASSUME LoopInv, Calm, \A m \in Market : CalmLoop(m), NEW n \in Market,
         Wake(n) \/ Look(n) \/ PushPrice(n) \/ BotsDone(n) \/ Recount(n)
  PROVE  \A m \in Market : CalmLoop(m)'
<1>1. Loop(n) # "xlm" /\ CalmLoop(n)
  BY DEF Calm
<1>2. /\ UNCHANGED markets /\ Elsewhere(n)
      /\ \A k \in Market : k # n => lastPushed'[k] = lastPushed[k]
  BY <1>1, DemoPass
<1>3. ASSUME NEW m \in Market, m # n PROVE CalmLoop(m)'
  <2>1. \A r \in RoundId : Open(m, r)' <=> Open(m, r)
    BY <1>2 DEF Open, Series!HasStatus, markets
  <2>. QED BY <1>2, <1>3, <2>1, CalmStill DEF Elsewhere, markets
<1>4. ASSUME pc[n] \notin {"opening", "closing"}, lastPushed'[n] = lastPushed[n],
             pc'[n] # "recount", pc'[n] \notin {"closing", "settling"},
             pc[n] \notin {"closing", "settling"},
             current'[n] = counter[n] \/ (current'[n] = 0 /\ NoneOpen(n))
      PROVE  CalmLoop(n)'
  BY <1>1, <1>2, <1>4, CalmTurn
<1>5. pc[n] # "recount" => current[n] = counter[n] \/ (current[n] = 0 /\ NoneOpen(n))
  BY <1>1 DEF CalmLoop
<1>6. CASE /\ pc[n] = "asleep" /\ pc'[n] = "look" /\ lastPushed'[n] = lastPushed[n]
           /\ current'[n] = IF current[n] = 0 THEN counter[n] ELSE current[n]
  BY <1>3, <1>4, <1>5, <1>6
<1>7. CASE /\ pc[n] = "look" /\ lastPushed'[n] = lastPushed[n]
           /\ pc'[n] \in {"asleep", "open", "close", "betting", "claiming"}
           /\ \/ current'[n] = current[n]
              \/ /\ current'[n] = 0 /\ current[n] # 0
                 /\ rounds[n][current[n]] = None
  <2>1. current[n] # 0 /\ rounds[n][current[n]] = None => NoneOpen(n)
    BY <1>1, <1>7, NoneOpenThen DEF Open, Series!HasStatus
  <2>. QED BY <1>3, <1>4, <1>5, <1>7, <2>1
<1>8. CASE pc[n] = "open" /\ pc'[n] = "opening" /\ current'[n] = current[n]
  <2>1. NoneOpen(n)
    BY <1>1, <1>8, NoneOpenThen
  <2>2. NoneOpen(n)' /\ counter'[n] = counter[n]
    BY <1>2, <2>1 DEF NoneOpen, Open, Series!HasStatus, markets
  <2>3. CalmLoop(n)'
    BY <1>5, <1>8, <2>2 DEF CalmLoop, NoneOpen
  <2>. QED BY <1>3, <2>3
<1>9. CASE /\ pc[n] = "close" /\ pc'[n] = "closing" /\ current'[n] = current[n]
           /\ lastPushed'[n] # lastPushed[n]
  <2>1. \A r \in RoundId : Open(n, r)' =>
          Open(n, r) /\ rounds'[n][r].strike = rounds[n][r].strike /\ counter'[n] = counter[n]
    BY <1>2 DEF Open, Series!HasStatus, markets
  <2>2. \A r \in RoundId : Open(n, r) => r = counter[n] /\ rounds[n][r].strike = lastPushed[n]
    BY <1>1, <1>9 DEF CalmLoop
  <2>3. NoneOpen(n) => NoneOpen(n)'
    BY <2>1 DEF NoneOpen
  <2>4. counter'[n] = counter[n]
    BY <1>2 DEF markets
  <2>5. \A r \in RoundId : Open(n, r)' =>
          r = counter'[n] /\ rounds'[n][r].strike # lastPushed'[n]
    BY <1>9, <2>1, <2>2
  <2>6. CalmLoop(n)'
    BY <1>5, <1>9, <2>3, <2>4, <2>5 DEF CalmLoop
  <2>. QED BY <1>3, <2>6
<1>10. CASE /\ pc[n] \in {"betting", "claiming"} /\ pc'[n] \in {"asleep", "open"}
            /\ current'[n] = current[n] /\ lastPushed'[n] = lastPushed[n]
  BY <1>3, <1>4, <1>5, <1>10
<1>11. CASE /\ pc[n] = "recount" /\ pc'[n] \in {"asleep", "betting"}
            /\ current'[n] = counter[n] /\ lastPushed'[n] = lastPushed[n]
  BY <1>3, <1>4, <1>11
<1>. QED BY <1>1, <1>6, <1>7, <1>8, <1>9, <1>10, <1>11, DemoPass

\* A loop's pass only lengthens chains, and a price it chains is the last one sent.
Longer == Extends(queue) /\ \A k \in Lane : Held(queue[k]) \subseteq Held(queue'[k])

PricesSent ==
  \A k \in Lane : \A call \in Held(queue'[k]) :
    call \in Held(queue[k]) \/ (call.do = "push" => call.arg = lastPushed'[call.market])

LEMMA PassQueue ==
  ASSUME LoopInv, NEW n \in Market,
         Wake(n) \/ Look(n) \/ PushPrice(n) \/ BotsDone(n) \/ Recount(n)
  PROVE  Longer /\ PricesSent /\ (UNCHANGED lastPushed \/ Rest(queue, n))
<1>1. /\ current \in [Market -> 0..MaxRounds] /\ counter \in [Market -> 0..MaxRounds]
      /\ lastPushed \in [Market -> Price \cup {None}] /\ MemoryInv
  BY DEF LoopInv, OwnInv, MemoryInv, MarketInv
<1>2. CASE UNCHANGED <<queue, lastPushed>>
  BY <1>2 DEF Longer, PricesSent, Extends
<1>3. ASSUME Rest(queue, n), NEW do \in {"push", "create", "bet", "settle", "claim"},
             NEW arg \in RoundId \cup Price \cup {None}, NEW accounts,
             queue' = Chained(queue, n, accounts, Calls(n, do, arg)),
             do = "push" => arg = lastPushed'[n]
      PROVE  Longer /\ PricesSent
  <2>1. PICK call \in Call :
          call = Calls(n, do, arg) /\ call.market = n /\ call.do = do /\ call.arg = arg
    BY Calling
  <2>2. Joined(queue', queue, n, accounts, call)
    BY <1>3, <2>1, ChainedCalls
  <2>3. Longer
    BY <2>2 DEF Joined, Longer, Extends
  <2>4. PricesSent
    BY <1>3, <2>1, <2>2 DEF Joined, PricesSent
  <2>. QED BY <2>3, <2>4
<1>4. CASE Wake(n) \/ BotsDone(n)
  BY <1>2, <1>4 DEF Wake, BotsDone, calls
<1>5. CASE Look(n)
  <2>1. /\ pc[n] = "look" /\ UNCHANGED lastPushed /\ Rest(queue, n)
    BY <1>5, Idle DEF Look, Looks
  <2>2. PICK round : round = rounds[n][current[n]]
    OBVIOUS
  <2>3. CASE current[n] = 0 \/ round = None
    <3>1. UNCHANGED queue
          \/ queue' = Chained(queue, n, {Admin}, Calls(n, "create", None))
      BY <1>5, <2>2, <2>3 DEF Look, Looks, NoRound, MissingRound, Invoke
    <3>. QED BY <1>2, <1>3, <2>1, <3>1
  <2>4. CASE current[n] # 0 /\ round # None
    <3>1. PICK r \in RoundId : r = current[n]
      BY <1>1, <2>4, Bounds DEF RoundId
    <3>2. DemoLooks(n, round, now) \/ XlmLooks(n, round, now)
      BY <1>5, <2>2, <2>4 DEF Look, Looks
    <3>3. PICK accounts :
            \/ UNCHANGED queue
            \/ queue' = Chained(queue, n, accounts, Calls(n, "create", None))
            \/ queue' = Chained(queue, n, accounts, Calls(n, "settle", r))
            \/ queue' = Chained(queue, n, accounts, Calls(n, "bet", r))
            \/ queue' = Chained(queue, n, accounts, Calls(n, "claim", r))
      <4>1. CASE XlmLooks(n, round, now)
        BY <3>1, <4>1 DEF XlmLooks, Invoke
      <4>2. CASE DemoLooks(n, round, now)
        BY <3>1, <4>2 DEF DemoLooks, AutoBet, AutoClaim
      <4>. QED BY <3>2, <4>1, <4>2
    <3>. QED BY <1>2, <1>3, <2>1, <3>3
  <2>. QED BY <2>3, <2>4
<1>6. CASE PushPrice(n)
  <2>1. PICK spot \in deployed.spots, step \in Step :
          /\ lastPushed' = [lastPushed EXCEPT ![n] = Quote(n, spot)]
          /\ Invoke(queue, n, "push", Quote(n, spot), step)
    BY <1>6 DEF PushPrice, Step
  <2>2. PICK price \in Price : price = Quote(n, spot)
    BY <1>1, Deployed, QuotePrice DEF MemoryInv
  <2>3. /\ queue' = Chained(queue, n, {Admin}, Calls(n, "push", price))
        /\ lastPushed'[n] = price
    BY <1>1, <2>1, <2>2 DEF Invoke
  <2>4. Rest(queue, n)
    BY <1>6, Idle DEF PushPrice
  <2>. QED BY <1>3, <2>3, <2>4
<1>7. CASE Recount(n)
  <2>1. Rest(queue, n) /\ UNCHANGED lastPushed
    BY <1>7, Idle DEF Recount
  <2>2. CASE UNCHANGED queue
    BY <1>2, <2>1, <2>2
  <2>3. CASE counter[n] > current[n] /\ Loop(n) # "xlm"
    <3>1. PICK r \in RoundId : r = counter[n]
      BY <1>1, <2>3, Bounds DEF RoundId
    <3>2. queue' = Chained(queue, n, Untried(betTracker, n, r), Calls(n, "bet", r))
      BY <1>7, <2>3, <3>1 DEF Recount, AutoBet
    <3>. QED BY <1>3, <2>1, <3>2
  <2>. QED BY <1>7, <2>2, <2>3 DEF Recount
<1>. QED BY <1>4, <1>5, <1>6, <1>7

LEMMA LostStays ==
  ASSUME LoopInv, MarketInv', Grows, NEW l \in Lane, CalmLane(l),
         Lost(l)' => Lost(l), sent[l] => Head(queue'[l]) = Head(queue[l]),
         \A call \in Held(queue'[l]) :
           call.do = "push" => call.arg = lastPushed'[call.market]
  PROVE  CalmLane(l)'
<1>1. ASSUME Lost(l)'
      PROVE  \E call : /\ call = Head(queue'[l]) /\ call.do # "push"
                       /\ call.do = "settle" => ~Open(call.market, call.arg)'
  <2>1. Lost(l) /\ sent[l] /\ queue[l] # <<>> /\ Head(queue'[l]) = Head(queue[l])
    BY <1>1, AwaitedFacts DEF Lost
  <2>2. PICK call : call = Head(queue[l])
    OBVIOUS
  <2>3. Proper(l, call)
    <3>1. PICK q : q = [queue EXCEPT ![l] = Tail(@)]
      OBVIOUS
    <3>. QED BY <2>1, <2>2, <3>1, EndingCall DEF Ending
  <2>4. /\ call.do # "push"
        /\ call.do = "settle" => ~Open(call.market, call.arg)
    BY <2>1, <2>2 DEF CalmLane
  <2>5. ASSUME call.do = "settle" PROVE ~Open(call.market, call.arg)'
    <3>1. call.market \in Market /\ call.arg \in RoundId /\ call.arg <= counter[call.market]
      BY <2>3, <2>5 DEF Proper, Call
    <3>. QED BY <2>4, <2>5, <3>1 DEF Grows, Open, Series!HasStatus
  <2>6. call = Head(queue'[l])
    BY <2>1, <2>2
  <2>. QED BY <2>4, <2>5, <2>6
<1>. QED BY <1>1 DEF CalmLane, Open, Series!HasStatus

\* A call is sent, or it ends because the contract refuses it or its transaction is
\* no more.
LEMMA ServesEnds ==
  ASSUME LoopInv, NEW l \in Lane, Serves(l), NEW call, call = Head(queue[l])
  PROVE  /\ queue[l] # <<>> /\ UNCHANGED <<markets, faults>>
         /\ \/ /\ Accepted(call, l[2]) /\ ~sent[l]
               /\ inflight' = inflight \cup {[lane |-> l, call |-> call, awaited |-> TRUE]}
               /\ sent' = [sent EXCEPT ![l] = TRUE]
               /\ UNCHANGED <<deployed, memory, queue>>
            \/ /\ UNCHANGED inflight
               /\ \/ Lost(l) /\ Ended(l, call, "error")
                  \/ ~sent[l] /\ ~Accepted(call, l[2]) /\ Ended(l, call, Refusal(call))
<1>1. faults \in SUBSET deployed.faults
  BY DEF LoopInv, OwnInv, MemoryInv
<1>2. CASE Submit(l)
  <2>1. /\ queue[l] # <<>> /\ ~sent[l] /\ UNCHANGED <<markets, faults>>
        /\ ~Accepted(call, l[2]) => Ends(l, Refusal(call)) /\ UNCHANGED inflight
        /\ Accepted(call, l[2]) =>
             /\ inflight' = inflight \cup {[lane |-> l, call |-> call, awaited |-> TRUE]}
             /\ sent' = [sent EXCEPT ![l] = TRUE]
             /\ UNCHANGED <<deployed, memory, queue>>
    BY <1>2 DEF Submit
  <2>2. ASSUME ~Accepted(call, l[2]) PROVE Ended(l, call, Refusal(call))
    <3>1. UNCHANGED deployed /\ faults' \in SUBSET deployed.faults
      BY <1>1, <2>1, <2>2 DEF Ends
    <3>2. EndsWell(call, Refusal(call))
      BY <2>1, <3>1, SameMarkets, RefusedWell DEF LoopInv
    <3>. QED BY <2>1, <2>2, <3>2 DEF Ended
  <2>. QED BY <2>1, <2>2
<1>3. CASE Throw(l)
  <2>1. /\ Lost(l) /\ Ends(l, "error") /\ UNCHANGED <<markets, inflight, faults>>
    BY <1>3 DEF Throw, Lost
  <2>2. queue[l] # <<>>
    BY <2>1, AwaitedFacts DEF Lost
  <2>3. EndsWell(call, "error")
    BY <1>1, <2>1, SameMarkets, RefusedWell DEF LoopInv
  <2>. QED BY <2>1, <2>2, <2>3 DEF Ended
<1>. QED BY <1>2, <1>3 DEF Serves

\* A settle call is due, so only a round that is not open can be refused.
LEMMA SettleDue ==
  ASSUME MarketInv, NEW m \in Market, NEW r \in RoundId, PricedAt(m, r), ~Series!CanSettle(m, r)
  PROVE  ~Open(m, r)
<1> SUFFICES ASSUME Open(m, r) PROVE FALSE
  OBVIOUS
<1>1. rounds[m][r] # None /\ rounds[m][r].settle_ts \in Int
  <2>1. rounds[m][r] \in Series!Round \cup {None}
    BY DEF MarketInv
  <2>. QED BY <2>1 DEF Open, Series!HasStatus, Series!Round
<1>2. /\ now \in Int /\ tick[m] # None /\ tick[m].timestamp \in Int
      /\ tick[m].timestamp <= now /\ tick[m].timestamp >= rounds[m][r].settle_ts
  BY <1>1, Numbered DEF PricedAt, MarketInv, Numbers
<1>. QED BY <1>1, <1>2 DEF Series!CanSettle, Open

LEMMA CalmEnds ==
  ASSUME LoopInv, Calm, \A m \in Market : CalmLoop(m), UNCHANGED markets,
         NEW l, NEW call, NEW result, Ended(l, call, result), result # "ok",
         call.do # "push", call.do = "settle" => ~Open(call.market, call.arg)
  PROVE  \A m \in Market : CalmLoop(m)'
<1>1. PICK q : q = [queue EXCEPT ![l] = Tail(@)]
  OBVIOUS
<1>2. Ending(l, call, q)
  BY <1>1 DEF Ended, Ending
<1>3. PICK n \in Market : n = call.market
  BY <1>2, EndingCall
<1>4. Loop(n) = "demo" /\ call.do \in {"push", "create", "bet", "settle", "claim"}
  BY <1>2, <1>3, EndingCall DEF Calm, Process
<1>5. ASSUME NEW m \in Market, pc'[m] = pc[m], current'[m] = current[m],
             lastPushed'[m] = lastPushed[m]
      PROVE  CalmLoop(m)'
  <2>1. \A r \in RoundId : Open(m, r)' <=> Open(m, r)
    BY DEF Open, Series!HasStatus, markets
  <2>. QED BY <1>5, <2>1, CalmStill DEF markets
<1>6. ASSUME Elsewhere(n), UNCHANGED <<current, lastPushed>>, CalmLoop(n)'
      PROVE  \A m \in Market : CalmLoop(m)'
  BY <1>5, <1>6 DEF Elsewhere
<1>7. CASE call.do = "create"
  <2>1. /\ pc[n] = "creating" /\ Elsewhere(n) /\ UNCHANGED <<current, lastPushed>>
        /\ pc'[n] = "recount"
    BY <1>3, <1>4, <1>7, CreateEnded DEF Demo
  <2>2. CalmLoop(n)'
    BY <2>1, CalmTurn
  <2>. QED BY <1>6, <2>1, <2>2
<1>8. CASE call.do = "settle"
  <2>1. /\ pc[n] = "settling" /\ Elsewhere(n) /\ UNCHANGED <<current, lastPushed>>
        /\ current[n] \in RoundId /\ call.arg = current[n]
        /\ pc'[n] \in {"claiming", "asleep", "creating"}
    BY <1>3, <1>8, SettleEnded
  <2>2. current[n] # 0 /\ ~Open(n, current[n])
    BY <1>3, <1>8, <2>1 DEF RoundId
  <2>3. NoneOpen(n) /\ current[n] = counter[n]
    BY <2>1, <2>2, NoneOpenThen DEF CalmLoop
  <2>4. CalmLoop(n)'
    BY <2>1, <2>3, CalmTurn
  <2>. QED BY <1>6, <2>1, <2>4
<1>9. CASE call.do \in {"bet", "claim"}
  <2>1. UNCHANGED <<current, pc, lastPushed>>
    BY <1>9, BotEnded
  <2>. QED BY <1>5, <2>1
<1>. QED BY <1>4, <1>7, <1>8, <1>9

\* What a transaction does to the market of its call.
CalmLands(tx, result) ==
  /\ Lands(tx, result) /\ tx.awaited
  /\ faults' \in SUBSET deployed.faults
  /\ result = "ok" \/ (result = "null" /\ tx.call.do = "create")

LEMMA CalmLand ==
  ASSUME LoopInv, Calm, \A m \in Market : CalmLoop(m) /\ Resolved(m),
         \A l \in Lane : CalmLane(l), NEW tx \in inflight, FreshTx(tx),
         NEW result, CalmLands(tx, result)
  PROVE  \A m \in Market : CalmLoop(m)' /\ Resolved(m)'
<1>1. PICK l \in Lane, call \in Call : l = tx.lane /\ call = tx.call
  BY DEF LoopInv, InflightInv, Tx
<1>2. /\ Proper(l, call) /\ MarketInv /\ sent[l] /\ queue[l] # <<>> /\ call = Head(queue[l])
      /\ Accepted(call, l[2]) => Ended(l, call, result) /\ Applies(call, l[2])
      /\ ~Accepted(call, l[2]) => UNCHANGED <<markets, memory>>
  <2>1. /\ Proper(l, call)
        /\ Accepted(call, l[2]) => Ended(l, call, result)
        /\ ~Accepted(call, l[2]) => UNCHANGED memory
    BY <1>1, LandedWell DEF CalmLands
  <2>2. /\ sent[l] /\ queue[l] # <<>> /\ call = Head(queue[l])
    BY <1>1 DEF LoopInv, InflightInv, CalmLands
  <2>3. /\ Accepted(call, l[2]) => Applies(call, l[2])
        /\ ~Accepted(call, l[2]) => UNCHANGED markets
    BY <1>1 DEF CalmLands, Lands
  <2>. QED BY <2>1, <2>2, <2>3 DEF LoopInv
<1>3. PICK n \in Market : n = call.market
  BY <1>2 DEF Proper, Call
<1>4. /\ call \in Held(queue[l]) /\ AwaitedAt(call) /\ Loop(n) = "demo"
      /\ call.do \in {"push", "create", "bet", "settle", "claim"}
  <2>1. PICK q : q = [queue EXCEPT ![l] = Tail(@)]
    OBVIOUS
  <2>2. Ending(l, call, q)
    BY <1>2, <2>1 DEF Ending
  <2>. QED BY <1>3, <2>2, EndingCall DEF Calm, Process
<1>5. ASSUME NEW m \in Market,
             \/ UNCHANGED <<tick, counter>>
             \/ (m # n /\ counter'[m] = counter[m] /\ tick'[m] = tick[m]),
             pc'[m] = pc[m], current'[m] = current[m], lastPushed'[m] = lastPushed[m],
             \A r \in RoundId : Open(m, r)' =>
               Open(m, r) /\ rounds'[m][r].strike = rounds[m][r].strike
      PROVE  CalmLoop(m)'
  BY <1>5, CalmStill
<1>6. ASSUME NEW m \in Market, \A r \in RoundId : Settled(m, r)' => rounds'[m][r] = rounds[m][r]
      PROVE  Resolved(m)'
  BY <1>6 DEF Resolved, Settled, Series!HasStatus
<1>7. CASE ~Accepted(call, l[2])
  <2>1. UNCHANGED <<markets, memory>>
    BY <1>2, <1>7
  <2>2. ASSUME NEW m \in Market PROVE CalmLoop(m)' /\ Resolved(m)'
    <3>1. \A r \in RoundId : Open(m, r)' <=> Open(m, r)
      BY <2>1 DEF Open, Series!HasStatus, markets
    <3>. QED BY <1>5, <1>6, <2>1, <3>1 DEF markets, memory
  <2>. QED BY <2>2
<1>8. CASE Accepted(call, l[2]) /\ call.do = "push"
  <2>1. Series!Push(n, call.arg) /\ call.arg \in Price /\ result = "ok" /\ Ended(l, call, result)
    BY <1>1, <1>2, <1>3, <1>8 DEF Applies, Proper, CalmLands
  <2>2. /\ tick'[n] # None /\ tick'[n].price = call.arg
        /\ \A m \in Market : m # n => tick'[m] = tick[m]
        /\ UNCHANGED <<counter, rounds>>
    BY <1>2, <2>1, PushMoves
  <2>3. /\ pc[n] \in {"opening", "closing"} /\ Elsewhere(n) /\ UNCHANGED <<current, lastPushed>>
        /\ pc[n] = "opening" => pc'[n] = "creating"
        /\ pc[n] = "closing" => pc'[n] = "settling"
    BY <1>3, <1>8, <2>1, PushEnded
  <2>4. call.arg = lastPushed[n]
    BY <1>3, <1>4, <1>8 DEF CalmLane
  <2>5. \A m \in Market, r \in RoundId : Open(m, r)' <=> Open(m, r)
    BY <2>2 DEF Open, Series!HasStatus
  <2>6. pc[n] = "opening" => NoneOpen(n)
    BY NoneOpenThen
  <2>7. NoneOpen(n) => NoneOpen(n)'
    BY <2>5 DEF NoneOpen
  <2>8. /\ \A r \in RoundId : Open(n, r) =>
             r = counter[n] /\ (pc[n] = "closing" => rounds[n][r].strike # lastPushed[n])
        /\ current[n] = counter[n] \/ (current[n] = 0 /\ NoneOpen(n))
    BY <2>3 DEF CalmLoop
  <2>9. CalmLoop(n)'
    <3>1. \A r \in RoundId : Open(n, r)' =>
            /\ r = counter'[n]
            /\ rounds'[n][r].strike = lastPushed'[n] <=> pc'[n] \notin {"closing", "settling"}
      BY <2>2, <2>3, <2>5, <2>6, <2>8 DEF NoneOpen
    <3>2. tick'[n].price = lastPushed'[n]
      BY <2>2, <2>3, <2>4
    <3>3. current'[n] = counter'[n] \/ (current'[n] = 0 /\ NoneOpen(n)')
      BY <2>2, <2>3, <2>7, <2>8
    <3>. QED BY <3>1, <3>2, <3>3 DEF CalmLoop, NoneOpen
  <2>10. \A m \in Market : m # n => CalmLoop(m)'
    BY <1>5, <2>2, <2>3, <2>5 DEF Elsewhere
  <2>11. \A m \in Market : Resolved(m)'
    BY <1>6, <2>2
  <2>. QED BY <2>9, <2>10, <2>11
<1>9. CASE Accepted(call, l[2]) /\ call.do = "create"
  <2>1. Series!Create(n, LockOffset, OracleInterval) /\ Ended(l, call, result)
    BY <1>2, <1>3, <1>9 DEF Applies
  <2>2. PICK s \in RoundId : s = counter[n] + 1
    BY <1>2, <2>1, CreateMoves
  <2>3. /\ counter'[n] = s /\ tick[n] # None
        /\ rounds'[n][s].strike = tick[n].price /\ rounds'[n][s].status = "Open"
        /\ \A m \in Market : m # n => counter'[m] = counter[m] /\ rounds'[m] = rounds[m]
        /\ \A r \in RoundId : r # s => rounds'[n][r] = rounds[n][r]
        /\ UNCHANGED tick
    BY <1>2, <2>1, <2>2, CreateMoves
  <2>4. /\ pc[n] = "creating" /\ Elsewhere(n) /\ UNCHANGED lastPushed
        /\ result = "ok" => current'[n] = counter'[n] /\ pc'[n] = "betting"
        /\ result # "ok" => pc'[n] = "recount"
    BY <1>3, <1>4, <1>9, <2>1, CreateEnded DEF Demo
  <2>5. NoneOpen(n) /\ tick[n].price = lastPushed[n]
    BY <2>3, <2>4, NoneOpenThen DEF CalmLoop
  <2>6. \A r \in RoundId : Open(n, r)' => r = s
    BY <2>3, <2>5 DEF NoneOpen, Open, Series!HasStatus
  <2>7. CalmLoop(n)'
    BY <2>3, <2>4, <2>5, <2>6 DEF CalmLoop
  <2>8. \A m \in Market : m # n => CalmLoop(m)'
    <3>1. \A m \in Market, r \in RoundId : m # n => (Open(m, r)' <=> Open(m, r))
      BY <2>3 DEF Open, Series!HasStatus
    <3>. QED BY <1>5, <2>3, <2>4, <3>1 DEF Elsewhere
  <2>9. \A m \in Market : Resolved(m)'
    <3>1. \A m \in Market, r \in RoundId : Settled(m, r)' => rounds'[m][r] = rounds[m][r]
      BY <2>3 DEF Settled, Series!HasStatus
    <3>. QED BY <1>6, <3>1
  <2>. QED BY <2>7, <2>8, <2>9
<1>10. CASE Accepted(call, l[2]) /\ call.do = "bet"
  <2>1. PICK s \in RoundId, b \in Bot : s = call.arg /\ b = l[2]
    BY <1>2, <1>10 DEF Proper
  <2>2. Series!Bet(n, s, b, SideOf[b]) /\ Ended(l, call, result)
    BY <1>2, <1>3, <1>10, <2>1 DEF Applies
  <2>3. /\ Open(n, s)
        /\ \A m \in Market, r \in RoundId :
             /\ m # n \/ r # s => rounds'[m][r] = rounds[m][r]
             /\ Open(m, r)' <=> Open(m, r)
             /\ Settled(m, r)' <=> Settled(m, r)
             /\ rounds[m][r] # None => rounds'[m][r].strike = rounds[m][r].strike
        /\ UNCHANGED <<tick, counter>>
    BY <1>2, <2>2, BetMoves
  <2>4. UNCHANGED <<current, pc, lastPushed>>
    BY <1>10, <2>2, BotEnded
  <2>5. \A m \in Market : CalmLoop(m)'
    BY <1>5, <2>3, <2>4 DEF Open, Series!HasStatus
  <2>6. \A m \in Market : Resolved(m)'
    <3>1. ~Settled(n, s)
      BY <2>3 DEF Settled, Open, Series!HasStatus
    <3>. QED BY <1>6, <2>3, <3>1
  <2>. QED BY <2>5, <2>6
<1>11. CASE Accepted(call, l[2]) /\ call.do = "settle"
  <2>1. PICK s \in RoundId : s = call.arg
    BY <1>2, <1>11 DEF Proper
  <2>2. Series!SettleRound(n, s) /\ result = "ok" /\ Ended(l, call, result)
    BY <1>1, <1>2, <1>3, <1>11, <2>1 DEF Applies, CalmLands
  <2>3. /\ Open(n, s) /\ ~Open(n, s)'
        /\ rounds'[n][s].sides = rounds[n][s].sides
        /\ rounds'[n][s].outcome = Series!Verdict(rounds[n][s], tick[n].price)
        /\ \A m \in Market, r \in RoundId : m # n \/ r # s => rounds'[m][r] = rounds[m][r]
        /\ UNCHANGED <<tick, counter>>
    BY <1>2, <2>2, SettleMoves
  <2>4. /\ pc[n] = "settling" /\ Elsewhere(n) /\ UNCHANGED <<current, lastPushed>>
        /\ pc'[n] = "claiming" /\ current[n] \in RoundId
    BY <1>3, <1>4, <1>11, <2>2, SettleEnded DEF Demo, SettledBySomebody
  <2>5. /\ \A r \in RoundId : Open(n, r) => r = counter[n]
        /\ rounds[n][s].strike # lastPushed[n]
        /\ tick[n] # None => tick[n].price = lastPushed[n]
        /\ current[n] = counter[n]
    BY <2>3, <2>4 DEF CalmLoop, RoundId
  <2>6. \A r \in RoundId : ~Open(n, r)'
    BY <2>3, <2>5 DEF Open, Series!HasStatus
  <2>7. CalmLoop(n)'
    BY <2>3, <2>4, <2>5, <2>6 DEF CalmLoop
  <2>8. \A m \in Market : m # n => CalmLoop(m)'
    <3>1. \A m \in Market, r \in RoundId : m # n => (Open(m, r)' <=> Open(m, r))
      BY <2>3 DEF Open, Series!HasStatus
    <3>. QED BY <1>5, <2>3, <2>4, <3>1 DEF Elsewhere
  <2>9. tick[n] # None
    <3>1. Demo(n)
      BY <1>4 DEF Demo
    <3>. QED BY <1>1, <1>3, <1>11, <2>1, <2>3, <3>1 DEF FreshTx, PricedAt, Open, Series!HasStatus
  <2>10. rounds'[n][s].sides = Series!Side => rounds'[n][s].outcome # "Void"
    BY <2>3, <2>5, <2>9 DEF Series!Verdict
  <2>11. \A m \in Market : Resolved(m)'
    BY <2>3, <2>10 DEF Resolved, Settled, Series!HasStatus
  <2>. QED BY <2>7, <2>8, <2>11
<1>12. CASE Accepted(call, l[2]) /\ call.do = "claim"
  <2>1. PICK s \in RoundId, b \in Bot : s = call.arg /\ b = l[2]
    BY <1>2, <1>12 DEF Proper
  <2>2. Series!Claim(n, s, b) /\ Ended(l, call, result)
    BY <1>2, <1>3, <1>12, <2>1 DEF Applies
  <2>3. UNCHANGED <<tick, counter, rounds>>
    BY <1>2, <2>2, ClaimMoves
  <2>4. UNCHANGED <<current, pc, lastPushed>>
    BY <1>12, <2>2, BotEnded
  <2>5. \A m \in Market : CalmLoop(m)'
    BY <1>5, <2>3, <2>4 DEF Open, Series!HasStatus
  <2>. QED BY <1>6, <2>3, <2>5
<1>. QED BY <1>4, <1>7, <1>8, <1>9, <1>10, <1>11, <1>12

LEMMA EndedPushes ==
  ASSUME LoopInv, NEW l, NEW call, NEW result, Ended(l, call, result)
  PROVE  /\ UNCHANGED lastPushed /\ sent' = [sent EXCEPT ![l] = FALSE]
         /\ \A k \in Lane : \A other \in Held(queue'[k]) :
              other \in Held(queue[k]) \/ other.do # "push"
         /\ \A k \in Lane : k # l /\ queue[k] # <<>> =>
              queue'[k] # <<>> /\ Head(queue'[k]) = Head(queue[k])
<1>1. PICK q : q = [queue EXCEPT ![l] = Tail(@)]
  OBVIOUS
<1>2. Ending(l, call, q)
  BY <1>1 DEF Ended, Ending
<1>3. PICK n \in Market : n = call.market
  BY <1>2, EndingCall
<1>4. call.do \in {"push", "create", "bet", "settle", "claim"}
  BY <1>2, EndingCall
<1>5. \A k \in Lane : \A other \in Held(queue'[k]) :
        other \in Held(queue[k]) \/ other.do # "push"
  <2>1. CASE call.do = "push"
    BY <1>3, <2>1, PushEnded
  <2>2. CASE call.do = "create"
    BY <1>3, <2>2, CreateEnded
  <2>3. CASE call.do = "settle"
    BY <1>3, <2>3, SettleEnded
  <2>4. CASE call.do \in {"bet", "claim"}
    BY <2>4, BotEnded
  <2>. QED BY <1>4, <2>1, <2>2, <2>3, <2>4
<1>. QED BY <1>5, EndsKeeps DEF Ended

\* An awaited transaction, its caller and its lane.
LEMMA AwaitedCall ==
  ASSUME LoopInv, NEW tx \in inflight, tx.awaited
  PROVE  /\ sent[tx.lane] /\ queue[tx.lane] # <<>> /\ tx.call = Head(queue[tx.lane])
         /\ tx.call \in Held(queue[tx.lane]) /\ tx.lane \in Lane
         /\ Proper(tx.lane, tx.call) /\ AwaitedAt(tx.call) /\ tx.call.market \in Market
         /\ Loop(tx.call.market) \in Process
         /\ tx.lane = <<Loop(tx.call.market), tx.lane[2]>>
         /\ tx \in Awaited(tx.lane)
<1>1. PICK l \in Lane, call \in Call : l = tx.lane /\ call = tx.call
  BY DEF LoopInv, InflightInv, Tx
<1>2. sent[l] /\ queue[l] # <<>> /\ call = Head(queue[l]) /\ tx \in Awaited(l)
  BY <1>1 DEF LoopInv, InflightInv, Awaited
<1>3. PICK q : q = [queue EXCEPT ![l] = Tail(@)]
  OBVIOUS
<1>4. Ending(l, call, q)
  BY <1>2, <1>3 DEF Ending
<1>5. /\ Proper(l, call) /\ AwaitedAt(call) /\ call.market \in Market
      /\ call \in Held(queue[l]) /\ Loop(call.market) \in Process
  BY <1>4, EndingCall
<1>6. l = <<Loop(call.market), l[2]>>
  BY <1>5, Lanes DEF Proper
<1>. QED BY <1>1, <1>2, <1>5, <1>6

LEMMA CalmLanes ==
  ASSUME LoopInv, Calm, NEW tx \in inflight, NEW other \in inflight, tx.awaited, other.awaited,
         tx.lane[2] = other.lane[2]
  PROVE  tx.lane = other.lane
<1>1. Loop(tx.call.market) = "demo" /\ Loop(other.call.market) = "demo"
  BY AwaitedCall DEF Calm, Process
<1>. QED BY <1>1, AwaitedCall

LEMMA CalmChains ==
  ASSUME LoopInv, AllAwaited, FreshInv, CalmInv, Calm, [Next]_vars,
         \/ \E n \in Market : Wake(n) \/ Look(n) \/ PushPrice(n) \/ BotsDone(n) \/ Recount(n)
         \/ \E l \in Lane : Serves(l)
         \/ \E tx \in inflight : \E result : CalmLands(tx, result)
         \/ UNCHANGED <<memory, calls>>
  PROVE  \A l \in Lane : CalmLane(l)'
<1>1. MarketInv' /\ Grows
  BY NextGrows
<1>2. ASSUME NEW l \in Lane, Lost(l)' => Lost(l),
             sent[l] => Head(queue'[l]) = Head(queue[l]),
             \A call \in Held(queue'[l]) :
               call.do = "push" => call.arg = lastPushed'[call.market]
      PROVE  CalmLane(l)'
  BY <1>1, <1>2, LostStays DEF CalmInv
<1>3. ASSUME NEW l \in Lane, NEW call \in Held(queue[l]), call.do = "push"
      PROVE  call.arg = lastPushed[call.market]
  BY <1>3 DEF CalmInv, CalmLane
<1>4. ASSUME NEW n \in Market,
             Wake(n) \/ Look(n) \/ PushPrice(n) \/ BotsDone(n) \/ Recount(n),
             NEW l \in Lane
      PROVE  CalmLane(l)'
  <2>1. Loop(n) # "xlm"
    BY DEF Calm
  <2>2. /\ UNCHANGED <<sent, inflight>>
        /\ \A k \in Market : k # n => lastPushed'[k] = lastPushed[k]
    BY <1>4, <2>1, DemoPass
  <2>3. Longer /\ PricesSent /\ (UNCHANGED lastPushed \/ Rest(queue, n))
    BY <1>4, PassQueue
  <2>4. ASSUME NEW call \in Held(queue'[l]), call.do = "push"
        PROVE  call.arg = lastPushed'[call.market]
    <3>1. CASE call \in Held(queue[l])
      <4>1. call.market \in Market
        BY <3>1, HeldCalls DEF LoopInv, OwnInv
      <4>. QED BY <1>3, <2>2, <2>3, <2>4, <3>1, <4>1 DEF Rest
    <3>2. CASE call \notin Held(queue[l])
      BY <2>3, <2>4, <3>2 DEF PricesSent
    <3>. QED BY <3>1, <3>2
  <2>5. sent[l] => Head(queue'[l]) = Head(queue[l])
    BY <2>3, AwaitedFacts DEF Longer, Extends
  <2>. QED BY <1>2, <2>2, <2>4, <2>5 DEF Lost, Awaited
<1>5. ASSUME NEW k \in Lane, NEW call, NEW result, Ended(k, call, result),
             NEW l \in Lane, l # k => (Lost(l)' => Lost(l))
      PROVE  CalmLane(l)'
  <2>1. /\ UNCHANGED lastPushed /\ sent' = [sent EXCEPT ![k] = FALSE]
        /\ \A other \in Held(queue'[l]) : other \in Held(queue[l]) \/ other.do # "push"
        /\ l # k /\ queue[l] # <<>> => Head(queue'[l]) = Head(queue[l])
    BY <1>5, EndedPushes
  <2>2. \A other \in Held(queue'[l]) :
          other.do = "push" => other.arg = lastPushed'[other.market]
    BY <1>3, <2>1
  <2>3. CASE l = k
    <3>1. ~Lost(l)'
      BY <2>1, <2>3 DEF Lost, LoopInv, InflightInv
    <3>. QED BY <2>2, <3>1 DEF CalmLane
  <2>4. CASE l # k
    <3>1. sent[l] => queue[l] # <<>>
      BY AwaitedFacts
    <3>. QED BY <1>2, <1>5, <2>1, <2>2, <2>4, <3>1
  <2>. QED BY <2>3, <2>4
<1>6. ASSUME NEW k \in Lane, Serves(k), NEW l \in Lane
      PROVE  CalmLane(l)'
  <2>1. PICK call : call = Head(queue[k])
    OBVIOUS
  <2>2. CASE UNCHANGED inflight /\ \E result : Ended(k, call, result)
    <3>1. PICK result : Ended(k, call, result)
      BY <2>2
    <3>2. sent' = [sent EXCEPT ![k] = FALSE]
      BY <3>1, EndedPushes
    <3>3. l # k => (Lost(l)' => Lost(l))
      BY <2>2, <3>2 DEF Lost, Awaited, LoopInv, InflightInv
    <3>. QED BY <1>5, <3>1, <3>3
  <2>3. CASE /\ inflight' = inflight \cup {[lane |-> k, call |-> call, awaited |-> TRUE]}
             /\ sent' = [sent EXCEPT ![k] = TRUE]
             /\ UNCHANGED <<deployed, memory, queue>>
    <3>1. PICK new : new = [lane |-> k, call |-> call, awaited |-> TRUE]
      OBVIOUS
    <3>2. /\ new.lane = k /\ new.awaited /\ inflight' = inflight \cup {new}
          /\ inflight \subseteq inflight'
      BY <2>3, <3>1
    <3>3. Lost(l)' => Lost(l)
      <4>1. CASE l = k
        BY <3>2, <4>1 DEF Lost, Awaited
      <4>2. CASE l # k
        BY <2>3, <3>2, <4>2 DEF Lost, Awaited, LoopInv, InflightInv
      <4>. QED BY <4>1, <4>2
    <3>. QED BY <1>2, <1>3, <2>3, <3>3 DEF memory
  <2>. QED BY <1>6, <2>1, <2>2, <2>3, ServesEnds
<1>7. ASSUME NEW tx \in inflight, NEW result, CalmLands(tx, result), NEW l \in Lane
      PROVE  CalmLane(l)'
  <2>1. PICK k \in Lane, call \in Call : k = tx.lane /\ call = tx.call
    BY DEF LoopInv, InflightInv, Tx
  <2>2. /\ sent[k] /\ queue[k] # <<>> /\ call = Head(queue[k]) /\ call \in Held(queue[k])
        /\ Proper(k, call) /\ call.market \in Market /\ Loop(call.market) = "demo"
    BY <1>7, <2>1, AwaitedCall DEF CalmLands, Calm, Process
  <2>3. /\ inflight' = inflight \ SameAccount(tx)
        /\ Accepted(call, k[2]) => Ended(k, call, result)
        /\ ~Accepted(call, k[2]) => UNCHANGED <<markets, memory, queue, sent>>
    <3>1. /\ inflight' = inflight \ SameAccount(tx)
          /\ ~Accepted(call, k[2]) => UNCHANGED markets
      BY <1>7, <2>1 DEF CalmLands, Lands
    <3>2. /\ Accepted(call, k[2]) => Ended(k, call, result)
          /\ ~Accepted(call, k[2]) => UNCHANGED <<memory, queue, sent>>
      BY <1>7, <2>1, LandedWell DEF CalmLands
    <3>. QED BY <3>1, <3>2
  <2>4. ASSUME l # k PROVE Awaited(l)' = Awaited(l)
    <3>1. \A other \in inflight : other.awaited
      BY DEF AllAwaited, Calm
    <3>2. \A other \in Awaited(l) : other \in inflight /\ other.lane = l /\ other.awaited
      BY DEF Awaited
    <3>3. \A other \in Awaited(l) : other \notin SameAccount(tx)
      BY <1>7, <2>1, <2>4, <3>1, <3>2, CalmLanes DEF SameAccount
    <3>. QED BY <2>3, <3>3 DEF Awaited
  <2>5. CASE Accepted(call, k[2])
    <3>1. sent' = [sent EXCEPT ![k] = FALSE]
      BY <2>3, <2>5, EndedPushes
    <3>2. l # k => (Lost(l)' => Lost(l))
      BY <2>4, <3>1 DEF Lost, LoopInv, InflightInv
    <3>. QED BY <1>5, <2>3, <2>5, <3>2
  <2>6. CASE ~Accepted(call, k[2]) /\ l # k
    BY <1>2, <1>3, <2>3, <2>4, <2>6 DEF Lost, memory
  <2>7. CASE ~Accepted(call, k[2]) /\ l = k
    <3>1. call.do # "push"
      BY <2>7 DEF Accepted
    <3>2. ASSUME call.do = "settle" PROVE ~Open(call.market, call.arg)
      <4>1. ~Series!CanSettle(call.market, call.arg)
        BY <2>7, <3>2 DEF Accepted
      <4>2. FreshTx(tx)
        BY DEF FreshInv, Calm
      <4>3. PricedAt(call.market, call.arg) /\ call.arg \in RoundId
        BY <2>1, <2>2, <3>2, <4>2 DEF FreshTx, Demo, Proper
      <4>. QED BY <2>2, <4>1, <4>3, SettleDue DEF LoopInv
    <3>3. UNCHANGED <<lastPushed, queue, rounds>>
      BY <2>3, <2>7 DEF memory, markets
    <3>. QED BY <1>3, <2>2, <2>7, <3>1, <3>2, <3>3 DEF CalmLane, Open, Series!HasStatus
  <2>. QED BY <2>5, <2>6, <2>7
<1>8. ASSUME UNCHANGED <<memory, calls>>, NEW l \in Lane PROVE CalmLane(l)'
  BY <1>2, <1>3, <1>8 DEF Lost, Awaited, memory, calls
<1>. QED BY <1>4, <1>6, <1>7, <1>8


LEMMA CalmTime ==
  ASSUME LoopInv, \A m \in Market : CalmLoop(m) /\ Resolved(m),
         UNCHANGED <<markets, memory>>
           \/ (Series!TimePasses /\ now' \in 1..MaxTime /\ UNCHANGED memory)
  PROVE  \A m \in Market : CalmLoop(m)' /\ Resolved(m)'
<1>1. /\ UNCHANGED <<tick, counter, memory>>
      /\ \A m \in Market, r \in RoundId :
           rounds'[m][r] = rounds[m][r] \/ rounds'[m][r] = None
  <2>1. CASE UNCHANGED <<markets, memory>>
    BY <2>1 DEF markets
  <2>2. CASE Series!TimePasses /\ now' \in 1..MaxTime /\ UNCHANGED memory
    BY <2>2, TimeMoves DEF LoopInv
  <2>. QED BY <2>1, <2>2
<1>2. ASSUME NEW m \in Market PROVE CalmLoop(m)'
  <2>1. \A r \in RoundId : Open(m, r)' =>
          Open(m, r) /\ rounds'[m][r].strike = rounds[m][r].strike
    BY <1>1 DEF Open, Series!HasStatus
  <2>2. /\ counter'[m] = counter[m] /\ tick'[m] = tick[m] /\ pc'[m] = pc[m]
        /\ current'[m] = current[m] /\ lastPushed'[m] = lastPushed[m]
    BY <1>1 DEF memory
  <2>. QED BY <2>1, <2>2, CalmStill
<1>3. ASSUME NEW m \in Market PROVE Resolved(m)'
  BY <1>1 DEF Resolved, Settled, Series!HasStatus
<1>. QED BY <1>2, <1>3

Rests == UNCHANGED <<memory, calls>>

\* While the keepers are calm, a step is one of these.
CalmStep ==
  \/ \E n \in Market : Wake(n) \/ Look(n) \/ PushPrice(n) \/ BotsDone(n) \/ Recount(n)
  \/ \E l \in Lane : Serves(l)
  \/ \E tx \in inflight : \E result : CalmLands(tx, result)
  \/ Rests /\ (UNCHANGED markets \/ (Series!TimePasses /\ now' \in 1..MaxTime))

LEMMA CalmSteps ==
  ASSUME LoopInv, AllAwaited, [Next]_vars, Calm'
  PROVE  Calm /\ CalmStep
<1>1. faults \subseteq faults' /\ UNCHANGED deployed
  BY FaultsGrow, NextGrows
<1>2. Calm
  BY <1>1 DEF Calm, Loop
<1>3. /\ MemoryInv /\ deployed.until \in 1..MaxTime /\ \A tx \in inflight : tx.awaited
      /\ now \in 1..MaxTime /\ faults \in SUBSET deployed.faults
  BY <1>2, Deployed DEF LoopInv, OwnInv, MemoryInv, MarketInv, AllAwaited, Calm
<1>4. ASSUME NEW kind, Faulty(kind)
      PROVE  kind \in {"decode", "expiry"} /\ faults' \in SUBSET deployed.faults
  BY <1>3, <1>4, FaultyKept DEF Calm
<1>5. ASSUME NEW m \in Market, Works(m) \/ Fails(m) \/ FeedMoves(m) PROVE CalmStep
  <2>1. CASE Works(m)
    BY <2>1 DEF Works, CalmStep
  <2>2. CASE FeedMoves(m)
    BY <1>2, <2>2 DEF FeedMoves, Calm
  <2>3. CASE Fails(m)
    <3>1. ~(WakeBlind(m) \/ LooksAmiss(m) \/ Misreads(m) \/ RecountFails(m) \/ Stranger(m))
      BY <1>4 DEF WakeBlind, LooksAmiss, Misreads, RecountFails, Stranger
    <3>2. PICK r \in RoundId : Expires(m, r)
      BY <2>3, <3>1 DEF Fails
    <3>3. Rests /\ Series!TimePasses /\ now' \in 1..MaxTime
      BY <1>3, <3>2 DEF Expires, Rests
    <3>. QED BY <3>3 DEF CalmStep
  <2>. QED BY <1>5, <2>1, <2>2, <2>3
<1>6. ASSUME NEW l \in Lane, Serves(l) \/ SendFails(l) \/ GiveUp(l) PROVE CalmStep
  BY <1>4, <1>6 DEF SendFails, GiveUp, CalmStep
<1>7. ASSUME NEW p \in Process, Crash(p) PROVE CalmStep
  BY <1>4, <1>7 DEF Crash
<1>8. ASSUME NEW tx \in inflight, Land(tx) \/ LandUnread(tx) \/ Drop(tx) PROVE CalmStep
  <2>1. CASE Land(tx)
    <3>1. CalmLands(tx, "ok")
      BY <1>3, <2>1 DEF Land, CalmLands
    <3>. QED BY <3>1 DEF CalmStep
  <2>2. CASE LandUnread(tx)
    <3>1. CalmLands(tx, "null")
      BY <1>4, <2>2 DEF LandUnread, CalmLands
    <3>. QED BY <3>1 DEF CalmStep
  <2>3. CASE Drop(tx)
    BY <1>4, <2>3 DEF Drop
  <2>. QED BY <1>8, <2>1, <2>2, <2>3
<1>9. CASE ClockTicks
  <2>1. now' \in {now, now + 1} /\ now' <= deployed.until
    BY <1>9 DEF ClockTicks
  <2>2. now' \in 1..MaxTime
    BY <1>3, <2>1, Bounds
  <2>3. Series!TimePasses /\ Rests
    BY <1>9 DEF ClockTicks, Rests
  <2>. QED BY <1>2, <2>2, <2>3 DEF CalmStep
<1>10. CASE UNCHANGED vars
  <2>1. Rests /\ UNCHANGED markets
    BY <1>10 DEF vars, Rests
  <2>. QED BY <1>2, <2>1 DEF CalmStep
<1>. QED BY <1>2, <1>5, <1>6, <1>7, <1>8, <1>9, <1>10 DEF Next

LEMMA ResolvedStays ==
  ASSUME UNCHANGED markets, \A m \in Market : Resolved(m)
  PROVE  \A m \in Market : Resolved(m)'
BY DEF Resolved, Settled, Series!HasStatus, markets

LEMMA CalmServes ==
  ASSUME LoopInv, FreshInv, CalmInv, Calm, NEW l \in Lane, Serves(l)
  PROVE  \A m \in Market : CalmLoop(m)' /\ Resolved(m)'
<1>1. \A m \in Market : CalmLoop(m) /\ Resolved(m)
  BY DEF CalmInv
<1>2. PICK call : call = Head(queue[l])
  OBVIOUS
<1>3. UNCHANGED markets /\ queue[l] # <<>>
  BY <1>2, ServesEnds
<1>4. CASE UNCHANGED memory
  BY <1>1, <1>3, <1>4, CalmTime
<1>5. ASSUME NEW result, Ended(l, call, result), result # "ok",
             call.do # "push", call.do = "settle" => ~Open(call.market, call.arg)
      PROVE  \A m \in Market : CalmLoop(m)' /\ Resolved(m)'
  BY <1>1, <1>3, <1>5, CalmEnds, ResolvedStays
<1>6. CASE Lost(l) /\ Ended(l, call, "error")
  <2>1. /\ call.do # "push"
        /\ call.do = "settle" => ~Open(call.market, call.arg)
    BY <1>2, <1>6 DEF CalmInv, CalmLane
  <2>. QED BY <1>5, <1>6, <2>1
<1>7. CASE ~sent[l] /\ ~Accepted(call, l[2]) /\ Ended(l, call, Refusal(call))
  <2>1. PICK q : q = [queue EXCEPT ![l] = Tail(@)]
    OBVIOUS
  <2>2. Ending(l, call, q)
    BY <1>2, <1>3, <2>1 DEF Ending
  <2>3. /\ Proper(l, call) /\ AwaitedAt(call) /\ call.market \in Market
        /\ Loop(call.market) = "demo"
    BY <2>2, EndingCall DEF Calm, Process
  <2>4. Refusal(call) # "ok" /\ call.do # "push"
    BY <1>7 DEF Refusal, Accepted
  <2>5. ASSUME call.do = "settle" PROVE ~Open(call.market, call.arg)
    <3>1. PICK m \in Market, r \in RoundId : m = call.market /\ r = call.arg
      BY <2>3, <2>5 DEF Proper
    <3>2. ~Series!CanSettle(m, r)
      BY <1>7, <2>5, <3>1 DEF Accepted
    <3>3. FreshLoop(m)
      BY <2>3, <3>1 DEF FreshInv, Calm, Demo
    <3>4. PricedAt(m, r)
      BY <2>3, <2>5, <3>1, <3>3 DEF AwaitedAt, FreshLoop
    <3>. QED BY <3>1, <3>2, <3>4, SettleDue DEF LoopInv
  <2>. QED BY <1>5, <1>7, <2>4, <2>5
<1>. QED BY <1>2, <1>4, <1>6, <1>7, ServesEnds

LEMMA CalmKept ==
  LoopInv /\ AllAwaited /\ FreshInv /\ CalmInv /\ [Next]_vars => CalmInv'
<1> SUFFICES ASSUME LoopInv, AllAwaited, FreshInv, CalmInv, [Next]_vars, Calm'
             PROVE  /\ \A m \in Market : CalmLoop(m)' /\ Resolved(m)'
                    /\ \A l \in Lane : CalmLane(l)'
  BY DEF CalmInv
<1>1. Calm /\ CalmStep
  BY CalmSteps
<1>2. \A m \in Market : CalmLoop(m) /\ Resolved(m)
  BY <1>1 DEF CalmInv
<1>3. \A l \in Lane : CalmLane(l)
  BY <1>1 DEF CalmInv
<1>4. \A l \in Lane : CalmLane(l)'
  BY <1>1, CalmChains DEF CalmStep, Rests
<1>5. ASSUME NEW n \in Market,
             Wake(n) \/ Look(n) \/ PushPrice(n) \/ BotsDone(n) \/ Recount(n)
      PROVE  \A m \in Market : CalmLoop(m)' /\ Resolved(m)'
  <2>1. UNCHANGED markets
    BY <1>1, <1>5, DemoPass DEF Calm
  <2>. QED BY <1>1, <1>2, <1>5, <2>1, CalmPass, ResolvedStays
<1>6. ASSUME NEW l \in Lane, Serves(l)
      PROVE  \A m \in Market : CalmLoop(m)' /\ Resolved(m)'
  BY <1>1, <1>6, CalmServes
<1>7. ASSUME NEW tx \in inflight, NEW result, CalmLands(tx, result)
      PROVE  \A m \in Market : CalmLoop(m)' /\ Resolved(m)'
  <2>1. FreshTx(tx)
    BY <1>1 DEF FreshInv, Calm
  <2>. QED BY <1>1, <1>2, <1>3, <1>7, <2>1, CalmLand
<1>8. CASE Rests /\ (UNCHANGED markets \/ (Series!TimePasses /\ now' \in 1..MaxTime))
  <2>1. \/ UNCHANGED <<markets, memory>>
        \/ Series!TimePasses /\ now' \in 1..MaxTime /\ UNCHANGED memory
    BY <1>8 DEF Rests
  <2>. QED BY <1>2, <1>4, <2>1, CalmTime
<1>. QED BY <1>1, <1>4, <1>5, <1>6, <1>7, <1>8 DEF CalmStep

LEMMA CalmAlways == Spec => []CalmInv
<1>1. Init => CalmInv
  <2> SUFFICES ASSUME Init PROVE CalmInv
    OBVIOUS
  <2>1. \A m \in Market, r \in RoundId : rounds[m][r] = None
    BY DEF Init, Series!SeriesInit, RoundId, Series!RoundId
  <2>2. \A m \in Market : tick[m] = None /\ counter[m] = 0 /\ current[m] = 0
    BY DEF Init, Series!SeriesInit
  <2>3. \A m \in Market : CalmLoop(m) /\ Resolved(m)
    BY <2>1, <2>2 DEF CalmLoop, Resolved, NoneOpen, Open, Settled, Series!HasStatus
  <2>4. \A l \in Lane : Held(queue[l]) = {} /\ ~sent[l]
    BY NothingHeld DEF Init
  <2>. QED BY <2>3, <2>4 DEF CalmInv, CalmLane, Lost
<1>. QED BY <1>1, AwaitedAlways, FreshAlways, CalmKept, PTL DEF Spec

\* The nudge does what it is for: a round with bots on both sides is never void while
\* no push or settle fails, for any bots, prices and bounds.
THEOREM SidesResolve == Spec => []RoundsResolve
<1>1. CalmInv => RoundsResolve
  BY DEF CalmInv, Calm, Resolved, Settled, RoundsResolve
<1>. QED BY <1>1, CalmAlways, PTL


-----------------------------------------------------------------------------
(* Nothing is left behind *)

\* A loop chains a claim of a round for every bot that has none yet.
ClaimsAll(m, r) ==
  /\ claimTracker' = Tried(claimTracker, m, r)
  /\ \A b \in Untried(claimTracker, m, r) :
       Calls(m, "claim", r) \in Held(queue'[<<"demo", b>>])

LEMMA NewestSettled ==
  ASSUME LoopInv, NEW m \in Market, LeavingInv(m), current[m] # 0, ~Open(m, current[m])
  PROVE  current[m] \in RoundId /\ Settled(m, current[m])
<1>1. current[m] \in RoundId
  BY Bounds DEF LoopInv, OwnInv, MemoryInv, RoundId
<1>2. rounds[m][current[m]] # None
  BY <1>1, Bounds DEF LeavingInv, RoundId
<1>3. rounds[m][current[m]] \in Series!Round
  BY <1>1, <1>2 DEF LoopInv, MarketInv
<1>. QED BY <1>1, <1>2, <1>3 DEF Open, Settled, Series!HasStatus, Series!Round

\* What a step may do to a market whose loop does not turn to another round.
Untouched(m) ==
  /\ UNCHANGED deployed
  /\ current'[m] = current[m] /\ counter'[m] = counter[m]
  /\ \A r \in RoundId : /\ rounds'[m][r] # None <=> rounds[m][r] # None
                        /\ Settled(m, r) => Settled(m, r)'
  /\ ~Demo(m) => stakes'[m] = stakes[m]
  /\ \A r \in RoundId, b \in Bot : <<m, r, b>> \in claimTracker =>
       /\ <<m, r, b>> \in claimTracker'
       /\ stakes'[m][r][b] = "staked" => Claims(m, r, b)'

\* It chains no claims, or all those of the round it minds.
TurnsWell(m) ==
  \/ /\ \A r \in RoundId, b \in Bot :
          <<m, r, b>> \in claimTracker' => <<m, r, b>> \in claimTracker
     /\ Demo(m) /\ pc'[m] \in Turning /\ current[m] # 0 => pc[m] \in Turning
  \/ \E r \in RoundId : r = current[m] /\ Settled(m, r)' /\ ClaimsAll(m, r)

LEMMA LeavingStays ==
  ASSUME LoopInv, NEW m \in Market, LeavingInv(m), Untouched(m), TurnsWell(m)
  PROVE  LeavingInv(m)'
<1>1. PICK c \in 0..MaxRounds : c = current[m] /\ c = current'[m]
  BY DEF Untouched, LoopInv, OwnInv, MemoryInv
<1>2. (Demo(m) <=> Demo(m)')
  BY DEF Untouched, Demo, Loop
<1>3. \A r : Tracks(m, r) /\ r \in RoundId => Tracks(m, r)'
  BY DEF Tracks, Untouched
<1>4. /\ current'[m] = counter'[m]
      /\ \A r \in RoundId : rounds'[m][r] # None <=> r <= counter'[m]
      /\ ~Demo(m)' => \A r \in RoundId, b \in Bot : stakes'[m][r][b] = "none"
  BY <1>2 DEF LeavingInv, Untouched
<1>5. \A r \in RoundId : r < c => Settled(m, r)' /\ (Demo(m)' => Tracks(m, r)')
  BY <1>1, <1>2, <1>3 DEF LeavingInv, Untouched
<1>6. Demo(m)' /\ pc'[m] \in Turning /\ c # 0 => Tracks(m, c)'
  <2>1. CASE Demo(m) /\ pc'[m] \in Turning /\ current[m] # 0 => pc[m] \in Turning
    <3>1. c # 0 => c \in RoundId
      BY Bounds DEF RoundId
    <3>. QED BY <1>1, <1>2, <1>3, <2>1, <3>1 DEF LeavingInv
  <2>2. CASE ClaimsAll(m, current[m])
    BY <1>1, <2>2 DEF ClaimsAll, Tried, Tracks
  <2>. QED BY <2>1, <2>2 DEF TurnsWell
<1>7. ASSUME NEW r \in RoundId, NEW b \in Bot, <<m, r, b>> \in claimTracker'
      PROVE  Settled(m, r)' /\ (stakes'[m][r][b] = "staked" => Claims(m, r, b)')
  <2>1. CASE <<m, r, b>> \in claimTracker
    BY <2>1 DEF LeavingInv, Untouched
  <2>2. CASE <<m, r, b>> \notin claimTracker
    <3>1. c \in RoundId /\ Settled(m, c)' /\ ClaimsAll(m, c)
      BY <1>1, <1>7, <2>2 DEF TurnsWell
    <3>2. r = c /\ b \in Untried(claimTracker, m, c)
      BY <1>1, <1>7, <2>2, <3>1 DEF ClaimsAll, Tried, Untried
    <3>. QED BY <1>1, <3>1, <3>2 DEF ClaimsAll, Claims
  <2>. QED BY <2>1, <2>2
<1>. QED BY <1>1, <1>4, <1>5, <1>6, <1>7 DEF LeavingInv

\* What one pass of a loop does to a market that nothing has failed on.
LEMMA LeavingPass ==
  ASSUME LoopInv, NEW n \in Market, LeavingInv(n),
         Wake(n) \/ Look(n) \/ PushPrice(n) \/ BotsDone(n) \/ Recount(n)
  PROVE  /\ UNCHANGED <<markets, deployed, sent, inflight>> /\ Elsewhere(n)
         /\ current'[n] = current[n] /\ TurnsWell(n)
         /\ \A m \in Market, r \in RoundId, b \in Bot :
              /\ <<m, r, b>> \in claimTracker => <<m, r, b>> \in claimTracker'
              /\ m # n /\ <<m, r, b>> \in claimTracker' => <<m, r, b>> \in claimTracker
<1>1. /\ pc \in [Market -> Step] /\ current \in [Market -> 0..MaxRounds]
      /\ counter \in [Market -> 0..MaxRounds] /\ Placed(n) /\ current[n] = counter[n]
  BY DEF LoopInv, OwnInv, MemoryInv, MarketInv, LeavingInv
<1>2. ASSUME UNCHANGED claimTracker,
             pc'[n] \in Turning /\ current[n] # 0 => pc[n] \in Turning
      PROVE  /\ TurnsWell(n)
             /\ \A m \in Market, r \in RoundId, b \in Bot :
                  /\ <<m, r, b>> \in claimTracker => <<m, r, b>> \in claimTracker'
                  /\ m # n /\ <<m, r, b>> \in claimTracker' => <<m, r, b>> \in claimTracker
  BY <1>2 DEF TurnsWell
<1>3. CASE Wake(n)
  <2>1. /\ UNCHANGED <<markets, deployed, claimTracker, sent, inflight>>
        /\ Minds(n, IF current[n] = 0 THEN counter[n] ELSE current[n]) /\ Goes(n, "look")
    BY <1>3 DEF Wake, calls
  <2>2. Elsewhere(n) /\ current'[n] = current[n] /\ pc'[n] = "look"
    BY <1>1, <2>1 DEF Minds, Goes, Elsewhere
  <2>. QED BY <1>2, <2>1, <2>2 DEF Turning
<1>4. CASE Look(n)
  <2>1. /\ UNCHANGED <<markets, deployed, sent, inflight>> /\ pc[n] = "look"
    BY <1>4 DEF Look, Looks
  <2>2. PICK round : round = rounds[n][current[n]]
    OBVIOUS
  <2>3. CASE current[n] = 0
    <3>1. NoRound(n) /\ UNCHANGED <<current, claimTracker>>
      BY <1>4, <2>3 DEF Look, Looks
    <3>2. Elsewhere(n)
      BY <1>1, <3>1 DEF NoRound, Goes, Invoke, Elsewhere
    <3>. QED BY <1>2, <2>1, <2>3, <3>1, <3>2
  <2>4. CASE current[n] # 0
    <3>1. PICK r \in RoundId : r = current[n]
      BY <1>1, <2>4, Bounds DEF RoundId
    <3>2. round # None
      BY <1>1, <2>2, <3>1, Bounds DEF LeavingInv, RoundId
    <3>3. /\ UNCHANGED current
          /\ IF Loop(n) = "demo" THEN DemoLooks(n, round, now) ELSE XlmLooks(n, round, now)
      BY <1>4, <2>2, <2>4, <3>2 DEF Look, Looks
    <3>4. CASE /\ UNCHANGED claimTracker
               /\ \E step \in Step \ Turning : Goes(n, step)
      BY <1>1, <1>2, <2>1, <3>3, <3>4 DEF Goes, Elsewhere
    <3>5. CASE XlmLooks(n, round, now) /\ Loop(n) # "demo"
      <4>1. UNCHANGED claimTracker /\ \E step \in Step : Goes(n, step)
        BY <3>5 DEF XlmLooks, Invoke, Step
      <4>2. Elsewhere(n)
        BY <1>1, <3>3, <4>1 DEF Goes, Elsewhere
      <4>3. TurnsWell(n)
        BY <3>5, <4>1 DEF TurnsWell, Demo
      <4>. QED BY <2>1, <3>3, <4>1, <4>2, <4>3
    <3>6. CASE AutoClaim(queue, n, r) /\ Status(round) = "Settled" /\ Loop(n) = "demo"
      <4>1. /\ queue' = Chained(queue, n, Untried(claimTracker, n, r), Calls(n, "claim", r))
            /\ claimTracker' = Tried(claimTracker, n, r) /\ Goes(n, "claiming")
        BY <3>6 DEF AutoClaim
      <4>2. Elsewhere(n)
        BY <1>1, <3>3, <4>1 DEF Goes, Elsewhere
      <4>3. PICK next \in Call : next = Calls(n, "claim", r) /\ next.market = n
        BY Calling
      <4>4. \A k \in Lane : k[1] = Loop(n) /\ k[2] \in Untried(claimTracker, n, r) =>
              next \in Held(queue'[k])
        <5>1. Rest(queue, n)
          BY <2>1, Idle
        <5>. QED BY <4>1, <4>3, <5>1, ChainsOne
      <4>5. ASSUME NEW b \in Untried(claimTracker, n, r)
            PROVE  next \in Held(queue'[<<"demo", b>>])
        <5>1. <<"demo", b>> \in Lane
          BY Lanes DEF Untried, Process, Account
        <5>. QED BY <3>6, <4>4, <5>1
      <4>6. Settled(n, r)'
        <5>1. Settled(n, r)
          BY <2>2, <3>1, <3>2, <3>6 DEF Status, Settled, Series!HasStatus
        <5>. QED BY <2>1, <5>1 DEF Settled, Series!HasStatus, markets
      <4>7. ClaimsAll(n, r)
        BY <4>1, <4>3, <4>5 DEF ClaimsAll
      <4>8. TurnsWell(n)
        BY <3>1, <4>6, <4>7 DEF TurnsWell
      <4>. QED BY <2>1, <3>3, <4>1, <4>2, <4>8 DEF Tried
    <3>7. CASE DemoLooks(n, round, now) /\ Loop(n) = "demo"
      BY <3>1, <3>4, <3>6, <3>7 DEF DemoLooks, AutoBet, Step, Turning
    <3>. QED BY <3>3, <3>5, <3>7
  <2>. QED BY <2>3, <2>4
<1>5. CASE PushPrice(n)
  <2>1. PICK step \in {"opening", "closing"} :
          /\ Goes(n, step)
          /\ step = "opening" => pc[n] = "open"
    BY <1>5 DEF PushPrice, Invoke
  <2>2. UNCHANGED <<markets, deployed, current, claimTracker, sent, inflight>>
    BY <1>5 DEF PushPrice
  <2>. QED BY <1>1, <1>2, <2>1, <2>2 DEF Goes, Elsewhere, Turning
<1>6. CASE BotsDone(n)
  <2>1. /\ UNCHANGED <<markets, deployed, current, claimTracker, sent, inflight>>
        /\ \E step \in {"asleep", "open"} :
             Goes(n, step) /\ (step = "open" => pc[n] = "claiming")
    BY <1>6 DEF BotsDone, calls
  <2>. QED BY <1>1, <1>2, <2>1 DEF Goes, Elsewhere, Turning
<1>7. CASE Recount(n)
  <2>1. /\ UNCHANGED <<markets, deployed, claimTracker, sent, inflight>>
        /\ Goes(n, "asleep") /\ (UNCHANGED current \/ Minds(n, counter[n]))
    BY <1>1, <1>7 DEF Recount
  <2>. QED BY <1>1, <1>2, <2>1 DEF Goes, Minds, Elsewhere, Turning
<1>. QED BY <1>3, <1>4, <1>5, <1>6, <1>7

LEMMA ClaimsKept ==
  ASSUME \A k \in Lane : Held(queue[k]) \subseteq Held(queue'[k]),
         NEW m, NEW r, NEW b \in Bot, Claims(m, r, b)
  PROVE  Claims(m, r, b)'
<1>1. <<"demo", b>> \in Lane
  BY Lanes DEF Process, Account
<1>. QED BY <1>1 DEF Claims

\* A claim stays in its chain when another call ends.
LEMMA ClaimsAfter ==
  ASSUME LoopInv, NEW l, NEW call, NEW result, Ended(l, call, result),
         NEW m \in Market, NEW r \in RoundId, NEW b \in Bot, Claims(m, r, b),
         ~(call.do = "claim" /\ call.market = m /\ call.arg = r /\ l[2] = b)
  PROVE  Claims(m, r, b)'
<1>1. PICK next, k : next = Calls(m, "claim", r) /\ k = <<"demo", b>> /\ k \in Lane
  <2>1. <<"demo", b>> \in Lane
    BY Lanes DEF Process, Account
  <2>. QED BY <2>1
<1>2. next.do = "claim" /\ next.market = m /\ next.arg = r /\ next \in Held(queue[k])
  BY <1>1, Calling DEF Claims
<1>3. PICK q : q = [queue EXCEPT ![l] = Tail(@)]
  OBVIOUS
<1>4. Ending(l, call, q)
  BY <1>3 DEF Ended, Ending
<1>5. /\ Proper(l, call) /\ call.market \in Market
      /\ call.do \in {"push", "create", "bet", "settle", "claim"}
  BY <1>4, EndingCall
<1>6. CASE call.do \in {"push", "create", "settle"}
  <2>1. l # k
    BY <1>1, <1>5, <1>6, Bounds DEF Proper
  <2>2. CASE call.do = "push"
    BY <1>1, <1>2, <1>5, <2>1, <2>2, PushEnded DEF Claims
  <2>3. CASE call.do = "create"
    BY <1>1, <1>2, <1>5, <2>1, <2>3, CreateEnded DEF Claims
  <2>4. CASE call.do = "settle"
    BY <1>1, <1>2, <1>5, <2>1, <2>4, SettleEnded DEF Claims
  <2>. QED BY <1>6, <2>2, <2>3, <2>4
<1>7. CASE call.do \in {"bet", "claim"}
  <2>1. next # call \/ k # l
    BY <1>1, <1>2
  <2>2. \A j \in Lane : Held(queue[j]) \subseteq Held(queue'[j]) \cup
          (IF j = l THEN {call} ELSE {})
    BY <1>7, BotEnded
  <2>. QED BY <1>1, <1>2, <2>1, <2>2 DEF Claims
<1>. QED BY <1>5, <1>6, <1>7

LEMMA EndingLoop ==
  ASSUME LoopInv, NEW l, NEW call, NEW result, Ended(l, call, result)
  PROVE  /\ l \in Lane /\ Proper(l, call) /\ AwaitedAt(call) /\ call.market \in Market
         /\ call.do \in {"push", "create", "bet", "settle", "claim"}
<1>1. PICK q : q = [queue EXCEPT ![l] = Tail(@)]
  OBVIOUS
<1>2. Ending(l, call, q)
  BY <1>1 DEF Ended, Ending
<1>. QED BY <1>2, EndingCall

\* A call that comes to nothing leaves no claim behind.
LEMMA LeavingEnds ==
  ASSUME LoopInv, \A m \in Market : LeavingInv(m), UNCHANGED <<markets, deployed>>,
         NEW l, NEW call, NEW result, Ended(l, call, result),
         result = "error" \/ result = Refusal(call),
         call.do = "claim" => result = Refusal(call) /\ ~Accepted(call, l[2])
  PROVE  \A m \in Market : LeavingInv(m)'
<1>1. /\ l \in Lane /\ Proper(l, call) /\ AwaitedAt(call)
      /\ call.do \in {"push", "create", "bet", "settle", "claim"} /\ result # "ok"
  BY EndingLoop DEF Refusal
<1>2. PICK n \in Market : n = call.market
  BY EndingLoop
<1>3. \A m \in Market, r \in RoundId : Settled(m, r)' <=> Settled(m, r)
  BY DEF Settled, Series!HasStatus, markets
<1>4. ASSUME NEW m \in Market, NEW r \in RoundId, NEW b \in Bot, <<m, r, b>> \in claimTracker,
             stakes'[m][r][b] = "staked"
      PROVE  Claims(m, r, b)'
  <2>1. Settled(m, r) /\ stakes[m][r][b] = "staked" /\ Claims(m, r, b)
    BY <1>4 DEF LeavingInv, markets
  <2>2. ASSUME call.do = "claim", call.market = m, call.arg = r, l[2] = b PROVE FALSE
    BY <2>1, <2>2 DEF Accepted, Series!CanClaim, Settled
  <2>. QED BY <2>1, <2>2, ClaimsAfter
<1>5. ASSUME NEW m \in Market, current'[m] = current[m], TurnsWell(m),
             claimTracker \subseteq claimTracker'
      PROVE  LeavingInv(m)'
  <2>1. Untouched(m)
    BY <1>3, <1>4, <1>5 DEF Untouched, markets
  <2>. QED BY <1>5, <2>1, LeavingStays
<1>6. ASSUME UNCHANGED claimTracker, Elsewhere(n), current'[n] = current[n],
             Demo(n) /\ pc'[n] \in Turning /\ current[n] # 0 => pc[n] \in Turning
      PROVE  \A m \in Market : LeavingInv(m)'
  BY <1>5, <1>6 DEF Elsewhere, TurnsWell
<1>7. ASSUME call.do \in {"settle", "claim"}
      PROVE  call.arg = current[n] /\ current[n] # 0 /\ call.arg \in RoundId
  BY <1>1, <1>2, <1>7, Bounds DEF AwaitedAt, Proper, RoundId
<1>8. CASE call.do = "push"
  BY <1>1, <1>2, <1>6, <1>8, PushEnded DEF Turning
<1>9. CASE call.do = "create"
  BY <1>1, <1>2, <1>6, <1>9, CreateEnded DEF Turning
<1>10. CASE call.do = "settle" /\ ~(SettledBySomebody(result) /\ Demo(n))
  BY <1>1, <1>2, <1>6, <1>10, SettleEnded DEF Turning
<1>11. CASE call.do = "settle" /\ SettledBySomebody(result) /\ Demo(n)
  <2>1. PICK r \in RoundId : r = current[n] /\ r = call.arg
    BY <1>7, <1>11
  <2>2. Settled(n, r)'
    BY <1>1, <1>2, <1>3, <1>11, <2>1 DEF SettledBySomebody, Refusal, Settled
  <2>3. /\ UNCHANGED current /\ Elsewhere(n) /\ claimTracker' = Tried(claimTracker, n, r)
        /\ \A b \in Untried(claimTracker, n, r) :
             Calls(n, "claim", r) \in Held(queue'[<<"demo", b>>])
    BY <1>2, <1>11, <2>1, SettleEnded
  <2>4. TurnsWell(n)
    BY <2>1, <2>2, <2>3 DEF TurnsWell, ClaimsAll
  <2>5. ASSUME NEW m \in Market, m # n PROVE TurnsWell(m)
    BY <2>3, <2>5 DEF TurnsWell, Tried, Elsewhere
  <2>. QED BY <1>5, <2>3, <2>4, <2>5 DEF Tried
<1>12. CASE call.do = "bet"
  BY <1>1, <1>2, <1>6, <1>12, BotEnded DEF Elsewhere
<1>13. CASE call.do = "claim"
  <2>1. ~Open(n, current[n])
    BY <1>1, <1>2, <1>7, <1>13 DEF AwaitedAt, LoopInv, OwnInv, Placed
  <2>2. Settled(n, current[n])
    BY <1>7, <1>13, <2>1, NewestSettled
  <2>3. result = "done"
    BY <1>2, <1>7, <1>13, <2>2 DEF Refusal, Settled
  <2>4. UNCHANGED <<current, pc, claimTracker>>
    BY <1>13, <2>3, BotEnded
  <2>. QED BY <1>6, <2>4 DEF Elsewhere
<1>. QED BY <1>1, <1>8, <1>9, <1>10, <1>11, <1>12, <1>13

\* A call that the contract has carried out leaves no claim behind.
LEMMA LeavingLand ==
  ASSUME LoopInv, \A m \in Market : LeavingInv(m), UNCHANGED deployed,
         NEW l, NEW call, Ended(l, call, "ok"), Applies(call, l[2])
  PROVE  \A m \in Market : LeavingInv(m)'
<1>1. /\ l \in Lane /\ Proper(l, call) /\ AwaitedAt(call) /\ MarketInv
      /\ call.do \in {"push", "create", "bet", "settle", "claim"}
  BY EndingLoop DEF LoopInv
<1>2. PICK n \in Market : n = call.market
  BY EndingLoop
<1>3. ASSUME NEW m \in Market, NEW r \in RoundId, NEW b \in Bot, Claims(m, r, b),
             call.do # "claim"
      PROVE  Claims(m, r, b)'
  BY <1>3, ClaimsAfter
<1>4. ASSUME NEW m \in Market, current'[m] = current[m], counter'[m] = counter[m],
             \A r \in RoundId : /\ rounds'[m][r] # None <=> rounds[m][r] # None
                                /\ Settled(m, r) => Settled(m, r)',
             ~Demo(m) => stakes'[m] = stakes[m],
             claimTracker \subseteq claimTracker',
             \A r \in RoundId, b \in Bot : <<m, r, b>> \in claimTracker =>
               (stakes'[m][r][b] = "staked" => Claims(m, r, b)'),
             TurnsWell(m)
      PROVE  LeavingInv(m)'
  BY <1>4, LeavingStays DEF Untouched
<1>5. ASSUME NEW m \in Market, call.do # "claim", UNCHANGED stakes,
             NEW r \in RoundId, NEW b \in Bot, <<m, r, b>> \in claimTracker,
             stakes'[m][r][b] = "staked"
      PROVE  Claims(m, r, b)'
  BY <1>3, <1>5 DEF LeavingInv
<1>6. CASE call.do = "push"
  <2>1. UNCHANGED <<counter, rounds, stakes>>
    <3>1. Series!Push(n, call.arg) /\ call.arg \in Price
      BY <1>1, <1>2, <1>6 DEF Applies, Proper
    <3>. QED BY <1>1, <3>1, PushMoves
  <2>2. /\ pc[n] \in {"opening", "closing"} /\ Elsewhere(n) /\ UNCHANGED <<current, claimTracker>>
        /\ pc'[n] \in Turning => pc[n] \in Turning
    BY <1>1, <1>2, <1>6, PushEnded DEF Turning
  <2>3. \A m \in Market : TurnsWell(m)
    BY <2>2 DEF TurnsWell, Elsewhere
  <2>4. \A m \in Market, r \in RoundId : Settled(m, r) => Settled(m, r)'
    BY <2>1 DEF Settled, Series!HasStatus
  <2>. QED BY <1>4, <1>5, <1>6, <2>1, <2>2, <2>3, <2>4
<1>7. CASE call.do = "create"
  <2>1. Series!Create(n, LockOffset, OracleInterval)
    BY <1>2, <1>7 DEF Applies
  <2>2. PICK s \in RoundId : s = counter[n] + 1
    BY <1>1, <2>1, CreateMoves
  <2>3. /\ counter'[n] = s /\ rounds'[n][s] # None
        /\ \A m \in Market : m # n => counter'[m] = counter[m] /\ rounds'[m] = rounds[m]
        /\ \A r \in RoundId : r # s => rounds'[n][r] = rounds[n][r]
        /\ UNCHANGED stakes
    BY <1>1, <2>1, <2>2, CreateMoves
  <2>4. /\ pc[n] = "creating" /\ Elsewhere(n) /\ UNCHANGED claimTracker
        /\ current'[n] = s /\ pc'[n] \notin Turning
    BY <1>1, <1>2, <1>7, <2>3, CreateEnded DEF Turning
  <2>5. ASSUME NEW m \in Market, m # n PROVE LeavingInv(m)'
    <3>1. current'[m] = current[m] /\ TurnsWell(m)
      BY <2>4, <2>5 DEF TurnsWell, Elsewhere
    <3>2. \A r \in RoundId : Settled(m, r) => Settled(m, r)'
      BY <2>3, <2>5 DEF Settled, Series!HasStatus
    <3>. QED BY <1>4, <1>5, <1>7, <2>3, <2>4, <2>5, <3>1, <3>2
  <2>6. LeavingInv(n)'
    <3>1. /\ LeavingInv(n) /\ (Demo(n)' <=> Demo(n)) /\ counter[n] \in 0..MaxRounds
          /\ current[n] = counter[n]
      BY <1>1 DEF Demo, Loop, MarketInv, LeavingInv
    <3>2. \A r \in RoundId : r < s <=> r < counter[n] \/ r = counter[n]
      BY <2>2, <3>1, Bounds DEF RoundId
    <3>3. ASSUME NEW r \in RoundId, Settled(n, r) PROVE Settled(n, r)' /\ r # s
      <4>1. r # s
        BY <2>2, <3>1, <3>3, Bounds DEF LeavingInv, Settled, Series!HasStatus, RoundId
      <4>. QED BY <2>3, <3>3, <4>1 DEF Settled, Series!HasStatus
    <3>4. ASSUME NEW r \in RoundId, r < s PROVE Settled(n, r) /\ (Demo(n) => Tracks(n, r))
      <4>1. CASE r < counter[n]
        BY <3>1, <4>1 DEF LeavingInv
      <4>2. CASE r = counter[n]
        <5>1. current[n] # 0 /\ ~Open(n, current[n])
          BY <2>4, <3>1, <4>2, Bounds DEF LoopInv, OwnInv, Placed, RoundId
        <5>2. Settled(n, r)
          BY <3>1, <4>2, <5>1, NewestSettled
        <5>. QED BY <2>4, <3>1, <4>2, <5>1, <5>2 DEF LeavingInv, Turning
      <4>. QED BY <3>2, <3>4, <4>1, <4>2
    <3>5. \A r \in RoundId : rounds'[n][r] # None <=> r <= s
      <4>1. \A r \in RoundId : r <= s <=> r <= counter[n] \/ r = s
        BY <2>2, <3>1, Bounds DEF RoundId
      <4>. QED BY <2>2, <2>3, <3>1, <4>1 DEF LeavingInv
    <3>6. ~Demo(n)' => \A r \in RoundId, b \in Bot : stakes'[n][r][b] = "none"
      BY <2>3, <3>1 DEF LeavingInv
    <3>7. \A r \in RoundId : r < s => Settled(n, r)' /\ (Demo(n)' => Tracks(n, r)')
      BY <2>4, <3>1, <3>3, <3>4 DEF Tracks
    <3>8. \A r \in RoundId, b \in Bot : <<n, r, b>> \in claimTracker' =>
            Settled(n, r)' /\ (stakes'[n][r][b] = "staked" => Claims(n, r, b)')
      BY <1>5, <1>7, <2>3, <2>4, <3>1, <3>3 DEF LeavingInv
    <3>. QED BY <2>3, <2>4, <3>5, <3>6, <3>7, <3>8 DEF LeavingInv
  <2>. QED BY <2>5, <2>6
<1>8. CASE call.do = "bet"
  <2>1. PICK s \in RoundId, c \in Bot : s = call.arg /\ c = l[2] /\ Demo(n)
    BY <1>1, <1>2, <1>8 DEF Proper
  <2>2. Series!Bet(n, s, c, SideOf[c])
    BY <1>2, <1>8, <2>1 DEF Applies
  <2>3. /\ Open(n, s) /\ UNCHANGED counter
        /\ \A m \in Market, r \in RoundId :
             /\ m # n \/ r # s => stakes'[m][r] = stakes[m][r]
             /\ Settled(m, r)' <=> Settled(m, r)
             /\ rounds'[m][r] # None <=> rounds[m][r] # None
    BY <1>1, <2>2, BetMoves
  <2>4. UNCHANGED <<current, pc, claimTracker>>
    BY <1>8, BotEnded
  <2>5. \A m \in Market : m # n => stakes'[m] = stakes[m]
    <3>1. /\ stakes \in [Market -> [RoundId -> [Bot -> {"none", "staked", "claimed"}]]]
          /\ stakes' \in [Market -> [RoundId -> [Bot -> {"none", "staked", "claimed"}]]]
      BY <1>1 DEF MarketInv, Ended, EndsWell
    <3>2. ASSUME NEW m \in Market, m # n PROVE stakes'[m] = stakes[m]
      <4>1. \A r \in RoundId : stakes'[m][r] = stakes[m][r]
        BY <2>3, <3>2
      <4>2. /\ stakes[m] \in [RoundId -> [Bot -> {"none", "staked", "claimed"}]]
            /\ stakes'[m] \in [RoundId -> [Bot -> {"none", "staked", "claimed"}]]
        BY <3>1
      <4>. QED BY <4>1, <4>2
    <3>. QED BY <3>2
  <2>6. ASSUME NEW m \in Market, NEW r \in RoundId, NEW b \in Bot,
               <<m, r, b>> \in claimTracker, stakes'[m][r][b] = "staked"
        PROVE  Claims(m, r, b)'
    <3>1. Settled(m, r)
      BY <2>6 DEF LeavingInv
    <3>2. m # n \/ r # s
      BY <2>3, <3>1 DEF Open, Settled, Series!HasStatus
    <3>3. stakes[m][r][b] = "staked"
      BY <2>3, <2>6, <3>2
    <3>. QED BY <1>3, <1>8, <2>6, <3>3 DEF LeavingInv
  <2>7. \A m \in Market : TurnsWell(m)
    BY <2>4 DEF TurnsWell
  <2>. QED BY <1>4, <2>1, <2>3, <2>4, <2>5, <2>6, <2>7
<1>9. CASE call.do = "settle"
  <2>1. PICK s \in RoundId : s = call.arg
    BY <1>1, <1>9 DEF Proper
  <2>2. Series!SettleRound(n, s)
    BY <1>2, <1>9, <2>1 DEF Applies
  <2>3. /\ Settled(n, s)' /\ UNCHANGED <<counter, stakes>>
        /\ \A m \in Market, r \in RoundId : m # n \/ r # s => rounds'[m][r] = rounds[m][r]
        /\ \A m \in Market, r \in RoundId : rounds'[m][r] # None <=> rounds[m][r] # None
    BY <1>1, <2>2, SettleMoves
  <2>4. \A m \in Market, r \in RoundId : Settled(m, r) => Settled(m, r)'
    BY <2>3 DEF Settled, Series!HasStatus
  <2>5. /\ pc[n] = "settling" /\ Elsewhere(n) /\ UNCHANGED current /\ s = current[n]
        /\ IF Demo(n) THEN ClaimsAll(n, s) ELSE UNCHANGED claimTracker
    BY <1>1, <1>2, <1>9, <2>1, SettleEnded DEF SettledBySomebody, ClaimsAll
  <2>6. /\ claimTracker \subseteq claimTracker'
        /\ \A m \in Market : \A r, b : m # n /\ <<m, r, b>> \in claimTracker' =>
             <<m, r, b>> \in claimTracker
    BY <2>5 DEF ClaimsAll, Tried
  <2>7. TurnsWell(n)
    BY <2>3, <2>5 DEF TurnsWell
  <2>8. \A m \in Market : TurnsWell(m)
    BY <2>5, <2>6, <2>7 DEF TurnsWell, Elsewhere
  <2>. QED BY <1>4, <1>5, <1>9, <2>3, <2>4, <2>5, <2>6, <2>8
<1>10. CASE call.do = "claim"
  <2>1. PICK s \in RoundId, c \in Bot : s = call.arg /\ c = l[2] /\ Demo(n)
    BY <1>1, <1>2, <1>10 DEF Proper
  <2>2. Series!Claim(n, s, c)
    BY <1>2, <1>10, <2>1 DEF Applies
  <2>3. /\ stakes'[n][s][c] = "claimed" /\ UNCHANGED <<counter, rounds>>
        /\ \A m \in Market, r \in RoundId, b \in Bot : m # n \/ r # s \/ b # c =>
             stakes'[m][r][b] = stakes[m][r][b]
    BY <1>1, <2>2, ClaimMoves
  <2>4. UNCHANGED <<current, pc, claimTracker>>
    BY <1>10, BotEnded
  <2>5. \A m \in Market : m # n => stakes'[m] = stakes[m]
    BY <2>2 DEF Series!Claim
  <2>6. ASSUME NEW m \in Market, NEW r \in RoundId, NEW b \in Bot,
               <<m, r, b>> \in claimTracker, stakes'[m][r][b] = "staked"
        PROVE  Claims(m, r, b)'
    <3>1. m # n \/ r # s \/ b # c
      BY <2>3, <2>6
    <3>2. Claims(m, r, b)
      BY <2>3, <2>6, <3>1 DEF LeavingInv
    <3>. QED BY <1>2, <2>1, <3>1, <3>2, ClaimsAfter
  <2>7. \A m \in Market : TurnsWell(m)
    BY <2>4 DEF TurnsWell
  <2>8. \A m \in Market, r \in RoundId : Settled(m, r) => Settled(m, r)'
    BY <2>3 DEF Settled, Series!HasStatus
  <2>. QED BY <1>4, <2>1, <2>3, <2>4, <2>5, <2>6, <2>7, <2>8
<1>. QED BY <1>1, <1>6, <1>7, <1>8, <1>9, <1>10

\* While nothing fails, a step is one of these.
QuietLands(tx) == Lands(tx, "ok") /\ tx.awaited /\ faults' \in SUBSET deployed.faults

QuietStep ==
  \/ \E n \in Market : Wake(n) \/ Look(n) \/ PushPrice(n) \/ BotsDone(n) \/ Recount(n)
  \/ \E l \in Lane : Serves(l)
  \/ \E tx \in inflight : QuietLands(tx)
  \/ Rests /\ UNCHANGED <<counter, rounds, stakes>>

LEMMA QuietSteps ==
  ASSUME LoopInv, AllAwaited, [Next]_vars, faults' = {}
  PROVE  faults = {} /\ QuietStep
<1>1. faults = {} /\ UNCHANGED deployed
  BY FaultsGrow, NextGrows
<1>2. /\ MemoryInv /\ \A tx \in inflight : tx.awaited
      /\ faults \in SUBSET deployed.faults
  BY <1>1 DEF LoopInv, OwnInv, MemoryInv, AllAwaited
<1>3. \A kind : ~Faulty(kind)
  BY <1>2, FaultyKept
<1>4. ASSUME NEW m \in Market, Works(m) \/ Fails(m) \/ FeedMoves(m) PROVE QuietStep
  <2>1. CASE Works(m)
    BY <2>1 DEF Works, QuietStep
  <2>2. CASE FeedMoves(m)
    <3>1. Rests /\ UNCHANGED <<counter, rounds, stakes>>
      BY <2>2 DEF FeedMoves, Series!Push, Rests
    <3>. QED BY <3>1 DEF QuietStep
  <2>3. CASE Fails(m)
    BY <1>3, <2>3
       DEF Fails, WakeBlind, LooksAmiss, Misreads, RecountFails, Stranger, Expires
  <2>. QED BY <1>4, <2>1, <2>2, <2>3
<1>5. ASSUME NEW l \in Lane, Serves(l) \/ SendFails(l) \/ GiveUp(l) PROVE QuietStep
  BY <1>3, <1>5 DEF SendFails, GiveUp, QuietStep
<1>6. ASSUME NEW p \in Process, Crash(p) PROVE QuietStep
  BY <1>3, <1>6 DEF Crash
<1>7. ASSUME NEW tx \in inflight, Land(tx) \/ LandUnread(tx) \/ Drop(tx) PROVE QuietStep
  <2>1. CASE Land(tx)
    <3>1. QuietLands(tx)
      BY <1>2, <2>1 DEF Land, QuietLands
    <3>. QED BY <3>1 DEF QuietStep
  <2>2. CASE LandUnread(tx) \/ Drop(tx)
    BY <1>3, <2>2 DEF LandUnread, Drop
  <2>. QED BY <1>7, <2>1, <2>2
<1>8. CASE ClockTicks
  <2>1. Rests /\ UNCHANGED <<counter, rounds, stakes>>
    BY <1>8 DEF ClockTicks, Series!TimePasses, Rests
  <2>. QED BY <1>1, <2>1 DEF QuietStep
<1>9. CASE UNCHANGED vars
  <2>1. Rests /\ UNCHANGED <<counter, rounds, stakes>>
    BY <1>9 DEF vars, markets, Rests
  <2>. QED BY <1>1, <2>1 DEF QuietStep
<1>. QED BY <1>1, <1>4, <1>5, <1>6, <1>7, <1>8, <1>9 DEF Next

LEMMA LeavingRests ==
  ASSUME LoopInv, \A m \in Market : LeavingInv(m),
         UNCHANGED <<deployed, memory, queue, counter, rounds, stakes>>
  PROVE  \A m \in Market : LeavingInv(m)'
<1>1. ASSUME NEW m \in Market PROVE LeavingInv(m)'
  <2>1. UNCHANGED <<current, pc, claimTracker>>
    BY DEF memory
  <2>2. \A r \in RoundId : Settled(m, r) => Settled(m, r)'
    BY DEF Settled, Series!HasStatus
  <2>3. \A r \in RoundId, b \in Bot : Claims(m, r, b) => Claims(m, r, b)'
    BY DEF Claims
  <2>4. Untouched(m) /\ TurnsWell(m)
    BY <2>1, <2>2, <2>3 DEF Untouched, TurnsWell, LeavingInv
  <2>. QED BY <2>4, LeavingStays
<1>. QED BY <1>1

LEMMA LeavingPasses ==
  ASSUME LoopInv, \A m \in Market : LeavingInv(m), NEW n \in Market,
         Wake(n) \/ Look(n) \/ PushPrice(n) \/ BotsDone(n) \/ Recount(n)
  PROVE  \A m \in Market : LeavingInv(m)'
<1>1. /\ UNCHANGED <<markets, deployed>> /\ Elsewhere(n)
      /\ current'[n] = current[n] /\ TurnsWell(n)
      /\ \A m \in Market, r \in RoundId, b \in Bot :
           /\ <<m, r, b>> \in claimTracker => <<m, r, b>> \in claimTracker'
           /\ m # n /\ <<m, r, b>> \in claimTracker' => <<m, r, b>> \in claimTracker
  BY LeavingPass
<1>2. \A k \in Lane : Held(queue[k]) \subseteq Held(queue'[k])
  BY PassQueue DEF Longer
<1>3. ASSUME NEW m \in Market PROVE LeavingInv(m)'
  <2>1. \A r \in RoundId : Settled(m, r) => Settled(m, r)'
    BY <1>1 DEF Settled, Series!HasStatus, markets
  <2>2. \A r \in RoundId, b \in Bot : Claims(m, r, b) => Claims(m, r, b)'
    BY <1>2, ClaimsKept
  <2>3. Untouched(m)
    BY <1>1, <2>1, <2>2 DEF Untouched, Elsewhere, LeavingInv, markets
  <2>4. TurnsWell(m)
    BY <1>1 DEF TurnsWell, Elsewhere
  <2>. QED BY <2>3, <2>4, LeavingStays
<1>. QED BY <1>3

\* A claim on the way is not refused: no other takes the stake before it.
LEMMA ClaimTxStays ==
  ASSUME LoopInv, NEW tx \in inflight, NEW other \in inflight, ClaimTx(other),
         other.lane[2] # tx.lane[2], Applies(tx.call, tx.lane[2])
  PROVE  ClaimTx(other)'
<1> SUFFICES ASSUME other.call.do = "claim"
             PROVE  Series!CanClaim(other.call.market, other.call.arg, other.lane[2])'
  BY DEF ClaimTx
<1>1. PICK l \in Lane, call \in Call : l = tx.lane /\ call = tx.call /\ Proper(l, call)
  BY DEF LoopInv, InflightInv, Tx
<1>2. PICK m \in Market, r \in RoundId, b \in Bot :
        m = other.call.market /\ r = other.call.arg /\ b = other.lane[2]
  BY DEF LoopInv, InflightInv, Proper, Call
<1>3. Settled(m, r) /\ stakes[m][r][b] = "staked"
  BY <1>2 DEF ClaimTx, Series!CanClaim, Settled
<1> SUFFICES Settled(m, r)' /\ stakes'[m][r][b] = "staked"
  BY <1>2 DEF Series!CanClaim, Settled
<1>4. PICK n \in Market : n = call.market
  BY <1>1 DEF Proper, Call
<1>5. MarketInv /\ b # l[2] /\ Applies(call, l[2])
      /\ call.do \in {"push", "create", "bet", "settle", "claim"}
  BY <1>1, <1>2 DEF LoopInv, Call
<1>6. CASE call.do = "push"
  <2>1. Series!Push(n, call.arg) /\ call.arg \in Price
    BY <1>1, <1>4, <1>5, <1>6 DEF Applies, Proper
  <2>. QED BY <1>3, <1>5, <2>1, PushMoves DEF Settled, Series!HasStatus
<1>7. CASE call.do = "create"
  <2>1. Series!Create(n, LockOffset, OracleInterval)
    BY <1>4, <1>5, <1>7 DEF Applies
  <2>2. /\ UNCHANGED stakes
        /\ \A k \in Market : k # n => rounds'[k] = rounds[k]
        /\ \A s \in RoundId : s # counter[n] + 1 => rounds'[n][s] = rounds[n][s]
    BY <1>5, <2>1, CreateMoves
  <2>3. PICK c \in Nat : c = counter[n] /\ (m = n => r <= c)
    <3>1. other.call.arg <= counter[other.call.market]
      BY DEF LoopInv, InflightInv, Proper
    <3>. QED BY <1>2, <1>5, <3>1, Bounds DEF MarketInv
  <2>4. rounds'[m][r] = rounds[m][r]
    <3>1. m = n => r # c + 1
      BY <2>3, Bounds DEF RoundId
    <3>. QED BY <2>2, <2>3, <3>1
  <2>. QED BY <1>3, <2>2, <2>4 DEF Settled, Series!HasStatus
<1>8. CASE call.do = "bet"
  <2>1. PICK s \in RoundId, c \in Bot : s = call.arg /\ c = l[2]
    BY <1>1, <1>8 DEF Proper
  <2>2. Series!Bet(n, s, c, SideOf[c])
    BY <1>4, <1>5, <1>8, <2>1 DEF Applies
  <2>3. /\ Open(n, s) /\ (Settled(m, r)' <=> Settled(m, r))
        /\ m # n \/ r # s => stakes'[m][r] = stakes[m][r]
    BY <1>5, <2>2, BetMoves
  <2>4. m # n \/ r # s
    BY <1>3, <2>3 DEF Open, Settled, Series!HasStatus
  <2>. QED BY <1>3, <2>3, <2>4
<1>9. CASE call.do = "settle"
  <2>1. PICK s \in RoundId : s = call.arg
    BY <1>1, <1>9 DEF Proper
  <2>2. Series!SettleRound(n, s)
    BY <1>4, <1>5, <1>9, <2>1 DEF Applies
  <2>3. /\ Settled(n, s)' /\ UNCHANGED stakes
        /\ m # n \/ r # s => rounds'[m][r] = rounds[m][r]
    BY <1>5, <2>2, SettleMoves
  <2>. QED BY <1>3, <2>3 DEF Settled, Series!HasStatus
<1>10. CASE call.do = "claim"
  <2>1. PICK s \in RoundId, c \in Bot : s = call.arg /\ c = l[2] /\ b # c
    BY <1>1, <1>5, <1>10 DEF Proper
  <2>2. Series!Claim(n, s, c)
    BY <1>4, <1>5, <1>10, <2>1 DEF Applies
  <2>3. UNCHANGED rounds /\ stakes'[m][r][b] = stakes[m][r][b]
    BY <1>5, <2>1, <2>2, ClaimMoves
  <2>. QED BY <1>3, <2>3 DEF Settled, Series!HasStatus
<1>. QED BY <1>5, <1>6, <1>7, <1>8, <1>9, <1>10

LEMMA ClaimTxSame ==
  ASSUME UNCHANGED <<rounds, stakes>>, NEW tx, ClaimTx(tx)
  PROVE  ClaimTx(tx)'
BY DEF ClaimTx, Series!CanClaim, Series!HasStatus

\* No claim's transaction vanishes unanswered.
LEMMA QuietLaneStays ==
  ASSUME NEW l \in Lane, QuietLane(l), Lost(l)' => Lost(l),
         sent[l] => Head(queue'[l]) = Head(queue[l])
  PROVE  QuietLane(l)'
BY DEF QuietLane, Lost

LEMMA QuietEnds ==
  ASSUME LoopInv, \A l \in Lane : QuietLane(l),
         NEW k, NEW call, NEW result, Ended(k, call, result),
         \A l \in Lane : l # k => (Lost(l)' => Lost(l))
  PROVE  \A l \in Lane : QuietLane(l)'
<1>1. /\ k \in Lane /\ sent' = [sent EXCEPT ![k] = FALSE]
      /\ \A l \in Lane : l # k /\ queue[l] # <<>> => Head(queue'[l]) = Head(queue[l])
  BY EndedPushes DEF Ended
<1>2. ~Lost(k)' /\ \A l \in Lane : sent[l] => queue[l] # <<>>
  BY <1>1 DEF Lost, LoopInv, InflightInv
<1>3. ASSUME NEW l \in Lane, l # k PROVE QuietLane(l)'
  BY <1>1, <1>2, <1>3, QuietLaneStays
<1>. QED BY <1>2, <1>3 DEF QuietLane

LEMMA QuietServes ==
  ASSUME LoopInv, \A m \in Market : LeavingInv(m), \A tx \in inflight : ClaimTx(tx),
         \A l \in Lane : QuietLane(l), NEW k \in Lane, Serves(k)
  PROVE  /\ \A m \in Market : LeavingInv(m)'
         /\ \A tx \in inflight' : ClaimTx(tx)'
         /\ \A l \in Lane : QuietLane(l)'
<1>1. PICK call : call = Head(queue[k])
  OBVIOUS
<1>2. UNCHANGED <<markets, faults>> /\ queue[k] # <<>>
  BY <1>1, ServesEnds
<1>3. \A tx \in inflight : ClaimTx(tx)'
  BY <1>2, ClaimTxSame DEF markets
<1>4. CASE /\ Accepted(call, k[2]) /\ ~sent[k]
           /\ inflight' = inflight \cup {[lane |-> k, call |-> call, awaited |-> TRUE]}
           /\ sent' = [sent EXCEPT ![k] = TRUE]
           /\ UNCHANGED <<deployed, memory, queue>>
  <2>1. PICK new : new = [lane |-> k, call |-> call, awaited |-> TRUE]
    OBVIOUS
  <2>2. /\ new.lane = k /\ new.call = call /\ new.awaited
        /\ inflight' = inflight \cup {new} /\ inflight \subseteq inflight'
    BY <1>4, <2>1
  <2>3. ClaimTx(new)'
    <3>1. ClaimTx(new)
      BY <1>4, <2>2 DEF ClaimTx, Accepted
    <3>. QED BY <1>2, <3>1, ClaimTxSame DEF markets
  <2>4. ASSUME NEW l \in Lane PROVE QuietLane(l)'
    <3>1. CASE l = k
      BY <2>2, <3>1 DEF QuietLane, Lost, Awaited
    <3>2. CASE l # k
      BY <1>4, <2>2, <3>2 DEF QuietLane, Lost, Awaited, LoopInv, InflightInv
    <3>. QED BY <3>1, <3>2
  <2>5. \A m \in Market : LeavingInv(m)'
    BY <1>2, <1>4, LeavingRests DEF markets
  <2>. QED BY <1>3, <2>2, <2>3, <2>4, <2>5
<1>5. ASSUME UNCHANGED inflight, NEW result, Ended(k, call, result),
             result = "error" \/ result = Refusal(call),
             call.do = "claim" => result = Refusal(call) /\ ~Accepted(call, k[2])
      PROVE  /\ \A m \in Market : LeavingInv(m)'
             /\ \A tx \in inflight' : ClaimTx(tx)'
             /\ \A l \in Lane : QuietLane(l)'
  <2>1. UNCHANGED deployed /\ sent' = [sent EXCEPT ![k] = FALSE]
    BY <1>5 DEF Ended, Ends
  <2>2. \A l \in Lane : l # k => (Lost(l)' => Lost(l))
    BY <1>5, <2>1 DEF Lost, Awaited, LoopInv, InflightInv
  <2>3. \A l \in Lane : QuietLane(l)'
    BY <1>5, <2>2, QuietEnds
  <2>. QED BY <1>2, <1>3, <1>5, <2>1, <2>3, LeavingEnds
<1>6. CASE UNCHANGED inflight /\ Lost(k) /\ Ended(k, call, "error")
  BY <1>1, <1>5, <1>6 DEF QuietLane
<1>7. CASE UNCHANGED inflight /\ ~Accepted(call, k[2]) /\ Ended(k, call, Refusal(call))
  BY <1>5, <1>7
<1>. QED BY <1>1, <1>4, <1>6, <1>7, ServesEnds

\* A bot's key is used in the demo keeper alone, so in one chain.
LEMMA BotChain ==
  ASSUME LoopInv, NEW tx \in inflight, NEW l \in Lane, sent[l],
         Head(queue[l]).do = "claim", l[2] = tx.lane[2]
  PROVE  l = tx.lane
<1>1. PICK call : call = Head(queue[l])
  OBVIOUS
<1>2. Proper(l, call) /\ call.do = "claim"
  <2>1. queue[l] # <<>>
    BY AwaitedFacts
  <2>2. PICK q : q = [queue EXCEPT ![l] = Tail(@)]
    OBVIOUS
  <2>3. Ending(l, call, q)
    BY <1>1, <2>1, <2>2 DEF Ending
  <2>. QED BY <1>1, <2>3, EndingCall
<1>3. l[2] \in Bot /\ l[1] = "demo" /\ Admin # l[2]
  BY <1>2, Bounds DEF Proper, Demo
<1>4. PICK k \in Lane, other \in Call : k = tx.lane /\ other = tx.call /\ Proper(k, other)
  BY DEF LoopInv, InflightInv, Tx
<1>5. k[1] = "demo"
  BY <1>3, <1>4 DEF Proper, Demo, Call
<1>6. l = <<l[1], l[2]>> /\ k = <<k[1], k[2]>>
  BY Lanes
<1>. QED BY <1>3, <1>4, <1>5, <1>6

LEMMA QuietLand ==
  ASSUME LoopInv, \A m \in Market : LeavingInv(m), \A tx \in inflight : ClaimTx(tx),
         \A l \in Lane : QuietLane(l), UNCHANGED deployed,
         NEW tx \in inflight, QuietLands(tx)
  PROVE  /\ \A m \in Market : LeavingInv(m)'
         /\ \A other \in inflight' : ClaimTx(other)'
         /\ \A l \in Lane : QuietLane(l)'
<1>1. PICK k \in Lane, call \in Call : k = tx.lane /\ call = tx.call
  BY DEF LoopInv, InflightInv, Tx
<1>2. /\ inflight' = inflight \ SameAccount(tx)
      /\ IF Accepted(call, k[2]) THEN Ended(k, call, "ok") /\ Applies(call, k[2])
         ELSE UNCHANGED <<markets, memory, queue, sent>>
  <2>1. /\ inflight' = inflight \ SameAccount(tx)
        /\ IF Accepted(call, k[2]) THEN Applies(call, k[2]) ELSE UNCHANGED markets
    BY <1>1 DEF QuietLands, Lands
  <2>2. IF Accepted(call, k[2]) THEN Ended(k, call, "ok") ELSE UNCHANGED <<memory, queue, sent>>
    BY <1>1, LandedWell DEF QuietLands
  <2>. QED BY <2>1, <2>2
<1>3. \A other \in inflight' : other \in inflight /\ other.lane[2] # k[2]
  BY <1>1, <1>2 DEF SameAccount
<1>4. /\ sent[k] /\ call = Head(queue[k]) /\ ClaimTx(tx) /\ Proper(k, call)
  BY <1>1, AwaitedCall DEF QuietLands
<1>5. call.do = "claim" => Accepted(call, k[2])
  BY <1>1, <1>4 DEF ClaimTx, Accepted
<1>6. ASSUME NEW l \in Lane, l # k, sent[l], Head(queue[l]).do = "claim"
      PROVE  Awaited(l) \subseteq Awaited(l)'
  <2>1. l[2] # k[2]
    BY <1>1, <1>6, BotChain
  <2>2. \A other \in Awaited(l) : other \in inflight'
    BY <1>1, <1>2, <2>1 DEF Awaited, SameAccount
  <2>. QED BY <2>2 DEF Awaited
<1>7. CASE Accepted(call, k[2])
  <2>1. Ended(k, call, "ok") /\ Applies(call, k[2])
    BY <1>2, <1>7
  <2>2. \A m \in Market : LeavingInv(m)'
    BY <2>1, LeavingLand
  <2>3. \A other \in inflight' : ClaimTx(other)'
    BY <1>1, <1>3, <2>1, ClaimTxStays
  <2>4. ASSUME NEW l \in Lane PROVE QuietLane(l)'
    <3>1. /\ sent' = [sent EXCEPT ![k] = FALSE]
          /\ l # k /\ queue[l] # <<>> => Head(queue'[l]) = Head(queue[l])
      BY <2>1, EndedPushes
    <3>2. sent[l] => queue[l] # <<>>
      BY AwaitedFacts
    <3>3. CASE l = k
      BY <3>1, <3>3 DEF QuietLane, Lost, LoopInv, InflightInv
    <3>4. CASE l # k
      <4>1. SUFFICES ASSUME Lost(l)', Head(queue[l]).do = "claim" PROVE FALSE
        BY <3>1, <3>2, <3>4 DEF QuietLane, Lost, LoopInv, InflightInv
      <4>2. sent[l] /\ Awaited(l)' = {}
        BY <3>1, <3>4, <4>1 DEF Lost, LoopInv, InflightInv
      <4>3. Lost(l)
        BY <1>6, <3>4, <4>1, <4>2 DEF Lost
      <4>. QED BY <4>1, <4>3 DEF QuietLane
    <3>. QED BY <3>3, <3>4
  <2>. QED BY <2>2, <2>3, <2>4
<1>8. CASE ~Accepted(call, k[2])
  <2>1. UNCHANGED <<markets, memory, queue, sent>>
    BY <1>2, <1>8
  <2>2. \A m \in Market : LeavingInv(m)'
    BY <2>1, LeavingRests DEF markets
  <2>3. \A other \in inflight' : ClaimTx(other)'
    BY <1>3, <2>1, ClaimTxSame DEF markets
  <2>4. ASSUME NEW l \in Lane PROVE QuietLane(l)'
    <3>1. CASE l = k
      BY <1>4, <1>5, <1>8, <2>1, <3>1 DEF QuietLane
    <3>2. CASE l # k
      <4>1. SUFFICES ASSUME Lost(l)', Head(queue[l]).do = "claim" PROVE FALSE
        BY <2>1 DEF QuietLane
      <4>2. sent[l] /\ Awaited(l)' = {}
        BY <2>1, <4>1 DEF Lost
      <4>3. Lost(l)
        BY <1>6, <3>2, <4>1, <4>2 DEF Lost
      <4>. QED BY <4>1, <4>3 DEF QuietLane
    <3>. QED BY <3>1, <3>2
  <2>. QED BY <2>2, <2>3, <2>4
<1>. QED BY <1>7, <1>8

LEMMA QuietKept == LoopInv /\ AllAwaited /\ QuietInv /\ [Next]_vars => QuietInv'
<1> SUFFICES ASSUME LoopInv, AllAwaited, QuietInv, [Next]_vars, faults' = {}
             PROVE  /\ \A m \in Market : LeavingInv(m)'
                    /\ \A tx \in inflight' : ClaimTx(tx)'
                    /\ \A l \in Lane : QuietLane(l)'
  BY DEF QuietInv
<1>1. QuietStep /\ UNCHANGED deployed
  BY QuietSteps, NextGrows
<1>2. /\ \A m \in Market : LeavingInv(m)
      /\ \A tx \in inflight : ClaimTx(tx)
      /\ \A l \in Lane : QuietLane(l)
  BY QuietSteps DEF QuietInv
<1>3. ASSUME NEW n \in Market,
             Wake(n) \/ Look(n) \/ PushPrice(n) \/ BotsDone(n) \/ Recount(n)
      PROVE  /\ \A m \in Market : LeavingInv(m)'
             /\ \A tx \in inflight' : ClaimTx(tx)'
             /\ \A l \in Lane : QuietLane(l)'
  <2>1. UNCHANGED <<markets, sent, inflight>>
    BY <1>2, <1>3, LeavingPass
  <2>2. \A tx \in inflight' : ClaimTx(tx)'
    BY <1>2, <2>1, ClaimTxSame DEF markets
  <2>3. ASSUME NEW l \in Lane PROVE QuietLane(l)'
    <3>1. queue[l] # <<>> => Head(queue'[l]) = Head(queue[l])
      BY <1>3, PassQueue DEF Longer, Extends
    <3>2. sent[l] => queue[l] # <<>>
      BY AwaitedFacts
    <3>3. Lost(l)' => Lost(l)
      BY <2>1 DEF Lost, Awaited
    <3>. QED BY <1>2, <3>1, <3>2, <3>3, QuietLaneStays
  <2>. QED BY <1>2, <1>3, <2>2, <2>3, LeavingPasses
<1>4. ASSUME NEW l \in Lane, Serves(l)
      PROVE  /\ \A m \in Market : LeavingInv(m)'
             /\ \A tx \in inflight' : ClaimTx(tx)'
             /\ \A k \in Lane : QuietLane(k)'
  BY <1>2, <1>4, QuietServes
<1>5. ASSUME NEW tx \in inflight, QuietLands(tx)
      PROVE  /\ \A m \in Market : LeavingInv(m)'
             /\ \A other \in inflight' : ClaimTx(other)'
             /\ \A l \in Lane : QuietLane(l)'
  BY <1>1, <1>2, <1>5, QuietLand
<1>6. CASE Rests /\ UNCHANGED <<counter, rounds, stakes>>
  <2>1. UNCHANGED <<memory, queue, sent, inflight>>
    BY <1>6 DEF Rests, calls
  <2>2. \A tx \in inflight' : ClaimTx(tx)'
    BY <1>2, <1>6, <2>1, ClaimTxSame
  <2>3. \A l \in Lane : QuietLane(l)'
    BY <1>2, <2>1 DEF QuietLane, Lost, Awaited
  <2>. QED BY <1>1, <1>2, <1>6, <2>1, <2>2, <2>3, LeavingRests
<1>. QED BY <1>1, <1>3, <1>4, <1>5, <1>6 DEF QuietStep

LEMMA QuietAlways == Spec => [](LoopInv /\ QuietInv)
<1>1. Init => QuietInv
  <2> SUFFICES ASSUME Init PROVE QuietInv
    OBVIOUS
  <2>1. /\ \A m \in Market, r \in RoundId : rounds[m][r] = None
        /\ \A m \in Market, r \in RoundId, b \in Bot : stakes[m][r][b] = "none"
    BY DEF Init, Series!SeriesInit, RoundId, Series!RoundId
  <2>2. \A m \in Market : counter[m] = 0 /\ current[m] = 0
    BY DEF Init, Series!SeriesInit
  <2>3. ASSUME NEW m \in Market PROVE LeavingInv(m)
    <3>1. \A r \in RoundId : ~(r <= 0) /\ ~(r < 0)
      BY Bounds DEF RoundId
    <3>. QED BY <2>1, <2>2, <3>1 DEF LeavingInv, Init
  <2>. QED BY <2>3 DEF QuietInv, QuietLane, Lost, Init
<1>. QED BY <1>1, LoopAlways, AwaitedAlways, QuietKept, PTL DEF Spec

\* While nothing fails every round a loop has moved on from is settled and every stake
\* in it claimed, for any markets, bots and bounds, also when both processes sign with
\* the admin's key.
THEOREM StakesRecycled == Spec => []NothingLeftBehind
<1>1. LoopInv /\ QuietInv => NothingLeftBehind
  <2> SUFFICES ASSUME LoopInv, QuietInv, faults = {},
                      NEW m \in Market, NEW r \in RoundId, r < current[m]
               PROVE  Settled(m, r) /\ \A b \in Bot : stakes[m][r][b] # "staked"
    BY DEF NothingLeftBehind, Settled
  <2>1. LeavingInv(m)
    BY DEF QuietInv
  <2>2. Settled(m, r) /\ (Demo(m) => Tracks(m, r))
    BY <2>1 DEF LeavingInv
  <2>3. ASSUME NEW b \in Bot, stakes[m][r][b] = "staked" PROVE FALSE
    <3>1. Claims(m, r, b)
      BY <2>1, <2>2, <2>3 DEF LeavingInv, Tracks
    <3>2. PICK next, k : next = Calls(m, "claim", r) /\ k = <<"demo", b>> /\ k \in Lane
      <4>1. <<"demo", b>> \in Lane
        BY Lanes DEF Process, Account
      <4>. QED BY <4>1
    <3>3. AwaitedAt(next)
      BY <3>1, <3>2 DEF Claims, LoopInv, OwnInv, QueueInv
    <3>4. next.do = "claim" /\ next.market = m /\ next.arg = r
      BY <3>2, Calling
    <3>5. r = current[m] /\ r \in Int
      BY <3>3, <3>4, Bounds DEF AwaitedAt, RoundId
    <3>. QED BY <3>5
  <2>. QED BY <2>2, <2>3
<1>. QED BY <1>1, QuietAlways, PTL

=============================================================================
