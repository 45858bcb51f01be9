---------------------------- MODULE WickKeepers ----------------------------
(***************************************************************************)
(* keeper/: the demo keeper and the XLM keeper, which drive wick-predict    *)
(* markets.  The demo keeper is one process with a loop per market: it     *)
(* pushes prices, opens and settles rounds, and bets and claims for its    *)
(* bots; a chain of promises per key lets one call of a key run at a time. *)
(* The XLM keeper is a process of its own with one loop and no such chain. *)
(* The contracts and the oracle are BetSeries.                             *)
(***************************************************************************)
EXTENDS Integers, Sequences, FiniteSets

CONSTANTS
  Market, Admin, Bot,
  SideOf,        \* the side each bot bets on
  MaxRounds, MaxTime, LockOffset, OracleInterval, Lifetime,
  Spot,          \* what the price feed may say: even, so that a nudge is no spot
  Deployment,    \* which loops run on which markets, what may go wrong, and bounds
  None

FaultKind == {"query",     \* a read-only call fails
              "send",      \* a transaction is refused by the node
              "drop",      \* a transaction is never included
              "giveup",    \* polling for a transaction fails
              "decode",    \* the value a transaction returned cannot be read
              "crash",     \* a process stops and is started again
              "clock",     \* a process's clock is off, or was read a while before the round
              "stranger",  \* somebody else calls create_round or settle
              "expiry"}    \* a round leaves storage before it is looked at

Process == {"demo", "xlm"}

ASSUME WickKeepersAssumption ==
  /\ MaxRounds \in Nat \ {0} /\ MaxTime \in Nat /\ Lifetime \in Nat
  /\ LockOffset \in Nat /\ OracleInterval \in Nat \ {0} /\ LockOffset < OracleInterval
  /\ Admin \notin Bot /\ SideOf \in [Bot -> {"Above", "Below"}]
  /\ \A spot \in Spot : spot \in Int /\ spot % 2 = 0
  /\ Deployment \subseteq [loop : [Market -> Process \cup {"off"}],
                           tagged : BOOLEAN, spots : (SUBSET Spot) \ {{}}, until : 1..MaxTime,
                           faults : SUBSET FaultKind, budget : Nat]

VARIABLES
  now, tick, counter, lastStrikeTs, rounds, stakes,   \* the contracts and the oracle
  deployed,      \* the deployment
  current,       \* currentRoundId of each loop
  lastPushed,    \* the last price sent for each market
  betTracker, claimTracker,
  pc,            \* the await a loop is at
  queue,         \* txLocks: the calls chained on each key, the head being run
  sent,          \* whether the head has been sent
  inflight,      \* transactions that may still land
  faults         \* the faults so far, each kind at most once

markets == <<now, tick, counter, lastStrikeTs, rounds, stakes>>
memory == <<current, lastPushed, betTracker, claimTracker, pc>>
calls == <<queue, sent, inflight>>
vars == <<markets, deployed, memory, calls, faults>>

Nudge(price) == price + 1

Price == Spot \cup {Nudge(spot) : spot \in Spot}

Series == INSTANCE BetSeries WITH
  Bettor <- Bot, LockOffset <- {LockOffset}, OracleInterval <- {OracleInterval}

ASSUME NoneAssumption ==
  None \notin Price \cup Series!Round \cup [price : Price, timestamp : Nat]

RoundId == 1..MaxRounds
Account == {Admin} \cup Bot
Loop(m) == deployed.loop[m]

ChainPerMarket(m) == m \* mutant: the lock is taken per market

\* txLocks has one chain per key in a process, whichever loop calls.
Chain(m) == Loop(m)

Lane == (Process \cup Market) \X Account

Call == [do : {"push", "create", "bet", "settle", "claim"}, market : Market,
         arg : RoundId \cup Price \cup {None}]

\* A transaction is awaited until its caller stops polling for it.
Tx == [lane : Lane, call : Call, awaited : BOOLEAN]

Step == {"asleep", "look", "open", "opening", "creating", "recount", "betting",
         "close", "closing", "settling", "claiming"}

Init ==
  /\ now = 1
  /\ Series!SeriesInit
  /\ deployed \in Deployment
  /\ current = [m \in Market |-> 0]
  /\ lastPushed = [m \in Market |-> None]
  /\ betTracker = {}
  /\ claimTracker = {}
  /\ pc = [m \in Market |-> "asleep"]
  /\ queue = [l \in Lane |-> <<>>]
  /\ sent = [l \in Lane |-> FALSE]
  /\ inflight = {}
  /\ faults = {}

Faulty(kind) ==
  /\ kind \in deployed.faults \ faults
  /\ Cardinality(faults) < deployed.budget
  /\ faults' = faults \cup {kind}

Goes(m, step) == pc' = [pc EXCEPT ![m] = step]
Minds(m, r) == current' = [current EXCEPT ![m] = r]

Calls(m, do, arg) == [do |-> do, market |-> m, arg |-> arg]

\* withAccountLock: the call is chained behind those its key has already.
Chained(q, m, accounts, call) ==
  [l \in Lane |-> IF l[1] = Chain(m) /\ l[2] \in accounts THEN Append(q[l], call)
                  ELSE q[l]]

\* autoBet and autoClaim: one call per bot that the tracker does not have yet.
Untried(tracker, m, r) == {b \in Bot : <<m, r, b>> \notin tracker}
Tried(tracker, m, r) == tracker \cup ({m} \X {r} \X Bot)

AutoBet(q, m, r) ==
  /\ queue' = Chained(q, m, Untried(betTracker, m, r), Calls(m, "bet", r))
  /\ betTracker' = Tried(betTracker, m, r)
  /\ Goes(m, "betting")

AutoClaim(q, m, r) ==
  /\ queue' = Chained(q, m, Untried(claimTracker, m, r), Calls(m, "claim", r))
  /\ claimTracker' = Tried(claimTracker, m, r)
  /\ Goes(m, "claiming")

Invoke(q, m, do, arg, step) ==
  /\ queue' = Chained(q, m, {Admin}, Calls(m, do, arg))
  /\ Goes(m, step)

-----------------------------------------------------------------------------
(* One pass of a loop *)

\* A loop that has no round in mind asks for the counter.
Wake(m) ==
  /\ Loop(m) # "off" /\ pc[m] = "asleep"
  /\ Minds(m, IF current[m] = 0 THEN counter[m] ELSE current[m])
  /\ Goes(m, "look")
  /\ UNCHANGED <<markets, deployed, lastPushed, betTracker, claimTracker, calls, faults>>

\* The demo keeper's query returns null when the simulation fails.
WakeBlind(m) ==
  /\ Loop(m) # "off" /\ pc[m] = "asleep" /\ current[m] = 0
  /\ Faulty("query")
  /\ Goes(m, "look")
  /\ UNCHANGED <<markets, deployed, current, lastPushed, betTracker, claimTracker, calls>>

\* The status of a round, if the client library gives enums a tag.
Status(round) == IF deployed.tagged THEN round.status ELSE "unknown"

DueAtLock(round, clock) == clock >= round.lock_ts \* mutant: settles at the lock

Due(round, clock) == clock >= round.settle_ts

\* processMarket
DemoLooks(m, round, clock) ==
  IF Status(round) = "Open" /\ clock < round.lock_ts
  THEN AutoBet(queue, m, current[m]) /\ UNCHANGED claimTracker
  ELSE /\ UNCHANGED betTracker
       /\ IF Status(round) # "Settled" /\ Due(round, clock)
          THEN Goes(m, "close") /\ UNCHANGED <<queue, claimTracker>>
          ELSE IF Status(round) = "Settled"
          THEN AutoClaim(queue, m, current[m])
          ELSE Goes(m, "asleep") /\ UNCHANGED <<queue, claimTracker>>

\* tick of the XLM keeper
XlmLooks(m, round, clock) ==
  /\ IF Status(round) = "Settled" THEN Invoke(queue, m, "create", None, "creating")
     ELSE IF Due(round, clock) THEN Invoke(queue, m, "settle", current[m], "settling")
     ELSE Goes(m, "asleep") /\ UNCHANGED queue
  /\ UNCHANGED <<betTracker, claimTracker>>

KeepsMissingRound(m) == \* mutant: the demo keeper keeps the number as the XLM keeper does
  Goes(m, "asleep") /\ UNCHANGED <<queue, current>>

\* A round that is not there makes way for a new one in the demo keeper, and is
\* an error that ends the pass in the XLM keeper.
MissingRound(m) ==
  /\ IF Loop(m) = "demo" THEN Minds(m, 0) /\ Goes(m, "open")
     ELSE Goes(m, "asleep") /\ UNCHANGED current
  /\ UNCHANGED queue

NoRound(m) ==
  IF Loop(m) = "demo" THEN Goes(m, "open") /\ UNCHANGED queue
  ELSE Invoke(queue, m, "create", None, "creating")

Looks(m, clock) ==
  LET round == rounds[m][current[m]]
  IN /\ pc[m] = "look"
     /\ IF current[m] = 0
        THEN NoRound(m) /\ UNCHANGED <<current, betTracker, claimTracker>>
        ELSE IF round = None
        THEN MissingRound(m) /\ UNCHANGED <<betTracker, claimTracker>>
        ELSE /\ UNCHANGED current
             /\ IF Loop(m) = "demo" THEN DemoLooks(m, round, clock)
                ELSE XlmLooks(m, round, clock)
     /\ UNCHANGED <<markets, deployed, lastPushed, sent, inflight>>

Look(m) == Looks(m, now) /\ UNCHANGED faults

LooksAmiss(m) == Faulty("clock") /\ \E clock \in {now - 1, now + 1} : Looks(m, clock)

\* The simulation of get_round fails, or the node does not answer at all.
Misreads(m) ==
  /\ pc[m] = "look" /\ current[m] # 0
  /\ Faulty("query")
  /\ \/ MissingRound(m)
     \/ Loop(m) = "demo" /\ Goes(m, "asleep") /\ UNCHANGED <<current, queue>>
  /\ UNCHANGED <<markets, deployed, lastPushed, betTracker, claimTracker, sent, inflight>>

SpotAsItIs(m, spot) == spot \* mutant: no nudge

\* pushPrice: a spot that is the price last sent is nudged.
Quote(m, spot) == IF spot = lastPushed[m] THEN Nudge(spot) ELSE spot

\* Bound: at MaxRounds a loop rests instead of opening a round.
PushPrice(m) ==
  /\ pc[m] \in {"open", "close"}
  /\ pc[m] = "open" => counter[m] < MaxRounds
  /\ \E spot \in deployed.spots :
       /\ lastPushed' = [lastPushed EXCEPT ![m] = Quote(m, spot)]
       /\ Invoke(queue, m, "push", Quote(m, spot),
                 IF pc[m] = "open" THEN "opening" ELSE "closing")
  /\ UNCHANGED <<markets, deployed, current, betTracker, claimTracker, sent, inflight,
                 faults>>

NonePending(m, do) == FALSE \* mutant: the bots' calls are not waited for

\* Promise.all: the loop goes on when every bot's call has ended.
Pending(m, do) ==
  \E l \in Lane : \E i \in DOMAIN queue[l] :
    queue[l][i].market = m /\ queue[l][i].do = do

BotsDone(m) ==
  /\ \/ pc[m] = "betting" /\ ~Pending(m, "bet") /\ Goes(m, "asleep")
     \/ pc[m] = "claiming" /\ ~Pending(m, "claim") /\ Goes(m, "open")
  /\ UNCHANGED <<markets, deployed, current, lastPushed, betTracker, claimTracker, calls,
                 faults>>

\* create_round returned nothing: the counter is read back.  The demo keeper takes
\* it only if it has grown, the XLM keeper as it is.
Recount(m) ==
  /\ pc[m] = "recount"
  /\ IF Loop(m) = "xlm"
     THEN Minds(m, counter[m]) /\ Goes(m, "asleep") /\ UNCHANGED <<queue, betTracker>>
     ELSE IF counter[m] > current[m]
     THEN Minds(m, counter[m]) /\ AutoBet(queue, m, counter[m])
     ELSE Goes(m, "asleep") /\ UNCHANGED <<queue, current, betTracker>>
  /\ UNCHANGED <<markets, deployed, lastPushed, claimTracker, sent, inflight, faults>>

RecountFails(m) ==
  /\ pc[m] = "recount"
  /\ Faulty("query")
  /\ Goes(m, "asleep")
  /\ UNCHANGED <<markets, deployed, current, lastPushed, betTracker, claimTracker, calls>>

-----------------------------------------------------------------------------
(* The end of a call, in its loop *)

\* pushPrice throws through openRound and processMarket.
PushEnds(q, m, result) ==
  /\ IF result # "ok" THEN queue' = q /\ Goes(m, "asleep")
     ELSE IF pc[m] = "opening" THEN Invoke(q, m, "create", None, "creating")
     ELSE Invoke(q, m, "settle", current[m], "settling")
  /\ UNCHANGED <<current, betTracker, claimTracker>>

CreateEnds(q, m, result) ==
  /\ IF result = "ok"
     THEN /\ Minds(m, counter'[m])
          /\ IF Loop(m) = "demo" THEN AutoBet(q, m, counter'[m])
             ELSE queue' = q /\ Goes(m, "asleep") /\ UNCHANGED betTracker
     ELSE /\ queue' = q
          /\ Goes(m, IF result = "null" \/ Loop(m) = "demo" THEN "recount" ELSE "asleep")
          /\ UNCHANGED <<current, betTracker>>
  /\ UNCHANGED claimTracker

SettledAnyway(result) == TRUE \* mutant: the round is left after any error

SettledBySomebody(result) == result \in {"ok", "done"}

SettleEnds(q, m, result) ==
  /\ IF ~SettledBySomebody(result)
     THEN queue' = q /\ Goes(m, "asleep") /\ UNCHANGED claimTracker
     ELSE IF Loop(m) = "demo" THEN AutoClaim(q, m, current[m])
     ELSE Invoke(q, m, "create", None, "creating") /\ UNCHANGED claimTracker
  /\ UNCHANGED <<current, betTracker>>

\* A call that failed is taken out of its tracker; NothingToClaim is no failure.
BotEnds(q, call, bot, result) ==
  LET key == <<call.market, call.arg, bot>>
  IN /\ queue' = q
     /\ betTracker' = IF call.do = "bet" /\ result # "ok" THEN betTracker \ {key}
                      ELSE betTracker
     /\ claimTracker' = IF call.do = "claim" /\ result = "error" THEN claimTracker \ {key}
                        ELSE claimTracker
     /\ UNCHANGED <<current, pc>>

Ends(l, result) ==
  LET call == Head(queue[l])
      q == [queue EXCEPT ![l] = Tail(@)]
  IN /\ sent' = [sent EXCEPT ![l] = FALSE]
     /\ CASE call.do = "push" -> PushEnds(q, call.market, result)
          [] call.do = "create" -> CreateEnds(q, call.market, result)
          [] call.do = "settle" -> SettleEnds(q, call.market, result)
          [] OTHER -> BotEnds(q, call, l[2], result)
     /\ UNCHANGED <<deployed, lastPushed>>

-----------------------------------------------------------------------------
(* invokeUnlocked *)

Accepted(call, account) ==
  CASE call.do = "push" -> TRUE
    [] call.do = "create" -> Series!CanCreate(call.market)
    [] call.do = "bet" -> Series!CanBet(call.market, call.arg, account)
    [] call.do = "settle" -> Series!CanSettle(call.market, call.arg)
    [] call.do = "claim" -> Series!CanClaim(call.market, call.arg, account)

\* AlreadySettled and NothingToClaim are told apart from other errors.
Refusal(call) ==
  IF /\ call.do \in {"settle", "claim"}
     /\ Series!HasStatus(call.market, call.arg, "Settled")
  THEN "done" ELSE "error"

\* Simulated first, and sent only if the contract accepts.
Submit(l) ==
  /\ queue[l] # <<>> /\ ~sent[l]
  /\ LET call == Head(queue[l])
     IN IF Accepted(call, l[2])
        THEN /\ inflight' = inflight \cup {[lane |-> l, call |-> call, awaited |-> TRUE]}
             /\ sent' = [sent EXCEPT ![l] = TRUE]
             /\ UNCHANGED <<deployed, memory, queue>>
        ELSE Ends(l, Refusal(call)) /\ UNCHANGED inflight
  /\ UNCHANGED <<markets, faults>>

SendFails(l) ==
  /\ queue[l] # <<>> /\ ~sent[l]
  /\ Faulty("send")
  /\ Ends(l, "error")
  /\ UNCHANGED <<markets, inflight>>

Awaited(l) == {tx \in inflight : tx.lane = l /\ tx.awaited}

\* The awaited transaction has failed or is past its time bound.
Throw(l) ==
  /\ sent[l] /\ Awaited(l) = {}
  /\ Ends(l, "error")
  /\ UNCHANGED <<markets, inflight, faults>>

StillAwaited(lanes) == inflight \* mutant: the old wait goes on

Forgotten(lanes) ==
  {[tx EXCEPT !.awaited = @ /\ tx.lane \notin lanes] : tx \in inflight}

\* getTransaction throws while the transaction may still land.
GiveUp(l) ==
  /\ Awaited(l) # {}
  /\ Faulty("giveup")
  /\ inflight' = Forgotten({l})
  /\ Ends(l, "error")
  /\ UNCHANGED markets

\* A process stops; what it has sent may still land.
Crash(p) ==
  LET own == {m \in Market : Loop(m) = p}
      lanes == {Chain(m) : m \in own} \X Account
  IN /\ own # {}
     /\ Faulty("crash")
     /\ current' = [m \in Market |-> IF m \in own THEN 0 ELSE current[m]]
     /\ lastPushed' = [m \in Market |-> IF m \in own THEN None ELSE lastPushed[m]]
     /\ betTracker' = {key \in betTracker : key[1] \notin own}
     /\ claimTracker' = {key \in claimTracker : key[1] \notin own}
     /\ pc' = [m \in Market |-> IF m \in own THEN "asleep" ELSE pc[m]]
     /\ queue' = [l \in Lane |-> IF l \in lanes THEN <<>> ELSE queue[l]]
     /\ sent' = [l \in Lane |-> sent[l] /\ l \notin lanes]
     /\ inflight' = Forgotten(lanes)
     /\ UNCHANGED <<markets, deployed>>

-----------------------------------------------------------------------------
(* The network *)

Applies(call, account) ==
  CASE call.do = "push" -> Series!Push(call.market, call.arg)
    [] call.do = "create" -> Series!Create(call.market, LockOffset, OracleInterval)
    [] call.do = "bet" -> Series!Bet(call.market, call.arg, account, SideOf[account])
    [] call.do = "settle" -> Series!SettleRound(call.market, call.arg)
    [] call.do = "claim" -> Series!Claim(call.market, call.arg, account)

SameAccount(tx) == {other \in inflight : other.lane[2] = tx.lane[2]}

\* A transaction is included.  Those its account built on the same sequence number
\* are dead from then on, and the contract may refuse by now what it accepted in
\* simulation.
Lands(tx, result) ==
  LET accepted == Accepted(tx.call, tx.lane[2])
  IN /\ tx \in inflight
     /\ IF accepted THEN Applies(tx.call, tx.lane[2]) ELSE UNCHANGED markets
     /\ inflight' = inflight \ SameAccount(tx)
     /\ IF tx.awaited /\ accepted THEN Ends(tx.lane, result)
        ELSE UNCHANGED <<deployed, memory, queue, sent>>

Land(tx) == Lands(tx, "ok") /\ UNCHANGED faults

LandUnread(tx) ==
  /\ tx.call.do = "create" /\ tx.awaited
  /\ Faulty("decode")
  /\ Lands(tx, "null")

Drop(tx) ==
  /\ Faulty("drop")
  /\ inflight' = inflight \ {tx}
  /\ UNCHANGED <<markets, deployed, memory, queue, sent>>

Stranger(m) ==
  /\ Loop(m) # "off"
  /\ Faulty("stranger")
  /\ \/ Series!Create(m, LockOffset, OracleInterval)
     \/ \E r \in RoundId : Series!SettleRound(m, r)
  /\ UNCHANGED <<deployed, memory, calls>>

\* The XLM market has a feed of its own.
FeedMoves(m) ==
  /\ Loop(m) = "xlm"
  /\ Series!Push(m, CHOOSE spot \in deployed.spots : TRUE)
  /\ UNCHANGED <<deployed, memory, calls, faults>>

Expires(m, r) ==
  /\ rounds[m][r] # None
  /\ Faulty("expiry")
  /\ now' = now
  /\ rounds' = [rounds EXCEPT ![m][r] = None]
  /\ stakes' = [stakes EXCEPT ![m][r] = [b \in Bot |-> "none"]]
  /\ Series!TimePasses
  /\ UNCHANGED <<deployed, memory, calls>>

\* Once every loop rests time may stand still.
ClockTicks ==
  /\ now' \in {now, now + 1} /\ now' <= deployed.until
  /\ UNCHANGED <<rounds, stakes>>
  /\ Series!TimePasses
  /\ UNCHANGED <<deployed, memory, calls, faults>>

-----------------------------------------------------------------------------
Works(m) ==
  Wake(m) \/ Look(m) \/ PushPrice(m) \/ BotsDone(m) \/ Recount(m)

Serves(l) == Submit(l) \/ Throw(l)

Fails(m) ==
  \/ WakeBlind(m) \/ LooksAmiss(m) \/ Misreads(m) \/ RecountFails(m)
  \/ Stranger(m) \/ \E r \in RoundId : Expires(m, r)

Next ==
  \/ \E m \in Market : Works(m) \/ Fails(m) \/ FeedMoves(m)
  \/ \E l \in Lane : Serves(l) \/ SendFails(l) \/ GiveUp(l)
  \/ \E p \in Process : Crash(p)
  \/ \E tx \in inflight : Land(tx) \/ LandUnread(tx) \/ Drop(tx)
  \/ ClockTicks

Spec == Init /\ [][Next]_vars

LandsFor(a) == \E tx \in inflight : tx.lane[2] = a /\ Land(tx)

\* No loop ever ends, the node answers, what is not dropped is included, and the
\* ledger's clock advances.
Fairness ==
  /\ \A m \in Market : WF_vars(Works(m))
  /\ \A p \in Process, a \in Account : WF_vars(Serves(<<p, a>>))
  /\ \A a \in Account : WF_vars(LandsFor(a))
  /\ WF_vars(ClockTicks /\ now' > now)

FairSpec == Spec /\ Fairness

-----------------------------------------------------------------------------
(* Properties *)

TypeOK ==
  /\ now \in 1..MaxTime
  /\ tick \in [Market -> [price : Price, timestamp : Nat] \cup {None}]
  /\ counter \in [Market -> 0..MaxRounds]
  /\ lastStrikeTs \in [Market -> Nat]
  /\ rounds \in [Market -> [RoundId -> Series!Round \cup {None}]]
  /\ stakes \in [Market -> [RoundId -> [Bot -> {"none", "staked", "claimed"}]]]
  /\ deployed \in Deployment
  /\ current \in [Market -> 0..MaxRounds]
  /\ lastPushed \in [Market -> Price \cup {None}]
  /\ betTracker \cup claimTracker \subseteq Market \X RoundId \X Bot
  /\ pc \in [Market -> Step]
  /\ queue \in [Lane -> Seq(Call)]
  /\ sent \in [Lane -> BOOLEAN]
  /\ inflight \subseteq Tx
  /\ faults \subseteq deployed.faults
  /\ \A l \in Lane : /\ (sent[l] => queue[l] # <<>>)
                     /\ (Awaited(l) # {} => sent[l] /\ Cardinality(Awaited(l)) = 1)

Demo(m) == Loop(m) = "demo"

\* "One in-flight tx per signing account": until a call is given up while its
\* transaction may still land, the loops of the demo keeper never have two
\* transactions of one key on the way, whichever calls fail.
OneInFlight ==
  faults \cap {"giveup", "crash"} = {} =>
    \A a \in Account :
      Cardinality({tx \in inflight : tx.lane[2] = a /\ Demo(tx.call.market)}) <= 1

\* The nudge "so the round resolves": a round with bots on both sides is not void,
\* whatever the spot does, as long as no push or settle fails, nobody else settles,
\* and no other process signs with the admin's key.
RoundsResolve ==
  faults \subseteq {"decode", "expiry"} /\ (\A m \in Market : Loop(m) # "xlm") =>
    \A m \in Market, r \in RoundId :
      Series!HasStatus(m, r, "Settled") /\ rounds[m][r].sides = Series!Side
        => rounds[m][r].outcome # "Void"

\* "claiming recycles stake": while nothing fails, every round a loop has moved on
\* from is settled and every bot has claimed its stake in it, also when two
\* processes sign with one key.
NothingLeftBehind ==
  \A m \in Market, r \in RoundId :
    faults = {} /\ r < current[m] =>
      /\ Series!HasStatus(m, r, "Settled")
      /\ \A b \in Bot : stakes[m][r][b] # "staked"

\* Although the oracle forgets the price at settle_ts, the demo keeper settles on a
\* price pushed at or after it, whatever fails, as long as its clock is not off
\* and nobody else settles.
FreshSettlement ==
  [][\A m \in Market, r \in RoundId :
       Demo(m) /\ Series!HasStatus(m, r, "Open") /\ Series!HasStatus(m, r, "Settled")'
       /\ faults' \cap {"clock", "stranger"} = {}
       => tick[m].timestamp >= rounds[m][r].settle_ts]_vars

\* "try again next cycle rather than abandoning the round": a call that fails never
\* makes a loop leave the round it minds while that is open.  Only a restart does, and
\* a query that fails in that very step: null is taken for a round that is gone.  And
\* no loop goes back to an earlier round.
GoesBlind == {"crash", "query"} \cap (faults' \ faults) # {}

LeavesOpenOnlyBlind ==
  [][\A m \in Market : current[m] # 0 /\ current'[m] # current[m] =>
       /\ current'[m] # 0 => current'[m] > current[m]
       /\ Series!HasStatus(m, current[m], "Open") => current'[m] = 0 /\ GoesBlind]_vars

\* A demo market has done what it can when its newest round is not due within the
\* bounds.  The XLM keeper waits for the feed, and for ever for a round that is gone.
DoneFor(m) ==
  LET NotDue(r) == Series!HasStatus(m, r, "Open") /\ rounds[m][r].settle_ts > deployed.until
  IN CASE Loop(m) = "off" -> TRUE
       [] Demo(m) -> counter[m] = MaxRounds \/ (counter[m] > 0 /\ NotDue(counter[m]))
       [] OTHER -> IF current[m] = 0 THEN ~Series!CanCreate(m)
                   ELSE \/ rounds[m][current[m]] = None
                        \/ NotDue(current[m])
                        \/ ~Series!HasStatus(m, current[m], "Open") /\ ~Series!CanCreate(m)

\* Whatever fails, no market stalls with a round that is due or without one.
NoMarketStalls == <>[](\A m \in Market : DoneFor(m))

=============================================================================
