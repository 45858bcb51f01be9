------------------------------- MODULE Keeper -------------------------------
(***************************************************************************)
(* keeper/: processes that settle the rounds of a market and open the next *)
(* ones.  Each remembers in a file the round it minds for each asset and   *)
(* goes through the assets one at a time, awaiting the RPC node at every   *)
(* step; a transaction it has given up on may still land.  The contract is *)
(* RoundSeries.                                                            *)
(***************************************************************************)
EXTENDS Integers, FiniteSets

CONSTANTS
  Keeper,
  NumAssets,
  MaxRounds, MaxTime, OracleInterval, Lifetime,
  MaxSkew,         \* how far a keeper's clock may be ahead of the ledger's
  Deployment,      \* which keepers run on how many assets, and bounds
  Fault,           \* what may go wrong: a subset of FaultKind
  None

Asset == 1..NumAssets

FaultKind == {"query",    \* a read-only call fails
              "send",     \* a transaction is refused by the node
              "drop",     \* a transaction is never included
              "giveup",   \* polling for a transaction fails or times out
              "crash",    \* the keeper stops and is started again
              "torn"}     \* it stops while it writes its file

ASSUME KeeperAssumption ==
  /\ NumAssets \in Nat /\ MaxRounds \in Nat /\ MaxTime \in Nat
  /\ OracleInterval \in Nat \ {0} /\ Lifetime \in Nat /\ MaxSkew \in Nat
  /\ Deployment \subseteq [keepers : SUBSET Keeper, assets : Asset,
                           until : 0..MaxTime, budget : Nat]
  /\ Fault \subseteq FaultKind
  /\ None \notin 1..MaxRounds

VARIABLES
  now, lastTick, opened, counter, rounds,   \* the contract and the feed
  deployed,  \* the deployment
  file,      \* keeper-state.json: the round minded for each asset
  at,        \* the asset being processed, 0 between two ticks of the loop
  pc,        \* the await a keeper is at
  target,    \* the round id it has in hand
  inflight,  \* transactions of its account that may still land
  faults,    \* faults so far
  misread    \* history: a keeper has taken a round for archived that it only failed to read

market == <<now, lastTick, opened, counter, rounds>>
keepers == <<file, at, pc, target, inflight>>
vars == <<market, deployed, keepers, faults, misread>>

Series == INSTANCE RoundSeries

ASSUME NoneAssumption == None \notin Series!Round

RoundId == 1..MaxRounds

\* A transaction is awaited until the keeper stops polling for it.
Tx == [call : {"settle", "create"}, on : RoundId \cup Asset, awaited : BOOLEAN]

Step == {"asleep", "read", "settle", "settling", "settled", "create",
         "creating", "created"}

Init ==
  /\ Series!SeriesInit
  /\ deployed \in Deployment
  /\ file = [k \in Keeper |-> [a \in Asset |-> None]]
  /\ at = [k \in Keeper |-> 0]
  /\ pc = [k \in Keeper |-> "asleep"]
  /\ target = [k \in Keeper |-> None]
  /\ inflight = [k \in Keeper |-> {}]
  /\ faults = 0
  /\ misread = FALSE

Goes(k, step) == pc' = [pc EXCEPT ![k] = step]

\* ASSETS are processed in the order 1..assets.  processAsset returned or threw:
\* tick() goes on with the next asset, and after the last one main() sleeps.
NextAsset(k) ==
  /\ at' = [at EXCEPT ![k] = (@ + 1) % (deployed.assets + 1)]
  /\ Goes(k, IF at[k] = deployed.assets THEN "asleep" ELSE "read")
  /\ target' = [target EXCEPT ![k] = None]

Faulty(kind) ==
  /\ kind \in Fault
  /\ faults < deployed.budget
  /\ faults' = faults + 1

-----------------------------------------------------------------------------
(* One pass of the loop *)

Wake(k) ==
  /\ k \in deployed.keepers /\ pc[k] = "asleep"
  /\ at' = [at EXCEPT ![k] = 1]
  /\ Goes(k, "read")
  /\ UNCHANGED <<market, deployed, file, target, inflight, faults, misread>>

\* getRound casts what the SDK makes of the contract's enum to a string, but a unit
\* variant is decoded to a vector that holds its name: "[Settled]" stands for it.
Decoded == [Open |-> "[Open]", Settled |-> "[Settled]"]

\* get_round of the round in the file decides what to do; the keeper compares
\* settle_ts with its own clock.
FinishedByClock(round, clock) == clock >= round.settle_ts \* mutant: the status unread

\* So this is never true: a settled round is taken for one that is due.
Finished(round, clock) == Decoded[round.status] = "Settled"

DueExactly(round, clock) == clock = round.settle_ts \* mutant: a late tick is missed

Due(round, clock) == clock >= round.settle_ts

DecisionToWait(round, clock) == \* mutant: waits for an archived round
  IF round = None THEN "wait"
  ELSE IF Finished(round, clock) THEN "create"
  ELSE IF Due(round, clock) THEN "settle"
  ELSE "wait"

\* A round that is not found is taken to be archived.
Decision(round, clock) ==
  IF round = None THEN "create"
  ELSE IF Finished(round, clock) THEN "create"
  ELSE IF Due(round, clock) THEN "settle"
  ELSE "wait"

Read(k) ==
  LET saved == file[k][at[k]]
  IN /\ pc[k] = "read"
     /\ \E clock \in now..(now + MaxSkew) :
          LET decision == IF saved = None THEN "create"
                          ELSE Decision(rounds[saved], clock)
          IN \/ decision = "create" /\ Goes(k, "create") /\ UNCHANGED <<at, target>>
             \/ /\ decision = "settle" /\ Goes(k, "settle")
                /\ target' = [target EXCEPT ![k] = saved]
                /\ UNCHANGED at
             \/ decision = "wait" /\ NextAsset(k)
     /\ UNCHANGED <<market, deployed, file, inflight, faults, misread>>

\* getRound turns every error into null, and null means archived.
ReadFails(k) ==
  /\ pc[k] = "read" /\ file[k][at[k]] # None
  /\ Faulty("query")
  /\ Goes(k, "create")
  /\ misread' = TRUE
  /\ UNCHANGED <<market, deployed, file, at, target, inflight>>

\* invoke("settle"): simulated first, and sent only if the contract accepts.
SubmitSettle(k) ==
  /\ pc[k] = "settle"
  /\ \/ /\ Series!CanSettle(target[k])
        /\ inflight' = [inflight EXCEPT ![k] = @ \cup
             {[call |-> "settle", on |-> target[k], awaited |-> TRUE]}]
        /\ Goes(k, "settling")
        /\ UNCHANGED <<at, target>>
     \/ /\ ~Series!CanSettle(target[k])
        /\ NextAsset(k)
        /\ UNCHANGED inflight
  /\ UNCHANGED <<market, deployed, file, faults, misread>>

SubmitCreate(k) ==
  /\ pc[k] = "create"
  /\ \/ /\ Series!Accepts(at[k])
        /\ inflight' = [inflight EXCEPT ![k] = @ \cup
             {[call |-> "create", on |-> at[k], awaited |-> TRUE]}]
        /\ Goes(k, "creating")
        /\ UNCHANGED <<at, target>>
     \/ /\ ~Series!Accepts(at[k])
        /\ NextAsset(k)
        /\ UNCHANGED inflight
  /\ UNCHANGED <<market, deployed, file, faults, misread>>

SendFails(k) ==
  /\ pc[k] \in {"settle", "create"}
  /\ Faulty("send")
  /\ NextAsset(k)
  /\ UNCHANGED <<market, deployed, file, inflight, misread>>

\* After settle() the next round is opened in the same pass.
Settled(k) ==
  /\ pc[k] = "settled"
  /\ Goes(k, "create")
  /\ target' = [target EXCEPT ![k] = None]
  /\ UNCHANGED <<market, deployed, file, at, inflight, faults, misread>>

NewestRound(k) == counter \* mutant: asks for the newest round instead

\* The round the transaction returned.
NewRound(k) == target[k]

\* The new round is read back and only then written to the file.
Save(k) ==
  /\ pc[k] = "created"
  /\ file' = IF rounds[NewRound(k)] = None THEN file
             ELSE [file EXCEPT ![k][at[k]] = NewRound(k)]
  /\ NextAsset(k)
  /\ UNCHANGED <<market, deployed, inflight, faults, misread>>

SaveFails(k) ==
  /\ pc[k] = "created"
  /\ Faulty("query")
  /\ NextAsset(k)
  /\ UNCHANGED <<market, deployed, file, inflight, misread>>

\* waitForTx throws: the awaited transaction has failed or is dead.
Awaited(k) == {tx \in inflight[k] : tx.awaited}

Throw(k) ==
  /\ pc[k] \in {"settling", "creating"}
  /\ Awaited(k) = {}
  /\ NextAsset(k)
  /\ UNCHANGED <<market, deployed, file, inflight, faults, misread>>

StillAwaited(k) == inflight[k] \* mutant: the old wait goes on

Forgotten(k) == {[tx EXCEPT !.awaited = FALSE] : tx \in inflight[k]}

\* waitForTx throws while the transaction may still land, or has landed.
GiveUp(k) ==
  /\ pc[k] \in {"settling", "settled", "creating", "created"}
  /\ Faulty("giveup")
  /\ inflight' = [inflight EXCEPT ![k] = Forgotten(k)]
  /\ NextAsset(k)
  /\ UNCHANGED <<market, deployed, file, misread>>

Stops(k) ==
  /\ at' = [at EXCEPT ![k] = 0]
  /\ Goes(k, "asleep")
  /\ target' = [target EXCEPT ![k] = None]
  /\ inflight' = [inflight EXCEPT ![k] = Forgotten(k)]
  /\ UNCHANGED <<market, deployed, misread>>

Crash(k) ==
  /\ pc[k] # "asleep"
  /\ Faulty("crash")
  /\ Stops(k)
  /\ UNCHANGED file

\* writeFileSync is not atomic, and loadState reads a torn file as empty.
TornWrite(k) ==
  /\ pc[k] = "created"
  /\ Faulty("torn")
  /\ Stops(k)
  /\ file' = [file EXCEPT ![k] = [a \in Asset |-> None]]

-----------------------------------------------------------------------------
(* The node and the network *)

\* A transaction is included.  Every transaction of the account that was built
\* on the same sequence number is dead from then on.  The contract may refuse
\* by now what it accepted in simulation.
Land(k, tx) ==
  /\ tx \in inflight[k]
  /\ IF tx.call = "settle"
     THEN IF Series!CanSettle(tx.on) THEN Series!SettleRound(tx.on)
          ELSE UNCHANGED market
     ELSE IF Series!Accepts(tx.on) THEN Series!Create(tx.on)
          ELSE UNCHANGED market
  /\ inflight' = [inflight EXCEPT ![k] = {}]
  /\ IF tx.awaited /\ rounds' # rounds
     THEN /\ Goes(k, IF tx.call = "settle" THEN "settled" ELSE "created")
          /\ target' = IF tx.call = "settle" THEN target
                       ELSE [target EXCEPT ![k] = counter']
     ELSE UNCHANGED <<pc, target>>
  /\ UNCHANGED <<deployed, file, at, faults, misread>>

\* The transaction's time bound passes before it is included.
Drop(k, tx) ==
  /\ tx \in inflight[k]
  /\ Faulty("drop")
  /\ inflight' = [inflight EXCEPT ![k] = @ \ {tx}]
  /\ UNCHANGED <<market, deployed, file, at, pc, target, misread>>

\* Bound: the clock stops at deployed.until.
Environment ==
  /\ Series!TimePasses
  /\ now' <= deployed.until
  /\ \A a \in Asset : a > deployed.assets => lastTick'[a] = 0
  /\ UNCHANGED <<deployed, keepers, faults, misread>>

-----------------------------------------------------------------------------
Works(k) ==
  \/ Wake(k) \/ Read(k) \/ SubmitSettle(k) \/ SubmitCreate(k)
  \/ Settled(k) \/ Save(k) \/ Throw(k)

Fails(k) ==
  \/ ReadFails(k) \/ SendFails(k) \/ SaveFails(k) \/ GiveUp(k)
  \/ Crash(k) \/ TornWrite(k)

Network(k) == \E tx \in Tx : Land(k, tx) \/ Drop(k, tx)

Next ==
  \/ \E k \in Keeper : Works(k) \/ Fails(k) \/ Network(k)
  \/ Environment

Spec == Init /\ [][Next]_vars

\* The loop never stops, the node answers, a transaction that is not dropped is
\* included, and the ledger's clock advances.
Fairness ==
  /\ \A k \in Keeper :
       /\ WF_vars(Works(k))
       /\ WF_vars(\E tx \in Tx : Land(k, tx))
  /\ WF_vars(Environment /\ now' > now)

FairSpec == Spec /\ Fairness

-----------------------------------------------------------------------------
(* Properties *)

TypeOK ==
  /\ now \in 0..MaxTime
  /\ lastTick \in [Asset -> Series!Tick \cup {0}]
  /\ opened \in [Asset -> Series!Tick \cup {0}]
  /\ counter \in 0..MaxRounds
  /\ rounds \in [RoundId -> Series!Round \cup {None}]
  /\ deployed \in Deployment
  /\ file \in [Keeper -> [Asset -> RoundId \cup {None}]]
  /\ at \in [Keeper -> 0..NumAssets]
  /\ pc \in [Keeper -> Step]
  /\ target \in [Keeper -> RoundId \cup {None}]
  /\ inflight \in [Keeper -> SUBSET Tx]
  /\ faults \in 0..deployed.budget
  /\ misread => faults > 0
  /\ \A k \in Keeper :
       /\ at[k] = 0 <=> pc[k] = "asleep"
       /\ target[k] # None <=> pc[k] \in {"settle", "settling", "settled", "created"}
       /\ Cardinality(Awaited(k)) <= IF pc[k] \in {"settling", "creating"} THEN 1 ELSE 0

\* A keeper minds the rounds in its file and the one it is about to save.
Minds(k, r) ==
  \/ \E a \in Asset : file[k][a] = r
  \/ pc[k] = "created" /\ target[k] = r

\* The file "lets the keeper resume after a restart without losing track of
\* which rounds it needs to settle": some keeper minds every open round.
NoRoundForgotten ==
  \A r \in RoundId : Series!IsOpen(r) => \E k \in Keeper : Minds(k, r)

\* "A second keeper running in parallel is harmless": as long as nothing fails,
\* exactly one keeper minds each open round, however their reads and
\* transactions interleave.
OneKeeperPerRound ==
  faults = 0 => \A r \in RoundId :
    Series!IsOpen(r) => Cardinality({k \in Keeper : Minds(k, r)}) = 1

\* Unless it failed to read it, a keeper leaves a round only for a newer one of
\* the same asset, and only when the old one is settled or has left storage.
HandsOver ==
  [][~misread => \A k \in Keeper, a \in Asset :
       LET old == file[k][a]
           new == file'[k][a]
       IN old # new /\ old # None /\ new # None =>
            /\ new > old
            /\ rounds[new].asset = a
            /\ ~Series!IsOpen(old)]_vars

InSomeFile(r) == \E k \in Keeper, a \in Asset : file[k][a] = r

\* Whatever else fails, in the end no round is left open that is in a keeper's file
\* and was due: it has been settled, unless it left storage or torn writes have
\* wiped every file it was in.
MindedRoundsSettle ==
  <>[](\A r \in RoundId :
         InSomeFile(r) /\ Series!IsOpen(r) /\ rounds[r].settle_ts <= deployed.until
           => misread)

\* Whatever fails, only one thing stops a market for good: in the end there is a
\* round on the last tick of every asset, or each of its keepers is stuck on a
\* round that is settled and still in storage.
StuckOn(k, a) ==
  LET saved == file[k][a]
  IN saved # None /\ rounds[saved] # None /\ ~Series!IsOpen(saved)

StallsOnlyOnSettledRounds ==
  <>[](\A a \in 1..deployed.assets :
         opened[a] = lastTick[a] \/ \A k \in deployed.keepers : StuckOn(k, a))

\* "If the tracked round is Settled (or we have none) -> call create_round()": in
\* the end there is a round on the last tick of every asset.
MarketKeepsMoving == <>[](\A a \in Asset : opened[a] = lastTick[a])

=============================================================================
