---------------------------- MODULE IndexerProofs ----------------------------
(***************************************************************************)
(* Theorems about Indexer, for any users, rounds, batch limit and number   *)
(* of faults.  The invariant has three parts: what the stream says of the  *)
(* contract, where the indexer is in its batch, and what the tables hold   *)
(* of the events it has been through.                                      *)
(***************************************************************************)
EXTENDS Indexer, FiniteSetTheorems, SequenceTheorems, TLAPS

USE IndexerAssumption, NoneAssumption DEF IndexerAssumption, RoundId, Side, Outcome,
  Current

-----------------------------------------------------------------------------
(* What the stream says of the contract *)

Event ==
  [kind : {"created"}, round : RoundId]
    \cup [kind : {"bet"}, round : RoundId, user : User, side : Side,
          pool_up : Nat, pool_down : Nat]
    \cup [kind : {"settled"}, round : RoundId, outcome : Outcome]
    \cup [kind : {"claim"}, round : RoundId, user : User]
    \cup [kind : {"claims"}, round : Nat, user : User]

EventId == 1..Len(stream)

\* Event n is of this kind and about this round.
Is(n, kind, r) == stream[n].kind = kind /\ stream[n].round = r

NoneOf(kind, r) == \A n \in EventId : ~Is(n, kind, r)

\* Event n is the newest bet on its round.
LastBet(n) ==
  /\ stream[n].kind = "bet"
  /\ \A m \in EventId : m > n => ~Is(m, "bet", stream[n].round)

Pools(row, event) == row.pool_up = event.pool_up /\ row.pool_down = event.pool_down

ContractTypes ==
  /\ chain \in [RoundId -> RoundRow \cup {None}]
  /\ stakes \in [RoundId -> [User -> StakeEntry \cup {None}]]
  /\ stream \in Seq(Event)

\* A round is created once, before anything else happens to it.
CreatedFirst ==
  /\ \A r \in RoundId : chain[r] = None <=> NoneOf("created", r)
  /\ \A n \in EventId : stream[n].kind \in {"bet", "settled"} =>
       \E k \in EventId : k < n /\ Is(k, "created", stream[n].round)
  /\ \A k, n \in EventId :
       stream[k].kind = "created" /\ Is(n, "created", stream[k].round) => k = n

ChainInv ==
  \A r \in RoundId : chain[r] # None =>
    /\ chain[r].status = "Open" => chain[r].outcome = None
    /\ chain[r].status = "Settled" => \E n \in EventId : Is(n, "settled", r)
    /\ \/ NoneOf("bet", r) /\ chain[r].pool_up = 0 /\ chain[r].pool_down = 0
       \/ \E n \in EventId :
            stream[n].round = r /\ LastBet(n) /\ Pools(chain[r], stream[n])

\* The last bet's event carries the pools, the settlement's the outcome.
EventsInv ==
  \A n \in EventId :
    /\ LastBet(n) => Pools(chain[stream[n].round], stream[n])
    /\ stream[n].kind = "settled" => chain[stream[n].round].status = "Settled"

StakesInv ==
  /\ \A n \in EventId : stream[n].kind \in {"bet", "claim"} =>
       stakes[stream[n].round][stream[n].user] # None
  /\ \A n \in EventId : stream[n].kind = "bet" =>
       stakes[stream[n].round][stream[n].user].side = stream[n].side
  /\ \A n \in EventId : stream[n].kind = "claim" =>
       stakes[stream[n].round][stream[n].user].claimed
  /\ \A r \in RoundId, u \in User : stakes[r][u] # None =>
       /\ \E n \in EventId : Is(n, "bet", r) /\ stream[n].user = u
       /\ stakes[r][u].claimed =>
            \E n \in EventId :
              \/ Is(n, "claim", r) /\ stream[n].user = u
              \/ stream[n].kind = "claims" /\ stream[n].user = u

OutcomesInv ==
  \A n \in EventId : stream[n].kind = "settled" =>
    chain[stream[n].round].outcome = stream[n].outcome

ContractInv == ContractTypes /\ CreatedFirst /\ ChainInv /\ EventsInv
               /\ OutcomesInv /\ StakesInv

-----------------------------------------------------------------------------
(* Where the indexer is *)

PlaceInv ==
  /\ pc \in {"start", "asleep", "processing", "saving"}
  /\ faults \in 0..MaxFaults
  /\ cursor \in 0..Len(stream)
  /\ position \in Nat /\ (pc # "start" => position = cursor)
  /\ fetched \in Nat /\ position + fetched <= Len(stream) /\ fetched <= Limit
  /\ done \in 0..fetched
  /\ pc = "processing" => done < fetched
  /\ pc = "saving" => done = fetched
  /\ ~InBatch => fetched = 0
  /\ handled \subseteq EventId /\ missed \subseteq handled
  /\ deployed.cursor = "zero" => ~InBatch /\ cursor = 0

\* It cannot have read beyond this one: a batch read again is no shorter.
HighMark ==
  IF InBatch THEN position + fetched
  ELSE cursor + Shorter(Limit, Len(stream) - cursor)

-----------------------------------------------------------------------------
(* What the tables hold *)

\* Event n keeps its key as long as it may be read again.
Keyed(rows) ==
  /\ \A row \in rows :
       /\ row.key \in [tx : EventId, index : Nat]
       /\ row.key.tx <= HighMark
       /\ row.key.tx > cursor => row.key.index = row.key.tx - cursor - 1
  /\ \A row, other \in rows : row.key.tx = other.key.tx => row = other

BetRowsInv ==
  /\ Keyed(betRows)
  /\ \A row \in betRows :
       LET event == stream[row.key.tx]
       IN /\ event.kind = "bet" /\ row.round = event.round
          /\ row.user = event.user /\ row.side = event.side

ClaimRowsInv ==
  /\ Keyed(claimRows)
  /\ \A row \in claimRows :
       LET event == stream[row.key.tx]
       IN /\ event.kind \in {"claim", "claims"}
          /\ row.round = event.round /\ row.user = event.user

\* Rows may be ahead of the events passed, never of the contract.
RoundRowsInv ==
  /\ roundRows \in [RoundId -> RoundRow \cup {None}]
  /\ \A r \in RoundId : roundRows[r] # None =>
       /\ chain[r] # None
       /\ roundRows[r].status = "Settled" =>
            chain[r].status = "Settled" /\ roundRows[r].outcome = chain[r].outcome
       /\ roundRows[r].status = "Open" => roundRows[r].outcome = None
       /\ NoneOf("bet", r) => roundRows[r].pool_up = 0 /\ roundRows[r].pool_down = 0

\* Every event passed is recorded or excused, and the pools are those of the
\* last bet once it has been passed.
PassedInv ==
  Recognised => \A n \in 1..Passed :
    /\ Recorded(n) \/ Excused(n)
    /\ LastBet(n) /\ n \notin missed =>
         /\ roundRows[stream[n].round] # None
         /\ Pools(roundRows[stream[n].round], stream[n])

TablesInv == BetRowsInv /\ ClaimRowsInv /\ RoundRowsInv /\ PassedInv

MirrorInv == ContractInv /\ PlaceInv /\ TablesInv

\* What was handed to processEvent stays handed to it, also when the indexer falls
\* back; and of the events handed, claims need nothing but their own transaction.
HandedInv ==
  /\ \A n \in 1..Passed : n \in handled
  /\ ~Recognised => betRows = {}
  /\ Recognised => \A n \in handled : stream[n].kind = "claim" =>
       n \in missed \/ \E row \in claimRows : row.key.tx = n

-----------------------------------------------------------------------------
(* The stream grows *)

LEMMA EventFields ==
  ASSUME NEW e \in Event
  PROVE  /\ e.kind \in {"created", "bet", "settled", "claim", "claims"}
         /\ e.kind # "claims" => e.round \in RoundId
         /\ e.kind = "bet" => e.user \in User /\ e.side \in Side
                              /\ e.pool_up \in Nat /\ e.pool_down \in Nat
         /\ e.kind = "settled" => e.outcome \in Outcome
         /\ e.kind \in {"claim", "claims"} => e.user \in User
BY DEF Event

LEMMA EventTypes ==
  ASSUME ContractTypes
  PROVE  /\ Len(stream) \in Nat
         /\ \A n \in EventId : n \in Nat \ {0} /\ n <= Len(stream) /\ stream[n] \in Event
BY ElementOfSeq, LenProperties DEF ContractTypes, EventId

\* The stream has one more event, its last.
Grown(event, last) ==
  /\ last = Len(stream) + 1 /\ last \in Nat /\ Len(stream') = last
  /\ stream' \in Seq(Event)
  /\ EventId' = EventId \cup {last}
  /\ \A n \in EventId : n \in Nat /\ n < last /\ stream'[n] = stream[n]
  /\ stream'[last] = event

LEMMA Emits ==
  ASSUME ContractTypes, NEW event \in Event, Emit(event)
  PROVE  \E last : Grown(event, last)
<1>1. stream \in Seq(Event) /\ stream' = Append(stream, event) /\ Len(stream) \in Nat
  BY LenProperties DEF ContractTypes, Emit
<1>2. PICK last \in Nat : last = Len(stream) + 1
  BY <1>1
<1>3. /\ stream' \in Seq(Event) /\ Len(stream') = last
      /\ \A n \in 1..Len(stream) : stream'[n] = stream[n]
      /\ stream'[last] = event
  BY <1>1, <1>2, AppendProperties
<1>4. EventId' = EventId \cup {last}
  BY <1>1, <1>2, <1>3 DEF EventId
<1>5. \A n \in EventId : n \in Nat /\ n < last
  BY <1>1, <1>2 DEF EventId
<1>. QED BY <1>2, <1>3, <1>4, <1>5 DEF Grown, EventId

\* What a new event changes of what the stream says.
LEMMA Grows ==
  ASSUME ContractTypes, NEW e \in Event, NEW last, Grown(e, last)
  PROVE  /\ \A n \in EventId : \A kind, r : Is(n, kind, r)' <=> Is(n, kind, r)
         /\ \A kind, r : Is(last, kind, r)' <=> e.kind = kind /\ e.round = r
         /\ \A kind, r : NoneOf(kind, r)' <=>
              NoneOf(kind, r) /\ ~(e.kind = kind /\ e.round = r)
         /\ LastBet(last)' <=> e.kind = "bet"
         /\ \A n \in EventId : LastBet(n)' <=>
              LastBet(n) /\ ~(e.kind = "bet" /\ e.round = stream[n].round)
<1>1. \A n \in EventId : \A kind, r : Is(n, kind, r)' <=> Is(n, kind, r)
  BY DEF Is, Grown
<1>2. \A kind, r : Is(last, kind, r)' <=> e.kind = kind /\ e.round = r
  BY DEF Is, Grown
<1>3. \A kind, r : NoneOf(kind, r)' <=>
        NoneOf(kind, r) /\ ~(e.kind = kind /\ e.round = r)
  BY <1>1, <1>2 DEF NoneOf, Grown
<1>4. LastBet(last)' <=> e.kind = "bet"
  <2>1. \A m \in EventId' : ~(m > last)
    BY DEF Grown
  <2>. QED BY <2>1 DEF LastBet, Grown
<1>5. ASSUME NEW n \in EventId
      PROVE  LastBet(n)' <=>
               LastBet(n) /\ ~(e.kind = "bet" /\ e.round = stream[n].round)
  <2>1. stream'[n] = stream[n] /\ last > n
    BY DEF Grown
  <2>2. (\A m \in EventId' : m > n => ~Is(m, "bet", stream[n].round)')
          <=> /\ \A m \in EventId : m > n => ~Is(m, "bet", stream[n].round)'
              /\ ~Is(last, "bet", stream[n].round)'
    BY <2>1 DEF Grown
  <2>3. LastBet(n)' <=> /\ stream[n].kind = "bet"
                        /\ \A m \in EventId' : m > n => ~Is(m, "bet", stream[n].round)'
    BY <2>1 DEF LastBet, Is
  <2>. QED BY <1>1, <1>2, <2>1, <2>2, <2>3 DEF LastBet
<1>. QED BY <1>1, <1>2, <1>3, <1>4, <1>5

\* What has a bet or a settlement has been created.
LEMMA KnownRounds ==
  ASSUME ContractInv, NEW n \in EventId, stream[n].kind \in {"bet", "settled"}
  PROVE  stream[n].round \in RoundId /\ chain[stream[n].round] # None
<1>1. stream[n].round \in RoundId
  BY EventTypes, EventFields DEF ContractInv
<1>. QED BY <1>1 DEF ContractInv, CreatedFirst, NoneOf, Is

LEMMA CreateInv ==
  ASSUME ContractInv, NEW r \in RoundId, Create(r) PROVE ContractInv'
<1> DEFINE e == [kind |-> "created", round |-> r]
<1>1. /\ e \in Event /\ e.kind = "created" /\ e.round = r
  BY DEF Event
<1> HIDE DEF e
<1>2. PICK last : Grown(e, last)
  BY <1>1, Emits DEF Create, ContractInv, e
<1> DEFINE new == [status |-> "Open", outcome |-> None, pool_up |-> 0, pool_down |-> 0]
<1>3. /\ chain[r] = None /\ chain' = [chain EXCEPT ![r] = new]
      /\ new \in RoundRow /\ UNCHANGED stakes
      /\ new.status = "Open" /\ new.outcome = None
      /\ new.pool_up = 0 /\ new.pool_down = 0 /\ new # None
  BY DEF Create, RoundRow
<1> HIDE DEF new
<1>4. /\ \A n \in EventId : \A kind, s : Is(n, kind, s)' <=> Is(n, kind, s)
      /\ \A kind, s : Is(last, kind, s)' <=> kind = "created" /\ s = r
      /\ \A kind, s : NoneOf(kind, s)' <=> NoneOf(kind, s) /\ ~(kind = "created" /\ s = r)
      /\ ~LastBet(last)' /\ \A n \in EventId : LastBet(n)' <=> LastBet(n)
  BY <1>1, <1>2, Grows DEF ContractInv
<1>5. /\ EventId' = EventId \cup {last} /\ stream'[last] = e
      /\ \A n \in EventId : stream'[n] = stream[n] /\ n < last
      /\ stream' \in Seq(Event)
  BY <1>2 DEF Grown
<1>6. /\ chain' \in [RoundId -> RoundRow \cup {None}] /\ chain'[r] = new
      /\ \A s \in RoundId : s # r => chain'[s] = chain[s]
  BY <1>3 DEF ContractInv, ContractTypes
<1>7. \A n \in EventId : stream[n].kind \in {"bet", "settled"} =>
        /\ stream[n].round \in RoundId /\ stream[n].round # r
        /\ chain'[stream[n].round] = chain[stream[n].round]
  BY <1>3, <1>6, KnownRounds
<1>8. ContractTypes'
  BY <1>3, <1>5, <1>6 DEF ContractInv, ContractTypes
<1>9. CreatedFirst'
  <2>1. \A s \in RoundId : (chain[s] = None <=> NoneOf("created", s))
    BY DEF ContractInv, CreatedFirst
  <2>2. \A s \in RoundId : chain'[s] = None <=> NoneOf("created", s)'
    BY <1>3, <1>4, <1>6, <2>1
  <2>3. \A n \in EventId : stream[n].kind \in {"bet", "settled"} =>
          \E k \in EventId' : k < n /\ Is(k, "created", stream[n].round)'
    BY <1>4, <1>5 DEF ContractInv, CreatedFirst
  <2>4. \A n \in EventId : ~Is(n, "created", r)
    BY <1>3, <2>1 DEF NoneOf
  <2>5. ASSUME NEW k \in EventId', NEW n \in EventId',
               stream'[k].kind = "created", stream'[n].kind = "created",
               stream'[n].round = stream'[k].round
        PROVE  k = n
    <3>1. CASE k \in EventId /\ n \in EventId
      BY <1>5, <2>5, <3>1 DEF ContractInv, CreatedFirst, Is
    <3>2. CASE k = last \/ n = last
      BY <1>1, <1>5, <2>4, <2>5, <3>2 DEF Is
    <3>. QED BY <1>5, <3>1, <3>2
  <2>6. \A n \in EventId' : stream'[n].kind \in {"bet", "settled"} =>
          n \in EventId /\ stream'[n] = stream[n]
    BY <1>1, <1>5
  <2>7. (\A n \in EventId : stream[n].kind \in {"bet", "settled"} =>
           \E k \in EventId : k < n /\ Is(k, "created", stream[n].round))'
    BY <2>3, <2>6 DEF Is
  <2>. QED BY <2>2, <2>5, <2>7 DEF CreatedFirst, Is
<1>10. ChainInv'
  <2>1. NoneOf("bet", r)
    BY <1>7 DEF NoneOf, Is
  <2>2. ASSUME NEW s \in RoundId, s # r, chain[s] # None
        PROVE  /\ chain[s].status = "Settled" => \E n \in EventId' : Is(n, "settled", s)'
               /\ \/ NoneOf("bet", s)' /\ chain[s].pool_up = 0 /\ chain[s].pool_down = 0
                  \/ \E n \in EventId' : /\ stream'[n].round = s /\ LastBet(n)'
                                         /\ Pools(chain[s], stream'[n])
    BY <1>4, <1>5, <2>2 DEF ContractInv, ChainInv
  <2>. QED BY <1>3, <1>4, <1>6, <2>1, <2>2 DEF ContractInv, ChainInv, Pools
<1>11. EventsInv' /\ OutcomesInv'
  BY <1>1, <1>4, <1>5, <1>7 DEF ContractInv, EventsInv, OutcomesInv, LastBet, Pools
<1>12. StakesInv'
  <2>1. \A n \in EventId' : stream'[n].kind \in {"bet", "claim"} =>
          n \in EventId /\ stream'[n] = stream[n]
    BY <1>1, <1>5
  <2>2. StakesInv
    BY DEF ContractInv
  <2>3. ASSUME NEW s \in RoundId, NEW u \in User, stakes[s][u] # None
        PROVE  /\ \E n \in EventId' : Is(n, "bet", s)' /\ stream'[n].user = u
               /\ stakes[s][u].claimed => \E n \in EventId' :
                    \/ Is(n, "claim", s)' /\ stream'[n].user = u
                    \/ stream'[n].kind = "claims" /\ stream'[n].user = u
    BY <1>4, <1>5, <2>2, <2>3 DEF StakesInv
  <2>. QED BY <1>3, <2>1, <2>2, <2>3 DEF StakesInv
<1>. QED BY <1>8, <1>9, <1>10, <1>11, <1>12 DEF ContractInv


\* Events about rounds that there are.
LEMMA LaterEvents ==
  ASSUME ContractInv, NEW e \in Event, NEW last, Grown(e, last), e.kind # "created",
         e.kind \in {"bet", "settled"} => chain[e.round] # None,
         \A s \in RoundId : chain'[s] = None <=> chain[s] = None
  PROVE  CreatedFirst'
<1>1. /\ \A n \in EventId : \A kind, s : Is(n, kind, s)' <=> Is(n, kind, s)
      /\ \A s : NoneOf("created", s)' <=> NoneOf("created", s)
  BY Grows DEF ContractInv
<1>2. /\ EventId' = EventId \cup {last} /\ stream'[last] = e
      /\ \A n \in EventId : stream'[n] = stream[n] /\ n < last
  BY DEF Grown
<1>3. CreatedFirst
  BY DEF ContractInv
<1>4. \A s \in RoundId : chain'[s] = None <=> NoneOf("created", s)'
  BY <1>1, <1>3 DEF CreatedFirst
<1>5. \A n \in EventId : stream[n].kind \in {"bet", "settled"} =>
        \E k \in EventId' : k < n /\ Is(k, "created", stream[n].round)'
  BY <1>1, <1>2, <1>3 DEF CreatedFirst
<1>6. e.kind \in {"bet", "settled"} =>
        \E k \in EventId' : k < last /\ Is(k, "created", e.round)'
  <2>1. SUFFICES ASSUME e.kind \in {"bet", "settled"}
                 PROVE  \E k \in EventId : Is(k, "created", e.round)
    BY <1>1, <1>2
  <2>2. e.round \in RoundId
    BY <2>1, EventFields
  <2>. QED BY <1>3, <2>1, <2>2 DEF CreatedFirst, NoneOf
<1>7. (\A n \in EventId : stream[n].kind \in {"bet", "settled"} =>
         \E k \in EventId : k < n /\ Is(k, "created", stream[n].round))'
  BY <1>2, <1>5, <1>6 DEF Is
<1>8. ASSUME NEW k \in EventId', NEW n \in EventId',
             stream'[k].kind = "created", stream'[n].kind = "created",
             stream'[n].round = stream'[k].round
      PROVE  k = n
  BY <1>2, <1>3, <1>8 DEF CreatedFirst, Is
<1>. QED BY <1>4, <1>7, <1>8 DEF CreatedFirst, Is

LEMMA BetTypes ==
  ASSUME ContractTypes, NEW u \in User, NEW r \in RoundId, NEW side \in Side,
         Bet(u, r, side)
  PROVE  /\ chain'[r] \in RoundRow /\ chain'[r] # None
         /\ chain'[r].status = "Open" /\ chain'[r].outcome = chain[r].outcome
         /\ chain' = [chain EXCEPT ![r] = chain'[r]]
         /\ \A s \in RoundId : s # r => chain'[s] = chain[s]
<1>1. chain[r] \in RoundRow /\ chain[r] # None /\ chain[r].status = "Open"
  BY DEF Bet, ContractTypes
<1>2. chain[r].pool_up \in Nat /\ chain[r].pool_down \in Nat
  BY <1>1 DEF RoundRow
<1>3. PICK up \in Nat, down \in Nat :
        /\ up = IF side = "Up" THEN chain[r].pool_up + 1 ELSE chain[r].pool_up
        /\ down = IF side = "Down" THEN chain[r].pool_down + 1 ELSE chain[r].pool_down
  BY <1>2
<1>4. PICK new : new = [chain[r] EXCEPT !.pool_up = up, !.pool_down = down]
  OBVIOUS
<1>5. new \in RoundRow /\ new.status = "Open" /\ new.outcome = chain[r].outcome
  BY <1>1, <1>4 DEF RoundRow
<1>6. chain' = [chain EXCEPT ![r] = new]
  BY <1>1, <1>3, <1>4 DEF Bet, RoundRow
<1>7. chain'[r] = new /\ \A s \in RoundId : s # r => chain'[s] = chain[s]
  BY <1>6 DEF ContractTypes
<1>. QED BY <1>5, <1>6, <1>7

LEMMA BetInv ==
  ASSUME ContractInv, NEW u \in User, NEW r \in RoundId, NEW side \in Side,
         Bet(u, r, side)
  PROVE  ContractInv'
<1>1. chain[r] \in RoundRow /\ chain[r] # None /\ chain[r].status = "Open"
  BY DEF Bet, ContractInv, ContractTypes
<1> DEFINE new == chain'[r]
<1>2. /\ new \in RoundRow /\ new.status = "Open" /\ new.outcome = chain[r].outcome
      /\ new # None
  BY BetTypes DEF ContractInv
<1>3. /\ chain' = [chain EXCEPT ![r] = new]
      /\ chain'[r] = new
      /\ \A s \in RoundId : s # r => chain'[s] = chain[s]
  BY BetTypes DEF ContractInv
<1>0. Emit([kind |-> "bet", round |-> r, user |-> u, side |-> side,
            pool_up |-> new.pool_up, pool_down |-> new.pool_down])
  BY DEF Bet
<1> HIDE DEF new
<1> DEFINE e == [kind |-> "bet", round |-> r, user |-> u, side |-> side,
                 pool_up |-> new.pool_up, pool_down |-> new.pool_down]
<1>4. /\ e \in Event /\ e.kind = "bet" /\ e.round = r /\ e.user = u /\ e.side = side
      /\ Pools(new, e)
  BY <1>2 DEF Event, RoundRow, Pools
<1>5. Emit(e)
  BY <1>0
<1> HIDE DEF e
<1>6. PICK last : Grown(e, last)
  BY <1>4, <1>5, Emits DEF ContractInv
<1>7. /\ \A n \in EventId : \A kind, s : Is(n, kind, s)' <=> Is(n, kind, s)
      /\ \A kind, s : Is(last, kind, s)' <=> kind = "bet" /\ s = r
      /\ \A kind, s : NoneOf(kind, s)' <=> NoneOf(kind, s) /\ ~(kind = "bet" /\ s = r)
      /\ LastBet(last)'
      /\ \A n \in EventId : LastBet(n)' <=> LastBet(n) /\ r # stream[n].round
  BY <1>4, <1>6, Grows DEF ContractInv
<1>8. /\ EventId' = EventId \cup {last} /\ stream'[last] = e
      /\ \A n \in EventId : stream'[n] = stream[n] /\ n < last
      /\ stream' \in Seq(Event)
  BY <1>6 DEF Grown
<1> DEFINE entry == [side |-> side, claimed |-> FALSE]
<1>9. /\ entry \in StakeEntry /\ entry # None /\ entry.side = side /\ ~entry.claimed
  <2>1. /\ entry \in StakeEntry /\ entry.side = side /\ ~entry.claimed
    BY DEF StakeEntry
  <2> HIDE DEF entry
  <2>. QED BY <2>1
<1>10. /\ stakes[r][u] = None
       /\ stakes' \in [RoundId -> [User -> StakeEntry \cup {None}]]
       /\ stakes'[r][u] = entry
       /\ \A s \in RoundId, v \in User :
            s # r \/ v # u => stakes'[s][v] = stakes[s][v]
  BY <1>9 DEF Bet, ContractInv, ContractTypes
<1> HIDE DEF entry
<1>11. ContractTypes'
  BY <1>2, <1>3, <1>8, <1>10 DEF ContractInv, ContractTypes
<1>12. CreatedFirst'
  <2>1. \A s \in RoundId : chain'[s] = None <=> chain[s] = None
    BY <1>1, <1>2, <1>3
  <2>. QED BY <1>1, <1>4, <1>6, <2>1, LaterEvents
<1>13. ChainInv'
  <2>1. /\ chain'[r].status = "Open" => chain'[r].outcome = None
        /\ chain'[r].status = "Open"
    BY <1>1, <1>2, <1>3 DEF ContractInv, ChainInv
  <2>2. \E n \in EventId' : /\ stream'[n].round = r /\ LastBet(n)'
                            /\ Pools(chain'[r], stream'[n])
    BY <1>3, <1>4, <1>7, <1>8
  <2>3. ASSUME NEW s \in RoundId, s # r, chain[s] # None
        PROVE  /\ chain[s].status = "Settled" => \E n \in EventId' : Is(n, "settled", s)'
               /\ \/ NoneOf("bet", s)' /\ chain[s].pool_up = 0 /\ chain[s].pool_down = 0
                  \/ \E n \in EventId' : /\ stream'[n].round = s /\ LastBet(n)'
                                         /\ Pools(chain[s], stream'[n])
    BY <1>7, <1>8, <2>3 DEF ContractInv, ChainInv
  <2>. QED BY <1>3, <2>1, <2>2, <2>3 DEF ContractInv, ChainInv, Pools
<1>14. EventsInv'
  <2>1. \A n \in EventId : stream[n].kind = "settled" =>
          stream[n].round # r /\ stream[n].round \in RoundId
    BY <1>1, KnownRounds DEF ContractInv, EventsInv
  <2>2. \A n \in EventId : LastBet(n) => stream[n].round \in RoundId
    BY KnownRounds DEF LastBet
  <2>. QED BY <1>3, <1>4, <1>7, <1>8, <2>1, <2>2 DEF ContractInv, EventsInv, Pools
<1>15. OutcomesInv'
  <2>1. \A n \in EventId : stream[n].kind = "settled" =>
          stream[n].round # r /\ stream[n].round \in RoundId
    BY <1>1, KnownRounds DEF ContractInv, EventsInv
  <2>. QED BY <1>3, <1>4, <1>8, <2>1 DEF ContractInv, OutcomesInv
<1>16. StakesInv'
  <2>1. \A n \in EventId : stream[n].kind \in {"bet", "claim"} =>
          /\ stream[n].round \in RoundId /\ stream[n].user \in User
          /\ stakes[stream[n].round][stream[n].user] # None
          /\ stakes'[stream[n].round][stream[n].user]
               = stakes[stream[n].round][stream[n].user]
    <3>1. \A n \in EventId : stream[n].kind \in {"bet", "claim"} =>
            /\ stream[n].round \in RoundId /\ stream[n].user \in User
            /\ stakes[stream[n].round][stream[n].user] # None
      BY EventTypes, EventFields DEF ContractInv, StakesInv
    <3>. QED BY <1>10, <3>1
  <2>2. StakesInv
    BY DEF ContractInv
  <2>3. \A n \in EventId' : stream'[n].kind \in {"bet", "claim"} =>
          /\ stakes'[stream'[n].round][stream'[n].user] # None
          /\ stream'[n].kind = "bet" =>
               stakes'[stream'[n].round][stream'[n].user].side = stream'[n].side
          /\ stream'[n].kind = "claim" =>
               stakes'[stream'[n].round][stream'[n].user].claimed
    <3>1. ASSUME NEW n \in EventId, stream[n].kind \in {"bet", "claim"}
          PROVE  /\ stakes'[stream[n].round][stream[n].user] # None
                 /\ stream[n].kind = "bet" =>
                      stakes'[stream[n].round][stream[n].user].side = stream[n].side
                 /\ stream[n].kind = "claim" =>
                      stakes'[stream[n].round][stream[n].user].claimed
      BY <2>1, <2>2, <3>1 DEF StakesInv
    <3>2. /\ stakes'[e.round][e.user] # None
          /\ stakes'[e.round][e.user].side = e.side
      BY <1>4, <1>9, <1>10
    <3>. QED BY <1>4, <1>8, <3>1, <3>2
  <2>4. ASSUME NEW s \in RoundId, NEW v \in User, stakes'[s][v] # None
        PROVE  /\ \E n \in EventId' : Is(n, "bet", s)' /\ stream'[n].user = v
               /\ stakes'[s][v].claimed => \E n \in EventId' :
                    \/ Is(n, "claim", s)' /\ stream'[n].user = v
                    \/ stream'[n].kind = "claims" /\ stream'[n].user = v
    <3>1. CASE s = r /\ v = u
      BY <1>4, <1>7, <1>8, <1>9, <1>10, <3>1
    <3>2. CASE ~(s = r /\ v = u)
      <4>1. stakes[s][v] # None /\ stakes'[s][v] = stakes[s][v]
        BY <1>10, <2>4, <3>2
      <4>. QED BY <1>7, <1>8, <2>2, <4>1 DEF StakesInv
    <3>. QED BY <3>1, <3>2
  <2>. QED BY <2>3, <2>4 DEF StakesInv
<1>. QED BY <1>11, <1>12, <1>13, <1>14, <1>15, <1>16 DEF ContractInv

LEMMA SettleTypes ==
  ASSUME ContractTypes, NEW r \in RoundId, NEW outcome \in Outcome,
         Settle(r, outcome)
  PROVE  /\ chain'[r] \in RoundRow /\ chain'[r] # None
         /\ chain'[r].status = "Settled" /\ chain'[r].outcome = outcome
         /\ chain'[r].pool_up = chain[r].pool_up
         /\ chain'[r].pool_down = chain[r].pool_down
         /\ chain' = [chain EXCEPT ![r] = chain'[r]]
         /\ \A s \in RoundId : s # r => chain'[s] = chain[s]
<1>1. chain[r] \in RoundRow
  BY DEF Settle, ContractTypes
<1>2. PICK new : new = [chain[r] EXCEPT !.status = "Settled", !.outcome = outcome]
  OBVIOUS
<1>3. /\ new \in RoundRow /\ new.status = "Settled" /\ new.outcome = outcome
      /\ new.pool_up = chain[r].pool_up /\ new.pool_down = chain[r].pool_down
  BY <1>1, <1>2 DEF RoundRow
<1>4. chain' = [chain EXCEPT ![r] = new]
  BY <1>1, <1>2 DEF Settle, RoundRow
<1>5. chain'[r] = new /\ \A s \in RoundId : s # r => chain'[s] = chain[s]
  BY <1>4 DEF ContractTypes
<1>. QED BY <1>3, <1>4, <1>5

LEMMA SettleInv ==
  ASSUME ContractInv, NEW r \in RoundId, NEW outcome \in Outcome,
         Settle(r, outcome)
  PROVE  ContractInv'
<1>1. chain[r] \in RoundRow /\ chain[r] # None /\ chain[r].status = "Open"
  BY DEF Settle, ContractInv, ContractTypes
<1> DEFINE new == chain'[r]
<1>2. /\ new \in RoundRow /\ new.status = "Settled" /\ new.outcome = outcome
      /\ new.pool_up = chain[r].pool_up /\ new.pool_down = chain[r].pool_down
      /\ new # None
  BY SettleTypes DEF ContractInv
<1>3. /\ chain' = [chain EXCEPT ![r] = new]
      /\ chain'[r] = new
      /\ \A s \in RoundId : s # r => chain'[s] = chain[s]
  BY SettleTypes DEF ContractInv
<1> HIDE DEF new
<1> DEFINE e == [kind |-> "settled", round |-> r, outcome |-> outcome]
<1>4. /\ e \in Event /\ e.kind = "settled" /\ e.round = r /\ e.outcome = outcome
  BY DEF Event
<1>5. Emit(e)
  BY DEF Settle
<1> HIDE DEF e
<1>6. PICK last : Grown(e, last)
  BY <1>4, <1>5, Emits DEF ContractInv
<1>7. /\ \A n \in EventId : \A kind, s : Is(n, kind, s)' <=> Is(n, kind, s)
      /\ \A kind, s : Is(last, kind, s)' <=> kind = "settled" /\ s = r
      /\ \A s : NoneOf("bet", s)' <=> NoneOf("bet", s)
      /\ ~LastBet(last)'
      /\ \A n \in EventId : LastBet(n)' <=> LastBet(n)
  BY <1>4, <1>6, Grows DEF ContractInv
<1>8. /\ EventId' = EventId \cup {last} /\ stream'[last] = e
      /\ \A n \in EventId : stream'[n] = stream[n] /\ n < last
      /\ stream' \in Seq(Event)
  BY <1>6 DEF Grown
<1>9. ContractTypes'
  BY <1>2, <1>3, <1>8 DEF Settle, ContractInv, ContractTypes
<1>10. CreatedFirst'
  <2>1. \A s \in RoundId : chain'[s] = None <=> chain[s] = None
    BY <1>1, <1>2, <1>3
  <2>. QED BY <1>1, <1>4, <1>6, <2>1, LaterEvents
<1>11. ChainInv'
  <2>1. \E n \in EventId' : Is(n, "settled", r)'
    BY <1>7, <1>8
  <2>2. ASSUME NEW s \in RoundId, chain[s] # None
        PROVE  /\ chain[s].status = "Settled" => \E n \in EventId' : Is(n, "settled", s)'
               /\ \/ NoneOf("bet", s)' /\ chain[s].pool_up = 0 /\ chain[s].pool_down = 0
                  \/ \E n \in EventId' : /\ stream'[n].round = s /\ LastBet(n)'
                                         /\ Pools(chain[s], stream'[n])
    BY <1>7, <1>8, <2>2 DEF ContractInv, ChainInv
  <2>3. ASSUME NEW s \in RoundId, s # r, chain'[s] # None
        PROVE  /\ chain'[s].status = "Open" => chain'[s].outcome = None
               /\ chain'[s].status = "Settled" => \E n \in EventId' : Is(n, "settled", s)'
               /\ \/ NoneOf("bet", s)' /\ chain'[s].pool_up = 0 /\ chain'[s].pool_down = 0
                  \/ \E n \in EventId' : /\ stream'[n].round = s /\ LastBet(n)'
                                         /\ Pools(chain'[s], stream'[n])
    BY <1>3, <2>2, <2>3 DEF ContractInv, ChainInv
  <2>4. /\ chain'[r].status = "Settled"
        /\ \/ NoneOf("bet", r)' /\ chain'[r].pool_up = 0 /\ chain'[r].pool_down = 0
           \/ \E n \in EventId' : /\ stream'[n].round = r /\ LastBet(n)'
                                  /\ Pools(chain'[r], stream'[n])
    BY <1>1, <1>2, <1>3, <2>2 DEF Pools
  <2>. QED BY <2>1, <2>3, <2>4 DEF ChainInv
<1>12. EventsInv'
  <2>1. \A n \in EventId : stream[n].kind = "settled" =>
          stream[n].round # r /\ stream[n].round \in RoundId
    BY <1>1, KnownRounds DEF ContractInv, EventsInv
  <2>2. \A n \in EventId : LastBet(n) =>
          stream[n].round \in RoundId /\ Pools(chain[stream[n].round], stream[n])
    BY KnownRounds DEF LastBet, ContractInv, EventsInv
  <2>3. \A n \in EventId : LastBet(n) => Pools(chain'[stream[n].round], stream[n])
    BY <1>2, <1>3, <2>2 DEF Pools
  <2>. QED BY <1>2, <1>3, <1>4, <1>7, <1>8, <2>1, <2>3
           DEF ContractInv, EventsInv, Pools
<1>13. OutcomesInv'
  <2>1. \A n \in EventId : stream[n].kind = "settled" =>
          stream[n].round # r /\ stream[n].round \in RoundId
    BY <1>1, KnownRounds DEF ContractInv, EventsInv
  <2>. QED BY <1>2, <1>3, <1>4, <1>8, <2>1 DEF ContractInv, OutcomesInv
<1>14. StakesInv'
  <2>1. StakesInv /\ UNCHANGED stakes
    BY DEF ContractInv, Settle
  <2>2. \A n \in EventId' : stream'[n].kind \in {"bet", "claim"} =>
          n \in EventId /\ stream'[n] = stream[n]
    BY <1>4, <1>8
  <2>3. ASSUME NEW s \in RoundId, NEW v \in User, stakes[s][v] # None
        PROVE  /\ \E n \in EventId' : Is(n, "bet", s)' /\ stream'[n].user = v
               /\ stakes[s][v].claimed => \E n \in EventId' :
                    \/ Is(n, "claim", s)' /\ stream'[n].user = v
                    \/ stream'[n].kind = "claims" /\ stream'[n].user = v
    BY <1>7, <1>8, <2>1, <2>3 DEF StakesInv
  <2>. QED BY <2>1, <2>2, <2>3 DEF StakesInv
<1>. QED BY <1>9, <1>10, <1>11, <1>12, <1>13, <1>14 DEF ContractInv


\* A claim marks positions as claimed and tells nothing of the rounds.
MarksClaimed(e) ==
  /\ stakes' \in [RoundId -> [User -> StakeEntry \cup {None}]]
  /\ \A s \in RoundId, v \in User :
       \/ stakes'[s][v] = stakes[s][v]
       \/ /\ stakes[s][v] # None /\ stakes'[s][v] # None
          /\ stakes'[s][v].side = stakes[s][v].side /\ stakes'[s][v].claimed
          /\ e.user = v /\ (e.kind = "claim" => e.round = s)
  /\ e.kind = "claim" =>
       stakes'[e.round][e.user] # None /\ stakes'[e.round][e.user].claimed

LEMMA ClaimsInv ==
  ASSUME ContractInv, NEW e \in Event, e.kind \in {"claim", "claims"}, Emit(e),
         UNCHANGED chain, MarksClaimed(e)
  PROVE  ContractInv'
<1>1. PICK last : Grown(e, last)
  BY Emits DEF ContractInv
<1>2. /\ \A n \in EventId : \A kind, s : Is(n, kind, s)' <=> Is(n, kind, s)
      /\ Is(last, e.kind, e.round)'
      /\ \A s : NoneOf("bet", s)' <=> NoneOf("bet", s)
      /\ ~LastBet(last)'
      /\ \A n \in EventId : LastBet(n)' <=> LastBet(n)
  BY <1>1, Grows DEF ContractInv
<1>3. /\ EventId' = EventId \cup {last} /\ stream'[last] = e
      /\ \A n \in EventId : stream'[n] = stream[n] /\ n < last
      /\ stream' \in Seq(Event)
  BY <1>1 DEF Grown
<1>4. ContractTypes'
  BY <1>3 DEF MarksClaimed, ContractInv, ContractTypes
<1>5. CreatedFirst'
  BY <1>1, LaterEvents
<1>6. ChainInv'
  <2>1. ASSUME NEW s \in RoundId, chain[s] # None
        PROVE  /\ chain[s].status = "Settled" => \E n \in EventId' : Is(n, "settled", s)'
               /\ \/ NoneOf("bet", s)' /\ chain[s].pool_up = 0 /\ chain[s].pool_down = 0
                  \/ \E n \in EventId' : /\ stream'[n].round = s /\ LastBet(n)'
                                         /\ Pools(chain[s], stream'[n])
    BY <1>2, <1>3, <2>1 DEF ContractInv, ChainInv
  <2>. QED BY <2>1 DEF ContractInv, ChainInv, Pools
<1>7. EventsInv' /\ OutcomesInv'
  BY <1>2, <1>3 DEF ContractInv, EventsInv, OutcomesInv, Pools
<1>8. StakesInv'
  <2>1. StakesInv
    BY DEF ContractInv
  <2>2. \A n \in EventId : stream[n].kind \in {"bet", "claim"} =>
          stream[n].round \in RoundId /\ stream[n].user \in User
    BY EventTypes, EventFields DEF ContractInv
  <2>3. ASSUME NEW n \in EventId, stream[n].kind \in {"bet", "claim"}
        PROVE  /\ stakes'[stream[n].round][stream[n].user] # None
               /\ stream[n].kind = "bet" =>
                    stakes'[stream[n].round][stream[n].user].side = stream[n].side
               /\ stream[n].kind = "claim" =>
                    stakes'[stream[n].round][stream[n].user].claimed
    <3>1. PICK s \in RoundId, v \in User : s = stream[n].round /\ v = stream[n].user
      BY <2>2, <2>3
    <3>2. /\ stakes[s][v] # None
          /\ stream[n].kind = "bet" => stakes[s][v].side = stream[n].side
          /\ stream[n].kind = "claim" => stakes[s][v].claimed
      BY <2>1, <2>3, <3>1 DEF StakesInv
    <3>3. /\ stakes'[s][v] # None /\ stakes'[s][v].side = stakes[s][v].side
          /\ stakes[s][v].claimed => stakes'[s][v].claimed
      BY <3>2 DEF MarksClaimed
    <3>. QED BY <3>1, <3>2, <3>3
  <2>4. \A n \in EventId' : stream'[n].kind \in {"bet", "claim"} =>
          /\ stakes'[stream'[n].round][stream'[n].user] # None
          /\ stream'[n].kind = "bet" =>
               stakes'[stream'[n].round][stream'[n].user].side = stream'[n].side
          /\ stream'[n].kind = "claim" =>
               stakes'[stream'[n].round][stream'[n].user].claimed
    BY <1>3, <2>3 DEF MarksClaimed
  <2>5. ASSUME NEW s \in RoundId, NEW v \in User, stakes'[s][v] # None
        PROVE  /\ \E n \in EventId' : Is(n, "bet", s)' /\ stream'[n].user = v
               /\ stakes'[s][v].claimed => \E n \in EventId' :
                    \/ Is(n, "claim", s)' /\ stream'[n].user = v
                    \/ stream'[n].kind = "claims" /\ stream'[n].user = v
    <3>1. stakes[s][v] # None
      BY <2>5 DEF MarksClaimed
    <3>2. PICK n \in EventId : Is(n, "bet", s) /\ stream[n].user = v
      BY <2>1, <3>1 DEF StakesInv
    <3>3. CASE stakes'[s][v] = stakes[s][v]
      BY <1>2, <1>3, <2>1, <3>1, <3>2, <3>3 DEF StakesInv
    <3>4. CASE stakes'[s][v] # stakes[s][v]
      <4>1. \/ Is(last, "claim", s)' /\ stream'[last].user = v
            \/ stream'[last].kind = "claims" /\ stream'[last].user = v
        BY <1>2, <1>3, <3>4 DEF MarksClaimed
      <4>. QED BY <1>2, <1>3, <3>2, <4>1
    <3>. QED BY <3>3, <3>4
  <2>. QED BY <2>4, <2>5 DEF StakesInv
<1>. QED BY <1>4, <1>5, <1>6, <1>7, <1>8 DEF ContractInv

LEMMA MarkedEntry ==
  ASSUME NEW entry \in StakeEntry
  PROVE  LET marked == [entry EXCEPT !.claimed = TRUE]
         IN /\ marked \in StakeEntry /\ marked # None
            /\ marked.side = entry.side /\ marked.claimed
<1>1. /\ [entry EXCEPT !.claimed = TRUE] \in StakeEntry
      /\ [entry EXCEPT !.claimed = TRUE].side = entry.side
      /\ [entry EXCEPT !.claimed = TRUE].claimed
  BY DEF StakeEntry
<1> DEFINE marked == [entry EXCEPT !.claimed = TRUE]
<1>2. marked \in StakeEntry
  BY <1>1
<1> HIDE DEF marked
<1>3. marked # None
  BY <1>2
<1>. QED BY <1>1, <1>3 DEF marked

LEMMA ClaimInv ==
  ASSUME ContractInv, NEW u \in User, NEW r \in RoundId, Claim(u, r)
  PROVE  ContractInv'
<1>1. stakes[r][u] \in StakeEntry
  BY DEF Claim, Owed, ContractInv, ContractTypes
<1> DEFINE marked == [stakes[r][u] EXCEPT !.claimed = TRUE]
<1>2. /\ marked \in StakeEntry /\ marked # None
      /\ marked.side = stakes[r][u].side /\ marked.claimed
  BY <1>1, MarkedEntry
<1>3. stakes' = [stakes EXCEPT ![r][u] = marked]
  BY <1>1 DEF Claim, StakeEntry
<1> HIDE DEF marked
<1> DEFINE e == [kind |-> "claim", round |-> r, user |-> u]
<1>4. /\ e \in Event /\ e.kind = "claim" /\ e.round = r /\ e.user = u
  BY DEF Event
<1>5. Emit(e) /\ UNCHANGED chain /\ stakes[r][u] # None
  BY DEF Claim, Owed
<1> HIDE DEF e
<1>6. MarksClaimed(e)
  BY <1>2, <1>3, <1>4, <1>5 DEF MarksClaimed, ContractInv, ContractTypes
<1>. QED BY <1>4, <1>5, <1>6, ClaimsInv

LEMMA RoundsFinite ==
  ASSUME NEW rs \in SUBSET RoundId PROVE Cardinality(rs) \in Nat
<1>1. IsFiniteSet(1..MaxRounds)
  BY FS_Interval
<1>2. IsFiniteSet(rs)
  BY <1>1, FS_Subset
<1>. QED BY <1>2, FS_CardinalityType

LEMMA ClaimManyInv ==
  ASSUME ContractInv, NEW u \in User, NEW rs \in SUBSET RoundId, ClaimMany(u, rs)
  PROVE  ContractInv'
<1>1. Cardinality(rs) \in Nat
  BY RoundsFinite
<1> DEFINE e == [kind |-> "claims", round |-> Cardinality(rs), user |-> u]
<1>2. e \in Event /\ e.kind = "claims" /\ e.user = u
  BY <1>1 DEF Event
<1>3. Emit(e) /\ UNCHANGED chain
  BY DEF ClaimMany
<1> HIDE DEF e
<1>4. /\ DOMAIN stakes' = RoundId
      /\ \A s \in RoundId :
           IF s \in rs /\ Owed(u, s)
           THEN stakes'[s] = [stakes[s] EXCEPT ![u] = [stakes[s][u] EXCEPT !.claimed = TRUE]]
           ELSE stakes'[s] = stakes[s]
      /\ stakes' = [s \in RoundId |-> stakes'[s]]
  BY DEF ClaimMany, StakeEntry
<1>5. ASSUME NEW s \in RoundId
      PROVE  /\ stakes'[s] \in [User -> StakeEntry \cup {None}]
             /\ \A v \in User :
                  \/ stakes'[s][v] = stakes[s][v]
                  \/ /\ stakes[s][v] # None /\ stakes'[s][v] # None
                     /\ stakes'[s][v].side = stakes[s][v].side
                     /\ stakes'[s][v].claimed /\ v = u
  <2>1. stakes[s] \in [User -> StakeEntry \cup {None}]
    BY DEF ContractInv, ContractTypes
  <2>2. CASE ~(s \in rs /\ Owed(u, s))
    BY <1>4, <2>1, <2>2
  <2>3. CASE s \in rs /\ Owed(u, s)
    <3>1. stakes[s][u] \in StakeEntry /\ stakes[s][u] # None
      BY <2>1, <2>3 DEF Owed
    <3>2. PICK marked :
            /\ marked = [stakes[s][u] EXCEPT !.claimed = TRUE]
            /\ marked \in StakeEntry /\ marked # None
            /\ marked.side = stakes[s][u].side /\ marked.claimed
      BY <3>1, MarkedEntry
    <3>3. stakes'[s] = [stakes[s] EXCEPT ![u] = marked]
      BY <1>4, <2>3, <3>2
    <3>. QED BY <2>1, <3>1, <3>2, <3>3
  <2>. QED BY <2>2, <2>3
<1>6. MarksClaimed(e)
  <2>1. stakes' \in [RoundId -> [User -> StakeEntry \cup {None}]]
    BY <1>4, <1>5
  <2>. QED BY <1>2, <1>5, <2>1 DEF MarksClaimed
<1>. QED BY <1>2, <1>3, <1>6, ClaimsInv

LEMMA CallsInv ==
  ASSUME ContractInv, Calls PROVE ContractInv'
BY CreateInv, BetInv, SettleInv, ClaimInv, ClaimManyInv DEF Calls, Side, Outcome


-----------------------------------------------------------------------------
(* The place in the stream *)

LEMMA Marks ==
  ASSUME PlaceInv, Len(stream) \in Nat
  PROVE  /\ Passed \in Nat /\ HighMark \in Nat /\ cursor \in Nat
         /\ cursor <= Passed /\ Passed <= HighMark /\ HighMark <= Len(stream)
         /\ InBatch => HighMark - cursor <= Limit
BY DEF PlaceInv, Passed, HighMark, InBatch, Shorter

\* The event being processed is the next one to pass, and its key the only one
\* it can have until the cursor is beyond it.
LEMMA NextToPass ==
  ASSUME PlaceInv, Len(stream) \in Nat, pc = "processing"
  PROVE  LET n == position + done + 1
         IN /\ n \in EventId /\ n \in Nat /\ n = Passed + 1 /\ n <= HighMark
            /\ n > cursor /\ done = n - cursor - 1 /\ done \in Nat
BY DEF PlaceInv, Passed, HighMark, InBatch, EventId

\* Between two events the indexer may fall back to the cursor; it never reads a
\* shorter batch, and the cursor moves only to the end of one.
Moves ==
  Start \/ FetchRefused \/ FetchNothing \/ Fetch \/ SaveCursor \/ PollFails \/ Crash

\* Or not touch anything but what is in the contract's storage.
Aside == Expiry \/ UNCHANGED vars

LEMMA MovesInv ==
  ASSUME PlaceInv, Len(stream) \in Nat, Moves
  PROVE  /\ PlaceInv' /\ UNCHANGED <<deployed, contract, tables, handled, missed>>
         /\ Passed' <= Passed /\ HighMark <= HighMark'
         /\ cursor' = cursor \/ HighMark <= cursor'
<1> USE DEF PlaceInv, Passed, HighMark, InBatch, Shorter, BatchSize
<1>1. /\ UNCHANGED <<deployed, contract, tables, handled, missed>>
      /\ EventId' = EventId /\ Len(stream') = Len(stream)
  BY DEF Moves, Start, FetchRefused, FetchNothing, Fetch, SaveCursor, PollFails, Crash,
     contract, tables, vars, history, EventId
<1>2. CASE Start
  BY <1>1, <1>2 DEF Start
<1>3. CASE FetchNothing
  BY <1>1, <1>3 DEF FetchNothing, vars, batch
<1>0. CASE FetchRefused
  BY <1>1, <1>0 DEF FetchRefused, vars, batch
<1>4. CASE Fetch
  BY <1>1, <1>4 DEF Fetch
<1>5. CASE SaveCursor
  <2>1. /\ pc = "saving" /\ pc' = "asleep" /\ fetched' = 0 /\ done' = 0
        /\ cursor' = position + fetched /\ position' = position + fetched
        /\ faults' = faults /\ missed' = missed /\ handled' = handled
    BY <1>1, <1>5 DEF SaveCursor, NewCursor
  <2>2. Passed = position + fetched /\ HighMark = position + fetched
    BY <2>1
  <2>3. position + fetched \in 0..Len(stream)
    OBVIOUS
  <2>4. Passed' = cursor' /\ HighMark' >= cursor'
    <3>1. PICK c \in Nat : c = position + fetched /\ c <= Len(stream)
      BY <2>3
    <3>2. Passed' = c /\ HighMark' = c + Shorter(Limit, Len(stream) - c)
      BY <1>1, <2>1, <3>1
    <3>3. Shorter(Limit, Len(stream) - c) \in Nat
      BY <3>1
    <3> HIDE DEF Passed, HighMark, Shorter
    <3>. QED BY <2>1, <3>1, <3>2, <3>3
  <2>5. PlaceInv'
    BY <1>1, <2>1, <2>3
  <2>6. Passed' <= Passed /\ HighMark <= HighMark' /\ HighMark <= cursor'
    <3>1. cursor' = Passed /\ cursor' = HighMark
      BY <2>1, <2>2
    <3> HIDE DEF Passed, HighMark
    <3>. QED BY <2>4, <3>1, <2>1, <2>3
  <2>. QED BY <1>1, <2>5, <2>6
<1>6. CASE PollFails
  BY <1>1, <1>6 DEF PollFails, Faulty
<1>7. CASE Crash
  BY <1>1, <1>7 DEF Crash, Faulty
<1>. QED BY <1>0, <1>2, <1>3, <1>4, <1>5, <1>6, <1>7 DEF Moves

Processes == PassOver \/ ProcessEvent \/ ProcessFails

LEMMA ProcessPlace ==
  ASSUME PlaceInv, Len(stream) \in Nat, Processes
  PROVE  /\ PlaceInv' /\ UNCHANGED <<deployed, contract, cursor>>
         /\ handled' = handled \cup {position + done + 1}
         /\ EventId' = EventId /\ Passed' = Passed + 1 /\ HighMark' = HighMark
<1>1. /\ pc = "processing" /\ GoOn /\ position + done + 1 \in EventId
      /\ missed' \subseteq missed \cup {position + done + 1}
      /\ faults' \in 0..MaxFaults
  BY NextToPass DEF Processes, PassOver, ProcessEvent, ProcessFails, Faulty, PlaceInv
<1>2. /\ UNCHANGED <<deployed, contract, cursor>>
      /\ EventId' = EventId /\ Len(stream') = Len(stream)
      /\ handled' = handled \cup {position + done + 1}
  BY <1>1 DEF GoOn, EventId, contract
<1>3. handled' \subseteq EventId' /\ missed' \subseteq handled'
  BY <1>1, <1>2 DEF PlaceInv
<1>. QED BY <1>1, <1>2, <1>3 DEF GoOn, PlaceInv, Passed, HighMark, InBatch

LEMMA CallsPlace ==
  ASSUME PlaceInv, NEW e, NEW last, Grown(e, last), Len(stream) \in Nat,
         UNCHANGED <<deployed, tables, cursor, pc, batch, faults, history>>
  PROVE  PlaceInv' /\ Passed' = Passed /\ HighMark <= HighMark'
BY DEF Grown, PlaceInv, Passed, HighMark, InBatch, Shorter, batch, history

-----------------------------------------------------------------------------
(* Rows and keys *)

\* A row written again finds its key taken.
LEMMA Inserts ==
  ASSUME PlaceInv, Len(stream) \in Nat, pc = "processing",
         NEW rows, Keyed(rows), NEW row,
         row.key = Key(position + done + 1, done)
  PROVE  /\ Keyed(Inserted(rows, row)) /\ rows \subseteq Inserted(rows, row)
         /\ \E new \in Inserted(rows, row) : new.key.tx = position + done + 1
         /\ Inserted(rows, row) \subseteq rows \cup {row}
<1> DEFINE n == position + done + 1
<1>1. /\ n \in EventId /\ n \in Nat /\ n <= HighMark
      /\ n > cursor /\ done = n - cursor - 1 /\ done \in Nat
  BY NextToPass
<1> HIDE DEF n
<1>2. row.key.tx = n /\ row.key.index = done /\ row.key \in [tx : EventId, index : Nat]
  BY <1>1 DEF n, Key
<1>3. CASE Conflict(rows, row.key)
  BY <1>2, <1>3 DEF Inserted, Conflict, n
<1>4. CASE ~Conflict(rows, row.key)
  <2>1. \A other \in rows : other.key.tx # n
    <3>1. SUFFICES ASSUME NEW other \in rows, other.key.tx = n PROVE FALSE
      OBVIOUS
    <3>2. /\ other.key \in [tx : EventId, index : Nat]
          /\ other.key.index = n - cursor - 1
      BY <1>1, <3>1 DEF Keyed
    <3>3. other.key = row.key
      BY <1>1, <1>2, <3>1, <3>2
    <3>. QED BY <1>4, <3>3 DEF Conflict
  <2>2. Inserted(rows, row) = rows \cup {row}
    BY <1>4 DEF Inserted
  <2>3. Keyed(rows \cup {row})
    BY <1>1, <1>2, <2>1 DEF Keyed
  <2>. QED BY <1>2, <2>2, <2>3 DEF n
<1>. QED BY <1>3, <1>4

\* Keys stay good as the stream grows and the indexer moves.
LEMMA KeysKeep ==
  ASSUME NEW rows, Keyed(rows), EventId \subseteq EventId', EventId' \subseteq Nat,
         HighMark \in Nat, HighMark' \in Nat, cursor \in Nat, cursor' \in Nat,
         HighMark <= HighMark', cursor' = cursor \/ HighMark <= cursor'
  PROVE  Keyed(rows)'
<1>1. ASSUME NEW row \in rows
      PROVE  /\ row.key \in [tx : EventId', index : Nat]
             /\ row.key.tx <= HighMark'
             /\ row.key.tx > cursor' => row.key.index = row.key.tx - cursor' - 1
  <2>1. /\ row.key \in [tx : EventId, index : Nat] /\ row.key.tx <= HighMark
        /\ row.key.tx > cursor => row.key.index = row.key.tx - cursor - 1
    BY DEF Keyed
  <2>2. row.key.tx \in Nat
    BY <2>1
  <2>. QED BY <2>1, <2>2
<1>. QED BY <1>1 DEF Keyed


-----------------------------------------------------------------------------
(* The market's calls and the indexer's moves keep the tables good *)

\* A call emits one event.
LEMMA CallsEmit ==
  ASSUME ContractInv, Calls PROVE \E e \in Event : \E last : Grown(e, last)
<1>1. ASSUME NEW e \in Event, Emit(e) PROVE \E ev \in Event : \E last : Grown(ev, last)
  BY <1>1, Emits DEF ContractInv
<1>2. ASSUME NEW r \in RoundId, Create(r) PROVE \E e \in Event : Emit(e)
  BY <1>2 DEF Create, Event
<1>3. ASSUME NEW u \in User, NEW r \in RoundId, NEW side \in Side, Bet(u, r, side)
      PROVE  \E e \in Event : Emit(e)
  <2>1. chain'[r] \in RoundRow
    BY <1>3, BetTypes DEF ContractInv
  <2>. QED BY <1>3, <2>1 DEF Bet, Event, RoundRow
<1>4. ASSUME NEW r \in RoundId, NEW outcome \in Outcome, Settle(r, outcome)
      PROVE  \E e \in Event : Emit(e)
  BY <1>4 DEF Settle, Event
<1>5. ASSUME NEW u \in User, NEW r \in RoundId, Claim(u, r)
      PROVE  \E e \in Event : Emit(e)
  BY <1>5 DEF Claim, Event
<1>6. ASSUME NEW u \in User, NEW rs \in SUBSET RoundId, ClaimMany(u, rs)
      PROVE  \E e \in Event : Emit(e)
  BY <1>6, RoundsFinite DEF ClaimMany, Event
<1>. QED BY <1>1, <1>2, <1>3, <1>4, <1>5, <1>6 DEF Calls

\* A settled round does not change any more, and a round does not go away.
LEMMA SettledStays ==
  ASSUME ContractInv, Calls, NEW r \in RoundId, chain[r] # None
  PROVE  chain'[r] # None /\ (chain[r].status = "Settled" => chain'[r] = chain[r])
<1>1. CASE UNCHANGED chain
  BY <1>1
<1>2. CASE \E s \in RoundId : Create(s)
  BY <1>2 DEF Create, ContractInv, ContractTypes
<1>3. CASE \E u \in User, s \in RoundId, side \in Side : Bet(u, s, side)
  <2>1. PICK u \in User, s \in RoundId, side \in Side : Bet(u, s, side)
    BY <1>3
  <2>2. chain'[s] # None
    BY <2>1, BetTypes DEF ContractInv
  <2>. QED BY <2>1, <2>2 DEF Bet, ContractInv, ContractTypes
<1>4. CASE \E s \in RoundId, outcome \in Outcome : Settle(s, outcome)
  <2>1. PICK s \in RoundId, outcome \in Outcome : Settle(s, outcome)
    BY <1>4
  <2>2. chain'[s] # None
    BY <2>1, SettleTypes DEF ContractInv
  <2>. QED BY <2>1, <2>2 DEF Settle, ContractInv, ContractTypes
<1>. QED BY <1>1, <1>2, <1>3, <1>4 DEF Calls, Claim, ClaimMany


LEMMA CallsMirror ==
  ASSUME MirrorInv, Calls PROVE MirrorInv'
<1>1. /\ ContractInv /\ PlaceInv /\ TablesInv /\ Len(stream) \in Nat
      /\ UNCHANGED <<deployed, tables, cursor, pc, batch, faults, history>>
  BY EventTypes DEF MirrorInv, ContractInv, Calls
<1>2. ContractInv'
  BY <1>1, CallsInv
<1>3. PICK e \in Event : \E last : Grown(e, last)
  BY <1>1, CallsEmit
<1>4. PICK last : Grown(e, last)
  BY <1>3
<1>5. /\ EventId' = EventId \cup {last}
      /\ \A n \in EventId : stream'[n] = stream[n]
      /\ last \in Nat /\ EventId \subseteq Nat /\ EventId' \subseteq Nat
      /\ Len(stream') \in Nat
  BY <1>4 DEF Grown
<1>6. /\ PlaceInv' /\ Passed' = Passed /\ HighMark <= HighMark'
      /\ cursor' = cursor /\ missed' = missed
      /\ Passed \in Nat /\ Passed <= Len(stream)
      /\ HighMark \in Nat /\ HighMark' \in Nat /\ cursor \in Nat
  <2>1. PlaceInv' /\ Passed' = Passed /\ HighMark <= HighMark'
    BY <1>1, <1>4, CallsPlace DEF history
  <2>2. (PlaceInv /\ Len(stream) \in Nat => HighMark \in Nat)'
    BY Marks, PTL
  <2>. QED BY <1>1, <1>5, <2>1, <2>2, Marks DEF history
<1>7. /\ \A n \in EventId : \A kind, s : Is(n, kind, s)' <=> Is(n, kind, s)
      /\ \A kind, s : NoneOf(kind, s)' => NoneOf(kind, s)
      /\ \A n \in EventId : LastBet(n)' => LastBet(n)
  BY <1>1, <1>4, Grows DEF ContractInv
<1>8. BetRowsInv' /\ ClaimRowsInv'
  <2>1. Keyed(betRows)' /\ Keyed(claimRows)'
    <3>1. PICK rows, more : rows = betRows /\ more = claimRows
      OBVIOUS
    <3>2. Keyed(rows)' /\ Keyed(more)'
      BY <1>1, <1>5, <1>6, <3>1, KeysKeep DEF TablesInv, BetRowsInv, ClaimRowsInv
    <3>. QED BY <1>1, <3>1, <3>2 DEF tables, Keyed
  <2>2. \A row \in betRows \cup claimRows : row.key.tx \in EventId
    BY <1>1 DEF TablesInv, BetRowsInv, ClaimRowsInv, Keyed
  <2>. QED BY <1>1, <1>5, <2>1, <2>2 DEF TablesInv, BetRowsInv, ClaimRowsInv, tables
<1>9. RoundRowsInv'
  BY <1>1, <1>7, SettledStays DEF TablesInv, RoundRowsInv, tables
<1>10. PassedInv'
  <2>1. SUFFICES ASSUME Recognised, NEW n \in 1..Passed
                 PROVE  /\ Recorded(n)' \/ Excused(n)'
                        /\ LastBet(n)' /\ n \notin missed' =>
                             /\ roundRows'[stream'[n].round] # None
                             /\ Pools(roundRows'[stream'[n].round], stream'[n])
    BY <1>1, <1>6 DEF PassedInv, Recognised, Matches, Prefixed
  <2>2. n \in EventId /\ stream'[n] = stream[n]
    BY <1>5, <1>6 DEF EventId
  <2>3. Recorded(n) => Recorded(n)'
    BY <1>1, <2>2 DEF Recorded, tables
  <2>4. Excused(n) => Excused(n)'
    BY <1>1, <1>5, <1>6, <2>2 DEF Excused, PlaceInv
  <2>. QED BY <1>1, <1>6, <1>7, <2>1, <2>2, <2>3, <2>4
           DEF TablesInv, PassedInv, tables
<1>. QED BY <1>2, <1>6, <1>8, <1>9, <1>10 DEF MirrorInv, TablesInv

\* The steps of the indexer leave the contract as it is.
LEMMA SameContract ==
  ASSUME ContractInv, UNCHANGED contract PROVE ContractInv'
<1>1. chain' = chain /\ stakes' = stakes /\ stream' = stream
  BY DEF contract
<1>2. ContractTypes'
  BY <1>1 DEF ContractInv, ContractTypes
<1>3. CreatedFirst'
  BY <1>1 DEF ContractInv, CreatedFirst, EventId, NoneOf, Is
<1>4. ChainInv'
  BY <1>1 DEF ContractInv, ChainInv, EventId, NoneOf, LastBet, Pools, Is
<1>5. EventsInv'
  BY <1>1 DEF ContractInv, EventsInv, EventId, LastBet, Pools, Is
<1>6. OutcomesInv'
  BY <1>1 DEF ContractInv, OutcomesInv, EventId
<1>7. StakesInv'
  BY <1>1 DEF ContractInv, StakesInv, EventId, Is
<1>. QED BY <1>2, <1>3, <1>4, <1>5, <1>6, <1>7 DEF ContractInv

LEMMA MovesMirror ==
  ASSUME MirrorInv, Moves PROVE MirrorInv'
<1>1. ContractInv /\ PlaceInv /\ TablesInv /\ Len(stream) \in Nat
  BY EventTypes DEF MirrorInv, ContractInv
<1>2. /\ PlaceInv' /\ UNCHANGED <<deployed, contract, tables, missed>>
      /\ Passed' <= Passed /\ HighMark <= HighMark'
      /\ cursor' = cursor \/ HighMark <= cursor'
      /\ EventId' = EventId /\ EventId \subseteq Nat
  BY <1>1, MovesInv DEF EventId, contract
<1>3. /\ Passed \in Nat /\ Passed' \in Nat /\ HighMark \in Nat /\ HighMark' \in Nat
      /\ cursor \in Nat /\ cursor' \in Nat
  <2>1. (PlaceInv /\ Len(stream) \in Nat =>
           Passed \in Nat /\ HighMark \in Nat /\ cursor \in Nat)'
    BY Marks, PTL
  <2>. QED BY <1>1, <1>2, <2>1, Marks DEF contract
<1>4. ContractInv'
  BY <1>1, <1>2, SameContract
<1>5. BetRowsInv' /\ ClaimRowsInv'
  <2>1. PICK rows, more : rows = betRows /\ more = claimRows
    OBVIOUS
  <2>2. Keyed(rows)' /\ Keyed(more)'
    BY <1>1, <1>2, <1>3, <2>1, KeysKeep DEF TablesInv, BetRowsInv, ClaimRowsInv
  <2>3. Keyed(betRows)' /\ Keyed(claimRows)'
    BY <1>2, <2>1, <2>2 DEF tables, Keyed
  <2>. QED BY <1>1, <1>2, <2>3 DEF TablesInv, BetRowsInv, ClaimRowsInv, tables, contract
<1>6. RoundRowsInv'
  BY <1>1, <1>2 DEF TablesInv, RoundRowsInv, tables, contract, NoneOf, Is, EventId
<1>7. PassedInv'
  <2>1. SUFFICES ASSUME Recognised, NEW n \in 1..Passed'
                 PROVE  /\ Recorded(n)' \/ Excused(n)'
                        /\ LastBet(n)' /\ n \notin missed' =>
                             /\ roundRows'[stream'[n].round] # None
                             /\ Pools(roundRows'[stream'[n].round], stream'[n])
    BY <1>2 DEF PassedInv, Recognised, Matches, Prefixed
  <2>2. n \in 1..Passed
    BY <1>2, <1>3
  <2>3. /\ Recorded(n)' <=> Recorded(n)
        /\ Excused(n)' <=> Excused(n)
        /\ LastBet(n)' <=> LastBet(n)
    BY <1>2 DEF Recorded, Excused, LastBet, Is, EventId, tables, contract
  <2>. QED BY <1>1, <1>2, <2>1, <2>2, <2>3 DEF TablesInv, PassedInv, tables, contract
<1>. QED BY <1>2, <1>4, <1>5, <1>6, <1>7 DEF MirrorInv, TablesInv


-----------------------------------------------------------------------------
(* Processing an event *)

\* Without the prefix nothing is written, whatever the event.
LEMMA WriteCases ==
  ASSUME NEW event \in Event, NEW key, Write(event, key)
  PROVE  IF Prefixed
         THEN \/ event.kind = "created" /\ AddRound(event)
              \/ event.kind = "bet" /\ AddBet(event, key)
              \/ event.kind = "settled" /\ AddOutcome(event)
              \/ event.kind \in {"claim", "claims"} /\ AddClaim(event, key)
         ELSE UNCHANGED tables
<1>1. event.kind \in {"created", "bet", "settled", "claim", "claims"}
  BY EventFields
<1>2. CASE Prefixed
  BY <1>1, <1>2 DEF Write, Kind
<1>3. CASE ~Prefixed
  <2>1. Kind(event) = None
    BY <1>3 DEF Kind
  <2>. QED BY <1>3, <2>1 DEF Write
<1>. QED BY <1>2, <1>3

\* What an event does to the row of its round.
LEMMA RowEffects ==
  ASSUME ContractInv, RoundRowsInv, NEW n \in EventId, NEW key,
         Write(stream[n], key), UNCHANGED contract
  PROVE  /\ RoundRowsInv'
         /\ \A r \in RoundId : roundRows[r] # None =>
              /\ roundRows'[r] # None
              /\ roundRows[r].status = "Settled" => roundRows'[r].status = "Settled"
              /\ ~Is(n, "bet", r) => Pools(roundRows'[r], roundRows[r])
<1> DEFINE event == stream[n]
<1>1. event \in Event
  BY EventTypes DEF ContractInv
<1>2. /\ \A r : NoneOf("bet", r)' <=> NoneOf("bet", r)
      /\ chain' = chain
  BY DEF contract, NoneOf, Is, EventId
<1>3. CASE UNCHANGED roundRows
  BY <1>2, <1>3 DEF RoundRowsInv, Pools
<1>4. CASE event.kind = "created" /\ AddRound(event)
  <2>1. event.round \in RoundId /\ chain[event.round] # None
    <3>1. event.round \in RoundId
      BY <1>1, <1>4, EventFields
    <3>. QED BY <1>4, <3>1 DEF ContractInv, CreatedFirst, NoneOf, Is
  <2>2. PICK new : new = [status |-> "Open", outcome |-> None,
                          pool_up |-> 0, pool_down |-> 0]
    OBVIOUS
  <2>3. /\ new \in RoundRow /\ new.status = "Open" /\ new.outcome = None
        /\ new.pool_up = 0 /\ new.pool_down = 0
    BY <2>2 DEF RoundRow
  <2>4. \/ UNCHANGED roundRows
        \/ roundRows[event.round] = None
           /\ roundRows' = [roundRows EXCEPT ![event.round] = new]
    BY <1>4, <2>2 DEF AddRound
  <2>. QED BY <1>2, <1>3, <2>1, <2>3, <2>4 DEF RoundRowsInv, Pools
<1>5. CASE Prefixed /\ event.kind = "bet" /\ AddBet(event, key)
  <2>1. /\ event.round \in RoundId /\ event.pool_up \in Nat /\ event.pool_down \in Nat
    BY <1>1, <1>5, EventFields
  <2>2. CASE Refused(event)
    BY <1>3, <1>5, <2>2 DEF AddBet, tables
  <2>3. CASE ~Refused(event)
    <3>1. PICK new : new = WithPools(roundRows[event.round], event)
      OBVIOUS
    <3>2. roundRows' = [roundRows EXCEPT ![event.round] = new]
      BY <1>5, <2>3, <3>1 DEF AddBet
    <3>3. roundRows[event.round] # None
      BY <1>5, <2>3 DEF Refused, Kind
    <3>4. roundRows[event.round] \in RoundRow
      BY <2>1, <3>3 DEF RoundRowsInv
    <3>5. /\ new \in RoundRow
          /\ new.status = roundRows[event.round].status
          /\ new.outcome = roundRows[event.round].outcome
      BY <2>1, <3>1, <3>4 DEF WithPools, RoundRow
    <3>6. ~NoneOf("bet", event.round) /\ Is(n, "bet", event.round)
      BY <1>5 DEF NoneOf, Is
    <3>. QED BY <1>2, <2>1, <3>2, <3>3, <3>5, <3>6 DEF RoundRowsInv, Pools
  <2>. QED BY <2>2, <2>3
<1>6. CASE event.kind = "settled" /\ AddOutcome(event)
  <2>1. /\ event.round \in RoundId /\ event.outcome \in Outcome
        /\ chain[event.round] # None
        /\ chain[event.round].status = "Settled"
        /\ chain[event.round].outcome = event.outcome
    BY <1>1, <1>6, EventFields, KnownRounds DEF ContractInv, EventsInv, OutcomesInv
  <2>2. CASE roundRows[event.round] = None
    BY <1>3, <1>6, <2>2 DEF AddOutcome
  <2>3. CASE roundRows[event.round] # None
    <3>1. roundRows[event.round] \in RoundRow
      BY <2>1, <2>3 DEF RoundRowsInv
    <3>2. PICK new : new = [roundRows[event.round] EXCEPT !.status = "Settled",
                                                         !.outcome = event.outcome]
      OBVIOUS
    <3>3. /\ new \in RoundRow /\ new.status = "Settled" /\ new.outcome = event.outcome
          /\ Pools(new, roundRows[event.round])
      BY <2>1, <3>1, <3>2 DEF RoundRow, Pools
    <3>4. roundRows' = [roundRows EXCEPT ![event.round] = new]
      BY <1>6, <2>1, <2>3, <3>1, <3>2 DEF AddOutcome, RoundRowsInv, RoundRow
    <3>. QED BY <1>2, <2>1, <2>3, <3>3, <3>4 DEF RoundRowsInv, Pools
  <2>. QED BY <2>2, <2>3
<1>. QED BY <1>1, <1>3, <1>4, <1>5, <1>6, WriteCases DEF AddClaim, tables


\* What an event does to the tables of bets and claims.
LEMMA TableEffects ==
  ASSUME ContractInv, PlaceInv, BetRowsInv, ClaimRowsInv, pc = "processing",
         UNCHANGED <<contract, cursor>>, EventId' = EventId, HighMark' = HighMark,
         Write(stream[position + done + 1], Key(position + done + 1, done))
  PROVE  /\ BetRowsInv' /\ ClaimRowsInv'
         /\ betRows \subseteq betRows' /\ claimRows \subseteq claimRows'
<1>1. PICK n, key : n = position + done + 1 /\ key = Key(n, done)
  OBVIOUS
<1>2. n \in EventId /\ stream[n] \in Event /\ Len(stream) \in Nat
  BY <1>1, NextToPass, EventTypes DEF ContractInv
<1>3. key.tx = n
  BY <1>1 DEF Key
<1>4. \A rows : Keyed(rows)' <=> Keyed(rows)
  BY DEF Keyed
<1>5. Keyed(betRows) /\ Keyed(claimRows)
  BY DEF BetRowsInv, ClaimRowsInv
<1>6. CASE UNCHANGED <<betRows, claimRows>>
  BY <1>4, <1>5, <1>6 DEF BetRowsInv, ClaimRowsInv, contract, Keyed
<1>7. CASE stream[n].kind = "bet" /\ AddBet(stream[n], key) /\ ~Refused(stream[n])
  <2>1. PICK row : row = [key |-> key, round |-> stream[n].round,
                          user |-> stream[n].user, side |-> stream[n].side]
    OBVIOUS
  <2>2. /\ row.key = key /\ row.round = stream[n].round
        /\ row.user = stream[n].user /\ row.side = stream[n].side
    BY <2>1
  <2>3. PICK rows : rows = Inserted(betRows, row)
    OBVIOUS
  <2>4. betRows' = rows /\ claimRows' = claimRows
    BY <1>7, <2>1, <2>3 DEF AddBet
  <2>5. Keyed(rows) /\ betRows \subseteq rows /\ rows \subseteq betRows \cup {row}
    BY <1>1, <1>2, <1>5, <2>2, <2>3, Inserts
  <2>6. Keyed(betRows)' /\ Keyed(claimRows)'
    BY <1>4, <1>5, <2>4, <2>5 DEF Keyed
  <2>. QED BY <1>3, <1>7, <2>2, <2>4, <2>5, <2>6 DEF BetRowsInv, ClaimRowsInv, contract
<1>8. CASE stream[n].kind \in {"claim", "claims"} /\ AddClaim(stream[n], key)
  <2>1. PICK row : row = [key |-> key, round |-> stream[n].round,
                          user |-> stream[n].user]
    OBVIOUS
  <2>2. /\ row.key = key /\ row.round = stream[n].round /\ row.user = stream[n].user
    BY <2>1
  <2>3. PICK rows : rows = Inserted(claimRows, row)
    OBVIOUS
  <2>4. claimRows' = rows /\ betRows' = betRows
    BY <1>8, <2>1, <2>3 DEF AddClaim
  <2>5. Keyed(rows) /\ claimRows \subseteq rows /\ rows \subseteq claimRows \cup {row}
    BY <1>1, <1>2, <1>5, <2>2, <2>3, Inserts
  <2>6. Keyed(betRows)' /\ Keyed(claimRows)'
    BY <1>4, <1>5, <2>4, <2>5 DEF Keyed
  <2>. QED BY <1>3, <1>8, <2>2, <2>4, <2>5, <2>6 DEF BetRowsInv, ClaimRowsInv, contract
<1>. QED BY <1>1, <1>2, <1>6, <1>7, <1>8, WriteCases
         DEF AddRound, AddOutcome, AddBet, tables

\* The event itself is recorded, or it is refused, or it settles a round that has
\* no row because the event that created it was passed without being stored.
LEMMA EventRecorded ==
  ASSUME MirrorInv, Recognised, ProcessEvent, NEW n, n = position + done + 1
  PROVE  /\ Recorded(n)' \/ Excused(n)'
         /\ LastBet(n) /\ n \notin missed' =>
              /\ roundRows'[stream[n].round] # None
              /\ Pools(roundRows'[stream[n].round], stream[n])
<1>1. PICK key : key = Key(n, done)
  OBVIOUS
<1>2. /\ pc = "processing" /\ Write(stream[n], key) /\ UNCHANGED contract
      /\ missed' = IF Refused(stream[n]) THEN missed \cup {n} ELSE missed \ {n}
  BY <1>1 DEF ProcessEvent, GoOn
<1>3. /\ ContractInv /\ PlaceInv /\ TablesInv /\ Len(stream) \in Nat
      /\ n \in EventId /\ n \in Nat /\ n = Passed + 1 /\ Passed \in Nat
      /\ stream[n] \in Event
  <2>1. ContractInv /\ PlaceInv /\ TablesInv /\ Len(stream) \in Nat
    BY EventTypes DEF MirrorInv, ContractInv
  <2>. QED BY <1>1, <1>2, <2>1, NextToPass, EventTypes, Marks DEF ContractInv
<1>4. stream' = stream
  BY <1>2 DEF contract
<1>5. key.tx = n
  BY <1>1 DEF Key
<1>6. CASE stream[n].kind = "created" /\ AddRound(stream[n])
  <2>1. stream[n].round \in RoundId
    BY <1>3, <1>6, EventFields
  <2>2. roundRows'[stream[n].round] # None
    <3>1. PICK new : new = [status |-> "Open", outcome |-> None,
                            pool_up |-> 0, pool_down |-> 0]
      OBVIOUS
    <3>2. new \in RoundRow
      BY <3>1 DEF RoundRow
    <3>3. new # None
      BY <3>2
    <3>. QED BY <1>3, <1>6, <2>1, <3>1, <3>3 DEF AddRound, TablesInv, RoundRowsInv
  <2>. QED BY <1>1, <1>4, <1>6, <2>2 DEF Recorded, LastBet
<1>7. CASE stream[n].kind = "bet" /\ AddBet(stream[n], key)
  <2>1. CASE Refused(stream[n])
    <3>1. n \in missed'
      BY <1>2, <2>1
    <3>. QED BY <1>1, <3>1 DEF Excused
  <2>2. CASE ~Refused(stream[n])
    <3>1. stream[n].round \in RoundId /\ roundRows[stream[n].round] # None
      BY <1>3, <1>7, <2>2, EventFields DEF Refused, Kind, Recognised
    <3>2. roundRows[stream[n].round] \in RoundRow
      BY <1>3, <3>1 DEF TablesInv, RoundRowsInv
    <3>3. PICK new : new = WithPools(roundRows[stream[n].round], stream[n])
      OBVIOUS
    <3>4. Pools(new, stream[n]) /\ new \in RoundRow
      <4>1. stream[n].pool_up \in Nat /\ stream[n].pool_down \in Nat
        BY <1>3, <1>7, EventFields
      <4>. QED BY <3>2, <3>3, <4>1 DEF WithPools, Pools, RoundRow
    <3>5. roundRows'[stream[n].round] = new
      BY <1>3, <1>7, <2>2, <3>1, <3>3 DEF AddBet, TablesInv, RoundRowsInv
    <3>6. \E row \in betRows' : row.key.tx = n
      <4>1. PICK row : row = [key |-> key, round |-> stream[n].round,
                              user |-> stream[n].user, side |-> stream[n].side]
        OBVIOUS
      <4>2. betRows' = Inserted(betRows, row) /\ row.key = key
        BY <1>7, <2>2, <4>1 DEF AddBet
      <4>3. Keyed(betRows)
        BY <1>3 DEF TablesInv, BetRowsInv
      <4>. QED BY <1>1, <1>2, <1>3, <4>2, <4>3, Inserts
    <3>. QED BY <1>1, <1>4, <1>7, <3>4, <3>5, <3>6 DEF Recorded
  <2>. QED BY <2>1, <2>2
<1>8. CASE stream[n].kind = "settled" /\ AddOutcome(stream[n])
  <2>1. stream[n].round \in RoundId
    BY <1>3, <1>8, EventFields
  <2>2. CASE roundRows[stream[n].round] # None
    <3>1. roundRows[stream[n].round] \in RoundRow
      BY <1>3, <2>1, <2>2 DEF TablesInv, RoundRowsInv
    <3>2. PICK new : new = [roundRows[stream[n].round] EXCEPT
                              !.status = "Settled", !.outcome = stream[n].outcome]
      OBVIOUS
    <3>3. stream[n].outcome \in Outcome
      BY <1>3, <1>8, EventFields
    <3>4. new.status = "Settled" /\ new \in RoundRow
      BY <3>1, <3>2, <3>3 DEF RoundRow
    <3>5. roundRows'[stream[n].round] = new
      BY <1>3, <1>8, <2>1, <2>2, <3>1, <3>2
         DEF AddOutcome, TablesInv, RoundRowsInv, RoundRow
    <3>. QED BY <1>1, <1>4, <1>8, <3>4, <3>5 DEF Recorded, LastBet
  <2>3. CASE roundRows[stream[n].round] = None
    <3>1. PICK k \in EventId : k < n /\ Is(k, "created", stream[n].round)
      BY <1>3, <1>8 DEF ContractInv, CreatedFirst
    <3>2. k \in 1..Passed /\ k # n
      BY <1>3, <3>1 DEF EventId
    <3>3. Excused(k)
      BY <1>3, <2>3, <3>1, <3>2 DEF TablesInv, PassedInv, Recorded, Is
    <3>4. k \in missed
      BY <3>1, <3>3 DEF Excused, Is
    <3>5. k \in missed'
      BY <1>2, <3>2, <3>4
    <3>. QED BY <1>1, <1>4, <1>8, <3>1, <3>5 DEF Excused, Is, LastBet
  <2>. QED BY <2>2, <2>3
<1>9. CASE stream[n].kind \in {"claim", "claims"} /\ AddClaim(stream[n], key)
  <2>1. \E row \in claimRows' : row.key.tx = n
    <3>1. PICK row : row = [key |-> key, round |-> stream[n].round,
                            user |-> stream[n].user]
      OBVIOUS
    <3>2. claimRows' = Inserted(claimRows, row) /\ row.key = key
      BY <1>9, <3>1 DEF AddClaim
    <3>3. Keyed(claimRows)
      BY <1>3 DEF TablesInv, ClaimRowsInv
    <3>. QED BY <1>1, <1>2, <1>3, <3>2, <3>3, Inserts
  <2>. QED BY <1>1, <1>4, <1>9, <2>1 DEF Recorded, LastBet
<1>. QED BY <1>2, <1>3, <1>6, <1>7, <1>8, <1>9, WriteCases DEF Recognised


\* What was recorded or excused before stays so.
LEMMA StaysRecorded ==
  ASSUME MirrorInv, UNCHANGED contract, NEW n, n = position + done + 1,
         pc = "processing", missed \ {n} \subseteq missed',
         betRows \subseteq betRows', claimRows \subseteq claimRows',
         \A r \in RoundId : roundRows[r] # None =>
           /\ roundRows'[r] # None
           /\ roundRows[r].status = "Settled" => roundRows'[r].status = "Settled"
           /\ ~Is(n, "bet", r) => Pools(roundRows'[r], roundRows[r]),
         Recognised, NEW m \in 1..Passed
  PROVE  /\ Recorded(m)' \/ Excused(m)'
         /\ LastBet(m)' /\ m \notin missed' =>
              /\ roundRows'[stream'[m].round] # None
              /\ Pools(roundRows'[stream'[m].round], stream'[m])
<1>1. /\ ContractInv /\ PlaceInv /\ TablesInv /\ Len(stream) \in Nat
      /\ stream' = stream /\ EventId' = EventId
  BY EventTypes DEF MirrorInv, ContractInv, contract, EventId
<1>2. n \in EventId /\ n \in Nat /\ n = Passed + 1 /\ Passed \in Nat
      /\ m \in EventId /\ m < n
  BY <1>1, NextToPass, Marks DEF EventId
<1>3. stream[m] \in Event
  BY <1>1, <1>2, EventTypes DEF ContractInv
<1>4. Recorded(m) => Recorded(m)'
  <2>1. stream[m].kind \in {"created", "bet", "settled", "claim", "claims"}
        /\ (stream[m].kind # "claims" => stream[m].round \in RoundId)
    BY <1>3, EventFields
  <2>. QED BY <1>1, <2>1 DEF Recorded
<1>5. Excused(m) => Excused(m)'
  <2>1. SUFFICES ASSUME NEW k \in missed,
                        \/ k = m
                        \/ /\ stream[m].kind = "settled"
                           /\ stream[k].kind = "created"
                           /\ stream[k].round = stream[m].round
                 PROVE  k # n
    BY <1>1 DEF Excused
  <2>2. CASE k # m
    <3>1. k \in EventId /\ m \in EventId
      BY <1>1, <1>2 DEF PlaceInv
    <3>2. PICK j \in EventId : j < m /\ Is(j, "created", stream[m].round)
      BY <1>1, <1>2, <2>1, <2>2 DEF ContractInv, CreatedFirst
    <3>3. j = k
      BY <1>1, <2>1, <2>2, <3>1, <3>2 DEF ContractInv, CreatedFirst, Is
    <3>. QED BY <1>2, <3>2, <3>3 DEF EventId
  <2>. QED BY <1>2, <2>2
<1>6. ASSUME LastBet(m)', m \notin missed'
      PROVE  /\ roundRows'[stream[m].round] # None
             /\ Pools(roundRows'[stream[m].round], stream[m])
  <2>1. LastBet(m) /\ m \notin missed
    BY <1>1, <1>2, <1>6 DEF LastBet, Is
  <2>2. stream[m].round \in RoundId /\ ~Is(n, "bet", stream[m].round)
    BY <1>2, <1>3, <2>1, EventFields DEF LastBet
  <2>3. /\ roundRows[stream[m].round] # None
        /\ Pools(roundRows[stream[m].round], stream[m])
    BY <1>1, <2>1 DEF TablesInv, PassedInv
  <2>. QED BY <2>2, <2>3 DEF Pools
<1>. QED BY <1>1, <1>4, <1>5, <1>6 DEF TablesInv, PassedInv

LEMMA ProcessMirror ==
  ASSUME MirrorInv, Processes PROVE MirrorInv'
<1>1. ContractInv /\ PlaceInv /\ TablesInv /\ Len(stream) \in Nat
  BY EventTypes DEF MirrorInv, ContractInv
<1>2. /\ PlaceInv' /\ UNCHANGED <<deployed, contract, cursor>> /\ EventId' = EventId
      /\ Passed' = Passed + 1 /\ HighMark' = HighMark
  BY <1>1, ProcessPlace
<1>3. PICK n : n = position + done + 1
  OBVIOUS
<1>4. /\ pc = "processing" /\ n \in EventId /\ n = Passed + 1 /\ Passed \in Nat
      /\ missed \ {n} \subseteq missed'
  <2>1. pc = "processing" /\ missed \ {n} \subseteq missed'
    BY <1>3 DEF Processes, PassOver, ProcessEvent, ProcessFails
  <2>. QED BY <1>1, <1>3, <2>1, NextToPass, Marks
<1>5. ContractInv'
  BY <1>1, <1>2, SameContract
<1>6. /\ BetRowsInv' /\ ClaimRowsInv' /\ RoundRowsInv'
      /\ betRows \subseteq betRows' /\ claimRows \subseteq claimRows'
      /\ \A r \in RoundId : roundRows[r] # None =>
           /\ roundRows'[r] # None
           /\ roundRows[r].status = "Settled" => roundRows'[r].status = "Settled"
           /\ ~Is(n, "bet", r) => Pools(roundRows'[r], roundRows[r])
  <2>1. CASE ProcessEvent
    <3>1. Write(stream[n], Key(n, done))
      BY <1>3, <2>1 DEF ProcessEvent
    <3>2. BetRowsInv' /\ ClaimRowsInv'
          /\ betRows \subseteq betRows' /\ claimRows \subseteq claimRows'
      BY <1>1, <1>2, <1>3, <1>4, <3>1, TableEffects DEF TablesInv
    <3>. QED BY <1>1, <1>2, <1>4, <3>1, <3>2, RowEffects DEF TablesInv
  <2>2. CASE ProcessFails \/ PassOver
    <3>1. UNCHANGED tables
      BY <2>2 DEF ProcessFails, PassOver
    <3>2. \A rows : Keyed(rows)' <=> Keyed(rows)
      BY <1>2 DEF Keyed
    <3>3. Keyed(betRows)' /\ Keyed(claimRows)'
      BY <1>1, <3>1, <3>2 DEF TablesInv, BetRowsInv, ClaimRowsInv, tables, Keyed
    <3>4. BetRowsInv' /\ ClaimRowsInv'
      BY <1>1, <1>2, <3>1, <3>3 DEF TablesInv, BetRowsInv, ClaimRowsInv, tables, contract
    <3>5. RoundRowsInv'
      BY <1>1, <1>2, <3>1 DEF TablesInv, RoundRowsInv, tables, contract, NoneOf, Is, EventId
    <3>. QED BY <3>1, <3>4, <3>5 DEF tables, Pools
  <2>. QED BY <2>1, <2>2 DEF Processes
<1>7. PassedInv'
  <2>1. SUFFICES ASSUME Recognised, NEW m \in 1..(Passed + 1)
                 PROVE  /\ Recorded(m)' \/ Excused(m)'
                        /\ LastBet(m)' /\ m \notin missed' =>
                             /\ roundRows'[stream'[m].round] # None
                             /\ Pools(roundRows'[stream'[m].round], stream'[m])
    BY <1>2 DEF PassedInv, Recognised, Matches, Prefixed
  <2>2. CASE m \in 1..Passed
    BY <1>2, <1>3, <1>4, <1>6, <2>1, <2>2, StaysRecorded
  <2>3. CASE m = n
    <3>1. stream' = stream /\ (LastBet(m)' => LastBet(m))
      BY <1>2 DEF contract, LastBet, Is
    <3>2. CASE ProcessEvent
      BY <1>3, <2>1, <2>3, <3>1, <3>2, EventRecorded
    <3>3. CASE ProcessFails
      <4>1. n \in missed'
        BY <1>3, <3>3 DEF ProcessFails
      <4>. QED BY <2>3, <4>1 DEF Excused
    <3>. QED BY <2>1, <3>2, <3>3 DEF Processes, PassOver, Recognised
  <2>. QED BY <1>4, <2>1, <2>2, <2>3
<1>. QED BY <1>2, <1>5, <1>6, <1>7 DEF MirrorInv, TablesInv

\* Entries that expire and steps that do nothing leave it all as it is.
LEMMA AsideSame ==
  ASSUME Aside
  PROVE  UNCHANGED <<deployed, contract, tables, cursor, pc, batch, faults, history>>
BY DEF Aside, Expiry, vars

LEMMA AsideMirror ==
  ASSUME MirrorInv, Aside PROVE MirrorInv'
<1>1. UNCHANGED <<deployed, contract, tables, cursor, pc, batch, faults, history>>
  BY AsideSame
<1>2. ContractInv'
  BY <1>1, SameContract DEF MirrorInv
<1>3. PlaceInv'
  BY <1>1 DEF MirrorInv, PlaceInv, contract, batch, history, InBatch, EventId
<1>4. TablesInv'
  BY <1>1 DEF MirrorInv, TablesInv, BetRowsInv, ClaimRowsInv, Keyed, RoundRowsInv,
     PassedInv, Passed, HighMark, InBatch, Recorded, Excused, Recognised, Matches,
     Prefixed, LastBet, NoneOf, Is, EventId, contract, tables, batch, history
<1>. QED BY <1>2, <1>3, <1>4 DEF MirrorInv

LEMMA MirrorInvariant == Spec => []MirrorInv
<1>1. Init => MirrorInv
  <2>1. SUFFICES ASSUME Init PROVE MirrorInv
    OBVIOUS
  <2>2. stream = <<>> /\ Len(stream) = 0 /\ EventId = {} /\ stream \in Seq(Event)
    BY <2>1 DEF Init, EventId
  <2>3. ContractInv
    BY <2>1, <2>2 DEF Init, ContractInv, ContractTypes, CreatedFirst, ChainInv,
       EventsInv, OutcomesInv, StakesInv, NoneOf
  <2>4. PlaceInv
    BY <2>1, <2>2 DEF Init, PlaceInv, InBatch
  <2>5. Passed = 0
    BY <2>1 DEF Init, Passed, InBatch
  <2>6. TablesInv
    BY <2>1, <2>2, <2>5 DEF Init, TablesInv, BetRowsInv, ClaimRowsInv, Keyed,
       RoundRowsInv, PassedInv
  <2>. QED BY <2>3, <2>4, <2>6 DEF MirrorInv
<1>2. MirrorInv /\ [Next]_vars => MirrorInv'
  <2>1. SUFFICES ASSUME MirrorInv, [Next]_vars PROVE MirrorInv'
    OBVIOUS
  <2>2. CASE Calls
    BY <2>1, <2>2, CallsMirror
  <2>3. CASE Moves
    BY <2>1, <2>3, MovesMirror
  <2>4. CASE Processes
    BY <2>1, <2>4, ProcessMirror
  <2>5. CASE Aside
    BY <2>1, <2>5, AsideMirror
  <2>. QED BY <2>1, <2>2, <2>3, <2>4, <2>5 DEF Next, Works, Moves, Processes, Aside
<1>. QED BY <1>1, <1>2, PTL DEF Spec


-----------------------------------------------------------------------------
(* Theorems *)

\* Every variable stays in its type: the place in the stream, the cursor and the
\* batch never go beyond the events there are.
THEOREM TypeCorrect == Spec => []TypeOK
<1>1. MirrorInv => TypeOK
  <2>1. SUFFICES ASSUME MirrorInv PROVE TypeOK
    OBVIOUS
  <2>2. ContractTypes /\ PlaceInv /\ RoundRowsInv /\ Len(stream) \in Nat
    BY <2>1, EventTypes DEF MirrorInv, ContractInv, TablesInv
  <2>. QED BY <2>2 DEF TypeOK, ContractTypes, PlaceInv, RoundRowsInv, InBatch,
               EventId
<1>. QED BY <1>1, MirrorInvariant, PTL

\* However often a batch is read again, and wherever the indexer was stopped
\* between an event's own transaction and the one that saves the cursor, no event
\* leaves two rows.
THEOREM RowsAreUnique == Spec => []NoDoubleRows
<1>1. MirrorInv => NoDoubleRows
  BY DEF MirrorInv, TablesInv, BetRowsInv, ClaimRowsInv, Keyed, NoDoubleRows
<1>. QED BY <1>1, MirrorInvariant, PTL

\* The indexer falls back to its cursor and no further, and what was handed over
\* before stays handed over.
LEMMA HandedKept ==
  ASSUME MirrorInv, HandedInv, [Next]_vars, ~Processes
  PROVE  HandedInv'
<1>1. ContractInv /\ PlaceInv /\ Len(stream) \in Nat
  BY EventTypes DEF MirrorInv, ContractInv
<1>2. /\ UNCHANGED <<deployed, tables, handled, missed>>
      /\ Passed' <= Passed /\ Passed' \in Nat /\ Passed \in Nat
      /\ \A n \in EventId : stream'[n] = stream[n]
  <2>1. (PlaceInv /\ Len(stream) \in Nat => Passed \in Nat)'
    BY Marks, PTL
  <2>2. CASE Calls
    <3>1. PICK e \in Event : \E last : Grown(e, last)
      BY <1>1, <2>2, CallsEmit
    <3>2. PICK last : Grown(e, last)
      BY <3>1
    <3>3. UNCHANGED <<deployed, tables, cursor, pc, batch, faults, history>>
      BY <2>2 DEF Calls
    <3>4. PlaceInv' /\ Passed' = Passed /\ Len(stream') \in Nat
      BY <1>1, <3>2, <3>3, CallsPlace DEF Grown
    <3>. QED BY <1>1, <2>1, <3>2, <3>3, <3>4, Marks DEF Grown, history
  <2>3. CASE Moves
    <3>1. /\ PlaceInv' /\ UNCHANGED <<deployed, contract, tables, handled, missed>>
          /\ Passed' <= Passed
      BY <1>1, <2>3, MovesInv
    <3>. QED BY <1>1, <2>1, <3>1, Marks DEF contract
  <2>4. CASE Aside
    <3>1. UNCHANGED <<deployed, contract, tables, cursor, pc, batch, faults, history>>
      BY <2>4, AsideSame
    <3>2. Passed' = Passed
      BY <3>1 DEF Passed, InBatch, batch
    <3>. QED BY <1>1, <3>1, <3>2, Marks DEF contract, history
  <2>. QED BY <2>2, <2>3, <2>4 DEF Next, Works, Moves, Processes, Aside
<1>3. handled \subseteq EventId
  BY <1>1 DEF PlaceInv
<1>4. (\A n \in 1..Passed : n \in handled)'
  BY <1>2 DEF HandedInv
<1>. QED BY <1>2, <1>3, <1>4 DEF HandedInv, Recognised, Matches, Prefixed, tables

\* A claim that is processed leaves its row, or its transaction fails.
LEMMA HandedMore ==
  ASSUME MirrorInv, HandedInv, Processes
  PROVE  HandedInv'
<1>1. ContractInv /\ PlaceInv /\ TablesInv /\ Len(stream) \in Nat
  BY EventTypes DEF MirrorInv, ContractInv
<1>2. PICK n : n = position + done + 1
  OBVIOUS
<1>3. /\ UNCHANGED <<deployed, contract>> /\ handled' = handled \cup {n}
      /\ Passed' = Passed + 1 /\ n = Passed + 1 /\ n \in EventId /\ Passed \in Nat
      /\ stream[n] \in Event
  <2>1. pc = "processing"
    BY DEF Processes, PassOver, ProcessEvent, ProcessFails
  <2>. QED BY <1>1, <1>2, <2>1, ProcessPlace, NextToPass, Marks, EventTypes
           DEF ContractInv
<1>4. stream' = stream /\ (Recognised' <=> Recognised)
  BY <1>3 DEF contract, Recognised, Matches, Prefixed
<1>5. (\A m \in 1..Passed : m \in handled)'
  <2>1. \A m \in 1..(Passed + 1) : m \in 1..Passed \/ m = n
    BY <1>3
  <2>2. \A m \in 1..Passed : m \in handled
    BY DEF HandedInv
  <2>. QED BY <1>3, <2>1, <2>2
<1>6. ~Recognised => betRows' = {}
  <2>1. SUFFICES ASSUME ~Recognised PROVE betRows' = betRows
    BY DEF HandedInv
  <2>2. CASE PassOver \/ ProcessFails
    BY <2>2 DEF PassOver, ProcessFails, tables
  <2>3. CASE ProcessEvent
    <3>1. PICK key : Write(stream[n], key)
      BY <1>2, <2>3 DEF ProcessEvent
    <3>2. ~Prefixed
      BY <2>1, <2>3 DEF ProcessEvent, Recognised
    <3>. QED BY <1>3, <3>1, <3>2, WriteCases DEF tables
  <2>. QED BY <2>2, <2>3 DEF Processes
<1>7. ASSUME Recognised, NEW m \in handled', stream[m].kind = "claim"
      PROVE  m \in missed' \/ \E row \in claimRows' : row.key.tx = m
  <2>1. CASE ProcessFails
    <3>1. missed' = missed \cup {n} /\ claimRows' = claimRows
      BY <1>2, <2>1 DEF ProcessFails, tables
    <3>. QED BY <1>3, <1>7, <3>1 DEF HandedInv
  <2>2. CASE ProcessEvent
    <3>1. /\ pc = "processing" /\ Write(stream[n], Key(n, done))
          /\ missed' = IF Refused(stream[n]) THEN missed \cup {n} ELSE missed \ {n}
      BY <1>2, <2>2 DEF ProcessEvent
    <3>2. claimRows \subseteq claimRows'
      <4>1. UNCHANGED <<contract, cursor>> /\ EventId' = EventId /\ HighMark' = HighMark
        BY <1>1, ProcessPlace
      <4>. QED BY <1>1, <1>2, <3>1, <4>1, TableEffects DEF TablesInv
    <3>3. CASE m # n
      BY <1>3, <1>7, <3>1, <3>2, <3>3 DEF HandedInv
    <3>4. CASE m = n
      <4>1. Recorded(n)' \/ Excused(n)'
        BY <1>2, <1>7, <2>2, EventRecorded
      <4>2. stream'[n].kind = "claim"
        BY <1>4, <1>7, <3>4
      <4>. QED BY <3>4, <4>1, <4>2 DEF Recorded, Excused
    <3>. QED BY <3>3, <3>4
  <2>. QED BY <1>7, <2>1, <2>2 DEF Processes, PassOver, Recognised
<1>. QED BY <1>4, <1>5, <1>6, <1>7 DEF HandedInv

LEMMA HandedInvariant == Spec => []HandedInv
<1>1. Init => HandedInv
  <2>1. SUFFICES ASSUME Init PROVE HandedInv
    OBVIOUS
  <2>2. Passed = 0 /\ handled = {} /\ betRows = {}
    BY <2>1 DEF Init, Passed, InBatch
  <2>. QED BY <2>2 DEF HandedInv
<1>2. MirrorInv /\ HandedInv /\ [Next]_vars => HandedInv'
  BY HandedKept, HandedMore
<1>. QED BY <1>1, <1>2, MirrorInvariant, PTL DEF Spec

\* However the indexer is deployed and wherever it is stopped, every event before
\* the cursor was handed to processEvent; where that recognises the market's events,
\* each of them is in the tables, or its own transaction has failed.
THEOREM NothingSkipped == Spec => []NoGaps
<1>1. MirrorInv /\ HandedInv => NoGaps
  <2>1. SUFFICES ASSUME MirrorInv, HandedInv, NEW n \in 1..cursor
                 PROVE  n \in handled /\ (Recognised => Recorded(n) \/ Excused(n))
    BY DEF NoGaps
  <2>2. PlaceInv /\ TablesInv /\ Len(stream) \in Nat
    BY <2>1, EventTypes DEF MirrorInv, ContractInv
  <2>3. n \in 1..Passed
    BY <2>1, <2>2, Marks
  <2>. QED BY <2>1, <2>2, <2>3 DEF TablesInv, PassedInv, HandedInv
<1>. QED BY <1>1, MirrorInvariant, HandedInvariant, PTL

\* What the API lists as claimable was won by a stake of the user's, at any moment
\* of any replay; where the contract would not pay it any more, its storage has
\* expired or a claim has not come through, and so with the pools of its amount.
THEOREM ListedWasWon == Spec => []ListedIsWon
<1>1. MirrorInv /\ HandedInv => ListedIsWon
  <2>1. SUFFICES ASSUME MirrorInv, HandedInv, NEW u \in User, NEW r \in Listed(u)
                 PROVE  /\ chain[r] # None /\ chain[r].status = "Settled"
                        /\ stakes[r][u] # None
                        /\ Pays(chain[r].outcome, stakes[r][u].side)
                        /\ \/ Owed(u, r) \/ r \in expired \/ <<u, r>> \in lapsed
                           \/ ClaimUnseen(u, r)
                        /\ \/ /\ roundRows[r].pool_up = chain[r].pool_up
                              /\ roundRows[r].pool_down = chain[r].pool_down
                           \/ BetUnseen(r)
    BY DEF ListedIsWon
  <2>2. /\ ContractInv /\ PlaceInv /\ StakesInv /\ RoundRowsInv /\ BetRowsInv
        /\ ClaimRowsInv /\ PassedInv /\ Len(stream) \in Nat
    BY <2>1, EventTypes DEF MirrorInv, ContractInv, TablesInv
  <2>3. /\ r \in RoundId /\ roundRows[r] # None /\ roundRows[r].status = "Settled"
        /\ ~\E claim \in claimRows : Answered(claim, u, r)
    BY DEF Listed
  <2>4. PICK bet \in betRows : /\ bet.user = u /\ bet.round = r
                               /\ Pays(roundRows[r].outcome, bet.side)
    BY DEF Listed
  <2>5. Recognised
    BY <2>1, <2>4 DEF HandedInv
  <2>6. /\ chain[r] # None /\ chain[r].status = "Settled"
        /\ roundRows[r].outcome = chain[r].outcome
    BY <2>2, <2>3 DEF RoundRowsInv
  <2>7. bet.key.tx \in EventId
    BY <2>2, <2>4 DEF BetRowsInv, Keyed
  <2>8. stakes[r][u] # None /\ stakes[r][u].side = bet.side
    BY <2>2, <2>4, <2>7 DEF BetRowsInv, StakesInv
  <2>9. Owed(u, r) \/ r \in expired \/ <<u, r>> \in lapsed \/ ClaimUnseen(u, r)
    <3>1. SUFFICES ASSUME stakes[r][u].claimed PROVE ClaimUnseen(u, r)
      BY <2>4, <2>6, <2>8 DEF Owed
    <3>2. PICK n \in EventId : \/ Is(n, "claim", r) /\ stream[n].user = u
                               \/ stream[n].kind = "claims" /\ stream[n].user = u
      BY <2>2, <2>3, <2>8, <3>1 DEF StakesInv
    <3>3. CASE stream[n].kind = "claims"
      BY <3>2, <3>3 DEF ClaimUnseen, EventId, Is
    <3>4. CASE stream[n].kind # "claims"
      <4>1. Is(n, "claim", r) /\ stream[n].user = u
        BY <3>2, <3>4
      <4>2. \A row \in claimRows : row.key.tx # n
        BY <2>2, <2>3, <4>1 DEF ClaimRowsInv, Answered, Is
      <4>3. n \notin handled \/ n \in missed
        BY <2>1, <2>5, <4>1, <4>2 DEF HandedInv, Is
      <4>. QED BY <4>1, <4>3 DEF ClaimUnseen, EventId, Is
    <3>. QED BY <3>3, <3>4
  <2>10. \/ /\ roundRows[r].pool_up = chain[r].pool_up
            /\ roundRows[r].pool_down = chain[r].pool_down
         \/ BetUnseen(r)
    <3>1. ~NoneOf("bet", r)
      BY <2>2, <2>4, <2>7 DEF BetRowsInv, NoneOf, Is
    <3>2. PICK n \in EventId :
            stream[n].round = r /\ LastBet(n) /\ Pools(chain[r], stream[n])
      BY <2>2, <2>3, <2>6, <3>1 DEF ContractInv, ChainInv
    <3>3. CASE n > Passed \/ n \in missed
      BY <3>2, <3>3 DEF BetUnseen, LastBet, EventId
    <3>4. CASE ~(n > Passed \/ n \in missed)
      <4>1. n \in 1..Passed
        BY <2>2, <3>4, Marks DEF EventId
      <4>. QED BY <2>2, <2>5, <3>2, <3>4, <4>1 DEF PassedInv, Pools
    <3>. QED BY <3>3, <3>4
  <2>. QED BY <2>4, <2>6, <2>8, <2>9, <2>10
<1>. QED BY <1>1, MirrorInvariant, HandedInvariant, PTL


=============================================================================
