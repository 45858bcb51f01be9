------------------------------ MODULE Indexer ------------------------------
(***************************************************************************)
(* indexer/ and the queries of api/ that people act on.  The market emits  *)
(* a stream of events, one for each call; the indexer reads it in batches, *)
(* writes each event to Postgres in a transaction of its own, and then     *)
(* saves its cursor in another one.  It may stop between any two of these. *)
(* What it makes of an event hangs on three things that are settled when   *)
(* it is deployed, and a specification takes any of them.                  *)
(***************************************************************************)
EXTENDS Integers, Sequences, FiniteSets

CONSTANTS
  User,
  MaxRounds, MaxEvents,   \* bounds: on the rounds and on the stream
  Limit,           \* events in a batch, 200 in the code
  Cursors,         \* what the cursor may be at first: a subset of CursorKind
  Ids,             \* what an event's contractId may be: a subset of IdKind
  Layouts,         \* how its topics may be laid out: a subset of LayoutKind
  Fault,           \* what may go wrong: a subset of FaultKind
  MaxFaults,       \* bound: and how often
  None

CursorKind == {"zero",   \* '0', as the migration leaves it
               "token"}  \* the token of a ledger before the contract's first
                         \* event, set by hand

IdKind == {"object",     \* a Contract, as stellar-sdk 13 gives it
           "text"}       \* a string, as index.ts:50 declares it

LayoutKind == {"bare",       \* the kind comes first, as the contract has it
               "prefixed"}   \* "wick" does, as index.ts:11-16 has it

FaultKind == {"event",   \* the database transaction of an event fails
              "poll",    \* no connection, or the cursor cannot be saved
              "crash"}   \* the indexer stops and is started again

ASSUME IndexerAssumption ==
  /\ MaxRounds \in Nat /\ MaxEvents \in Nat /\ Limit \in Nat \ {0}
  /\ Cursors \subseteq CursorKind /\ Ids \subseteq IdKind /\ Layouts \subseteq LayoutKind
  /\ Fault \subseteq FaultKind /\ MaxFaults \in Nat

RoundId == 1..MaxRounds
Side == {"Up", "Down"}
Outcome == {"Up", "Down", "Void"}

VARIABLES
  deployed,   \* how the indexer is deployed
  chain,      \* the rounds the contract has had
  stakes,     \* and the positions
  stream,     \* the events it has emitted
  expired,    \* the rounds whose storage entries are gone
  lapsed,     \* and the positions <<user, round>> whose are
  roundRows,  \* table rounds
  betRows,    \* table bets
  claimRows,  \* table claims
  cursor,     \* table cursor
  pc,         \* what the indexer awaits
  position,   \* its own copy of the cursor
  fetched,    \* how many events the batch has
  done,       \* and how many of them it has been through
  faults,     \* faults so far
  handled,    \* history: the events handed to processEvent
  missed      \* history: those whose own transaction failed when last read

contract == <<chain, stakes, stream>>
storage == <<expired, lapsed>>
tables == <<roundRows, betRows, claimRows>>
batch == <<position, fetched, done>>
history == <<handled, missed>>
vars == <<deployed, contract, storage, tables, cursor, pc, batch, faults, history>>

RoundRow == [status : {"Open", "Settled"}, outcome : Outcome \cup {None},
             pool_up : Nat, pool_down : Nat]
StakeEntry == [side : Side, claimed : BOOLEAN]

ASSUME NoneAssumption ==
  /\ None \notin RoundRow \cup StakeEntry \cup Outcome
  /\ None \notin {"created", "bet", "settled", "claim", "claims"}

-----------------------------------------------------------------------------
(* The market: who won what, with stakes of one token.  Rounds and         *)
(* positions are temporary entries: when one goes is left open here.       *)

Pays(outcome, side) == outcome \in {"Void", side}

Owed(u, r) ==
  /\ chain[r] # None /\ chain[r].status = "Settled"
  /\ stakes[r][u] # None /\ ~stakes[r][u].claimed
  /\ Pays(chain[r].outcome, stakes[r][u].side)
  /\ r \notin expired /\ <<u, r>> \notin lapsed

Emit(event) ==
  /\ Len(stream) < MaxEvents
  /\ stream' = Append(stream, event)

Create(r) ==
  /\ \A s \in 1..r : chain[s] = None <=> s = r
  /\ chain' = [chain EXCEPT ![r] =
       [status |-> "Open", outcome |-> None, pool_up |-> 0, pool_down |-> 0]]
  /\ Emit([kind |-> "created", round |-> r])
  /\ UNCHANGED stakes

\* Nobody bets twice on a round: it would have to be open for longer than a
\* position lasts.
Bet(u, r, side) ==
  /\ chain[r] # None /\ chain[r].status = "Open" /\ r \notin expired
  /\ stakes[r][u] = None
  /\ stakes' = [stakes EXCEPT ![r][u] = [side |-> side, claimed |-> FALSE]]
  /\ chain' = [chain EXCEPT
       ![r].pool_up = IF side = "Up" THEN @ + 1 ELSE @,
       ![r].pool_down = IF side = "Down" THEN @ + 1 ELSE @]
  /\ Emit([kind |-> "bet", round |-> r, user |-> u, side |-> side,
           pool_up |-> chain'[r].pool_up, pool_down |-> chain'[r].pool_down])

Settle(r, outcome) ==
  /\ chain[r] # None /\ chain[r].status = "Open" /\ r \notin expired
  /\ chain[r].pool_up = 0 \/ chain[r].pool_down = 0 => outcome = "Void"
  /\ chain' = [chain EXCEPT ![r].status = "Settled", ![r].outcome = outcome]
  /\ Emit([kind |-> "settled", round |-> r, outcome |-> outcome])
  /\ UNCHANGED stakes

\* Only a claim that yields something emits an event.
Claim(u, r) ==
  /\ Owed(u, r)
  /\ stakes' = [stakes EXCEPT ![r][u].claimed = TRUE]
  /\ Emit([kind |-> "claim", round |-> r, user |-> u])
  /\ UNCHANGED chain

\* The event of a batch has the length of the batch where others have the round.
ClaimMany(u, rs) ==
  /\ \E r \in rs : Owed(u, r)
  /\ stakes' = [r \in RoundId |-> IF r \in rs /\ Owed(u, r)
                  THEN [stakes[r] EXCEPT ![u].claimed = TRUE] ELSE stakes[r]]
  /\ Emit([kind |-> "claims", round |-> Cardinality(rs), user |-> u])
  /\ UNCHANGED chain

Expire(r) ==
  /\ chain[r] # None /\ r \notin expired
  /\ expired' = expired \cup {r}
  /\ UNCHANGED lapsed

Lapse(u, r) ==
  /\ stakes[r][u] # None /\ <<u, r>> \notin lapsed
  /\ lapsed' = lapsed \cup {<<u, r>>}
  /\ UNCHANGED expired

-----------------------------------------------------------------------------
(* Writing an event to the tables *)

\* index.ts:77 lets an event through whose contract id is the text CONTRACT_ID.
Matches == deployed.id = "text"

Prefixed == deployed.layout = "prefixed"

\* The second topic.  Without the prefix it is an asset, a round or a number.
Kind(event) == IF Prefixed THEN event.kind ELSE None

KeyOfRun(n, index) == \* mutant: counts the events of the process
  [tx |-> n, index |-> index + faults]

\* UNIQUE (tx_hash, event_index): a transaction emits one event, and the index
\* is the event's place in the batch it was read in.
Key(n, index) == [tx |-> n, index |-> index]

Conflict(rows, key) == \E row \in rows : row.key = key

\* INSERT ... ON CONFLICT DO NOTHING
Inserted(rows, row) == IF Conflict(rows, row.key) THEN rows ELSE rows \cup {row}

\* upsertRound
AddRound(event) ==
  /\ roundRows' = IF roundRows[event.round] # None THEN roundRows
       ELSE [roundRows EXCEPT ![event.round] =
              [status |-> "Open", outcome |-> None, pool_up |-> 0, pool_down |-> 0]]
  /\ UNCHANGED <<betRows, claimRows>>

PoolsAdded(row, event) == \* mutant: adds the stake to the row's pools
  [row EXCEPT !.pool_up = IF event.side = "Up" THEN @ + 1 ELSE @,
              !.pool_down = IF event.side = "Down" THEN @ + 1 ELSE @]

\* updateRoundPools
WithPools(row, event) ==
  [row EXCEPT !.pool_up = event.pool_up, !.pool_down = event.pool_down]

\* A bet on a round that is not in its table violates the foreign key.
Refused(event) == Kind(event) = "bet" /\ roundRows[event.round] = None

\* insertBet: the pools are written whether or not the row is new.
AddBet(event, key) ==
  IF Refused(event) THEN UNCHANGED tables
  ELSE /\ betRows' = Inserted(betRows, [key |-> key, round |-> event.round,
                                user |-> event.user, side |-> event.side])
       /\ roundRows' = [roundRows EXCEPT
            ![event.round] = WithPools(roundRows[event.round], event)]
       /\ UNCHANGED claimRows

\* settleRound
AddOutcome(event) ==
  /\ roundRows' = IF roundRows[event.round] = None THEN roundRows
       ELSE [roundRows EXCEPT ![event.round].status = "Settled",
                              ![event.round].outcome = event.outcome]
  /\ UNCHANGED <<betRows, claimRows>>

\* insertClaim
AddClaim(event, key) ==
  /\ claimRows' = Inserted(claimRows,
       [key |-> key, round |-> event.round, user |-> event.user])
  /\ UNCHANGED <<roundRows, betRows>>

Write(event, key) ==
  CASE Kind(event) = "created" -> AddRound(event)
    [] Kind(event) = "bet" -> AddBet(event, key)
    [] Kind(event) = "settled" -> AddOutcome(event)
    [] Kind(event) \in {"claim", "claims"} -> AddClaim(event, key)
    [] OTHER -> UNCHANGED tables

-----------------------------------------------------------------------------
(* The indexer *)

Init ==
  /\ deployed \in [cursor : Cursors, id : Ids, layout : Layouts]
  /\ chain = [r \in RoundId |-> None]
  /\ stakes = [r \in RoundId |-> [u \in User |-> None]]
  /\ stream = <<>>
  /\ expired = {} /\ lapsed = {}
  /\ roundRows = [r \in RoundId |-> None]
  /\ betRows = {} /\ claimRows = {}
  /\ cursor = 0
  /\ pc = "start" /\ position = 0 /\ fetched = 0 /\ done = 0
  /\ faults = 0
  /\ handled = {} /\ missed = {}

Faulty(kind) ==
  /\ kind \in Fault
  /\ faults < MaxFaults
  /\ faults' = faults + 1

Start ==
  /\ pc = "start"
  /\ position' = cursor
  /\ pc' = "asleep"
  /\ UNCHANGED <<deployed, contract, storage, tables, cursor, fetched, done, faults,
                 history>>

Shorter(m, n) == IF m < n THEN m ELSE n

WholeRest(n) == n \* mutant: no limit

BatchSize(n) == Shorter(Limit, n)

\* From '0' getEvents is called with neither a cursor nor a start ledger: the node
\* refuses it, and the loop logs the error and polls again.
FetchRefused ==
  /\ pc = "asleep"
  /\ deployed.cursor = "zero"
  /\ UNCHANGED vars

FetchNothing ==
  /\ pc = "asleep"
  /\ deployed.cursor = "token"
  /\ Len(stream) = position
  /\ UNCHANGED vars

\* getEvents after the cursor.
Fetch ==
  /\ pc = "asleep"
  /\ deployed.cursor = "token"
  /\ Len(stream) > position
  /\ fetched' = BatchSize(Len(stream) - position)
  /\ done' = 0
  /\ pc' = "processing"
  /\ UNCHANGED <<deployed, contract, storage, tables, cursor, position, faults, history>>

\* The event of the batch that is processed now.
Current == position + done + 1

GoOn ==
  /\ handled' = handled \cup {Current}
  /\ done' = done + 1
  /\ pc' = IF done + 1 = fetched THEN "saving" ELSE "processing"
  /\ UNCHANGED <<deployed, contract, storage, cursor, position, fetched>>

\* Not an event of the contract: processEvent returns.
PassOver ==
  /\ pc = "processing"
  /\ ~Matches
  /\ GoOn
  /\ UNCHANGED <<tables, faults, missed>>

ProcessEvent ==
  /\ pc = "processing"
  /\ Matches
  /\ Write(stream[Current], Key(Current, done))
  /\ missed' = IF Refused(stream[Current])
               THEN missed \cup {Current} ELSE missed \ {Current}
  /\ GoOn
  /\ UNCHANGED faults

\* A failed transaction is rolled back and logged, and the loop goes on.
ProcessFails ==
  /\ pc = "processing"
  /\ Matches
  /\ Faulty("event")
  /\ missed' = missed \cup {Current}
  /\ GoOn
  /\ UNCHANGED tables

\* poll() returns the paging token of the batch's last event.
OldCursor == position \* mutant: the token the batch was asked for with

NewestCursor == Len(stream) \* mutant: the newest event there is

NewCursor == position + fetched

SaveCursor ==
  /\ pc = "saving"
  /\ cursor' = NewCursor
  /\ position' = NewCursor
  /\ pc' = "asleep" /\ fetched' = 0 /\ done' = 0
  /\ UNCHANGED <<deployed, contract, storage, tables, faults, history>>

\* An error outside an event's own transaction, before one or when the cursor is
\* saved, ends the poll: the batch will be read again.
PollFails ==
  /\ pc = "saving" \/ (pc = "processing" /\ Matches)
  /\ Faulty("poll")
  /\ pc' = "asleep" /\ fetched' = 0 /\ done' = 0
  /\ UNCHANGED <<deployed, contract, storage, tables, cursor, position, history>>

Crash ==
  /\ pc # "start"
  /\ Faulty("crash")
  /\ pc' = "start" /\ position' = 0 /\ fetched' = 0 /\ done' = 0
  /\ UNCHANGED <<deployed, contract, storage, tables, cursor, history>>

-----------------------------------------------------------------------------
(* What the API shows *)

Answered(claim, u, r) == claim.user = u /\ claim.round = r

\* getUserClaimable: bets on settled rounds that pay and have no claim row.
Listed(u) ==
  {r \in RoundId :
     /\ roundRows[r] # None /\ roundRows[r].status = "Settled"
     /\ \E bet \in betRows : bet.user = u /\ bet.round = r
                             /\ Pays(roundRows[r].outcome, bet.side)
     /\ ~\E claim \in claimRows : Answered(claim, u, r)}

Calls ==
  /\ \/ \E r \in RoundId : Create(r)
     \/ \E u \in User, r \in RoundId, side \in Side : Bet(u, r, side)
     \/ \E r \in RoundId, outcome \in Outcome : Settle(r, outcome)
     \/ \E u \in User, r \in RoundId : Claim(u, r)
     \/ \E u \in User, rs \in SUBSET RoundId : ClaimMany(u, rs)
  /\ UNCHANGED <<deployed, storage, tables, cursor, pc, batch, faults, history>>

Expiry ==
  /\ \/ \E r \in RoundId : Expire(r)
     \/ \E u \in User, r \in RoundId : Lapse(u, r)
  /\ UNCHANGED <<deployed, contract, tables, cursor, pc, batch, faults, history>>

Works ==
  Start \/ FetchRefused \/ FetchNothing \/ Fetch \/ PassOver \/ ProcessEvent \/ SaveCursor

Next == Calls \/ Expiry \/ Works \/ ProcessFails \/ PollFails \/ Crash

Spec == Init /\ [][Next]_vars

\* The loop never ends: it catches every error and polls again.
FairSpec == Spec /\ WF_vars(Works)

-----------------------------------------------------------------------------
(* Properties *)

TypeOK ==
  /\ chain \in [RoundId -> RoundRow \cup {None}]
  /\ stakes \in [RoundId -> [User -> StakeEntry \cup {None}]]
  /\ roundRows \in [RoundId -> RoundRow \cup {None}]
  /\ pc \in {"start", "asleep", "processing", "saving"}
  /\ faults \in 0..MaxFaults
  /\ cursor <= Len(stream)
  /\ pc # "start" => position = cursor
  /\ position + fetched <= Len(stream)
  /\ done <= fetched /\ fetched <= Limit
  /\ pc = "processing" => done < fetched
  /\ handled \subseteq 1..Len(stream) /\ missed \subseteq handled
  /\ deployed.cursor = "zero" => pc \in {"start", "asleep"} /\ cursor = 0

\* The rows that event n leaves behind.
Recorded(n) ==
  LET event == stream[n]
  IN CASE event.kind = "created" -> roundRows[event.round] # None
       [] event.kind = "bet" -> \E row \in betRows : row.key.tx = n
       [] event.kind = "settled" ->
            roundRows[event.round] # None /\ roundRows[event.round].status = "Settled"
       [] OTHER -> \E row \in claimRows : row.key.tx = n

\* Its own transaction failed, or it updates a round whose insertion did.
Excused(n) ==
  \E m \in missed :
    \/ m = n
    \/ /\ stream[n].kind = "settled"
       /\ stream[m].kind = "created" /\ stream[m].round = stream[n].round

\* What processEvent knows as an event of the market.
Recognised == Matches /\ Prefixed

\* "Persists a cursor so it resumes after restart without gaps", wherever the
\* indexer was stopped: every event before the cursor was handed to processEvent,
\* and one that it recognises is in the tables; an event whose own transaction
\* failed takes no other one with it.
NoGaps ==
  \A n \in 1..cursor :
    /\ n \in handled
    /\ Recognised => Recorded(n) \/ Excused(n)

\* And none is in them twice, however often it was read.
NoDoubleRows ==
  \A rows \in {betRows, claimRows} : \A row, other \in rows :
    row.key.tx = other.key.tx => row = other

InBatch == pc \in {"processing", "saving"}

\* The indexer has been through the events up to this one since it last began
\* from its cursor, though it may have been further before.
Passed == IF InBatch THEN position + done ELSE cursor

\* A bet on the round is still to be read, or read again, or was not stored.
BetUnseen(r) ==
  \E n \in 1..Len(stream) :
    /\ stream[n].kind = "bet" /\ stream[n].round = r
    /\ n > Passed \/ n \in missed

\* The claim on its own that took this payout has not been read or not been
\* stored, or the payout may have been one of a batch, whose row names no round.
ClaimUnseen(u, r) ==
  \E n \in 1..Len(stream) :
    /\ stream[n].kind \in {"claim", "claims"} /\ stream[n].user = u
    /\ \/ stream[n].kind = "claims"
       \/ stream[n].round = r /\ (n \notin handled \/ n \in missed)

\* GET /users/:address/claimable, at any moment and after any replays: whatever it
\* lists was won, by a stake the user has placed; where the contract no longer
\* pays it, storage has expired or a claim has not come through; and the pools its
\* amount is computed from are the contract's, where no bet has yet to come through.
ListedIsWon ==
  \A u \in User : \A r \in Listed(u) :
    /\ chain[r] # None /\ chain[r].status = "Settled"
    /\ stakes[r][u] # None /\ Pays(chain[r].outcome, stakes[r][u].side)
    /\ Owed(u, r) \/ r \in expired \/ <<u, r>> \in lapsed \/ ClaimUnseen(u, r)
    /\ \/ /\ roundRows[r].pool_up = chain[r].pool_up
          /\ roundRows[r].pool_down = chain[r].pool_down
       \/ BetUnseen(r)

\* From a cursor set by hand every event the contract emits is read and left behind
\* by the cursor in the end, whatever fails on the way.
EveryEventPassed ==
  \A n \in 1..MaxEvents :
    deployed.cursor = "token" /\ Len(stream) >= n ~> cursor >= n

\* "Decodes Wick contract events, and writes them to Postgres", starting "immediately":
\* every event the contract emits is stored and left behind in the end.
EventsStored ==
  \A n \in 1..MaxEvents : Len(stream) >= n ~> cursor >= n /\ Recorded(n)

=============================================================================
