# Verification of the game server's items, persistence, sessions, parties and mail

This directory holds TLA+ models of parts of the server in `src/`, the TLC
configurations that check them on small instances, and TLAPS proofs of what
matters most for every instance. It is written for someone who has the
repository at hand: each definition is named after the code it stands for, and
`PROJECT.json` gives the lines of each.

Contents: 1 the system, 2 the modules, 3 the runs, 4 the proofs, 5 what
disagrees with the code's own words, 6 what is not modelled, 7 the plan.

## 1. The system

The server is four processes around one MariaDB:

| process | what it does | concurrency |
|---|---|---|
| `login` | accounts and characters: auth, data and view connections | one thread, asynchronous sockets |
| `map` | the game: zones, entities, packets, scripts | one main thread; coroutines resume on it (`common/scheduler.h`); a pool of workers for what may block |
| `world` | routes messages between map processes (ZeroMQ), conquest, campaign | one thread and a database of its own |
| `search` | searches, auction house lists | read mostly |

Database connections are per thread, so a worker's transaction and the main
thread's are different sessions. A client's packets are handled one after the
other on the map's main thread; a handler runs to its end unless it awaits.
What is hard, therefore, is seldom two threads in one data structure. It is
state that *spans* handlers (a trade, a synthesis, a claim, a lot, a session),
state held twice (memory and database, two players, two processes), and the
few places where a worker and the main thread both write.

### Inventory of the components

| component | state | operations | talks to | hard behaviour | correct when |
|---|---|---|---|---|---|
| Item transactions (`map/items/`) | claims, undo log, state of a transaction; stamp and uid of each item | claim, release, give, take, pay, earn, commit, rollback | containers, database | partial failure, order of undos, competing handlers, references that outlive items | memory and database agree; one holder per stack; rollback restores |
| Player trade (`items/transactions/player_trade.cpp`) | two sides, windows, accepts, `TradePending` | request, start, stage, accept, cancel, zone | item transactions, packets 0x032-0x034 | restaging after acceptance, three players, zoning, failure half way | exactly what both saw changes hands, or nothing; the trade closes for both |
| Persistence sweep (`persist_batch.cpp`) | flags of each character, batch, `flushedAtTeardown` and its lock | flag, collect, write, flush | worker pool, database, session clean-up | worker against main thread, characters that leave and return, failed transactions | newer rows survive; nothing is written after leaving; every change is saved, queued or flagged |
| Treasure pool (`treasure_pool.cpp`) | slots, lots, members, `m_count` | drop, lot, pass, check, join, leave | parties, zone tick, item claims | members and bags change between lot and award; full pool | items end up with an entitled member or are lost in time; no dangling lots |
| NPC trade, synthesis, bazaar, guild sale, item use | one transaction each | see `items/transactions/*` | scripts, item transactions | scripts that end early, irreversible synthesis, third party at a bazaar | as for the engine, plus each policy |
| Containers and equipment | slots, sizes, worn items | insert, move, merge, equip | everything above | sizes that shrink, merges of two rows | counts agree, what is worn exists |
| AI state machine (`ai/`) | stack of states of an entity | push, tick, interrupt | items, spells, abilities | interruption in the middle of a state | every state that was entered is cleaned up |
| Parties and alliances (`map/party.cpp`, `ipc_client.cpp`) | rows of `accounts_parties`; a `CParty` per process with leader and members; marks for reload; invitations | invite, answer, leave, kick, break up, hand on the lead, reload | world server, sessions, database | rows and copies changed from several processes, leaders who vanish, marks taken by others | one leader per party; no party too large; copies agree with the rows once messages are done |
| Map sessions (`map_session_container.cpp`, `map_networking.cpp`) | sessions by address, pending sessions, keys; the row of `accounts_sessions` | announce, create, enter, zone, log out, time out, kill | login, world, persistence | one character on two processes, lost 0x00B, late 0x00A, time-outs | one process has a character in a zone, and the row names it; no row stays for good |
| Login | session records shared by three connections | login, select, create, delete | database, map | connections in any order | a character is in at most once |
| World server | routes, tallies | forward, poll | map processes | lost or reordered messages | a message reaches the process that has its target |
| Battlefields, instances | registered characters, status, timers | register, enter, leave, close | zones, scripts | time-outs against winning | an area frees itself |
| Spawning | slots of alternative mobs, timers, conditions | try, respawn | zones | a forced respawn beside a living alternative | one mob per slot |
| Combat containers | enmity, notoriety, effects, recasts | add, remove, tick | entities | one relation kept in two halves | the halves agree |
| Transports, nominations | timed phases | tick | zones | missed ticks | phases follow in order |
| Auction house, delivery box (`auctionutils.cpp`, `dboxutils.cpp`, `search/data_loader.cpp`, `sql/triggers.sql`) | rows of mail and listings; the open window's copies | set, send, cancel, fetch, return, take, drop; list, bid, withdraw, expire | database, bags | rows change under an open window, COMMITs that fail, the search server without a transaction | goods and gil add up over bags, boxes and listings |
| Formulas, packets, scripts, navigation | - | - | - | - | not a matter for these models |

`PROJECT.json` lists the same components with their sources and status, and
under `hazards` everything we found that a test would hardly reach, at its
line, with the properties that watch it.

## 2. The modules

```
AtomicInventory            what an item transaction promises
   ^ refined by
ItemTransaction  <-- ItemTransaction_proofs, MCItemTransaction
   ^ extended by
PlayerTrade      <-- PlayerTrade_proofs, MCPlayerTrade

PersistSweep     <-- PersistSweep_proofs, MCPersistSweep

TreasurePool     <-- TreasurePool_proofs (run as it is)

MapSessions      <-- MapSessions_proofs, MCMapSessions

PartySystem      <-- PartySystem_proofs, MCPartySystem

DeliveryBox
   ^ extended by
AuctionHouse     <-- AuctionHouse_proofs, MCAuctionHouse

FiniteSums       lemmas on sums and queues, for the proofs of the pool and the mail
```

**ItemTransaction** (`items/transaction.cpp`, `item_access.h`, `item_id.cpp`).
`inv` is memory, `db` the rows of `char_inventory`: every step writes the row
first and memory only if that succeeded, and each write may fail (`Write`).
`claims`, `undos` and `txState` are the members of `Transaction`. The server
runs one handler at a time: `cpu` names the transaction whose handler runs, and
`phase` how far its rollback has come; several transactions are open across
handlers. `Claim`, `Release`, `Give`, `Grow` (earn and merge), `Take`,
`Commit`, `StartRollback`, the undos one by one, and `FinishRollback` are the
operations; `Mark`, `StartUse`, `EndUse` and `MoveItemTo` are the equipment,
bazaar, item use and container handlers that touch the same stacks. A claim
is an `ItemId`, resolved by uid, as in `ItemId::resolve`. A synthesis is a
transaction in `Irreversible`. `base` and `undoFailed` are history: what the
running handler found, and whether one of its undos could not be written.

**AtomicInventory** is the abstract specification: a transaction reserves
places nobody else has, and takes effect at once or not at all; one that is
irreversible takes effect bit by bit, outside what others have reserved.
`LoadedAssumption` says what a database that was ever saved by this code holds
when a character is loaded: uids are drawn once, an empty slot is empty, and
every stack `Fits`: `setQuantity` cuts off at the stack size, only the gil keeps
a row of quantity 0, and slot 0 has the gil, which is never worn or put on sale,
and nothing else.
`ItemTransaction` maps `stock` to the contents as seen between handlers and
`held` to the stamped stacks its claims resolve to.

**PlayerTrade** extends the engine with the handshake of packets 0x032-0x034
(`pending` is `TradePending`, `place` the target index of a player in the zone),
the windows (`stage`), the accepts and the exchange: deliveries to both sides,
then consumption from both, each a step of the engine that may fail. `job` and
`todo` are the program counter of the running handler: `todo` is the set of the
steps that are left, of which the first in the code's order (`Before`) is next. `agreed` is history:
what each player saw when he accepted. Trading is open to purchases and to the
engine's other handlers by the players in `Restless`.

**PersistSweep** (`persist_batch.cpp`, `MapEngine::persistSweep`,
`persist::flush` and its callers). A character is a record of facets; `owed` is
the flags; `batch` and `rows` what the worker and the main thread are about to
write. The lock of `flushedAtTeardown` is held by whoever is "writing". Each
facet is a database transaction of its own, in `WriteOrder`, that may fail.
`forgotten` is history: facets whose last row was dropped or failed. While
the main thread waits in a flush, nothing else happens on it (`MainFree`); the
worker goes on. A character whose status is Disappear or Shutdown
("departing") is skipped by the sweep.

**TreasurePool** (`treasure_pool.cpp`, packets 0x041 and 0x042, the pool's part of
`party.cpp` and `zone.cpp`). Slots with an item, an age and the answers in
order; the members; and of their bags the free room and the rare items held.
`Checked` is `checkTreasureItem` as the set of its outcomes: a random candidate,
and an award that may fail. Ages count zone ticks up to `Life`.

**MapSessions** (`map_session_container.cpp`, `map_networking.cpp`, the 0x00A
handler, the session messages of `ipc_client.cpp` and `world/ipc_server.cpp`,
`login/data_session.cpp`). One character, several map processes. `sess[p][a]` is
the `MapSession` of process p for address a, with the loaded character;
`pending[p]` a session announced by CharZone; `row` is `accounts_sessions`;
`chars` what is saved. Keys are counted (`incrementBlowfish`); the client may
miss an 0x00B, and a datagram with an 0x00A may come late (`LateLogin`).
Messages pass through the world server in the order of each connection. Time is
counted in units of `MAX_TIME_LASTUPDATE`.

**PartySystem** (`party.cpp`, packets 0x06E to 0x077, `charutils::ReloadParty`,
the party messages). `rows` is `accounts_parties`, `cparty` the `CParty` objects,
of which each process has its own, `party[c]` the pointer of a character to
one. A handler is a function from one state of parties (`World`) to others;
what it sends is appended to `toWorld`, which the world server forwards to the
processes the rows name at that moment (`Forward`). A mark (`reload`) makes the
next tick bring a copy up to date. A row goes with its session: the foreign key
of `accounts_parties`. `abandoned` is history: the members of parties whose leader
vanished outside any zone, or who were in no zone when their party ended, or
whose leader lost its row through an old copy of another party (section 5).
`RowStands` of MapSessions is what lets `server[c]` stand for
both the row's process and the process that has the character.

**DeliveryBox** (`dboxutils.cpp`, `delivery_box_insert`, `char_delete`). `outbox`
and `inbox` are rows by cell, `queue` the mail with slots from 8 on, `window` the
copies in `UContainer`. A row of the outgoing box that was sent is a receipt
only. A transaction is one step, which may fail at its COMMIT: then the rows are
as before, but not the window. `CancelSendingItem` deletes, as its DELETE does with
LIMIT 1 and no order, any one mail that matches. **AuctionHouse** extends it with listings, bids
(the trigger `auction_house_buy` mails the sum), withdrawals, and the expiration
of the search server, which mails and deletes in separate steps from a list it
has read before, in no order a query promises. `gone` and `copied` are history: what was destroyed and what
was made twice.

Every operation that mutates a definition for the checks (section 3) stands
next to the definition and is marked "Mutant".

## 3. The runs

Run any with `tlc -config <name>.cfg <module>`.

| run | question | bounds |
|---|---|---|
| `EngineRollback` | Does a rollback restore, whatever the order of up to four steps and with a failed write anywhere? Do memory and database agree, and does a rollback end? | 1 transaction, 1 bag of gil, a stack, a free slot; 5 uids; 1 failure |
| `EngineClaims` | With two transactions (one a synthesis) and the other handlers: one holder per stack, nobody else changes it, dead references stay dead; the engine implements `AtomicInventory` when writes land | 2 transactions, 2 undos each |
| `TradeExchange` | Stage, restage, accept, exchange, with one failed write, while one player shops, equips and sorts: what is staged is held, the swap is exact, a crash loses nothing, the trade closes | 2 players, 2 trade slots and gil, 3 kinds |
| `TradeHandshake` | Three players request, accept, cancel, zone and return: an open trade is known to both sides and to no third | 3 players, 2 trades, 1 return each |
| `SweepAndTeardown` | Nothing is written of a character that has left; whatever is flagged is collected | 2 characters, 1 facet |
| `SweepFailures` | Old rows never overwrite new ones; changes are lost only where the code drops a row or ignores a failure | 1 character, 3 facets, 2 failures |
| `PoolSettles` | Answers belong to members and are single, who has passed does not win, an item past its time is settled | 2 characters, 2 slots, a plain item and a rare exclusive one, lots 1 and 2 |
| `SessionHandover` | In how many zones is a character, does its row stand, is the client understood after a lost 0x00B, when is older data saved over newer, and can the player log in again? | 2 processes with a zone each, 2 addresses, 2 logins, 2 hops each, 1 change of data, 1 late 0x00A, 1 crash |
| `PartyCopies` | Parties over two processes: one leader each, never too many members, copies as the rows once all is quiet, the lead is handed on, and it does get quiet | 4 characters, 3 to a party, 2 processes, 2 acts after any start, 1 crash |
| `MailAndAuction` | Do goods and gil add up over bags, boxes, queue and listings; do windows show what the rows hold; does a mail taken back exist? | 2 characters, 2 goods of a kind, 1 listing, 1 failed COMMIT or stop of the search server, 1 deletion |
| `KickUnheard`, `LeftoverSaved` | find the disagreements of section 5 | as their siblings |

*Why the bounds are enough.* Engine: one bag of two slots has every case a step
distinguishes - a full stack, a partial one, an empty slot, a worn stack - and
four undos let one slot be emptied, refilled, grown and emptied again, which is
the case the reverse order exists for. Two transactions are all that a conflict
needs; the proofs cover any number. Trade: one rare good and one stackable good
give each refusal of `canReceive`; two slots let a stack be split. Three
players are what it takes to leave a third party with a stale partner. Sweep:
characters meet only in the lock, the batch and the set, facets of one
character only in the order of writing, so that two characters with one
facet and one character with three, together with the proof for any number
of both, leave no combination open. Two values tell an old row from a new one.
Pool: two slots make "full" reachable and settle one slot inside another's
handler; lots 1 and 2 give a winner and a tie; one free place per bag makes an
award fill it. Sessions: two logins are what it takes for a session of the first
to be in the way of the second; two hops lead to the other process and back;
one late 0x00A makes the leftover. With a third login and a second address, two
late datagrams and two crashes, the invariants were searched to a depth of
fifty steps without a violation. `OlderOnlyFromLeftovers` is stated for one late
0x00A: of two leftovers, the first to time out can set back what is saved, and
the character loaded from that then overwrites, from within its zone, what the
second has saved. Parties: four characters are a party that is
full and one who is not in it, or a leader, two heirs and an outsider, over two
processes in every distribution; every start (a party or none, invitations or
none) comes before the two acts, so that two acts are, for instance, an
acceptance after a kick. `MCPartySystem` takes one of each kind of start, as
characters and processes are interchangeable. Mail: a second cell matters where
receipts for equal mail compete, and a listing where the search server is at
work; a behaviour of `MCSpec` has one or the other, and while something has been
listed, one window is open at a time. One fault may fall anywhere.

`PartyCopies` has `Hasty = FALSE`: a player acts when messages and ticks of
earlier acts are done, which takes less than a second. Handlers, messages and
ticks that follow one act, and the time-outs, still interleave freely.
In `MapSessions`, too, messages have arrived when a player zones or a minute
has passed (`Delivered`), while datagrams may overtake them.

`CHECK_DEADLOCK FALSE` is stated where the system may stop: the engine and
trade models bound the transactions and uids, after which nothing is left to
do. Symmetry is used only in the trade handshake, which has no liveness.

*Fairness.* The engine's and trade's liveness assume only that a handler that
has begun runs to its end (weak fairness of the steps of a running rollback or
exchange); nothing makes a player act. The sweep's assumes that the timer's
sweep starts again and again (strong, as handlers and teardowns interrupt it),
that the worker gets the lock between two teardowns (strong: `std::mutex` is
free in between), that both finish what they began (weak), and that a departing
character is torn down, by the zone's tick or the time-out of its session. The
pool's assumes the zone's tick (weak), which runs while anyone is in the zone.
The sessions' assumes that `cleanupSessions` runs, that messages are delivered
and that time passes (weak); the client may vanish for ever, and
`SessionsDrain` is about just that. The parties' assumes that messages are
delivered and marked characters tick (weak, of both together).

*Mutants.* Each property of a passing run is broken by a plausible bug in one
of the mapped definitions, such as an undo that records what was asked instead
of what was done, or a flush that does not take the lock; `PROJECT.json` lists
them. They show that a run would notice.

## 4. The proofs

`tlapm ItemTransaction_proofs.tla`, and so on for `PlayerTrade_proofs`,
`PersistSweep_proofs`, `MapSessions_proofs`, `TreasurePool_proofs`,
`PartySystem_proofs`, `FiniteSums` and `AuctionHouse_proofs`. They assume what
the modules' ASSUMEs say of the constants and nothing more; in particular any
number of failures, players, characters, facets, transactions, processes, zones,
slots, goods, listings, late datagrams and crashes; finitely many where totals
are taken over them. The theorems a reader should
know of are listed in `PROJECT.json`.

**ItemTransaction_proofs.** `Invariant` is inductive: types; uids drawn once and
found in one place; an empty place is empty, a stack has a kind; a claim
names the one place its stack is in, or the stack is gone; only open
transactions hold claims; and `ClaimsExclusive`. The property alone is not
inductive: that a new claim meets no older claim of the same stack needs that
claims name one place, which needs that uids are never drawn twice. From it:
`TypeCorrect`, `ClaimsStayExclusive` (one holder), `OnlyTheHolder` (an action property:
claimed stacks change in the holder's steps only), `DeadClaims` (a dead
reference never revives, since a new stack's uid is larger than any claim's).
`RestartLoadsWhatPlayersSaw` adds a second inductive part, that memory and
database agree place by place: each step writes both or neither.

*Rollbacks*, in the same module. `RollbackRestores` says that a rollback whose undos could
all be written ends where the handler began. It is not inductive, nor is it
enough to relate the log to what the inventories hold, because an undo may also
be *refused*: the stack is worn, or full, or gone. `FitInv` says why none is:
stacks never exceed their size (`StacksFit`), or an undo would be cut off; an
item in use has charges and never stacks (`UseFits`), so what its undo would
refuse is nothing; the stacks in the log fit where they were (`SnapsFit`).
On top of it `UndoInv` carries, through every step of a handler, that the log
`Unwinds`: there is a sequence of contents from what is held now back to `base`,
each got from the one before by the undo at that place of the log, and what an
undo names may be changed by the transaction (`Revertible`). From it:
`LogAlwaysUnwinds` and `RollbackRestoresAll`. The refinement follows from the
same invariant: a step in the middle of a handler leaves what can be seen
between handlers alone, a commit or the end of a rollback shows it, and a
transaction changes only stacks that no other has reserved. `EngineIsAtomic` is
`AtomicInventory!Spec` for every behaviour in which no undo fails to be written
(`[]~undoFailed`), which is what the run `EngineClaims` checks too;
`AtomicWithoutFaults` draws the conclusion for a database that never fails.

**PlayerTrade_proofs.** `TradesRunOnTheEngine` proves that each step of a trade is a
step of the engine or leaves it alone: what is proved of the engine holds of
trades, among it `FailedTradesRestore`. Of the handshake, `OpenTradeIsMutual`
holds between handlers only; the inductive invariant says what holds inside
them. Two `TradePending`s that name each other are of one request (`PairsAgree`),
though one half may outlive the other; the sides of an open trade have each other
until it closes (`SidesAgree`); and who is leaving the zone is one of them, and
has no pending trade any more (`LeaverLeft`). Of the windows, `StagedInv` says
that while a trade is not exchanging, each slot but that of the gil has a claimed
stack of its own, large enough, and that closed trades have nothing staged.
That the slots of a window hold *different* stacks is what makes the release of
one leave the others held; the gil, which is not claimed, is exempt, which is why
the property excepts it. From these: `TradesKeepTypes`,
`BothSidesFindTheTrade`, `StagedStaysHeld`.

That a trade swaps what was agreed takes two more parts. `SeenInv`: while an
accept stands, both windows are as its giver saw them, and the gil he staged is
still his, though not the amount. `SwapInv` follows the exchange step by step:
for each player and each good, what he has is what he had when the handler
began, and what has been given to him, less what has been taken from him
(`Exact`); and what the steps that are left have to move is still there, and
delivered in full or not at all, for `CanReceive` has seen to the room
(`StepFits`). When `todo` is empty, all of it has moved: `SwapsAreExact`. As an
item is given before it is taken, what the players have together covers what
they had (`Covers`) at each step. A rollback comes back through the same
contents, so the proof of `NothingGetsLost` carries that all of those are
covered, through the same log that the proof of `RollbackRestores` unwinds. The totals are
sums over slots, windows and players, from `FiniteSums`.

**PersistSweep_proofs.** `PersistInvariant` rests on the lock: worker and main
thread never write at once, so a character cannot finish leaving while the
worker holds rows of it; a queued row belongs to someone still here or entered
as flushed; and rows that will be written, of a facet nothing has flagged
since, are what memory holds. From it: `PersistTypeCorrect`,
`NothingWrittenAfterLeaving`, `NoStaleOverwrite`, and, with one more induction,
`NothingSlipsThrough`.

**MapSessions_proofs.** `Handover` is inductive. `OneOwner` alone says nothing of
a session that waits for its 0x00A while the character is played elsewhere, so
`Placed` says of every session where it may let the character in: whoever is in
a zone is in the zone that is saved, on the process that zone runs on; a waiting
session whose zone runs on its own process was loaded from what is saved still.
The saved zone changes only when the one character in a zone leaves it
(`ZoneOutStep`), and then no other session can have been about to enter.
`OnePerProcess` closes the gap within a process: a session is prepared only
where there is none, and used up when one is created. From it:
`SessionsTypeCorrect` (in particular, no key is incremented past the last) and
`OneOwnerHolds`.

`RowInv` is inductive beside it, and is about what can take the row away from
under a character. `ExpectedHere`: a client is expected, or announced by a
CharZone under way, only at the process of the saved zone. `RowNamed`: while
somebody is in a zone, about to enter one, expected or announced, the row, if it
stands, names that process; it does stand for the first two. So the pending
session that times out and deletes the row "without looking" waits where nobody has
entered, and a session that is closed elsewhere leaves the row alone. `Departing`
covers logging out, which deletes the row whatever it names, and zoning.
`LeftoversEnd` is why the saved zone cannot move on while an older session is
left behind: such a session is where the character came from, and a KillSession
for it is on the way as soon as the character has a session where it is now; a
player zones when messages have arrived (`Delivered`). One lemma per action says
that sessions change in nothing the invariant is about (`Alike`), or that one
changes its status in a known way (`ReplacedRow`); entering (`LoginCreatesRow`)
and leaving (`ZoneOutRow`) are proved on their own. From it: `RowStandsHolds`. It
takes that None, a row, an age and a character are told apart (`NoneAssumption`).
`ClientIsUnderstood` is inductive beside `Handover` (`KeysKept`).

`AgeInv` is about the copies of the character that several processes may hold,
and about which of them can be saved. A process `Keeps` the character while the row
names it and has seen the client there, which the 0x00B ends. A copy is
`Stuck` when an 0x00A was accepted for it on a process its zone does not run on.
`SoloAlone`: while a character has left its zone and its client was not told where
to go (`Departed`), or a copy is stuck where the row still is, every other copy is
stuck and no client is announced; so nobody can enter a zone and play on beside it.
`ToldGone`: once the client was told, the row has moved on. Any other stuck
copy is `Loose`; to make one takes an 0x00A that comes late at a process whose
client was told to go elsewhere (`EnteredElsewhereAge`), because the client itself
sends its 0x00A only to where it was told (`EntersHere`). `Ages2` then says, as long
as one 0x00A at most has come late: whoever is in a zone or waits to enter one is not
behind what is saved, and the one loose copy is behind everybody. That it is
behind everybody is what keeps what is saved from passing anybody when the loose copy
is saved by its time-out, and what fails with a second one (section 3).
`Kept` is what the steps have in common that leave copies as they are; creating a
session, entering a zone, being told where to go and leaving (`LeaveAge`) are proved
on their own. From it: `OlderOnlyHolds`.

**TreasurePool_proofs.** `PoolInv`: `m_count` is the number of slots in use, and whoever has
answered for an item is a member and has answered once. The zone's tick settles
the slots in turn, each with what the one before has left of bags and pool; in
the model that is a recursive function over the slots, and that every slot is
reached with a sound pool is shown by taking the least one for which it would
fail. For `PassedNeverWinsHolds` the same argument carries a second predicate:
what a tick or a drop adds to a bag was offered by a slot its owner has not
passed. From these also `TreasureTypeCorrect` and `LotsAreOfMembers`.

**FiniteSums.** What `SumFunction` of the community modules computes, which is a fold that chooses an
order: that the order does not matter, what changing one argument does, and
sums over queues of which one element is dropped. All of it rests on least
elements of sets of numbers, as the library's induction theorems, which take an
operator, cannot be used.

**AuctionHouse_proofs.** `AuctionInv` has three parts. `BoxInv`: types; a window shows
what the rows it was opened on hold; and `HaveMail`, for each pair of characters
and each good: there is as much mail on its way as there are receipts not
marked, of deleted characters too, for deleting one moves its unsent items
to others and takes its own queue with it, which is the step the argument is
longest for. `ExpiringKnown`: a listing that waits to be expired and still stands
is the one the search server has read. `Balanced`: over bags, boxes, queues and
unsold listings, everything there is, and what is `gone`, is what there was at
the start, and what was `copied`. Each handler is shown to move its one item
between two of these sums, or to enter it in a history. From it:
`AuctionTypesHold`, `WindowsShowTheRows`, `MailIsThereToCancel`, `GoodsAddUp`,
`GilIsKept`.

**PartySystem_proofs.** That states are well typed (`PartyTypesHold`: no handler follows
a pointer to an object that is gone, and a name is free for each new party) holds
however hasty the players are. The rest is proved where the run checks it: players
act when messages and ticks are done (`~Hasty`), while sessions end, time out
and processes crash as they like. `PartyInv` is about the copies, and has to say
what they may be while messages are under way: every copy has the leader its id
names (`Leads`), old as the id may be; who has a row and is not in the copy with
its id is marked, or a reload is on its way to it (`LateAreTold`); the rows of a copy's
members agree on the party (`Agree`), and no row has the old id of a copy
(`StaleOK`), so that the first of its members to tick brings the whole copy up to
date; while there is such a copy no kick is under way (`StaleUnkicked`) and none
of its members without a row is marked, else that one's update would act on
the party the copy was of before; an answer to an invitation travels alone
(`AnswerAlone`), as it is sent at rest; a character's row of
`accounts_sessions`, the process it is in memory of, and the process of its
object are one (`Homes`, `Hosted`). Then the tick of a
marked character (`UpToDate`) and the deletion of one without a row, which may
disband or hand on, are the steps the argument is longest for. From it:
`LeadersOwnPartyHolds`, `CopiesFollowRowsHolds`.

`CareInv` is about the rows, on top of it. Parties are `Cared`: those not `abandoned` have
their leader among their members, and no more of them than `MaxMembers`; a
party is abandoned with all its members or not at all. Between a break-up and
the last tick it entails there are members without a leader, and `Doomed` says
which: their process is still to be told of the end, is named by their
session's row, and has them in the copy that will be deleted with their rows. Nobody
takes up the lead of a party whose end is on its way (`Announced`). Each
handler is then one of two: it takes rows away and hands one party on (`Cuts`),
or it adds members to a party that has room by its own count (`Joins`); for each,
a lemma about cardinalities (`CutsHeed`, `JoinsHeed`). From it:
`LeaderIsHandedOnHolds`, `NotOverfullHolds`. The attempt found what no run of four
characters shows: with five, a member can lead a second party while an old
copy of the first still counts it in, and be removed through that
copy; the history `abandoned` has since named this case (`Missed`, section 5).

*Only model-checked:* everything temporal under fairness (`RollbackEnds`,
`TradeCloses`, `FlagsDrain`, `ItemsAreSettled`, `SessionsDrain`, `QuietsDown`),
which the prover cannot express.

## 5. Where the code disagrees with itself

Each has a run that finds it, and a quoted line in `PROJECT.json`.

- `KickUnheard`: whoever is kicked from another process is to get "a direct
  update". `PlayerKick` marks the character; but if another member of the same
  `CParty` reloads first, `CParty::ReloadParty` takes the marks of all members,
  and the victim stays in its copy of the party.
- `LeftoverSaved`: cleaning up a session of a character who is "attached to"
  another map process spares its row, but `removeCharFromZone` saves its old copy.
  `OlderOnlyFromLeftovers` in the passing run says that, with one such copy, this
  is the only way for older data to be saved over newer.

Modelling showed other places where what the code does may surprise. The models
keep them, and the properties that pass are worded so as to say exactly what
does hold beside them:

- An item in use can be taken off and moved (`StartUse`, `Mark`).
- One half of a trade request may stand when the other is gone: the request is
  then dropped as "already sent" (`Request`). `OpenTradeIsMutual` holds all the same.
- A teardown that gets the lock before a queued sweep enters the character as
  already updated, and the sweep drops newer rows (`forgotten`).
- `SaveCharEquip` from the linkshell handler neither takes the lock nor flags;
  a sweep under way restores the old equipment (`Direct`).
- A pass sent to a slot that has just been settled counts for the next item there.
- An expiration overtaken by a sale or a withdrawal, or stopped between mailing and
  deleting, makes an item twice (`copied`).
- Taking back a mail that a stale window still shows as sent deletes a row that
  holds an item (`CancelFails`, `gone`).
- A party whose leader's session ends while in no zone, or with its process, has no
  leader until someone leaves; a member who is in no zone when the party ends
  keeps its row; and, which takes five characters, more than the run has, a member
  whom an old copy still counts in after it has come to lead another party loses
  *that* party's row when it is removed through the copy, for `RemoveMember`
  and `DisbandParty` delete by character alone. `LeaderIsHandedOn` and
  `NotOverfull` hold of everyone else (`abandoned`).

## 6. What is not modelled, and why

- A crash: memory is gone and the database is what it was. `MemoryMatchesDatabase`
  and `NothingIsLost` say what a restart finds of items; of the sweep's facets
  `OwedOrOnItsWay` says what is at risk.
- The sweep's siblings that write at once (`setCharVar`, `SaveCharPosition`, the
  write at termination). A session that lives on in another process is part of
  `MapSessions`, with the sweep abstracted to `SaveChar`.
- Of a treasure pool: the packets, `flush()`, and more than one pool at a time.
  Moving to another party's pool is leaving one and joining another.
- Of sessions: more than one character (sessions of different characters meet in
  nothing but the addresses), full zones, which refuse and change nothing, and
  the retransmission of ordinary packets.
- Of parties: alliances, level sync, the quarter master and trusts. Who of several
  members is the oldest is left open. Pointers to destroyed characters: a
  destructor takes them out, which `Unlinked` does.
- Of mail: statements that fail inside a transaction (all of it is undone), rare
  goods, stacks (a kind of good stands for an item with its quantity), gil sent
  by players, a second expiration while one is at work. Transactions are taken
  as serializable; the statements used lock the rows they change.
- A crash of a map process inside a mail handler: the row of an item to be sent is
  committed before the item leaves the bag.
- Distances, delays and names are nondeterministic booleans (`near`, `aged`).
- Formulas, packets' layouts, navigation, scripts: no protocol to check, or
  the script's part is an input of the handler that runs it.
- The other components of section 1, for the plan below.

## 7. The plan

Done: the engine, its abstract specification, and the proofs that handlers are
atomic; the player trade, with proofs of its handshake and its windows; the
sweep and its proofs; the treasure pool and its proofs; map sessions with login
and the routing of messages, and the proofs that a character has one owner, a
row and an understood client, and of when older data is saved over newer;
parties, and the proofs about their rows and copies; the delivery boxes and the
auction house, and the proof that goods and gil add up.
What would come next, in this order:

1. `NpcTrade`, `Synthesis`, `BazaarPurchase`, `GuildSale`: extensions of
   `ItemTransaction`, one policy each. A synthesis consumes its crystal early
   and cannot roll back; an NPC trade is confirmed item by item by a script; a
   bazaar has a seller who may be trading. Properties: a failed policy leaves
   no claim behind, gil and goods are conserved between two players.
2. Alliances on top of `PartySystem`.
3. `ItemContainer`: sizes, counts, merging and moving against the rows;
   theorem: the free slots are never counted below zero.
4. `Battlefield`; `SpawnSlot`; `Enmity`; the login server's three connections.
5. Proofs: that parties stay sound once alliances are part of the model.
