# TLA+ models of the MaNGOS server core

This directory holds TLA+ specifications of the concurrent core of the
MaNGOS world server (`src/src`), the TLC configurations that check them on small
instances, and TLAPS proofs of the theorems that matter most. `PROJECT.json`
maps every definition to the source lines it models and lists the runs, the
hazards, the findings and the theorems.

## 1. Inventory of the system

The program is two executables: `realmd` (log-in and realm list) and `mangosd`
(the world server). `mangosd` is one process with these threads:

| thread | started by | what it runs |
|---|---|---|
| main | `Main.cpp` | `Master::Run`: start-up, waits, shutdown in a fixed order |
| world | `WorldRunnable` | `World::Update` every 50 ms: sessions, maps, result queue, CLI |
| network | `AsyncListener` | reads sockets, authenticates, posts packets to sessions |
| map workers | `MapUpdater` | one `Map::Update` each, while the world thread waits |
| delay threads | `Database` (one per database) | asynchronous SQL |
| CLI, RA, SOAP | `CliThread`, ... | push console commands to the world thread |
| LFG, BG queue | `World` | queues that talk to the world by messages |
| freeze detector | `FreezeDetectorRunnable` | watches the tick counter |

### Components, their state and what makes them correct

**Asynchronous database** (`shared/Database`). State: the request queue of
`SqlDelayThread`, the per-thread open transaction, the recursive lock of the
asynchronous connection, the result queue. Operations: begin, execute, commit
and rollback of a transaction, direct requests, asynchronous queries, halting.
Callers are the world thread, the map workers, the BG queue thread; answers come
back to the world thread as callbacks. Hard: requests appended while the queue is
moved out, direct requests on the connection of a running transaction, statements
that fail, the lock order between connection and result queue, the flush at
shutdown. Correct when requests are executed in order, each exactly once, whole
or not at all, when a query sees every write requested before it, and when
nothing is left at shutdown.

**Query pool** (`Database::getQueryConnection`). State: an atomic counter.
Hard: the counter wraps, several threads test and increment it. Correct when the
index is inside the pool and connections are taken in turn.

**World sessions** (`Server/WorldSocket.cpp`, `Server/WorldSession.cpp`,
`World/World.cpp`, `Entities/CharacterHandler.cpp`). State: the session map and
the queue of waiting sessions of `World`, the list of sessions to add, and of
every session its socket, requested socket, state, log-out timers, player and
loading flags. Operations: authentication on the network thread, `AddSession_`,
`Update`, log-in of a character through a query holder, log-out, kick, ban,
reconnect with a second socket, shutdown. Hard: a log-in callback arriving after a
kick, a new socket for a session about to be deleted, raw pointers between socket
and session, the player limit queue. Correct when an account has one session,
a character is in the world at most once and only with its session, is saved and
removed when its session ends, and no socket outlives the session it points to.

**Map updating** (`Maps/MapUpdater`, `Maps/MapWorkers.h`, `Maps/MapManager.cpp`,
`shared/Util/ProducerConsumerQueue.h`). State: the queue of update requests, the
number of pending ones, the cancellation flag. Hard: workers take requests while the
world thread waits on a condition variable; cancellation. Correct when a map is
updated by one worker at a time, exactly once per tick, never while the world
thread removes maps, and when waiting ends.

**Battleground queue** (`BattleGround/BattleGroundQueue.*`,
`BattleGroundHandler.cpp`, `BattleGround.cpp`, `BattleGroundMgr.cpp`). State, on a
thread of its own: the groups in the queue, their invitations, the numbers of
invited players and the battlegrounds with free slots as this thread knows them; in
the world: the battlegrounds, who is in them, the queue ids every player holds, and
the events that take an invitation back. The two sides talk only by messages that
carry what was true when they were posted. Hard: invitations that cross with
log-outs, departures, acceptances and the end of the battle; counts kept twice.
Correct when nobody is invited without a place for him, the counts of both sides
agree once the messages have arrived, and every invitation ends.

**Trade** (`Trade/TradeHandler.cpp`, `TradeData` of `Entities/Player`). State: every
player's pointer to its offer, what is in the offers, inventories and money, and their
rows in the database. Operations: packets run by the world thread; a trade is also
ended by a movement packet, which a map thread runs. Hard: offers that change after
they were accepted, players who leave, log out or spend what they offered, saves of
two players, and two map threads that end the same trade. Correct when goods change
hands only by a deal that both stand by, both ways at once, and are never in two
hands, not even after a crash.

**Mail** (`Mails`, `ObjectMgr::ReturnOrDeleteOldMails`, `Player::_SaveMail`). State: the
box of every player in memory with its copies of mails, and the rows of mails, items
and characters in the database. Operations: sending, taking items and money, deleting,
returning, the daily round that returns or deletes what is old. Hard: the receiver
is in the world, away, loading or between maps, and its box is a copy; a handler
hands several transactions to the delay thread; the daily round and the limit of a
box look at the database with synchronous queries, ahead of what waits there.
Correct when memory and database agree once all that waits is executed, and when
no item or money appears or vanishes.

**Auction house** (`AuctionHouse`). State: the auctions in memory and in the
database. Operations: putting up, bidding and buying out, withdrawing, and the end of
an auction in two stages, an hour apart: the bidder gets the item, then the owner the
money. All it gives, it gives by mail. Hard: refunds, sales and deposits across
players who are not there; clients with a list that is out of date. Correct when items
and money are conserved and when who pays gets the item.

**Queue for a full server** (`World::AddSession_`, `RemoveQueuedSession`,
`SetPlayerLimit`). State: the limit, the list of the sessions that wait, a flag in
each of them, and the place its client was told. Hard: sessions end, reconnect and are
kicked at the front, in the middle and outside of the queue while the console
changes the limit. Correct when the list and the flags agree, nobody waits while there
is room or passes somebody, and every client knows its place.

**Dungeon finder** (`LFG/LFGQueue.cpp`, `LFGMgr.cpp`, `LFGHandler.cpp`). State, on a
thread of its own: the entry of every party or player with its role check, and the
proposals with their answers; in the world: the groups, who is online, and who thinks
that he is queued. The two sides talk only by messages. Hard: players who log
out, change their party, leave and join again while messages are under way and
deadlines pass; entries that the queue makes by looking them up. Correct when nobody is
taken to a dungeon without his consent, and role checks and proposals end.

**Event processor** (`framework/Utilities/EventProcessor.cpp`). State: events
ordered by time, the clock, the aborting flag. Hard: events that add or abort
events while `Update` or `KillAllEvents` runs. Correct when an event is executed or
aborted exactly once, never early, and in order of time.

**Messager** (`Multithreading/Messager.h`): closures posted to the world, to a
session, a map, the LFG and BG queue threads; executed by the owner in order.

**Network** (`shared/Network`): asynchronous sockets over boost::asio, output
buffers of two halves, closing. **Authentication** (`realmd`, `shared/Auth`): SRP6
and the realm list state machine of `AuthSocket`. **Start-up and shutdown**
(`mangosd/Master.cpp`, `World`). **Console** (`CliRunnable`, `RASocket`, SOAP).

**Game logic driven by the world thread.** Each is a state machine whose
operations are packet handlers or timers: groups and loot
rolls, guilds and their bank, battles, arena teams, loot, pools of spawns, combat and threat, calendar, GM tickets, social lists,
weather, game events, accounts, reputation, achievements, quests, skills, chat,
entities, spells and auras, AI and scripts, movement, outdoor PvP, battlefield, player
bots, anticheat, auction house bot, DB scripts, grids and their states, persistent
states of maps, object GUID generation, configuration, line of sight and path
finding (`Vmap`, `MotionGenerators`).

**Not ours**: `dep/` (third-party), `contrib/` (tools), `src/Jam*` and `src/Services`
(generated message code), `sql/` (data).

`PROJECT.json` has one entry per component, modelled or not, and the hazards with
their lines.

## 2. Modules

| module | what it is |
|---|---|
| `RequestStore` | abstract: what a `Database` promises its callers |
| `AsyncDatabase` | the client threads, the delay thread and the result queue |
| `AsyncDatabase_proofs` | theorems about it |
| `WorldSessions` | the sessions of one account, from the socket to the log-out |
| `WorldSessions_proofs` | theorems about it |
| `MCWorldSessions` | the symmetry of its clients and characters, for TLC |
| `MapTick` | abstract: what `MapManager::Update` promises |
| `MapUpdater` | the world thread, the update queue, its workers, and transports |
| `MapUpdater_proofs` | theorems about it |
| `BattleGroundQueue` | the queue thread, the world thread and the messages between them |
| `BattleGroundQueue_proofs` | theorems about it |
| `Goods` | what players have |
| `Barter` | abstract: what trading promises |
| `Trade` | offers, acceptances, the threads of the maps, saves and crashes |
| `Trade_proofs` | theorems about it, that it implements `Barter`, and about `Barter` |
| `MCTrade` | who has what at first, for TLC |
| `Mail` | mails in memory and in the database, and what is loaded and saved with them |
| `AuctionHouse` | the auction house upon the mail |
| `AuctionHouse_proofs` | theorems about it and the mail |
| `MCAuctionHouse` | who has what at first, for TLC |
| `LoginQueue` | the player limit and the queue of sessions that wait for it |
| `LoginQueue_proofs` | theorems about it |
| `MCLoginQueue` | accounts and their levels, for TLC |
| `LFGQueue` | the dungeon finder: queue thread, players in the world, messages |
| `LFGQueue_proofs` | theorems about it |
| `MCLFGQueue` | the groups at first, for TLC |

In all of them one action is what the code does without giving another thread a
chance to see it: a critical section, or, where no lock is held, one access to
shared state. A definition whose name ends in a remark after `__` is a defect (a
dropped lock, a missing reset, an off-by-one) that the properties are tried
against; no action uses it.

### AsyncDatabase and RequestStore

A statement is its rank in the order of creation, and the server is the sequence
`db` of statements it has committed. `tx` is `m_currentTransaction` of every
thread, `queue` the queue of `SqlDelayThread`, `local` the queue that
`ProcessRequests` has moved out, `dpc` where the delay thread is in `run` or in
its destructor. `exec[t]` is the `SqlOperation::Execute` thread `t` is in, from
`LOCK_DB_CONN` to the release of the lock (`connOwner`); it is the same for the
delay thread and for a client that calls `DirectExecute`, which is why the two
can meet. `resOwner` is the lock of `SqlResultQueue`, held over the callbacks.

Client actions are `BeginTransaction`, `Execute`, `DirectExecute`,
`CommitTransaction`, `CommitTransactionDirect`, `RollbackTransaction`,
`AsyncQuery`; the delay thread loops through `CheckRunning`, `TakeRequests`,
`NextRequest`, `RequestsDone`, `Ping`. The server is external: a statement
may fail (`StmtMayFail`), and so may START TRANSACTION (`BeginMayFail`).

`RequestStore` is the promise: delayed requests take effect one at a time in the
order they were handed over, each as a whole or not at all, a query sees exactly
what was before it, and a direct request takes effect in one step between two
delayed ones. `ImplementsRequestStore` is the refinement.

### WorldSessions

The network threads run `NetworkStep` (authentication in three accesses:
`FindSession`, then either a new session or a request to attach to the old one,
packets, closing). The world thread walks through `at`: sessions to add, messages,
packets and state of the listed session, answers of the database, console; network
steps fall between any two of these. `sess` keeps of a `WorldSession` the fields
that decide over the life of its player; `ptr[k]` is the raw pointer that a socket
keeps, `dead` the deleted sessions it may still point to.

The log-out timer is one of not running, running, over 20 seconds (`ShouldLogOut`)
and over 60 seconds (`ShouldDisconnect`). Whether a character can be loaded is
free at every log-in. A session is kicked at any time, with a player or without, and a
client may ask for a character while the answer to its last request is under way. In two
cases `LoginCallback` then leaves a player with nobody to log it out: it loads one into a
session in which a player has just logged out (the run `sessions_orphan`), or a second one
into the same session (`WorldSessionsTwice.cfg`). The history variable `adrift` records these players,
decides nothing, and the properties speak of the others; `NoneLeftBehind` speaks of all, and
fails.

### MapUpdater and MapTick

The world thread runs `tick` (everything outside of `MapManager::Update`),
`schedule`, `wait`, `asleep`, `unload`, and at shutdown `UnloadAll`, `Deactivate`,
`Cancel`, `Join`. `MapUpdater::_lock` and `m_queueLock` are each held for one
action; a thread in a condition variable is `asleep`, wakes when notified, or
spuriously. `notify_one` wakes any one sleeper.

Of `Map::Update` the model keeps what passes between maps: a worker first runs the
map's messages (`StartMapUpdate`), then updates its transports one by one; a
transport may leave for another continent (`TeleportTransport`), where a message
of that map's `Messager` will add it. `progress` is the clock a transport has
been moved for: `Transport::Update` returns at once when that is the present one.

`MapTick` promises that every map is updated exactly once per tick and that maps
come and go only in between. `ImplementsMapTick` maps "due" to the maps still to be
scheduled, queued, or just popped, and "running" to those inside `Map::Update`.

### BattleGroundQueue

Two threads. The queue thread runs one message at a time (`RunQueueMessage`) and then
`UpdateQueue`, that is `BattleGroundQueueItem::Update`: fill the battlegrounds
with free slots (`Fill`), then look for a premade match, then for a normal one
(`PremadePools`, `NormalPools`), and open a battleground if both teams have enough. The
world thread runs messages (`RunWorldMessage`), timers (`FireTimer`), packets (`Join`,
`AskPort`, `AskLeave`), the travel of players, log-in and log-out, and the steps of the
battleground maps. `toQueue` and `toWorld` are the two `Messager`s; a message holds the
values its closure has captured.

`queue` is the state of the queue thread: `groups` (who is in each, the instance it
is invited to, the one it wants), the premade and normal `list` of each team, the group
`of` each player, and `slots`, the battlegrounds with free places with their counts of
players and invited players. `world` has for every player whether he is online, holds the
id of the queue, is invited, and where he is or goes; and for every battleground
its status, players, offline queue and its own counts of invited players. `toQueue`
and `toWorld` are the two `Messager`s; a message holds the values its closure has
captured. `timers` are the `BgQueueRemoveEvent`s, which may fire at any time after
the invitation; only their order with the messages matters.

The model has one bracket of one battleground type, and no arenas; whether the time
after which a premade group plays anyone has passed is free.

`NoOverInvite` is stated of every battleground as long as nobody has left one, and of one
whose places were never announced as free again (`Untouched`) whoever left another.
`QueuedAgree` and `CountsAgree` are about moments without messages under way. `QueuedAgree`
has the condition `InOneGroup`: a player whose party joins while his own request is
under way is in two groups, and leaving one takes the id of the queue from him although the
other still has him.

### Trade, Goods and Barter

`trade[p]` is `Player::m_trade` and the `TradeData` it points to; `deleted` marks one
that was deleted while the pointer is still there. The packets of trade are
`PROCESS_THREADUNSAFE` and run in `World::UpdateSessions`, one action each
(`InitiateTrade`, `SetTradeGold`, `SetTradeItem`, `ClearTradeItem`, `AcceptTrade`,
`UnacceptTrade`, `CancelTrade`). In the phase "maps" every map has a thread; a player
who moves away from its partner makes it run `TradeCancel`, here one access to memory
at a time (`MapCancel`), because the partner may by then be on another map and
another thread. `goods` is what players have and `saved` the rows `owner` and `money`
of the database; `Crash` sets the first to the second. After a use of deleted memory
(`misused`) nothing more is said, and the model stops.

`Barter` is the promise. A player pledges itself to one exact deal; goods change
hands only in `Exchange`, to which both are pledged; the exchange reaches the database
for both sides at once. `ImplementsBarter` maps `pledge` to the two offers as long as a
player's own acceptance stands. `Goods` has what the two share.

### Mail and AuctionHouse

Both are run by the world thread, one action per packet handler or timer
(`SendMail`, `TakeItem`, `SellItem`, `PlaceBid`, ...). The database is the sequence
`disk`: its head is what has been committed (`Committed`, what a synchronous query
reads), each later entry what the next waiting transaction will make of it, and its
last (`Stored`) what the world has asked for. A handler appends one entry for each
of its transactions, in their order (`Execute`); `Commit` is the delay thread, and
`Crash` leaves the head alone. That transactions are executed in this order is what
`AsyncDatabase` shows (`FifoHandover`, `ImplementsRequestStore`).

`goods` and `box` are what a player in memory has; `phase` says whether `GetPlayer`
finds it, which decides whether a new mail is put into the box or only into the
database: a player is "out", "login" (its queries wait behind `behind` transactions),
"in" the world, or in "travel" between maps. `marked` are the mails in state
`MAIL_STATE_DELETED`, whose rows stay until the mails are saved. `house` is
`AuctionsMap`; an auction that is `sold` stays there, without its item, until its
owner is paid.

Time is not counted: an auction may end, a mail may be old, at any moment. Four
history variables are for the properties only: what has left the game by its rules
(`gone`, `spent`, in the tables), who was sent the item of an auction (`won`),
whether a crash has come between two transactions of one handler (`torn`), and whether
one of three things has happened that the code lets happen and that spoil the books
(`spoilt`): an old mail was returned on the strength of rows that were out of date; an item
was taken under the id of another mail; money has left its width. `Durable`, `Conserved`
and `CodHonoured` say nothing of what comes after these; four configurations show what does
(findings 10, 11, 18, 19).

The last two are the client's to bring about. `TakeItem` looks for the item among those of
all mails of the player (`MItems`), as `GetMItem` does, and for the price at the mail that
was named. `SendMail` adds postage and money modulo `Word`, which is 2^32, and `TakeMoney`
reads the money of the mail as an `int32` (`Int32`).

### LoginQueue

The sessions of many accounts, each as far as the queue depends on it (`WorldSessions` has
one of them in detail). `incoming` is `m_sessionAddQueue`, `queue` is
`m_QueuedSessions`, `sessions` the accounts of `m_sessions`, and `info` has for each
account the life of its session, `inQueue`, its connection and the place `told`.

A tick of the world thread (`at`) is `BeginUpdate`, which takes the new sessions over, one
`AddSession` for each of them, one update for every session in any order, and
then callbacks and the console (`SetPlayerLimit`, `Kick`). The update of a session runs
its packets, of which those that log in test `m_inQueue` (`RequestLogin`, `Reconnect`,
`OtherPacket`), or ends it. The log-in itself comes ticks later: `LoginCallback` finds
whatever session the account then has, which need not be the one that asked, and does not
look at `m_inQueue`. `loading` are the answers on their way, each with whether its session
asked for it or a former one; `player`, of each session, is whether it has a character
and who asked for that. `QueueSound` speaks of both: who waits has no character that it asked
for. That it may have one that a former session asked for is finding 20. Network threads
(`Authenticate`, `Disconnect`) act between any two steps. `Leave` is
`RemoveQueuedSession` with the counting around it; `AddSession` is `AddSession_`.

### LFGQueue

Two sides again. On the queue thread, `RunMessage` runs the messages one by one; then one
round of `LFGQueue::Update` is `BeginUpdate` (role checks that are overdue end, full
parties get proposals), one `Settle` for every proposal, and `EndUpdate`. In the world,
packets (`JoinLfgParty`, `JoinLfgAlone`, `LeaveLfg`, `HandleLfgSetRoles`,
`HandleLfgProposalResult`), log-in and log-out, and changes of groups, of which the
queue is told nothing; `RunWorldMessage` is the message that makes the new group.

`data` is `m_queueData`, `proposals` is `m_proposals`; `toQueue` and `toWorld` are the
messages (of those to the world only the one that makes a group: the others are packets).
Looking an entry up with `operator[]` makes one whose state is not initialized (`Fresh`):
any value. The same holds for the role check of a single player and for the state
of a player who logs in. The lateness of a role check or a proposal is a step of
the clock. A role check of all players may fail for their roles.

## 3. Runs

| run | expects | what it shows |
|---|---|---|
| `async_database` | pass | hand-over in order, exclusive connection, flush; refinement of `RequestStore` |
| `async_database_live` | pass | requests are served and answers reach their callbacks, the shutdown ends |
| `sessions` | pass | a character in the world has its session, unless `LoginCallback` set it adrift; saved unless a kick came first; nobody else left at shutdown |
| `sessions_live` | pass | when every client is gone, session and character leave |
| `sessions_orphan` | violation | a kick between log-in request and answer leaves a player without a session |
| `map_updater` | pass | no lost wake-up, transports in one place and moved once, every tick and the shutdown end; refinement of `MapTick` |
| `battleground` | pass | an invited group has its place, nobody is invited beyond the size of a team, counts and ids of both threads agree once the messages have arrived, invitations are watched |
| `trade` | pass | trades are mutual; deals, saves and crashes; deleted offers are used only across maps; refinement of `Barter` |
| `auction_house` | pass | memory is what the database will be, items and money are conserved by every handler, goods sent cash on delivery are paid or come back, while clients name the mail that an item is in and sums fit in 32 bits |
| `login_queue` | pass | queue and flags agree, who waits plays no character that it asked for, nobody waits while there is room, nobody passes, clients know their place |
| `dungeon_finder` | pass | nobody is taken to a dungeon unasked, no party waits for a proposal that is over, every role check and proposal ends |
| `dungeon_finder_empty` | violation | the players of an accepted proposal log out and an assertion fails |

More configurations are for use by hand: `tlc -config X.cfg M`, with `M` the module or
its `MC` module. These end in a violation, each of them the subject of a finding of
section 4: `AsyncDatabaseBegin.cfg`, `AsyncDatabaseHalt.cfg`, `WorldSessionsTwice.cfg`,
`WorldSessionsBroken.cfg`, `WorldSessionsUnsaved.cfg`, `BattleGroundQueueLost.cfg`,
`TradeRace.cfg`, `AuctionHouseLate.cfg`, `AuctionHouseCrash.cfg`,
`AuctionHouseOldMail.cfg`, `AuctionHouseUnpaid.cfg`, `AuctionHouseWidth.cfg`,
`LoginQueueMods.cfg`, `LoginQueueInfinite.cfg`, `LoginQueueLevel.cfg`,
`LoginQueueSkip.cfg`, `LFGQueueParty.cfg`, `LFGQueueLeftover.cfg`. `AuctionHouseCut.cfg`
ends in one too: it is `auction_house` without the hypothesis of its theorems (section 5). `LFGQueueFour.cfg` is
a larger instance of `dungeon_finder` (four requests, 2.8 million states), which passes.

### Bounds, and why they are enough

* `async_database`: two clients (the world thread and one other), three statements
  of which one may be created while the server loads, one transaction. Two threads
  and the delay thread give every pair that can meet on the connection or on the
  result queue; three statements give a transaction of two with a request of
  another thread before, between or after, and a transaction that fails in its
  second statement. The order of more requests is what `HandoverIsFifo` proves.
* `sessions`: one account, since accounts meet only in the queue for a full server;
  two sockets and two sessions, so that a session is replaced, resumed, and
  created twice at once; two characters and two log-ins, so that a second player
  can follow the first in the same session, or be asked for at once; one packet waiting;
  one kick. Clients and characters are interchangeable (`Interchangeable`).
  `sessions_live` has one character and one log-in, which is what can be left.
* `map_updater`: two workers, two continents and an instance that is created and
  unloaded, so that there are more maps than workers; two transports, which can
  cross in opposite directions; two ticks, so that what a tick leaves behind meets
  the next; a shutdown at any tick. The safety properties are proved for every size.
* `battleground`: teams of at most two, at least one of each, so that a battleground
  has one place left, none, or is too empty; a party of two and a single player of one team and
  one player of the other, so that a party does not fit where a single player would, a
  premade match and a normal one occur, and a second battleground is opened;
  three requests to join, any number of departures, and two in all of requests for an
  instance of the player's choice, answers to an invitation, trips, log-outs and ignored
  invitations, so that any two of these meet. `BattleGroundQueueLost.cfg` has two
  parties of two, who also meet as premade against premade.
* `trade`: three players, so that a partner is busy with somebody else; two items, each with its
  owner, and one place in an inventory, so that an item fits only in exchange for the
  other; gold up to one, so that a purse is empty or full; two maps with two spots, near and
  far; two trades and one other event (teleport, log-out, crash, change of goods). By
  hand, two players with three events give 3.5 million states and pass too.

* `auction_house`: three players, so that a bidder is outbid by another who is not the
  owner; one item; two mails, so that a refund and a prize, or a price and the goods, are
  under way at once; a box for one mail, so that it is full; three waiting transactions,
  which is what the longest handler hands over; one auction with a buyout at twice its
  start; gold up to two, so that a purse overflows when a refund is taken, and is too
  empty for a bid or a deposit; one of a save, log-out, trip, old mail or crash,
  while log-ins are free. The bidders are interchangeable (`Bidders`), and nothing is
  explored past a state that the properties say nothing of (`Unspoilt`). `Word` is 8, and
  clients send 0, 1 or 7, of which the last wraps with the postage, as 2^32 - 1 does: every
  sum of the instance but that one is below 4, where an `int32` is negative. In
  `AuctionHouseLate.cfg` there is no buyout and none of the counted steps: the case needs
  neither. `AuctionHouseUnpaid.cfg` has a box for two mails and free postage, so that a
  player has one mail beside the one to be paid; all other configurations but
  `AuctionHouseWidth.cfg` leave out the amount that wraps.

* `login_queue`: three players and a game master, a limit of one at first: two wait,
  so that the front and the end of the queue differ and a departure at either is
  possible; the limits that the console sets are none, a level, and more and fewer
  places. Four connections let three sessions meet and one of them come back; one command;
  one log-in in flight (`MaxLoading`). Players are interchangeable.
  Five connections, one for each and one reconnection, are 13.8 million states and pass too.
  `LoginQueueSkip.cfg` has no commands: the case needs none.
* `dungeon_finder`: parties of two are full (`MaxGroupSize`), which the code has at
  five: a party has a leader and others, and the others differ in nothing. A party and a
  single player, who may join it; three requests in all (answers and entering a group
  are not counted), so that a party joins again
  during its proposal or after it left, or gets a second proposal, or one of its
  players leaves or logs out; two messages wait while the next request is made, so that
  an answer crosses with a log-out.

### Fairness, and why the code justifies it

Threads that can go on do so at last: weak fairness of the delay thread, of
each `Execute`, of the world thread's loop, and of each worker. In `AsyncDatabase` a
thread that has begun a transaction commits it (`WF(CommitTransaction)`: they are
begun and committed in one function), the server is shut down at last, and the world
thread's `SqlResultQueue::Update` gets its lock (`SF(UpdateStep)`: it is called in
every tick, and the delay thread holds the lock only for one push). It is not
assumed that clients ever send another request, that maps are created or unloaded,
that a client stays, or that a spurious wake-up happens. Two assumptions of
`WorldSessions` are strong too. `SF(LoginCallback)`: the world thread calls
`UpdateResultQueue` in every tick, so that an answer that has come is handled, but
the model's world thread is enabled for it only at that point of its loop.
`SF(SelectionTimeout)`: the time-out is tested at one point of the tick too.
`TimePasses` is weakly fair because the clock is. In `LFGQueue` the thread of the queue is
weakly fair (a loop that only sleeps) and so is the clock; no player is.

## 4. Findings

Each is a run, or a configuration for use by hand, that ends in a violation of
something that the repository says.

1. `AsyncDatabaseBegin.cfg`: `SqlTransaction::Execute` ignores the result of
   `BeginTransaction` (`SqlOperations.cpp:53`). If START TRANSACTION is refused,
   the statements before the failing one are committed one by one.
2. `AsyncDatabaseHalt.cfg`: `HaltDelayThread` (`Database.cpp:179`) deletes the delay
   thread while a thread that has not been joined (that of the battleground queue)
   may still delay requests.
3. `WorldSessionsUnsaved.cfg`: `m_playerSave` stays false when a client attaches to a
   session that is being kicked (`WorldSession.cpp:808`).
4. `sessions_orphan`: `LogoutPlayer` does nothing when `m_playerRecentlyLogout` is
   set, although the destructor relies on it (`WorldSession.cpp:679`).
5. `WorldSessionsTwice.cfg`: `PlayerLoading()` is false while the login holder is in flight
   (`CharacterHandler.cpp:733`).
6. `WorldSessionsBroken.cfg`: the player is given to the session before it is loaded, so
   that a failed load is saved (`CharacterHandler.cpp:846`).
7. `BattleGroundQueueLost.cfg`: the world skips an invited player that it cannot find, as one
   who is offline (`BattleGroundQueue.cpp:519`). A player between two maps is not
   found either, but stays in the queue: no event takes his invitation back, and his
   place in the battleground is held until he logs out or leaves the queue.
8. `TradeRace.cfg`: a far teleport ends no trade, and `Player::SetPosition` ends the
   trade of partners on different maps from the threads of both
   (`Player.cpp:6990`, `13122`): both delete the same two `TradeData`. It needs more
   than one map update thread.
9. `AuctionHouseLate.cfg`: an auction that is sold stays in `AuctionsMap` for an hour, and
   `HandleAuctionPlaceBid` does not look at `moneyDeliveryTime`
   (`AuctionHouseHandler.cpp:424`). A bid from a list that is out of date is taken: the
   winner keeps the item and gets his money back, the new bidder pays for nothing.
10. `AuctionHouseCrash.cfg`: `HandleSendMail` takes an item from the inventory in one
    transaction and puts it into the mail in the next (`MailHandler.cpp:323`); a crash
    between them loses it. Bids, refunds and returned mails have such gaps too.
11. `AuctionHouseOldMail.cfg`: `ReturnOrDeleteOldMails` spares a receiver that it finds
    in the world, a case of which it says that it "will run very improbably"
    (`ObjectMgr.cpp:6815`). A receiver who is loading, or between two maps, is not
    found: the mail goes back while its copy is in his box, and he can take the item too.
12. `LoginQueueMods.cfg`: the configuration says of the player limit "Excluding Mods, GM's
    and Admins" (`mangosd.conf.dist.in:119`). They are let in at any time, but
    `AddSession_` counts every session against the limit (`World.cpp:265`).
13. `LoginQueueInfinite.cfg`: "0 (for infinite players)" (`mangosd.conf.dist.in:121`).
    `SetPlayerLimit` does not look at the queue, which moves by one place for every
    session that ends (`World.cpp:2735`): newcomers pass those who wait.
14. `LoginQueueLevel.cfg`: `.server plimit` is to "kick all low security level players"
    (`Level3.cpp:6437`), but only does so when the limit is a number of players, when no
    level is too low.
15. `dungeon_finder_empty`: `MANGOS_ASSERT(grp)` (`LFGQueue.cpp:559`) fails in the world
    thread when all players of an accepted proposal have logged out before its
    message is run.
16. `LFGQueueParty.cfg`: "rolecheck makes sure integrity of correct group is held"
    (`LFGQueue.cpp:142`), but nobody tells the queue of a change of the party.
17. `LFGQueueLeftover.cfg`: a party that left the queue during its proposal gets, when
    that fails, a queued entry without owner and players (`LFGQueue.cpp:384`), and its
    next join is lost.
18. `AuctionHouseUnpaid.cfg`: "prevent cheating with skip client money check"
    (`MailHandler.cpp:514`), but the price looked at is that of the mail the client names, and
    the item is looked for in all its mails (`MailHandler.cpp:521`): an item sent cash on
    delivery is taken under the id of another mail, and its sender gets nothing.
19. `AuctionHouseWidth.cfg`: postage and money are added in a `uint32`
    (`MailHandler.cpp:192`). If the sum wraps, the check of the purse passes
    (`MAIL_ERR_NOT_ENOUGH_MONEY`, `MailHandler.cpp:196`), next to nothing is paid, and the mail carries
    what the client asked for. `HandleMailTakeMoney` gives it to `ModifyMoney` as an `int32`
    (`MailHandler.cpp:613`), which takes money away if it is negative.
20. `LoginQueueSkip.cfg`: "prevent cheating with skip queue wait" (`WorldSession.cpp:478`) is
    tested when the packet comes. A session at the selection of characters is removed as soon as its
    socket closes (`WorldSession.cpp:571`); its client comes back and is queued; the
    holder of its request arrives, finds the new session by account
    (`CharacterHandler.cpp:268`), and logs the character in. `SetOnline` does not look at
    `m_inQueue` (`WorldSession.cpp:167`): a session plays that waits.

Seen in the model and not stated as a property: the comment "(and save)" of
`World::KickAllLess` and its `save = false` (`World.cpp:2137`, `2144`); a log-out
request of the client, or its cancellation, takes back a kick
(`WorldSession.h:335`); the second of two sessions created at once is never deleted
(`World.cpp:228`); a socket may keep the pointer of a deleted session; "reconnect
within 20 sec" (`WorldSession.cpp:595`) is 60 seconds in `ShouldDisconnect`; the number a
client sees for a battleground is 3 for the second and for every later one
(`BattleGroundQueue.cpp:1663`); a battleground gets a second entry in the list of free
slots when somebody first leaves it (`BattleGround.cpp:1721`); a player who logs
out before the answer to his request to join stays in the queue
(`BattleGroundHandler.cpp:252`); the number that an accept of a trade carries
is not looked at (`TradeHandler.cpp:252`), so that an acceptance that crosses with a change
of the offer counts for the changed offer; the mails of an absent receiver are counted
in the database, before what waits is executed, so that his box may get more than its
limit (`MailHandler.cpp:213`); a mail sent to a player who is loading or between maps
is not shown to him until he logs in again; bid and deposit that an owner is sent may exceed
what an `int32` holds when he takes them (`MailHandler.cpp:613`); a client that waits in the queue for a full server
for 15 minutes is kicked as idle (`WorldSession.cpp:580`); a party that
joins the dungeon finder again, or sends roles, during a proposal gets another beside
it (`LFGQueue.cpp:262`); a single player's join may be dropped for an uninitialized
role check (`LFGMgr.cpp:777`), and one who was in the queue and is refused is removed
without being told (`LFGMgr.cpp:565`).

## 5. Proofs

The theorems hold for every value of the constants under the modules' named
assumptions, which say that constants have the right kind: that the names for "nobody"
and "none" name nobody (`ClientAssumption`, `SessionAssumption`, `TradeAssumption`,
`LFGAssumption`, `NoneIsNoRecord`), that bounds are numbers (`BoundAssumption`,
`UpdaterAssumption`, `GoodsAssumption`), that what is counted is finite (the maps of
`UpdaterAssumption`, the accounts and the players of the two `QueueAssumption`s, the players
of `LFGAssumption`, the players and items of `MailAssumption`),
that there is a worker and that continents are maps, and that at first nobody shares an
item or a group with somebody else and, where there is mail, every item has an owner. Where a theorem needs more of the environment, that
is a hypothesis of the theorem, named below, and a configuration shows that it fails without it.

**AsyncDatabase** (`AsyncDatabase_proofs`).
* `TypeCorrect`: types. `TypeOK` alone is not inductive: that a statement can
  be taken from the operation in `exec` needs `AtStatement` (a thread in `stmt` has
  a statement left), which is carried along in `Locking`.
* `ConnectionIsExclusive`: a thread between `LOCK_DB_CONN` and the end of its
  `Execute` is the owner of the connection.
* `HandoverIsFifo`: `Handover` says that the delay thread has nothing in hand before
  it takes the queue, and that what is in `exec` of the delay thread,
  then `local`, then `queue`, is a suffix of everything ever delayed: nothing is
  lost, repeated or overtaken on the way.
* `NothingIsLeft`: when the delay thread is deleted everything that a joined thread delayed
  has been executed, and no joined thread calls a body that is gone. `Joined` is any set of the
  clients: the others run on, append and call as they like (`AsyncDatabaseHalt.cfg` is the
  finding about them). `Ending` says what each stage of the end leaves: from the flush on,
  the queue holds only requests of others, which rests on `Creators` (below).
* `StoreIsImplemented`: the module implements `RequestStore`, provided START
  TRANSACTION is not refused (`~BeginMayFail`, finding 1). `Refining` says what that rests on:
  a write outside a transaction is one statement (`ProperQueues`); the open
  transaction is that of the owner of the connection, and `txBuf` is what it has executed so far
  (`Progress`); and every statement belongs to the thread that created it
  (`Creators`), so that no two requests in the abstract set are the same. A request takes
  effect in the step that ends it: COMMIT, the answer of a query, or its one
  statement. All other steps are stutters.

**MapUpdater** (`MapUpdater_proofs`). The inductive invariant `Inductive` is the
conjunction of
* `Scheduling`: requests, in the queue or in a worker's hand, name different maps;
  `pending` is the number of them (a cardinality, whence the finiteness of the set
  of maps); they are not in `todo`; they exist; and outside of `schedule`, `wait`
  and `asleep` there are none. The last part is why `wait` is right: it ends
  only with `pending = 0`, and `pending` is the number of requests.
* `Threads`: what a worker holds in each of its states, and when the token is set.
* `Ownership`: a transport is in one place, which is a continent, and a worker has
  only transports of its own map to update.
* `Advance`: a transport has the clock of this tick, or it is on (or in a
  message to) a map that is still due, or some worker has still to update it.
  It is what remains true while transports cross in any order.

From it follow the theorems named in `PROJECT.json`: types (in particular that
`pending_requests` never wraps), `OneThreadPerMap`, `WorldAlone`, `RequestsValid`,
`NoNullRequest`, `TransportOwned`, `TransportExclusive`, `AllAdvanced`, `NoLostWakeup`
(inductive together with it: a worker falls asleep only on an empty queue), and that
the module implements `MapTick`, by `TickStep`: `StartUpdate` is `BeginTick`,
`StartMapUpdate` and `EndMapUpdate` are `StartMap` and `FinishMap`, creating and
unloading are `ChangeMaps`, and everything else is a stutter. `OneThreadPerMap`, `TransportExclusive`,
`WorldAlone` and `NoNullRequest` are only proved: in the run, the refinement and
`TransportOwned` stand for them.

**Barter** (at the end of `Trade_proofs`, for whatever pledges and ledger). `ItemsNotDuplicated`:
no item is with two players, in the world or in the database. That alone is not inductive, because a save copies
one player from the world to the database: what must be kept apart is all that can
be found with a player now or after a crash (`Reach`), and an exchange keeps it apart only
because it saves both sides. `GoldInBounds`: purses stay between nothing and the
largest amount.

**Trade** (`Trade_proofs`). While the sessions are updated every trade is `Whole`: the two
sides name each other, neither is deleted, both players are in the server. The threads of the
maps break this, one access at a time, so the invariant has to describe a
`TradeCancel` half done (`Cancelling`): whose trade a thread is ending and how far it
is (`CancelOnMap`); that nobody else touches the two while both are on its map
(`Undisturbed`); that two threads end different trades, or one trade from its two sides
(`Crossed`); and that a trade no thread is ending is whole. From it `TypeCorrect`,
`TradesAreMutual` and `UsedOnlyAcrossMaps`: the use of a deleted `TradeData` needs partners on
different maps, which is the extent of finding 8. `PromiseIsKept`: the module implements `Barter`.
Two facts carry it. What a player holds has its row in the database in its name (`Registered`),
so that a save of one player changes no row of another. And what one step may do to the deal of a
player is to make one where there was none or to end it (`Weighed`): a change of an offer
withdraws both acceptances, or else the other side would be pledged to a deal it never
saw. `ItemsHaveOneOwner` is the consequence for the code: no step, threads
and crashes included, gives an item two owners.

**WorldSessions** (`WorldSessions_proofs`). Nearly all steps of the world thread are alike for
the account: they write the record of the listed session, which keeps its player
(`Stays`) or logs it out (`Leaves`). Each action is first shown to be such a step
(`Outcome`), then the invariants are shown for all of them at once.
* `TypeCorrect`: with `Named`, whatever names a session names one that was created.
* `UnsavedWereKicked`: with `Marked`, a session that does not save its player was kicked with
  that player or an earlier one.
* `CharactersAreOwned`, `WorldIsEmptied`: a player in the world is that of the listed session,
  and at the end there is none, but for those set `adrift`. Nothing is assumed of kicks or of
  clients. `Homes` adds what makes this inductive: the listed session of such a player is not marked
  as one that has just logged a player out, so that its next `LogoutPlayer`, that of a time-out,
  the destructor or `KickAll`, does act.

**LoginQueue** (`LoginQueue_proofs`). `QueueIsSound` is inductive as it stands, because
it speaks of the answers in flight too: one that the present session of an account has asked for
is there only while that session does not wait, and becomes one of a `former` session when it is
removed. Nothing is assumed of clients. That
`m_QueuedSessions` holds nobody twice turns its length into a number of sessions, which the
counts need. Upon it `WaitsOnlyWhenFull`: every departure moves the queue by one place, and
`RemoveQueuedSession` does so only if a place is free; and `PositionIsTold`: those behind a
departure are told their new place, those before it keep theirs. `AdmittedInTurn`
is about steps: who enters a full server was its turn, or the limit was raised.

**LFGQueue** (`LFGQueue_proofs`). `InductiveInvariant`: messages on their way to the queue thread
are about what they say (`Letters`); a proposal knows of each of its players what he
said, or nothing yet (`Recorded`), so that a late or repeated answer is the same
answer; a message that makes a group names players who all agreed (`Agreed`);
the round of updates looks at proposals that are there (`Looking`). From it
`NobodyGoesUnasked`. `ProposalsAreBacked` is the intricate part: a party in `LFG_STATE_PROPOSAL`
has a proposal that is open, because a round makes one for each full party (`Pops`),
with a number of its own, and no step that ends a proposal leaves the state behind.

**Mail and AuctionHouse** (`AuctionHouse_proofs`). `Books` is what the tables are made of: the
mails and auctions of each table are finite in number, with ids that were given out and
differ; an auction is sold or has its item, has a bidder or no bid, and no bid above its
buyout (`Sound`); and `house` is the auctions of the last table. `Sure` is what the handlers keep: every table
that ends a handler is `Complete`, that is each item is used up or in exactly one place (`Placed`), the
wealth is what it was at first, and goods on delivery were sent by a player, once and
without money; what memory holds is stored (`MemoryStored`); and a mail marked for
deletion has nothing on delivery (`Bins`), or the save that empties the bin would lose the claim
of its sender. That only tables that end a handler are `Complete` is why a crash within one
tears what it finds. One lemma per handler shows that the tables it hands over are `Sound` and
that the last is `Complete`, upon lemmas about what each operation changes (`SavedFields`,
`ErasedFields`, ...) and what that is worth (`MoneyMoves`, `GoldMoves`, `StakesMove`).
Sums are over finite sets: `SumSteps` takes one element out, and
`Smallest`, that every family of finite sets has one with no smaller one in the family, stands for induction.
* `MemoryIsStored`, `GoodsConserved`, `DeliveryIsHonoured`: `Durable`, `Conserved`, `CodHonoured`.
  They are about every behaviour until a crash cuts a handler, an old mail is returned on stale
  rows, an item is taken under the id of another mail, or a sum leaves its width; each of the
  four has its finding, which shows that it must be set apart. Clients may do the latter two, in the model as in
  the code: that an item or a sum is as it should be is a case in the proofs of `TakeItemKeeps`,
  `SendMailKeeps` and `TakeMoneyKeeps`, not an assumption on the packets. There `Narrow` says that
  arithmetic modulo `Word` is then arithmetic, and `UpdatedRow` that the rows of
  the items taken are gone from the tables, whatever mail they were under.
* `TypeCorrect`: `TypeOK` in every state, also after a crash within a handler and after an
  old mail was returned wrongly. `TypeOK` alone is not inductive: who sent goods on delivery
  is mailed the price, and must be a player for that. `Kinds(hs)` says it, for some
  set `hs` of ids: in every table and every box the mails of the auction house
  are those with an id in `hs`, they have nothing on delivery, and no mail has an id that was not
  given out. It also keeps from `Sound` that no bid is above its buyout, so that no bidder
  is charged less than nothing. A handler of the auction house adds the ids of its mails to `hs`.
  All this holds of damaged tables too, since it never asks that a mail in a box
  has its row, or that its id is its own.

Their hypothesis is `CutPercent <= 100`: the seller is sent `bid + deposit - GetAuctionCut()`,
computed without a sign (`AuctionHouseMgr.cpp:203`). The percentage is data (`cutPercent` of the
auction house times `Rate.Auction.Cut`), which no code bounds. `AuctionHouseCut.cfg` has a cut
of more than the bid: the mail to the seller holds less than nothing, which in the code is
nearly 2^32.

**BattleGroundQueue** (`BattleGroundQueue_proofs`). The queue works in folds: over the groups
of a list, the players of a group, the entries with free slots. Induction with an operator as
parameter is out of reach, so the first lemmas turn a fold into a function on the
lengths of prefixes (`RunsTo`), from the function that `FoldLeft` chooses, and `UpTo` and
`Smallest` stand for induction. Upon them one lemma per operation says what it changes:
`Without` (RemovePlayer), `Grown` (AddGroup), `Inviting` (InviteGroupToBg), `Outcome` (a message),
`Midway` (an update half done: it describes the queue between any two steps of it). There are
three layers of invariants, each inductive with the ones before it.
* `IInv`, for any behaviour of the players. Between the threads it says what is
  under way: battlegrounds that the world has not created yet are announced in the order
  of their numbers, and who is told to enter one is told so after that (`Announced`); every
  instance has one entry at the queue until the world lists it, two from then on, and one again
  when it is over, any of these changes possibly still on its way (`Phase`). And it counts:
  the entry of an instance that was never listed and is not over (`FreshOnes`) counts at
  least the players of the groups invited to it and those who are inside or on their way
  (`Covered`), and at most a team (`Bounded`). From it `TypesAlwaysOK`
  and `InvitedHaveSlots`: the assertion of the accept handler cannot fail.
* `Tracked`. A departure takes a player out of the group the queue has *now*, so the
  counts need that an answer of a player is about the group he was invited with: `Protocol`
  says so for each player, as long as there was no log-out and not both a trip and a departure,
  by the order of his own messages in both directions (`Channel`), and that who takes part in a battleground is on its map (`Placed`).
  `Steady` is `IInv` for a world in which no battleground counts as over, which holds as long as
  nobody has left one: an end alone takes no place away. From both layers `NeverOverInvited`, from
  `Covered` and `Bounded` by the sizes of finite sets.
* `Attended`. While nobody travels or logs out, whoever is in an invited group has a timer for that
  invitation, or a message that starts or is the end of one (`Watch`), with the instance his group is
  invited to (`Ticketed`), and holds the id of the queue or will hear of it before the
  invitation (`Hears1st`). From it `InvitationsWatched`. `BattleGroundQueueLost.cfg` shows why
  travelling is excluded.

Each action is first shown to be of one of few kinds (a message taken, an update, a player's record
set, a battleground set, something said), and each layer is shown for the kinds.

**Only model-checked.** Liveness of all modules and promises that something
will be done (fairness and ENABLED are out of the prover's reach). Of `BattleGroundQueue`:
`CountsAgree` and `QueuedAgree`, which say what is equal when no message is under way; in between
the two threads differ by all that is under way about any player and any instance, and an
invariant would have to add that up over both queues of messages.

## 6. Not modelled, and why

In the modelled parts: prepared statements and the failure of COMMIT; packet
handlers other than log-in, log-out and its cancellation, and players that change
maps; the rest of `Map::Update` (it works on the data
of one map, which `OneThreadPerMap` protects), and `MapManager::Update` without
worker threads, which is sequential; `CreateMap` called by a worker for a map that
does not exist yet (transports cross between continents, which exist from the
start); transports with `canBeStopped`. The data races on `m_sessions` and `i_maps`
are below the granularity of the models. Of the battleground queue: arenas and rated
games, random battlegrounds, other brackets and types, the queues a player is in at
the same time, deserters, the conditions for joining, and the battle itself. Of trade: the
slot that is not traded and the spells cast on it, stacks of items that merge,
items in bags, and what keeps a player from starting a trade except distance and
another trade. Of mail: mails from creatures and templates, clones, mails with nothing
in them, text items, read marks, the delay of deliveries, factions, game masters, and players
silenced by the anticheat; and what becomes of an item that was taken under the id of another
mail: `mMitems` has it no longer, while the model leaves it in its mail in memory (`TakeItem`),
and items of deleted mails, which stay in `mMitems` until the player leaves.
Of auctions: the auction bot, lists and their order, and the clone that is put
up in place of the seller's item. Of the queue for a full server: the peak counts.
Of the dungeon finder: dungeons and locks (a join or a role check may just fail), the
raid browser, the teleport, the test mode (any entry is proposed), answers of
players who were not asked or who answer again (the code takes both, `LFGHandler.cpp:94`,
`LFGQueue.cpp:325`), and groups that players form anew. Other components are in the next section
or have their reason in `PROJECT.json`.

## 7. Plan

In this order, each with the properties that matter:

1. `EventProcessor`: events that add, kill and re-time events while `Update` or
   `KillAllEvents` runs: each is executed or aborted once, in order of time, and
   none is leaked (`KillAllEvents` sets `m_aborting` to "prevent event insertions",
   which `AddEvent` does not read).
2. `Groups` with loot rolls, `GuildBank`: one winner, limits never exceeded.
3. `QueryPool`: the choice of a connection on words of a few bits.
4. `GridStates`, `MapPersistentState`, `RealmAuth`, the raid browser.

Further proofs: `QueuedAgree` of `BattleGroundQueue`, from `Channel`; `CountsAgree`, if the
counts under way are summed over the messages.
