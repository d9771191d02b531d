# Empires Online: verification project

TLA+ models of the game server of Empires Online (`src/services/game-server`),
with the part of the web client (`src/apps/web`) that the server's protocol
relies on. TLC checks the models on small instances; TLAPS proves some of the
properties for every instance. File and line references are to the repository.

- [The system](#the-system)
- [The modules](#the-modules)
- [The runs](#the-runs)
- [Fairness](#fairness)
- [Disagreements with the documents](#disagreements-with-the-documents)
- [The proofs](#the-proofs)
- [What is not modelled](#what-is-not-modelled)
- [Plan](#plan)

## The system

The server keeps the whole world in memory. One goroutine, the **loop**, owns
it: every tick it drains an inbox and a channel of commands, under one common
budget, applies them, runs its sweeps and hands what has changed to a
persistence queue. Nothing but the loop writes the world, and the loop waits for
nobody: not for PostgreSQL, not for a client. Everything that is difficult
follows from that choice. The RAM runs ahead of the database, which learns of
its changes late, in the order of each key only, perhaps twice, perhaps never;
and the clients learn of them through bounded outputs that other goroutines
share.

| Component | State | Operations | Talks to |
|---|---|---|---|
| Loop, inbox (`internal/game/loop`) | inbox, commands, tick | drain both, apply, sweep, flush, stop | everything |
| Economy (`simulation/economy.go`, `trade.go`, `advance.go`, `pillage.go`) | stock, version, unflushed deposits, dirty set, pending orders | deposit, reserve, flush, confirm, release | queue, inbox |
| Persistence queue (`internal/persistence/queue.go`) | bounded partitions, workers, meetings of two-key jobs | Submit, submitPair, worker, retry, Drain, Close | PostgreSQL, inbox |
| Repositories (`persistence/postgres`) | rows and constraints | one transaction per job | PostgreSQL |
| Presence (`simulation/simulation.go`, `domain/city`) | sessions, grace, presence state of each city | connect, disconnect, degrade, protect, persist, boot | WebSocket server, queue |
| Conquest (`simulation/conquest.go`, `domain/territory`) | claims, contested territories, population limits | claim, sweep, capture, end, retry | queue, foundation |
| Founding (`httpapi/founding.go`, `postgres/bootstrap.go`) | rows of a new player | one transaction, one dispatch | PostgreSQL, loop |
| WebSocket server (`internal/websocket`) | hub, subscriptions, outputs, numbers | register, subscribe, broadcast, close | loop, clients |
| Requests and presence keys (`websocket/limits.go`, `persistence/redis`, `persistence/memory`) | reserved request ids, the connection that is present | claim, complete, release, mark, clear | Redis, loop |
| Movement, garrison, gathering, deposits (`simulation.go`, `garrison.go`, `gather.go`, `deposit.go`, `recovery.go`) | orders, tasks, loads and their rows | order, advance, cancel, compensate, retry, load | queue |
| Combat, raids (`combat.go`, `combat_response.go`, `pillage.go`, `siege.go`) | hit points, engagements, posts, loot | approach, strike, die, answer an alarm, go home, loot | economy, queue |
| Works of a city (`economy.go`, `siege.go`, `advance.go`, `combat.go`) | houses, training, era, population and its limit | order, complete, destroy, give birth, die | queue |
| Treaties, trade offers, guests (`treaties.go`, `trade.go`, `garrison.go`) | treaties, offers, busy pairs, failed ends | propose, answer, break, expire, supersede, expel | queue |
| Load and boot (`cmd/server/main.go`, `game/loadcheck`) | everything in the rows | load, validate, repair | PostgreSQL |
| Algorithms (`pathfinding`, `territory`, `safezone`) | none | paths, grids, zones | the above |
| Web client (`apps/web/src/state`, `net`) | its view, its last number | apply, reconnect, ask | WebSocket server |
| Web identity service (`apps/web/src/server`) | accounts, sessions, rate limits | sign up, sign in, refresh | its store |

What makes it hard, and what each part has to get right:

- **Economy.** A write carries deltas under a version and is applied only when it
  is newer than the row. RAM must never promise what the database will refuse,
  a deposit must be counted once and an order must be confirmed only when
  written, through lost acknowledgements, full partitions and crashes.
- **Queue.** A trade is one job in two partitions: order and exclusion per key
  without deadlock, without ever blocking the tick, and a shutdown that neither
  hangs nor loses what was accepted.
- **Presence.** The beginning of a session and its end travel by different
  channels and may swap; protection has to be earned by a grace and a cooldown
  and must survive a crash; a city must not be exposed for ever.
- **Conquest.** A claim is a row with its own life, written by jobs of its
  warrior's partition and retried by a flush; a foundation may take the same
  land in a transaction the loop knows nothing of.
- **Sessions.** Three goroutines meet at a session without a common lock: a
  client that has received everything must see what its area holds.
- **Requests.** A client that lost an answer repeats the request on another
  connection; two goroutines then share its key in a store that may fail or
  forget. It must run once, and must not be left reserved by nobody.
- **Units.** What a unit does is decided in RAM and written later by several
  jobs; the failure of one of them arrives when the unit is doing something
  else, and a crash leaves rows of different moments.
- **Battle.** Alarms, chases, leashes and returns feed each other; blows are
  simultaneous although they are computed one by one; loot is in a transaction
  while its carrier dies.
- **Works.** Population and limit are kept twice, and moved by seven kinds of
  transactions of which one, the death, is in another queue than the rest.
- **Diplomacy.** Treaties, offers and guests depend on each other and each has a
  queue of its own; what the clock ends is ended in RAM before it is written.

`PROJECT.json` lists every component with what is modelled of it, and every
hazard with its line and the properties that would catch it.

## The modules

Messages, rows and ids are model values or members of small sets. A transaction
is one action (`InTx` in the code): it commits with an answer, commits and loses
the answer, or does nothing. A handler of the loop is one action. Where a
definition has a doubtful twin just before it ("Mutant: ..."), that twin is a
plausible bug used to show that a property notices it; no specification uses it.

Each module has the part of the boot that loads its own rows as its `Restart`,
and its own queue and inbox, so that each failure meets the handler it has in the
code. The queue they all assume, FIFOs whose head is done, done without an
answer, refused or given up, is what `WriteQueue` is proved to implement.

### StockLedger

`economy.go`, `advance.go`, `pillage.go`, `trade.go` and the repositories that
apply their jobs. State: per city and resource `stock`, `unflushed`, `version`
and `dirty` in RAM; `dbStock`, `dbVersion` and the rows of orders in the
database; one FIFO per partition; the inbox of answers.

| Model | Code |
|---|---|
| `Deposit`, `MarkDirty` | `deposit`, `markStockDirty` |
| `FlushStocks`, `FlushJob` | `flushStocks` |
| `Reserve`, `OrderJob` | `handleBuildBuilding`, `handleTrainUnit`, `handleAdvanceEra`, `acceptTrade`, `pillage` |
| `HandleFlushFailed`, `HandleConfirmed`, `HandleRejected` | the handlers of the three answers |
| `Newer`, `Stale`, `Short`, `Recognised` | `applyStock` and the unique row that recognises a retry |
| the outcomes of a worker | `Queue.run`: done, refused, lost acknowledgement, attempts exhausted |
| `Restart` | RAM, queue and inbox are lost; RAM is loaded from the rows |

Properties: `Accounting` (RAM is the database plus exactly what is still on its
way), `DatabaseExplained` (every stock in the database is the deposits and orders
written once), `NoStaleWrite`, `ConfirmedIsWritten`, `DirtyTracked`, and, with
fairness, `Converges`.

### KeyedQueue and WriteQueue

`KeyedQueue` is what the queue promises: every accepted job ends once, jobs that
share a key one at a time and in the order of acceptance. `WriteQueue` is
`queue.go`: bounded channels, one worker per partition, the meeting of the two
workers of a two-key job, retries and backoff, `Drain` and `Close`, and the two
exits of `cmd/server/main.go` with the loop they wait for. `KeepsPromise` is the
refinement: `Promise == INSTANCE KeyedQueue WITH ...`.

### Presence

Sessions, their two channels, the tick's steps in order (drain, presence,
flush), the transitions of `domain/city`, the write-behind of each transition,
its retry, a foundation, a crash and the boot. A city's state and mark are kept
in RAM and in its row. `SessionsCounted` says that the loop counts the live
sessions and no other whatever the two channels did to their order, and that
whoever is counted has no protected city; the others relate the state of a city
with its row, its history and the absence of its owner.

### JobQueues and Conquest

`JobQueues` is the queue as other components use it: FIFOs per partition and the
outcomes of the head, justified by `WriteQueue`. `Conquest` has the order to
claim, the sweep that breaks and captures, the three jobs (start, end, capture)
with their guards and unique indexes, the flush that retries one job after
another while the workers go on, the answers, the
foundation that takes free land, and the restart. A warrior is its status and
its place; what else it does is a free choice. `BaseAgrees` relates RAM, claim
rows, contested marks and owners; `NothingForgotten` says that a claim half way
always has a job, a retry or a message that will move it; `CapitalKept` that no
transaction takes the land of a foundation from its founder.

### Sessions

`websocket/session.go`, `hub.go`, `server.go`, the loop's side of a snapshot and
the client's side of every message. `Send` is two steps, `Number` and `Put`,
because no lock joins them. The loop's calls to the hub copy their targets under
its lock (`CallHub`) and send afterwards (`SendNext`). The reader's goroutine is
a program counter (`reader`); `Write` is the writer and the client together,
since TCP keeps the order. The world is one unit, because deltas of different
entities touch different entries of the view and the hazards are of one.

`overtaken`, `astray` and `dropped` are history. A snapshot is `overtaken` when
the world changes while it is being made: the subscription is registered before
the loop takes it, so deltas may be sent first and undone by it. A client is
`astray` after such a snapshot, or after a message of its view is discarded
because a higher number came first, until a later snapshot repairs it; `dropped`
says that what was discarded was a snapshot. `ViewExplained` says that these are
the only ways to go wrong: any other client with nothing on its way sees exactly
what its area holds. `NothingUntold`: what is marked as sent reaches the client,
unless a snapshot was discarded, and a client closed by the rate limit after the
flush has been told why. `ClosedIsForgotten`: a closed session leaves the hub.

### Gateway

The connections of one player and the requests they repeat: the handshake with
its cap of connections, `claimRequest`, `dispatchClaimed`, the loop's channel of
commands with its full case, `Release`, `Complete`, and the key of presence with
`Mark` and `Clear`. A reader is a program counter and the request in its hand;
`Claim` is its two calls to the store (`SET NX`, then `GET`), since another
goroutine may act between them. The store may fail, and its keys expire, at any
call. `OneEffect`: a repeated request is executed once. `ReservationKept`:
whoever finds a request in progress may trust that somebody has it.
`NewestPresent`: the end of an old connection does not take away the presence of
a newer one.

### Units

A unit in RAM (`ram`: place, status, movement, task, host, pending work), its
FIFO of jobs, the inbox and its rows. The actions are the orders (move, gather,
enter, leave, cancel), the loop's steps (arrival, the end of a work, the growth
of a tile, the retry of a pending exit, `FlushDirty`), the worker, the handlers
of every failure, and `Restart` with what the load repairs (`Recovered`). A leg
of a task and its load travel in one job; a task has a revision that its
compensation must match. `OneStory` says that status, movement, task and
garrison of a unit never contradict each other, whatever compensation came last.
`RestartChangesNothing`: once nothing is on its way, what the rows rehydrate to
is what RAM holds, but for the task of a unit that no longer works, which phase 5
forgets without a write (`gather.go`, `advanceTasks`). It leaves out three histories
that the next restart repairs and nothing else does: a message that found the inbox
full (`lost`), a closing or an unacknowledged write that was given up (`loose`), and
a unit expelled while its entry was unanswered (`crossed`). `NeverTakenTwice`: a
load that is written again does not leave its tile twice. `EntryAwaited`: a unit
on the threshold always has its entry queued or answered.

### Battle

Combat is in RAM, so the module has no database but the answer of a pillage: a
line of tiles, two sides, a tick that moves every walking unit one tile and then
resolves the fights in the order of ids, as the code does. `Tick` is the whole
of `advance` and `resolveCombat`: blows decided and then applied, deaths, loot
inherited or lost, the alarm, the guards that answer it, the leash and the way
back to the post. `WoodConserved` follows every unit of wood through stocks,
shoulders and transactions that have not answered. `GuardGoesHome`: a guard that
is not fighting is on its post. `Together`: two units that strike each other in
one tick are both hurt. A damaged house is whole again (`ForgetSiegeDamage`) when no
besieger is in place to strike it. `BattleEnds`: without orders, fights end.

### Works

The houses of a city, its training, its era and its units, in RAM (`city`) and
in its rows (`row`), with the seven transactions that move the population or the
limit: build, complete, destroy, train, birth, advance, death. Deaths are a queue
of their own. The retry of a transaction is recognised by a row, by a state or
not at all, as in the code. `DatabaseAddsUp` is exact after every transaction, as
`LoopAddsUp` after every step of the loop; `SiteFree` says that the unique index of standing houses never refuses what the
loop accepted; `RestartChangesNothing` and `RuinsEnd` that what was destroyed and
born in RAM is in the end so in the rows.

### Diplomacy

Two players: `pacts` and `offers` in RAM, `row` in the database, four queues
(treaty, trade, city, unit), the sweep with its expiries, notice periods and
expulsions, the failed ends it retries, and one guest that an alliance lets into
the ally's city. A treaty ends by its notice; an administrative one, which is how the
two may begin, also by the date it bears (`Expire`). `PairInOrder`: at most one treaty in force and one proposed, one
offer, orders the database takes, and a busy pair whose answer is on its way.
`GuestsLeave`, `OffersFall`: what depends on a treaty ends with it.

## The runs

Each passing run ends with the whole bounded state space explored. Bounds are
constants of the modules, named in them and given in the cfgs.

| Run | Properties | What it shows | Bounds and why they are enough |
|---|---|---|---|
| `stock_city` | `Accounting`, `NoStaleWrite`, `ConfirmedIsWritten`, `DatabaseExplained`, `Converges` | one city with an era advance and a pillage: accounting, versions and retries through lost acknowledgements, dropped jobs and a crash; both stocks meet | two orders, one of each kind of retry guard (a unique row, the version alone); partitions of two jobs, so that an order is before, between and after the flushes it may race with; one lost answer, one dropped job, one crash |
| `stock_trade` | `DatabaseExplained` | a trade between two cities beside a building: every stock in the database is the deposits and the orders written once | one trade, so that either leg may be first or last in its partition; one property, because versions fail with trades (`TradeReleaseStale.cfg`) |
| `queue` | `NoSendOnClosed`, `CloseLosesNothing`, `KeepsPromise`, `ShutdownEnds` | the queue implements its promise; the shutdown closes nothing too early, loses nothing and ends | two partitions, trades in both directions, keys that collide and a job that cannot be keyed; channels of two, so that each can be full while the other has room; two attempts |
| `presence` | `SessionsCounted`, `ProtectionEarned`, `DatabaseFollows`, `AbsentIsProtected` | one player's sessions, grace, cooldown and rows, safety and liveness | two sessions, so that one may begin while the other ends; one failed write, one crash; a drain of one message per tick, so that the two channels are seen in either order |
| `conquest` | `BaseAgrees`, `LimitsAgree`, `NothingForgotten`, `CapitalKept` | two warriors race for a free territory on which a third player founds | one territory, since everything but `FreesItsOwn` is about one; two claims, one lost or failed job, one restart, partitions and inbox of one; 1.63 million states |
| `sessions` | `ViewExplained`, `NothingUntold`, `ClosedIsForgotten` | a settled client sees its area; terrain and reasons arrive; a closed session leaves the hub | output of two (one message fits beside another), two changes of area, one event, one notice, one refusal |
| `units` | `OneStory`, `RestartChangesNothing`, `NeverTakenTwice`, `EntryAwaited` | a villager that walks, gathers, enters and leaves its city and an ally's | one unit (units share only tiles, which `Regrow` and exhaustion change from outside), a wood and a deposit, one load, two orders so that one replaces another and an expulsion that may come on top of both (an exit, an entry and the end of the treaty), a queue of two, an inbox of one so that it overflows, two failures so that a compensation fails in its turn; 574 thousand states. Three orders of any kind and one failure (3.3 million states), or four orders to a depth of 18, show nothing else |
| `battle` | `WoodConserved`, `GuardGoesHome`, `Together`, `BattleEnds` | a raider, a guard and a villager, two cities, loot on its way | eight tiles, longer than the guard's radius and its leash, so that it turns back and is called again; two hit points, so that a unit may survive a blow; three orders; 283 thousand states |
| `works` | `DatabaseAddsUp`, `SiteFree`, `RestartChangesNothing`, `RuinsEnd` | a city that builds, trains, advances and loses houses and villagers while its writes wait, fail or repeat | one site, so that a ruin and a new house meet; a settler and one to be born; a cap that only a house or an era lifts; five orders: build, destroy, build again, train, die; two failures; 222 thousand states |
| `diplomacy` | `PairInOrder`, `RestartChangesNothing`, `GuestsLeave`, `OffersFall` | two players that propose, accept, break and let expire, with an offer and a guest | treaties of trade and of alliance, one of which supersedes the other; four orders, one of which may be the date of an administrative alliance; an inbox of one; one failure (two give 1.1 million states and the same answers); 328 thousand states |
| `guest_stays` | `NobodyLeftInside` | **violation expected**, see below | no failure at all, two orders |
| `gateway` | `OneEffect`, `ReservationKept`, `NewestPresent` | three connections that repeat a request, a full channel, a store that fails or forgets, a restart | three connections, since the worst case has one that releases, one that reads late and one that takes the key; symmetric; a channel of one; one failure; 488 thousand states |

Deadlock is checked except where the system may stop for good: a bounded model
in which the environment has done all its bounds allow (`StockLedger`, `Battle`,
`Works`, `Diplomacy`, `Gateway`), or a session that is over (`Sessions`). Each
cfg that turns it off says which. The runs of the queue, of presence, of conquest
and of units check it.

One connection is enough for `Sessions`: sessions share only the hub's sets and
the loop, whose sends to different sessions are unrelated; and with one session
all the orders of loop, reader and writer around it are explored. What several
connections of one player share (presence, requests) is in `Presence` and
`Gateway`.

`ConquestOwned.cfg` is a longer instance to run by hand (about a minute and a
half): owned land, one claim, two failures, and with fairness `ClaimsEnd` and
`RowsEnd`: every claim and every row ends.

## Fairness

Fairness is of goroutines, of the scheduler and of a database that answers again
in the end; never of players.

- **StockLedger:** the loop flushes and drains its inbox (`loop.Step` does both),
  and a worker's head job reaches an outcome, because attempts are finite.
- **WriteQueue:** each worker runs and the one that shuts down goes on. Only what
  is bounded in the code (attempts, `ShutdownTimeout`) ends by itself.
- **Presence:** ticks, the flush and the goroutines of a connection are weakly
  fair. `ClockTick` and the flush are strongly fair: they are enabled again and
  again, once per tick or per `FlushIntervalTicks`, and not continuously.
- **Conquest:** (`ConquestOwned.cfg`) the same, with strong fairness for the inbox,
  which is drained first in every tick, for the sweep of a claim that is due, and
  for the flush, which comes once per `FlushIntervalTicks`.
- **Sessions:** the sends of the loop, the reader's own steps and the writer; and
  the departure of a reader whose session is closed, since `CloseWith` moves its
  read deadline. The last assumes a client that sends nothing more after the
  close frame: `readPump` looks at `Done` after a message it handles and not
  after one it cannot decode.
- **Battle:** the loop ticks as long as anything moves or fights. Nothing else:
  the number of orders is bounded, so `BattleEnds` is about what follows the last.
- **Works:** the loop drains its inbox and flushes what is to be retried; the
  worker takes the head of its queue. Deaths, births and orders are not fair.
- **Diplomacy:** the inbox, the sweep of every second, and each worker.

In the last three, weak fairness of an action `A` is written as
`[]<>~enabled \/ []<><<A>>_vars` with the condition of `A` spelled out, which is
its definition: `ENABLED` of a whole tick would be costly to evaluate.

## Disagreements with the documents

`guest_stays` is a run: `docs/invariants/diplomacy.md` (INV-GARR-008) says that
when the treaty that allowed a garrison ends nobody stays in the other's city
but whoever waits for a tile. A unit whose entry is answered after the sweep that
expels (`treaties.go:567`, which looks at the units already inside) goes in
(`garrison.go:192`) and stays, with no failure at all. `GuestsLeave` excludes
this and three other ways in which the models found a guest left behind: an exit
that could not be written, a restart between the end of the alliance and the
exit, and an alliance whose end a crash lost and that a lesser treaty replaces.

The other disagreements the models reach are kept as cfgs that anyone can run
(`tlc -config <cfg> <module>`); each finds its property violated.

| Cfg | Module | Property | What happens |
|---|---|---|---|
| `TradeReleaseStale` | `MCStockLedger` | `NoStaleWrite` | a rejected trade returns deposits under a version that the row may already have: they are never written |
| `FoundedOnline` | `MCPresence` | `OnlineHasOwner` | the city of a founder who never connects stays ONLINE |
| `OrphanClaim` | `MCConquest` | `NoOrphanRow` | a claim committed without an answer and then given up leaves an active row nobody ends |
| `FreedByAnother` | `MCConquest` | `FreesItsOwn` | the end of one claim frees a warrior that is planted for another |
| `SnapshotLost` | `MCSessions` | `SnapshotArrives` | the initial snapshot is discarded by its number and not repeated |
| `LegLeftOpen` | `MCUnits` | `ClosingsRetried` | a task's write that closes a leg and is given up leaves the row of the movement ACTIVE; the comment of `submitFinish` (`simulation.go`, around 572) says that closings are retried |
| `AttackRefused` | `MCBattle` | `AttackingSomething` | an attack, raid or siege ends the unit's fight before it knows whether there is a way (`combat.go:215`, `pillage.go:154`, `siege.go:243`): refused, it leaves the unit ATTACKING with nothing to attack; `docs/specs/combat-raid.md:60` has ATTACKING last as long as the fight |
| `OnlyOneWay` | `MCGateway` | `OnlyOneWay` | a request released between the two calls of another connection's `Claim` (`idempotency.go:77-80`) is executed by it without its key, and again by a third; `docs/invariants/security.md:359` names a Redis that is down as the only way |

The models show other behaviours that no passing property excludes, and that the
documents do not describe or describe otherwise. They are stated here so that a
change of the code can be compared with them:

- an order that commits without an answer, and whose retries then fail, is
  refunded in RAM although it is written (`StockLedger`: `phantom` in
  `Accounting`; `Converges` leaves it out, and a restart makes the row prevail);
  `ghost` in `Works` and `Diplomacy` is the same;
- a flush that exhausts its attempts leaves the order behind it in the partition
  facing a row without the stock that RAM reserved, and the database refuses it;
- a lower number may follow a higher one in a session's output, since numbering
  and putting are two steps, and a notice may take number 1 before the welcome
  does (`Sessions`);
- a task's write that is given up leaves the load in RAM and not taken from the
  row of the tile, so the two may differ for good (`TilesAgree` of `Units`, which
  is not checked; `NeverTakenTwice` is the direction that holds);
- the failure of an exit that arrives when the unit is already WORKING sends it
  back inside and its task goes on to its end without it (`gather.go`, around
  590);
- an answer that finds the inbox full is lost, and with it what waited for it: a
  busy pair, a unit on a threshold, a ruin (`lost` in the models); only a restart
  frees them;
- `Heartbeat` answers whether the key of presence is still of this connection,
  and its caller ignores it;
- `expelGarrisons` (`garrison.go:315`, called from `treaties.go:567`) does not ask
  whether the unit is entering. An exit that is given up puts back inside a unit
  that was already asked to enter again; expelled then, it leaves an exit behind
  the entry in its queue, and the rows have it outside while the answer to the
  entry puts it inside in RAM. The proof of `RestartChangesNothing` of `Diplomacy`
  found it, where TLC does not within its bound of orders; in `Units` TLC finds it
  with three. `crossed` names it in both.

## The proofs

Eight modules hold theorems for every value of the constants, from the
assumptions the modules name (`ConstantsAssumption`, `OrdersTouchSomething`,
`QueueAssumption`, `ConquestAssumption`), which TLC evaluates in every run.

### StockLedger_proofs

**`StockTypeCorrect`**, `Spec => []TypeOK`. In particular no stock goes below
zero, in RAM or in the database. `TypeInv` adds to `TypeOK` that a flush carries
no reservation: without it the job of a flush might debit.

**`NoWriteArrivesOld`**, `OneCityOrders => (Spec => []NoStaleWrite)`. The
invariant is `VersionInv`: every job of a partition is of its city
(`JobShape`); its versions are above the database's, at most RAM's, and below
RAM's as long as there are deposits to write (`QueueAbove`), or it is the retry
of a commit whose answer was lost; they grow along the queue
(`QueueIncreasing`); the database is behind RAM, strictly so if there are
deposits (`DatabaseBehind`); and deposits travel only with orders that touch
their stock (`CarriedTouched`). `NoStaleWrite` alone says nothing of the jobs
behind the head, nor of the version the next one will take. The premise excludes
trades: with them the property is false (`TradeReleaseStale.cfg`).

**`DepositsAreVisited`**, `Spec => []DirtyTracked`. With `CarriedTouched`, so that
a released order returns deposits only to the cities it marks.

**`ConfirmedAfterWritten`**, `VersionsTrusted => (Spec => []ConfirmedIsWritten)`.
The invariant adds that what an answer in the inbox confirms, and what committed
without an answer, is written (`AcksAreWritten`). Orders whose retry is
recognised by their version alone (pillage) need the second theorem; the premise
says that there are none, or that every order is of one city.

### WriteQueue_proofs

**`QueueTypeCorrect`**, **`TickNeverBlocks`** and **`NothingSentAfterClose`**.
`PairFits` says what `submitPair` knows between its four steps: the
partitions differ, and the one found with room keeps it because workers only
take. `CloseAfterLoop` says that whatever follows the wait for the loop finds it
stopped and not in the middle of a `Submit`.

**`QueueKeepsItsPromise`**, `Spec => KeepsPromise`: the queue implements
`KeyedQueue` for any number of partitions, any hash and any jobs. The refinement
needs that a job that begins to run is the first of each of its keys among those
accepted and not ended, although the queue never looks at keys, only at places.
`KeyInv` says how the places remember: accepted jobs are accepted once
(`AcceptedOnce`); a partition, with the item in its worker's hand first, is in
the order in which its jobs were accepted (`InOrder`); a job goes alone, or in
halves, each in one partition (`Places`); a job that has not ended is in the
partition of each of its keys, or its second half is about to be sent (`Present`,
`Submitting`); a worker that runs has a whole job or the leading half, and one
that waits the other (`Hands`); a meeting counts no half that is still in a channel
(`Barrier`); and what was accepted before under the key of the job in hand has
ended (`Cleared`). The last is what the refinement needs, and the others carry it:
when an item is taken, an earlier job of its key that has not ended would be in the
same partition, hence before it, and there is nothing before what is taken.
`Implements` is the step, by cases on what `state` does: most steps stutter,
`Accept` and `DropFull` are the two outcomes of `Submit`, and a worker's steps
are `Start`, `Finish` or a stutter.

**`ShutdownLosesNothing`**, `Spec => []CloseLosesNothing`: a worker leaves only a
channel that is closed and empty, and main only after all workers (`Leaving`); with
`Places`, no accepted job is left without an outcome.

### Gateway_proofs

**`GatewayTypeCorrect`**. **`RequestsRunOnce`**, `Spec => []OneEffect`: the
invariant, for each request without excuse, is that at most one place has it in
hand (a connection that dispatches or releases it, the channel, the loop) and
that none has it once it was executed or while its key is absent (`OneHand`).
**`NothingReservedInVain`**, `Spec => []ReservationKept`, where a pending key is
answered for by one of those places. **`NewestStaysPresent`**,
`Spec => []NewestPresent`: `Clear` compares the session before it deletes, and no
older connection writes the key after a newer one.

### Works_proofs

**`CountsAddUp`**, `Spec => []DatabaseAddsUp`. The invariant (`Rows`) speaks of the
rows alone: their shape, one state per house, and the two counts. It says nothing
of the jobs: the theorem holds because each transaction decides, from the rows it
reads, whether it has been done, and so for any job, in any order, any number of
times. Counting is by the library's theorems on cardinality.

**`SitesAreFree`**, `Spec => []SiteFree`. Here the jobs and the messages count
(`Inv`). A house of the rows is the loop's, standing or in ruins (`Known`); a site
whose destruction is not written takes no house (`Ruined`); and the loop waits for
every order that is queued (`Awaited`). So a house in the rows of the site of an
order can only be the order's own (`InvFree`). The other parts carry these three:

- `OrderedOnce`: an order is queued once, is not queued any more when its answer is
  read, and only its own transaction writes it. It is why an answer finds the house
  it is about, and why a second attempt is recognised.
- `Answered`: an order said to have failed was not written; `ghost` names the one
  case in which the loop cannot know, a commit without an answer whose last attempt
  is given up. `Known` fails after it until the next start.
- `Fallen`: a house in ruins is not the loop's any more, and once its end is
  confirmed it is in no row. Without it a confirmed destruction could free a site
  whose house still stands in the rows.
- `Distinct` and `OneHouse`: a number is of one house and a site has one row, which is
  what a restart reads.

`LoopKept` serves every step of the loop that loses houses at most, `WorkerKept` the
three outcomes of a worker, whatever the transaction; `RunLeaves` says what each of
the seven leaves of the houses. `BuildBuilding` needs that the number of an order is
new (`FreshId`). As in `Units`, the submission of several jobs is written in closed
form, where it was a fold.

**`CitySurvivesRestarts`**, `Spec => []RestartChangesNothing`, and
**`LoopCountsAddUp`**, `Spec => []LoopAddsUp`, share the invariant `Story`: `Inv` and
five chapters, each inductive with the help of the ones it names in its step lemma.

- `Training`: an order to train is queued once and the loop waits for its answer; an
  answer says what the row of production says, and what the loop trains is in that row.
  At most one order and one birth are on their way, in the queue or in the inbox
  (`Alone`): a birth that is asked again finds the unit its first attempt gave.
- `Advancing`: the same of the advance of era. The loop is never behind the rows
  (`EraTold`), and an advance runs in the village only (`FromVillage`), so that the
  limit of the town is added once.
- `Living`: a unit of the city is in the rows and not about to die there (`Alive`); one
  that is born in the rows and not yet heard of (`Unborn`) is nobody's (`Coming`); and
  the rows hold nobody else (`Everyone`). A death runs beside the jobs of the city and
  is why the chapter needs all three.
- `Housing`: what the loop builds is in the rows at its site (`BuiltUp`, `Matched`), the
  rows are not ahead of it, a ruin is the ruin of its site (`RuinsKnown`), and every
  write that a site waits for is on its way or given up and known (`Owed`).
- `Sums`: the two counts of the loop. It needs `Living` (a unit that is born is new to
  the city, one that dies is in it) and `FromVillage`.

The clauses on what is owed hold until a message finds the inbox full (`lost`), those on
what the loop knows until an order is written and its author told it was not (`ghost`):
the two excuses `Settled` makes. Each step is first told as what it puts on its way and
takes from it (`Sent`, `Heeded`, `Served`, `Marked`, `Mourns`, `Resubmits`), then as
what it is about (`Concerns`): a chapter is disturbed only by the kinds of job it is
about, and the others are one lemma (`TrainingElsewhere`, `HousingElsewhere`). When
nothing is on its way the chapters give, field by field, the record `Recovered`
(`SettledTraining`, `SettledAdvance`, `SettledUnits`, `SettledHouses`,
`SettledCounts`); that a restart counts each finished house at its site is a bijection
between rows and sites (`FinishedSites`).

**`WorksTypeCorrect`**, `Spec => []TypeOK`, comes last: that the counts are naturals is
read from `Sums`.

### Presence_proofs

**`PresenceTypeCorrect`**, and **`SessionsAreCounted`**,
`Spec => []SessionsCounted`, for any players, sessions and capacities. For each
session `Told` says what the loop knows of it and what is on its way in each
channel: a session that is live has its beginning on its way, or is known
(counted); `early` ends are those whose beginning is still to come; one that is
gone and known has its end on its way, or it was lost to a full channel, which is
the one thing the property excuses. The second half needs no more than itself and the
types: a counted owner's city is ONLINE through each transition, the boot and the
foundation (`ExposedStep`).

**`ProtectionIsEarned`** and **`DatabaseFollowsAlways`**,
`Spec => []ProtectionEarned` and `Spec => []DatabaseFollows`, share the invariant
`Cities`. `Written` follows the last state of a city to its row: every job in line
was earned (a job that protects carries a mark of at least the cooldown), and the
last job says what RAM says, or there is none and the row does, or the write is owed
again (dirty, or its compensation in the inbox or dropped). A job that fails or finds
the partition full moves the city to the third case, a worker from the first to the
second. The other part, `Introduced`, is the foundation: a city is in its row before
it is in RAM and is introduced once, which is why `HandleIntroduce` never overwrites
a presence that moved on.

**`GraceIsRespected`**, `Spec => GraceRespected` (RN-PRESENCE-004), and
**`TransitionsAreAllowed`**, `Spec => []NoForbiddenTransition` (INV-CITY-005), need
that the mark of an absence is no older than the last session the loop saw, and that
while it runs the city is still ONLINE (`Marks`). They are proved and not run: TLC
finds both true under the same cfg.

### Diplomacy_proofs

**`DiplomacyTypeCorrect`**, and **`AlliancesEndWithTheirGuests`**,
`Spec => []GuestsLeave`, for any types of treaty, capacities and numbers of
failures, with the exceptions `GuestsLeave` makes by `slipped` ("Disagreements"). The sweep expels the guest of every alliance it ends, so what could leave
one behind is another end of the alliance: the answer to an order about the treaty.
`OneOrder` says why it cannot. The pair is reserved while an order is queued or its
answer travels, so there is one at most, in the queue or in the inbox; no other
message and no sweep changes the treaties meanwhile; and an order written for the
treaties of the loop leaves an alliance an alliance (`Harmless`: announcing its end
keeps it in force until the sweep), unless it supersedes it, as a lesser treaty
does that was proposed after an end which a crash then lost; `slipped` names that
case. A full inbox loses the answer and the pair stays reserved, so
nothing changes either. That the number of a new proposal is nobody else's is by
counting the numbers in use (`FreshId`).

**`PairAlwaysInOrder`**, `Spec => []PairInOrder`, and **`RestartsChangeNothing`**,
`Spec => []RestartChangesNothing`, share the invariant `Paired`. Both speak of rows
whose jobs and answers are on their way, so `Paired` says what each of them owes:

- a book is reserved by one order, in its queue or answered (`Lone`, `Reserved`);
  only the head of a queue may have been written unanswered (`DoneFirst`), and
  while nothing failed an order is behind every closing of its book (`Unfailed`);
- what the loop will hold once it hears that the order was taken is still one
  treaty of each kind and one offer (`OneHeld`): the sweep leaves a reserved pair
  alone, and nothing else touches its books;
- the open rows without a closing on its way (failed, queued or given up) are what
  the loop holds, before the order is written; once it is, they are what the loop
  will hold (`SameTreaties`, `SameOffers`), and to write the order again changes
  nothing. Closings commute with it: each is of a treaty no order is about any more;
- the unit has one way in and one way out on its way, the way out in front
  (`GuestWay`).

A job is followed from its queue to the inbox by a map from the places after a step
to the places before it (`Moved`), so that each transaction, answer and failure is
one lemma for the orders and the closings in front of and behind it.

### Conquest_proofs

All that the run of `Conquest` checks, for any number of players, warriors,
territories, claims, failures and restarts: **`BaseAgreesAlways`**,
**`LimitsAgreeAlways`**, **`NothingForgottenEver`**, **`CapitalKeptAlways`**, and
**`ConquestTypeCorrect`**. None of them is inductive, because what they say of the
rows depends on the jobs and answers that are on their way. `Inv` adds:

- a claim whose start has not been answered has one job or one message, and only
  then (`StartsAlone`); a message that says yes finds the row active, one that says
  no finds none, unless the commit was not acknowledged (`phantom`);
- a claim that ends, in `pendingEnds`, in a queue or in a message, is no longer in
  RAM (`EndedIsGone`), so an end never meets a claim that goes on;
- a claim that captures has one job, one retry or one message (`CapturesAlone`); the
  job expects the control RAM had, and the answer carries the one the database has;
- two active rows are of two territories (`OneActive`);
- what a foundation took stays its player's while its news travel, and the loop
  still has the land free (`FoundedStays`): no transaction matches a version that
  is behind;
- RAM is the database, or behind it by one foundation or one capture, never by both
  (`ControlInv`).

`LimitsAgree` follows from the last: an answer that moves the limit in RAM finds
there exactly the owner that the transaction found in the row, so both add and take
one for the same two cities (`ConqueredUpdate`). `CapitalKept` is the step of
`CaptureRow`, which `Capital` guards; a foundation takes only what nobody owns. The
proof has a frame lemma for each part of `Inv` and one lemma for each action;
`DropStep` is what the four handlers that end a claim share, `ApplyEffect` what the
three transactions leave. In writing it, `flushClaims` had to become one action per
job, as the code submits them: the whole loop as a fold could not be reasoned about.

### Units_proofs

Types and all that the run of `Units` checks, for any units, tiles, cities,
capacities, loads, failures and orders: **`UnitsTypeCorrect`**, **`UnitsOneStory`**,
**`UnitsNeverTakenTwice`**, **`UnitsEntryAwaited`** and
**`UnitsRestartChangesNothing`**. The invariants they rest on are in
`UnitsInvariant`, with the words the lemmas use for a queue that grows or is
written. The
invariant `Inv` has one part for each story a crash or a failure could break:

- `Stories`: what `OneStory` says of the memory, with the leg of a task as the walk
  whose number is the task's revision. A transition of a task ends in one of three
  writes (`StartLegWrote`, `WorkWrote`, `EndTaskWrote`), so the decisions of an
  arrival or of a work that ends are proved once, on a step (`Wrote`).
- `RowStories`: the rows of a leg have its movement or none; it is all a restart
  needs, because the load and the reconciliation repair the rest (`Restarted`).
- `Entries`: the entry of a unit is one job of its queue or one answer in the inbox,
  never two and never both, and only while the loop waits. This is why no answer
  finds the unit elsewhere, though `CancelMovement` does not look at a pending entry.
- `AllApart`: each load on its way was cut under its own revision of the task, which
  the unit no longer has; only the head of a queue may be committed already, and then
  the row holds the task it wrote.
- `Balance`: the loads of a tile in the database cover those of the loop and the
  loads on their way, counted as the set of pairs of unit and revision
  (`Credits`). `NeverTakenTwice` is what remains when the loads are forgotten.

`Balance` says why a repeated transaction takes nothing: the row then holds the task
the first attempt wrote, whose revision is not the one the load was cut under
(`WriteTakes`). The revisions are new numbers, and a number is new because finitely
many are in use (`FreshId`). `Apply` had to be written in closed form, the jobs that
fit and then the failures that fit, where it was a fold over the jobs of a step.

`RestartChangesNothing` says what the rows hold when nothing is on its way, so its
invariant has to say what they will hold whatever is on its way. What the rows become
after every job of a queue is a fold, about which nothing can be proved; `Untangled`
avoids it by saying, of each unit that is `Clean`, who answers for each part of its
rows now (`Explained`), in four strands:

- `Closed`: every movement that is open in the rows, or that a job will open, is the
  walk of the unit, or its closing is queued behind, waits in `pend`, or failed and is
  being told; the walk of the unit is never to be closed.
- `Agreed`: the walk and the task of a unit that walks or works are those of the last
  job that writes them, with nothing behind it that overwrites them, or of the row
  when no job does, or of a job given up whose failure is in the inbox.
- `Placed`: a unit that stands and is not dirty stands where the last job that moves it
  says, or where the row says, unless the failure of a flush or a closing is coming.
- `Housed`: the city of the row is the unit's, or an exit or an entry, queued,
  committed or answered, tells why not; exits are alone, before any entry in the
  queue, and refer to the city the row has.

Each action keeps the four. A step of the loop is proved as if all its jobs were
queued (`StepExplained`); those that do not fit are then given up, which is the same
as what a worker does to the head of a queue (`Sift`: a job is taken out and its
failure is told). A job written is `Popped`: its effect on the rows replaces it
(`PoppedClosed`, `PoppedAgreed`, `PoppedPlaced`, `PoppedHoused`). A message handled
replaces the failure it brings by what the handler leaves. When queue, inbox and `pend`
are empty each strand has one case left, and the four together are the rows that
`SettledRecovered` rehydrates to the memory.

Three things of the model were wrong or incomplete, and the proof found them:
`Expel` lacked the check of a pending exit (`treaties.go:583`); a unit expelled while
its entry is unanswered is settled in two places (`crossed`); and the last conjunct of
`RestartChangesNothing` compared a task that phase 5 forgets without a write. With two
orders TLC reaches none of the last two.

### What is only model-checked

- Every liveness property: temporal reasoning with fairness is out of the
  prover's reach.
- `Accounting`, `DatabaseExplained` of `StockLedger` and `WoodConserved` of
  `Battle` are sums over sequences or sets, and the loop's side of `Battle` is built
  with folds over them: what a fold computes needs an induction that no installed
  backend does.
- `ViewExplained` and `NothingUntold` of `Sessions` and `GuardGoesHome` of `Battle`:
  their inductive strengthenings are in the plan.

The listed runs do not spend a property on `TypeOK`, which TLC finds true under
every one of their cfgs, nor on `DirtyTracked`, `SubmitNeverBlocks` and `LoopAddsUp`,
which are proved.

## What is not modelled

- **Formatting and validation** of messages, schemas, codes, logs and metrics:
  no state, and contract tests.
- **Terrain generation, rendering, the development seed, migrations:** run once
  or draw; deterministic and without protocol.
- **Geometry** (paths, the territory grid, safe zones, founding sites): pure
  functions of a grid. The models choose among the places these may answer.
- **Arithmetic of the economy** (rates, costs, multipliers): amounts in the
  models are small numbers; no property depends on their value.
- **Wall-clock time:** deadlines are events that may happen when the code allows
  them to, so every race with a clock is there; how long a wait lasts is not.
- **The load's checks of geometry and of references between tables:** each
  module has the repairs the load makes to its own rows.
- **The web client's state, rendering and identity service:** programs of their
  own in another language; `Sessions` has the part that applies messages.

`PROJECT.json` says the same component by component.

## Plan

What is left, in order of importance:

1. **Proofs:** the invariants of `Sessions` and `Battle`.
2. **WebClient:** reconnection and optimistic state against `Sessions`.
3. **Identity:** accounts, refresh and rate limits of the web service.
4. **Algorithms:** A* against shortest paths, the territory grid, safe zones, on
   bounded inputs.
5. **Boot:** the load's checks of the rows of all modules together.
