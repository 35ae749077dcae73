# Deepkit: models, checks and proofs

This directory is a verification development of the Deepkit monorepo: TLA+
modules translated from the code under `src/packages`, TLC configurations that
check them on small instances, and theorems checked by TLAPS. It covers the
parts of the repository where the order of events decides about correctness: the
process lock of `packages/core`, the broker of `packages/broker` (distributed
lock, message queue, bus, bus subjects, cache), the client of `packages/rpc`, the
connection pools of `packages/mongo` and `packages/sqlite` with their
transactions, and the unit of work of `packages/orm`.

All paths below are relative to `src/packages`.

## 1. Inventory

### 1.1 Components

| component | state | operations | modelled by |
|---|---|---|---|
| process lock, `core/src/process-locker.ts` | `LOCKS` (an entry with a queue per id), `holding`, two timers per object | acquire, tryLock, unlock, ttl expiry, wait timeout | ProcessLock, FifoLock |
| `arrayRemoveItem`, `core/src/array.ts` | none | remove the first occurrence | Arrays |
| broker lock, `broker/src/broker.ts`, `adapters/deepkit-adapter.ts`, `kernel.ts` | `BrokerLockItem.releaser`, `BrokerConnection.locks`, the process locks of the broker | acquire, try, release; Lock, TryLock, Unlock, close | BrokerLock |
| broker queue, same files and `utils.ts` | `Queue.consumers` with their `handling` maps, messages, deduplication hashes; the client's `consumers` map | produce, consume, release, the four queue handlers, deduplication timer | BrokerQueue |
| broker bus, same files | `subscriptions` of a channel; `activeChannels` of a client | subscribe, Release, publish; Subscribe, Unsubscribe, Publish, close | BrokerBus |
| bus subjects, `broker/src/broker.ts` | `BrokerBusSubjectHandle` (subjects, buffer, releaseChannel), `refCount` | subject, observe, unobserve, activateSubject, the finalizer, message | BusSubject |
| broker cache, `broker/src/broker-cache.ts`, `kernel.ts` | `BrokerCacheStore.cache` per process, `cacheStore` and the invalidation list of the broker, timers | get, build, invalidate; GetCache, SetCache, InvalidateCache, EnableInvalidation | BrokerCache |
| rpc client, `rpc/src/client/client.ts`, `message-subject.ts` | `transportConnection`, `connectionPromise`, `connected`, `connectionId`, the table `replies` | connect, disconnect, sendMessage, send of a subject, the transport's callbacks | RpcClient |
| mongo pool and transactions, `mongo/src/client/connection.ts`, `client.ts` | connections with `status`, `reserved`, idle timers and `transaction`; the wait queue; `host.type`, `host.dead`, the topology | getConnection, release, heartbeats, close, connect; begin, commit, rollback, the finalizer | MongoPool |
| sqlite pool and transactions, `sqlite/src/sqlite-adapter.ts`, `sql/src/sql-adapter.ts` | `activeConnections`, `firstConnection`, the wait queue, `transaction.connection` | getConnection, release, begin, commit, rollback | SqlitePool |
| orm session, `orm/src/database-session.ts`, `identity-map.ts` | rounds, `currentPersistence`, `assignedTransaction`, the instance states and the identity map | add, remove, flush, commit, rollback, reset | DatabaseSession |

Section 6 lists what is not modelled, and why.

### 1.2 How they interact

A process has one object per broker feature (`BrokerLock`, `BrokerQueue`,
`BrokerBus`, `BrokerCache`). Each talks to an adapter. `BrokerDeepkitAdapter`
keeps a pool of `BrokerDeepkitConnection` objects, each an `RpcBaseClient`: a
message is sent with an id, the answer comes back to the `RpcMessageSubject` of
that id, and messages without a question (a bus message, a queue message, an
invalidation) go to `onMessage`. On the broker one `BrokerConnection` per
network connection handles messages in the order they come and edits the shared
`BrokerState`. A lost connection ends the `BrokerConnection` (`close()`) but not
the `BrokerDeepkitConnection`, which connects again for the next message and
keeps what it knew. The broker's Lock handler uses the process lock of
`packages/core`, so a distributed lock is a process lock of the broker process.

A `DatabaseSession` collects changes and writes them with an adapter's
persistence object. The persistence and the session's transaction ask the
adapter's pool for connections: a transaction keeps the first one it got, and
`commit()` or `rollback()` gives it back. MongoPool and SqlitePool are two such
pools; DatabaseSession sees of a pool only that statements reach the database
and that a transaction can be rolled back.

Everything is JavaScript: a callback runs to its end, then the promise reactions
it made possible, then the next callback. So an action of a model is one
callback with its reactions, and interleaving happens at `await`, at timers and
between processes.

### 1.3 What is hard

* Timers that fire after what they were set for is over (lock ttl, wait timeout,
  deduplication interval, cache timers, idle timers of a pool, the pause of a
  connection attempt).
* State read before an `await` and used after it (`BrokerLockItem.try`,
  `ensureSubscribed`, `BrokerCacheItem.get`, `doPersist`, a waiter of a pool).
* Arrays that are iterated while a callback of the loop edits them.
* Promise reactions that run after code that already relies on them
  (`releaseSubject`, the registration of a queue callback, the hand-over of a
  SQLite connection).
* Connections lost between a request, its effect and its answer, and the parts
  of the state a reconnected client keeps although the other side has forgotten it.
* Late events of a socket, told to a client that has given it up.
* Flags and counters that stand for a set of users (`listeners`, `handling`,
  `refCount`, `reserved`, `activeConnections`).
* One step of several failing: a listener after its statement, a statement of a
  flush, a handshake, a COMMIT.

`PROJECT.json` lists these as hazards, each at its line, with the properties
that would notice, or with the reason none does.

## 2. Modules

| module | of | what it is |
|---|---|---|
| Arrays | core | arrays as sequences: the items, `arrayRemoveItem` |
| ProcessLock | core | the lock with its entries, queues, promises and timers |
| FifoLock | core | what the lock promises: per id an owner and a line |
| ProcessLockRefinement | core | the mapping from ProcessLock to FifoLock |
| BrokerLock | broker | the distributed lock; contains an instance of ProcessLock |
| BrokerQueue | broker | one queue with its consumers, messages and clients |
| BrokerBus | broker | one channel, its clients, their listeners |
| BusSubject | broker | the subjects of one path on top of one channel |
| BrokerCache | broker | one cache key, the processes, the broker |
| RpcClient | rpc | one client: its sockets, connection attempts and replies |
| MongoPool | mongo | the pool of one host, its users, heartbeat and transactions |
| SqlitePool | sqlite | the pool, its queries and transactions |
| DatabaseSession | orm | one session: entities, rounds, flush and transaction |
| BusProofs | broker | lemmas and theorems about BusSubject and BrokerBus |
| QueueAndRpcProofs | broker, rpc | lemmas and theorems about BrokerQueue and RpcClient |
| other *Proofs | | lemmas and theorems about the module they are named for |
| *MC | | the small instances TLC checks |

Variables have the names of the fields they stand for and actions the names of
the methods or handlers; a comment names the field where they differ.
`PROJECT.json` maps every definition to its lines. Variables that the code does
not have are marked as history (`received`, `published`, `joined`, `overlooked`, `fresh`, `doubt`, `wanted`, `skipped`,
`hanging`, `hasty`, ...);
they only record what a property needs. Definitions marked "Faulty" are the variants
of a definition with a plausible bug in it. They are used in no action; each
shows that the property named with it in `PROJECT.json` would notice that bug.

**ProcessLock.** One action per outcome of a method: `AcquireFree`, `AcquireWait`,
`TryLockFree`, `TryLockTaken`, `Unlock` (which hands over, frees or does nothing),
`TtlExpire`, `WaitTimeout`. A timer is a flag that says it is armed; time is not
modelled, an armed timer may fire at any moment. An object asks only while it
neither holds nor waits, as `ProcessLocker` uses it.

**BrokerLock.** A request is one message id, with the subject on the client, the key
in `locks` and the ProcessLock object on the broker. Both ends of a connection
notice its loss separately. `close()` unlocks lock by lock (`CloseStep`), with the
reactions of who is granted the lock in between. The status `stuck` is a
`release()` whose message was dropped after a reconnect. A `release()` that is called while an
earlier one waits for its answer takes over the callbacks of the subject, so `call` is the state
of the later one; `hanging` has the requests with a `release()` that nothing will settle.

**BrokerQueue.** A message is an abstract value with a hash; a connection that is lost
loses what is under way. A call of a callback is a pair of a message and how many
calls that message had so far. `Receive` takes one message or, with `Batched`, several of
one buffer in a row, before the reactions of the first.

**BrokerBus.** Messages are numbers in the order they were published. A lost
connection is replaced at once and both ends notice together. The status `lost` is
a listener whose connection went and which the client does not subscribe again.

**BusSubject.** The adapter's channel is reduced to its listener count, who waits for
the answer to Subscribe and whether messages are forwarded, as BrokerBus models it
in full. Reactions that can run do so before the next message, but after the code
that is running; user code in between is an action of its own. `collect` is the finalizer,
which the engine runs whenever it likes: also while the Subscribe of the handle is unanswered
or a release waits, but not between the reactions of another task. Several finalizers may run in
one task (`finalizing`). Whether user code lets its releases finish first (`Patient`) does not
bind it.

**BrokerCache.** A value is the version of the data its builder read and when it was
built. The clock is a small counter; every moment is later than every duration, as
real timestamps are. `set()`, `exists()` and increments are left out.

**RpcClient.** A message is one call of `sendMessage()`, with where its `connect()` is
(`caller`) and what its subject was told (`outcome`). A connection attempt is a call
of `doConnect()` and has the name of the socket it opens. `OnDisconnect` is
`onDisconnect()` with all it rejects, and every callback of a transport that calls it
is an action. Which sockets still report after `close()` depends on the transport: with
`late` FALSE they are silent, as in-process transports are, with TRUE the event comes
as a task of its own, as of WebSocket and TCP. The handshake stands for the client id
request and the authentication.

**MongoPool.** A holder is a caller of the pool or the heartbeat; `phase` is the await
it is at. `Request` and `RequestWait` are the outcomes of `getConnection()`, `GiveBack`
is `release()` with its walk over the queue, whose positions are those the loop really
visits (`Walk`: removing a timed out waiter makes it pass over the next one).
`CloseEvent`, `ErrorEvent` and `IdleTimeout` are a connection's events.
A transaction that nobody refers to is collected some time (`Collected`), as the
monitor of `FinalizationRegistry` does; that includes committed ones, see section 4.

**SqlitePool.** A query asks (`AskSticky`, `AskFirst`, `AskWait`, `AskCreate`: the four
ways through `getConnection()`), goes on, runs its statements and releases. A waiter
whose promise is resolved goes on in a later step (`Resume`), as its reaction is queued
behind others. `Got` is the rest of `getConnection()` with `transaction.begin()`.

**DatabaseSession.** An entity is its version in memory, its snapshot and whether it is
known; the database is its version there, with and without the open transaction.
`flush.phase` is the place in `flush()`, the phases in `Awaiting` are its awaits, and
the application may add, remove and change entities at each. A listener may prevent,
fail or throw after its statement. A type number is the place of the type's group in the
topological sort. `wanted` is what the application has added, with its references, and not
removed since, whether or not a round took it in; `skipped` is what of it no round took in. A
statement is one atomic write, also where an adapter sends a large group in several batches.

## 3. What is checked

Each run is one configuration. `CHECK_DEADLOCK FALSE` is set where every user may
stop asking: a lock request, message, call or flush happens once or a bounded number
of times in these models, so a finished system really stands still. ProcessLock and
the two pools have no such end.

| run | instance | shows |
|---|---|---|
| process_lock | four lock objects, three of one id; ttl and timeout optional | mutual exclusion, entry exactly while held, queue exactly the waiters, no timer outlives its purpose, no overtaking, refinement of FifoLock, every wait and timed tenure ends |
| broker_lock | two processes, three requests; both connections may break, one process reconnects | a granted lock stays listed and releasable (`GrantsReleasable`), close() gives it back, late unlocks are harmless, a call that is over for the client left nothing on the broker (`OverOnBroker`) |
| broker_lock_live | the same with one connection each, one breakable | every acquire, try and last release settles, every tenure ends |
| broker_queue | one client with two calls of consume() and two connections, three messages, two of one hash | a client runs no more callbacks than it has consumers and no slot leaks (`SlotsAccounted`), no duplicate in the interval, a settled message was processed, its tries counted |
| broker_bus | three listeners, two messages, one loss | client and broker agree on the subscription, nothing missed, doubled or reordered after the Ack, everything arrives |
| bus_subject | two subjects, two handles, two messages, refusals, one-shot observers | lists and counts agree, buffering loses and doubles nothing, every observed subject is connected in the end |
| broker_cache | three calls of get() in one process, another that invalidates, one write, maxStale on and off, builders that throw | no value older than an effective invalidation, no entry beyond its ttl, one build at a time and no waiter without builder (`BuildsShared`) |
| rpc_client | three messages, three sockets, one disconnect(), transports with and without late events | no reply is lost untold, the client's idea of its connection is right, every connect() and disconnect() returns |
| rpc_offline | the same without late events | the disagreement of section 4 |
| mongo_pool | one user, one transactional user, the heartbeat; a pool of one connection, two with the heartbeat's | connections are exclusive, no place is lost but to a transaction or a refused handshake, every waiter is answered |
| sqlite_pool | a query, two transactions; a pool of one or two connections | all connections but the first are exclusive and open, a transaction ends only by its own COMMIT or ROLLBACK, every waiter is served |
| orm_session | two entities, of one type or one referencing the other; two flushes, rounds that hooks add | a snapshot is what is stored, nothing a round took in is lost, nothing is inserted twice |

Every property's mutants in `PROJECT.json` name the plausible bug it notices.

**Bounds.** Two requests that contend and a third behind them are needed to see a hand
over, an overtaking or a wrong removal from a queue; a second id shows that ids do
not interfere. Three listeners or two subjects show one that leaves, one passed
over and one unaffected. Two messages suffice for order and doubling. One loss per
run separates before, during and after; broker_lock has two, to see a reconnect and
the close of the other side. Three calls of get() are an entry being built, one
that waits and one that is served the old value. Three messages of an rpc client are
one that attempts, one that waits for the attempt and one that comes after a loss; each
opens a socket at most, so three sockets are all they can open. A pool of one with the
heartbeat's connection makes everybody wait and lets the limit be exceeded as in the
code; which waiter `release()` serves depends on the two in front only. Three queries on
one or two SQLite connections are one that has it, one in the hand-over and one that
slips in between; four connection objects never run out (an object that nobody refers to
is used again), and `Drift` bounds how far `activeConnections` gets from the truth by
sharing, once in each direction. Two entities give the two shapes of a group (one
statement for two entities, two groups by reference); `MaxRound` is the round in commit
and one more, `MaxFlush` one flush after another. Counters that grow without end
(messages, invalidations, versions, the clock) are capped by a constant in the guard
of the action that increments them, and `MaxInFlight` bounds release() only. Symmetry is
used for safety only.

**Fairness.** Armed timers fire (the event loop guarantees it), messages are delivered
and handled while the connection lives, a lost connection is noticed at the other
end, a running `close()` goes on, and pending promise reactions run. No caller is
ever obliged to release a lock, to unsubscribe or to answer, and no connection has to
break or to stay. A socket opens or fails; a handshake is answered or its socket ends,
which the connect timeout sees to in the Mongo client. A user of a pool is done with its
queries some time, and ends its transaction or drops it: a pool promises nothing to who
waits for a connection that is never given back. These are strong fairness, as the user
may send another command first and so disable the end again and again. Strong fairness
of `HeartbeatStart` says that the heartbeat's timer finds a connection object
although the model has a few only. BusSubject has one strong fairness: the answer to
Subscribe comes although reactions of other handles, which go first, may disable it
again and again.

**Conditions in the properties.** They are there because the property fails without
them, and each is one of the disagreements below.

* `SlotsAccounted` is for one consumer at a time and messages handed over one by one
  (`OneAtATime`, not `Batched`).
* `GrantsReleasable` is for calls of an item that are awaited one by one (`Sequential`).
* `EveryCallSettles` is about the last `release()` of a request: one that a later one
  overtook, or that comes after a reconnect, never settles (`hanging`).
* `ListenersBalanced` says without a condition that the count of listeners never exceeds the
  handles with a channel. That it equals them is for code that lets the reactions run before it
  touches a handle again (`Patient`), as long as no finalizer was `hasty`: released a handle
  before its channel was open, or once more while a release was waiting. `ObserversHear`
  excepts a hasty finalizer, too, and a channel somebody was refused on. `NothingMissed` leaves
  out what was passed over by a shrinking loop.
* `ConnectionUsable` and `ConnectSettles` are for transports whose sockets are silent
  once they are given up (`~late`).
* `SnapshotIsStored` is for an application that leaves an entity alone while a flush is
  persisting it (`Quiet`). It, `NoDoubleInsert` and `NothingLost` except what a prevented
  statement, a failure half-way or a rollback has left unclear (`doubt`). `NothingLost` also excepts what
  `add()` skipped because the round it would have gone to removes it, or what references it.
* `EveryRequestSettles` excepts a heartbeat whose command was on a socket with an error
  (`Hung`), a host that flaps between dead and known for ever (`Flapping`) and the end of
  the model's connection objects (`NoRoom`). `NoSlotLost` excepts connections that
  a transaction has left behind and refused handshakes.
* `Exclusive` of SqlitePool leaves out the first connection, which the code shares.

## 4. Where code and comments disagree

One run shows a disagreement by a counterexample: **rpc_offline**. `sendMessage()` ignores
the rejection of `connect()`, with the comment that the subjects receive such errors
(`rpc/src/client/client.ts:566`, comment at 567). When the attempt fails before a connection
exists, `onDisconnect()` returns early, nobody tells the subject, and the call waits for ever.

The others follow from the models, or from reading them against the comments. Where a constant
is named, setting it in the configuration of the run makes TLC show it; where a property is
named, the module states it without the exception of the property the run checks, and TLC
refutes it in its place.

*Broker.*

* `try()` looks at `releaser` before its await and assigns it after, so it can forget a
  lock granted in between (`broker/src/broker.ts:638`, comment at 632; `Sequential`).
* A `release()` that is called while an earlier one of the same lock is under way overwrites
  the callbacks of the subject they share (`rpc/src/client/message-subject.ts:93-94`). The answer
  settles the later one, the earlier one hangs for ever (`hanging`).
* After a reconnect `release()` never returns, as its message is dropped and its
  subject never settled (`rpc/src/client/client.ts:495`; the status `stuck`).
* A message in the same buffer as the Ack of the subscription is dropped, and with
  it the only slot of the consumer (`broker/src/adapters/deepkit-adapter.ts:360`,
  comment at 355; `Batched`).
* The finalizer of a collected subject calls `releaseSubject()` whenever the engine runs it
  (`broker/src/broker.ts:298`). While the Subscribe is unanswered the handle keeps its
  `releaseChannel`, so the reaction that will release it stays queued whatever happens meanwhile
  (395): a subject observed in between is in the list of a handle whose channel is closed under
  it. When user code has left the handle already, the finalizer queues a second release, the
  count of listeners falls to -1, and no later `subscribe()` of the connection sends Subscribe.
  Either way observers of code that is patient hear nothing, against "The subject starts broker
  subscription on first observer" (345; `FirstObserverSubscribes`, with one message and no
  refusals).
* A subject observed again before the reaction of `releaseSubject()` has run stays
  without a channel (`broker/src/broker.ts:397`, comment at 345; `Patient`).
* A builder that throws leaves `entry.building` set, and every later `get()` of the
  process fails with the old error (`broker/src/broker-cache.ts:155`, comment at 202).
* `BrokerLockItem.acquired` stays true after the ttl (`broker.ts:609`, comment 603).
* A queue message goes to every free consumer and is lost when none is free,
  whatever `exactlyOnce` and `atLeastOnce` say (`kernel.ts:513`, `model.ts:309`).
* A second `subscribe()` returns before the first one's Ack, and a failed one leaves
  the channel deaf (`deepkit-adapter.ts:310-315`).
* `activateSubject()` returns while another subscription of the handle is pending
  or after it was rejected (`broker.ts:328`, comments 476 and 482).
* The loops over callbacks and subjects run over arrays their callbacks may shrink
  (`deepkit-adapter.ts:68`, `broker.ts:335`).
* A `get()` during the first build returns undefined (`broker-cache.ts:209`), a
  value of the broker always counts as expired because its ttl is a duration there
  (`:191`), and the comparison with maxStale holds for nearly every expired entry (`:206`).

*Rpc client* (`rpc/src/client/client.ts`).

* `onDisconnect()` does not know which socket it is called for (line 179). A close event of a
  socket that was given up clears `connectionPromise`, so that two attempts run at once,
  and drops the replies of the new connection; `connected` may be true without a connection
  (against the comment at `isConnected()`), `connect()` and `disconnect()` may never
  return, and what a subject sends later may go to another socket than its message
  (all with `late`, and the condition taken out of the properties).
* A message that waits in the pause of `connect()` is rejected by a drop, but is still sent
  on the next connection (lines 293 and 546).

*Mongo pool* (`mongo/src/client/connection.ts`).

* `release()` in `commit()` and `rollback()` returns early because the transaction is still
  referred to (line 904), so a connection comes back only when the transaction is collected;
  `rollback()` of a transaction that has not started returns before it releases (721).
* The finalizer also aborts committed transactions: `unregister()` is called by a token
  that `register()` was not given (688, 715, 726).
* A refused handshake keeps its reserved connection until the connect timeout.
* `release()` passes over the waiter behind a timed out one (504, 522), and hands out
  connections that have closed meanwhile (533).
* An error event leaves the command in flight unsettled: the close event after it, whose
  comment says it rejects, returns early (842, 855, comment at 927).
* `execute()` awaits the last command once, so a third caller runs at the same time as the
  second (935); two requests of one transaction at once check out two connections (`client.ts:78`).
* The statistics count a reserved connection that closes and is then released twice.

*SQLite pool* (`sqlite/src/sqlite-adapter.ts`).

* Between `release()` and the waiter's reaction the first connection is also given to whoever
  asks (274): two have it, `activeConnections` drifts, and a BEGIN inside the other's
  transaction fails.
* That failing BEGIN has overwritten `connection.transaction` (280), so that the other
  transaction's queries give the connection back one by one and count it down each time; then a
  second connection of a ':memory:' database, which is another database, can be
  created (comment at 232).
* Two queries of one transaction at once replace its connection, and a session whose `begin()`
  failed keeps its transaction: `rollback()` throws.
* The MySQL pool counts a connection before the await that may fail, and does not count it down.

*Session* (`orm/src/database-session.ts`).

* A group's snapshots are taken after its statements (323, `identity-map.ts:128`): what the
  application changed during the await counts as stored (comment at `identity-map.ts:73`,
  "last known values known to be in the database"; `Quiet`).
* `add()` skips an entity that the open round removes (98), and its references with it:
  `remove(x)`, `add(x)` and `flush()` delete `x` from the database, or leave a new `x` unstored,
  without an error, against the documentation of `add()` (594; `AddedIsStored`).
* Overlapping `flush()` calls share `currentPersistence` and the rounds: the first to end drops
  them for the other (708, 720-726). An entity added in the microtasks between the end of the last
  round and the end of `flush()` is dropped with the rounds.
* A flush that fails or is prevented drops what was queued.
* An insert that succeeded before a listener or the update of its group failed is stored but
  not known, so the next flush inserts it again; a rollback leaves entities known that are not
  stored; an insert that a listener prevented counts as stored.
* Without the identity map a removed entity stays known.

## 5. What is proved

Every theorem is about any value of the constants that satisfies the named assumption of the
module; the runs of section 3 evaluate these assumptions. The argument is always the same: an
inductive invariant `IInv` that implies the property, one lemma per action that says it is
kept, and a last step that puts them together. What `arrayRemoveItem`, push and shift do to
the items of an array and to "nobody stands twice" is a lemma (`RemoveItem`, `PushItem`,
`ShiftItem`) in each module that needs it.

`ProcessLockProofs` proves, for any set of lock objects and ids and any choice of
ttls and timeouts, from the assumption that every object has an id and that the
options are Booleans (`LockAssumption`):

* type correctness, `MutualExclusion`, `EntryIffHeld`, `WaitersQueued` and
  `TimersCurrent` as invariants of the specification;
* `NoBarging` as an action property.

The inductive invariant `IInv` is the conjunction of the five. None is inductive
alone. A hand-over keeps mutual exclusion only because the releasing object is the
only holder of its id and the queue holds only objects of that id; the entry may be
deleted only because everybody who waits stands in the queue; and a timeout may
reject only because a waiter has exactly one place. There is one lemma per action:
`CreateStep`, `AcquireWaitStep`, `HandOverStep`, `FreeStep`, `WaitTimeoutStep`, and
`NoEffect` for calls that change nothing. `ttl` expiry is `unlock()` and uses its
lemmas.

It also proves that ProcessLock implements FifoLock (`Refinement`, from
`NobodyAssumption`: the value for "no owner" is no lock object). The mapping chooses
the object that holds an id, so every step needs the invariant: the chosen object
is determined only because the holder is unique (`OwnerIs`), the owners of other ids
stay what they are (`OwnerKept`, `OwnerChanges`), a hand-over serves the first of the
line because the queue holds only objects of the id, and a timeout gives up one place
because nobody has two. One lemma per action maps it to `Take`, `Queue`, `Release` or
`GiveUp`; the calls without effect stutter.

`BrokerLockProofs` proves `GrantsReleasable`, `CloseReleases`, `LateUnlockHarmless` and
`OverOnBroker` for any items, requests and connections, whichever connections may
break, from `BrokerLockAssumption` (every request has an item, every item its
connections). As the actions of BrokerLock are written with those of its instance of ProcessLock,
the invariant of `ProcessLockProofs` holds on the broker (`Invariance`) and is used there: a lock object that waits has a timer, one that is handed the lock waited.
The invariant `IInv` of the broker itself says, request by request, what client and broker
know of it at each point of its life: not sent (`NotSent`), its message under way
(`OnItsWay`), in the queue (`InQueue`), its answers under way (`Answers`), holding or over
(`Tenure`). `GrantsReleasable` alone is not inductive: that a lock is still listed when its
answer arrives needs that the answer was sent in the step of the grant and that no Unlock
can have overtaken it (`Answers`), and that an item's call is settled by the answer to it needs
that the answer is the only message under way to the client about that request (`OnceAbout`).
The lemmas on channels (`SentMessage`, `TakeMessage`, `DropMessages`) say what writing, reading
and losing messages do to what is under way about each request; `Grant` says what the promise
reactions of a step do; then there is one lemma per action, and `Frame` for the requests an
action does not concern.

`MongoPoolProofs` proves `Exclusive` and `NoSlotLost` for any users, finitely many
connection objects and any `maxPoolSize` (`PoolAssumption`). They need each other, and two
facts about transactions: a COMMIT or ABORT is under way only on the connection of its own
transaction (`EndsItsOwn`), and what a transaction has left behind stays reserved
(`LeftIsReserved`), so nobody else takes it before the finalizer gives it back.
The lemmas follow the operations: `GiveBackKeeps` is the walk of `release()` over a queue of
any length, with `LeaveQueue` for what remains of it.

`SqlitePoolProofs` proves `Exclusive` and `TransactionIntact` for any queries, transactions,
connections and limits (`SqliteAssumption`: a transaction has one query at a time). The
invariant says where a query stands: who is in a transaction on its way is in a live one
(`BusyIsLive`), with its connection once it has checked out (`HasItsTransactions`).

`DatabaseSessionProofs` proves three properties for any entities, types, references one level
deep, rounds and flushes (`SessionAssumption`).

* `SnapshotIsStored`, under `Quiet`. That the group which is stored as known is stored as it
  is in memory follows from how `flush()` got there: `GroupKept` says so for the entities that
  are inserted, changed and untouched; `RoundKept`, that the round in commit is left alone;
  `MapKept`, that a DELETE finds the entity in the identity map.
* `NoDoubleInsert`, with no condition on the application: `UnknownKept`, that what is not known
  is not stored, does not depend on the values an entity has. The common invariant therefore
  compares versions with `Agree`, which asks for equality under `Quiet` only.
* `NothingLost`, with no condition on the application either. What is wanted and was not skipped
  by `add()` (`Accepted`) is stored, or queued in a round that
  is still to come, or in the part of the round in commit that is still to do (`WantedKept`);
  no round adds what it removes (`Disjoint`), and what a round removes although it is accepted was
  added to a later one (`Requeued`).

`BrokerCacheProofs` proves `FreshAfterInvalidate`, `FreshWhileValid` and `BuildsShared` for any
processes, calls of `get()`, ttls and versions (`BrokerCacheAssumption`). The invariant has two
halves. `Post` is about the messages: one that names a call is the only one under way for it,
on both channels together, and finds the call where it waits for just that message, so that no
answer is taken for another. `Store` is about the entries: what is referred to exists (`Reach`), an entry is marked
as building exactly while it has its one builder (`Flight`), its ttl fits its value (`Values`),
no version is demanded that the data never had (`Bounds`), and what an entry holds and what its
builder has read is no older than what any call, process or stale timer that leads to the entry
demands (`Freshness`). `FreshAfterInvalidate` alone is not inductive, because a value is read long
before it is returned: it may come from a build that another call started, or from the broker's
copy, after the invalidation has gone round.

`BusProofs` proves both layers of the bus. Of the subjects, `ListedIffObserved`,
`ListenersBalanced` and `AllOnceInOrder` (`AllHeard` and `NothingTwice`) for any subjects, handles,
observers and messages (`BusSubjectAssumption`).
`Lists` ties the list of a handle to the observers of its subjects in both directions; `Counts`
says that the adapter counts no more listeners than handles hold a channel and, under `Patient`
and without a hasty finalizer, that at most one release waits for the channel of a handle and that
nobody listens to that handle, which is why closing takes exactly one from the adapter's count. A
finalizer runs at any time in these proofs as in the model.
`Heard` is `AllHeard` with what it needs: the buffer of a live handle without subjects
covers everything since the handle became live (`Covers`), so the replay closes the gap before
the first observer. `NothingTwice` needs `Later`: what is buffered is newer than all that any
subject of the handle ever got, also if it is left from a subscription that ended early.

Of the channel below, `SubscriptionsMatch` and `NothingMissed` for any clients and listeners,
from `BrokerBusAssumption`. The invariant `ChannelInv` says per client that the broker lists it at
most once (`Registered`), which answer each listener waits for (`Awaited`), that the requests
under way are at most an Unsubscribe and then a Subscribe (`Requests`), and that the broker agrees
with its client whenever none is under way, or an answer that says so (`Agreed`); and per listener which messages it has and which
are still to come on the channel of its client (`Follows`). `NothingMissed` needs `Agreed`: a
message is put on the channel only of those the broker lists when it handles the Publish.

`QueueAndRpcProofs` proves, of the queue, all three invariants of its run, for any sets of
clients, messages, calls of consume() and connections, from `BrokerQueueAssumption` (each consume()
has its client, and no two clients one connection). The invariant has layers, each inductive with
the help of the ones before it.

* `QueueTypes`, with what a consumer has at a time: one message at most.
* `HashesKept` proves `Deduplicated`: the hash of an accepted message is known until its interval
  is over, so a second one of that hash is accepted only after that.
* `CallsCounted` proves `SettledWasProcessed`. The copies of a message under way on all channels
  (`Way`) and the calls of a callback with it are together no more than its tries. Counting over
  all channels needs no induction: a step maps the places of the new state one to one into those
  of the old one (`NotMore`).
* `CallsLimited` proves that a client runs no more callbacks than it called consume(). A request under
  way or an answer that will free a slot, a free slot, a message under way and a running callback are
  tokens of a client (`Tokens`). Only consume() makes one. The other steps turn tokens into
  others, no two into the same; an Unsubscribe, an answer to an unknown slot and a lost
  connection destroy them.
* `Reachable`: packets are under way on open connections only, of which a client has one.
* `Ordered` proves the rest of `SlotsAccounted`, under the condition that property states. On an open
  connection at most one Subscribe, Unsubscribe or Ack is under way (`OneControl`); what it
  means for the consume() it belongs to is `Stages`; the broker has one consumer at most, and what it is
  given finds a callback (`Served`); then each message of the consumer is on its way, in its
  callback, or its answer on the way back (`Accounted`).

Of the RPC client, it proves `RepliesAccounted` for any messages, sockets and transports, late
events included (`RpcAssumption`), and `ConnectionUsable`, which the module states for sockets
that are silent once they are given up. The first is inductive as it stands. The second is not:
`Steady` says that one attempt at most is under way and which socket the variables name at each
stage of it, and that what was sent on the current connection was sent to its socket, so that a
disconnect leaves nothing stale behind (`DropSteady`).

**Only model-checked.** All liveness, which is out of the proof system's reach: `EveryWaitSettles` and
`EveryTenureEnds` of the locks, `EveryCallSettles`, `MessagesArrive`, `ObserversHear`, `EveryRequestSettles`,
`EveryWaiterServed` and `ConnectSettles`. Every invariant and action property that a passing run
checks is also a theorem.

## 6. Not modelled

The modules cover a small part of the repository's lines: most of them are compilers,
serializers and reflection (`type`, `type-compiler`, `bson`, `core/src/jit.ts`, `template`, `injector`), pure
functions of large inputs whose correctness is a matter of data, not of order. A model
checker would run them on inputs too small to say anything, and a model of them would be the
program again.

* Broker: the key-value store (one map; its ttl timer deletes a newer value, `kernel.ts:587`),
  entity fields (no client uses them any more), snapshots of the queue and the Redis adapter,
  whose state is on the Redis server. `isLocked`, `exists()`, `set()` and increments only read, or
  only send one message.
* Core: the Mutex class, a lock without ttl and timeout; the pure helpers.
* Rpc: chunking, peers, the server with its actions and observables, and the transports. Messages of
  more than one chunk and the acknowledgements are a matter of the wire format.
* Mongo: several hosts and their selection, commands and retries, the statistics.
* SQL: the MySQL and Postgres pools around the drivers' own pools, which queue the waiters and
  are not in this repository; query building and migrations, which are text.
* Orm: queries and hydration; sessions without identity map; overlapping `flush()` calls, a misuse
  that section 4 describes; topsort, whose result DatabaseSession takes as given.
* http, app, framework, event, workflow, logger, filesystem, graphql, stopwatch, the examples and the
  bundler plugins: sequential per request or per call, or input and output.

`PROJECT.json` lists every component with its status.
