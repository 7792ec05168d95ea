# A verification project for the GridDB C client

The GridDB C client (`src/client/c`) is the library an application links to
reach a GridDB cluster. Almost all of its logic is one translation unit,
`client.cpp`, to which the plain line numbers below refer; `server/` holds
helpers it shares with the server and `utility/util` a portability library.
There is no unit test in the tree, so that the code, the comments of
`gridstore.h` and the assertions in the code are the references.

This directory models the client's control logic in TLA+, checks it with TLC
on small instances and proves what matters most with TLAPS.

## 1. Inventory

| Component | State it keeps | Operations | What makes it correct |
|---|---|---|---|
| `GSGridStoreFactory` (12053-12530) | channels by cluster key, their configuration, one mutex | `getGridStore`, `setProperties`, `close` | one channel per cluster key; a change of configuration reaches every channel |
| `GridStoreChannel` (9870-10560) | pool, resolver, failover configuration | `executeStatement`, `updateConnection`, `applyPartitionId`, `checkActiveConnection`, `clearContext`, `executeResolver` | a connection is owned once; a row set is fetched where it was opened; every statement ends |
| `GridStoreChannel::Context` (10801-10947) | partition, active connections by address, last connection, session numbers | set and read by the channel | belongs to one `GSGridStore`, used by one thread at a time |
| `NodeConnectionPool` (8470-8640) | idle connections by address, queue of addresses, evicted connections, maximum size, one mutex | `resolve`, `add`, `setMaxSize`, `clear` | a connection has one owner, the size is bounded, what is evicted is closed |
| `NodeConnection` (7045-8230) | socket, statement counter, heartbeat count, `responseUnacceptable_` | `connect`, `login`, `reuse`, `executeStatement`, heartbeats | a caller gets the reply to its own statement or an error, and a node that is silent holds no caller |
| `NodeResolver` (8642-9870) | master address and connection, partition and address caches, invalidation counters, one mutex | `getNodeAddress`, `getPartitionCount`, `invalidateMaster`, ... | no stale answer after a report; the partition count never changes |
| `ContainerCache` (11027-11178) | cached schemas and sessions of one store | `findSchema`, `cacheSchema`, `removeSchema`, `takeSession`, `cacheSession`, `takeAllSessions` | bounded; a session is given to one container at a time |
| `GSGridStore` (12886-15335) | reference count, open resources, open containers, buffers | container DDL, `multiPut`, `multiGet`, `fetchAll`, `close` | closing releases everything, here and on the server |
| `GSContainer` (16095-18650) | session, statement and transaction numbers and flags | row operations, `commit`, `abort`, `setAutoCommit`, DDL, `close` | a statement is executed once; a transaction is atomic although the server may lose its session |
| `GSQuery`, `GSRowSet` (18968-19665) | partial fetch and partial execution status | `fetch`, `next`, `update`, `remove` | an update goes to the transaction that locked the row; partial results make progress |
| Resource references (13007-13104, 16157-16290) | reference counts, sets of open resources | `createReference`, `removeReference`, `close` | each object is deleted once, after all that refers to it |
| `GSInterceptorManager` (11775-12030) | registered interceptors, one recursive mutex | `add`, `remove`, `activate`, `start`, `finish` | what is started is finished |
| `ServiceAddressResolver` (`server/service_address.cpp`) | one HTTP request, address sets | `update`, `checkUpdated` | a failed exchange leaves the old addresses |
| `RowMapper` (2190-5640) | layouts of row types, a cache of mappers | `encode`, `decode`, cursors | the server reads the rows that were written, the client those that it answers |
| Container keys, predicates, time, authentication, C API wrappers | nothing that outlives a call | conversions | pure functions |

How they interact: the factory creates channels, one for each cluster, and
stores on them. A store and its containers make a request in the buffers of
their context and call `GridStoreChannel::executeStatement`; it asks the
resolver for the address of the partition, takes a connection to it from the
context, the pool or anew, and sends. Exceptions are the control flow of
failures: a `ConnectionException` is handled by the channel (try again), a
`StatementException` about a session by the container (open another one), a
`WrongNodeException` by channel and resolver (ask the master again). Factory,
pool, resolver and configuration are shared by threads and have a mutex each;
a store and what hangs on it belong to one thread at a time.

What is hard:

* **Shared state.** The pool closes evicted connections outside its mutex; the
  resolver's caches are invalidated by one context while another one waits.
* **Stale state.** Addresses, the master, schemas and sessions are cached and
  dropped when they turn out wrong, once per fault.
* **Failure.** A statement is sent again without the client knowing whether
  the server has executed it. A session may be lost with its node.
* **Time.** A reply that does not come triggers a heartbeat on the same
  connection, and the late reply races with the heartbeat's.

`PROJECT.json` lists every component with its status and every hazard with its
line and the properties that watch it.

## 2. Modules

### `NodeConnectionPool`, with the abstract `ConnectionLifecycle`

The four shared variables have the names of the fields; `held` is what each
thread owns, and `connectionList` is the local list of each call of
`closeExceededConnections`. A critical section is one step;
what runs outside of one (connecting, logging in, deleting, using a
connection) is a step of its own. `ConnectionLifecycle` is what callers rely
on: a connection is free, idle, held by a thread, or being closed, and goes
from one to the other in that order. `ImplementsLifecycle` is the refinement.

### `ContainerCache` and `StoreContainers`, with the abstract `SessionLedger`

`ContainerCache` has one operator per method of the class, on a record of its
four maps and two counters. `StoreContainers` is a store, its open containers
(*handles*) and the server's containers and sessions: opening with and without
the cache, schema changes and drops by others, statements in sessions, repair
of a lost session, closing of handles and of the store. The server's part is
external: what it does with a request is modelled from how the client reads
its replies. `SessionLedger` is what containers rely on: a session number is
new, then *held* by a handle of one container or *kept* for the next one, its
statement numbers go on by one, and a number that was given up is gone for
good. `ImplementsLedger` is the refinement; `Whereabouts` says of a number
where it is: with a handle, in the cache, or, if it was generated, nowhere any
more. What is not held or kept is gone although the server may still have it.

### `NodeResolver`, with the abstract `Directory`

One step of a call ends where the code waits for the network: the lock, the
notification, the selection of a member, the exchange with the master, the
exchange for a partition. `nodeAddressMap`, `masterCacheCounter`,
`connectionTrialCounter`, `connectionFailedPreviously` and the three
`ClusterInfo` fields have their names; the three entries of `ClusterInfo`
(count, hash mode, database id) are handled alike and are one. The cluster
around it changes its master, its placement and its nodes' reachability.
`Directory` is what a context relies on: what it is told of a partition comes
from one reading of the cluster, made after the answer that it last reported,
and it learns the count of the partitions once. `ImplementsDirectory` is the
refinement.

### `ContainerSession`, with the abstract `Transaction`

One container in a session, over a channel that loses requests and replies
and sends again. `stage` says which statement of the call is under way: the
creation of the session, the statement itself, the cleaning up after a refused
one, the repaired session, the final try. `pending`, `maybe` and `sent` are
history: the rows acknowledged in the transaction, those in doubt, all of
them. The server executes a statement number of a session once, keeps a
transaction per session and may lose a session at any time. With the present
protocol the client numbers the sessions; older protocols are left out.
`FetchAll` is a query of the container in a request of `gsFetchAll`: it takes a
statement number whenever there is a session, but runs in the session only in
a transaction that has started, and the store neither closes nor repairs a
session when it fails. `Transaction` is what an application relies on: rows are
offered, doubtful and acknowledged; a transaction becomes durable as a whole or
ends; and what the application is told of a commit, an abort or a read is true.
`ImplementsTransaction` is the refinement: `pending` and `maybe` are the rows of
the transaction, and the reply to the call (`Told`) is the answer.

### `NodeConnection`

One connection: the statement under way, the heartbeats sent while it waits,
and the socket (`inbox`), in which replies arrive late, in any order and in
two pieces. `pc` names where the client is: waiting for the head or body of
the reply, of a heartbeat's, or of the late reply that came in its place.
There is no clock: the watch of `processHeartbeat` never runs (section 6), so
that the statement timeout matters only by not being longer than that of a
heartbeat (`shortTimeout`), and then ends a statement before its first one.
Channels delete a connection that failed; the resolver gives it back to the
pool, and `Get` then goes on with it.

### `GridStoreChannel`

The failover loop of one context: `Start` to `Finish`, with `Send` for
`updateConnection` and the request, and one action for each way a trial ends.
`Fail` is the handler of `ConnectionException` in its order: heartbeats reset
the time, the connection is deleted, the master is invalidated (modes 0 and
1), a fetch gives up, the first failure of mode 0 is tried again at once, the
timeout is tested, the thread sleeps. `failing` is the time since
`failoverStartTime`, in retry intervals; the time of a trial itself counts to
the interval that follows. `rowSet` is one partly fetched row set, `switched`
and `broken` are history. Connections of other contexts reach this one through
the pool. An object that is deleted may be allocated again at the same place.

### `RowSets`

The queries and row sets of one container. `resource` is the heap, by address,
because `activeResources_` is a set ordered by pointer and `closeSubResources`
goes through it in that order; `handle` counts what the application holds,
`server` is what the node keeps for results that are read in parts. An
operator on a record of the heap stands for a function that may throw: its
value is the set of outcomes, and `ok` says whether it returned. `pc` is
`following` while a row set reads on, `closing` inside `closeSubResources`,
with `stack` for the iterations its exception handler begins, and `releasing`
in the loop of `close(allRelated)`. An iterator whose resource was deleted
reads memory that is not its own: the iteration goes on anywhere
(`EndOfIteration`), or the process ends (`Crash`). `unread` and `aborted` are
history. `ContainerSession` has the statements, here only what they mean for a
row set: `transactionId`, `transactionStarted` and `autoCommit`.

### `MultiPut`

`gsPutMultipleContainerRows`: one request for each partition, and for each
request a session of every container in it. `stage` says which statement is
under way: the one that creates the sessions, the main one, the one that closes
the sessions, or that one on the way to an exception (`throw`); `Succeeded` and
`Failed` are the ways its reply is taken. `requestMap` is the partitions to
come, `trialCount` and `sessionTrial` the two counters of `executeStatement`.
Statements are told apart by the numbers 1 and 2 in a session. `applied`
counts how often the server has put the rows of a container, `abandoned` is
the sessions the client has given up.

### `Factory`

The settings of the factory and of its channels. A call holds the mutex of the
factory (`owner`) and applies the settings to one channel after the other:
`pc` is `apply` before a channel, then `prefer`, `compute`, `resize` and
`config` inside `GridStoreChannel::apply`. Other threads resolve addresses
meanwhile, under the mutex of the resolver, through the same `compute` and
`resize`. `unapplied`, `created`, `raced` and `short` are history: they name
the cases in which the settings are behind, listed in section 6.

### `MemberProvider`

`updateNotificationMember` of the resolver with the HTTP request of
`ServiceAddressResolver`. The socket does not block, so that `checkUpdated` is
called again and again: `Check` is one such call. An answer comes in four
parts (of the first line, the first line, the headers, everything), and may
stop after each of them; its end is known by its length, by its chunks, or
because the provider closes the connection. `elapsed` is read by the code only
after a check that has read something. `updated` is the pair of flags of that name. `TakeMember` is the
choice of the next member by `updateConnectionAndClusterInfo`. The module shares
no name with `NodeResolver` (`ProviderInit`, `ProviderSpec`), because one module
of proofs extends both. The same holds of `StoreContainers` and
`GridStoreChannel`, and of `RowCodec` and `MultiPut`.

### `RowCodec`

Rows in a request and in an answer. A stream is a function from positions to
the size and content of what was written there, a cursor is a record with the
fields of `BaseCursor` and the stream, and an operator on a cursor stands for a
method of a cursor, or for `encodeField` and `decodeField`. `EncodeRow` writes
one row, `FetchRowSet` makes an answer of any rows that follow each other and a
cursor on it, `DecodeRow` reads one. Two formats (`mode`) and five types: a
type of each size without variable part, the string (which stands for geometry
and blob), the array of strings and the array of fixed elements (of 8 bytes).

## 3. Runs

| Run | Module | Question | Bounds | Result |
|---|---|---|---|---|
| `pool_threads` | `NodeConnectionPool` | Does the pool keep its structures, its size, and one owner per connection, and does it close what it evicts, for threads in any order? | 2 threads, 2 addresses, 3 connections, sizes 0 to 2 | pass |
| `store_containers` | `StoreContainers` | Do cache, handles and server agree on sessions, numbers and schemas, and is the store a `SessionLedger`? | 2 keys, 2 containers, 2 handles, cache of 1, 2 sessions, one change of schema | pass |
| `store_close` | same | Does closing the store release its sessions? | 1 key, 2 handles | violated, see 6 |
| `resolver` | `NodeResolver` | Multicast and fixed list, nodes of two clusters: no stale answer after a report, nothing missing that a call relies on, which counts are kept, every call ends; is it a `Directory`? | 2 contexts, 2 nodes, 1 partition in three placements, 3 calls, 1 change | pass |
| `session` | `ContainerSession` | Exactly-once and atomicity over losses, with `fetchAll` among the calls: does the session implement `Transaction`? | 2 rows, 4 calls, 3 sessions, 1 loss of a session, 1 change of schema | pass |
| `connection` | `NodeConnection` | Does each caller get its own reply? Does each statement end, but with a node that answers heartbeats and never the statement? | 5 requests, statement timeout shorter or longer than that of a heartbeat | pass |
| `channel` | `GridStoreChannel` | Ownership of connections, fetches, and the end of the failover, in the three retry modes | 2 addresses, 2 partitions, 2 connections, 3 statements, timeout of 2 intervals, 1 heartbeat | pass |
| `rowsets` | `RowSets` | Exact references, complete row sets, nothing left on the node; an abort and a close reach every row set although closing fails | 4 resources, 2 queries, 2 rows, 2 states of a partial execution, 3 calls besides opening and closing (4 pass too, in 4.6 million states), 1 failure | pass |
| `multi_put` | `MultiPut` | Are the rows of every container put, as few times as can be, and are the sessions closed? | 3 containers in 2 partitions, 1 call, 9 sessions, 2 losses, `MAX_SESSION_REPAIR_COUNT` 2 | pass |
| `factory` | `Factory` | Do the settings reach every channel, and does the pool have room for the addresses known? | 2 threads, 2 channels, time-outs 0 and 1, sizes 0 and 2, 1 address | pass |
| `provider` | `MemberProvider` | Are the members those of a complete answer, and does a call end when its answer is over, whole or not? | lists of 0, 1 and 2 members, time-out of 2 sleeps | pass |
| `codec` | `RowCodec` | Is what is read what was written? | schemas of 1 and 2 columns of 5 types, one of 3 and one of 9 columns; 3 rows; thresholds of sizes 2 and 4; lengths 0, 1, 2 and 4 | pass |

Why the bounds are enough: they are the smallest at which the cases meet that
the properties are about. Two threads are needed for an eviction between the
swaps of another; three connections for two idle ones and one in use; a cache
of one element is at its limit with two keys; two contexts are needed for a
report that is ignored because another one came first; five requests are two
statements with the heartbeats of one of them and one that finds the rest in
the socket; three statements are a query, a failure and a fetch; four resources
are two queries with a row set each, so that one fails to close before another;
three containers in two partitions make a request of two and one that follows;
the lengths of strings lie below, at and above both thresholds, where the size
of a size changes, and nine columns have nulls of two bytes. Every
property of a passing run has a mutant of the code, in `PROJECT.json`, that it
refutes under the same bounds: a bound at which the case did not occur would
let the mutant pass. Model values are permuted where all of them are
alike; the runs with liveness use no symmetry. `MAX_SESSION_REPAIR_COUNT` is 1
instead of 2, but in `multi_put`. The type invariant of a module is the first
conjunct of another property of its run; the resolver's is only proved.

Deadlock is checked for the pool, which never stops, and for `rowsets`, where
only an idle application with a closed container, or a terminated process, may
stop: every call that is under way has a next step. It is checked for
`factory`, where threads that wait for a mutex of each other would stop, and
for `provider`. The other models stop when their bounded calls or rows are used
up, and say `CHECK_DEADLOCK FALSE`.

A report that is ignored because of another context's, after which the first
context reads again and is told of the new master, takes more calls than
`resolver` has: there `Directory` is covered by its proof alone.

### Fairness

* `pool_threads`: a thread inside an operation goes on (`WF` of `Continue`).
  Threads are free to make no calls.
* `resolver`: a call inside the resolver goes on, and the nodes learn in the
  end who the master is. Both are needed. That an exchange with a node ends is
  an assumption, true of a node that answers or is silent; one that answers
  heartbeats and never the statement holds the call, and the mutex, for ever
  (`connection`). Without the second, the loop at 9187 follows redirections for
  ever, with the mutex held. `EveryCallEnds` is about that loop.
* `connection`: the client goes on, since `readFully` returns at the time-out of
  the socket, for a heartbeat timeout that is not 0 (8090 accepts 0, and the
  socket then waits without limit). The node owes nothing: it may never reply.
  `StatementEnds` leaves out a node that answers one heartbeat after the other,
  which it names `HeartbeatsAnswered`: in the model the bound on the requests
  is reached then, in the code nothing is.
* `channel`: a trial ends, which is an assumption on the node as for `resolver`.
  Heartbeats are limited by a bound. Without it the statement need not end:
  each failure after an answered heartbeat makes the time of the failover start
  again, which is the code's intention.
* `provider`: the thread of the call goes on. The provider owes nothing: it may
  stop at any point of its answer, and `AnsweredCallEnds` says of what has come
  (`AnswerOver`) that the call then ends. All else may hold it for ever
  (section 6).

## 4. What is proved

All theorems are about `Spec` without fairness, and hold for every value of the
constants that satisfies the named assumption of the module. Each proofs module
has the same order: the parts of the inductive invariant, lemmas about the
operators of the model, lemmas about what several steps have in common, one
lemma per part for every step, `InitIInv`, `NextIInv`, and the theorems. What
follows says why the properties are not inductive by themselves.

`NodeConnectionPoolProofs` (`PoolAssumption`). `SingleOwner` needs that the
connection that a thread logs in on is its own, that a thread has something in
its local list only while it deletes, and that the thread in `adjustSize` has
the mutex (`ThreadsInv`). One lemma per operation shows where a connection
goes. From it `PoolImplementsLifecycle` follows: each step moves one connection
along the abstract life cycle, or none that it can see. `QueueMatchesMap` is a
statement about the domains of two structures; it is proved from `QueueInv`,
that the queue has as many entries of an address as the map has idle
connections to it.

`NodeResolverProofs` (`ResolverAssumption`). `FreshAfterReport` compares
an answer with a history, and is inductive only with `Fresh`: for a context
whose `lastMasterCacheCounter_` is not the present one, every cached entry is
newer than its last answer, so that its report may be ignored. `ReadyToAnswer`
needs that at most one context is inside the mutex (`Exclusion`), that a call
that connects has an address for it (`MasterNamed`), and that only a call for
a node asks for a partition (`NodeWanted`).
`ConfirmedCountStable` is an action property, from the same invariant; it has
no run of its own, because `Directory` contains it.
`ResolverImplementsDirectory` maps each step to a reading of the cluster, a
report, an answer, or nothing that is seen: the report of a context that is
ignored is a step of `Directory` all the same, because of `Fresh`. The module
also has the theorem about `MemberProvider` (`ProviderAssumption`), which it
extends too: `MembersGiven` needs that what is called complete was given by
the provider (`ListsInv`), and that the position of the last member is within
the list it was selected from (`SelectedInv`).

`NodeConnectionProofs` (`ConnectionAssumption`). Replies are what the node still
owes and what has come, in two pieces of which the first may have been read in
part (`SocketInv`). The numbers of GET and CONNECT are never used twice
(`IdsDiffer`); a PUT has none of its own, so its reply has to be read before
the next statement, or the connection deleted (`PutsEnd`); a reply to the
statement says what the node said, and once it was read there is no other
(`OwnAnswered`). `NothingElse` is `InSync` at each position of a call: as long as
nothing has failed, only the replies that are due there can come.

`GridStoreChannelProofs` (`ChannelAssumption`). `ConnectionsOwned` needs that an
entry is to the address of its connection (`ActiveInv`), that the pool has only
live ones that no context has (`PoolInv`), and that ids differ; `NewId` exists
because there are no more connections than addresses (`FreshId`). For
`FetchOnQueryConnection` the connection of the row set is followed from the
query on: while it lives and no other partition was used it is the last one
(`SamePartition`), and when it is gone no other has its id, although a new
connection may be allocated in its place (`RowSetInv`).
The cache of containers is part of the context of a channel, and the theorems
about `StoreContainers` (`StoreAssumption`) are here too; the module extends both.
`SessionUsedOnce` and `StatementsNew` need that no session anywhere has a number
beyond the last one generated (`NumbersKnown`), and that a statement that needs a
session has one (`StatementOK`). Steps are taken together by what they do to the
sessions: they take none (`NoneTaken`), a new one (`NewSession`), that of the
cache (`SessionTaken`), put theirs there (`SessionKept`), or count in the one
they have (`NumberedNext`). `CacheConsistent` follows from `CacheOK`, which the
operations of the cache preserve: the code tests the size of the list of names,
which has as many entries as there are schemas, because the two maps are inverse
to each other (`FewNamesFewSchemas`). The list of sessions has no such property
(section 6, 11151), and for it only what `SessionsListed` says is proved.
`StoreImplementsLedger` follows the kinds of steps (`StoreMoves`): the invariant
gives each number one place (`PlacesKnown`), each kind moves at most one number
from place to place (`Moved`), and all others stay or are given up (`Left`), a
session that a cached one is replaced by or evicted for among them.

`ContainerSessionProofs` (`SessionAssumption`). What client and server agree on:
while the client takes a transaction for open and the session lives, the server
has it, with every acknowledged row and none that was never sent (`Agree`, in
`TransactionInv`); a statement in a session has the number after the last one,
or the server has executed it (`Executed`), and what then holds on the server
holds whether the reply came or not. `RepliesInv` is what a reply says of a
session that has not been lost since. `RowSetInv` orders the transactions of row
sets, `UpdateInv` that an update goes on in the transaction of its row set, and
`NothingLost` when a row without a key can still be sent again: only where it has
not become durable, as long as no session was lost.
`SessionImplementsTransaction` takes the kinds of steps that the invariant was
proved for (`StepSplit`) one by one: a statement that makes rows durable is a
`Commit` of all that was acknowledged (`DurableWhole`); a reply that comes is
true (`Tells`), for a read because of `Agree` and for an abort because of
`DurableInv`; the others offer, acknowledge or end, or nothing is seen of them
(`Quiet`). `ReadsOwnWrites`, a part of the invariant, is the part of the promise
about reads, and has no run of its own.

`MultiPutProofs` (`MultiPutAssumption`). Rows are put again only in another
session, and another session is taken only after a loss; `PutOncePerLoss`
counts both (`LossesCounted`, `AppliedCounted`). `AllPut` follows the order of the
partitions through the call (`PartitionsPut`); `SessionsClosed` needs which
sessions of the server the call knows, and why each other one is there
(`SessionsKnown`).
The rows that such a call sends go through `RowCodec`, and the theorems about it
(`RowCodecAssumption`) are here. A decoder is applied to another stream
than the one that was written, which agrees with it on the bytes of a field
only: `WriterKeepsAll` says that a writer leaves alone what it has passed,
`ReaderKeepsAll` that a reader changes its own position only, and the lemmas
about sizes, fixed and variable values say what is read between the two.
`CodecValueExact` puts them together for a value of the variable part, for any
length and any thresholds; `CodecFieldExact` for a field, which goes from the
fixed part of the list to the variable part and back. Arrays of strings, whole
rows and lists of rows are folds of these, and beyond the prover (section 5).

`RowSetsProofs` (`RowSetsAssumption`). `HeapInv` is stated for any heap, because
a close runs through several heaps within a step: each query a row set that is
there or none, and no two have the same (`LinksOK`); a count is the handles and
that query (`CountsOK`); an open row set is held by a query and has not lost a
row, and the node keeps results for open row sets only (`OwnedOK`). The lemmas
about the operations on a heap preserve it, and each action is made of them.
`ClosedHoldsNothing` and `AbortedUnreadable` rest on `ClosingInv`: whatever fails
and wherever the iteration goes on, what it has passed stays closed.

`FactoryProofs` (`FactoryAssumption`). Two mutexes are held by the threads at the
positions between which the code has the lock (`LocksInv`). `ConfigReflected`
follows the settings from the factory to each channel, one channel after
another (`ConfigApplied`); `PoolSizeFollows` follows the size from the count of
known addresses, read before the pool is locked, to the pool (`SizesCurrent`),
for the channels that one thread updated at a time (`UpdatesAlone`).

The proofs have corrected the models where these said less than they meant: a
factory needs at least one key, the null values of the channel and of the row
sets must differ from what they stand beside, an execution of a query can give
a row, and two guards in the server's part of `ContainerSession` overlapped.

| Theorem | Property of a run |
|---|---|
| `PoolSingleOwner`, `PoolSizeBounded`, `PoolEvictedHasCollector`, `PoolQueueMatchesMap` | invariants of `pool_threads` |
| `PoolOrphanedOnlyBySwapBack` | `OrphanedOnlyBySwapBack` of `pool_threads` |
| `PoolTypeCorrect`, `ConnectionTypeCorrect`, `SessionTypeCorrect`, `MultiPutTypeCorrect`, `FactoryTypeCorrect` | `TypeOK`, a conjunct of a property of the run |
| `PoolImplementsLifecycle` | refinement of `pool_threads` |
| `ResolverFreshAfterReport`, `ResolverReadyToAnswer` | invariants of `resolver` |
| `ResolverOnlyConfirmedCounts` | property of `resolver` |
| `ResolverTypeCorrect`, `ResolverConfirmedCountStable` | proved only; the second is a part of `Directory` |
| `ResolverImplementsDirectory` | refinement of `resolver` |
| `ConnectionOwnReply`, `ConnectionInSync` | invariants of `connection` |
| `ChannelConnectionsOwned`, `ChannelFetchOnQueryConnection` | invariants of `channel` |
| `SessionCommitCompletes`, `SessionRowSetOwnTransaction`, `SessionAppliedOnce` | invariants of `session` |
| `SessionReadsOwnWrites` | the reads of `Transaction` |
| `SessionImplementsTransaction` | refinement of `session` |
| `SessionAtomicCommit` | action property of `session` |
| `MultiPutComplete` (`AllPut`), `MultiPutOncePerLoss`, `MultiPutSessionsClosed` | invariants of `multi_put` |
| `RowSetsReferencesExact`, `RowSetsOpenResultsOwned`, `RowSetsRowsComplete`, `RowSetsAbortedUnreadable`, `RowSetsClosedHoldsNothing` | invariants of `rowsets` |
| `FactoryConfigReflected`, `FactoryPoolSizeFollows` | invariants of `factory` |
| `StoreSessionUsedOnce`, `StoreStatementsNew`, `StoreCacheConsistent` | invariants of `store_containers` |
| `StoreImplementsLedger` | refinement of `store_containers` |
| `ProviderMembersGiven` | invariant of `provider` |
| `CodecValueExact`, `CodecFieldExact` | the single value and the single field of `RowsExchanged` |

## 5. What is only model-checked

Liveness (`EvictedIsClosed`, `EveryCallEnds`, both `StatementEnds`,
`AnsweredCallEnds`), which the prover does not reach. `RowCodec` computes with
folds over columns, rows and the strings of an array; what is proved of a field
holds of every row by an induction over data, which the prover cannot make, so
that rows stay with TLC (`RowsExchanged`). Nothing else is only model-checked.

Assumptions about what is outside: the server executes a statement number of
a session once and repeats its reply; it refuses to begin a transaction in a
session that has one, and to continue one that it does not have; it refuses a
statement with an old schema version. A statement that is given up is not
executed later (a request delayed in the network beyond the failure of its
connection is not modelled). The node replies to each request at most once. A reply to a fetch without
a row ends the result, and the state of a partial execution never goes back.
The server executes the containers of a `multiPut` in an order of its own, stops
at the first that fails and keeps what it has done. It keeps rows as they
are written, and answers some that follow each other.

## 6. Findings

One property that the documentation states is violated, and has a run.

* `store_close` (12918): the sessions of open containers enter the cache after
  it was emptied, and stay open on the server.

Shown with TLC while the models were built, by an invariant for which no run is
kept; the models contain the behaviour:

* 8634: `closeExceededConnections` swaps its emptied list back. What another
  thread evicted in the meantime is swapped into a local vector and never
  deleted. `OrphanedOnlyBySwapBack` shows that nothing else leaks.
* 11151: `cacheSession` numbers a session with the counter of the schemas, so
  that the session cache has no limit (`gridstore.h:5528` names one).
* 9083: a variable of the search loop hides `index`, and a random backup is
  taken instead of the preferable host (`gridstore.h:19347`).
* 16219: `gsFetch` and then `gsGetRowSet` give two handles of one row set. Its
  close in the loop of `close(allRelated)` gives back one of them, the number
  of resources stays the same and the loop ends: the row set, and what is
  before it in the set, remain, and `assert(resourceSet.empty())` (16222) fails.
* 8706: two threads that update the size of a pool at the same time may leave
  the older size (`raced`). 9889: a channel that is created after
  `maxConnectionPoolSize` was set keeps the default until settings are applied
  to it again (`created`). 10397: a call of `setProperties` that fails at an
  illegal `maxConnectionPoolSize` has changed the settings, which no channel is
  told of, and the same call without the size counts as unchanged
  (`unapplied`). 9353: the address of the master is added to the known ones
  without room for it in the pool (`short`).
* 9713: with `maxConnectionPoolSize` 0, which `gridstore.h:5756` explains as no
  use of the pool, the pool has room for the addresses known.
* 7750: `processHeartbeat` measures the time of a statement with a watch that is
  never started (`util/time.h:423`; the others, at 7275 and 9226, are), so that
  7756 can only fire at the first heartbeat, when the statement timeout is not
  longer than the heartbeat timeout. By default there is no such timeout at all
  (7068, 8056). A node that answers heartbeats and never the statement holds
  its caller for ever: in the model it uses up the requests, however many these
  are, and `StatementEnds` does not hold without the case `HeartbeatsAnswered`.
* 9219, 9239: `updateNotificationMember` looks at its time-out only after a
  check that has read something. A provider that stays silent, that stops within
  its answer with the connection open, or that closes the connection before its
  first line is complete, holds the call and the mutex of the resolver for ever.
* An HTTP/1.1 answer that ends with the connection and comes in two parts is
  refused.

Observed while reading:

* The static `closeSession` (18092) writes its request into the response
  buffer and sends the request buffer.
* The copy of a request for a repair (17654) is taken after `closeSession` has
  overwritten its head, so that it is sent again with schema version 0.
* `putContainer` with a `GSContainerInfo` uses the cache when time series
  properties are given (13656), instead of when they are not.
* A connection that the resolver gave up after a timeout goes back to the pool
  (9369); `OwnReply` shows that the next statement does not take the late
  reply for its own.
* After a failed `commit` the client takes the transaction for finished, and
  a following `abort` returns without sending anything (17090-17148).
  `AtomicCommit` then rests on the server's refusal to begin another one.
* A row without a key may be appended twice when the server loses the session
  between the execution and the second request (`AppliedOnce` says so in its
  condition).
* `updateConnection` does not set `lastHeartbeatCount_` when it takes an active
  connection again (10309): the next failure may reset the failover time.
* `executeResolver` runs in the same loop as statements, and a failure of the
  resolver deletes the context's last connection, which had no part in it.
* `checkActiveConnection` looks for the connection of the row set, and the
  fetch then goes to the last connection: after another partition was used in
  between it may be a different one, if the partition has moved
  (`FetchOnQueryConnection` has the exception `switched`).
* In retry mode 2 a wrong node does not invalidate the master (10074, 10142).
* `closeSubResources` goes on with its iterator after the exception handler has
  closed all resources (18190). A row set that only its query holds (after
  `gsFetchAll`) and that fails to close is deleted there, and the iterator is
  invalid. The model goes on anywhere or ends the process; a row set that the
  application holds is never deleted so (`ReferencesExact`).
* `fetchAll` would create a session for each query for update whose container
  has none (15438), two for two queries of one container, and none after a
  conflict, because the containers have a number by then; but nothing calls
  `setForUpdate`, so that this path is never taken.
* A field of type `ANY` of a row that is decoded again gives its old value
  back twice (4508-4512). `VarDataPool::getUsageSize` (`client.h:5648`) would not
  end with two blocks, but nothing calls it.
* `GSInterceptorManager::finish` compares an id with a position (11876); no
  interceptor is ever active in this source.

## 7. Not modelled

* `GSInterceptorManager`, call logging and the reading of a configuration file:
  only logging registers an interceptor, only properties of such a file switch
  logging on, and the loader of the file is compiled out of this source. The
  list of active interceptors never changes.
* The repetition of CREATE_SESSION in `StoreContainers` when another client has
  the number (17917-17927), which `ContainerSession` has; the closing of the
  session after a refused statement (17633-17641) in `RowSets`, where sessions
  are not told apart; the connection id that an enabled fetch status brings when
  nothing remains (16889).
* The container ids of `multiPut`. Before a creation is answered they are 0, so
  that the request which closes the sessions of a failed creation may close
  none; the model counts these sessions as given up (`abandoned`).
* Of the row mapper: keys given apart from the row, columns of type `ANY`,
  results of aggregations, the binding of columns to fields of a structure, and
  the cache of mappers. Container names, predicates, time and geometry are
  conversions without state.
* I/O (sockets, the parsing of HTTP and JSON beyond what ends an answer, files),
  authentication, the C API wrappers, which check arguments and turn
  exceptions into codes, the portability library and vendored code.
* Multi-container reads (`multiGet`) as far as they are more than `RowCodec` and
  a statement without a session.
* Overflow of counters is modelled for `connectionTrialCounter_`, whose
  modulus is a constant; the others do not reach their limits in a bounded run.

## 8. Plan

Done: pool, resolver, sessions with `fetchAll`, cache and store (each with its
abstract specification and the refinement), heartbeats, failover, queries and
row sets, multi-container puts, factory, provider, and the exchange of rows;
every safety property of a run is proved but that of the exchange of rows,
which is proved for a field. Left, in this order:

1. `StoreResources`: the references of factory, store and container and
   `close` of a store with all that is related (12940-13104).
2. Pure algorithms against reference definitions: container keys, the choice of
   the partition, session number generation, the bit array.

A later property takes the place of a shallower one, so that the runs stay a
list that can be read.

Files: one module per component, `MC...` for the instances, `...Proofs` for the
proofs. The operators marked *Mutant* are not part of a specification: they
are the altered definitions that show what a property can tell.
