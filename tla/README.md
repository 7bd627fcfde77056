# Pion: a verification project

This directory holds TLA+ models of the Pion application server and its Event
platform (`common/`, `net/` and `platform/`, in C++) with its web interface
(`platform/ui/`, in JavaScript), configurations that model-check
them with TLC, and theorems about them that TLAPS checks for every value of the
constants. Line numbers in what follows are those of the files under the root of
the repository.

It starts with the parts of Pion whose correctness depends on what several threads
do at once, because those are the parts that the unit tests of the repository
hardly reach.

## 1. The system

Pion is three libraries, a server, and a web interface to configure it.

| Part | State | Operations | What makes it correct |
|---|---|---|---|
| **PionLockedQueue** `common/include/pion/PionLockedQueue.hpp` | linked list with a dummy node, head and tail pointers under a mutex each, a count, a version per node, a stack of idle consumers | `push`, `pop` (waiting, polling), `clear`, `ConsumerThread::stop/reset` | no node lost, linked twice or used after free; a FIFO; no consumer sleeps while there is work |
| **PionLockFreeQueue** | the same with compare-and-swap; built only on demand | `push`, `pop` | the same FIFO |
| **PionScheduler, ReactionScheduler** `common/src/PionScheduler.cpp`, `platform/include/pion/platform/ReactionScheduler.hpp` | running flag, active users, thread pool, io_service, keep-alive timer, the queue | `startup`, `shutdown`, `join`, `addActiveUser`, `removeActiveUser`, `post` | not stopped under its users; no thread left behind; shutdown returns |
| **Plug-ins** `PionPlugin`, `PluginManager` | table of shared libraries with reference counts; map of objects | `open`, `load`, `remove`, `run`, `find` | a library stays while an object needs it; longest match |
| **Values** `PionBlob`, `PionId`, `PionAlgorithms` ... | reference counts | copies, base64, URL coding | inverse functions, counts that end at zero |
| **TCPServer, HTTPServer, HTTPReader** `net/src/` | pool of connections, listening flag, lifecycle and timer of each connection | `start`, `stop`, accept, read, handle, `finish` | every connection is in one hand; never deaf; `stop` returns |
| **HTTPParser, HTTPMessage** | header state, chunk state, bytes left | `parse` and its parts | the message does not depend on how reads cut it |
| **HTTPAuth** and users | sessions, cached credentials, expiry | `handleRequest`, `addUser`, `removeUser` | no request of a removed user or an expired session is served |
| **WebServer** and services | handlers and redirects by path; file cache | load, unload, dispatch | the longest prefix wins; nothing unloaded is called |
| **ConfigManager, PluginConfig** `platform/src/` | XML tree and its file | set, add, remove, save | tree, file and objects agree |
| **Vocabulary** | terms by name and number, copy on write | add, update, remove, bind | a reference to a term keeps its meaning |
| **Event, Codec, Comparison, RuleChain, Transform** | reference counts, per-codec position in a stream | read, write, compare, transform | what is written is read back; rules mean what they say |
| **Reactor** `platform/include/pion/platform/Reactor.hpp` | running flag, connections, a flag and a counter that form a lock | `operator()`, `start`, `stop`, `setConfig`, `addConnection` | nobody delivers Events while the Reactor is changed |
| **ReactionEngine** `platform/src/ReactionEngine.cpp` | Reactors, connections, temporary connections, workspaces, configuration | add and remove each of them, start and stop them | the records of the topology agree; nothing leads to a destroyed Reactor |
| **FeedService** `platform/services/FeedService.cpp` | per feed: a mutex, a stream, a Reactor pointer | start, `writeEvent`, `reactorWasRemoved` | pointer not used after removal; Events whole and in turn; no deadlock |
| **DatabaseInserter** `platform/src/DatabaseInserter.cpp` | queue, key cache, connection, transaction, worker thread | `insert`, `start`, `stop`, the worker's loop | stored once; cache true to the table; producers wake |
| **Database, Query, SQLiteDatabase** | connection, prepared statements | open, run, bind, fetch | transactions |
| **Log, Script and Python reactors** | open log, history, pipe, interpreter | start, stop, read | every log read once, across restarts |
| **Server process** `platform/server/` | the managers above, servers, users | startup, shutdown | the order of destruction |
| **Platform services** | the managers, over HTTP | get, set, add, delete | |
| **Configuration pages** `platform/ui/scripts/codecs.js` and four siblings, `platform/ui/plugins/` | an accordion of panes, three kinds of timers, the pane to select and the pane to remove, marks for unsaved changes, requests under way | select, edit, save, cancel, delete, add | one pane per item, showing what the server has or the user typed; nothing unsaved is left |
| **Reactors page** `platform/ui/scripts/reactors.js`, `widgets/CrossWorkspaceConnection.js` | a copy of the engine's topology, as lists of each Reactor and as lines in workspaces; requests under way | add, copy, connect, disconnect, delete, select a workspace | the copy agrees with itself and with the engine |
| **Login, wizard, other widgets** `platform/ui/scripts/` | a login that others wait for; forms | | a refused request is sent again after the login |

### Who calls whom

* A **TCPServer** reads requests on the threads of a PionScheduler and hands them to
  **services**; ConfigService, MonitorService, QueryService and FeedService are such
  services and call the **ReactionEngine** and the other managers, so that several
  administrating threads are normal.
* The **ReactionEngine** calls Reactors with its `m_mutex` held (connections,
  configuration, stop), and passes updates of vocabularies, codecs, databases and
  protocols to every Reactor under another mutex (`PluginManager::run`).
* **Reactors** deliver Events either by a direct call or by posting a reaction to the
  **ReactionScheduler**, whose worker threads take it from the **PionLockedQueue**; so
  the consumers of that queue are also its producers.
* **Feeds** register with the engine as temporary connections. They call the engine
  with their own mutex held; the engine calls them with its own held.
* A **DatabaseOutputReactor** puts Events into **DatabaseInserters** from worker threads
  and starts and stops those with its ConfigWriteLock.

* The **web interface** is a single-threaded script: click handlers, timers and the handlers
  of answers run one at a time. It keeps a copy of what ConfigService answers and changes it when an
  answer says that the server has changed.

### What is hard

Threads that interleave within `push` and `pop`; wakeups lost or sent to the wrong
thread; a lock made of a flag and a counter; flags read without their mutex; sections
of code that give up a mutex half-way; callbacks in both directions between objects with
mutexes; objects destroyed while others hold references to them; exceptions (a lock
that times out after five seconds, a plug-in that fails) in the middle of an update of
several records; timers that fire late; start during stop; a database that fails in the
middle of a transaction; clicks between two timers of one replacement, answers that come after
the user has gone on, answers that never come. `PROJECT.json` lists each under "hazards" at its line, with the
properties that cover it or the reason why none does.

## 2. The modules

| Module | Models | Proofs |
|---|---|---|
| `FifoQueue` | abstract: a FIFO with `Put`, `Take`, `Clear` | (implemented: `LockedQueueProofs`) |
| `LockedQueue` | PionLockedQueue, and ConsumerThread | `LockedQueueProofs` |
| `ReactorAccess` | abstract: a Reactor that readers share and a writer has alone | (implemented: `EngineProofs`) |
| `ReactorLock` | the lock and the running flag of a Reactor, with the mutexes of its callers | `EngineProofs` |
| `Scheduler` | ReactionScheduler as an engine and a TCPServer use it | `SchedulerProofs` |
| `Engine` | the topology of the ReactionEngine and its configuration | `EngineProofs` |
| `Feeds` | FeedReader, FeedWriter and the side of the engine they meet | `FeedsProofs` |
| `TCPServer` | TCPServer with HTTPReader, TCPTimer, HTTPServer and HTTPWriter | `TCPServerProofs` |
| `Inserter` | DatabaseInserter, and its use by DatabaseOutputReactor | `InserterProofs` |
| `ConfigPages` | a configuration page of the web interface | `ConfigPagesProofs` |
| `WorkspaceEditor` | its Reactors page, with the part of the engine it talks to | `WorkspaceEditorProofs` |
| `UserInterface` | the two, and which of them the user works on | both of these |

`MCx` instantiates module `x` for TLC. A definition whose name ends in `Bug` stands
before the one that it imitates, with a slip of the kind that the properties are
meant to catch; it is not used by the specification.

How the modules compose: `LockedQueue` implements `FifoQueue` under a refinement
mapping, and `ReactorLock` implements `ReactorAccess`. `Scheduler` uses what `LockedQueue` shows of the queue and sees it as a
number. `Engine` and `Feeds` use what `ReactorLock` shows of the lock: a writer and a
reader of a Reactor exclude each other, and either may give up with an exception.
`Inserter` uses the same of DatabaseOutputReactor. `TCPServer` and `Scheduler` meet in
the count of active users, which `Scheduler` models for both kinds of client.
`UserInterface` extends the two modules of pages; a behaviour of it is one on one page, as the pages
share neither variables nor requests. `WorkspaceEditor` uses of the engine what `Engine` shows: that each of its
operations changes the topology as a whole.

### LockedQueue

`list` is the linked list from `m_head_ptr`, its first node the dummy; `tail` is
`m_tail_ptr`, which lags while a push is under way; `free` is memory. A push is
`PushBegin` (full test, allocation), `PushLink` (under `m_tail_mutex`) and `PushPublish`
(moves the tail, counts, wakes an idle consumer); a pop is `PopCall`, `PopCheck`,
`PopDequeue` (`TakeHead` or `SeeEmpty`), `PopFree`, `PopPark` (the version test and the
wait), `PopResume` and `PopExpire`. `Stop`, `Reset` and `Clear` are the calls of others,
`PopSpurious` a wakeup without cause. Versions count modulo `VersionModulus`; `size` is
an integer that may be negative, as `m_size` may. Two history variables tell what has become of the idle
list: `strayed`, that a consumer has left its wait other than by a notification and is still listed; `cut`,
that `Reset` took the `m_next_ptr` of a listed consumer.

### ReactorLock

`pending` is `m_config_change_pending`, `numReaders` is `m_config_num_readers`. A reader
waits, enters (counts itself), looks again and backs out if a writer has come; a writer
tests the flag, claims it, and waits for the readers to drain. Both sleep at most
`MaxSleeps` times (50 in the code) and then throw. A writer that finds the flag set takes
the lock for its own. Therefore the mutexes of the callers are part of the model:
`engineMutex` for what goes through ReactionEngine, `pluginMutex` for
`PluginManager::run`, both for `ReactionEngine::stop`, none for `startReactor` and
`stopReactor`. The history variable `crowded` is set when a writer comes while another is at the lock, and
falls when the last thread, reader or writer, has left it. Memory is taken to be sequentially consistent, which the code's plain
`bool` and its volatile counter do not promise.

`ReactorAccess` promises exclusion as long as writers come one after the other: once two have met, nobody is
kept out until all threads have left; then it holds again. An Event is taken up while the Reactor
runs, met or not. Under the refinement mapping a reader enters with its second look at the flag, a writer asks when
it comes to the lock, claims when it starts to write, and the write is one step; waiting, counting and backing out are not seen.

### Scheduler

`activeUsers` is the unsigned count, modulo `CountWidth`. A client's `start` is in three
steps (`add`, `startup`, `register`); an engine holds its mutex in all of them
and a server gives it up; `stop` is the reverse. `shutdown` holds `m_mutex` from its lock
to its end, but for the wait, and goes through `services`, `threads`, `join` and
`finish`. `workerPc` follows `processReactionQueue`; `servicePc`, `stopped`, `armed`,
`expired` and `aborted` are the io_service with its `keepRunning` timer. `idle` is the
queue's idle list as far as it survives its consumers.

### Engine

Every section of code under the engine's `m_mutex` is one action, so that what remains is
what happens between two of them: `removeReactor` disconnects in one and erases in
another. `object` tells live Reactors from destroyed ones; `outputs`, `links` and
`linkNodes` are the three records of a connection, of which `links`, that is `m_reactor_connections`, counts the
entries of each pair, as it is a list and may have more than one; `temps` and `pointer` are the two
sides of a feed's registration; `reactions` are the Reactors that queued reactions refer
to. The actions that may throw have a disjunct for it, with what was changed before. One of these is the save of the
configuration, which comes after the output and the element of a connection have gone and before its entry has
(`ReactionEngine.cpp:307` and `:608`): `kept` in `RemoveThrows`, and the second disjunct of
`RemoveReactorConnection`. `unsaved` is the history of these failures by pair, `failures` their number, which `MaxFailures` bounds.
`addTempConnectionIn()` returns a pointer (`promised`) that the feed stores when the engine's mutex is free again (`StorePointer`);
`missed` are the feeds that were told of the removal in between.
`late` is a history variable: the Reactors that were connected to after their removal
had begun.

### Feeds

One Reactor, and a thread (`Admin`) that removes it or stops the engine. `pc` follows
`start()` of either kind of feed from its construction to its last step; `mutex` and
`engine` are the owners of the mutexes; `rest` and `sending` are an Event on its way to
several connections; `posted` and `cleanup` are what waits in the scheduler's queue.
`told` is history: the feeds whose `removed_handler` was called.

### TCPServer

A connection is at a set of points of its way (`work`), normally one: more than one is
what `ServerConsistent` looks for. `life` is its lifecycle, `timer` tells whether the
timer of its reader is active. The handlers of HTTP requests are external; they are taken
to call `finish()` once, by a response, or later from another thread (a feed), or to
throw. `mutex` is the one connection whose pipelined request is handled inside
`finishConnection()`. `Listen` includes `pruneConnections()`.

### Inserter

`queue`, `keys` and `batch` are `m_event_queue_ptr`, `m_keys` and `insert_queue_ptr`;
`held` and `asleep` are producers inside `insert()`. `worker` follows the worker's loop.
`isOpen` and `inTx` are the state of the database connection, and every call of the
database may fail. Times are left out: keys are pruned at any age, a reconnection is
tried at any time. KeyCacheMaxAge is set and IgnoreInsert is not, so that the table has
a unique index. The worker's `m_keys.clear()` without the mutex is taken as one step.

### ConfigPages

`page.children` and `page.selected` are the accordion's, of which the operators
`SelectChild`, `RemoveChild`, `AddChild` and `Forward` translate what the pages use of dijit
(`dojo-release/dojo/pion-dojo.js`); `page.selected_pane`, `pendingSelection`
and `pendingRemoval` are the page's own. `page.timers` are the timers in the order in which they were
set; one fires after those set before it with a delay no longer. A pane has the item it is for, what its
form shows and of which item, its `config_item`, and its class `unsaved_changes`. `this` is the global variable `_this`.
`config` is the server's. A request is sent, taken by the server or refused, and answered; requests and answers keep no
order, and at any of these points an error may take their place. `user` counts the acts, for the bounds;
`haste` counts those done while the page is not at rest, which is how the properties tell a patient user. An item
is a value with a number, a form is one such number.

### WorkspaceEditor

`editor.registered` is `reactors_by_id`, `members` and `workspace` the two sides of a Reactor's place,
`inputs` and `outputs` its two lists of connections, `lines` what is drawn in which workspace; a connection between two
workspaces is drawn once in each. `box` is the variable `workspace_box`, which selecting a tab sets and removing a
line reads, and `surface` says whether the variable `surface` is defined: `addWorkspace` selects the new tab before
the workspace has a surface, so that it is not until a tab is selected again. A callback may throw in its middle: `thrown` stops the operators after it, and what was done stays.
`acts.rush` counts acts while an answer is awaited, and deletions of a workspace that is not
in sight; `acts.lost` says that an error was not a refusal of the engine; `acts.undrawn` are the connections that the engine has
made and the page could not draw for want of a surface.

## 3. The runs

Bounds are in the `.cfg` files. A "pass" run explores the whole state space.

| Run | Instance | What it shows |
|---|---|---|
| `queue_safety` | 2 producers, 2 consumers without timers, MaxSize 1, 3 pushes of 2 items, 5 nodes, `clear`, spurious wakeups | node ownership, the count and the overshoot of the bound, no lost wakeup, a push wakes a waiting consumer or finds one that has strayed, refinement of `FifoQueue` |
| `queue_live` | 1 producer, 2 workers with or without a timer, 1 push; stop, reset, spurious wakeups | a stopped consumer with a timer leaves `pop`; the queue drains; the push wakes a waiting consumer or finds one that has strayed |
| `reactor_lock` | 1 reader, 2 writers, `connect`, `update`, `start` and `stop`, each under its own mutexes or none, 1 sleep, 3 writes | the counter and the flag are not left behind, readers are kept out until writers meet, both sides return, and `ReactorAccess` is implemented |
| `reactor_lock_two_writers` | `connect` and `update` | *violation*: two writers |
| `scheduler` | 1 engine, 1 worker, 2 threads in `shutdown` or `join`, 2 starts, 2 posts | users are counted; shutdown waits for them, leaves nothing behind and returns |
| `engine` | 2 Reactors, or 1 and 2 feeds, 1 workspace, 2 threads, 1 save that fails after an unlink | the three records of a connection agree but for the entry that such a save leaves behind; who has a pointer is registered, or was told before storing it; nothing dangles |
| `feeds` | 1 reader, 2 writers, 1 worker, 1 administrator | no use after removal, response first, one Event at a time, silence after the null Event |
| `feeds_deadlock` | 1 reader, 1 worker, 1 administrator | *violation*: two threads wait for each other |
| `server` | 3 connections, one of which pipelines | one handler per connection, never deaf, pool complete, `stop` returns |
| `inserter` | 2 producers, 5 Events of 4 keys, a queue of 2 | cache and table agree, stored once, sleepers wake, `stop` returns |
| `inserter_failure` | the same | *violation*: a batch begins in the transaction of the one before |
| `user_interface` | 5 pages with 2 items and 1 to add, 2 clicks, 1 edit, 1 write, 1 hasty act; 2 workspaces and 1 to add, 3 Reactors and 2 to add, 2 connections and 1 to add, 4 acts, of which one in a rush counts for two | pages agree with the server when at rest, but for what could not be drawn, unsaved changes are not left, nothing is removed that the server has, no page is stuck |

### Why the bounds are enough for what they are meant to show

* *Queue*: two of each kind are needed for two pushes to pass the full test together and for
  one notification to have two possible receivers. A consumer leaves the list without a
  notification by a spurious wakeup in the one run, by a timer or `stop()` too in the other; it makes the list a loop when it parks again. Five nodes let three pushes and the
  dummy be linked with one to spare, so that freed nodes are used again. A wrap of the version is
  out of reach of TLC (it takes 2^32 pushes during one wait) and not claimed.
* *Lock*: the code's argument is about a reader and a writer, and two writers. One sleep
  is enough to reach every way of giving up; the sleeps differ only in their number. With three writes two writers
  meet, part, and one comes back to a lock that must be sound again. The bound also means that writers come
  to an end: `ReaderReturns` speaks of a write that lasts for ever, not of an endless stream of short ones, in which a reader
  could find the flag down, count itself, find it up and back out again and again without a sleep that would be counted.
* *Scheduler*: two callers meet in `shutdown`, and two starts reach a second life of the
  scheduler. One worker suffices for the join; that several workers may wait for each other
  on a full queue is stated below and is kept out of the run by 2 posts to a
  queue of 2. Users are counted modulo 4.
* *Engine*: a connection needs two Reactors, a conflict two threads; one failed save leaves an entry that
  meets later removals and connections of the pair. A feed has to do with one Reactor only, so `OneReactorForFeeds` keeps the instance from
  having both feeds and a second Reactor; two feeds let one be told of a removal that throws before it comes to the other. The theorems drop
  these bounds.
* *Feeds*: two writers are needed for Events that mix; a reader, a worker and the
  administrator are the threads that can call a Reactor or remove it.
* *Server*: one connection is accepted while two are in use, and one of those pipelines.
* *Inserter*: a queue of two has batches of two; three Events fill it and put a producer to
  sleep; two Events with one key meet in the cache; with five, a key is used again after the cache was cleared.

* *User interface*: two items are the least for one pane to be left for another, with a third a pane is
  added or, after a deletion, there is a next one; one hasty act puts a click between two timers. One connection
  within a workspace and one between two are the two ways of drawing it; four acts add a workspace, put two Reactors into it and connect them, which is where the page has no surface to
  draw on; three, of which one may be in a rush, create something, connect it and delete it.

### Fairness

* `LockedQueue`: a thread inside `push` or `pop` goes on, and idle timers expire; in
  `WorkerSpec` a worker calls `pop` again, as `processReactionQueue` does. Nobody is
  obliged to push, stop, or be woken without cause.
* `ReactorLock`: threads between the calls of the lock go on. Nothing is assumed of
  `process()` and of the writes: they may last for ever.
* `Scheduler`: threads go on, reactions end, waits end after a second, and the application stops its engine before it shuts the scheduler
  down, as `~PlatformConfig` does.
* `TCPServer`: handlers and timers run, and operations on a closed socket complete. Clients
  need not do anything.
* `Inserter`: the worker goes on, calls of the database return, and the timed wait ends. Nobody
  is obliged to insert or to stop.

* `ConfigPages`: the browser runs timers that have run out, and a request ends, with an answer or an error. Nobody
  has to click.

`Engine`, `Feeds`, `WorkspaceEditor` and the violation runs have safety properties only.

## 4. What is proved

TLAPS checks the theorems below for every finite or infinite value of the constants
that satisfies the assumption of the module, which TLC evaluates in every run.

**`LockedQueueProofs`** — all invariants of the run and the refinement.

* `TypeCorrect` and `NodesSafe`. `NodesOwnedOnce` says that each
  node is linked once, free, or in one thread's hands, and that `m_tail_ptr` is the last
  node whenever `m_tail_mutex` is free. It is not inductive alone, because it says nothing of who
  holds a node at which point: `IInv` adds `HoldersOK` (a producer has a node in its two
  middle points only and holds `m_tail_mutex` in the last one only; a consumer has a node only while it frees it).
  With it, the step that matters is `PopFree`: the dummy that `dequeue()` frees under
  neither mutex (`PionLockedQueue.hpp:110`) is not the one that `m_tail_ptr` will be read from,
  as the list is never empty and its last node is never the head that is unlinked.
  `LinkAtEnd` and `AppendNode` are the facts about lists.
* `SizeIsAccounted`, for finite sets of threads. That the overshoot of `MaxSize` ends at the number of
  producers needs those that have passed the check and not linked yet: `SizeInv` bounds the items and these
  together. A producer that passes the check sees a count that is low by those who are publishing,
  and the two groups share no producer.
* `WakeupsAreNotLost`, for finite sets of threads, some consumer, and `2 * MaxPush + 1 < VersionModulus`: in the
  code, fewer than 2^31 pushes. `VersionInv` says that what was linked after a failed `dequeue()` has a later
  version than the dummy it saw, so that equal versions at line 270 mean an empty queue (`ParkSeesEmpty`);
  `WakeInv`, that when all consumers wait, `m_idle_ptr` is not null, so that the next push wakes one. The
  theorem holds with spurious wakeups, timers and `clear`, although a timer leaves its consumer on the idle list.
* `QueueIsFifo`: `Spec => ImplementsFifo`. A push takes effect in `PushLink`, a pop in `TakeHead`; every other step
  stutters, since it changes only items of nodes that are not linked. `Contents` is the refinement
  mapping as an operator, and `ContentsAppend` and `ContentsTail` what the two steps do to it; `ItemsAreValues`
  is the one addition to `IInv` that is needed.
* `PushesWakeTheIdle`, for any threads, with timers, stops, resets and spurious wakeups: a push that ends while a consumer waits wakes one,
  unless a consumer that woke otherwise is on the idle list still (`strayed`); then the list is not empty, and the push spends its notification
  on its first entry. `IdleInv` is that, unless `reset()` cut it, the list is a chain that has every waiting consumer, and
  nobody else as long as none has strayed (`Lists`), or has no end (`Endless`): a consumer that timed out is in the list when it
  parks again, and is then its own successor or that of one behind it. A list without end stays one, since a push takes its
  first entry only.

**`SchedulerProofs`** — `StoppedSchedulerIsEmpty`, `UsersDeferShutdown` and `EnginesAreCounted`, for finitely many
clients. `Shutting` says which thread has `m_mutex`, and what it has done so far of `shutdown()`; `Budget` is
about types: a handler of `keepRunning()` that is due goes back to some client's `start()`, which bounds their number.
`EnginesAreCounted` adds `Servers = {}` and fewer clients than `m_active_users` can count: an engine is seen as a
user exactly when it is counted because it registers under its own mutex (`OneAtATime`), while a TCPServer listens
before it has registered.

**`FeedsProofs`** — `PointerIsNotUsed`, `ResponseIsFirst`, `EventsAreSentOneAtATime` and `ToldFeedsAreQuiet`,
without further assumption. `Holding` says who has the mutex of a feed where; `NotYet`, that a
FeedWriter which is not an output yet gets no Events; `ToldOK`, that a feed which was told has a closed stream
and reads with no pointer. These are the proof that the mutex of the feed alone protects the pointer;
the deadlock of the run `feeds_deadlock` is the price, and no theorem here speaks of progress.

**`TCPServerProofs`** — `ServerIsNeverDeaf`, `ConnectionsAreHandledInPool` and `ServerIsConsistent`, without further
assumption. `ConnOK(c)` says of one connection where it may be, whether it is in the pool and whether its timer runs; most
actions concern one connection, for which `OneConn` proves the rest once. `start()`, `stop()` and `Listen`, which
prunes, are proved by themselves.

**`InserterProofs`** — `CacheIsConsistent` and `EventsAreStoredOnce`, without further assumption. `Places` says
of each Event that it is in one place, with the producers one by one; `Phases`, which states of
`start()`, `stop()` and the worker belong together: that a worker which is not inserting has no batch is what makes the
swap of the queues safe.

**`EngineProofs`, first part: the topology** — `TopologyCorrect`, `PointersCorrect` and `NothingDangles`, from
`IInv == TypeOK /\ Topology /\ \A t : Unlinked(t)`. `Topology` conjoins the
properties of the run with `Fresh` (a Reactor not created yet has no connections);
`Unlinked(t)` says what the gap in `removeReactor` leaves: what a thread is about
to erase is connected to nothing, unless it was connected to in the gap (`late`). `Fresh` is
needed when a Reactor is created, `Unlinked` when it is destroyed. `RecordsAgree` is exact: a pair has one entry if it
has an element, and one more for each disconnection of it whose save failed (`unsaved`), so an exception anywhere else leaves none; what the failed
save leaves makes every later removal of one of the two Reactors throw, and `RemoveBegin` therefore asks for pairs with a single entry. `PruneStep` proves once
what every removal does, however far an exception lets it come; each action is then a
case of it or adds one connection. `TellFact` and `StoreStep` are the two sides of the pointer that is stored late: a
feed is registered from the moment it is promised a pointer, or was told and is in `missed`.

**`EngineProofs`, second part: the lock of a Reactor** — `LockIsConsistent`, `LockExcludesReaders`,
`StoppedReactorIsQuiet` and the refinement `LockIsExclusive`, for any finite sets of readers and writers, any of the operations and
whatever mutexes they hold. That writers of different callers meet is a fact (`reactor_lock_two_writers`), so
the theorems say what the lock is worth nevertheless: counter and flag are right always; readers are kept out, and a stopped Reactor is
quiet, until two writers are there together, and again from the moment when all threads have left. `LockInv` adds to the
properties who has claimed the flag (`Claimed`: it is set only while a writer that did set it is about; the one that took it for its own never takes it down),
how `crowded` follows the threads (`Crowding`), and that the flag is set from claim to release unless writers have met (`FlagOwned`). With `Claimed`
the flag falls once the writers have gone, although they may take it down early for each other. `Counting` is the step of a
cardinality that each reader makes. `ReaderRefines` and `WriterRefines` map each step to one of `ReactorAccess`.

**`ConfigPagesProofs`** — `EditedPanesStay`, `UnsavedPanesAreKept` and `SettledPagesAgree`, without further assumption, from
`PagesInv == PagesTyped /\ PhaseInv /\ AgreeInv`.
`PagesTyped` holds whatever the user does: the children of the accordion are panes, each once, one of them
selected, what waits to be removed is a placeholder, and an answer that will remove or reload a pane finds one. With
it alone, only a deleted item's pane can go.
The other two parts are about a user who waits until the page is at rest. A page is then in one of
four phases, which are told by its timers: `Resting`, `Leaving` a pane for another, `Replacing` a
placeholder by a pane, and `Returning` to a pane with unsaved changes; that at most one timer moves the selection
is what makes each timer find the page as it was left by the click. Unsaved changes are
in the selected pane only, except while the page returns to it. `AgreeInv` says what the one
request that may be under way knows: what the server will have, or has, when it is answered, so that the handler of the answer
makes page and server agree again. Selecting, adding and removing a pane, and what each does to the list of
children and to the timers, are lemmas of their own.

**`WorkspaceEditorProofs`** — the Reactors page, which shares the lemmas about sequences with the configuration pages.

* `RemovedWereGone`, for every topology and user. `EditorInv` joins the types of the page (`Editors`)
  to what is known of the engine: the Reactors that the page has in a workspace were placed there (`MembersPlaced`),
  and an answer to a deletion is true when it arrives, however late (`CallOK`). This is stable because an identifier
  is not used again: `Later` says of a step of the engine that what is gone does not come back, and each
  request it serves is such a step. `Shrunk(e, f, R, C)` says what a page may have lost: the handlers of deletions are loops whose rounds
  erase lines, change tabs and may throw, and each round is shown to lose nothing but a connection of
  the Reactor that goes. `FoldOutputs` and its siblings carry such a statement through a loop, `FoldExists` and `FoldChain` are
  what they have in common.
* `EditorKeepsInStep`, that the page of a user who waits for answers has `EditorAgrees`. What the page could not draw in a workspace without a
  surface is left out of the engine's side: `Drawn` is the engine without `acts.undrawn`. The invariant is
  `EditorConsistent`, between the page and `Drawn`: at most one request is under way; the page agrees with itself (`Agree`: each Reactor in the members
  of one workspace, each connection in the lists of its two ends and drawn in their workspaces); and the engine is level with the page
  (`Level`), or ahead of it by what the request asks for once it has been served (`After`). Deleting a workspace is two
  requests, and between them the engine is ahead of the page by the Reactors of the workspace already (`Before`). The loss of an answer ends what is said of the
  engine, not what is said of the page. An operation of the page is shown to keep `Agree` with one connection, Reactor or
  workspace more or less (`Joined`, `Disconnected`, `ReactorPlaced`, `ReactorGone`, `WorkspaceGone`, `Opened`), which
  takes that no exception comes: a line is erased on the tab that is shown or on one that is
  there (`OnTab`, `Near`), which is why the user has to look at what he deletes. Within the loops of
  `DeleteReactorFromUI` the Reactor that goes has lists already that nobody looks after: `Holds(e, Q, L, C)` names the Reactors `L` whose
  lists are right.
  The theorem assumes `NoLoops`: the topology that is loaded connects no Reactor to itself. The page does not offer such a connection
  (`Reactor.js:504` and `:528`, `reactors.js:727`), but the engine would take it from another client.

### What is only model-checked

* Liveness (`StopReturns` of three modules, `QueueDrains`, `WriterReturns`, `ReaderReturns`, `ShutdownReturns`, `JoinReturns`,
  `SleepersWake`, `ShownBecomesSelected`), since TLAPS proves no liveness under fairness and no ENABLED here.
* What the violation runs refute.

No module declares a RECURSIVE operator, so all of them can be proved about. Folds are proved about through
their definition as a function on sets of positions, and induction over numbers is done by the least counterexample
(`LeastNat`).

## 5. Where the code departs from its comments

Three departures are violation runs and are listed under "findings":

1. **Two writers of one Reactor** (`reactor_lock_two_writers`). `Reactor.hpp:341` relies on
   ReactionEngine for one writer at a time; `PluginManager::run` takes another mutex. The second
   writer takes the flag for its own thread's (`Reactor.hpp:347`), so it also does not wait for
   readers. `startReactor` and `stopReactor` release the engine's mutex before they call
   (`ReactionEngine.cpp:429`, through `PluginManager::run`), and are writers of the same kind; with
   them a writer may even take down the flag of another and write while readers are active, against
   `Reactor.hpp:343`.
2. **Feed against engine** (`feeds_deadlock`). `FeedService.cpp:217` calls the engine with
   the feed's mutex held while the engine, with its own held, waits for the feed's
   (`FeedService.cpp:166`); the comment at `:214` means to prevent this.
3. **Transactions are not rolled back** (`inserter_failure`), `DatabaseInserter.cpp:526`.

The others were met while modelling. They are in the models, and the properties are
stated so as to say what holds nevertheless; the list says where.

* `PionLockedQueue.hpp:148`: `stop()` notifies without `m_tail_mutex`, so a consumer
  between its running check and its wait does not hear of it, against the comment at `:147`. `StopReturns`
  is claimed for consumers with a timer only; ReactionScheduler gives all of them one.
* `PionLockedQueue.hpp:278`: a consumer whose wait timed out stays on the idle list, and
  the next push notifies it although it is not idle (`:243`); a consumer that sleeps without a timer is then
  passed over. When it parks again it is on the list twice, which makes the list a loop. `QueueDrains` holds because the
  notified one looks for work by itself; `PushWakesIdle` excepts it (`strayed`).
* `PionLockedQueue.hpp:151`: `reset()` of a consumer on the idle list takes its `m_next_ptr` and so cuts off those behind
  it. Nothing in the repository calls it (`cut`).
* `ReactionScheduler.hpp:92`: `m_idle_ptr` survives the ConsumerThreads, which are
  on their threads' stacks (`PionLockedQueue.hpp:318`): after a restart a push may notify one that is gone.
* `PionLockedQueue.hpp:219`: `push` waits in a full queue for consumers; when all workers are
  in `push` (from `Reactor.hpp:423`, deliveries through the scheduler) nobody pops.
* `PionScheduler.cpp:89`: `addActiveUser` reads `m_is_running` before it locks, so that it
  may count for a scheduler that has stopped meanwhile (`PionScheduler.hpp:57`).
* `PionScheduler.cpp:81`: a `keepRunning` wait that survives a shutdown is cancelled when the restart sets
  the timer; its handler does not look at the error, sets the timer again and so cancels the other wait, and
  the two go on in turn without waiting (`PionScheduler.hpp:169` means one wait of five seconds).
* `TCPServer.cpp:111`: a server stopped between `listen()` and `addActiveUser()` removes a
  user that was not added, and the unsigned count wraps. `UsersTyped` is claimed for engines.
* `ReactionEngine.cpp:330`: between the halves of `removeReactor` anybody may connect to
  the Reactor that is going; the connection dangles, against `:299` and `ReactionEngine.hpp:265`. `NoDangling`
  excepts those (`late`).
* `ReactionEngine.cpp:307` and `:608`: the entry of a connection in `m_reactor_connections` goes after the configuration was
  saved. If that throws (`ConfigManager.cpp:155`), output and element are gone and the entry is left; every later removal of either Reactor then
  finds it and throws, as there is nothing to disconnect. `RecordsAgree` counts those (`unsaved`).
* `FeedService.cpp:178`: a FeedReader stores the pointer after `addTempConnectionIn` has released the engine's mutex; a
  `removed_handler` that comes in between finds nothing to reset, and the pointer is then stored to a Reactor that is gone, against
  `ReactionEngine.hpp:265`. `PointersRegistered` and `NoDangling` except it (`missed`); `NotUsedAfterRemoved`, of `Feeds`, says that
  it is not used.
* `ReactionEngine.hpp:512`: reactions in the queue hold a reference to their Reactor, which
  `PluginConfig.hpp:342` may destroy first.
* `PluginManager.hpp:368`: `run` for one plug-in uses the pointer from `get()`, which has released the mutex
  (`:364` says it takes care of locking); the plug-in may be removed meanwhile.
* `ReactionEngine.hpp:704`: a Reactor whose configuration is refused remains loaded
  (`PluginConfig.hpp:315`), without an element in the configuration.
* `ReactionEngine.cpp:748`: the first exception ends `removeReactorsFromWorkspace`, with the other
  Reactors still there (`ReactionEngine.hpp:354`).
* `ReactionEngine.cpp:409`: `removeTempConnection` erases its record before it disconnects; if
  that throws, the Reactor keeps the output (`ReactionEngine.hpp:296`).
* `ReactionEngine.cpp:855`: an exception while `stopNoLock` ends temporary connections leaves a state that
  no later `stop()` ends (`ReactionEngine.hpp:188`).
* `FeedService.cpp:186`: a FeedReader whose response cannot be sent exits registered, against the
  step at `:213`.
* `TCPServer.cpp:251`: a pipelined request is handled with `m_mutex` held; a handler that
  calls `finish()` before it returns waits for that mutex for ever. `StopReturns` excepts it (`SelfDeadlock`).
* `HTTPWriter.hpp:264`: a response to a closed connection finishes it and goes on to write, so
  `finish()` is called a second time (`TCPConnection.hpp:574`). `ServerConsistent` speaks of open connections.
* `TCPServer.cpp:294`: `getConnections()` subtracts one for the acceptor, also from an empty pool.
  `HTTPServer.cpp:59`: redirects are read without their mutex. SSL handshakes and writes have no timer, and
  each read starts the timer anew.
* `DatabaseInserter.cpp:241`: `stop()` means to flush, and discards what is in the queue when the worker
  is in the middle of a batch (`:249`).
* `DatabaseInserter.cpp:529`: the key cache is cleared without `m_queue_mutex`. Taken as one step here, it is
  a data race on the hash table.
* `DatabaseInserter.cpp:396`: a reconnection with `m_wipe` drops the table with all that was inserted.
* `DatabaseInserter.cpp:579`: `m_last_time - m_max_age` is unsigned and wraps for Events with
  small time stamps; every key is then pruned. `Prune` allows it.
* `DatabaseInserter.cpp:493`: a worker that exits because it was stopped does not notify; producers that sleep
  then (`:380`) would not wake. The ConfigWriteLock of the Reactor keeps them out.
* `Codec.js:207` and `:236`, `Database.js:112`, `Protocol.js:231`, `User.js:387`, `Vocabulary.js:497`: `_this` is not
  declared, and so is one variable for all panes; when saves or deletions overlap, the answer to one reloads or
  removes the pane of another. `PageAgrees` is claimed for users who wait for answers.
* `codecs.js:156`: a click while a replacement is under way may replace a placeholder twice, which leaves
  two panes for one item; a click on another pane and back again leaves an edited pane shown that is not the
  selected one, so that its changes are not guarded. Both need a hasty user.
* `Codec.js:126`: the mark that is removed half a second after a form was filled may be that of an edit made meanwhile.
  An answer to a load that comes after an edit overwrites it.
* `Codec.js:251`: a deletion whose pane is edited meanwhile leaves the page on a pane that is gone.
* `Vocabulary.js:194` (its TODO): the terms of a Vocabulary are saved by requests nobody counts, and the page is
  loaded again before they are answered.
* `reactors.js:443`: a line is removed from the current workspace, wherever it was drawn. Deleting a workspace that is not
  in sight, with a connection inside, throws and leaves it half removed; changing the tab while a connection is
  being made draws it in the wrong workspace (`:421`). Both are acts in a rush.
* `reactors.js:487`: a new workspace's tab is selected before it has a surface (`:498`), so that the global `surface` is undefined (`:1173`)
  until a tab is selected again. A connection made meanwhile between two of its Reactors is taken by the engine, and `createConnection` throws
  at `:373` before it records it: it is not to be seen until the page is loaded again. `EditorAgrees` excepts it (`undrawn`). A
  connector dropped there throws at `:704` with `isTracking` set (`:696`).
* `reactors.js:898` and `:973`: the row to remove is that of the click, and the list may have changed since.
  `GoneBeforeRemoved` excepts it (`StaleRow`).
* `reactors.js:1330`: once the last workspace has been deleted, the page asks for a new one; if that is lost,
  the next selection is of a tab that is gone.
* `ReactionEngine.hpp:704`: the engine takes a Reactor into a workspace that was deleted; the page cannot show it
  (`reactors.js:349` leaves it out without a word).

## 6. What is not modelled, and why

`PROJECT.json` lists every component with its status. Left out for good: what is third-party
(SQLite, boost.lockfree, and dojo but for its accordion), logging and formatting, the Python interpreter,
and operating system calls. Within the modelled parts:

* SSL, chunked and blocking writes; a handler may call `finish()` early, once or late, but
  not twice of itself.
* The engine's tree is a set of elements; its file is not modelled, but a save may fail where that ends a removal half-way.
* The one-to-one scheduler, which nothing in the platform uses.
* `PionLockedQueue` with `PION_HAVE_LOCKFREE`: its free list is then a shared lock-free one. It gives and takes
  nodes as a set does.
* In the web interface: the fields of forms, coordinates and names, dialogs that configure, move, start or stop a
  Reactor, permissions and the licence, the mouse between the two ends of a connection that is being made (`isTracking`), the terms of Vocabularies, the login after status 401, the wizard, several users at
  once. Of the 90,000 lines of JavaScript in the repository, nearly nine in ten are dojo in several builds
  (`dojo-release/`, which also holds a copy of Pion's own scripts); Pion's own scripts are some twelve
  thousand, most of them the layout of forms. The models translate the ones that keep state.
* `start()` of a server in the middle of its `stop()` is taken to be possible, as the code allows it.

## 7. Plan

In this order:

1. **HTTP parsing** (`HTTPParser`): header, chunk and length states over abstract characters, shown not to
   depend on where reads are cut; then `HTTPProtocol`, which pairs requests and responses.
2. **Authentication and users**: sessions of HTTPCookieAuth, the cache of HTTPBasicAuth, removal of users.
3. **Configuration**: ConfigManager's file, PluginConfig's order of tree, object and signal, and
   VocabularyConfig with the copies that VocabularyManager binds.
4. **Engine and scheduler composed**: startup under the engine's mutex, reactions to destroyed Reactors, the
   hazards that have a note instead of a property.
5. **Log reactors**: history and restart. **ServiceManager**: the order of shutdown.
6. **Login** of the web interface: requests refused with status 401 wait for the dialog and are sent again; the dialog
   may be dismissed or fail. The **wizard** as a chain of requests.
7. **Algorithms** as operators with reference definitions: `findRequestHandler` against
   `PluginManager::find`, RuleChain and Comparison, base64 and URL coding.

Abstract specifications worth stating: a table with unique keys for `Inserter`; the set
of open connections for `TCPServer`.
