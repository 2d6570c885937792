# Verification of meta-core

TLA+ specifications of meta-core, model-checked with TLC and proved with TLAPS.
Every definition is translated from the code; `PROJECT.json` gives for each the
file and lines it stands for. Paths below are relative to `src/`.

| Part | Modules | Checked | Proved |
|---|---|---|---|
| Leader election, Redis manager | `Leadership`, `Election` | runs `election*` | `Election_proofs` |
| Storage client | `FieldStore`, `MetadataStore` | runs `store_*` | `MetadataStore_proofs` |
| Mount manager, mount watcher | `Mounts` | runs `mounts*` | `Mounts_proofs` |
| File watcher, debouncer, delivery | `QuietPeriod`, `FileEvents`, `Debouncer`, `Dispatcher`, `Watcher` | run `events` | `Watcher_proofs` |
| Service discovery | `Registry`, `Discovery` | run `discovery` | `Discovery_proofs` |
| HTTP API on the store | `Api` | run `store_listed` | `Api_proofs` |

`MC*.tla` give constants a value for TLC; each `.cfg` is one run.

## 1. Inventory

meta-core is a sidecar. Several containers share the volumes `/meta-core` and
`/files`; in each, supervisord keeps a `meta-core` process, `mount-watcher.sh`,
rclone and nginx running. The processes share no memory: they meet in files on
the volume, in one Redis, and over HTTP.

| Component | State | Operations | What is hard | What makes it correct |
|---|---|---|---|---|
| **Leader election** `internal/leader/election.go`, `cmd/meta-core/main.go` | flock on `kv-leader.lock`; `kv-leader.info` and its `.tmp`; `role`, `leaderInfo`, `lockFile` | `Start`, the two transitions, `performHealthCheck`, `Stop` | two goroutines in each process; a temporary file with one name for all; death anywhere; restart | one leader; the info file is readable, names the holder and only changes to name it; followers learn the leader; `Stop` ends |
| **Redis manager** `internal/leader/redis.go` | the child, `running` | `Start`, `WaitForReady`, `monitorProcess`, `Stop` | a child that outlives its parent; the port probe cannot tell which server answers | a managed Redis runs only under the lock; a dead one is restarted |
| **Storage client** `internal/storage/client.go` | Redis: a hash for each file and the set `file:__index__`; in the process an RWMutex, the connection | set, merge, property, add to set, delete, clear, reads | each operation is several Redis commands; the mutex belongs to one process, Redis to all; any command fails | operations are atomic on fields; no member is lost; what is stored is listed; clear empties |
| **Mount manager** `internal/mounts` | `mounts.json`, error files | create, request mount or unmount, delete, list | read and write-back without a lock over both; a write that truncates first; a deletion 15 s long | documents have unique ids and paths; a deletion is complete |
| **Mount watcher** `docker/mount-watcher.sh` | the mount table of its container | a pass over one reading of `mounts.json` every 5 s | works on old readings; mounts fail and are retried | the mount table follows what is listed |
| **File watcher, debouncer, dispatcher** `internal/watcher` | pending events and timers, event buffer, subscribers, SSE channels | fsnotify events, `Add`, `flush`, `Stop`, scan, dispatch, poll | timers that fired already; callbacks outside the lock; webhook goroutines with retries; closed channels; a bounded buffer | what is dispatched last of a path is true, and so is the latest in the buffer; nothing is reported before it is quiet or after `Stop`; sending and delivering end |
| **Service discovery** `internal/discovery` | a file for each service name | register, heartbeat, discover, remove | one file and one `.tmp` for all instances of a name; death between truncation and rename; seconds in time stamps | a live service is found and not stale, a dead one is stale, a stopped one is gone |
| **HTTP API** `internal/api` | none of its own | handlers; batch update; key pages; list and search | no lock between the calls of one handler; partial failure of a batch; cursors into lists that change; index entries without metadata | a page list is complete; a batch reports what it did; a search misses nothing that matched all along |
| **Configuration, editor, dashboard, packaging** | environment; browser state | | | not modelled beyond what section 6 says |

Interactions: `main` starts election, discovery, API (with the watcher) and stops
them in reverse order. Election owns the Redis manager and calls
`storage.Connect`. The API calls storage, discovery, mounts and watcher. Mount
manager and mount watcher meet only in `mounts.json` and the error files.

The hazards in this code are listed in `PROJECT.json`, each at its line, with the
properties that would catch it.

## 2. Plan

1. `Leadership`, `Election` - what everything else depends on. *Done.*
2. `FieldStore`, `MetadataStore` - the data. *Done.*
3. `Mounts` - manager and script on one file. *Done.*
4. `FileEvents`, `Debouncer`, `Dispatcher`, composed in `Watcher`, with
   `QuietPeriod` for what debouncing promises. *Done.* What a consumer is promised
   is stated as properties of `Watcher`, not as a specification of its own: nothing
   in the code promises each event or an order.
5. `Registry`, `Discovery` - several processes, one name or several. *Done.*
6. `Api`, which extends `MetadataStore` - the handlers of several calls. *Done.*

Not built: `Election` composed with `MetadataStore` (section 6), and an abstract
specification of `Mounts`: with changes lost between two processes there is no
simpler system that `mounts.json` behaves like, and what holds of it is stated as
properties.

Modules with proofs have no `RECURSIVE` operators; parameters are constants with
named assumptions; each operation is one action, or one action for each step at
which another actor can come in between.

## 3. The models

### Election (and Leadership)

A node is a container. Its meta-core process has two threads: `pc[n]` for `main`
(`Election.Start`, waiting for a signal, `Stop`) and `hpc[n]` for
`healthCheckLoop`. A step is what no other actor can divide: a flock, opening the
temporary file, writing it, renaming it, a spawn.

| Action | Code |
|---|---|
| `Boot`, `Fatal`, `Shutdown`, `CloseStorage` | `main`, `log.Fatalf`, `waitForShutdown` |
| `TryAcquireLock`, `ReleaseLock` | `tryAcquireLock`, `releaseLock` |
| `StartRedis`, `StartRedisFails`, `WaitForReady`, `WaitForReadyTimeout` | `transitionToLeader`, `RedisManager` |
| `PublishOpen`, `PublishFill`, `PublishRename`, `PublishFails` | `writeLeaderInfo`, on the main thread |
| `TickLeader`, `HealthFill`, `HealthRename`, `HealthWriteFails` | `updateLeaderTimestamp`: the same file, from the health loop |
| `RedisAlive`, `RestartRedis`, `RestartRedisFails` | `performHealthCheck` of a leader |
| `ReadLeaderInfo`, `ConnectStorage`, `TickFollower` | `transitionToFollower`, `storage.Connect`, `performHealthCheck` of a follower |
| `JoinHealthLoop`, `StopRedis`, `HealthLoopStop` | `Stop`, the `stopChan` case of the loop |
| `Crash`, `ContainerKill`, `RedisReady`, `RedisCrash` | processes and the kernel |

`redis[n]` is the server bound to the port of the container, `owned[n]` says that
it is a child of the present process. A process that dies leaves it as an orphan;
a new child cannot bind the port and `MonitorProcess` notices.

`Leadership` is what the election promises: one holder; only the holder
publishes, and only its own name; what a node believes is nothing, itself, or
what was published. `Implements` says that `Election` refines it, with the lock
as holder, the info file as what is published, `leaderInfo` as what is believed.

### MetadataStore (and FieldStore)

A request is a handler in one process; its program counter names the next Redis
command. A command is atomic. Who holds the mutex is read off the program
counters: `ReadPC` labels hold it shared, `WritePC` labels exclusively. A field
is the set of members of its pipe-delimited string. `CommandFails` is an error, a
time-out or the end of the process between commands.

`FieldStore` is the store without Redis commands: a call begins, acts on the fields
in one step or (`Fail`, where failures are permitted) not at all, and returns. A set or merge
puts all its fields at once, an `AddToSet` adds to what is there when it acts, a
deletion drops a file or a field. The one call of several steps is a clear,
which goes from file to file and between whose steps no other call acts
(`Undivided`). `ImplementsFieldStore` says that `MetadataStore` refines it: `CallOf` reads
off a request's program counter and arguments how far its call is, so that a
second effect of one call, an effect in two parts or one in the middle of a clear would
be no step of `FieldStore`. It does so unless `AddToSet` or clear is called while several
processes use the Redis.

### Mounts

A request is a handler in one of several processes. It reads `mounts.json`, has a
`draft` of the whole document, truncates the file and fills it; `DeleteMount`
waits and then does so again from the same reading. `file` tells a whole document
from one that is truncated, or mixed by two writers; `config` is the document
last written. The script takes a `plan` from one reading and handles its entries
one at a time, in any order, with mounts and unmounts that may fail. A mount is one
step (`DoMount`) and its report another: `ClearError` removes the error of earlier attempts,
`MountVanished` writes one when what rclone has mounted is gone at the check. In
between, `attempt` has the id. The script may end anywhere (`WatcherEnds`) and is
started again (`WatcherStarts`). A mount that a command has not made when the script goes
on, or ends, is taken not to come later.

### Watcher (with FileEvents, Debouncer, Dispatcher)

`Debouncer` and `Dispatcher` say what the operations of `debounce.go` and
`dispatcher.go` do to their own state, each under its mutex in one step; `Watcher`
says who calls them, and adds the event loop, the callback, the scan and `Stop`.

| Action | Code |
|---|---|
| `FileChanges`, `TakeEvent`, `HandleFsEvent`, `LoopEnds` | fsnotify, `processEvents`, `handleFsEvent` with `Debouncer.Add` |
| `Fire`, `FlushWithout`, `FlushCallsBack` | a timer that runs out; `flush` that finds nothing or is early; that calls back |
| `AppendToBuffer`, `DispatchEvent` | `handleDebouncedEvent` |
| `SendToClient` (`SendOrSkip`, `SendOnClosed`), `DispatchReturns` | `dispatchToSSE`, client by client, from its copy of the list |
| `FanOut`, `Deliver` | `dispatchToWebhooks`, `deliverToWebhook`: goroutines counted by type, url and attempt |
| `ScanBegins`, `ScanRefused`, `ScanVisits`, `ScanEnds` | `RunScan`, `scanDirectory` |
| `handleSSESubscribe`, `handleSubscribers`, `handleTriggerScan`, `Stop` | `handlers.go`, `Watcher.Stop` |
| `Tick` | time |

A timer that has run out and a goroutine that waits for `d.mu` are two things
(`timer`, `flushers`): `Add` may reset the one and not the other. A *sender* is a
goroutine with an event at hand: the callback of path `p` is sender `p`, a scan a
member of `Scanner`. `dispatched` is history: what was last given to `Dispatch` of a
path. What subscribers receive of it is not the same: a full SSE channel drops events, and
webhook deliveries with their retries overtake each other. Nothing in the code
promises otherwise, and no property is about what they receive last.
`world` says, once at first, what may happen around the process.

`QuietPeriod` is what the debouncer is for, without timers: of each path the
latest event is held, reported when nothing more was heard for `Delay`, one report
of a path at a time, nothing once it is silenced. `ReportsTheLatest` says that `Watcher`
refines it, with `pending` as what is held, `age` as how long it was quiet, the events
of busy callbacks as what is being reported, and `stopped` as silence.

### Discovery

A process writes `.tmp` in three steps (open, write, rename), at its start and at
every heartbeat; another process with its name may come between any two. `fd` says
what the file opened as `.tmp` has become: still `.tmp`, the service file (it was
renamed by the other), or a file without a name. Writing to one that already holds
something leaves either text or a mixture (`Mixed`). Time is an age in each
file, one tick more at the start to allow for seconds being cut off. Listing is
`ReadDir`, then `ReadOne` for each file, with the processes writing in between.

`Registry` is the directory as services see it that have their names to themselves:
each registers, renews and withdraws its own entry in one step, and one that dies
leaves it to grow old. `KeepsRegistry` says that `Discovery` refines it, with the service
files of such names as entries.

### Api

`Api` extends `MetadataStore` by two kinds of requests. A `Batcher` is a batch
update: it takes item by item, makes its calls of the storage client (whose
commands are those of `MetadataStore`), stops an item at its first error and
reports. A `Reader` is a client that walks over the key pages, or a list or
search: the IDs first, then one read for each, with nothing locked in between.
The other requests are handlers that make a single call (`PlainStep`). `order` is
the order in which Redis returns the index: any, until the index changes.
`company` chooses which requests there are together.

## 4. What is checked

`pass` runs:

| Run | Instance | Shows |
|---|---|---|
| `election` | 2 nodes, 109,214 states | `AtMostOneLeader`, `InfoFileIntact`, `OwnedRedisUnderLock`, `LeaderPublished`, `InfoFileNamesHolder`, `OrphansComeFromDeath`, `Implements`; under fairness `FollowersLearnLeader`, `RedisRestarted`, `ShutdownEnds` |
| `store_atomic` | 1 process, 2 requests, 2 files, 2 fields, 2 values, every operation, failures; 600,136 states | `ReadIsFresh`: nothing comes between the read and the write of `AddToSet`; `ImplementsFieldStore`: each call acts at most once, in one step, or file by file undisturbed if it is a clear |
| `store_listed` (`Api`) | 1 process, 2 files, 2 fields, no whole-file deletion; three plain requests, or one beside a batch, or one beside a reader; HMSET of a batch and HGETALL of a search may fail; 230,661 states | `StoredIsListed`, `ClearEmpties`, `BatchTellsTruth`, `WalkIsWhole`, `SearchFinds` |
| `mounts` | 2 processes with 1 request each, 1 script, 2 ids, 1 path; 389,750 states | `PathsUnique`; `OnlyRestartLeavesError`: an error at what is mounted and reported is left by an end of the script only; under fairness `WantedGetsMounted`, `UnwantedGetsUnmounted` |
| `events` | 2 paths, 2 scans, 1 SSE client, 1 webhook, up to 3 changes, six worlds; 159,822 states | `PendingIsTimed`, `ReportsTheLatest`, `ScansDoNotOverlap`, `LastDispatchIsTrue`, `BufferAgrees`; under fairness `ChangesDispatched`, `DispatchEnds`, `DeliveriesEnd` |
| `discovery` | 2 processes, 2 names that they choose, 1 fault; 827,516 states | `KeepsRegistry`, `BeatingIsFresh`, `StoppedStaysGone`, `ListsTheLiving`; under fairness `DeadIsSeen`, `LiveIsFound` |

`violation` runs, each a disagreement between a document or comment and the code:

| Run | Says | Does |
|---|---|---|
| `election_failover` | README.md:261: followers detect a crashed leader and re-elect | a running follower never tries the lock; `Timestamp` is never read |
| `election_connect` | README.md:186: losers connect to the leader's Redis | one that starts before the info file is there never connects, and none reconnects |
| `election_orphan` | README.md:92: Redis runs at the leader only | a Redis outlives its process, while another node leads |
| `store_lost_add` | client.go:392: a value is added to the field | two processes add to one field at once, both read the old value, and one addition is lost |
| `store_unlisted` | client.go:168: the index has all files | set and delete under the read lock interleave: stored, not listed |
| `mounts_deleted` | manager.go:382-391: request unmount, wait, remove | a pass with an older reading mounts the deleted entry, for ever |

### Bounds

`Election` has no counters: faults, restarts and heartbeats are unlimited and the
state space is finite. Two nodes give every interaction of the code, which knows
"I hold the lock" and "somebody else does": a holder, a former holder and its
leftovers, a follower that joins, both threads of each. Three nodes exceed nine
million states; the proofs cover every number for the safety properties. The
liveness properties speak of one leader and one follower.

`MetadataStore` is finite too: two requests suffice to violate each property that
one lock would keep; three plain ones in `store_listed` let two writers run beside a
clear. Two files and two fields tell "mine" from "another". Values are not empty and
contain no "|".

`Api`: a batch or a reader meets one other request at a time, which may be any
operation but the deletion of a file, and come back without bound; `BatchHolds`, `WalkHolds` and
`SearchHolds` are proved for any number. Pages of one key and two files make a
walk of two pages. Batches cover an item with several fields, one without a hash
ID, one without metadata, and one whose metadata and properties overlap. Of the
commands of a batch, SADD does not fail here, because `StoredIsListed` would
not survive it.

`Watcher` bounds what happens outside: `changes` of files (1 to 3), two scans, one
connection, one webhook. Two changes of one path are enough for an event that
resets a timer that has run out, three for a flush beside a new event. `MaxFlushers`
= 2 goroutines of one path waiting for the mutex, `Delay` = 1 tick, `QueueMax` = 1
for 100, `MaxRetries` = 2 for 3, `MaxFailCount` = 2 for 10, and a buffer of 2 cut to 1 for
10000 cut to 5000: each limit is reached. The worlds combine one kind of visitor
with a few changes; all kinds at once are covered by the proofs only.

`Discovery`: two processes give all there is between processes of one name or of two;
one fault (a crash, a failed read or write) per behaviour; heartbeats each tick and
a threshold of two. Starts and stops are unlimited.

`Mounts` bounds ids, since every creation uses up one: two allow an entry to be
deleted and its path used again. One path keeps the liveness check small. That
entries on several paths do not disturb each other is `UniquePaths` and
`CleanMounts`, proved for any number. The script's copies in other containers
touch no state that this one reads, so one stands for all.

`CHECK_DEADLOCK FALSE` in `Mounts_*.cfg`: the system can really stop. A write
that fails after the truncation leaves a `mounts.json` that does not parse, each
operation begins by reading it, and nothing repairs it; also, ids run out. And
in `Watcher_events.cfg`: a process that panics, or that was stopped, does nothing more.

### Fairness

*Election.* Weak fairness of the steps of each thread of a live process, of a
Redis that starts, and of the monitor goroutine; the Go scheduler gives that.
Strong fairness of `RestartRedis` (spawning does not fail each time) and of
`HealthLoopStop` (a `select` with `stopChan` closed and a tick ready takes either,
at random). No fairness for `Boot`: supervisord gives up after `startretries`. None
for `Shutdown`, crashes or kills. Where a property needs a leader that stays it
says so (`<>[]`).

*Mounts.* Weak fairness of the passes, which an endless shell loop with a `sleep`
gives, and of its restart by supervisord; strong fairness of a reading (the script is
not ended each time before it reads) and of a mount or unmount that is tried again and again. The
liveness properties assume that the file is in the end whole and that the entry
stays as it is; other entries may still change between passes. No fairness of
clients, processes or the ends of the script.

*Watcher.* Weak fairness of the event loop, of time, and of each goroutine: flushes,
sends, scans, webhook deliveries, whose requests have a time-out. The Go scheduler
and the clock give that. No fairness of who changes files, reads an SSE stream, calls
the API or stops the process. `Tick` waits for senders with an event at hand: hashing
64 KB and dispatching is assumed to take less than the debounce delay (30 s).

*Discovery.* Weak fairness of time, of the loop of a process that runs and of the
removal in `Stop`. None of starts, stops and crashes. `Tick` waits for writes under
way, and a process that ended is started a tick later at the earliest: supervisord
takes a while, and without that a file written once could be renewed by endless
restarts within one instant.

*MetadataStore* and *Api* have safety properties only.

## 5. What is proved

For every value of the constants, from the assumptions named in the modules
(`NodeAssumption`, `StoreAssumption`, `MountsAssumption`, `ApiAssumption`,
`DebouncerAssumption`, `DispatcherAssumption`, `WatcherAssumption`,
`NothingAssumption`, `DiscoveryAssumption`, `ContentAssumption`).

**Election.** `IInv` ties both program counters to the shared state. The lock
holder is the process whose main thread is between acquisition and release; its
`role` agrees; the health loop runs only while main is serving or joining, so the
two threads never write the temporary file at the same time; only a lock holder
writes it, so a `.tmp` torn by a process that died is truncated again before
anything is renamed; an owned Redis belongs to the holder. None of the checked
invariants is inductive alone: `InfoFileIntact` needs to know that the
temporary file is filled at the rename, which needs the single writer, which
needs the join in `Stop`. From `IInv`: `TypeCorrect`, `LeaderUnique`,
`InfoFileSound`, `RedisSafety`, `LeaderIsPublished`, the action property
`OnlyHolderPublishes`, and `Refinement` (initial states, and each action, mapped to
an action of `Leadership` or a stutter).

Three theorems explain what the violation runs find. `election_orphan`: `ShutdownLeavesNone`
(only a process that dies or gives up in `Start` leaves a Redis behind; in an orderly
shutdown `Stop` takes down also a child that the health loop has just restarted) and
`RedisAtLeader` (Redis runs at the leader only, or it is such an orphan).
`election_failover`: `NobodyTakesOver` - without a holder and without a process that has
the lock still to try, this stays so until one is started. `election_connect`:
`NeverReconnects` - what the storage client is connected to is as it was at the end
of `Start` for as long as the process lives. The last two properties,
`LeaderlessUntilStart` and `ConnectsOnce`, are in `Election` but in no run; TLC agreed
with them once on the instance of `election`.

**MetadataStore.** `TypesHold` and `OnlyStaleAddDeviates` need no condition: with any
number of processes each call, half-way failures included, changes the fields as
`FieldStore` says, with two exceptions: the HSET of an `AddToSet` whose field was
changed after its HGET, and a command that acts in the middle of a clear. Under `LocksAlone`
(one process if `AddToSet` or clear is called at all) there is neither: who is at a
`WritePC` label is alone, hence `Atomicity` (refinement of `FieldStore`). Under `AddsAlone`
(one process if `AddToSet` is called) `Freshness` and `AddKeeps`, the property
that `store_lost_add` refutes for two processes. None of these assumes that commands succeed.

The index is another matter. Under `Apart` (a process that deletes whole files or
clears is the only one, and nothing is set while files are deleted), `IndexDepends`: what
is stored is listed or about to be, in every behaviour in which two commands do
their work (`IndexServed`): the SADD of a file that is not listed yet, and in a clear the
DEL of each file, as the clear deletes the index whether they succeeded or not. Every
other failure is harmless; that neither of the two is was tried out with TLC, outside of
the runs. Where no command
fails (`Undisturbed`) this gives `IndexComplete` and `ClearComplete`. The run
`store_unlisted` shows that `Apart` is needed.

**Api.** `IInv` says where each request is: a batch within a call is at a
command of that call, about its present item (`CallInv`); the calls that went
through, the one under way or failed, and the properties left add up to what the item
asks for (`BatchOf`), hence `BatchHolds`; what a walker has is the listing up to its
cursor as long as the index has not changed (`WalkOf`), hence `WalkHolds`; what a
search owes is among its hits or among the IDs still to look at (`SearchOf`), hence
`SearchHolds`. `CallsOnly`: every step of `Api` is a step of `MetadataStore` or leaves it
alone, so what is proved there carries over, under `LocksAlone` and where `MayFail` permits
failures: `ApiAtomic`.
What a batch's own failures mean for the index is said by `ApiIndexDepends`, as in
`MetadataStore`; where `MayFail` is false and no SADD of a batch fails (`IndexSafe`),
`ListedHolds` and `ClearHolds`, with HMSET and HGETALL allowed to fail.

**Watcher.** `CoreInv` ties senders, timers and flushes together: a flush has its
event at hand exactly while it is busy, an event pending has a timer or a goroutine
(`PendingTimed`), only one scan holds `isScanning` (`OneScan`), and the buffer never
exceeds `BufferMax` (part of `TypeCorrect`). From it `LatestReported`, the refinement
of `QuietPeriod`, step by step: `Add` is hearing, `FlushCallsBack` reporting, the end of a
callback its end, `Tick` waiting, `Stop` silence, and all else, timers that fire and
flushes that find nothing among it, a stutter. `QuietHolds` and `SilenceHolds` state two
consequences directly. `TruthInv` is the other main argument. Of each path, the latest thing under way is true: the last event in
`events`, or else the one in the loop's hand, or else the one pending, or else that of
its callback; and when there is none, what was dispatched last is true, or nothing was
dispatched and a scan is still to come to the path. Scans and flushes dispatch side by side: what a
scan has at hand is true or a newer event of the path is in `events`, in the loop's hand
or pending for less than a tick (`ScanTruth`), which is where the assumption on `Tick`
is used.
Hence `LastDispatchHolds` (of what is dispatched, not of what is received), and, with an invariant on the end of the buffer,
`BufferHolds`, for any sizes with `BufferKeep` at least 1.

**Discovery.** Of a process that has its name to itself: its temporary file is what
its program counter says, its open file is still `.tmp`, the service file is whole and
its own, and as old as the ticks since the last heartbeat allow. Hence
`RegistryKept` (the refinement of `Registry`: a rename is a registration or a renewal,
the removal in `Stop` a withdrawal, opening and writing `.tmp` stutter, failed or not),
`FileWholeHolds`, `FreshHolds` (from `Interval + 1 <= Threshold`), `StoppedHolds`
(from the wait in `Stop`; it holds of a shared name, too, once all its processes have
stopped), `ListingHolds`. Of the others, with several processes of one name, only
`LiveIsFound` is left.

**Mounts.** No lock protects `mounts.json` from one process to the next, and still
every document in it is well formed: each is made from one whole earlier document
by changing a flag, leaving entries out or adding an entry with a new id and a
path that this document lacks. `IInv` says so of every document held anywhere,
and that an id keeps its path in all of them (`Invariance`, `UniquePaths`). With
one script, `CleanMounts`: an error at what is mounted, once that is reported, was there
before the step or comes from an end of the script. An id is mounted on its one path only
(`OnePath`), so a failure is of an id that is not mounted, and what is mounted was
reported by `ClearError`. That the script's end between the two leaves the error for
good, later passes having nothing to do for a mounted path, is what the code does. `NobodyUnmounts` says why
`mounts_deleted` finds a mount that stays: once no document, draft or plan anywhere lists
its path, it goes by itself or after a new entry has been created, and no script
unmounts it before. (`ForgottenStays` is in no run; TLC agreed with it once on the
instance of `mounts`.)

**Only model-checked:** all liveness properties (TLAPS has no support for
fairness as used here): `FollowersLearnLeader`, `RedisRestarted`, `ShutdownEnds`,
`WantedGetsMounted`, `UnwantedGetsUnmounted`, `ChangesDispatched`, `DispatchEnds`,
`DeliveriesEnd`, `DeadIsSeen`, `LiveIsFound`, on the instances above. All safety properties that pass
a run are proved. Of the index, with several processes that delete or clear, nothing is
claimed.

## 6. What is not modelled

- The timestamp in the info file (written, never read), addresses and ports: a
  node's name stands for them. `Role`, `Status` and other getters.
- flock is that of a POSIX system: exclusive, released when the process ends; Go
  opens the lock file close-on-exec, so the Redis child does not inherit it.
  `rename` is atomic. A volume that does otherwise is out of scope.
- A signal before `waitForShutdown` has installed its handler ends the process at
  once: that is `Crash`. SIGTERM, 10 s and SIGKILL to Redis are one step.
- Fairness inside `sync.RWMutex` (a waiting writer holds up readers), as no
  liveness is claimed of the store. Requests in a process without a client return
  an error first and are left out. `RemoveFromSet` has no caller. Single reads and
  `LookupPathByCID` change nothing.
- Of the API: the checks of requests, empty property values, a match of a search
  on the hash ID, negative limits and cursors, the start and the stop of the server,
  file serving and CIDs.
- Of the watcher: directories and their watches, hidden files, an inotify queue that
  overflows, time stamps (a poller's `since`), sizes and hashes, the order in which a
  webhook gets events. `FlushAll` and `PendingCount` have no caller.
- Of the discovery: what a service says beyond its heartbeat. `UpdateStatus` has no
  caller. Clocks of several hosts are taken to agree.
- What a mount is of (server, share, options, passwords, the three types), the
  wait of safe-unmount (it only decides on the answer), the directories.
  `SanitizeName` maps names to paths: requests choose the path.
- `Election` and `MetadataStore` as one system. What it would add is a follower whose
  connection leads to the orphaned Redis of an earlier leader while others write to a
  new one; that situation is `election_orphan`. Both servers have the same data
  directory, and what a Redis makes of that is not to be read in this repository.
- Configuration only supplies
  constants; editor and dashboard are HTTP clients; packaging appears as what it
  does to processes (`Boot`, `ContainerKill`, `WatcherStarts`).
