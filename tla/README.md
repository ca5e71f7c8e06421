# NimbusKV in TLA+

A verification development for [NimbusKV](../src/README.md), an in-process
reactive key/value store in Python (`src/nimbuskv/`): lock-free reads of
immutable snapshots, optimistic writes with compare-and-swap and retry,
subscriptions called in the writer's thread, per-key expiry by a background
thread, blocking waits on a condition, and write-through persistence.

The modules are translated from the code. TLC checks them on small instances;
TLAPS proves the main safety theorems for every value of the constants.
`PROJECT.json` lists every run, the lines each definition stands for, the
hazards of the code with the properties that cover them, and, for each
property, a bug in the code (a `Faulty...` definition) that makes it fail.

Contents: [inventory](#1-inventory) · [plan](#2-plan) ·
[correspondence](#3-modules-and-code) · [runs](#4-runs-and-bounds) ·
[fairness](#5-fairness) · [proofs](#6-proofs) · [findings](#7-findings) ·
[limits](#8-what-is-not-modelled)

## 1. Inventory

### `ReactiveStore` (`modules/reactive_core.py`)

State: `_ref`, the current immutable map; `_swap_lock`; `_subs`, the lists of
callbacks per key and the list for every key; `_subs_lock`; `_next_sub_id`.

Operations: the reads `get`, `snapshot`, `exists`, `keys`, `items`, `len` (one
unlocked read of `_ref` each); `mutate` (read `_ref`, compute, compare identity
and assign under the lock, retry, give up after `max_retries`); `set`, `mset`,
`atomic`, `delete`, each a peek at the old value, a `mutate`, and a `_notify`
per key; `subscribe`, `Subscription.cancel`.

Hard behaviours: two threads on one snapshot; losing races repeatedly; the peek
and the closure running on different snapshots; the announcement being a
separate step after the swap, so that another thread's swap and announcement
fit in between; a subscription list that changes around a swap; callbacks that
write, cancel, raise or never return.

What makes it correct: a write call is one indivisible update of the whole map
or none; what it announces is what it swapped; whoever listened at the swap is
called; a cancelled callback is not picked up again; no callback runs under a
lock; every call ends.

### `NimbusKV` (`modules/nimbuskv_v3.py`)

State: one `ReactiveStore`, one `ExpiryScheduler`, one backend; no lock of its
own. Operations: `set`/`aset`, `mset`, `delete`/`adelete`, `atomic`, the reads,
`subscribe`, `wait_for`, the constructor, which rehydrates from the backend, and
`stop`.

Each write is three steps with nothing around them: the store, the scheduler
(`schedule` or `cancel`), the backend. Hard behaviours: the steps of two writers
of a key interleaving; an old deadline expiring between the store step and the
scheduler step; a backend that keeps the older of two values; a crash between
the steps and the rehydration after it; the wait whose key changes between its
check and its subscription. What makes it correct: no wakeup is lost; a value
is deleted only by its own deadline; after all calls have ended the backend
holds what the store holds, with its deadline; what was deleted or expired does
not come back.

### `ExpiryScheduler` (`modules/ttl.py`)

State: `_heap` of `(when, key, generation)`, `_generation` per key, `_stop`,
the condition variable `_cv`. Operations: `schedule`, `cancel`, `stop` by clients,
`run` by its thread, which calls `store.delete(key, _event="expire")` after
releasing the lock.

Hard behaviours: a schedule or a stop between the thread's look at the heap and
its wait; a notify that arrives while it is awake; many entries of one key, in
any order of their times; the deletion racing a client's `set`. What makes it
correct: a key has at most one deadline that counts; the thread sleeps past none;
a key is expired once per deadline, never early; a deadline that came is acted
on; `stop` ends the thread.

### Persistence backends (`modules/persistence.py`)

`NullBackend` keeps nothing. `SQLiteBackend` keeps one row
`(key, value, expire_at)` per key under a lock, `RedisBackend` one Redis key
with a `PX` time. Operations: `persist_set`, `persist_delete`, `load_all`, `close`.
`load_all` is several statements (select, then delete the expired rows; scan,
then `GET` and `PTTL` per key): other processes and time come in between.
`resolve_backend` turns a configuration into one of them, or hands an object on,
which several stores may then share.

Hard behaviours: a statement or a commit that fails and leaves its transaction on the
connection; a second connection in the middle of a write; a purge that deletes by name what
was read a moment ago; a key that expires between two commands; the time a command
takes to arrive. What makes it correct: what a write that returned made of a key stays, through
failures of other calls, loads and crashes; a load finds what was there; the lock
is free again whatever raises.

### Programs on the store (`bench/b01` to `b05`, `examples/`)

Experiments with threads: increments of one counter, writers with a budget of two
attempts, readers of two accounts during transfers, throughput up to a stop
event, each behind a barrier or not; a worker pool with a dispatcher in
`wait_for`; sessions that are touched while they expire. Their state is that of the threads, the
barrier and the event, and what they count. What makes them correct: what they report
is what happened; they measure after everyone has been started; they end.

### Benchmark runner (`bench/main.py`, `bench/common.py`)

State: `all_results`, `all_markdown`, `all_json`, `failures`, and files that outlive
a run: `results/*.json`, `charts/*.png`, `RESULTS.md`, `report.json`. `main()` calls
`run`, `render`, `to_markdown` and `to_json` of each suite, which meet only in the
names of results and charts. Hard behaviours: a suite that raises half way, a run that is
aborted, files of earlier runs under the same names. What makes it correct: a finished
report is of one run and says of each suite what became of it.

### Everything else

`modules/exceptions.py`, `modules/runtime.py` (logger and version),
the packages' `__init__.py`, tests, `testfile.py`, the measurements of one thread, the
documentation and its generator. None of them has state that the library depends on.

### Interactions

    client threads ──set, mset, atomic, delete──▶ NimbusKV ──▶ ReactiveStore._ref
         │                                          │                │ _notify, in the
         │ wait_for: check, subscribe, check, wait  │                ▼ writer's thread
         └◀─────── threading.Event ◀────────────────┼───────── callbacks
                                                    ├──▶ ExpiryScheduler (heap, thread)
                                                    │         └─ delete(key, "expire") ─▶ ReactiveStore
                                                    └──▶ backend.persist_set / persist_delete

## 2. Plan

| # | module | models | state |
|---|--------|--------|-------|
| 1 | `StoreCalls`, `AtomicStore` | the write calls as data; the abstract store, one step per call | done, proved |
| 2 | `ReactiveStore` | the store in full; implements `AtomicStore` | done, proved |
| 3 | `SubscriberView` | a mirror kept by a subscriber, over `ReactiveStore` | done, proved |
| 4 | `WaitFor` | `wait_for` over `ReactiveStore` | done, proved |
| 5 | `Deadlines`, `ExpiryScheduler` | one deadline per key; the heap and thread, which implement it | done, proved |
| 6 | `NimbusKV` | the facade: store calls at the grain of `AtomicStore`, the deadlines at the grain of `Deadlines`, a durable backend, coroutines, stop, crash and rehydration | done, proved |
| 7 | `Backends` | `resolve_backend`; SQLite and Redis statement by statement, several users, failures, crashes and time | done, proved |
| 8 | `ThreadPrograms` | the threaded experiments and examples | done, proved |
| 9 | `BenchRunner` | `main()`, the files it writes, the names the suites share | done, proved |

The proofs of 2 and 5 are what lets 6 use the coarse grain: a step of
`AtomicStore` stands for a whole retry loop, one of `Deadlines` for the heap. 7 is what
stands behind the one step that 6 makes of a write or a load.

## 3. Modules and code

### `StoreCalls`

A snapshot is a function from `Keys` to `Values ∪ {Missing}`. A write call is a
record of its kind, the keys it announces and its closure `txn`, a function on
snapshots. `SetCall`, `MsetCall`, `AtomicCall`, `DeleteCall`, `MutateCall` build
the closures of the methods of those names. A value is one Python object, so
equality is `is`, and `Map.set` of the object already there returns the same
map: this is the no-op case `new is old` of `mutate`. A closure for `mutate` that
builds a distinct but equal map is not told apart from the no-op.

### `AtomicStore`

The promise: a call is invoked, takes effect at one instant (`Apply`) or never
(`Fail`), and returns.

### `ReactiveStore`

One process per thread. `pc` walks through the method:

| `pc` | code | leaves by |
|------|------|-----------|
| `check` | `existed = key in self._ref` (delete, 387) | `CheckAbsent`, `CheckPresent` |
| `read` | the peek of the old value, one read per key (272, 305, 390), then `old = self._ref; new = fn(old)` | `Peek`, `MutateNoOp`, `MutateRead`, `MutateRaises` |
| `swap` | waiting for `_swap_lock`; the identity test | `SwapCompare`, `SwapLost` |
| `store` | inside the lock, the test passed | `SwapStore` |
| `announce` | keys left to announce in `todo`; when there are none the call returns or raises | `NotifyTargeted`, `Return` |
| `copy` | inside `_subs_lock`, between the two copies | `NotifyGeneral` |
| `deliver` | the loop over `targeted + general` | `Deliver`, `NotifyEnd` |

`self._ref is old` compares objects. A thread keeps its snapshot alive, so no
address is reused, and every swap installs a new object: the test fails exactly
when some thread has swapped since the read. `stale` is the set of threads for
which it fails. In particular a map that is changed and changed back is a
different object, and the model says so.

`SwapCompare` and `SwapStore` are separate steps, although both run under the
lock, so that what the lock protects against is a matter of the model and not of
its grain. The lists of subscribers and the keys of an mset are sets, visited in
any order. A callback (`Deliver`) does anything that leaves the store alone, or
cancels its own handle (`OneShot`). A callback that writes is a write call of
another thread: no lock is held and the writer waits in `deliver`, so the two
differ only in that the writer's thread waits for it. An exception of
a callback is logged and dropped by the code and changes no state.

`swapped` and `owed` are auxiliary: they record what a swap did and who listened
to it, and no guard reads them.

### `SubscriberView`

`ReactiveStore` with, for each subscriber, the last value it heard of each key.
`HeardIsCurrent` and `ChainUnbroken` hold of a key that one thread writes. Of others
neither does: two threads can announce in the opposite order of their swaps (section 7).

### `WaitFor`

`ReactiveStore` with waiters: `FirstCheck`, `WaitSubscribe`, `Recheck`, `Woken` or
`GiveUp`, `WaitCancel` are the lines of `wait_for` (334 to 361); `Check` is its
callback, run by a writer's `Deliver`. Any timeout may pass at any time.

### `Deadlines` and `ExpiryScheduler`

Everything inside one `with self._cv` is one step. `spc` is `awake` (about to
take the lock), `sleeping` (in `wait`, with its timeout in `alarm`), `firing`
(the lock released, the key to be deleted in `firing`) or `exited`. The heap is a
set and `First(e)` any entry with the earliest time. Python orders equal times by
key and generation; the model leaves that order open. A sleeping thread is woken
by `Notify` or, when the clock has reached `alarm`, by `WakeUp`. `Deadlines` keeps one
replaceable deadline per key and no heap.

### `NimbusKV`

One process per task, a thread or (in `Async`) a coroutine that awaits `aset` and
`adelete`. `pc` is the step the call makes next:

| `pc` | code | leaves by |
|------|------|-----------|
| `cancel` | `self._scheduler.cancel(key)`, which `delete` does first (210) | `CancelFirst` |
| `store` | the call on `self._store`: `Apply` of `AtomicStore`, or `Fail` | `Store`, `StoreRaises` |
| `expiry` | `expire_at = time.time() + ttl if ttl is not None else None` | `ComputeExpiry` |
| `schedule` | `self._scheduler.schedule` or `cancel`, key by key for `mset` | `Schedule` |
| `persist` | `persist_set` or `persist_delete` of that key, or awaiting it | `Persist`, `PersistRaises`, `CancelTask` |

`set` and `mset` go through `store`, `expiry` and a `schedule` and `persist` for
each key; `atomic` goes from `store` to `persist` and never touches the scheduler;
`delete` is `cancel`, `store`, `persist`, whether or not the key was there. The
scheduler is `Deadlines` by INSTANCE; `Expire` is the test of the generation under the
lock and `Fire` or `FireFails` the deletion after it. The thread takes the
earliest deadline and has one key in hand.

Coroutines of one event loop interleave only where they await, so as threads
they get more interleavings than they have, and no fewer. A coroutine cancelled
while it awaits the executor leaves its job behind: not begun, it is dropped; begun,
it goes on (`job`, `FinishJob`) and may finish after any later write. One such job per
task at a time is modelled.

The backend is SQLite's: rows that survive the process. It may raise
(`BackendFails`) and always does once `stop()` has closed it. `End` is a crash at any
point, or the process leaving after `stop()`; `Start` is the constructor: `load_all`
without the rows that are past their time, which it also deletes, and a store and a
scheduler filled from the rest. It is one step: no client can call a
`NimbusKV` before its constructor returns.

Six auxiliary variables say what was asked for, and no guard reads them: `due`, the
time before which the value of a key must not expire; `meant`, what its last write
made of it; `blurred`, the keys of which neither can be said, because two writes or a
write and an expiry overlapped or a write was cut short; `dead`, the keys that
expired; `bare`, the keys last written by `atomic()`, whose rows the code gives no
deadline; `undated`, those of them that a restart has since left without one in memory. A
key leaves `blurred` with the first effect of a `set`, `mset` or `delete` that nothing
else is running against. `Start` and `End` leave `due` and `meant` alone: what was asked for
before a restart is what the state after it is compared with.

The properties that hold are about keys that are `Clear`, those not `blurred` and not being
written:

- `Durable`: the row is the one the last write made, or gone once its time has come (a
  backend may expire it, a load purges it, an expiry need not); memory holds the same value until its
  time, in the process that wrote it and in every later one; a key that expired is not loaded again, unless it
  is `bare`.
- `DeadlinesMatch`: the deadline in memory is that of the write that set the value, none if it gave
  none, before and after restarts; for `undated` keys it is none.
- `OwnDeadline`: a value is expired only when its own time has come.

What they say nothing of is what happens to the keys that are not `Clear`; sections 7 and the
notes of the hazards in `PROJECT.json` tell that.

### `Backends`

Users are threads; `conn` says which backend object each of them uses, the same one if
`resolve_backend` was given an object and its own otherwise. A call walks through its
statements:

| `pc` | code | leaves by |
|------|------|-----------|
| `execute` | waiting for `_lock`; the INSERT or DELETE, or the purge of `load_all` (147) | `Execute`, `ExecuteRaises` |
| `commit` | inside the lock | `Commit`, `CommitRaises` |
| `select` | the SELECT and the loop over its rows, which is local (135-145) | `Select`, `SelectRaises` |
| `px` | `time.time()` before the command (238) | `ComputePx` |
| `send` | SET or DEL | `Send`, `SendRaises` |
| `scan` | between two keys: the next page, or `GET` of one | `Scan`, `Get`, `ScanEnds`, `LoadRaises` |
| `pttl`, `append` | `PTTL`; then `time.time()` again (230, 231) | `Pttl`, `Append`, `LoadRaises` |
| `loaded` | `load_all` is about to return `out` | `Return` |

Of SQLite the model knows what the code relies on: changes are the connection's until its
commit, a connection that finds another one in a transaction raises ("database is locked"; the
five seconds it waits first are nobody's step), closing or crashing rolls back. A commit that
raises leaves its transaction open. Of Redis: a command is one step; a key can be read up to
and including its deadline, so that `PTTL` can answer 0, and is gone after; a command may have been done although
the client saw an error. The clock of the server is that of the clients.

`disk` is the committed table or the content of the server, `txn` what each connection has
executed and not committed. `steady`, `began`, `kept` and `unclear` are auxiliary: the keys nobody has written
since a load began, the rows there were then, what the last write that returned made of each key, and
the keys of which that cannot be said. What a load purges changes neither `began` nor `kept`, so
that a purge of a row that lives violates both `LoadIsExact` and `WrittenIsKept`. A key goes to `unclear`
when its last write raised, when two writes of it overlapped, or when the purge of a load takes away what was
written after its select.

### `ThreadPrograms`

One module for all of them, because they share their shape: a main thread
(`mpc`) that starts workers (`wpc`), meets them at a barrier or not, sets a stop event or
waits, and joins. `program` says which one a behaviour is. A write is `ReadSnapshot` and `Swap`,
`SwapLost` or `Raise`: the loop of `mutate()` without its announcements, which no
program here depends on except the dispatcher, for which `wait_for` is a test of the
counter (that it wakes is `NoLostWakeup`). A write of any key makes every other snapshot
stale, as the identity test is of the whole map. `Raise` is the end of a thread, or of its one
write where the code catches it and notes it down; the two look alike from outside.

### `BenchRunner`

`bpc` is the line `main()` is at: `run`, `open` and `dump` (the two steps of `save_json`),
`render`, `markdown`, `json`, `dashboard`, `output` and `write`. The suites are given as
data: `ResultsNN` are the names in what `run()` returns, `ChartsNN` what `render()` saves
under which file name and from which results, `SectionNN` and `JsonNN` the names that
`to_markdown` and `to_json` read. A suite raises because a name is not there (`NameMissing`), or at
any of its functions for a reason of its own (`faults`); `Abort` is a kill, or an exception outside
the `try`. `_validate_suite` passes for every registered suite and is not a step.

### Faulty variants

`FaultyX`, just above `X`, is `X` with one plausible bug: a lock not taken, a
generation not increased, a second check dropped, a box filled once. No
specification uses them. Putting one in the place of `X` makes a property fail,
and `PROJECT.json` pairs every property with one.

## 4. Runs and bounds

| run | instance | shows |
|-----|----------|-------|
| `writers` | 2 threads (symmetric), 2 keys, 2 values and `None`, 2 attempts; every kind of call | `CallsAreAtomic` (refinement of `AtomicStore`), `SnapshotCurrent`, `AnnouncementMatchesSwap`, `TypeOK` |
| `subscribers` | 2 threads, calls on one and on two keys, a subscriber of one key, which cancels itself when called, and one of all keys | `EveryCallAnnounced`, `NoLockInCallback`, `CancelIsFinal`, `HeardIsCurrent`, `ChainUnbroken` |
| `progress` | 2 threads, 1 key, a subscriber that cancels itself, fairness | `CallsEnd` |
| `waiters` | 1 waiter that may time out, 2 writers setting, toggling and deleting its key, fairness | `NoLostWakeup`, `AnswerAccepted`, `EveryWaiterReturns`, `WaitTypeOK` |
| `expiry` | 2 keys, times 0..2, 3 generations per key, fairness | `KeepsDeadlines` (refinement of `Deadlines`), `OneDeadline`, `NeverOversleeps`, `DueKeysExpire` (a due deadline leads to the deletion of its key, unless the key is scheduled again or cancelled, or `stop` comes first), `StopEnds`, `TypeOK` |
| `facade` | 1 key; a thread that sets and updates it, a coroutine that sets and deletes it; a backend that raises; times 0..2, a ttl of 1 | `Durable`, `DeadlinesMatch`, `OwnDeadline`, `TypeOK` |
| `facade_mset` | 2 keys; a thread that sets both at once (`mset`) and updates one with `atomic`; otherwise the same | `Durable`, `DeadlinesMatch` |
| `backends` | every `backend=` argument; 2 users, both write and one loads, on one object or two; 2 keys (symmetric), 3 writes, times 0..2 | `LoadIsExact`, `WrittenIsKept`, `TypeOK` |
| `programs` | one of the threaded programs with 3 workers, or the benchmark runner with 2 runs and one fault in each | `CountsAreExact`, `ReportsAddUp`, `StartTogether`, `ResultsAreReady`, `ProgramEnds`, `ThreadsTypeOK`; `ReportsAreTwins`, `NothingStale`, `ReportComesLast`, `OnlyFaultsFail`, `BenchTypeOK` |
| `too_soon` | 1 thread, 1 key, a backend that does not raise | `NeverTooSoon` fails: finding 1 |
| `dead_keys` | 1 thread that sets a key and updates it with `atomic` | `DeadKeysStayDead` fails: finding 2 |
| `redis_deadline` | as `backends`, 1 key | `DeadlinesAreLoaded` fails: finding 3 |

The bounds, and why they are enough to meet the cases that matter:

- `MaxRetries = 2` (the code's default is 1000): a call can win at once, win
  after a lost race, and give up.
- Two writing threads lose races to one another in every order. A third adds no
  new pair of steps, and the proofs have no bound on threads.
- Two keys are needed for an mset that could be half applied and for targeted
  subscribers of different keys.
- `MaxTime = 2` and `MaxGen = 3` in `expiry`: a key can be scheduled, rescheduled
  earlier or later, and cancelled, with three entries in the heap, and time can
  pass before, between and after. `MaxTime` stops the clock and `MaxGen` the clients'
  calls; nothing else is cut off. When both are used up the scheduler may
  sleep for ever on an empty heap, and after `stop` it is gone, which is why
  this run does not check for deadlock.
- `MaxTime = 2` and `Ttls = {1}` in `facade`: a value with a ttl can be set at 0 and
  another at 1, before or after the first expires at 1, and a deadline can pass while the
  process is down. `MaxTime` cuts off nothing but the clock; a process whose tasks
  have used it up goes on writing, stopping and starting.
- `facade` has two writers of one key, `facade_mset` two keys of one writer; two
  writers and two keys at once are beyond TLC here. The keys meet only in the store,
  where a call is one step, and in the choice of the earliest deadline.
- `backends`: two users are a writer and a loader, or two writers, in one process or in two; two
  keys a purge or scan of one while the other is written; a third write lets one key
  be written, rewritten by the other user, and the second key commit what was left open.
  A row is written one tick before its deadline (`Ttls = {1}`), and the clock can reach it and pass it
  before, during or after a load. `SQLite`'s wait for a lock and Redis' duplicates in a scan are left out.
- `programs`: three workers with `MaxTries = 2`, so that one can lose to each of the others and give up;
  two rounds each, three jobs for three workers, two transfers (there and back), two
  writes per worker of the throughput loop (`MaxOps`), so that one can raise in its second round and
  leave a completed write that no count reports. Two runs of the benchmark leave files of a first
  version for the second to find; one fault per run is a failing suite or an abort, in each
  place. `MaxOps`, `MaxRuns` and the programs' ends stop everything, which is why this run does not check
  for deadlock; `ProgramEnds` is what says that no program stops early.
- Symmetry is used only in runs without a liveness property: in `writers` on two threads with
  the same calls, in `backends` on the two keys, which no definition tells apart.

## 5. Fairness

- A thread inside a call that runs no client code keeps taking steps (weak
  fairness of `Step(t)`): the operating system schedules threads.
- A lock that is released again and again is eventually acquired by a thread
  that waits for it (strong fairness of the steps that take `_swap_lock`
  or `_subs_lock`). `threading.Lock` promises no order, but neither lock is
  held across a wait, a callback or a client's function: its holders take
  a fixed, small number of steps, and a thread that is passed over for ever would
  have to lose against the scheduler infinitely often.
- No client has to make a call, and in `ReactiveStore` no callback has to return:
  `CallsEnd` says that a call ends *or* is inside a callback. In `WaitFor` the
  callback is `_check`, which runs nothing but the predicate, and it does return.
- A timeout need never pass (`GiveUp` is not fair), so `EveryWaiterReturns`
  holds without its help, and says nothing of a waiter that has given up.
- The threads of `ThreadPrograms` run (`WF` of each worker, of the main thread and of the barrier). A lost race is
  not unfair to anyone: it is counted, and the budget is finite. `Backends` and `BenchRunner` state
  no liveness: a call of theirs is a straight line that waits for at most one lock, and may raise
  or be killed anywhere.
- The scheduler's thread runs and the clock moves (`WF(Run)`, `WF(Tick)`); the
  expiring `delete` returns, which `CallsEnd` shows of the store.

## 6. Proofs

The theorems hold for every number of threads, keys, values, subscribers,
waiters and retries, users and backend objects, and for every clock. They rest only on the named assumptions
of the modules: that `Missing`, `None`, `Free`, `AnyKey`, `Never`, `NoKey`, `NoRow` and
`TimedOut` are distinct from what they could be confused with, that `CallsOf` gives
write calls and `SubKey` a key, that `MaxRetries` is positive, that waiters do not
cancel themselves and, in `WaitFor` and `SubscriberView`, that nobody calls `mutate` directly. TLC
evaluates these on every run.

`StoreCallsProofs` has the lemmas on what a call's closure does to a snapshot, which
the proofs of the store and of the facade rest on: what it returns (`CallType`), which keys it
touches (`CallConfined`), what it leaves under them (`CallStores`).

`ReactiveStoreProofs`:

- `Typing`: `TypeOK` is inductive.
- `SnapshotsAreCurrent`: `SnapshotCurrent` is not inductive alone. A thread that
  stores invalidates the others' snapshots only because it is the only one
  inside the lock, and it finds them because they are in `swap` or `store`:
  `ControlInvariant` (who holds which lock at which `pc`, what `call` and `todo`
  hold there) is carried along.
- `Refinement`: `Spec => CallsAreAtomic`. `SwapStore` and `MutateNoOp` are
  `Apply`, `CheckAbsent` is the `Apply` of a delete that finds nothing; the last
  `SwapLost` and `MutateRaises` are `Fail`; the rest stutters. `SwapStore` is an
  `Apply` of the *current* map only because of `SnapshotCurrent`.
- `EveryCallIsAnnounced`: from `Owing`, which says that what a thread owes is of
  keys it has not finished: in `todo`, or still in `targets` for the current key;
  in `copy` targeted listeners are already in `targets` and general ones still
  `active`.
- `AnnouncementsMatch`: from `Matching`, which ties `old`, `seen` and `swapped` from
  the read that precedes the winning swap on.
- `CallbacksHoldNoLock`, `CancelledStaysSilent`: from `ControlInvariant` and `TypeOK`.

`WaitForProofs`: `WaitForUsesTheStore` (`WaitSpec => Spec`, so all of the above holds
with waiters), `WaitersTyping`, `AnswersAreAccepted`, and `NoWakeupIsLost`, whose invariant adds
to `NoLostWakeup` that a waiter's subscription is active from `recheck` to
`cancel`. A `SwapStore` that makes the predicate true owes the waiter a call with
that value; a `Deliver` that pays the debt sets the event; a swap that
overtakes another owes the later value itself.

`SubscriberViewProofs`: `ViewSpec => Spec`, and for every key with one writer `MirrorsAreCurrent` and
`ChainsAreUnbroken`. Neither is inductive alone, and each needs the other's part: `Told` says that what a
live subscriber heard is current unless a thread owes it the next value, `Fresh` that what the
one writer peeked at or boxed before its swap, and what it stored, is still current (the others' swaps leave the key
alone, because their snapshots are current), and `Chained` that until a subscriber is told of a change
it has heard the value before it.

`ExpirySchedulerProofs`: `Typing`, `KeysHaveOneDeadline`, `SchedulerNeverOversleeps`
and the refinement `SchedulerKeepsDeadlines`, which needs that a key has at most one
current entry: the entry a `Schedule` pushes is of a new generation.

`BackendsProofs`, for any number of users, backend objects, keys and values, on
every kind of backend, in three layers.

1. `IInv`: `Control` says where a user is in its call
   and what it holds there: the lock from a statement to its commit and nowhere else (`Locking`), in the
   transaction what it is about to commit (`Executed`). `Transactions` says that at most one transaction is
   open, and that each key of it is unclear, because a commit raised before, or
   is being written by the user about to commit it. Steps that only read and move on are one lemma, `QuietStep`.
   `BackendsTyping` is the type invariant.
2. `LoadInv`, for `LoadsAreExact`: what each load has found so far of the keys that are steady. Of SQLite,
   that the rows there are now are those there were when it began (`began`), save what the load itself has purged, which
   were past their deadline then (`Selected`), and that no open transaction but its own purge touches a steady key
   (`Untouched`), or a commit under way would change it later; of Redis, which keys of the
   pages seen are found, still to be got, or in hand with the reply of `PTTL` (`Scanned`, `Replied`).
3. `WritesAreKept` rests on both: a commit carries out what its connection has executed, which is a write about
   to return, of unclear keys, or a purge; and of a key that is still what the load selected, the purge takes
   the row only when it was past its deadline.

`NimbusKVProofs`: `FacadeTyping`, `WritesAreDurable`, `ValuesHaveTheirDeadlines` and `ExpiriesAreDue`, for any number of
tasks, keys, values and ttls. `Durable` and `DeadlinesMatch` speak of keys at rest, so the invariant must say what is
true of a key until then, and of a key at rest what is true while the process is down: a restart finds in `disk` what
`meant` and `due` say, because nothing but the passing of its time can have changed it. `Orderly` says that a key that is not blurred is in one of three
hands: it rests (`Resting`), with the row and the deadline of its last write; or the
scheduler is expiring it, because the time of its value has come; or one task is writing it,
and `OnItsWay` says how far that task has come: its store call made of the key what it
remembers in `wrote`, its `expireAt` is no earlier than `due`, its deadline is set once the
key is `ready`. `Working` ties a task's locals to its place in the call. A blurred key is
unblurred (`Settled`) only when nobody else is at work on it and no job is left of it
(`JobsAreBlurred`). `KeyKept` is the one lemma for all the keys a step leaves alone.

`ProgramsProofs`, on the threaded programs: `ThreadsTyping`, `CountsExact`, `AllStartTogether`,
`AllResultsReady` and `AllReportsAddUp`, for any number of workers, rounds, jobs and tries. That a count is
the number of writes made needs a sum over the workers: `Total` counts the rounds of all of them
(`RoundsOf`, a set of pairs), and `OneMoreRound` says what one more write adds to it. `ThreadInv` says that
a worker whose snapshot is not stale has seen the store (so that what it swaps in is one more than what is there),
how far each worker's own count has come (`Tallied`), and, for the pool, that every job taken
from the queue has its result in the store or a worker at it, which is then not counted (`JobsAccounted`).

On the benchmark runner: `BenchTyped`, `ReportsStayTwins`, `NothingGetsStale`, `ReportIsLast` and
`OnlyFaultsMakeFailures`, for any number of runs and of faults in each; the suites are the five there
are, and their tables are part of the proof (`NamesFound`: each function finds the names it reads; `ChartsApart`: no two
charts share a file). `NothingStale` outlives its run: of a report of an earlier run, `StaysFresh` says that a
step of a later one leaves its files alone or makes them newer (`OnlyNewFiles`). `BenchInv` says which suites are recorded at which line of `main()`
(`BenchPlace`), that the results and charts of those that completed, and of the current one as far as it is, are of this
run (`Measured`), and which of the three outputs are of this run and which still of an earlier one (`Written`).

Only model-checked: everything under fairness (`CallsEnd`, `EveryWaiterReturns`,
`DueKeysExpire`, `StopEnds`, `ProgramEnds`), which is out of the prover's reach. Every other property
of a passing run is a theorem.
The facade and its parts are tied together by four theorems. `Refinement` and `SchedulerKeepsDeadlines` show that
`ReactiveStore` implements `AtomicStore`, and `ExpiryScheduler` implements `Deadlines`.
`FacadeStoreIsAtomic` and `FacadeKeepsDeadlines` show that, while the process runs, `NimbusKV` asks nothing else of
them: its store changes only by `AtomicStore`'s `Apply` of a call not yet decided or by the deletion of an expiring
key, and its scheduler only by steps of `Deadlines`. A start and an end are not steps of either: the process gets new ones.

## 7. Findings

Each is a run expected to fail, with the line it disagrees with in `PROJECT.json`.

1. `too_soon`: a value just set is deleted by the deadline of the value before it,
   which comes between the store step and the scheduler step of `set`, or was
   taken off the heap just before.
2. `dead_keys`: `atomic()` persists a key without its deadline. The key expires in memory
   and is back, for ever, after a restart.
3. `redis_deadline`: `load_all` reads a value and asks for its remaining time in a second
   command. A key whose time comes in between, or is in its last millisecond, is
   loaded without a deadline and never expires in memory.

Met while modelling and visible in the modules, without a run of their own:

- Swap and notification are two steps, also in `atomic()`, whose documentation calls them "a
  single, indivisible operation": with two writers of one key, announcements can arrive in the opposite order
  of the swaps, and a mirror stays stale for good. `HeardIsCurrent` and `ChainUnbroken`
  are therefore about keys with one writer (`HasOneWriter`).
- Two calls of `set` on one key can leave the value of the one that gave no ttl with the deadline
  of the other, and can reach the backend in the opposite order of their swaps, so that a restart returns to the
  older value. `DeadlinesMatch` and `Durable` set apart keys whose writes overlapped (`blurred`).
- A key with a ttl that was updated by `atomic()` has no deadline after a restart, even if the restart comes before
  the expiry: the row has none (`undated`).
- What a call leaves that is cut short by an exception, a cancellation or a crash is in the model and in no
  property: the later keys of an `mset` are in memory without the ttl of the call and without rows; a job that was
  abandoned may write its row after that of a newer `aset`.
- Two deletes of one key can both return `True` and both announce the removal:
  `CheckPresent` of both comes before the `SwapStore` of either.
- `mutate()`, public, announces nothing, although the class says that every
  successful write does; `EveryCallAnnounced` is about the other four.
- `wait_for` returns the value announced, which may have been overwritten before the
  wait began: `Woken` reads `result`, not the store.
- An expiry is not written through (`Fire` leaves `disk` alone), although `persist_delete` is
  described as the mirror of it (`persistence.py`, 73-76). The row is left out by its deadline at the next start, if it has
  one; `Durable` asks for no more than that, and would allow the deletion.
- `SQLiteBackend.load_all` deletes expired rows by name after it has released its lock: a row that another
  instance replaced in between is lost (the second disjunct of `unclear'` in `Commit`).
- After a commit that raised, a SQLite connection goes on with its transaction open: the failed write
  becomes durable with the next one, and other connections cannot write until then.
- In b02 and b05 the workers leave the barrier with the main thread, not after it: what they write before
  it has read the clock (`clock` in `mpc`) is counted. "SET disjoint keys" is not free of contention, since the identity
  test is of the whole map; and a worker that gives up reports nothing.
- b01 calls losing all attempts "guaranteed" and expects the two calls of `get()` to be caught in between;
  neither must happen. Its "LOST WRITES" can only be a worker that gave up.
- A touch of a session that has expired stores `None` under its key, without a ttl (`Bump`), and is announced as a
  session created.
- The names of results and charts carry no version: once a later run has begun, even one that is aborted, a finished report
  refers to numbers and charts of that run, some of them perhaps half written. `NothingStale` says that they are never older
  than the report and never another suite's.
- A suite 1 that failed is shown on the dashboard as "(no correctness suite registered)" (`Shown`). `note_threshold` of
  suite 4 is in no report.

## 8. What is not modelled

- Values and pickling: a value that cannot be pickled raises before the first statement.
- What `close()` of `RedisBackend` does: it closes the pool, which the next command opens again.
- SCAN may return a key twice; the second pass reads it again, as the first did.
- The benchmarks' TTL experiments (b01, 180-200; b03, 90-136): one thread that sets keys with ttls and waits,
  which `expiry` and `facade` do with more freedom. The measurements of one thread, the adapters of b05 and
  `testfile.py` are sequential, and their numbers are not modelled.
- `stop()` called a second time, `close()` waiting for the scheduler's thread, and a
  `stop()` by two threads at once.
- A negative ttl: a deadline already past, as one of zero is.
- The reads other than `get`: each is one read of `_ref` and changes nothing. That
  they see no half-applied update is `CallsAreAtomic`.
- Deletion by the scheduler is one step in `ExpiryScheduler`, and an `"expire"` call
  in `ReactiveStore`; `NimbusKV` joins the two.
- The announced *old* value of `set`, `mset` and `delete`, which the code reads
  before the swap without a promise that it is the one replaced.
- The order of subscribers in a list; `_next_sub_id`; logging; the event
  names, except as kinds of call.
- A clock that is set back, and spurious wakeups of the condition variable (the
  loop in `run` re-examines everything after any wakeup).
- Configuration and imports: run once, before any concurrency.
