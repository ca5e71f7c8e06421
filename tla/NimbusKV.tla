------------------------------ MODULE NimbusKV ------------------------------
(***************************************************************************)
(* The facade (nimbuskv_v3.py) over its three parts: a write goes to the   *)
(* store, to the expiry scheduler and to a durable backend, one after the  *)
(* other and under no common lock, while other tasks do the same, keys     *)
(* expire, and the process stops, crashes and starts again.                *)
(*                                                                         *)
(* The store is used at the grain of AtomicStore (a call is one step) and  *)
(* the scheduler at that of Deadlines: the modules ReactiveStore and       *)
(* ExpiryScheduler implement them.  The backend is SQLiteBackend.          *)
(*                                                                         *)
(* A task is a thread or a coroutine; aset() and adelete() differ from     *)
(* set() and delete() in that the write to the backend is a job in an      *)
(* executor, which outlives a task that is cancelled.                      *)
(*                                                                         *)
(* Faulty... definitions are no part of the model: each is a bug put in the*)
(* place of the definition that follows it, to see a property fail.        *)
(***************************************************************************)
EXTENDS StoreCalls, Integers

CONSTANTS
    Async,          \* the tasks that are coroutines
    Ttls,           \* the ttl arguments of set and mset besides None
    Never,          \* no deadline
    NoRow,          \* the backend has no row of a key
    NoJob,          \* no cancelled task's job is still in the executor
    BackendFails,   \* whether persist_set and persist_delete may raise
    MaxTime         \* bound: the clock

ASSUME FacadeAssumption ==
    /\ Async \subseteq Threads
    /\ Never \notin Int
    /\ Ttls \subseteq Nat
    /\ MaxTime \in Nat
    /\ BackendFails \in BOOLEAN
    /\ \A t \in Threads : \A c \in CallsOf[t] :
          /\ c.kind \in {"set", "mset", "atomic", "delete"}
          /\ c.keys # {}

(* wrote: the content its store call left;  todo: the keys it has yet to   *)
(* take to the scheduler and the backend;  ready: of these, the one to     *)
(* persist next.                                                           *)
IdleTask ==
    [pc |-> "idle", call |-> NoCall, ttl |-> Never, expireAt |-> Never,
     wrote |-> EmptyMap, todo |-> {}, ready |-> {}]

Deadline == Nat \cup {Never}
TaskType ==
    [pc : {"idle", "cancel", "store", "expiry", "schedule", "persist"},
     call : WriteCalls \cup {NoCall}, ttl : Deadline, expireAt : Deadline,
     wrote : Maps, todo : SUBSET Keys, ready : SUBSET Keys]
Row == [value : Values, expire : Deadline]
Job == [key : Keys, row : Row \cup {NoRow}]
ASSUME NoRowAssumption == NoRow \notin Row /\ NoJob \notin Job

VARIABLES
    phase,      \* "up", "stopping" or "closed" by stop(), "down": no process
    store,      \* what the ReactiveStore holds
    now,        \* time.time()
    deadline,   \* the scheduler: when each key is to expire
    expiring,   \* the scheduler: the key it is deleting
    disk,       \* the backend's rows
    task,       \* each task: where it is in its call, and its locals
    job,        \* the job in the executor that a cancelled task left behind
    due,        \* auxiliary: before when the value of a key must not expire
    meant,      \* auxiliary: what the last write of a key made of it
    blurred,    \* auxiliary: keys whose writes overlapped or were cut short
    dead,       \* auxiliary: keys that expired and were not written since
    bare,       \* auxiliary: keys last written by atomic(): no deadline in the row
    undated     \* auxiliary: of these, those that a restart left no deadline

schedulerVars == <<now, deadline, expiring>>
historyVars == <<due, meant, dead, bare, undated>>
auxVars == <<blurred, historyVars>>
vars == <<phase, store, schedulerVars, disk, task, job, auxVars>>

Scheduler == INSTANCE Deadlines WITH Times <- Nat

-----------------------------------------------------------------------------
(* The process starts: load_all, rehydration, an idle scheduler.           *)

(* A row that has a deadline is taken to be past it; or it is looked at.   *)
FaultyLoaded(k) == disk[k] # NoRow /\ disk[k].expire = Never
Loaded(k) == disk[k] # NoRow /\ (disk[k].expire = Never \/ disk[k].expire > now)

(* The whole row is taken for the value; or the value is.                  *)
FaultyRehydrated(k) == IF Loaded(k) THEN disk[k] ELSE Missing
Rehydrated(k) == IF Loaded(k) THEN disk[k].value ELSE Missing

(* The deadline of the row is forgotten, or scheduled again.               *)
FaultyExpiryOf(k) == Never
ExpiryOf(k) == IF Loaded(k) THEN disk[k].expire ELSE Never

Idle == task = [t \in Threads |-> IdleTask] /\ job = [t \in Threads |-> NoJob]

Init ==
    /\ phase = "up"
    /\ store = EmptyMap
    /\ Scheduler!Init
    /\ disk = [k \in Keys |-> NoRow]
    /\ Idle
    /\ due = [k \in Keys |-> Never]
    /\ meant = EmptyMap
    /\ blurred = {}
    /\ dead = {}
    /\ bare = {}
    /\ undated = {}

(* NimbusKV(backend=...).  Keys already expired are left out and deleted.  *)
(* What the writes before the restart meant is still what they meant.      *)
Start ==
    /\ phase = "down"
    /\ phase' = "up"
    /\ store' = [k \in Keys |-> Rehydrated(k)]
    /\ deadline' = [k \in Keys |-> ExpiryOf(k)]
    /\ disk' = [k \in Keys |-> IF Loaded(k) THEN disk[k] ELSE NoRow]
    /\ undated' = bare
    /\ UNCHANGED <<now, expiring, task, job, due, meant, blurred, dead, bare>>

(* The keys a task has not finished with, and the one of the job of a task *)
(* that was cancelled.                                                     *)
JobKeys(t) == IF job[t] = NoJob THEN {} ELSE {job[t].key}
InFlight == UNION {task[t].todo \cup JobKeys(t) : t \in Threads}

(* The process ends, by a crash or after stop(): what is in memory is gone *)
(* and every write under way is cut short.                                 *)
End ==
    /\ phase # "down"
    /\ phase' = "down"
    /\ store' = EmptyMap
    /\ deadline' = [k \in Keys |-> Never]
    /\ expiring' = {}
    /\ task' = [t \in Threads |-> IdleTask]
    /\ job' = [t \in Threads |-> NoJob]
    /\ blurred' = blurred \cup InFlight
    /\ UNCHANGED <<now, disk, historyVars>>

(* stop(): the scheduler, then the backend.                                *)
StopScheduler ==
    /\ phase = "up"
    /\ phase' = "stopping"
    /\ UNCHANGED <<store, schedulerVars, disk, task, job, auxVars>>

CloseBackend ==
    /\ phase = "stopping"
    /\ phase' = "closed"
    /\ UNCHANGED <<store, schedulerVars, disk, task, job, auxVars>>

-----------------------------------------------------------------------------
(* The calls set, mset, atomic and delete.                                 *)

Puts == {"set", "mset"}

(* The keys being written by others, or expired, at this moment.           *)
Busy(t) ==
    expiring \cup (UNION {JobKeys(u) : u \in Threads})
             \cup (UNION {task[u].todo : u \in Threads \ {t}})

(* The first effect of a set, mset or delete puts an end to what earlier   *)
(* calls left unclear, unless others are still at work.                    *)
Settled(t) == blurred \ (task[t].call.keys \ Busy(t))

(* A call is over, and its locals are gone; or it is over too soon.        *)
Done(t) == task' = [task EXCEPT ![t] = IdleTask]
CutShort(t) == Done(t) /\ blurred' = blurred \cup task[t].todo

Begin(t, c, limit) ==
    /\ phase # "down"
    /\ task[t].pc = "idle"
    /\ c.kind \notin Puts => limit = Never
    /\ task' = [task EXCEPT
          ![t].pc = IF c.kind = "delete" THEN "cancel" ELSE "store",
          ![t].call = c, ![t].ttl = limit, ![t].todo = c.keys]
    /\ blurred' = blurred \cup (c.keys \cap Busy(t))
    /\ UNCHANGED <<phase, store, schedulerVars, disk, job, historyVars>>

(* delete(): self._scheduler.cancel(key)                                   *)
CancelFirst(t) ==
    /\ task[t].pc = "cancel"
    /\ \E k \in task[t].todo : Scheduler!Clear(k)
    /\ task' = [task EXCEPT ![t].pc = "store"]
    /\ blurred' = Settled(t)
    /\ UNCHANGED <<phase, store, disk, job, historyVars>>

(* atomic() lets the value it replaces keep its deadline.                  *)
KeepsDue(t, k) ==
    \/ k \notin task[t].call.keys
    \/ task[t].call.kind = "atomic" /\ store[k] # Missing
NewDue(t) == IF task[t].ttl = Never THEN Never ELSE now + task[t].ttl

(* self._store.set, mset, atomic or delete                                 *)
Store(t) ==
    /\ task[t].pc = "store"
    /\ store' = task[t].call.txn[store]
    /\ task' = IF task[t].call.kind \in Puts
                THEN [task EXCEPT ![t].pc = "expiry", ![t].wrote = store']
                ELSE [task EXCEPT ![t].pc = "persist", ![t].wrote = store',
                                  ![t].ready = task[t].todo]
    /\ due' = [k \in Keys |-> IF KeepsDue(t, k) THEN due[k] ELSE NewDue(t)]
    /\ meant' = [k \in Keys |-> IF k \in task[t].call.keys THEN store'[k] ELSE meant[k]]
    /\ blurred' = IF task[t].call.kind \in Puts THEN Settled(t) ELSE blurred
    /\ dead' = dead \ task[t].call.keys
    /\ IF task[t].call.kind = "atomic"
       THEN bare' = bare \cup task[t].call.keys /\ UNCHANGED undated
       ELSE bare' = bare \ task[t].call.keys /\ undated' = undated \ task[t].call.keys
    /\ UNCHANGED <<phase, schedulerVars, disk, job>>

(* ConflictRetryExceeded, or an exception of the client's function.  A     *)
(* delete has cancelled the deadline by now.                               *)
StoreRaises(t) ==
    /\ task[t].pc = "store"
    /\ IF task[t].call.kind = "delete" THEN CutShort(t) ELSE Done(t) /\ UNCHANGED blurred
    /\ UNCHANGED <<phase, store, schedulerVars, disk, job, historyVars>>

(* The ttl itself, or time.time() + ttl.                                   *)
FaultyExpiry(t) == task[t].ttl
Expiry(t) == IF task[t].ttl = Never THEN Never ELSE now + task[t].ttl

ComputeExpiry(t) ==
    /\ task[t].pc = "expiry"
    /\ task' = [task EXCEPT ![t].pc = "schedule", ![t].expireAt = Expiry(t)]
    /\ UNCHANGED <<phase, store, schedulerVars, disk, job, auxVars>>

(* A write without a ttl leaves the old deadline, or cancels it.           *)
FaultyReschedule(t, k) ==
    IF task[t].expireAt = Never THEN UNCHANGED schedulerVars
                                ELSE Scheduler!Set(k, task[t].expireAt)
Reschedule(t, k) ==
    IF task[t].expireAt = Never THEN Scheduler!Clear(k)
                                ELSE Scheduler!Set(k, task[t].expireAt)

(* The keys of an mset go to the scheduler and the backend one by one.     *)
Schedule(t) ==
    /\ task[t].pc = "schedule"
    /\ \E k \in task[t].todo :
          /\ Reschedule(t, k)
          /\ task' = [task EXCEPT ![t].pc = "persist", ![t].ready = {k}]
    /\ UNCHANGED <<phase, store, disk, job, auxVars>>

-----------------------------------------------------------------------------
(* The backend: persist_set and persist_delete.                            *)

(* The row is given the time the ttl stands for.                           *)
NewRow(t, k) ==
    IF task[t].call.kind = "delete"
    THEN NoRow ELSE [value |-> task[t].wrote[k], expire |-> task[t].expireAt]

(* Nothing more, or the keys of an mset still to come.                     *)
FaultyRest(t, k) == {}
Rest(t, k) == task[t].todo \ {k}

Persist(t) ==
    /\ task[t].pc = "persist"
    /\ phase # "closed"
    /\ \E k \in task[t].ready :
        /\ disk' = [disk EXCEPT ![k] = NewRow(t, k)]
        /\ IF Rest(t, k) = {}
           THEN Done(t)
           ELSE task' = [task EXCEPT
                    ![t].pc = "schedule", ![t].todo = Rest(t, k), ![t].ready = {}]
    /\ UNCHANGED <<phase, store, schedulerVars, job, auxVars>>

(* The backend raises, as it always does once it is closed.                *)
PersistRaises(t) ==
    /\ task[t].pc = "persist"
    /\ BackendFails \/ phase = "closed"
    /\ CutShort(t)
    /\ UNCHANGED <<phase, store, schedulerVars, disk, job, historyVars>>

(* A task is cancelled as it awaits the executor.  A job not yet begun is  *)
(* dropped; one that has begun goes on (at most one for each task here).   *)
CancelTask(t) ==
    /\ t \in Async
    /\ task[t].pc = "persist"
    /\ task[t].call.kind \in {"set", "delete"}
    /\ \/ UNCHANGED job
       \/ /\ job[t] = NoJob
          /\ \E k \in task[t].ready :
                job' = [job EXCEPT ![t] = [key |-> k, row |-> NewRow(t, k)]]
    /\ CutShort(t)
    /\ UNCHANGED <<phase, store, schedulerVars, disk, historyVars>>

FinishJob(t) ==
    /\ job[t] # NoJob
    /\ \/ phase # "closed" /\ disk' = [disk EXCEPT ![job[t].key] = job[t].row]
       \/ (BackendFails \/ phase = "closed") /\ UNCHANGED disk
    /\ job' = [job EXCEPT ![t] = NoJob]
    /\ UNCHANGED <<phase, store, schedulerVars, task, auxVars>>

-----------------------------------------------------------------------------
(* The scheduler's thread.                                                 *)

Earliest(k) == \A j \in Keys : deadline[j] # Never => deadline[k] <= deadline[j]

Expire(k) ==
    /\ phase = "up"
    /\ expiring = {}
    /\ Scheduler!Expire(k)
    /\ Earliest(k)
    /\ blurred' = blurred \cup ({k} \cap InFlight)
    /\ UNCHANGED <<phase, store, disk, task, job, historyVars>>

(* self._store.delete(key, _event="expire"); the backend is not told.      *)
Fire(k) ==
    /\ k \in expiring
    /\ Scheduler!Expired(k)
    /\ store' = DeleteCall(k, "expire").txn[store]
    /\ dead' = IF store[k] = Missing THEN dead ELSE dead \cup {k}
    /\ UNCHANGED <<phase, disk, task, job, due, meant, blurred, bare, undated>>

(* ConflictRetryExceeded is logged and the deadline is lost.               *)
FireFails(k) ==
    /\ k \in expiring
    /\ Scheduler!Expired(k)
    /\ blurred' = blurred \cup {k}
    /\ UNCHANGED <<phase, store, disk, task, job, historyVars>>

Tick ==
    /\ now < MaxTime
    /\ Scheduler!Tick
    /\ UNCHANGED <<phase, store, disk, task, job, auxVars>>

-----------------------------------------------------------------------------
TaskStep(t) ==
    \/ \E c \in CallsOf[t], limit \in Ttls \cup {Never} : Begin(t, c, limit)
    \/ CancelFirst(t) \/ Store(t) \/ StoreRaises(t) \/ ComputeExpiry(t) \/ Schedule(t)
    \/ Persist(t) \/ PersistRaises(t) \/ CancelTask(t) \/ FinishJob(t)

Next ==
    \/ Start \/ End \/ StopScheduler \/ CloseBackend
    \/ \E t \in Threads : TaskStep(t)
    \/ \E k \in Keys : Expire(k) \/ Fire(k) \/ FireFails(k)
    \/ Tick

Spec == Init /\ [][Next]_vars

-----------------------------------------------------------------------------
(* Properties                                                              *)

(* Every variable has its type; a process that is down is idle.            *)
TypeOK ==
    /\ phase \in {"up", "stopping", "closed", "down"}
    /\ store \in Maps
    /\ now \in 0..MaxTime
    /\ deadline \in [Keys -> Deadline]
    /\ expiring \subseteq Keys
    /\ disk \in [Keys -> Row \cup {NoRow}]
    /\ task \in [Threads -> TaskType]
    /\ job \in [Threads -> Job \cup {NoJob}]
    /\ due \in [Keys -> Deadline]
    /\ meant \in Maps
    /\ blurred \subseteq Keys
    /\ dead \subseteq Keys
    /\ bare \subseteq Keys
    /\ undated \subseteq Keys
    /\ phase = "down" => Idle /\ expiring = {}

(* What is said of a key once its last write is over, unless that write    *)
(* overlapped another one or an expiry of the key, or was cut short by an  *)
(* exception, a cancellation or the end of the process.  A restart changes *)
(* nothing in what is said.                                                *)
Clear(k) == k \notin blurred \cup InFlight

(* Its own time has come.                                                  *)
OwnTime(k) == k \notin undated /\ due[k] # Never /\ due[k] <= now

(* As the write asked for: none if it gave no ttl, else none too soon.     *)
OnTime(k, when) ==
    /\ when = Never <=> due[k] = Never
    /\ when # Never => when >= due[k]

(* The last write of a key, if it was completed, is in the backend as it   *)
(* was made: the value, with the deadline that the write gave it, or none  *)
(* if it was an atomic(), which gives the row none; no row if it was a     *)
(* deletion.  A row may be gone only when its time has come.               *)
InBackend(k) ==
    IF meant[k] = Missing
    THEN disk[k] = NoRow
    ELSE \/ disk[k] = NoRow /\ OwnTime(k)
         \/ /\ disk[k] # NoRow
            /\ disk[k].value = meant[k]
            /\ IF k \in bare THEN disk[k].expire = Never ELSE OnTime(k, disk[k].expire)

(* And it is what the process has in memory, the one that made the write   *)
(* and every later one that loads the backend's rows.                      *)
InMemory(k) == store[k] = meant[k] \/ (store[k] = Missing /\ OwnTime(k))

(* A key that has expired is gone for good, unless its row has no deadline *)
(* (atomic): what is left of it in the backend will not be loaded.         *)
GoneForGood(k) ==
    /\ store[k] = Missing
    /\ disk[k] # NoRow => disk[k].expire # Never /\ disk[k].expire <= now

(* Every write that was completed is in the backend and in memory, through *)
(* crashes and restarts, until its own time comes; and then it is gone.    *)
Durable ==
    \A k \in Keys : Clear(k) =>
        /\ InBackend(k)
        /\ phase # "down" => InMemory(k)
        /\ k \in dead \ bare => GoneForGood(k)

(* A value in memory has the deadline of the write that set it, after a    *)
(* restart also, except that a restart takes its deadline from a key last  *)
(* written by atomic(): none at all, and not one that is wrong.            *)
RightDeadline(k) == IF k \in undated THEN deadline[k] = Never ELSE OnTime(k, deadline[k])
DeadlinesMatch ==
    \A k \in Keys \ expiring : store[k] # Missing /\ Clear(k) => RightDeadline(k)

(* A value whose write met no other and no expiry is expired only when its *)
(* own time has come, never by the deadline of an earlier write.           *)
ExpiredNow(k) == phase' # "down" /\ k \in expiring \ expiring' /\ store[k] # store'[k]
OwnDeadline == [][\A k \in Keys : ExpiredNow(k) /\ Clear(k) => OwnTime(k)]_vars

-----------------------------------------------------------------------------
(* Statements of the documentation                                         *)

(* The same of every key: no stale deadline deletes a key "after the key   *)
(* had already been legitimately reset or reused" (ttl.py, lines 31-40).   *)
NeverTooSoon == [][\A k \in Keys : ExpiredNow(k) => OwnTime(k)]_vars

(* "NimbusKV never rehydrates dead keys": a key that expired does not come *)
(* back unless it is written again, even if no call on it was ever cut     *)
(* short (persistence.py, lines 11-12).                                    *)
DeadKeysStayDead == [][Start => \A k \in dead \ blurred : store'[k] = Missing]_vars
=============================================================================
