--------------------------- MODULE NimbusKVProofs ---------------------------
(***************************************************************************)
(* A write that meets no other write or expiry of its key and is completed *)
(* is durable and has its own deadline, for any number of tasks, keys,     *)
(* values and ttls, through stops, crashes and restarts.                   *)
(***************************************************************************)
EXTENDS NimbusKV, StoreCallsProofs

-----------------------------------------------------------------------------
(* The inductive invariant                                                 *)

Writes(t) == task[t].call.kind
At(t, pcs) == task[t].pc \in pcs
Afterwards == {"expiry", "schedule", "persist"}

(* Where a task is in its call, whatever the others do to its keys.        *)
Working(t) ==
    /\ task[t].pc = "idle" => task[t] = IdleTask
    /\ task[t].pc # "idle" => task[t].call \in CallsOf[t]
    /\ task[t].todo \subseteq task[t].call.keys
    /\ At(t, {"cancel", "store", "expiry"}) => task[t].todo = task[t].call.keys
    /\ At(t, {"cancel"}) => Writes(t) = "delete"
    /\ At(t, {"expiry", "schedule"}) => Writes(t) \in Puts
    /\ Writes(t) \notin Puts => task[t].ttl = Never /\ task[t].expireAt = Never
    /\ At(t, {"persist"}) =>
          /\ task[t].ready \subseteq task[t].todo
          /\ Writes(t) \notin Puts => task[t].ready = task[t].todo
    /\ At(t, Afterwards) =>
          \A k \in task[t].call.keys : task[t].wrote[k] = Missing <=> Writes(t) = "delete"

(* The jobs left behind by cancelled tasks are of blurred keys.            *)
JobsAreBlurred == \A t \in Threads : job[t] # NoJob => job[t].key \in blurred

(* The row of a key is the one its last write asked for; only a row with a *)
(* deadline of its own is ever purged.                                     *)
RightRow(k) ==
    IF meant[k] = Missing
    THEN disk[k] = NoRow
    ELSE \/ disk[k] = NoRow /\ k \notin bare /\ OwnTime(k)
         \/ /\ disk[k] # NoRow
            /\ disk[k].value = meant[k]
            /\ IF k \in bare THEN disk[k].expire = Never ELSE OnTime(k, disk[k].expire)

(* So is its deadline; a key that is not there has none.                   *)
RightTime(k) ==
    /\ store[k] = Missing => deadline[k] = Never
    /\ store[k] # Missing => RightDeadline(k)

(* The scheduler and the row have one deadline, if atomic() did not part   *)
(* them; so the row of a key that is being expired is past its time too.   *)
SameTime(k) ==
    store[k] # Missing /\ k \notin bare => disk[k] # NoRow /\ deadline[k] = disk[k].expire
PastRow(k) == disk[k] # NoRow => disk[k].expire # Never /\ disk[k].expire <= now

AtRest(k) ==
    /\ RightRow(k)
    /\ phase # "down" => InMemory(k)
    /\ k \in dead \ bare => store[k] = Missing /\ PastRow(k)
    /\ RightTime(k)
    /\ SameTime(k)

(* A key that no task is writing.                                          *)
Resting(k) ==
    /\ k \notin expiring => AtRest(k)
    /\ k \in expiring =>
          /\ RightRow(k)
          /\ InMemory(k)
          /\ k \in dead \ bare => store[k] = Missing /\ PastRow(k)
          /\ deadline[k] = Never
          /\ store[k] # Missing => OwnTime(k) /\ (k \notin bare => PastRow(k))

(* A key that only task t is writing: what it has done of its call so far. *)
OnItsWay(t, k) ==
    /\ At(t, {"store"}) /\ Writes(t) # "delete" => AtRest(k)
    /\ At(t, {"store", "persist"}) /\ Writes(t) = "delete" => deadline[k] = Never
    /\ At(t, Afterwards) =>
          /\ store[k] = task[t].wrote[k] /\ meant[k] = task[t].wrote[k]
          /\ k \notin dead
          /\ k \in bare <=> Writes(t) = "atomic"
          /\ Writes(t) # "atomic" => k \notin undated
    /\ At(t, {"persist"}) /\ Writes(t) = "atomic" => RightTime(k)
    /\ At(t, {"expiry"}) =>
          /\ task[t].ttl = Never <=> due[k] = Never
          /\ due[k] # Never => due[k] <= now + task[t].ttl
    /\ At(t, {"schedule", "persist"}) /\ Writes(t) \in Puts =>
          /\ task[t].expireAt = Never <=> due[k] = Never
          /\ due[k] # Never => task[t].expireAt >= due[k]
          /\ At(t, {"persist"}) /\ k \in task[t].ready => deadline[k] = task[t].expireAt

(* A key that is not blurred is written by one task, or expires, or rests. *)
Orderly(k) == k \notin blurred =>
    /\ (\A t \in Threads : k \notin task[t].todo) => Resting(k)
    /\ \A t \in Threads : k \in task[t].todo =>
          /\ k \notin expiring
          /\ \A u \in Threads \ {t} : k \notin task[u].todo
          /\ OnItsWay(t, k)

IInv ==
    /\ TypeOK
    /\ \A t \in Threads : Working(t)
    /\ JobsAreBlurred
    /\ \A k \in Keys : Orderly(k)

-----------------------------------------------------------------------------
(* The parts of a task, and of the call it is in                           *)

LEMMA TaskTypes ==
    ASSUME TypeOK, NEW t \in Threads
    PROVE  /\ task[t] \in TaskType
           /\ task[t].call \in WriteCalls \cup {NoCall}
           /\ task[t].call.keys \subseteq Keys
           /\ task[t].call.txn \in [Maps -> Maps]
           /\ task[t].ttl \in Deadline /\ task[t].expireAt \in Deadline
           /\ task[t].wrote \in Maps
           /\ task[t].todo \subseteq Keys /\ task[t].ready \subseteq Keys
<1>1. /\ task[t] \in TaskType
      /\ task[t].call \in WriteCalls \cup {NoCall}
      /\ task[t].ttl \in Deadline /\ task[t].expireAt \in Deadline
      /\ task[t].wrote \in Maps
      /\ task[t].todo \subseteq Keys /\ task[t].ready \subseteq Keys
  BY DEF TypeOK, TaskType
<1> QED
  BY <1>1, CallType

LEMMA InCall ==
    ASSUME NEW t \in Threads, Working(t), task[t].pc # "idle"
    PROVE  /\ task[t].call \in WriteCalls
           /\ Writes(t) \in {"set", "mset", "atomic", "delete"}
           /\ task[t].call.keys # {}
           /\ Writes(t) \in {"atomic", "delete"} => \E k \in Keys : task[t].call.keys = {k}
<1>1. task[t].call \in CallsOf[t]
  BY DEF Working
<1>2. task[t].call \in WriteCalls
  BY <1>1, CallsAreWriteCalls
<1>3. Writes(t) \in {"set", "mset", "atomic", "delete"} /\ task[t].call.keys # {}
  BY <1>1, FacadeAssumption DEF Writes
<1>4. Writes(t) \in {"atomic", "delete"} => \E k \in Keys : task[t].call.keys = {k}
  BY <1>2, OneKey DEF Writes, DeleteKinds
<1> QED
  BY <1>2, <1>3, <1>4

LEMMA IdleTypes ==
    /\ IdleTask \in TaskType
    /\ IdleTask.pc = "idle" /\ IdleTask.todo = {} /\ IdleTask.ready = {}
    /\ IdleTask.call = NoCall /\ IdleTask.ttl = Never /\ IdleTask.expireAt = Never
    /\ NoCall.keys = {} /\ NoCall.kind = "none"
<1>1. EmptyMap \in Maps
  BY DEF EmptyMap, Maps, Contents
<1> QED
  BY <1>1 DEF IdleTask, TaskType, Deadline, NoCall

(* The operations of the scheduler, spelled out.                           *)
LEMMA SchedulerSteps ==
    /\ Scheduler!Init => now = 0 /\ deadline = [k \in Keys |-> Never] /\ expiring = {}
    /\ \A k, when : Scheduler!Set(k, when) =>
          deadline' = [deadline EXCEPT ![k] = when] /\ UNCHANGED <<now, expiring>>
    /\ \A k : Scheduler!Clear(k) =>
          deadline' = [deadline EXCEPT ![k] = Never] /\ UNCHANGED <<now, expiring>>
    /\ \A k : Scheduler!Expire(k) =>
          /\ deadline[k] # Never /\ deadline[k] <= now
          /\ deadline' = [deadline EXCEPT ![k] = Never]
          /\ expiring' = expiring \cup {k}
          /\ UNCHANGED now
    /\ \A k : Scheduler!Expired(k) =>
          expiring' = expiring \ {k} /\ UNCHANGED <<now, deadline>>
    /\ Scheduler!Tick => now' = now + 1 /\ UNCHANGED <<deadline, expiring>>
BY DEF Scheduler!Init, Scheduler!Set, Scheduler!Clear, Scheduler!Expire, Scheduler!Expired,
       Scheduler!Tick

-----------------------------------------------------------------------------
(* The start                                                               *)

LEMMA InitIInv == Init => IInv
<1> SUFFICES ASSUME Init PROVE IInv
  OBVIOUS
<1>1. /\ phase = "up" /\ store = EmptyMap /\ now = 0 /\ deadline = [k \in Keys |-> Never]
      /\ expiring = {} /\ disk = [k \in Keys |-> NoRow] /\ Idle
      /\ due = [k \in Keys |-> Never] /\ meant = EmptyMap /\ blurred = {}
      /\ dead = {} /\ bare = {} /\ undated = {}
  BY SchedulerSteps DEF Init
<1>2. \A t \in Threads : task[t] = IdleTask /\ job[t] = NoJob
  BY <1>1 DEF Idle
<1>3. TypeOK
  <2>1. /\ task \in [Threads -> TaskType] /\ job \in [Threads -> Job \cup {NoJob}]
    BY <1>1, IdleTypes DEF Idle
  <2>2. store \in Maps /\ meant \in Maps
    BY <1>1 DEF EmptyMap, Maps, Contents
  <2>3. now \in 0..MaxTime
    BY <1>1, FacadeAssumption
  <2> QED
    BY <1>1, <2>1, <2>2, <2>3 DEF TypeOK, Deadline
<1>4. \A t \in Threads : Working(t)
  BY <1>2, IdleTypes DEF Working, At, Writes, Puts, Afterwards
<1>5. JobsAreBlurred
  BY <1>2 DEF JobsAreBlurred
<1>6. \A k \in Keys : Orderly(k)
  BY <1>1, <1>2, IdleTypes
     DEF Orderly, Resting, AtRest, InMemory, RightRow, RightTime, SameTime, EmptyMap
<1> QED
  BY <1>1, <1>3, <1>4, <1>5, <1>6 DEF IInv

-----------------------------------------------------------------------------
(* What a step leaves alone                                                *)

LEMMA WorkingKept ==
    ASSUME NEW u \in Threads, Working(u), task'[u] = task[u]
    PROVE  Working(u)'
BY DEF Working, At, Writes

(* A key that a step does not write, schedule, persist or expire, in no    *)
(* task that moved on.                                                     *)
LEMMA KeyKept ==
    ASSUME IInv, NEW k \in Keys,
           store'[k] = store[k], meant'[k] = meant[k], due'[k] = due[k],
           disk'[k] = disk[k], deadline'[k] = deadline[k],
           k \in expiring' <=> k \in expiring,
           now' = now \/ now' = now + 1,
           k \in blurred => k \in blurred',
           k \in dead' <=> k \in dead, k \in bare' <=> k \in bare,
           k \in undated' <=> k \in undated,
           phase' # "down" => phase # "down",
           \A u \in Threads :
               task'[u] = task[u] \/ (k \notin task[u].todo /\ k \notin task'[u].todo)
    PROVE  Orderly(k)'
<1> SUFFICES ASSUME k \notin blurred' PROVE Orderly(k)'
  BY DEF Orderly
<1>1. Orderly(k) /\ k \notin blurred
  BY DEF IInv
<1>2. now \in Nat /\ due[k] \in Deadline
  BY FacadeAssumption DEF IInv, TypeOK
<1>3. \A u \in Threads : k \in task'[u].todo <=> k \in task[u].todo
  OBVIOUS
<1>4. disk[k] \in Row \cup {NoRow} /\ TypeOK
  BY DEF IInv, TypeOK
<1>5. /\ OwnTime(k) => OwnTime(k)'
      /\ PastRow(k) => PastRow(k)'
      /\ \A when : OnTime(k, when)' <=> OnTime(k, when)
  BY <1>2, <1>4, FacadeAssumption, NoRowAssumption DEF OwnTime, PastRow, OnTime, Deadline, Row
<1>6. /\ RightRow(k) => RightRow(k)'
      /\ InMemory(k) => InMemory(k)'
      /\ RightTime(k) <=> RightTime(k)'
      /\ SameTime(k) <=> SameTime(k)'
  BY <1>5 DEF RightRow, InMemory, RightTime, RightDeadline, SameTime
<1>7. AtRest(k) => AtRest(k)'
  BY <1>5, <1>6 DEF AtRest
<1>8. Resting(k) => Resting(k)'
  BY <1>5, <1>6, <1>7 DEF Resting
<1>9. ASSUME NEW u \in Threads, k \in task[u].todo, OnItsWay(u, k)
      PROVE  OnItsWay(u, k)'
  <2>1. task'[u] = task[u] /\ task[u].ttl \in Deadline
    BY <1>9, TaskTypes DEF IInv
  <2> QED
    BY <1>2, <1>9, <1>6, <1>7, <2>1, FacadeAssumption DEF OnItsWay, At, Writes, Deadline
<1> QED
  BY <1>1, <1>3, <1>9, <1>8 DEF Orderly

(* What holds after a step of one task holds of the invariant.             *)
LEMMA TaskStepKept ==
    ASSUME IInv, NEW t \in Threads, TypeOK', Working(t)',
           \A u \in Threads \ {t} : task'[u] = task[u],
           JobsAreBlurred', \A k \in Keys : Orderly(k)'
    PROVE  IInv'
<1>1. \A u \in Threads : Working(u)'
  BY WorkingKept DEF IInv
<1> QED
  BY <1>1 DEF IInv

LEMMA BlurredKept ==
    ASSUME JobsAreBlurred, UNCHANGED job, blurred \subseteq blurred'
    PROVE  JobsAreBlurred'
BY DEF JobsAreBlurred

LEMMA BusyKeys ==
    ASSUME NEW t \in Threads, NEW k, k \notin Busy(t)
    PROVE  /\ k \notin expiring
           /\ \A u \in Threads : k \notin JobKeys(u)
           /\ \A u \in Threads \ {t} : k \notin task[u].todo
<1>1. ASSUME NEW u \in Threads \ {t} PROVE k \notin task[u].todo
  <2>1. task[u].todo \in {task[v].todo : v \in Threads \ {t}}
    OBVIOUS
  <2>2. k \notin UNION {task[v].todo : v \in Threads \ {t}}
    BY DEF Busy
  <2> QED
    BY <2>1, <2>2
<1>2. ASSUME NEW u \in Threads PROVE k \notin JobKeys(u)
  <2>1. JobKeys(u) \in {JobKeys(v) : v \in Threads}
    OBVIOUS
  <2> QED
    BY <2>1 DEF Busy
<1> QED
  BY <1>1, <1>2 DEF Busy

(* Settling a call's keys takes none from the jobs.                        *)
LEMMA SettledTypes ==
    ASSUME IInv, NEW t \in Threads, blurred' = Settled(t), UNCHANGED job
    PROVE  /\ blurred' \subseteq Keys
           /\ JobsAreBlurred'
           /\ \A k \in blurred : k \notin task[t].call.keys => k \in blurred'
           /\ \A k \in task[t].call.keys : k \notin blurred' =>
                 \/ k \notin blurred
                 \/ k \notin expiring /\ \A u \in Threads \ {t} : k \notin task[u].todo
<1>1. blurred \subseteq Keys /\ JobsAreBlurred
  BY DEF IInv, TypeOK
<1>2. \A u \in Threads : JobKeys(u) \subseteq Busy(t)
  BY BusyKeys
<1>3. JobsAreBlurred'
  BY <1>1, <1>2 DEF JobsAreBlurred, JobKeys, Settled
<1>4. ASSUME NEW k \in task[t].call.keys, k \notin blurred', k \in blurred
      PROVE  k \notin expiring /\ \A u \in Threads \ {t} : k \notin task[u].todo
  BY <1>4, BusyKeys DEF Settled
<1> QED
  BY <1>1, <1>3, <1>4 DEF Settled

-----------------------------------------------------------------------------
(* The calls                                                               *)

LEMMA BeginStep ==
    ASSUME IInv, NEW t \in Threads, NEW c \in CallsOf[t], NEW limit \in Ttls \cup {Never},
           Begin(t, c, limit)
    PROVE  IInv'
<1>1. /\ TypeOK /\ task[t] = IdleTask /\ phase # "down"
      /\ c \in WriteCalls /\ c.keys \subseteq Keys
      /\ c.kind \in {"set", "mset", "atomic", "delete"}
      /\ limit \in Deadline /\ (c.kind \notin Puts => limit = Never)
  BY CallsAreWriteCalls, CallType, FacadeAssumption DEF IInv, Working, Begin, Deadline
<1>2. /\ task' = [task EXCEPT
            ![t].pc = IF c.kind = "delete" THEN "cancel" ELSE "store",
            ![t].call = c, ![t].ttl = limit, ![t].todo = c.keys]
      /\ blurred' = blurred \cup (c.keys \cap Busy(t))
      /\ UNCHANGED <<phase, store, now, deadline, expiring, disk, job>>
      /\ UNCHANGED <<due, meant, dead, bare, undated>>
  BY DEF Begin, schedulerVars, historyVars
<1>3. /\ task'[t].pc = IF c.kind = "delete" THEN "cancel" ELSE "store"
      /\ task'[t].call = c /\ task'[t].ttl = limit /\ task'[t].todo = c.keys
      /\ task'[t].expireAt = Never
      /\ task' \in [Threads -> TaskType]
      /\ \A u \in Threads \ {t} : task'[u] = task[u]
  <2>1. task[t] \in TaskType
    BY <1>1, TaskTypes
  <2> QED
    BY <1>1, <1>2, <2>1, IdleTypes DEF TypeOK, TaskType
<1>4. TypeOK'
  BY <1>1, <1>2, <1>3 DEF TypeOK
<1>5. Working(t)'
  BY <1>1, <1>3 DEF Working, At, Writes, Afterwards, Puts
<1>6. JobsAreBlurred'
  BY <1>2, BlurredKept DEF IInv
<1>7. ASSUME NEW k \in Keys PROVE Orderly(k)'
  <2>1. k \notin task[t].todo
    BY <1>1, IdleTypes
  <2>2. CASE k \notin c.keys
    <3>1. \A u \in Threads :
             task'[u] = task[u] \/ (k \notin task[u].todo /\ k \notin task'[u].todo)
      BY <1>3, <2>1, <2>2
    <3> QED
      BY <1>2, <3>1, KeyKept
  <2>3. CASE k \in c.keys
    <3> SUFFICES ASSUME k \notin blurred' PROVE Orderly(k)'
      BY DEF Orderly
    <3>1. k \notin blurred /\ k \notin expiring /\ \A u \in Threads : k \notin task[u].todo
      <4>1. k \notin blurred /\ k \notin Busy(t)
        BY <1>2, <2>3
      <4> QED
        BY <2>1, <4>1, BusyKeys
    <3>2. AtRest(k)
      BY <3>1 DEF IInv, Orderly, Resting
    <3>3. AtRest(k)'
      BY <1>2, <3>2 DEF AtRest, RightRow, InMemory, PastRow, RightTime, RightDeadline, SameTime,
                        OwnTime, OnTime
    <3>4. OnItsWay(t, k)'
      BY <1>3, <3>3 DEF OnItsWay, At, Writes, Afterwards
    <3> QED
      BY <1>2, <1>3, <2>3, <3>1, <3>4 DEF Orderly
  <2> QED
    BY <2>2, <2>3
<1> QED
  BY <1>3, <1>4, <1>5, <1>6, <1>7, TaskStepKept

LEMMA CancelFirstStep == ASSUME IInv, NEW t \in Threads, CancelFirst(t) PROVE IInv'
<1>1. /\ TypeOK /\ Working(t) /\ task[t].pc = "cancel" /\ Writes(t) = "delete"
      /\ task[t].todo = task[t].call.keys
  BY DEF IInv, Working, CancelFirst, At
<1>2. PICK l \in Keys : task[t].call.keys = {l}
  BY <1>1, InCall
<1>3. /\ deadline' = [deadline EXCEPT ![l] = Never]
      /\ task' = [task EXCEPT ![t].pc = "store"]
      /\ blurred' = Settled(t)
      /\ UNCHANGED <<phase, store, now, expiring, disk, job, due, meant, dead, bare, undated>>
  BY <1>1, <1>2, SchedulerSteps DEF CancelFirst, historyVars
<1>4. /\ task'[t].pc = "store"
      /\ task'[t].call = task[t].call /\ task'[t].ttl = task[t].ttl
      /\ task'[t].expireAt = task[t].expireAt /\ task'[t].todo = task[t].todo
      /\ task' \in [Threads -> TaskType]
      /\ \A u \in Threads \ {t} : task'[u] = task[u]
  <2>1. task[t] \in TaskType
    BY <1>1, TaskTypes
  <2> QED
    BY <1>1, <1>3, <2>1 DEF TypeOK, TaskType
<1>5. TypeOK'
  <2>1. blurred' \subseteq Keys
    BY <1>3, SettledTypes
  <2>2. phase # "down"
    BY <1>1, IdleTypes DEF TypeOK, Idle
  <2> QED
    BY <1>1, <1>3, <1>4, <2>1, <2>2 DEF TypeOK, Deadline
<1>6. Working(t)'
  BY <1>1, <1>4 DEF Working, At, Writes, Afterwards, Puts
<1>7. ASSUME NEW k \in Keys PROVE Orderly(k)'
  <2>1. CASE k # l
    <3>1. \A u \in Threads :
             task'[u] = task[u] \/ (k \notin task[u].todo /\ k \notin task'[u].todo)
      BY <1>1, <1>2, <1>4, <2>1
    <3>2. k \in blurred => k \in blurred'
      BY <1>2, <1>3, <2>1, SettledTypes
    <3>3. deadline'[k] = deadline[k]
      BY <1>1, <1>3, <2>1 DEF TypeOK
    <3> QED
      BY <1>3, <3>1, <3>2, <3>3, KeyKept
  <2>2. CASE k = l
    <3> SUFFICES ASSUME k \notin blurred' PROVE Orderly(k)'
      BY DEF Orderly
    <3>1. k \notin expiring /\ \A u \in Threads \ {t} : k \notin task[u].todo
      BY <1>1, <1>2, <1>3, <2>2, SettledTypes DEF IInv, Orderly
    <3>2. deadline'[k] = Never
      BY <1>1, <1>3, <2>2 DEF TypeOK
    <3>3. OnItsWay(t, k)'
      BY <1>1, <1>4, <3>2 DEF OnItsWay, At, Writes, Afterwards
    <3> QED
      BY <1>1, <1>2, <1>3, <1>4, <2>2, <3>1, <3>3 DEF Orderly
  <2> QED
    BY <2>1, <2>2
<1> QED
  BY <1>3, <1>4, <1>5, <1>6, <1>7, SettledTypes, TaskStepKept

(* A task in a call: there is a process.                                   *)
LEMMA ProcessUp ==
    ASSUME TypeOK, NEW t \in Threads, task[t].pc # "idle" PROVE phase # "down"
BY IdleTypes DEF TypeOK, Idle

LEMMA DoneTask ==
    ASSUME TypeOK, NEW t \in Threads, Done(t)
    PROVE  /\ task' \in [Threads -> TaskType]
           /\ task'[t] = IdleTask /\ Working(t)'
           /\ \A u \in Threads \ {t} : task'[u] = task[u]
<1>1. /\ task' \in [Threads -> TaskType] /\ task'[t] = IdleTask
      /\ \A u \in Threads \ {t} : task'[u] = task[u]
  BY IdleTypes DEF TypeOK, Done
<1>2. Working(t)'
  BY <1>1, IdleTypes DEF Working, At, Writes, Puts, Afterwards
<1> QED
  BY <1>1, <1>2

(* A call that is cut short blurs the keys it had yet to deal with, and    *)
(* may leave a job of one of them.                                         *)
LEMMA CutShortStep ==
    ASSUME IInv, NEW t \in Threads, task[t].pc # "idle", CutShort(t),
           UNCHANGED <<phase, store, now, deadline, expiring, disk>>,
           UNCHANGED <<due, meant, dead, bare, undated>>,
           job' \in [Threads -> Job \cup {NoJob}],
           \A u \in Threads : job'[u] # NoJob =>
               job'[u] = job[u] \/ job'[u].key \in task[t].todo
    PROVE  IInv'
<1>1. TypeOK /\ phase # "down"
  BY ProcessUp DEF IInv
<1>2. /\ task' \in [Threads -> TaskType]
      /\ task'[t] = IdleTask /\ Working(t)'
      /\ \A u \in Threads \ {t} : task'[u] = task[u]
      /\ blurred' = blurred \cup task[t].todo
  BY <1>1, DoneTask DEF CutShort
<1>3. TypeOK'
  <2>1. task[t].todo \subseteq Keys
    BY <1>1, TaskTypes
  <2> QED
    BY <1>1, <1>2, <2>1 DEF TypeOK
<1>4. JobsAreBlurred'
  BY <1>2 DEF JobsAreBlurred, IInv
<1>5. ASSUME NEW k \in Keys PROVE Orderly(k)'
  <2>1. CASE k \in task[t].todo
    BY <1>2, <2>1 DEF Orderly
  <2>2. CASE k \notin task[t].todo
    <3>1. \A u \in Threads :
             task'[u] = task[u] \/ (k \notin task[u].todo /\ k \notin task'[u].todo)
      BY <1>2, <2>2, IdleTypes
    <3> QED
      BY <1>2, <3>1, KeyKept
  <2> QED
    BY <2>1, <2>2
<1> QED
  BY <1>2, <1>3, <1>4, <1>5, TaskStepKept

LEMMA StoreRaisesStep == ASSUME IInv, NEW t \in Threads, StoreRaises(t) PROVE IInv'
<1>1. /\ TypeOK /\ Working(t) /\ task[t].pc = "store" /\ phase # "down"
      /\ UNCHANGED <<phase, store, now, deadline, expiring, disk, job>>
      /\ UNCHANGED <<due, meant, dead, bare, undated>>
  BY ProcessUp DEF IInv, StoreRaises, schedulerVars, historyVars
<1>2. CASE Writes(t) = "delete"
  <2>1. CutShort(t)
    BY <1>2 DEF StoreRaises, Writes
  <2>2. job' \in [Threads -> Job \cup {NoJob}]
    BY <1>1 DEF TypeOK
  <2> QED
    BY <1>1, <2>1, <2>2, CutShortStep
<1>3. CASE Writes(t) # "delete"
  <2>1. /\ task' \in [Threads -> TaskType]
        /\ task'[t] = IdleTask /\ Working(t)'
        /\ \A u \in Threads \ {t} : task'[u] = task[u]
        /\ UNCHANGED blurred
    BY <1>1, <1>3, DoneTask DEF StoreRaises, Writes
  <2>2. TypeOK'
    BY <1>1, <2>1 DEF TypeOK
  <2>3. JobsAreBlurred'
    BY <1>1, <2>1, BlurredKept DEF IInv
  <2>4. ASSUME NEW k \in Keys PROVE Orderly(k)'
    <3>1. CASE k \notin task[t].todo
      <4>1. \A u \in Threads :
               task'[u] = task[u] \/ (k \notin task[u].todo /\ k \notin task'[u].todo)
        BY <2>1, <3>1, IdleTypes
      <4> QED
        BY <1>1, <2>1, <4>1, KeyKept
    <3>2. CASE k \in task[t].todo
      <4> SUFFICES ASSUME k \notin blurred' PROVE Resting(k)'
        BY <2>1, <3>2, IdleTypes DEF IInv, Orderly
      <4>1. k \notin expiring /\ AtRest(k)
        BY <1>1, <1>3, <2>1, <3>2 DEF IInv, Orderly, OnItsWay, At
      <4>2. AtRest(k)'
        BY <1>1, <4>1 DEF AtRest, RightRow, InMemory, PastRow, RightTime, RightDeadline, SameTime,
                          OwnTime, OnTime
      <4> QED
        BY <1>1, <4>1, <4>2 DEF Resting
    <3> QED
      BY <3>1, <3>2
  <2> QED
    BY <2>1, <2>2, <2>3, <2>4, TaskStepKept
<1> QED
  BY <1>2, <1>3

LEMMA PersistRaisesStep == ASSUME IInv, NEW t \in Threads, PersistRaises(t) PROVE IInv'
<1>1. job' \in [Threads -> Job \cup {NoJob}]
  BY DEF IInv, TypeOK, PersistRaises
<1> QED
  BY <1>1, CutShortStep DEF PersistRaises, schedulerVars, historyVars

LEMMA RowType ==
    ASSUME IInv, NEW t \in Threads, task[t].pc = "persist", NEW k \in task[t].todo
    PROVE  /\ k \in Keys
           /\ NewRow(t, k) \in Row \cup {NoRow}
           /\ Writes(t) = "delete" => NewRow(t, k) = NoRow
           /\ Writes(t) # "delete" =>
                 NewRow(t, k) = [value |-> task[t].wrote[k], expire |-> task[t].expireAt]
<1>1. /\ task[t].wrote \in Maps /\ task[t].expireAt \in Deadline
      /\ k \in Keys /\ k \in task[t].call.keys
      /\ task[t].wrote[k] = Missing <=> Writes(t) = "delete"
  BY TaskTypes DEF IInv, Working, At, Afterwards
<1>2. Writes(t) # "delete" => task[t].wrote[k] \in Values
  BY <1>1 DEF Maps, Contents
<1> QED
  BY <1>1, <1>2 DEF NewRow, Writes, Row

LEMMA CancelTaskStep == ASSUME IInv, NEW t \in Threads, CancelTask(t) PROVE IInv'
<1>1. /\ TypeOK /\ task[t].pc = "persist" /\ CutShort(t) /\ task[t].ready \subseteq task[t].todo
      /\ UNCHANGED <<phase, store, now, deadline, expiring, disk>>
      /\ UNCHANGED <<due, meant, dead, bare, undated>>
  BY DEF IInv, Working, At, CancelTask, schedulerVars, historyVars
<1>2. CASE UNCHANGED job
  <2>1. job' \in [Threads -> Job \cup {NoJob}]
    BY <1>1, <1>2 DEF TypeOK
  <2> QED
    BY <1>1, <1>2, <2>1, CutShortStep
<1>3. CASE \E k \in task[t].ready : job' = [job EXCEPT ![t] = [key |-> k, row |-> NewRow(t, k)]]
  <2>1. PICK k \in task[t].ready : job' = [job EXCEPT ![t] = [key |-> k, row |-> NewRow(t, k)]]
    BY <1>3
  <2>2. k \in Keys /\ k \in task[t].todo /\ NewRow(t, k) \in Row \cup {NoRow}
    BY <1>1, RowType
  <2>3. [key |-> k, row |-> NewRow(t, k)] \in Job
    BY <2>2 DEF Job
  <2>4. job' \in [Threads -> Job \cup {NoJob}]
    BY <1>1, <2>1, <2>3 DEF TypeOK
  <2>5. \A u \in Threads : job'[u] = job[u] \/ job'[u].key = k
    BY <1>1, <2>1 DEF TypeOK
  <2> QED
    BY <1>1, <2>2, <2>4, <2>5, CutShortStep
<1> QED
  BY <1>2, <1>3 DEF CancelTask

(* A job's key is blurred: whatever its row becomes, nothing is said of it.*)
LEMMA FinishJobStep == ASSUME IInv, NEW t \in Threads, FinishJob(t) PROVE IInv'
<1>1. /\ TypeOK /\ job[t] \in Job /\ job[t].key \in blurred /\ job[t].key \in Keys
      /\ job' = [job EXCEPT ![t] = NoJob]
      /\ UNCHANGED <<phase, store, now, deadline, expiring, task>>
      /\ UNCHANGED <<due, meant, blurred, dead, bare, undated>>
  BY DEF IInv, TypeOK, JobsAreBlurred, FinishJob, schedulerVars, historyVars, auxVars, Job
<1>2. disk' = disk \/ disk' = [disk EXCEPT ![job[t].key] = job[t].row]
  BY DEF FinishJob
<1>3. phase # "down"
  BY <1>1, NoRowAssumption DEF TypeOK, Idle
<1>4. job[t].row \in Row \cup {NoRow}
  BY <1>1 DEF Job
<1>5. TypeOK'
  BY <1>1, <1>2, <1>3, <1>4 DEF TypeOK
<1>6. JobsAreBlurred'
  BY <1>1 DEF IInv, TypeOK, JobsAreBlurred
<1>7. ASSUME NEW k \in Keys PROVE Orderly(k)'
  <2>1. CASE k = job[t].key
    BY <1>1, <2>1 DEF Orderly
  <2>2. CASE k # job[t].key
    <3>1. disk'[k] = disk[k]
      BY <1>1, <1>2, <2>2 DEF TypeOK
    <3> QED
      BY <1>1, <3>1, KeyKept
  <2> QED
    BY <2>1, <2>2
<1>8. Working(t)'
  BY <1>1, WorkingKept DEF IInv
<1> QED
  BY <1>1, <1>5, <1>6, <1>7, <1>8, TaskStepKept

(* The write itself, and what the others see of it.                        *)
LEMMA StoreEffect ==
    ASSUME IInv, NEW t \in Threads, Store(t)
    PROVE  /\ task' \in [Threads -> TaskType]
           /\ task'[t].pc = IF Writes(t) \in Puts THEN "expiry" ELSE "persist"
           /\ Writes(t) \notin Puts => task'[t].ready = task[t].todo
           /\ task'[t].wrote = store'
           /\ task'[t].call = task[t].call /\ task'[t].ttl = task[t].ttl
           /\ task'[t].expireAt = task[t].expireAt /\ task'[t].todo = task[t].todo
           /\ \A u \in Threads \ {t} : task'[u] = task[u]
           /\ store' \in Maps
           /\ \A k \in Keys \ task[t].call.keys : store'[k] = store[k]
           /\ \A k \in task[t].call.keys : store'[k] = Missing <=> Writes(t) = "delete"
           /\ due' \in [Keys -> Deadline] /\ meant' \in Maps
           /\ \A k \in Keys \ task[t].call.keys : due'[k] = due[k] /\ meant'[k] = meant[k]
           /\ \A k \in task[t].call.keys :
                 /\ meant'[k] = store'[k]
                 /\ due'[k] = IF Writes(t) = "atomic" /\ store[k] # Missing
                              THEN due[k] ELSE NewDue(t)
           /\ bare' \subseteq Keys /\ undated' \subseteq Keys
           /\ \A k \in Keys \ task[t].call.keys :
                 /\ k \in dead' <=> k \in dead
                 /\ k \in bare' <=> k \in bare
                 /\ k \in undated' <=> k \in undated
           /\ \A k \in task[t].call.keys :
                 /\ k \notin dead'
                 /\ k \in bare' <=> Writes(t) = "atomic"
                 /\ k \in undated' <=> k \in undated /\ Writes(t) = "atomic"
<1>1. /\ TypeOK /\ Working(t) /\ task[t].pc = "store"
      /\ task[t].call \in WriteCalls /\ Writes(t) \in {"set", "mset", "atomic", "delete"}
  BY InCall DEF IInv, Store
<1>2. /\ store' \in Maps /\ store \in Maps
  BY <1>1, CallType DEF Store, TypeOK
<1>3. \A k \in Keys \ task[t].call.keys : store'[k] = store[k]
  BY <1>1, <1>2, CallConfined DEF Store, Writes
<1>4. \A k \in task[t].call.keys : store'[k] = Missing <=> Writes(t) = "delete"
  BY <1>1, <1>2, CallStores DEF Store, Writes, DeleteKinds
<1>5. /\ task[t] \in TaskType /\ task[t].ttl \in Deadline /\ task[t].todo \subseteq Keys
      /\ task[t].call.keys \subseteq Keys
  BY <1>1, TaskTypes
<1>6. /\ task' \in [Threads -> TaskType]
      /\ task'[t].pc = IF Writes(t) \in Puts THEN "expiry" ELSE "persist"
      /\ Writes(t) \notin Puts => task'[t].ready = task[t].todo
      /\ task'[t].wrote = store'
      /\ task'[t].call = task[t].call /\ task'[t].ttl = task[t].ttl
      /\ task'[t].expireAt = task[t].expireAt /\ task'[t].todo = task[t].todo
      /\ \A u \in Threads \ {t} : task'[u] = task[u]
  <2>1. CASE Writes(t) \in Puts
    <3>1. task' = [task EXCEPT ![t].pc = "expiry", ![t].wrote = store']
      BY <2>1 DEF Store, Writes
    <3> QED
      BY <1>1, <1>2, <1>5, <2>1, <3>1 DEF TypeOK, TaskType
  <2>2. CASE Writes(t) \notin Puts
    <3>1. task' = [task EXCEPT ![t].pc = "persist", ![t].wrote = store',
                               ![t].ready = task[t].todo]
      BY <2>2 DEF Store, Writes
    <3> QED
      BY <1>1, <1>2, <1>5, <2>2, <3>1 DEF TypeOK, TaskType
  <2> QED
    BY <2>1, <2>2
<1>7. NewDue(t) \in Deadline
  BY <1>1, <1>5, FacadeAssumption DEF NewDue, Deadline, TypeOK
<1>8. /\ due' = [k \in Keys |-> IF KeepsDue(t, k) THEN due[k] ELSE NewDue(t)]
      /\ meant' = [k \in Keys |-> IF k \in task[t].call.keys THEN store'[k] ELSE meant[k]]
  BY DEF Store
<1>9. due' \in [Keys -> Deadline] /\ meant' \in Maps
  BY <1>1, <1>2, <1>7, <1>8 DEF TypeOK, Maps
<1>10. /\ \A k \in Keys \ task[t].call.keys : due'[k] = due[k] /\ meant'[k] = meant[k]
       /\ \A k \in task[t].call.keys :
             /\ meant'[k] = store'[k]
             /\ due'[k] = IF Writes(t) = "atomic" /\ store[k] # Missing
                          THEN due[k] ELSE NewDue(t)
  BY <1>5, <1>8 DEF KeepsDue, Writes
<1>11. dead' = dead \ task[t].call.keys
  BY DEF Store
<1>12. CASE Writes(t) = "atomic"
  <2>1. bare' = bare \cup task[t].call.keys /\ undated' = undated
    BY <1>12 DEF Store, Writes
  <2> QED
    BY <1>1, <1>2, <1>3, <1>4, <1>5, <1>6, <1>9, <1>10, <1>11, <1>12, <2>1 DEF TypeOK
<1>13. CASE Writes(t) # "atomic"
  <2>1. bare' = bare \ task[t].call.keys /\ undated' = undated \ task[t].call.keys
    BY <1>13 DEF Store, Writes
  <2> QED
    BY <1>1, <1>2, <1>3, <1>4, <1>5, <1>6, <1>9, <1>10, <1>11, <1>13, <2>1 DEF TypeOK
<1> QED
  BY <1>12, <1>13

LEMMA StoreStep == ASSUME IInv, NEW t \in Threads, Store(t) PROVE IInv'
<1>1. /\ TypeOK /\ Working(t) /\ task[t].pc = "store" /\ phase # "down"
      /\ Writes(t) \in {"set", "mset", "atomic", "delete"}
      /\ task[t].todo = task[t].call.keys /\ task[t].todo \subseteq Keys
      /\ task[t].ttl \in Deadline
      /\ UNCHANGED <<phase, now, deadline, expiring, disk, job>>
      /\ blurred' = IF Writes(t) \in Puts THEN Settled(t) ELSE blurred
      /\ dead' = dead \ task[t].call.keys
  BY ProcessUp, InCall, TaskTypes DEF IInv, Store, Working, At, schedulerVars, historyVars, Writes
<1> DEFINE Effect ==
      /\ task' \in [Threads -> TaskType]
      /\ task'[t].pc = IF Writes(t) \in Puts THEN "expiry" ELSE "persist"
      /\ Writes(t) \notin Puts => task'[t].ready = task[t].todo
      /\ task'[t].wrote = store'
      /\ task'[t].call = task[t].call /\ task'[t].ttl = task[t].ttl
      /\ task'[t].expireAt = task[t].expireAt /\ task'[t].todo = task[t].todo
      /\ \A u \in Threads \ {t} : task'[u] = task[u]
      /\ store' \in Maps
      /\ \A k \in task[t].call.keys : store'[k] = Missing <=> Writes(t) = "delete"
<1>2. Effect
  BY StoreEffect
<1>3. /\ blurred' \subseteq Keys /\ JobsAreBlurred'
      /\ \A k \in blurred : k \notin task[t].call.keys => k \in blurred'
      /\ \A k \in task[t].call.keys : k \notin blurred' =>
            k \notin expiring /\ \A u \in Threads \ {t} : k \notin task[u].todo
  <2>1. \A k \in task[t].call.keys : k \notin blurred =>
            k \notin expiring /\ \A u \in Threads \ {t} : k \notin task[u].todo
    BY <1>1 DEF IInv, Orderly
  <2>2. CASE Writes(t) \in Puts
    BY <1>1, <2>1, <2>2, SettledTypes
  <2>3. CASE Writes(t) \notin Puts
    BY <1>1, <2>1, <2>3, BlurredKept DEF IInv, TypeOK
  <2> QED
    BY <2>2, <2>3
<1>4. TypeOK'
  BY <1>1, <1>3, StoreEffect DEF TypeOK
<1>5. Working(t)'
  BY <1>1, <1>2 DEF Working, At, Writes, Afterwards, Puts
<1>6. ASSUME NEW k \in Keys PROVE Orderly(k)'
  <2>1. CASE k \notin task[t].call.keys
    <3>1. \A u \in Threads :
             task'[u] = task[u] \/ (k \notin task[u].todo /\ k \notin task'[u].todo)
      BY <1>1, <1>2, <2>1
    <3>2. /\ store'[k] = store[k] /\ due'[k] = due[k] /\ meant'[k] = meant[k]
          /\ k \in dead' <=> k \in dead
          /\ k \in bare' <=> k \in bare
          /\ k \in undated' <=> k \in undated
      BY <2>1, StoreEffect
    <3>3. k \in blurred => k \in blurred'
      BY <1>3, <2>1
    <3> QED
      BY <1>1, <3>1, <3>2, <3>3, KeyKept
  <2>2. CASE k \in task[t].call.keys
    <3> SUFFICES ASSUME k \notin blurred'
                 PROVE  OnItsWay(t, k)'
      BY <1>1, <1>2, <1>3, <2>2 DEF Orderly
    <3>1. /\ store'[k] = Missing <=> Writes(t) = "delete"
          /\ meant'[k] = store'[k]
          /\ due'[k] = IF Writes(t) = "atomic" /\ store[k] # Missing
                       THEN due[k] ELSE NewDue(t)
          /\ k \notin dead'
          /\ k \in bare' <=> Writes(t) = "atomic"
          /\ k \in undated' <=> k \in undated /\ Writes(t) = "atomic"
      BY <2>2, StoreEffect
    <3>2. CASE Writes(t) \in Puts
      <4>1. due'[k] = NewDue(t) /\ now \in Nat
        BY <1>1, <3>1, <3>2, FacadeAssumption DEF Puts, TypeOK
      <4>2. /\ task[t].ttl = Never <=> due'[k] = Never
            /\ due'[k] # Never => due'[k] <= now + task[t].ttl
        BY <1>1, <4>1, FacadeAssumption DEF NewDue, Deadline
      <4> QED
        BY <1>1, <1>2, <3>1, <3>2, <4>2 DEF OnItsWay, At, Writes, Afterwards, Puts
    <3>3. CASE Writes(t) = "delete"
      <4>1. deadline[k] = Never
        BY <1>1, <2>2, <3>3 DEF IInv, Orderly, OnItsWay, At, Puts
      <4> QED
        BY <1>1, <1>2, <3>1, <3>3, <4>1 DEF OnItsWay, At, Writes, Afterwards, Puts
    <3>4. CASE Writes(t) = "atomic"
      <4>1. RightTime(k) /\ task[t].ttl = Never
        BY <1>1, <2>2, <3>4 DEF IInv, Orderly, OnItsWay, AtRest, At, Puts, Working
      <4>2. NewDue(t) = Never
        BY <4>1 DEF NewDue
      <4>3. RightTime(k)'
        BY <1>1, <3>1, <3>4, <4>1, <4>2 DEF RightTime, RightDeadline, OnTime
      <4> QED
        BY <1>1, <1>2, <3>1, <3>4, <4>3 DEF OnItsWay, At, Writes, Afterwards, Puts
    <3> QED
      BY <1>1, <3>2, <3>3, <3>4 DEF Puts
  <2> QED
    BY <2>1, <2>2
<1> QED
  BY <1>2, <1>3, <1>4, <1>5, <1>6, TaskStepKept

LEMMA ComputeExpiryStep == ASSUME IInv, NEW t \in Threads, ComputeExpiry(t) PROVE IInv'
<1>1. /\ TypeOK /\ Working(t) /\ task[t].pc = "expiry" /\ phase # "down"
      /\ task' = [task EXCEPT ![t].pc = "schedule", ![t].expireAt = Expiry(t)]
      /\ task[t] \in TaskType /\ task[t].ttl \in Deadline /\ now \in Nat
      /\ UNCHANGED <<phase, store, now, deadline, expiring, disk, job>>
      /\ UNCHANGED <<due, meant, blurred, dead, bare, undated>>
  BY ProcessUp, TaskTypes, FacadeAssumption
     DEF IInv, ComputeExpiry, schedulerVars, historyVars, auxVars, TypeOK
<1>2. Expiry(t) \in Deadline
  BY <1>1 DEF Expiry, Deadline
<1>3. /\ task' \in [Threads -> TaskType]
      /\ task'[t].pc = "schedule" /\ task'[t].expireAt = Expiry(t)
      /\ task'[t].call = task[t].call /\ task'[t].todo = task[t].todo
      /\ task'[t].wrote = task[t].wrote /\ task'[t].ttl = task[t].ttl
      /\ \A u \in Threads \ {t} : task'[u] = task[u]
  BY <1>1, <1>2 DEF TypeOK, TaskType
<1>4. TypeOK'
  BY <1>1, <1>3 DEF TypeOK
<1>5. Working(t)'
  BY <1>1, <1>3 DEF Working, At, Writes, Afterwards, Puts
<1>6. JobsAreBlurred'
  BY <1>1, BlurredKept DEF IInv
<1>7. ASSUME NEW k \in Keys PROVE Orderly(k)'
  <2>1. CASE k \notin task[t].todo
    <3>1. \A u \in Threads :
             task'[u] = task[u] \/ (k \notin task[u].todo /\ k \notin task'[u].todo)
      BY <1>3, <2>1
    <3> QED
      BY <1>1, <3>1, KeyKept
  <2>2. CASE k \in task[t].todo
    <3> SUFFICES ASSUME k \notin blurred' PROVE Orderly(k)'
      BY DEF Orderly
    <3>1. /\ k \notin expiring /\ (\A u \in Threads \ {t} : k \notin task[u].todo)
          /\ OnItsWay(t, k) /\ due[k] \in Deadline
      BY <1>1, <2>2 DEF IInv, Orderly, TypeOK
    <3>2. /\ store[k] = task[t].wrote[k] /\ meant[k] = task[t].wrote[k]
          /\ k \notin dead /\ (k \in bare <=> Writes(t) = "atomic")
          /\ Writes(t) # "atomic" => k \notin undated
          /\ task[t].ttl = Never <=> due[k] = Never
          /\ due[k] # Never => due[k] <= now + task[t].ttl
      BY <1>1, <3>1 DEF OnItsWay, At, Afterwards
    <3>3. /\ Expiry(t) = Never <=> due[k] = Never
          /\ due[k] # Never => Expiry(t) >= due[k]
      BY <1>1, <3>1, <3>2, FacadeAssumption DEF Expiry, Deadline
    <3>4. OnItsWay(t, k)'
      BY <1>1, <1>3, <3>2, <3>3 DEF OnItsWay, At, Afterwards, Writes
    <3> QED
      BY <1>1, <1>3, <2>2, <3>1, <3>4 DEF Orderly
  <2> QED
    BY <2>1, <2>2
<1> QED
  BY <1>3, <1>4, <1>5, <1>6, <1>7, TaskStepKept

LEMMA ScheduleStep == ASSUME IInv, NEW t \in Threads, Schedule(t) PROVE IInv'
<1>1. PICK l \in task[t].todo :
          /\ Reschedule(t, l)
          /\ task' = [task EXCEPT ![t].pc = "persist", ![t].ready = {l}]
  BY DEF Schedule
<1>2. /\ TypeOK /\ Working(t) /\ task[t].pc = "schedule" /\ phase # "down"
      /\ task[t] \in TaskType /\ task[t].expireAt \in Deadline
      /\ task[t].todo \subseteq Keys /\ Writes(t) \in Puts
      /\ UNCHANGED <<phase, store, disk, job, due, meant, blurred, dead, bare, undated>>
  BY ProcessUp, TaskTypes DEF IInv, Schedule, auxVars, historyVars, Working, At
<1>3. /\ deadline' = [deadline EXCEPT ![l] = task[t].expireAt]
      /\ UNCHANGED <<now, expiring>>
  BY <1>1, SchedulerSteps DEF Reschedule
<1>4. /\ task' \in [Threads -> TaskType]
      /\ task'[t].pc = "persist" /\ task'[t].ready = {l}
      /\ task'[t].call = task[t].call /\ task'[t].todo = task[t].todo
      /\ task'[t].wrote = task[t].wrote /\ task'[t].ttl = task[t].ttl
      /\ task'[t].expireAt = task[t].expireAt
      /\ \A u \in Threads \ {t} : task'[u] = task[u]
  <2>1. {l} \in SUBSET Keys
    BY <1>1, <1>2
  <2> QED
    BY <1>1, <1>2, <2>1 DEF TypeOK, TaskType
<1>5. TypeOK'
  BY <1>2, <1>3, <1>4 DEF TypeOK
<1>6. Working(t)'
  BY <1>1, <1>2, <1>4 DEF Working, At, Writes, Afterwards
<1>7. JobsAreBlurred'
  BY <1>2, BlurredKept DEF IInv
<1>8. ASSUME NEW k \in Keys PROVE Orderly(k)'
  <2>1. CASE k \notin task[t].todo
    <3>1. \A u \in Threads :
             task'[u] = task[u] \/ (k \notin task[u].todo /\ k \notin task'[u].todo)
      BY <1>4, <2>1
    <3>2. deadline'[k] = deadline[k]
      BY <1>1, <1>2, <1>3, <2>1 DEF TypeOK
    <3> QED
      BY <1>2, <1>3, <3>1, <3>2, KeyKept
  <2>2. CASE k \in task[t].todo
    <3> SUFFICES ASSUME k \notin blurred' PROVE Orderly(k)'
      BY DEF Orderly
    <3>1. /\ k \notin expiring /\ (\A u \in Threads \ {t} : k \notin task[u].todo)
          /\ OnItsWay(t, k)
      BY <1>2, <2>2 DEF IInv, Orderly
    <3>2. k = l => deadline'[k] = task[t].expireAt
      BY <1>2, <1>3 DEF TypeOK
    <3>3. OnItsWay(t, k)'
      BY <1>2, <1>3, <1>4, <3>1, <3>2 DEF OnItsWay, At, Writes, Afterwards, Puts
    <3> QED
      BY <1>2, <1>3, <1>4, <2>2, <3>1, <3>3 DEF Orderly
  <2> QED
    BY <2>1, <2>2
<1> QED
  BY <1>4, <1>5, <1>6, <1>7, <1>8, TaskStepKept

(* A key comes to rest with its row, once its task has done all the rest.  *)
LEMMA ComesToRest ==
    ASSUME IInv, NEW t \in Threads, task[t].pc = "persist",
           NEW k \in task[t].ready, k \notin blurred,
           disk' = [disk EXCEPT ![k] = NewRow(t, k)],
           UNCHANGED <<phase, store, now, deadline, expiring, due, meant, dead, bare, undated>>
    PROVE  Resting(k)'
<1>1. /\ TypeOK /\ Working(t) /\ k \in task[t].todo /\ k \in Keys /\ k \in task[t].call.keys
      /\ task[t].wrote[k] = Missing <=> Writes(t) = "delete"
      /\ Writes(t) \in {"set", "mset", "atomic", "delete"}
      /\ Writes(t) \notin Puts => task[t].expireAt = Never
  BY InCall, TaskTypes DEF IInv, Working, At, Afterwards
<1>2. k \notin expiring /\ OnItsWay(t, k)
  BY <1>1 DEF IInv, Orderly
<1>3. /\ store[k] = task[t].wrote[k] /\ meant[k] = task[t].wrote[k]
      /\ k \notin dead /\ (k \in bare <=> Writes(t) = "atomic")
      /\ Writes(t) # "atomic" => k \notin undated
  BY <1>2 DEF OnItsWay, At, Afterwards
<1>4. disk'[k] = NewRow(t, k) /\ NewRow(t, k) \in Row \cup {NoRow}
  BY <1>1, RowType DEF TypeOK
<1>5. CASE Writes(t) = "delete"
  <2>1. NewRow(t, k) = NoRow /\ deadline[k] = Never
    BY <1>1, <1>2, <1>5, RowType DEF OnItsWay, At
  <2>2. AtRest(k)'
    BY <1>1, <1>2, <1>3, <1>4, <1>5, <2>1 DEF AtRest, RightRow, InMemory, RightTime, SameTime
  <2> QED
    BY <1>2, <2>2 DEF Resting
<1>6. CASE Writes(t) # "delete"
  <2>1. /\ NewRow(t, k) = [value |-> task[t].wrote[k], expire |-> task[t].expireAt]
        /\ task[t].wrote \in Maps
    BY <1>1, <1>6, RowType, TaskTypes
  <2>2. NewRow(t, k) \in Row
    BY <1>1, <1>6, <2>1, TaskTypes DEF Row, Maps, Contents
  <2>3. disk'[k] # NoRow /\ disk'[k].value = meant[k] /\ disk'[k].expire = task[t].expireAt
    BY <1>3, <1>4, <2>1, <2>2, NoRowAssumption
  <2>4. CASE Writes(t) \in Puts
    <3>1. /\ task[t].expireAt = Never <=> due[k] = Never
          /\ due[k] # Never => task[t].expireAt >= due[k]
          /\ deadline[k] = task[t].expireAt
      BY <1>2, <2>4 DEF OnItsWay, At
    <3>2. AtRest(k)'
      BY <1>1, <1>3, <1>6, <2>3, <2>4, <3>1
         DEF AtRest, RightRow, InMemory, RightTime, RightDeadline, SameTime, OnTime, Puts
    <3> QED
      BY <1>2, <3>2 DEF Resting
  <2>5. CASE Writes(t) = "atomic"
    <3>1. RightTime(k) /\ task[t].expireAt = Never
      BY <1>1, <1>2, <2>5 DEF OnItsWay, At, Puts
    <3>2. AtRest(k)'
      BY <1>1, <1>3, <1>6, <2>3, <2>5, <3>1
         DEF AtRest, RightRow, InMemory, RightTime, RightDeadline, SameTime, OnTime, Puts
    <3> QED
      BY <1>2, <3>2 DEF Resting
  <2> QED
    BY <1>1, <1>6, <2>4, <2>5 DEF Puts
<1> QED
  BY <1>5, <1>6

LEMMA PersistStep == ASSUME IInv, NEW t \in Threads, Persist(t) PROVE IInv'
<1>1. PICK l \in task[t].ready :
          /\ disk' = [disk EXCEPT ![l] = NewRow(t, l)]
          /\ IF Rest(t, l) = {}
             THEN Done(t)
             ELSE task' = [task EXCEPT
                      ![t].pc = "schedule", ![t].todo = Rest(t, l), ![t].ready = {}]
  BY DEF Persist
<1>2. /\ TypeOK /\ Working(t) /\ task[t].pc = "persist" /\ phase # "down"
      /\ task[t] \in TaskType /\ task[t].todo \subseteq Keys
      /\ l \in task[t].todo /\ l \in Keys /\ NewRow(t, l) \in Row \cup {NoRow}
      /\ UNCHANGED <<phase, store, now, deadline, expiring, job>>
      /\ UNCHANGED <<due, meant, blurred, dead, bare, undated>>
  BY ProcessUp, TaskTypes, RowType
     DEF IInv, Persist, schedulerVars, historyVars, auxVars, Working, At
<1>3. /\ task' \in [Threads -> TaskType]
      /\ Working(t)'
      /\ task'[t].todo = task[t].todo \ {l}
      /\ \A u \in Threads \ {t} : task'[u] = task[u]
      /\ task'[t].todo # {} =>
            /\ task'[t].pc = "schedule" /\ Writes(t) \in Puts
            /\ task'[t].call = task[t].call /\ task'[t].wrote = task[t].wrote
            /\ task'[t].expireAt = task[t].expireAt
  <2>1. CASE Rest(t, l) = {}
    <3>1. Done(t)
      BY <1>1, <2>1
    <3> QED
      BY <1>2, <2>1, <3>1, DoneTask, IdleTypes DEF Rest
  <2>2. CASE Rest(t, l) # {}
    <3>1. task' = [task EXCEPT
              ![t].pc = "schedule", ![t].todo = task[t].todo \ {l}, ![t].ready = {}]
      BY <1>1, <2>2 DEF Rest
    <3>2. /\ task' \in [Threads -> TaskType]
          /\ task'[t].pc = "schedule" /\ task'[t].todo = task[t].todo \ {l}
          /\ task'[t].call = task[t].call /\ task'[t].wrote = task[t].wrote
          /\ task'[t].expireAt = task[t].expireAt /\ task'[t].ttl = task[t].ttl
          /\ \A u \in Threads \ {t} : task'[u] = task[u]
      BY <1>2, <3>1 DEF TypeOK, TaskType
    <3>3. Writes(t) \in Puts
      <4>1. Writes(t) \in {"set", "mset", "atomic", "delete"}
        BY <1>2, InCall
      <4>2. ASSUME Writes(t) \in {"atomic", "delete"} PROVE FALSE
        <5>1. PICK k \in Keys : task[t].call.keys = {k}
          BY <1>2, <4>2, InCall
        <5> QED
          BY <1>2, <2>2, <5>1 DEF Working, Rest
      <4> QED
        BY <4>1, <4>2 DEF Puts
    <3>4. Working(t)'
      BY <1>2, <3>2, <3>3 DEF Working, At, Writes, Afterwards
    <3> QED
      BY <3>2, <3>3, <3>4
  <2> QED
    BY <2>1, <2>2
<1>4. TypeOK'
  BY <1>1, <1>2, <1>3 DEF TypeOK
<1>5. JobsAreBlurred'
  BY <1>2, BlurredKept DEF IInv
<1>6. ASSUME NEW k \in Keys PROVE Orderly(k)'
  <2>1. CASE k = l
    <3> SUFFICES ASSUME k \notin blurred' PROVE Orderly(k)'
      BY DEF Orderly
    <3>1. Resting(k)'
      BY <1>1, <1>2, <2>1, ComesToRest
    <3>2. \A u \in Threads : k \notin task'[u].todo
      BY <1>2, <1>3, <2>1 DEF IInv, Orderly
    <3> QED
      BY <3>1, <3>2 DEF Orderly
  <2>2. k # l => disk'[k] = disk[k]
    BY <1>1, <1>2 DEF TypeOK
  <2>3. CASE k \notin task[t].todo
    <3>1. \A u \in Threads :
             task'[u] = task[u] \/ (k \notin task[u].todo /\ k \notin task'[u].todo)
      BY <1>3, <2>3
    <3> QED
      BY <1>2, <2>2, <2>3, <3>1, KeyKept
  <2>4. CASE k \in task[t].todo /\ k # l
    <3> SUFFICES ASSUME k \notin blurred' PROVE Orderly(k)'
      BY DEF Orderly
    <3>1. /\ k \notin expiring /\ (\A u \in Threads \ {t} : k \notin task[u].todo)
          /\ OnItsWay(t, k)
      BY <1>2, <2>4 DEF IInv, Orderly
    <3>2. /\ task'[t].pc = "schedule" /\ Writes(t) \in Puts
          /\ task'[t].call = task[t].call /\ task'[t].wrote = task[t].wrote
          /\ task'[t].expireAt = task[t].expireAt
      BY <1>3, <2>4
    <3>3. OnItsWay(t, k)'
      BY <1>2, <3>1, <3>2 DEF OnItsWay, At, Writes, Afterwards, Puts
    <3> QED
      BY <1>2, <1>3, <2>4, <3>1, <3>3 DEF Orderly
  <2> QED
    BY <2>1, <2>3, <2>4
<1> QED
  BY <1>3, <1>4, <1>5, <1>6, TaskStepKept

-----------------------------------------------------------------------------
(* The scheduler's thread, the clock and the process                       *)

LEMMA FlightKeys ==
    ASSUME NEW k, k \notin InFlight
    PROVE  /\ \A u \in Threads : k \notin task[u].todo
           /\ \A u \in Threads : k \notin JobKeys(u)
<1>1. ASSUME NEW u \in Threads PROVE k \notin task[u].todo \cup JobKeys(u)
  <2>1. task[u].todo \cup JobKeys(u) \in {task[v].todo \cup JobKeys(v) : v \in Threads}
    OBVIOUS
  <2> QED
    BY <2>1 DEF InFlight
<1> QED
  BY <1>1

(* A step of no task.                                                      *)
LEMMA OtherStepKept ==
    ASSUME IInv, UNCHANGED <<task, job>>, blurred \subseteq blurred',
           TypeOK', \A k \in Keys : Orderly(k)'
    PROVE  IInv'
<1>1. \A u \in Threads : Working(u)'
  BY WorkingKept DEF IInv
<1>2. JobsAreBlurred'
  BY BlurredKept DEF IInv
<1> QED
  BY <1>1, <1>2 DEF IInv

LEMMA ExpireStep == ASSUME IInv, NEW l \in Keys, Expire(l) PROVE IInv'
<1>1. /\ TypeOK /\ phase = "up" /\ expiring = {}
      /\ deadline[l] # Never /\ deadline[l] <= now
      /\ deadline' = [deadline EXCEPT ![l] = Never]
      /\ expiring' = {l}
      /\ blurred' = blurred \cup ({l} \cap InFlight)
      /\ UNCHANGED <<phase, store, now, disk, task, job, due, meant, dead, bare, undated>>
  BY SchedulerSteps DEF IInv, Expire, historyVars
<1>2. TypeOK'
  BY <1>1 DEF TypeOK, Deadline
<1>3. ASSUME NEW k \in Keys PROVE Orderly(k)'
  <2>1. CASE k # l
    <3>1. deadline'[k] = deadline[k]
      BY <1>1, <2>1 DEF TypeOK
    <3> QED
      BY <1>1, <2>1, <3>1, KeyKept
  <2>2. CASE k = l
    <3> SUFFICES ASSUME k \notin blurred' PROVE Orderly(k)'
      BY DEF Orderly
    <3>1. k \notin blurred /\ \A u \in Threads : k \notin task[u].todo
      BY <1>1, <2>2, FlightKeys
    <3>2. AtRest(k)
      BY <1>1, <3>1 DEF IInv, Orderly, Resting
    <3>3. deadline[k] \in Nat /\ due[k] \in Deadline /\ now \in Nat
      BY <1>1, <2>2, FacadeAssumption DEF TypeOK, Deadline
    <3>4. OwnTime(k)
      BY <1>1, <2>2, <3>2, <3>3, FacadeAssumption
         DEF AtRest, RightTime, RightDeadline, OnTime, OwnTime, Deadline
    <3>5. k \notin bare => PastRow(k)
      BY <1>1, <2>2, <3>2 DEF AtRest, RightTime, SameTime, PastRow
    <3>6. deadline'[k] = Never
      BY <1>1, <2>2 DEF TypeOK
    <3>7. Resting(k)'
      BY <1>1, <2>2, <3>2, <3>4, <3>5, <3>6
         DEF Resting, AtRest, RightRow, InMemory, PastRow, OwnTime, OnTime
    <3> QED
      BY <1>1, <3>1, <3>7 DEF Orderly
  <2> QED
    BY <2>1, <2>2
<1> QED
  BY <1>1, <1>2, <1>3, OtherStepKept

LEMMA FireEffect ==
    ASSUME TypeOK, NEW l \in Keys, Fire(l)
    PROVE  /\ l \in expiring /\ expiring' = expiring \ {l} /\ phase # "down"
           /\ store' = [store EXCEPT ![l] = Missing]
           /\ dead' = (IF store[l] = Missing THEN dead ELSE dead \cup {l})
           /\ UNCHANGED <<phase, now, deadline, disk, task, job>>
           /\ UNCHANGED <<due, meant, blurred, bare, undated>>
<1>1. store' = [store EXCEPT ![l] = Missing]
  BY DEF Fire, DeleteCall, TypeOK
<1> QED
  BY <1>1, SchedulerSteps DEF Fire, TypeOK

LEMMA FireStep == ASSUME IInv, NEW l \in Keys, Fire(l) PROVE IInv'
<1>1. /\ TypeOK
      /\ l \in expiring /\ expiring' = expiring \ {l} /\ phase # "down"
      /\ store' = [store EXCEPT ![l] = Missing]
      /\ dead' = IF store[l] = Missing THEN dead ELSE dead \cup {l}
      /\ UNCHANGED <<phase, now, deadline, disk, task, job, due, meant, blurred, bare, undated>>
  BY FireEffect DEF IInv
<1>2. store' \in Maps /\ dead' \subseteq Keys
  BY <1>1 DEF TypeOK, Fire, Maps, Contents
<1>3. TypeOK'
  BY <1>1, <1>2 DEF TypeOK
<1>4. ASSUME NEW k \in Keys PROVE Orderly(k)'
  <2>1. CASE k # l
    <3>1. store'[k] = store[k] /\ (k \in dead' <=> k \in dead)
      BY <1>1, <2>1 DEF TypeOK, Maps
    <3> QED
      BY <1>1, <2>1, <3>1, KeyKept
  <2>2. CASE k = l
    <3> SUFFICES ASSUME k \notin blurred' PROVE Orderly(k)'
      BY DEF Orderly
    <3>1. /\ \A u \in Threads : k \notin task[u].todo
          /\ Resting(k) /\ RightRow(k) /\ InMemory(k) /\ deadline[k] = Never
      BY <1>1, <2>2 DEF IInv, Orderly, Resting
    <3>2. store'[k] = Missing
      BY <1>1, <2>2 DEF TypeOK, Maps
    <3>3. RightRow(k)' /\ InMemory(k)'
      BY <1>1, <2>2, <3>1, <3>2 DEF Resting, RightRow, InMemory, OwnTime, OnTime
    <3>4. k \in dead' \ bare' => PastRow(k)'
      BY <1>1, <2>2, <3>1 DEF Resting, PastRow
    <3>5. Resting(k)'
      BY <1>1, <2>2, <3>1, <3>2, <3>3, <3>4 DEF Resting, AtRest, RightTime, SameTime
    <3> QED
      BY <1>1, <3>1, <3>5 DEF Orderly
  <2> QED
    BY <2>1, <2>2
<1> QED
  BY <1>1, <1>3, <1>4, OtherStepKept

LEMMA FireFailsStep == ASSUME IInv, NEW l \in Keys, FireFails(l) PROVE IInv'
<1>1. /\ TypeOK /\ l \in expiring /\ expiring' = expiring \ {l}
      /\ blurred' = blurred \cup {l}
      /\ UNCHANGED <<phase, store, now, deadline, disk, task, job>>
      /\ UNCHANGED <<due, meant, dead, bare, undated>>
  BY SchedulerSteps DEF IInv, FireFails, historyVars
<1>2. TypeOK'
  BY <1>1 DEF TypeOK
<1>3. ASSUME NEW k \in Keys PROVE Orderly(k)'
  <2>1. CASE k = l
    BY <1>1, <2>1 DEF Orderly
  <2>2. CASE k # l
    BY <1>1, <2>2, KeyKept
  <2> QED
    BY <2>1, <2>2
<1> QED
  BY <1>1, <1>2, <1>3, OtherStepKept

LEMMA TickStep == ASSUME IInv, Tick PROVE IInv'
<1>1. /\ TypeOK /\ now < MaxTime /\ now' = now + 1
      /\ UNCHANGED <<phase, store, deadline, expiring, disk, task, job>>
      /\ UNCHANGED <<due, meant, blurred, dead, bare, undated>>
  BY SchedulerSteps DEF IInv, Tick, auxVars, historyVars
<1>2. now' \in 0..MaxTime
  BY <1>1, FacadeAssumption DEF TypeOK
<1>3. TypeOK'
  BY <1>1, <1>2 DEF TypeOK, Idle
<1>4. \A k \in Keys : Orderly(k)'
  BY <1>1, KeyKept
<1> QED
  BY <1>1, <1>3, <1>4, OtherStepKept

LEMMA StopStep == ASSUME IInv, StopScheduler \/ CloseBackend PROVE IInv'
<1>1. /\ TypeOK /\ phase # "down" /\ phase' \in {"stopping", "closed"}
      /\ UNCHANGED <<store, now, deadline, expiring, disk, task, job>>
      /\ UNCHANGED <<due, meant, blurred, dead, bare, undated>>
  BY DEF IInv, StopScheduler, CloseBackend, schedulerVars, historyVars, auxVars
<1>2. TypeOK'
  BY <1>1 DEF TypeOK
<1>3. \A k \in Keys : Orderly(k)'
  BY <1>1, KeyKept
<1> QED
  BY <1>1, <1>2, <1>3, OtherStepKept

LEMMA IdleKept ==
    ASSUME TypeOK', Idle', \A k \in Keys : k \notin blurred' => Resting(k)'
    PROVE  IInv'
<1>1. \A t \in Threads : task'[t] = IdleTask /\ job'[t] = NoJob
  BY DEF Idle
<1>2. \A t \in Threads : Working(t)'
  BY <1>1, IdleTypes DEF Working, At, Writes, Puts, Afterwards
<1>3. JobsAreBlurred'
  BY <1>1 DEF JobsAreBlurred
<1>4. \A k \in Keys : Orderly(k)'
  BY <1>1, IdleTypes DEF Orderly
<1> QED
  BY <1>2, <1>3, <1>4 DEF IInv

LEMMA EndStep == ASSUME IInv, End PROVE IInv'
<1>1. /\ TypeOK /\ phase' = "down" /\ store' = EmptyMap
      /\ deadline' = [k \in Keys |-> Never] /\ expiring' = {} /\ Idle'
      /\ blurred' = blurred \cup InFlight
      /\ UNCHANGED <<now, disk, due, meant, dead, bare, undated>>
  BY DEF IInv, End, Idle, historyVars
<1>2. InFlight \subseteq Keys
  <2>1. \A t \in Threads : task[t].todo \subseteq Keys
    BY <1>1, TaskTypes
  <2>2. \A t \in Threads : JobKeys(t) \subseteq Keys
    BY <1>1 DEF TypeOK, JobKeys, Job
  <2> QED
    BY <2>1, <2>2 DEF InFlight
<1>3. TypeOK'
  <2>1. task' \in [Threads -> TaskType] /\ job' \in [Threads -> Job \cup {NoJob}]
    BY <1>1, IdleTypes DEF Idle
  <2>2. store' \in Maps
    BY <1>1 DEF EmptyMap, Maps, Contents
  <2> QED
    BY <1>1, <1>2, <2>1, <2>2 DEF TypeOK, Deadline
<1>4. ASSUME NEW k \in Keys, k \notin blurred' PROVE Resting(k)'
  <2>1. RightRow(k) /\ (k \in dead \ bare => PastRow(k))
    BY <1>1, <1>4, FlightKeys DEF IInv, Orderly, Resting, AtRest
  <2> QED
    BY <1>1, <2>1
       DEF Resting, AtRest, RightRow, PastRow, RightTime, SameTime, OwnTime, OnTime, EmptyMap
<1> QED
  BY <1>1, <1>3, <1>4, IdleKept

LEMMA StartStep == ASSUME IInv, Start PROVE IInv'
<1>1. /\ TypeOK /\ phase' = "up" /\ Idle /\ expiring = {}
      /\ store' = [k \in Keys |-> Rehydrated(k)]
      /\ deadline' = [k \in Keys |-> ExpiryOf(k)]
      /\ disk' = [k \in Keys |-> IF Loaded(k) THEN disk[k] ELSE NoRow]
      /\ undated' = bare
      /\ UNCHANGED <<now, expiring, task, job, due, meant, blurred, dead, bare>>
  BY DEF IInv, Start, TypeOK
<1>2. ASSUME NEW k \in Keys, Loaded(k)
      PROVE  /\ disk[k] \in Row /\ disk[k] # NoRow
             /\ disk[k].value \in Values /\ disk[k].value # Missing
             /\ disk[k].expire \in Deadline
  BY <1>1, <1>2, MissingIsNoValue DEF Loaded, TypeOK, Row
<1>3. ASSUME NEW k \in Keys PROVE Rehydrated(k) \in Contents /\ ExpiryOf(k) \in Deadline
  BY <1>2 DEF Rehydrated, ExpiryOf, Contents, Deadline
<1>4. TypeOK'
  <2>1. store' \in Maps /\ deadline' \in [Keys -> Deadline]
    BY <1>1, <1>3 DEF Maps
  <2>2. disk' \in [Keys -> Row \cup {NoRow}]
    BY <1>1, <1>2
  <2> QED
    BY <1>1, <2>1, <2>2 DEF TypeOK
<1>5. ASSUME NEW k \in Keys, k \notin blurred' PROVE Resting(k)'
  <2>1. /\ RightRow(k) /\ k \notin expiring'
        /\ k \in dead \ bare => PastRow(k)
    BY <1>1, <1>5, IdleTypes DEF IInv, Orderly, Resting, AtRest, Idle
  <2>2. due[k] \in Deadline /\ now \in Nat /\ disk[k] \in Row \cup {NoRow}
    BY <1>1, FacadeAssumption DEF TypeOK
  <2>3. CASE Loaded(k)
    <3>1. /\ store'[k] = disk[k].value /\ deadline'[k] = disk[k].expire /\ disk'[k] = disk[k]
          /\ disk[k] # NoRow
      BY <1>1, <2>3 DEF Rehydrated, ExpiryOf, Loaded
    <3>2. /\ disk[k].value = meant[k]
          /\ IF k \in bare THEN disk[k].expire = Never ELSE OnTime(k, disk[k].expire)
      BY <2>1, <3>1 DEF RightRow
    <3>3. /\ disk[k].value # Missing /\ disk[k].expire \in Deadline
      BY <1>2, <2>3
    <3>4. ~PastRow(k)
      BY <2>2, <2>3, <3>1, <3>3, FacadeAssumption DEF Loaded, PastRow, Deadline
    <3>5. (RightRow(k) /\ InMemory(k))'
      BY <1>1, <3>1, <3>2, <3>3 DEF RightRow, InMemory, OnTime
    <3>6. (RightTime(k) /\ SameTime(k))'
      BY <1>1, <3>1, <3>2, <3>3 DEF RightTime, RightDeadline, SameTime, OnTime
    <3>7. k \notin dead' \ bare'
      BY <1>1, <2>1, <3>4
    <3> QED
      BY <2>1, <3>5, <3>6, <3>7 DEF Resting, AtRest
  <2>4. CASE ~Loaded(k)
    <3>1. store'[k] = Missing /\ deadline'[k] = Never /\ disk'[k] = NoRow
      BY <1>1, <2>4 DEF Rehydrated, ExpiryOf
    <3>2. meant[k] = Missing \/ (k \notin bare /\ OwnTime(k)')
      <4>1. CASE disk[k] = NoRow
        BY <1>1, <2>1, <4>1 DEF RightRow, OwnTime
      <4>2. CASE disk[k] # NoRow
        <5>1. disk[k].expire # Never /\ disk[k].expire \in Nat /\ disk[k].expire <= now
          BY <2>2, <2>4, <4>2, FacadeAssumption DEF Loaded, Row, Deadline
        <5>2. meant[k] # Missing => k \notin bare /\ OnTime(k, disk[k].expire)
          BY <2>1, <4>2, <5>1 DEF RightRow
        <5> QED
          BY <1>1, <2>2, <5>1, <5>2, FacadeAssumption DEF OnTime, OwnTime, Deadline
      <4> QED
        BY <4>1, <4>2
    <3>3. (RightRow(k) /\ InMemory(k))'
      BY <1>1, <3>1, <3>2 DEF RightRow, InMemory
    <3> QED
      BY <2>1, <3>1, <3>3 DEF Resting, AtRest, RightTime, SameTime, PastRow
  <2> QED
    BY <2>3, <2>4
<1>6. Idle'
  BY <1>1 DEF Idle
<1> QED
  BY <1>4, <1>5, <1>6, IdleKept

-----------------------------------------------------------------------------
(* The theorems                                                            *)

LEMMA NextIInv == IInv /\ [Next]_vars => IInv'
<1> SUFFICES ASSUME IInv, [Next]_vars PROVE IInv'
  OBVIOUS
<1>1. CASE UNCHANGED vars
  <2>1. /\ UNCHANGED <<phase, store, now, deadline, expiring, disk, task, job>>
        /\ UNCHANGED <<due, meant, blurred, dead, bare, undated>>
    BY <1>1 DEF vars, schedulerVars, historyVars, auxVars
  <2>2. TypeOK'
    BY <2>1 DEF IInv, TypeOK, Idle
  <2>3. \A k \in Keys : Orderly(k)'
    BY <2>1, KeyKept
  <2> QED
    BY <2>1, <2>2, <2>3, OtherStepKept
<1>2. ASSUME NEW t \in Threads, TaskStep(t) PROVE IInv'
  <2>1. CASE \E c \in CallsOf[t], limit \in Ttls \cup {Never} : Begin(t, c, limit)
    BY <2>1, BeginStep
  <2>2. CASE CancelFirst(t)
    BY <2>2, CancelFirstStep
  <2>3. CASE Store(t)
    BY <2>3, StoreStep
  <2>4. CASE StoreRaises(t)
    BY <2>4, StoreRaisesStep
  <2>5. CASE ComputeExpiry(t)
    BY <2>5, ComputeExpiryStep
  <2>6. CASE Schedule(t)
    BY <2>6, ScheduleStep
  <2>7. CASE Persist(t)
    BY <2>7, PersistStep
  <2>8. CASE PersistRaises(t)
    BY <2>8, PersistRaisesStep
  <2>9. CASE CancelTask(t)
    BY <2>9, CancelTaskStep
  <2>10. CASE FinishJob(t)
    BY <2>10, FinishJobStep
  <2> QED
    BY <1>2, <2>1, <2>2, <2>3, <2>4, <2>5, <2>6, <2>7, <2>8, <2>9, <2>10 DEF TaskStep
<1>3. ASSUME NEW k \in Keys, Expire(k) \/ Fire(k) \/ FireFails(k) PROVE IInv'
  BY <1>3, ExpireStep, FireStep, FireFailsStep
<1> QED
  BY <1>1, <1>2, <1>3, StartStep, EndStep, StopStep, TickStep DEF Next

LEMMA Inductive == Spec => []IInv
  BY InitIInv, NextIInv, PTL DEF Spec

(* Every variable of the facade keeps its type, and a process that is down *)
(* has no call, no job and no expiry under way.                            *)
THEOREM FacadeTyping == Spec => []TypeOK
<1>1. IInv => TypeOK
  BY DEF IInv
<1> QED
  BY <1>1, Inductive, PTL

LEMMA ClearRests == ASSUME IInv, NEW k \in Keys, Clear(k) PROVE Resting(k)
BY FlightKeys DEF IInv, Orderly, Clear

(* persist_set, persist_delete and the rehydration: what set(), mset(),    *)
(* atomic() and delete() completed, with no other write or expiry of the   *)
(* key at the same time, stays in the backend and comes back into memory,  *)
(* through crashes and restarts, until its time comes.                     *)
THEOREM WritesAreDurable == Spec => []Durable
<1>1. IInv => Durable
  <2> SUFFICES ASSUME IInv, NEW k \in Keys, Clear(k)
               PROVE  /\ InBackend(k)
                      /\ phase # "down" => InMemory(k)
                      /\ k \in dead \ bare => GoneForGood(k)
    BY DEF Durable
  <2>1. /\ RightRow(k)
        /\ phase # "down" => InMemory(k)
        /\ k \in dead \ bare => store[k] = Missing /\ PastRow(k)
    BY ClearRests DEF Resting, AtRest
  <2> QED
    BY <2>1 DEF RightRow, InBackend, PastRow, GoneForGood
<1> QED
  BY <1>1, Inductive, PTL

(* schedule() and cancel(), and the rehydration: the deadline of a value   *)
(* whose write met no other is the one its write gave it; after a restart  *)
(* also, save for keys last written by atomic(), which then have none.     *)
THEOREM ValuesHaveTheirDeadlines == Spec => []DeadlinesMatch
<1>1. IInv => DeadlinesMatch
  BY ClearRests DEF DeadlinesMatch, Resting, AtRest, RightTime
<1> QED
  BY <1>1, Inductive, PTL

(* Only an expiry that fires, or the end of the process, ends an expiry.   *)
LEMMA OnlyFireDeletes ==
    ASSUME TypeOK, Next, NEW k \in Keys, ExpiredNow(k) PROVE store[k] # Missing
<1>1. phase' # "down" /\ k \in expiring /\ k \notin expiring' /\ store[k] # store'[k]
  BY DEF ExpiredNow
<1>2. CASE Start \/ End \/ StopScheduler \/ CloseBackend \/ Tick
  BY <1>1, <1>2, SchedulerSteps
     DEF Start, End, StopScheduler, CloseBackend, Tick, schedulerVars, historyVars
<1>3. ASSUME NEW t \in Threads, TaskStep(t) PROVE FALSE
  <2>1. UNCHANGED expiring
    BY <1>3, SchedulerSteps
       DEF TaskStep, Begin, CancelFirst, Store, StoreRaises, ComputeExpiry, Schedule, Reschedule,
           Persist, PersistRaises, CancelTask, FinishJob, schedulerVars, historyVars
  <2> QED
    BY <1>1, <2>1
<1>4. ASSUME NEW l \in Keys, Expire(l) \/ FireFails(l) PROVE FALSE
  BY <1>1, <1>4, SchedulerSteps DEF Expire, FireFails
<1>5. ASSUME NEW l \in Keys, Fire(l) PROVE store[k] # Missing
  BY <1>1, <1>5, FireEffect DEF TypeOK, Maps
<1> QED
  BY <1>2, <1>3, <1>4, <1>5 DEF Next

(* run() and delete(): of the keys whose writes met no other write and no *)
(* expiry under way, no value is expired before its own time.  When they   *)
(* do meet, it may be: see NeverTooSoon.                                   *)
THEOREM ExpiriesAreDue == Spec => OwnDeadline
<1>1. IInv /\ [Next]_vars => [\A k \in Keys : ExpiredNow(k) /\ Clear(k) => OwnTime(k)]_vars
  <2> SUFFICES ASSUME IInv, Next, NEW k \in Keys, ExpiredNow(k), Clear(k) PROVE OwnTime(k)
    OBVIOUS
  <2>1. store[k] # Missing
    BY OnlyFireDeletes DEF IInv
  <2>2. k \in expiring
    BY DEF ExpiredNow
  <2> QED
    BY <2>1, <2>2, ClearRests DEF Resting
<1> QED
  BY <1>1, Inductive, PTL DEF Spec, OwnDeadline
-----------------------------------------------------------------------------
(* The facade and its parts                                                *)

(* A step of the running process, which neither starts nor ends it.        *)
Running == phase # "down" /\ phase' # "down"

(* What the store sees of the tasks: the calls begun and what became of    *)
(* them; a task between two calls has none.                                *)
Outcome(t) == IF At(t, Afterwards) THEN "applied" ELSE "none"
Calls == INSTANCE AtomicStore WITH
            map <- store,
            pending <- [t \in Threads |-> task[t].call],
            result <- [t \in Threads |-> Outcome(t)]

StoreIsAtomic ==
    [][Running /\ store' # store =>
        \/ \E t \in Threads : Calls!Apply(t)
        \/ \E k \in expiring : store' = [store EXCEPT ![k] = Missing]]_vars

SchedulerKeepsDeadlines == [][Running => [Scheduler!Next]_<<now, deadline, expiring>>]_vars

LEMMA RunningSteps ==
    ASSUME Next, Running
    PROVE  \/ StopScheduler \/ CloseBackend \/ Tick
           \/ \E t \in Threads : TaskStep(t)
           \/ \E k \in Keys : Expire(k) \/ Fire(k) \/ FireFails(k)
BY DEF Next, Running, Start, End

(* What the other steps of a task leave alone.                             *)
LEMMA OnlyStore == ASSUME NEW t \in Threads, TaskStep(t), store' # store PROVE Store(t)
<1>1. ASSUME NEW c, NEW limit, Begin(t, c, limit) PROVE FALSE
  BY <1>1 DEF Begin
<1>2. ~CancelFirst(t) /\ ~StoreRaises(t) /\ ~ComputeExpiry(t) /\ ~Schedule(t)
  BY DEF CancelFirst, StoreRaises, ComputeExpiry, Schedule
<1>3. ~Persist(t) /\ ~PersistRaises(t)
  BY Zenon DEF Persist, PersistRaises
<1>4. ~CancelTask(t)
  BY DEF CancelTask
<1>5. ~FinishJob(t)
  BY DEF FinishJob
<1> QED
  BY <1>1, <1>2, <1>3, <1>4, <1>5 DEF TaskStep

LEMMA OnlyScheduling ==
    ASSUME NEW t \in Threads, TaskStep(t), ~CancelFirst(t), ~Schedule(t)
    PROVE  UNCHANGED <<now, deadline, expiring>>
<1> USE DEF schedulerVars
<1>1. ASSUME NEW c, NEW limit, Begin(t, c, limit) PROVE UNCHANGED <<now, deadline, expiring>>
  BY <1>1 DEF Begin
<1>2. CASE Store(t) \/ StoreRaises(t) \/ ComputeExpiry(t)
  BY <1>2 DEF Store, StoreRaises, ComputeExpiry
<1>3. CASE Persist(t) \/ PersistRaises(t)
  BY <1>3, Zenon DEF Persist, PersistRaises
<1>4. CASE CancelTask(t)
  BY <1>4 DEF CancelTask
<1>5. CASE FinishJob(t)
  BY <1>5 DEF FinishJob
<1> QED
  BY <1>1, <1>2, <1>3, <1>4, <1>5 DEF TaskStep

(* While the process runs, its store changes only as an AtomicStore does,  *)
(* by the call a task is in, applied once and as a whole to what the store *)
(* then holds; or by the deletion of a key whose deadline came.  This is   *)
(* what the refinement proved of ReactiveStore gives the facade.           *)
THEOREM FacadeStoreIsAtomic == Spec => StoreIsAtomic
<1>1. ASSUME IInv, Next, Running, store' # store
      PROVE  \/ \E t \in Threads : Calls!Apply(t)
             \/ \E k \in expiring : store' = [store EXCEPT ![k] = Missing]
  <2>1. CASE StopScheduler \/ CloseBackend \/ Tick
    BY <1>1, <2>1 DEF StopScheduler, CloseBackend, Tick
  <2>2. ASSUME NEW l \in Keys, Expire(l) \/ FireFails(l) PROVE FALSE
    BY <1>1, <2>2 DEF Expire, FireFails
  <2>3. ASSUME NEW l \in Keys, Fire(l)
        PROVE  \E k \in expiring : store' = [store EXCEPT ![k] = Missing]
    BY <1>1, <2>3, FireEffect DEF Fire, IInv, TypeOK
  <2>4. ASSUME NEW t \in Threads, TaskStep(t) PROVE Calls!Apply(t)
    <3>1. Store(t)
      BY <1>1, <2>4, OnlyStore
    <3>2. /\ task \in [Threads -> TaskType] /\ Working(t) /\ task[t].pc = "store"
          /\ store' = task[t].call.txn[store]
      BY <1>1, <3>1 DEF IInv, TypeOK, Store
    <3>3. task[t].call # NoCall
      BY <3>2, InCall, FacadeAssumption DEF Writes, NoCall
    <3>4. /\ \A u \in Threads \ {t} : task'[u] = task[u]
          /\ task'[t].call = task[t].call /\ task'[t].pc \in Afterwards
      BY <3>1, <3>2 DEF Store, TaskType, Afterwards
    <3>5. [u \in Threads |-> task[u].call]' = [u \in Threads |-> task[u].call]
      BY <3>4
    <3>6. Outcome(t) = "none" /\ Outcome(t)' = "applied"
      BY <3>2, <3>4 DEF Outcome, At, Afterwards
    <3>7. \A u \in Threads \ {t} : Outcome(u)' = Outcome(u)
      BY <3>4 DEF Outcome, At
    <3>8. [u \in Threads |-> Outcome(u)]' =
             [[u \in Threads |-> Outcome(u)] EXCEPT ![t] = "applied"]
      BY <3>6, <3>7
    <3>9. Calls!Undecided(t)
      <4>1. /\ [u \in Threads |-> task[u].call][t] # NoCall
            /\ [u \in Threads |-> Outcome(u)][t] = "none"
        BY <3>3, <3>6
      <4> QED
        BY <4>1 DEF Calls!Undecided, NoCall, Calls!NoCall, Maps, Calls!Maps, Contents, Calls!Contents
    <3>10. store' = [u \in Threads |-> task[u].call][t].txn[store]
      BY <3>2
    <3> QED
      BY <3>5, <3>8, <3>9, <3>10 DEF Calls!Apply
  <2> QED
    BY <1>1, <2>1, <2>2, <2>3, <2>4, RunningSteps
<1>2. IInv /\ [Next]_vars =>
         [Running /\ store' # store =>
            \/ \E t \in Threads : Calls!Apply(t)
            \/ \E k \in expiring : store' = [store EXCEPT ![k] = Missing]]_vars
  BY <1>1
<1> QED
  BY <1>2, Inductive, PTL DEF Spec, StoreIsAtomic

(* While the process runs, its scheduler takes only steps that Deadlines   *)
(* allows: whatever order tasks call schedule() and cancel() in, a key has *)
(* one deadline, and is expired at most once for it.                       *)
THEOREM FacadeKeepsDeadlines == Spec => SchedulerKeepsDeadlines
<1> DEFINE parts == <<now, deadline, expiring>>
<1>1. ASSUME IInv, Next, Running PROVE [Scheduler!Next]_parts
  <2>1. CASE StopScheduler \/ CloseBackend
    BY <2>1 DEF StopScheduler, CloseBackend, schedulerVars, historyVars
  <2>2. CASE Tick
    BY <2>2 DEF Tick, Scheduler!Next
  <2>3. ASSUME NEW l \in Keys, Expire(l) \/ Fire(l) \/ FireFails(l) PROVE Scheduler!Next
    BY <2>3 DEF Expire, Fire, FireFails, Scheduler!Next
  <2>4. ASSUME NEW t \in Threads, TaskStep(t) PROVE [Scheduler!Next]_parts
    <3>1. CASE CancelFirst(t)
      <4>1. PICK k \in task[t].todo : Scheduler!Clear(k)
        BY <3>1 DEF CancelFirst
      <4>2. k \in Keys
        BY <1>1, TaskTypes DEF IInv
      <4> QED
        BY <4>1, <4>2 DEF Scheduler!Next
    <3>2. CASE Schedule(t)
      <4>1. PICK k \in task[t].todo : Reschedule(t, k)
        BY <3>2 DEF Schedule
      <4>2. k \in Keys /\ task[t].expireAt \in Nat \cup {Never}
        BY <1>1, TaskTypes DEF IInv, Deadline
      <4> QED
        BY <4>1, <4>2 DEF Reschedule, Scheduler!Next
    <3>3. CASE ~CancelFirst(t) /\ ~Schedule(t)
      BY <2>4, <3>3, OnlyScheduling
    <3> QED
      BY <3>1, <3>2, <3>3
  <2> QED
    BY <1>1, <2>1, <2>2, <2>3, <2>4, RunningSteps
<1>2. IInv /\ [Next]_vars => [Running => [Scheduler!Next]_parts]_vars
  BY <1>1
<1> QED
  BY <1>2, Inductive, PTL DEF Spec, SchedulerKeepsDeadlines
=============================================================================
