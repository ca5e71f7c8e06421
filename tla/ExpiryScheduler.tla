--------------------------- MODULE ExpiryScheduler ---------------------------
(***************************************************************************)
(* The TTL thread (ttl.py): a heap of deadlines, a generation per key that *)
(* makes older entries stale, and a condition variable on which the thread *)
(* sleeps until the earliest deadline or a change of the heap.             *)
(*                                                                         *)
(* Everything done inside one `with self._cv` is one step.  The clock only *)
(* moves forward, and a wait that times out has lasted until its deadline. *)
(* Clients may schedule a time already past, as a rehydration does.        *)
(*                                                                         *)
(* Faulty... definitions are no part of the model: each is a bug put in the*)
(* place of the definition that follows it, to see a property fail.        *)
(***************************************************************************)
EXTENDS Integers

CONSTANTS
    Keys,
    Never,      \* wait() without a timeout; a key without a deadline
    NoKey,      \* no key is being expired
    MaxTime,    \* bound: the clock and the deadlines
    MaxGen      \* bound: calls of schedule and cancel for one key

ASSUME SchedulerAssumption ==
    /\ Never \notin Int
    /\ NoKey \notin Keys
    /\ MaxTime \in Nat
    /\ MaxGen \in Nat

VARIABLES
    now,            \* time.time()
    heap,           \* _heap
    generation,     \* _generation
    stop,           \* _stop
    spc,            \* the thread: "awake", "sleeping", "firing" or "exited"
    alarm,          \* when its wait() times out
    firing          \* the key it is deleting

clientVars == <<now, heap, generation, stop>>
threadVars == <<spc, alarm, firing>>
vars == <<clientVars, threadVars>>

Times == 0..MaxTime
Entry == [when : Times, key : Keys, gen : Nat]

Init ==
    /\ now = 0
    /\ heap = {}
    /\ generation = [k \in Keys |-> 0]
    /\ stop = FALSE
    /\ spc = "awake"
    /\ alarm = Never
    /\ firing = NoKey

-----------------------------------------------------------------------------
(* Clients                                                                 *)

(* self._cv.notify(): forgotten, or given.                                 *)
FaultyNotify == UNCHANGED threadVars
Notify ==
    /\ spc' = IF spc = "sleeping" THEN "awake" ELSE spc
    /\ alarm' = Never
    /\ UNCHANGED firing

(* The generation is read, or read and increased.                          *)
FaultyNextGen(k) == generation[k]
NextGen(k) == generation[k] + 1

Schedule(k, when) ==
    /\ generation[k] < MaxGen
    /\ generation' = [generation EXCEPT ![k] = NextGen(k)]
    /\ heap' = heap \cup {[when |-> when, key |-> k, gen |-> NextGen(k)]}
    /\ Notify
    /\ UNCHANGED <<now, stop>>

Cancel(k) ==
    /\ generation[k] < MaxGen
    /\ generation' = [generation EXCEPT ![k] = NextGen(k)]
    /\ Notify
    /\ UNCHANGED <<now, heap, stop>>

Stop ==
    /\ stop' = TRUE
    /\ Notify
    /\ UNCHANGED <<now, heap, generation>>

-----------------------------------------------------------------------------
(* run(), the scheduler's thread                                           *)

(* self._heap[0]: an entry with the earliest deadline.                     *)
First(e) == e \in heap /\ \A f \in heap : e.when <= f.when

(* Of the entries of a key only that of its last schedule counts, if it    *)
(* was not cancelled.                                                      *)
IsCurrent(e) == generation[e.key] = e.gen

(* is_current is not tested, or tested.                                    *)
FaultyFires(e) == TRUE
Fires(e) == IsCurrent(e)

(* time.time() - when, or when - time.time().                              *)
FaultyWait(e) == now - e.when
Wait(e) == e.when - now

Running == spc = "awake" /\ ~stop

SleepForever ==
    /\ Running
    /\ heap = {}
    /\ spc' = "sleeping"
    /\ alarm' = Never
    /\ UNCHANGED <<clientVars, firing>>

SleepUntil(e) ==
    /\ Running
    /\ First(e)
    /\ Wait(e) > 0
    /\ spc' = "sleeping"
    /\ alarm' = now + Wait(e)
    /\ UNCHANGED <<clientVars, firing>>

(* self._cv.wait(timeout=wait) times out.                                  *)
WakeUp ==
    /\ spc = "sleeping"
    /\ alarm # Never
    /\ alarm <= now
    /\ spc' = "awake"
    /\ alarm' = Never
    /\ UNCHANGED <<clientVars, firing>>

PopStale(e) ==
    /\ Running
    /\ First(e)
    /\ Wait(e) <= 0
    /\ ~Fires(e)
    /\ heap' = heap \ {e}
    /\ UNCHANGED <<now, generation, stop, threadVars>>

(* The entry is popped and its key is not deleted, or is.                  *)
FaultyPopCurrent(e) ==
    /\ Running
    /\ First(e)
    /\ Wait(e) <= 0
    /\ Fires(e)
    /\ heap' = heap \ {e}
    /\ UNCHANGED <<now, generation, stop, threadVars>>
PopCurrent(e) ==
    /\ Running
    /\ First(e)
    /\ Wait(e) <= 0
    /\ Fires(e)
    /\ heap' = heap \ {e}
    /\ spc' = "firing"
    /\ firing' = e.key
    /\ UNCHANGED <<now, generation, stop, alarm>>

(* self._store.delete(key, _event="expire"), outside the lock; whatever it *)
(* raises is logged and the loop goes on.                                  *)
Fire ==
    /\ spc = "firing"
    /\ spc' = "awake"
    /\ firing' = NoKey
    /\ UNCHANGED <<clientVars, alarm>>

Exit ==
    /\ spc = "awake"
    /\ stop
    /\ spc' = "exited"
    /\ UNCHANGED <<clientVars, alarm, firing>>

Run ==
    \/ SleepForever \/ WakeUp \/ Fire \/ Exit
    \/ \E e \in heap : SleepUntil(e) \/ PopStale(e) \/ PopCurrent(e)

-----------------------------------------------------------------------------
Tick ==
    /\ now < MaxTime
    /\ now' = now + 1
    /\ UNCHANGED <<heap, generation, stop, threadVars>>

Clients == \E k \in Keys : Cancel(k) \/ \E when \in Times : Schedule(k, when)

Next == Run \/ Clients \/ Stop \/ Tick

Spec == Init /\ [][Next]_vars

(* The thread is scheduled, the callbacks of an expiry return, and time    *)
(* passes.                                                                 *)
FairSpec == Spec /\ WF_vars(Run) /\ WF_vars(Tick)

-----------------------------------------------------------------------------
(* Properties                                                              *)

(* Every variable has its type; the thread is deleting a key exactly while *)
(* it fires.                                                               *)
TypeOK ==
    /\ now \in Times
    /\ heap \subseteq Entry
    /\ generation \in [Keys -> Nat]
    /\ stop \in BOOLEAN
    /\ spc \in {"awake", "sleeping", "firing", "exited"}
    /\ alarm \in Times \cup {Never}
    /\ firing \in Keys \cup {NoKey}
    /\ (spc = "firing") = (firing \in Keys)

(* No entry is of a generation yet to come and no two are of the same one, *)
(* so that a key never has two deadlines that count.                       *)
OneDeadline ==
    /\ \A e \in heap : e.gen <= generation[e.key]
    /\ \A e, f \in heap : e.key = f.key /\ e.gen = f.gen => e = f

(* The thread never sleeps past a deadline, nor through a call of stop().  *)
NeverOversleeps ==
    spc = "sleeping" =>
        /\ ~stop
        /\ \A e \in heap : alarm # Never /\ alarm <= e.when

Current(k) == {e \in heap : e.key = k /\ IsCurrent(e)}
DeadlineOf(entries) == IF entries = {} THEN Never ELSE (CHOOSE e \in entries : TRUE).when
Deadline(k) == DeadlineOf(Current(k))

(* The heap and the generations keep one deadline for each key: schedule   *)
(* replaces it, cancel clears it, and a key is expired only once for each  *)
(* deadline and never before it, whatever stale entries are in the heap.   *)
DeadlineMap == [k \in Keys |-> Deadline(k)]
Expiring == {firing} \cap Keys
Abstract == INSTANCE Deadlines WITH deadline <- DeadlineMap, expiring <- Expiring
KeepsDeadlines == Abstract!Spec

(* A deadline that has come leads to the deletion of its key, unless it is *)
(* replaced or cancelled first (a later generation), or the scheduler is   *)
(* stopped: it is never popped without one.  A deletion still going on for *)
(* an earlier deadline of the key does not count.                          *)
Due(k) == Deadline(k) # Never /\ Deadline(k) <= now
DueKeysExpire ==
    \A k \in Keys : \A g \in 1..MaxGen :
        Due(k) /\ generation[k] = g ~>
            (firing = k /\ ~Due(k)) \/ generation[k] # g \/ stop

(* stop() ends the thread.                                                 *)
StopEnds == stop ~> spc = "exited"
=============================================================================
