--------------------------- MODULE ReactiveStore ---------------------------
(***************************************************************************)
(* The optimistic-concurrency core (reactive_core.py) run by any number of *)
(* threads: peeks of the old value, the mutate() retry loop with its       *)
(* compare-and-swap under _swap_lock, and the announcement of the swap to  *)
(* subscribers, copied under _subs_lock and called outside it.             *)
(*                                                                         *)
(* mutate() compares snapshots by identity.  Every swap installs a new     *)
(* object and a thread keeps its snapshot alive, so `self._ref is old`     *)
(* holds exactly while nobody has swapped since the thread read `old`:     *)
(* `stale` is the set of threads for which it does not.                    *)
(*                                                                         *)
(* The lists of subscribers and the keys of an mset are sets here, taken   *)
(* in any order; targeted subscribers still come before general ones.      *)
(*                                                                         *)
(* A definition named Faulty... is no part of the model: it is the code    *)
(* with one bug in it, put in the place of the definition that follows it  *)
(* to see that a property notices.                                         *)
(***************************************************************************)
EXTENDS StoreCalls, Integers

CONSTANTS
    MaxRetries,     \* max_retries
    Subs,           \* subscription handles, each used once
    SubKey,         \* SubKey[s]: the key s listens to, or AnyKey
    AnyKey,         \* subscribe(fn, key=None): every key
    OneShot,        \* subscriptions whose callback cancels its own handle
    Free            \* a lock nobody holds

ASSUME MaxRetriesAssumption == MaxRetries \in Nat \ {0}
ASSUME SubKeyAssumption == AnyKey \notin Keys /\ SubKey \in [Subs -> Keys \cup {AnyKey}]
ASSUME OneShotAssumption == OneShot \subseteq Subs
ASSUME FreeAssumption == Free \notin Threads

VARIABLES
    ref,            \* _ref
    swapLock,       \* the holder of _swap_lock, or Free
    subsLock,       \* the holder of _subs_lock, or Free
    handle,         \* handle[s]: "new", "active" (in _subs) or "cancelled"
    pc,             \* where each thread is in its call
    call,           \* the call it is in
    attempt,        \* mutate()'s loop counter
    old,            \* mutate()'s `old`
    stale,          \* the threads whose `old` is no longer _ref
    seen,           \* old_val / old_vals / box["old"], per key
    todo,           \* keys still to peek, later keys still to announce
    key,            \* the key being announced
    targets,        \* targeted + general: callbacks still to run for it
    outcome,        \* how the call ends
    swapped,        \* auxiliary: the map before and after the call's swap
    owed            \* auxiliary: <<s, k>> that listened at the swap of k, not told yet

storeVars == <<ref, swapLock, stale>>
subsVars == <<subsLock, handle>>
mutateVars == <<attempt, old>>
notifyVars == <<key, targets>>
auxVars == <<swapped, owed>>
vars == <<storeVars, subsVars, pc, call, mutateVars, seen, todo, notifyVars, outcome, auxVars>>

NoKey == AnyKey
NoSwap == [before |-> EmptyMap, after |-> EmptyMap]

Init ==
    /\ ref = EmptyMap
    /\ swapLock = Free
    /\ subsLock = Free
    /\ handle = [s \in Subs |-> "new"]
    /\ pc = [t \in Threads |-> "idle"]
    /\ call = [t \in Threads |-> NoCall]
    /\ attempt = [t \in Threads |-> 0]
    /\ old = [t \in Threads |-> EmptyMap]
    /\ stale = {}
    /\ seen = [t \in Threads |-> EmptyMap]
    /\ todo = [t \in Threads |-> {}]
    /\ key = [t \in Threads |-> NoKey]
    /\ targets = [t \in Threads |-> {}]
    /\ outcome = [t \in Threads |-> "none"]
    /\ swapped = [t \in Threads |-> NoSwap]
    /\ owed = [t \in Threads |-> {}]

-----------------------------------------------------------------------------
(* The calls: set, mset, atomic, delete, mutate.                           *)

Peeks(c) == c.kind \in {"set", "mset"} \cup DeleteKinds

(* A delete first looks whether the key is there.                          *)
Begin(t, c) ==
    /\ pc[t] = "idle"
    /\ call' = [call EXCEPT ![t] = c]
    /\ pc' = [pc EXCEPT ![t] = IF c.kind \in DeleteKinds THEN "check" ELSE "read"]
    /\ todo' = [todo EXCEPT ![t] = IF Peeks(c) THEN c.keys ELSE {}]
    /\ UNCHANGED <<storeVars, subsVars, mutateVars, seen, notifyVars, outcome, auxVars>>

(* `key in self._ref`, and the test the wrong way round.                   *)
FaultyAbsent(t) == \E k \in call[t].keys : ref[k] # Missing
Absent(t) == \A k \in call[t].keys : ref[k] = Missing

(* delete(): `if not existed: return False`, with nothing swapped.         *)
CheckAbsent(t) ==
    /\ pc[t] = "check"
    /\ Absent(t)
    /\ pc' = [pc EXCEPT ![t] = "announce"]
    /\ todo' = [todo EXCEPT ![t] = {}]
    /\ outcome' = [outcome EXCEPT ![t] = "absent"]
    /\ UNCHANGED <<storeVars, subsVars, call, mutateVars, seen, notifyVars, auxVars>>

CheckPresent(t) ==
    /\ pc[t] = "check"
    /\ ~Absent(t)
    /\ pc' = [pc EXCEPT ![t] = "read"]
    /\ UNCHANGED <<storeVars, subsVars, call, mutateVars, seen, todo, notifyVars, outcome, auxVars>>

(* old_val = self._ref.get(key): one read of _ref for each key.            *)
Peek(t) ==
    /\ pc[t] = "read"
    /\ \E k \in todo[t] :
        /\ seen' = [seen EXCEPT ![t][k] = ref[k]]
        /\ todo' = [todo EXCEPT ![t] = @ \ {k}]
    /\ UNCHANGED <<storeVars, subsVars, pc, call, mutateVars, notifyVars, outcome, auxVars>>

-----------------------------------------------------------------------------
(* mutate(): read a snapshot, compute, compare and swap, retry.            *)

AtRead(t) == pc[t] = "read" /\ todo[t] = {}

(* The box is filled by the first attempt only; or it keeps one key only.  *)
FaultyBoxOnce(t) ==
    IF call[t].kind = "atomic" /\ attempt[t] = 0
    THEN [k \in Keys |-> IF k \in call[t].keys THEN ref[k] ELSE seen[t][k]]
    ELSE seen[t]
FaultyBoxAlone(t) ==
    IF call[t].kind = "atomic" THEN [k \in call[t].keys |-> ref[k]] ELSE seen[t]

(* The closure of atomic() puts the content it replaces in `box`.          *)
Box(t) == IF call[t].kind = "atomic"
          THEN [k \in Keys |-> IF k \in call[t].keys THEN ref[k] ELSE seen[t][k]]
          ELSE seen[t]

(* The keys a call announces after its swap; atomic() used to forget to.   *)
FaultyAnnounces(t) == IF call[t].kind = "atomic" THEN {} ELSE call[t].keys
Announces(t) == call[t].keys

(* `new is old`: mutate() returns without swapping; the caller goes on to  *)
(* notify all the same.                                                    *)
MutateNoOp(t) ==
    /\ AtRead(t)
    /\ call[t].txn[ref] = ref
    /\ old' = [old EXCEPT ![t] = ref]
    /\ seen' = [seen EXCEPT ![t] = Box(t)]
    /\ pc' = [pc EXCEPT ![t] = "announce"]
    /\ todo' = [todo EXCEPT ![t] = Announces(t)]
    /\ outcome' = [outcome EXCEPT ![t] = "written"]
    /\ swapped' = [swapped EXCEPT ![t] = [before |-> ref, after |-> ref]]
    /\ UNCHANGED <<storeVars, subsVars, call, attempt, notifyVars, owed>>

MutateRead(t) ==
    /\ AtRead(t)
    /\ call[t].txn[ref] # ref
    /\ old' = [old EXCEPT ![t] = ref]
    /\ stale' = stale \ {t}
    /\ seen' = [seen EXCEPT ![t] = Box(t)]
    /\ pc' = [pc EXCEPT ![t] = "swap"]
    /\ UNCHANGED <<ref, swapLock, subsVars, call, attempt, todo, notifyVars, outcome, auxVars>>

(* The client's function raises: the exception leaves mutate().            *)
MutateRaises(t) ==
    /\ AtRead(t)
    /\ call[t].kind \in {"atomic", "mutate"}
    /\ pc' = [pc EXCEPT ![t] = "announce"]
    /\ outcome' = [outcome EXCEPT ![t] = "raised"]
    /\ UNCHANGED <<storeVars, subsVars, call, mutateVars, seen, todo, notifyVars, auxVars>>

(* _swap_lock can be taken, or is not there at all.                        *)
FaultyCanLock == TRUE
CanLock == swapLock = Free

(* with self._swap_lock: if self._ref is old: ...                          *)
SwapCompare(t) ==
    /\ pc[t] = "swap"
    /\ CanLock
    /\ t \notin stale
    /\ swapLock' = t
    /\ pc' = [pc EXCEPT ![t] = "store"]
    /\ UNCHANGED <<ref, stale, subsVars, call, mutateVars, seen, todo, notifyVars, outcome, auxVars>>

(* The attempts made once this one is lost; or they are not counted.       *)
FaultyAttempts(t) == attempt[t]
Attempts(t) == attempt[t] + 1

(* Another thread has swapped: the next attempt, or ConflictRetryExceeded. *)
SwapLost(t) ==
    /\ pc[t] = "swap"
    /\ CanLock
    /\ t \in stale
    /\ attempt' = [attempt EXCEPT ![t] = Attempts(t)]
    /\ IF Attempts(t) < MaxRetries
       THEN /\ pc' = [pc EXCEPT ![t] = "read"]
            /\ UNCHANGED outcome
       ELSE /\ pc' = [pc EXCEPT ![t] = "announce"]
            /\ outcome' = [outcome EXCEPT ![t] = "conflict"]
    /\ UNCHANGED <<storeVars, subsVars, call, old, seen, todo, notifyVars, auxVars>>

(* cancel() leaves the callback in the list.                               *)
FaultyActive == {s \in Subs : handle[s] # "new"}

(* The subscriptions in _subs, and the keys each of them hears.            *)
Active == {s \in Subs : handle[s] = "active"}
Listens(s, k) == SubKey[s] \in {k, AnyKey}

New(t) == call[t].txn[old[t]]
ChangedKeys(t) == {k \in Keys : New(t)[k] # old[t][k]}

(* self._ref = new; leave the lock; return new.                            *)
SwapStore(t) ==
    /\ pc[t] = "store"
    /\ ref' = New(t)
    /\ swapLock' = Free
    /\ stale' = {u \in Threads : pc[u] \in {"swap", "store"}} \ {t}
    /\ pc' = [pc EXCEPT ![t] = "announce"]
    /\ todo' = [todo EXCEPT ![t] = Announces(t)]
    /\ outcome' = [outcome EXCEPT ![t] = "written"]
    /\ swapped' = [swapped EXCEPT ![t] = [before |-> ref, after |-> New(t)]]
    /\ owed' = [owed EXCEPT ![t] = {p \in Active \X ChangedKeys(t) : Listens(p[1], p[2])}]
    /\ UNCHANGED <<subsVars, call, mutateVars, seen, notifyVars>>

-----------------------------------------------------------------------------
(* _notify(key, event, old, new), once for each key of the call.           *)

NotifyTargeted(t) ==
    /\ pc[t] = "announce"
    /\ subsLock = Free
    /\ \E k \in todo[t] :
        /\ key' = [key EXCEPT ![t] = k]
        /\ targets' = [targets EXCEPT ![t] = {s \in Active : SubKey[s] = k}]
    /\ subsLock' = t
    /\ pc' = [pc EXCEPT ![t] = "copy"]
    /\ UNCHANGED <<storeVars, handle, call, mutateVars, seen, todo, outcome, auxVars>>

(* The callbacks are called inside the `with`.                             *)
FaultyNotifyGeneral(t) ==
    /\ pc[t] = "copy"
    /\ targets' = [targets EXCEPT ![t] = @ \cup {s \in Active : SubKey[s] = AnyKey}]
    /\ pc' = [pc EXCEPT ![t] = "deliver"]
    /\ UNCHANGED <<storeVars, subsLock, handle, call, mutateVars, seen, todo, key, outcome, auxVars>>

NotifyGeneral(t) ==
    /\ pc[t] = "copy"
    /\ targets' = [targets EXCEPT ![t] = @ \cup {s \in Active : SubKey[s] = AnyKey}]
    /\ subsLock' = Free
    /\ pc' = [pc EXCEPT ![t] = "deliver"]
    /\ UNCHANGED <<storeVars, handle, call, mutateVars, seen, todo, key, outcome, auxVars>>

(* What the callback is told of key k.                                     *)
(* The old value is read when it is announced; or before the swap.         *)
FaultyOldValue(t, k) == Announced(ref[k])
OldValue(t, k) == Announced(seen[t][k])
NewValue(t, k) == Announced(New(t)[k])

(* Subscription.cancel() by handle s, from a callback or from a client.    *)
Unsubscribed(s) ==
    /\ subsLock = Free
    /\ handle' = [handle EXCEPT ![s] = "cancelled"]
Forgiven(s) == [t \in Threads |-> {p \in owed[t] : p[1] # s}]

(* One callback runs in the writer's thread; what it raises is logged and  *)
(* dropped.                                                                *)
Deliver(t, s) ==
    /\ pc[t] = "deliver"
    /\ s \in targets[t]
    /\ SubKey[s] = AnyKey => \A r \in targets[t] : SubKey[r] = AnyKey
    /\ targets' = [targets EXCEPT ![t] = @ \ {s}]
    /\ IF s \in OneShot /\ handle[s] = "active"
       THEN /\ Unsubscribed(s)
            /\ owed' = Forgiven(s)
       ELSE /\ owed' = [owed EXCEPT ![t] = @ \ {<<s, key[t]>>}]
            /\ UNCHANGED handle
    /\ UNCHANGED <<storeVars, subsLock, pc, call, mutateVars, seen, todo, key, outcome, swapped>>

NotifyEnd(t) ==
    /\ pc[t] = "deliver"
    /\ targets[t] = {}
    /\ todo' = [todo EXCEPT ![t] = @ \ {key[t]}]
    /\ key' = [key EXCEPT ![t] = NoKey]
    /\ pc' = [pc EXCEPT ![t] = "announce"]
    /\ UNCHANGED <<storeVars, subsVars, call, mutateVars, seen, targets, outcome, auxVars>>

(* The call returns or raises, and its locals are gone.                    *)
Return(t) ==
    /\ pc[t] = "announce"
    /\ todo[t] = {}
    /\ pc' = [pc EXCEPT ![t] = "idle"]
    /\ call' = [call EXCEPT ![t] = NoCall]
    /\ attempt' = [attempt EXCEPT ![t] = 0]
    /\ old' = [old EXCEPT ![t] = EmptyMap]
    /\ seen' = [seen EXCEPT ![t] = EmptyMap]
    /\ outcome' = [outcome EXCEPT ![t] = "none"]
    /\ swapped' = [swapped EXCEPT ![t] = NoSwap]
    /\ owed' = [owed EXCEPT ![t] = {}]
    /\ UNCHANGED <<storeVars, subsVars, todo, notifyVars>>

-----------------------------------------------------------------------------
(* Clients that subscribe and cancel, in any thread.                       *)

Subscribe(s) ==
    /\ handle[s] = "new"
    /\ subsLock = Free
    /\ handle' = [handle EXCEPT ![s] = "active"]
    /\ UNCHANGED <<storeVars, subsLock, pc, call, mutateVars, seen, todo, notifyVars, outcome, auxVars>>

Cancel(s) ==
    /\ handle[s] = "active"
    /\ Unsubscribed(s)
    /\ owed' = Forgiven(s)
    /\ UNCHANGED <<storeVars, subsLock, pc, call, mutateVars, seen, todo, notifyVars, outcome, swapped>>

-----------------------------------------------------------------------------
(* The steps of thread t that run no client code, and the ones of mutate() *)
(* and _notify() that first wait for a lock.                               *)
Step(t) ==
    \/ CheckAbsent(t) \/ CheckPresent(t) \/ Peek(t)
    \/ MutateNoOp(t) \/ MutateRead(t) \/ MutateRaises(t)
    \/ SwapCompare(t) \/ SwapLost(t) \/ SwapStore(t)
    \/ NotifyTargeted(t) \/ NotifyGeneral(t) \/ NotifyEnd(t) \/ Return(t)

Invoke(t) == \E c \in CallsOf[t] : Begin(t, c)

ClientStep == (\E t \in Threads : Invoke(t)) \/ (\E s \in Subs : Subscribe(s) \/ Cancel(s))

Next ==
    \/ \E t \in Threads : Step(t)
    \/ \E t \in Threads, s \in Subs : Deliver(t, s)
    \/ ClientStep

Spec == Init /\ [][Next]_vars

(* Threads are scheduled and a lock that keeps being released is acquired. *)
(* Nothing makes a client call, or a callback return.                      *)
Fairness == \A t \in Threads :
    /\ WF_vars(Step(t))
    /\ SF_vars(SwapCompare(t) \/ SwapLost(t))
    /\ SF_vars(NotifyTargeted(t))

FairSpec == Spec /\ Fairness
-----------------------------------------------------------------------------
(* Properties                                                              *)

Pcs == {"idle", "check", "read", "swap", "store", "announce", "copy", "deliver"}

(* Every variable has its type.                                            *)
TypeOK ==
    /\ ref \in Maps
    /\ swapLock \in Threads \cup {Free}
    /\ subsLock \in Threads \cup {Free}
    /\ handle \in [Subs -> {"new", "active", "cancelled"}]
    /\ pc \in [Threads -> Pcs]
    /\ call \in [Threads -> WriteCalls \cup {NoCall}]
    /\ attempt \in [Threads -> Nat]
    /\ old \in [Threads -> Maps]
    /\ stale \subseteq Threads
    /\ seen \in [Threads -> Maps]
    /\ todo \in [Threads -> SUBSET Keys]
    /\ key \in [Threads -> Keys \cup {NoKey}]
    /\ targets \in [Threads -> SUBSET Subs]
    /\ outcome \in [Threads -> {"none", "absent", "written", "conflict", "raised"}]
    /\ swapped \in [Threads -> [before : Maps, after : Maps]]
    /\ owed \in [Threads -> SUBSET (Subs \X Keys)]

(* The identity test of mutate() is what makes a swap safe: a thread whose *)
(* snapshot object is still _ref holds the current content, and the thread *)
(* about to assign _ref is the only one, has passed the test and has not   *)
(* been overtaken since.                                                   *)
SnapshotCurrent ==
    /\ \A t \in Threads :
          pc[t] \in {"swap", "store"} /\ t \notin stale => old[t] = ref
    /\ \A t \in Threads :
          pc[t] = "store" => t \notin stale /\ swapLock = t

(* Every call, retries and all, is one indivisible transformation of the   *)
(* whole map between its invocation and its return, or has no effect: no   *)
(* lost update, no half-applied mset (guarantee 2 of the class).           *)
ResultOf(o) == IF o = "none" THEN "none"
               ELSE IF o \in {"absent", "written"} THEN "applied" ELSE "failed"
Result == [t \in Threads |-> ResultOf(outcome[t])]
Abstract == INSTANCE AtomicStore WITH map <- ref, pending <- call, result <- Result
CallsAreAtomic == Abstract!Spec

Returning(t) == pc[t] = "announce" /\ todo[t] = {}

(* When set, mset, atomic or delete returns, every subscriber that was     *)
(* listening when its swap changed a key, and has not been cancelled since,*)
(* has been called for that key (guarantee 3).                             *)
EveryCallAnnounced ==
    \A t \in Threads : Returning(t) /\ call[t].kind # "mutate" => owed[t] = {}

(* The values announced are those of the swap that won: the new value of   *)
(* every call is the one its swap stored, and the old value of an atomic() *)
(* is the one its swap replaced, however many attempts were lost.          *)
AnnouncementMatchesSwap ==
    \A t \in Threads : outcome[t] = "written" =>
        \A k \in call[t].keys :
            /\ NewValue(t, k) = Announced(swapped[t].after[k])
            /\ call[t].kind = "atomic" =>
                  OldValue(t, k) = Announced(swapped[t].before[k])

(* A callback never runs in a thread that holds a lock, so that it may     *)
(* call the store and cannot hold up the other writers.                    *)
NoLockInCallback ==
    \A t \in Threads : pc[t] = "deliver" => swapLock # t /\ subsLock # t

(* Once cancel() has returned, no further announcement picks the callback  *)
(* up; only announcements already on their way still run it.               *)
CancelIsFinal ==
    [][\A t \in Threads, s \in Subs :
         handle[s] = "cancelled" /\ s \notin targets[t] => s \notin targets'[t]]_vars

(* Every call ends, whatever the other threads do, unless a callback it is *)
(* running does not return: no conflict is retried for ever and no lock is *)
(* waited for in vain.                                                     *)
CallsEnd ==
    \A t \in Threads :
        pc[t] # "idle" ~> pc[t] = "idle" \/ (pc[t] = "deliver" /\ targets[t] # {})
=============================================================================
