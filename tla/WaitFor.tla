------------------------------- MODULE WaitFor -------------------------------
(***************************************************************************)
(* NimbusKV.wait_for(key, predicate, timeout): threads that block until a  *)
(* key satisfies a predicate, woken by a subscription of their own while   *)
(* other threads write the store.                                          *)
(*                                                                         *)
(* A waiter is named by the subscription it makes; its key is SubKey[w].   *)
(* Faulty... definitions are bugs to try the properties on, as there.      *)
(***************************************************************************)
EXTENDS ReactiveStore

CONSTANTS
    Waiters,    \* the calls of wait_for
    Pred,       \* Pred[w]: the values its predicate accepts
    Timed,      \* the waiters that gave a timeout
    TimedOut    \* TimeoutError

ASSUME WaitersAssumption ==
    /\ Waiters \subseteq Subs \ OneShot
    /\ \A w \in Waiters : SubKey[w] \in Keys
    /\ Pred \in [Waiters -> SUBSET Values]
    /\ Timed \subseteq Waiters
    /\ TimedOut \notin Values

(* The public API never calls mutate() directly.                           *)
ASSUME ApiCallsAssumption == \A t \in Threads : \A c \in CallsOf[t] : c.kind # "mutate"

VARIABLES
    wpc,        \* where each waiter is
    event,      \* the waiters whose threading.Event is set
    result,     \* result["value"]
    answer      \* what wait_for returns or raises

waitVars == <<wpc, event, result, answer>>
allVars == <<vars, waitVars>>

WaitInit ==
    /\ Init
    /\ wpc = [w \in Waiters |-> "start"]
    /\ event = {}
    /\ result = [w \in Waiters |-> None]
    /\ answer = [w \in Waiters |-> None]

(* self._store.get(key)                                                    *)
Get(k) == Announced(ref[k])
Satisfied(w) == Get(SubKey[w]) \in Pred[w]

-----------------------------------------------------------------------------
(* wait_for, in the waiter's thread.                                       *)

FirstCheck(w) ==
    /\ wpc[w] = "start"
    /\ IF Satisfied(w)
       THEN /\ answer' = [answer EXCEPT ![w] = Get(SubKey[w])]
            /\ wpc' = [wpc EXCEPT ![w] = "done"]
       ELSE /\ wpc' = [wpc EXCEPT ![w] = "subscribe"]
            /\ UNCHANGED answer
    /\ UNCHANGED <<vars, event, result>>

WaitSubscribe(w) ==
    /\ wpc[w] = "subscribe"
    /\ Subscribe(w)
    /\ wpc' = [wpc EXCEPT ![w] = "recheck"]
    /\ UNCHANGED <<event, result, answer>>

(* No second look after subscribing.                                       *)
FaultyRecheck(w) ==
    /\ wpc[w] = "recheck"
    /\ wpc' = [wpc EXCEPT ![w] = "waiting"]
    /\ UNCHANGED <<vars, event, result, answer>>

Recheck(w) ==
    /\ wpc[w] = "recheck"
    /\ IF Satisfied(w)
       THEN /\ answer' = [answer EXCEPT ![w] = Get(SubKey[w])]
            /\ wpc' = [wpc EXCEPT ![w] = "cancel"]
       ELSE /\ wpc' = [wpc EXCEPT ![w] = "waiting"]
            /\ UNCHANGED answer
    /\ UNCHANGED <<vars, event, result>>

(* The box is returned, not the value in it.                               *)
FaultyWoken(w) ==
    /\ wpc[w] = "waiting"
    /\ w \in event
    /\ answer' = [answer EXCEPT ![w] = result]
    /\ wpc' = [wpc EXCEPT ![w] = "cancel"]
    /\ UNCHANGED <<vars, event, result>>

Woken(w) ==
    /\ wpc[w] = "waiting"
    /\ w \in event
    /\ answer' = [answer EXCEPT ![w] = result[w]]
    /\ wpc' = [wpc EXCEPT ![w] = "cancel"]
    /\ UNCHANGED <<vars, event, result>>

(* event.wait(timeout) gives up; the event may be set just after.          *)
GiveUp(w) ==
    /\ wpc[w] = "waiting"
    /\ w \in Timed \ event
    /\ answer' = [answer EXCEPT ![w] = TimedOut]
    /\ wpc' = [wpc EXCEPT ![w] = "cancel"]
    /\ UNCHANGED <<vars, event, result>>

(* finally: sub.cancel()                                                   *)
WaitCancel(w) ==
    /\ wpc[w] = "cancel"
    /\ Cancel(w)
    /\ wpc' = [wpc EXCEPT ![w] = "done"]
    /\ UNCHANGED <<event, result, answer>>

-----------------------------------------------------------------------------
(* The writers' threads.                                                   *)

(* Every announcement wakes the waiter.                                    *)
FaultyCheck(w, new) ==
    /\ result' = [result EXCEPT ![w] = new]
    /\ event' = event \cup {w}

(* _check(k, ev, old, new), the waiter's callback.                         *)
Check(w, new) ==
    IF new \in Pred[w]
    THEN /\ result' = [result EXCEPT ![w] = new]
         /\ event' = event \cup {w}
    ELSE UNCHANGED <<event, result>>

DeliverToWaiter(t, w) ==
    /\ Deliver(t, w)
    /\ Check(w, NewValue(t, key[t]))
    /\ UNCHANGED <<wpc, answer>>

DeliverToOther(t, s) == Deliver(t, s) /\ UNCHANGED waitVars

StoreStep(t) == Step(t) /\ UNCHANGED waitVars

OtherClients ==
    /\ \/ \E t \in Threads : Invoke(t)
       \/ \E s \in Subs \ Waiters : Subscribe(s) \/ Cancel(s)
    /\ UNCHANGED waitVars

WaitStep(w) ==
    \/ FirstCheck(w) \/ WaitSubscribe(w) \/ Recheck(w)
    \/ Woken(w) \/ GiveUp(w) \/ WaitCancel(w)

DeliverStep(t) ==
    \/ \E w \in Waiters : DeliverToWaiter(t, w)
    \/ \E s \in Subs \ Waiters : DeliverToOther(t, s)

WaitNext ==
    \/ \E w \in Waiters : WaitStep(w)
    \/ \E t \in Threads : StoreStep(t) \/ DeliverStep(t)
    \/ OtherClients

WaitSpec == WaitInit /\ [][WaitNext]_allVars

(* The scheduling of ReactiveStore, and callbacks that return: _check runs *)
(* no code but the predicate.                                              *)
WaitFairness ==
    /\ \A t \in Threads :
          /\ WF_allVars(StoreStep(t) \/ DeliverStep(t))
          /\ SF_allVars((SwapCompare(t) \/ SwapLost(t)) /\ StoreStep(t))
          /\ SF_allVars(NotifyTargeted(t) /\ StoreStep(t))
    /\ \A w \in Waiters :
          /\ WF_allVars(FirstCheck(w) \/ Recheck(w) \/ Woken(w))
          /\ SF_allVars(WaitSubscribe(w))
          /\ SF_allVars(WaitCancel(w))

FairWaitSpec == WaitSpec /\ WaitFairness

-----------------------------------------------------------------------------
(* Properties                                                              *)

(* The waiters' own state has its type.                                    *)
WaitTypeOK ==
    /\ wpc \in [Waiters -> {"start", "subscribe", "recheck", "waiting", "cancel", "done"}]
    /\ event \subseteq Waiters
    /\ result \in [Waiters -> Values]
    /\ answer \in [Waiters -> Values \cup {TimedOut}]

(* Thread t is yet to call the callback of w with a value w accepts.       *)
WillWake(t, w) ==
    /\ <<w, SubKey[w]>> \in owed[t]
    /\ NewValue(t, SubKey[w]) \in Pred[w]

(* No wakeup is lost: a waiter that sleeps while its key satisfies its     *)
(* predicate is still going to be called by a thread in the middle of its  *)
(* write.  The re-check after subscribing is what makes it true.           *)
NoLostWakeup ==
    \A w \in Waiters :
        wpc[w] = "waiting" /\ w \notin event /\ Satisfied(w) =>
            \E t \in Threads : WillWake(t, w)

(* wait_for returns only a value its predicate accepts, and leaves no      *)
(* subscription behind.                                                    *)
AnswerAccepted ==
    \A w \in Waiters : wpc[w] = "done" =>
        /\ answer[w] \in Pred[w] \cup {TimedOut}
        /\ w \notin Active

(* A waiter whose key comes to satisfy the predicate for good returns.     *)
EveryWaiterReturns ==
    \A w \in Waiters :
        <>[](wpc[w] # "start" /\ Satisfied(w)) => <>(wpc[w] = "done")
=============================================================================
