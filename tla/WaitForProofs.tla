---------------------------- MODULE WaitForProofs ----------------------------
(***************************************************************************)
(* wait_for never sleeps through the value it waits for, whatever the      *)
(* writers, the keys, the predicates and the number of waiters.            *)
(***************************************************************************)
EXTENDS WaitFor, ReactiveStoreProofs

-----------------------------------------------------------------------------
(* The waiters use the store as any client does.                           *)

LEMMA WaitersAreClients == WaitNext => Next \/ UNCHANGED vars
<1>1. ASSUME NEW w \in Waiters, WaitStep(w) PROVE Next \/ UNCHANGED vars
  <2>1. w \in Subs
    BY WaitersAssumption
  <2> QED
    BY <1>1, <2>1
       DEF WaitStep, FirstCheck, WaitSubscribe, Recheck, Woken, GiveUp, WaitCancel, Next, ClientStep
<1>2. ASSUME NEW t \in Threads, StoreStep(t) \/ DeliverStep(t) PROVE Next
  <2>1. Waiters \subseteq Subs
    BY WaitersAssumption
  <2> QED
    BY <1>2, <2>1 DEF StoreStep, DeliverStep, DeliverToWaiter, DeliverToOther, Next
<1>3. CASE OtherClients
  BY <1>3 DEF OtherClients, Next, ClientStep
<1> QED
  BY <1>1, <1>2, <1>3 DEF WaitNext

(* So everything proved of a ReactiveStore holds under it.                 *)
THEOREM WaitForUsesTheStore == WaitSpec => Spec
<1>1. WaitInit => Init
  BY DEF WaitInit
<1>2. [WaitNext]_allVars => [Next]_vars
  BY WaitersAreClients DEF allVars
<1> QED
  BY <1>1, <1>2, PTL DEF WaitSpec, Spec

StoreInv == TypeOK /\ Control /\ SnapshotCurrent /\ Owing

LEMMA StoreInvariant == WaitSpec => []StoreInv
<1>1. Init => StoreInv
  BY InitialTypes, InitialControl DEF Init, StoreInv, SnapshotCurrent, Owing
<1>2. StoreInv /\ [Next]_vars => StoreInv'
  BY NextTypes, NextControl, NextSnapshot, NextOwing DEF StoreInv
<1> QED
  BY <1>1, <1>2, WaitForUsesTheStore, PTL DEF Spec

-----------------------------------------------------------------------------
(* A waiter's subscription is active exactly from subscribe to cancel, its *)
(* event is set only by a value it accepts, and no call is a mutate().     *)
Waiting ==
    /\ WaitTypeOK
    /\ \A w \in Waiters :
          /\ wpc[w] \in {"start", "subscribe"} => handle[w] = "new"
          /\ wpc[w] \in {"recheck", "waiting", "cancel"} => handle[w] = "active"
          /\ wpc[w] = "done" => handle[w] # "active"
          /\ w \in event => result[w] \in Pred[w]
          /\ wpc[w] \in {"cancel", "done"} => answer[w] \in Pred[w] \cup {TimedOut}
    /\ \A t \in Threads : call[t].kind # "mutate"

LEMMA GetType == TypeOK => \A k \in Keys : Get(k) \in Values
BY NoneIsAValue DEF TypeOK, Get, Announced, Maps, Contents

LEMMA InitialWaiting == WaitInit => Waiting
<1>1. \A w \in Waiters : w \in Subs
  BY WaitersAssumption
<1> QED
  BY <1>1, NoneIsAValue DEF WaitInit, Init, Waiting, WaitTypeOK, NoCall

(* A writer's own step neither subscribes nor cancels, and its call stays  *)
(* until it returns.                                                       *)
LEMMA StepFrame ==
    ASSUME NEW t \in Threads, Step(t)
    PROVE  /\ UNCHANGED handle
           /\ call' = call \/ call' = [call EXCEPT ![t] = NoCall]
BY DEF Step, CheckAbsent, CheckPresent, Peek, MutateNoOp, MutateRead, MutateRaises, SwapCompare,
       SwapLost, SwapStore, NotifyTargeted, NotifyGeneral, NotifyEnd, Return,
       storeVars, subsVars, mutateVars, notifyVars, auxVars

LEMMA DeliverFrame ==
    ASSUME NEW t \in Threads, NEW s \in Subs, Deliver(t, s)
    PROVE  /\ handle' = handle \/ (s \in OneShot /\ handle' = [handle EXCEPT ![s] = "cancelled"])
           /\ UNCHANGED <<call, ref, old>>
BY DEF Deliver, Unsubscribed, storeVars, mutateVars

LEMMA NextWaiting == TypeOK /\ Waiting /\ [WaitNext]_allVars => Waiting'
<1> SUFFICES ASSUME TypeOK, Waiting, [WaitNext]_allVars PROVE Waiting'
  OBVIOUS
<1>0. /\ Waiters \subseteq Subs /\ Waiters \cap OneShot = {}
      /\ \A w \in Waiters : SubKey[w] \in Keys /\ Get(SubKey[w]) \in Values
      /\ Pred \in [Waiters -> SUBSET Values]
  BY WaitersAssumption, GetType
<1> USE <1>0 DEF Waiting, WaitTypeOK
<1>1. ASSUME NEW w \in Waiters, FirstCheck(w) PROVE Waiting'
  BY <1>1 DEF FirstCheck, Satisfied, vars, subsVars
<1>2. ASSUME NEW w \in Waiters, WaitSubscribe(w) PROVE Waiting'
  BY <1>2 DEF WaitSubscribe, Subscribe, TypeOK
<1>3. ASSUME NEW w \in Waiters, Recheck(w) PROVE Waiting'
  BY <1>3 DEF Recheck, Satisfied, vars, subsVars
<1>4. ASSUME NEW w \in Waiters, Woken(w) PROVE Waiting'
  BY <1>4 DEF Woken, vars, subsVars
<1>5. ASSUME NEW w \in Waiters, GiveUp(w) PROVE Waiting'
  BY <1>5 DEF GiveUp, vars, subsVars
<1>6. ASSUME NEW w \in Waiters, WaitCancel(w) PROVE Waiting'
  BY <1>6 DEF WaitCancel, Cancel, Unsubscribed, TypeOK
<1>7. ASSUME NEW t \in Threads, StoreStep(t) PROVE Waiting'
  <2>1. UNCHANGED <<handle, wpc, event, result, answer>>
    BY <1>7, StepFrame DEF StoreStep, waitVars
  <2>2. \A u \in Threads : call'[u].kind # "mutate"
    <3>1. call' = call \/ call' = [call EXCEPT ![t] = NoCall]
      BY <1>7, StepFrame DEF StoreStep
    <3>2. DOMAIN call = Threads /\ NoCall.kind = "none"
      BY DEF TypeOK, NoCall
    <3> QED
      BY <3>1, <3>2
  <2> QED
    BY <2>1, <2>2
<1>8. ASSUME NEW t \in Threads, NEW w \in Waiters, DeliverToWaiter(t, w) PROVE Waiting'
  <2>1. UNCHANGED <<handle, call, wpc, answer>>
    BY <1>8, DeliverFrame DEF DeliverToWaiter
  <2>2. /\ event' \subseteq Waiters /\ result' \in [Waiters -> Values]
        /\ \A x \in Waiters : x \in event' => result'[x] \in Pred[x]
    BY <1>8 DEF DeliverToWaiter, Check
  <2> QED
    BY <2>1, <2>2
<1>9. ASSUME NEW t \in Threads, NEW s \in Subs \ Waiters, DeliverToOther(t, s) PROVE Waiting'
  BY <1>9, DeliverFrame DEF DeliverToOther, waitVars, TypeOK
<1>10. ASSUME NEW s \in Subs \ Waiters, Subscribe(s) \/ Cancel(s), UNCHANGED waitVars PROVE Waiting'
  BY <1>10 DEF Subscribe, Cancel, Unsubscribed, waitVars, TypeOK
<1>11. ASSUME NEW t \in Threads, NEW c \in CallsOf[t], Begin(t, c), UNCHANGED waitVars PROVE Waiting'
  BY <1>11, ApiCallsAssumption DEF Begin, subsVars, waitVars, TypeOK
<1>12. CASE UNCHANGED allVars
  BY <1>12 DEF allVars, vars, subsVars, waitVars
<1> QED
  BY <1>1, <1>2, <1>3, <1>4, <1>5, <1>6, <1>7, <1>8, <1>9, <1>10, <1>11, <1>12
     DEF WaitNext, WaitStep, DeliverStep, OtherClients, Invoke

(* The place of a waiter in wait_for, its event, its box and its answer    *)
(* have their types: a box only ever holds a value that was announced.     *)
THEOREM WaitersTyping == WaitSpec => []WaitTypeOK
<1>1. Waiting => WaitTypeOK
  BY DEF Waiting
<1>2. WaitSpec => []TypeOK
  BY WaitForUsesTheStore, Typing, PTL
<1> QED
  BY <1>1, <1>2, InitialWaiting, NextWaiting, PTL DEF WaitSpec

(* What a waiter returns satisfies its predicate, and it has unsubscribed. *)
THEOREM AnswersAreAccepted == WaitSpec => [](WaitTypeOK /\ AnswerAccepted)
<1>1. Waiting => WaitTypeOK /\ AnswerAccepted
  BY DEF Waiting, AnswerAccepted, Active
<1>2. WaitSpec => []TypeOK
  BY WaitForUsesTheStore, Typing, PTL
<1> QED
  BY <1>1, <1>2, InitialWaiting, NextWaiting, PTL DEF WaitSpec

-----------------------------------------------------------------------------
(* No lost wakeup                                                          *)

LEMMA WakeKept ==
    ASSUME NEW u \in Threads, NEW w \in Waiters, WillWake(u, w),
           owed'[u] = owed[u], call'[u] = call[u], old'[u] = old[u]
    PROVE  WillWake(u, w)'
BY DEF WillWake, NewValue, New

(* A step that stores nothing leaves the announcements under way alone: the*)
(* thread that takes it owes none, or does not touch them.                 *)
LEMMA OwedKept ==
    ASSUME StoreInv, Waiting, NEW t \in Threads, Step(t), ~SwapStore(t),
           NEW u \in Threads, owed[u] # {}
    PROVE  owed'[u] = owed[u] /\ call'[u] = call[u] /\ old'[u] = old[u] /\ ref' = ref
<1> USE DEF StoreInv, TypeOK, storeVars, subsVars, mutateVars, notifyVars, auxVars
<1>1. CASE MutateNoOp(t) \/ MutateRead(t)
  <2>1. u # t
    BY <1>1 DEF MutateNoOp, MutateRead, AtRead, Control, Owing
  <2> QED
    BY <1>1, <2>1 DEF MutateNoOp, MutateRead
<1>2. CASE Return(t)
  <2>1. u # t
    BY <1>2 DEF Return, Owing, Waiting
  <2> QED
    BY <1>2, <2>1 DEF Return
<1>3. CASE CheckAbsent(t) \/ CheckPresent(t) \/ Peek(t) \/ MutateRaises(t) \/ SwapCompare(t) \/ SwapLost(t)
  BY <1>3 DEF CheckAbsent, CheckPresent, Peek, MutateRaises, SwapCompare, SwapLost
<1>4. CASE NotifyTargeted(t) \/ NotifyGeneral(t) \/ NotifyEnd(t)
  BY <1>4 DEF NotifyTargeted, NotifyGeneral, NotifyEnd
<1> QED
  BY <1>1, <1>2, <1>3, <1>4 DEF Step

(* The swap that makes the predicate true owes the waiter an announcement  *)
(* of the value it stores.                                                 *)
LEMMA SwapWakes ==
    ASSUME StoreInv, Waiting, NoLostWakeup, NEW t \in Threads, SwapStore(t),
           NEW w \in Waiters, wpc[w] = "waiting", w \notin event,
           Announced(ref'[SubKey[w]]) \in Pred[w]
    PROVE  \E u \in Threads : WillWake(u, w)'
<1> DEFINE k == SubKey[w]
<1>0. w \in Subs /\ k \in Keys /\ handle[w] = "active"
  BY WaitersAssumption DEF Waiting
<1>1. /\ ref' = New(t) /\ old[t] = ref /\ owed[t] = {}
      /\ UNCHANGED <<call, old>>
      /\ \A u \in Threads : u # t => owed'[u] = owed[u]
      /\ owed'[t] = {p \in Active \X ChangedKeys(t) : Listens(p[1], p[2])}
  BY DEF SwapStore, StoreInv, TypeOK, Control, SnapshotCurrent, Owing, mutateVars
<1>2. CASE New(t)[k] = ref[k]
  <2>1. Satisfied(w)
    BY <1>1, <1>2 DEF Satisfied, Get
  <2>2. PICK u \in Threads : WillWake(u, w)
    BY <2>1 DEF NoLostWakeup
  <2>3. u # t
    BY <1>1, <2>2 DEF WillWake
  <2> QED
    BY <1>1, <2>2, <2>3, WakeKept
<1>3. CASE New(t)[k] # ref[k]
  <2>1. <<w, k>> \in owed'[t]
    BY <1>0, <1>1, <1>3 DEF Active, ChangedKeys, Listens
  <2>2. New(t)' = New(t)
    BY <1>1 DEF New
  <2>3. NewValue(t, k)' \in Pred[w]
    BY <1>1, <2>2 DEF NewValue
  <2> QED
    BY <2>1, <2>3 DEF WillWake
<1> QED
  BY <1>2, <1>3

LEMMA NextAwake == StoreInv /\ Waiting /\ NoLostWakeup /\ [WaitNext]_allVars => NoLostWakeup'
<1> SUFFICES ASSUME StoreInv, Waiting, NoLostWakeup, [WaitNext]_allVars,
                    NEW w \in Waiters,
                    wpc'[w] = "waiting", w \notin event', Satisfied(w)'
             PROVE  \E u \in Threads : WillWake(u, w)'
  BY DEF NoLostWakeup
<1>0. /\ Announced(ref'[SubKey[w]]) \in Pred[w]
      /\ Waiters \subseteq Subs /\ Waiters \cap OneShot = {} /\ SubKey[w] \in Keys
  BY WaitersAssumption DEF Satisfied, Get
<1>1. ASSUME UNCHANGED <<ref, call, old>>, wpc[w] = "waiting", w \notin event,
             \A u \in Threads : WillWake(u, w) => <<w, SubKey[w]>> \in owed'[u]
      PROVE  \E u \in Threads : WillWake(u, w)'
  <2>1. Satisfied(w)
    BY <1>0, <1>1 DEF Satisfied, Get
  <2>2. PICK u \in Threads : WillWake(u, w)
    BY <1>1, <2>1 DEF NoLostWakeup
  <2> QED
    BY <1>1, <2>2 DEF WillWake, NewValue, New
<1>2. ASSUME NEW x \in Waiters, WaitStep(x) PROVE \E u \in Threads : WillWake(u, w)'
  <2>1. ref' = ref
    BY <1>2 DEF WaitStep, FirstCheck, WaitSubscribe, Recheck, Woken, GiveUp, WaitCancel,
                Subscribe, Cancel, vars, storeVars
  <2>2. ~Recheck(x) \/ x # w
    BY <1>0, <2>1 DEF Recheck, Satisfied, Get, Waiting, WaitTypeOK
  <2>3. wpc[w] = "waiting" /\ w \notin event
    BY <1>2, <2>2 DEF WaitStep, FirstCheck, WaitSubscribe, Recheck, Woken, GiveUp, WaitCancel,
                      Waiting, WaitTypeOK
  <2>4. UNCHANGED <<ref, call, old>>
    BY <1>2 DEF WaitStep, FirstCheck, WaitSubscribe, Recheck, Woken, GiveUp, WaitCancel,
                Subscribe, Cancel, vars, storeVars, mutateVars
  <2>5. ASSUME NEW u \in Threads, WillWake(u, w) PROVE <<w, SubKey[w]>> \in owed'[u]
    <3>1. CASE WaitCancel(x)
      <4>1. x # w
        BY <3>1, <2>3 DEF WaitCancel
      <4> QED
        BY <3>1, <4>1, <2>5 DEF WaitCancel, Cancel, Forgiven, WillWake
    <3>2. CASE ~WaitCancel(x)
      BY <1>2, <3>2, <2>5 DEF WaitStep, FirstCheck, WaitSubscribe, Recheck, Woken, GiveUp,
                              Subscribe, vars, auxVars, WillWake
    <3> QED
      BY <3>1, <3>2
  <2> QED
    BY <1>1, <2>3, <2>4, <2>5
<1>3. ASSUME NEW t \in Threads, StoreStep(t) PROVE \E u \in Threads : WillWake(u, w)'
  <2>1. wpc[w] = "waiting" /\ w \notin event /\ Step(t)
    BY <1>3 DEF StoreStep, waitVars
  <2>2. CASE SwapStore(t)
    BY <1>0, <2>1, <2>2, SwapWakes
  <2>3. CASE ~SwapStore(t)
    <3>1. CASE \E u \in Threads : owed[u] # {}
      <4>1. ref' = ref
        BY <2>1, <2>3, <3>1, OwedKept
      <4>2. Satisfied(w)
        BY <1>0, <4>1 DEF Satisfied, Get
      <4>3. PICK u \in Threads : WillWake(u, w)
        BY <2>1, <4>2 DEF NoLostWakeup
      <4>4. owed[u] # {}
        BY <4>3 DEF WillWake
      <4> QED
        BY <2>1, <2>3, <4>3, <4>4, OwedKept, WakeKept
    <3>2. CASE \A u \in Threads : owed[u] = {}
      <4>1. ref' = ref
        BY <2>1, <2>3 DEF Step, CheckAbsent, CheckPresent, Peek, MutateNoOp, MutateRead, MutateRaises,
             SwapCompare, SwapLost, NotifyTargeted, NotifyGeneral, NotifyEnd, Return, storeVars
      <4>2. Satisfied(w)
        BY <1>0, <4>1 DEF Satisfied, Get
      <4> QED
        BY <2>1, <3>2, <4>2 DEF NoLostWakeup, WillWake
    <3> QED
      BY <3>1, <3>2
  <2> QED
    BY <2>2, <2>3
<1>4. ASSUME NEW t \in Threads, NEW x \in Waiters, DeliverToWaiter(t, x)
      PROVE  \E u \in Threads : WillWake(u, w)'
  <2>1. UNCHANGED <<ref, call, old>> /\ wpc[w] = "waiting" /\ w \notin event
    BY <1>4, <1>0, DeliverFrame DEF DeliverToWaiter, Check
  <2>2. owed' = [owed EXCEPT ![t] = @ \ {<<x, key[t]>>}]
    BY <1>4, <1>0 DEF DeliverToWaiter, Deliver
  <2>3. x = w => NewValue(t, key[t]) \notin Pred[w]
    BY <1>4 DEF DeliverToWaiter, Check, Waiting, WaitTypeOK
  <2>4. ASSUME NEW u \in Threads, WillWake(u, w) PROVE <<w, SubKey[w]>> \in owed'[u]
    <3>1. u # t \/ <<w, SubKey[w]>> # <<x, key[t]>>
      BY <2>3, <2>4 DEF WillWake
    <3>2. owed \in [Threads -> SUBSET (Subs \X Keys)]
      BY DEF StoreInv, TypeOK
    <3> QED
      BY <2>2, <2>4, <3>1, <3>2 DEF WillWake
  <2> QED
    BY <1>1, <2>1, <2>4
<1>5. ASSUME NEW t \in Threads, NEW s \in Subs \ Waiters, DeliverToOther(t, s)
      PROVE  \E u \in Threads : WillWake(u, w)'
  <2>1. UNCHANGED <<ref, call, old>> /\ wpc[w] = "waiting" /\ w \notin event
    BY <1>5, DeliverFrame DEF DeliverToOther, waitVars
  <2>2. owed' = Forgiven(s) \/ owed' = [owed EXCEPT ![t] = @ \ {<<s, key[t]>>}]
    BY <1>5 DEF DeliverToOther, Deliver
  <2>3. ASSUME NEW u \in Threads, WillWake(u, w) PROVE <<w, SubKey[w]>> \in owed'[u]
    <3>1. CASE owed' = Forgiven(s)
      BY <2>3, <3>1 DEF WillWake, Forgiven
    <3>2. CASE owed' = [owed EXCEPT ![t] = @ \ {<<s, key[t]>>}]
      <4>1. owed \in [Threads -> SUBSET (Subs \X Keys)] /\ <<w, SubKey[w]>> # <<s, key[t]>>
        BY DEF StoreInv, TypeOK
      <4> QED
        BY <2>3, <3>2, <4>1 DEF WillWake
    <3> QED
      BY <2>2, <3>1, <3>2
  <2> QED
    BY <1>1, <2>1, <2>3
<1>6. ASSUME NEW s \in Subs \ Waiters, Subscribe(s) \/ Cancel(s), UNCHANGED waitVars
      PROVE  \E u \in Threads : WillWake(u, w)'
  <2>1. UNCHANGED <<ref, call, old>> /\ wpc[w] = "waiting" /\ w \notin event
    BY <1>6 DEF Subscribe, Cancel, waitVars, storeVars, mutateVars
  <2>2. ASSUME NEW u \in Threads, WillWake(u, w) PROVE <<w, SubKey[w]>> \in owed'[u]
    BY <1>6, <2>2 DEF Subscribe, Cancel, auxVars, WillWake, Forgiven
  <2> QED
    BY <1>1, <2>1, <2>2
<1>7. ASSUME NEW t \in Threads, NEW c \in CallsOf[t], Begin(t, c), UNCHANGED waitVars
      PROVE  \E u \in Threads : WillWake(u, w)'
  <2>1. /\ UNCHANGED <<ref, old, owed>> /\ wpc[w] = "waiting" /\ w \notin event
        /\ owed[t] = {} /\ \A u \in Threads : u # t => call'[u] = call[u]
    BY <1>7 DEF Begin, waitVars, storeVars, mutateVars, auxVars, StoreInv, TypeOK, Control, Owing
  <2>2. Satisfied(w)
    BY <1>0, <2>1 DEF Satisfied, Get
  <2>3. PICK u \in Threads : WillWake(u, w)
    BY <2>1, <2>2 DEF NoLostWakeup
  <2>4. u # t
    BY <2>1, <2>3 DEF WillWake
  <2> QED
    BY <2>1, <2>3, <2>4, WakeKept
<1>8. CASE UNCHANGED allVars
  BY <1>8, <1>1 DEF allVars, vars, waitVars, storeVars, mutateVars, auxVars, WillWake
<1> QED
  BY <1>2, <1>3, <1>4, <1>5, <1>6, <1>7, <1>8
     DEF WaitNext, DeliverStep, OtherClients, Invoke

(* A waiter that sleeps while its key satisfies its predicate is about to  *)
(* be called with a value it accepts: wait_for has no lost wakeup.         *)
THEOREM NoWakeupIsLost == WaitSpec => []NoLostWakeup
<1>1. WaitInit => NoLostWakeup
  BY DEF WaitInit, NoLostWakeup
<1>2. WaitSpec => []Waiting
  <2>1. WaitSpec => []TypeOK
    BY WaitForUsesTheStore, Typing, PTL
  <2> QED
    BY <2>1, InitialWaiting, NextWaiting, PTL DEF WaitSpec
<1> QED
  BY <1>1, <1>2, NextAwake, StoreInvariant, PTL DEF WaitSpec
=============================================================================
