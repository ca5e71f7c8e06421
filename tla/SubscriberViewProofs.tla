------------------------ MODULE SubscriberViewProofs ------------------------
(***************************************************************************)
(* What a subscriber keeps of a key that one thread writes is true, for    *)
(* any number of threads, keys and subscribers.                            *)
(***************************************************************************)
EXTENDS SubscriberView, ReactiveStoreProofs

-----------------------------------------------------------------------------
(* The subscribers are told by the store, and leave it alone.              *)

LEMMA ViewSteps == ViewNext => Next
BY DEF ViewNext, Next, Hear

THEOREM ViewUsesTheStore == ViewSpec => Spec
<1>1. ViewInit => Init
  BY DEF ViewInit
<1>2. [ViewNext]_viewVars => [Next]_vars
  BY ViewSteps DEF viewVars
<1> QED
  BY <1>1, <1>2, PTL DEF ViewSpec, Spec

StoreInv == TypeOK /\ Control /\ SnapshotCurrent /\ Owing

LEMMA StoreInvariant == ViewSpec => []StoreInv
<1>1. Init => StoreInv
  BY InitialTypes, InitialControl DEF Init, StoreInv, SnapshotCurrent, Owing
<1>2. StoreInv /\ [Next]_vars => StoreInv'
  BY NextTypes, NextControl, NextSnapshot, NextOwing DEF StoreInv
<1> QED
  BY <1>1, <1>2, ViewUsesTheStore, PTL DEF Spec

-----------------------------------------------------------------------------
(* The inductive invariant                                                 *)

(* Where a thread is in its call: it is one of its own calls, of its keys  *)
(* some are left to peek at or to announce, and its callbacks listen.      *)
InCall(t) ==
    /\ pc[t] # "idle" => call[t] \in CallsOf[t]
    /\ todo[t] \subseteq call[t].keys
    /\ pc[t] = "check" => todo[t] = call[t].keys
    /\ todo[t] # {} => pc[t] \in {"check", "read"} \/ outcome[t] = "written"
    /\ \A s \in targets[t] :
          pc[t] \in {"copy", "deliver"} /\ handle[s] # "new" /\ Listens(s, key[t])

(* The values it has read and those it has stored are still current.       *)
Fresh(t, k) ==
    /\ pc[t] = "read" /\ Peeks(call[t]) /\ k \notin todo[t] => seen[t][k] = ref[k]
    /\ pc[t] \in {"swap", "store"} => seen[t][k] = ref[k]
    /\ outcome[t] = "written" => New(t)[k] = ref[k]

(* Until they are told of its change, all have heard the value before it.  *)
Chained(t, k) ==
    outcome[t] = "written" /\ k \in todo[t] =>
        /\ ~(pc[t] = "deliver" /\ key[t] = k) =>
              \A s \in Active : heard[s][k] \in {Unheard, OldValue(t, k)}
        /\ pc[t] \in {"copy", "deliver"} /\ key[t] = k =>
              \A s \in targets[t] : heard[s][k] \in {Unheard, OldValue(t, k)}

Announcing(t) ==
    /\ InCall(t)
    /\ \A k \in call[t].keys : HasOneWriter(k) => Fresh(t, k) /\ Chained(t, k)

(* What a subscriber heard is current, or it is owed the next value.       *)
Told(s) ==
    \A k \in Keys : heard[s][k] # Unheard =>
        /\ handle[s] # "new"
        /\ Listens(s, k)
        /\ handle[s] = "active" /\ HasOneWriter(k) =>
              \/ heard[s][k] = Announced(ref[k])
              \/ \E t \in Threads : <<s, k>> \in owed[t]

ViewInv ==
    /\ heard \in [Subs -> [Keys -> Values \cup {Unheard}]]
    /\ \A t \in Threads : Announcing(t)
    /\ \A s \in Subs : Told(s)

-----------------------------------------------------------------------------
LEMMA InitialView == ViewInit => ViewInv
<1> SUFFICES ASSUME ViewInit PROVE ViewInv
  OBVIOUS
<1>1. \A t \in Threads : pc[t] = "idle" /\ todo[t] = {} /\ targets[t] = {} /\ outcome[t] = "none"
  BY DEF ViewInit, Init
<1>2. \A t \in Threads : Announcing(t)
  BY <1>1 DEF Announcing, InCall, Fresh, Chained
<1>3. \A s \in Subs : Told(s)
  BY DEF ViewInit, Told
<1> QED
  BY <1>2, <1>3 DEF ViewInv, ViewInit

(* A key with one writer is in the call of no other thread.                *)
LEMMA OthersDoNotWrite ==
    ASSUME StoreInv, ViewInv, NEW t \in Threads, NEW u \in Threads, u # t,
           NEW k \in call[t].keys, HasOneWriter(k)
    PROVE  k \notin call[u].keys
<1>1. \A v \in Threads : k \in call[v].keys => pc[v] # "idle"
  <2>1. NoCall.keys = {}
    BY DEF NoCall
  <2> QED
    BY <2>1 DEF StoreInv, Control
<1>2. \A v \in Threads : k \in call[v].keys => v \in Writers(k)
  BY <1>1 DEF ViewInv, Announcing, InCall, Writers
<1> QED
  BY <1>2 DEF HasOneWriter

(* A swap leaves the keys of no call of its own as they are.               *)
LEMMA SwapConfined ==
    ASSUME StoreInv, ViewInv, NEW t \in Threads, SwapStore(t)
    PROVE  /\ New(t) \in Maps
           /\ ref' = New(t)
           /\ old[t] = ref
           /\ \A k \in Keys : k \notin call[t].keys => ref'[k] = ref[k]
<1>1. old[t] = ref /\ ref \in Maps /\ ref' = New(t)
  BY DEF StoreInv, SnapshotCurrent, SwapStore, TypeOK
<1>2. call[t] \in WriteCalls /\ call[t].kind # "mutate"
  BY AnnouncedCallsAssumption
     DEF StoreInv, Control, ViewInv, Announcing, InCall, SwapStore
<1>3. New(t) \in Maps
  BY <1>1, TxnType DEF New, StoreInv
<1> QED
  BY <1>1, <1>2, <1>3, CallConfined DEF New

(* What a step of one thread leaves of the others.                         *)
LEMMA OthersKept ==
    ASSUME StoreInv, ViewInv, NEW t \in Threads,
           \/ Step(t) /\ UNCHANGED heard
           \/ \E s \in Subs : Hear(t, s)
           \/ Invoke(t) /\ UNCHANGED heard,
           NEW u \in Threads, u # t
    PROVE  Announcing(u)'
<1> USE DEF StoreInv, TypeOK, storeVars, subsVars, mutateVars, notifyVars, auxVars
<1>1. /\ pc'[u] = pc[u] /\ call'[u] = call[u] /\ old'[u] = old[u] /\ seen'[u] = seen[u]
      /\ todo'[u] = todo[u] /\ key'[u] = key[u] /\ targets'[u] = targets[u]
      /\ outcome'[u] = outcome[u]
  BY DEF Step, Invoke, Begin, Hear, Deliver, CheckAbsent, CheckPresent, Peek, MutateNoOp,
         MutateRead, MutateRaises, SwapCompare, SwapLost, SwapStore, NotifyTargeted,
         NotifyGeneral, NotifyEnd, Return
<1>2. /\ Active' \subseteq Active
      /\ \A s \in Subs : handle[s] # "new" => handle'[s] # "new"
  BY DEF Step, Invoke, Begin, Hear, Deliver, CheckAbsent, CheckPresent, Peek, MutateNoOp,
         MutateRead, MutateRaises, SwapCompare, SwapLost, SwapStore, NotifyTargeted,
         NotifyGeneral, NotifyEnd, Return, Active, Unsubscribed
<1>3. InCall(u)'
  <2>1. InCall(u)
    BY DEF ViewInv, Announcing
  <2> QED
    BY <1>1, <1>2, <2>1 DEF InCall, Listens
<1>4. ASSUME NEW k \in call[u].keys, HasOneWriter(k)
      PROVE  Fresh(u, k)' /\ Chained(u, k)'
  <2>1. Fresh(u, k) /\ Chained(u, k) /\ k \in Keys /\ k \notin call[t].keys
    BY <1>4, OthersDoNotWrite, TxnType DEF ViewInv, Announcing
  <2>2. ref'[k] = ref[k]
    <3>1. CASE SwapStore(t)
      BY <2>1, <3>1, SwapConfined
    <3>2. CASE ~SwapStore(t)
      BY <3>2
         DEF Step, Invoke, Begin, Hear, Deliver, CheckAbsent, CheckPresent, Peek, MutateNoOp,
             MutateRead, MutateRaises, SwapCompare, SwapLost, NotifyTargeted,
             NotifyGeneral, NotifyEnd, Return
    <3> QED
      BY <3>1, <3>2
  <2>3. \A s \in Subs : heard'[s][k] = heard[s][k]
    <3>1. CASE \E s \in Subs : Hear(t, s)
      <4>1. PICK s \in Subs : Hear(t, s)
        BY <3>1
      <4>2. key[t] # k
        BY <2>1, <4>1 DEF Hear, Deliver, Owing, ViewInv, Announcing, InCall
      <4> QED
        BY <2>1, <4>1, <4>2 DEF Hear, ViewInv
    <3>2. CASE UNCHANGED heard
      BY <3>2
    <3> QED
      BY <3>1, <3>2
  <2>4. New(u)' = New(u)
    BY <1>1 DEF New
  <2>5. Fresh(u, k)'
    BY <1>1, <2>1, <2>2, <2>4 DEF Fresh, Peeks
  <2>6. OldValue(u, k)' = OldValue(u, k)
    BY <1>1 DEF OldValue
  <2>7. Active \subseteq Subs /\ targets[u] \subseteq Subs
    BY DEF Active
  <2>8. Chained(u, k)'
    BY <1>1, <1>2, <2>1, <2>3, <2>6, <2>7 DEF Chained
  <2> QED
    BY <2>5, <2>8
<1> QED
  BY <1>1, <1>3, <1>4 DEF Announcing, HasOneWriter, Writers

(* Before the swap of a call everyone who heard of its keys is up to date. *)
LEMMA ToldBefore ==
    ASSUME StoreInv, ViewInv, NEW t \in Threads, outcome[t] = "none",
           NEW k \in call[t].keys, HasOneWriter(k), NEW s \in Active
    PROVE  heard[s][k] \in {Unheard, Announced(ref[k])}
<1>1. k \in Keys /\ s \in Subs /\ handle[s] = "active"
  BY TxnType DEF StoreInv, TypeOK, Active
<1>2. ASSUME NEW u \in Threads PROVE <<s, k>> \notin owed[u]
  <2>1. CASE u = t
    BY <2>1 DEF StoreInv, Owing
  <2>2. CASE u # t
    <3>1. k \notin todo[u]
      BY <2>2, OthersDoNotWrite DEF ViewInv, Announcing, InCall
    <3>2. owed[u] # {} => call[u] \in CallsOf[u]
      BY DEF StoreInv, TypeOK, Owing, Control, ViewInv, Announcing, InCall
    <3> QED
      BY <3>1, <3>2, AnnouncedCallsAssumption DEF StoreInv, Owing
  <2> QED
    BY <2>1, <2>2
<1> QED
  BY <1>1, <1>2 DEF ViewInv, Told

(* What has been peeked at, or boxed, when mutate() computes.              *)
LEMMA Peeked ==
    ASSUME StoreInv, ViewInv, NEW t \in Threads, AtRead(t),
           NEW k \in call[t].keys, HasOneWriter(k)
    PROVE  Box(t)[k] = ref[k]
<1>1. /\ call[t] \in WriteCalls /\ call[t].kind # "mutate" /\ k \in Keys
      /\ call[t].kind \in Kinds \cup {"none"} /\ call[t] # NoCall
  BY TxnType, CallType, AnnouncedCallsAssumption, NoCallIsNotWrite
     DEF StoreInv, Control, AtRead, ViewInv, Announcing, InCall
<1>2. call[t].kind # "none"
  BY <1>1 DEF WriteCalls, SetCall, MsetCall, AtomicCall, DeleteCall, DeleteKinds
<1>3. CASE call[t].kind = "atomic"
  BY <1>1, <1>3 DEF Box
<1>4. CASE call[t].kind # "atomic"
  <2>1. Peeks(call[t])
    BY <1>1, <1>2, <1>4 DEF Peeks, Kinds, DeleteKinds
  <2> QED
    BY <1>4, <2>1 DEF AtRead, Box, ViewInv, Announcing, Fresh
<1> QED
  BY <1>3, <1>4

(* The steps of a thread up to its swap.                                   *)
LEMMA WritingKept ==
    ASSUME StoreInv, ViewInv, NEW t \in Threads, UNCHANGED heard,
           \/ Invoke(t) \/ CheckAbsent(t) \/ CheckPresent(t) \/ Peek(t)
           \/ MutateNoOp(t) \/ MutateRead(t) \/ MutateRaises(t)
           \/ SwapCompare(t) \/ SwapLost(t) \/ SwapStore(t)
    PROVE  Announcing(t)'
<1> USE DEF StoreInv, TypeOK, storeVars, subsVars, mutateVars, notifyVars, auxVars
<1>1. InCall(t) /\ \A k \in call[t].keys : HasOneWriter(k) => Fresh(t, k) /\ Chained(t, k)
  BY DEF ViewInv, Announcing
<1>2. call[t].keys \subseteq Keys
  BY TxnType
<1>3. CASE Invoke(t)
  <2>1. PICK c \in CallsOf[t] : Begin(t, c)
    BY <1>3 DEF Invoke
  <2>2. /\ call'[t] = c /\ pc'[t] \in {"check", "read"} /\ outcome'[t] = "none"
        /\ todo'[t] = IF Peeks(c) THEN c.keys ELSE {}
        /\ pc'[t] = "check" => Peeks(c)
        /\ targets'[t] = {}
    BY <1>1, <2>1 DEF Begin, Control, InCall, Peeks
  <2> QED
    BY <2>2 DEF Announcing, InCall, Fresh, Chained
<1>4. CASE CheckAbsent(t)
  BY <1>1, <1>4 DEF CheckAbsent, Announcing, InCall, Fresh, Chained
<1>5. CASE CheckPresent(t)
  BY <1>1, <1>5 DEF CheckPresent, Control, Announcing, InCall, Fresh, Chained
<1>6. CASE Peek(t)
  <2>1. PICK k \in todo[t] : /\ seen' = [seen EXCEPT ![t][k] = ref[k]]
                             /\ todo' = [todo EXCEPT ![t] = @ \ {k}]
    BY <1>6 DEF Peek
  <2>2. k \in Keys /\ \A l \in Keys : l # k => seen'[t][l] = seen[t][l]
    BY <2>1 DEF Maps
  <2>3. seen'[t][k] = ref[k]
    BY <2>1, <2>2 DEF Maps
  <2>4. UNCHANGED <<ref, pc, call, outcome, targets, handle, key>> /\ pc[t] = "read" /\ outcome[t] = "none"
    BY <1>6 DEF Peek, Control
  <2> QED
    BY <1>1, <1>2, <2>1, <2>2, <2>3, <2>4 DEF Announcing, InCall, Fresh, Chained, Listens, Peeks
<1>7. CASE MutateNoOp(t)
  <2>1. /\ pc'[t] = "announce" /\ call' = call /\ old'[t] = ref /\ ref' = ref
        /\ seen'[t] = Box(t) /\ outcome'[t] = "written" /\ todo'[t] = call[t].keys
        /\ outcome[t] = "none" /\ handle' = handle /\ AtRead(t) /\ call[t].txn[ref] = ref
        /\ targets' = targets /\ pc[t] = "read"
    BY <1>7 DEF MutateNoOp, Announces, Control, AtRead
  <2>2. InCall(t)'
    BY <1>1, <2>1 DEF InCall
  <2>3. ASSUME NEW k \in call[t].keys, HasOneWriter(k) PROVE Fresh(t, k)' /\ Chained(t, k)'
    <3>1. New(t)' = ref
      BY <2>1 DEF New
    <3>2. seen'[t][k] = ref[k]
      BY <2>1, <2>3, Peeked
    <3>3. \A s \in Active : heard[s][k] \in {Unheard, Announced(ref[k])}
      BY <2>1, <2>3, ToldBefore
    <3> QED
      BY <2>1, <3>1, <3>2, <3>3 DEF Fresh, Chained, Active, OldValue
  <2> QED
    BY <2>1, <2>2, <2>3 DEF Announcing, HasOneWriter, Writers
<1>8. CASE MutateRead(t)
  <2>1. /\ pc'[t] = "swap" /\ call' = call /\ ref' = ref
        /\ seen'[t] = Box(t) /\ outcome' = outcome /\ todo' = todo /\ todo[t] = {}
        /\ outcome[t] = "none" /\ AtRead(t) /\ targets' = targets /\ pc[t] = "read"
    BY <1>8 DEF MutateRead, Control, AtRead
  <2>2. InCall(t)'
    BY <1>1, <2>1 DEF InCall
  <2>3. ASSUME NEW k \in call[t].keys, HasOneWriter(k) PROVE Fresh(t, k)' /\ Chained(t, k)'
    BY <2>1, <2>3, Peeked DEF Fresh, Chained
  <2> QED
    BY <2>1, <2>2, <2>3 DEF Announcing, HasOneWriter, Writers
<1>9. CASE MutateRaises(t)
  BY <1>1, <1>9 DEF MutateRaises, AtRead, Announcing, InCall, Fresh, Chained
<1>10. CASE SwapCompare(t)
  BY <1>1, <1>10 DEF SwapCompare, Control, Announcing, InCall, Fresh, Chained, New
<1>11. CASE SwapLost(t)
  <2>1. /\ call' = call /\ ref' = ref /\ seen' = seen /\ todo' = todo /\ pc[t] = "swap"
        /\ targets' = targets /\ outcome[t] = "none"
        /\ \/ pc'[t] = "read" /\ outcome'[t] = "none"
           \/ pc'[t] = "announce" /\ outcome'[t] = "conflict"
    BY <1>11 DEF SwapLost, Control
  <2>2. todo[t] = {}
    BY <1>1, <2>1 DEF InCall
  <2> QED
    BY <1>1, <2>1, <2>2 DEF Announcing, InCall, Fresh, Chained
<1>12. CASE SwapStore(t)
  <2>1. /\ pc'[t] = "announce" /\ UNCHANGED <<call, old, seen, handle, targets>>
        /\ outcome'[t] = "written" /\ todo'[t] = call[t].keys
        /\ outcome[t] = "none" /\ pc[t] = "store" /\ ref' = New(t)
    BY <1>12 DEF SwapStore, Announces, Control
  <2>2. InCall(t)'
    BY <1>1, <2>1 DEF InCall
  <2>3. ASSUME NEW k \in call[t].keys, HasOneWriter(k) PROVE Fresh(t, k)' /\ Chained(t, k)'
    <3>1. New(t)' = ref'
      BY <2>1 DEF New
    <3>2. seen'[t][k] = ref[k]
      BY <1>1, <2>1, <2>3 DEF Fresh
    <3>3. \A s \in Active : heard[s][k] \in {Unheard, Announced(ref[k])}
      BY <2>1, <2>3, ToldBefore
    <3> QED
      BY <2>1, <3>1, <3>2, <3>3 DEF Fresh, Chained, Active, OldValue
  <2> QED
    BY <2>1, <2>2, <2>3 DEF Announcing, HasOneWriter, Writers
<1> QED
  BY <1>3, <1>4, <1>5, <1>6, <1>7, <1>8, <1>9, <1>10, <1>11, <1>12

(* The steps of a thread that announces.                                   *)
LEMMA AnnouncingKept ==
    ASSUME StoreInv, ViewInv, NEW t \in Threads, UNCHANGED heard,
           NotifyTargeted(t) \/ NotifyGeneral(t) \/ NotifyEnd(t) \/ Return(t)
    PROVE  Announcing(t)'
<1> USE DEF StoreInv, TypeOK, storeVars, subsVars, mutateVars, notifyVars, auxVars
<1>1. InCall(t) /\ \A k \in call[t].keys : HasOneWriter(k) => Fresh(t, k) /\ Chained(t, k)
  BY DEF ViewInv, Announcing
<1>2. CASE NotifyTargeted(t)
  <2>1. PICK l \in todo[t] : /\ key' = [key EXCEPT ![t] = l]
                             /\ targets' = [targets EXCEPT ![t] = {s \in Active : SubKey[s] = l}]
    BY <1>2 DEF NotifyTargeted
  <2>2. /\ pc[t] = "announce" /\ pc'[t] = "copy" /\ key'[t] = l
        /\ targets'[t] = {s \in Active : SubKey[s] = l}
        /\ UNCHANGED <<ref, call, old, seen, todo, outcome, handle>>
    BY <1>2, <2>1 DEF NotifyTargeted
  <2>3. InCall(t)'
    BY <1>1, <2>2 DEF InCall, Listens, Active
  <2>4. ASSUME NEW k \in call[t].keys, HasOneWriter(k) PROVE Fresh(t, k)' /\ Chained(t, k)'
    BY <1>1, <2>2, <2>4 DEF Fresh, Chained, New, Active, OldValue
  <2> QED
    BY <2>2, <2>3, <2>4 DEF Announcing, HasOneWriter, Writers
<1>3. CASE NotifyGeneral(t)
  <2>1. /\ pc[t] = "copy" /\ pc'[t] = "deliver"
        /\ targets'[t] = targets[t] \cup {s \in Active : SubKey[s] = AnyKey}
        /\ UNCHANGED <<ref, call, old, seen, todo, outcome, handle, key>>
    BY <1>3 DEF NotifyGeneral
  <2>2. InCall(t)'
    BY <1>1, <2>1 DEF InCall, Listens, Active
  <2>3. ASSUME NEW k \in call[t].keys, HasOneWriter(k) PROVE Fresh(t, k)' /\ Chained(t, k)'
    BY <1>1, <2>1, <2>3 DEF Fresh, Chained, New, Active, OldValue
  <2> QED
    BY <2>1, <2>2, <2>3 DEF Announcing, HasOneWriter, Writers
<1>4. CASE NotifyEnd(t)
  <2>1. /\ pc[t] = "deliver" /\ pc'[t] = "announce"
        /\ todo'[t] = todo[t] \ {key[t]}
        /\ targets[t] = {} /\ targets'[t] = {}
        /\ UNCHANGED <<ref, call, old, seen, outcome, handle>>
    BY <1>4 DEF NotifyEnd
  <2>2. InCall(t)'
    BY <1>1, <2>1 DEF InCall
  <2>3. ASSUME NEW k \in call[t].keys, HasOneWriter(k) PROVE Fresh(t, k)' /\ Chained(t, k)'
    BY <1>1, <2>1, <2>3 DEF Fresh, Chained, New, Active, OldValue
  <2> QED
    BY <2>1, <2>2, <2>3 DEF Announcing, HasOneWriter, Writers
<1>5. CASE Return(t)
  <2>1. /\ pc[t] = "announce" /\ pc'[t] = "idle" /\ outcome'[t] = "none"
        /\ todo'[t] = {} /\ targets'[t] = {}
    BY <1>1, <1>5 DEF Return, InCall
  <2> QED
    BY <2>1 DEF Announcing, InCall, Fresh, Chained
<1> QED
  BY <1>2, <1>3, <1>4, <1>5

LEMMA HearKept ==
    ASSUME StoreInv, ViewInv, NEW t \in Threads, NEW s \in Subs, Hear(t, s)
    PROVE  Announcing(t)'
<1> USE DEF StoreInv, TypeOK, storeVars, subsVars, mutateVars, notifyVars, auxVars
<1>1. InCall(t) /\ \A k \in call[t].keys : HasOneWriter(k) => Fresh(t, k) /\ Chained(t, k)
  BY DEF ViewInv, Announcing
<1>2. /\ pc[t] = "deliver"
      /\ targets'[t] = targets[t] \ {s}
      /\ Active' \subseteq Active
      /\ \A r \in Subs : handle[r] # "new" => handle'[r] # "new"
      /\ UNCHANGED <<ref, pc, call, old, seen, todo, outcome, key>>
  BY DEF Hear, Deliver, Active, Unsubscribed
<1>3. InCall(t)'
  BY <1>1, <1>2 DEF InCall, Listens
<1>4. ASSUME NEW k \in call[t].keys, HasOneWriter(k) PROVE Fresh(t, k)' /\ Chained(t, k)'
  <2>1. k \in Keys
    BY TxnType
  <2>2. \A r \in Subs : r # s \/ k # key[t] => heard'[r][k] = heard[r][k]
    BY <2>1 DEF Hear, ViewInv
  <2>3. Active' \subseteq Subs /\ targets[t] \subseteq Subs
    BY DEF Active
  <2>4. OldValue(t, k)' = OldValue(t, k) /\ New(t)' = New(t)
    BY <1>2 DEF OldValue, New
  <2> QED
    BY <1>1, <1>2, <1>4, <2>2, <2>3, <2>4 DEF Fresh, Chained
<1> QED
  BY <1>2, <1>3, <1>4 DEF Announcing, HasOneWriter, Writers

-----------------------------------------------------------------------------
(* What the subscribers heard, through every step.                         *)

LEMMA StepTold ==
    ASSUME StoreInv, ViewInv, NEW t \in Threads, UNCHANGED heard,
           Step(t) \/ Invoke(t), NEW s \in Subs
    PROVE  Told(s)'
<1> USE DEF StoreInv, TypeOK, storeVars, subsVars, mutateVars, notifyVars, auxVars
<1>1. Told(s)
  BY DEF ViewInv
<1>2. CASE SwapStore(t)
  <2>1. /\ owed[t] = {} /\ old[t] = ref /\ ref' = New(t) /\ New(t) \in Maps
    BY <1>2, SwapConfined DEF SwapStore, Control, Owing
  <2>2. /\ owed'[t] = {p \in Active \X ChangedKeys(t) : Listens(p[1], p[2])}
        /\ \A u \in Threads \ {t} : owed'[u] = owed[u]
        /\ UNCHANGED handle
    BY <1>2 DEF SwapStore
  <2>3. ASSUME NEW k \in Keys, heard[s][k] # Unheard, handle[s] = "active", HasOneWriter(k)
        PROVE  \/ heard[s][k] = Announced(ref'[k])
               \/ \E u \in Threads : <<s, k>> \in owed'[u]
    <3>1. CASE ref'[k] = ref[k]
      BY <1>1, <2>1, <2>2, <2>3, <3>1 DEF Told
    <3>2. CASE ref'[k] # ref[k]
      <4>1. k \in ChangedKeys(t)
        BY <2>1, <3>2 DEF ChangedKeys
      <4>2. s \in Active /\ Listens(s, k)
        BY <1>1, <2>3 DEF Active, Told
      <4>3. <<s, k>> \in owed'[t]
        BY <2>2, <4>1, <4>2
      <4> QED
        BY <4>3
    <3> QED
      BY <3>1, <3>2
  <2> QED
    BY <1>1, <2>2, <2>3 DEF Told, Listens, HasOneWriter, Writers
<1>3. CASE Return(t)
  <2>1. owed[t] = {}
    <3>1. call[t] \in CallsOf[t]
      BY <1>3 DEF Return, ViewInv, Announcing, InCall
    <3> QED
      BY <1>3, <3>1, AnnouncedCallsAssumption DEF Return, Owing
  <2>2. owed' = owed /\ UNCHANGED <<ref, handle>>
    BY <1>3, <2>1 DEF Return
  <2> QED
    BY <1>1, <2>2 DEF Told, Listens, HasOneWriter, Writers
<1>4. CASE ~SwapStore(t) /\ ~Return(t)
  <2>1. UNCHANGED <<ref, handle, owed>>
    BY <1>4 DEF Step, Invoke, Begin, CheckAbsent, CheckPresent, Peek, MutateNoOp,
         MutateRead, MutateRaises, SwapCompare, SwapLost, NotifyTargeted,
         NotifyGeneral, NotifyEnd
  <2> QED
    BY <1>1, <2>1 DEF Told, Listens, HasOneWriter, Writers
<1> QED
  BY <1>2, <1>3, <1>4

LEMMA HearTold ==
    ASSUME StoreInv, ViewInv, NEW t \in Threads, NEW r \in Subs, Hear(t, r), NEW s \in Subs
    PROVE  Told(s)'
<1> USE DEF StoreInv, TypeOK, storeVars, subsVars, mutateVars, notifyVars, auxVars
<1> DEFINE k == key[t]
<1>1. /\ Told(s) /\ InCall(t) /\ k \in todo[t] /\ k \in call[t].keys /\ k \in Keys
      /\ handle[r] # "new" /\ Listens(r, k)
      /\ outcome[t] = "written"
      /\ HasOneWriter(k) => New(t)[k] = ref[k]
  <2>1. k \in todo[t] /\ pc[t] = "deliver" /\ r \in targets[t] /\ InCall(t) /\ Told(s)
    BY DEF Hear, Deliver, Owing, ViewInv, Announcing
  <2>2. k \in call[t].keys /\ outcome[t] = "written" /\ handle[r] # "new" /\ Listens(r, k)
    BY <2>1 DEF InCall
  <2> QED
    BY <2>1, <2>2 DEF ViewInv, Announcing, Fresh
<1>2. /\ ref' = ref
      /\ \A x \in Subs : handle'[x] # handle[x] => x = r /\ handle'[x] = "cancelled"
      /\ \A u \in Threads : \A p \in owed[u] :
            p \in owed'[u] \/ p = <<r, k>> \/ (p[1] = r /\ handle'[r] = "cancelled")
  <2>1. CASE r \in OneShot /\ handle[r] = "active"
    BY <2>1 DEF Hear, Deliver, Unsubscribed, Forgiven
  <2>2. CASE ~(r \in OneShot /\ handle[r] = "active")
    BY <2>2 DEF Hear, Deliver
  <2> QED
    BY <2>1, <2>2
<1>3. heard' = [heard EXCEPT ![r][k] = NewValue(t, k)]
  BY DEF Hear
<1> HIDE DEF k
<1>4. ASSUME NEW x \in Keys, heard'[s][x] # Unheard
      PROVE  /\ handle'[s] # "new"
             /\ Listens(s, x)
             /\ handle'[s] = "active" /\ HasOneWriter(x) =>
                   \/ heard'[s][x] = Announced(ref'[x])
                   \/ \E u \in Threads : <<s, x>> \in owed'[u]
  <2>1. CASE s = r /\ x = k
    <3>1. heard'[s][x] = Announced(New(t)[k])
      BY <1>1, <1>3, <2>1 DEF ViewInv, NewValue
    <3> QED
      BY <1>1, <1>2, <2>1, <3>1
  <2>2. CASE ~(s = r /\ x = k)
    <3>1. heard'[s][x] = heard[s][x]
      BY <1>1, <1>3, <2>2 DEF ViewInv
    <3>2. \A u \in Threads : <<s, x>> \in owed[u] /\ handle'[s] # "cancelled" => <<s, x>> \in owed'[u]
      BY <1>2, <2>2
    <3> QED
      BY <1>1, <1>2, <1>4, <3>1, <3>2 DEF Told
  <2> QED
    BY <2>1, <2>2
<1> QED
  BY <1>4 DEF Told, Listens, HasOneWriter, Writers

-----------------------------------------------------------------------------
LEMMA ClientsKept ==
    ASSUME StoreInv, ViewInv, UNCHANGED heard,
           NEW s \in Subs, Subscribe(s) \/ Cancel(s)
    PROVE  ViewInv'
<1> USE DEF StoreInv, TypeOK, storeVars, subsVars, mutateVars, notifyVars, auxVars
<1>1. /\ UNCHANGED <<ref, pc, call, old, seen, todo, key, targets, outcome>>
      /\ \A r \in Subs \ {s} : handle'[r] = handle[r]
      /\ \/ handle[s] = "new" /\ handle'[s] = "active" /\ UNCHANGED owed
         \/ handle[s] = "active" /\ handle'[s] = "cancelled" /\ owed' = Forgiven(s)
  BY DEF Subscribe, Cancel, Unsubscribed
<1>2. \A k \in Keys : handle[s] = "new" => heard[s][k] = Unheard
  BY DEF ViewInv, Told
<1>3. ASSUME NEW t \in Threads PROVE Announcing(t)'
  <2>1. InCall(t) /\ \A k \in call[t].keys : HasOneWriter(k) => Fresh(t, k) /\ Chained(t, k)
    BY DEF ViewInv, Announcing
  <2>2. InCall(t)'
    BY <1>1, <2>1 DEF InCall, Listens
  <2>3. ASSUME NEW k \in call[t].keys, HasOneWriter(k) PROVE Fresh(t, k)' /\ Chained(t, k)'
    <3>1. \A r \in Active' : r \in Active \/ heard[r][k] = Unheard
      BY <1>1, <1>2, TxnType DEF Active
    <3>2. OldValue(t, k)' = OldValue(t, k) /\ New(t)' = New(t)
      BY <1>1 DEF OldValue, New
    <3> QED
      BY <1>1, <2>1, <2>3, <3>1, <3>2 DEF Fresh, Chained
  <2> QED
    BY <1>1, <2>2, <2>3 DEF Announcing, HasOneWriter, Writers
<1>4. ASSUME NEW r \in Subs PROVE Told(r)'
  <2>1. Told(r)
    BY DEF ViewInv
  <2>2. \A k \in Keys, u \in Threads :
           <<r, k>> \in owed[u] /\ handle'[r] # "cancelled" => <<r, k>> \in owed'[u]
    BY <1>1 DEF Forgiven
  <2> QED
    BY <1>1, <1>2, <2>1, <2>2 DEF Told, Listens, HasOneWriter, Writers
<1> QED
  BY <1>3, <1>4 DEF ViewInv

LEMMA NextView == StoreInv /\ ViewInv /\ [ViewNext]_viewVars => ViewInv'
<1> SUFFICES ASSUME StoreInv, ViewInv, [ViewNext]_viewVars PROVE ViewInv'
  OBVIOUS
<1>1. ASSUME NEW t \in Threads, Step(t) \/ Invoke(t), UNCHANGED heard PROVE ViewInv'
  <2>1. Announcing(t)'
    BY <1>1, WritingKept, AnnouncingKept DEF Step
  <2>2. \A u \in Threads : Announcing(u)'
    BY <1>1, <2>1, OthersKept
  <2>3. \A s \in Subs : Told(s)'
    BY <1>1, StepTold
  <2> QED
    BY <1>1, <2>2, <2>3 DEF ViewInv
<1>2. ASSUME NEW t \in Threads, NEW s \in Subs, Hear(t, s) PROVE ViewInv'
  <2>1. \A u \in Threads : Announcing(u)'
    BY <1>2, HearKept, OthersKept
  <2>2. \A r \in Subs : Told(r)'
    BY <1>2, HearTold
  <2>3. NewValue(t, key[t]) \in Values
    <3>1. New(t)[key[t]] \in Contents
      <4>1. key[t] \in Keys
        BY <1>2 DEF Hear, Deliver, StoreInv, TypeOK, Owing
      <4>2. New(t) \in Maps
        BY TxnType DEF StoreInv, TypeOK, New
      <4> QED
        BY <4>1, <4>2 DEF Maps
    <3> QED
      BY <3>1, NoneIsAValue DEF NewValue, Announced, Contents
  <2>4. heard' \in [Subs -> [Keys -> Values \cup {Unheard}]]
    BY <1>2, <2>3 DEF Hear, ViewInv
  <2> QED
    BY <2>1, <2>2, <2>4 DEF ViewInv
<1>3. ASSUME NEW s \in Subs, Subscribe(s) \/ Cancel(s), UNCHANGED heard PROVE ViewInv'
  BY <1>3, ClientsKept
<1>4. CASE UNCHANGED viewVars
  BY <1>4 DEF viewVars, vars, storeVars, subsVars, mutateVars, notifyVars, auxVars, ViewInv,
              Announcing, InCall, Fresh, Chained, Told, Listens, HasOneWriter, Writers,
              Active, OldValue, New, Peeks
<1> QED
  BY <1>1, <1>2, <1>3, <1>4 DEF ViewNext, ClientStep

LEMMA ViewInvariant == ViewSpec => [](StoreInv /\ ViewInv)
<1> QED
  BY StoreInvariant, InitialView, NextView, PTL DEF ViewSpec

(* A mirror built on subscribe() is up to date whenever no call is under   *)
(* way, for the keys that one thread writes.                               *)
THEOREM MirrorsAreCurrent == ViewSpec => []HeardIsCurrent
<1>1. StoreInv /\ ViewInv => HeardIsCurrent
  <2> SUFFICES ASSUME StoreInv, ViewInv, Quiet,
                      NEW s \in Active, NEW k \in Keys, HasOneWriter(k)
               PROVE  heard[s][k] \in {Unheard, Announced(ref[k])}
    BY DEF HeardIsCurrent
  <2>1. \A t \in Threads : owed[t] = {}
    BY DEF Quiet, StoreInv, Control, Owing
  <2> QED
    BY <2>1 DEF ViewInv, Told, Active
<1> QED
  BY <1>1, ViewInvariant, PTL

(* What a subscriber is told of such a key fits on what it was told last.  *)
THEOREM ChainsAreUnbroken == ViewSpec => []ChainUnbroken
<1>1. StoreInv /\ ViewInv => ChainUnbroken
  <2> SUFFICES ASSUME StoreInv, ViewInv, NEW t \in Threads, NEW s \in targets[t],
                      pc[t] = "deliver", HasOneWriter(key[t])
               PROVE  heard[s][key[t]] \in {Unheard, OldValue(t, key[t])}
    BY DEF ChainUnbroken
  <2>1. key[t] \in todo[t]
    BY DEF StoreInv, Owing
  <2>2. key[t] \in call[t].keys /\ outcome[t] = "written"
    BY <2>1 DEF ViewInv, Announcing, InCall
  <2> QED
    BY <2>1, <2>2 DEF ViewInv, Announcing, Chained
<1> QED
  BY <1>1, ViewInvariant, PTL
=============================================================================
