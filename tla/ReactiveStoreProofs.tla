------------------------- MODULE ReactiveStoreProofs -------------------------
(***************************************************************************)
(* What holds of a ReactiveStore for every number of threads, keys,        *)
(* values, subscribers and retries, and every choice of calls.             *)
(***************************************************************************)
EXTENDS ReactiveStore, StoreCallsProofs

-----------------------------------------------------------------------------
(* Types                                                                   *)

LEMMA InitialTypes == Init => TypeOK
BY FreeAssumption
   DEF Init, TypeOK, Pcs, Maps, EmptyMap, Contents, NoSwap, NoKey

(* A closure applied to a snapshot gives a snapshot.                       *)
LEMMA TxnType ==
    ASSUME TypeOK, NEW t \in Threads, NEW m \in Maps
    PROVE  call[t].txn[m] \in Maps /\ call[t].keys \subseteq Keys
<1>1. call[t] \in WriteCalls \cup {NoCall}
  BY DEF TypeOK
<1> QED
  BY <1>1, CallType

LEMMA StepTypes ==
    ASSUME TypeOK, NEW t \in Threads, Step(t)
    PROVE  TypeOK'
<1>0. ref \in Maps /\ New(t) \in Maps /\ call[t].keys \subseteq Keys
  BY TxnType DEF TypeOK, New
<1> USE <1>0 DEF TypeOK, Pcs, storeVars, subsVars, mutateVars, notifyVars, auxVars
<1>1. CASE CheckAbsent(t)
  BY <1>1 DEF CheckAbsent, Absent
<1>2. CASE CheckPresent(t)
  BY <1>2 DEF CheckPresent
<1>3. CASE Peek(t)
  BY <1>3 DEF Peek, Maps
<1>4. CASE MutateNoOp(t)
  BY <1>4 DEF MutateNoOp, Announces, AtRead, Box, Maps
<1>5. CASE MutateRead(t)
  BY <1>5 DEF MutateRead, AtRead, Box, Maps
<1>6. CASE MutateRaises(t)
  BY <1>6 DEF MutateRaises, AtRead
<1>7. CASE SwapCompare(t)
  BY <1>7 DEF SwapCompare, CanLock
<1>8. CASE SwapLost(t)
  <2>1. attempt' \in [Threads -> Nat]
    BY <1>8 DEF SwapLost, Attempts
  <2>2. /\ pc' \in [Threads -> Pcs]
        /\ outcome' \in [Threads -> {"none", "absent", "written", "conflict", "raised"}]
    BY <1>8 DEF SwapLost, Attempts
  <2> QED
    BY <1>8, <2>1, <2>2 DEF SwapLost, Attempts
<1>9. CASE SwapStore(t)
  <2>1. owed' \in [Threads -> SUBSET (Subs \X Keys)]
    BY <1>9 DEF SwapStore, Announces, Active, ChangedKeys
  <2>2. swapped' \in [Threads -> [before : Maps, after : Maps]]
    BY <1>9 DEF SwapStore, Announces
  <2>3. /\ pc' \in [Threads -> Pcs]
        /\ outcome' \in [Threads -> {"none", "absent", "written", "conflict", "raised"}]
    BY <1>9 DEF SwapStore, Announces
  <2>4. todo' \in [Threads -> SUBSET Keys] /\ stale' \subseteq Threads
    BY <1>9 DEF SwapStore, Announces
  <2> QED
    BY <1>9, <2>1, <2>2, <2>3, <2>4 DEF SwapStore, Announces
<1>10. CASE NotifyTargeted(t)
  BY <1>10 DEF NotifyTargeted, Active, NoKey
<1>11. CASE NotifyGeneral(t)
  BY <1>11 DEF NotifyGeneral, Active
<1>12. CASE NotifyEnd(t)
  BY <1>12 DEF NotifyEnd, NoKey
<1>13. CASE Return(t)
  BY <1>13 DEF Return, NoSwap, EmptyMap, Maps, Contents
<1> QED
  BY <1>1, <1>2, <1>3, <1>4, <1>5, <1>6, <1>7, <1>8, <1>9, <1>10, <1>11, <1>12, <1>13 DEF Step

LEMMA NextTypes == TypeOK /\ [Next]_vars => TypeOK'
<1> SUFFICES ASSUME TypeOK, [Next]_vars PROVE TypeOK'
  OBVIOUS
<1> USE DEF TypeOK, Pcs, storeVars, subsVars, mutateVars, notifyVars, auxVars
<1>1. ASSUME NEW t \in Threads, Step(t) PROVE TypeOK'
  BY <1>1, StepTypes
<1>2. ASSUME NEW t \in Threads, NEW s \in Subs, Deliver(t, s) PROVE TypeOK'
  <2>1. targets' \in [Threads -> SUBSET Subs] /\ handle' \in [Subs -> {"new", "active", "cancelled"}]
    BY <1>2 DEF Deliver, Unsubscribed
  <2>2. owed' \in [Threads -> SUBSET (Subs \X Keys)]
    BY <1>2 DEF Deliver, Forgiven
  <2> QED
    BY <1>2, <2>1, <2>2 DEF Deliver
<1>3. ASSUME NEW t \in Threads, Invoke(t) PROVE TypeOK'
  <2>1. PICK c \in CallsOf[t] : Begin(t, c)
    BY <1>3 DEF Invoke
  <2>2. c \in WriteCalls /\ c.keys \subseteq Keys
    BY CallsAreWriteCalls, CallType
  <2> QED
    BY <2>1, <2>2 DEF Begin
<1>4. ASSUME NEW s \in Subs, Subscribe(s) PROVE TypeOK'
  BY <1>4 DEF Subscribe
<1>5. ASSUME NEW s \in Subs, Cancel(s) PROVE TypeOK'
  BY <1>5 DEF Cancel, Unsubscribed, Forgiven
<1>6. CASE UNCHANGED vars
  BY <1>6 DEF vars
<1> QED
  BY <1>1, <1>2, <1>3, <1>4, <1>5, <1>6 DEF Next, ClientStep

(* The state stays well typed, for every instance.                         *)
THEOREM Typing == Spec => []TypeOK
BY InitialTypes, NextTypes, PTL DEF Spec

-----------------------------------------------------------------------------
(* Control                                                                 *)

(* A lock is held exactly in the body of its `with`.                       *)
Locks ==
    \A t \in Threads :
        /\ pc[t] = "store" <=> swapLock = t
        /\ pc[t] = "copy" <=> subsLock = t

(* A thread outside a call has none; a call is decided by its swap (or by  *)
(* the lack of one) and not before; only a delete looks before it writes.  *)
Control ==
    \A t \in Threads :
        /\ pc[t] = "idle" => call[t] = NoCall
        /\ pc[t] # "idle" => call[t] \in WriteCalls
        /\ pc[t] = "check" => call[t].kind \in DeleteKinds
        /\ outcome[t] = "none" <=> pc[t] \in {"idle", "check", "read", "swap", "store"}

LEMMA InitialControl == Init => Locks /\ Control
BY FreeAssumption DEF Init, Locks, Control

LEMMA NextLocks == TypeOK /\ Locks /\ [Next]_vars => Locks'
<1> SUFFICES ASSUME TypeOK, Locks, [Next]_vars PROVE Locks'
  OBVIOUS
<1> USE FreeAssumption DEF TypeOK, Locks, storeVars, subsVars, mutateVars, notifyVars, auxVars
<1>1. ASSUME NEW t \in Threads, CheckAbsent(t) PROVE Locks'
  BY <1>1 DEF CheckAbsent, Absent
<1>2. ASSUME NEW t \in Threads, CheckPresent(t) PROVE Locks'
  BY <1>2 DEF CheckPresent
<1>3. ASSUME NEW t \in Threads, Peek(t) PROVE Locks'
  BY <1>3 DEF Peek
<1>4. ASSUME NEW t \in Threads, MutateNoOp(t) PROVE Locks'
  BY <1>4 DEF MutateNoOp, Announces, AtRead
<1>5. ASSUME NEW t \in Threads, MutateRead(t) PROVE Locks'
  BY <1>5 DEF MutateRead, AtRead
<1>6. ASSUME NEW t \in Threads, MutateRaises(t) PROVE Locks'
  BY <1>6 DEF MutateRaises, AtRead
<1>7. ASSUME NEW t \in Threads, SwapCompare(t) PROVE Locks'
  BY <1>7 DEF SwapCompare, CanLock
<1>8. ASSUME NEW t \in Threads, SwapLost(t) PROVE Locks'
  BY <1>8 DEF SwapLost, Attempts
<1>9. ASSUME NEW t \in Threads, SwapStore(t) PROVE Locks'
  BY <1>9 DEF SwapStore, Announces
<1>10. ASSUME NEW t \in Threads, NotifyTargeted(t) PROVE Locks'
  BY <1>10 DEF NotifyTargeted
<1>11. ASSUME NEW t \in Threads, NotifyGeneral(t) PROVE Locks'
  BY <1>11 DEF NotifyGeneral
<1>12. ASSUME NEW t \in Threads, NotifyEnd(t) PROVE Locks'
  BY <1>12 DEF NotifyEnd
<1>13. ASSUME NEW t \in Threads, Return(t) PROVE Locks'
  BY <1>13 DEF Return
<1>14. ASSUME NEW t \in Threads, NEW s \in Subs, Deliver(t, s) PROVE Locks'
  BY <1>14 DEF Deliver, Unsubscribed
<1>15. ASSUME NEW t \in Threads, NEW c \in CallsOf[t], Begin(t, c) PROVE Locks'
  BY <1>15 DEF Begin
<1>16. ASSUME NEW s \in Subs, Subscribe(s) PROVE Locks'
  BY <1>16 DEF Subscribe
<1>17. ASSUME NEW s \in Subs, Cancel(s) PROVE Locks'
  BY <1>17 DEF Cancel, Unsubscribed
<1>18. CASE UNCHANGED vars
  BY <1>18 DEF vars
<1> QED
  BY <1>1, <1>2, <1>3, <1>4, <1>5, <1>6, <1>7, <1>8, <1>9, <1>10, <1>11, <1>12, <1>13, <1>14, <1>15, <1>16, <1>17, <1>18
     DEF Next, Step, Invoke, ClientStep

LEMMA NextControl == TypeOK /\ Control /\ [Next]_vars => Control'
<1> SUFFICES ASSUME TypeOK, Control, [Next]_vars PROVE Control'
  OBVIOUS
<1> USE DEF TypeOK, Control, storeVars, subsVars, mutateVars, notifyVars, auxVars
<1>1. ASSUME NEW t \in Threads, CheckAbsent(t) PROVE Control'
  BY <1>1 DEF CheckAbsent, Absent
<1>2. ASSUME NEW t \in Threads, CheckPresent(t) PROVE Control'
  BY <1>2 DEF CheckPresent
<1>3. ASSUME NEW t \in Threads, Peek(t) PROVE Control'
  BY <1>3 DEF Peek
<1>4. ASSUME NEW t \in Threads, MutateNoOp(t) PROVE Control'
  BY <1>4 DEF MutateNoOp, Announces, AtRead
<1>5. ASSUME NEW t \in Threads, MutateRead(t) PROVE Control'
  BY <1>5 DEF MutateRead, AtRead
<1>6. ASSUME NEW t \in Threads, MutateRaises(t) PROVE Control'
  BY <1>6 DEF MutateRaises, AtRead
<1>7. ASSUME NEW t \in Threads, SwapCompare(t) PROVE Control'
  BY <1>7 DEF SwapCompare, CanLock
<1>8. ASSUME NEW t \in Threads, SwapLost(t) PROVE Control'
  BY <1>8 DEF SwapLost, Attempts
<1>9. ASSUME NEW t \in Threads, SwapStore(t) PROVE Control'
  BY <1>9 DEF SwapStore, Announces
<1>10. ASSUME NEW t \in Threads, NotifyTargeted(t) PROVE Control'
  BY <1>10 DEF NotifyTargeted
<1>11. ASSUME NEW t \in Threads, NotifyGeneral(t) PROVE Control'
  BY <1>11 DEF NotifyGeneral
<1>12. ASSUME NEW t \in Threads, NotifyEnd(t) PROVE Control'
  BY <1>12 DEF NotifyEnd
<1>13. ASSUME NEW t \in Threads, Return(t) PROVE Control'
  BY <1>13 DEF Return
<1>14. ASSUME NEW t \in Threads, NEW s \in Subs, Deliver(t, s) PROVE Control'
  BY <1>14 DEF Deliver, Unsubscribed
<1>15. ASSUME NEW t \in Threads, NEW c \in CallsOf[t], Begin(t, c) PROVE Control'
  BY <1>15, CallsAreWriteCalls DEF Begin
<1>16. ASSUME NEW s \in Subs, Subscribe(s) PROVE Control'
  BY <1>16 DEF Subscribe
<1>17. ASSUME NEW s \in Subs, Cancel(s) PROVE Control'
  BY <1>17 DEF Cancel, Unsubscribed
<1>18. CASE UNCHANGED vars
  BY <1>18 DEF vars
<1> QED
  BY <1>1, <1>2, <1>3, <1>4, <1>5, <1>6, <1>7, <1>8, <1>9, <1>10, <1>11, <1>12, <1>13, <1>14, <1>15, <1>16, <1>17, <1>18
     DEF Next, Step, Invoke, ClientStep

THEOREM ControlInvariant == Spec => [](TypeOK /\ Locks /\ Control)
<1>1. TypeOK /\ Locks /\ Control /\ [Next]_vars => TypeOK' /\ Locks' /\ Control'
  BY NextTypes, NextLocks, NextControl
<1> QED
  BY InitialTypes, InitialControl, <1>1, PTL DEF Spec

-----------------------------------------------------------------------------
(* The compare-and-swap                                                    *)

LEMMA NextSnapshot == TypeOK /\ SnapshotCurrent /\ [Next]_vars => SnapshotCurrent'
<1> SUFFICES ASSUME TypeOK, SnapshotCurrent, [Next]_vars PROVE SnapshotCurrent'
  OBVIOUS
<1> USE FreeAssumption DEF TypeOK, SnapshotCurrent, storeVars, subsVars, mutateVars, notifyVars, auxVars
<1>1. ASSUME NEW t \in Threads, CheckAbsent(t) PROVE SnapshotCurrent'
  BY <1>1 DEF CheckAbsent, Absent
<1>2. ASSUME NEW t \in Threads, CheckPresent(t) PROVE SnapshotCurrent'
  BY <1>2 DEF CheckPresent
<1>3. ASSUME NEW t \in Threads, Peek(t) PROVE SnapshotCurrent'
  BY <1>3 DEF Peek
<1>4. ASSUME NEW t \in Threads, MutateNoOp(t) PROVE SnapshotCurrent'
  BY <1>4 DEF MutateNoOp, Announces, AtRead
<1>5. ASSUME NEW t \in Threads, MutateRead(t) PROVE SnapshotCurrent'
  BY <1>5 DEF MutateRead, AtRead
<1>6. ASSUME NEW t \in Threads, MutateRaises(t) PROVE SnapshotCurrent'
  BY <1>6 DEF MutateRaises, AtRead
<1>7. ASSUME NEW t \in Threads, SwapCompare(t) PROVE SnapshotCurrent'
  BY <1>7 DEF SwapCompare, CanLock
<1>8. ASSUME NEW t \in Threads, SwapLost(t) PROVE SnapshotCurrent'
  BY <1>8 DEF SwapLost, Attempts
<1>9. ASSUME NEW t \in Threads, SwapStore(t) PROVE SnapshotCurrent'
  BY <1>9 DEF SwapStore, Announces
<1>10. ASSUME NEW t \in Threads, NotifyTargeted(t) PROVE SnapshotCurrent'
  BY <1>10 DEF NotifyTargeted
<1>11. ASSUME NEW t \in Threads, NotifyGeneral(t) PROVE SnapshotCurrent'
  BY <1>11 DEF NotifyGeneral
<1>12. ASSUME NEW t \in Threads, NotifyEnd(t) PROVE SnapshotCurrent'
  BY <1>12 DEF NotifyEnd
<1>13. ASSUME NEW t \in Threads, Return(t) PROVE SnapshotCurrent'
  BY <1>13 DEF Return
<1>14. ASSUME NEW t \in Threads, NEW s \in Subs, Deliver(t, s) PROVE SnapshotCurrent'
  BY <1>14 DEF Deliver, Unsubscribed
<1>15. ASSUME NEW t \in Threads, NEW c \in CallsOf[t], Begin(t, c) PROVE SnapshotCurrent'
  BY <1>15 DEF Begin
<1>16. ASSUME NEW s \in Subs, Subscribe(s) PROVE SnapshotCurrent'
  BY <1>16 DEF Subscribe
<1>17. ASSUME NEW s \in Subs, Cancel(s) PROVE SnapshotCurrent'
  BY <1>17 DEF Cancel, Unsubscribed
<1>18. CASE UNCHANGED vars
  BY <1>18 DEF vars
<1> QED
  BY <1>1, <1>2, <1>3, <1>4, <1>5, <1>6, <1>7, <1>8, <1>9, <1>10, <1>11, <1>12, <1>13, <1>14, <1>15, <1>16, <1>17, <1>18
     DEF Next, Step, Invoke, ClientStep

(* A thread whose snapshot passes the identity test holds the current map, *)
(* and goes on holding it until it assigns _ref: the swap never overwrites *)
(* another thread's update.                                                *)
THEOREM SnapshotsAreCurrent == Spec => []SnapshotCurrent
<1>1. Init => SnapshotCurrent
  BY DEF Init, SnapshotCurrent
<1> QED
  BY <1>1, NextSnapshot, Typing, PTL DEF Spec

-----------------------------------------------------------------------------
(* Announcements                                                           *)

(* Whoever is owed an announcement is subscribed to it; unless the call is *)
(* a bare mutate(), the key is one still to be announced, and the copy of  *)
(* the subscriber lists made for it has not left the subscriber out.       *)
Owing ==
    \A t \in Threads :
        /\ outcome[t] # "written" => owed[t] = {}
        /\ pc[t] \in {"copy", "deliver"} => key[t] \in todo[t]
        /\ \A p \in owed[t] : handle[p[1]] = "active" /\ Listens(p[1], p[2])
        /\ call[t].kind # "mutate" => \A p \in owed[t] :
              /\ p[2] \in todo[t]
              /\ pc[t] = "copy" /\ p[2] = key[t] /\ SubKey[p[1]] # AnyKey => p[1] \in targets[t]
              /\ pc[t] = "deliver" /\ p[2] = key[t] => p[1] \in targets[t]

LEMMA NextOwing == TypeOK /\ Control /\ Owing /\ [Next]_vars => Owing'
<1> SUFFICES ASSUME TypeOK, Control, Owing, [Next]_vars PROVE Owing'
  OBVIOUS
<1> USE DEF TypeOK, Control, Owing, Listens, storeVars, subsVars, mutateVars, notifyVars, auxVars
<1>1. ASSUME NEW t \in Threads, CheckAbsent(t) PROVE Owing'
  BY <1>1 DEF CheckAbsent, Absent
<1>2. ASSUME NEW t \in Threads, CheckPresent(t) PROVE Owing'
  BY <1>2 DEF CheckPresent
<1>3. ASSUME NEW t \in Threads, Peek(t) PROVE Owing'
  BY <1>3 DEF Peek
<1>4. ASSUME NEW t \in Threads, MutateNoOp(t) PROVE Owing'
  BY <1>4 DEF MutateNoOp, Announces, AtRead
<1>5. ASSUME NEW t \in Threads, MutateRead(t) PROVE Owing'
  BY <1>5 DEF MutateRead, AtRead
<1>6. ASSUME NEW t \in Threads, MutateRaises(t) PROVE Owing'
  BY <1>6 DEF MutateRaises, AtRead
<1>7. ASSUME NEW t \in Threads, SwapCompare(t) PROVE Owing'
  BY <1>7 DEF SwapCompare, CanLock
<1>8. ASSUME NEW t \in Threads, SwapLost(t) PROVE Owing'
  BY <1>8 DEF SwapLost, Attempts
<1>9. ASSUME NEW t \in Threads, SwapStore(t) PROVE Owing'
  <2>1. owed'[t] = {p \in Active \X ChangedKeys(t) : Listens(p[1], p[2])}
    BY <1>9 DEF SwapStore, Announces
  <2>2. ASSUME call[t].kind # "mutate", NEW k \in ChangedKeys(t) PROVE k \in call[t].keys
    <3>1. call[t] \in WriteCalls /\ old[t] \in Maps /\ k \in Keys
      BY <1>9 DEF SwapStore, Announces, ChangedKeys
    <3>2. call[t].txn[old[t]][k] # old[t][k]
      BY DEF ChangedKeys, New
    <3> QED
      BY <2>2, <3>1, <3>2, CallConfined
  <2>3. \A u \in Threads : u # t => owed'[u] = owed[u]
    BY <1>9 DEF SwapStore, Announces
  <2>4. \A p \in owed'[t] : handle[p[1]] = "active" /\ Listens(p[1], p[2]) /\ p[2] \in ChangedKeys(t)
    BY <2>1 DEF Active
  <2>5. todo'[t] = call[t].keys /\ outcome'[t] = "written" /\ pc'[t] = "announce"
    BY <1>9 DEF SwapStore, Announces
  <2>6. ASSUME NEW u \in Threads, u # t
        PROVE  todo'[u] = todo[u] /\ outcome'[u] = outcome[u] /\ pc'[u] = pc[u]
    BY <1>9, <2>6 DEF SwapStore, Announces
  <2>7. UNCHANGED <<handle, key, targets, call>>
    BY <1>9 DEF SwapStore, Announces
  <2> QED
    BY <2>2, <2>3, <2>4, <2>5, <2>6, <2>7
<1>10. ASSUME NEW t \in Threads, NotifyTargeted(t) PROVE Owing'
  BY <1>10 DEF NotifyTargeted, Active
<1>11. ASSUME NEW t \in Threads, NotifyGeneral(t) PROVE Owing'
  BY <1>11 DEF NotifyGeneral, Active
<1>12. ASSUME NEW t \in Threads, NotifyEnd(t) PROVE Owing'
  BY <1>12 DEF NotifyEnd
<1>13. ASSUME NEW t \in Threads, Return(t) PROVE Owing'
  BY <1>13 DEF Return
<1>14. ASSUME NEW t \in Threads, NEW s \in Subs, Deliver(t, s) PROVE Owing'
  BY <1>14 DEF Deliver, Unsubscribed, Forgiven
<1>15. ASSUME NEW t \in Threads, NEW c \in CallsOf[t], Begin(t, c) PROVE Owing'
  BY <1>15 DEF Begin
<1>16. ASSUME NEW s \in Subs, Subscribe(s) PROVE Owing'
  BY <1>16 DEF Subscribe
<1>17. ASSUME NEW s \in Subs, Cancel(s) PROVE Owing'
  BY <1>17 DEF Cancel, Unsubscribed, Forgiven
<1>18. CASE UNCHANGED vars
  BY <1>18 DEF vars
<1> QED
  BY <1>1, <1>2, <1>3, <1>4, <1>5, <1>6, <1>7, <1>8, <1>9, <1>10, <1>11, <1>12, <1>13, <1>14, <1>15, <1>16, <1>17, <1>18
     DEF Next, Step, Invoke, ClientStep

(* Guarantee 3 of the class: whoever listened when a set, mset, atomic or  *)
(* delete changed a key, and has not cancelled, has been called when the   *)
(* call returns.                                                           *)
THEOREM EveryCallIsAnnounced == Spec => []EveryCallAnnounced
<1>1. Init => Owing
  BY DEF Init, Owing
<1>2. Owing => EveryCallAnnounced
  BY DEF Owing, EveryCallAnnounced, Returning
<1> QED
  BY <1>1, <1>2, NextOwing, ControlInvariant, PTL DEF Spec

(* What a thread remembers of its last attempt is what the swap replaced   *)
(* and stored.                                                             *)
Matching ==
    \A t \in Threads :
        /\ outcome[t] = "written" =>
              /\ swapped[t].after = New(t)
              /\ call[t].kind = "atomic" =>
                    \A k \in call[t].keys : seen[t][k] = swapped[t].before[k]
        /\ pc[t] \in {"swap", "store"} /\ call[t].kind = "atomic" =>
              \A k \in call[t].keys : seen[t][k] = old[t][k]

LEMMA NextMatching ==
    TypeOK /\ Control /\ SnapshotCurrent /\ Matching /\ [Next]_vars => Matching'
<1> SUFFICES ASSUME TypeOK, Control, SnapshotCurrent, Matching, [Next]_vars PROVE Matching'
  OBVIOUS
<1>0. \A t \in Threads : call[t].keys \subseteq Keys
  BY CallType DEF TypeOK
<1> USE <1>0 DEF TypeOK, Control, SnapshotCurrent, Matching, New, storeVars, subsVars, mutateVars, notifyVars, auxVars
<1>1. ASSUME NEW t \in Threads, CheckAbsent(t) PROVE Matching'
  BY <1>1 DEF CheckAbsent, Absent
<1>2. ASSUME NEW t \in Threads, CheckPresent(t) PROVE Matching'
  BY <1>2 DEF CheckPresent
<1>3. ASSUME NEW t \in Threads, Peek(t) PROVE Matching'
  BY <1>3 DEF Peek
<1>4. ASSUME NEW t \in Threads, MutateNoOp(t) PROVE Matching'
  BY <1>4 DEF MutateNoOp, Announces, AtRead, Box
<1>5. ASSUME NEW t \in Threads, MutateRead(t) PROVE Matching'
  BY <1>5 DEF MutateRead, AtRead, Box
<1>6. ASSUME NEW t \in Threads, MutateRaises(t) PROVE Matching'
  BY <1>6 DEF MutateRaises, AtRead
<1>7. ASSUME NEW t \in Threads, SwapCompare(t) PROVE Matching'
  BY <1>7 DEF SwapCompare, CanLock
<1>8. ASSUME NEW t \in Threads, SwapLost(t) PROVE Matching'
  BY <1>8 DEF SwapLost, Attempts
<1>9. ASSUME NEW t \in Threads, SwapStore(t) PROVE Matching'
  BY <1>9 DEF SwapStore, Announces
<1>10. ASSUME NEW t \in Threads, NotifyTargeted(t) PROVE Matching'
  BY <1>10 DEF NotifyTargeted
<1>11. ASSUME NEW t \in Threads, NotifyGeneral(t) PROVE Matching'
  BY <1>11 DEF NotifyGeneral
<1>12. ASSUME NEW t \in Threads, NotifyEnd(t) PROVE Matching'
  BY <1>12 DEF NotifyEnd
<1>13. ASSUME NEW t \in Threads, Return(t) PROVE Matching'
  BY <1>13 DEF Return
<1>14. ASSUME NEW t \in Threads, NEW s \in Subs, Deliver(t, s) PROVE Matching'
  BY <1>14 DEF Deliver, Unsubscribed
<1>15. ASSUME NEW t \in Threads, NEW c \in CallsOf[t], Begin(t, c) PROVE Matching'
  BY <1>15 DEF Begin
<1>16. ASSUME NEW s \in Subs, Subscribe(s) PROVE Matching'
  BY <1>16 DEF Subscribe
<1>17. ASSUME NEW s \in Subs, Cancel(s) PROVE Matching'
  BY <1>17 DEF Cancel, Unsubscribed
<1>18. CASE UNCHANGED vars
  BY <1>18 DEF vars
<1> QED
  BY <1>1, <1>2, <1>3, <1>4, <1>5, <1>6, <1>7, <1>8, <1>9, <1>10, <1>11, <1>12, <1>13, <1>14, <1>15, <1>16, <1>17, <1>18
     DEF Next, Step, Invoke, ClientStep

(* An announcement tells what the winning swap stored and, for atomic(),   *)
(* what it replaced.                                                       *)
THEOREM AnnouncementsMatch == Spec => []AnnouncementMatchesSwap
<1>1. Init => Matching
  BY DEF Init, Matching
<1>2. Matching => AnnouncementMatchesSwap
  BY DEF Matching, AnnouncementMatchesSwap, NewValue, OldValue
<1> QED
  BY <1>1, <1>2, NextMatching, ControlInvariant, SnapshotsAreCurrent, PTL DEF Spec

(* A callback runs in a thread that holds no lock.                         *)
THEOREM CallbacksHoldNoLock == Spec => []NoLockInCallback
<1>1. Locks => NoLockInCallback
  BY DEF Locks, NoLockInCallback
<1> QED
  BY <1>1, ControlInvariant, PTL
(* After cancel() no announcement picks the callback up any more.          *)
THEOREM CancelledStaysSilent == Spec => CancelIsFinal
<1>1. ASSUME TypeOK, [Next]_vars, NEW t \in Threads, NEW s \in Subs,
             handle[s] = "cancelled", s \notin targets[t]
      PROVE  s \notin targets'[t]
  <2> USE <1>1 DEF TypeOK, storeVars, subsVars, mutateVars, notifyVars, auxVars
  <2>1. ASSUME NEW u \in Threads, NotifyTargeted(u) \/ NotifyGeneral(u) PROVE s \notin targets'[t]
    BY <2>1 DEF NotifyTargeted, NotifyGeneral, Active
  <2>2. ASSUME NEW u \in Threads, NEW r \in Subs, Deliver(u, r) PROVE s \notin targets'[t]
    BY <2>2 DEF Deliver
  <2>3. ASSUME NEW u \in Threads,
               \/ CheckAbsent(u) \/ CheckPresent(u) \/ Peek(u) \/ MutateNoOp(u) \/ MutateRead(u)
               \/ MutateRaises(u) \/ SwapCompare(u) \/ SwapLost(u) \/ SwapStore(u)
               \/ NotifyEnd(u) \/ Return(u) \/ Invoke(u)
        PROVE  UNCHANGED targets
    BY <2>3 DEF CheckAbsent, CheckPresent, Peek, MutateNoOp, MutateRead, MutateRaises,
                SwapCompare, SwapLost, SwapStore, NotifyEnd, Return, Invoke, Begin
  <2>4. ASSUME NEW r \in Subs, Subscribe(r) \/ Cancel(r) PROVE UNCHANGED targets
    BY <2>4 DEF Subscribe, Cancel
  <2>5. CASE UNCHANGED vars
    BY <2>5 DEF vars
  <2> QED
    BY <2>1, <2>2, <2>3, <2>4, <2>5 DEF Next, Step, ClientStep
<1>2. TypeOK /\ [Next]_vars =>
        \A t \in Threads, s \in Subs :
            handle[s] = "cancelled" /\ s \notin targets[t] => s \notin targets'[t]
  BY <1>1
<1> QED
  BY <1>2, Typing, PTL DEF Spec, CancelIsFinal

-----------------------------------------------------------------------------
(* Refinement                                                              *)

(* A thread in a call has a write call, and not the placeholder for none.  *)
LEMMA NoCallIsNotWrite == \A c \in WriteCalls : c # NoCall
<1>1. \A c \in WriteCalls : c.kind # "none"
  BY DEF WriteCalls, SetCall, MsetCall, AtomicCall, DeleteCall, DeleteKinds
<1> QED
  BY <1>1 DEF NoCall

(* The constants of the abstract store are those of this one.              *)
LEMMA SameConstants == Abstract!NoCall = NoCall /\ Abstract!EmptyMap = EmptyMap
BY DEF Abstract!NoCall, NoCall, Abstract!Maps, Maps, Abstract!Contents, Contents,
       Abstract!EmptyMap, EmptyMap

(* A step that decides nothing is invisible.                               *)
LEMMA Invisible ==
    ASSUME UNCHANGED <<ref, call, outcome>>
    PROVE  UNCHANGED Abstract!vars
BY DEF Abstract!vars, Result

(* The outcome of one thread is its abstract result.                       *)
LEMMA Undecided ==
    ASSUME NEW t \in Threads, outcome[t] = "none"
    PROVE  Result[t] = "none"
BY DEF Result, ResultOf

LEMMA Applied ==
    ASSUME TypeOK, NEW t \in Threads, NEW o \in {"absent", "written"},
           outcome' = [outcome EXCEPT ![t] = o]
    PROVE  Result' = [Result EXCEPT ![t] = "applied"]
BY DEF TypeOK, Result, ResultOf

LEMMA Failed ==
    ASSUME TypeOK, NEW t \in Threads, NEW o \in {"conflict", "raised"},
           outcome' = [outcome EXCEPT ![t] = o]
    PROVE  Result' = [Result EXCEPT ![t] = "failed"]
BY DEF TypeOK, Result, ResultOf

LEMMA Cleared ==
    ASSUME TypeOK, NEW t \in Threads, outcome[t] # "none",
           outcome' = [outcome EXCEPT ![t] = "none"]
    PROVE  Result[t] # "none" /\ Result' = [Result EXCEPT ![t] = "none"]
<1>1. Result[t] # "none"
  BY DEF TypeOK, Result, ResultOf
<1>2. Result' = [Result EXCEPT ![t] = "none"]
  BY DEF TypeOK, Result, ResultOf
<1> QED
  BY <1>1, <1>2

LEMMA NextIsAtomic ==
    TypeOK /\ Control /\ SnapshotCurrent /\ [Next]_vars => [Abstract!Next]_(Abstract!vars)
<1> SUFFICES ASSUME TypeOK, Control, SnapshotCurrent, [Next]_vars
             PROVE  [Abstract!Next]_(Abstract!vars)
  OBVIOUS
<1> USE DEF TypeOK, Control, storeVars, subsVars, mutateVars, notifyVars, auxVars
<1>1. ASSUME NEW t \in Threads, NEW c \in CallsOf[t], Begin(t, c)
      PROVE  Abstract!Invoke(t)
  <2>1. call[t] = NoCall /\ call' = [call EXCEPT ![t] = c]
    BY <1>1 DEF Begin
  <2>2. UNCHANGED <<ref, Result>>
    BY <1>1 DEF Begin, Result
  <2> QED
    BY <2>1, <2>2, SameConstants DEF Abstract!Invoke
<1>2. ASSUME NEW t \in Threads, CheckAbsent(t) PROVE Abstract!Apply(t)
  <2>1. call[t] \in WriteCalls /\ call[t].kind \in DeleteKinds /\ outcome[t] = "none"
    BY <1>2 DEF CheckAbsent, Absent
  <2>2. call[t].txn[ref] = ref
    BY <1>2, <2>1, DeleteAbsent DEF CheckAbsent, Absent
  <2>3. Result[t] = "none" /\ Result' = [Result EXCEPT ![t] = "applied"]
    <3>1. outcome' = [outcome EXCEPT ![t] = "absent"]
      BY <1>2 DEF CheckAbsent, Absent
    <3> QED
      BY <2>1, <3>1, Undecided, Applied
  <2> QED
    BY <1>2, <2>1, <2>2, <2>3, NoCallIsNotWrite, SameConstants DEF CheckAbsent, Abstract!Apply, Abstract!Undecided
<1>3. ASSUME NEW t \in Threads, MutateNoOp(t) PROVE Abstract!Apply(t)
  <2>1. call[t] \in WriteCalls /\ outcome[t] = "none"
    BY <1>3 DEF MutateNoOp, Announces, AtRead
  <2>2. Result[t] = "none" /\ Result' = [Result EXCEPT ![t] = "applied"]
    <3>1. outcome' = [outcome EXCEPT ![t] = "written"]
      BY <1>3 DEF MutateNoOp, Announces
    <3> QED
      BY <2>1, <3>1, Undecided, Applied
  <2> QED
    BY <1>3, <2>1, <2>2, NoCallIsNotWrite, SameConstants DEF MutateNoOp, Announces, Abstract!Apply, Abstract!Undecided
<1>4. ASSUME NEW t \in Threads, SwapStore(t) PROVE Abstract!Apply(t)
  <2>1. call[t] \in WriteCalls /\ outcome[t] = "none"
    BY <1>4 DEF SwapStore, Announces
  <2>2. Result[t] = "none" /\ Result' = [Result EXCEPT ![t] = "applied"]
    <3>1. outcome' = [outcome EXCEPT ![t] = "written"]
      BY <1>4 DEF SwapStore, Announces
    <3> QED
      BY <2>1, <3>1, Undecided, Applied
  <2>3. ref' = call[t].txn[ref]
    BY <1>4 DEF SwapStore, Announces, New, SnapshotCurrent
  <2> QED
    BY <1>4, <2>1, <2>2, <2>3, NoCallIsNotWrite, SameConstants DEF SwapStore, Announces, Abstract!Apply, Abstract!Undecided
<1>5. ASSUME NEW t \in Threads, MutateRaises(t) PROVE Abstract!Fail(t)
  <2>1. call[t] \in WriteCalls /\ outcome[t] = "none"
    BY <1>5 DEF MutateRaises, AtRead
  <2>2. Result[t] = "none" /\ Result' = [Result EXCEPT ![t] = "failed"]
    <3>1. outcome' = [outcome EXCEPT ![t] = "raised"]
      BY <1>5 DEF MutateRaises
    <3> QED
      BY <2>1, <3>1, Undecided, Failed
  <2> QED
    BY <1>5, <2>1, <2>2, NoCallIsNotWrite, SameConstants DEF MutateRaises, Abstract!Fail, Abstract!Undecided
<1>6. ASSUME NEW t \in Threads, SwapLost(t) PROVE [Abstract!Next]_(Abstract!vars)
  <2>1. call[t] \in WriteCalls /\ outcome[t] = "none"
    BY <1>6 DEF SwapLost, Attempts
  <2>2. CASE Attempts(t) < MaxRetries
    BY <1>6, <2>2, Invisible DEF SwapLost, Attempts
  <2>3. CASE ~(Attempts(t) < MaxRetries)
    <3>1. Result[t] = "none" /\ Result' = [Result EXCEPT ![t] = "failed"]
      <4>1. outcome' = [outcome EXCEPT ![t] = "conflict"]
        BY <1>6, <2>3 DEF SwapLost, Attempts
      <4> QED
        BY <2>1, <4>1, Undecided, Failed
    <3>2. Abstract!Fail(t)
      BY <1>6, <2>1, <3>1, NoCallIsNotWrite, SameConstants DEF SwapLost, Attempts, Abstract!Fail, Abstract!Undecided
    <3> QED
      BY <3>2 DEF Abstract!Next
  <2> QED
    BY <2>2, <2>3
<1>7. ASSUME NEW t \in Threads, Return(t) PROVE Abstract!Return(t)
  <2>1. outcome[t] # "none" /\ outcome' = [outcome EXCEPT ![t] = "none"]
    BY <1>7 DEF Return
  <2>2. Result[t] # "none" /\ Result' = [Result EXCEPT ![t] = "none"]
    BY <2>1, Cleared
  <2> QED
    BY <1>7, <2>2, SameConstants DEF Return, Abstract!Return
<1>8. ASSUME NEW t \in Threads, CheckPresent(t) \/ Peek(t) \/ MutateRead(t) \/ SwapCompare(t)
      PROVE  UNCHANGED Abstract!vars
  BY <1>8, Invisible DEF CheckPresent, Peek, MutateRead, SwapCompare
<1>9. ASSUME NEW t \in Threads, NotifyTargeted(t) \/ NotifyGeneral(t) \/ NotifyEnd(t)
      PROVE  UNCHANGED Abstract!vars
  BY <1>9, Invisible DEF NotifyTargeted, NotifyGeneral, NotifyEnd
<1>10. ASSUME NEW t \in Threads, NEW s \in Subs, Deliver(t, s) PROVE UNCHANGED Abstract!vars
  BY <1>10, Invisible DEF Deliver
<1>11. ASSUME NEW s \in Subs, Subscribe(s) \/ Cancel(s) PROVE UNCHANGED Abstract!vars
  BY <1>11, Invisible DEF Subscribe, Cancel
<1>12. CASE UNCHANGED vars
  BY <1>12, Invisible DEF vars
<1> QED
  BY <1>1, <1>2, <1>3, <1>4, <1>5, <1>6, <1>7, <1>8, <1>9, <1>10, <1>11, <1>12
     DEF Next, Step, Invoke, ClientStep, Abstract!Next

(* Guarantee 2 of the class: every call is applied to the whole map in one *)
(* step between its invocation and its return, or fails with no effect.    *)
THEOREM Refinement == Spec => CallsAreAtomic
<1>1. Init => Abstract!Init
  BY SameConstants DEF Init, Abstract!Init, Result, ResultOf
<1> QED
  BY <1>1, NextIsAtomic, ControlInvariant, SnapshotsAreCurrent, PTL
     DEF Spec, CallsAreAtomic, Abstract!Spec
=============================================================================
