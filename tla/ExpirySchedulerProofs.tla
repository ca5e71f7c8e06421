------------------------ MODULE ExpirySchedulerProofs ------------------------
(***************************************************************************)
(* The expiry scheduler for every set of keys and every bound on the clock *)
(* and on the generations.                                                 *)
(***************************************************************************)
EXTENDS ExpiryScheduler, TLAPS

LEMMA InitialState == Init => TypeOK /\ OneDeadline /\ NeverOversleeps
<1> SUFFICES ASSUME Init PROVE TypeOK /\ OneDeadline /\ NeverOversleeps
  OBVIOUS
<1>1. 0 \in Times
  BY SchedulerAssumption DEF Times
<1>2. (spc = "firing") = (firing \in Keys)
  BY SchedulerAssumption DEF Init
<1>3. TypeOK
  BY <1>1, <1>2 DEF Init, TypeOK
<1>4. OneDeadline /\ NeverOversleeps
  BY DEF Init, OneDeadline, NeverOversleeps
<1> QED
  BY <1>3, <1>4

LEMMA NextTypes == TypeOK /\ [Next]_vars => TypeOK'
<1> SUFFICES ASSUME TypeOK, [Next]_vars PROVE TypeOK'
  OBVIOUS
<1> USE SchedulerAssumption DEF TypeOK, Times, Entry, clientVars, threadVars
<1>1. CASE SleepForever
  BY <1>1 DEF SleepForever, Running
<1>2. CASE WakeUp
  BY <1>2 DEF WakeUp
<1>3. CASE Fire
  BY <1>3 DEF Fire
<1>4. CASE Exit
  BY <1>4 DEF Exit
<1>5. ASSUME NEW e \in heap, SleepUntil(e) PROVE TypeOK'
  BY <1>5 DEF SleepUntil, Running, First, Wait
<1>6. ASSUME NEW e \in heap, PopStale(e) PROVE TypeOK'
  BY <1>6 DEF PopStale, Running, First, Wait
<1>7. ASSUME NEW e \in heap, PopCurrent(e) PROVE TypeOK'
  BY <1>7 DEF PopCurrent, Running, First, Wait
<1>8. ASSUME NEW k \in Keys, NEW when \in Times, Schedule(k, when) PROVE TypeOK'
  BY <1>8 DEF Schedule, Notify, NextGen
<1>9. ASSUME NEW k \in Keys, Cancel(k) PROVE TypeOK'
  BY <1>9 DEF Cancel, Notify, NextGen
<1>10. CASE Stop
  BY <1>10 DEF Stop, Notify
<1>11. CASE Tick
  BY <1>11 DEF Tick
<1>12. CASE UNCHANGED vars
  BY <1>12 DEF vars
<1> QED
  BY <1>1, <1>2, <1>3, <1>4, <1>5, <1>6, <1>7, <1>8, <1>9, <1>10, <1>11, <1>12 DEF Next, Run, Clients

(* The state stays well typed.                                             *)
THEOREM Typing == Spec => []TypeOK
BY InitialState, NextTypes, PTL DEF Spec

LEMMA NextOneDeadline == TypeOK /\ OneDeadline /\ [Next]_vars => OneDeadline'
<1> SUFFICES ASSUME TypeOK, OneDeadline, [Next]_vars PROVE OneDeadline'
  OBVIOUS
<1> USE DEF TypeOK, OneDeadline, Entry, Times, clientVars, threadVars
<1>1. CASE SleepForever
  BY <1>1 DEF SleepForever, Running
<1>2. CASE WakeUp
  BY <1>2 DEF WakeUp
<1>3. CASE Fire
  BY <1>3 DEF Fire
<1>4. CASE Exit
  BY <1>4 DEF Exit
<1>5. ASSUME NEW e \in heap, SleepUntil(e) PROVE OneDeadline'
  BY <1>5 DEF SleepUntil, Running, First, Wait
<1>6. ASSUME NEW e \in heap, PopStale(e) PROVE OneDeadline'
  BY <1>6 DEF PopStale, Running, First, Wait
<1>7. ASSUME NEW e \in heap, PopCurrent(e) PROVE OneDeadline'
  BY <1>7 DEF PopCurrent, Running, First, Wait
<1>8. ASSUME NEW k \in Keys, NEW when \in Times, Schedule(k, when) PROVE OneDeadline'
  BY <1>8 DEF Schedule, Notify, NextGen
<1>9. ASSUME NEW k \in Keys, Cancel(k) PROVE OneDeadline'
  BY <1>9 DEF Cancel, Notify, NextGen
<1>10. CASE Stop
  BY <1>10 DEF Stop, Notify
<1>11. CASE Tick
  BY <1>11 DEF Tick
<1>12. CASE UNCHANGED vars
  BY <1>12 DEF vars
<1> QED
  BY <1>1, <1>2, <1>3, <1>4, <1>5, <1>6, <1>7, <1>8, <1>9, <1>10, <1>11, <1>12 DEF Next, Run, Clients

(* A key never has two deadlines that count.                               *)
THEOREM KeysHaveOneDeadline == Spec => []OneDeadline
BY InitialState, NextOneDeadline, Typing, PTL DEF Spec

LEMMA NextSleep == TypeOK /\ NeverOversleeps /\ [Next]_vars => NeverOversleeps'
<1> SUFFICES ASSUME TypeOK, NeverOversleeps, [Next]_vars PROVE NeverOversleeps'
  OBVIOUS
<1> USE SchedulerAssumption DEF TypeOK, NeverOversleeps, Entry, Times, clientVars, threadVars
<1>1. CASE SleepForever
  BY <1>1 DEF SleepForever, Running
<1>2. CASE WakeUp
  BY <1>2 DEF WakeUp
<1>3. CASE Fire
  BY <1>3 DEF Fire
<1>4. CASE Exit
  BY <1>4 DEF Exit
<1>5. ASSUME NEW e \in heap, SleepUntil(e) PROVE NeverOversleeps'
  BY <1>5 DEF SleepUntil, Running, First, Wait
<1>6. ASSUME NEW e \in heap, PopStale(e) PROVE NeverOversleeps'
  BY <1>6 DEF PopStale, Running, First, Wait
<1>7. ASSUME NEW e \in heap, PopCurrent(e) PROVE NeverOversleeps'
  BY <1>7 DEF PopCurrent, Running, First, Wait
<1>8. ASSUME NEW k \in Keys, NEW when \in Times, Schedule(k, when) PROVE NeverOversleeps'
  BY <1>8 DEF Schedule, Notify, NextGen
<1>9. ASSUME NEW k \in Keys, Cancel(k) PROVE NeverOversleeps'
  BY <1>9 DEF Cancel, Notify, NextGen
<1>10. CASE Stop
  BY <1>10 DEF Stop, Notify
<1>11. CASE Tick
  BY <1>11 DEF Tick
<1>12. CASE UNCHANGED vars
  BY <1>12 DEF vars
<1> QED
  BY <1>1, <1>2, <1>3, <1>4, <1>5, <1>6, <1>7, <1>8, <1>9, <1>10, <1>11, <1>12 DEF Next, Run, Clients

(* The thread sleeps past no deadline and no stop().                       *)
THEOREM SchedulerNeverOversleeps == Spec => []NeverOversleeps
BY InitialState, NextSleep, Typing, PTL DEF Spec

-----------------------------------------------------------------------------
(* Refinement                                                              *)

(* The deadline of a key is that of its only entry that counts.            *)
LEMMA DeadlineOfOne == \A e : DeadlineOf({e}) = e.when
<1>1. \A e : (CHOOSE f \in {e} : TRUE) = e
  OBVIOUS
<1> QED
  BY <1>1 DEF DeadlineOf

LEMMA DeadlineOfNone == DeadlineOf({}) = Never
BY DEF DeadlineOf

(* When the entries that count change for one key only, so does the        *)
(* deadline.                                                               *)
LEMMA DeadlineStep ==
    ASSUME NEW k \in Keys, \A j \in Keys \ {k} : Current(j)' = Current(j)
    PROVE  DeadlineMap' = [DeadlineMap EXCEPT ![k] = DeadlineOf(Current(k)')]
BY DEF DeadlineMap, Deadline

LEMMA DeadlineKept ==
    ASSUME \A j \in Keys : Current(j)' = Current(j)
    PROVE  DeadlineMap' = DeadlineMap
BY DEF DeadlineMap, Deadline

LEMMA NextKeepsDeadlines ==
    TypeOK /\ OneDeadline /\ [Next]_vars => [Abstract!Next]_(Abstract!vars)
<1> SUFFICES ASSUME TypeOK, OneDeadline, [Next]_vars
             PROVE  [Abstract!Next]_(Abstract!vars)
  OBVIOUS
<1> USE SchedulerAssumption DEF TypeOK, clientVars, threadVars
<1>0. ASSUME UNCHANGED <<heap, generation>> PROVE DeadlineMap' = DeadlineMap
  BY <1>0, DeadlineKept DEF Current, IsCurrent
<1>1. ASSUME NEW k \in Keys, NEW when \in Times, Schedule(k, when) PROVE Abstract!Set(k, when)
  <2> DEFINE new == [when |-> when, key |-> k, gen |-> generation[k] + 1]
  <2>1. heap' = heap \cup {new} /\ generation' = [generation EXCEPT ![k] = generation[k] + 1]
    BY <1>1 DEF Schedule, NextGen
  <2>2. \A e \in heap : e.gen <= generation[e.key] /\ e.gen \in Nat /\ e.key \in Keys
    BY DEF OneDeadline, Entry
  <2>3. Current(k)' = {new}
    BY <2>1, <2>2 DEF Current, IsCurrent
  <2>4. \A j \in Keys \ {k} : Current(j)' = Current(j)
    BY <2>1, <2>2 DEF Current, IsCurrent
  <2>5. DeadlineMap' = [DeadlineMap EXCEPT ![k] = when]
    <3>0. new.when = when
      OBVIOUS
    <3> HIDE DEF new
    <3>1. DeadlineOf({new}) = when
      BY <3>0, DeadlineOfOne, Zenon
    <3>2. DeadlineMap' = [DeadlineMap EXCEPT ![k] = DeadlineOf(Current(k)')]
      BY <2>4, DeadlineStep
    <3> QED
      BY <2>3, <3>1, <3>2
  <2> QED
    BY <1>1, <2>5 DEF Schedule, Notify, Abstract!Set, Expiring
<1>2. ASSUME NEW k \in Keys, Cancel(k) PROVE Abstract!Clear(k)
  <2>1. heap' = heap /\ generation' = [generation EXCEPT ![k] = generation[k] + 1]
    BY <1>2 DEF Cancel, NextGen
  <2>2. \A e \in heap : e.gen <= generation[e.key] /\ e.gen \in Nat /\ e.key \in Keys
    BY DEF OneDeadline, Entry
  <2>3. Current(k)' = {}
    BY <2>1, <2>2 DEF Current, IsCurrent
  <2>4. \A j \in Keys \ {k} : Current(j)' = Current(j)
    BY <2>1, <2>2 DEF Current, IsCurrent
  <2>5. DeadlineMap' = [DeadlineMap EXCEPT ![k] = Never]
    BY <2>3, <2>4, DeadlineStep, DeadlineOfNone
  <2> QED
    BY <1>2, <2>5 DEF Cancel, Notify, Abstract!Clear, Abstract!Set, Expiring
<1>3. ASSUME NEW e \in heap, PopCurrent(e) PROVE Abstract!Expire(e.key)
  <2>1. /\ e.key \in Keys /\ e.when \in Times /\ e.when <= now /\ e.gen = generation[e.key]
        /\ heap' = heap \ {e} /\ generation' = generation
    BY <1>3 DEF PopCurrent, Wait, Fires, IsCurrent, Entry, Times
  <2>2. Current(e.key) = {e}
    BY <2>1 DEF Current, IsCurrent, OneDeadline
  <2>3. Current(e.key)' = {}
    BY <2>1, <2>2 DEF Current, IsCurrent
  <2>4. \A j \in Keys \ {e.key} : Current(j)' = Current(j)
    BY <2>1 DEF Current, IsCurrent
  <2>5. DeadlineMap' = [DeadlineMap EXCEPT ![e.key] = Never]
    BY <2>1, <2>3, <2>4, DeadlineStep, DeadlineOfNone
  <2>6. DeadlineMap[e.key] = e.when
    BY <2>1, <2>2, DeadlineOfOne DEF DeadlineMap, Deadline
  <2>7. Expiring' = Expiring \cup {e.key}
    BY <1>3, <2>1 DEF PopCurrent, Running, Expiring
  <2> QED
    BY <1>3, <2>1, <2>5, <2>6, <2>7 DEF PopCurrent, Abstract!Expire, Times
<1>4. ASSUME NEW e \in heap, PopStale(e) PROVE UNCHANGED Abstract!vars
  <2>1. DeadlineMap' = DeadlineMap
    <3>1. e.gen # generation[e.key] /\ heap' = heap \ {e} /\ generation' = generation
      BY <1>4 DEF PopStale, Fires, IsCurrent
    <3> QED
      BY <3>1, DeadlineKept DEF Current, IsCurrent
  <2> QED
    BY <1>4, <2>1 DEF PopStale, Abstract!vars, Expiring
<1>5. CASE Fire
  <2>1. firing \in Keys /\ Expiring' = Expiring \ {firing}
    BY <1>5 DEF Fire, Expiring
  <2>2. Abstract!Expired(firing)
    BY <1>0, <1>5, <2>1 DEF Fire, Abstract!Expired
  <2> QED
    BY <2>1, <2>2 DEF Abstract!Next
<1>6. CASE SleepForever \/ WakeUp \/ Exit \/ Stop \/ \E e \in heap : SleepUntil(e)
  BY <1>0, <1>6
     DEF SleepForever, WakeUp, Exit, Stop, SleepUntil, Notify, Abstract!vars, Expiring
<1>7. CASE Tick
  BY <1>0, <1>7 DEF Tick, Abstract!Tick, Abstract!Next, Expiring
<1>8. CASE UNCHANGED vars
  BY <1>0, <1>8 DEF vars, Abstract!vars, Expiring
<1>9. ASSUME NEW e \in heap, PopCurrent(e) PROVE Abstract!Next
  BY <1>3, <1>9 DEF Abstract!Next, Entry
<1> QED
  BY <1>1, <1>2, <1>4, <1>5, <1>6, <1>7, <1>8, <1>9 DEF Next, Run, Clients, Abstract!Next

(* The heap with its generations is one deadline for each key, replaced by *)
(* schedule, cleared by cancel, and acted on once and never early.         *)
THEOREM SchedulerKeepsDeadlines == Spec => KeepsDeadlines
<1>1. Init => Abstract!Init
  BY SchedulerAssumption, DeadlineOfNone
     DEF Init, Abstract!Init, DeadlineMap, Deadline, Current, Expiring
<1> QED
  BY <1>1, NextKeepsDeadlines, Typing, KeysHaveOneDeadline, PTL
     DEF Spec, KeepsDeadlines, Abstract!Spec
=============================================================================
