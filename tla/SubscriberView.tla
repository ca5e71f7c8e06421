--------------------------- MODULE SubscriberView ---------------------------
(***************************************************************************)
(* A ReactiveStore seen by subscribers that keep the value they were last  *)
(* told of each key, as a cache or a mirror built on subscribe() does.     *)
(***************************************************************************)
EXTENDS ReactiveStore

CONSTANT Unheard    \* nothing was announced yet

(* No thread calls mutate() itself, which announces nothing.               *)
ASSUME AnnouncedCallsAssumption == \A t \in Threads : \A c \in CallsOf[t] : c.kind # "mutate"

VARIABLE heard      \* heard[s][k]: the new value last announced to s for key k

viewVars == <<vars, heard>>

ViewInit == Init /\ heard = [s \in Subs |-> [k \in Keys |-> Unheard]]

(* The callback stores new_value under the key it is called with.          *)
Hear(t, s) ==
    /\ Deliver(t, s)
    /\ heard' = [heard EXCEPT ![s][key[t]] = NewValue(t, key[t])]

ViewNext ==
    \/ (\E t \in Threads : Step(t)) /\ UNCHANGED heard
    \/ \E t \in Threads, s \in Subs : Hear(t, s)
    \/ ClientStep /\ UNCHANGED heard

ViewSpec == ViewInit /\ [][ViewNext]_viewVars

-----------------------------------------------------------------------------
(* Properties                                                              *)

Quiet == \A t \in Threads : pc[t] = "idle"
Writers(k) == {t \in Threads : \E c \in CallsOf[t] : k \in c.keys}
HasOneWriter(k) == \A t, u \in Writers(k) : t = u

(* Once every call has returned, the last value a live subscriber was told *)
(* of a key that one thread writes is the value the store holds, whatever  *)
(* the other threads do to other keys in the same map.                     *)
HeardIsCurrent ==
    Quiet => \A s \in Active, k \in Keys :
                HasOneWriter(k) => heard[s][k] \in {Unheard, Announced(ref[k])}

(* The announcements of such a key form an unbroken chain: the old value a *)
(* subscriber is about to be told is the new value it was told last.  This *)
(* is what is left of the old value of set, mset and delete, which is read *)
(* before the swap it is announced with, and on another snapshot.          *)
ChainUnbroken ==
    \A t \in Threads : \A s \in targets[t] :
        pc[t] = "deliver" /\ HasOneWriter(key[t]) =>
            heard[s][key[t]] \in {Unheard, OldValue(t, key[t])}
=============================================================================
