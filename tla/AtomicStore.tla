---------------------------- MODULE AtomicStore ----------------------------
(***************************************************************************)
(* What a ReactiveStore promises about writes, whatever its threads do:    *)
(* every call is applied to the whole map in one indivisible step between  *)
(* its invocation and its return, or fails and has no effect.  No update   *)
(* is lost and no mset is seen half applied.                               *)
(***************************************************************************)
EXTENDS StoreCalls

VARIABLES
    map,        \* the content of the store
    pending,    \* pending[t]: the call t is in, or NoCall
    result      \* result[t]: what became of it

vars == <<map, pending, result>>

Init ==
    /\ map = EmptyMap
    /\ pending = [t \in Threads |-> NoCall]
    /\ result = [t \in Threads |-> "none"]

Invoke(t) ==
    /\ pending[t] = NoCall
    /\ \E c \in CallsOf[t] : pending' = [pending EXCEPT ![t] = c]
    /\ UNCHANGED <<map, result>>

Undecided(t) == pending[t] # NoCall /\ result[t] = "none"

Apply(t) ==
    /\ Undecided(t)
    /\ map' = pending[t].txn[map]
    /\ result' = [result EXCEPT ![t] = "applied"]
    /\ UNCHANGED pending

Fail(t) ==
    /\ Undecided(t)
    /\ result' = [result EXCEPT ![t] = "failed"]
    /\ UNCHANGED <<map, pending>>

Return(t) ==
    /\ result[t] # "none"
    /\ pending' = [pending EXCEPT ![t] = NoCall]
    /\ result' = [result EXCEPT ![t] = "none"]
    /\ UNCHANGED map

Next == \E t \in Threads : Invoke(t) \/ Apply(t) \/ Fail(t) \/ Return(t)

Spec == Init /\ [][Next]_vars
=============================================================================
