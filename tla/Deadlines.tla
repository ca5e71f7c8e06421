------------------------------ MODULE Deadlines ------------------------------
(***************************************************************************)
(* What the expiry scheduler promises: a key has at most one deadline.  A  *)
(* new one replaces the old, a cancelled one never comes, and the deletion *)
(* of a key is started at most once for each deadline, not before it.      *)
(***************************************************************************)
EXTENDS Naturals

CONSTANTS
    Keys,
    Times,      \* the times a key may expire at
    Never       \* no deadline

VARIABLES
    now,        \* the clock
    deadline,   \* deadline[k]: when k is to expire, or Never
    expiring    \* the keys being deleted because their deadline has come

vars == <<now, deadline, expiring>>

Init ==
    /\ now = 0
    /\ deadline = [k \in Keys |-> Never]
    /\ expiring = {}

Set(k, when) ==
    /\ deadline' = [deadline EXCEPT ![k] = when]
    /\ UNCHANGED <<now, expiring>>

Clear(k) == Set(k, Never)

Expire(k) ==
    /\ deadline[k] # Never
    /\ deadline[k] <= now
    /\ deadline' = [deadline EXCEPT ![k] = Never]
    /\ expiring' = expiring \cup {k}
    /\ UNCHANGED now

Expired(k) ==
    /\ expiring' = expiring \ {k}
    /\ UNCHANGED <<now, deadline>>

Tick == now' = now + 1 /\ UNCHANGED <<deadline, expiring>>

Next ==
    \/ \E k \in Keys : Clear(k) \/ Expire(k) \/ Expired(k)
    \/ \E k \in Keys, when \in Times : Set(k, when)
    \/ Tick

Spec == Init /\ [][Next]_vars
=============================================================================
