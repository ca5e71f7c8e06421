----------------------------- MODULE StoreCalls -----------------------------
(***************************************************************************)
(* The write calls a client makes on a ReactiveStore, as data.             *)
(*                                                                         *)
(* A snapshot (an immutables.Map) is a function that gives every key a     *)
(* value or Missing.  A write call is its kind, the keys it announces to   *)
(* subscribers and the closure it hands to mutate(): a function from       *)
(* snapshots to snapshots.                                                 *)
(*                                                                         *)
(* An element of Values is one Python object, so equality of values is     *)
(* `is`; then Map.set with the value that is already there, and a closure  *)
(* that returns the map it was given, both give txn[m] = m.                *)
(***************************************************************************)

CONSTANTS
    Keys,       \* the keys a client may use
    Values,     \* the values a client may store; Python's None is one of them
    None,       \* Python's None
    Missing,    \* the _MISSING sentinel: the key is not in the map
    Threads,    \* the threads that write
    CallsOf     \* CallsOf[t]: the calls thread t makes

ASSUME NoneIsAValue == None \in Values
ASSUME MissingIsNoValue == Missing \notin Values

Contents == Values \cup {Missing}
Maps == [Keys -> Contents]
EmptyMap == [k \in Keys |-> Missing]

(* delete() is also what expiry calls, with another event name.            *)
DeleteKinds == {"delete", "expire"}
Kinds == {"set", "mset", "atomic", "mutate"} \cup DeleteKinds

SetCall(k, v) ==
    [kind |-> "set", keys |-> {k}, txn |-> [m \in Maps |-> [m EXCEPT ![k] = v]]]

(* `mapping` is a function from a set of keys to values.                   *)
MsetCall(mapping) ==
    [kind |-> "mset", keys |-> DOMAIN mapping,
     txn |-> [m \in Maps |->
                [k \in Keys |-> IF k \in DOMAIN mapping THEN mapping[k] ELSE m[k]]]]

(* m.get(k, default), the value an atomic() call hands to its function.    *)
Lookup(m, k, default) == IF m[k] = Missing THEN default ELSE m[k]

AtomicCall(k, fn, default) ==
    [kind |-> "atomic", keys |-> {k},
     txn |-> [m \in Maps |-> [m EXCEPT ![k] = fn[Lookup(m, k, default)]]]]

DeleteCall(k, event) ==
    [kind |-> event, keys |-> {k},
     txn |-> [m \in Maps |-> [m EXCEPT ![k] = Missing]]]

(* mutate() takes any closure and announces no key.                        *)
MutateCall(fn) == [kind |-> "mutate", keys |-> {}, txn |-> fn]

WriteCalls ==
    {SetCall(k, v) : k \in Keys, v \in Values}
    \cup {MsetCall(w) : w \in UNION {[ks -> Values] : ks \in SUBSET Keys}}
    \cup {AtomicCall(k, fn, d) : k \in Keys, fn \in [Values -> Values], d \in Values}
    \cup {DeleteCall(k, e) : k \in Keys, e \in DeleteKinds}
    \cup [kind : {"mutate"}, keys : {{}}, txn : [Maps -> Maps]]

ASSUME CallsAreWriteCalls ==
    /\ DOMAIN CallsOf = Threads
    /\ \A t \in Threads : CallsOf[t] \subseteq WriteCalls

(* A thread that is in no call.                                            *)
NoCall == [kind |-> "none", keys |-> {}, txn |-> [m \in Maps |-> m]]

(* What a subscriber is told of a key's content: None when it is absent.   *)
Announced(content) == IF content = Missing THEN None ELSE content
=============================================================================
