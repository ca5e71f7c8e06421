------------------------------ MODULE MCWriters ------------------------------
(* Two threads, two keys, no subscriber: every kind of write call, with a   *)
(* conflict on every attempt within reach.                                  *)
EXTENDS ReactiveStore, TLC

CONSTANTS t1, t2, k1, k2, v1

Other == [v \in Values |-> IF v = None THEN v1 ELSE None]
PutIfAbsent == [m \in Maps |-> IF m[k1] = Missing THEN [m EXCEPT ![k1] = v1] ELSE m]
Swap12 == [m \in Maps |-> [m EXCEPT ![k1] = m[k2], ![k2] = m[k1]]]

MCThreads == {t1, t2}
MCCalls ==
    {SetCall(k1, v1), MsetCall([k \in {k1, k2} |-> None]), AtomicCall(k1, Other, None),
     DeleteCall(k1, "delete"),
     MutateCall(PutIfAbsent), MutateCall(Swap12)}
MCCallsOf == [t \in Threads |-> MCCalls]
MCSubKey == [s \in Subs |-> AnyKey]
Symmetry == Permutations(MCThreads)
=============================================================================
