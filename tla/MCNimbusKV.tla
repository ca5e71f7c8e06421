----------------------------- MODULE MCNimbusKV -----------------------------
EXTENDS NimbusKV, TLC

CONSTANTS t1, t2, k1, k2, v1

Toggle == [v \in Values |-> IF v = v1 THEN None ELSE v1]

(* One key: a thread and a coroutine, with every call between them.        *)
MCCallsOf ==
    t1 :> {SetCall(k1, v1), AtomicCall(k1, Toggle, None)}
    @@ t2 :> {SetCall(k1, None), DeleteCall(k1, "delete")}

(* Two keys, written together and one by one by the same thread.           *)
MCTwoKeys ==
    t1 :> {MsetCall(k1 :> v1 @@ k2 :> v1), AtomicCall(k2, Toggle, None)}

(* One thread that sets a key and updates it.                              *)
MCOneThread == t1 :> {SetCall(k1, v1), AtomicCall(k1, Toggle, None)}
=============================================================================
