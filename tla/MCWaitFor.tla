------------------------------ MODULE MCWaitFor ------------------------------
(* Two writers of one key and a waiter for one of its values, which may be   *)
(* overwritten, deleted or written again before the waiter notices.         *)
EXTENDS WaitFor, TLC

CONSTANTS t1, t2, k1, v1, w1

MCThreads == {t1, t2}
Toggle == (None :> v1) @@ (v1 :> None)
MCCallsOf ==
    (t1 :> {AtomicCall(k1, Toggle, None)})
    @@ (t2 :> {SetCall(k1, v1), DeleteCall(k1, "delete")})
MCSubKey == [s \in Subs |-> k1]
MCPred == [w \in Waiters |-> {v1}]
=============================================================================
