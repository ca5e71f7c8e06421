----------------------------- MODULE MCProgress -----------------------------
(* Two threads contending for one key, with a subscriber that cancels itself *)
(* when called.                                                              *)
EXTENDS ReactiveStore, TLC

CONSTANTS t1, t2, k1, v1, s1

MCThreads == {t1, t2}
Toggle == (None :> v1) @@ (v1 :> None)
MCCallsOf ==
    (t1 :> {SetCall(k1, None), DeleteCall(k1, "delete")})
    @@ (t2 :> {AtomicCall(k1, Toggle, None)})
MCSubKey == [s \in Subs |-> k1]
=============================================================================
