---------------------------- MODULE MCSubscribers ----------------------------
(* Two threads whose calls announce one or two keys to a subscriber of one   *)
(* key, which cancels itself when called, and to one that hears everything,  *)
(* while clients subscribe and cancel at any moment.                         *)
EXTENDS SubscriberView, TLC

CONSTANTS t1, t2, k1, k2, v1, s1, s2

MCThreads == {t1, t2}
Toggle == (None :> v1) @@ (v1 :> None)
(* k2 has one writer, k1 has two.                                            *)
MCCallsOf ==
    (t1 :> {MsetCall([k \in {k1, k2} |-> v1]), DeleteCall(k2, "delete")})
    @@ (t2 :> {AtomicCall(k1, Toggle, None)})
MCSubKey == (s1 :> k1) @@ (s2 :> AnyKey)
=============================================================================
