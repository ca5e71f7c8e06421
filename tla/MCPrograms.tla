----------------------------- MODULE MCPrograms -----------------------------
(* One of the threaded programs, or the benchmark runner: never both in one*)
(* behaviour.                                                              *)
EXTENDS ThreadPrograms, BenchRunner

VARIABLE running

vars == <<running, threadVars, benchVars>>

ThreadsOver ==
    /\ program = "get"
    /\ mpc = "done"
    /\ wpc = [w \in Workers |-> "end"]

Init ==
    /\ Fresh /\ BenchInit
    /\ \/ running = "program" /\ Launched
       \/ running = "benchmarks" /\ ThreadsOver

Next ==
    \/ running = "program" /\ ThreadNext /\ UNCHANGED <<running, benchVars>>
    \/ running = "benchmarks" /\ BenchNext /\ UNCHANGED <<running, threadVars>>

Spec == Init /\ [][Next]_vars /\ ThreadFairness
=============================================================================
