--------------------------- MODULE ThreadPrograms ---------------------------
(***************************************************************************)
(* The threaded programs the repository builds on the store, to measure it *)
(* and to show how it is used:                                             *)
(*   "increments"  atomic() on one counter         b01_correctness.py      *)
(*   "retries"     mutate() with a small budget    b01, b04                *)
(*   "throughput"  writes until a stop event       b02, b05                *)
(*   "get", "snapshot"  readers of two accounts    b01_correctness.py      *)
(*   "pool"        jobs, results, a dispatcher     examples/worker_pool.py *)
(*   "session"     touches of a session, expiry    examples/session_store  *)
(* Each has a main thread that starts workers and joins them.  A write is  *)
(* what ReactiveStore.mutate makes of it: a snapshot is read, and swapped  *)
(* for a new one unless somebody else, of whatever key, has swapped since; *)
(* after MaxTries lost races it raises ConflictRetryExceeded, which ends a *)
(* thread that does not catch it.  Callbacks are left out.                 *)
(*                                                                         *)
(* Faulty... definitions are no part of the model: each is a bug put in the*)
(* place of the definition that follows it, to see a property fail.        *)
(***************************************************************************)
EXTENDS Integers, FiniteSets, Sequences

CONSTANTS
    Workers,    \* the threads that are started
    Rounds,     \* writes of a worker of "increments" and "session"
    Jobs,       \* jobs in the pool's queue
    Swings,     \* bound: transfers between the accounts
    MaxTries,   \* max_retries
    MaxOps      \* bound: writes of a worker of "throughput"

ASSUME ThreadsAssumption ==
    /\ IsFiniteSet(Workers) /\ Workers # {}
    /\ {Rounds, Jobs, MaxTries} \subseteq Nat \ {0}
    /\ {Swings, MaxOps} \subseteq Nat

VARIABLES
    program,    \* which of the programs this is
    mpc,        \* where its main thread is
    wpc,        \* where each worker is
    stop,       \* the stop event
    store,      \* the map the store holds
    saw,        \* the snapshot a worker's write started from
    stale,      \* workers whose snapshot has been replaced
    tries,      \* races a write has lost
    at,         \* which of the writes of one round a worker is in
    ops,        \* rounds a worker has completed
    counts,     \* what a worker reports of itself
    raised,     \* workers that had ConflictRetryExceeded
    job, queue, \* the job of each worker; how many are left
    got,        \* what a reader of the accounts has read
    broken,     \* a reader saw a sum that never was
    swings,     \* transfers made
    expired     \* the session's ttl has come

roundVars == <<saw, stale, tries, at>>
jobVars == <<job, queue>>
readerVars == <<got, broken>>
threadVars == <<program, mpc, wpc, stop, store, roundVars, ops, counts, raised,
                jobVars, readerVars, swings, expired>>

Accounts == {"account_a", "account_b"}
Readings == {"get", "snapshot"}
Opening == 100
Nothing == [k \in {} |-> 0]

Missing == -2       \* no such key
None == -1          \* the value None

Programs == {"increments", "retries", "throughput", "pool", "session"} \cup Readings

Launched ==
    /\ program \in Programs
    /\ mpc = "start"
    /\ wpc = [w \in Workers |-> "new"]

Fresh ==
    /\ stop = FALSE
    /\ store = [counter |-> 0, results |-> {}, session |-> 0,
                accounts |-> [k \in Accounts |-> Opening]]
    /\ saw = [w \in Workers |-> store]
    /\ stale = {}
    /\ tries = [w \in Workers |-> 0]
    /\ at = [w \in Workers |-> 1]
    /\ ops = [w \in Workers |-> 0]
    /\ counts = [w \in Workers |-> 0]
    /\ raised = {}
    /\ job = [w \in Workers |-> 0]
    /\ queue = Jobs
    /\ got = [w \in Workers |-> Nothing]
    /\ broken = FALSE
    /\ swings = 0
    /\ expired = FALSE

ThreadInit == Launched /\ Fresh

-----------------------------------------------------------------------------
(* The main thread.                                                        *)

Main(from, to) == mpc = from /\ mpc' = to
Worker(w, from, to) == wpc[w] = from /\ wpc' = [wpc EXCEPT ![w] = to]

HasBarrier == program \in {"increments", "retries", "throughput"}

(* for t in threads: t.start()                                             *)
StartThread(w) ==
    /\ mpc = "start"
    /\ Worker(w, "new", IF HasBarrier THEN "barrier" ELSE "loop")
    /\ UNCHANGED <<program, mpc, stop, store, roundVars, ops, counts, raised, jobVars,
                   readerVars, swings, expired>>

AllStarted ==
    /\ \A w \in Workers : wpc[w] # "new"
    /\ Main("start", CASE program = "throughput" -> "barrier"
                       [] program \in Readings -> "write"
                       [] program = "pool" -> "wait"
                       [] OTHER -> "join")
    /\ UNCHANGED <<program, wpc, stop, store, roundVars, ops, counts, raised, jobVars,
                   readerVars, swings, expired>>

(* How many threads the barrier waits for: without the main thread where   *)
(* it takes part, or with it where it does not.                            *)
FaultyParties == Cardinality(Workers)
FaultyPartiesOneMore == Cardinality(Workers) + 1
Parties == Cardinality(Workers) + (IF program = "throughput" THEN 1 ELSE 0)

Waiting == {w \in Workers : wpc[w] = "barrier"}

BarrierOpens ==
    /\ Cardinality(Waiting) + (IF mpc = "barrier" THEN 1 ELSE 0) = Parties
    /\ wpc' = [w \in Workers |-> IF w \in Waiting THEN "loop" ELSE wpc[w]]
    /\ mpc' = IF mpc = "barrier" THEN "clock" ELSE mpc
    /\ UNCHANGED <<program, stop, store, roundVars, ops, counts, raised, jobVars,
                   readerVars, swings, expired>>

(* t0 = time.perf_counter(), in the main thread once it runs again.        *)
StartClock ==
    /\ Main("clock", "measure")
    /\ UNCHANGED <<program, wpc, stop, store, roundVars, ops, counts, raised, jobVars,
                   readerVars, swings, expired>>

(* The one writer of the accounts: money goes from one to the other.       *)
Transfer ==
    /\ mpc = "write"
    /\ swings < Swings
    /\ swings' = swings + 1
    /\ LET a == store.accounts["account_a"] + (IF swings % 2 = 0 THEN 10 ELSE -10)
       IN  store' = [store EXCEPT !.accounts = [k \in Accounts |->
                        IF k = "account_a" THEN a ELSE 2 * Opening - a]]
    /\ UNCHANGED <<program, mpc, wpc, stop, roundVars, ops, counts, raised, jobVars,
                   readerVars, expired>>

SetStop ==
    /\ \/ Main("measure", "join")
       \/ swings = Swings /\ Main("write", "join")
    /\ stop' = TRUE
    /\ UNCHANGED <<program, wpc, store, roundVars, ops, counts, raised, jobVars,
                   readerVars, swings, expired>>

(* store.wait_for("jobs_completed", lambda v: v == n_jobs, timeout=30)     *)
JobsCompleted ==
    /\ store.counter = Jobs
    /\ Main("wait", "join")
    /\ UNCHANGED <<program, wpc, stop, store, roundVars, ops, counts, raised, jobVars,
                   readerVars, swings, expired>>

JobsTimeOut ==
    /\ Main("wait", "timed out")
    /\ UNCHANGED <<program, wpc, stop, store, roundVars, ops, counts, raised, jobVars,
                   readerVars, swings, expired>>

Join ==
    /\ \A w \in Workers : wpc[w] = "end"
    /\ Main("join", "done")
    /\ UNCHANGED <<program, wpc, stop, store, roundVars, ops, counts, raised, jobVars,
                   readerVars, swings, expired>>

-----------------------------------------------------------------------------
(* The workers: one round after the other.                                 *)

Continues(w) ==
    CASE program \in {"increments", "session"} -> ops[w] < Rounds
      [] program = "retries" -> ops[w] < 1
      [] program = "pool" -> queue > 0
      [] OTHER -> ~stop

(* The next increment; the next job, taken under the queue's lock; the     *)
(* next look at the accounts.                                              *)
BeginRound(w) ==
    /\ Continues(w)
    /\ program = "throughput" => ops[w] < MaxOps
    /\ Worker(w, "loop", IF program \in Readings THEN "get" ELSE "read")
    /\ IF program = "pool"
       THEN job' = [job EXCEPT ![w] = queue] /\ queue' = queue - 1
       ELSE UNCHANGED jobVars
    /\ UNCHANGED <<program, mpc, stop, store, roundVars, ops, counts, raised,
                   readerVars, swings, expired>>

(* The last round is not counted; or counts[idx] = c.                      *)
FaultyTally(w) == IF ops[w] = 0 THEN 0 ELSE ops[w] - 1
Tally(w) == ops[w]

EndLoop(w) ==
    /\ ~Continues(w)
    /\ Worker(w, "loop", "end")
    /\ counts' = [counts EXCEPT ![w] = Tally(w)]
    /\ UNCHANGED <<program, mpc, stop, store, roundVars, ops, raised, jobVars,
                   readerVars, swings, expired>>

(* The writes of a round.  The count is made first; or the result is.      *)
FaultyWrites == IF program = "pool" THEN <<"count", "result">>
                ELSE IF program = "session" THEN <<"bump">> ELSE <<"count">>
Writes == IF program = "pool" THEN <<"result", "count">>
          ELSE IF program = "session" THEN <<"bump">> ELSE <<"count">>

(* A session that is gone stays None.                                      *)
Bump(session) == IF session < 0 THEN None ELSE session + 1

(* The map worker w makes of the map s.                                    *)
Made(w, s) ==
    CASE Writes[at[w]] = "count" -> [s EXCEPT !.counter = @ + 1]
      [] Writes[at[w]] = "result" -> [s EXCEPT !.results = @ \cup {job[w]}]
      [] Writes[at[w]] = "bump" -> [s EXCEPT !.session = Bump(@)]

(* A write returned: the next one of the round, or the round is over.      *)
Advance(w) ==
    /\ tries' = [tries EXCEPT ![w] = 0]
    /\ IF at[w] < Len(Writes)
       THEN /\ wpc' = [wpc EXCEPT ![w] = "read"]
            /\ at' = [at EXCEPT ![w] = @ + 1]
            /\ UNCHANGED ops
       ELSE /\ wpc' = [wpc EXCEPT ![w] = "loop"]
            /\ at' = [at EXCEPT ![w] = 1]
            /\ ops' = [ops EXCEPT ![w] = @ + 1]

(* old = self._ref; new = fn(old); nothing more to do if new is old.       *)
ReadSnapshot(w) ==
    /\ wpc[w] = "read"
    /\ saw' = [saw EXCEPT ![w] = store]
    /\ stale' = stale \ {w}
    /\ IF Made(w, store) = store
       THEN Advance(w)
       ELSE /\ Worker(w, "read", "swap")
            /\ UNCHANGED <<tries, at, ops>>
    /\ UNCHANGED <<program, mpc, stop, store, counts, raised, jobVars,
                   readerVars, swings, expired>>

(* The identity test is left out; or `self._ref is old`.                   *)
FaultyUnchanged(w) == TRUE
Unchanged(w) == w \notin stale

Swap(w) ==
    /\ wpc[w] = "swap"
    /\ Unchanged(w)
    /\ store' = Made(w, saw[w])
    /\ stale' = {v \in Workers : wpc[v] = "swap"} \ {w}
    /\ Advance(w)
    /\ UNCHANGED <<program, mpc, stop, saw, counts, raised, jobVars,
                   readerVars, swings, expired>>

(* The last attempt is lost: one more than allowed; or exactly that many.  *)
FaultyOutOfTries(w) == tries[w] = MaxTries
OutOfTries(w) == tries[w] + 1 = MaxTries

SwapLost(w) ==
    /\ ~Unchanged(w)
    /\ ~OutOfTries(w)
    /\ Worker(w, "swap", "read")
    /\ tries' = [tries EXCEPT ![w] = @ + 1]
    /\ UNCHANGED <<program, mpc, stop, store, saw, stale, at, ops, counts, raised, jobVars,
                   readerVars, swings, expired>>

(* ConflictRetryExceeded: caught and noted down, or the end of the thread. *)
Raise(w) ==
    /\ ~Unchanged(w)
    /\ OutOfTries(w)
    /\ Worker(w, "swap", "end")
    /\ raised' = raised \cup {w}
    /\ UNCHANGED <<program, mpc, stop, store, roundVars, ops, counts, jobVars,
                   readerVars, swings, expired>>

(* The accounts a reader reads next, in one read of the store: both, if it *)
(* takes a snapshot.                                                       *)
Reads(w) == IF program = "snapshot" THEN Accounts
            ELSE IF got[w] = Nothing THEN {"account_a"} ELSE {"account_b"}

ReadAccounts(w) ==
    /\ wpc[w] = "get"
    /\ got' = [got EXCEPT ![w] = [k \in Reads(w) \cup DOMAIN @ |->
                  IF k \in Reads(w) THEN store.accounts[k] ELSE @[k]]]
    /\ wpc' = [wpc EXCEPT ![w] = IF DOMAIN got'[w] = Accounts THEN "judge" ELSE "get"]
    /\ UNCHANGED <<program, mpc, stop, store, roundVars, ops, counts, raised, jobVars,
                   broken, swings, expired>>

(* if a + b != 200: violations.append((a, b))                              *)
JudgeSum(w) ==
    /\ Worker(w, "judge", "loop")
    /\ broken' = (broken \/ got[w]["account_a"] + got[w]["account_b"] # 2 * Opening)
    /\ got' = [got EXCEPT ![w] = Nothing]
    /\ UNCHANGED <<program, mpc, stop, store, roundVars, ops, counts, raised, jobVars,
                   swings, expired>>

(* The scheduler deletes the session when its ttl has come.                *)
SessionExpires ==
    /\ program = "session"
    /\ ~expired
    /\ expired' = TRUE
    /\ store' = [store EXCEPT !.session = Missing]
    /\ stale' = {v \in Workers : wpc[v] = "swap"}
    /\ UNCHANGED <<program, mpc, wpc, stop, saw, tries, at, ops, counts, raised, jobVars,
                   readerVars, swings>>

-----------------------------------------------------------------------------
MainStep ==
    \/ \E w \in Workers : StartThread(w)
    \/ AllStarted \/ StartClock \/ Transfer \/ SetStop
    \/ JobsCompleted \/ JobsTimeOut \/ Join

WorkerStep(w) ==
    \/ BeginRound(w) \/ EndLoop(w)
    \/ ReadSnapshot(w) \/ Swap(w) \/ SwapLost(w) \/ Raise(w)
    \/ ReadAccounts(w) \/ JudgeSum(w)

ThreadNext ==
    \/ MainStep \/ BarrierOpens
    \/ \E w \in Workers : WorkerStep(w)
    \/ SessionExpires

(* Every thread is scheduled, and time.sleep and timeouts end.             *)
ThreadFairness ==
    /\ WF_threadVars(MainStep)
    /\ WF_threadVars(BarrierOpens)
    /\ \A w \in Workers : WF_threadVars(WorkerStep(w))

ThreadSpec == ThreadInit /\ [][ThreadNext]_threadVars /\ ThreadFairness

-----------------------------------------------------------------------------
(* Properties                                                              *)

(* As many rounds of the workers ws as f says, and how many these are.     *)
RoundsOf(f, ws) == UNION {{w} \X (1..f[w]) : w \in ws}
Total(f) == Cardinality(RoundsOf(f, Workers))

(* Every variable has its type; a thread that raised has ended, and nobody *)
(* has tried more often than allowed.                                      *)
ThreadsTypeOK ==
    /\ mpc \in {"start", "barrier", "clock", "measure", "write", "wait", "join",
                "done", "timed out"}
    /\ wpc \in [Workers -> {"new", "barrier", "loop", "read", "swap", "get", "judge", "end"}]
    /\ store.counter \in Nat
    /\ store.results \subseteq 1..Jobs
    /\ store.session \in Nat \cup {None, Missing}
    /\ tries \in [Workers -> 0..(MaxTries - 1)]
    /\ \A w \in raised : wpc[w] = "end"
    /\ stale \subseteq Workers
    /\ queue \in 0..Jobs

(* The counter is at all times the number of completed increments of all   *)
(* threads, and the session that of its touches until it expires: no write *)
(* is lost or counted twice under contention (README and b01, claim 1).    *)
(* A touch that comes after the expiry brings no count back: it leaves the *)
(* key alone, or leaves None under it, which the example's atomic() stores *)
(* (session_store.py, lines 33-40).                                        *)
CountsAreExact ==
    IF program = "session"
    THEN IF expired THEN store.session \in {None, Missing} ELSE store.session = Total(ops)
    ELSE store.counter = Total(ops)

(* What the programs report at the end adds up with what is in the store:  *)
(* increments are missing exactly if a thread raised ConflictRetryExceeded,*)
(* the failures listed are those missing, the throughput is that of the    *)
(* threads that did not raise, and readers that take one snapshot list no  *)
(* violation (b01, claim 2), as those that call get() twice may.           *)
ReportsAddUp ==
    mpc = "done" =>
        CASE program = "increments" ->
                raised = {} <=> store.counter = Cardinality(Workers) * Rounds
          [] program = "retries" ->
                store.counter + Cardinality(raised) = Cardinality(Workers)
          [] program = "throughput" ->
                store.counter = Total(counts)
                                + Cardinality(RoundsOf(ops, raised))
          [] program = "snapshot" -> ~broken
          [] OTHER -> TRUE

(* No thread makes a write of the measured loop before every thread has    *)
(* been started and, in b02 and b05, the main thread is through the        *)
(* barrier as well (b02, lines 108-116).                                   *)
StartTogether ==
    HasBarrier => \A w \in Workers : wpc[w] \notin {"new", "barrier"} =>
        /\ \A v \in Workers : wpc[v] # "new"
        /\ program = "throughput" => mpc \notin {"start", "barrier"}

(* When the dispatcher's wait_for returns, the result of every job is in   *)
(* the store (worker_pool.py, lines 46-56).                                *)
ResultsAreReady ==
    program = "pool" /\ mpc \in {"join", "done"} => store.results = 1..Jobs

(* Every program comes to its end: the barrier opens, the stop event is    *)
(* seen, a lost job is a timeout and not a wait without end.               *)
ProgramEnds ==
    <>(mpc \in {"done", "timed out"} /\ \A w \in Workers : wpc[w] = "end")
=============================================================================
