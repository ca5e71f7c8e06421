--------------------------- MODULE ProgramsProofs ---------------------------
(***************************************************************************)
(* The threaded programs report what was done, for any number of threads,  *)
(* rounds, jobs and retries; and the benchmark runner leaves reports that  *)
(* agree with each other and with the files they refer to, wherever a run  *)
(* is aborted or a suite raises, for any number of runs and faults.        *)
(***************************************************************************)
EXTENDS ThreadPrograms, BenchRunner, FiniteSetTheorems, TLAPS

LEMMA ThreadBounds ==
    /\ Rounds \in Nat \ {0} /\ Jobs \in Nat \ {0} /\ MaxTries \in Nat \ {0}
    /\ IsFiniteSet(Workers) /\ Workers # {}
BY ThreadsAssumption

-----------------------------------------------------------------------------
(* Counting the rounds of all workers                                      *)

LEMMA RoundsMember ==
    ASSUME NEW f, NEW ws, NEW x
    PROVE  x \in RoundsOf(f, ws) <=> \E w \in ws : \E i \in 1..f[w] : x = <<w, i>>
<1>1. ASSUME NEW w \in ws, NEW i \in 1..f[w], x = <<w, i>> PROVE x \in RoundsOf(f, ws)
  <2>1. x \in {w} \X (1..f[w])
    BY <1>1
  <2>2. {w} \X (1..f[w]) \in {{v} \X (1..f[v]) : v \in ws}
    OBVIOUS
  <2> QED
    BY <2>1, <2>2 DEF RoundsOf
<1>2. ASSUME x \in RoundsOf(f, ws) PROVE \E w \in ws : \E i \in 1..f[w] : x = <<w, i>>
  <2>1. PICK w \in ws : x \in {w} \X (1..f[w])
    BY <1>2 DEF RoundsOf
  <2> QED
    BY <2>1
<1> QED
  BY <1>1, <1>2

LEMMA OneMoreRound ==
    ASSUME NEW f \in [Workers -> Nat], NEW g \in [Workers -> Nat], NEW w \in Workers,
           g[w] = f[w] + 1, \A v \in Workers \ {w} : g[v] = f[v],
           IsFiniteSet(RoundsOf(f, Workers))
    PROVE  IsFiniteSet(RoundsOf(g, Workers)) /\ Total(g) = Total(f) + 1
<1> DEFINE F == RoundsOf(f, Workers)
           G == RoundsOf(g, Workers)
           new == <<w, g[w]>>
<1>1. new \notin F
  <2> SUFFICES ASSUME NEW x \in F, x = new PROVE FALSE
    OBVIOUS
  <2>p. PICK v \in Workers : \E i \in 1..f[v] : x = <<v, i>>
    BY RoundsMember
  <2>1. PICK i \in 1..f[v] : x = <<v, i>>
    BY <2>p
  <2> QED
    BY <2>1
<1>2. ASSUME NEW x PROVE x \in G <=> x \in F \cup {new}
  <2>1. ASSUME x \in G PROVE x \in F \cup {new}
    <3>p. PICK v \in Workers : \E i \in 1..g[v] : x = <<v, i>>
      BY <2>1, RoundsMember
    <3>1. PICK i \in 1..g[v] : x = <<v, i>>
      BY <3>p
    <3>2. CASE v = w /\ i = g[w]
      BY <3>1, <3>2
    <3>3. CASE ~(v = w /\ i = g[w])
      <4>1. i \in 1..f[v]
        BY <3>3
      <4> QED
        BY <3>1, <4>1, RoundsMember
    <3> QED
      BY <3>2, <3>3
  <2>2. ASSUME x \in F PROVE x \in G
    <3>p. PICK v \in Workers : \E i \in 1..f[v] : x = <<v, i>>
      BY <2>2, RoundsMember
    <3>1. PICK i \in 1..f[v] : x = <<v, i>>
      BY <3>p
    <3>2. i \in 1..g[v]
      BY <3>1
    <3> QED
      BY <3>1, <3>2, RoundsMember
  <2>3. new \in G
    <3>1. g[w] \in 1..g[w]
      OBVIOUS
    <3> QED
      BY <3>1, RoundsMember
  <2> QED
    BY <2>1, <2>2, <2>3
<1>3. G = F \cup {new}
  BY <1>2
<1> HIDE DEF F, G, new
<1>4. IsFiniteSet(G) /\ Cardinality(G) = Cardinality(F) + 1
  BY <1>1, <1>3, FS_AddElement DEF F
<1> QED
  BY <1>4 DEF F, G, Total

-----------------------------------------------------------------------------
(* The inductive invariant of the threaded programs                        *)

Stores == [counter : Nat, results : SUBSET (1..Jobs), session : Nat \cup {None, Missing},
           accounts : [Accounts -> Int]]

ThreadTyping ==
    /\ program \in Programs
    /\ mpc \in {"start", "barrier", "clock", "measure", "write", "wait", "join",
                "done", "timed out"}
    /\ wpc \in [Workers -> {"new", "barrier", "loop", "read", "swap", "get", "judge", "end"}]
    /\ store \in Stores /\ saw \in [Workers -> Stores]
    /\ stale \subseteq Workers
    /\ tries \in [Workers -> 0..(MaxTries - 1)]
    /\ at \in [Workers -> 1..2]
    /\ ops \in [Workers -> Nat] /\ counts \in [Workers -> Nat]
    /\ raised \subseteq Workers
    /\ job \in [Workers -> 0..Jobs] /\ queue \in 0..Jobs
    /\ DOMAIN got = Workers
    /\ expired \in BOOLEAN /\ broken \in BOOLEAN

(* In the main thread, each place belongs to some of the programs.         *)
MainPlace ==
    /\ mpc = "write" => program \in Readings
    /\ mpc = "wait" => program = "pool"
    /\ mpc \in {"barrier", "clock", "measure"} => program = "throughput"

InRound(w) == wpc[w] \in {"read", "swap"}

(* Where a worker is decides which write it is at, and what it has seen.   *)
WorkerPlace(w) ==
    /\ wpc[w] \in {"get", "judge"} => program \in Readings
    /\ InRound(w) => program \notin Readings
    /\ program # "pool" => at[w] = 1
    /\ at[w] = 1 \/ InRound(w) \/ w \in raised
    /\ w \in raised => wpc[w] = "end"
    /\ wpc[w] = "swap" /\ w \notin stale => saw[w] = store
    /\ program = "pool" /\ InRound(w) => job[w] \in 1..Jobs
    /\ mpc = "done" => wpc[w] = "end"

(* The programs whose workers write a given number of times.               *)
Counted == program \in {"increments", "retries"}
Goal == IF program = "increments" THEN Rounds ELSE 1
Tallied(w) ==
    /\ Counted => ops[w] <= Goal
    /\ Counted /\ (InRound(w) \/ w \in raised) => ops[w] < Goal
    /\ wpc[w] # "end" \/ w \in raised => counts[w] = 0
    /\ wpc[w] = "end" /\ w \notin raised =>
          counts[w] = ops[w] /\ (Counted => ops[w] = Goal)

(* The readers that take one snapshot have read accounts that add up.      *)
Seen(w) ==
    program = "snapshot" =>
        IF wpc[w] = "judge"
        THEN got[w]["account_a"] + got[w]["account_b"] = 2 * Opening
        ELSE got[w] = Nothing
AccountsAddUp ==
    /\ store.accounts["account_a"] + store.accounts["account_b"] = 2 * Opening
    /\ program = "snapshot" => ~broken

(* Every job taken has its result in the store, or somebody is at it: then,*)
(* or when that worker raised, it is not counted.                          *)
Busy == {w \in Workers : InRound(w)} \cup raised
JobsAccounted ==
    program = "pool" =>
        /\ store.counter + Cardinality(Busy) = Jobs - queue
        /\ \A j \in (queue + 1)..Jobs :
              j \in store.results \/ \E w \in Busy : at[w] = 1 /\ job[w] = j

ThreadInv ==
    /\ ThreadTyping /\ MainPlace
    /\ \A w \in Workers : WorkerPlace(w) /\ Tallied(w) /\ Seen(w)
    /\ IsFiniteSet(RoundsOf(ops, Workers))
    /\ AccountsAddUp /\ CountsAreExact /\ StartTogether
    /\ JobsAccounted /\ ResultsAreReady

LEMMA ThreadInit1 == ThreadInit => ThreadInv
<1> SUFFICES ASSUME ThreadInit PROVE ThreadInv
  OBVIOUS
<1> USE DEF ThreadInit, Launched, Fresh
<1>1. store \in Stores
  BY DEF Stores, Opening
<1>2. ThreadTyping
  <2>1. 0 \in 0..(MaxTries - 1) /\ Jobs \in 0..Jobs /\ 0 \in 0..Jobs
    BY ThreadBounds
  <2> QED
    <3>1. program \in Programs /\ mpc = "start" /\ wpc = [w \in Workers |-> "new"]
      OBVIOUS
    <3>2. saw \in [Workers -> Stores] /\ stale \subseteq Workers
      BY <1>1
    <3>3. tries \in [Workers -> 0..(MaxTries - 1)] /\ at \in [Workers -> 1..2]
      BY <2>1
    <3>4. ops \in [Workers -> Nat] /\ counts \in [Workers -> Nat] /\ raised \subseteq Workers
      OBVIOUS
    <3>5. job \in [Workers -> 0..Jobs] /\ queue \in 0..Jobs
      BY <2>1
    <3>6. DOMAIN got = Workers /\ expired \in BOOLEAN /\ broken \in BOOLEAN
      OBVIOUS
    <3> QED
      BY <1>1, <3>1, <3>2, <3>3, <3>4, <3>5, <3>6 DEF ThreadTyping
<1>3. MainPlace /\ AccountsAddUp
  BY DEF MainPlace, AccountsAddUp, Opening, Accounts
<1>4. ASSUME NEW w \in Workers PROVE WorkerPlace(w) /\ Tallied(w) /\ Seen(w)
  BY ThreadBounds DEF WorkerPlace, Tallied, Seen, InRound, Goal
<1>5. RoundsOf(ops, Workers) = {}
  <2>1. ASSUME NEW x \in RoundsOf(ops, Workers) PROVE FALSE
    <3>p. PICK w \in Workers : \E i \in 1..ops[w] : x = <<w, i>>
      BY RoundsMember
    <3>1. PICK i \in 1..ops[w] : x = <<w, i>>
      BY <3>p
    <3> QED
      BY <3>1
  <2> QED
    BY <2>1
<1>6. IsFiniteSet(RoundsOf(ops, Workers)) /\ CountsAreExact
  BY <1>5, FS_EmptySet DEF CountsAreExact, Total
<1>7. StartTogether /\ ResultsAreReady
  BY DEF StartTogether, ResultsAreReady
<1>8. JobsAccounted
  <2>1. Busy = {}
    BY DEF Busy, InRound
  <2> QED
    BY <2>1, FS_EmptySet, ThreadBounds DEF JobsAccounted
<1> QED
  BY <1>2, <1>3, <1>4, <1>6, <1>7, <1>8 DEF ThreadInv

(* A step of the main thread alone, which reads at most the store.         *)
LEMMA MainMoves ==
    ASSUME ThreadInv,
           UNCHANGED <<program, wpc, store, roundVars, ops, counts, raised, jobVars,
                       readerVars, swings, expired>>,
           mpc' \in {"barrier", "measure", "write", "wait", "join", "done", "timed out"},
           mpc' = "done" => \A w \in Workers : wpc[w] = "end",
           MainPlace', StartTogether', ResultsAreReady'
    PROVE  ThreadInv'
<1> USE DEF ThreadInv, roundVars, jobVars, readerVars
<1>1. ThreadTyping'
  BY DEF ThreadTyping
<1>2. ASSUME NEW w \in Workers PROVE WorkerPlace(w)' /\ Tallied(w)' /\ Seen(w)'
  BY DEF WorkerPlace, Tallied, Seen, InRound, Counted, Goal
<1>3. AccountsAddUp' /\ CountsAreExact' /\ IsFiniteSet(RoundsOf(ops, Workers))'
  BY DEF AccountsAddUp, CountsAreExact
<1>4. JobsAccounted'
  <2>1. Busy' = Busy
    BY DEF Busy, InRound
  <2> QED
    BY <2>1 DEF JobsAccounted
<1> QED
  BY <1>1, <1>2, <1>3, <1>4

LEMMA MainSteps ==
    ASSUME ThreadInv,
           AllStarted \/ StartClock \/ SetStop \/ JobsCompleted \/ JobsTimeOut \/ Join
    PROVE  ThreadInv'
<1>1. CASE AllStarted
  <2>1. mpc = "start" /\ (\A w \in Workers : wpc[w] # "new")
        /\ UNCHANGED <<program, wpc, store, roundVars, ops, counts, raised, jobVars,
                       readerVars, swings, expired>>
    BY <1>1 DEF AllStarted, Main
  <2>2. mpc' = CASE program = "throughput" -> "barrier"
                 [] program \in Readings -> "write"
                 [] program = "pool" -> "wait"
                 [] OTHER -> "join"
    BY <1>1 DEF AllStarted, Main
  <2>3. /\ mpc' \in {"barrier", "write", "wait", "join"}
        /\ mpc' = "barrier" <=> program = "throughput"
        /\ mpc' = "write" <=> program \in Readings
        /\ mpc' = "wait" <=> program = "pool"
    <3>1. CASE program = "throughput"
      BY <2>2, <3>1 DEF Readings
    <3>2. CASE program \in Readings
      BY <2>2, <3>2 DEF Readings
    <3>3. CASE program = "pool"
      BY <2>2, <3>3 DEF Readings
    <3>4. CASE program \notin Readings \cup {"throughput", "pool"}
      BY <2>2, <3>4 DEF Readings
    <3> QED
      BY <3>1, <3>2, <3>3, <3>4
  <2>4. MainPlace' /\ ResultsAreReady'
    BY <2>1, <2>3 DEF MainPlace, ResultsAreReady
  <2>5. StartTogether'
    BY <2>1, <2>3 DEF ThreadInv, StartTogether, HasBarrier
  <2> QED
    BY <2>1, <2>3, <2>4, <2>5, MainMoves
<1>2. CASE StartClock
  <2>1. MainPlace' /\ ResultsAreReady' /\ StartTogether'
    BY <1>2 DEF ThreadInv, StartClock, Main, MainPlace, ResultsAreReady, StartTogether,
                HasBarrier
  <2> QED
    BY <1>2, <2>1, MainMoves DEF StartClock, Main
<1>3. CASE SetStop
  <2>1. MainPlace' /\ ResultsAreReady' /\ StartTogether'
    BY <1>3 DEF ThreadInv, SetStop, Main, MainPlace, ResultsAreReady, StartTogether,
                HasBarrier, Readings
  <2> QED
    BY <1>3, <2>1, MainMoves DEF SetStop, Main
<1>4. CASE JobsCompleted
  <2>1. MainPlace' /\ StartTogether'
    BY <1>4 DEF ThreadInv, JobsCompleted, Main, MainPlace, StartTogether, HasBarrier
  <2>2. program = "pool" /\ store.counter = Jobs /\ UNCHANGED <<program, store>>
    BY <1>4 DEF ThreadInv, JobsCompleted, Main, MainPlace
  <2>3. IsFiniteSet(Busy) /\ Cardinality(Busy) \in Nat
    <3>1. Busy \in SUBSET Workers
      BY DEF ThreadInv, ThreadTyping, Busy
    <3> QED
      BY <3>1, FS_Subset, FS_CardinalityType, ThreadBounds
  <2>4. queue = 0 /\ Cardinality(Busy) = 0
    <3>1. queue \in 0..Jobs /\ store.counter + Cardinality(Busy) = Jobs - queue
      BY <2>2 DEF ThreadInv, ThreadTyping, JobsAccounted
    <3> QED
      BY <2>2, <2>3, <3>1, ThreadBounds
  <2>5. Busy = {}
    BY <2>3, <2>4, FS_EmptySet
  <2>6. store.results \subseteq 1..Jobs
    BY DEF ThreadInv, ThreadTyping, Stores
  <2>7. store.results = 1..Jobs
    <3>1. \A j \in (queue + 1)..Jobs : j \in store.results
      BY <2>2, <2>5 DEF ThreadInv, JobsAccounted
    <3>2. \A j \in 1..Jobs : j \in (queue + 1)..Jobs
      BY <2>4
    <3> QED
      BY <2>6, <3>1, <3>2
  <2>8. ResultsAreReady'
    BY <2>2, <2>7 DEF ResultsAreReady
  <2> QED
    BY <1>4, <2>1, <2>8, MainMoves DEF JobsCompleted, Main
<1>5. CASE JobsTimeOut
  <2>1. MainPlace' /\ ResultsAreReady' /\ StartTogether'
    BY <1>5 DEF ThreadInv, JobsTimeOut, Main, MainPlace, ResultsAreReady, StartTogether,
                HasBarrier
  <2> QED
    BY <1>5, <2>1, MainMoves DEF JobsTimeOut, Main
<1>6. CASE Join
  <2>1. MainPlace' /\ ResultsAreReady' /\ StartTogether'
    BY <1>6 DEF ThreadInv, Join, Main, MainPlace, ResultsAreReady, StartTogether, HasBarrier
  <2> QED
    BY <1>6, <2>1, MainMoves DEF Join, Main
<1> QED
  BY <1>1, <1>2, <1>3, <1>4, <1>5, <1>6

-----------------------------------------------------------------------------
(* The workers that a step of another one leaves alone.                    *)
LEMMA OtherWorkers ==
    ASSUME ThreadInv, NEW w \in Workers,
           UNCHANGED <<program, mpc>>, broken' \in BOOLEAN,
           wpc'[w] = wpc[w], at'[w] = at[w], job'[w] = job[w], saw'[w] = saw[w],
           ops'[w] = ops[w], counts'[w] = counts[w], got'[w] = got[w],
           w \in raised' <=> w \in raised,
           wpc[w] = "swap" => w \in stale' \/ (store' = store /\ w \notin stale)
    PROVE  WorkerPlace(w)' /\ Tallied(w)' /\ Seen(w)'
BY DEF ThreadInv, WorkerPlace, Tallied, Seen, InRound, Counted, Goal

LEMMA OneThread ==
    ASSUME ThreadInv, NEW w \in Workers,
           NEW pc, wpc' = [wpc EXCEPT ![w] = pc]
    PROVE  wpc'[w] = pc /\ \A v \in Workers \ {w} : wpc'[v] = wpc[v]
BY DEF ThreadInv, ThreadTyping

(* A step of a worker that does not write.                                 *)
LEMMA QuietWorker ==
    ASSUME ThreadInv, NEW w \in Workers, NEW from, NEW to, Worker(w, from, to),
           UNCHANGED <<program, mpc, store, at, ops, jobVars, expired>>,
           to \in {"barrier", "loop", "read", "swap", "get", "judge", "end"},
           \A v \in Workers \ {w} :
              /\ saw'[v] = saw[v] /\ (v \in stale' <=> v \in stale)
              /\ counts'[v] = counts[v] /\ got'[v] = got[v],
           saw' \in [Workers -> Stores], stale' \subseteq Workers,
           counts' \in [Workers -> Nat], DOMAIN got' = Workers,
           tries' \in [Workers -> 0..(MaxTries - 1)],
           raised' \in {raised, raised \cup {w}},
           broken' \in BOOLEAN, program = "snapshot" => ~broken',
           program = "pool" => Busy' = Busy,
           WorkerPlace(w)', Tallied(w)', Seen(w)', StartTogether'
    PROVE  ThreadInv'
<1>1. /\ wpc'[w] = to
      /\ \A v \in Workers \ {w} : wpc'[v] = wpc[v]
      /\ wpc' \in [Workers -> {"new", "barrier", "loop", "read", "swap", "get", "judge", "end"}]
  BY DEF ThreadInv, ThreadTyping, Worker
<1>2. ThreadTyping'
  BY <1>1 DEF ThreadInv, ThreadTyping, jobVars
<1>3. ASSUME NEW v \in Workers PROVE WorkerPlace(v)' /\ Tallied(v)' /\ Seen(v)'
  <2>1. CASE v = w
    BY <2>1
  <2>2. CASE v # w
    <3>1. v \in raised' <=> v \in raised
      BY <2>2
    <3>2. UNCHANGED <<at, job, ops, store>>
      BY DEF jobVars
    <3>3. WorkerPlace(v)'
      BY <1>1, <2>2, <3>1, <3>2 DEF ThreadInv, WorkerPlace, InRound
    <3>4. Tallied(v)' /\ Seen(v)'
      BY <1>1, <2>2, <3>1, <3>2 DEF ThreadInv, Tallied, Seen, InRound, Counted, Goal
    <3> QED
      BY <3>3, <3>4
  <2> QED
    BY <2>1, <2>2
<1>4. AccountsAddUp' /\ CountsAreExact' /\ IsFiniteSet(RoundsOf(ops, Workers))' /\ MainPlace'
  BY DEF ThreadInv, AccountsAddUp, CountsAreExact, MainPlace
<1>5. JobsAccounted' /\ ResultsAreReady'
  BY DEF ThreadInv, JobsAccounted, ResultsAreReady, jobVars
<1> QED
  BY <1>2, <1>3, <1>4, <1>5 DEF ThreadInv

LEMMA StartThreadStep == ASSUME ThreadInv, NEW w \in Workers, StartThread(w) PROVE ThreadInv'
<1>1. PICK to \in {"barrier", "loop"} :
         Worker(w, "new", to) /\ (to = "barrier" <=> HasBarrier)
  BY DEF StartThread
<1>2. /\ UNCHANGED <<program, mpc, store, saw, stale, tries, at, ops, counts, raised, jobVars,
                     got, broken, swings, expired>>
      /\ mpc = "start" /\ wpc[w] = "new"
  BY <1>1 DEF StartThread, roundVars, readerVars, Worker
<1>3. wpc'[w] = to /\ \A v \in Workers \ {w} : wpc'[v] = wpc[v]
  BY <1>1, OneThread DEF Worker
<1>4. Busy' = Busy
  BY <1>1, <1>2, <1>3 DEF Busy, InRound
<1>5. WorkerPlace(w)' /\ Tallied(w)' /\ Seen(w)'
  BY <1>1, <1>2, <1>3 DEF ThreadInv, WorkerPlace, Tallied, Seen, InRound, Counted, Goal, jobVars
<1>6. StartTogether'
  BY <1>1, <1>2, <1>3 DEF ThreadInv, StartTogether, HasBarrier
<1>7. ThreadTyping /\ (program = "snapshot" => ~broken)
  BY DEF ThreadInv, AccountsAddUp
<1> QED
  BY <1>1, <1>2, <1>4, <1>5, <1>6, <1>7, QuietWorker DEF ThreadTyping

LEMMA BarrierOpensStep == ASSUME ThreadInv, BarrierOpens PROVE ThreadInv'
<1>1. /\ wpc' = [w \in Workers |-> IF w \in Waiting THEN "loop" ELSE wpc[w]]
      /\ mpc' = IF mpc = "barrier" THEN "clock" ELSE mpc
      /\ UNCHANGED <<program, stop, store, roundVars, ops, counts, raised, jobVars,
                     readerVars, swings, expired>>
  BY DEF BarrierOpens
<1>2. /\ Waiting \subseteq Workers /\ IsFiniteSet(Waiting)
      /\ Cardinality(Waiting) \in Nat /\ Cardinality(Workers) \in Nat
      /\ Cardinality(Waiting) <= Cardinality(Workers)
      /\ Cardinality(Waiting) = Cardinality(Workers) => Waiting = Workers
  <2>1. Waiting \in SUBSET Workers
    BY DEF Waiting
  <2> QED
    BY <2>1, FS_Subset, FS_CardinalityType, ThreadBounds
<1>3. Waiting = Workers /\ (program = "throughput" <=> mpc = "barrier")
  <2>1. CASE mpc = "barrier"
    BY <1>2, <2>1 DEF ThreadInv, MainPlace, BarrierOpens, Parties
  <2>2. CASE mpc # "barrier"
    BY <1>2, <2>2 DEF BarrierOpens, Parties
  <2> QED
    BY <2>1, <2>2
<1>4. \A w \in Workers : wpc[w] = "barrier" /\ wpc'[w] = "loop"
  BY <1>1, <1>3 DEF Waiting
<1> USE DEF ThreadInv, roundVars, jobVars, readerVars
<1>5. ThreadTyping' /\ MainPlace'
  BY <1>1, <1>4 DEF ThreadTyping, MainPlace
<1>6. ASSUME NEW w \in Workers PROVE WorkerPlace(w)' /\ Tallied(w)' /\ Seen(w)'
  <2>1. mpc' # "done"
    BY <1>1, <1>4 DEF WorkerPlace
  <2> QED
    BY <1>1, <1>4, <2>1 DEF WorkerPlace, Tallied, Seen, InRound, Counted, Goal
<1>7. AccountsAddUp' /\ CountsAreExact' /\ IsFiniteSet(RoundsOf(ops, Workers))'
  BY <1>1 DEF AccountsAddUp, CountsAreExact
<1>8. Busy' = Busy
  BY <1>1, <1>4 DEF Busy, InRound
<1>9. JobsAccounted' /\ ResultsAreReady'
  BY <1>1, <1>8 DEF JobsAccounted, ResultsAreReady
<1>10. StartTogether'
  <2>1. program = "throughput" => mpc' = "clock"
    BY <1>1, <1>3
  <2> QED
    BY <1>1, <1>4, <2>1 DEF StartTogether, HasBarrier
<1> QED
  BY <1>5, <1>6, <1>7, <1>9, <1>10

LEMMA TransferStep == ASSUME ThreadInv, Transfer PROVE ThreadInv'
<1> DEFINE a == store.accounts["account_a"] + (IF swings % 2 = 0 THEN 10 ELSE -10)
           accounts == [k \in Accounts |-> IF k = "account_a" THEN a ELSE 2 * Opening - a]
<1>1. /\ mpc = "write" /\ program \in Readings /\ store \in Stores
      /\ UNCHANGED <<program, mpc, wpc, stop, roundVars, ops, counts, raised, jobVars,
                     readerVars, expired>>
      /\ store' = [store EXCEPT !.accounts = accounts]
  BY DEF Transfer, ThreadInv, ThreadTyping, MainPlace
<1>2. /\ accounts \in [Accounts -> Int]
      /\ accounts["account_a"] + accounts["account_b"] = 2 * Opening
  <2>1. a \in Int
    BY <1>1 DEF Stores, Accounts
  <2> HIDE DEF a
  <2> QED
    BY <2>1 DEF Accounts, Opening
<1> HIDE DEF accounts
<1>3. /\ store' \in Stores /\ store'.accounts = accounts
      /\ store'.counter = store.counter /\ store'.session = store.session
      /\ store'.results = store.results
  BY <1>1, <1>2 DEF Stores
<1> USE DEF ThreadInv, roundVars, jobVars, readerVars
<1>4. ThreadTyping' /\ MainPlace'
  BY <1>1, <1>3 DEF ThreadTyping, MainPlace
<1>5. ASSUME NEW w \in Workers PROVE WorkerPlace(w)' /\ Tallied(w)' /\ Seen(w)'
  BY <1>1 DEF WorkerPlace, Tallied, Seen, InRound, Counted, Goal
<1>6. AccountsAddUp' /\ CountsAreExact' /\ IsFiniteSet(RoundsOf(ops, Workers))'
  BY <1>1, <1>2, <1>3 DEF AccountsAddUp, CountsAreExact
<1>7. JobsAccounted' /\ ResultsAreReady' /\ StartTogether'
  BY <1>1 DEF JobsAccounted, ResultsAreReady, StartTogether, HasBarrier, Readings
<1> QED
  BY <1>4, <1>5, <1>6, <1>7

(* A worker that has begun its loop stays past the barrier.                *)
LEMMA StaysStarted ==
    ASSUME ThreadInv, NEW w \in Workers, NEW from, NEW to, Worker(w, from, to),
           from \notin {"new", "barrier"}, to \notin {"new", "barrier"},
           UNCHANGED <<program, mpc>>
    PROVE  StartTogether'
<1>1. wpc[w] = from /\ wpc'[w] = to /\ \A v \in Workers \ {w} : wpc'[v] = wpc[v]
  BY OneThread DEF Worker
<1> QED
  BY <1>1 DEF ThreadInv, StartTogether, HasBarrier

LEMMA Continuing ==
    ASSUME NEW w \in Workers
    PROVE  /\ Counted => (Continues(w) <=> ops[w] < Goal)
           /\ program = "pool" => (Continues(w) <=> queue > 0)
BY DEF Counted, Goal, Continues

LEMMA BeginRoundStep == ASSUME ThreadInv, NEW w \in Workers, BeginRound(w) PROVE ThreadInv'
<1>1. PICK to \in {"get", "read"} : Worker(w, "loop", to) /\ (to = "get" <=> program \in Readings)
  BY DEF BeginRound
<1>2. /\ UNCHANGED <<program, mpc, store, saw, stale, tries, at, ops, counts, raised,
                     got, broken, expired>>
      /\ wpc[w] = "loop" /\ Continues(w)
      /\ ThreadTyping /\ WorkerPlace(w) /\ Tallied(w) /\ Seen(w)
      /\ program = "snapshot" => ~broken
  BY <1>1 DEF BeginRound, roundVars, readerVars, Worker, ThreadInv, AccountsAddUp
<1>3. wpc'[w] = to /\ \A v \in Workers \ {w} : wpc'[v] = wpc[v]
  BY <1>1, OneThread DEF Worker
<1>4. StartTogether'
  BY <1>1, <1>2, StaysStarted
<1>5. Tallied(w)' /\ Seen(w)'
  <2>1. Counted => ops[w] < Goal
    BY <1>2, Continuing
  <2> QED
    BY <1>2, <1>3, <2>1 DEF WorkerPlace, Tallied, Seen, InRound, Counted, Goal
<1>6. w \notin Busy
  BY <1>2 DEF Busy, InRound, WorkerPlace
<1>7. CASE program # "pool"
  <2>1. UNCHANGED jobVars
    BY <1>7 DEF BeginRound
  <2>2. WorkerPlace(w)'
    BY <1>1, <1>2, <1>3, <1>7 DEF WorkerPlace, InRound
  <2> QED
    BY <1>1, <1>2, <1>4, <1>5, <1>7, <2>1, <2>2, QuietWorker DEF ThreadTyping
<1>8. CASE program = "pool"
  <2>1. /\ job' = [job EXCEPT ![w] = queue] /\ queue' = queue - 1
        /\ queue \in 1..Jobs /\ to = "read"
    <3>1. queue > 0 /\ queue \in 0..Jobs
      BY <1>2, <1>8, Continuing DEF ThreadTyping
    <3> QED
      BY <1>1, <1>8, <3>1, ThreadBounds DEF BeginRound, Readings
  <2>2. /\ job' \in [Workers -> 0..Jobs] /\ queue' \in 0..Jobs
        /\ job'[w] = queue /\ \A v \in Workers \ {w} : job'[v] = job[v]
    <3>1. queue \in 0..Jobs /\ queue' \in 0..Jobs
      BY <2>1, ThreadBounds
    <3> QED
      BY <1>2, <2>1, <3>1 DEF ThreadTyping
  <2>3. ThreadTyping'
    BY <1>1, <1>2, <2>2 DEF ThreadTyping, Worker
  <2>4. ASSUME NEW v \in Workers PROVE WorkerPlace(v)' /\ Tallied(v)' /\ Seen(v)'
    <3>1. CASE v = w
      <4>1. WorkerPlace(w)'
        BY <1>2, <1>3, <1>8, <2>1, <2>2 DEF WorkerPlace, InRound, Readings
      <4> QED
        BY <1>5, <3>1, <4>1
    <3>2. CASE v # w
      <4>1. wpc[v] = "swap" => v \in stale' \/ (store' = store /\ v \notin stale)
        BY <1>2
      <4> QED
        BY <1>2, <1>3, <2>2, <3>2, <4>1, OtherWorkers DEF ThreadTyping
    <3> QED
      BY <3>1, <3>2
  <2>5. IsFiniteSet(Busy) /\ Cardinality(Busy) \in Nat
    <3>1. Busy \in SUBSET Workers
      BY <1>2 DEF ThreadTyping, Busy
    <3> QED
      BY <3>1, FS_Subset, FS_CardinalityType, ThreadBounds
  <2>6. Busy' = Busy \cup {w}
    BY <1>2, <1>3, <2>1 DEF Busy, InRound
  <2>7. Cardinality(Busy') = Cardinality(Busy) + 1
    BY <1>6, <2>5, <2>6, FS_AddElement
  <2>8. JobsAccounted'
    <3>1. store.counter + Cardinality(Busy) = Jobs - queue /\ store.counter \in Nat
      BY <1>2, <1>8 DEF ThreadInv, JobsAccounted, ThreadTyping, Stores
    <3>2. store.counter + Cardinality(Busy') = Jobs - queue'
      BY <2>1, <2>5, <2>7, <3>1, ThreadBounds
    <3>3. ASSUME NEW j \in (queue' + 1)..Jobs
          PROVE  j \in store.results \/ \E v \in Busy' : at[v] = 1 /\ job'[v] = j
      <4>1. CASE j = queue
        BY <1>2, <2>2, <2>6, <4>1 DEF WorkerPlace, InRound
      <4>2. CASE j # queue
        <5>1. j \in (queue + 1)..Jobs
          BY <2>1, <3>3, <4>2, ThreadBounds
        <5>2. j \in store.results \/ \E v \in Busy : at[v] = 1 /\ job[v] = j
          BY <1>8, <5>1 DEF ThreadInv, JobsAccounted
        <5>3. Busy \subseteq Workers
          BY <1>2 DEF ThreadTyping, Busy
        <5> QED
          BY <1>6, <2>2, <2>6, <5>2, <5>3
      <4> QED
        BY <4>1, <4>2
    <3> QED
      BY <1>2, <3>2, <3>3 DEF JobsAccounted
  <2>9. /\ MainPlace' /\ AccountsAddUp' /\ CountsAreExact' /\ ResultsAreReady'
        /\ IsFiniteSet(RoundsOf(ops, Workers))'
    BY <1>2 DEF ThreadInv, MainPlace, AccountsAddUp, CountsAreExact, ResultsAreReady
  <2> QED
    BY <1>4, <2>3, <2>4, <2>8, <2>9 DEF ThreadInv
<1> QED
  BY <1>7, <1>8

LEMMA EndLoopStep == ASSUME ThreadInv, NEW w \in Workers, EndLoop(w) PROVE ThreadInv'
<1>1. /\ UNCHANGED <<program, mpc, store, saw, stale, tries, at, ops, raised, jobVars,
                     got, broken, expired>>
      /\ Worker(w, "loop", "end") /\ wpc[w] = "loop" /\ ~Continues(w)
      /\ counts' = [counts EXCEPT ![w] = ops[w]]
      /\ ThreadTyping /\ WorkerPlace(w) /\ Tallied(w) /\ Seen(w)
      /\ program = "snapshot" => ~broken
  BY DEF EndLoop, Tally, roundVars, readerVars, Worker, ThreadInv, AccountsAddUp
<1>2. wpc'[w] = "end" /\ \A v \in Workers \ {w} : wpc'[v] = wpc[v]
  BY <1>1, OneThread DEF Worker
<1>3. StartTogether'
  BY <1>1, StaysStarted
<1>4. w \notin raised /\ (Counted => ops[w] = Goal) /\ ops[w] \in Nat
  <2>1. w \notin raised /\ ops[w] \in Nat
    BY <1>1 DEF WorkerPlace, ThreadTyping
  <2>2. Goal \in Nat
    BY ThreadBounds DEF Goal
  <2>3. Counted => ops[w] <= Goal /\ ~(ops[w] < Goal)
    BY <1>1, Continuing DEF Tallied
  <2> QED
    BY <2>1, <2>2, <2>3
<1>5. /\ counts' \in [Workers -> Nat] /\ counts'[w] = ops[w]
      /\ \A v \in Workers \ {w} : counts'[v] = counts[v]
  BY <1>1, <1>4 DEF ThreadTyping
<1>6. Busy' = Busy
  BY <1>1, <1>2 DEF Busy, InRound
<1>7. WorkerPlace(w)' /\ Seen(w)'
  BY <1>1, <1>2 DEF WorkerPlace, Seen, InRound, jobVars
<1>8. Tallied(w)'
  BY <1>1, <1>2, <1>4, <1>5 DEF Tallied, InRound, Counted, Goal
<1> QED
  BY <1>1, <1>3, <1>5, <1>6, <1>7, <1>8, QuietWorker DEF ThreadTyping

LEMMA SwapLostStep == ASSUME ThreadInv, NEW w \in Workers, SwapLost(w) PROVE ThreadInv'
<1>1. /\ UNCHANGED <<program, mpc, store, saw, stale, at, ops, counts, raised, jobVars,
                     got, broken, expired>>
      /\ Worker(w, "swap", "read") /\ wpc[w] = "swap"
      /\ tries' = [tries EXCEPT ![w] = tries[w] + 1] /\ tries[w] + 1 # MaxTries
      /\ ThreadTyping /\ WorkerPlace(w) /\ Tallied(w) /\ Seen(w)
      /\ program = "snapshot" => ~broken
  BY DEF SwapLost, OutOfTries, readerVars, Worker, ThreadInv, AccountsAddUp
<1>2. wpc'[w] = "read" /\ \A v \in Workers \ {w} : wpc'[v] = wpc[v]
  BY <1>1, OneThread DEF Worker
<1>3. StartTogether'
  BY <1>1, StaysStarted
<1>4. tries' \in [Workers -> 0..(MaxTries - 1)]
  <2>1. tries[w] \in 0..(MaxTries - 1)
    BY <1>1 DEF ThreadTyping
  <2>2. tries[w] + 1 \in 0..(MaxTries - 1)
    BY <1>1, <2>1, ThreadBounds
  <2> QED
    BY <1>1, <2>2 DEF ThreadTyping
<1>5. Busy' = Busy
  BY <1>1, <1>2 DEF Busy, InRound
<1>6. WorkerPlace(w)' /\ Tallied(w)' /\ Seen(w)'
  BY <1>1, <1>2 DEF WorkerPlace, Tallied, Seen, InRound, Counted, Goal, jobVars
<1> QED
  BY <1>1, <1>3, <1>4, <1>5, <1>6, QuietWorker DEF ThreadTyping

LEMMA RaiseStep == ASSUME ThreadInv, NEW w \in Workers, Raise(w) PROVE ThreadInv'
<1>1. /\ UNCHANGED <<program, mpc, store, saw, stale, tries, at, ops, counts, jobVars,
                     got, broken, expired>>
      /\ Worker(w, "swap", "end") /\ wpc[w] = "swap" /\ raised' = raised \cup {w}
      /\ ThreadTyping /\ WorkerPlace(w) /\ Tallied(w) /\ Seen(w)
      /\ program = "snapshot" => ~broken
  BY DEF Raise, roundVars, readerVars, Worker, ThreadInv, AccountsAddUp
<1>2. wpc'[w] = "end" /\ \A v \in Workers \ {w} : wpc'[v] = wpc[v]
  BY <1>1, OneThread DEF Worker
<1>3. StartTogether'
  BY <1>1, StaysStarted
<1>4. Busy' = Busy
  BY <1>1, <1>2 DEF Busy, InRound
<1>5. WorkerPlace(w)' /\ Tallied(w)' /\ Seen(w)'
  BY <1>1, <1>2 DEF WorkerPlace, Tallied, Seen, InRound, Counted, Goal, jobVars
<1> QED
  BY <1>1, <1>3, <1>4, <1>5, QuietWorker DEF ThreadTyping

LEMMA ReadAccountsStep == ASSUME ThreadInv, NEW w \in Workers, ReadAccounts(w) PROVE ThreadInv'
<1> DEFINE g == [k \in Reads(w) \cup DOMAIN got[w] |->
                   IF k \in Reads(w) THEN store.accounts[k] ELSE got[w][k]]
<1>1. /\ UNCHANGED <<program, mpc, store, saw, stale, tries, at, ops, counts, raised, jobVars,
                     broken, expired>>
      /\ wpc[w] = "get" /\ program \in Readings
      /\ got' = [got EXCEPT ![w] = g]
      /\ ThreadTyping /\ WorkerPlace(w) /\ Tallied(w) /\ Seen(w)
      /\ AccountsAddUp /\ (program = "snapshot" => ~broken)
  BY DEF ReadAccounts, roundVars, ThreadInv, WorkerPlace, AccountsAddUp
<1> HIDE DEF g
<1>2. got'[w] = g /\ DOMAIN got' = Workers /\ \A v \in Workers \ {w} : got'[v] = got[v]
  BY <1>1 DEF ThreadTyping
<1> DEFINE to == IF DOMAIN g = Accounts THEN "judge" ELSE "get"
<1>3. Worker(w, "get", to)
  BY <1>1, <1>2 DEF ReadAccounts, Worker
<1>4. wpc'[w] = to /\ \A v \in Workers \ {w} : wpc'[v] = wpc[v]
  BY <1>3, OneThread DEF Worker
<1>5. ASSUME program = "snapshot"
      PROVE  to = "judge" /\ g["account_a"] + g["account_b"] = 2 * Opening
  <2>1. got[w] = Nothing /\ Reads(w) = Accounts
    BY <1>1, <1>5 DEF Seen, Reads
  <2>2. g = [k \in Accounts |-> store.accounts[k]]
    <3>1. DOMAIN got[w] = {}
      BY <2>1 DEF Nothing
    <3> QED
      BY <2>1, <3>1 DEF g
  <2> QED
    BY <1>1, <2>2 DEF Accounts, AccountsAddUp
<1>6. to \in {"judge", "get"}
  OBVIOUS
<1> HIDE DEF to
<1>7. StartTogether'
  BY <1>1, <1>3, <1>6, StaysStarted
<1>8. Busy' = Busy
  BY <1>1, <1>4, <1>6 DEF Busy, InRound
<1>9. WorkerPlace(w)' /\ Tallied(w)'
  BY <1>1, <1>4, <1>6 DEF WorkerPlace, Tallied, InRound, Counted, Goal, jobVars
<1>10. Seen(w)'
  BY <1>1, <1>2, <1>4, <1>5 DEF Seen
<1> QED
  BY <1>1, <1>2, <1>3, <1>6, <1>7, <1>8, <1>9, <1>10, QuietWorker DEF ThreadTyping

LEMMA JudgeSumStep == ASSUME ThreadInv, NEW w \in Workers, JudgeSum(w) PROVE ThreadInv'
<1>1. /\ UNCHANGED <<program, mpc, store, saw, stale, tries, at, ops, counts, raised, jobVars,
                     expired>>
      /\ Worker(w, "judge", "loop") /\ wpc[w] = "judge" /\ program \in Readings
      /\ broken' = (broken \/ got[w]["account_a"] + got[w]["account_b"] # 2 * Opening)
      /\ got' = [got EXCEPT ![w] = Nothing]
      /\ ThreadTyping /\ WorkerPlace(w) /\ Tallied(w) /\ Seen(w)
      /\ program = "snapshot" => ~broken
  BY DEF JudgeSum, roundVars, Worker, ThreadInv, WorkerPlace, AccountsAddUp
<1>2. wpc'[w] = "loop" /\ \A v \in Workers \ {w} : wpc'[v] = wpc[v]
  BY <1>1, OneThread DEF Worker
<1>3. got'[w] = Nothing /\ DOMAIN got' = Workers /\ \A v \in Workers \ {w} : got'[v] = got[v]
  BY <1>1 DEF ThreadTyping
<1>4. broken' \in BOOLEAN /\ (program = "snapshot" => ~broken')
  BY <1>1 DEF Seen
<1>5. StartTogether'
  BY <1>1, StaysStarted
<1>6. Busy' = Busy
  BY <1>1, <1>2 DEF Busy, InRound
<1>7. WorkerPlace(w)' /\ Tallied(w)' /\ Seen(w)'
  BY <1>1, <1>2, <1>3 DEF WorkerPlace, Tallied, Seen, InRound, Counted, Goal, jobVars
<1> QED
  BY <1>1, <1>3, <1>4, <1>5, <1>6, <1>7, QuietWorker DEF ThreadTyping

LEMMA SessionExpiresStep == ASSUME ThreadInv, SessionExpires PROVE ThreadInv'
<1>1. /\ program = "session" /\ expired' = TRUE
      /\ store' = [store EXCEPT !.session = Missing]
      /\ stale' = {v \in Workers : wpc[v] = "swap"}
      /\ UNCHANGED <<program, mpc, wpc, saw, tries, at, ops, counts, raised, jobVars,
                     got, broken>>
      /\ ThreadTyping
  BY DEF SessionExpires, readerVars, ThreadInv
<1>2. /\ store' \in Stores /\ store'.session = Missing
      /\ store'.counter = store.counter /\ store'.accounts = store.accounts
  BY <1>1 DEF ThreadTyping, Stores
<1>3. ThreadTyping'
  BY <1>1, <1>2 DEF ThreadTyping, jobVars
<1>4. ASSUME NEW w \in Workers PROVE WorkerPlace(w)' /\ Tallied(w)' /\ Seen(w)'
  BY <1>1, <1>3, OtherWorkers DEF ThreadTyping, jobVars
<1>5. MainPlace' /\ AccountsAddUp' /\ StartTogether' /\ IsFiniteSet(RoundsOf(ops, Workers))'
  BY <1>1, <1>2 DEF ThreadInv, MainPlace, AccountsAddUp, StartTogether, HasBarrier
<1>6. CountsAreExact' /\ JobsAccounted' /\ ResultsAreReady'
  BY <1>1, <1>2 DEF CountsAreExact, JobsAccounted, ResultsAreReady
<1> QED
  BY <1>3, <1>4, <1>5, <1>6 DEF ThreadInv

-----------------------------------------------------------------------------
(* Writes                                                                  *)

(* Which of the writes a worker is at, and what comes after it.            *)
LEMMA WriteKinds ==
    ASSUME ThreadInv, NEW w \in Workers, InRound(w), Advance(w)
    PROVE  /\ program = "pool" /\ at[w] = 1 =>
                /\ \A s \in Stores : Made(w, s) = [s EXCEPT !.results = s.results \cup {job[w]}]
                /\ wpc' = [wpc EXCEPT ![w] = "read"]
                /\ at' = [at EXCEPT ![w] = 2] /\ ops' = ops
           /\ ~(program = "pool" /\ at[w] = 1) =>
                /\ wpc' = [wpc EXCEPT ![w] = "loop"]
                /\ at' = [at EXCEPT ![w] = 1] /\ ops' = [ops EXCEPT ![w] = ops[w] + 1]
           /\ program # "session" /\ ~(program = "pool" /\ at[w] = 1) =>
                \A s \in Stores : Made(w, s) = [s EXCEPT !.counter = s.counter + 1]
           /\ program = "session" =>
                \A s \in Stores : Made(w, s) = [s EXCEPT !.session = Bump(s.session)]
<1>1. at[w] \in {1, 2} /\ (program # "pool" => at[w] = 1)
  <2>1. at[w] \in 1..2
    BY DEF ThreadInv, ThreadTyping
  <2>2. program # "pool" => at[w] = 1
    BY DEF ThreadInv, WorkerPlace
  <2> QED
    BY <2>1, <2>2
<1>2. CASE program = "pool"
  <2>1. Writes = <<"result", "count">> /\ Len(Writes) = 2
    BY <1>2 DEF Writes
  <2>2. CASE at[w] = 1
    <3>1. Writes[at[w]] = "result" /\ at[w] < Len(Writes)
      BY <2>1, <2>2
    <3>2. \A s \in Stores : Made(w, s) = [s EXCEPT !.results = s.results \cup {job[w]}]
      BY <3>1 DEF Made
    <3> QED
      BY <1>2, <2>2, <3>1, <3>2 DEF Advance
  <2>3. CASE at[w] = 2
    <3>1. Writes[at[w]] = "count" /\ ~(at[w] < Len(Writes))
      BY <2>1, <2>3
    <3>2. \A s \in Stores : Made(w, s) = [s EXCEPT !.counter = s.counter + 1]
      BY <3>1 DEF Made
    <3> QED
      BY <1>2, <2>3, <3>1, <3>2 DEF Advance
  <2> QED
    BY <1>1, <2>2, <2>3
<1>3. CASE program = "session"
  <2>1. Writes = <<"bump">> /\ Len(Writes) = 1 /\ Writes[at[w]] = "bump"
    BY <1>1, <1>3 DEF Writes
  <2>2. \A s \in Stores : Made(w, s) = [s EXCEPT !.session = Bump(s.session)]
    BY <2>1 DEF Made
  <2> QED
    BY <1>1, <1>3, <2>1, <2>2 DEF Advance
<1>4. CASE program \notin {"pool", "session"}
  <2>1. Writes = <<"count">> /\ Len(Writes) = 1 /\ Writes[at[w]] = "count"
    BY <1>1, <1>4 DEF Writes
  <2>2. \A s \in Stores : Made(w, s) = [s EXCEPT !.counter = s.counter + 1]
    BY <2>1 DEF Made
  <2> QED
    BY <1>1, <1>4, <2>1, <2>2 DEF Advance
<1> QED
  BY <1>2, <1>3, <1>4

(* A write made, or found to change nothing: what a worker has to do with  *)
(* the store.                                                              *)
LEMMA WritingStep ==
    ASSUME ThreadInv, NEW w \in Workers, InRound(w), Advance(w),
           store' = Made(w, store),
           UNCHANGED <<program, mpc, counts, raised, jobVars, readerVars, expired>>,
           saw' \in [Workers -> Stores], stale' \subseteq Workers,
           \A v \in Workers \ {w} :
              /\ saw'[v] = saw[v]
              /\ wpc[v] = "swap" => v \in stale' \/ (store' = store /\ v \notin stale)
    PROVE  ThreadInv'
<1> DEFINE First == program = "pool" /\ at[w] = 1
<1>1. /\ ThreadTyping /\ WorkerPlace(w) /\ Tallied(w) /\ Seen(w) /\ AccountsAddUp
      /\ store \in Stores /\ program \notin Readings /\ CountsAreExact
      /\ IsFiniteSet(RoundsOf(ops, Workers)) /\ w \notin raised
  BY DEF ThreadInv, ThreadTyping, WorkerPlace, InRound
<1>2. /\ program = "pool" => job[w] \in 1..Jobs
      /\ wpc[w] \notin {"new", "barrier", "end"} /\ mpc # "done"
  BY <1>1 DEF WorkerPlace, InRound
<1>3. /\ wpc' = [wpc EXCEPT ![w] = IF First THEN "read" ELSE "loop"]
      /\ at' = [at EXCEPT ![w] = IF First THEN 2 ELSE 1]
      /\ ops' = IF First THEN ops ELSE [ops EXCEPT ![w] = ops[w] + 1]
      /\ tries' = [tries EXCEPT ![w] = 0]
  BY WriteKinds DEF Advance
<1>4. /\ First => store' = [store EXCEPT !.results = store.results \cup {job[w]}]
      /\ program # "session" /\ ~First => store' = [store EXCEPT !.counter = store.counter + 1]
      /\ program = "session" => store' = [store EXCEPT !.session = Bump(store.session)]
  BY <1>1, WriteKinds
<1>5. First \/ program = "session" \/ (program # "session" /\ ~First)
  OBVIOUS
<1>6. /\ store' \in Stores /\ store'.accounts = store.accounts
      /\ store.results \subseteq store'.results
      /\ First => /\ store'.results = store.results \cup {job[w]}
                  /\ store'.counter = store.counter
      /\ program # "session" /\ ~First => /\ store'.counter = store.counter + 1
                                          /\ store'.results = store.results
      /\ program = "session" => store'.session = Bump(store.session)
  <2>1. CASE First
    BY <1>1, <1>2, <1>4, <2>1 DEF Stores
  <2>2. CASE program # "session" /\ ~First
    BY <1>1, <1>4, <2>2 DEF Stores
  <2>3. CASE program = "session"
    <3>1. Bump(store.session) \in Nat \cup {None, Missing}
      BY <1>1 DEF Bump, Stores, None, Missing
    <3> QED
      BY <1>1, <1>4, <2>3, <3>1 DEF Stores
  <2> QED
    BY <1>5, <2>1, <2>2, <2>3
<1>7. /\ wpc'[w] = (IF First THEN "read" ELSE "loop")
      /\ at'[w] = (IF First THEN 2 ELSE 1)
      /\ ops'[w] = (IF First THEN ops[w] ELSE ops[w] + 1)
      /\ \A v \in Workers \ {w} : wpc'[v] = wpc[v] /\ at'[v] = at[v] /\ ops'[v] = ops[v]
      /\ at' \in [Workers -> 1..2] /\ ops' \in [Workers -> Nat]
      /\ wpc' \in [Workers -> {"new", "barrier", "loop", "read", "swap", "get", "judge", "end"}]
  <2>1. /\ wpc'[w] = (IF First THEN "read" ELSE "loop")
        /\ \A v \in Workers \ {w} : wpc'[v] = wpc[v]
        /\ wpc' \in [Workers -> {"new", "barrier", "loop", "read", "swap", "get", "judge", "end"}]
    BY <1>1, <1>3 DEF ThreadTyping
  <2>2. /\ at'[w] = (IF First THEN 2 ELSE 1)
        /\ \A v \in Workers \ {w} : at'[v] = at[v]
        /\ at' \in [Workers -> 1..2]
    <3> DEFINE n == IF First THEN 2 ELSE 1
    <3>1. n \in 1..2
      OBVIOUS
    <3>a. at' = [at EXCEPT ![w] = n]
      BY <1>3
    <3>b. at \in [Workers -> 1..2]
      BY <1>1 DEF ThreadTyping
    <3> HIDE DEF n
    <3>2. at'[w] = n /\ (\A v \in Workers \ {w} : at'[v] = at[v]) /\ at' \in [Workers -> 1..2]
      BY <3>1, <3>a, <3>b
    <3> QED
      BY <3>2 DEF n
  <2>3. /\ ops'[w] = (IF First THEN ops[w] ELSE ops[w] + 1)
        /\ \A v \in Workers \ {w} : ops'[v] = ops[v]
        /\ ops' \in [Workers -> Nat]
    <3>1. ops \in [Workers -> Nat] /\ ops[w] \in Nat
      BY <1>1 DEF ThreadTyping
    <3> QED
      BY <1>3, <3>1
  <2> QED
    BY <2>1, <2>2, <2>3
<1>8. tries' \in [Workers -> 0..(MaxTries - 1)]
  <2>1. 0 \in 0..(MaxTries - 1)
    BY ThreadBounds
  <2> QED
    BY <1>1, <1>3, <2>1 DEF ThreadTyping
<1> HIDE DEF First
<1>9. ThreadTyping' /\ MainPlace'
  BY <1>1, <1>6, <1>7, <1>8 DEF ThreadInv, ThreadTyping, MainPlace, jobVars, readerVars
<1>10. ASSUME NEW v \in Workers PROVE WorkerPlace(v)' /\ Tallied(v)' /\ Seen(v)'
  <2>1. CASE v # w
    <3>1. saw'[v] = saw[v] /\ (wpc[v] = "swap" => v \in stale' \/ (store' = store /\ v \notin stale))
      BY <2>1
    <3> QED
      BY <1>1, <1>7, <2>1, <3>1, OtherWorkers DEF ThreadTyping, jobVars, readerVars
  <2>2. CASE v = w
    <3>1. WorkerPlace(w)'
      BY <1>1, <1>2, <1>7 DEF First, WorkerPlace, InRound, jobVars
    <3>2. Tallied(w)'
      <4>1. ops[w] \in Nat /\ Goal \in Nat /\ Goal' = Goal
        BY <1>1, ThreadBounds DEF ThreadTyping, Goal
      <4>2. Counted => ~First /\ ops[w] < Goal
        BY <1>1 DEF Tallied, Counted, First
      <4> QED
        BY <1>1, <1>2, <1>7, <4>1, <4>2 DEF Tallied, InRound, Counted
    <3>3. Seen(w)'
      BY <1>1 DEF Seen, Readings
    <3> QED
      BY <2>2, <3>1, <3>2, <3>3
  <2> QED
    BY <2>1, <2>2
<1>11. CountsAreExact' /\ IsFiniteSet(RoundsOf(ops, Workers))'
  <2>1. CASE First
    <3>1. ops' = ops /\ program = "pool"
      BY <1>3, <2>1 DEF First
    <3> QED
      BY <1>1, <1>6, <2>1, <3>1 DEF CountsAreExact
  <2>2. CASE ~First
    <3>1. /\ IsFiniteSet(RoundsOf(ops', Workers)) /\ Total(ops') = Total(ops) + 1
      <4>1. ops \in [Workers -> Nat] /\ ops' \in [Workers -> Nat]
        BY <1>1, <1>7 DEF ThreadTyping
      <4>2. ops'[w] = ops[w] + 1 /\ \A v \in Workers \ {w} : ops'[v] = ops[v]
        BY <1>7, <2>2
      <4> QED
        BY <1>1, <4>1, <4>2, OneMoreRound
    <3>2. Total(ops) \in Nat
      BY <1>1, FS_CardinalityType DEF Total
    <3>3. CASE program # "session"
      BY <1>1, <1>6, <2>2, <3>1, <3>3 DEF CountsAreExact
    <3>4. CASE program = "session"
      BY <1>1, <1>6, <3>1, <3>2, <3>4 DEF CountsAreExact, Bump, None, Missing
    <3> QED
      BY <3>1, <3>3, <3>4
  <2> QED
    BY <2>1, <2>2
<1>12. AccountsAddUp'
  BY <1>1, <1>6 DEF AccountsAddUp, readerVars
<1>13. StartTogether'
  BY <1>2, <1>7 DEF ThreadInv, StartTogether, HasBarrier
<1>14. JobsAccounted'
  <2> SUFFICES ASSUME program = "pool" PROVE JobsAccounted'
    BY DEF JobsAccounted
  <2>1. /\ store.counter + Cardinality(Busy) = Jobs - queue /\ store.counter \in Nat
        /\ queue \in 0..Jobs /\ UNCHANGED <<queue, job, program>>
        /\ \A j \in (queue + 1)..Jobs :
              j \in store.results \/ \E v \in Busy : at[v] = 1 /\ job[v] = j
    BY <1>1 DEF ThreadInv, JobsAccounted, ThreadTyping, Stores, jobVars
  <2>2. Busy \subseteq Workers /\ w \in Busy
    BY <1>1 DEF ThreadTyping, Busy
  <2>3. CASE First
    <3>1. Busy' = Busy
      BY <1>1, <1>7, <2>3 DEF Busy, InRound
    <3>2. ASSUME NEW j \in (queue + 1)..Jobs
          PROVE  j \in store'.results \/ \E v \in Busy : at'[v] = 1 /\ job[v] = j
      BY <1>6, <1>7, <2>1, <2>2, <2>3
    <3> QED
      BY <1>6, <2>1, <2>3, <3>1, <3>2 DEF JobsAccounted
  <2>4. CASE ~First
    <3>1. Busy' = Busy \ {w}
      BY <1>1, <1>7, <2>2, <2>4 DEF Busy, InRound
    <3>2. IsFiniteSet(Busy) /\ Cardinality(Busy) \in Nat
      BY <2>2, FS_Subset, FS_CardinalityType, ThreadBounds
    <3>3. Cardinality(Busy') = Cardinality(Busy) - 1
      BY <2>2, <3>1, <3>2, FS_RemoveElement
    <3>4. store'.counter + Cardinality(Busy') = Jobs - queue
      BY <1>6, <2>1, <2>4, <3>2, <3>3, ThreadBounds
    <3>5. at[w] # 1
      BY <2>4 DEF First
    <3>6. ASSUME NEW j \in (queue + 1)..Jobs
          PROVE  j \in store'.results \/ \E v \in Busy' : at'[v] = 1 /\ job[v] = j
      BY <1>6, <1>7, <2>1, <2>2, <3>1, <3>5
    <3> QED
      BY <2>1, <3>4, <3>6 DEF JobsAccounted
  <2> QED
    BY <2>3, <2>4
<1>15. ResultsAreReady'
  <2>1. store'.results \subseteq 1..Jobs
    BY <1>6 DEF Stores
  <2> QED
    BY <1>6, <2>1 DEF ThreadInv, ResultsAreReady
<1> QED
  BY <1>9, <1>10, <1>11, <1>12, <1>13, <1>14, <1>15 DEF ThreadInv

LEMMA ReadSnapshotStep == ASSUME ThreadInv, NEW w \in Workers, ReadSnapshot(w) PROVE ThreadInv'
<1>1. /\ UNCHANGED <<program, mpc, store, counts, raised, jobVars, got, broken, expired>>
      /\ saw' = [saw EXCEPT ![w] = store] /\ stale' = stale \ {w}
      /\ wpc[w] = "read" /\ InRound(w)
      /\ ThreadTyping /\ WorkerPlace(w) /\ Tallied(w) /\ Seen(w)
      /\ program = "snapshot" => ~broken
  BY DEF ReadSnapshot, readerVars, ThreadInv, AccountsAddUp, InRound
<1>2. /\ saw' \in [Workers -> Stores] /\ stale' \subseteq Workers
      /\ saw'[w] = store
      /\ \A v \in Workers \ {w} : saw'[v] = saw[v] /\ (v \in stale' <=> v \in stale)
  BY <1>1 DEF ThreadTyping
<1>3. CASE Made(w, store) = store
  <2>1. Advance(w) /\ store' = Made(w, store)
    BY <1>1, <1>3 DEF ReadSnapshot
  <2> QED
    BY <1>1, <1>2, <2>1, WritingStep DEF readerVars
<1>4. CASE Made(w, store) # store
  <2>1. Worker(w, "read", "swap") /\ UNCHANGED <<tries, at, ops>>
    BY <1>4 DEF ReadSnapshot
  <2>2. wpc'[w] = "swap" /\ \A v \in Workers \ {w} : wpc'[v] = wpc[v]
    BY <2>1, OneThread DEF Worker
  <2>3. StartTogether'
    BY <1>1, <2>1, StaysStarted
  <2>4. Busy' = Busy
    BY <1>1, <2>2 DEF Busy, InRound
  <2>5. WorkerPlace(w)' /\ Tallied(w)' /\ Seen(w)'
    BY <1>1, <1>2, <2>1, <2>2 DEF WorkerPlace, Tallied, Seen, InRound, Counted, Goal, jobVars
  <2> QED
    BY <1>1, <1>2, <2>1, <2>3, <2>4, <2>5, QuietWorker DEF ThreadTyping
<1> QED
  BY <1>3, <1>4

LEMMA SwapStep == ASSUME ThreadInv, NEW w \in Workers, Swap(w) PROVE ThreadInv'
<1>1. /\ UNCHANGED <<program, mpc, saw, counts, raised, jobVars, readerVars, expired>>
      /\ wpc[w] = "swap" /\ w \notin stale /\ InRound(w) /\ Advance(w)
      /\ store' = Made(w, saw[w]) /\ stale' = {v \in Workers : wpc[v] = "swap"} \ {w}
      /\ ThreadTyping /\ WorkerPlace(w)
  BY DEF Swap, Unchanged, ThreadInv, InRound
<1>2. store' = Made(w, store)
  BY <1>1 DEF WorkerPlace
<1>3. saw' \in [Workers -> Stores] /\ stale' \subseteq Workers
  BY <1>1 DEF ThreadTyping
<1> QED
  BY <1>1, <1>2, <1>3, WritingStep

-----------------------------------------------------------------------------
LEMMA NextThreadInv == ThreadInv /\ [ThreadNext]_threadVars => ThreadInv'
<1> SUFFICES ASSUME ThreadInv, [ThreadNext]_threadVars PROVE ThreadInv'
  OBVIOUS
<1>1. CASE MainStep
  BY <1>1, StartThreadStep, MainSteps, TransferStep DEF MainStep
<1>2. ASSUME NEW w \in Workers, WorkerStep(w) PROVE ThreadInv'
  BY <1>2, BeginRoundStep, EndLoopStep, ReadSnapshotStep, SwapStep, SwapLostStep, RaiseStep,
     ReadAccountsStep, JudgeSumStep DEF WorkerStep
<1>3. CASE UNCHANGED threadVars
  <2> USE <1>3 DEF threadVars, roundVars, jobVars, readerVars, ThreadInv
  <2>1. ThreadTyping' /\ MainPlace'
    BY DEF ThreadTyping, MainPlace
  <2>2. ASSUME NEW w \in Workers PROVE WorkerPlace(w)' /\ Tallied(w)' /\ Seen(w)'
    BY DEF WorkerPlace, Tallied, Seen, InRound, Counted, Goal
  <2>3. /\ AccountsAddUp' /\ CountsAreExact' /\ StartTogether' /\ ResultsAreReady'
        /\ IsFiniteSet(RoundsOf(ops, Workers))'
    BY DEF AccountsAddUp, CountsAreExact, StartTogether, HasBarrier, ResultsAreReady
  <2>4. JobsAccounted'
    BY DEF JobsAccounted, Busy, InRound
  <2> QED
    BY <2>1, <2>2, <2>3, <2>4
<1> QED
  BY <1>1, <1>2, <1>3, BarrierOpensStep, SessionExpiresStep DEF ThreadNext

THEOREM ThreadInvariance == ThreadSpec => []ThreadInv
BY ThreadInit1, NextThreadInv, PTL DEF ThreadSpec

(* No thread is out of place and no write beyond its tries, for any number *)
(* of threads, rounds, jobs and retries (b01, b02, worker_pool.py).        *)
THEOREM ThreadsTyping == ThreadSpec => []ThreadsTypeOK
<1>1. ThreadInv => ThreadsTypeOK
  BY DEF ThreadInv, ThreadTyping, WorkerPlace, ThreadsTypeOK, Stores
<1> QED
  BY <1>1, ThreadInvariance, PTL

(* The counter is the number of completed increments, and the session that *)
(* of its touches until it expires, whatever races are lost (b01, claim 1).*)
THEOREM CountsExact == ThreadSpec => []CountsAreExact
<1>1. ThreadInv => CountsAreExact
  BY DEF ThreadInv
<1> QED
  BY <1>1, ThreadInvariance, PTL

(* The measured loop of no thread begins before every thread is started,   *)
(* and the main thread is through the barrier (b02, lines 108-116).        *)
THEOREM AllStartTogether == ThreadSpec => []StartTogether
<1>1. ThreadInv => StartTogether
  BY DEF ThreadInv
<1> QED
  BY <1>1, ThreadInvariance, PTL

(* When as many jobs are counted as there were, the result of each is in   *)
(* the store (worker_pool.py, lines 46-56).                                *)
THEOREM AllResultsReady == ThreadSpec => []ResultsAreReady
<1>1. ThreadInv => ResultsAreReady
  BY DEF ThreadInv
<1> QED
  BY <1>1, ThreadInvariance, PTL

-----------------------------------------------------------------------------
(* What the programs report                                                *)

(* As many rounds of each worker.                                          *)
LEMMA EqualRounds ==
    ASSUME NEW ws \in SUBSET Workers, NEW n \in Nat, NEW f, \A w \in ws : f[w] = n
    PROVE  /\ IsFiniteSet(RoundsOf(f, ws))
           /\ Cardinality(RoundsOf(f, ws)) = Cardinality(ws) * n
<1>1. RoundsOf(f, ws) = ws \X (1..n)
  <2>1. ASSUME NEW x PROVE x \in RoundsOf(f, ws) <=> x \in ws \X (1..n)
    BY RoundsMember
  <2> QED
    BY <2>1
<1>2. IsFiniteSet(ws) /\ IsFiniteSet(1..n) /\ Cardinality(1..n) = n
  BY FS_Subset, FS_Interval, ThreadBounds
<1>3. /\ IsFiniteSet(ws \X (1..n))
      /\ Cardinality(ws \X (1..n)) = Cardinality(ws) * Cardinality(1..n)
  BY <1>2, FS_Product
<1> QED
  BY <1>1, <1>2, <1>3

(* Of two groups of workers.                                               *)
LEMMA RoundsApart ==
    ASSUME NEW f, NEW ws, NEW vs, ws \cap vs = {},
           IsFiniteSet(RoundsOf(f, ws \cup vs))
    PROVE  Cardinality(RoundsOf(f, ws \cup vs))
              = Cardinality(RoundsOf(f, ws)) + Cardinality(RoundsOf(f, vs))
<1> DEFINE A == RoundsOf(f, ws)
           B == RoundsOf(f, vs)
           C == RoundsOf(f, ws \cup vs)
<1>1. ASSUME NEW x PROVE x \in C <=> x \in A \cup B
  BY RoundsMember
<1>2. ASSUME NEW x \in A PROVE x \notin B
  <2>1. PICK w \in ws : \E i \in 1..f[w] : x = <<w, i>>
    BY RoundsMember
  <2>2. ASSUME x \in B PROVE FALSE
    <3>1. PICK v \in vs : \E i \in 1..f[v] : x = <<v, i>>
      BY <2>2, RoundsMember
    <3> QED
      BY <2>1, <3>1
  <2> QED
    BY <2>2
<1> HIDE DEF A, B, C
<1>3. C = A \cup B /\ A \cap B = {}
  BY <1>1, <1>2
<1>4. IsFiniteSet(A) /\ IsFiniteSet(B)
  <2>1. A \in SUBSET C /\ B \in SUBSET C /\ IsFiniteSet(C)
    BY <1>3 DEF C
  <2> QED
    BY <2>1, FS_Subset
<1>5. Cardinality(C) = Cardinality(A) + Cardinality(B)
  <2>1. Cardinality(C) = Cardinality(A) + Cardinality(B) - Cardinality(A \cap B)
    BY <1>3, <1>4, FS_Union
  <2>2. Cardinality(A \cap B) = 0 /\ Cardinality(A) \in Nat /\ Cardinality(B) \in Nat
    BY <1>3, <1>4, FS_EmptySet, FS_CardinalityType
  <2> QED
    BY <2>1, <2>2
<1> QED
  BY <1>5 DEF A, B, C

LEMMA FullRounds ==
    ASSUME ThreadInv, program = "increments", \A w \in Workers : wpc[w] = "end"
    PROVE  raised = {} <=> Total(ops) = Cardinality(Workers) * Rounds
<1>1. /\ ops \in [Workers -> Nat] /\ raised \subseteq Workers
      /\ \A w \in Workers : ops[w] <= Rounds /\ (w \in raised => ops[w] < Rounds)
      /\ \A w \in Workers \ raised : ops[w] = Rounds
  BY DEF ThreadInv, ThreadTyping, Tallied, Counted, Goal
<1>2. CASE raised = {}
  <2>1. Workers \in SUBSET Workers /\ Rounds \in Nat /\ \A w \in Workers : ops[w] = Rounds
    BY <1>1, <1>2, ThreadBounds
  <2> QED
    BY <1>2, <2>1, EqualRounds DEF Total
<1>3. CASE raised # {}
  <2> DEFINE R == RoundsOf(ops, Workers)
             P == Workers \X (1..Rounds)
  <2>1. PICK w \in Workers : w \in raised
    BY <1>1, <1>3
  <2>2. ASSUME NEW x \in R PROVE x \in P
    <3>1. PICK v \in Workers : \E i \in 1..ops[v] : x = <<v, i>>
      BY RoundsMember
    <3>2. PICK i \in 1..ops[v] : x = <<v, i>>
      BY <3>1
    <3>3. ops[v] \in Nat /\ ops[v] <= Rounds
      BY <1>1
    <3>4. i \in 1..Rounds
      BY <3>3, ThreadBounds
    <3> QED
      BY <3>2, <3>4
  <2>3. <<w, Rounds>> \in P
    BY ThreadBounds
  <2>4. ASSUME NEW x \in R, x = <<w, Rounds>> PROVE FALSE
    <3>1. PICK v \in Workers : \E i \in 1..ops[v] : x = <<v, i>>
      BY RoundsMember
    <3>2. PICK i \in 1..ops[v] : x = <<v, i>>
      BY <3>1
    <3>3. v = w /\ i = Rounds
      BY <2>4, <3>2
    <3>4. ops[w] \in Nat /\ ops[w] < Rounds
      BY <1>1, <2>1
    <3> QED
      BY <3>2, <3>3, <3>4, ThreadBounds
  <2>5. IsFiniteSet(P) /\ Cardinality(P) = Cardinality(Workers) * Rounds
    <3>1. IsFiniteSet(1..Rounds) /\ Cardinality(1..Rounds) = Rounds
      BY FS_Interval, ThreadBounds
    <3> QED
      BY <3>1, FS_Product, ThreadBounds
  <2>6. R \in SUBSET P /\ R # P
    BY <2>2, <2>3, <2>4
  <2> HIDE DEF R, P
  <2>7. Cardinality(R) # Cardinality(P)
    BY <2>5, <2>6, FS_Subset
  <2> QED
    BY <1>3, <2>5, <2>7 DEF Total, R
<1> QED
  BY <1>2, <1>3

(* The rounds of the workers that raised and of those that did not.        *)
LEMMA RoundsSplit ==
    ASSUME ThreadInv
    PROVE  Total(ops) = Cardinality(RoundsOf(ops, Workers \ raised))
                        + Cardinality(RoundsOf(ops, raised))
<1>1. /\ raised \subseteq Workers /\ IsFiniteSet(RoundsOf(ops, Workers))
      /\ (Workers \ raised) \cup raised = Workers
      /\ (Workers \ raised) \cap raised = {}
  BY DEF ThreadInv, ThreadTyping
<1> QED
  BY <1>1, RoundsApart DEF Total

LEMMA FailuresCounted ==
    ASSUME ThreadInv, program = "retries", \A w \in Workers : wpc[w] = "end"
    PROVE  Total(ops) + Cardinality(raised) = Cardinality(Workers)
<1>1. /\ raised \subseteq Workers
      /\ \A w \in raised : ops[w] = 0
      /\ \A w \in Workers \ raised : ops[w] = 1
  <2>1. raised \subseteq Workers /\ \A w \in Workers : ops[w] \in Nat
    BY DEF ThreadInv, ThreadTyping
  <2>2. \A w \in Workers : IF w \in raised THEN ops[w] < 1 ELSE ops[w] = 1
    BY DEF ThreadInv, Tallied, Counted, Goal
  <2> QED
    BY <2>1, <2>2
<1>2. /\ Cardinality(RoundsOf(ops, Workers \ raised)) = Cardinality(Workers \ raised) * 1
      /\ Cardinality(RoundsOf(ops, raised)) = Cardinality(raised) * 0
  BY <1>1, EqualRounds
<1>3. /\ Cardinality(Workers \ raised) = Cardinality(Workers) - Cardinality(raised)
      /\ Cardinality(Workers) \in Nat /\ Cardinality(raised) \in Nat
  <2>1. Workers \cap raised = raised /\ IsFiniteSet(raised)
    BY <1>1, FS_Subset, ThreadBounds
  <2> QED
    BY <2>1, FS_Difference, FS_CardinalityType, ThreadBounds
<1> QED
  BY <1>2, <1>3, RoundsSplit

LEMMA ThroughputCounted ==
    ASSUME ThreadInv, \A w \in Workers : wpc[w] = "end"
    PROVE  Total(ops) = Total(counts) + Cardinality(RoundsOf(ops, raised))
<1>1. /\ raised \subseteq Workers
      /\ \A w \in raised : counts[w] = 0
      /\ \A w \in Workers \ raised : counts[w] = ops[w]
  BY DEF ThreadInv, ThreadTyping, Tallied
<1>2. ASSUME NEW x
      PROVE  x \in RoundsOf(counts, Workers \ raised) <=> x \in RoundsOf(ops, Workers \ raised)
  BY <1>1, RoundsMember
<1>3. RoundsOf(counts, Workers \ raised) = RoundsOf(ops, Workers \ raised)
  BY <1>2
<1>4. /\ IsFiniteSet(RoundsOf(counts, raised))
      /\ Cardinality(RoundsOf(counts, raised)) = Cardinality(raised) * 0
  BY <1>1, EqualRounds
<1>5. Cardinality(raised) \in Nat
  BY <1>1, FS_Subset, FS_CardinalityType, ThreadBounds
<1>6. /\ (Workers \ raised) \cup raised = Workers
      /\ (Workers \ raised) \cap raised = {}
  BY <1>1
<1>7. IsFiniteSet(RoundsOf(counts, Workers))
  <2>1. ASSUME NEW x \in RoundsOf(counts, Workers) PROVE x \in RoundsOf(ops, Workers)
    <3>1. PICK w \in Workers : \E i \in 1..counts[w] : x = <<w, i>>
      BY RoundsMember
    <3>2. w \notin raised
      BY <1>1, <3>1
    <3> QED
      BY <1>1, <3>1, <3>2, RoundsMember
  <2>2. RoundsOf(counts, Workers) \in SUBSET RoundsOf(ops, Workers)
    BY <2>1
  <2> QED
    BY <2>2, FS_Subset DEF ThreadInv
<1>8. Total(counts) = Cardinality(RoundsOf(counts, Workers \ raised))
                      + Cardinality(RoundsOf(counts, raised))
  BY <1>6, <1>7, RoundsApart DEF Total
<1>9. IsFiniteSet(RoundsOf(ops, Workers \ raised))
  <2>1. ASSUME NEW x \in RoundsOf(ops, Workers \ raised) PROVE x \in RoundsOf(ops, Workers)
    BY RoundsMember
  <2>2. RoundsOf(ops, Workers \ raised) \in SUBSET RoundsOf(ops, Workers)
    BY <2>1
  <2> QED
    BY <2>2, FS_Subset DEF ThreadInv
<1>10. Cardinality(RoundsOf(ops, Workers \ raised)) \in Nat
  BY <1>9, FS_CardinalityType
<1> QED
  BY <1>3, <1>4, <1>5, <1>8, <1>10, RoundsSplit

(* What the programs report at the end adds up with what is in the store,  *)
(* whoever raised ConflictRetryExceeded (b01, b02).                        *)
THEOREM AllReportsAddUp == ThreadSpec => []ReportsAddUp
<1>1. ThreadInv => ReportsAddUp
  <2> SUFFICES ASSUME ThreadInv, mpc = "done" PROVE ReportsAddUp
    BY DEF ReportsAddUp
  <2>1. \A w \in Workers : wpc[w] = "end"
    BY DEF ThreadInv, WorkerPlace
  <2>2. program # "session" => store.counter = Total(ops)
    BY DEF ThreadInv, CountsAreExact
  <2>3. CASE program = "increments"
    BY <2>1, <2>2, <2>3, FullRounds DEF ReportsAddUp
  <2>4. CASE program = "retries"
    BY <2>1, <2>2, <2>4, FailuresCounted DEF ReportsAddUp
  <2>5. CASE program = "throughput"
    BY <2>1, <2>2, <2>5, ThroughputCounted DEF ReportsAddUp
  <2>6. CASE program = "snapshot"
    BY <2>6 DEF ThreadInv, AccountsAddUp, ReportsAddUp
  <2>7. CASE program \notin {"increments", "retries", "throughput", "snapshot"}
    BY <2>7 DEF ReportsAddUp
  <2> QED
    BY <2>3, <2>4, <2>5, <2>6, <2>7
<1> QED
  BY <1>1, ThreadInvariance, PTL

-----------------------------------------------------------------------------
(* The inductive invariant of the benchmark runner                         *)

InSuite == bpc \in {"run", "open", "dump", "render", "markdown", "json"}
AtOutput == bpc \in {"output", "write"}

(* What the sections are by the suites that completed and that failed.     *)
Sections == [s \in complete \cup failures |-> IF s \in failures THEN "failed" ELSE "whole"]
SectionsOf(ids) == UNION {[S -> {"whole", "failed"}] : S \in SUBSET ids}

BenchTyping ==
    /\ bpc \in {"idle", "run", "open", "dump", "render", "markdown", "json", "dashboard",
                "output", "write"}
    /\ version \in 0..MaxRuns /\ faults \in 0..MaxFaults
    /\ suite \in Ids /\ next \in 1..6
    /\ complete \subseteq Ids /\ failures \subseteq Ids /\ complete \cap failures = {}
    /\ markdown = Sections /\ json = Sections
    /\ failures \subseteq hit
    /\ resultFile \in [Ids -> [version : 0..MaxRuns, whole : BOOLEAN]]
    /\ DOMAIN chartFile = ChartFiles
    /\ \A f \in ChartFiles : chartFile[f].version \in 0..MaxRuns
    /\ outputFile \in [OutputNames -> [version : 0..MaxRuns, whole : BOOLEAN,
                                       failures : SUBSET Ids, sections : SectionsOf(Ids)]]

(* How far main() has come decides which suites are recorded.              *)
BenchPlace ==
    /\ InSuite => complete \cup failures = 1..(suite - 1)
    /\ bpc \in {"dashboard", "output", "write"} => complete \cup failures = Ids
    /\ bpc = "render" => next \in DOMAIN Suites[suite].charts
    /\ bpc \in {"run", "open", "dump", "markdown", "json", "dashboard"} => next = 1
    /\ AtOutput => next \in 1..3

(* The files of this run: of the suites that completed, and of the suite   *)
(* main() is at, as far as it is.                                          *)
Whole == [version |-> version, whole |-> TRUE]
ChartDrawn(s, c) == chartFile[c.file] = [version |-> version, whole |-> TRUE, of |-> <<s, c.name>>]
DrawnUpTo(s, n) == \A i \in DOMAIN Suites[s].charts : i < n => ChartDrawn(s, Suites[s].charts[i])
Measured ==
    /\ bpc # "idle" => \A s \in complete : resultFile[s] = Whole /\ DrawnUpTo(s, 7)
    /\ bpc = "dump" => resultFile[suite].version = version
    /\ bpc \in {"render", "markdown", "json"} => resultFile[suite] = Whole
    /\ bpc = "render" => DrawnUpTo(suite, next)
    /\ bpc \in {"markdown", "json"} => DrawnUpTo(suite, 7)
    /\ AtOutput => /\ chartFile[Dashboard].version = version /\ chartFile[Dashboard].whole
                   /\ chartFile[Dashboard].of = {Correctness, Scalability} \ failures

(* The outputs are of this run up to the one being written, and then of    *)
(* an earlier one.                                                         *)
Ready(i) == AtOutput /\ i < next
Opened(i) == bpc = "write" /\ i = next
Written ==
    /\ \A o \in OutputNames : outputFile[o].version <= version
    /\ bpc # "idle" => \A i \in 1..3 :
          LET f == outputFile[Outputs[i]] IN
          IF Ready(i) THEN f = Content(Outputs[i])
          ELSE IF Opened(i) THEN f.version = version /\ ~f.whole
          ELSE f.version < version

BenchInv ==
    /\ BenchTyping /\ BenchPlace /\ Measured /\ Written
    /\ ReportsAreTwins /\ ReportComesLast /\ NothingStale

-----------------------------------------------------------------------------
(* The tables of the suites                                                *)

(* Whatever a function of a suite reads is there under that name.          *)
NamesFound(x) ==
    /\ \A i \in DOMAIN x.charts : x.charts[i].of \subseteq x.results
    /\ x.section.of \subseteq x.results /\ EmbedsSaved(x)
    /\ x.json \subseteq x.results

LEMMA SuiteTable ==
    /\ Ids = 1..5 /\ Len(Suites) = 5
    /\ Suites[1] = [results |-> Results01, charts |-> Charts01, section |-> Section01,
                     json |-> Json01]
    /\ Suites[2] = [results |-> Results02, charts |-> Charts02, section |-> Section02,
                     json |-> Json02]
    /\ Suites[3] = [results |-> Results03, charts |-> Charts03, section |-> Section03,
                     json |-> Json03]
    /\ Suites[4] = [results |-> Results04, charts |-> Charts04, section |-> Section04,
                     json |-> Json04]
    /\ Suites[5] = [results |-> Results05, charts |-> Charts05, section |-> Section05,
                     json |-> Json05]
BY DEF Suites, Ids

LEMMA Suite1 ==
    /\ Len(Suites[1].charts) = 1 /\ DOMAIN Suites[1].charts = 1..1
    /\ Suites[1].charts[1].file = "01_correctness_results"
    /\ NamesFound(Suites[1])
<1>1. /\ Suites[1].charts = Charts01 /\ Suites[1].results = Results01
      /\ Suites[1].section = Section01 /\ Suites[1].json = Json01
  BY SuiteTable
<1>2. Len(Charts01) = 1 /\ DOMAIN Charts01 = 1..1
  BY DEF Charts01
<1>3. /\ Charts01[1].file = "01_correctness_results" /\ Charts01[1].name = "results"
  BY DEF Charts01, Chart
<1>4. \A i \in 1..1 : Charts01[i].of \subseteq Results01
  BY DEF Charts01, Chart, Results01
<1>5. Section01.of \subseteq Results01 /\ Json01 \subseteq Results01
  BY DEF Section01, Json01, Results01
<1>6. EmbedsSaved(Suites[1])
  <2>1. \A e \in Section01.embeds : e \in {"results"}
    BY DEF Section01
  <2>2. 1 \in 1..1
    OBVIOUS
  <2> QED
    BY <1>1, <1>2, <1>3, <2>1, <2>2 DEF EmbedsSaved
<1> QED
  BY <1>1, <1>2, <1>3, <1>4, <1>5, <1>6 DEF NamesFound

LEMMA Suite2 ==
    /\ Len(Suites[2].charts) = 2 /\ DOMAIN Suites[2].charts = 1..2
    /\ Suites[2].charts[1].file = "02_latency_by_operation"
    /\ Suites[2].charts[2].file = "03_throughput_vs_threads"
    /\ NamesFound(Suites[2])
<1>1. /\ Suites[2].charts = Charts02 /\ Suites[2].results = Results02
      /\ Suites[2].section = Section02 /\ Suites[2].json = Json02
  BY SuiteTable
<1>2. Len(Charts02) = 2 /\ DOMAIN Charts02 = 1..2
  BY DEF Charts02
<1>3. /\ Charts02[1].file = "02_latency_by_operation" /\ Charts02[1].name = "latency_by_op"
      /\ Charts02[2].file = "03_throughput_vs_threads" /\ Charts02[2].name = "throughput_vs_threads"
  BY DEF Charts02, Chart
<1>4. \A i \in 1..2 : Charts02[i].of \subseteq Results02
  BY DEF Charts02, Chart, Results02
<1>5. Section02.of \subseteq Results02 /\ Json02 \subseteq Results02
  BY DEF Section02, Json02, Results02
<1>6. EmbedsSaved(Suites[2])
  <2>1. \A e \in Section02.embeds : e \in {"latency_by_op", "throughput_vs_threads"}
    BY DEF Section02
  <2>2. 1 \in 1..2 /\ 2 \in 1..2
    OBVIOUS
  <2> QED
    BY <1>1, <1>2, <1>3, <2>1, <2>2 DEF EmbedsSaved
<1> QED
  BY <1>1, <1>2, <1>3, <1>4, <1>5, <1>6 DEF NamesFound

LEMMA Suite3 ==
    /\ Len(Suites[3].charts) = 5 /\ DOMAIN Suites[3].charts = 1..5
    /\ Suites[3].charts[1].file = "04_scalability_vs_keycount"
    /\ Suites[3].charts[2].file = "05_memory_overhead_vs_dict"
    /\ Suites[3].charts[3].file = "06_ttl_accuracy_jitter"
    /\ Suites[3].charts[4].file = "07_ttl_scheduler_overhead_vs_load"
    /\ Suites[3].charts[5].file = "08_subscriber_fanout_overhead"
    /\ NamesFound(Suites[3])
<1>1. /\ Suites[3].charts = Charts03 /\ Suites[3].results = Results03
      /\ Suites[3].section = Section03 /\ Suites[3].json = Json03
  BY SuiteTable
<1>2. Len(Charts03) = 5 /\ DOMAIN Charts03 = 1..5
  BY DEF Charts03
<1>3. /\ Charts03[1].file = "04_scalability_vs_keycount" /\ Charts03[1].name = "scalability"
      /\ Charts03[2].file = "05_memory_overhead_vs_dict" /\ Charts03[2].name = "memory"
      /\ Charts03[3].file = "06_ttl_accuracy_jitter" /\ Charts03[3].name = "ttl_accuracy"
      /\ Charts03[4].file = "07_ttl_scheduler_overhead_vs_load" /\ Charts03[4].name = "ttl_overhead"
      /\ Charts03[5].file = "08_subscriber_fanout_overhead" /\ Charts03[5].name = "subscriber"
  BY DEF Charts03, Chart
<1>4. \A i \in 1..5 : Charts03[i].of \subseteq Results03
  BY DEF Charts03, Chart, Results03
<1>5. Section03.of \subseteq Results03 /\ Json03 \subseteq Results03
  BY DEF Section03, Json03, Results03
<1>6. EmbedsSaved(Suites[3])
  <2>1. \A e \in Section03.embeds : e \in {"scalability", "memory", "ttl_accuracy", "ttl_overhead", "subscriber"}
    BY DEF Section03
  <2>2. 1 \in 1..5 /\ 2 \in 1..5 /\ 3 \in 1..5 /\ 4 \in 1..5 /\ 5 \in 1..5
    OBVIOUS
  <2> QED
    BY <1>1, <1>2, <1>3, <2>1, <2>2 DEF EmbedsSaved
<1> QED
  BY <1>1, <1>2, <1>3, <1>4, <1>5, <1>6 DEF NamesFound

LEMMA Suite4 ==
    /\ Len(Suites[4].charts) = 6 /\ DOMAIN Suites[4].charts = 1..6
    /\ Suites[4].charts[1].file = "10_async_vs_sync_overhead"
    /\ Suites[4].charts[2].file = "11_persistence_backend_write_overhead"
    /\ Suites[4].charts[3].file = "12_rehydration_time_vs_keycount"
    /\ Suites[4].charts[4].file = "13_big_value_structural_sharing"
    /\ Suites[4].charts[5].file = "09_conflict_retry_threshold"
    /\ Suites[4].charts[6].file = "04b_scalability_to_1M_keys"
    /\ NamesFound(Suites[4])
<1>1. /\ Suites[4].charts = Charts04 /\ Suites[4].results = Results04
      /\ Suites[4].section = Section04 /\ Suites[4].json = Json04
  BY SuiteTable
<1>2. Len(Charts04) = 6 /\ DOMAIN Charts04 = 1..6
  BY DEF Charts04
<1>3. /\ Charts04[1].file = "10_async_vs_sync_overhead" /\ Charts04[1].name = "async"
      /\ Charts04[2].file = "11_persistence_backend_write_overhead" /\ Charts04[2].name = "backend_overhead"
      /\ Charts04[3].file = "12_rehydration_time_vs_keycount" /\ Charts04[3].name = "rehydration"
      /\ Charts04[4].file = "13_big_value_structural_sharing" /\ Charts04[4].name = "big_value"
      /\ Charts04[5].file = "09_conflict_retry_threshold" /\ Charts04[5].name = "retry_threshold"
      /\ Charts04[6].file = "04b_scalability_to_1M_keys" /\ Charts04[6].name = "scale_1m"
  BY DEF Charts04, Chart, ScaleFile
<1>4. \A i \in 1..6 : Charts04[i].of \subseteq Results04
  BY DEF Charts04, Chart, Results04
<1>5. Section04.of \subseteq Results04 /\ Json04 \subseteq Results04
  BY DEF Section04, Json04, Results04
<1>6. EmbedsSaved(Suites[4])
  <2>1. \A e \in Section04.embeds : e \in {"async", "backend_overhead", "rehydration", "big_value", "retry_threshold", "scale_1m"}
    BY DEF Section04
  <2>2. 1 \in 1..6 /\ 2 \in 1..6 /\ 3 \in 1..6 /\ 4 \in 1..6 /\ 5 \in 1..6 /\ 6 \in 1..6
    OBVIOUS
  <2> QED
    BY <1>1, <1>2, <1>3, <2>1, <2>2 DEF EmbedsSaved
<1> QED
  BY <1>1, <1>2, <1>3, <1>4, <1>5, <1>6 DEF NamesFound

LEMMA Suite5 ==
    /\ Len(Suites[5].charts) = 3 /\ DOMAIN Suites[5].charts = 1..3
    /\ Suites[5].charts[1].file = "14_comparative_latency"
    /\ Suites[5].charts[2].file = "15_comparative_throughput_vs_threads"
    /\ Suites[5].charts[3].file = "16_comparative_async_overhead"
    /\ NamesFound(Suites[5])
<1>1. /\ Suites[5].charts = Charts05 /\ Suites[5].results = Results05
      /\ Suites[5].section = Section05 /\ Suites[5].json = Json05
  BY SuiteTable
<1>2. Len(Charts05) = 3 /\ DOMAIN Charts05 = 1..3
  BY DEF Charts05
<1>3. /\ Charts05[1].file = "14_comparative_latency" /\ Charts05[1].name = "latency"
      /\ Charts05[2].file = "15_comparative_throughput_vs_threads" /\ Charts05[2].name = "throughput"
      /\ Charts05[3].file = "16_comparative_async_overhead" /\ Charts05[3].name = "async"
  BY DEF Charts05, Chart
<1>4. \A i \in 1..3 : Charts05[i].of \subseteq Results05
  BY DEF Charts05, Chart, Results05
<1>5. Section05.of \subseteq Results05 /\ Json05 \subseteq Results05
  BY DEF Section05, Json05, Results05
<1>6. EmbedsSaved(Suites[5])
  <2>1. \A e \in Section05.embeds : e \in {"latency", "throughput", "async"}
    BY DEF Section05
  <2>2. 1 \in 1..3 /\ 2 \in 1..3 /\ 3 \in 1..3
    OBVIOUS
  <2> QED
    BY <1>1, <1>2, <1>3, <2>1, <2>2 DEF EmbedsSaved
<1> QED
  BY <1>1, <1>2, <1>3, <1>4, <1>5, <1>6 DEF NamesFound

LEMMA SuiteFacts ==
    ASSUME NEW s \in Ids
    PROVE  /\ NamesFound(Suites[s]) /\ Len(Suites[s].charts) \in 1..6
           /\ DOMAIN Suites[s].charts = 1..Len(Suites[s].charts)
<1>1. s \in 1..5
  BY SuiteTable
<1>2. CASE s = 1
  BY <1>2, Suite1
<1>3. CASE s = 2
  BY <1>3, Suite2
<1>4. CASE s = 3
  BY <1>4, Suite3
<1>5. CASE s = 4
  BY <1>5, Suite4
<1>6. CASE s = 5
  BY <1>6, Suite5
<1> QED
  BY <1>1, <1>2, <1>3, <1>4, <1>5, <1>6

(* A chart is a file of its own, whatever suite it is of.                  *)
FileOf(s, i) == Suites[s].charts[i].file
LEMMA ChartsApart ==
    ASSUME NEW s \in Ids, NEW i \in DOMAIN Suites[s].charts
    PROVE  /\ FileOf(s, i) \in ChartFiles /\ Dashboard \in ChartFiles
           /\ FileOf(s, i) # Dashboard
           /\ \A t \in Ids : \A j \in DOMAIN Suites[t].charts :
                 FileOf(s, i) = FileOf(t, j) => s = t /\ i = j
<1>1. Ids = 1..5 /\ s \in 1..5
  BY SuiteTable
<1>2. FileOf(s, i) \in ChartFiles /\ Dashboard \in ChartFiles
  <2>1. Suites[s].charts[i] \in ChartsOf(s)
    BY DEF ChartsOf
  <2>2. FileOf(s, i) \in {c.file : c \in ChartsOf(s)}
    BY <2>1 DEF FileOf
  <2>3. {c.file : c \in ChartsOf(s)} \in {{c.file : c \in ChartsOf(t)} : t \in Ids}
    OBVIOUS
  <2> QED
    BY <2>2, <2>3 DEF ChartFiles
<1>3. FileOf(s, i) # Dashboard
  BY <1>1, Suite1, Suite2, Suite3, Suite4, Suite5 DEF FileOf, Dashboard
<1>4. ASSUME NEW t \in Ids, NEW j \in DOMAIN Suites[t].charts, FileOf(s, i) = FileOf(t, j)
      PROVE  s = t /\ i = j
  <2>1. t \in 1..5
    BY <1>1
  <2>2. CASE s = 1
    BY <1>4, <2>1, <2>2, Suite1, Suite2, Suite3, Suite4, Suite5 DEF FileOf
  <2>3. CASE s = 2
    BY <1>4, <2>1, <2>3, Suite1, Suite2, Suite3, Suite4, Suite5 DEF FileOf
  <2>4. CASE s = 3
    BY <1>4, <2>1, <2>4, Suite1, Suite2, Suite3, Suite4, Suite5 DEF FileOf
  <2>5. CASE s = 4
    BY <1>4, <2>1, <2>5, Suite1, Suite2, Suite3, Suite4, Suite5 DEF FileOf
  <2>6. CASE s = 5
    BY <1>4, <2>1, <2>6, Suite1, Suite2, Suite3, Suite4, Suite5 DEF FileOf
  <2> QED
    BY <1>1, <2>2, <2>3, <2>4, <2>5, <2>6
<1> QED
  BY <1>2, <1>3, <1>4

LEMMA OutputTable ==
    /\ Len(Outputs) = 3 /\ Outputs[1] = "meta" /\ Outputs[2] = "md" /\ Outputs[3] = "report"
    /\ OutputNames = {"meta", "md", "report"}
    /\ Content("meta") = [version |-> version, whole |-> TRUE, failures |-> failures,
                          sections |-> Empty]
    /\ Content("md") = [version |-> version, whole |-> TRUE, failures |-> failures,
                        sections |-> markdown]
    /\ Content("report") = [version |-> version, whole |-> TRUE, failures |-> failures,
                            sections |-> json]
BY DEF Outputs, OutputNames, Content

LEMMA SectionTypes ==
    ASSUME NEW S \in SUBSET Ids, NEW c \in [S -> {"whole", "failed"}]
    PROVE  c \in SectionsOf(Ids)
BY DEF SectionsOf

-----------------------------------------------------------------------------
LEMMA BenchInit1 == BenchInit => BenchInv
<1> SUFFICES ASSUME BenchInit PROVE BenchInv
  OBVIOUS
<1> USE DEF BenchInit
<1>1. /\ Ids = 1..5 /\ 0 \in 0..MaxRuns /\ 0 \in 0..MaxFaults
  BY SuiteTable, BenchAssumption
<1>2. Empty \in SectionsOf(Ids) /\ Sections = Empty
  <2>1. Empty \in [{} -> {"whole", "failed"}] /\ {} \in SUBSET Ids
    BY DEF Empty
  <2>2. Sections = [s \in {} |-> "whole"]
    BY DEF Sections
  <2> QED
    BY <2>1, <2>2, SectionTypes DEF Empty
<1>3. NoOutput \in [version : 0..MaxRuns, whole : BOOLEAN, failures : SUBSET Ids,
                    sections : SectionsOf(Ids)]
  BY <1>1, <1>2 DEF NoOutput
<1>4. BenchTyping
  <2>1. resultFile \in [Ids -> [version : 0..MaxRuns, whole : BOOLEAN]]
    BY <1>1 DEF NoFile
  <2>2. outputFile \in [OutputNames -> [version : 0..MaxRuns, whole : BOOLEAN,
                                        failures : SUBSET Ids, sections : SectionsOf(Ids)]]
    BY <1>3
  <2>3. /\ DOMAIN chartFile = ChartFiles
        /\ \A f \in ChartFiles : chartFile[f].version \in 0..MaxRuns
    BY <1>1 DEF NoChart
  <2>4. suite \in Ids /\ next \in 1..6
    BY <1>1
  <2> QED
    BY <1>1, <1>2, <2>1, <2>2, <2>3, <2>4 DEF BenchTyping
<1>5. \A o \in OutputNames : outputFile[o].version = 0 /\ ~outputFile[o].whole
  BY DEF NoOutput
<1>6. BenchPlace /\ Measured
  BY DEF BenchPlace, Measured, InSuite, AtOutput
<1>7. Written
  BY <1>5 DEF Written
<1>8. ReportsAreTwins /\ ReportComesLast /\ NothingStale
  BY <1>5, OutputTable DEF ReportsAreTwins, ReportComesLast, NothingStale
<1> QED
  BY <1>4, <1>6, <1>7, <1>8 DEF BenchInv

-----------------------------------------------------------------------------
(* Until the last output is written, a whole report is of an earlier run.  *)
LEMMA ReportEarlier ==
    ASSUME BenchInv, bpc # "idle", outputFile["report"].whole
    PROVE  /\ version \in Nat /\ outputFile["report"].version \in Nat
           /\ outputFile["report"].version < version
<1>1. version \in Nat /\ next \in 1..6
  BY BenchAssumption DEF BenchInv, BenchTyping
<1>2. Outputs[3] = "report" /\ "report" \in OutputNames /\ ~Ready(3)
  BY <1>1, OutputTable DEF BenchInv, BenchPlace, Ready, AtOutput
<1>3. outputFile["report"].version < version
  BY <1>2 DEF BenchInv, Written
<1>4. outputFile["report"].version \in 0..MaxRuns
  BY <1>2 DEF BenchInv, BenchTyping
<1> QED
  BY <1>1, <1>3, <1>4, BenchAssumption

(* The step leaves every file as it is, or makes it one of this run.       *)
OnlyNewFiles ==
    /\ \A s \in Ids : resultFile'[s] = resultFile[s] \/ resultFile'[s].version = version
    /\ \A s \in Ids : \A i \in DOMAIN Suites[s].charts :
          \/ chartFile'[FileOf(s, i)] = chartFile[FileOf(s, i)]
          \/ /\ chartFile'[FileOf(s, i)].version = version
             /\ chartFile'[FileOf(s, i)].of = <<s, Suites[s].charts[i].name>>
    /\ \/ chartFile'[Dashboard] = chartFile[Dashboard]
       \/ chartFile'[Dashboard].version = version

(* Then what a whole report refers to is overwritten by a later run only.  *)
LEMMA StaysFresh ==
    ASSUME BenchInv, bpc # "idle", UNCHANGED outputFile, OnlyNewFiles
    PROVE  NothingStale'
<1> DEFINE r == outputFile["report"]
<1>1. CASE ~r.whole
  BY <1>1 DEF NothingStale
<1>2. CASE r.whole
  <2>1. version \in Nat /\ r.version \in Nat /\ r.version < version
    BY <1>2, ReportEarlier
  <2>2. ASSUME NEW f, f.version = version PROVE FromRun(f, r.version) /\ f.version # r.version
    BY <2>1, <2>2 DEF FromRun
  <2>3. ASSUME NEW s \in Ids \ r.failures PROVE FromRun(resultFile'[s], r.version)
    <3>1. CASE resultFile'[s] = resultFile[s]
      BY <1>2, <3>1 DEF BenchInv, NothingStale
    <3>2. CASE resultFile'[s].version = version
      BY <2>2, <3>2
    <3> QED
      BY <2>3, <3>1, <3>2 DEF OnlyNewFiles
  <2>4. ASSUME NEW s \in Ids \ r.failures, NEW c \in ChartsOf(s),
               c.name \in Suites[s].section.embeds
        PROVE  FromRun(chartFile'[c.file], r.version) /\ chartFile'[c.file].of = <<s, c.name>>
    <3>1. PICK i \in DOMAIN Suites[s].charts : c = Suites[s].charts[i] /\ c.file = FileOf(s, i)
      BY <2>4 DEF ChartsOf, FileOf
    <3>2. CASE chartFile'[c.file] = chartFile[c.file]
      BY <1>2, <2>4, <3>2 DEF BenchInv, NothingStale
    <3>3. CASE chartFile'[c.file].version = version /\ chartFile'[c.file].of = <<s, c.name>>
      BY <2>2, <3>3
    <3> QED
      BY <2>4, <3>1, <3>2, <3>3 DEF OnlyNewFiles
  <2>5. /\ FromRun(chartFile'[Dashboard], r.version)
        /\ chartFile'[Dashboard].version = r.version =>
              chartFile'[Dashboard].of = {Correctness, Scalability} \ r.failures
    <3>1. CASE chartFile'[Dashboard] = chartFile[Dashboard]
      BY <1>2, <3>1 DEF BenchInv, NothingStale
    <3>2. CASE chartFile'[Dashboard].version = version
      BY <2>2, <3>2
    <3> QED
      BY <3>1, <3>2 DEF OnlyNewFiles
  <2>6. outputFile'["report"] = r
    OBVIOUS
  <2> HIDE DEF r
  <2> QED
    BY <2>3, <2>4, <2>5, <2>6 DEF NothingStale
<1> QED
  BY <1>1, <1>2

(* A step that writes no output.                                           *)
LEMMA NoOutputStep ==
    ASSUME BenchInv, UNCHANGED <<version, outputFile>>, bpc # "idle",
           bpc' = "idle" \/ (~AtOutput /\ (~AtOutput' \/ (next' = 1 /\ bpc' = "output"))),
           OnlyNewFiles, BenchTyping', BenchPlace', Measured'
    PROVE  BenchInv'
<1>1. ReportsAreTwins' /\ ReportComesLast'
  BY DEF BenchInv, ReportsAreTwins, ReportComesLast
<1>2. NothingStale'
  BY StaysFresh
<1>3. Written'
  <2>1. \A o \in OutputNames : outputFile'[o].version <= version'
    BY DEF BenchInv, Written
  <2>2. CASE bpc' = "idle"
    BY <2>1, <2>2 DEF Written
  <2>3. CASE bpc' # "idle"
    <3>1. \A i \in 1..3 : ~Ready(i) /\ ~Opened(i) /\ ~Ready(i)' /\ ~Opened(i)'
      BY <2>3 DEF Ready, Opened, AtOutput
    <3>2. \A i \in 1..3 : outputFile[Outputs[i]].version < version
      BY <3>1 DEF BenchInv, Written
    <3> QED
      BY <2>1, <3>1, <3>2 DEF Written
  <2> QED
    BY <2>2, <2>3
<1> QED
  BY <1>1, <1>2, <1>3 DEF BenchInv

LEMMA DrawnKept ==
    ASSUME NEW s \in Ids, NEW n, DrawnUpTo(s, n), version' = version,
           \A i \in DOMAIN Suites[s].charts : chartFile'[FileOf(s, i)] = chartFile[FileOf(s, i)]
    PROVE  DrawnUpTo(s, n)'
BY DEF DrawnUpTo, ChartDrawn, FileOf

(* One chart of the suite main() is at is saved, half or whole.            *)
LEMMA ChartSaved ==
    ASSUME BenchTyping, NEW i \in DOMAIN Suites[suite].charts, NEW x,
           chartFile' = [chartFile EXCEPT ![FileOf(suite, i)] = x]
    PROVE  /\ DOMAIN chartFile' = ChartFiles
           /\ chartFile'[FileOf(suite, i)] = x
           /\ \A f \in ChartFiles \ {FileOf(suite, i)} : chartFile'[f] = chartFile[f]
           /\ \A s \in Ids : \A j \in DOMAIN Suites[s].charts :
                 ~(s = suite /\ j = i) => chartFile'[FileOf(s, j)] = chartFile[FileOf(s, j)]
<1>1. suite \in Ids /\ DOMAIN chartFile = ChartFiles
  BY DEF BenchTyping
<1>2. FileOf(suite, i) \in ChartFiles
  BY <1>1, ChartsApart
<1>3. ASSUME NEW s \in Ids, NEW j \in DOMAIN Suites[s].charts, ~(s = suite /\ j = i)
      PROVE  FileOf(s, j) \in ChartFiles /\ FileOf(s, j) # FileOf(suite, i)
  BY <1>1, <1>3, ChartsApart
<1> QED
  BY <1>1, <1>2, <1>3

(* The suites recorded are the earlier ones.                               *)
LEMMA EarlierSuites ==
    ASSUME BenchInv, InSuite
    PROVE  /\ suite \in 1..5 /\ version \in 0..MaxRuns /\ Ids = 1..5
           /\ complete \cup failures = 1..(suite - 1)
           /\ suite \notin complete /\ suite \notin failures /\ complete \subseteq Ids
           /\ \A s \in complete : s # suite /\ resultFile[s] = Whole /\ DrawnUpTo(s, 7)
<1>1. suite \in 1..5 /\ Ids = 1..5 /\ complete \cup failures = 1..(suite - 1)
  BY SuiteTable DEF BenchInv, BenchTyping, BenchPlace
<1>2. suite \notin complete /\ suite \notin failures
  BY <1>1
<1>3. bpc # "idle"
  BY DEF InSuite
<1> QED
  BY <1>1, <1>2, <1>3 DEF BenchInv, BenchTyping, Measured

LEMMA RunStep == ASSUME BenchInv, RunSuite \/ ToMarkdown PROVE BenchInv'
<1>1. /\ UNCHANGED <<version, faults, suite, next, memoryVars, diskVars, hit>>
      /\ \/ bpc = "run" /\ bpc' = "open"
         \/ bpc = "markdown" /\ bpc' = "json"
  BY DEF RunSuite, ToMarkdown, At
<1>2. BenchTyping'
  BY <1>1 DEF BenchInv, BenchTyping, Sections, memoryVars, diskVars
<1>3. BenchPlace'
  BY <1>1 DEF BenchInv, BenchPlace, InSuite, AtOutput, memoryVars
<1>4. Measured'
  BY <1>1 DEF BenchInv, Measured, DrawnUpTo, ChartDrawn, Whole, AtOutput, memoryVars, diskVars
<1>5. ~AtOutput /\ ~AtOutput' /\ bpc # "idle" /\ UNCHANGED <<version, outputFile>>
  BY <1>1 DEF AtOutput, diskVars
<1>6. OnlyNewFiles
  BY <1>1 DEF OnlyNewFiles, diskVars
<1> QED
  BY <1>2, <1>3, <1>4, <1>5, <1>6, NoOutputStep

LEMMA ResultsStep == ASSUME BenchInv, OpenResults \/ DumpResults PROVE BenchInv'
<1>1. /\ UNCHANGED <<version, faults, suite, next, memoryVars, chartFile, outputFile, hit>>
      /\ \/ bpc = "open" /\ bpc' = "dump"
         \/ bpc = "dump" /\ bpc' = "render"
      /\ InSuite
  BY DEF OpenResults, DumpResults, At, InSuite
<1>2. /\ suite \in Ids /\ version \in 0..MaxRuns
      /\ \A s \in complete : s # suite /\ s \in Ids /\ resultFile[s] = Whole /\ DrawnUpTo(s, 7)
      /\ resultFile \in [Ids -> [version : 0..MaxRuns, whole : BOOLEAN]]
  BY <1>1, EarlierSuites DEF BenchInv, BenchTyping
<1>3. /\ resultFile' \in [Ids -> [version : 0..MaxRuns, whole : BOOLEAN]]
      /\ \A s \in Ids \ {suite} : resultFile'[s] = resultFile[s]
      /\ resultFile'[suite].version = version
      /\ bpc' = "render" => resultFile'[suite] = Whole
  <2>1. CASE OpenResults
    BY <1>2, <2>1 DEF OpenResults, At
  <2>2. CASE DumpResults
    <3>1. /\ resultFile[suite] \in [version : 0..MaxRuns, whole : BOOLEAN]
          /\ resultFile[suite].version = version
          /\ resultFile' = [resultFile EXCEPT ![suite] = [resultFile[suite] EXCEPT !.whole = TRUE]]
      BY <1>2, <2>2 DEF DumpResults, At, BenchInv, Measured
    <3>2. [resultFile[suite] EXCEPT !.whole = TRUE] = Whole
      <4>1. ASSUME NEW r \in [version : 0..MaxRuns, whole : BOOLEAN], r.version = version
            PROVE  [r EXCEPT !.whole = TRUE] = [version |-> version, whole |-> TRUE]
        <5>1. PICK q : q = [r EXCEPT !.whole = TRUE]
          OBVIOUS
        <5>2. /\ q \in [version : 0..MaxRuns, whole : BOOLEAN]
              /\ q.version = version /\ q.whole = TRUE
          BY <4>1, <5>1
        <5>3. q = [version |-> q.version, whole |-> q.whole]
          BY <5>2
        <5> QED
          BY <5>1, <5>2, <5>3
      <4> QED
        BY <3>1, <4>1 DEF Whole
    <3>3. /\ Whole \in [version : 0..MaxRuns, whole : BOOLEAN] /\ Whole.version = version
      BY <1>2 DEF Whole
    <3> QED
      BY <1>2, <3>1, <3>2, <3>3
  <2> QED
    BY <2>1, <2>2
<1>4. BenchTyping'
  BY <1>1, <1>3 DEF BenchInv, BenchTyping, Sections, memoryVars
<1>5. BenchPlace'
  <2>1. bpc' = "render" => next' \in DOMAIN Suites[suite'].charts
    <3>1. next = 1
      BY <1>1 DEF BenchInv, BenchPlace
    <3>2. 1 \in DOMAIN Suites[suite].charts
      <4>1. \A k \in 1..6 : 1 \in 1..k
        OBVIOUS
      <4> QED
        BY <1>2, <4>1, SuiteFacts
    <3> QED
      BY <1>1, <3>1, <3>2
  <2> QED
    BY <1>1, <2>1 DEF BenchInv, BenchPlace, InSuite, AtOutput, memoryVars
<1>6. Measured'
  <2>1. \A s \in complete' : resultFile'[s] = Whole' /\ DrawnUpTo(s, 7)'
    BY <1>1, <1>2, <1>3 DEF DrawnUpTo, ChartDrawn, Whole, memoryVars
  <2>2. bpc' = "render" => DrawnUpTo(suite, next)'
    <3>1. ASSUME bpc' = "render" PROVE next' = 1 /\ suite' \in Ids
      BY <1>1, <1>2, <3>1 DEF BenchInv, BenchPlace
    <3>2. \A i \in DOMAIN Suites[suite'].charts : bpc' = "render" => ~(i < next')
      BY <3>1, <1>1, <1>2, SuiteFacts
    <3> QED
      BY <3>2 DEF DrawnUpTo
  <2> QED
    BY <1>1, <1>3, <2>1, <2>2 DEF Measured, Whole, AtOutput
<1>7. ~AtOutput /\ ~AtOutput' /\ bpc # "idle" /\ UNCHANGED <<version, outputFile>>
  BY <1>1 DEF AtOutput
<1>8. OnlyNewFiles
  BY <1>1, <1>3 DEF OnlyNewFiles
<1> QED
  BY <1>4, <1>5, <1>6, <1>7, <1>8, NoOutputStep

LEMMA SaveChartStep == ASSUME BenchInv, SaveChart PROVE BenchInv'
<1> DEFINE c == Suites[suite].charts[next]
           n == Len(Suites[suite].charts)
<1>1. /\ bpc = "render" /\ InSuite
      /\ UNCHANGED <<version, faults, suite, memoryVars, resultFile, outputFile, hit>>
      /\ chartFile' = [chartFile EXCEPT ![FileOf(suite, next)] = Drawn(c, TRUE)]
      /\ IF next = n THEN bpc' = "markdown" /\ next' = 1
                     ELSE next' = next + 1 /\ UNCHANGED bpc
  BY DEF SaveChart, InSuite, FileOf
<1>2. /\ suite \in Ids /\ version \in 0..MaxRuns /\ next \in DOMAIN Suites[suite].charts
      /\ \A s \in complete : s # suite /\ s \in Ids /\ resultFile[s] = Whole /\ DrawnUpTo(s, 7)
      /\ resultFile[suite] = Whole /\ DrawnUpTo(suite, next) /\ BenchTyping
  BY <1>1, EarlierSuites DEF BenchInv, BenchTyping, BenchPlace, Measured
<1>3. n \in 1..6 /\ DOMAIN Suites[suite].charts = 1..n
  BY <1>2, SuiteFacts
<1> HIDE DEF n
<1>4. /\ DOMAIN chartFile' = ChartFiles
      /\ chartFile'[FileOf(suite, next)] = Drawn(c, TRUE)
      /\ \A f \in ChartFiles \ {FileOf(suite, next)} : chartFile'[f] = chartFile[f]
      /\ \A s \in Ids : \A j \in DOMAIN Suites[s].charts :
            ~(s = suite /\ j = next) => chartFile'[FileOf(s, j)] = chartFile[FileOf(s, j)]
  BY <1>1, <1>2, ChartSaved
<1>5. BenchTyping'
  <2>1. next' \in 1..6 /\ bpc' \in {"markdown", "render"}
    BY <1>1, <1>2, <1>3
  <2>2. \A f \in ChartFiles : chartFile'[f].version \in 0..MaxRuns
    BY <1>2, <1>4 DEF BenchTyping, Drawn
  <2> QED
    BY <1>1, <1>2, <1>4, <2>1, <2>2 DEF BenchTyping, Sections, memoryVars
<1>6. BenchPlace'
  <2>1. bpc' = "render" => next' \in DOMAIN Suites[suite'].charts
    BY <1>1, <1>2, <1>3
  <2>2. /\ bpc' \in {"markdown", "render"} /\ InSuite' /\ ~AtOutput'
        /\ bpc' = "markdown" => next' = 1
    BY <1>1 DEF InSuite, AtOutput
  <2>3. (complete \cup failures = 1..(suite - 1))'
    BY <1>1 DEF BenchInv, BenchPlace, memoryVars
  <2> QED
    BY <2>1, <2>2, <2>3 DEF BenchPlace
<1>7. Measured'
  <2>1. \A s \in complete : resultFile'[s] = Whole' /\ DrawnUpTo(s, 7)'
    BY <1>1, <1>2, <1>4, DrawnKept DEF Whole
  <2>2. ASSUME NEW i \in DOMAIN Suites[suite].charts, i <= next
        PROVE  chartFile'[FileOf(suite, i)] = [version |-> version, whole |-> TRUE,
                                               of |-> <<suite, Suites[suite].charts[i].name>>]
    <3>1. CASE i = next
      BY <1>4, <3>1 DEF Drawn
    <3>2. CASE i # next
      <4>1. i < next
        BY <1>2, <1>3, <2>2, <3>2
      <4>2. chartFile[FileOf(suite, i)] = [version |-> version, whole |-> TRUE,
                                           of |-> <<suite, Suites[suite].charts[i].name>>]
        BY <1>2, <4>1 DEF DrawnUpTo, ChartDrawn, FileOf
      <4> QED
        BY <1>2, <1>4, <3>2, <4>2
    <3> QED
      BY <3>1, <3>2
  <2>3. ASSUME NEW m, \A i \in DOMAIN Suites[suite].charts : i < m => i <= next
        PROVE  DrawnUpTo(suite, m)'
    BY <1>1, <2>2, <2>3 DEF DrawnUpTo, ChartDrawn, FileOf
  <2>4. bpc' = "render" => DrawnUpTo(suite, next)'
    <3>1. CASE next # n
      <4>1. next' = next + 1
        BY <1>1, <3>1
      <4>2. \A i \in DOMAIN Suites[suite].charts : i < next' => i <= next
        BY <1>2, <1>3, <4>1
      <4> QED
        BY <1>1, <2>2, <4>2 DEF DrawnUpTo, ChartDrawn, FileOf
    <3>2. CASE next = n
      BY <1>1, <3>2
    <3> QED
      BY <3>1, <3>2
  <2>5. bpc' = "markdown" => DrawnUpTo(suite, 7)'
    <3>1. bpc' = "markdown" => \A i \in DOMAIN Suites[suite].charts : i < 7 => i <= next
      BY <1>1, <1>2, <1>3
    <3> QED
      BY <2>3, <3>1
  <2>6. resultFile'[suite'] = Whole'
    BY <1>1, <1>2 DEF Whole
  <2>7. bpc' \in {"markdown", "render"} /\ complete' = complete
    BY <1>1 DEF memoryVars
  <2> QED
    BY <1>1, <2>1, <2>4, <2>5, <2>6, <2>7 DEF Measured, AtOutput
<1> QED
  <2>1. ~AtOutput /\ ~AtOutput' /\ bpc # "idle" /\ UNCHANGED <<version, outputFile>>
    BY <1>1 DEF AtOutput
  <2>2. OnlyNewFiles
    <3>1. chartFile'[Dashboard] = chartFile[Dashboard]
      BY <1>2, <1>4, ChartsApart
    <3>2. /\ chartFile'[FileOf(suite, next)].version = version
          /\ chartFile'[FileOf(suite, next)].of = <<suite, Suites[suite].charts[next].name>>
      BY <1>4 DEF Drawn
    <3> QED
      BY <1>1, <1>4, <3>1, <3>2 DEF OnlyNewFiles
  <2> QED
    BY <1>5, <1>6, <1>7, <2>1, <2>2, NoOutputStep

-----------------------------------------------------------------------------
(* A suite is recorded, as completed or as failed, and main() goes on to   *)
(* the next one, or to the dashboard.                                      *)
LEMMA Recorded ==
    ASSUME BenchInv, InSuite, NextSuite,
           complete' \cup failures' = (complete \cup failures) \cup {suite}
    PROVE  /\ BenchPlace' /\ suite' \in Ids /\ next' = 1
           /\ bpc' \in {"run", "dashboard"} /\ ~AtOutput'
<1>1. suite \in 1..5 /\ Ids = 1..5 /\ complete \cup failures = 1..(suite - 1)
  BY EarlierSuites
<1>2. /\ next' = 1
      /\ \/ bpc' = "dashboard" /\ suite = 5 /\ suite' = suite
         \/ bpc' = "run" /\ suite # 5 /\ suite' = suite + 1
  BY SuiteTable DEF NextSuite, LastSuite
<1>3. suite' \in 1..5 /\ bpc' \in {"run", "dashboard"} /\ ~AtOutput'
  BY <1>1, <1>2 DEF AtOutput
<1>4. complete' \cup failures' = 1..suite
  BY <1>1
<1>5. InSuite' => (complete \cup failures = 1..(suite - 1))'
  BY <1>1, <1>2, <1>4 DEF InSuite
<1>6. bpc' \in {"dashboard", "output", "write"} => complete' \cup failures' = Ids
  BY <1>1, <1>2, <1>4
<1> QED
  BY <1>1, <1>2, <1>3, <1>5, <1>6 DEF BenchPlace

(* What both dictionaries of sections are then.                            *)
LEMMA SectionsWith ==
    ASSUME BenchInv, InSuite, NEW what,
           \/ what = "whole" /\ complete' = complete \cup {suite} /\ failures' = failures
           \/ what = "failed" /\ complete' = complete /\ failures' = failures \cup {suite}
    PROVE  With(markdown, what) = Sections' /\ With(json, what) = Sections'
<1>1. /\ suite \notin complete /\ suite \notin failures
      /\ markdown = Sections /\ json = Sections
  BY EarlierSuites DEF BenchInv, BenchTyping
<1>2. complete' \cup failures' = (complete \cup failures) \cup {suite}
  OBVIOUS
<1>3. \A s \in complete \cup failures :
         (IF s \in failures' THEN "failed" ELSE "whole") = Sections[s]
  BY <1>1 DEF Sections
<1>4. (IF suite \in failures' THEN "failed" ELSE "whole") = what
  BY <1>1
<1>5. With(Sections, what) = [s \in complete' \cup failures' |->
                                 IF s \in failures' THEN "failed" ELSE "whole"]
  <2>1. DOMAIN Sections = complete \cup failures
    BY DEF Sections
  <2> QED
    BY <1>1, <1>2, <1>3, <1>4, <2>1 DEF With
<1> QED
  BY <1>1, <1>5 DEF Sections

(* Half a chart may be left behind, and no chart of a suite that completed *)
(* is touched.                                                             *)
LEMMA HalfKept ==
    ASSUME BenchInv, HalfSaved, bpc # "idle", UNCHANGED <<version, resultFile>>
    PROVE  /\ OnlyNewFiles /\ DOMAIN chartFile' = ChartFiles
           /\ \A f \in ChartFiles : chartFile'[f].version \in 0..MaxRuns
           /\ \A s \in complete : DrawnUpTo(s, 7)'
<1>1. /\ BenchTyping /\ version \in 0..MaxRuns /\ complete \subseteq Ids
      /\ \A s \in complete : DrawnUpTo(s, 7)
  BY DEF BenchInv, BenchTyping, Measured
<1>2. CASE UNCHANGED chartFile
  BY <1>1, <1>2, DrawnKept DEF BenchTyping, OnlyNewFiles
<1>3. CASE bpc = "render" /\ chartFile' = [chartFile EXCEPT ![Suites[suite].charts[next].file] =
                                              Drawn(Suites[suite].charts[next], FALSE)]
  <2>1. /\ InSuite /\ next \in DOMAIN Suites[suite].charts
    BY <1>3 DEF InSuite, BenchInv, BenchPlace
  <2>2. \A s \in complete : s # suite
    BY <2>1, EarlierSuites
  <2> DEFINE x == Drawn(Suites[suite].charts[next], FALSE)
  <2>3. chartFile' = [chartFile EXCEPT ![FileOf(suite, next)] = x]
    BY <1>3 DEF FileOf
  <2>4. x.version = version /\ x.of = <<suite, Suites[suite].charts[next].name>>
    BY DEF Drawn
  <2> HIDE DEF x
  <2>5. /\ DOMAIN chartFile' = ChartFiles
        /\ chartFile'[FileOf(suite, next)] = x
        /\ \A f \in ChartFiles \ {FileOf(suite, next)} : chartFile'[f] = chartFile[f]
        /\ \A s \in Ids : \A j \in DOMAIN Suites[s].charts :
              ~(s = suite /\ j = next) => chartFile'[FileOf(s, j)] = chartFile[FileOf(s, j)]
    BY <1>1, <2>1, <2>3, ChartSaved
  <2>6. \A f \in ChartFiles : chartFile'[f].version \in 0..MaxRuns
    BY <1>1, <2>4, <2>5 DEF BenchTyping
  <2>7. \A s \in complete : DrawnUpTo(s, 7)'
    BY <1>1, <2>2, <2>5, DrawnKept
  <2>8. OnlyNewFiles
    <3>1. chartFile'[Dashboard] = chartFile[Dashboard]
      BY <1>1, <2>1, <2>5, ChartsApart DEF BenchTyping
    <3> QED
      BY <2>4, <2>5, <3>1 DEF OnlyNewFiles
  <2> QED
    BY <2>5, <2>6, <2>7, <2>8
<1> QED
  BY <1>2, <1>3 DEF HalfSaved

LEMMA ToJsonStep == ASSUME BenchInv, ToJson PROVE BenchInv'
<1>1. /\ bpc = "json" /\ InSuite /\ complete' = complete \cup {suite} /\ failures' = failures
      /\ markdown' = With(markdown, "whole") /\ json' = With(json, "whole") /\ NextSuite
      /\ UNCHANGED <<version, faults, resultFile, chartFile, outputFile, hit>>
  BY DEF ToJson, InSuite, diskVars
<1>2. /\ suite \in Ids /\ suite \notin complete /\ suite \notin failures
      /\ \A s \in complete : s \in Ids /\ resultFile[s] = Whole /\ DrawnUpTo(s, 7)
      /\ resultFile[suite] = Whole /\ DrawnUpTo(suite, 7)
  BY <1>1, EarlierSuites DEF BenchInv, BenchTyping, Measured
<1>3. /\ BenchPlace' /\ suite' \in Ids /\ next' = 1
      /\ bpc' \in {"run", "dashboard"} /\ ~AtOutput'
  <2>1. complete' \cup failures' = (complete \cup failures) \cup {suite}
    BY <1>1
  <2> QED
    BY <1>1, <2>1, Recorded
<1>4. markdown' = Sections' /\ json' = Sections'
  BY <1>1, SectionsWith
<1>5. BenchTyping'
  <2>1. complete' \subseteq Ids /\ failures' \subseteq Ids /\ complete' \cap failures' = {}
    BY <1>1, <1>2 DEF BenchInv, BenchTyping
  <2> QED
    BY <1>1, <1>3, <1>4, <2>1 DEF BenchInv, BenchTyping
<1>6. Measured'
  <2>1. \A s \in complete' : resultFile'[s] = Whole' /\ DrawnUpTo(s, 7)'
    <3>1. \A s \in complete' : s \in Ids /\ resultFile[s] = Whole /\ DrawnUpTo(s, 7)
      BY <1>1, <1>2
    <3> QED
      BY <1>1, <3>1, DrawnKept DEF Whole
  <2> QED
    BY <1>3, <2>1 DEF Measured
<1>7. ~AtOutput /\ bpc # "idle" /\ UNCHANGED <<version, outputFile>>
  BY <1>1 DEF AtOutput
<1>8. OnlyNewFiles
  BY <1>1 DEF OnlyNewFiles
<1> QED
  BY <1>3, <1>5, <1>6, <1>7, <1>8, NoOutputStep

(* No name is missing: whatever raises was a fault.                        *)
LEMMA NoNameMissing == ASSUME BenchInv PROVE ~NameMissing
<1>1. suite \in Ids /\ (bpc = "render" => next \in DOMAIN Suites[suite].charts)
  BY DEF BenchInv, BenchTyping, BenchPlace
<1>2. NamesFound(Suites[suite])
  BY <1>1, SuiteFacts
<1> QED
  BY <1>1, <1>2 DEF NameMissing, NamesFound, Finds

LEMMA SuiteRaisesStep == ASSUME BenchInv, SuiteRaises PROVE BenchInv'
<1>1. /\ InSuite /\ faults < MaxFaults /\ faults' = faults + 1 /\ hit' = hit \cup {suite}
      /\ HalfSaved /\ complete' = complete /\ failures' = failures \cup {suite}
      /\ markdown' = With(markdown, "failed") /\ json' = With(json, "failed") /\ NextSuite
      /\ UNCHANGED <<version, resultFile, outputFile>>
  BY NoNameMissing DEF SuiteRaises, FailSuite, FailedJson, InSuite
<1>2. /\ suite \in Ids /\ suite \notin complete /\ suite \notin failures
      /\ \A s \in complete : s \in Ids /\ resultFile[s] = Whole /\ DrawnUpTo(s, 7)
  BY <1>1, EarlierSuites DEF BenchInv, BenchTyping
<1>3. /\ BenchPlace' /\ suite' \in Ids /\ next' = 1
      /\ bpc' \in {"run", "dashboard"} /\ ~AtOutput'
  <2>1. complete' \cup failures' = (complete \cup failures) \cup {suite}
    BY <1>1
  <2> QED
    BY <1>1, <2>1, Recorded
<1>4. markdown' = Sections' /\ json' = Sections'
  BY <1>1, SectionsWith
<1>5. bpc # "idle" /\ ~AtOutput /\ UNCHANGED <<version, outputFile>>
  BY <1>1 DEF InSuite, AtOutput
<1>6. /\ OnlyNewFiles /\ DOMAIN chartFile' = ChartFiles
      /\ \A f \in ChartFiles : chartFile'[f].version \in 0..MaxRuns
      /\ \A s \in complete : DrawnUpTo(s, 7)'
  BY <1>1, <1>5, HalfKept
<1>7. BenchTyping'
  <2>1. failures' \subseteq Ids /\ complete' \cap failures' = {} /\ failures' \subseteq hit'
    BY <1>1, <1>2 DEF BenchInv, BenchTyping
  <2>2. faults' \in 0..MaxFaults
    BY <1>1, BenchAssumption DEF BenchInv, BenchTyping
  <2> QED
    BY <1>1, <1>3, <1>4, <1>6, <2>1, <2>2 DEF BenchInv, BenchTyping
<1>8. Measured'
  <2>1. \A s \in complete' : resultFile'[s] = Whole' /\ DrawnUpTo(s, 7)'
    BY <1>1, <1>2, <1>6 DEF Whole
  <2> QED
    BY <1>3, <2>1 DEF Measured
<1> QED
  BY <1>3, <1>5, <1>6, <1>7, <1>8, NoOutputStep

LEMMA AbortStep == ASSUME BenchInv, Abort PROVE BenchInv'
<1>1. /\ bpc # "idle" /\ faults < MaxFaults /\ faults' = faults + 1 /\ bpc' = "idle"
      /\ HalfSaved /\ UNCHANGED <<version, suite, next, memoryVars, resultFile, outputFile, hit>>
  BY DEF Abort
<1>2. /\ OnlyNewFiles /\ DOMAIN chartFile' = ChartFiles
      /\ \A f \in ChartFiles : chartFile'[f].version \in 0..MaxRuns
  BY <1>1, HalfKept
<1>3. BenchTyping'
  <2>1. faults' \in 0..MaxFaults
    BY <1>1, BenchAssumption DEF BenchInv, BenchTyping
  <2> QED
    BY <1>1, <1>2, <2>1 DEF BenchInv, BenchTyping, Sections, memoryVars
<1>4. BenchPlace' /\ Measured'
  BY <1>1 DEF BenchPlace, Measured, InSuite, AtOutput
<1> QED
  BY <1>1, <1>2, <1>3, <1>4, NoOutputStep

LEMMA SaveDashboardStep == ASSUME BenchInv, SaveDashboard PROVE BenchInv'
<1> DEFINE x == [version |-> version, whole |-> TRUE, of |-> Shown]
<1>1. /\ bpc = "dashboard" /\ bpc' = "output" /\ chartFile' = [chartFile EXCEPT ![Dashboard] = x]
      /\ UNCHANGED <<version, faults, suite, next, memoryVars, resultFile, outputFile, hit>>
  BY DEF SaveDashboard, At
<1>2. x.version = version /\ x.whole /\ x.of = Shown
  OBVIOUS
<1> HIDE DEF x
<1>3. /\ complete \cup failures = Ids /\ Ids = 1..5 /\ complete \cap failures = {} /\ next = 1
      /\ version \in 0..MaxRuns /\ complete \subseteq Ids
      /\ DOMAIN chartFile = ChartFiles
      /\ \A s \in complete : resultFile[s] = Whole /\ DrawnUpTo(s, 7)
  BY <1>1, SuiteTable DEF BenchInv, BenchTyping, BenchPlace, Measured
<1>4. Shown = {Correctness, Scalability} \ failures
  BY <1>3 DEF Shown, Correctness, Scalability
<1>5. /\ DOMAIN chartFile' = ChartFiles /\ chartFile'[Dashboard] = x
      /\ \A f \in ChartFiles \ {Dashboard} : chartFile'[f] = chartFile[f]
  BY <1>1, <1>3 DEF ChartFiles
<1>6. BenchTyping'
  <2>1. \A f \in ChartFiles : chartFile'[f].version \in 0..MaxRuns
    BY <1>2, <1>3, <1>5 DEF BenchInv, BenchTyping
  <2> QED
    BY <1>1, <1>5, <2>1 DEF BenchInv, BenchTyping, Sections, memoryVars
<1>7. BenchPlace'
  <2>1. next' = 1 /\ 1 \in 1..3
    BY <1>1, <1>3
  <2> QED
    BY <1>1, <1>3, <2>1 DEF BenchPlace, InSuite, AtOutput, memoryVars
<1>8. Measured'
  <2>1. ASSUME NEW s \in complete PROVE DrawnUpTo(s, 7)'
    <3>1. s \in Ids
      BY <1>3
    <3>2. ASSUME NEW i \in DOMAIN Suites[s].charts
          PROVE  chartFile'[FileOf(s, i)] = chartFile[FileOf(s, i)]
      BY <3>1, <1>5, ChartsApart
    <3> QED
      BY <1>1, <1>3, <3>1, <3>2, DrawnKept
  <2>2. \A s \in complete' : resultFile'[s] = Whole' /\ DrawnUpTo(s, 7)'
    BY <1>1, <1>3, <2>1 DEF Whole, memoryVars
  <2> QED
    BY <1>1, <1>2, <1>4, <1>5, <2>2 DEF Measured, AtOutput, memoryVars
<1>9. /\ bpc # "idle" /\ ~AtOutput /\ UNCHANGED <<version, outputFile>>
      /\ next' = 1 /\ bpc' = "output"
  BY <1>1, <1>3 DEF AtOutput
<1>10. OnlyNewFiles
  <2>1. \A s \in Ids : \A i \in DOMAIN Suites[s].charts :
           chartFile'[FileOf(s, i)] = chartFile[FileOf(s, i)]
    BY <1>5, ChartsApart
  <2> QED
    BY <1>1, <1>2, <1>5, <2>1 DEF OnlyNewFiles
<1> QED
  BY <1>6, <1>7, <1>8, <1>9, <1>10, NoOutputStep

LEMMA StartRunStep == ASSUME BenchInv, StartRun PROVE BenchInv'
<1>1. /\ version < MaxRuns /\ bpc' = "run" /\ version' = version + 1 /\ faults' = 0
      /\ suite' = 1 /\ next' = 1 /\ complete' = {} /\ failures' = {} /\ hit' = {}
      /\ markdown' = Empty /\ json' = Empty /\ UNCHANGED <<resultFile, chartFile, outputFile>>
  BY DEF StartRun, At, diskVars
<1>2. /\ version \in 0..MaxRuns /\ version' \in 0..MaxRuns /\ 0 \in 0..MaxFaults
      /\ \A o \in OutputNames : /\ outputFile[o].version \in 0..MaxRuns
                                /\ outputFile[o].version <= version
  BY <1>1, BenchAssumption DEF BenchInv, BenchTyping, Written
<1>3. \A o \in OutputNames : outputFile[o].version < version' /\ outputFile[o].version <= version'
  <2>1. \A v \in 0..MaxRuns : v <= version => v < version + 1 /\ v <= version + 1
    BY <1>2
  <2> QED
    BY <1>1, <1>2, <2>1
<1>4. BenchTyping'
  <2>1. Sections' = Empty
    BY <1>1 DEF Sections, Empty
  <2>2. suite' \in Ids /\ next' \in 1..6
    BY <1>1, SuiteTable
  <2> QED
    BY <1>1, <1>2, <2>1, <2>2 DEF BenchInv, BenchTyping
<1>5. BenchPlace'
  <2>1. complete' \cup failures' = 1..(suite' - 1)
    BY <1>1
  <2> QED
    BY <1>1, <2>1 DEF BenchPlace, AtOutput
<1>6. Measured'
  BY <1>1 DEF Measured, AtOutput
<1>7. Written'
  <2>1. \A i \in 1..3 : Outputs[i] \in OutputNames /\ ~Ready(i)' /\ ~Opened(i)'
    BY <1>1, OutputTable DEF Ready, Opened, AtOutput
  <2> QED
    BY <1>1, <1>3, <2>1 DEF Written
<1>8. ReportsAreTwins' /\ ReportComesLast'
  BY <1>1 DEF BenchInv, ReportsAreTwins, ReportComesLast
<1>9. NothingStale'
  BY <1>1 DEF BenchInv, NothingStale
<1> QED
  BY <1>4, <1>5, <1>6, <1>7, <1>8, <1>9 DEF BenchInv

-----------------------------------------------------------------------------
(* While the outputs are written.                                          *)
LEMMA OutputPlace ==
    ASSUME BenchInv, AtOutput
    PROVE  /\ next \in {1, 2, 3} /\ version \in Nat /\ version \in 0..MaxRuns
           /\ \A o \in OutputNames :
                 /\ outputFile[o].version \in Nat
                 /\ outputFile[o].version <= version
           /\ \A i \in 1..3 :
                 /\ Outputs[i] \in OutputNames
                 /\ i < next => outputFile[Outputs[i]] = Content(Outputs[i])
                 /\ i > next => outputFile[Outputs[i]].version < version
           /\ bpc = "output" => outputFile[Outputs[next]].version < version
<1>1. next \in 1..3 /\ bpc # "idle" /\ bpc \in {"output", "write"}
  BY DEF BenchInv, BenchPlace, AtOutput
<1>2. /\ version \in 0..MaxRuns
      /\ \A o \in OutputNames : /\ outputFile[o].version \in 0..MaxRuns
                                /\ outputFile[o].version <= version
  BY DEF BenchInv, BenchTyping, Written
<1>3. \A v \in 0..MaxRuns : v \in Nat
  BY BenchAssumption
<1>4. \A i \in 1..3 : Outputs[i] \in OutputNames
  BY OutputTable
<1>5. \A i \in 1..3 :
         LET f == outputFile[Outputs[i]] IN
         IF Ready(i) THEN f = Content(Outputs[i])
         ELSE IF Opened(i) THEN f.version = version /\ ~f.whole
         ELSE f.version < version
  BY <1>1 DEF BenchInv, Written
<1>6. \A i \in 1..3 :
         /\ i < next => Ready(i)
         /\ i > next => ~Ready(i) /\ ~Opened(i)
         /\ bpc = "output" /\ i = next => ~Ready(i) /\ ~Opened(i)
  BY <1>1 DEF Ready, Opened, AtOutput
<1>7. next \in {1, 2, 3}
  BY <1>1
<1> QED
  BY <1>1, <1>2, <1>3, <1>4, <1>5, <1>6, <1>7

(* One output is opened or written, the others are left alone.             *)
LEMMA OutputSaved ==
    ASSUME BenchInv, AtOutput, NEW x,
           outputFile' = [outputFile EXCEPT ![Outputs[next]] = x]
    PROVE  /\ outputFile'[Outputs[next]] = x
           /\ \A i \in 1..3 : i # next => outputFile'[Outputs[i]] = outputFile[Outputs[i]]
           /\ \A o \in OutputNames \ {Outputs[next]} : outputFile'[o] = outputFile[o]
           /\ DOMAIN outputFile' = OutputNames
<1>1. DOMAIN outputFile = OutputNames
  BY DEF BenchInv, BenchTyping
<1>2. Outputs[next] \in OutputNames /\ next \in {1, 2, 3}
  BY OutputPlace
<1>3. \A i \in 1..3 : i # next => Outputs[i] # Outputs[next] /\ Outputs[i] \in OutputNames
  BY <1>2, OutputTable
<1> QED
  BY <1>1, <1>2, <1>3

(* The sections recorded are those of every suite.                         *)
LEMMA AllSections ==
    ASSUME BenchInv, AtOutput
    PROVE  /\ markdown = Sections /\ json = Sections /\ Sections \in SectionsOf(Ids)
           /\ Empty \in SectionsOf(Ids) /\ DOMAIN Sections = Ids /\ failures \subseteq Ids
           /\ failures = {s \in Ids : Sections[s] = "failed"}
<1>1. /\ complete \cup failures = Ids /\ complete \cap failures = {} /\ failures \subseteq Ids
      /\ markdown = Sections /\ json = Sections
  BY DEF BenchInv, BenchTyping, BenchPlace, AtOutput
<1>2. /\ Sections \in [Ids -> {"whole", "failed"}] /\ DOMAIN Sections = Ids
      /\ failures = {s \in Ids : Sections[s] = "failed"}
  BY <1>1 DEF Sections
<1>3. Empty \in [{} -> {"whole", "failed"}] /\ {} \in SUBSET Ids /\ Ids \in SUBSET Ids
  BY DEF Empty
<1> QED
  BY <1>1, <1>2, <1>3, SectionTypes

LEMMA OpenOutputStep == ASSUME BenchInv, OpenOutput PROVE BenchInv'
<1> DEFINE x == [NoOutput EXCEPT !.version = version]
<1>1. /\ bpc = "output" /\ bpc' = "write" /\ AtOutput
      /\ outputFile' = [outputFile EXCEPT ![Outputs[next]] = x]
      /\ UNCHANGED <<version, faults, suite, next, memoryVars, resultFile, chartFile, hit>>
  BY DEF OpenOutput, At, AtOutput
<1>2. /\ x.version = version /\ ~x.whole
      /\ x \in [version : 0..MaxRuns, whole : BOOLEAN, failures : SUBSET Ids,
                sections : SectionsOf(Ids)]
  <2>1. NoOutput \in [version : 0..MaxRuns, whole : BOOLEAN, failures : SUBSET Ids,
                      sections : SectionsOf(Ids)] /\ ~NoOutput.whole
    <3>1. Empty \in SectionsOf(Ids) /\ 0 \in 0..MaxRuns
      BY <1>1, AllSections, BenchAssumption
    <3> QED
      BY <3>1 DEF NoOutput
  <2>2. version \in 0..MaxRuns
    BY DEF BenchInv, BenchTyping
  <2> QED
    BY <2>1, <2>2
<1> HIDE DEF x
<1>3. /\ next \in {1, 2, 3} /\ version \in Nat /\ version \in 0..MaxRuns
      /\ \A o \in OutputNames : /\ outputFile[o].version \in Nat
                                /\ outputFile[o].version <= version
      /\ \A i \in 1..3 :
            /\ Outputs[i] \in OutputNames
            /\ i < next => outputFile[Outputs[i]] = Content(Outputs[i])
            /\ i > next => outputFile[Outputs[i]].version < version
      /\ outputFile[Outputs[next]].version < version
  BY <1>1, OutputPlace
<1>4. /\ outputFile'[Outputs[next]] = x
      /\ \A i \in 1..3 : i # next => outputFile'[Outputs[i]] = outputFile[Outputs[i]]
      /\ \A o \in OutputNames \ {Outputs[next]} : outputFile'[o] = outputFile[o]
      /\ DOMAIN outputFile' = OutputNames
  BY <1>1, OutputSaved
<1>6. BenchTyping'
  <2>1. outputFile' \in [OutputNames -> [version : 0..MaxRuns, whole : BOOLEAN,
                                         failures : SUBSET Ids, sections : SectionsOf(Ids)]]
    BY <1>1, <1>2 DEF BenchInv, BenchTyping
  <2> QED
    BY <1>1, <2>1 DEF BenchInv, BenchTyping, Sections, memoryVars
<1>7. BenchPlace'
  BY <1>1 DEF BenchInv, BenchPlace, InSuite, AtOutput, memoryVars
<1>8. Measured'
  BY <1>1 DEF BenchInv, Measured, DrawnUpTo, ChartDrawn, Whole, AtOutput, memoryVars
<1>9. Written'
  <2>1. \A o \in OutputNames : outputFile'[o].version <= version'
    BY <1>1, <1>3, <1>4, <1>2
  <2>2. ASSUME NEW i \in 1..3
        PROVE  LET f == outputFile'[Outputs[i]] IN
               IF Ready(i)' THEN f = Content(Outputs[i])'
               ELSE IF Opened(i)' THEN f.version = version' /\ ~f.whole
               ELSE f.version < version'
    <3>1. Ready(i)' <=> i < next
      BY <1>1 DEF Ready, AtOutput
    <3>2. Opened(i)' <=> i = next
      BY <1>1 DEF Opened
    <3>3. CASE i < next
      <4>1. i # next
        BY <1>3, <3>3
      <4>2. Content(Outputs[i])' = Content(Outputs[i])
        BY <1>1 DEF Content, memoryVars
      <4> QED
        BY <1>3, <1>4, <3>1, <3>3, <4>1, <4>2
    <3>4. CASE i = next
      <4>1. ~(i < next)
        BY <1>3, <3>4
      <4> QED
        BY <1>1, <1>4, <1>2, <3>1, <3>2, <3>4, <4>1
    <3>5. CASE ~(i < next) /\ i # next
      <4>1. i > next
        BY <1>3, <3>5
      <4> QED
        BY <1>1, <1>3, <1>4, <3>1, <3>2, <3>5, <4>1
    <3> QED
      BY <3>3, <3>4, <3>5
  <2> QED
    BY <2>1, <2>2 DEF Written
<1>10. /\ next # 3 => outputFile["report"].version < version
       /\ next = 3 => ~outputFile'["report"].whole
       /\ next = 2 => ~outputFile'["md"].whole
       /\ next = 1 => ~outputFile'["meta"].whole
       /\ next # 1 => outputFile'["meta"] = outputFile["meta"]
       /\ next # 2 => outputFile'["md"] = outputFile["md"]
       /\ next # 3 => outputFile'["report"] = outputFile["report"]
       /\ next = 1 => outputFile'["meta"].version = version
       /\ next = 2 => outputFile'["md"].version = version
  BY <1>3, <1>4, <1>2, OutputTable
<1>11. ReportsAreTwins'
  <2>1. CASE next = 1
    BY <1>10, <2>1 DEF BenchInv, ReportsAreTwins
  <2>2. CASE next = 2
    BY <1>10, <2>2 DEF BenchInv, ReportsAreTwins
  <2>3. CASE next = 3
    BY <1>10, <2>3 DEF BenchInv, ReportsAreTwins
  <2> QED
    BY <1>3, <2>1, <2>2, <2>3
<1>12. ReportComesLast'
  <2>1. outputFile["report"].version \in Nat
    BY <1>3, OutputTable
  <2>2. CASE next = 1
    BY <1>3, <1>10, <2>1, <2>2 DEF BenchInv, ReportComesLast
  <2>3. CASE next = 2
    BY <1>3, <1>10, <2>1, <2>3 DEF BenchInv, ReportComesLast
  <2>4. CASE next = 3
    BY <1>10, <2>4 DEF ReportComesLast
  <2> QED
    BY <1>3, <2>2, <2>3, <2>4
<1>13. NothingStale'
  <2>1. CASE next = 3
    BY <1>10, <2>1 DEF NothingStale
  <2>2. CASE next # 3
    BY <1>1, <1>10, <2>2 DEF BenchInv, NothingStale
  <2> QED
    BY <2>1, <2>2
<1> QED
  BY <1>6, <1>7, <1>8, <1>9, <1>11, <1>12, <1>13 DEF BenchInv

LEMMA WriteOutputStep == ASSUME BenchInv, WriteOutput PROVE BenchInv'
<1> DEFINE x == Content(Outputs[next])
<1>1. /\ bpc = "write" /\ AtOutput
      /\ outputFile' = [outputFile EXCEPT ![Outputs[next]] = x]
      /\ \/ next = 3 /\ bpc' = "idle" /\ next' = next
         \/ next # 3 /\ bpc' = "output" /\ next' = next + 1
      /\ UNCHANGED <<version, faults, suite, memoryVars, resultFile, chartFile, hit>>
  BY OutputTable DEF WriteOutput, AtOutput
<1>2. /\ next \in {1, 2, 3} /\ version \in Nat /\ version \in 0..MaxRuns
      /\ \A o \in OutputNames : /\ outputFile[o].version \in Nat
                                /\ outputFile[o].version <= version
      /\ \A i \in 1..3 :
            /\ Outputs[i] \in OutputNames
            /\ i < next => outputFile[Outputs[i]] = Content(Outputs[i])
            /\ i > next => outputFile[Outputs[i]].version < version
  BY <1>1, OutputPlace
<1>3. /\ x.version = version /\ x.whole /\ x.failures = failures
      /\ next = 1 => x = Content("meta")
      /\ next = 2 => x = Content("md")
      /\ next = 3 => x = Content("report")
      /\ x \in [version : 0..MaxRuns, whole : BOOLEAN, failures : SUBSET Ids,
                sections : SectionsOf(Ids)]
  <2>1. /\ next = 1 => x = Content("meta")
        /\ next = 2 => x = Content("md")
        /\ next = 3 => x = Content("report")
    BY OutputTable DEF x
  <2>2. /\ markdown \in SectionsOf(Ids) /\ json \in SectionsOf(Ids)
        /\ Empty \in SectionsOf(Ids) /\ failures \in SUBSET Ids
    BY <1>1, AllSections
  <2>3. PICK sections \in SectionsOf(Ids) :
           x = [version |-> version, whole |-> TRUE, failures |-> failures,
                sections |-> sections]
    <3> HIDE DEF x
    <3>1. CASE next = 1
      BY <2>1, <2>2, <3>1, OutputTable
    <3>2. CASE next = 2
      BY <2>1, <2>2, <3>2, OutputTable
    <3>3. CASE next = 3
      BY <2>1, <2>2, <3>3, OutputTable
    <3> QED
      BY <1>2, <3>1, <3>2, <3>3
  <2> HIDE DEF x
  <2>4. x \in [version : 0..MaxRuns, whole : BOOLEAN, failures : SUBSET Ids,
              sections : SectionsOf(Ids)]
    BY <1>2, <2>2, <2>3
  <2> QED
    BY <2>1, <2>3, <2>4
<1>4. /\ outputFile'[Outputs[next]] = x
      /\ \A i \in 1..3 : i # next => outputFile'[Outputs[i]] = outputFile[Outputs[i]]
      /\ \A o \in OutputNames \ {Outputs[next]} : outputFile'[o] = outputFile[o]
      /\ DOMAIN outputFile' = OutputNames
  BY <1>1, OutputSaved
<1> HIDE DEF x
<1>5. BenchTyping'
  <2>1. outputFile' \in [OutputNames -> [version : 0..MaxRuns, whole : BOOLEAN,
                                         failures : SUBSET Ids, sections : SectionsOf(Ids)]]
    BY <1>1, <1>3 DEF BenchInv, BenchTyping
  <2>2. next' \in 1..6
    BY <1>1, <1>2
  <2>3. bpc' \in {"idle", "output"}
    BY <1>1
  <2> QED
    BY <1>1, <2>1, <2>2, <2>3 DEF BenchInv, BenchTyping, Sections, memoryVars
<1>6. BenchPlace'
  <2>1. bpc' = "output" => next' \in 1..3
    BY <1>1, <1>2
  <2>2. bpc' \in {"idle", "output"}
    BY <1>1
  <2> QED
    BY <1>1, <2>1, <2>2 DEF BenchInv, BenchPlace, InSuite, AtOutput, memoryVars
<1>7. Measured'
  <2>1. bpc # "idle" /\ bpc' \in {"idle", "output"}
    BY <1>1
  <2> QED
    BY <1>1, <2>1 DEF BenchInv, Measured, DrawnUpTo, ChartDrawn, Whole, AtOutput, memoryVars
<1>8. Written'
  <2>1. \A o \in OutputNames : outputFile'[o].version <= version'
    <3>1. version <= version
      BY <1>2
    <3> QED
      BY <1>1, <1>2, <1>3, <1>4, <3>1
  <2>2. ASSUME bpc' # "idle", NEW i \in 1..3
        PROVE  LET f == outputFile'[Outputs[i]] IN
               IF Ready(i)' THEN f = Content(Outputs[i])'
               ELSE IF Opened(i)' THEN f.version = version' /\ ~f.whole
               ELSE f.version < version'
    <3>1. next # 3 /\ bpc' = "output" /\ next' = next + 1
      BY <1>1, <2>2
    <3>2. ~Opened(i)' /\ (Ready(i)' <=> i < next')
      BY <3>1 DEF Opened, Ready, AtOutput
    <3>3. Content(Outputs[i])' = Content(Outputs[i])
      BY <1>1 DEF Content, memoryVars
    <3>4. CASE i < next
      <4>1. i # next /\ i < next'
        BY <1>2, <3>1, <3>4
      <4> QED
        BY <1>2, <1>4, <3>2, <3>3, <3>4, <4>1
    <3>5. CASE i = next
      <4>1. i < next' /\ Content(Outputs[i]) = x
        BY <1>2, <3>1, <3>5 DEF x
      <4> QED
        BY <1>4, <3>2, <3>3, <3>5, <4>1
    <3>6. CASE ~(i < next) /\ i # next
      <4>1. i > next /\ ~(i < next')
        BY <1>2, <3>1, <3>6
      <4>2. ~Ready(i)' /\ ~Opened(i)'
        BY <3>1, <4>1 DEF Opened, Ready, AtOutput
      <4> QED
        BY <1>1, <1>2, <1>4, <3>6, <4>1, <4>2
    <3> QED
      BY <3>4, <3>5, <3>6
  <2> QED
    BY <2>1, <2>2 DEF Written
<1>9. /\ next = 1 => /\ outputFile'["meta"] = Content("meta")
                     /\ outputFile["md"].version < version
      /\ next = 2 => /\ outputFile'["meta"] = Content("meta")
                     /\ outputFile'["md"] = Content("md")
      /\ next = 3 => /\ outputFile'["meta"] = Content("meta")
                     /\ outputFile'["md"] = Content("md")
                     /\ outputFile'["report"] = Content("report")
      /\ next # 3 => /\ outputFile["report"].version < version
                     /\ outputFile'["report"] = outputFile["report"]
      /\ next = 1 => outputFile'["md"] = outputFile["md"]
      /\ outputFile["report"].version \in Nat /\ outputFile["md"].version \in Nat
  BY <1>2, <1>3, <1>4, OutputTable
<1>10. /\ markdown = Sections /\ json = Sections /\ DOMAIN Sections = Ids
       /\ failures = {s \in Ids : Sections[s] = "failed"}
  BY <1>1, AllSections
<1>11. ReportsAreTwins'
  <2>1. CASE next = 1
    BY <1>2, <1>9, <2>1, OutputTable DEF BenchInv, ReportsAreTwins
  <2>2. CASE next = 2
    BY <1>2, <1>9, <1>10, <2>2, OutputTable DEF BenchInv, ReportsAreTwins
  <2>3. CASE next = 3
    BY <1>9, <1>10, <2>3, OutputTable DEF ReportsAreTwins
  <2> QED
    BY <1>2, <2>1, <2>2, <2>3
<1>12. ReportComesLast'
  <2>1. CASE next = 1
    BY <1>2, <1>9, <2>1, OutputTable DEF BenchInv, ReportComesLast
  <2>2. CASE next = 2
    BY <1>2, <1>9, <2>2, OutputTable DEF ReportComesLast
  <2>3. CASE next = 3
    BY <1>9, <2>3, OutputTable DEF ReportComesLast
  <2> QED
    BY <1>2, <2>1, <2>2, <2>3
<1>13. NothingStale'
  <2>1. CASE next # 3
    BY <1>1, <1>9, <2>1 DEF BenchInv, NothingStale
  <2>2. CASE next = 3
    <3>1. outputFile'["report"].failures = failures /\ outputFile'["report"].version = version
      BY <1>9, <2>2, OutputTable
    <3>2. ASSUME NEW s \in Ids \ failures
          PROVE  /\ resultFile[s] = Whole
                 /\ \A c \in ChartsOf(s) : ChartDrawn(s, c)
      <4>1. s \in Ids /\ s \in complete
        BY <1>1 DEF BenchInv, BenchPlace, AtOutput
      <4>2. resultFile[s] = Whole /\ DrawnUpTo(s, 7)
        BY <1>1, <4>1 DEF BenchInv, Measured
      <4>3. \A i \in DOMAIN Suites[s].charts : i < 7
        <5>1. \A n \in 1..6 : \A i \in 1..n : i < 7
          OBVIOUS
        <5> QED
          BY <4>1, <5>1, SuiteFacts
      <4> QED
        BY <4>2, <4>3 DEF DrawnUpTo, ChartsOf
    <3>3. /\ chartFile[Dashboard].version = version /\ chartFile[Dashboard].whole
          /\ chartFile[Dashboard].of = {Correctness, Scalability} \ failures
      BY <1>1 DEF BenchInv, Measured
    <3>4. ASSUME NEW f, f.version = version, f.whole PROVE FromRun(f, version)
      BY <1>2, <3>4 DEF FromRun
    <3>5. ASSUME NEW s \in Ids \ failures
          PROVE  /\ FromRun(resultFile[s], version)
                 /\ \A c \in ChartsOf(s) : /\ FromRun(chartFile[c.file], version)
                                           /\ chartFile[c.file].of = <<s, c.name>>
      <4>1. FromRun(resultFile[s], version)
        BY <3>2, <3>4, <3>5 DEF Whole
      <4>2. ASSUME NEW c \in ChartsOf(s)
            PROVE  FromRun(chartFile[c.file], version) /\ chartFile[c.file].of = <<s, c.name>>
        <5>1. chartFile[c.file] = [version |-> version, whole |-> TRUE, of |-> <<s, c.name>>]
          BY <3>2, <3>5, <4>2 DEF ChartDrawn
        <5>2. chartFile[c.file].version = version /\ chartFile[c.file].whole
          BY <5>1
        <5> QED
          BY <3>4, <5>1, <5>2
      <4> QED
        BY <4>1, <4>2
    <3>6. FromRun(chartFile[Dashboard], version)
      BY <3>3, <3>4
    <3> QED
      BY <1>1, <3>1, <3>3, <3>5, <3>6 DEF NothingStale
  <2> QED
    BY <2>1, <2>2
<1> QED
  BY <1>5, <1>6, <1>7, <1>8, <1>11, <1>12, <1>13 DEF BenchInv

-----------------------------------------------------------------------------
LEMMA BenchStutter == ASSUME BenchInv, UNCHANGED benchVars PROVE BenchInv'
<1>1. /\ BenchTyping' /\ BenchPlace'
  BY DEF BenchInv, BenchTyping, BenchPlace, Sections, InSuite, AtOutput, benchVars, memoryVars,
         diskVars
<1>2. Measured'
  BY DEF BenchInv, Measured, DrawnUpTo, ChartDrawn, Whole, AtOutput, benchVars, memoryVars,
         diskVars
<1>3. Written'
  BY DEF BenchInv, Written, Ready, Opened, AtOutput, Content, benchVars, memoryVars, diskVars
<1>4. ReportsAreTwins' /\ ReportComesLast' /\ NothingStale'
  BY DEF BenchInv, ReportsAreTwins, ReportComesLast, NothingStale, benchVars,
         memoryVars, diskVars
<1> QED
  BY <1>1, <1>2, <1>3, <1>4 DEF BenchInv

(* The invariant holds throughout every number of runs, with any number of *)
(* exceptions and aborts in each.                                          *)
THEOREM BenchInvariance == BenchSpec => []BenchInv
<1>1. ASSUME BenchInv, [BenchNext]_benchVars PROVE BenchInv'
  <2>1. CASE StartRun
    BY <1>1, <2>1, StartRunStep
  <2>2. CASE RunSuite \/ ToMarkdown
    BY <1>1, <2>2, RunStep
  <2>3. CASE OpenResults \/ DumpResults
    BY <1>1, <2>3, ResultsStep
  <2>4. CASE SaveChart
    BY <1>1, <2>4, SaveChartStep
  <2>5. CASE ToJson
    BY <1>1, <2>5, ToJsonStep
  <2>6. CASE SuiteRaises
    BY <1>1, <2>6, SuiteRaisesStep
  <2>7. CASE SaveDashboard
    BY <1>1, <2>7, SaveDashboardStep
  <2>8. CASE OpenOutput
    BY <1>1, <2>8, OpenOutputStep
  <2>9. CASE WriteOutput
    BY <1>1, <2>9, WriteOutputStep
  <2>10. CASE Abort
    BY <1>1, <2>10, AbortStep
  <2>11. CASE UNCHANGED benchVars
    BY <1>1, <2>11, BenchStutter
  <2> QED
    BY <1>1, <2>1, <2>2, <2>3, <2>4, <2>5, <2>6, <2>7, <2>8, <2>9, <2>10, <2>11 DEF BenchNext
<1> QED
  BY <1>1, BenchInit1, PTL DEF BenchSpec

(* Every variable of the benchmark runner keeps its type, and a suite is   *)
(* recorded once, as completed or as failed (main.py, lines 160-190).      *)
THEOREM BenchTyped == BenchSpec => []BenchTypeOK
<1>1. BenchInv => BenchTypeOK
  <2> SUFFICES ASSUME BenchInv PROVE BenchTypeOK
    OBVIOUS
  <2>1. BenchTyping
    BY DEF BenchInv
  <2>2. DOMAIN Sections = complete \cup failures
    BY DEF Sections
  <2>3. \A o \in OutputNames : outputFile[o].sections \in SectionsOf(Ids)
    BY <2>1 DEF BenchTyping
  <2> QED
    BY <2>1, <2>2, <2>3 DEF BenchTyping, BenchTypeOK, SectionsOf
<1> QED
  BY <1>1, BenchInvariance, PTL

(* RESULTS.md and report.json of one version are twins, and list the       *)
(* failures of its meta.json, whatever was aborted before or after.        *)
THEOREM ReportsStayTwins == BenchSpec => []ReportsAreTwins
<1>1. BenchInv => ReportsAreTwins
  BY DEF BenchInv
<1> QED
  BY <1>1, BenchInvariance, PTL

(* No number and no chart that a finished report refers to is of an earlier*)
(* run or of another suite, or left half by its own run; later runs, the   *)
(* aborted ones too, may have overwritten it.                              *)
THEOREM NothingGetsStale == BenchSpec => []NothingStale
<1>1. BenchInv => NothingStale
  BY DEF BenchInv
<1> QED
  BY <1>1, BenchInvariance, PTL

(* A whole report.json is never newer than RESULTS.md and meta.json.       *)
THEOREM ReportIsLast == BenchSpec => []ReportComesLast
<1>1. BenchInv => ReportComesLast
  BY DEF BenchInv
<1> QED
  BY <1>1, BenchInvariance, PTL

(* The suites agree with themselves on the names of results and charts: one*)
(* is reported as failed only if something went wrong in it.               *)
THEOREM OnlyFaultsMakeFailures == BenchSpec => []OnlyFaultsFail
<1>1. BenchInv => OnlyFaultsFail
  BY DEF BenchInv, BenchTyping, OnlyFaultsFail
<1> QED
  BY <1>1, BenchInvariance, PTL
=============================================================================
