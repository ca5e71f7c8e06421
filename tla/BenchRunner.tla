----------------------------- MODULE BenchRunner -----------------------------
(***************************************************************************)
(* bench/main.py: runs the registered suites one after the other and writes*)
(* what they measured: results/<suite>.json and charts/*.png as it goes,   *)
(* then the dashboard, results/meta.json, RESULTS.md and report.json.  A   *)
(* suite that raises is reported as failed and the others go on; the whole *)
(* run may be aborted anywhere, and leaves on disk what earlier runs and   *)
(* the part that was done have written.                                    *)
(*                                                                         *)
(* A suite is four functions: run() measures, render() saves charts,       *)
(* to_markdown() embeds them in a section, to_json() does without.  They   *)
(* meet only in the names of results and charts, which are given here as   *)
(* the code has them; the numbers are left out.                            *)
(*                                                                         *)
(* Faulty... definitions are no part of the model: each is a bug put in the*)
(* place of the definition that follows it, to see a property fail.        *)
(***************************************************************************)
EXTENDS Integers, Sequences

CONSTANTS
    MaxRuns,    \* bound: runs of the whole benchmark, each with its VERSION
    MaxFaults   \* bound: exceptions and aborts in one run

ASSUME BenchAssumption == {MaxRuns, MaxFaults} \subseteq Nat

-----------------------------------------------------------------------------
(* The suites.  A chart: its name in what render() returns, its file, and  *)
(* the results it is drawn from.                                           *)
Chart(name, file, of) == [name |-> name, file |-> file, of |-> of]

Results01 == {"atomic_no_lost_updates", "mset_atomicity_naive_get_get",
              "mset_atomicity_via_snapshot", "conflict_retry_exceeded_reachable",
              "ttl_reschedule_no_resurrection", "subscriber_exception_isolated"}
Charts01 == <<Chart("results", "01_correctness_results", Results01)>>
(* A test that is not found gets no row, and nothing is raised.            *)
Section01 == [embeds |-> {"results"}, of |-> {}]
Json01 == Results01

Results02 == {"latency", "throughput_get", "throughput_set_disjoint",
              "throughput_atomic_hotkey"}
Charts02 == <<
    Chart("latency_by_op", "02_latency_by_operation", {"latency"}),
    Chart("throughput_vs_threads", "03_throughput_vs_threads", Results02 \ {"latency"})>>
(* A result under another name than that of run().                         *)
FaultySection02 == [embeds |-> {"latency_by_op", "throughput_vs_threads"},
                    of |-> {"latency", "throughput_get", "throughput_set",
                            "throughput_atomic_hotkey"}]
Section02 == [embeds |-> {"latency_by_op", "throughput_vs_threads"}, of |-> Results02]
Json02 == Results02

Results03 == {"scalability_vs_keycount", "memory_overhead", "ttl_accuracy",
              "ttl_overhead_vs_scheduled_count", "subscriber_overhead"}
Charts03 == <<
    Chart("scalability", "04_scalability_vs_keycount", {"scalability_vs_keycount"}),
    Chart("memory", "05_memory_overhead_vs_dict", {"memory_overhead"}),
    Chart("ttl_accuracy", "06_ttl_accuracy_jitter", {"ttl_accuracy"}),
    Chart("ttl_overhead", "07_ttl_scheduler_overhead_vs_load",
          {"ttl_overhead_vs_scheduled_count"}),
    Chart("subscriber", "08_subscriber_fanout_overhead", {"subscriber_overhead"})>>
Section03 == [embeds |-> {"scalability", "memory", "ttl_accuracy", "ttl_overhead",
                          "subscriber"},
              of |-> Results03]
Json03 == Results03

(* The groups "persistence" and "breaking_points" by what is in them.       *)
Results04 == {"async_overhead", "write_overhead", "rehydration",
              "set_latency_with_10mb_value_present", "conflict_failures_vs_max_retries",
              "note_threshold", "set_latency_growth_to_1M_keys"}
(* The name of a file of suite 3; or one of its own.                       *)
FaultyScaleFile == "04_scalability_vs_keycount"
ScaleFile == "04b_scalability_to_1M_keys"
Charts04 == <<
    Chart("async", "10_async_vs_sync_overhead", {"async_overhead"}),
    Chart("backend_overhead", "11_persistence_backend_write_overhead", {"write_overhead"}),
    Chart("rehydration", "12_rehydration_time_vs_keycount", {"rehydration"}),
    Chart("big_value", "13_big_value_structural_sharing",
          {"set_latency_with_10mb_value_present"}),
    Chart("retry_threshold", "09_conflict_retry_threshold",
          {"conflict_failures_vs_max_retries"}),
    Chart("scale_1m", ScaleFile, {"set_latency_growth_to_1M_keys"})>>
Section04 == [embeds |-> {"async", "backend_overhead", "rehydration", "retry_threshold",
                          "big_value", "scale_1m"},
              of |-> Results04 \ {"note_threshold"}]
Json04 == Results04 \ {"note_threshold"}

Results05 == {"latency", "throughput_vs_threads", "ttl_features", "async"}
Charts05 == <<
    Chart("latency", "14_comparative_latency", {"latency"}),
    Chart("throughput", "15_comparative_throughput_vs_threads", {"throughput_vs_threads"}),
    Chart("async", "16_comparative_async_overhead", {"async"})>>
Section05 == [embeds |-> {"latency", "throughput", "async"}, of |-> Results05]
Json05 == Results05

Suites == <<
    [results |-> Results01, charts |-> Charts01, section |-> Section01, json |-> Json01],
    [results |-> Results02, charts |-> Charts02, section |-> Section02, json |-> Json02],
    [results |-> Results03, charts |-> Charts03, section |-> Section03, json |-> Json03],
    [results |-> Results04, charts |-> Charts04, section |-> Section04, json |-> Json04],
    [results |-> Results05, charts |-> Charts05, section |-> Section05, json |-> Json05]>>
Ids == DOMAIN Suites

Dashboard == "00_summary_dashboard"
Correctness == 1    \* b01_correctness and b03_scalability_..., which the
Scalability == 3    \* dashboard is drawn from
ChartsOf(s) == {Suites[s].charts[i] : i \in DOMAIN Suites[s].charts}
ChartFiles == {Dashboard} \cup UNION {{c.file : c \in ChartsOf(s)} : s \in Ids}

(* The files written last, in this order; or the summary of them first.    *)
FaultyOutputs == <<"report", "meta", "md">>
Outputs == <<"meta", "md", "report">>
OutputNames == {"meta", "md", "report"}

VARIABLES
    bpc,        \* where main() is; "idle": no process
    version,    \* VERSION of the last run
    faults,     \* what went wrong in it
    suite,      \* the suite main() is at
    next,       \* the next of its charts, or of the outputs
    complete,   \* the suites with all_results[...]
    markdown,   \* all_markdown: what each section is
    json,       \* all_json: what each section is
    failures,   \* suites listed as failed
    resultFile, chartFile, outputFile,  \* what is on disk
    hit         \* auxiliary: suites in which something went wrong

memoryVars == <<complete, markdown, json, failures>>
diskVars == <<resultFile, chartFile, outputFile>>
benchVars == <<bpc, version, faults, suite, next, memoryVars, diskVars, hit>>

Empty == [s \in {} |-> "whole"]
NoFile == [version |-> 0, whole |-> FALSE]
NoOutput == [version |-> 0, whole |-> FALSE, failures |-> {}, sections |-> Empty]
NoChart == [version |-> 0, whole |-> FALSE, of |-> <<>>]

BenchInit ==
    /\ bpc = "idle"
    /\ version = 0 /\ faults = 0 /\ suite = 1 /\ next = 1
    /\ complete = {} /\ failures = {} /\ hit = {}
    /\ markdown = Empty /\ json = Empty
    /\ resultFile = [s \in Ids |-> NoFile]
    /\ chartFile = [f \in ChartFiles |-> NoChart]
    /\ outputFile = [o \in OutputNames |-> NoOutput]

-----------------------------------------------------------------------------
At(from, to) == bpc = from /\ bpc' = to

StartRun ==
    /\ version < MaxRuns
    /\ At("idle", "run")
    /\ version' = version + 1
    /\ faults' = 0 /\ suite' = 1 /\ next' = 1
    /\ complete' = {} /\ failures' = {} /\ hit' = {}
    /\ markdown' = Empty /\ json' = Empty
    /\ UNCHANGED diskVars

(* results = mod.run()                                                     *)
RunSuite ==
    /\ At("run", "open")
    /\ UNCHANGED <<version, faults, suite, next, memoryVars, diskVars, hit>>

(* common.save_json: the file is emptied, then written.                    *)
OpenResults ==
    /\ At("open", "dump")
    /\ resultFile' = [resultFile EXCEPT ![suite] = [version |-> version, whole |-> FALSE]]
    /\ UNCHANGED <<version, faults, suite, next, memoryVars, chartFile, outputFile, hit>>

DumpResults ==
    /\ At("dump", "render")
    /\ resultFile' = [resultFile EXCEPT ![suite].whole = TRUE]
    /\ UNCHANGED <<version, faults, suite, next, memoryVars, chartFile, outputFile, hit>>

(* A function of the suite finds the results it reads; if not, it raises.  *)
Finds(names) == names \subseteq Suites[suite].results

Drawn(c, whole) == [version |-> version, whole |-> whole, of |-> <<suite, c.name>>]

(* render(): one save_chart after the other.                               *)
SaveChart ==
    LET c == Suites[suite].charts[next] IN
    /\ bpc = "render"
    /\ Finds(c.of)
    /\ chartFile' = [chartFile EXCEPT ![c.file] = Drawn(c, TRUE)]
    /\ IF next = Len(Suites[suite].charts)
       THEN bpc' = "markdown" /\ next' = 1
       ELSE next' = next + 1 /\ UNCHANGED bpc
    /\ UNCHANGED <<version, faults, suite, memoryVars, resultFile, outputFile, hit>>

EmbedsSaved(s) == s.section.embeds \subseteq {s.charts[i].name : i \in DOMAIN s.charts}

ToMarkdown ==
    /\ At("markdown", "json")
    /\ Finds(Suites[suite].section.of) /\ EmbedsSaved(Suites[suite])
    /\ UNCHANGED <<version, faults, suite, next, memoryVars, diskVars, hit>>

(* for mod in SUITES, once too often; or to its end.                       *)
FaultyLastSuite == suite > Len(Suites)
LastSuite == suite = Len(Suites)

(* The next suite, or the dashboard.                                       *)
NextSuite ==
    /\ next' = 1
    /\ IF LastSuite
       THEN bpc' = "dashboard" /\ UNCHANGED suite
       ELSE bpc' = "run" /\ suite' = suite + 1

(* sections[name] = what, for the suite main() is at.                      *)
With(sections, what) ==
    [s \in DOMAIN sections \cup {suite} |-> IF s = suite THEN what ELSE sections[s]]

(* to_json, and the results of a suite that completed are taken over.      *)
ToJson ==
    /\ bpc = "json"
    /\ Finds(Suites[suite].json)
    /\ complete' = complete \cup {suite}
    /\ markdown' = With(markdown, "whole")
    /\ json' = With(json, "whole")
    /\ NextSuite
    /\ UNCHANGED <<version, faults, failures, diskVars, hit>>

(* What the `except` leaves for report.json: nothing; or a stub.           *)
FaultyFailedJson == json
FailedJson == With(json, "failed")

FailSuite ==
    /\ failures' = failures \cup {suite}
    /\ markdown' = With(markdown, "failed")
    /\ json' = FailedJson
    /\ NextSuite

(* KeyError: a result or a chart that is not there.                        *)
NameMissing ==
    \/ bpc = "render" /\ ~Finds(Suites[suite].charts[next].of)
    \/ bpc = "markdown" /\ ~(Finds(Suites[suite].section.of) /\ EmbedsSaved(Suites[suite]))
    \/ bpc = "json" /\ ~Finds(Suites[suite].json)

(* Whatever happens in save_chart may leave half a chart behind.           *)
HalfSaved ==
    \/ UNCHANGED chartFile
    \/ /\ bpc = "render"
       /\ LET c == Suites[suite].charts[next]
          IN  chartFile' = [chartFile EXCEPT ![c.file] = Drawn(c, FALSE)]

(* One of the functions raises.                                            *)
SuiteRaises ==
    /\ bpc \in {"run", "open", "dump", "render", "markdown", "json"}
    /\ NameMissing \/ faults < MaxFaults
    /\ faults' = IF NameMissing THEN faults ELSE faults + 1
    /\ hit' = IF NameMissing THEN hit ELSE hit \cup {suite}
    /\ HalfSaved
    /\ FailSuite
    /\ UNCHANGED <<version, complete, resultFile, outputFile>>

(* What the dashboard shows of the suites that completed.                  *)
Shown == {Correctness, Scalability} \cap complete

SaveDashboard ==
    /\ At("dashboard", "output")
    /\ chartFile' = [chartFile EXCEPT ![Dashboard] =
                        [version |-> version, whole |-> TRUE, of |-> Shown]]
    /\ UNCHANGED <<version, faults, suite, next, memoryVars, resultFile, outputFile, hit>>

(* meta.json lists the failures, RESULTS.md and report.json the sections   *)
(* as well.                                                                *)
Content(o) ==
    [version |-> version, whole |-> TRUE, failures |-> failures,
     sections |-> CASE o = "meta" -> Empty [] o = "md" -> markdown [] o = "report" -> json]

OpenOutput ==
    /\ At("output", "write")
    /\ outputFile' = [outputFile EXCEPT ![Outputs[next]] =
                        [NoOutput EXCEPT !.version = version]]
    /\ UNCHANGED <<version, faults, suite, next, memoryVars, resultFile, chartFile, hit>>

WriteOutput ==
    /\ bpc = "write"
    /\ outputFile' = [outputFile EXCEPT ![Outputs[next]] = Content(Outputs[next])]
    /\ IF next = Len(Outputs)
       THEN bpc' = "idle" /\ UNCHANGED next
       ELSE bpc' = "output" /\ next' = next + 1
    /\ UNCHANGED <<version, faults, suite, memoryVars, resultFile, chartFile, hit>>

(* Ctrl-C, a kill, or an exception outside the `try`.                      *)
Abort ==
    /\ bpc # "idle"
    /\ faults < MaxFaults
    /\ faults' = faults + 1
    /\ bpc' = "idle"
    /\ HalfSaved
    /\ UNCHANGED <<version, suite, next, memoryVars, resultFile, outputFile, hit>>

BenchNext ==
    \/ StartRun
    \/ RunSuite \/ OpenResults \/ DumpResults \/ SaveChart \/ ToMarkdown \/ ToJson
    \/ SuiteRaises
    \/ SaveDashboard \/ OpenOutput \/ WriteOutput
    \/ Abort

BenchSpec == BenchInit /\ [][BenchNext]_benchVars

-----------------------------------------------------------------------------
(* Properties                                                              *)

(* Every variable has its type, and a suite is recorded once: as completed *)
(* or as failed.                                                           *)
BenchTypeOK ==
    /\ version \in 0..MaxRuns /\ faults \in 0..MaxFaults
    /\ suite \in Ids
    /\ next \in 1..6
    /\ complete \cap failures = {}
    /\ DOMAIN markdown = complete \cup failures /\ DOMAIN json = DOMAIN markdown
    /\ resultFile \in [Ids -> [version : 0..MaxRuns, whole : BOOLEAN]]
    /\ \A f \in ChartFiles : chartFile[f].version \in 0..MaxRuns
    /\ \A o \in OutputNames : outputFile[o].sections \in
          UNION {[S -> {"whole", "failed"}] : S \in SUBSET Ids}

(* RESULTS.md and report.json are twins: whole and of one version they have*)
(* a section for every suite, failed in both or in none, and list the same *)
(* failures as meta.json (main.py, lines 207-214).                         *)
ReportsAreTwins ==
    \A o, p \in {"md", "report"} :
        LET a == outputFile[o]
            b == outputFile[p]
        IN  a.whole /\ b.whole /\ a.version = b.version =>
                /\ a.failures = b.failures
                /\ DOMAIN a.sections = Ids
                /\ a.sections = b.sections
                /\ a.failures = {s \in Ids : a.sections[s] = "failed"}
                /\ (outputFile["meta"].version = a.version /\ outputFile["meta"].whole)
                      => outputFile["meta"].failures = a.failures

(* A file that the report of version v refers to: it is of that run and    *)
(* whole, or a later run has begun to overwrite it.                        *)
FromRun(f, v) == f.version >= v /\ (f.version = v => f.whole)

(* "Old reports don't get confused for new ones": no number and no chart a *)
(* finished report refers to is older than the report, half written by its *)
(* own run, or of another suite, though earlier, later and aborted runs    *)
(* write files of the same names; the dashboard of its run shows what      *)
(* completed (main.py, lines 10-14 and 76-78).  The names carry no version:*)
(* a later run does overwrite what an earlier report refers to.            *)
NothingStale ==
    LET r == outputFile["report"] IN
    r.whole =>
        /\ \A s \in Ids \ r.failures :
              /\ FromRun(resultFile[s], r.version)
              /\ \A c \in ChartsOf(s) : c.name \in Suites[s].section.embeds =>
                    /\ FromRun(chartFile[c.file], r.version)
                    /\ chartFile[c.file].of = <<s, c.name>>
        /\ FromRun(chartFile[Dashboard], r.version)
        /\ chartFile[Dashboard].version = r.version =>
              chartFile[Dashboard].of = {Correctness, Scalability} \ r.failures

(* Whoever finds a whole report.json finds a RESULTS.md and a meta.json    *)
(* that are no older, wherever the run, or a later one, was aborted.       *)
ReportComesLast ==
    LET r == outputFile["report"]
        NoOlder(f) == f.version > r.version \/ (f.version = r.version /\ f.whole)
    IN  r.whole => NoOlder(outputFile["meta"]) /\ NoOlder(outputFile["md"])

(* A suite is reported as failed only if something went wrong in it: what  *)
(* render, to_markdown and to_json read is what run and render return.     *)
OnlyFaultsFail == failures \subseteq hit
=============================================================================
