----------------------------- MODULE Benchmarks ------------------------------
(* A benchmark: a named dataset of cases taken from the traffic, curated by     *)
(* operators, replayed by runs, deleted with all that hangs on it; and the        *)
(* daily purge, which deletes requests, cases, results and datasets by age.      *)
(* src/server/src: api/routes/evalBenchmarks.js, maintenance/purge.js,            *)
(* models/EvalDataset.js, models/EvalItem.js, eval/replay.js, index.js.            *)
EXTENDS Deployment, Integers

CONSTANTS Curators,      \* operators, each with one request at a time
          CuratorWorks,  \* bound on their requests
          Traffic,       \* requests on record that can be replayed
          KeepDays,      \* the retention
          MaxDays        \* bound on the days that pass

\* A retention of no days keeps everything, and the purge returns at once.
ASSUME BenchAssumption ==
    /\ IsFiniteSet(Curators)
    /\ Traffic # {}
    /\ KeepDays \in Nat \ {0}
    /\ None \notin Nat \cup [no : Nat, count : Int, age : Nat]

VARIABLES bench,     \* the dataset: its number, the count of its cases, its age in days
          cases,     \* the stored cases, with their age and that of the text they copy
          logged,    \* the age of each request on record, or None
          trial,     \* the stored run
          replay,    \* its execution
          scored,   \* the stored results
          curator,   \* what each operator does
          purge,     \* where the purge of the day is
          missed,    \* whether a purge failed: "never", the "last" one, or one "before" it
          dropped,   \* benchmarks that were purged
          drift,     \* how much less the benchmark counts than it has
          lastId,    \* numbers given to benchmarks and cases
          begun,     \* requests begun
          day        \* days that have passed

BenchVars == <<bench, cases, logged, trial, replay, scored, curator, purge, missed,
               dropped, drift, lastId, begun, day>>

Idle == [op |-> "none"]
NoTrial == [st |-> "none", of |-> 0, least |-> 0]
NotReplaying == [todo |-> {}, on |-> FALSE, dataset |-> FALSE]
CaseOf(no, of, request, text, late) ==
    [id |-> no, of |-> of, request |-> request, age |-> 0, text |-> text, late |-> late]

\* A benchmark made of the first request, as long as it takes nothing else in.
BenchInit ==
    /\ bench = [no |-> 1, count |-> 1, age |-> 0]
    /\ logged = [r \in Traffic |-> 0]
    /\ cases = {CaseOf(2, 1, CHOOSE r \in Traffic : TRUE, 0, FALSE)}
    /\ trial = NoTrial
    /\ replay = NotReplaying
    /\ scored = {}
    /\ curator = [c \in Curators |-> Idle]
    /\ purge = "due"
    /\ missed = "never"
    /\ dropped = {}
    /\ drift = 0
    /\ lastId = 2
    /\ begun = 0
    /\ day = 0

Stands(no) == IF bench = None THEN FALSE ELSE bench.no = no
Own == {k \in cases : bench # None /\ k.of = bench.no}
Asks(c, work) ==
    /\ curator[c] = Idle /\ begun < CuratorWorks
    /\ begun' = begun + 1
    /\ curator' = [curator EXCEPT ![c] = work]
Goes(c, work) == curator' = [curator EXCEPT ![c] = work] /\ begun' = begun

\* Whether the deletion of a benchmark has passed a stage, so that what is written
\* now is not seen by it.
Passed(no, stages) ==
    \/ ~Stands(no)
    \/ \E c \in Curators : curator[c].op \in stages /\ curator[c].no = no

-----------------------------------------------------------------------------
(* Curation. *)

\* A benchmark is made of the requests on record (createFromTraffic), if there are any.
CreateBench(c) ==
    /\ bench = None /\ \E r \in Traffic : logged[r] # None
    /\ Asks(c, Idle)
    /\ LET found == {r \in Traffic : logged[r] # None}
           r == CHOOSE r \in found : TRUE
       IN  /\ bench' = [no |-> lastId + 1, count |-> 1, age |-> 0]
           /\ cases' = cases \cup {CaseOf(lastId + 2, lastId + 1, r, logged[r], FALSE)}
           /\ lastId' = lastId + 2
    /\ drift' = 0
    /\ UNCHANGED <<logged, trial, replay, scored, purge, missed, dropped, day>>

\* A request on record that is not a case yet is looked up, copied, and counted.
LookUpRequest(c) ==
    /\ bench # None
    /\ \E r \in Traffic :
         /\ logged[r] # None /\ \A k \in Own : k.request # r
         /\ Asks(c, [op |-> "insert", no |-> bench.no, request |-> r, text |-> logged[r], seen |-> bench.count])
    /\ UNCHANGED <<bench, cases, logged, trial, replay, scored, purge, missed, dropped, drift, lastId, day>>

InsertCase(c) ==
    /\ curator[c].op = "insert"
    /\ LET w == curator[c] IN
         /\ cases' = cases \cup {CaseOf(lastId + 1, w.no, w.request, w.text, Passed(w.no, {"dataset"}))}
         /\ Goes(c, [op |-> "count", no |-> w.no, by |-> 1, seen |-> w.seen])
    /\ lastId' = lastId + 1
    /\ UNCHANGED <<bench, logged, trial, replay, scored, purge, missed, dropped, drift, day>>

\* A case is looked up, deleted, and counted off, also when another request had
\* deleted it in between.
LookUpCase(c) ==
    /\ \E k \in cases : Asks(c, [op |-> "erase", no |-> k.of, id |-> k.id])
    /\ UNCHANGED <<bench, cases, logged, trial, replay, scored, purge, missed, dropped, drift, lastId, day>>

EraseCase(c) ==
    /\ curator[c].op = "erase"
    /\ LET w == curator[c] IN
         /\ cases' = {k \in cases : k.id # w.id}
         /\ drift' = IF cases' = cases /\ Stands(w.no) THEN drift + 1 ELSE drift
         /\ Goes(c, [op |-> "count", no |-> w.no, by |-> -1, seen |-> 0])
    /\ UNCHANGED <<bench, logged, trial, replay, scored, purge, missed, dropped, lastId, day>>

\* Mutant: an addition saves the count of the benchmark it had read.
CountCase_Read(c) ==
    /\ curator[c].op = "count"
    /\ bench' = IF Stands(curator[c].no)
                THEN [bench EXCEPT !.count = (IF curator[c].by = 1 THEN curator[c].seen ELSE @) + curator[c].by] ELSE bench
    /\ Goes(c, Idle)
    /\ UNCHANGED <<cases, logged, trial, replay, scored, purge, missed, dropped, drift, lastId, day>>

\* $inc on the benchmark, if it is there.
CountCase(c) ==
    /\ curator[c].op = "count"
    /\ bench' = IF Stands(curator[c].no)
                THEN [bench EXCEPT !.count = @ + curator[c].by] ELSE bench
    /\ Goes(c, Idle)
    /\ UNCHANGED <<cases, logged, trial, replay, scored, purge, missed, dropped, drift, lastId, day>>

-----------------------------------------------------------------------------
(* Deletion: results, run, cases, and the benchmark last, so that a deletion that *)
(* fails on the way can be begun for again.                                        *)

BeginDelete(c) ==
    /\ bench # None
    /\ Asks(c, [op |-> "results", no |-> bench.no])
    /\ UNCHANGED <<bench, cases, logged, trial, replay, scored, purge, missed, dropped, drift, lastId, day>>

\* Mutant: the dataset goes with the results.
DeleteResults_First(c) ==
    /\ curator[c].op = "results"
    /\ scored' = {x \in scored : x.of # curator[c].no}
    /\ bench' = IF Stands(curator[c].no) THEN None ELSE bench
    /\ Goes(c, [curator[c] EXCEPT !.op = "run"])
    /\ UNCHANGED <<cases, logged, trial, replay, purge, missed, dropped, drift, lastId, day>>

DeleteResults(c) ==
    /\ curator[c].op = "results"
    /\ scored' = {x \in scored : x.of # curator[c].no}
    /\ Goes(c, [curator[c] EXCEPT !.op = "run"])
    /\ UNCHANGED <<bench, cases, logged, trial, replay, purge, missed, dropped, drift, lastId, day>>

DeleteRuns(c) ==
    /\ curator[c].op = "run"
    /\ trial' = IF trial.of = curator[c].no THEN [trial EXCEPT !.st = "none", !.of = 0] ELSE trial
    /\ Goes(c, [curator[c] EXCEPT !.op = "items"])
    /\ UNCHANGED <<bench, cases, logged, replay, scored, purge, missed, dropped, drift, lastId, day>>

DeleteItems(c) ==
    /\ curator[c].op = "items"
    /\ cases' = {k \in cases : k.of # curator[c].no}
    /\ drift' = IF Stands(curator[c].no) THEN drift - Cardinality(Own) ELSE drift
    /\ Goes(c, [curator[c] EXCEPT !.op = "dataset"])
    /\ UNCHANGED <<bench, logged, trial, replay, scored, purge, missed, dropped, lastId, day>>

DeleteDataset(c) ==
    /\ curator[c].op = "dataset"
    /\ bench' = IF Stands(curator[c].no) THEN None ELSE bench
    /\ Goes(c, Idle)
    /\ UNCHANGED <<cases, logged, trial, replay, scored, purge, missed, dropped, drift, lastId, day>>

DeleteFails(c) ==
    /\ curator[c].op \in {"results", "run", "items", "dataset"}
    /\ Goes(c, Idle)
    /\ UNCHANGED <<bench, cases, logged, trial, replay, scored, purge, missed, dropped, drift, lastId, day>>

-----------------------------------------------------------------------------
(* A candidate is scored against the cases there are. *)

\* As many items must be judged as the benchmark says it has.
AskScore(c) ==
    /\ bench # None /\ trial.st = "none" /\ ~replay.on
    /\ Asks(c, [op |-> "create", no |-> bench.no, least |-> IF bench.count > 1 THEN bench.count ELSE 1])
    /\ UNCHANGED <<bench, cases, logged, trial, replay, scored, purge, missed, dropped, drift, lastId, day>>

CreateRun(c) ==
    /\ curator[c].op = "create"
    /\ trial' = [st |-> "queued", of |-> curator[c].no, least |-> curator[c].least]
    /\ Goes(c, Idle)
    /\ UNCHANGED <<bench, cases, logged, replay, scored, purge, missed, dropped, drift, lastId, day>>

\* The worker claims the run, and reads the dataset and its cases.
ClaimRun ==
    /\ trial.st = "queued" /\ ~replay.on
    /\ trial' = [trial EXCEPT !.st = "running"]
    /\ replay' = [on |-> TRUE, dataset |-> Stands(trial.of),
                  todo |-> {k \in cases : k.of = trial.of}]
    /\ UNCHANGED <<bench, cases, logged, scored, curator, purge, missed, dropped, drift, lastId, begun, day>>

\* Each case leaves a result, also of a run that was deleted; without its dataset the
\* execution ends in an exception.
ReplayItem ==
    /\ replay.on
    /\ \E k \in replay.todo :
         IF replay.dataset
         THEN /\ scored' = scored \cup {[item |-> k.id, of |-> k.of, age |-> 0,
                                           late |-> trial.of # k.of \/ Passed(k.of, {"run", "items", "dataset"})]}
              /\ replay' = [replay EXCEPT !.todo = @ \ {k}]
         ELSE replay' = NotReplaying /\ scored' = scored
    /\ UNCHANGED <<bench, cases, logged, trial, curator, purge, missed, dropped, drift, lastId, begun, day>>

\* The verdict is saved if the run is still there.
FinishRun ==
    /\ replay.on /\ replay.todo = {}
    /\ trial' = IF trial.st # "running" THEN trial
                ELSE [trial EXCEPT !.st = IF Cardinality({x \in scored : x.of = trial.of}) >= trial.least
                                          THEN "passed" ELSE "failed"]
    /\ replay' = NotReplaying
    /\ UNCHANGED <<bench, cases, logged, scored, curator, purge, missed, dropped, drift, lastId, begun, day>>

-----------------------------------------------------------------------------
(* The purge: at boot and then every day. What it deletes is older than the        *)
(* retention by the same cutoff in every collection; it may fail on the way.       *)

Old_Equal(age) == age >= KeepDays
Old(age) == age > KeepDays

PurgeStep ==
    /\ \/ /\ purge = "due" /\ purge' = "items"
          /\ logged' = [r \in Traffic |-> IF logged[r] # None /\ Old(logged[r]) THEN None ELSE logged[r]]
          /\ UNCHANGED <<bench, cases, scored, missed, dropped>>
       \/ /\ purge = "items" /\ purge' = "results"
          /\ cases' = {k \in cases : ~Old(k.age)}
          /\ UNCHANGED <<bench, logged, scored, missed, dropped>>
       \/ /\ purge = "results" /\ purge' = "datasets"
          /\ scored' = {x \in scored : ~Old(x.age)}
          /\ UNCHANGED <<bench, cases, logged, missed, dropped>>
       \/ /\ purge = "datasets" /\ purge' = "done"
          /\ LET goes == bench # None /\ Old(bench.age)
             IN  /\ bench' = IF goes THEN None ELSE bench
                 /\ dropped' = IF goes THEN dropped \cup {bench.no} ELSE dropped
          /\ missed' = IF missed = "never" THEN "never" ELSE "before"
          /\ UNCHANGED <<cases, logged, scored>>
    /\ UNCHANGED <<trial, replay, curator, drift, lastId, begun, day>>

PurgeFails ==
    /\ purge # "done"
    /\ purge' = "done" /\ missed' = "last"
    /\ UNCHANGED <<bench, cases, logged, trial, replay, scored, curator, dropped, drift, lastId, begun, day>>

\* Requests and runs take less than a day.
DayPasses ==
    /\ day < MaxDays /\ purge = "done" /\ ~replay.on /\ trial.st # "queued"
    /\ \A c \in Curators : curator[c] = Idle
    /\ day' = day + 1
    /\ purge' = "due"
    /\ bench' = IF bench = None THEN None ELSE [bench EXCEPT !.age = @ + 1]
    /\ cases' = {[k EXCEPT !.age = @ + 1, !.text = @ + 1] : k \in cases}
    /\ scored' = {[x EXCEPT !.age = @ + 1] : x \in scored}
    /\ logged' = [r \in Traffic |-> IF logged[r] = None THEN None ELSE logged[r] + 1]
    /\ UNCHANGED <<trial, replay, curator, missed, dropped, drift, lastId, begun>>

Over ==
    /\ day = MaxDays /\ purge = "done" /\ ~replay.on
    /\ UNCHANGED BenchVars

BenchNext ==
    \/ \E c \in Curators :
         \/ CreateBench(c) \/ LookUpRequest(c) \/ InsertCase(c) \/ LookUpCase(c) \/ EraseCase(c)
         \/ CountCase(c) \/ BeginDelete(c) \/ DeleteResults(c) \/ DeleteRuns(c) \/ DeleteItems(c)
         \/ DeleteDataset(c) \/ DeleteFails(c) \/ AskScore(c) \/ CreateRun(c)
    \/ ClaimRun \/ ReplayItem \/ FinishRun \/ PurgeStep \/ PurgeFails \/ DayPasses \/ Over

BenchSpec == BenchInit /\ [][BenchNext]_BenchVars

-----------------------------------------------------------------------------
(* Properties. *)

\* When nobody curates and no purge is missing, a benchmark counts the cases it has,
\* less one for each removal that found its case removed already, and with those that
\* a deletion took before it failed: $inc makes up for every other overlap, and the
\* purge takes a benchmark with the cases it takes.
CountIsExplained ==
    (bench # None /\ missed # "last" /\ purge \in {"due", "done"} /\ \A c \in Curators : curator[c] = Idle)
       => bench.count = Cardinality(Own) - drift

\* What is left of a deleted benchmark was written while it was being deleted, by
\* a run or an addition that had begun; a deletion that failed can be repeated.
LeftoversAreLate ==
    \A x \in cases \cup scored :
      ~Stands(x.of) => x.late \/ x.of \in dropped

\* No document is older than the retention and a day unless the last purge failed. As
\* a copy counts its own days, the text of a request can be as old as twice that, and
\* older when a purge that failed had left the request to be copied.
TextAgesOut ==
    /\ missed # "last" =>
         /\ \A x \in cases \cup scored : x.age <= KeepDays + 1
         /\ \A r \in Traffic : logged[r] # None => logged[r] <= KeepDays + 1
    /\ missed = "never" => \A k \in cases : k.text <= 2 * (KeepDays + 1)

\* No request younger than the retention is taken.
YoungStay == \A r \in Traffic : logged[r] = None => day > KeepDays
=============================================================================
