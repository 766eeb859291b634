----------------------------- MODULE Evaluation ------------------------------
(* Offline evaluations: recommendations, the runs that prove them, the       *)
(* worker of each process that executes queued runs, and the console's       *)
(* handlers that build datasets, start, cancel, delete and correct runs,     *)
(* and accept, override, dismiss and recompute recommendations.              *)
(* src/server/src: eval/worker.js, eval/replay.js, eval/thresholds.js,       *)
(* eval/dataset.js, recommend/engine.js, recommend/stage.js,                 *)
(* api/routes/evals.js, api/routes/recommendations.js.                       *)
EXTENDS Deployment

CONSTANTS Recs,            \* dedupe keys the traffic may support
          MaxRuns,         \* bound: evaluation runs
          MaxTicks,        \* bound: ticks of a worker that overlap
          Clicks,          \* requests of the console under way
          Items,           \* bound: items of a dataset
          CheckEvery,      \* items between two looks at the status (10 in the code)
          MaxConcurrent,   \* executions a worker wants at once (2 in the code)
          MaxCrashes,      \* bound: process deaths
          MaxAsks          \* bound: console requests

VARIABLES rec,       \* recommendation documents
          data,      \* recommendations that have a ready dataset
          run,       \* run documents
          results,   \* results of a run, with the judge's or a human's verdict
          rules,     \* rules made from a recommendation, by the gate they passed
          tick,      \* ticks of each worker that wait for an answer
          active,    \* _active of each worker
          exec,      \* executions under way in each process
          click,     \* console requests under way
          proven,    \* history: recommendations a run of theirs has passed for
          deaths,    \* process deaths so far
          asked      \* console requests so far

EvalVars == <<rec, data, run, results, rules, tick, active, exec, click, proven, deaths, asked>>

\* What the judge says of an item: the winning slot, if it said anything usable,
\* the slot the candidate was shown in, and the second look at a "worse".
Judgements == [winner : {"A", "B", "tie", "none"}, slot : {"A", "B"},
               critical : BOOLEAN, format : BOOLEAN, overturned : BOOLEAN]

Verdict(j) ==
    IF j.winner = "none" /\ j.format THEN "error"
    ELSE IF j.critical \/ ~j.format \/ (j.winner \notin {j.slot, "tie"} /\ ~j.overturned)
    THEN "bad" ELSE "good"

Verdicts == {Verdict(j) : j \in Judgements}
RunStatuses == {"none", "queued", "running", "passed", "failed", "cancelled", "gone"}
EvalStatuses == {"not_started", "dataset_ready", "running", "passed", "failed", "overridden"}

ASSUME EvalAssumption ==
    /\ None \notin Recs
    /\ MaxRuns \in Nat \ {0} /\ MaxTicks \in Nat /\ MaxConcurrent \in Nat \ {0}

Runs == 1..MaxRuns                             \* ids, in the order of creation
Slots == 1..(MaxConcurrent + MaxTicks)         \* room for executions of a process

Absent == [status |-> "none", eval |-> "not_started", run |-> None]
Fresh == [Absent EXCEPT !.status = "pending"]
NoRun == [status |-> "none", rec |-> None]
IdleClick == [op |-> "idle", rec |-> None, run |-> None, read |-> Absent, arg |-> None]
FreeSlot == [pc |-> "free", run |-> None, seen |-> <<>>, out |-> None, read |-> Absent]

EvalInit ==
    /\ \/ /\ rec = [r \in Recs |-> Fresh]
          /\ data = {}
          /\ run = [u \in Runs |-> NoRun]
       \/ \E r \in Recs :            \* a run of r has been waiting for the worker
             /\ rec = [[q \in Recs |-> Fresh] EXCEPT ![r].eval = "running", ![r].run = 1]
             /\ data = {r}
             /\ run = [[u \in Runs |-> NoRun] EXCEPT ![1] = [status |-> "queued", rec |-> r]]
    /\ results = [u \in Runs |-> <<>>]
    /\ rules = [r \in Recs |-> {}]
    /\ tick = [p \in Processes |-> 0]
    /\ active = [p \in Processes |-> 0]
    /\ exec = [p \in Processes |-> [s \in Slots |-> FreeSlot]]
    /\ click = [c \in Clicks |-> IdleClick]
    /\ proven = {}
    /\ deaths = 0
    /\ asked = 0

Exists(r) == r # None /\ rec[r].status # "none"
New(u) == run[u].status = "none" /\ \A v \in Runs : v < u => run[v].status # "none"
InStore(u) == run[u].status \notin {"none", "gone"}

\* evaluateRun over aggregate: enough was judged and nothing breaks a threshold.
Passes(verdicts) ==
    /\ \E i \in DOMAIN verdicts : verdicts[i] # "error"
    /\ \A i \in DOMAIN verdicts : verdicts[i] # "bad"

SaveRec(r, read, changed) == rec' = [rec EXCEPT ![r] = Saved(rec[r], read, changed)]

-----------------------------------------------------------------------------
(* The worker. *)

\* The interval fires and the tick looks for a queued run, if the worker still
\* wants one.
TickStart(p) ==
    /\ tick[p] < MaxTicks
    /\ active[p] < MaxConcurrent
    /\ tick' = [tick EXCEPT ![p] = tick[p] + 1]
    /\ UNCHANGED <<rec, data, run, results, rules, active, exec, click, proven, deaths, asked>>

\* The query answers: nothing is queued, or an execution of the oldest queued run
\* is started and the tick looks again while the worker wants more.
TickEnds(p) ==
    /\ tick[p] > 0
    /\ \A u \in Runs : run[u].status # "queued"
    /\ tick' = [tick EXCEPT ![p] = tick[p] - 1]
    /\ UNCHANGED <<rec, data, run, results, rules, active, exec, click, proven, deaths, asked>>

\* The worker has enough to do: the tick returns.
TickSkips(p) == active[p] >= MaxConcurrent /\ UNCHANGED EvalVars

OldestQueued(u) ==
    run[u].status = "queued" /\ \A v \in Runs : run[v].status = "queued" => u <= v

\* Mutant: the count is not raised before the execution starts.
TickFinds_Uncounted(p) ==
    LET s == CHOOSE i \in Slots : exec[p][i].pc = "free"
    IN /\ tick[p] > 0
       /\ \E u \in Runs :
             /\ OldestQueued(u)
             /\ exec' = [exec EXCEPT ![p][s] = [FreeSlot EXCEPT !.pc = "claim", !.run = u]]
       /\ tick' = [tick EXCEPT ![p] = tick[p] - 1]
       /\ UNCHANGED <<rec, data, run, results, rules, active, click, proven, deaths, asked>>

TickFinds(p) ==
    LET s == CHOOSE i \in Slots : exec[p][i].pc = "free"
    IN /\ tick[p] > 0
       /\ \E u \in Runs :
             /\ OldestQueued(u)
             /\ exec' = [exec EXCEPT ![p][s] = [FreeSlot EXCEPT !.pc = "claim", !.run = u]]
       /\ active' = [active EXCEPT ![p] = active[p] + 1]
       /\ tick' = IF active[p] + 1 < MaxConcurrent THEN tick
                  ELSE [tick EXCEPT ![p] = tick[p] - 1]
       /\ UNCHANGED <<rec, data, run, results, rules, click, proven, deaths, asked>>

-----------------------------------------------------------------------------
(* An execution. *)

Goto(p, s, pc) == exec' = [exec EXCEPT ![p][s].pc = pc]
Leave(p, s) ==
    /\ exec' = [exec EXCEPT ![p][s] = FreeSlot]
    /\ active' = [active EXCEPT ![p] = active[p] - 1]

\* Mutant: the run is claimed by its id alone.
Claim_ById(p, s) ==
    LET u == exec[p][s].run
    IN /\ exec[p][s].pc = "claim"
       /\ IF InStore(u)
          THEN /\ run' = [run EXCEPT ![u].status = "running"]
               /\ Goto(p, s, "replay")
               /\ UNCHANGED active
          ELSE Leave(p, s) /\ UNCHANGED run
       /\ UNCHANGED <<rec, data, results, rules, tick, click, proven, deaths, asked>>

\* Mutant: an execution that comes too late never lowers the count.
Claim_Leaks(p, s) ==
    LET u == exec[p][s].run
    IN /\ exec[p][s].pc = "claim"
       /\ IF run[u].status = "queued"
          THEN /\ run' = [run EXCEPT ![u].status = "running"]
               /\ Goto(p, s, "replay")
          ELSE Goto(p, s, "free") /\ UNCHANGED run
       /\ UNCHANGED <<rec, data, results, rules, tick, active, click, proven, deaths, asked>>

\* Atomically queued to running; a run that somebody else took ends this execution.
Claim(p, s) ==
    LET u == exec[p][s].run
    IN /\ exec[p][s].pc = "claim"
       /\ IF run[u].status = "queued"
          THEN /\ run' = [run EXCEPT ![u].status = "running"]
               /\ Goto(p, s, "replay")
               /\ UNCHANGED active
          ELSE Leave(p, s) /\ UNCHANGED run
       /\ UNCHANGED <<rec, data, results, rules, tick, click, proven, deaths, asked>>

\* No live provider, no live candidate, or no dataset any more.
CannotReplay(p, s) ==
    /\ exec[p][s].pc = "replay" /\ exec[p][s].seen = <<>>
    /\ exec' = [exec EXCEPT ![p][s].pc = "save", ![p][s].out = "failed"]
    /\ UNCHANGED <<rec, data, run, results, rules, tick, active, click, proven, deaths, asked>>

\* The next item, unless the look at the status that is due finds a cancellation.
Replay(p, s) ==
    LET e == exec[p][s]  u == e.run  n == Len(e.seen)
    IN /\ e.pc = "replay" /\ n < Items
       /\ IF n % CheckEvery = 0 /\ run[u].status = "cancelled"
          THEN /\ exec' = [exec EXCEPT ![p][s].pc = "save", ![p][s].out = "cancelled"]
               /\ UNCHANGED results
          ELSE \E v \in Verdicts :
                  /\ exec' = [exec EXCEPT ![p][s].seen = Append(e.seen, v)]
                  /\ results' = [results EXCEPT ![u] = Append(results[u], v)]
       /\ UNCHANGED <<rec, data, run, rules, tick, active, click, proven, deaths, asked>>

\* All items replayed, or the cost cap of the run is reached after some.
Evaluate(p, s) ==
    LET e == exec[p][s]
    IN /\ e.pc = "replay" /\ e.seen # <<>>
       /\ exec' = [exec EXCEPT ![p][s].pc = "save", ![p][s].seen = <<>>,
                               ![p][s].out = IF Passes(e.seen) THEN "passed" ELSE "failed"]
       /\ UNCHANGED <<rec, data, run, results, rules, tick, active, click, proven, deaths, asked>>

\* Mutant: a run that did not pass is not saved.
SaveRun_OnlyPassed(p, s) ==
    LET e == exec[p][s]  u == e.run
    IN /\ e.pc = "save"
       /\ run' = IF InStore(u) /\ e.out = "passed" THEN [run EXCEPT ![u].status = e.out] ELSE run
       /\ Leave(p, s)
       /\ UNCHANGED <<rec, data, results, rules, tick, click, proven, deaths, asked>>

\* finish: the run is saved whatever its status is by now; if it was deleted
\* the save throws, and that is all.
SaveRun(p, s) ==
    LET e == exec[p][s]  u == e.run
    IN /\ e.pc = "save"
       /\ IF ~InStore(u)
          THEN Leave(p, s) /\ UNCHANGED <<run, proven>>
          ELSE /\ run' = [run EXCEPT ![u].status = e.out]
               /\ proven' = IF e.out = "passed" THEN proven \union {run[u].rec} ELSE proven
               /\ IF Exists(run[u].rec)
                  THEN /\ exec' = [exec EXCEPT ![p][s].pc = "rec",
                                               ![p][s].read = rec[run[u].rec]]
                       /\ UNCHANGED active
                  ELSE Leave(p, s)
       /\ UNCHANGED <<rec, data, results, rules, tick, click, deaths, asked>>

\* Mutant: the status of the run is copied, cancelled included.
TellRec_Copies(p, s) ==
    LET e == exec[p][s]  r == run[e.run].rec
    IN /\ e.pc = "rec"
       /\ IF Exists(r) THEN SaveRec(r, e.read, [e.read EXCEPT !.run = e.run, !.eval = e.out])
          ELSE UNCHANGED rec
       /\ Leave(p, s)
       /\ UNCHANGED <<data, run, results, rules, tick, click, proven, deaths, asked>>

\* Mutant: whatever has not failed has passed.
TellRec_NotFailed(p, s) ==
    LET e == exec[p][s]  r == run[e.run].rec
    IN /\ e.pc = "rec"
       /\ IF Exists(r)
          THEN SaveRec(r, e.read, [e.read EXCEPT !.run = e.run,
                  !.eval = IF e.out = "failed" THEN "failed" ELSE "passed"])
          ELSE UNCHANGED rec
       /\ Leave(p, s)
       /\ UNCHANGED <<data, run, results, rules, tick, click, proven, deaths, asked>>

\* finish: the verdict is written to the recommendation.
TellRec(p, s) ==
    LET e == exec[p][s]  r == run[e.run].rec
    IN /\ e.pc = "rec"
       /\ IF Exists(r)
          THEN SaveRec(r, e.read,
                  [e.read EXCEPT !.run = e.run,
                       !.eval = IF e.out = "cancelled" THEN "dataset_ready" ELSE e.out])
          ELSE UNCHANGED rec
       /\ Leave(p, s)
       /\ UNCHANGED <<data, run, results, rules, tick, click, proven, deaths, asked>>

\* A process dies and is started again: what it executed and the requests it was
\* answering are gone, the documents stay as they are.
EvalCrash(p) ==
    /\ deaths < MaxCrashes
    /\ deaths' = deaths + 1
    /\ tick' = [tick EXCEPT ![p] = 0]
    /\ active' = [active EXCEPT ![p] = 0]
    /\ exec' = [exec EXCEPT ![p] = [s \in Slots |-> FreeSlot]]
    /\ \E lost \in SUBSET Clicks :
          click' = [c \in Clicks |-> IF c \in lost THEN IdleClick ELSE click[c]]
    /\ UNCHANGED <<rec, data, run, results, rules, proven, asked>>

Execute(p, s) ==
    \/ Claim(p, s) \/ CannotReplay(p, s) \/ Replay(p, s) \/ Evaluate(p, s)
    \/ SaveRun(p, s) \/ TellRec(p, s)
Worker(p) == TickStart(p) \/ TickSkips(p) \/ TickEnds(p) \/ TickFinds(p)

-----------------------------------------------------------------------------
(* The console. A handler reads its documents in one step and saves them in  *)
(* a later one.                                                              *)

Ask == asked < MaxAsks /\ asked' = asked + 1

Begin(c, op, r, u, arg) ==
    /\ Ask
    /\ click[c] = IdleClick
    /\ click' = [click EXCEPT ![c] =
                    [op |-> op, rec |-> r, run |-> u, arg |-> arg,
                     read |-> IF r # None /\ op \in {"build", "link", "rule"} THEN rec[r] ELSE Absent]]
End(c) == click' = [click EXCEPT ![c] = IdleClick]

\* POST create-eval-dataset: the recommendation is read before the traffic is
\* searched, and saved when the dataset is ready.
BuildDataset(c, r) ==
    /\ Exists(r)
    /\ Begin(c, "build", r, None, None)
    /\ UNCHANGED <<rec, data, run, results, rules, tick, active, exec, proven, deaths>>

DatasetReady(c) ==
    LET d == click[c]
    IN /\ d.op = "build"
       /\ data' = data \union ({d.rec} \ {None})
       /\ IF Exists(d.rec) /\ d.read.eval = "not_started"
          THEN SaveRec(d.rec, d.read, [d.read EXCEPT !.eval = "dataset_ready"])
          ELSE UNCHANGED rec
       /\ End(c)
       /\ UNCHANGED <<run, results, rules, tick, active, exec, proven, deaths, asked>>

DatasetFails(c) ==
    /\ click[c].op = "build"
    /\ End(c)
    /\ UNCHANGED <<rec, data, run, results, rules, tick, active, exec, proven, deaths, asked>>

\* POST run-eval, and POST /evals for an evaluation without a recommendation:
\* the run is stored as queued first.
StartRun(c, r, u) ==
    /\ r = None \/ (Exists(r) /\ r \in data)
    /\ New(u)
    /\ \E op \in {"link", "cap"} : Begin(c, op, r, u, None)
    /\ run' = [run EXCEPT ![u] = [status |-> "queued", rec |-> r]]
    /\ UNCHANGED <<rec, data, results, rules, tick, active, exec, proven, deaths>>

\* The estimate exceeds the cost cap of the run.
RefuseCost(c) ==
    LET u == click[c].run
    IN /\ click[c].op = "cap"
       /\ run' = IF InStore(u) THEN [run EXCEPT ![u].status = "failed"] ELSE run
       /\ End(c)
       /\ UNCHANGED <<rec, data, results, rules, tick, active, exec, proven, deaths, asked>>

LinkRun(c) ==
    LET d == click[c]
    IN /\ d.op = "link"
       /\ IF Exists(d.rec)
          THEN SaveRec(d.rec, d.read, [d.read EXCEPT !.eval = "running", !.run = d.run])
          ELSE UNCHANGED rec
       /\ End(c)
       /\ UNCHANGED <<data, run, results, rules, tick, active, exec, proven, deaths, asked>>

\* The demo's dataset: a finished run is written at once, with the outcome of
\* the fixture.
SynthesizeRun(c, r, u) ==
    /\ Ask
    /\ click[c] = IdleClick
    /\ Exists(r) /\ r \in data /\ New(u)
    /\ \E out \in {"passed", "failed"} :
          /\ run' = [run EXCEPT ![u] = [status |-> out, rec |-> r]]
          /\ rec' = [rec EXCEPT ![r].eval = out, ![r].run = u]
          /\ proven' = IF out = "passed" THEN proven \union {r} ELSE proven
    /\ UNCHANGED <<data, results, rules, tick, active, exec, click, deaths>>

\* POST /evals/runs/:id/cancel
Cancel(u) ==
    /\ Ask
    /\ run[u].status \in {"queued", "running"}
    /\ run' = [run EXCEPT ![u].status = "cancelled"]
    /\ UNCHANGED <<rec, data, results, rules, tick, active, exec, click, proven, deaths>>

\* DELETE /evals/runs/:id: the run and its results, then the dataset if no other
\* run has it, then the pointer of the recommendation.
DeleteRun(c, u) ==
    /\ InStore(u)
    /\ Begin(c, "dropdata", run[u].rec, u, None)
    /\ run' = [run EXCEPT ![u].status = "gone"]
    /\ results' = [results EXCEPT ![u] = <<>>]
    /\ UNCHANGED <<rec, data, rules, tick, active, exec, proven, deaths>>

DropData(c) ==
    LET r == click[c].rec
        last == \A v \in Runs : run[v].rec = r => ~InStore(v)
    IN /\ click[c].op = "dropdata"
       /\ data' = IF last THEN data \ {r} ELSE data
       /\ click' = [click EXCEPT ![c].op = "unlink",
                       ![c].arg = IF last THEN "not_started" ELSE "dataset_ready"]
       /\ UNCHANGED <<rec, run, results, rules, tick, active, exec, proven, deaths, asked>>

Unlink(c) ==
    LET d == click[c]
    IN /\ d.op = "unlink"
       /\ rec' = IF Exists(d.rec) /\ rec[d.rec].run = d.run
                 THEN [rec EXCEPT ![d.rec].run = None, ![d.rec].eval = d.arg]
                 ELSE rec
       /\ End(c)
       /\ UNCHANGED <<data, run, results, rules, tick, active, exec, proven, deaths, asked>>

\* PATCH /evals/results/:id: a human's verdict replaces the judge's, and the run,
\* if it is finished, is scored again from its stored results.
Correct(c, u) ==
    /\ \E i \in DOMAIN results[u], v \in Verdicts \ {"error"} :
          /\ results[u][i] \notin {"error", v}
          /\ results' = [results EXCEPT ![u][i] = v]
    /\ Begin(c, "score", None, u, None)
    /\ UNCHANGED <<rec, data, run, rules, tick, active, exec, proven, deaths>>

Rescore(c) ==
    LET u == click[c].run
    IN /\ click[c].op = "score"
       /\ IF run[u].status \in {"passed", "failed"}
          THEN click' = [click EXCEPT ![c].op = "rescore",
                            ![c].arg = IF Passes(results[u]) THEN "passed" ELSE "failed"]
          ELSE End(c)
       /\ UNCHANGED <<rec, data, run, results, rules, tick, active, exec, proven, deaths, asked>>

SaveScore(c) ==
    LET u == click[c].run
    IN /\ click[c].op = "rescore"
       /\ run' = IF InStore(u) THEN [run EXCEPT ![u].status = click[c].arg] ELSE run
       /\ End(c)
       /\ UNCHANGED <<rec, data, results, rules, tick, active, exec, proven, deaths, asked>>

\* POST accept: the gate, the disabled rule, then the recommendation.
Gate(r, override) ==
    IF rec[r].eval = "passed" THEN "passed" ELSE IF override THEN "overridden" ELSE "refused"

Accept(c, r) ==
    /\ Exists(r)
    /\ \E override \in BOOLEAN :
          /\ Gate(r, override) # "refused"
          /\ Begin(c, "rule", r, None, Gate(r, override))
    /\ UNCHANGED <<rec, data, run, results, rules, tick, active, exec, proven, deaths>>

\* Mutant: the rule is not awaited and its creation fails.
CreateRule_Unawaited(c) ==
    /\ click[c].op = "rule"
    /\ click' = [click EXCEPT ![c].op = "accept"]
    /\ UNCHANGED <<rec, data, run, results, rules, tick, active, exec, proven, deaths, asked>>

CreateRule(c) ==
    LET d == click[c]
    IN /\ d.op = "rule"
       /\ rules' = [r \in Recs |-> IF r = d.rec THEN rules[r] \union {d.arg} ELSE rules[r]]
       /\ click' = [click EXCEPT ![c].op = "accept"]
       /\ UNCHANGED <<rec, data, run, results, tick, active, exec, proven, deaths, asked>>

SaveAccepted(c) ==
    LET d == click[c]
    IN /\ d.op = "accept"
       /\ IF Exists(d.rec)
          THEN SaveRec(d.rec, d.read,
                  [d.read EXCEPT !.status = "accepted",
                       !.eval = IF d.arg = "overridden" THEN d.arg ELSE d.read.eval])
          ELSE UNCHANGED rec
       /\ End(c)
       /\ UNCHANGED <<data, run, results, rules, tick, active, exec, proven, deaths, asked>>

\* POST override: the reason is recorded, no rule is made.
Override(r) ==
    /\ Ask
    /\ Exists(r)
    /\ rec' = [rec EXCEPT ![r].eval = "overridden"]
    /\ UNCHANGED <<data, run, results, rules, tick, active, exec, click, proven, deaths>>

\* POST dismiss
Dismiss(r) ==
    /\ Ask
    /\ Exists(r)
    /\ rec' = [rec EXCEPT ![r].status = "dismissed"]
    /\ UNCHANGED <<data, run, results, rules, tick, active, exec, click, proven, deaths>>

\* POST recompute, for one group of the traffic: a decided recommendation is left
\* alone; the others are written, or inserted, as pending.
Recompute(c, r) ==
    /\ rec[r].status \in {"none", "pending"}
    /\ Begin(c, "upsert", r, None, None)
    /\ UNCHANGED <<rec, data, run, results, rules, tick, active, exec, proven, deaths>>

Upsert(c) ==
    LET r == click[c].rec
    IN /\ click[c].op = "upsert"
       /\ rec' = [rec EXCEPT ![r] = IF Exists(r) THEN [rec[r] EXCEPT !.status = "pending"]
                                    ELSE Fresh]
       /\ End(c)
       /\ UNCHANGED <<data, run, results, rules, tick, active, exec, proven, deaths, asked>>

\* ... and the end of recompute deletes what the traffic no longer supports. A
\* recommendation that comes back later is another document: what pointed at this
\* one points at nothing.
DropStale(r) ==
    /\ Ask
    /\ rec[r].status = "pending"
    /\ rec' = [rec EXCEPT ![r] = Absent]
    /\ data' = data \ {r}
    /\ proven' = proven \ {r}
    /\ rules' = [rules EXCEPT ![r] = {}]
    /\ run' = [u \in Runs |-> IF run[u].rec = r THEN [run[u] EXCEPT !.rec = None] ELSE run[u]]
    /\ click' = [c \in Clicks |-> IF click[c].rec = r /\ click[c].op # "upsert"
                                  THEN [click[c] EXCEPT !.rec = None] ELSE click[c]]
    /\ UNCHANGED <<results, tick, active, exec, deaths>>

Console ==
    \/ \E c \in Clicks, r \in Recs : BuildDataset(c, r) \/ Accept(c, r) \/ Recompute(c, r)
    \/ \E c \in Clicks, u \in Runs : DeleteRun(c, u) \/ Correct(c, u)
    \/ \E c \in Clicks, r \in Recs \union {None}, u \in Runs : StartRun(c, r, u)
    \/ \E c \in Clicks, r \in Recs, u \in Runs : SynthesizeRun(c, r, u)
    \/ \E c \in Clicks :
          \/ DatasetReady(c) \/ DatasetFails(c) \/ RefuseCost(c) \/ LinkRun(c)
          \/ DropData(c) \/ Unlink(c) \/ Rescore(c) \/ SaveScore(c)
          \/ CreateRule(c) \/ SaveAccepted(c) \/ Upsert(c)
    \/ \E u \in Runs : Cancel(u)
    \/ \E r \in Recs : Override(r) \/ Dismiss(r) \/ DropStale(r)

EvalNext ==
    \/ \E p \in Processes : Worker(p) \/ EvalCrash(p) \/ \E s \in Slots : Execute(p, s)
    \/ Console

EvalSpec == EvalInit /\ [][EvalNext]_EvalVars
-----------------------------------------------------------------------------
(* Properties. *)

\* Every document and every request under way is one the handlers can produce.
EvalTypeOK ==
    /\ \A r \in Recs : /\ rec[r].status \in {"none", "pending", "accepted", "dismissed"}
                       /\ rec[r].eval \in EvalStatuses
                       /\ rec[r].run \in Runs \union {None}
                       /\ rules[r] \subseteq {"passed", "overridden"}
    /\ \A u \in Runs : /\ run[u].status \in RunStatuses
                       /\ run[u].rec \in Recs \union {None}
                       /\ results[u] \in Seq(Verdicts)
    /\ data \subseteq Recs
    /\ \A p \in Processes : active[p] \in Nat

Executing(p, s, u) == exec[p][s].run = u /\ exec[p][s].pc \in {"replay", "save", "rec"}

\* A run is executed by at most one execution, although ticks overlap, several
\* processes poll and one run is found by several of them (worker.js:17,
\* replay.js:139).
ExecutedOnce ==
    \A u \in Runs, p, q \in Processes, s, t \in Slots :
       Executing(p, s, u) /\ Executing(q, t, u) => p = q /\ s = t

\* No run is executed twice, the worker's count is the number of its executions, and
\* ticks that overlap start at most one execution too many each (worker.js:16-23).
LoadBounded ==
    /\ ExecutedOnce
    /\ \A p \in Processes :
          /\ active[p] = Cardinality({s \in Slots : exec[p][s].pc # "free"})
          /\ active[p] < MaxConcurrent + MaxTicks

\* A recommendation whose evaluation passed has had a run that passed: neither a
\* late save, nor a cancellation, nor a deletion, nor the death of a process makes
\* the gate of accept believe otherwise (replay.js:277-290, thresholds.js:65-67).
PassedHasEvidence == \A r \in Recs : rec[r].eval = "passed" => r \in proven

\* What a recommendation says of its evaluation rests on a run that was executed, and
\* executed once, by a worker that keeps to its load (worker.js, replay.js).
VerdictsAreEarned == LoadBounded /\ PassedHasEvidence

\* A recommendation is accepted only when its rule exists, whatever fails or runs
\* next to the handler (recommendations.js:112-124).
AcceptedHasRule == \A r \in Recs : rec[r].status = "accepted" => rules[r] # {}

\* A queued run is claimed, cancelled or deleted in the end, also when processes
\* die (worker.js:3 "a queued run now survives a restart and is picked up").
QueuedIsClaimed == \A u \in Runs : run[u].status = "queued" ~> run[u].status # "queued"

\* A run that is running ends, unless a process died: no execution forgets its
\* run, whatever the replay, the judge or the store answered (replay.js:145-275).
RunningEnds ==
    \A u \in Runs : run[u].status = "running" ~> run[u].status # "running" \/ deaths > 0

\* No run waits or runs for ever where processes survive (worker.js, replay.js).
RunsEnd == QueuedIsClaimed /\ RunningEnds
=============================================================================
