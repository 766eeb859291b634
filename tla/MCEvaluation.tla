---------------------------- MODULE MCEvaluation ----------------------------
(* Model checking of Evaluation, Benchmarks and Reports, which share no      *)
(* state: one run explores each while the others rest, and focus names the   *)
(* one that moves. And what the repository says of a human decision and a    *)
(* run finds violated.                                                       *)
EXTENDS Evaluation, Benchmarks, Scoring, Reports

VARIABLE focus

MCEvalVars == <<EvalVars, BenchVars, ReportVars, focus>>

MCEvalInit ==
    /\ focus \in {"evaluation", "benchmarks", "reports"}
    /\ EvalInit /\ BenchInit /\ ReportInit
    /\ focus # "reports" => filed = Newly
    /\ focus # "evaluation" => \A u \in Runs : run[u].status = "none"

MCEvalNext ==
    \/ focus = "evaluation" /\ EvalNext /\ UNCHANGED <<BenchVars, ReportVars, focus>>
    \/ focus = "benchmarks" /\ BenchNext /\ UNCHANGED <<EvalVars, ReportVars, focus>>
    \/ focus = "reports" /\ ReportNext /\ UNCHANGED <<EvalVars, BenchVars, focus>>

MCEvalSpec == MCEvalInit /\ [][MCEvalNext]_MCEvalVars

\* The worker's interval keeps firing, and the store, the provider and the judge answer.
EvalFairness ==
    \A p \in Processes :
       /\ WF_EvalVars(focus = "evaluation" /\ Worker(p))
       /\ \A s \in Slots : WF_EvalVars(focus = "evaluation" /\ Execute(p, s))

EvalFairSpec == MCEvalSpec /\ EvalFairness

\* What is counted or reported can be accounted for: the score of a run, the cases of a
\* benchmark, what a deletion leaves, the age of the text of requests, the views of the
\* dashboard, and the stage, evidence and analysis of a recommendation.
FiguresAreSound ==
    /\ ScoringIsSound /\ CountIsExplained /\ LeftoversAreLate /\ TextAgesOut /\ YoungStay
    /\ AnalyticsAgree /\ ReportsAreSound

\* engine.js:127 says recompute will "never clobber a human decision
\* (accepted/dismissed)".
DecisionsKept ==
    [][\A r \in Recs : rec[r].status \in {"accepted", "dismissed"}
                        => rec'[r].status # "pending"]_EvalVars
=============================================================================
