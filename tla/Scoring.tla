------------------------------- MODULE Scoring -------------------------------
(* How a run is scored: the summary of what was judged, the thresholds it must    *)
(* hold, what a result costs, how far the judge can be trusted, and which requests *)
(* are sampled in the first place. Rates are in thousandths, compared crosswise,   *)
(* so that nothing is rounded.                                                     *)
(* src/server/src: eval/replay.js, eval/thresholds.js, eval/efficiency.js,         *)
(* eval/judgeReliability.js, eval/dataset.js.                                      *)
EXTENDS Integers, Sequences, FiniteSets, Functions

\* An item that failed, or one that was replayed and perhaps judged.
Failed == [errored |-> TRUE]
Item(verdict, severity, critical, formatPass, cost, slower) ==
    [errored |-> FALSE, verdict |-> verdict, severity |-> severity, critical |-> critical,
     formatPass |-> formatPass, cost |-> cost, slower |-> slower]
Unjudged == "none"
Production == 10     \* what every item cost in production

\* Mutant: the grave weigh little.
SeverityWeight_Swapped == [trivial |-> 30, normal |-> 10, critical |-> 3]
SeverityWeight == [trivial |-> 3, normal |-> 10, critical |-> 30]   \* in tenths

\* What entries add up to, and what they weigh together.
Total(S, Of(_)) == SumFunctionOnSet([i \in S |-> Of(i)], S)
Weight(entries, S) == Total(S, LAMBDA i : SeverityWeight[entries[i].severity])

Summary(entries, ok, counted, judged, worse) ==
    [judged |-> Cardinality(counted), worse |-> Weight(entries, worse), weight |-> Weight(entries, judged),
     worseRaw |-> Cardinality(worse), ok |-> Cardinality(ok),
     critical |-> Cardinality({i \in ok : entries[i].critical}),
     formatted |-> Cardinality({i \in ok : entries[i].formatPass}),
     cost |-> Total(ok, LAMBDA i : entries[i].cost), slower |-> Total(ok, LAMBDA i : entries[i].slower)]
ReplayedIn(entries) == {i \in DOMAIN entries : ~entries[i].errored}
JudgedIn(entries) == {i \in ReplayedIn(entries) : entries[i].verdict # Unjudged}
WorseIn(entries) == {i \in JudgedIn(entries) : entries[i].verdict = "worse"}

\* Mutant: a failed item is an item like the others.
Aggregate_Errored(entries) ==
    Summary(entries, ReplayedIn(entries), DOMAIN entries, JudgedIn(entries), WorseIn(entries))
\* The summary. The rate of the worse is by weight, and of what was judged; that of
\* critical failures and of formats of what was replayed.
Aggregate(entries) ==
    Summary(entries, ReplayedIn(entries), JudgedIn(entries), JudgedIn(entries), WorseIn(entries))

Limits(items, worse, critical, format, saving, latency) ==
    [minItems |-> items, maxWorse |-> worse, maxCritical |-> critical, minFormat |-> format,
     minSaving |-> saving, maxSlower |-> latency]
\* The bands of risk, with their thresholds.
Thresholds ==
    [low    |-> Limits(200, 50, 5, 980, 250, 200),
     medium |-> Limits(300, 30, 2, 990, 200, 100),
     high   |-> Limits(500, 10, 0, 995, 150, 0)]
RiskForTier(tier) == IF tier = "light" THEN "low" ELSE IF tier = "premium" THEN "high" ELSE "medium"

\* A benchmark is the sample: as many must be judged as it has.
OfBenchmark(risk, count) == [Thresholds[risk] EXCEPT !.minItems = IF count > 1 THEN count ELSE 1]

\* What a summary fails: with nothing judged or replayed, no rate of it does.
Failures(s, t) ==
    {f \in {"judged", "worse", "critical", "format", "saving", "latency"} :
       CASE f = "judged" -> s.judged < t.minItems
         [] f = "worse" -> s.worse * 1000 > t.maxWorse * s.weight
         [] f = "critical" -> s.critical * 1000 > t.maxCritical * s.ok
         [] f = "format" -> s.formatted * 1000 < t.minFormat * s.ok
         [] f = "saving" -> IF s.ok = 0 THEN t.minSaving > 0
                            ELSE (Production * s.ok - s.cost) * 1000 < t.minSaving * Production * s.ok
         [] f = "latency" -> s.slower > t.maxSlower * s.ok}
EvaluateRun(s, t) == Failures(s, t) = {}

\* The price of quality: what was not worse, discounted by what was malformed, for
\* what a judged item cost; free and good is best, nothing judged is last. As a pair:
\* quality, and cost per item.
EfficiencyOf(s, cost) ==
    [known |-> s.judged > 0,
     quality |-> (s.weight - s.worse) * (IF s.ok = 0 THEN 1 ELSE s.formatted),
     scale |-> s.weight * (IF s.ok = 0 THEN 1 ELSE s.ok),
     cost |-> cost, judged |-> s.judged]

\* Mutant: a candidate that costs nothing has no price per quality.
Ranks_Free(a, b) ==
    /\ a.known /\ a.cost > 0
    /\ b.known /\ b.cost > 0 => a.quality * b.scale * a.judged * b.cost > b.quality * a.scale * b.judged * a.cost

\* Whether one ranks above another on the leaderboard.
Value(e) == IF ~e.known THEN "none" ELSE IF e.cost > 0 THEN "ratio" ELSE IF e.quality > 0 THEN "free" ELSE "nothing"
Ranks(a, b) ==
    CASE Value(a) = "none" -> FALSE
      [] Value(a) = "free" -> Value(b) # "free"
      [] Value(a) = "nothing" -> Value(b) = "none"
      [] Value(a) = "ratio" /\ Value(b) = "ratio" ->
           a.quality * b.scale * a.judged * b.cost > b.quality * a.scale * b.judged * a.cost
      [] OTHER -> Value(b) = "none" \/ (Value(b) = "nothing" /\ a.quality > 0)

-----------------------------------------------------------------------------
(* The judge is shown the candidate first or second, and its wins in either       *)
(* place are compared.                                                              *)

WinsIn(verdicts, first) == Cardinality({i \in DOMAIN verdicts : verdicts[i].verdict = "better" /\ verdicts[i].first = first})
ShownIn(verdicts, first) == Cardinality({i \in DOMAIN verdicts : verdicts[i].verdict # Unjudged /\ verdicts[i].first = first})

\* Mutant: out of all that were judged, wherever they were shown.
PositionBias_All(verdicts) ==
    LET n == ShownIn(verdicts, TRUE) + ShownIn(verdicts, FALSE)
    IN  [known |-> n > 0, over |-> IF n = 0 THEN 1 ELSE n,
         by |-> WinsIn(verdicts, TRUE) - WinsIn(verdicts, FALSE)]

\* The rate of wins shown first, less that of wins shown second, where there are both.
PositionBias(verdicts) ==
    LET a == ShownIn(verdicts, TRUE)
        b == ShownIn(verdicts, FALSE)
    IN  [known |-> a > 0 /\ b > 0, over |-> IF a * b = 0 THEN 1 ELSE a * b,
         by |-> WinsIn(verdicts, TRUE) * b - WinsIn(verdicts, FALSE) * a]

-----------------------------------------------------------------------------
(* The sample: the first of each prompt, then one of each stratum in turn. Records *)
(* are told by their place among all.                                              *)

DedupeByPromptHash(records) ==
    {i \in DOMAIN records : \A j \in 1 .. i - 1 : records[j].prompt # records[i].prompt}

OfStratum(records, from, i) == {j \in from : records[j].stratum = records[i].stratum}
\* A record's turn is its place within its stratum; within a turn strata come in the
\* order in which they first appear.
TurnOf(records, from, i) == Cardinality({j \in OfStratum(records, from, i) : j <= i})
FirstOf(records, from, i) ==
    CHOOSE j \in OfStratum(records, from, i) : \A k \in OfStratum(records, from, i) : j <= k
Before(records, from, i, j) ==
    \/ TurnOf(records, from, i) < TurnOf(records, from, j)
    \/ /\ TurnOf(records, from, i) = TurnOf(records, from, j)
       /\ FirstOf(records, from, i) < FirstOf(records, from, j)

\* Mutant: as they come.
StratifiedSample_First(records, from, target) ==
    IF Cardinality(from) <= target THEN from
    ELSE {i \in from : Cardinality({j \in from : j < i}) < target}
StratifiedSample(records, from, target) ==
    IF Cardinality(from) <= target THEN from
    ELSE {i \in from : Cardinality({j \in from : Before(records, from, j, i)}) < target}

-----------------------------------------------------------------------------
(* Properties, over small runs, each of them stated of one run, or of one sample.   *)

Plain(verdict, severity) == Item(verdict, severity, FALSE, TRUE, 5, 0)
Even == Plain("equal", "normal")
Plains == {Plain(v, s) : v \in {"better", "equal", "worse"}, s \in {"trivial", "normal", "critical"}}
SomeItems ==
    Plains
    \cup {Failed, Even, Plain(Unjudged, "normal"), Item("better", "normal", FALSE, FALSE, 5, 0),
          Item("equal", "normal", TRUE, TRUE, 5, 0), Item("better", "normal", FALSE, TRUE, 12, 0),
          Item("better", "normal", FALSE, TRUE, 5, 500)}
SomeScores == {Aggregate(<<x, y>>) : x \in SomeItems, y \in {Even, Failed}}
SomePriced == {EfficiencyOf(s, cost) : s \in SomeScores, cost \in {0, 1, 3}}
SomeRuns == UNION {[1 .. n -> SomeItems] : n \in 0 .. 2}
Lenient == Limits(1, 500, 500, 500, 250, 300)
Tiers == {"light", "mid", "premium"}

\* A run over a benchmark that passes had every item of it replayed and judged: a
\* candidate cannot pass by failing on items (POST /eval-benchmarks/:id/run, evaluateRun).
EarnsItsPass(entries, tier) ==
    (entries # <<>> /\ EvaluateRun(Aggregate(entries), OfBenchmark(RiskForTier(tier), Len(entries)))) =>
        \A i \in DOMAIN entries : ~entries[i].errored /\ entries[i].verdict # Unjudged
PassIsEarned == \A entries \in SomeRuns, tier \in Tiers : EarnsItsPass(entries, tier)

\* A better verdict never makes a run fail, nor a graver case of a worse one make it
\* pass; where all are of normal severity the weights change nothing.
Graded(entries, i, verdict, severity) == [entries EXCEPT ![i] = [@ EXCEPT !.verdict = verdict, !.severity = severity]]
Evened(entries) ==
    [j \in DOMAIN entries |-> IF entries[j].errored THEN Failed ELSE [entries[j] EXCEPT !.severity = "normal"]]
HelpedByBetter(entries, t) ==
    LET pass(i, v, s) == EvaluateRun(Aggregate(Graded(entries, i, v, s)), t)
        even == Aggregate(Evened(entries))
    IN  /\ \A i \in WorseIn(entries) :
             LET s == entries[i].severity
             IN  /\ pass(i, "worse", s) => pass(i, "equal", s) /\ pass(i, "better", s)
                 /\ pass(i, "worse", "critical") => pass(i, "worse", "trivial")
        /\ even.worse * even.judged = even.worseRaw * even.weight
BetterNeverHurts == \A entries \in SomeRuns : HelpedByBetter(entries, Lenient)

\* On the leaderboard, of two candidates judged on as much, one that is no worse
\* and no dearer is never ranked below; and ranks contradict each other never.
FairlyRanked(a, b) ==
    /\ ~(Ranks(a, b) /\ Ranks(b, a))
    /\ (a.known /\ b.known /\ a.judged = b.judged /\ a.cost <= b.cost
          /\ a.quality * b.scale >= b.quality * a.scale) => ~Ranks(b, a)
RankIsFair == \A a, b \in SomePriced : FairlyRanked(a, b)

\* A judge that prefers a place shows as much whichever place the candidate had, and
\* one that looks at the answers alone, which lets a candidate win in both places or
\* in neither, shows nothing.
Swapped(verdicts) == [i \in DOMAIN verdicts |-> [verdicts[i] EXCEPT !.first = ~verdicts[i].first]]
BiasOfPlace(verdicts) ==
    LET bias == PositionBias(verdicts)
        turned == PositionBias(Swapped(verdicts))
    IN  /\ bias.known = turned.known
        /\ bias.known => bias.by * turned.over = -(turned.by * bias.over)
        /\ (bias.known /\ \A i \in DOMAIN verdicts : verdicts[i].verdict = "better") => bias.by = 0
VerdictsOfJudge == [verdict : {"better", "equal", "worse", Unjudged}, first : BOOLEAN]
BiasIsOfPlaces == \A n \in 0 .. 3 : \A verdicts \in [1 .. n -> VerdictsOfJudge] : BiasOfPlace(verdicts)

\* A sample has no prompt twice and as many as it can, and no stratum is two ahead of
\* one that has more to give; of a stratum it takes the first.
FairSample(records, target) ==
    LET firsts == DedupeByPromptHash(records)
        taken == StratifiedSample(records, firsts, target)
        of(i) == OfStratum(records, firsts, i)
    IN  /\ taken \subseteq firsts
        /\ \A i, j \in taken : records[i].prompt = records[j].prompt => i = j
        /\ Cardinality(taken) = IF Cardinality(firsts) < target THEN Cardinality(firsts) ELSE target
        /\ \A i, j \in firsts :
             /\ Cardinality(taken \cap of(i)) > Cardinality(taken \cap of(j)) + 1 => of(j) \subseteq taken
             /\ i \in taken /\ j \in of(i) /\ j < i => j \in taken
SampleIsFair ==
    \A n \in 0 .. 4, target \in 1 .. 3 : \A records \in [1 .. n -> [stratum : {"a", "b"}, prompt : 1 .. 3]] :
        FairSample(records, target)

ScoringIsSound == PassIsEarned /\ BetterNeverHurts /\ RankIsFair /\ BiasIsOfPlaces /\ SampleIsFair
=============================================================================
