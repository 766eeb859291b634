-------------------------------- MODULE Audit --------------------------------
(* arbr audit: the lines of a log, from a file or from the export of a running  *)
(* instance, are added up by task, model and provider, and where a premium      *)
(* model did cheap work its tokens are priced at a lighter one. The report adds *)
(* the groups up again, by model. And what arbr wrap reads of the tokens of an  *)
(* answer. Amounts are whole numbers, names are values; a name that is empty or *)
(* absent is None or Blank.                                                     *)
(* src/clients/cli: src/audit.js, src/remote.js, src/report.js, src/wrap.js,    *)
(* src/vendor/recommendEngine.js, src/vendor/pricingTable.js; and the export of *)
(* server/src: api/routes/requests.js, utils/csv.js.                            *)
EXTENDS Deployment, Integers, Functions

CONSTANTS PriceTable,     \* model -> [provider, tier, input, output]
          LightTargets,   \* provider -> the lighter model that is suggested
          SmallLetters,   \* names that small letters change -> what they become
          Enough,         \* MIN_REQUESTS
          Blank,          \* the empty text
          LogLines,       \* lines a log may have
          MaxLines,       \* bound on the lines of a log and the events of a stream
          MaxTokens       \* bound on what an event counts

CellTexts == {"taskType", "model", "modelRequested", "provider"}
CellAmounts == {"promptTokens", "completionTokens", "totalCost"}

\* Prices and amounts are no less than nothing.
ASSUME AuditAssumption ==
    /\ \A n \in DOMAIN PriceTable : PriceTable[n].input \in Nat /\ PriceTable[n].output \in Nat
    /\ MaxLines \in Nat /\ MaxTokens \in Nat /\ Enough \in Nat
    /\ \A line \in LogLines : /\ line = [f \in CellTexts \cup CellAmounts |-> line[f]]
                              /\ \A f \in CellAmounts : line[f] \in Nat \cup {None}

Or(value, otherwise) == IF value \in {None, Blank} THEN otherwise ELSE value
Amount(value) == IF value \in {None, Blank} THEN 0 ELSE value
InSmall(name) == IF name \in DOMAIN SmallLetters THEN SmallLetters[name] ELSE name

-----------------------------------------------------------------------------
(* Where lines come from. *)

\* csvCell: what is null is an empty cell.
CsvCell(value) == IF value = None THEN Blank ELSE value
\* parseCsv, fetchRemoteRecords: cells are texts, those of amounts are made numbers again.
FetchRemoteRecords(log) ==
    [i \in DOMAIN log |->
       [f \in CellTexts \cup CellAmounts |->
          IF f \in CellAmounts THEN Amount(CsvCell(log[i][f])) ELSE CsvCell(log[i][f])]]

-----------------------------------------------------------------------------
(* What is made of them. *)

\* A line stands for the model that answered, else for the one that was asked for.
ModelOf(line) == Or(line.model, Or(line.modelRequested, "unknown"))
KeyOf(line) ==
    <<Or(line.taskType, "unknown"), ModelOf(line),
      Or(line.provider, IF ModelOf(line) \in DOMAIN PriceTable THEN PriceTable[ModelOf(line)].provider ELSE "unknown")>>

AddedUp(log, field, lines) == SumFunctionOnSet([i \in lines |-> Amount(log[i][field])], lines)
Group(log, lines) ==
    [requests |-> Cardinality(lines), promptTokens |-> AddedUp(log, "promptTokens", lines),
     completionTokens |-> AddedUp(log, "completionTokens", lines), currentCost |-> AddedUp(log, "totalCost", lines)]
AggregateGroups(log) ==
    [k \in {KeyOf(log[i]) : i \in DOMAIN log} |-> Group(log, {i \in DOMAIN log : KeyOf(log[i]) = k})]

IsPremium(model) == model \in DOMAIN PriceTable /\ PriceTable[model].tier = "premium"
CostFor(model, in, out) ==
    IF model \in DOMAIN PriceTable THEN in * PriceTable[model].input + out * PriceTable[model].output ELSE 0
SuggestLightTarget(model) ==
    LET provider == PriceTable[model].provider
    IN  IF model \in DOMAIN PriceTable /\ provider \in DOMAIN LightTargets /\ LightTargets[provider] # model
        THEN LightTargets[provider] ELSE None

Projected(k, group) == CostFor(SuggestLightTarget(k[2]), group.promptTokens, group.completionTokens)
Saving(k, group) == group.currentCost - Projected(k, group)

\* Mutant: also where the lighter model would cost more.
Worth_Any(k, group) == group.requests >= Enough
Worth(k, group) == group.requests >= Enough /\ Saving(k, group) > 0

\* planRecommendations: the groups that are recommended. A log has no applications, so
\* each group is looked at whole.
PlanRecommendations(groups, cheap) ==
    {k \in DOMAIN groups :
       /\ IsPremium(k[2]) /\ InSmall(k[1]) \in cheap
       /\ SuggestLightTarget(k[2]) # None /\ Worth(k, groups[k])}

\* runAuditFromRecords
RunAudit(log, cheap) ==
    LET groups == AggregateGroups(log)
        flagged == PlanRecommendations(groups, {InSmall(name) : name \in cheap})
    IN  [totalRequests |-> Cardinality(DOMAIN log), totalCost |-> AddedUp(log, "totalCost", DOMAIN log),
         groups |-> groups, recommendations |-> flagged,
         flaggedCost |-> SumFunctionOnSet([k \in flagged |-> groups[k].currentCost], flagged),
         flaggedSavings |-> SumFunctionOnSet([k \in flagged |-> Saving(k, groups[k])], flagged)]

\* What runWrapSession returns: its records have no task, and nothing is recommended.
WrapResult(log) ==
    [totalRequests |-> Cardinality(DOMAIN log), totalCost |-> AddedUp(log, "totalCost", DOMAIN log),
     groups |-> AggregateGroups(log), recommendations |-> {}, flaggedCost |-> 0, flaggedSavings |-> 0]

\* Mutant: by model, one group of each.
AggregateByModel_One(groups) ==
    [m \in {k[2] : k \in DOMAIN groups} |->
       LET k == CHOOSE k \in DOMAIN groups : k[2] = m
       IN  [requests |-> groups[k].requests, cost |-> groups[k].currentCost]]
\* aggregateByModel, and the summary of wrap.
AggregateByModel(groups) ==
    [m \in {k[2] : k \in DOMAIN groups} |->
       LET of == {k \in DOMAIN groups : k[2] = m}
       IN  [requests |-> SumFunctionOnSet([k \in of |-> groups[k].requests], of),
            cost |-> SumFunctionOnSet([k \in of |-> groups[k].currentCost], of)]]

\* renderReport: what a report shows of a result, as an audit or as a session.
RenderReport(result, how) ==
    [spent |-> result.totalCost, requests |-> result.totalRequests, bars |-> AggregateByModel(result.groups),
     saving |-> IF how = "audit" THEN result.flaggedSavings ELSE None,
     rows |-> result.recommendations,
     nothingFound |-> how = "audit" /\ result.recommendations = {}]

\* runAuditCommand: where its log is from, and its report; without a log, status 1.
Exit(status) == [status |-> status, report |-> None]
RunAuditCommand(args, world) ==
    LET from == CASE args.url -> [read |-> args.key /\ world.answers, log |-> FetchRemoteRecords(world.records)]
                  [] ~args.url /\ args.demo -> [read |-> TRUE, log |-> world.sample]
                  [] OTHER -> [read |-> world.file.exists /\ world.file.json, log |-> world.file.log]
    IN  IF args.help THEN Exit(0)
        ELSE IF ~from.read THEN Exit(1)
        ELSE [status |-> 0, report |-> RenderReport(RunAudit(from.log, args.cheap), "audit")]

-----------------------------------------------------------------------------
(* The tokens of an answer that was passed on. *)

\* Math.max over what the events say.
Largest(numbers) == CHOOSE n \in numbers : \A m \in numbers : m <= n
\* The last that says any.
Latest(events, field) ==
    LET said == {i \in DOMAIN events : events[i][field] # 0}
    IN  IF said = {} THEN 0 ELSE events[Largest(said)][field]
\* parseAnthropicSSE, parseOpenAISSE
UsageOfStream(wire, events) ==
    [f \in {"in", "out"} |->
       IF wire = "anthropic" THEN Largest({0} \cup {events[i][f] : i \in DOMAIN events}) ELSE Latest(events, f)]
\* parseNonStreamingUsage
UsageOfBody(usage) == [f \in {"in", "out"} |-> usage[f]]

-----------------------------------------------------------------------------
(* What they promise, for every log and stream of bounded length. *)

Logs == UNION {[1..n -> LogLines] : n \in 0..MaxLines}
Tasks == {line.taskType : line \in LogLines}
Streams == UNION {[1..n -> [{"in", "out"} -> 0..MaxTokens]] : n \in 1..MaxLines}

\* What a report says adds up: its groups, and again its bars, to the spend and the
\* requests of the log, in an audit as after a session (audit.js, report.js).
ReportAddsUp(log, result, how) ==
    LET shown == RenderReport(result, how)
    IN  /\ SumFunctionOnSet([k \in DOMAIN result.groups |-> result.groups[k].requests], DOMAIN result.groups)
             = Cardinality(DOMAIN log)
        /\ SumFunctionOnSet([m \in DOMAIN shown.bars |-> shown.bars[m].requests], DOMAIN shown.bars) = shown.requests
        /\ SumFunctionOnSet([m \in DOMAIN shown.bars |-> shown.bars[m].cost], DOMAIN shown.bars) = shown.spent

\* Nobody is told to save more than was spent on what is flagged, nor where the lighter
\* model would cost as much (recommendEngine.js, audit.js).
SavingsAreReal(result) ==
    /\ 0 <= result.flaggedSavings /\ result.flaggedSavings <= result.flaggedCost
    /\ result.flaggedCost <= result.totalCost
    /\ \A k \in result.recommendations : Projected(k, result.groups[k]) < result.groups[k].currentCost

\* The log of an instance gives the same report from its export as from a file: what is
\* lost in a table of texts was not told apart before (requests.js, csv.js, remote.js).
ExportAuditsAlike(log, cheap) ==
    LET world == [answers |-> TRUE, records |-> log, sample |-> <<>>,
                  file |-> [exists |-> TRUE, json |-> TRUE, log |-> log]]
        args(url) == [help |-> FALSE, url |-> url, key |-> TRUE, demo |-> FALSE, cheap |-> cheap]
    IN  RunAuditCommand(args(TRUE), world) = RunAuditCommand(args(FALSE), world)

\* Of a stream whose counts only grow, the proxy reads what the same answer says in one
\* piece, on both wires (wrap.js).
StreamCountsAlike(events) ==
    (\A f \in {"in", "out"}, i, j \in DOMAIN events : i <= j => events[i][f] <= events[j][f]) =>
        \A wire \in {"anthropic", "openai"} :
            UsageOfStream(wire, events) = UsageOfBody(events[Len(events)])

AuditIsSound ==
    /\ \A log \in Logs, cheap \in SUBSET Tasks :
         /\ ReportAddsUp(log, RunAudit(log, cheap), "audit") /\ SavingsAreReal(RunAudit(log, cheap))
         /\ ExportAuditsAlike(log, cheap)
    /\ \A log \in Logs : ReportAddsUp(log, WrapResult(log), "wrap")
    /\ \A events \in Streams : StreamCountsAlike(events)
=============================================================================
