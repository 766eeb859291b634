------------------------------ MODULE Analytics ------------------------------
(* The views of the dashboard over the log: the headline, the views by a dimension, *)
(* the series, the savings, Arbr's own spend, what a cap that is off would have     *)
(* counted - and the job of the boot that relabels what an older version logged.    *)
(* All read one log; what they say of it has to fit together.                       *)
(* src/server/src: analytics/aggregate.js, analytics/savings.js,                    *)
(* api/routes/analytics.js, api/routes/usage.js, api/routes/_shared.js,             *)
(* maintenance/backfillInternalKind.js.                                             *)
EXTENDS Integers, Sequences, FiniteSets, Functions

\* A field that is null, and one that a record of an older version does not have.
Null == "null"
Missing == "missing"
LegacyApplication == "arbr-internal"
Headed == {"application", "userId", "model"}     \* of nine fields a filter may name
Unfiltered == [application |-> Null, userId |-> Null, model |-> Null, source |-> Null,
               from |-> 0, to |-> 0, internalScope |-> Null]

SumOf(S, F(_)) == SumFunctionOnSet([x \in S |-> F(x)], S)
CostOf(S) == SumOf(S, LAMBDA r : r.cost)
FailuresOf(S) == {r \in S : r.status = "failure"}

\* A query for null finds the records that do not have the field too.
InternalOnly(r) == r.internalKind \notin {Null, Missing}
CustomerOnly(r) == ~InternalOnly(r)

\* Unless a caller asks for more it gets the customers' records.
InScope(r, scope) ==
    /\ scope \in {Null, "customer"} => CustomerOnly(r)
    /\ scope = "internal" => InternalOnly(r)
\* Traffic that was ingested is seen unless a caller narrows.
FromSource(r, source) ==
    /\ source = "ingested" => r.source = "ingested"
    /\ source = "gateway" => r.source \in {Null, Missing}
BuildMatch(log, f) ==
    {r \in log :
       /\ f.from # 0 => r.at >= f.from
       /\ f.to # 0 => r.at <= f.to
       /\ \A d \in Headed : f[d] # Null => r[d] = f[d]
       /\ InScope(r, f.internalScope) /\ FromSource(r, f.source)}

IsDimensionScoped(f) == f.application # Null \/ f.userId # Null

\* An expression of an aggregation does not take a missing field for null: $ifNull does.
\* Mutant: without it.
IsCustomer_Present(r) == r.internalKind = Null
IsCustomer(r) == (IF r.internalKind = Missing THEN Null ELSE r.internalKind) = Null

Overview(log, f) ==
    LET m == BuildMatch(log, [f EXCEPT !.internalScope = IF IsDimensionScoped(f) THEN "customer" ELSE "all"])
        customers == {r \in m : IsCustomer(r)}
        unpriced == Cardinality({r \in customers : ~r.knownPricing})
        priced == Cardinality(customers) - unpriced
    IN  [totalCost |-> CostOf(m),
         customerCost |-> CostOf(customers), totalRequests |-> Cardinality(customers),
         internalCost |-> CostOf(m \ customers), internalRequests |-> Cardinality(m \ customers),
         failures |-> Cardinality(FailuresOf(customers)), unknownPricingRequests |-> unpriced,
         avgCostPerRequest |-> IF priced = 0 THEN 0 ELSE CostOf(customers) \div priced]

\* What a dimension's view says of each of its values.
Figures(S) == [requests |-> Cardinality(S), cost |-> CostOf(S), failures |-> Cardinality(FailuresOf(S))]
GroupOn(S, Key(_)) == [k \in {Key(r) : r \in S} |-> Figures({r \in S : Key(r) = k})]
GroupBy(log, dimension, f) == GroupOn(BuildMatch(log, f), LAMBDA r : r[dimension])

\* By the hour or, whatever else is asked for, by the day (usage.js also takes "month").
BucketOf(at, bucket) == IF bucket = "hour" THEN at ELSE at \div 24
TimeSeries(log, f, bucket) == GroupOn(BuildMatch(log, f), LAMBDA r : BucketOf(r.at, bucket))

InternalSpend(log, f) ==
    LET own == [f EXCEPT !.internalScope = "internal"]
    IN  [total |-> Figures(BuildMatch(log, own)),
         byKind |-> GroupBy(log, "internalKind", own), byModel |-> GroupBy(log, "model", own)]

\* Substitutions: what the tokens would have cost at the model that was asked for.
Prices == [light |-> 1, heavy |-> 3]
\* Mutant: also those that failed.
Substitutions_Failed(log, f) == {r \in BuildMatch(log, f) : r.requested # r.model}
Substitutions(log, f) == {r \in BuildMatch(log, f) : r.status = "success" /\ r.requested # r.model}
GroupKey(r) == <<r.requested, r.model, r.qualityGate>>
RealisedSavings(log, f) ==
    LET served == Substitutions(log, f)
        Of(g) == {r \in served : GroupKey(r) = g}
        groups == {g \in {GroupKey(r) : r \in served} : g[1] \notin {Null, "auto"} /\ g[1] \in DOMAIN Prices}
        Saved(g) == Prices[g[1]] * SumOf(Of(g), LAMBDA r : r.tokens) - CostOf(Of(g))
        Under(gates) == SumOf({g \in groups : g[3] \in gates}, Saved)
    IN  [totalSaved |-> SumOf(groups, Saved),
         substitutedRequests |-> SumOf(groups, LAMBDA g : Cardinality(Of(g))),
         passed |-> Under({"passed"}), ungated |-> Under({"overridden", "ungated"}), unknown |-> Under({Null})]

Spend(log, dimension, value, from, includeInternal) ==
    CostOf(BuildMatch(log,
        [d \in DOMAIN Unfiltered |->
           CASE d = "from" -> from
             [] d = "internalScope" -> IF includeInternal THEN "all" ELSE Null
             [] d = dimension -> value
             [] OTHER -> Unfiltered[d]]))

\* A cap shows the counter that is enforced, or, when it is off, what was spent.
\* Mutant: overhead counted against every cap that is off.
SpentUnder_Whole(log, cap, counted) ==
    IF cap.enabled THEN counted ELSE Spend(log, cap.dimension, cap.value, cap.from, TRUE)
SpentUnder(log, cap, counted) ==
    IF cap.enabled THEN counted ELSE Spend(log, cap.dimension, cap.value, cap.from, cap.dimension = Null)
CapStatus(log, cap, counted) ==
    [spent |-> SpentUnder(log, cap, counted), breached |-> cap.enabled /\ SpentUnder(log, cap, counted) >= cap.limit]

\* What a filter may be set to, and the applications that have a key and no request yet.
Facets(log, keyApps) ==
    LET apps == {r.application : r \in {x \in log : CustomerOnly(x)}}
    IN  [applications |-> apps, newApplications |-> (keyApps \ {Null}) \ apps]

\* The records of an older version's classifier, which called itself an application.
\* Mutant: relabelled, but left under the name of the application.
Relabelled_Named(r) == [r EXCEPT !.internalKind = "classifier"]
Relabelled(r) == [r EXCEPT !.internalKind = "classifier", !.application = Null]
BackfillInternalKind(log) ==
    {IF r.application = LegacyApplication /\ CustomerOnly(r) THEN Relabelled(r) ELSE r : r \in log}

\* What people made of the recommendations, and how much of what they accepted was
\* proven first: by the way it was accepted, or ungated when that is not on record.
Acceptance(recs) ==
    [s \in {"pending", "accepted", "dismissed"} |-> Cardinality({r \in recs : r.status = s})]
\* Mutant: whatever has a way on record, also when it was dismissed later.
SavingsTrust_Decided(recs) ==
    [via \in {"passed", "overridden", "ungated"} |->
       LET of == {r \in recs : r.status # "pending" /\ (IF r.acceptedVia = Null THEN "ungated" ELSE r.acceptedVia) = via}
       IN  [count |-> Cardinality(of), saving |-> SumOf(of, LAMBDA r : r.saving)]]
SavingsTrust(recs) ==
    [via \in {"passed", "overridden", "ungated"} |->
       LET of == {r \in recs : r.status = "accepted" /\ (IF r.acceptedVia = Null THEN "ungated" ELSE r.acceptedVia) = via}
       IN  [count |-> Cardinality(of), saving |-> SumOf(of, LAMBDA r : r.saving)]]

-----------------------------------------------------------------------------
(* Properties, over logs of a few of these records and every filter.              *)

Call(id, at, application, userId, model, requested, qualityGate, status, cost) ==
    [id |-> id, at |-> at, application |-> application, userId |-> userId, model |-> model,
     requested |-> requested, qualityGate |-> qualityGate, status |-> status, cost |-> cost, tokens |-> 2,
     internalKind |-> Null, source |-> Null, knownPricing |-> TRUE]
Logged ==
    {Call(1, 20, "a1", "u1", "light", "heavy", "passed", "success", 2),
     [Call(2, 30, "a1", Null, "heavy", "heavy", Null, "success", 6) EXCEPT !.internalKind = Missing, !.source = Missing],
     [Call(3, 31, "a2", "u1", "light", "light", Null, "success", 2) EXCEPT !.source = "ingested"],
     Call(4, 32, "a1", "u1", "light", "heavy", Null, "failure", 0),
     Call(5, 40, "a2", Null, "light", "auto", "ungated", "success", 2),
     Call(6, 41, "a2", "u1", "light", "heavy", "overridden", "success", 2),
     Call(7, 42, "a1", "u1", "light", "heavy", Null, "success", 3),
     [Call(8, 20, "a2", Null, "other", "gone", Null, "success", 0) EXCEPT !.knownPricing = FALSE],
     [Call(9, 21, Null, Null, "light", "light", Null, "success", 1) EXCEPT !.internalKind = "judge"],
     [Call(10, 22, LegacyApplication, Null, "light", Null, Null, "success", 1) EXCEPT !.internalKind = Missing]}
MaxLogged == 3
SampleLogs == {log \in SUBSET Logged : Cardinality(log) <= MaxLogged} \cup {Logged}
SampleFilters ==
    {[Unfiltered EXCEPT !.application = a, !.userId = u, !.source = s, !.from = w[1], !.to = w[2]] :
        a \in {Null, "a1", LegacyApplication}, u \in {Null, "u1"}, s \in {Null, "gateway", "ingested"},
        w \in {<<0, 0>>, <<24, 0>>, <<0, 31>>}}

TotalOf(view) ==
    [requests |-> SumOf(DOMAIN view, LAMBDA k : view[k].requests),
     cost |-> SumOf(DOMAIN view, LAMBDA k : view[k].cost),
     failures |-> SumOf(DOMAIN view, LAMBDA k : view[k].failures)]

\* Every view accounts for the customers' share of the headline, request by request,
\* also for records older than the field that tells Arbr's calls from theirs; the rest
\* of the headline is Arbr's own spend, which a view of a dimension has none of
\* (aggregate.js:48-66).
Reconciled(log, f) ==
    LET head == Overview(log, f)
        own == InternalSpend(log, f)
        customers == [requests |-> head.totalRequests, cost |-> head.customerCost, failures |-> head.failures]
    IN  /\ \A d \in Headed : TotalOf(GroupBy(log, d, f)) = customers
        /\ \A b \in {"hour", "day", "month"} : TotalOf(TimeSeries(log, f, b)) = customers
        /\ head.totalCost = head.customerCost + head.internalCost
        /\ TotalOf(own.byKind) = own.total /\ TotalOf(own.byModel) = own.total
        /\ ~IsDimensionScoped(f) =>
             head.internalCost = own.total.cost /\ head.internalRequests = own.total.requests
        /\ IsDimensionScoped(f) => head.internalRequests = 0
ViewsReconcile == \A log \in SampleLogs, f \in SampleFilters : Reconciled(log, f)

\* What is said to be saved is what the successful requests saved one by one, whatever
\* they are grouped by, and the split by gate leaves none of it out (aggregate.js:164-209).
SavedOneByOne(log, f) ==
    LET saved == RealisedSavings(log, f)
        priced == {r \in BuildMatch(log, f) : r.status = "success" /\ r.requested \in DOMAIN Prices \ {r.model}}
    IN  /\ saved.totalSaved = SumOf(priced, LAMBDA r : Prices[r.requested] * r.tokens - r.cost)
        /\ saved.substitutedRequests = Cardinality(priced)
        /\ saved.passed + saved.ungated + saved.unknown = saved.totalSaved
SavingsAddUp == \A log \in SampleLogs, f \in SampleFilters : SavedOneByOne(log, f)

\* The estimate of a cap that is off is the figure the dashboard has for its scope and
\* window: with Arbr's spend for a cap on everything, without it for any other
\* (_shared.js:25-28).
EstimateShown(log, dimension, value, from) ==
    LET cap == [enabled |-> FALSE, dimension |-> dimension, value |-> value, from |-> from, limit |-> 0]
        f == [d \in DOMAIN Unfiltered |-> CASE d = "from" -> from [] d = dimension -> value [] OTHER -> Unfiltered[d]]
        head == Overview(log, f)
    IN  /\ CapStatus(log, cap, 0).spent = IF dimension = Null THEN head.totalCost ELSE head.customerCost
        /\ ~CapStatus(log, cap, 0).breached
EstimateIsShown ==
    \A log \in SampleLogs, from \in {0, 24}, dimension \in Headed \cup {Null}, value \in {"a1", "u1", "light"} :
        EstimateShown(log, dimension, value, from)

\* The job of the boot moves what it relabels from the customers' share to Arbr's and
\* leaves the headline and every other record as they are; after it no view and no
\* filter knows the false application, and a second pass finds nothing
\* (backfillInternalKind.js:1-16).
BackfillMoves(log) ==
    LET after == BackfillInternalKind(log)
        was == Overview(log, Unfiltered)
        is == Overview(after, Unfiltered)
    IN  /\ BackfillInternalKind(after) = after
        /\ is.totalCost = was.totalCost
        /\ is.totalRequests + is.internalRequests = was.totalRequests + was.internalRequests
        /\ {r \in log : r.application # LegacyApplication} \subseteq after
        /\ \A s \in {"customer", "internal", "all"} :
              LegacyApplication \notin DOMAIN GroupBy(after, "application", [Unfiltered EXCEPT !.internalScope = s])
        /\ LegacyApplication \notin Facets(after, {"a1", "a3", Null}).applications
BackfillMovesOnly == \A log \in SampleLogs : BackfillMoves(log)

\* An application is offered as new only while no request of it is in any view.
NewAreUnseen ==
    \A log \in SampleLogs :
        LET f == Facets(log, {"a1", "a3", Null}) IN
        /\ f.newApplications \cap DOMAIN GroupBy(log, "application", Unfiltered) = {}
        /\ f.applications = DOMAIN GroupBy(log, "application", Unfiltered)

\* Every accepted recommendation stands under one trust, with what it was projected to
\* save, and a dismissed one under none, however it had been accepted before.
DecidedUnderOne(recs) ==
    LET trust == SavingsTrust(recs)
        accepted == {r \in recs : r.status = "accepted"}
    IN  /\ SumOf(DOMAIN trust, LAMBDA v : trust[v].count) = Acceptance(recs)["accepted"]
        /\ SumOf(DOMAIN trust, LAMBDA v : trust[v].saving) = SumOf(accepted, LAMBDA r : r.saving)
DecisionsAddUp ==
    \A recs \in SUBSET [status : {"pending", "accepted", "dismissed"}, saving : {5, 7},
                        acceptedVia : {Null, "passed"}] : DecidedUnderOne(recs)

AnalyticsAgree == DecisionsAddUp /\ ViewsReconcile /\ SavingsAddUp /\ EstimateIsShown /\ BackfillMovesOnly /\ NewAreUnseen
=============================================================================
