------------------------------ MODULE AiPolicy -------------------------------
(* The policy that assigns a model to each type of task: the engine that      *)
(* computes it, the edits of an operator, the refresh after an upgrade, and   *)
(* what a request is given, with and without the adjustment to its difficulty.*)
(* src/server/src: routing/aiPolicy.js,                                       *)
(* api/routes/aiPolicy.js, classify/classifier.js (TASK_CATALOG).             *)
EXTENDS Deployment, Integers, FiniteSets, Functions

CONSTANTS Dims,          \* the dimensions of capability
          Catalogues,    \* what the registry may hold: sets of rows, one per model id
          IdOrder,       \* the model ids in alphabetical order
          LiveSets,      \* sets of providers with a key
          BuiltInTasks,  \* the tasks of the catalogue
          CustomTasks,   \* further tasks that applications have sent
          CatalogTier,   \* tier of a built-in task
          Weights,       \* needs of a task in each dimension, per cent
          Curated,       \* estimated capabilities of a model, per cent
          Tokens,        \* average tokens in and out of a task
          EditedMaps     \* assignments an operator may submit

VARIABLES catalogue,  \* the rows of the registry, as this process has them
          liveIds,    \* the providers with a key
          stored,     \* Settings.aiPolicy
          copy,       \* the cached assignments, or None
          job         \* a regeneration under way, or None

PolicyVars == <<catalogue, liveIds, stored, copy, job>>

PolicyTasks == BuiltInTasks \cup CustomTasks
Goals == {"cost", "balanced", "quality"}
Tiers == {"light", "mid", "premium"}
CurrentVersion == 4

\* Figures are not negative, a registry has one row per id, and ids have an order.
Scores == [Dims -> {None} \cup Nat]
ASSUME PolicyAssumption ==
    /\ IsFiniteSet(Dims) /\ "coding" \in Dims
    /\ Catalogues # {} /\ \A rows \in Catalogues : IsFiniteSet(rows)
    /\ \A rows \in Catalogues : \A r \in rows :
          /\ r.synced \in Scores /\ Curated[r.id] \in Scores
          /\ r.input \in {None} \cup Nat /\ r.output \in {None} \cup Nat
          /\ \E i \in DOMAIN IdOrder : IdOrder[i] = r.id
          /\ \A o \in rows : o.id = r.id => o = r
    /\ DOMAIN IdOrder \subseteq Nat
    /\ \A t \in PolicyTasks : Weights[t] \in [Dims -> Nat] /\ Tokens[t] \in [in : Nat, out : Nat]

Unmapped == [t \in PolicyTasks |-> None]
Known(id) == \E r \in catalogue : r.id = id
RowOf(id) == CHOOSE r \in catalogue : r.id = id

PolicyInit ==
    /\ catalogue = CHOOSE c \in Catalogues : TRUE
    /\ liveIds = CHOOSE l \in LiveSets : TRUE
    /\ stored = [map |-> Unmapped, version |-> None]
    /\ copy = None /\ job = None

-----------------------------------------------------------------------------
(* The engine. Qualities are kept as sums of weight times capability, so that *)
(* those of one task compare without a division.                              *)

\* A filter that would leave nothing is relaxed.
OrAll(kept, all) == IF kept = {} THEN all ELSE kept

\* Capabilities that a benchmark has measured, else the curated or derived ones.
\* A sync that only knows the general score has measured nothing.
Measured(r) == r.synced["coding"] # None
CapabilityOf(r, d) ==
    LET c == IF Measured(r) THEN r.synced[d] ELSE Curated[r.id][d] IN IF c = None THEN 40 ELSE c

QualityScore(task, r) == SumFunction([d \in Dims |-> Weights[task][d] * CapabilityOf(r, d)])
TotalWeight(task) == SumFunction(Weights[task])

\* What a task strongly needs has a floor.
PassesGates(task, r) == \A d \in Dims : Weights[task][d] >= 70 => CapabilityOf(r, d) >= 55

HasPrice(r) == r.input # None /\ r.input > 0
PricedPool(rows) == OrAll({r \in rows : HasPrice(r)}, rows)

PoolTiers(tier, goal) ==
    CASE tier = "light"   -> {"light"}
      [] tier = "mid"     -> {"light", "mid"}
      [] tier = "premium" -> IF goal = "cost" THEN {"mid", "premium"} ELSE Tiers
PoolFor(tier, rows, goal) == OrAll({r \in rows : r.tier \in PoolTiers(tier, goal)}, rows)

NeverWins == 1000000
\* Tokens in and out at their own rates; without a rate for output, at that of input.
ExpectedCost(r, profile) ==
    IF ~HasPrice(r) THEN NeverWins
    ELSE profile.in * r.input + profile.out * (IF r.output = None THEN r.input ELSE r.output)

GoalBar(goal) == CASE goal = "cost" -> 70 [] goal = "quality" -> 0 [] OTHER -> 80
ClearsBar(task, r, goal) == QualityScore(task, r) >= GoalBar(goal) * TotalWeight(task)

Place(r) == CHOOSE i \in DOMAIN IdOrder : IdOrder[i] = r.id
TieGoesTo(a, b) ==
    \/ Measured(a) /\ ~Measured(b)
    \/ (Measured(a) <=> Measured(b)) /\ Place(a) < Place(b)

Better(task, profile, goal, a, b) ==
    LET qa == QualityScore(task, a)  ca == ExpectedCost(a, profile)
        qb == QualityScore(task, b)  cb == ExpectedCost(b, profile)
    IN  IF goal = "quality"
        THEN qa > qb \/ (qa = qb /\ (ca < cb \/ (ca = cb /\ TieGoesTo(a, b))))
        ELSE ca < cb \/ (ca = cb /\ (qa > qb \/ (qa = qb /\ TieGoesTo(a, b))))

\* Mutant: the gates come after the bar.
Contenders_BarFirst(task, rows, tier, goal) ==
    LET pool == PoolFor(tier, rows, goal)
        clearing == OrAll({r \in pool : ClearsBar(task, r, goal)}, pool)
    IN  OrAll({r \in clearing : PassesGates(task, r)}, clearing)
\* rankCandidates, up to the order: gates, then evidence for a premium task, then the bar.
Contenders(task, rows, tier, goal) ==
    LET pool == PoolFor(tier, rows, goal)
        gated == OrAll({r \in pool : PassesGates(task, r)}, pool)
        proven == IF tier = "premium" THEN OrAll({r \in gated : Measured(r)}, gated) ELSE gated
    IN  OrAll({r \in proven : ClearsBar(task, r, goal)}, proven)

\* Mutant: the dearest is taken where the cheapest was meant.
RankedFirst_Reversed(task, rows, tier, profile, goal) ==
    LET clearing == Contenders(task, rows, tier, goal)
    IN  CHOOSE r \in clearing : \A o \in clearing \ {r} : Better(task, profile, goal, o, r)
RankedFirst(task, rows, tier, profile, goal) ==
    LET clearing == Contenders(task, rows, tier, goal)
    IN  CHOOSE r \in clearing : \A o \in clearing \ {r} : Better(task, profile, goal, r, o)

TierOf(task) == IF task \in BuiltInTasks THEN CatalogTier[task] ELSE "mid"
Routable(rows, live) == PricedPool({r \in rows : r.provider \in live /\ r.chat})

\* Built-in and observed tasks are assigned, the rest is left out.
ComputeAssignments(rows, seen, goal) ==
    [t \in PolicyTasks |->
        IF t \in BuiltInTasks \cup seen
        THEN RankedFirst(t, rows, TierOf(t), Tokens[t], goal).id ELSE None]

-----------------------------------------------------------------------------
(* Generation and edits. *)

\* POST /ai-policy/regenerate, by an administrator. The pool is fixed when the
\* generation begins; the tasks observed and their tokens are queried after that.
StartRegenerate(goal) ==
    /\ job = None /\ Routable(catalogue, liveIds) # {}
    /\ job' = [rows |-> Routable(catalogue, liveIds), goal |-> goal]
    /\ UNCHANGED <<catalogue, liveIds, stored, copy>>

\* GET /ai-policy: a policy of another version is computed anew, whoever looks.
Describe ==
    /\ stored.version # CurrentVersion /\ stored.map # Unmapped
    /\ StartRegenerate("balanced")

FinishRegenerate(seen) ==
    /\ job # None
    /\ stored' = [map |-> ComputeAssignments(job.rows, seen, job.goal), version |-> CurrentVersion]
    /\ copy' = None /\ job' = None
    /\ UNCHANGED <<catalogue, liveIds>>

RegenerateFails ==
    /\ job # None /\ job' = None
    /\ UNCHANGED <<catalogue, liveIds, stored, copy>>

\* PUT /ai-policy keeps what names a model of the registry, and the version.
SetAssignments(map) ==
    /\ stored' = [stored EXCEPT !.map =
                    [t \in PolicyTasks |-> IF Known(map[t]) THEN map[t] ELSE None]]
    /\ copy' = None
    /\ UNCHANGED <<catalogue, liveIds, job>>

\* A new build: its tables have another version.
Upgrade ==
    /\ stored.version = CurrentVersion /\ stored' = [stored EXCEPT !.version = CurrentVersion - 1]
    /\ copy' = None /\ job' = None
    /\ UNCHANGED <<catalogue, liveIds>>

RegistryChanges(rows, live) ==
    /\ <<rows, live>> # <<catalogue, liveIds>>
    /\ catalogue' = rows /\ liveIds' = live
    /\ UNCHANGED <<stored, copy, job>>

-----------------------------------------------------------------------------
(* What a request is given. *)

GetEffective ==
    /\ copy = None /\ copy' = stored.map
    /\ UNCHANGED <<catalogue, liveIds, stored, job>>

\* Mutant: an assignment is followed whatever its model can do.
Lookup_Anything(task) == copy[task]
\* An assignment to a model that is gone or cannot chat counts as none.
Lookup(task) == IF Known(copy[task]) /\ RowOf(copy[task]).chat THEN copy[task] ELSE None

\* The pick of the engine for the tier of this instance, by the default tokens.
Default == [in |-> 2, out |-> 1]
PickFor(task, difficulty) ==
    RankedFirst(task, Routable(catalogue, liveIds), difficulty, Default, "balanced")

\* Mutant: the pick stands whatever it costs.
Adjusted_Dearer(task, base, difficulty) ==
    IF None \notin {PickFor(task, difficulty).input, RowOf(base).input}
    THEN PickFor(task, difficulty).id ELSE base
\* It stands in for the assigned model only when both have a price and it costs less.
Adjusted(task, base, difficulty) ==
    LET new == PickFor(task, difficulty).input
        old == RowOf(base).input
    IN  IF None \notin {new, old} /\ new < old THEN PickFor(task, difficulty).id ELSE base

\* Only an assigned model is adjusted, and only when the request is rated off
\* the tier of its task; a task of an application has none.
ResolveModel(task, difficulty, adjust) ==
    LET base == Lookup(task)
        kept == \/ ~adjust \/ base = None \/ difficulty = None
                \/ (task \in BuiltInTasks /\ CatalogTier[task] = difficulty)
                \/ Routable(catalogue, liveIds) = {}
    IN  IF kept THEN base ELSE Adjusted(task, base, difficulty)

PolicyNext ==
    \/ \E g \in Goals : StartRegenerate(g)
    \/ Describe
    \/ \E seen \in SUBSET CustomTasks : FinishRegenerate(seen)
    \/ RegenerateFails
    \/ \E map \in EditedMaps : SetAssignments(map)
    \/ Upgrade
    \/ \E rows \in Catalogues, live \in LiveSets : RegistryChanges(rows, live)
    \/ GetEffective

PolicySpec == PolicyInit /\ [][PolicyNext]_PolicyVars

-----------------------------------------------------------------------------
(* Properties. *)

\* What the engine stores for a task could not be bettered in the pool it was
\* computed from (rankCandidates): when the tier offers a model that passes the
\* gates, the assigned one does; and no model of the tier with the gates passed,
\* the bar cleared and, for a premium task if there is one, measurements taken,
\* is cheaper by expected cost, or under the goal of quality is better.
GeneratedIsBest ==
    [][\A t \in PolicyTasks :
         (job # None /\ job' = None /\ stored'.version = CurrentVersion /\ stored' # stored
            /\ stored'.map[t] # None) =>
           LET w == CHOOSE r \in job.rows : r.id = stored'.map[t]
               tiered == {r \in job.rows : r.tier \in PoolTiers(TierOf(t), job.goal)}
               fit == {r \in tiered : PassesGates(t, r)}
               proven == TierOf(t) = "premium" /\ \E r \in fit : Measured(r)
               best == {r \in fit : ClearsBar(t, r, job.goal) /\ (proven => Measured(r))}
           IN  /\ tiered # {} => w \in tiered
               /\ fit # {} => w \in fit
               /\ best # {} => w \in best
               /\ \A r \in best : IF job.goal = "quality" THEN QualityScore(t, r) <= QualityScore(t, w)
                                  ELSE ExpectedCost(w, Tokens[t]) <= ExpectedCost(r, Tokens[t])]_PolicyVars

\* What a request is given can chat, is the model assigned to its task unless the
\* adjustment is on, and the adjustment never moves it to a model with a higher
\* input price, nor away from a live model that itself qualifies for the tier of
\* the instance to one it is expected to cost more on (resolveModel).
PickIsWarranted ==
    copy # None =>
      \A t \in PolicyTasks, d \in Tiers \cup {None}, adjust \in BOOLEAN :
        ResolveModel(t, d, adjust) # None =>
          LET base == RowOf(copy[t])
              pick == RowOf(ResolveModel(t, d, adjust))
              qualified == Contenders(t, Routable(catalogue, liveIds), d, "balanced")
          IN  /\ pick.chat
              /\ ~adjust => pick = base
              /\ pick # base =>
                   /\ HasPrice(base) /\ pick.input < base.input /\ pick.provider \in liveIds
                   /\ base \in qualified => ExpectedCost(pick, Default) <= ExpectedCost(base, Default)
=============================================================================
