--------------------------- MODULE CapabilitySync ----------------------------
(* Capability scores from two leaderboards. LiveBench measures every          *)
(* dimension of a model, the Arena only the general one; each sync downloads  *)
(* a table, matches models by name, writes their rows one after the other and *)
(* its own date last. One request runs both.                                  *)
(* src/server/src: livebench/sync.js, livebench/normalize.js, lmsys/sync.js,  *)
(* api/routes/sync.js.                                                        *)
EXTENDS Deployment, SequencesExt, FiniteSetsExt

CONSTANTS BenchTables,     \* LiveBench by version: rows [key, name, scores] in order
          ArenaTables,    \* the Arena by version: rows [key, name, elo] in order
          RatedModels,      \* the models of the registry in their order, by normalised id
          Pulls       \* requests

\* The tables have a first version, and rows in order; models have an order.
ASSUME ScoreAssumption ==
    /\ BenchTables \in Seq(Range(BenchTables)) /\ BenchTables # <<>>
    /\ \A v \in DOMAIN BenchTables : BenchTables[v] \in Seq(Range(BenchTables[v]))
    /\ RatedModels \in Seq(Range(RatedModels))

VARIABLES scores,     \* what the row of a model holds of both
          dated,      \* the version each sync has left in Settings, 0 for none
          published,  \* the newest version of each leaderboard
          pull        \* what a request is at

ScoreVars == <<scores, dated, published, pull>>

Sources == {"livebench", "lmsys"}
NotRun == [source \in Sources |-> 0]
NoPull == [stage |-> "idle", todo |-> <<>>, version |-> 0, left |-> {},
           done |-> NotRun, both |-> FALSE, alone |-> FALSE]
\* Version 0 for what no table has given yet.
Unmeasured == [version |-> 0, name |-> None]
Unscored == [measured |-> Unmeasured, general |-> [source |-> None, version |-> 0, score |-> None]]

ScoresInit ==
    /\ scores = [m \in Range(RatedModels) |-> Unscored]
    /\ dated = NotRun /\ published = [source \in Sources |-> 1]
    /\ pull = [s \in Pulls |-> NoPull]

-----------------------------------------------------------------------------
(* Tables. A row of LiveBench scores groups of tasks from 0 to 100; a group    *)
(* without a score has none, and keys are names without prefix, date or effort. *)

Average(numbers) ==
    LET given == SelectSeq(numbers, LAMBDA n : n > 0)
    IN  IF given = <<>> THEN 0 ELSE FoldSeq(LAMBDA a, b : a + b, 0, given) \div Len(given)

ToCapabilities(row) ==
    [coding    |-> row.code,
     reasoning |-> (7 * row.logic + 3 * row.math) \div 10,
     writing   |-> row.text,
     analysis  |-> (row.tables + row.logic) \div 2,
     language  |-> row.words,
     data      |-> row.tables,
     general   |-> Average(<<row.code, row.logic, row.math, row.text, row.words, row.tables>>)]

Filled(row) ==
    LET caps == ToCapabilities(row.scores) IN Cardinality({d \in DOMAIN caps : caps[d] > 0})

\* Of the rows of one key the first of those with the most fields; a key keeps the
\* place of its first row.
\* Mutant: the last row of a key, which may be a subtotal.
BenchIndex_Last(rows) ==
    LET Keys == {rows[i].key : i \in DOMAIN rows}
        BestOf(k) == CHOOSE i \in DOMAIN rows :
                        /\ rows[i].key = k
                        /\ \A j \in DOMAIN rows : rows[j].key = k => j <= i
    IN  [k \in Keys |-> [row |-> rows[BestOf(k)], place |-> Min({i \in DOMAIN rows : rows[i].key = k})]]
BenchIndex(rows) ==
    LET Keys == {rows[i].key : i \in DOMAIN rows}
        BestOf(k) == CHOOSE i \in DOMAIN rows :
                        /\ rows[i].key = k
                        /\ \A j \in DOMAIN rows : rows[j].key = k =>
                              \/ Filled(rows[j]) < Filled(rows[i])
                              \/ (Filled(rows[j]) = Filled(rows[i]) /\ j >= i)
    IN  [k \in Keys |-> [row |-> rows[BestOf(k)], place |-> Min({i \in DOMAIN rows : rows[i].key = k})]]

\* Of the Arena's the highest rating.
ArenaIndex(rows) ==
    LET Keys == {rows[i].key : i \in DOMAIN rows}
        BestOf(k) == CHOOSE i \in DOMAIN rows :
                        /\ rows[i].key = k
                        /\ \A j \in DOMAIN rows : rows[j].key = k =>
                              rows[j].elo < rows[i].elo \/ (rows[j].elo = rows[i].elo /\ j >= i)
    IN  [k \in Keys |-> [row |-> rows[BestOf(k)], place |-> Min({i \in DOMAIN rows : rows[i].key = k})]]

PrefixMatch(a, b) == IsPrefix(a, b) \/ IsPrefix(b, a)

\* The exact key, or the first that begins the other; None when there is none.
\* Mutant: the first key that overlaps, whether or not the exact one is listed.
EntryOf_Overlap(index, m) ==
    LET near == {k \in DOMAIN index : PrefixMatch(m, k)}
    IN  IF near # {} THEN index[CHOOSE k \in near : \A o \in near : index[k].place <= index[o].place].row
        ELSE None
BoardEntryOf(index, m) ==
    LET near == {k \in DOMAIN index : PrefixMatch(m, k)}
    IN  CASE m \in DOMAIN index -> index[m].row
          [] m \notin DOMAIN index /\ near # {} ->
                index[CHOOSE k \in near : \A o \in near : index[k].place <= index[o].place].row
          [] OTHER -> None

Found(source, version, m) ==
    IF source = "livebench" THEN BoardEntryOf(BenchIndex(BenchTables[version]), m)
    ELSE BoardEntryOf(ArenaIndex(ArenaTables[version]), m)
Matched(source, version) == {m \in Range(RatedModels) : Found(source, version, m) # None}
FirstOf(models) == RatedModels[Min({i \in DOMAIN RatedModels : RatedModels[i] \in models})]

\* 1000 is nothing and 1500 everything, in hundredths.
General(elo) == IF elo < 1000 THEN 0 ELSE IF elo > 1500 THEN 100 ELSE (elo - 1000) \div 5

-----------------------------------------------------------------------------
(* A request. *)

\* Mutant: the Arena first, so that LiveBench overwrites it.
Both_Reversed == <<"lmsys", "livebench">>
Both == <<"livebench", "lmsys">>

Start(s, todo) ==
    /\ pull[s].stage = "idle"
    /\ LET alone == \A o \in Pulls : pull[o].stage = "idle"
       IN  pull' = [o \in Pulls |->
                      IF o = s THEN [NoPull EXCEPT !.stage = "fetching", !.todo = todo,
                                                   !.both = Len(todo) > 1, !.alone = alone]
                      ELSE [pull[o] EXCEPT !.alone = FALSE]]
    /\ UNCHANGED <<scores, dated, published>>

\* POST /livebench/sync, /lmsys/sync and /benchmarks/sync.
StartOne(s) == \E source \in Sources : Start(s, <<source>>)
StartBoth(s) == Start(s, Both)

Download(s, source, version) ==
    /\ pull[s].stage = "fetching" /\ Head(pull[s].todo) = source
    /\ pull' = [pull EXCEPT ![s].stage = "writing", ![s].version = version,
                            ![s].left = Matched(source, version)]
    /\ UNCHANGED <<scores, dated, published>>

\* The newest table of LiveBench or, when it cannot be had, one of the dates known.
FetchCsv(s) == \E version \in 1..published["livebench"] : Download(s, "livebench", version)
\* All pages of the newest date.
FetchLeaderboard(s) == Download(s, "lmsys", published["lmsys"])

\* The request for both goes on with what is left; one sync on its own is an error.
Fails(s) ==
    /\ pull[s].stage \in {"fetching", "writing"}
    /\ LET now == pull[s] IN
       pull' = [pull EXCEPT ![s] =
                  IF now.both THEN [now EXCEPT !.stage = IF Len(now.todo) > 1 THEN "fetching" ELSE "loading",
                                               !.todo = Tail(now.todo), !.left = {}]
                  ELSE NoPull]
    /\ UNCHANGED <<scores, dated, published>>

\* Mutant: the Arena writes the capabilities as a whole.
Written_Whole(row, source, version, m) ==
    IF source = "livebench"
    THEN [measured |-> [version |-> version, name |-> Found(source, version, m).name],
          general |-> [source |-> source, version |-> version,
                       score |-> ToCapabilities(Found(source, version, m).scores).general]]
    ELSE [measured |-> Unmeasured,
          general |-> [source |-> source, version |-> version, score |-> General(Found(source, version, m).elo)]]
Written(row, source, version, m) ==
    IF source = "livebench"
    THEN [measured |-> [version |-> version, name |-> Found(source, version, m).name],
          general |-> [source |-> source, version |-> version,
                       score |-> ToCapabilities(Found(source, version, m).scores).general]]
    ELSE [row EXCEPT !.general = [source |-> source, version |-> version,
                                  score |-> General(Found(source, version, m).elo)]]

WriteRow(s) ==
    /\ pull[s].stage = "writing" /\ pull[s].left # {}
    /\ LET m == FirstOf(pull[s].left) IN
       /\ scores' = [scores EXCEPT ![m] = Written(scores[m], Head(pull[s].todo), pull[s].version, m)]
       /\ pull' = [pull EXCEPT ![s].left = @ \ {m}]
    /\ UNCHANGED <<dated, published>>

WriteDate(s) ==
    /\ pull[s].stage = "writing" /\ pull[s].left = {}
    /\ LET source == Head(pull[s].todo) IN
       /\ dated' = [dated EXCEPT ![source] = pull[s].version]
       /\ pull' = [pull EXCEPT ![s].done[source] = pull[s].version, ![s].todo = Tail(@),
                               ![s].stage = IF Len(pull[s].todo) > 1 THEN "fetching" ELSE "loading"]
    /\ UNCHANGED <<scores, published>>

\* pricing.reload and aiPolicy.invalidate: the process reads the rows again (ModelRegistry).
Reload(s) ==
    /\ pull[s].stage = "loading"
    /\ pull' = [pull EXCEPT ![s] = NoPull]
    /\ UNCHANGED <<scores, dated, published>>

Publish(source) ==
    /\ published[source] < Cardinality(IF source = "livebench" THEN DOMAIN BenchTables ELSE DOMAIN ArenaTables)
    /\ published' = [published EXCEPT ![source] = @ + 1]
    /\ UNCHANGED <<scores, dated, pull>>

SyncStep(s) ==
    FetchCsv(s) \/ FetchLeaderboard(s) \/ Fails(s) \/ WriteRow(s) \/ WriteDate(s) \/ Reload(s)
ScoresNext ==
    \/ \E s \in Pulls : StartOne(s) \/ StartBoth(s) \/ SyncStep(s)
    \/ \E source \in Sources : Publish(source)
ScoresSpec == ScoresInit /\ [][ScoresNext]_ScoreVars
-----------------------------------------------------------------------------
(* Properties. *)

\* A sync that no other has met leaves what its date says: every model its table
\* knows has that table's scores, and where both have run the general score is the
\* Arena's (lmsys/sync.js) without a loss of what LiveBench measured.
AloneIsExact ==
    \A s \in Pulls : (pull[s].stage = "loading" /\ pull[s].alone) =>
        LET bench == pull[s].done["livebench"]
            arena == pull[s].done["lmsys"]
        IN  /\ bench # 0 => /\ dated["livebench"] = bench
                            /\ \A m \in Matched("livebench", bench) :
                                  /\ scores[m].measured.version = bench
                                  /\ (arena # 0 /\ m \in Matched("lmsys", arena)) =>
                                        scores[m].general.source = "lmsys"
            /\ arena # 0 => /\ dated["lmsys"] = arena
                            /\ \A m \in Matched("lmsys", arena) :
                                  /\ scores[m].general.source = "lmsys"
                                  /\ scores[m].general.version = arena

\* A model that a table lists by its own name never gets a relative's scores, and
\* never those of a subtotal, in whatever order the rows come.
OwnScoresFirst ==
    \A m \in Range(RatedModels) : scores[m].measured.version # 0 =>
        LET rows == BenchTables[scores[m].measured.version]
            own  == {i \in DOMAIN rows : rows[i].key = m}
        IN  own # {} => \E i \in own : /\ rows[i].name = scores[m].measured.name
                                       /\ \A j \in own : Filled(rows[j]) <= Filled(rows[i])

ScoresHold == AloneIsExact /\ OwnScoresFirst
=============================================================================

