------------------------------ MODULE Console --------------------------------
(* What administrators write: rules, governance settings, the routing mode,     *)
(* and whole configurations exported from one instance and imported into         *)
(* another, beside the demo fixture that comes and goes. A request reads the      *)
(* stored settings: the five-second copy they come from is ConfigCache's.         *)
(* src/server/src: api/routes/rules.js, api/routes/governance.js,                 *)
(* api/routes/ops.js, routing/ruleEngine.js, models/Settings.js, models/Rule.js,  *)
(* cloud/entitlements.js; src/server/scripts/demo-fixture.js.                     *)
EXTENDS Deployment, Integers, SequencesExt

CONSTANTS Desks,        \* administrators, each with one request at a time
          MaxWorks,     \* bound on the requests
          OtherFile     \* a configuration exported from another instance

VARIABLES settingsRow,  \* the stored Settings document
          ruleRows,     \* the stored rules
          capRows,      \* the stored budgets
          lastRow,      \* identifiers given so far
          file,         \* the export at hand
          desk,         \* the request of each administrator
          imports,      \* the imports begun, and what each has written
          inForce,      \* the import whose settings nobody has changed since
          erased,       \* rules that an administrator deleted
          works         \* requests begun

ConsoleVars == <<settingsRow, ruleRows, capRows, lastRow, file, desk, imports, inForce,
                 erased, works>>

\* The messages of maintenance that callers may see, and documents as a file holds them.
Messages == {"default", "soon"}
Modes == {"off", "guardrail", "ai"}
Maintenance == [enabled : BOOLEAN, message : Messages]
ExportedSettings ==
    [key : {"global"}, routingMode : Modes \cup {None}, autoRouting : BOOLEAN, piiMaskingEnabled : BOOLEAN,
     webhookUrl : {"hook", None}, maintenanceMode : Maintenance]
RuleDoc == [what : {"fixture", "manual"}, alias : {"team", "env", None}, enabled : BOOLEAN, isDemoFixture : BOOLEAN]
CapDoc == [of : {"app"}]
Exports == [settings : ExportedSettings, rules : Seq(RuleDoc), caps : Seq(CapDoc)]

\* The other instance exports what this one would, and no value is no message.
ASSUME ConsoleAssumption == OtherFile \in Exports /\ None \notin Messages \cup {" ", "ok"}

\* A plan has every feature, or those it names.
Plans == {[features |-> None], [features |-> {"webhooks"}]}
Feature(plan, key) == plan.features # None => key \in plan.features

\* The paths of the schema, one for each leaf, and a document as it is created.
SchemaPaths ==
    {<<"_id">>, <<"key">>, <<"routingMode">>, <<"autoRouting">>, <<"piiMaskingEnabled">>,
     <<"webhookUrl">>, <<"maintenanceMode", "enabled">>, <<"maintenanceMode", "message">>}
NewSettings ==
    [_id |-> "here", key |-> "global", routingMode |-> None, autoRouting |-> FALSE,
     piiMaskingEnabled |-> FALSE, webhookUrl |-> None,
     maintenanceMode |-> [enabled |-> FALSE, message |-> "default"]]

NoWork == [op |-> "none"]
RuleRow(id, what, alias, enabled, demo) ==
    [id |-> id, what |-> what, alias |-> alias, enabled |-> enabled, isDemoFixture |-> demo]

ConsoleInit ==
    /\ settingsRow = NewSettings
    /\ ruleRows = {RuleRow(1, "fixture", None, FALSE, TRUE)}
    /\ capRows = {}
    /\ lastRow = 1
    /\ file = OtherFile
    /\ desk = [d \in Desks |-> NoWork]
    /\ imports = <<>>
    /\ inForce = 0
    /\ erased = {}
    /\ works = 0

Sits(d) == desk[d] = NoWork /\ works < MaxWorks /\ works' = works + 1

-----------------------------------------------------------------------------
(* Rules. Each route is one operation of the store. *)

\* A key's alias is trimmed and in lower case; what cannot be one is no alias.
NormalizeTargetAlias(raw) ==
    CASE raw = "Team " -> "team" [] raw = "env" -> "env" [] OTHER -> None
RawAliases == {None, " ", "Team ", "env", "no such!"}

CreateRule(d) ==
    /\ Sits(d)
    /\ \E raw \in RawAliases, enabled \in BOOLEAN :
         ruleRows' = ruleRows \cup {RuleRow(lastRow + 1, "manual", NormalizeTargetAlias(raw), enabled, FALSE)}
    /\ lastRow' = lastRow + 1
    /\ UNCHANGED <<settingsRow, capRows, file, desk, imports, inForce, erased>>

\* Of a target only the key may be changed; a rule that is gone is not found.
UpdateRule(d) ==
    /\ Sits(d)
    /\ \E r \in ruleRows, raw \in RawAliases, enabled \in BOOLEAN :
         ruleRows' = (ruleRows \ {r})
                     \cup {[r EXCEPT !.enabled = enabled, !.alias = NormalizeTargetAlias(raw)]}
    /\ UNCHANGED <<settingsRow, capRows, lastRow, file, desk, imports, inForce, erased>>

DeleteRule(d) ==
    /\ Sits(d)
    /\ \E r \in ruleRows : ruleRows' = ruleRows \ {r} /\ erased' = erased \cup {r.id}
    /\ UNCHANGED <<settingsRow, capRows, lastRow, file, desk, imports, inForce>>

\* The fixture's rule is created again, and reset deletes whatever bears its mark.
SeedFixture(d) ==
    /\ Sits(d)
    /\ \A r \in ruleRows : ~r.isDemoFixture
    /\ ruleRows' = ruleRows \cup {RuleRow(lastRow + 1, "fixture", None, FALSE, TRUE)}
    /\ lastRow' = lastRow + 1
    /\ UNCHANGED <<settingsRow, capRows, file, desk, imports, inForce, erased>>

ResetFixture(d) ==
    /\ Sits(d)
    /\ ruleRows' = {r \in ruleRows : ~r.isDemoFixture}
    /\ UNCHANGED <<settingsRow, capRows, lastRow, file, desk, imports, inForce, erased>>

-----------------------------------------------------------------------------
(* Settings. *)

\* A change of governance settings names fields, each written by its path in one
\* update; fields of a feature the plan lacks are refused.
Changes ==
    [maintenance : [enabled : BOOLEAN, message : {None, " ", "soon"}] \cup {None},
     pii : BOOLEAN \cup {None}, webhook : {"hook", "absent"}]

\* A message that was not sent leaves the old one, and an empty one is the default.
Maintained(old, new) ==
    [enabled |-> new.enabled,
     message |-> CASE new.message = None -> old.message [] new.message = " " -> "default"
                   [] OTHER -> new.message]

\* Mutant: a group of fields is written whole.
Patched_Whole(s, c) ==
    [s EXCEPT !.maintenanceMode = IF c.maintenance = None THEN @
                ELSE [enabled |-> c.maintenance.enabled, message |-> c.maintenance.message]]

Patched(s, c) ==
    [s EXCEPT !.maintenanceMode = IF c.maintenance = None THEN @ ELSE Maintained(@, c.maintenance),
              !.piiMaskingEnabled = IF c.pii = None THEN @ ELSE c.pii,
              !.webhookUrl = IF c.webhook = "absent" THEN @ ELSE c.webhook]

Allowed(plan, c) ==
    /\ c.pii # None => Feature(plan, "guardrails_pii")
    /\ c.webhook # "absent" => Feature(plan, "webhooks")

PatchGovernance(d) ==
    /\ Sits(d)
    /\ \E plan \in Plans, c \in Changes :
         /\ Allowed(plan, c)
         /\ settingsRow' = Patched(settingsRow, c)
    /\ inForce' = 0
    /\ UNCHANGED <<ruleRows, capRows, lastRow, file, desk, imports, erased>>

\* The mode asked for, or off; the boolean it replaced is kept consistent and
\* read where no mode was ever stored.
ValidMode(mode) == IF mode \in Modes THEN mode ELSE "off"
WithMode(s, mode) == [s EXCEPT !.routingMode = ValidMode(mode), !.autoRouting = ValidMode(mode) # "off"]
RoutingMode(s) ==
    IF s.routingMode # None THEN s.routingMode ELSE IF s.autoRouting THEN "guardrail" ELSE "off"

PutMode(d) ==
    /\ Sits(d)
    /\ \E plan \in Plans, mode \in {"off", "ai", "other"} :
         /\ mode = "ai" => Feature(plan, "ai_routing")
         /\ desk' = [desk EXCEPT ![d] = [op |-> "mode", read |-> settingsRow, now |-> WithMode(settingsRow, mode)]]
    /\ UNCHANGED <<settingsRow, ruleRows, capRows, lastRow, file, imports, inForce, erased>>

\* save() writes the paths that were changed.
SaveMode(d) ==
    /\ desk[d].op = "mode"
    /\ settingsRow' = Saved(settingsRow, desk[d].read, desk[d].now)
    /\ inForce' = IF settingsRow' = settingsRow THEN inForce ELSE 0
    /\ desk' = [desk EXCEPT ![d] = NoWork]
    /\ UNCHANGED <<ruleRows, capRows, lastRow, file, imports, erased, works>>

-----------------------------------------------------------------------------
(* Export and import. *)

\* Rows leave without what identifies them here.
StripInternal(row) == [f \in DOMAIN row \ {"_id", "id"} |-> row[f]]
Listed(rows) ==
    LET order == SetToSeq(rows)
    IN  [i \in DOMAIN order |-> StripInternal(order[i])]

\* The three collections are read side by side.
BeginExport(d) ==
    /\ Sits(d)
    /\ desk' = [desk EXCEPT ![d] = [op |-> "export", left |-> {"settings", "rules", "caps"}, got |-> OtherFile]]
    /\ UNCHANGED <<settingsRow, ruleRows, capRows, lastRow, file, imports, inForce, erased>>

ReadPart(d) ==
    /\ desk[d].op = "export"
    /\ \E part \in desk[d].left :
         LET rows == CASE part = "settings" -> StripInternal(settingsRow)
                       [] part = "rules" -> Listed(ruleRows)
                       [] part = "caps" -> Listed(capRows)
             got == [desk[d].got EXCEPT ![part] = rows]
         IN  IF desk[d].left = {part}
             THEN file' = got /\ desk' = [desk EXCEPT ![d] = NoWork]
             ELSE /\ desk' = [desk EXCEPT ![d] = [op |-> "export", left |-> desk[d].left \ {part}, got |-> got]]
                  /\ file' = file
    /\ UNCHANGED <<settingsRow, ruleRows, capRows, lastRow, imports, inForce, erased, works>>

\* Of a file's settings the top-level fields of the schema are taken.
SettingsFields_Leaves == {path[1] : path \in {q \in SchemaPaths : Len(q) = 1}} \ {"_id", "__v", "key"}
SettingsFields == {path[1] : path \in SchemaPaths} \ {"_id", "__v", "key"}
PickSettingsFields(s) == [f \in SettingsFields \cap DOMAIN s |-> s[f]]

\* An import that has begun, and what it has written.
BeginImport(d) ==
    /\ Sits(d)
    /\ imports' = Append(imports, [file |-> file, settings |-> FALSE, rules |-> {}, caps |-> {}, answer |-> None])
    /\ desk' = [desk EXCEPT ![d] = [op |-> "settings", no |-> Len(imports) + 1]]
    /\ UNCHANGED <<settingsRow, ruleRows, capRows, lastRow, file, inForce, erased>>

ImportSettings(d) ==
    /\ desk[d].op = "settings"
    /\ LET picked == PickSettingsFields(imports[desk[d].no].file.settings)
       IN  settingsRow' = [f \in DOMAIN settingsRow |-> IF f \in DOMAIN picked THEN picked[f] ELSE settingsRow[f]]
    /\ imports' = [imports EXCEPT ![desk[d].no].settings = TRUE]
    /\ inForce' = desk[d].no
    /\ desk' = [desk EXCEPT ![d] = [op |-> "rules", no |-> desk[d].no]]
    /\ UNCHANGED <<ruleRows, capRows, lastRow, file, erased, works>>

\* A document in the store.
WithId(doc, id) == [f \in DOMAIN doc \cup {"id"} |-> IF f = "id" THEN id ELSE doc[f]]

\* insertMany writes in order: all, or when the store fails those before the one it
\* fails at. Rules of a file are nobody's fixture.
Inserted(docs, n) == {WithId(docs[i], lastRow + i) : i \in 1 .. n}

Unmarked_Kept(rule) == rule
Unmarked(rule) == [rule EXCEPT !.isDemoFixture = FALSE]

ImportRules(d) ==
    /\ desk[d].op = "rules"
    /\ LET no == desk[d].no
           docs == [i \in DOMAIN imports[no].file.rules |-> Unmarked(imports[no].file.rules[i])]
       IN  \E n \in 0 .. Len(docs), failed \in BOOLEAN :
             /\ n < Len(docs) => failed
             /\ ruleRows' = ruleRows \cup Inserted(docs, n)
             /\ lastRow' = lastRow + n
             /\ imports' = [imports EXCEPT ![no] = [imports[no] EXCEPT
                                !.rules = {r.id : r \in Inserted(docs, n)},
                                !.answer = IF failed THEN "failed" ELSE None]]
             /\ desk' = [desk EXCEPT ![d] = IF failed THEN NoWork ELSE [op |-> "caps", no |-> no]]
    /\ UNCHANGED <<settingsRow, capRows, file, inForce, erased, works>>

ImportCaps(d) ==
    /\ desk[d].op = "caps"
    /\ LET no == desk[d].no
           docs == imports[no].file.caps
       IN  \E n \in 0 .. Len(docs), failed \in BOOLEAN :
             /\ n < Len(docs) => failed
             /\ capRows' = capRows \cup Inserted(docs, n)
             /\ lastRow' = lastRow + n
             /\ imports' = [imports EXCEPT ![no] = [imports[no] EXCEPT
                                !.caps = {c.id : c \in Inserted(docs, n)},
                                !.answer = IF failed THEN "failed" ELSE "ok"]]
    /\ desk' = [desk EXCEPT ![d] = NoWork]
    /\ UNCHANGED <<settingsRow, ruleRows, file, inForce, erased, works>>

\* Or the store fails before anything of the step is written.
ImportFails(d) ==
    /\ desk[d].op = "settings"
    /\ imports' = [imports EXCEPT ![desk[d].no].answer = "failed"]
    /\ desk' = [desk EXCEPT ![d] = NoWork]
    /\ UNCHANGED <<settingsRow, ruleRows, capRows, lastRow, file, inForce, erased, works>>

Answered == (\A d \in Desks : desk[d] = NoWork) /\ works = MaxWorks /\ UNCHANGED ConsoleVars

ConsoleNext ==
    \/ \E d \in Desks :
         \/ CreateRule(d) \/ UpdateRule(d) \/ DeleteRule(d) \/ SeedFixture(d) \/ ResetFixture(d)
         \/ PatchGovernance(d) \/ PutMode(d) \/ SaveMode(d)
         \/ BeginExport(d) \/ ReadPart(d)
         \/ BeginImport(d) \/ ImportSettings(d) \/ ImportRules(d) \/ ImportCaps(d) \/ ImportFails(d)
    \/ Answered

ConsoleSpec == ConsoleInit /\ [][ConsoleNext]_ConsoleVars

-----------------------------------------------------------------------------
(* Which rule a request gets, and what the console says of a rule. *)

\* Rules in order: priority, then how many conditions, then age by identifier. The
\* inputs: conditions are sets of the fields that are set.
Specificity(rule) == Cardinality(rule.condition)

\* Mutant: a tie is left as the store happens to list it.
Before_Tie(a, b) ==
    \/ a.priority > b.priority
    \/ a.priority = b.priority /\ Specificity(a) >= Specificity(b)

Before(a, b) ==
    \/ a.priority > b.priority
    \/ a.priority = b.priority /\ Specificity(a) > Specificity(b)
    \/ a.priority = b.priority /\ Specificity(a) = Specificity(b) /\ a.id < b.id

\* The health of a target, from what the instance has connected: the worst that can
\* be said of it. A model that is not there has no price either.
Health(level, reason) == [level |-> level, reason |-> reason]

\* Mutant: the model is looked at before the connection.
RuleTargetHealth_ModelFirst(target, live, registry, aliases) ==
    CASE target.model \notin DOMAIN registry -> Health("warn", "model-unknown")
      [] registry[target.model] <= 0 -> Health("warn", "unpriced")
      [] target.provider \notin live -> Health("error", "provider-offline")
      [] target.alias # None /\ target.alias \notin aliases -> Health("warn", "alias-unknown")
      [] OTHER -> Health("ok", None)

RuleTargetHealth(target, live, registry, aliases) ==
    IF target.provider \notin live THEN Health("error", "provider-offline")
    ELSE IF target.alias # None /\ target.alias \notin aliases THEN Health("warn", "alias-unknown")
    ELSE IF target.model \notin DOMAIN registry THEN Health("warn", "model-unknown")
    ELSE IF registry[target.model] <= 0 THEN Health("warn", "unpriced")
    ELSE Health("ok", None)

\* A matching rule is passed over when its provider is not connected.
TargetServable(target, live) == target.provider \in live

-----------------------------------------------------------------------------
(* What is stored of the numbers a form sends: a number, text that is none, or    *)
(* nothing. A value that is no number is refused by the schema.                   *)

Raws == {[is |-> "nothing"], [is |-> "text"]} \cup [is : {"number"}, n : {-5, 0, 1, 50, 200}]
Truthy(raw) == raw.is = "text" \/ (raw.is = "number" /\ raw.n # 0)
OrElse(raw, default) == IF raw.is = "number" /\ raw.n # 0 THEN raw.n ELSE default
Larger(a, b) == IF a > b THEN a ELSE b
Smaller(a, b) == IF a > b THEN b ELSE a
Clamp(n, low, high) == Smaller(high, Larger(low, n))

\* Mutant: zero is as good as any other number.
Guardrail_Zero(raw) ==
    IF raw.is = "nothing" THEN {None} ELSE IF raw.is = "text" THEN {} ELSE {raw.n}

\* The highest number of tokens, and of calls a minute.
Guardrail(raw) ==
    IF ~Truthy(raw) THEN {None} ELSE IF raw.is = "text" THEN {} ELSE {Larger(1, raw.n)}
RetentionDays(raw) == LET n == Larger(0, OrElse(raw, 0)) IN IF n = 0 THEN None ELSE n
ErrorRateThreshold(raw) == Clamp(OrElse(raw, 5), 0, 100)
CacheThreshold(raw) == Clamp(OrElse(raw, 92), 0, 100)     \* in hundredths
CacheTtlMinutes(raw) == Larger(1, OrElse(raw, 60))
OtelSampleRatio(raw) == IF raw.is = "nothing" THEN None ELSE Clamp(OrElse(raw, 0), 0, 100)

\* What the page shows where nothing is stored.
ShownRetention(days, production) == IF days # None THEN days ELSE IF production THEN 30 ELSE 90
ShownRatio(ratio, configured) == IF ratio # None THEN ratio ELSE configured

-----------------------------------------------------------------------------
(* Properties. *)

\* An import writes settings, then rules, then budgets, and what a later step wrote
\* says that the earlier ones are whole; one that answers ok has written everything,
\* whatever else is written in between (ops.js insertMany calls).
ImportsAreOrdered ==
    \A i \in DOMAIN imports :
      LET a == imports[i]
          allRules == Cardinality(a.rules) = Len(a.file.rules)
      IN  /\ a.rules # {} => a.settings
          /\ a.caps # {} => allRules
          /\ a.answer = "ok" => a.settings /\ allRules /\ Cardinality(a.caps) = Len(a.file.caps)

\* A rule that came with a file stays until an administrator deletes it: no reset of
\* the demo fixture takes it, whatever mark it bore where it was exported.
ImportedRulesStay ==
    \A i \in DOMAIN imports : imports[i].rules \subseteq {r.id : r \in ruleRows} \cup erased

\* Until somebody changes a setting, an import leaves exactly the settings of its
\* file, groups of fields included (pickSettingsFields).
SettingsComeBack ==
    inForce # 0 => StripInternal(settingsRow) = imports[inForce].file.settings

\* However a group of settings was changed, the message that callers see is there.
MessageIsThere == settingsRow.maintenanceMode.message \notin {None, " "}

\* Precedence orders any two rules one way, so which rule serves a request does not
\* depend on the order of the store.
PrecedenceIsTotal ==
    LET some == [id : 1 .. 3, priority : {0, 1}, condition : SUBSET {"taskType", "workflow"} \ {{}}]
    IN  \A a \in some, b \in some :
          a.id # b.id => /\ Before(a, b) \/ Before(b, a)
                         /\ ~(Before(a, b) /\ Before(b, a))

\* The console calls a target broken exactly when requests pass the rule over, and
\* sound only when they are served on the key the rule names at a price that budgets see.
HealthIsHonest ==
    \A target \in [provider : {"p", "q"}, model : {"m", "n", "o"}, alias : {None, "team"}],
       live \in SUBSET {"p", "q"}, aliases \in SUBSET {"team"} :
      LET registry == [x \in {"m", "n"} |-> IF x = "m" THEN 1 ELSE 0]
          h == RuleTargetHealth(target, live, registry, aliases)
      IN  /\ h.level = "error" <=> ~TargetServable(target, live)
          /\ h.level = "ok" => /\ target.alias # None => target.alias \in aliases
                              /\ target.model = "m"

\* Whatever a form sends, what is stored is in the range its reader divides by, waits
\* for or compares with.
FieldsAreInRange ==
    \A raw \in Raws :
      /\ \A v \in Guardrail(raw) : v # None => v >= 1
      /\ RetentionDays(raw) # None => RetentionDays(raw) >= 1
      /\ ErrorRateThreshold(raw) \in 0 .. 100 /\ CacheThreshold(raw) \in 0 .. 100
      /\ CacheTtlMinutes(raw) >= 1
      /\ OtelSampleRatio(raw) # None => OtelSampleRatio(raw) \in 0 .. 100

\* What administrators write is kept, whole and in order, and read as it was meant.
ConsoleKeeps ==
    /\ ImportsAreOrdered /\ ImportedRulesStay /\ SettingsComeBack /\ MessageIsThere
    /\ PrecedenceIsTotal /\ HealthIsHonest /\ FieldsAreInRange
=============================================================================
