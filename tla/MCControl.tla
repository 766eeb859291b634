----------------------------- MODULE MCControl -----------------------------
(* Model checking of the components behind the dashboard and of the life of  *)
(* a process. They share no state, so one run explores each from its initial *)
(* states while the others rest: focus names the one that moves.             *)
EXTENDS ShadowEval, Alerts, ModelRegistry, ApiKeys, Currency, Lifecycle,
        Connections, SdkClient, Console, Audit, WrapSession

VARIABLE focus

Components == {"shadow", "alerts", "registry", "keys", "currency", "life",
               "credentials", "client", "console", "command"}

\* Clients of both libraries, and the calls made through them.
Settings(sdk, application, retries, token) ==
    [sdk |-> sdk, application |-> application, retries |-> retries, readToken |-> token]
OptionsDef == {Settings(sdk, "app", 1, "read") : sdk \in {"js", "python"}}
              \cup {Settings(sdk, None, -1, None) : sdk \in {"js", "python"}}
Say(form, role) == [form |-> form, role |-> role]
History ==
    <<Say("langchain", "system"), Say("plain", None), Say("langchain", "ai"), Say("text", None)>>
Order(method, messages, application, retries, complete) ==
    [method |-> method, messages |-> messages, application |-> application,
     retries |-> retries, complete |-> complete]
OrdersDef ==
    {Order("chat", messages, "absent", None, TRUE) : messages \in {History, <<Say("null", None)>>, <<Say("other", None)>>}}
    \cup {Order("stream", History, "own", n, TRUE) : n \in {None, -1, 2}}
    \cup {Order("invoke", History, "undefined", None, TRUE), Order("usage", <<>>, "absent", None, FALSE),
          Order("embeddings", <<>>, "absent", 0, FALSE)}
Answer(status, error, length) == [status |-> status, error |-> error, length |-> length]
RepliesDef ==
    {Answer(200, None, 49), Answer(400, "other", 0), Answer(429, "rate_limited", 0),
     Answer(429, "budget_exceeded", 0), Answer(502, "provider_error", 0),
     Answer(503, "demo_mode", 0)}

\* A configuration as another instance exports it.
OtherFileDef ==
    [settings |-> [key |-> "global", routingMode |-> "ai", autoRouting |-> TRUE,
                   piiMaskingEnabled |-> TRUE, webhookUrl |-> "hook",
                   maintenanceMode |-> [enabled |-> TRUE, message |-> "soon"]],
     rules |-> <<[what |-> "fixture", alias |-> "team", enabled |-> TRUE, isDemoFixture |-> TRUE],
                 [what |-> "manual", alias |-> None, enabled |-> TRUE, isDemoFixture |-> FALSE]>>,
     caps |-> <<[of |-> "app"]>>]

\* Processes of arbr wrap: one may wrap Codex, the other Cursor too.
AgentsOfDef ==
    [w \in Wraps |-> IF w = CHOOSE v \in Wraps : TRUE THEN {"codex"} ELSE {"codex", "cursor"}]

\* Models of two providers, one of them without a lighter model, and lines of a log: a task in
\* either case, an alias, a model nobody knows, cells that are empty or absent.
Priced(provider, tier, input, output) ==
    [provider |-> provider, tier |-> tier, input |-> input, output |-> output]
PriceTableDef ==
    [m \in {"big", "small", "lone"} |->
       CASE m = "big" -> Priced("p", "premium", 3, 4) [] m = "small" -> Priced("p", "light", 1, 2)
         [] OTHER -> Priced("q", "premium", 1, 1)]
LightTargetsDef == [p |-> "small"]
SmallLettersDef == [FAQ |-> "faq"]
Logged(task, model, asked, provider, in, out, cost) ==
    [taskType |-> task, model |-> model, modelRequested |-> asked, provider |-> provider,
     promptTokens |-> in, completionTokens |-> out, totalCost |-> cost]
LogLinesDef ==
    {Logged("faq", "big", None, "p", 1, 1, 7), Logged("FAQ", None, "big", None, 2, 0, 6),
     Logged("faq", "big", "big", "p", 1, None, 3), Logged("chat", "big", None, "p", 1, 1, 7),
     Logged(None, "lone", None, Blank, 1, 1, 2), Logged("faq", "ghost", None, None, None, None, None),
     Logged("faq", "big", Blank, "p", 2, 2, 1)}

AllVars == <<ShadowVars, AlertVars, RegistryVars, KeyVars, FxVars, LifeVars,
             ConnVars, SdkVars, ConsoleVars, WrapVars, focus>>

ControlInit ==
    /\ focus \in Components
    /\ ShadowInit /\ AlertInit /\ RegistryInit /\ KeysInit /\ FxInit
    /\ LifeInit /\ ConnInit /\ SdkInit /\ ConsoleInit /\ WrapInit
    /\ written.exists => focus = "command"

ControlNext ==
    \/ /\ focus = "shadow" /\ ShadowNext
       /\ UNCHANGED <<AlertVars, RegistryVars, KeyVars, FxVars, LifeVars, ConnVars, SdkVars,
                      ConsoleVars, WrapVars, focus>>
    \/ /\ focus = "alerts" /\ AlertNext
       /\ UNCHANGED <<ShadowVars, RegistryVars, KeyVars, FxVars, LifeVars, ConnVars, SdkVars,
                      ConsoleVars, WrapVars, focus>>
    \/ /\ focus = "registry" /\ RegistryNext
       /\ UNCHANGED <<ShadowVars, AlertVars, KeyVars, FxVars, LifeVars, ConnVars, SdkVars,
                      ConsoleVars, WrapVars, focus>>
    \/ /\ focus = "keys" /\ KeysNext
       /\ UNCHANGED <<ShadowVars, AlertVars, RegistryVars, FxVars, LifeVars, ConnVars, SdkVars,
                      ConsoleVars, WrapVars, focus>>
    \/ /\ focus = "currency" /\ FxNext
       /\ UNCHANGED <<ShadowVars, AlertVars, RegistryVars, KeyVars, LifeVars, ConnVars, SdkVars,
                      ConsoleVars, WrapVars, focus>>
    \/ /\ focus = "life" /\ LifeNext
       /\ UNCHANGED <<ShadowVars, AlertVars, RegistryVars, KeyVars, FxVars, ConnVars, SdkVars,
                      ConsoleVars, WrapVars, focus>>
    \/ /\ focus = "credentials" /\ ConnNext
       /\ UNCHANGED <<ShadowVars, AlertVars, RegistryVars, KeyVars, FxVars, LifeVars, SdkVars,
                      ConsoleVars, WrapVars, focus>>
    \/ /\ focus = "client" /\ SdkNext
       /\ UNCHANGED <<ShadowVars, AlertVars, RegistryVars, KeyVars, FxVars, LifeVars, ConnVars,
                      ConsoleVars, WrapVars, focus>>
    \/ /\ focus = "console" /\ ConsoleNext
       /\ UNCHANGED <<ShadowVars, AlertVars, RegistryVars, KeyVars, FxVars, LifeVars, ConnVars,
                      SdkVars, WrapVars, focus>>
    \/ /\ focus = "command" /\ WrapNext
       /\ UNCHANGED <<ShadowVars, AlertVars, RegistryVars, KeyVars, FxVars, LifeVars, ConnVars,
                      SdkVars, ConsoleVars, focus>>

(* Fairness. The guards keep a component that rests out of it. *)

\* Thirty seconds pass, and the store, the candidate and the judge answer.
ShadowFairness ==
    /\ \A p \in Processes : WF_ShadowVars(focus = "shadow" /\ StaleCampaign(p))
    /\ \A k \in Mirrors : WF_ShadowVars(focus = "shadow" /\ MirrorStep(k))

\* Calls of a breached cap go on coming, the store and the endpoint answer, and the TTL
\* index is applied every minute.
AlertFairness ==
    /\ \A n \in Notices : /\ WF_AlertVars(focus = "alerts" /\ NoticeStep(n))
                          /\ WF_AlertVars(focus = "alerts" /\ Breach(n))
    /\ WF_AlertVars(focus = "alerts" /\ ClaimExpires)

\* The timers go on, and the store answers.
RegistryFairness ==
    /\ \A p \in Processes : /\ WF_RegistryVars(focus = "registry" /\ Load(p))
                            /\ WF_RegistryVars(focus = "registry" /\ Loaded(p))
    /\ WF_RegistryVars(focus = "registry" /\ SyncStep)
    /\ \A a \in Admins : WF_RegistryVars(focus = "registry" /\ AdminStep(a))

\* The store answers requests, and five seconds pass.
KeysFairness ==
    /\ \A p \in Processes : WF_KeyVars(focus = "keys" /\ KnownExpire(p))
    /\ \A b \in Bearers : WF_KeyVars(focus = "keys" /\ BearerStep(b))
    /\ \A q \in Rotations : WF_KeyVars(focus = "keys" /\ RotationStep(q))

\* The timer goes on, and of the refreshes that are tried again and again one gets a rate.
FxFairness ==
    /\ \A f \in Fetches : WF_FxVars(focus = "currency" /\ (Reset(f) \/ Refresh(f)))
    /\ SF_FxVars(focus = "currency" /\ \E f \in Fetches : Store(f))

\* Timers fire and records are written; time passes and the balancer polls however busy
\* the process is.
LifeFairness ==
    /\ WF_LifeVars(focus = "life" /\ Shutdown)
    /\ WF_LifeVars(focus = "life" /\ TimePasses)
    /\ WF_LifeVars(focus = "life" /\ Poll)
    /\ WF_LifeVars(focus = "life" /\ \E r \in Requests : Record(r))
    /\ WF_LifeVars(focus = "life" /\ \E s \in Sessions : RecordSession(s))

\* Calls and changes go on, and three seconds pass.
ConnFairness ==
    /\ \A c \in Callers : WF_ConnVars(focus = "credentials" /\ CallStep(c))
    /\ \A o \in Owners : WF_ConnVars(focus = "credentials" /\ ChangeStep(o))
    /\ \A p \in Processes : WF_ConnVars(focus = "credentials" /\ ViewExpires(p))

\* Timers and sleeps end, and a body that has begun to arrive does.
SdkFairness ==
    /\ WF_SdkVars(focus = "client" /\ (JsStart \/ PyStart \/ JsNoAttempt \/ PyNoAttempt))
    /\ WF_SdkVars(focus = "client" /\ \E code \in {"timeout", "network", "aborted"} : JsFails(code) \/ PyFails(code))
    /\ WF_SdkVars(focus = "client" /\ \E parsed \in BOOLEAN : JsBodyRead(parsed))
    /\ WF_SdkVars(focus = "client" /\ Backoff) /\ WF_SdkVars(focus = "client" /\ NextChunk)

ControlSpec ==
    /\ ControlInit /\ [][ControlNext]_AllVars
    /\ ShadowFairness /\ AlertFairness /\ RegistryFairness
    /\ KeysFairness /\ FxFairness /\ LifeFairness /\ ConnFairness /\ SdkFairness

\* The states of the components are those the code can be in.
ControlTypeOK == ShadowTypeOK /\ AlertTypeOK /\ KeysTypeOK /\ ConnTypeOK /\ WrapTypeOK

\* A client library keeps its contract: attempts, signal, stream, and both libraries alike.
LibrariesBehave ==
    AttemptsAreWarranted /\ NothingAfterTheSignal /\ StreamIsWhole /\ ClientsAgree

\* The command line keeps its own: the user's configuration comes back, a report counts each
\* call once, and whatever log is audited its groups add up and its savings are real. (No
\* session changes what an audit computes: it is looked at before the first begins.)
CommandLineBehaves ==
    /\ SessionsBehave
    /\ (focus = "command" /\ (\A w \in Wraps : wrap[w] = NotWrapped)) => AuditIsSound

\* What users run of this system themselves behaves: the libraries and the command line.
ClientsBehave == LibrariesBehave /\ CommandLineBehaves

\* What administrators and jobs write is kept: rows of the registry, rules, budgets, settings.
DataIsKept == RowsAreKept /\ ConsoleKeeps

\* What must happen in the end does: alerts arrive, a stopped campaign stops everywhere, every
\* process learns of models, revoked keys and credentials, the currency gets its rate, a
\* signal ends the process, and a call through a client library ends.
EverybodyLearns ==
    /\ NoticeArrives /\ StoppedIsStopped /\ CopiesFollow /\ RevokedIsForgotten
    /\ ViewsFollow /\ RateArrives /\ SignalEnds /\ CallSettles
=============================================================================
