------------------------------- MODULE Routing -------------------------------
(* One request on its way through the gateway: what decides the model and the *)
(* key it is served with, the checks every later change of model must pass,   *)
(* and what is put on record about it. Rules, policies, caps and the answers  *)
(* of providers are data: each step takes any outcome they can have.          *)
(* src/server/src: gateway/handler.js, gateway/openaiCompat.js,               *)
(* routing/guards.js, ruleEngine.js, aiPolicy.js, autoRouter.js,              *)
(* classify/classifier.js, providers/llm-router, providers/router.js.         *)
EXTENDS Deployment

CONSTANTS Models,         \* model ids, those outside the registry included
          Registered,     \* the models of the registry
          ProviderOf,     \* the provider the registry names for a model
          Vision, Priced, \* models known to take images, models with a price
          Light,          \* light target of a provider, or None
          Builtin,        \* built-in default model of a provider, or None
          Connections,    \* what providers/connections.js may find effective, and
                          \* the configured scope of fallbacks
          Applications,   \* key and application settings a request may carry
          Bodies,         \* what a client may ask for, and at which door
          Aliases,        \* names of keys a rule may pin
          Compatible,     \* providers with an OpenAI-compatible endpoint
          ToolModels      \* native models that can be bound to tools

VARIABLES request,   \* the request under way
          record     \* what was logged about it

RoutingVars == <<request, record>>

Providers == DOMAIN Light

\* The registry, the connections and the settings name models, providers and keys; the
\* default key of a provider is one of its keys.
ASSUME RoutingAssumption ==
    /\ Registered \subseteq Models
    /\ ProviderOf \in [Registered -> Providers]
    /\ Light \in [Providers -> Models \cup {None}] /\ Builtin \in [Providers -> Models \cup {None}]
    /\ \A b \in Bodies : b.model \in Models \cup {None} /\ b.image \in BOOLEAN
    /\ \A a \in Applications : a.allowed \subseteq Models /\ a.optOut \subseteq Models
    /\ \A e \in Connections :
          /\ e.provider \in Providers /\ e.model \in Models /\ DOMAIN e.keys \subseteq Providers
          /\ \A p \in DOMAIN e.keys : /\ e.keys[p].default \in e.keys[p].aliases
                                      /\ e.keys[p].aliases \subseteq Aliases

On(p, m) == [provider |-> p, model |-> m]

NoRecord == [status |-> "none"]
NoRoute == [stage |-> "idle"]

LiveFor(q) == DOMAIN q.eff.keys     \* eff.liveIds
Asked(q) == q.body.model # None

RoutingInit == request = NoRoute /\ record = NoRecord

-----------------------------------------------------------------------------
(* The model Arbr starts from. *)

\* resolveDefault: a live provider hint is honoured, with its built-in model;
\* else the default provider and model.
ResolveDefault(q) ==
    LET hinted == q.body.hint \in LiveFor(q)
        p == IF hinted THEN q.body.hint ELSE q.eff.provider
    IN  IF p = q.eff.provider THEN On(p, q.eff.model)
        ELSE IF Builtin[p] # None THEN On(p, Builtin[p]) ELSE On(p, q.eff.model)

\* resolveExplicit: the provider of a pinned model is the hint, or the registry's.
PinProvider(q) ==
    IF q.body.hint # None THEN q.body.hint
    ELSE IF q.body.model \in Registered THEN ProviderOf[q.body.model] ELSE None

\* Ingress: the request is read together with the settings of its key and its
\* application and with the connections, none of which is read again.
Receive(body, app, eff) ==
    /\ request.stage = "idle"
    /\ request' = [stage |-> "pin", body |-> body, app |-> app, eff |-> eff]
    /\ record' = NoRecord

\* Maintenance, a kill switch, no provider, an injection rule: nothing is routed.
TurnAway ==
    /\ request.stage = "pin"
    /\ request' = NoRoute /\ UNCHANGED record

\* A pin that cannot be honoured is refused: it is never replaced.
RefusePin ==
    /\ request.stage = "pin" /\ Asked(request)
    /\ PinProvider(request) \notin LiveFor(request)
    /\ request' = NoRoute /\ UNCHANGED record

Routed(q, served, decision, rulePin, gate) ==
    [stage |-> IF decision = "explicit" THEN "allowed" ELSE "canary",
     body |-> q.body, app |-> q.app, eff |-> q.eff, served |-> served,
     decision |-> decision, pin |-> rulePin, gate |-> gate,
     gated |-> served.model, said |-> served.model, flagged |-> FALSE]

HonourPin ==
    /\ request.stage = "pin" /\ Asked(request)
    /\ PinProvider(request) \in LiveFor(request)
    /\ request' = Routed(request, On(PinProvider(request), request.body.model),
                         "explicit", None, None)
    /\ UNCHANGED record

\* The default of the key, when its provider is live, stands before the global one.
AppDefault(q) ==
    IF q.app.default \in Registered /\ ProviderOf[q.app.default] \in LiveFor(q)
    THEN On(ProviderOf[q.app.default], q.app.default) ELSE ResolveDefault(q)

PassThrough ==
    /\ request.stage = "pin" /\ ~Asked(request)
    /\ request' = Routed(request, AppDefault(request), "passthrough", None, None)
    /\ UNCHANGED record

\* The first matching rule whose provider is live: rules to others are skipped.
FindRoute(target, alias, quality) ==
    /\ request.stage = "pin" /\ ~Asked(request)
    /\ target.provider \in LiveFor(request)
    /\ request' = Routed(request, target, "rule", alias, quality)
    /\ UNCHANGED record

\* Mode "ai": the assigned chat model of the registry, or one of its tier.
FollowPolicy(m) ==
    /\ request.stage = "pin" /\ ~Asked(request)
    /\ ProviderOf[m] \in LiveFor(request)
    /\ request' = Routed(request, On(ProviderOf[m], m), "ai", None, None)
    /\ UNCHANGED record

\* Mode "guardrail": the light model of the provider of the default model.
SelectAutoRoute ==
    /\ request.stage = "pin" /\ ~Asked(request)
    /\ LET m == AppDefault(request).model IN
         /\ m \in Registered
         /\ Light[ProviderOf[m]] \in Registered \ {m}
         /\ request' = Routed(request, On(ProviderOf[m], Light[ProviderOf[m]]),
                              "auto", None, None)
    /\ UNCHANGED record

-----------------------------------------------------------------------------
(* What may move the request to another model. *)

\* Mutant: the change is made and nothing is told of it.
Override_Untold(q, served, decision) ==
    [q EXCEPT !.served = served, !.decision = decision]

\* pushOverride: the record tells every change of model, the last one last.
Override(q, served, decision) ==
    [q EXCEPT !.served = served, !.decision = decision, !.said = served.model]

\* A canary diverts auto traffic to its candidate, on a live provider. Its
\* candidate has passed an offline evaluation.
Divert(m) ==
    /\ request.stage = "canary"
    /\ ProviderOf[m] \in LiveFor(request)
    /\ request' = [Override(request, On(ProviderOf[m], m), "canary")
                     EXCEPT !.stage = "allowed", !.gate = "passed", !.gated = m]
    /\ UNCHANGED record

NotDiverted ==
    /\ request.stage = "canary"
    /\ request' = [request EXCEPT !.stage = "allowed"]
    /\ UNCHANGED record

IsAllowed(q, m) == q.app.allowed = {} \/ m \in q.app.allowed

\* A model the key may not reach gives way to the default of the key, or the
\* request is refused.
CheckAllowed ==
    /\ request.stage = "allowed"
    /\ LET d == request.app.default IN
         IF IsAllowed(request, request.served.model)
         THEN request' = [request EXCEPT !.stage = "optout"]
         ELSE IF d \in Registered /\ ProviderOf[d] \in LiveFor(request)
         THEN request' = [Override(request, On(ProviderOf[d], d), "passthrough")
                            EXCEPT !.stage = "optout"]
         ELSE request' = NoRoute
    /\ UNCHANGED record

\* Mutant: the model is not compared with the allowed ones again.
CheckOptOut_Unflagged ==
    /\ request.stage = "optout"
    /\ LET d == ResolveDefault(request)
           out == request.app.optOut
           q == IF request.served.model \in out /\ d.model \notin out
                THEN Override(request, d, "passthrough") ELSE request
       IN  request' = [q EXCEPT !.stage = "vision"]
    /\ UNCHANGED record

\* A model the application opted out of gives way to the default, unless that is
\* opted out too; a model the key may not reach is then flagged.
CheckOptOut ==
    /\ request.stage = "optout"
    /\ LET d == ResolveDefault(request)
           out == request.app.optOut
           q == IF request.served.model \in out /\ d.model \notin out
                THEN Override(request, d, "passthrough") ELSE request
       IN  request' = [q EXCEPT !.stage = "vision",
                                !.flagged = ~IsAllowed(q, q.served.model)]
    /\ UNCHANGED record

\* credentialFor: the key an alias names, or the default key of the provider.
CredentialFor(eff, p, alias) ==
    IF p \notin DOMAIN eff.keys THEN None
    ELSE IF alias \in eff.keys[p].aliases THEN alias ELSE eff.keys[p].default

\* applyCredentialAlias: the rule's key before the application's, for the provider
\* that serves.
ApplyAlias(q, rulePin) ==
    LET pinned == IF rulePin # None THEN rulePin ELSE q.app.pins[q.served.provider]
    IN  CredentialFor(q.eff, q.served.provider, pinned)

\* The end of resolveRoute: an image never goes to a model Arbr chose and does not
\* know to see; the gate and the key of a rule hold only if the rule still decides.
Settle ==
    /\ request.stage = "vision"
    /\ IF ~Asked(request) /\ request.body.image /\ request.served.model \notin Vision
       THEN request' = NoRoute
       ELSE LET gate == IF request.decision \in {"rule", "canary"}
                        THEN request.gate ELSE None
                pin == IF request.decision = "rule" THEN request.pin ELSE None
            IN  request' = [request EXCEPT !.stage = "budget", !.gate = gate,
                              !.pin = ApplyAlias(request, pin)]
    /\ UNCHANGED record

-----------------------------------------------------------------------------
(* After resolveRoute: the budget, then the provider. *)

\* Mutant: images are not looked at.
CheckModel_Blind(q, m) == IsAllowed(q, m) /\ m \notin q.app.optOut

\* checkModel: what a model taken automatically must satisfy.
CheckModel(q, m) ==
    IsAllowed(q, m) /\ m \notin q.app.optOut /\ (q.body.image => m \in Vision)

WithinBudget ==
    /\ request.stage = "budget"
    /\ request' = [request EXCEPT !.stage = "invoke"]
    /\ UNCHANGED record

Block ==
    /\ request.stage = "budget"
    /\ request' = NoRoute
    /\ record' = [status |-> "blocked"]

\* Mutant: the key chosen for one provider follows the request to another.
Downgrade_KeepsKey ==
    /\ request.stage = "budget"
    /\ request.served.model \in Registered
    /\ LET p == ProviderOf[request.served.model] IN
         /\ Light[p] \notin {None, request.served.model}
         /\ CheckModel(request, Light[p])
         /\ request' = [Override(request, On(p, Light[p]), "budget")
                          EXCEPT !.stage = "invoke", !.gate = None]
    /\ UNCHANGED record

\* Mutant: a provider without a light model is not thought of.
Downgrade_NoTarget ==
    /\ request.stage = "budget"
    /\ request.served.model \in Registered
    /\ LET p == ProviderOf[request.served.model]
           q == Override(request, On(p, Light[p]), "budget")
       IN  /\ Light[p] # request.served.model
           /\ CheckModel(request, Light[p])
           /\ request' = [q EXCEPT !.stage = "invoke", !.gate = None]
    /\ UNCHANGED record

\* A breached cap takes the light model of the provider the registry names, if the
\* model passes the checks. Its key is chosen again if the provider changes.
Downgrade ==
    /\ request.stage = "budget"
    /\ request.served.model \in Registered
    /\ LET p == ProviderOf[request.served.model]
           q == Override(request, On(p, Light[p]), "budget")
       IN  /\ Light[p] \notin {None, request.served.model}
           /\ CheckModel(request, Light[p])
           /\ request' = [q EXCEPT !.stage = "invoke", !.gate = None,
                            !.pin = IF p = request.served.provider THEN request.pin
                                        ELSE ApplyAlias(q, None)]
    /\ UNCHANGED record

\* buildFallbackOrder: who is tried after the model that was chosen.
FallbackOrder(q) ==
    CASE q.eff.scope = "none" -> {}
      [] q.eff.scope = "cross-provider" ->
           {On(p, Builtin[p]) : p \in {p \in LiveFor(q) \ {q.served.provider} : Builtin[p] # None}}
      [] OTHER ->
           {On(p, Builtin[p]) : p \in {p \in {q.served.provider} :
                                         Builtin[p] \notin {None, q.served.model}}}

Candidates(q) == {c \in FallbackOrder(q) : CheckModel(q, c.model) /\ c.model \in Priced}

\* The key a call uses: the pinned one for the provider it was pinned for, else
\* the key the router holds for that provider, its default.
KeyFor(q, c) ==
    CredentialFor(q.eff, c.provider, IF c.provider = q.served.provider THEN q.pin ELSE None)

\* The record names the alias only if the provider it was chosen for answered.
Logged(q, c, gate, decision, said, how) ==
    [status |-> "success", provider |-> c.provider, model |-> c.model, how |-> how,
     used |-> KeyFor(q, c),
     alias |-> IF c.provider = q.served.provider THEN q.pin ELSE None,
     gate |-> gate, decision |-> decision, said |-> said, flagged |-> q.flagged,
     asked |-> q.body, app |-> q.app, eff |-> q.eff, gated |-> q.gated]

\* /v1/chat/completions: what the native path cannot carry is refused, what an
\* OpenAI-compatible endpoint can carry is forwarded as it is.
Proxied(q) == q.body.door = "completions" /\ q.served.provider \in Compatible
Unsupported(q) ==
    /\ q.body.door = "completions" /\ q.served.provider \notin Compatible
    /\ q.body.image \/ (q.body.tools /\ q.served.model \notin ToolModels)

RefuseFeature ==
    /\ request.stage = "invoke" /\ Unsupported(request)
    /\ request' = NoRoute /\ UNCHANGED record

Serves(q) == q.stage = "invoke" /\ ~Unsupported(q) /\ q.served.provider \in LiveFor(q)

\* The path a request takes: to an OpenAI-compatible endpoint as it is, with its tools
\* bound to a native model, or through the LangChain path, which carries no tools.
Carrier(q) ==
    IF Proxied(q) THEN "proxied"
    ELSE IF q.body.door = "completions" /\ q.body.tools THEN "bound" ELSE "chain"

\* The chosen provider answers.
Answer ==
    /\ Serves(request)
    /\ record' = Logged(request, request.served, request.gate, request.decision,
                        request.said, Carrier(request))
    /\ request' = NoRoute

\* Mutant: the gate of the model that failed is logged for the one that answered.
FallBack_KeepsGate(c) ==
    /\ request.stage = "invoke" /\ ~Unsupported(request)
    /\ ~Proxied(request)
    /\ request.body.door = "completions" => ~request.body.tools
    /\ c \in Candidates(request) /\ c.provider \in LiveFor(request)
    /\ record' = Logged(request, c, request.gate, "fallback", c.model, "chain")
    /\ request' = NoRoute

\* It fails: invokeWithFallback tries the candidates that pass the checks.
FallBack(c) ==
    /\ request.stage = "invoke" /\ ~Unsupported(request)
    /\ ~Proxied(request)
    /\ request.body.door = "completions" => ~request.body.tools
    /\ c \in Candidates(request) /\ c.provider \in LiveFor(request)
    /\ record' = Logged(request, c, None, "fallback", c.model, "chain")
    /\ request' = NoRoute

\* Nobody answers: 502.
GiveUp ==
    /\ request.stage = "invoke" /\ ~Unsupported(request)
    /\ request' = NoRoute
    /\ record' = [status |-> "failure"]

-----------------------------------------------------------------------------
RoutingNext ==
    \/ \E b \in Bodies, app \in Applications, eff \in Connections : Receive(b, app, eff)
    \/ TurnAway \/ RefusePin \/ HonourPin \/ PassThrough
    \/ \E p \in Providers, m \in Models, alias \in Aliases \cup {None},
          quality \in {"ungated", "passed"} : FindRoute(On(p, m), alias, quality)
    \/ \E m \in Registered : FollowPolicy(m)
    \/ SelectAutoRoute
    \/ \E m \in Registered : Divert(m)
    \/ NotDiverted \/ CheckAllowed \/ CheckOptOut \/ Settle
    \/ WithinBudget \/ Block \/ Downgrade
    \/ RefuseFeature \/ Answer
    \/ \E p \in Providers, m \in Models : FallBack(On(p, m))
    \/ GiveUp

RoutingSpec == RoutingInit /\ [][RoutingNext]_RoutingVars

-----------------------------------------------------------------------------
(* Routing implements what the gateway promises: all steps but the first and  *)
(* the last change nothing of the promise.                                    *)

Promise == INSTANCE GovernedGateway WITH
    pending <- IF request.stage = "idle" THEN [open |-> FALSE]
               ELSE [open |-> TRUE, allowed |-> request.app.allowed,
                     optOut |-> request.app.optOut,
                     standing |-> ResolveDefault(request).model,
                     image |-> request.body.image, named |-> Asked(request)],
    answer <- IF record.status = "success"
              THEN [status |-> "success", model |-> record.model, flagged |-> record.flagged]
              ELSE record

\* handler.js, guards.js: nothing that moves a request (rule, policy, canary, swap,
\* downgrade, fallback) makes the gateway break its promise.
RoutingIsGoverned == Promise!GatewaySpec

-----------------------------------------------------------------------------
(* Properties *)

\* Routing moves a request only to known decisions, keys and models.
RoutingTypeOK ==
    /\ request.stage \in {"idle", "pin", "canary", "allowed", "optout", "vision", "budget", "invoke"}
    /\ request.stage \notin {"idle", "pin"} =>
         /\ request.served \in [provider : Providers, model : Models]
         /\ request.decision \in {"explicit", "passthrough", "rule", "ai", "auto", "canary", "budget"}
         /\ request.pin \in Aliases \cup {None}
         /\ request.gate \in {None, "ungated", "passed"}
         /\ request.said \in Models
    /\ record.status \in {"none", "success", "failure", "blocked"}

Answered == record.status = "success"

\* guards.js: whatever moved the request (a rule, a canary, a swap, a downgrade, a
\* fallback), the model that answers is one its key may reach unless the record
\* flags it, one its application accepts unless the very default is opted out,
\* and, if an image was sent, one that sees, unless the client had named a model.
AnswerIsGoverned ==
    Answered =>
      /\ IsAllowed(record, record.model) \/ record.flagged
      /\ record.model \in record.app.optOut =>
           /\ record.decision \notin {"budget", "fallback"}
           /\ ResolveDefault([body |-> record.asked, eff |-> record.eff]).model \in record.app.optOut
      /\ record.asked.image /\ (record.asked.model = None \/ record.decision \in {"budget", "fallback"})
           => record.model \in Vision

\* handler.js: a quality gate is logged only with an answer of the very model that
\* passed it, whatever override came after the rule or the canary.
GateIsOfTheAnswer == Answered /\ record.gate # None => record.model = record.gated

\* handler.js, router.js: the key that was used is one of the provider that
\* answered, and the alias on record is the key that was used: spend is never
\* put against a key that did not serve.
KeyIsOfTheAnswer ==
    Answered => /\ record.used \in record.eff.keys[record.provider].aliases
                /\ record.alias \in {None, record.used}

\* explain.js: the chain of overrides on record ends at the model that answered.
AnswerIsExplained == Answered => record.said = record.model

\* handler.js, router.js, explain.js: what is recorded of a call (its gate, its key and the
\* chain of its overrides) belongs to the model that answered it.
RecordIsOfTheAnswer == GateIsOfTheAnswer /\ KeyIsOfTheAnswer /\ AnswerIsExplained
=============================================================================
