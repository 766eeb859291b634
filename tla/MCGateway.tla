----------------------------- MODULE MCGateway -----------------------------
(* Model checking of the components on the way of a call: routing, the       *)
(* replica pool, the caches of answers and of configuration, rate limits and *)
(* sign-in, the policy engine, the scores it rests on, the classifier, the   *)
(* calls beside routing, and what is said at the two doors.                  *)
(* They share no state, so one run explores each from its initial states     *)
(* while the others rest: focus names the one that moves. The second part is *)
(* the deployment that Routing and the policy engine are checked on.         *)
EXTENDS Routing, ReplicaPool, AnswerCaches, ConfigCache, RateLimit, SignIn,
        AiPolicy, Classifier, InternalCalls, CapabilitySync,
        Replies

VARIABLE focus

Components == {"routing", "pool", "answers", "configuration", "rate", "sign-in",
               "policy", "classifier", "internal", "scores", "replies"}

AllVars == <<RoutingVars, vars, CacheVars, ConfigVars, RateVars, SignInVars,
             PolicyVars, ClassifierVars, InternalVars, ScoreVars, exchange, focus>>

GatewayInit ==
    /\ focus \in Components
    /\ RoutingInit /\ Init /\ CacheInit /\ ConfigInit /\ RateInit /\ SignInInit
    /\ PolicyInit /\ ClassifierInit /\ InternalInit /\ ScoresInit
    /\ RepliesInit
    \* what is chosen at the start is not chosen for a component at rest
    /\ focus # "configuration" => subject = CHOOSE s \in Derived : TRUE
    /\ focus # "sign-in" => mode = "oidc"

GatewayNext ==
    \/ /\ focus = "routing" /\ RoutingNext
       /\ UNCHANGED <<vars, CacheVars, ConfigVars, RateVars, SignInVars,
                      PolicyVars, ClassifierVars, InternalVars, ScoreVars, exchange, focus>>
    \/ /\ focus = "pool" /\ Next
       /\ UNCHANGED <<RoutingVars, CacheVars, ConfigVars, RateVars, SignInVars,
                      PolicyVars, ClassifierVars, InternalVars, ScoreVars, exchange, focus>>
    \/ /\ focus = "answers" /\ CacheNext
       /\ UNCHANGED <<RoutingVars, vars, ConfigVars, RateVars, SignInVars,
                      PolicyVars, ClassifierVars, InternalVars, ScoreVars, exchange, focus>>
    \/ /\ focus = "configuration" /\ ConfigNext
       /\ UNCHANGED <<RoutingVars, vars, CacheVars, RateVars, SignInVars,
                      PolicyVars, ClassifierVars, InternalVars, ScoreVars, exchange, focus>>
    \/ /\ focus = "rate" /\ RateNext
       /\ UNCHANGED <<RoutingVars, vars, CacheVars, ConfigVars, SignInVars,
                      PolicyVars, ClassifierVars, InternalVars, ScoreVars, exchange, focus>>
    \/ /\ focus = "sign-in" /\ SignInNext
       /\ UNCHANGED <<RoutingVars, vars, CacheVars, ConfigVars, RateVars,
                      PolicyVars, ClassifierVars, InternalVars, ScoreVars, exchange, focus>>
    \/ /\ focus = "policy" /\ PolicyNext
       /\ UNCHANGED <<RoutingVars, vars, CacheVars, ConfigVars, RateVars,
                      SignInVars, ClassifierVars, InternalVars, ScoreVars, exchange, focus>>
    \/ /\ focus = "classifier" /\ ClassifierNext
       /\ UNCHANGED <<RoutingVars, vars, CacheVars, ConfigVars, RateVars,
                      SignInVars, PolicyVars, InternalVars, ScoreVars, exchange, focus>>
    \/ /\ focus = "internal" /\ InternalNext
       /\ UNCHANGED <<RoutingVars, vars, CacheVars, ConfigVars, RateVars,
                      SignInVars, PolicyVars, ClassifierVars, ScoreVars, exchange, focus>>
    \/ /\ focus = "scores" /\ ScoresNext
       /\ UNCHANGED <<RoutingVars, vars, CacheVars, ConfigVars, RateVars, SignInVars,
                      PolicyVars, ClassifierVars, InternalVars, exchange, focus>>
    \/ /\ focus = "replies" /\ RepliesNext
       /\ UNCHANGED <<RoutingVars, vars, CacheVars, ConfigVars, RateVars, SignInVars,
                      PolicyVars, ClassifierVars, InternalVars, ScoreVars, focus>>

GatewaySpec == GatewayInit /\ [][GatewayNext]_AllVars

Symmetry == Permutations(Requests)

\* The states of the components are those the code can be in.
GatewayTypeOK == TypeOK /\ RoutingTypeOK /\ ConfigTypeOK /\ RateTypeOK

\* What is done for a request beside its routing: it is classified by what it asks
\* now, the policy gives it a model it has reason to, from scores that are of the tables
\* their dates name, a call that is not routed is on record once, as its caller saw it,
\* and both doors take a request in and give its answer out alike.
HelpersAreExact ==
    ClassifiedRightly /\ PickIsWarranted /\ ScoresHold /\ CallsAreAccounted /\ RepliesAreSound

-----------------------------------------------------------------------------
(* Two providers: p with a light model of its own, q behind an OpenAI-       *)
(* compatible endpoint, with a model that has no price; one name that is no  *)
(* model of the registry; applications with and without a list of allowed    *)
(* models, a default, an opt-out and a pinned key.                           *)

AllModels == {"big", "small", "other", "ghost"}
InRegistry == {"big", "small", "other"}
ProviderNames == "big" :> "p" @@ "small" :> "p" @@ "other" :> "q"
SeeingModels == {"big", "other"}
PricedModels == {"big", "small"}
LightTargets == "p" :> "small" @@ "q" :> None
BuiltinModels == "p" :> "small" @@ "q" :> "other"

HasKeys(aliases, default) == [aliases |-> aliases, default |-> default]
EffectiveConnections ==
    { [keys |-> "p" :> HasKeys({"default", "team"}, "default") @@ "q" :> HasKeys({"env"}, "env"),
       provider |-> "p", model |-> "big", scope |-> "cross-provider"],
      [keys |-> "q" :> HasKeys({"env", "team"}, "env"),
       provider |-> "q", model |-> "other", scope |-> "same-provider"] }

Unpinned == "p" :> None @@ "q" :> None
PinnedTeam == "p" :> "team" @@ "q" :> None
App(allowed, default, out, pins) ==
    [allowed |-> allowed, default |-> default, optOut |-> out, pins |-> pins]
Apps == { App({}, None, {}, Unpinned), App({"small"}, "small", {"big"}, PinnedTeam),
          App({"other"}, None, {}, PinnedTeam), App({"other", "small"}, "other", {"other"}, Unpinned),
          App({}, "other", {"big", "small"}, Unpinned) }

Body(door, model, hint, image, tools) ==
    [door |-> door, model |-> model, hint |-> hint, image |-> image, tools |-> tools]
Asks ==
    {Body("chat", m, None, i, FALSE) : m \in {None, "big"}, i \in BOOLEAN}
    \cup {Body("completions", None, None, i, t) : i \in BOOLEAN, t \in BOOLEAN}
    \cup {Body("chat", m, "q", FALSE, FALSE) : m \in {None, "big", "ghost"}}
    \cup {Body("chat", "ghost", None, FALSE, FALSE)}
-----------------------------------------------------------------------------
(* The policy engine chooses among four models: a is cheap to ask and dear to *)
(* answer with, b in the middle, c the best, d light; in the other catalogue  *)
(* a cannot chat and b and d have no price. One task needs a strong coder,    *)
(* one of the tasks is an application's own.                                  *)

Row(id, p, tier, in, out, chats, coding, general) ==
    [id |-> id, provider |-> p, tier |-> tier, input |-> in, output |-> out, chat |-> chats,
     synced |-> "coding" :> coding @@ "general" :> general]
Registries ==
    { { Row("a", "p", "light", 1, 6, TRUE, None, 90), Row("b", "q", "mid", 2, 2, TRUE, 80, 80),
        Row("c", "p", "premium", 9, None, TRUE, 95, 90), Row("d", "q", "light", 3, None, TRUE, 60, None) },
      { Row("a", "p", "light", 1, 6, FALSE, None, 90), Row("b", "q", "mid", None, None, TRUE, 80, 80),
        Row("c", "p", "premium", 9, None, TRUE, 95, 90), Row("d", "q", "light", 0, None, TRUE, 60, 50) } }
RegistryIds == <<"a", "b", "c", "d">>
KeyedProviders == {{"p"}, {"p", "q"}, {"q"}}
TaskTiers == "faq" :> "light" @@ "audit" :> "premium"
TaskWeights ==
    "faq" :> ("coding" :> 70 @@ "general" :> 60) @@ "audit" :> ("coding" :> 90 @@ "general" :> 10)
      @@ "own" :> ("coding" :> 30 @@ "general" :> 50)
CuratedScores ==
    "a" :> ("coding" :> 50 @@ "general" :> 100) @@ "b" :> ("coding" :> 40 @@ "general" :> None)
      @@ "c" :> ("coding" :> 40 @@ "general" :> 40) @@ "d" :> ("coding" :> 50 @@ "general" :> 80)
TaskTokens == "faq" :> [in |-> 1, out |-> 1] @@ "audit" :> [in |-> 4, out |-> 1] @@ "own" :> [in |-> 2, out |-> 1]
Assignments == { [t \in PolicyTasks |-> "d"], "faq" :> "c" @@ "audit" :> "a" @@ "own" :> "ghost" }

\* Words for the doors: an injection of two words, a phone number.
InjectionRules == <<[app |-> "*", pattern |-> <<"ignore", "rules">>]>>
NovaModels == {[provider |-> "bedrock-nova", model |-> "nova"]}

\* Texts at the limits of length, and conversations of up to three messages.
AText(id, length, cues, blocks) == [id |-> id, length |-> length, cues |-> cues, blocks |-> blocks]
Brief == AText("brief", 79, FALSE, 0)
Cued == AText("cued", 80, TRUE, 0)
Lengthy == AText("lengthy", 2500, FALSE, 2)
Said(role, text) == [role |-> role, text |-> text]
Talks ==
    { <<Said("user", Brief)>>,
      <<Said("user", Brief), Said("assistant", Lengthy), Said("user", Cued)>>,
      <<Said("user", Brief), Said("user", Lengthy), Said("assistant", Cued)>> }
ByWords == "brief" :> NoLabel @@ "cued" :> "audit" @@ "lengthy" :> "faq"
Labels == "brief" :> {"faq", NoLabel} @@ "cued" :> {"audit", "faq"} @@ "lengthy" :> {"audit"}
Rated == {[word |-> w, n |-> 0] : w \in {"light", "unheard of"}} \cup {[word |-> NoLabel, n |-> 12]}

\* A table with a subtotal and a relative before the model itself; the newer one has
\* lost the relative. The Arena lists an old name of a model as well.
Scored(n, words) == [code |-> n, logic |-> n, math |-> n, text |-> n, words |-> words, tables |-> n]
Bench(key, name, n, words) == [key |-> key, name |-> name, scores |-> Scored(n, words)]
Rating(key, name, elo) == [key |-> key, name |-> name, elo |-> elo]
BenchRows ==
    << <<Bench(<<"a">>, "a", 60, 50), Bench(<<"a">>, "a subtotal", 0, 50), Bench(<<"a", "mini">>, "a mini", 40, 0)>>,
       <<Bench(<<"a">>, "a", 70, 50)>> >>
ArenaRows == << <<Rating(<<"a", "mini">>, "a mini", 1300), Rating(<<"a">>, "a", 1600), Rating(<<"a">>, "a old", 900)>> >>
NormalizedIds == << <<"a", "mini">>, <<"a">> >>

StoredKeys == "p" :> <<"default", "team">> @@ "q" :> <<"env">>
EmbeddingModels == "small text" :> "p" @@ "unheard of" :> None @@ "gone" :> "z"
=============================================================================
