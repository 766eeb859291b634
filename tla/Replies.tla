------------------------------ MODULE Replies ------------------------------
(* The two ends of a request at the doors of the gateway, POST /v1/chat and   *)
(* POST /v1/chat/completions: who is refused before anything is routed, how   *)
(* much of an answer is asked for, and in what form the answer reaches the    *)
(* client, as one JSON body or as a stream. One exchange is looked at a time: *)
(* what it is told is computed from the request, the settings and the answer  *)
(* of the provider, and nothing of it outlives it.                            *)
(* A text is a sequence of words; a pattern is found where its words stand    *)
(* one after the other.                                                       *)
(* server/src: gateway/openaiCompat.js, handler.js, promptInjection.js,       *)
(* outputGuardrail.js, normalizeMessages.js, pricing/clamp.js,                *)
(* logging/piiFilter.js, logger.js, providers/llm-router/index.js.            *)
EXTENDS Deployment, Integers, SequencesExt

CONSTANTS Words,          \* what texts are made of
          BuiltinRules,   \* the injection rules that are always looked at
          PiiWords,       \* words the built-in patterns of PII find
          BoundModels,    \* [provider, model] whose tools LangChain can bind
          WireProviders   \* providers whose protocol is OpenAI's

\* A rule finds a text of its own, or has no pattern and is passed over.
Wordings == Seq(Words)
TextRules(apps) == [app : apps, pattern : {None} \cup (Wordings \ {<<>>})]

\* What a client is told of that is refused.
Codes == {"messages", "maintenance_mode", "demo_mode", "app_kill_switch", "prompt_injection_detected",
          "route", "model_not_allowed", "vision_not_supported", "budget_exceeded",
          "capability_not_supported", "guardrail_violation", "provider_error"}

ASSUME RepliesAssumption ==
    /\ None \notin Codes \cup Int
    /\ {"ignore", "rules", "well", "secret", "phone", "[REDACTED]"} \subseteq Words
    /\ BuiltinRules \in Seq(TextRules({"*"}))
    /\ "[REDACTED]" \notin PiiWords

VARIABLE exchange   \* what is under way, with what its client is told

-----------------------------------------------------------------------------
(* What is looked for in texts. *)

FoundIn(pattern, text) ==
    \E i \in 0..Len(text) : IsPrefix(pattern, SubSeq(text, i + 1, Len(text)))

\* check: whether the pattern of a rule of this application or of all is found; a rule
\* without a pattern, or with one that does not compile, finds nothing.
Check(text, rules, app) ==
    /\ text # <<>>
    /\ \E i \in DOMAIN rules : /\ rules[i].pattern # None /\ rules[i].app \in {"*", app}
                              /\ FoundIn(rules[i].pattern, text)

\* extractText: the text of a message, images left out.
ExtractText(content) == FlattenSeq([i \in DOMAIN content |-> content[i].text])

\* Mutant: what a tool returned is trusted.
Untrusted_User(messages) ==
    FlattenSeq([i \in DOMAIN messages |->
        IF messages[i].role = "user" THEN ExtractText(messages[i].content) ELSE <<>>])

\* What the user and the tools say is joined, and looked at as one text.
Untrusted(messages) ==
    FlattenSeq([i \in DOMAIN messages |->
        IF messages[i].role \in {"user", "tool"} THEN ExtractText(messages[i].content) ELSE <<>>])

\* promptInjection.check: the built-in rules, then those of the settings.
InjectionCheck(messages, custom, app) ==
    Check(Untrusted(messages), BuiltinRules \o custom, app)

\* maskPii: the built-in patterns, then those of the settings that compile.
MaskPii(text, custom) ==
    [i \in DOMAIN text |-> IF text[i] \in PiiWords \cup custom THEN "[REDACTED]" ELSE text[i]]

\* maskMessages: every text of a conversation.
MaskMessages(messages, custom) ==
    [i \in DOMAIN messages |->
       [messages[i] EXCEPT !.content =
          [j \in DOMAIN messages[i].content |-> [text |-> MaskPii(messages[i].content[j].text, custom)]]]]

Unkept == [messages |-> None, text |-> None]

\* Mutant: the answer is kept as it came.
PayloadFields_Asked(messages, text, s) ==
    IF ~s.captured THEN Unkept
    ELSE [messages |-> IF s.maskKept THEN MaskMessages(messages, s.custom) ELSE messages,
          text |-> text]

\* payloadFields: what is kept of a conversation, and of its answer.
PayloadFields(messages, text, s) ==
    IF ~s.captured THEN Unkept
    ELSE [messages |-> IF s.maskKept THEN MaskMessages(messages, s.custom) ELSE messages,
          text |-> IF s.maskKept THEN MaskPii(text, s.custom) ELSE text]

-----------------------------------------------------------------------------
(* The doors. *)

\* normalizeMessages: a bare text is one message of the user. What is no list is, to the
\* doors, a list without messages.
NormalizeMessages(messages) ==
    IF messages.kind = "text"
    THEN <<[role |-> "user", content |-> <<[text |-> messages.text]>>]>>
    ELSE IF messages.kind = "list" THEN messages.list ELSE <<>>

\* A key that names an application binds the request to it; without one, the first
\* door believes the request and the second has a name of its own.
ApplicationAt(door, q) ==
    IF q.keyApp # None THEN q.keyApp
    ELSE IF door = "completions" THEN "openai-compat"
    ELSE IF q.bodyApp # None THEN q.bodyApp ELSE "unknown"

\* Whether a gate is closed to a request; nothing is configured for "unknown".
Shut(gate, door, q, s) ==
    LET said == NormalizeMessages(q.messages)
        app == ApplicationAt(door, q)
    IN  CASE gate = "messages" -> said = <<>>
          [] gate = "maintenance_mode" -> s.maintenance
          [] gate = "demo_mode" -> ~s.connected
          [] gate = "app_kill_switch" -> app # "unknown" /\ app \in s.killed
          [] gate = "prompt_injection_detected" ->
               s.injection /\ InjectionCheck(said, s.injectionRules, app)
          [] gate = "route" -> q.route # "found"
          [] gate = "budget_exceeded" -> q.cap = "block"
          [] gate = "capability_not_supported" -> q.unfit

\* handleChat, handleOpenAICompat: the order in which the gates are passed.
GatesOfChat == <<"messages", "maintenance_mode", "app_kill_switch", "demo_mode",
                 "prompt_injection_detected", "route", "budget_exceeded">>

\* Mutant: the switch of the application is not looked at.
GatesOfCompletions_Unswitched ==
    <<"messages", "maintenance_mode", "demo_mode", "prompt_injection_detected",
      "route", "budget_exceeded", "capability_not_supported">>

GatesOfCompletions ==
    <<"messages", "maintenance_mode", "demo_mode", "prompt_injection_detected",
      "app_kill_switch", "route", "budget_exceeded", "capability_not_supported">>

Gates(door) == IF door = "chat" THEN GatesOfChat ELSE GatesOfCompletions

Status(gate, q) ==
    CASE gate \in {"messages", "prompt_injection_detected"} -> 400
      [] gate = "route" -> IF q.route = "model_not_allowed" THEN 403 ELSE 400
      [] gate = "budget_exceeded" -> 429
      [] gate = "capability_not_supported" -> 501
      [] OTHER -> 503

\* The frames of a stream.
RoleFrame == [kind |-> "role"]
ContentFrame(text) == [kind |-> "content", text |-> text]
CallFrame(i, call) == [kind |-> "call", at |-> i, call |-> call]
FinishFrame(finish, usage) == [kind |-> "finish", finish |-> finish, usage |-> usage]
ErrorFrame(code) == [kind |-> "error", code |-> code]
DoneFrame == [kind |-> "done"]

Sse(frames) == [form |-> "stream", frames |-> frames]
JsonError(status, code) == [form |-> "error", status |-> status, code |-> code]
JsonBody(body) == [form |-> "body", body |-> body]
PassedOn == [form |-> "passed"]

\* What a request meets at a door. A client that waits for a stream is told of three
\* of the gates in one; the first door streams nothing, and records who is over budget.
AtDoor(door, q, s) ==
    LET i == SelectInSeq(Gates(door), LAMBDA g : Shut(g, door, q, s))
        gate == Gates(door)[i]
        code == IF gate = "route" THEN q.route ELSE gate
        streamed == /\ door = "completions" /\ q.stream
                    /\ gate \in {"maintenance_mode", "budget_exceeded", "capability_not_supported"}
    IN  IF i = 0 THEN [gate |-> None, reply |-> PassedOn, record |-> "none"]
        ELSE [gate |-> gate,
              reply |-> IF streamed THEN Sse(<<ErrorFrame(code), DoneFrame>>)
                        ELSE JsonError(Status(gate, q), code),
              record |-> IF gate = "budget_exceeded" /\ door = "chat" THEN "blocked" ELSE "none"]

-----------------------------------------------------------------------------
(* On the way to the provider. *)

\* clampMaxTokens: a limit that is not known changes nothing, nor does one for a
\* request that names none.
ClampMaxTokens(requested, cap) ==
    IF cap # None /\ requested # None /\ requested > cap THEN cap ELSE requested

\* Mutant: the ceiling of the model that was decided first.
TokensSent_Decided(asked, guardrail, decided, served, ceiling) ==
    ClampMaxTokens(ClampMaxTokens(asked, guardrail), ceiling[decided])

\* The guardrail of the settings, then the ceiling of the model that serves, which a
\* downgrade has changed by then.
TokensSent(asked, guardrail, decided, served, ceiling) ==
    ClampMaxTokens(ClampMaxTokens(asked, guardrail), ceiling[served])

\* openAICompatBaseURL: the base stored for the provider, OpenAI's own for OpenAI;
\* the providers that are native have none, whatever is stored.
OpenAICompatBaseURL(provider, stored, native) ==
    IF provider \in WireProviders
    THEN IF stored # None THEN stored ELSE IF provider = "openai" THEN "api.openai.com" ELSE None
    ELSE IF provider \in native THEN None ELSE stored

IsNativeToolModel(provider, model) == [provider |-> provider, model |-> model] \in BoundModels

\* The form in which a request to /v1/chat/completions goes to its provider, and
\* whether the tools or images it carries would be lost on the way.
WayOf(q, base) ==
    IF base # None THEN "proxied"
    ELSE IF /\ IsNativeToolModel(q.provider, q.model)
            /\ q.tools # <<>> \/ \E i \in DOMAIN q.history : q.history[i].role = "tool"
    THEN "bound" ELSE "chain"
LosesFeatures(q, base) ==
    base = None /\ (q.image \/ (q.tools # <<>> /\ ~IsNativeToolModel(q.provider, q.model)))

\* The arguments of a call: an object, the text of one, or none.
NoArgs == [as |-> "nothing"]
ArgsObject(v) == [as |-> "object", v |-> v]
ArgsText(v) == [as |-> "text", v |-> v]

\* Mutant: a call without an id is left without one.
TranslateToolCalls_Bare(calls) ==
    [i \in DOMAIN calls |->
       [id |-> IF calls[i].id # None THEN calls[i].id ELSE <<"own", "">>,
        name |-> calls[i].name,
        arguments |-> IF calls[i].args.as = "nothing" THEN ArgsText("{}") ELSE ArgsText(calls[i].args.v)]]

\* translateToolCalls: LangChain's calls in OpenAI's form, the arguments a text.
TranslateToolCalls(calls) ==
    [i \in DOMAIN calls |->
       [id |-> IF calls[i].id # None THEN calls[i].id ELSE <<"call", i - 1>>,
        name |-> calls[i].name,
        arguments |-> IF calls[i].args.as = "nothing" THEN ArgsText("{}") ELSE ArgsText(calls[i].args.v)]]

\* JSON.parse of arguments: what is no JSON becomes an empty object.
Parsed(arguments) ==
    ArgsObject(IF arguments.as = "nothing" \/ arguments.v = "malformed" THEN "{}" ELSE arguments.v)

\* toLcMessages: nothing stands for a missing message; a role that is not known is a
\* human's; the calls of an assistant and the id a tool answers to are kept.
Nothing == [role |-> "nothing"]
ToLcMessages(messages) ==
    LET Kind(m) == CASE m.role = "system" -> "system" [] m.role = "tool" -> "tool"
                     [] m.role \in {"assistant", "ai"} -> "ai" [] OTHER -> "human"
        Calls(m) == IF Kind(m) # "ai" THEN <<>>
                    ELSE [i \in DOMAIN m.calls |-> [id |-> m.calls[i].id, name |-> m.calls[i].name,
                                                    args |-> Parsed(m.calls[i].arguments)]]
        present == FlattenSeq([i \in DOMAIN messages |-> IF messages[i].role = "nothing" THEN <<>> ELSE <<messages[i]>>])
    IN  [i \in DOMAIN present |->
           [kind |-> Kind(present[i]), calls |-> Calls(present[i]),
            answers |-> IF Kind(present[i]) = "tool" THEN present[i].answers ELSE None]]

\* buildBoundModel: the tools of the request; a choice only if it is one of them.
BuildBoundModel(q) ==
    [tools |-> q.tools, choice |-> IF q.tools = <<>> \/ q.choice \in {"auto", "none"} THEN None ELSE q.choice]

\* extractFinishReason: the words providers have for why an answer ended.
ExtractFinishReason(raw) ==
    CASE raw = None -> None
      [] raw \in {"max_tokens", "length", "model_length", "max_output_tokens"} -> "length"
      [] raw \in {"tool_use", "function_call"} -> "tool_calls"
      [] raw \in {"safety", "recitation", "blocklist", "content_filtered"} -> "content_filter"
      [] OTHER -> "stop"

-----------------------------------------------------------------------------
(* The answer, as it is delivered. *)

\* chunkText: the texts of an answer, put together.
ChunkText(content) == FlattenSeq([i \in DOMAIN content |-> content[i].text])

\* A rule of the settings that forbids a text, if their guard is on.
Forbids(text, s, app) == s.guard /\ Check(text, s.rules, app)
Delivery(text, s) == IF s.mask THEN MaskPii(text, s.custom) ELSE text

Or(value, default) == IF value = None THEN default ELSE value
UsageOf(a, total) == [in |-> a.in, out |-> a.out, total |-> total]
TotalOf(a) == IF a.total # 0 THEN a.total ELSE a.in + a.out

\* What the logger stores adds up the tokens nobody did.
Counted(usage) ==
    [usage EXCEPT !.total = IF usage.total # 0 THEN usage.total ELSE usage.in + usage.out]

\* servedAlias: the key that was chosen is a key of the provider it was chosen for.
ServedAlias(served, provider) == IF provider = served.provider THEN served.alias ELSE None

Note(status, provider, alias, usage, kept) ==
    [status |-> status, provider |-> provider, alias |-> alias, usage |-> Counted(usage), kept |-> kept]
NoUsage == [in |-> 0, out |-> 0, total |-> 0]

ProviderFailed(q, reply) ==
    [reply |-> reply, by |-> None, heading |-> None,
     record |-> Note("failure", q.served.provider, q.served.alias, NoUsage, Unkept)]
Blocked(reply, provider, alias) ==
    [reply |-> reply, by |-> provider, heading |-> None,
     record |-> Note("blocked", provider, alias, NoUsage, Unkept)]

\* The frames of a turn: its calls if there are any, else its text if it is not empty.
TurnFrames(text, calls) ==
    IF calls # <<>> THEN <<RoleFrame>> \o [i \in DOMAIN calls |-> CallFrame(i - 1, calls[i])]
    ELSE IF text = <<>> THEN <<RoleFrame>> ELSE <<RoleFrame, ContentFrame(text)>>

\* Tools bound to a native model, and the turn that follows their results: no other
\* provider is tried, and the text beside a call is neither looked at nor delivered.
BoundReply(q, s, a) ==
    LET calls == IF q.tools # <<>> THEN TranslateToolCalls(a.calls) ELSE <<>>
        said == ChunkText(a.content)
        text == IF calls # <<>> THEN <<>> ELSE said
        finish == IF calls # <<>> THEN "tool_calls" ELSE Or(ExtractFinishReason(a.stop), "stop")
        shown == Delivery(text, s)
        usage == UsageOf(a, TotalOf(a))
        Refusal(status, code) ==
            IF q.stream THEN Sse(<<ErrorFrame(code), DoneFrame>>) ELSE JsonError(status, code)
    IN  IF a.failed THEN ProviderFailed(q, Refusal(502, "provider_error"))
        ELSE IF Forbids(text, s, q.app)
        THEN Blocked(Refusal(422, "guardrail_violation"), q.served.provider, q.served.alias)
        ELSE [by |-> q.served.provider, heading |-> q.served.provider,
              reply |-> IF q.stream
                        THEN Sse(TurnFrames(shown, calls) \o <<FinishFrame(finish, usage), DoneFrame>>)
                        ELSE JsonBody([text |-> shown, calls |-> calls, finish |-> finish, usage |-> usage]),
              record |-> Note("success", q.served.provider, q.served.alias, usage,
                              PayloadFields(q.history, said, s))]

\* Mutant: the text of a stream goes out as it came.
ChainReply_Raw(q, s, a) ==
    LET text == ChunkText(a.content)
        shown == IF q.stream THEN text ELSE Delivery(text, s)
        finish == Or(ExtractFinishReason(a.stop), "stop")
        usage == UsageOf(a, IF q.stream THEN TotalOf(a) ELSE a.total)
        Refusal(status, code, end) ==
            IF q.stream THEN Sse(<<ErrorFrame(code)>> \o end) ELSE JsonError(status, code)
    IN  IF a.failed THEN ProviderFailed(q, Refusal(502, "provider_error", <<>>))
        ELSE IF Forbids(text, s, q.app)
        THEN Blocked(Refusal(422, "guardrail_violation", <<DoneFrame>>),
                     a.provider, ServedAlias(q.served, a.provider))
        ELSE [by |-> a.provider, heading |-> q.served.provider,
              reply |-> IF q.stream
                        THEN Sse(<<RoleFrame, ContentFrame(shown), FinishFrame(finish, usage), DoneFrame>>)
                        ELSE JsonBody([text |-> shown, calls |-> <<>>, finish |-> finish, usage |-> usage]),
              record |-> Note("success", a.provider, ServedAlias(q.served, a.provider), usage,
                              PayloadFields(q.history, text, s))]

\* A native provider without tools, or the one its request fell back to. The headers
\* are set before the call; only the stream adds up the tokens a provider did not.
ChainReply(q, s, a) ==
    LET text == ChunkText(a.content)
        shown == Delivery(text, s)
        finish == Or(ExtractFinishReason(a.stop), "stop")
        usage == UsageOf(a, IF q.stream THEN TotalOf(a) ELSE a.total)
        Refusal(status, code, end) ==
            IF q.stream THEN Sse(<<ErrorFrame(code)>> \o end) ELSE JsonError(status, code)
    IN  IF a.failed THEN ProviderFailed(q, Refusal(502, "provider_error", <<>>))
        ELSE IF Forbids(text, s, q.app)
        THEN Blocked(Refusal(422, "guardrail_violation", <<DoneFrame>>),
                     a.provider, ServedAlias(q.served, a.provider))
        ELSE [by |-> a.provider, heading |-> q.served.provider,
              reply |-> IF q.stream
                        THEN Sse(<<RoleFrame, ContentFrame(shown), FinishFrame(finish, usage), DoneFrame>>)
                        ELSE JsonBody([text |-> shown, calls |-> <<>>, finish |-> finish, usage |-> usage]),
              record |-> Note("success", a.provider, ServedAlias(q.served, a.provider), usage,
                              PayloadFields(q.history, text, s))]

\* /v1/chat answers in one body, and sets its headers with it.
ChatReply(q, s, a) ==
    LET text == ChunkText(a.content)
        usage == UsageOf(a, a.total)
    IN  IF a.failed THEN ProviderFailed(q, JsonError(502, "provider_error"))
        ELSE IF Forbids(text, s, q.app)
        THEN Blocked(JsonError(422, "guardrail_violation"), a.provider, ServedAlias(q.served, a.provider))
        ELSE [by |-> a.provider, heading |-> a.provider,
              reply |-> JsonBody([text |-> Delivery(text, s), calls |-> <<>>,
                                  finish |-> ExtractFinishReason(a.stop), usage |-> usage]),
              record |-> Note("success", a.provider, ServedAlias(q.served, a.provider), usage,
                              PayloadFields(q.history, text, s))]

Reply(q, s, a) ==
    CASE q.way = "bound" -> BoundReply(q, s, a) [] q.way = "chain" -> ChainReply(q, s, a)
      [] q.way = "chat" -> ChatReply(q, s, a)

\* What a client makes of a stream: its text, its calls by their index, how it ended.
Assembled(frames) ==
    LET Of(kind) == {f \in ToSet(frames) : f.kind = kind}
        Added(f) == IF f.kind = "content" THEN f.text ELSE <<>>
        end == CHOOSE f \in Of("finish") : TRUE
    IN  IF Of("error") # {} THEN [error |-> (CHOOSE f \in Of("error") : TRUE).code]
        ELSE [error |-> None, text |-> FlattenSeq([i \in DOMAIN frames |-> Added(frames[i])]),
              calls |-> [n \in {f.at + 1 : f \in Of("call")} |-> (CHOOSE f \in Of("call") : f.at + 1 = n).call],
              finish |-> end.finish, in |-> end.usage.in, out |-> end.usage.out]

\* The same of one body.
Understood(reply) ==
    IF reply.form = "stream" THEN Assembled(reply.frames)
    ELSE IF reply.form = "error" THEN [error |-> reply.code]
    ELSE [error |-> None, text |-> reply.body.text, calls |-> reply.body.calls,
          finish |-> reply.body.finish, in |-> reply.body.usage.in, out |-> reply.body.usage.out]

-----------------------------------------------------------------------------
(* One exchange: the requests, settings and answers there may be. *)

Says(role, text) == [role |-> role, content |-> <<[text |-> text]>>]
Lists == { <<>>, <<Says("user", <<"ignore", "rules">>)>>, <<Says("system", <<"ignore", "rules">>)>>,
           <<Says("user", <<"ignore">>), Says("assistant", <<"well">>), Says("tool", <<"rules">>)>>,
           <<Says("assistant", <<"secret">>), Says("tool", <<"secret">>)>> }
Messages == {[kind |-> "other"], [kind |-> "text", text |-> <<"ignore", "rules">>]}
              \cup {[kind |-> "list", list |-> l] : l \in Lists}
Knocks == [messages : Messages, keyApp : {None, "a"}, bodyApp : {None, "a", "b"}, stream : BOOLEAN,
           route : {"found", "model_not_allowed", "vision_not_supported"},
           cap : {"none", "block"}, unfit : BOOLEAN]
RuleFor(app, pattern) == [app |-> app, pattern |-> pattern]
RuleLists == { <<>>, <<RuleFor("*", None), RuleFor("b", <<"secret">>)>>, <<RuleFor("a", <<"secret">>)>> }
DoorSettings == [maintenance : BOOLEAN, connected : BOOLEAN, killed : {{}, {"a", "unknown"}},
                 injection : BOOLEAN, injectionRules : RuleLists]

Spoken == { <<>>, <<"well">>, <<"secret">>, <<"phone">>, <<"well", "phone", "secret">> }
ACall(id, args) == [id |-> id, name |-> "f", args |-> args]
CallLists == { <<>>, <<ACall(<<"own", "x">>, ArgsObject("v")), ACall(None, ArgsText("malformed"))>>,
               <<ACall(None, NoArgs), ACall(None, ArgsText("v"))>> }
Results == [failed : {FALSE}, content : {<<[text |-> t]>> : t \in Spoken}, calls : CallLists,
            provider : {"p", "q"}, in : {2}, out : {1}, total : {0, 4}, stop : {None, "max_tokens"}]
             \cup {[failed |-> TRUE]}
Settings == [guard : BOOLEAN, mask : BOOLEAN, captured : BOOLEAN, maskKept : BOOLEAN,
             rules : RuleLists, custom : {{"well"}}]
Histories == {<<Says("user", <<"phone", "well">>)>>}
Turns == [way : {"bound", "chain", "chat"}, stream : BOOLEAN, app : {"a"}, history : Histories,
          tools : {<<>>, <<"f">>}, served : [provider : {"p"}, alias : {None, "team"}]]

Limits == {None} \cup 1..3
Wants == [tokens : Limits, guardrail : Limits, served : {"decided", "light"},
           ceiling : [{"decided", "light"} -> Limits], calls : CallLists]

NoExchange == [at |-> "none"]
RepliesInit == exchange = NoExchange

\* A client comes to a door, which lets it in or tells it why not.
Knock(door, q, s) ==
    /\ exchange' = [at |-> "door", door |-> door, q |-> q, s |-> s, met |-> AtDoor(door, q, s)]

\* A provider is asked for a turn, which may be one that brings back results of tools.
Order(q) ==
    /\ LET sent == TranslateToolCalls(q.calls)
       IN  exchange' = [at |-> "provider", q |-> q,
             tokens |-> TokensSent(q.tokens, q.guardrail, "decided", q.served, q.ceiling),
             told |-> sent,
             turn |-> ToLcMessages(<<Nothing, [role |-> "assistant", calls |-> sent]>>
                        \o [i \in DOMAIN sent |-> [role |-> "tool", answers |-> sent[i].id]])]

\* The provider answers or fails; the client is told, and the record is written.
Deliver(q, s, a) ==
    /\ q.way = "chat" => ~q.stream
    /\ exchange' = [at |-> "client", q |-> q, s |-> s, a |-> a, done |-> Reply(q, s, a)]

Part ==
    /\ exchange # NoExchange
    /\ exchange' = NoExchange

RepliesNext ==
    \/ /\ exchange = NoExchange
       /\ \/ \E door \in {"chat", "completions"}, q \in Knocks, s \in DoorSettings : Knock(door, q, s)
          \/ \E q \in Wants : Order(q)
          \/ \E q \in Turns, s \in Settings, a \in Results : Deliver(q, s, a)
    \/ Part

-----------------------------------------------------------------------------
(* Properties *)

\* handler.js, openaiCompat.js: a request whose key names its application is refused at one
\* door if and only if it is at the other, features apart, and what either door tells of is
\* shut at both; a stream that refuses says so and ends.
DoorsAgree ==
    exchange.at = "door" =>
      LET q == exchange.q
          s == exchange.s
          met == exchange.met
          other == IF exchange.door = "chat" THEN "completions" ELSE "chat"
          there == AtDoor(other, q, s)
      IN  /\ q.keyApp # None /\ "capability_not_supported" \notin {met.gate, there.gate} =>
               /\ (met.gate = None) = (there.gate = None)
               /\ met.gate # None => Shut(met.gate, other, q, s)
          /\ met.reply.form = "stream" =>
               exchange.door = "completions" /\ q.stream /\ met.reply.frames[2] = DoneFrame

\* promptInjection.js: of what reaches routing, nothing a user or a tool said passes a rule
\* of its application; and what is refused for it they did say.
InjectionIsFound ==
    exchange.at = "door" /\ exchange.s.injection =>
      LET l == NormalizeMessages(exchange.q.messages)
          app == ApplicationAt(exchange.door, exchange.q)
          gate == exchange.met.gate
          heard == {i \in DOMAIN l : l[i].role \in {"user", "tool"}}
          rules == ToSet(BuiltinRules \o exchange.s.injectionRules)
          inForce == {r \in rules : r.app \in {"*", app} /\ r.pattern # None}
          words == UNION {ToSet(ExtractText(l[i].content)) : i \in heard}
      IN  /\ gate = None => \A i \in heard, r \in inForce : ~FoundIn(r.pattern, ExtractText(l[i].content))
          /\ gate = "prompt_injection_detected" => \E r \in inForce : ToSet(r.pattern) \subseteq words

\* clamp.js, openaiCompat.js: what is asked of a provider is what the client asked, or the
\* lower of the guardrail and of the ceiling of the model that serves, and never nothing.
TokensAreClamped ==
    exchange.at = "provider" =>
      LET asked == exchange.q.tokens
          sent == exchange.tokens
          limits == {exchange.q.guardrail, exchange.q.ceiling[exchange.q.served]} \ {None}
      IN  IF asked = None THEN sent = None
          ELSE /\ sent <= asked /\ \A c \in limits : sent <= c
               /\ sent = asked \/ sent \in limits

\* openaiCompat.js: the results of a turn of tools find the very calls they answer, by ids
\* that are not used twice, and the arguments return as the model gave them, unless they
\* were no JSON.
ToolTurnsClose ==
    exchange.at = "provider" =>
      LET calls == exchange.q.calls
          back == exchange.turn
      IN  /\ \A i, j \in DOMAIN exchange.told : exchange.told[i].id = exchange.told[j].id => i = j
          /\ Len(back) = Len(calls) + 1
          /\ \A i \in DOMAIN calls :
               /\ back[i + 1].answers = back[1].calls[i].id
               /\ calls[i].args.as # "nothing" /\ calls[i].args.v # "malformed" =>
                    back[1].calls[i].args = ArgsObject(calls[i].args.v)

\* openaiCompat.js: a client that streams gets the answer of one that does not, and leaves
\* the same record; its stream ends by saying so, unless the provider failed it.
StreamsTellTheSame ==
    exchange.at = "client" /\ exchange.q.stream =>
      LET once == Reply([exchange.q EXCEPT !.stream = FALSE], exchange.s, exchange.a)
          frames == exchange.done.reply.frames
          last == frames[Len(frames)]
      IN  /\ Understood(exchange.done.reply) = Understood(once.reply)
          /\ exchange.done.record = once.record
          /\ last = DoneFrame \/ (exchange.a.failed /\ last.kind = "error")
          /\ \A i \in 1..(Len(frames) - 1) : frames[i] # DoneFrame

\* outputGuardrail.js, logger.js: no text is delivered that a rule of the application forbids
\* or that still holds what is to be masked; nor is such a text kept; and what was withheld
\* is recorded as blocked, with the provider, the key and nothing else of it.
DeliveredIsFit ==
    exchange.at = "client" =>
      LET s == exchange.s
          told == Understood(exchange.done.reply)
          rec == exchange.done.record
          pii == PiiWords \cup s.custom
      IN  /\ told.error = None =>
               /\ s.guard => \A r \in ToSet(s.rules) :
                    r.pattern # None /\ r.app \in {"*", exchange.q.app} => ~FoundIn(r.pattern, told.text)
               /\ s.mask => ToSet(told.text) \cap pii = {}
          /\ s.maskKept /\ rec.kept # Unkept =>
               /\ ToSet(rec.kept.text) \cap pii = {}
               /\ ToSet(Untrusted(rec.kept.messages)) \cap pii = {}
          /\ (told.error = "guardrail_violation") = (rec.status = "blocked")
          /\ rec.status # "success" => rec.kept = Unkept

\* handler.js, openaiCompat.js: the record of a request names the provider that answered it
\* with a key of that provider, and counts the tokens its client was told of.
RecordIsOfTheReply ==
    exchange.at = "client" /\ exchange.done.reply.form = "body" =>
      LET q == exchange.q
          rec == exchange.done.record
          told == exchange.done.reply.body.usage
      IN  /\ rec.status = "success" /\ rec.provider = exchange.done.by
          /\ rec.alias # None =>
               rec.alias = q.served.alias /\ exchange.done.by = q.served.provider
          /\ rec.usage.in = told.in /\ rec.usage.out = told.out
          /\ q.way = "chat" => exchange.done.heading = exchange.done.by

\* openaiCompat.js, handler.js and the files they call: what a client gets is decided alike
\* at both doors and in both forms, and is fit to be delivered and on record as it was.
RepliesAreSound ==
    /\ DoorsAgree /\ InjectionIsFound /\ TokensAreClamped /\ ToolTurnsClose
    /\ StreamsTellTheSame /\ DeliveredIsFit /\ RecordIsOfTheReply
=============================================================================
