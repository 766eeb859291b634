------------------------------ MODULE SdkClient ------------------------------
(* A call through one of the client libraries: what is sent, the attempts and *)
(* their timeouts, the caller that gives up, what it is told and the stream   *)
(* that is cut from the answer. An attempt the client has given up may still  *)
(* be answered by the gateway.                                                *)
(* src/clients: js/src/index.js, python/src/arbr_client/__init__.py,          *)
(* python/src/arbr_client/langchain.py.                                       *)
EXTENDS Deployment, Integers, SequencesExt

CONSTANTS Options,   \* settings of a client: [sdk, application, retries, key, readToken]
          Orders,    \* calls: [method, messages, application, retries, complete]
          Replies    \* what the gateway may answer: [status, error, length]

\* Retries are whole numbers, and no answer is none.
ASSUME SdkAssumption ==
    /\ None \notin Nat \cup Replies
    /\ \A c \in Options : c.retries \in Int
    /\ \A o \in Orders : o.retries \in Int \cup {None}
    /\ \A r \in Replies : r.status \in Nat /\ r.length \in Nat

VARIABLES using,     \* the client and the call, and how many attempts it gave up after
          stage,     \* what the client is at
          attempts,  \* how each attempt ended, Open while it has not
          replied,   \* what the gateway answered to each attempt
          told,      \* what the caller was told, or None
          given      \* characters of the answer given to a stream

SdkVars == <<using, stage, attempts, replied, told, given>>

Open == [code |-> "open"]
NoCaller == [client |-> None, order |-> None, left |-> None]
SdkInit ==
    /\ using = NoCaller /\ stage = "idle"
    /\ attempts = <<>> /\ replied = <<>>
    /\ told = None /\ given = 0

-----------------------------------------------------------------------------
(* What is sent. A message has a form - a text, an object with a role, one of *)
(* LangChain's, nothing at all, anything else - and a role.                   *)

Error(code, retryable) == [code |-> code, retryable |-> retryable, length |-> 0]
Refused == Error("invalid_input", FALSE)

\* Mutant: an answer of the model in a LangChain history is sent as the user's.
JsRole_User(m) ==
    CASE m.form = "plain" /\ m.role # None -> m.role
      [] m.form = "langchain" /\ m.role = "system" -> m.role
      [] OTHER -> "user"
JsRole(m) ==
    CASE m.form = "plain" /\ m.role # None -> m.role
      [] m.form = "langchain" /\ m.role = "system" -> "system"
      [] m.form = "langchain" /\ m.role = "ai" -> "assistant"
      [] OTHER -> "user"

\* normalizeMessages: the roles in their order, or None when they are refused.
JsMessages(messages) ==
    IF messages = <<>> \/ \E i \in DOMAIN messages : messages[i].form = "null" THEN None
    ELSE [i \in DOMAIN messages |-> JsRole(messages[i])]

PyRole(m) ==
    IF m.form = "plain" THEN IF m.role = None THEN "user" ELSE m.role
    ELSE IF m.form = "langchain" /\ m.role \in {"system", "ai"}
         THEN IF m.role = "ai" THEN "assistant" ELSE "system" ELSE "user"

\* _normalize_messages: what is no message is refused too.
PyMessages(messages) ==
    IF messages # <<>> /\ \A i \in DOMAIN messages : messages[i].form \in {"text", "plain", "langchain"}
    THEN [i \in DOMAIN messages |-> PyRole(messages[i])] ELSE None

Chatting == {"chat", "stream", "invoke"}
\* What a caller leaves out is the client's; what a JavaScript caller passes as
\* undefined is left out of the body.
JsBody(client, order) ==
    [messages |-> JsMessages(order.messages),
     application |-> CASE order.application = "absent" -> client.application
                       [] order.application = "undefined" -> None
                       [] OTHER -> order.application]
PyBody(client, order) ==
    [messages |-> PyMessages(order.messages),
     application |-> IF order.application \in {"absent", "undefined"} THEN client.application
                     ELSE order.application]

\* Completeness is what an embedding or a query of usage needs of its arguments.
JsAccepts(client, order) ==
    CASE order.method \in Chatting -> JsMessages(order.messages) # None
      [] order.method = "embeddings" -> order.complete
      [] order.method = "usage" -> client.readToken # None
      [] OTHER -> TRUE
PyAccepts(client, order) ==
    CASE order.method \in Chatting -> PyMessages(order.messages) # None
      [] order.method = "usage" -> client.readToken # None /\ order.complete
      [] OTHER -> TRUE

\* Retries of the client are at least none, those of one call are as they come;
\* only what takes arguments takes them.
JsRetries(client, order) ==
    IF order.retries # None /\ order.method \in Chatting \cup {"embeddings"} THEN order.retries
    ELSE IF client.retries < 0 THEN 0 ELSE client.retries
PyRetries(client, order) ==
    IF order.method \in Chatting \cup {"embeddings"} /\ order.retries # None THEN order.retries
    ELSE IF client.retries > 0 THEN client.retries ELSE 0

Client == using.client
IsJs == Client.sdk = "js"
Retries == IF IsJs THEN JsRetries(Client, using.order) ELSE PyRetries(Client, using.order)

-----------------------------------------------------------------------------
(* A call. *)

Tell(outcome) ==
    /\ told' = outcome
    /\ stage' = IF outcome.code = "ok" /\ using.order.method = "stream" THEN "streaming" ELSE "settled"

Begin(client, order, accepts) ==
    /\ stage = "idle" /\ using' = [client |-> client, order |-> order, left |-> None]
    /\ IF accepts THEN stage' = "starting" /\ UNCHANGED told
       ELSE stage' = "settled" /\ told' = Refused
    /\ UNCHANGED <<attempts, replied, given>>

JsCall(client, order) == client.sdk = "js" /\ Begin(client, order, JsAccepts(client, order))
PyCall(client, order) == client.sdk = "python" /\ Begin(client, order, PyAccepts(client, order))

\* The signal is raised, or the task that awaits is cancelled.
Leave ==
    /\ stage \notin {"idle", "settled", "streaming"} /\ using.left = None
    /\ using' = [using EXCEPT !.left = Len(attempts)]
    /\ UNCHANGED <<stage, attempts, replied, told, given>>

Send ==
    /\ stage' = "waiting" /\ attempts' = Append(attempts, Open) /\ replied' = Append(replied, None)
    /\ UNCHANGED <<using, told, given>>

\* With fewer than no retries there is no attempt at all, and nothing to throw.
NoAttempt(code) ==
    /\ Retries < 0 /\ Tell(Error(code, FALSE)) /\ UNCHANGED <<using, attempts, replied, given>>
JsNoAttempt == stage = "starting" /\ IsJs /\ NoAttempt("undefined")
PyNoAttempt == stage = "starting" /\ ~IsJs /\ NoAttempt("http_error")

\* Mutant: an attempt begins without a look at the signal.
JsStart_Blind == stage = "starting" /\ IsJs /\ Retries >= 0 /\ Send
JsStart ==
    /\ stage = "starting" /\ IsJs /\ Retries >= 0
    /\ IF using.left # None THEN Tell(Error("aborted", FALSE)) /\ UNCHANGED <<using, attempts, replied, given>>
       ELSE Send

\* A blocking call in a thread of its own does not learn that its task is gone.
PyStart == stage = "starting" /\ ~IsJs /\ Retries >= 0 /\ Send

\* The gateway answers an attempt, given up or not.
GatewayAnswers(i, reply) ==
    /\ i \in DOMAIN replied /\ replied[i] = None
    /\ replied' = [replied EXCEPT ![i] = reply]
    /\ UNCHANGED <<using, stage, attempts, told, given>>

\* Mutant: one attempt more than there are retries.
Again_Off(outcome) == outcome.retryable /\ Len(attempts) <= Retries + 1
Again(outcome) == outcome.retryable /\ Len(attempts) <= Retries

Conclude(outcome) ==
    /\ attempts' = [attempts EXCEPT ![Len(attempts)] = outcome]
    /\ IF Again(outcome) THEN stage' = "backoff" /\ UNCHANGED told ELSE Tell(outcome)
    /\ UNCHANGED <<using, replied, given>>

\* The timer fires, the network fails, or the caller's signal ends the fetch.
JsFails(code) ==
    /\ stage = "waiting" /\ IsJs
    /\ code \in (IF using.left # None THEN {"timeout", "aborted"} ELSE {"timeout", "network"})
    /\ Conclude(Error(code, code # "aborted"))
PyFails(code) ==
    /\ stage = "waiting" /\ ~IsJs /\ Conclude(Error(code, TRUE))

\* The head of the answer is there: from here on neither timer nor signal is heard.
JsHead ==
    /\ stage = "waiting" /\ IsJs /\ replied[Len(attempts)] # None
    /\ stage' = "reading" /\ UNCHANGED <<using, attempts, replied, told, given>>

NamedErrors == {"demo_mode", "provider_error", "invalid_api_key", "budget_exceeded", "rate_limited"}
\* Mutant: every 429 is worth another try.
ErrorFromResponse_All429(status, error) ==
    Error(IF error \in NamedErrors THEN error ELSE IF status = 400 THEN "bad_request" ELSE "http_error",
          status = 429 \/ status >= 500)
ErrorFromResponse(status, error) ==
    LET code == IF error \in NamedErrors THEN error
                ELSE IF status = 400 THEN "bad_request" ELSE "http_error"
    IN  Error(code, code # "budget_exceeded" /\ (status = 429 \/ status >= 500))

\* A body that cannot be parsed is none: of a success nothing is left to give.
OutcomeOf(reply, parsed) ==
    IF reply.status = 200
    THEN [code |-> "ok", retryable |-> FALSE, length |-> IF parsed THEN reply.length ELSE 0]
    ELSE ErrorFromResponse(reply.status, IF parsed THEN reply.error ELSE None)

JsBodyRead(parsed) ==
    /\ stage = "reading" /\ Conclude(OutcomeOf(replied[Len(attempts)], parsed))

\* urlopen and read are one step under one timeout.
PyAnswered(parsed) ==
    /\ stage = "waiting" /\ ~IsJs /\ replied[Len(attempts)] # None
    /\ Conclude(OutcomeOf(replied[Len(attempts)], parsed))
\* An answer that breaks off while it is read raises what no handler is for.
PyBreaksOff ==
    /\ stage = "waiting" /\ ~IsJs /\ replied[Len(attempts)] # None
    /\ Conclude(Error("foreign", FALSE))

Backoff ==
    /\ stage = "backoff" /\ stage' = "starting"
    /\ UNCHANGED <<using, attempts, replied, told, given>>

ChunkChars == 24
\* Mutant: a last piece that is no full chunk is lost.
NextChunk_Full ==
    /\ stage = "streaming"
    /\ IF given + ChunkChars <= told.length THEN given' = given + ChunkChars /\ UNCHANGED stage
       ELSE stage' = "settled" /\ UNCHANGED given
    /\ UNCHANGED <<using, attempts, replied, told>>
NextChunk ==
    /\ stage = "streaming"
    /\ IF given < told.length
       THEN given' = (IF given + ChunkChars < told.length THEN given + ChunkChars ELSE told.length)
            /\ UNCHANGED stage
       ELSE stage' = "settled" /\ UNCHANGED given
    /\ UNCHANGED <<using, attempts, replied, told>>

\* The caller goes on.
Return ==
    /\ stage = "settled"
    /\ using' = NoCaller /\ stage' = "idle" /\ attempts' = <<>> /\ replied' = <<>>
    /\ told' = None /\ given' = 0

SdkNext ==
    \/ \E c \in Options, o \in Orders : JsCall(c, o) \/ PyCall(c, o)
    \/ JsNoAttempt \/ PyNoAttempt
    \/ JsStart \/ PyStart \/ Leave
    \/ \E i \in DOMAIN replied, r \in Replies : GatewayAnswers(i, r)
    \/ \E code \in {"timeout", "network", "aborted"} : JsFails(code)
    \/ \E code \in {"timeout", "network"} : PyFails(code)
    \/ JsHead \/ PyBreaksOff
    \/ \E parsed \in BOOLEAN : JsBodyRead(parsed) \/ PyAnswered(parsed)
    \/ Backoff \/ NextChunk \/ Return

SdkSpec == SdkInit /\ [][SdkNext]_SdkVars
-----------------------------------------------------------------------------
(* Properties. *)

\* The caller is told how the last attempt ended and never of an answer to one
\* that was given up. There is another attempt only after one that is worth it -
\* a failed connection, a timeout, 429 or 5xx, not when a budget is exceeded - and no
\* more than the retries allow (the options in the READMEs of both clients).
AttemptsAreWarranted ==
    /\ \A i \in 1..Len(attempts) - 1 :
          \/ attempts[i].code \in {"timeout", "network"}
          \/ /\ replied[i] # None /\ attempts[i].code # "budget_exceeded"
             /\ replied[i].status = 429 \/ replied[i].status >= 500
    /\ attempts # <<>> => Len(attempts) <= Retries + 1
    /\ (told # None /\ attempts # <<>>) => told = Last(attempts) \/ told.code = "aborted"
    /\ (told # None /\ told.code = "ok") =>
          replied[Len(attempts)].status = 200 /\ told.length \in {0, replied[Len(attempts)].length}

\* Once a JavaScript caller has raised its signal no further attempt is sent
\* (attemptFetch), also when it was raised between two of them.
NothingAfterTheSignal ==
    (stage # "idle" /\ using.left # None /\ IsJs) => Len(attempts) <= using.left

\* A stream gives the whole of an answer (stream of both clients).
StreamIsWhole ==
    (stage = "settled" /\ told.code = "ok" /\ using.order.method = "stream") => given = told.length

\* The two libraries are one contract: what both accept they send alike, with as
\* many retries, but for an undefined that JavaScript leaves out.
ClientsAgree ==
    \A c \in Options, o \in Orders :
        (JsAccepts(c, o) /\ PyAccepts(c, o)) =>
            /\ JsRetries(c, o) = PyRetries(c, o)
            /\ (o.method \in Chatting /\ o.application # "undefined") => JsBody(c, o) = PyBody(c, o)

\* A call ends whatever the gateway does, if only what it has begun to answer
\* ends: the retries are bounded and each attempt has its timer.
CallSettles == stage # "idle" ~> stage = "settled"
=============================================================================
