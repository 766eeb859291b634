---------------------------- MODULE InternalCalls ----------------------------
(* Calls to models that are not routed: those Arbr makes for itself, tests of *)
(* a key, and embeddings. Each asks one provider, and is accounted for behind *)
(* the back of its caller.                                                    *)
(* src/server/src: internal/complete.js, providers/llm-router/index.js,       *)
(* api/routes/connections.js, api/routes/models.js, gateway/embeddings.js,    *)
(* logging/logger.js.                                                         *)
EXTENDS Deployment, SequencesExt

CONSTANTS Internals,     \* calls under way at a time
          KeysOf,        \* the keys of a connected provider, its default one first
          Embedders,     \* the provider an embedding model's name tells, or None
          Batching,      \* providers that count no tokens for several inputs
          TestedKeys     \* names of keys an operator may ask to test

VARIABLES outgoing,  \* what each call is at, and what its caller was told
          noted,     \* its records that are still to be written
          kept       \* its records in the store

InternalVars == <<outgoing, noted, kept>>

AtHome == [pc |-> "idle"]
InternalInit ==
    /\ outgoing = [c \in Internals |-> AtHome]
    /\ noted = [c \in Internals |-> <<>>] /\ kept = [c \in Internals |-> <<>>]

Connected == DOMAIN KeysOf
DefaultKeyOf(p) == KeysOf[p][1]

Begin(c, call) ==
    /\ outgoing[c] = AtHome /\ noted[c] = <<>>
    /\ outgoing' = [outgoing EXCEPT ![c] = call]
    /\ kept' = [kept EXCEPT ![c] = <<>>]
    /\ UNCHANGED noted

\* internalComplete on the shared router: a provider is named, with its default
\* key, and no dimension of a customer.
Complete(c, p) ==
    Begin(c, [pc |-> "trying", via |-> p, asked |-> p, wanted |-> None, key |-> DefaultKeyOf(p),
              internal |-> TRUE, application |-> None, inputs |-> 1, told |-> None])

\* Mutant: a key that is not there is tested with the default one.
KeyOfAlias_Default(p, alias) == IF alias \in Range(KeysOf[p]) THEN alias ELSE DefaultKeyOf(p)
\* credentialFor, whose fall back to the default key refuses the test.
KeyOfAlias(p, alias) ==
    IF alias = None THEN DefaultKeyOf(p) ELSE IF alias \in Range(KeysOf[p]) THEN alias ELSE None

\* The test of a connection or of a model: a router of its own with one provider,
\* which the call does not name.
Test(c, p, alias) ==
    /\ KeyOfAlias(p, alias) # None
    /\ Begin(c, [pc |-> "trying", via |-> p, asked |-> None, wanted |-> alias,
                 key |-> KeyOfAlias(p, alias), internal |-> TRUE, application |-> None, inputs |-> 1, told |-> None])

\* handleEmbeddings: for an unknown model (400) or a provider that is not
\* connected (503) nothing is called and nothing noted.
Embed(c, model, application, inputs) ==
    /\ Embedders[model] \in Connected
    /\ LET p == Embedders[model]
       IN  Begin(c, [pc |-> "trying", via |-> p, asked |-> p, wanted |-> None, key |-> DefaultKeyOf(p),
                     internal |-> FALSE, application |-> application, inputs |-> inputs, told |-> None])

Told(status, provider, tokens) == [status |-> status, provider |-> provider, tokens |-> tokens]
EntryOf(call, told) ==
    [status |-> told.status, provider |-> told.provider, tokens |-> told.tokens,
     internal |-> call.internal, application |-> call.application]

\* The caller is told, and a record is left to be written when it may.
Tell(c, told) ==
    /\ noted' = [noted EXCEPT ![c] = Append(@, EntryOf(outgoing[c], told))]
    /\ outgoing' = [outgoing EXCEPT ![c] = [@ EXCEPT !.pc = "told", !.told = told]]
    /\ UNCHANGED kept

\* The provider answers, with the tokens it counts.
CompletionAnswers(c, tokens) ==
    /\ outgoing[c].pc = "trying" /\ outgoing[c].internal
    /\ Tell(c, Told("success", outgoing[c].via, tokens))

\* Some count none when there are several inputs.
EmbeddingAnswers(c, tokens) ==
    /\ outgoing[c].pc = "trying" /\ ~outgoing[c].internal
    /\ (outgoing[c].via \in Batching /\ outgoing[c].inputs > 1) => tokens = 0
    /\ Tell(c, Told("success", outgoing[c].via, tokens))

\* Mutant: the call fails in its caller's own error path as well, which notes it again.
CompletionFails_NotedTwice(c) ==
    /\ outgoing[c].pc = "trying" /\ outgoing[c].internal
    /\ LET told == Told("failure", outgoing[c].asked, 0)
           e == EntryOf(outgoing[c], told)
       IN  /\ noted' = [noted EXCEPT ![c] = @ \o <<e, e>>]
           /\ outgoing' = [outgoing EXCEPT ![c] = [@ EXCEPT !.pc = "told", !.told = told]]
    /\ UNCHANGED kept
\* It fails: the error goes on to the caller, the record names what the call named.
CompletionFails(c) ==
    /\ outgoing[c].pc = "trying" /\ outgoing[c].internal
    /\ Tell(c, Told("failure", outgoing[c].asked, 0))

\* 502, and the record names the provider that was inferred.
EmbeddingFails(c) ==
    /\ outgoing[c].pc = "trying" /\ ~outgoing[c].internal
    /\ Tell(c, Told("failure", outgoing[c].via, 0))

\* logger.write lands, or its error is swallowed.
WriteLands(c) ==
    /\ noted[c] # <<>>
    /\ noted' = [noted EXCEPT ![c] = Tail(@)]
    /\ kept' = [kept EXCEPT ![c] = Append(@, noted[c][1])]
    /\ UNCHANGED outgoing

WriteSwallowed(c) ==
    /\ noted[c] # <<>> /\ noted' = [noted EXCEPT ![c] = Tail(@)]
    /\ UNCHANGED <<outgoing, kept>>

Leave(c) ==
    /\ outgoing[c].pc = "told" /\ outgoing' = [outgoing EXCEPT ![c] = AtHome]
    /\ UNCHANGED <<noted, kept>>

InternalNext ==
    \E c \in Internals :
        \/ \E p \in Connected : Complete(c, p) \/ \E k \in TestedKeys \cup {None} : Test(c, p, k)
        \/ \E m \in DOMAIN Embedders, n \in 1..2 : Embed(c, m, "app", n)
        \/ \E t \in 0..1 : CompletionAnswers(c, t) \/ EmbeddingAnswers(c, t)
        \/ CompletionFails(c) \/ EmbeddingFails(c)
        \/ WriteLands(c) \/ WriteSwallowed(c) \/ Leave(c)

InternalSpec == InternalInit /\ [][InternalNext]_InternalVars

-----------------------------------------------------------------------------
(* Properties. *)

\* No call is on record twice, and none before it is over: the record says what
\* the caller was told - the outcome, the provider, the tokens - and what Arbr
\* spends for itself is attributed to no application (complete.js:1-12).
SpendIsSeenOnce ==
    \A c \in Internals :
        LET records == noted[c] \o kept[c]
        IN  /\ outgoing[c].pc = "trying" => records = <<>>
            /\ outgoing[c].pc = "told" =>
                 /\ Len(records) <= 1
                 /\ \A e \in Range(records) :
                      /\ e = EntryOf(outgoing[c], outgoing[c].told)
                      /\ e.internal => e.application = None

\* A key that passed its test is the key that was asked for, so that an operator
\* may rely on it before any traffic is pinned to it (connections.js:126-127).
TestedIsAsked ==
    \A c \in Internals :
        (outgoing[c].pc = "told" /\ outgoing[c].wanted # None) =>
            outgoing[c].key = outgoing[c].wanted

CallsAreAccounted == SpendIsSeenOnce /\ TestedIsAsked
=============================================================================
