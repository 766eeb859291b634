---------------------------- MODULE AnswerCaches -----------------------------
(* The two caches of answers of a gateway process: the exact one, a bounded    *)
(* map shared by all tenants, and the semantic one, a bounded map per tenant    *)
(* that is searched and filled across an embedding call; with the output        *)
(* guardrail that every answer passes, whichever way it comes.                   *)
(* src/server/src: routing/responseCache.js, routing/semanticCache.js,           *)
(* db/context.js, gateway/handler.js.                                            *)
EXTENDS Deployment, SequencesExt

CONSTANTS Tenants,     \* databases
          Prompts,     \* messages arrays, each with the model that was decided for it
          Chats,       \* requests under way
          MaxEntries,  \* capacity of each cache
          CacheTtl     \* lifetime of an entry, in units of time

ASSUME CacheAssumption == MaxEntries \in Nat \ {0} /\ CacheTtl \in Nat

VARIABLES exact,  \* responseCache: entries in the order of their insertion
          near,   \* semanticCache: the same for every tenant
          chat    \* requests under way

CacheVars == <<exact, near, chat>>

NoChat == [pc |-> "none", tenant |-> None, prompt |-> None, strict |-> FALSE, value |-> None]

CacheInit ==
    /\ exact = <<>>
    /\ near = [t \in Tenants |-> <<>>]
    /\ chat = [c \in Chats |-> NoChat]

\* An answer knows the tenant it was made for, whether a guardrail would bar it, and how
\* long it may still be served.
Texts(t) == [for : {t}, barred : BOOLEAN, left : {CacheTtl}]

-----------------------------------------------------------------------------
(* The maps. *)

\* Mutant: the key is the model and the messages.
CacheKey_Global(t, prompt) == prompt

\* The name of the database is part of what is hashed.
CacheKey(t, prompt) == <<t, prompt>>

Position(store, key) == SelectInSeq(store, LAMBDA entry : entry.key = key)

\* Mutant: room is made only when there is one entry too many.
Room_Late(store) == IF Len(store) > MaxEntries THEN Tail(store) ELSE store

\* At capacity the oldest entry goes, even when the key to insert is there.
Room(store) == IF Len(store) >= MaxEntries THEN Tail(store) ELSE store

\* An entry that is there keeps its place in the order.
Inserted(store, key, value) ==
    LET kept == Room(store)
        at == Position(kept, key)
        entry == [key |-> key, value |-> value] IN
    IF at = 0 THEN Append(kept, entry) ELSE [kept EXCEPT ![at] = entry]

\* Mutant: an entry that is found is good.
Young_Always(value) == TRUE

Young(value) == value.left >= 0

\* A scan drops what has expired, and keeps the order of the rest.
Unexpired(store) ==
    LET kept[n \in 0..Len(store)] ==
            IF n = 0 THEN <<>>
            ELSE IF Young(store[n]) THEN Append(kept[n - 1], store[n])
            ELSE kept[n - 1]
    IN  kept[Len(store)]

-----------------------------------------------------------------------------
(* A request, once its model has been decided. *)

To(c, pc, value) == chat' = [chat EXCEPT ![c].pc = pc, ![c].value = value]

\* Mutant: what was stored was checked when it was made.
Deliver_Cached(c, value) == To(c, "served", value)

\* A cached answer passes the rules that hold for this request, like a new one.
DeliverHit(c, value) ==
    To(c, IF chat[c].strict /\ value.barred THEN "blocked" ELSE "served", value)

Enter(c, t, prompt, strict) ==
    /\ chat[c] = NoChat
    /\ chat' = [chat EXCEPT ![c] = [pc |-> "exact", tenant |-> t, prompt |-> prompt, strict |-> strict, value |-> None]]
    /\ UNCHANGED <<exact, near>>

\* responseCache.get(): an entry that has expired is deleted.
LookUpExact(c) ==
    LET at == Position(exact, CacheKey(chat[c].tenant, chat[c].prompt)) IN
    /\ chat[c].pc = "exact"
    /\ IF at = 0 THEN To(c, "near", None) /\ UNCHANGED exact
       ELSE IF Young(exact[at].value) THEN DeliverHit(c, exact[at].value) /\ UNCHANGED exact
       ELSE To(c, "near", None) /\ exact' = RemoveAt(exact, at)
    /\ UNCHANGED near

\* semanticCache.get() once the prompt is embedded: what has expired is dropped, and the
\* nearest entry is served when it is near enough.
LookUpNear(c) ==
    LET t == chat[c].tenant
        live == Unexpired(near[t]) IN
    /\ chat[c].pc = "near"
    /\ near' = [near EXCEPT ![t] = live]
    /\ \/ To(c, "call", None)
       \/ \E i \in DOMAIN live : DeliverHit(c, live[i])
    /\ UNCHANGED exact

\* The cache is empty or switched off, or the embedding fails.
SkipNear(c) ==
    /\ chat[c].pc = "near"
    /\ To(c, "call", None)
    /\ UNCHANGED <<exact, near>>

\* The provider answers: what a guardrail bars is neither delivered nor stored. After the
\* response the exact cache is written at once.
CallReturns(c) ==
    /\ chat[c].pc = "call"
    /\ \E value \in Texts(chat[c].tenant) :
          IF chat[c].strict /\ value.barred THEN To(c, "blocked", value) /\ UNCHANGED exact
          ELSE /\ To(c, "store", value)
               /\ exact' = Inserted(exact, CacheKey(chat[c].tenant, chat[c].prompt), value)
    /\ UNCHANGED near

\* semanticCache.set() once the prompt is embedded: every entry gets a key of its own.
StoreNear(c) ==
    /\ chat[c].pc = "store"
    /\ near' = [near EXCEPT ![chat[c].tenant] = Append(Room(@), chat[c].value)]
    /\ To(c, "served", chat[c].value)
    /\ UNCHANGED exact

\* It is switched off, or the embedding fails.
SkipStore(c) ==
    /\ chat[c].pc = "store"
    /\ To(c, "served", chat[c].value)
    /\ UNCHANGED <<exact, near>>

Returned(c) ==
    /\ chat[c].pc \in {"served", "blocked", "call"}
    /\ chat' = [chat EXCEPT ![c] = NoChat]
    /\ UNCHANGED <<exact, near>>

Older(value) == [value EXCEPT !.left = IF @ < 0 THEN @ ELSE @ - 1]

\* A unit of time passes.
Pass ==
    /\ exact' = [i \in DOMAIN exact |-> [exact[i] EXCEPT !.value = Older(@)]]
    /\ near' = [t \in Tenants |-> [i \in DOMAIN near[t] |-> Older(near[t][i])]]
    /\ UNCHANGED chat

-----------------------------------------------------------------------------
CacheNext ==
    \/ \E c \in Chats, t \in Tenants, prompt \in Prompts, strict \in BOOLEAN : Enter(c, t, prompt, strict)
    \/ \E c \in Chats : LookUpExact(c) \/ LookUpNear(c) \/ SkipNear(c) \/ CallReturns(c)
    \/ \E c \in Chats : StoreNear(c) \/ SkipStore(c) \/ Returned(c)
    \/ Pass

CacheSpec == CacheInit /\ [][CacheNext]_CacheVars

-----------------------------------------------------------------------------
(* Properties. *)

Served(c) == chat[c].pc = "served"

\* An answer is only served to the tenant it was made for: the exact cache holds the answers
\* of all of them side by side (responseCache.js:13-15, "a cached response is NEVER served
\* across tenants").
AnswersAreOwn == \A c \in Chats : Served(c) => chat[c].value.for = chat[c].tenant

\* Nothing is served past its lifetime, whichever cache it comes from and whatever was
\* stored, dropped or looked up meanwhile (responseCache.js:28-31, semanticCache.js:80-84).
AnswersAreFresh == \A c \in Chats : Served(c) => chat[c].value.left >= 0

\* Neither cache outgrows its capacity, though answers are stored by requests that were
\* under way together (responseCache.js:36-40, semanticCache.js:128-131).
CachesBounded == Len(exact) <= MaxEntries /\ \A t \in Tenants : Len(near[t]) <= MaxEntries

\* What a guardrail of the request bars is not served to it, though the cache may hold it
\* from a request that had no such rule (handler.js:606-607, 751-753).
BarredIsNotServed == \A c \in Chats : Served(c) /\ chat[c].strict => ~chat[c].value.barred

\* What either cache serves is the tenant's own, fresh and allowed to the request, and the
\* caches stay within bounds (responseCache.js, semanticCache.js).
CachesAreSound == AnswersAreOwn /\ AnswersAreFresh /\ CachesBounded /\ BarredIsNotServed
=============================================================================
