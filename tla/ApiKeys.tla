------------------------------ MODULE ApiKeys --------------------------------
(* Gateway keys and read tokens: creation, edits, revocation, rotation by an *)
(* operator or by the key itself, the five-second cache every process checks   *)
(* them against, and events ingested under a key.                              *)
(* src/server/src: gateway/auth.js, api/routes/keys.js, api/routes/selfKey.js, *)
(* api/keyRotation.js, gateway/selfKeyAuth.js, gateway/readTokenAuth.js,        *)
(* gateway/ingest.js, models/ApiKey.js.                                         *)
EXTENDS Deployment

CONSTANTS MaxKeys,    \* bound on the keys ever made
          Bearers,    \* requests that carry a key
          Rotations,  \* rotations under way
          Events      \* external ids of ingested events

ASSUME KeysAssumption == MaxKeys \in Nat

VARIABLES keys,      \* ApiKey documents, in the order of their creation
          known,     \* the cached keys of each process, by id
          bearer,    \* requests under way
          rotation,  \* rotations under way
          ingested   \* records written for an event, by key

KeyVars == <<keys, known, bearer, rotation, ingested>>

Ids == 1..MaxKeys
Stranger == [pc |-> "idle", at |-> None, key |-> 0, door |-> None, read |-> {}, ok |-> FALSE]
Still == [pc |-> "idle", at |-> None, old |-> 0]

KeysInit ==
    /\ keys = <<>>
    /\ known = [p \in Processes |-> None]
    /\ bearer = [b \in Bearers |-> Stranger]
    /\ rotation = [q \in Rotations |-> Still]
    /\ ingested = [e \in Events |-> [k \in Ids |-> 0]]

Document(kind, root) == [st |-> "on", kind |-> kind, root |-> root]
UsableKeys == {k \in DOMAIN keys : keys[k].st = "on"}
Forget(p) == known' = [known EXCEPT ![p] = None]

-----------------------------------------------------------------------------
(* Routes of the console; each drops the cache of its own process. *)

CreateKey(p, kind) ==
    /\ Len(keys) < MaxKeys
    /\ keys' = Append(keys, Document(kind, Len(keys) + 1))
    /\ Forget(p)
    /\ UNCHANGED <<bearer, rotation, ingested>>

\* PATCH /keys/:id may disable and enable a key; what it does to one that was revoked
\* changes nothing, for a lookup wants revokedAt to be null.
PatchKey(p, k) ==
    /\ k \in DOMAIN keys
    /\ keys' = [keys EXCEPT ![k].st = CASE @ = "on" -> "off" [] @ = "off" -> "on" [] OTHER -> @]
    /\ Forget(p)
    /\ UNCHANGED <<bearer, rotation, ingested>>

\* DELETE /keys/:id; POST /v1/key/revoke does the same for the key that is presented.
RevokeKey(p, k) ==
    /\ k \in DOMAIN keys
    /\ keys' = [keys EXCEPT ![k].st = "revoked"]
    /\ Forget(p)
    /\ UNCHANGED <<bearer, rotation, ingested>>

-----------------------------------------------------------------------------
(* Rotation: the old key is revoked, then its replacement is made. *)

\* The operator's route refuses a key that is revoked when it is read; a key that rotates
\* itself has only been checked against the cache.
Rotate(q, p, k) ==
    /\ rotation[q] = Still /\ k \in DOMAIN keys
    /\ \/ keys[k].st # "revoked"
       \/ \E b \in Bearers :
             bearer[b].pc = "in" /\ bearer[b].door = "self" /\ bearer[b].key = k /\ bearer[b].ok
    /\ rotation' = [rotation EXCEPT ![q] = [pc |-> "revoke", at |-> p, old |-> k]]
    /\ UNCHANGED <<keys, known, bearer, ingested>>

\* Mutant: the old key is marked as rotated.
RevokeOld_Rotated(q) ==
    /\ rotation[q].pc = "revoke"
    /\ keys' = [keys EXCEPT ![rotation[q].old].st = "rotated"]
    /\ rotation' = [rotation EXCEPT ![q].pc = "mint"]
    /\ UNCHANGED <<known, bearer, ingested>>

RevokeOld(q) ==
    /\ rotation[q].pc = "revoke"
    /\ keys' = [keys EXCEPT ![rotation[q].old].st = "revoked"]
    /\ rotation' = [rotation EXCEPT ![q].pc = "mint"]
    /\ UNCHANGED <<known, bearer, ingested>>

\* Mutant: the kind of the old key is forgotten.
MintNew_Gateway(q) ==
    /\ rotation[q].pc = "mint" /\ Len(keys) < MaxKeys
    /\ keys' = Append(keys, Document("gateway", keys[rotation[q].old].root))
    /\ Forget(rotation[q].at)
    /\ rotation' = [rotation EXCEPT ![q] = Still]
    /\ UNCHANGED <<bearer, ingested>>

\* The replacement has the kind of the old key, and its settings.
MintNew(q) ==
    /\ rotation[q].pc = "mint" /\ Len(keys) < MaxKeys
    /\ keys' = Append(keys, Document(keys[rotation[q].old].kind, keys[rotation[q].old].root))
    /\ Forget(rotation[q].at)
    /\ rotation' = [rotation EXCEPT ![q] = Still]
    /\ UNCHANGED <<bearer, ingested>>

\* The store fails: before the revocation, or after it, which leaves no key at all.
RotationFails(q) ==
    /\ rotation[q] # Still
    /\ rotation' = [rotation EXCEPT ![q] = Still]
    /\ UNCHANGED <<keys, known, bearer, ingested>>

-----------------------------------------------------------------------------
(* Requests: middleware(), resolveKey(), resolveReadToken(), resolveAnyKey(). *)

\* expiresAt and the rates are checked on the same cached document and are left out.
\* A read token opens the usage API only, a gateway key the data plane only, and either
\* may manage itself.
Opens(kind, door) ==
    \/ door = "self"
    \/ (door = "usage" /\ kind = "read")
    \/ (door = "chat" /\ kind = "gateway")

Admits(list, k, door) == k \in list /\ Opens(keys[k].kind, door)

Present(b, p, k, door) ==
    /\ bearer[b] = Stranger /\ k \in DOMAIN keys
    /\ bearer' = [bearer EXCEPT ![b] =
                    [Stranger EXCEPT !.pc = IF known[p] = None THEN "read" ELSE "in", !.at = p, !.key = k, !.door = door,
                                     !.read = IF known[p] = None THEN UsableKeys ELSE {},
                                     !.ok = known[p] # None /\ Admits(known[p], k, door)]]
    /\ UNCHANGED <<keys, known, rotation, ingested>>

\* The enabled keys that were read become the cache, whatever was dropped meanwhile.
KeysRead(b) ==
    /\ bearer[b].pc = "read"
    /\ known' = [known EXCEPT ![bearer[b].at] = bearer[b].read]
    /\ bearer' = [bearer EXCEPT ![b].pc = "in", ![b].read = {},
                                ![b].ok = Admits(bearer[b].read, bearer[b].key, bearer[b].door)]
    /\ UNCHANGED <<keys, rotation, ingested>>

\* Mutant: what was read stays until somebody drops it.
KnownExpire_Never(p) == known[p] # None /\ UNCHANGED KeyVars

\* Five seconds have passed.
KnownExpire(p) ==
    /\ known[p] # None
    /\ Forget(p)
    /\ UNCHANGED <<keys, bearer, rotation, ingested>>

Times(n) == IF n = 2 THEN 2 ELSE n + 1

\* Mutant: every event gets an id of its own.
Ingest_Renamed(b, e) ==
    /\ bearer[b].pc = "in" /\ bearer[b].ok /\ bearer[b].door = "chat"
    /\ ingested' = [ingested EXCEPT ![e][bearer[b].key] = Times(@)]
    /\ UNCHANGED <<keys, known, bearer, rotation>>

\* POST /v1/ingest: the id of the key and that of the event name the record, and the
\* unique index turns a second one away. A batch goes on after an event that fails.
Ingest(b, e) ==
    /\ bearer[b].pc = "in" /\ bearer[b].ok /\ bearer[b].door = "chat"
    /\ ingested' = [ingested EXCEPT ![e][bearer[b].key] = 1]
    /\ UNCHANGED <<keys, known, bearer, rotation>>

Finish(b) ==
    /\ bearer[b].pc = "in"
    /\ bearer' = [bearer EXCEPT ![b] = Stranger]
    /\ UNCHANGED <<keys, known, rotation, ingested>>

-----------------------------------------------------------------------------
RotationStep(q) == RevokeOld(q) \/ MintNew(q) \/ RotationFails(q)
BearerStep(b) == KeysRead(b) \/ Finish(b)

KeysNext ==
    \/ \E p \in Processes, kind \in {"gateway", "read"} : CreateKey(p, kind)
    \/ \E p \in Processes, k \in Ids : PatchKey(p, k) \/ RevokeKey(p, k)
    \/ \E p \in Processes : KnownExpire(p)
    \/ \E q \in Rotations : RotationStep(q) \/ \E p \in Processes, k \in Ids : Rotate(q, p, k)
    \/ \E b \in Bearers : BearerStep(b) \/ \E e \in Events : Ingest(b, e)
    \/ \E b \in Bearers, p \in Processes, k \in Ids, door \in {"chat", "usage", "self"} : Present(b, p, k, door)

KeysSpec == KeysInit /\ [][KeysNext]_KeyVars

-----------------------------------------------------------------------------
(* Properties. *)

\* Statuses are those of the schema, and caches and requests name keys that were made.
KeysTypeOK ==
    /\ \A k \in DOMAIN keys : keys[k].st \in {"on", "off", "revoked"} /\ keys[k].root \in 1..k
    /\ \A p \in Processes : known[p] # None => known[p] \subseteq DOMAIN keys

\* A key that comes out of rotations opens the same doors as the one it began with, by
\* whichever route it was rotated (keyRotation.js:1-7, 18-30).
RotationKeepsKind == \A k \in DOMAIN keys : keys[k].kind = keys[keys[k].root].kind

\* A revoked key is turned away by every process in the end, though a process that was
\* reading keys when it was revoked takes it back into its cache (auth.js:29-36).
RevokedIsForgotten ==
    <>[](\A p \in Processes : known[p] # None => \A k \in known[p] : keys[k].st # "revoked")

\* An event that is sent again is recorded once under its key (ingest.js:15-19, 91-95).
IngestedOnce == \A e \in Events, k \in Ids : ingested[e][k] <= 1

\* What a key opens and what it has recorded stay with it through rotations and repeated
\* events (keyRotation.js, ingest.js).
KeysAreKept == RotationKeepsKind /\ IngestedOnce
=============================================================================
