---------------------------- MODULE ModelRegistry ----------------------------
(* The registry of models: the rows operators create, edit, delete and import  *)
(* under a custom provider, the sync with the public catalogue, which works     *)
(* through them over many awaits, and the copy of the enabled rows in each       *)
(* process.                                                                      *)
(* src/server/src: pricing/registry.js, litellm/sync.js, livebench/sync.js,      *)
(* lmsys/sync.js, api/routes/models.js, api/routes/sync.js,                      *)
(* api/routes/customProviders.js, providers/importLogic.js.                      *)
EXTENDS Deployment

CONSTANTS ModelIds,   \* ids of models
          Catalogue,  \* ids of the curated catalogue, seeded as built-in at boot
          Admins,     \* admin requests under way
          MaxChanges  \* bound on admin requests and syncs

\* A document of ModelEntry.
RegistryRow == [provider : {"listed", "custom"}, builtIn : BOOLEAN, enabled : BOOLEAN,
                price : {"feed", "hand", "none"}]

\* The curated models have ids, and no value is no document.
ASSUME RegistryAssumption == Catalogue \subseteq ModelIds /\ None \notin RegistryRow

VARIABLES entries,     \* ModelEntry documents by id, or None
          wanted,   \* history: what the operators last wrote of a row
          admin,    \* admin requests
          sync,     \* the run of the sync
          copy,     \* the enabled rows in each process
          loads,    \* loads under way in each process, with what they have read
          changes   \* requests and syncs so far

RegistryVars == <<entries, wanted, admin, sync, copy, loads, changes>>

Row(provider, builtIn, price) ==
    [provider |-> provider, builtIn |-> builtIn, enabled |-> TRUE, price |-> price]
NoWish == [enabled |-> TRUE, byHand |-> FALSE]
NoAdmin == [pc |-> "none", kind |-> None, id |-> None, read |-> None]
NoSync == [pc |-> "none", listed |-> {}, read |-> {}]
EnabledRows == {m \in ModelIds : entries[m] # None /\ entries[m].enabled}

\* init(): the catalogue is seeded and the rows are loaded.
RegistryInit ==
    /\ entries = [m \in ModelIds |-> IF m \in Catalogue THEN Row("listed", TRUE, "feed") ELSE None]
    /\ wanted = [m \in ModelIds |-> NoWish]
    /\ admin = [a \in Admins |-> NoAdmin]
    /\ sync = NoSync
    /\ copy = [p \in Processes |-> EnabledRows]
    /\ loads = [p \in Processes |-> {}]
    /\ changes = 0

-----------------------------------------------------------------------------
(* Admin requests read the row first, write it, and reload the registry. *)

Kinds == {"create", "disable", "enable", "price", "delete", "import"}

ReadRow(a, kind, m) ==
    /\ changes < MaxChanges /\ admin[a] = NoAdmin
    /\ changes' = changes + 1
    /\ admin' = [admin EXCEPT ![a] = [pc |-> "write", kind |-> kind, id |-> m, read |-> entries[m]]]
    /\ UNCHANGED <<entries, wanted, sync, copy, loads>>

Write(a, row, wish) ==
    /\ entries' = [entries EXCEPT ![admin[a].id] = row]
    /\ wanted' = [wanted EXCEPT ![admin[a].id] = wish]
    /\ admin' = [admin EXCEPT ![a].pc = "reload"]

\* 404, 409, 400 for a built-in row, or a row that belongs to another provider.
Refuse(a) ==
    /\ admin' = [admin EXCEPT ![a] = NoAdmin]
    /\ UNCHANGED <<entries, wanted>>

\* POST /models, and the import of an id that nobody has: the id is unique.
CreateRow(a, provider, price) ==
    LET m == admin[a].id IN
    IF entries[m] # None THEN Refuse(a)
    ELSE Write(a, Row(provider, FALSE, price), [NoWish EXCEPT !.byHand = price = "hand"])

\* PATCH /models/:id: only what the request names is set, on a row that may have gone.
PatchRow(a) ==
    LET m == admin[a].id  kind == admin[a].kind IN
    IF admin[a].read = None THEN Refuse(a)
    ELSE IF entries[m] = None THEN admin' = [admin EXCEPT ![a].pc = "reload"] /\ UNCHANGED <<entries, wanted>>
    ELSE IF kind = "price" THEN Write(a, [entries[m] EXCEPT !.price = "hand"], [wanted[m] EXCEPT !.byHand = TRUE])
    ELSE Write(a, [entries[m] EXCEPT !.enabled = kind = "enable"], [wanted[m] EXCEPT !.enabled = kind = "enable"])

\* DELETE /models/:id.
DeleteRow(a) ==
    IF admin[a].read = None THEN Refuse(a)
    ELSE IF admin[a].read.builtIn THEN Refuse(a) ELSE Write(a, None, NoWish)

\* POST /custom-providers/:id/models: an orphan of the public catalogue is adopted with its
\* price, a row of the provider itself is left, and a built-in one is a conflict.
ImportRow(a) ==
    LET m == admin[a].id  read == admin[a].read IN
    IF read = None THEN CreateRow(a, "custom", "none")
    ELSE IF read.provider = "custom" \/ read.builtIn \/ entries[m] = None
    THEN admin' = [admin EXCEPT ![a].pc = "reload"] /\ UNCHANGED <<entries, wanted>>
    ELSE Write(a, [entries[m] EXCEPT !.provider = "custom", !.enabled = TRUE], [enabled |-> TRUE, byHand |-> entries[m].price = "hand"])

WriteRow(a) ==
    /\ admin[a].pc = "write"
    /\ CASE admin[a].kind = "create" -> \E provider \in {"custom", "listed"} : CreateRow(a, provider, "hand")
         [] admin[a].kind = "delete" -> DeleteRow(a)
         [] admin[a].kind = "import" -> ImportRow(a)
         [] OTHER -> PatchRow(a)
    /\ UNCHANGED <<sync, copy, loads, changes>>

Reload(a, p) ==
    /\ admin[a].pc = "reload"
    /\ admin' = [admin EXCEPT ![a] = NoAdmin]
    /\ loads' = [loads EXCEPT ![p] = @ \cup {EnabledRows}]
    /\ UNCHANGED <<entries, wanted, sync, copy, changes>>

-----------------------------------------------------------------------------
(* litellm/sync.run(); those of LiveBench and LMSYS are like its last part. *)

\* The catalogue has been fetched, and the ids that are stored have been read.
FetchCatalogue(listed) ==
    /\ sync = NoSync /\ changes < MaxChanges
    /\ changes' = changes + 1
    /\ sync' = [pc |-> "insert", listed |-> listed,
                read |-> {m \in ModelIds : entries[m] # None /\ entries[m].provider = "listed"}]
    /\ UNCHANGED <<entries, wanted, admin, copy, loads>>

\* Discover: what is new is inserted, and a duplicate id fails alone.
InsertMany ==
    LET new == {m \in sync.listed \ sync.read : entries[m] = None} IN
    /\ sync.pc = "insert"
    /\ entries' = [m \in ModelIds |-> IF m \in new THEN Row("listed", FALSE, "feed") ELSE entries[m]]
    /\ wanted' = [m \in ModelIds |-> IF m \in new THEN NoWish ELSE wanted[m]]
    /\ sync' = [sync EXCEPT !.pc = "find"]
    /\ UNCHANGED <<admin, copy, loads, changes>>

\* Clean up: the rows of the providers the catalogue knows that it no longer lists.
FindStale ==
    /\ sync.pc = "find"
    /\ sync' = [sync EXCEPT !.pc = "delete",
                            !.read = {m \in ModelIds \ sync.listed : entries[m] # None /\ entries[m].provider = "listed"}]
    /\ UNCHANGED <<entries, wanted, admin, copy, loads, changes>>

\* Mutant: all of them go.
DeleteStale_All ==
    /\ sync.pc = "delete"
    /\ entries' = [m \in ModelIds |-> IF m \in sync.read THEN None ELSE entries[m]]
    /\ wanted' = [m \in ModelIds |-> IF m \in sync.read THEN NoWish ELSE wanted[m]]
    /\ sync' = [sync EXCEPT !.pc = "all"]
    /\ UNCHANGED <<admin, copy, loads, changes>>

\* They are deleted by id, built-in rows excepted.
DeleteStale ==
    LET stale == {m \in sync.read : entries[m] # None /\ ~entries[m].builtIn} IN
    /\ sync.pc = "delete"
    /\ entries' = [m \in ModelIds |-> IF m \in stale THEN None ELSE entries[m]]
    /\ wanted' = [m \in ModelIds |-> IF m \in stale THEN NoWish ELSE wanted[m]]
    /\ sync' = [sync EXCEPT !.pc = "all"]
    /\ UNCHANGED <<admin, copy, loads, changes>>

\* Refresh: every row is read, and those that are listed are updated one by one.
FindAll ==
    /\ sync.pc = "all"
    /\ sync' = [sync EXCEPT !.pc = "refresh",
                            !.read = {m \in sync.listed : entries[m] # None /\ entries[m].provider = "listed"}]
    /\ UNCHANGED <<entries, wanted, admin, copy, loads, changes>>

\* Mutant: a refreshed row is enabled again.
RefreshRow_Enables(m) ==
    /\ sync.pc = "refresh" /\ m \in sync.read
    /\ entries' = IF entries[m] = None THEN entries
               ELSE IF entries[m].provider # "listed" THEN entries
               ELSE [entries EXCEPT ![m].price = "feed", ![m].enabled = TRUE]
    /\ sync' = [sync EXCEPT !.read = @ \ {m}]
    /\ UNCHANGED <<wanted, admin, copy, loads, changes>>

\* The update names the id and the provider, and sets neither tier nor enabled.
RefreshRow(m) ==
    /\ sync.pc = "refresh" /\ m \in sync.read
    /\ entries' = IF entries[m] = None THEN entries
               ELSE IF entries[m].provider # "listed" THEN entries ELSE [entries EXCEPT ![m].price = "feed"]
    /\ sync' = [sync EXCEPT !.read = @ \ {m}]
    /\ UNCHANGED <<wanted, admin, copy, loads, changes>>

\* The dates go into the settings, and the route reloads the registry.
SyncEnds(p) ==
    /\ sync.pc = "refresh" /\ sync.read = {}
    /\ sync' = NoSync
    /\ loads' = [loads EXCEPT ![p] = @ \cup {EnabledRows}]
    /\ UNCHANGED <<entries, wanted, admin, copy, changes>>

\* A fetch or a query throws; what was written before stays.
RequestFails ==
    /\ \/ sync # NoSync /\ sync' = NoSync /\ UNCHANGED admin
       \/ \E a \in Admins : admin[a] # NoAdmin /\ admin' = [admin EXCEPT ![a] = NoAdmin] /\ UNCHANGED sync
    /\ UNCHANGED <<entries, wanted, copy, loads, changes>>

-----------------------------------------------------------------------------
(* _load(): the query of the enabled rows, and its result. *)

\* Mutant: the timer loads nothing.
Load_Never(p) == loads[p] = {} /\ UNCHANGED RegistryVars

\* The timer of startAutoRefresh(); ensureLoaded() does the same when the copy is old.
Load(p) ==
    /\ loads[p] = {}
    /\ loads' = [loads EXCEPT ![p] = {EnabledRows}]
    /\ UNCHANGED <<entries, wanted, admin, sync, copy, changes>>

\* Loads may end in any order.
Loaded(p) ==
    /\ \E read \in loads[p] :
          copy' = [copy EXCEPT ![p] = read] /\ loads' = [loads EXCEPT ![p] = @ \ {read}]
    /\ UNCHANGED <<entries, wanted, admin, sync, changes>>

-----------------------------------------------------------------------------
SyncStep ==
    \/ InsertMany \/ FindStale \/ DeleteStale \/ FindAll
    \/ \E m \in ModelIds : RefreshRow(m)
    \/ \E p \in Processes : SyncEnds(p)

AdminStep(a) == WriteRow(a) \/ \E p \in Processes : Reload(a, p)

RegistryNext ==
    \/ \E a \in Admins, kind \in Kinds, m \in ModelIds : ReadRow(a, kind, m)
    \/ \E a \in Admins : AdminStep(a)
    \/ \E listed \in SUBSET ModelIds : FetchCatalogue(listed)
    \/ SyncStep \/ RequestFails
    \/ \E p \in Processes : Load(p) \/ Loaded(p)

RegistrySpec == RegistryInit /\ [][RegistryNext]_RegistryVars

-----------------------------------------------------------------------------
(* Properties. *)

\* The built-in rows stay, whatever the public catalogue lists when it is synced and
\* whatever operators delete (registry.js:107-114, models.js:116).
BuiltInStays == \A m \in Catalogue : entries[m] # None

\* A sync leaves alone what belongs to the operators: whether a row is enabled, and the price
\* they gave a row of a custom provider, also one that was adopted while the sync was working
\* through the rows it had read (litellm/sync.js:13).
OperatorsRows ==
    \A m \in ModelIds : entries[m] # None =>
        /\ entries[m].enabled = wanted[m].enabled
        /\ entries[m].provider = "custom" /\ wanted[m].byHand => entries[m].price = "hand"

\* Every process comes to know the enabled rows, although a load that began before an edit
\* may end after the one that follows it (registry.js:84-88).
CopiesFollow == <>[](\A p \in Processes : copy[p] = EnabledRows)

\* Syncs, operators and removals leave each other's rows alone (litellm/sync.js, models.js).
RowsAreKept == BuiltInStays /\ OperatorsRows
=============================================================================
