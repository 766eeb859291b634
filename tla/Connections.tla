----------------------------- MODULE Connections -----------------------------
(* The keys of one provider: rows of the store under an alias, one of them   *)
(* the default, a key of the environment that outranks them and a custom     *)
(* provider that replaces them all. Each process keeps a view of them for     *)
(* three seconds and a router built from a view.                              *)
(* src/server/src: providers/connections.js, providers/router.js,             *)
(* api/routes/connections.js, api/routes/customProviders.js,                  *)
(* security/secretResolver.js.                                                *)
EXTENDS Deployment

CONSTANTS KeyNames,      \* aliases of stored keys; "default" is one of them
          Callers,       \* requests and reads of the console
          Owners,        \* administrators
          KeyChanges,    \* bound on the changes of keys
          TailIsCommon   \* credentials end in the same twelve characters (AWS: the region)

ASSUME KeyAssumption == "default" \in KeyNames /\ "env" \notin KeyNames

VARIABLES rows,      \* ProviderCredential documents, by alias
          custom,    \* the enabled CustomProvider that shadows the provider, or None
          envKey,    \* what each process resolved from its environment, or None
          views,     \* cached view of each process
          routers,   \* memoized router of each process
          caller,    \* calls under way
          owner,     \* changes under way
          minted     \* keys made so far

ConnVars == <<rows, custom, envKey, views, routers, caller, owner, minted>>

Key(home, no) == [home |-> home, no |-> no]
Keys == [home : {"builtin", "custom"}, no : 1..KeyChanges + 1]

\* What the credentials of a builtin provider may all end in.
CommonTail == Key("builtin", 0)
Tails == Keys \cup {CommonTail}

\* No value is neither an alias, nor a key, nor the signature of one.
ASSUME ConnAssumption ==
    /\ KeyChanges \in Nat
    /\ None \notin KeyNames /\ None # "env" /\ None \notin Keys
    /\ None \notin (KeyNames \cup {"env"}) \X Tails

Dark == [keys |-> [a \in KeyNames \cup {"env"} |-> None], default |-> None, host |-> None]
NoRouter == [sig |-> None, key |-> None, host |-> None]
AtRest == [pc |-> "idle", at |-> None, rows |-> None, view |-> Dark, pin |-> None, sent |-> NoRouter]
Settled == [op |-> "none", pc |-> "idle", at |-> None, alias |-> None, top |-> FALSE]

ConnInit ==
    /\ rows = [a \in KeyNames |-> None]
    /\ custom = None
    /\ envKey = [p \in Processes |-> None]
    /\ views = [p \in Processes |-> None]
    /\ routers = [p \in Processes |-> NoRouter]
    /\ caller = [c \in Callers |-> AtRest]
    /\ owner = [o \in Owners |-> Settled]
    /\ minted = 0

-----------------------------------------------------------------------------
(* The effective view. *)

StoredNames(r) == {a \in KeyNames : r[a] # None}

\* Mutant: only a row that is flagged can be the default.
Preferred_Flagged(r) ==
    IF \E a \in KeyNames : r[a] # None /\ r[a].top
    THEN CHOOSE a \in KeyNames : r[a] # None /\ r[a].top ELSE None

\* byDefaultPreference: flagged rows first, then the alias "default", then a fixed order.
Preferred(r) ==
    LET flagged == {a \in StoredNames(r) : r[a].top}
        best == IF flagged # {} THEN flagged ELSE StoredNames(r)
    IN  IF "default" \in best THEN "default" ELSE CHOOSE a \in best : TRUE

\* compute(), for rows read first and an environment key merged last.
BuiltinView(r, e) ==
    LET names == StoredNames(r)
    IN  IF names = {} /\ e = None THEN Dark
        ELSE [keys |-> [a \in KeyNames \cup {"env"} |->
                           IF a = "env" THEN e ELSE IF a \in names THEN r[a].key ELSE None],
              default |-> IF e # None THEN "env" ELSE Preferred(r),
              host |-> "builtin"]

\* Mutant: the custom row inherits the aliases of the provider it shadows.
Shadowing_Inherits(view, key) ==
    IF key = None THEN view
    ELSE [keys |-> [view.keys EXCEPT !["default"] = key], default |-> "default", host |-> "custom"]

\* An enabled custom provider of the same id replaces keys and base URL together.
Shadowing(view, key) ==
    IF key = None THEN view
    ELSE [keys |-> [Dark.keys EXCEPT !["default"] = key], default |-> "default", host |-> "custom"]

\* credentialFor: an unknown alias gets the default key.
CredentialOf(view, pin) ==
    IF pin # None /\ view.keys[pin] # None THEN view.keys[pin] ELSE view.keys[view.default]

LastTwelve(key) == IF TailIsCommon /\ key.home = "builtin" THEN CommonTail ELSE key

\* Mutant: the alias alone tells keys apart.
Signature_Alias(view) == <<view.default, "key">>

\* signatureOf, toRouterConfig.
Signature(view) == <<view.default, LastTwelve(view.keys[view.default])>>

\* getRouter: rebuilt when the signature is not that of the memoized one.
RouterFor(memo, view) ==
    IF memo.sig = Signature(view) THEN memo
    ELSE [sig |-> Signature(view), key |-> view.keys[view.default], host |-> view.host]

\* credentialOverrideFor: a pinned key is passed only when it is not the default's;
\* model and base URL stay those of the router.
Dispatch(router, view, pin) ==
    IF pin = None \/ view.keys[pin] = None \/ pin = view.default THEN router
    ELSE [router EXCEPT !.key = view.keys[pin]]

-----------------------------------------------------------------------------
(* Calls: effective() and getRouter(). *)

\* The router is chosen without awaiting anything after the view is known; in demo
\* mode (no key at all) it is dropped.
UseView(c, p, view, pin) ==
    LET router == IF view = Dark THEN NoRouter ELSE RouterFor(routers[p], view)
    IN  /\ routers' = [routers EXCEPT ![p] = router]
        /\ caller' = [caller EXCEPT ![c] =
                        [AtRest EXCEPT !.pc = "sent", !.at = p, !.view = view, !.pin = pin,
                                       !.sent = IF view = Dark THEN router ELSE Dispatch(router, view, pin)]]

Hit(c, p, pin) ==
    /\ caller[c].pc = "idle" /\ views[p] # None
    /\ UseView(c, p, views[p], pin)
    /\ UNCHANGED <<rows, custom, envKey, views, owner, minted>>

\* The rows are read, then the settings, then the custom providers.
Miss(c, p) ==
    /\ caller[c].pc = "idle" /\ views[p] = None
    /\ caller' = [caller EXCEPT ![c] = [AtRest EXCEPT !.pc = "rows", !.at = p, !.rows = rows]]
    /\ UNCHANGED <<rows, custom, envKey, views, routers, owner, minted>>

Merge(c) ==
    /\ caller[c].pc = "rows"
    /\ LET view == Shadowing(BuiltinView(caller[c].rows, envKey[caller[c].at]), custom)
       IN  caller' = [caller EXCEPT ![c].pc = "fill", ![c].rows = None, ![c].view = view]
    /\ UNCHANGED <<rows, custom, envKey, views, routers, owner, minted>>

\* What was read becomes the fresh view, whatever was invalidated meanwhile.
FillView(c, pin) ==
    /\ caller[c].pc = "fill"
    /\ views' = [views EXCEPT ![caller[c].at] = caller[c].view]
    /\ UseView(c, caller[c].at, caller[c].view, pin)
    /\ UNCHANGED <<rows, custom, envKey, owner, minted>>

Over(c) ==
    /\ caller[c].pc = "sent"
    /\ caller' = [caller EXCEPT ![c] = AtRest]
    /\ UNCHANGED <<rows, custom, envKey, views, routers, owner, minted>>

\* Mutant: what was filled stays until somebody invalidates it.
ViewExpires_Never(p) == views[p] # None /\ UNCHANGED ConnVars

\* Three seconds have passed.
ViewExpires(p) ==
    /\ views[p] # None
    /\ views' = [views EXCEPT ![p] = None]
    /\ UNCHANGED <<rows, custom, envKey, routers, caller, owner, minted>>

-----------------------------------------------------------------------------
(* Changes, each served by a process that drops its own view at the end. *)

Working(o, op, pc) == owner[o].op = op /\ owner[o].pc = pc
Then(o, pc) == owner' = [owner EXCEPT ![o].pc = pc]
Mint(home) == Key(home, minted + 1)
Forward(o) == minted < KeyChanges /\ owner[o] = Settled

\* setCredential: the first key of a provider becomes its default, or the caller asks.
SetCredential(o, p, a, asked) ==
    /\ Forward(o)
    /\ LET top == asked \/ StoredNames(rows) = {}
       IN  owner' = [owner EXCEPT ![o] = [op |-> "set", pc |-> IF top THEN "clear" ELSE "store",
                                          at |-> p, alias |-> a, top |-> top]]
    /\ UNCHANGED <<rows, custom, envKey, views, routers, caller, minted>>

\* setDefaultCredential finds the row first, and fails when there is none.
SetDefault(o, p, a) ==
    /\ owner[o] = Settled /\ rows[a] # None
    /\ owner' = [owner EXCEPT ![o] = [op |-> "top", pc |-> "clear", at |-> p, alias |-> a, top |-> TRUE]]
    /\ UNCHANGED <<rows, custom, envKey, views, routers, caller, minted>>

Unflagged(r) == [a \in KeyNames |-> IF r[a] = None THEN None ELSE [r[a] EXCEPT !.top = FALSE]]

\* updateMany({ isDefault: false })
ClearDefaults(o) ==
    /\ owner[o].pc = "clear"
    /\ rows' = Unflagged(rows)
    /\ Then(o, IF owner[o].op = "set" THEN "store" ELSE "flag")
    /\ UNCHANGED <<custom, envKey, views, routers, caller, minted>>

\* The upsert; an existing row keeps its flag unless the key is to be the default.
StoreKey(o) ==
    /\ owner[o].pc = "store" /\ minted < KeyChanges
    /\ LET a == owner[o].alias
       IN  rows' = [rows EXCEPT ![a] = [key |-> Mint("builtin"),
                                        top |-> owner[o].top \/ (rows[a] # None /\ rows[a].top)]]
    /\ minted' = minted + 1
    /\ Then(o, "drop")
    /\ UNCHANGED <<custom, envKey, views, routers, caller>>

\* updateOne({ isDefault: true }) by id: nothing when the row has gone meanwhile.
FlagDefault(o) ==
    /\ owner[o].pc = "flag"
    /\ rows' = [rows EXCEPT ![owner[o].alias] = IF @ = None THEN None ELSE [@ EXCEPT !.top = TRUE]]
    /\ Then(o, "drop")
    /\ UNCHANGED <<custom, envKey, views, routers, caller, minted>>

\* DELETE .../keys/:alias, refused by the route while a rule or an application pins the
\* key; the row is found, then deleted.
RemoveKey(o, p, a) ==
    /\ owner[o] = Settled /\ rows[a] # None
    /\ owner' = [owner EXCEPT ![o] = [op |-> "remove", pc |-> "delete", at |-> p, alias |-> a,
                                      top |-> rows[a].top]]
    /\ UNCHANGED <<rows, custom, envKey, views, routers, caller, minted>>

\* Mutant: the row is emptied rather than deleted.
DeleteKey_Empties(o) ==
    /\ owner[o].pc = "delete"
    /\ rows' = [rows EXCEPT ![owner[o].alias].key = None]
    /\ Then(o, "drop")
    /\ UNCHANGED <<custom, envKey, views, routers, caller, minted>>

DeleteKey(o) ==
    /\ owner[o].pc = "delete"
    /\ rows' = [rows EXCEPT ![owner[o].alias] = None]
    /\ Then(o, IF owner[o].top THEN "succeed" ELSE "drop")
    /\ UNCHANGED <<custom, envKey, views, routers, caller, minted>>

\* A successor is chosen among the rest, and flagged a step later.
Succeed(o) ==
    /\ owner[o].pc = "succeed"
    /\ IF StoredNames(rows) = {} THEN Then(o, "drop")
       ELSE owner' = [owner EXCEPT ![o].pc = "flag", ![o].alias = Preferred(rows)]
    /\ UNCHANGED <<rows, custom, envKey, views, routers, caller, minted>>

\* DELETE /connections/:provider removes every stored key.
Disconnect(o, p) ==
    /\ owner[o] = Settled /\ StoredNames(rows) # {}
    /\ rows' = [a \in KeyNames |-> None]
    /\ owner' = [owner EXCEPT ![o] = [Settled EXCEPT !.op = "disconnect", !.pc = "drop", !.at = p]]
    /\ UNCHANGED <<custom, envKey, views, routers, caller, minted>>

\* POST, PATCH (a new key, enabled or not) and DELETE of the custom provider.
ChangeCustom(o, p) ==
    /\ owner[o] = Settled
    /\ \/ /\ minted < KeyChanges
          /\ custom' = Mint("custom") /\ minted' = minted + 1
       \/ custom # None /\ custom' = None /\ UNCHANGED minted
    /\ owner' = [owner EXCEPT ![o] = [Settled EXCEPT !.op = "custom", !.pc = "drop", !.at = p]]
    /\ UNCHANGED <<rows, envKey, views, routers, caller>>

\* refreshAll reads the managed secret again, keeping the last value when that fails.
RefreshSecrets(o, p) ==
    /\ Forward(o)
    /\ envKey' = [envKey EXCEPT ![p] = Mint("builtin")]
    /\ minted' = minted + 1
    /\ owner' = [owner EXCEPT ![o] = [Settled EXCEPT !.op = "secret", !.pc = "drop", !.at = p]]
    /\ UNCHANGED <<rows, custom, views, routers, caller>>

Invalidate(o) ==
    /\ owner[o].pc = "drop"
    /\ views' = [views EXCEPT ![owner[o].at] = None]
    /\ owner' = [owner EXCEPT ![o] = Settled]
    /\ UNCHANGED <<rows, custom, envKey, routers, caller, minted>>

\* The store fails one of the calls: what was written stays, and no view is dropped.
ChangeFails(o) ==
    /\ owner[o].pc \notin {"idle", "drop"}
    /\ owner' = [owner EXCEPT ![o] = Settled]
    /\ UNCHANGED <<rows, custom, envKey, views, routers, caller, minted>>

-----------------------------------------------------------------------------
Pins == KeyNames \cup {"env", None}
CallStep(c) == Merge(c) \/ Over(c) \/ \E pin \in Pins : FillView(c, pin)
ChangeStep(o) ==
    \/ ClearDefaults(o) \/ StoreKey(o) \/ FlagDefault(o) \/ DeleteKey(o)
    \/ Succeed(o) \/ Invalidate(o) \/ ChangeFails(o)

ConnNext ==
    \/ \E c \in Callers : CallStep(c)
    \/ \E c \in Callers, p \in Processes : Miss(c, p) \/ \E pin \in Pins : Hit(c, p, pin)
    \/ \E p \in Processes : ViewExpires(p)
    \/ \E o \in Owners : ChangeStep(o)
    \/ \E o \in Owners, p \in Processes :
          \/ Disconnect(o, p) \/ ChangeCustom(o, p) \/ RefreshSecrets(o, p)
          \/ \E a \in KeyNames : SetDefault(o, p, a) \/ RemoveKey(o, p, a)
                                 \/ \E asked \in BOOLEAN : SetCredential(o, p, a, asked)

ConnSpec == ConnInit /\ [][ConnNext]_ConnVars

-----------------------------------------------------------------------------
(* Properties. *)

\* Rows hold keys of the provider, the shadow one of its own, and a view whose
\* provider is live names its default among its keys.
ConnTypeOK ==
    /\ \A a \in KeyNames : rows[a] # None => rows[a].key \in Keys /\ rows[a].key.home = "builtin"
    /\ custom # None => custom \in Keys /\ custom.home = "custom"
    /\ minted \in 0..KeyChanges
    /\ \A p \in Processes : views[p] # None => DOMAIN views[p].keys = KeyNames \cup {"env"}

\* No key leaves for a host it does not belong to, also when a custom provider
\* appears, changes or goes between a view, a router and a pin (connections.js:66-80,
\* 225-233; router.js:56-60).
KeyGoesHome ==
    \A c \in Callers : caller[c].sent.key # None => caller[c].sent.key.home = caller[c].sent.host

\* A call is sent with the key its own view gives for its pin, although the router is
\* shared by calls that hold older and newer views (router.js:15-20, 74-78).
SentKeyIsOfTheView ==
    \A c \in Callers : caller[c].pc = "sent" /\ caller[c].view # Dark =>
        caller[c].sent.key = CredentialOf(caller[c].view, caller[c].pin)

\* A provider with a stored key is never dark, at any step of a removal or promotion
\* that fails half-way or runs next to another (connections.js:135-145, 411-417).
StaysLive ==
    \A c \in Callers : caller[c].pc \in {"fill", "sent"} /\ caller[c].view # Dark =>
        /\ caller[c].view.default # None
        /\ caller[c].view.keys[caller[c].view.default] # None

\* Once keys are not changed any more no process serves an old view: neither a process
\* that was not told, nor one that was told while it was reading (connections.js:27-30,
\* 280-286).
ViewsFollow ==
    <>[](\A o \in Owners : owner[o] = Settled) =>
        <>[](\A p \in Processes : views[p] # None => views[p] = Shadowing(BuiltinView(rows, envKey[p]), custom))

\* A call is sent with a key of its own view to the host the key was stored for, and a live
\* provider always has one (connections.js, router.js).
KeysGoHome == KeyGoesHome /\ SentKeyIsOfTheView /\ StaysLive
=============================================================================
