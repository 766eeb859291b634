---------------------------- MODULE RoutingProofs ----------------------------
(***************************************************************************)
(* Proofs about Routing, for any registry, any connections and settings    *)
(* and any bodies: it implements GovernedGateway, and what is recorded     *)
(* belongs to the model that answered.                                     *)
(***************************************************************************)
EXTENDS Routing, AiPolicy, InternalCalls, Classifier, CapabilitySync, FiniteSums, TLAPS

Decisions == {"explicit", "passthrough", "rule", "ai", "auto", "canary", "budget"}
Beginnings == [stage : {"pin"}, body : Bodies, app : Applications, eff : Connections]
Moving ==
    [stage : {"canary", "allowed", "optout", "vision", "budget", "invoke"},
     body : Bodies, app : Applications, eff : Connections,
     served : [provider : Providers, model : Models], decision : Decisions,
     pin : Aliases \cup {None}, gate : {None, "ungated", "passed"},
     gated : Models, said : Models, flagged : BOOLEAN]

\* What is told of a request, and the gate of whoever still decides, are of its model.
Explained(q) ==
    /\ q.said = q.served.model
    /\ q.decision \in {"rule", "canary"} /\ q.stage \notin {"budget", "invoke"}
         => q.gated = q.served.model
    /\ q.gate # None /\ q.stage \in {"budget", "invoke"} => q.gated = q.served.model

\* After the checks of lists and opt-outs.
Checked(q) ==
    q.stage \in {"vision", "budget", "invoke"} =>
      /\ IsAllowed(q, q.served.model) \/ q.flagged
      /\ q.served.model \in q.app.optOut => ResolveDefault(q).model \in q.app.optOut

\* Once resolved: an image is seen, and the key is one of the provider.
Settled(q) ==
    q.stage \in {"budget", "invoke"} =>
      /\ q.body.image /\ ~Asked(q) => q.served.model \in Vision
      /\ q.pin # None => /\ q.served.provider \in LiveFor(q)
                         /\ q.pin \in q.eff.keys[q.served.provider].aliases

Sound(q) == q \in Moving /\ Explained(q) /\ Checked(q) /\ Settled(q)

RequestHolds ==
    \/ request = NoRoute
    \/ request \in Beginnings /\ record = NoRecord
    \/ Sound(request) /\ record = NoRecord

RoutingInvariant == RequestHolds /\ RecordIsOfTheAnswer

-----------------------------------------------------------------------------
(* Helpers. *)

LEMMA DefaultIsAModel ==
    ASSUME NEW STATE q, q \in Beginnings \cup Moving
    PROVE  ResolveDefault(q) \in [provider : Providers, model : Models]
<1>1. q.eff \in Connections
    BY DEF Beginnings, Moving
<1>2. q.eff.provider \in Providers /\ q.eff.model \in Models /\ LiveFor(q) \subseteq Providers
    BY <1>1, RoutingAssumption DEF RoutingAssumption, LiveFor
<1>3. \A p \in Providers : Builtin[p] = None \/ Builtin[p] \in Models
    BY RoutingAssumption DEF RoutingAssumption
<1>4. QED
    BY <1>2, <1>3 DEF ResolveDefault, On

LEMMA AppDefaultIsAModel ==
    ASSUME NEW STATE q, q \in Beginnings \cup Moving
    PROVE  AppDefault(q) \in [provider : Providers, model : Models]
BY DefaultIsAModel, RoutingAssumption DEF AppDefault, On, RoutingAssumption

LEMMA LiveIsAProvider ==
    ASSUME NEW STATE q, q \in Beginnings \cup Moving
    PROVE  LiveFor(q) \subseteq Providers
<1>1. q.eff \in Connections
    BY DEF Beginnings, Moving
<1>2. QED
    BY <1>1, RoutingAssumption DEF RoutingAssumption, LiveFor

\* credentialFor names a key of the provider, if the provider has any.
LEMMA CredentialIsAKey ==
    ASSUME NEW STATE e, e \in Connections, NEW STATE p, NEW STATE alias
    PROVE  /\ p \in DOMAIN e.keys => CredentialFor(e, p, alias) \in e.keys[p].aliases
           /\ p \notin DOMAIN e.keys => CredentialFor(e, p, alias) = None
           /\ p \in DOMAIN e.keys /\ alias \in e.keys[p].aliases => CredentialFor(e, p, alias) = alias
           /\ CredentialFor(e, p, alias) \in Aliases \cup {None}
BY RoutingAssumption DEF RoutingAssumption, CredentialFor

LEMMA NothingUnderWay ==
    /\ NoRoute \notin Beginnings /\ NoRoute \notin Moving
    /\ \A q \in Beginnings : q.stage = "pin" /\ q # NoRoute
    /\ \A q \in Moving : q.stage \notin {"idle", "pin"}
    /\ NoRoute.stage = "idle"
BY DEF NoRoute, Beginnings, Moving

LEMMA RoutingInitial == RoutingInit => RoutingInvariant
BY DEF RoutingInit, RoutingInvariant, RequestHolds, RecordIsOfTheAnswer, GateIsOfTheAnswer,
       KeyIsOfTheAnswer, AnswerIsExplained, Answered, NoRecord

\* Nothing is claimed of a record without an answer.
LEMMA NoAnswerNoClaim ==
    ASSUME record'.status # "success"
    PROVE  RecordIsOfTheAnswer'
BY DEF RecordIsOfTheAnswer, GateIsOfTheAnswer, KeyIsOfTheAnswer, AnswerIsExplained, Answered

\* A step within a request keeps the record empty.
LEMMA WithinKeeps ==
    ASSUME RoutingInvariant, request # NoRoute, UNCHANGED record,
           request' = NoRoute \/ request' \in Beginnings \/ Sound(request')
    PROVE  RoutingInvariant'
<1>1. record' = NoRecord
    BY DEF RoutingInvariant, RequestHolds
<1>2. RecordIsOfTheAnswer'
    BY <1>1, NoAnswerNoClaim DEF NoRecord
<1>3. QED
    BY <1>1, <1>2 DEF RoutingInvariant, RequestHolds, Sound, Explained, Checked, Settled,
                      IsAllowed, ResolveDefault, LiveFor, Asked

-----------------------------------------------------------------------------
(* The model Arbr starts from. *)

LEMMA RoutedIsSound ==
    ASSUME NEW STATE q, q \in Beginnings, NEW STATE served, served \in [provider : Providers, model : Models],
           NEW decision \in Decisions \ {"canary", "budget"},
           NEW pin \in Aliases \cup {None}, NEW gate \in {None, "ungated", "passed"}
    PROVE  Sound(Routed(q, served, decision, pin, gate))
<1> DEFINE next == Routed(q, served, decision, pin, gate)
<1>1. q.body \in Bodies /\ q.app \in Applications /\ q.eff \in Connections
    BY DEF Beginnings
<1>2. next \in Moving
    BY <1>1 DEF Routed, Moving, Decisions
<1>3. next.stage \in {"allowed", "canary"} /\ next.said = next.served.model /\ next.gated = next.served.model
    BY DEF Routed
<1> HIDE DEF next
<1>4. Sound(next)
    BY <1>2, <1>3 DEF Sound, Explained, Checked, Settled
<1>5. QED
    BY <1>4 DEF next

LEMMA StartKeeps ==
    ASSUME RoutingInvariant,
           \/ RefusePin \/ HonourPin \/ PassThrough \/ SelectAutoRoute \/ TurnAway
           \/ \E p \in Providers, m \in Models, alias \in Aliases \cup {None},
                 quality \in {"ungated", "passed"} : FindRoute(On(p, m), alias, quality)
           \/ \E m \in Registered : FollowPolicy(m)
    PROVE  RoutingInvariant'
<1>1. request.stage = "pin" /\ UNCHANGED record
    BY DEF RefusePin, HonourPin, PassThrough, SelectAutoRoute, TurnAway, FindRoute, FollowPolicy
<1>2. request \in Beginnings /\ request # NoRoute /\ LiveFor(request) \subseteq Providers
    BY <1>1, NothingUnderWay, LiveIsAProvider DEF RoutingInvariant, RequestHolds, Sound
<1>3. request.body \in Bodies
    BY <1>2 DEF Beginnings
<1>4. request' = NoRoute \/ Sound(request')
    <2>1. CASE RefusePin \/ TurnAway
        BY <2>1 DEF RefusePin, TurnAway
    <2>2. CASE HonourPin
        <3>1. On(PinProvider(request), request.body.model) \in [provider : Providers, model : Models]
            BY <1>2, <1>3, <2>2, RoutingAssumption DEF RoutingAssumption, HonourPin, Asked, On
        <3>2. QED
            BY <1>2, <2>2, <3>1, RoutedIsSound DEF HonourPin, Decisions
    <2>3. CASE PassThrough
        BY <1>2, <2>3, AppDefaultIsAModel, RoutedIsSound DEF PassThrough, Decisions
    <2>4. CASE SelectAutoRoute
        <3>1. PICK m \in Registered : /\ Light[ProviderOf[m]] \in Registered
                                      /\ request' = Routed(request, On(ProviderOf[m], Light[ProviderOf[m]]),
                                                           "auto", None, None)
            BY <2>4 DEF SelectAutoRoute
        <3>2. On(ProviderOf[m], Light[ProviderOf[m]]) \in [provider : Providers, model : Models]
            BY <3>1, RoutingAssumption DEF RoutingAssumption, On
        <3>3. QED
            BY <1>2, <3>1, <3>2, RoutedIsSound DEF Decisions
    <2>5. ASSUME NEW p \in Providers, NEW m \in Models, NEW alias \in Aliases \cup {None},
                 NEW quality \in {"ungated", "passed"}, FindRoute(On(p, m), alias, quality)
          PROVE  Sound(request')
        <3>1. On(p, m) \in [provider : Providers, model : Models]
            BY DEF On
        <3>2. QED
            BY <1>2, <2>5, <3>1, RoutedIsSound DEF FindRoute, Decisions
    <2>6. ASSUME NEW m \in Registered, FollowPolicy(m) PROVE Sound(request')
        <3>1. On(ProviderOf[m], m) \in [provider : Providers, model : Models]
            BY RoutingAssumption DEF RoutingAssumption, On
        <3>2. QED
            BY <1>2, <2>6, <3>1, RoutedIsSound DEF FollowPolicy, Decisions
    <2>7. QED
        BY <2>1, <2>2, <2>3, <2>4, <2>5, <2>6
<1>5. QED
    BY <1>1, <1>2, <1>4, WithinKeeps

-----------------------------------------------------------------------------
(* What moves the request. *)

\* An override is of a model, and tells it.
LEMMA OverrideIsMoving ==
    ASSUME NEW STATE q, q \in Moving, NEW STATE served, served \in [provider : Providers, model : Models],
           NEW decision \in Decisions
    PROVE  LET next == Override(q, served, decision)
           IN  /\ next \in Moving
               /\ next.served = served /\ next.said = served.model /\ next.decision = decision
               /\ next.body = q.body /\ next.app = q.app /\ next.eff = q.eff
               /\ next.stage = q.stage /\ next.pin = q.pin
BY DEF Override, Moving

LEMMA DivertKeeps ==
    ASSUME RoutingInvariant, (\E m \in Registered : Divert(m)) \/ NotDiverted
    PROVE  RoutingInvariant'
<1>1. request.stage = "canary" /\ UNCHANGED record
    BY DEF Divert, NotDiverted
<1>2. Sound(request) /\ request # NoRoute /\ request \in Moving
    BY <1>1, NothingUnderWay DEF RoutingInvariant, RequestHolds, Sound
<1>3. ASSUME NEW m \in Registered, Divert(m) PROVE Sound(request')
    <2> DEFINE q == Override(request, On(ProviderOf[m], m), "canary")
    <2>1. /\ On(ProviderOf[m], m) \in [provider : Providers, model : Models] /\ m \in Models
          /\ On(ProviderOf[m], m).model = m /\ "canary" \in Decisions
        BY RoutingAssumption DEF RoutingAssumption, On, Decisions
    <2>2. q \in Moving /\ q.said = m /\ q.served.model = m
        BY <1>2, <2>1, OverrideIsMoving
    <2>3. request' = [q EXCEPT !.stage = "allowed", !.gate = "passed", !.gated = m]
        BY <1>3 DEF Divert
    <2> HIDE DEF q
    <2>4. /\ request' \in Moving /\ request'.stage = "allowed" /\ request'.gated = m
          /\ request'.said = m /\ request'.served.model = m
        BY <2>1, <2>2, <2>3 DEF Moving
    <2>5. QED
        BY <2>4 DEF Sound, Explained, Checked, Settled
<1>4. ASSUME NotDiverted PROVE Sound(request')
    <2>1. /\ request' \in Moving /\ request'.stage = "allowed" /\ request'.gated = request.gated
          /\ request'.said = request.said /\ request'.served = request.served
          /\ request'.decision = request.decision
        BY <1>2, <1>4 DEF NotDiverted, Moving
    <2>2. QED
        BY <1>1, <1>2, <2>1 DEF Sound, Explained, Checked, Settled
<1>5. QED
    BY <1>1, <1>2, <1>3, <1>4, WithinKeeps

LEMMA CheckAllowedKeeps ==
    ASSUME RoutingInvariant, CheckAllowed
    PROVE  RoutingInvariant'
<1>1. request.stage = "allowed" /\ UNCHANGED record
    BY DEF CheckAllowed
<1>2. Sound(request) /\ request # NoRoute /\ request \in Moving
    BY <1>1, NothingUnderWay DEF RoutingInvariant, RequestHolds, Sound
<1> DEFINE d == request.app.default
           q == Override(request, On(ProviderOf[d], d), "passthrough")
<1>3. CASE request' = [request EXCEPT !.stage = "optout"]
    <2>1. /\ request' \in Moving /\ request'.stage = "optout" /\ request'.gated = request.gated
          /\ request'.said = request.said /\ request'.served = request.served
          /\ request'.decision = request.decision
        BY <1>2, <1>3 DEF Moving
    <2>2. Sound(request')
        BY <1>1, <1>2, <2>1 DEF Sound, Explained, Checked, Settled
    <2>3. QED
        BY <1>1, <1>2, <2>2, WithinKeeps
<1>4. CASE d \in Registered /\ request' = [q EXCEPT !.stage = "optout"]
    <2>1. On(ProviderOf[d], d) \in [provider : Providers, model : Models] /\ "passthrough" \in Decisions
        BY <1>4, RoutingAssumption DEF RoutingAssumption, On, Decisions
    <2>2. q \in Moving /\ q.said = q.served.model /\ q.decision = "passthrough"
        BY <1>2, <2>1, OverrideIsMoving
    <2>3. request' = [q EXCEPT !.stage = "optout"]
        BY <1>4
    <2> HIDE DEF q
    <2>4. /\ request' \in Moving /\ request'.stage = "optout" /\ request'.decision = "passthrough"
          /\ request'.said = request'.served.model
        BY <2>2, <2>3 DEF Moving
    <2>5. Sound(request')
        BY <2>4 DEF Sound, Explained, Checked, Settled
    <2>6. QED
        BY <1>1, <1>2, <2>5, WithinKeeps
<1>5. CASE request' = NoRoute
    BY <1>1, <1>2, <1>5, WithinKeeps
<1>6. QED
    BY <1>3, <1>4, <1>5 DEF CheckAllowed

LEMMA CheckOptOutKeeps ==
    ASSUME RoutingInvariant, CheckOptOut
    PROVE  RoutingInvariant'
<1>1. request.stage = "optout" /\ UNCHANGED record
    BY DEF CheckOptOut
<1>2. Sound(request) /\ request # NoRoute /\ request \in Moving
    BY <1>1, NothingUnderWay DEF RoutingInvariant, RequestHolds, Sound
<1> DEFINE d == ResolveDefault(request)
           out == request.app.optOut
           swapped == Override(request, d, "passthrough")
           q == IF request.served.model \in out /\ d.model \notin out THEN swapped ELSE request
<1>3. d \in [provider : Providers, model : Models] /\ "passthrough" \in Decisions
    BY <1>2, DefaultIsAModel DEF Decisions
<1> HIDE DEF d
<1>4. /\ swapped \in Moving /\ swapped.served = d /\ swapped.said = d.model
         /\ swapped.decision = "passthrough" /\ swapped.body = request.body
         /\ swapped.app = request.app /\ swapped.eff = request.eff
    BY <1>2, <1>3, OverrideIsMoving
<1> HIDE DEF swapped
<1>5. /\ q \in Moving /\ q.said = q.served.model /\ q.body = request.body /\ q.app = request.app
      /\ q.eff = request.eff
      /\ q.decision \in {"rule", "canary"} => q.gated = q.served.model
    <2>1. CASE request.served.model \in out /\ d.model \notin out
        <3>1. q = swapped
            BY <2>1
        <3>2. QED
            BY <1>4, <3>1
    <2>2. CASE ~(request.served.model \in out /\ d.model \notin out)
        BY <1>1, <1>2, <2>2 DEF Sound, Explained
    <2>3. QED
        BY <2>1, <2>2
<1>6. q.served.model \in out => d.model \in out
    BY <1>4
<1>7. request' = [q EXCEPT !.stage = "vision", !.flagged = ~IsAllowed(q, q.served.model)]
    BY DEF CheckOptOut, d, swapped
<1>8. q.app.optOut = out
    BY <1>5
<1> HIDE DEF q, out
<1>9. /\ request' \in Moving /\ request'.stage = "vision" /\ request'.served = q.served
      /\ request'.said = q.said /\ request'.decision = q.decision /\ request'.gated = q.gated
      /\ request'.body = q.body /\ request'.app = q.app /\ request'.eff = q.eff
      /\ request'.flagged = ~IsAllowed(q, q.served.model)
    <2>1. (~IsAllowed(q, q.served.model)) \in BOOLEAN
        BY DEF IsAllowed
    <2>2. QED
        BY <1>5, <1>7, <2>1 DEF Moving
<1>10. IsAllowed(request', request'.served.model) \/ request'.flagged
    BY <1>9 DEF IsAllowed
<1>11. request'.served.model \in request'.app.optOut => ResolveDefault(request').model \in request'.app.optOut
    <2>1. ResolveDefault(request') = d
        BY <1>5, <1>9 DEF ResolveDefault, LiveFor, d
    <2>2. QED
        BY <1>5, <1>6, <1>8, <1>9, <2>1
<1>12. Sound(request')
    BY <1>5, <1>9, <1>10, <1>11 DEF Sound, Explained, Checked, Settled
<1>13. QED
    BY <1>1, <1>2, <1>12, WithinKeeps

-----------------------------------------------------------------------------
(* The checks before the provider is asked. *)

LEMMA AliasIsAKey ==
    ASSUME NEW STATE q, q \in Moving, NEW STATE rulePin
    PROVE  /\ ApplyAlias(q, rulePin) \in Aliases \cup {None}
           /\ ApplyAlias(q, rulePin) # None =>
                /\ q.served.provider \in LiveFor(q)
                /\ ApplyAlias(q, rulePin) \in q.eff.keys[q.served.provider].aliases
<1>1. q.eff \in Connections
    BY DEF Moving
<1>2. QED
    BY <1>1, CredentialIsAKey DEF ApplyAlias, LiveFor

LEMMA SettleKeeps ==
    ASSUME RoutingInvariant, Settle
    PROVE  RoutingInvariant'
<1>1. request.stage = "vision" /\ UNCHANGED record
    BY DEF Settle
<1>2. Sound(request) /\ request # NoRoute /\ request \in Moving
    BY <1>1, NothingUnderWay DEF RoutingInvariant, RequestHolds, Sound
<1>3. CASE request' = NoRoute
    BY <1>1, <1>2, <1>3, WithinKeeps
<1>4. CASE request' # NoRoute
    <2> DEFINE gate == IF request.decision \in {"rule", "canary"} THEN request.gate ELSE None
               rulePin == IF request.decision = "rule" THEN request.pin ELSE None
               pin == ApplyAlias(request, rulePin)
    <2>1. /\ request' = [request EXCEPT !.stage = "budget", !.gate = gate, !.pin = pin]
          /\ request.body.image /\ ~Asked(request) => request.served.model \in Vision
        BY <1>4 DEF Settle
    <2>2. /\ pin \in Aliases \cup {None}
          /\ pin # None => /\ request.served.provider \in LiveFor(request)
                           /\ pin \in request.eff.keys[request.served.provider].aliases
        BY <1>2, AliasIsAKey
    <2>3. gate \in {None, "ungated", "passed"} /\ (gate # None => request.gated = request.served.model)
        BY <1>1, <1>2 DEF Moving, Sound, Explained
    <2> HIDE DEF gate, pin
    <2>4. /\ request' \in Moving /\ request'.stage = "budget" /\ request'.served = request.served
          /\ request'.said = request.said /\ request'.gated = request.gated
          /\ request'.body = request.body /\ request'.app = request.app /\ request'.eff = request.eff
          /\ request'.flagged = request.flagged /\ request'.gate = gate /\ request'.pin = pin
        BY <1>2, <2>1, <2>2, <2>3 DEF Moving
    <2>5. Explained(request')
        BY <1>2, <2>3, <2>4 DEF Sound, Explained
    <2>6. Checked(request')
        BY <1>1, <1>2, <2>4 DEF Sound, Checked, IsAllowed, ResolveDefault, LiveFor
    <2>7. Settled(request')
        BY <2>1, <2>2, <2>4 DEF Settled, Asked, LiveFor
    <2>8. QED
        BY <1>1, <1>2, <2>4, <2>5, <2>6, <2>7, WithinKeeps DEF Sound
<1>5. QED
    BY <1>3, <1>4

LEMMA WithinBudgetKeeps ==
    ASSUME RoutingInvariant, WithinBudget
    PROVE  RoutingInvariant'
<1>1. request.stage = "budget" /\ UNCHANGED record /\ request' = [request EXCEPT !.stage = "invoke"]
    BY DEF WithinBudget
<1>2. Sound(request) /\ request # NoRoute /\ request \in Moving
    BY <1>1, NothingUnderWay DEF RoutingInvariant, RequestHolds, Sound
<1>3. /\ request' \in Moving /\ request'.stage = "invoke" /\ request'.served = request.served
      /\ request'.said = request.said /\ request'.gated = request.gated
      /\ request'.body = request.body /\ request'.app = request.app /\ request'.eff = request.eff
      /\ request'.flagged = request.flagged /\ request'.gate = request.gate /\ request'.pin = request.pin
    BY <1>1, <1>2 DEF Moving
<1>4. Explained(request') /\ Settled(request')
    BY <1>1, <1>2, <1>3 DEF Sound, Explained, Settled, Asked, LiveFor
<1>5. Checked(request')
    BY <1>1, <1>2, <1>3 DEF Sound, Checked, IsAllowed, ResolveDefault, LiveFor
<1>6. QED
    BY <1>1, <1>2, <1>3, <1>4, <1>5, WithinKeeps DEF Sound

LEMMA DowngradeKeeps ==
    ASSUME RoutingInvariant, Downgrade
    PROVE  RoutingInvariant'
<1>1. request.stage = "budget" /\ UNCHANGED record /\ request.served.model \in Registered
    BY DEF Downgrade
<1>2. Sound(request) /\ request # NoRoute /\ request \in Moving
    BY <1>1, NothingUnderWay DEF RoutingInvariant, RequestHolds, Sound
<1> DEFINE p == ProviderOf[request.served.model]
           q == Override(request, On(p, Light[p]), "budget")
           pin == IF p = request.served.provider THEN request.pin ELSE ApplyAlias(q, None)
<1>3. /\ On(p, Light[p]) \in [provider : Providers, model : Models] /\ "budget" \in Decisions
      /\ On(p, Light[p]).model = Light[p] /\ On(p, Light[p]).provider = p
    BY <1>1, RoutingAssumption DEF RoutingAssumption, On, Decisions, Downgrade
<1>4. /\ q \in Moving /\ q.served.model = Light[p] /\ q.served.provider = p /\ q.said = Light[p]
      /\ q.body = request.body /\ q.app = request.app /\ q.eff = request.eff
    BY <1>2, <1>3, OverrideIsMoving
<1>5. CheckModel(request, Light[p])
    BY DEF Downgrade
<1>6. request' = [q EXCEPT !.stage = "invoke", !.gate = None, !.pin = pin]
    BY DEF Downgrade
<1> HIDE DEF q
<1>7. /\ pin \in Aliases \cup {None}
      /\ pin # None => p \in LiveFor(request) /\ pin \in request.eff.keys[p].aliases
    <2>1. CASE p = request.served.provider
        BY <1>1, <1>2, <2>1 DEF Sound, Settled, Moving
    <2>2. CASE p # request.served.provider
        BY <1>4, <2>2, AliasIsAKey DEF LiveFor
    <2>3. QED
        BY <2>1, <2>2
<1> HIDE DEF pin, p
<1>8. /\ request' \in Moving /\ request'.stage = "invoke" /\ request'.served = q.served
      /\ request'.said = q.said /\ request'.gate = None /\ request'.pin = pin
      /\ request'.body = q.body /\ request'.app = q.app /\ request'.eff = q.eff
    BY <1>4, <1>6, <1>7 DEF Moving
<1>9. Explained(request')
    BY <1>4, <1>8 DEF Explained
<1>10. Checked(request') /\ (request'.body.image => request'.served.model \in Vision)
    BY <1>4, <1>5, <1>8 DEF CheckModel, Checked, IsAllowed
<1>11. Settled(request')
    BY <1>4, <1>7, <1>8, <1>10 DEF Settled, LiveFor
<1>12. QED
    BY <1>1, <1>2, <1>8, <1>9, <1>10, <1>11, WithinKeeps DEF Sound

-----------------------------------------------------------------------------
(* The end of a request. *)

LEMMA RefusalKeeps ==
    ASSUME RoutingInvariant, RefuseFeature \/ Block \/ GiveUp
    PROVE  RoutingInvariant'
<1>1. CASE RefuseFeature
    <2>1. request # NoRoute
        BY <1>1, NothingUnderWay DEF RefuseFeature
    <2>2. QED
        BY <1>1, <2>1, WithinKeeps DEF RefuseFeature
<1>2. CASE Block \/ GiveUp
    <2>1. request' = NoRoute /\ record'.status # "success"
        BY <1>2 DEF Block, GiveUp
    <2>2. QED
        BY <2>1, NoAnswerNoClaim DEF RoutingInvariant, RequestHolds
<1>3. QED
    BY <1>1, <1>2

\* The record of an answer is of the provider and the model that gave it.
LEMMA LoggedIsOfTheAnswer ==
    ASSUME NEW STATE q, Sound(q), q.stage = "invoke",
           NEW STATE c, c.provider \in LiveFor(q), NEW STATE gate, NEW STATE decision, NEW STATE how,
           gate # None => c.model = q.gated,
           record' = Logged(q, c, gate, decision, c.model, how)
    PROVE  RecordIsOfTheAnswer'
<1>1. /\ record'.gate = gate /\ record'.model = c.model /\ record'.gated = q.gated
      /\ record'.said = c.model /\ record'.provider = c.provider /\ record'.eff = q.eff
      /\ record'.used = KeyFor(q, c)
      /\ record'.alias = IF c.provider = q.served.provider THEN q.pin ELSE None
    BY DEF Logged
<1>2. q.eff \in Connections /\ c.provider \in DOMAIN q.eff.keys
    BY DEF Sound, Moving, LiveFor
<1>3. KeyFor(q, c) \in q.eff.keys[c.provider].aliases
    BY <1>2, CredentialIsAKey DEF KeyFor
<1>4. record'.alias \in {None, record'.used}
    <2>1. CASE c.provider = q.served.provider /\ q.pin # None
        <3>1. q.pin \in q.eff.keys[c.provider].aliases
            BY <2>1 DEF Sound, Settled
        <3>2. KeyFor(q, c) = q.pin
            BY <1>2, <2>1, <3>1, CredentialIsAKey DEF KeyFor
        <3>3. QED
            BY <1>1, <2>1, <3>2
    <2>2. CASE ~(c.provider = q.served.provider /\ q.pin # None)
        BY <1>1, <2>2
    <2>3. QED
        BY <2>1, <2>2
<1>5. QED
    BY <1>1, <1>3, <1>4 DEF RecordIsOfTheAnswer, GateIsOfTheAnswer, KeyIsOfTheAnswer, AnswerIsExplained

LEMMA AnswerKeeps ==
    ASSUME RoutingInvariant, Answer \/ \E p \in Providers, m \in Models : FallBack(On(p, m))
    PROVE  RoutingInvariant'
<1>1. request.stage = "invoke" /\ request' = NoRoute
    BY DEF Answer, Serves, FallBack
<1>2. Sound(request)
    BY <1>1, NothingUnderWay DEF RoutingInvariant, RequestHolds
<1>3. RecordIsOfTheAnswer'
    <2>1. CASE Answer
        <3>1. /\ request.served.provider \in LiveFor(request)
              /\ request.gate # None => request.served.model = request.gated
              /\ request.said = request.served.model
            BY <1>1, <1>2, <2>1 DEF Answer, Serves, Sound, Explained
        <3>2. record' = Logged(request, request.served, request.gate, request.decision,
                               request.served.model, Carrier(request))
            BY <2>1, <3>1 DEF Answer
        <3>3. QED
            BY <1>1, <1>2, <3>1, <3>2, LoggedIsOfTheAnswer
    <2>2. ASSUME NEW p \in Providers, NEW m \in Models, FallBack(On(p, m))
          PROVE  RecordIsOfTheAnswer'
        <3> DEFINE c == On(p, m)
        <3>1. c.provider \in LiveFor(request) /\ record' = Logged(request, c, None, "fallback", c.model, "chain")
            BY <2>2 DEF FallBack
        <3> HIDE DEF c
        <3>2. QED
            BY <1>1, <1>2, <3>1, LoggedIsOfTheAnswer
    <2>3. QED
        BY <2>1, <2>2
<1>4. QED
    BY <1>1, <1>3 DEF RoutingInvariant, RequestHolds

LEMMA ReceiveKeeps ==
    ASSUME RoutingInvariant, NEW b \in Bodies, NEW app \in Applications, NEW eff \in Connections,
           Receive(b, app, eff)
    PROVE  RoutingInvariant'
<1>1. request' = [stage |-> "pin", body |-> b, app |-> app, eff |-> eff] /\ record' = NoRecord
    BY DEF Receive
<1>2. request' \in Beginnings
    BY <1>1 DEF Beginnings
<1>3. RecordIsOfTheAnswer'
    BY <1>1, NoAnswerNoClaim DEF NoRecord
<1>4. QED
    BY <1>1, <1>2, <1>3 DEF RoutingInvariant, RequestHolds

LEMMA RoutingStep == RoutingInvariant /\ [RoutingNext]_RoutingVars => RoutingInvariant'
<1> SUFFICES ASSUME RoutingInvariant, [RoutingNext]_RoutingVars PROVE RoutingInvariant'
    OBVIOUS
<1>1. CASE UNCHANGED RoutingVars
    BY <1>1 DEF RoutingVars, RoutingInvariant, RequestHolds, Sound, Explained, Checked, Settled,
                IsAllowed, ResolveDefault, LiveFor, Asked, RecordIsOfTheAnswer, GateIsOfTheAnswer,
                KeyIsOfTheAnswer, AnswerIsExplained, Answered
<1>2. QED
    BY <1>1, ReceiveKeeps, StartKeeps, DivertKeeps, CheckAllowedKeeps, CheckOptOutKeeps, SettleKeeps,
       WithinBudgetKeeps, DowngradeKeeps, RefusalKeeps, AnswerKeeps
    DEF RoutingNext

LEMMA RoutingAlways == RoutingSpec => []RoutingInvariant
BY RoutingInitial, RoutingStep, PTL DEF RoutingSpec

\* Whatever moved a request, with any registry, connections and settings: the gate, the key
\* and the chain of overrides on record are of the model that answered.
THEOREM RecordAlwaysOfTheAnswer == RoutingSpec => []RecordIsOfTheAnswer
BY RoutingAlways, PTL DEF RoutingInvariant

\* A record is none, a success, a failure or a refusal for want of budget.
RecordHasStatus == record.status \in {"none", "success", "failure", "blocked"}

LEMMA StatusStays == RecordHasStatus /\ [RoutingNext]_RoutingVars => RecordHasStatus'
<1> SUFFICES ASSUME RecordHasStatus, [RoutingNext]_RoutingVars PROVE RecordHasStatus'
    OBVIOUS
<1>1. UNCHANGED record => RecordHasStatus'
    BY DEF RecordHasStatus
<1>2. ASSUME NEW b \in Bodies, NEW app \in Applications, NEW eff \in Connections, Receive(b, app, eff)
      PROVE  RecordHasStatus'
    BY <1>2 DEF Receive, NoRecord, RecordHasStatus
<1>3. TurnAway \/ RefusePin \/ HonourPin \/ PassThrough \/ SelectAutoRoute => UNCHANGED record
    BY Zenon DEF TurnAway, RefusePin, HonourPin, PassThrough, SelectAutoRoute
<1>4. \A c, alias, quality : FindRoute(c, alias, quality) => UNCHANGED record
    BY Zenon DEF FindRoute
<1>5. \A m \in Registered : FollowPolicy(m) \/ Divert(m) => UNCHANGED record
    BY Zenon DEF FollowPolicy, Divert
<1>6. NotDiverted \/ CheckAllowed \/ CheckOptOut => UNCHANGED record
    BY Zenon DEF NotDiverted, CheckAllowed, CheckOptOut
<1>7. Settle \/ WithinBudget \/ Downgrade \/ RefuseFeature => UNCHANGED record
    BY Zenon DEF Settle, WithinBudget, Downgrade, RefuseFeature
<1>8. Block \/ GiveUp => RecordHasStatus'
    BY DEF Block, GiveUp, RecordHasStatus
<1>9. ASSUME Answer PROVE RecordHasStatus'
  <2>1. record'.status = "success"
      BY <1>9 DEF Answer, Logged
  <2>2. QED
      BY <2>1 DEF RecordHasStatus
<1>10. ASSUME NEW p \in Providers, NEW m \in Models, FallBack(On(p, m)) PROVE RecordHasStatus'
  <2>1. record'.status = "success"
      BY <1>10 DEF FallBack, Logged
  <2>2. QED
      BY <2>1 DEF RecordHasStatus
<1>11. UNCHANGED RoutingVars => UNCHANGED record
    BY DEF RoutingVars
<1>12. QED
    BY <1>1, <1>2, <1>3, <1>4, <1>5, <1>6, <1>7, <1>8, <1>9, <1>10, <1>11 DEF RoutingNext

\* Requests move only to known decisions, keys and models, with any registry,
\* connections, settings and bodies.
THEOREM RoutingTypeCorrect == RoutingSpec => []RoutingTypeOK
<1>1. RoutingInit => RecordHasStatus
    BY DEF RoutingInit, NoRecord, RecordHasStatus
<1>2. RoutingInvariant /\ RecordHasStatus => RoutingTypeOK
  <2> SUFFICES ASSUME RoutingInvariant, RecordHasStatus PROVE RoutingTypeOK
      OBVIOUS
  <2>1. CASE request = NoRoute
      BY <2>1 DEF NoRoute, RecordHasStatus, RoutingTypeOK
  <2>2. CASE request \in Beginnings
      BY <2>2 DEF Beginnings, RecordHasStatus, RoutingTypeOK
  <2>3. CASE request \in Moving
      BY <2>3 DEF Moving, Decisions, RecordHasStatus, RoutingTypeOK
  <2>4. QED
      BY <2>1, <2>2, <2>3 DEF RoutingInvariant, RequestHolds, Sound
<1>3. QED
    BY <1>1, <1>2, StatusStays, RoutingAlways, PTL DEF RoutingSpec

-----------------------------------------------------------------------------
(* The abstract promise. *)

\* What the mapping shows of the request: its entitlement, which no step within it changes.
Entitlement(q) ==
    IF q.stage = "idle" THEN [open |-> FALSE]
    ELSE [open |-> TRUE, allowed |-> q.app.allowed, optOut |-> q.app.optOut,
          standing |-> ResolveDefault(q).model, image |-> q.body.image, named |-> Asked(q)]
Shown(r) ==
    IF r.status = "success" THEN [status |-> "success", model |-> r.model, flagged |-> r.flagged]
    ELSE r

\* A step within a request is a stutter of the promise.
LEMMA WithinIsAStutter ==
    ASSUME request.stage # "idle", request'.stage # "idle", UNCHANGED record,
           request'.body = request.body, request'.app = request.app, request'.eff = request.eff
    PROVE  UNCHANGED <<Entitlement(request), Shown(record)>>
BY DEF Entitlement, Shown, ResolveDefault, LiveFor, Asked

\* The entitlement of a request has its type.
LEMMA EntitlementTypes ==
    ASSUME NEW STATE q, q \in Beginnings \cup Moving
    PROVE  Entitlement(q) \in [open : {TRUE}, allowed : SUBSET Models, optOut : SUBSET Models,
                               standing : Models, image : BOOLEAN, named : BOOLEAN]
<1>1. q.body \in Bodies /\ q.app \in Applications /\ q.stage # "idle"
    BY DEF Beginnings, Moving
<1>2. ResolveDefault(q).model \in Models
    BY DefaultIsAModel
<1>3. q.app.allowed \subseteq Models /\ q.app.optOut \subseteq Models /\ q.body.image \in BOOLEAN
    BY <1>1, RoutingAssumption DEF RoutingAssumption
<1>4. Asked(q) \in BOOLEAN
    BY DEF Asked
<1>5. QED
    BY <1>1, <1>2, <1>3, <1>4 DEF Entitlement

\* What a request that can still be answered is entitled to.
LEMMA SoundIsEntitled ==
    ASSUME NEW STATE q, Sound(q), q.stage = "invoke"
    PROVE  /\ q.app.allowed = {} \/ q.served.model \in q.app.allowed \/ q.flagged
           /\ q.served.model \in q.app.optOut => ResolveDefault(q).model \in q.app.optOut
           /\ q.body.image /\ ~Asked(q) => q.served.model \in Vision
BY DEF Sound, Checked, Settled, IsAllowed

LEMMA TakeMaps ==
    ASSUME RoutingInvariant, NEW b \in Bodies, NEW app \in Applications, NEW eff \in Connections,
           Receive(b, app, eff)
    PROVE  Promise!Take
<1>1. request.stage = "idle" /\ request' \in Beginnings /\ record' = NoRecord
    BY DEF Receive, Beginnings
<1>2. Entitlement(request)' = Entitlement(request')
    BY DEF Entitlement, ResolveDefault, LiveFor, Asked
<1>3. Entitlement(request') \in [open : {TRUE}, allowed : SUBSET Models, optOut : SUBSET Models,
                                 standing : Models, image : BOOLEAN, named : BOOLEAN]
    BY <1>1, EntitlementTypes
<1>4. ~Entitlement(request).open
    BY <1>1 DEF Entitlement
<1>5. Shown(record)' = NoRecord
    BY <1>1 DEF Shown, NoRecord
<1>6. QED
    BY <1>2, <1>3, <1>4, <1>5 DEF Promise!Take, Promise!NoAnswer, NoRecord, Entitlement, Shown

\* A request that ends without an answer is refused.
LEMMA RefuseMaps ==
    ASSUME RoutingInvariant, request.stage # "idle", request' = NoRoute,
           UNCHANGED record \/ record' \in [status : {"none", "blocked", "failure"}]
    PROVE  Promise!Refuse
<1>1. record' \in [status : {"none", "blocked", "failure"}]
    BY NothingUnderWay DEF RoutingInvariant, RequestHolds, NoRecord
<1>2. Entitlement(request).open /\ Entitlement(request)' = [open |-> FALSE]
    BY DEF Entitlement, NoRoute
<1>3. Shown(record)' = record'
    BY <1>1 DEF Shown
<1>4. QED
    BY <1>1, <1>2, <1>3 DEF Promise!Refuse, Promise!NothingPending, Entitlement, Shown

\* An answer is one the request is entitled to.
LEMMA ServeMaps ==
    ASSUME RoutingInvariant, Answer \/ \E p \in Providers, m \in Models : FallBack(On(p, m))
    PROVE  Promise!Serve
<1>1. request.stage = "invoke" /\ request' = NoRoute
    BY DEF Answer, Serves, FallBack
<1>2. Sound(request) /\ request \in Moving
    BY <1>1, NothingUnderWay DEF RoutingInvariant, RequestHolds, Sound
<1> DEFINE p == Entitlement(request)
           Granted == /\ record'.status = "success" /\ record'.model \in Models /\ record'.flagged \in BOOLEAN
                      /\ p.allowed = {} \/ record'.model \in p.allowed \/ record'.flagged
                      /\ record'.model \in p.optOut => p.standing \in p.optOut
                      /\ p.image /\ ~p.named => record'.model \in Vision
<1>3. /\ p.open /\ p.allowed = request.app.allowed /\ p.optOut = request.app.optOut
      /\ p.standing = ResolveDefault(request).model /\ p.image = request.body.image
      /\ p.named = Asked(request) /\ p' = [open |-> FALSE]
    BY <1>1 DEF Entitlement, NoRoute
<1>4. Granted
    <2>1. CASE Answer
        <3>1. record'.status = "success" /\ record'.model = request.served.model
              /\ record'.flagged = request.flagged
            BY <2>1 DEF Answer, Logged
        <3>2. request.served.model \in Models /\ request.flagged \in BOOLEAN
            BY <1>2 DEF Moving
        <3>3. QED
            BY <1>1, <1>2, <1>3, <3>1, <3>2, SoundIsEntitled
    <2>2. ASSUME NEW q \in Providers, NEW m \in Models, FallBack(On(q, m))
          PROVE  Granted
        <3>1. record'.status = "success" /\ record'.model = m /\ record'.flagged = request.flagged
            BY <2>2 DEF FallBack, Logged, On
        <3>2. CheckModel(request, m)
            BY <2>2 DEF FallBack, Candidates, On
        <3>3. request.flagged \in BOOLEAN
            BY <1>2 DEF Moving
        <3>4. QED
            BY <1>3, <3>1, <3>2, <3>3 DEF CheckModel, IsAllowed
    <2>3. QED
        BY <2>1, <2>2
<1> HIDE DEF p
<1>5. Shown(record)' = [status |-> "success", model |-> record'.model, flagged |-> record'.flagged]
    BY <1>4 DEF Shown
<1>6. QED
    BY <1>3, <1>4, <1>5 DEF Promise!Serve, Promise!Entitled, Promise!NothingPending, Entitlement, Shown, p

\* The steps between arrival and end keep the request, or refuse it.
LEMMA MoveMaps ==
    ASSUME RoutingInvariant,
           \/ RefusePin \/ HonourPin \/ PassThrough \/ SelectAutoRoute \/ TurnAway
           \/ \E p \in Providers, m \in Models, alias \in Aliases \cup {None},
                 quality \in {"ungated", "passed"} : FindRoute(On(p, m), alias, quality)
           \/ \E m \in Registered : FollowPolicy(m)
           \/ \E m \in Registered : Divert(m)
           \/ NotDiverted \/ CheckAllowed \/ CheckOptOut \/ Settle \/ WithinBudget \/ Downgrade
    PROVE  Promise!Refuse \/ UNCHANGED Promise!Gateway
<1>1. request.stage # "idle" /\ UNCHANGED record
    BY DEF RefusePin, HonourPin, PassThrough, SelectAutoRoute, TurnAway, FindRoute, FollowPolicy,
           Divert, NotDiverted, CheckAllowed, CheckOptOut, Settle, WithinBudget, Downgrade
<1>2. CASE request' = NoRoute
    BY <1>1, <1>2, RefuseMaps
<1>3. CASE /\ request'.stage # "idle" /\ request'.body = request.body
           /\ request'.app = request.app /\ request'.eff = request.eff
    BY <1>1, <1>3, WithinIsAStutter DEF Promise!Gateway, Entitlement, Shown
<1>4. request \in Beginnings \/ request \in Moving
    BY <1>1, NothingUnderWay DEF RoutingInvariant, RequestHolds, Sound
<1>5. CASE RefusePin \/ TurnAway
    BY <1>2, <1>5 DEF RefusePin, TurnAway
<1>6. CASE \/ HonourPin \/ PassThrough \/ SelectAutoRoute
           \/ \E p \in Providers, m \in Models, alias \in Aliases \cup {None},
                 quality \in {"ungated", "passed"} : FindRoute(On(p, m), alias, quality)
           \/ \E m \in Registered : FollowPolicy(m)
    BY <1>3, <1>6 DEF HonourPin, PassThrough, SelectAutoRoute, FindRoute, FollowPolicy, Routed
<1>7. CASE (\E m \in Registered : Divert(m)) \/ NotDiverted
    <2>1. request \in Moving
        BY <1>4, <1>7, NothingUnderWay DEF Divert, NotDiverted
    <2>2. ASSUME NEW m \in Registered, Divert(m)
          PROVE  /\ request'.stage # "idle" /\ request'.body = request.body
                 /\ request'.app = request.app /\ request'.eff = request.eff
        BY <2>1, <2>2 DEF Divert, Override, Moving
    <2>3. ASSUME NotDiverted
          PROVE  /\ request'.stage # "idle" /\ request'.body = request.body
                 /\ request'.app = request.app /\ request'.eff = request.eff
        BY <2>1, <2>3 DEF NotDiverted, Moving
    <2>4. QED
        BY <1>3, <1>7, <2>2, <2>3
<1>8. CASE CheckAllowed
    <2>1. request \in Moving
        BY <1>4, <1>8, NothingUnderWay DEF CheckAllowed
    <2>2. \/ request' = NoRoute
          \/ request' = [request EXCEPT !.stage = "optout"]
          \/ \E served, decision :
               request' = [Override(request, served, decision) EXCEPT !.stage = "optout"]
        BY <1>8 DEF CheckAllowed
    <2>3. \/ request' = NoRoute
          \/ /\ request'.stage # "idle" /\ request'.body = request.body
             /\ request'.app = request.app /\ request'.eff = request.eff
        BY <2>1, <2>2 DEF Override, Moving
    <2>4. QED
        BY <1>2, <1>3, <2>3
<1>9. CASE CheckOptOut
    <2>1. request \in Moving
        BY <1>4, <1>9, NothingUnderWay DEF CheckOptOut
    <2> DEFINE d == ResolveDefault(request)
               out == request.app.optOut
               q == IF request.served.model \in out /\ d.model \notin out
                    THEN Override(request, d, "passthrough") ELSE request
    <2>2. request' = [q EXCEPT !.stage = "vision", !.flagged = ~IsAllowed(q, q.served.model)]
        BY <1>9 DEF CheckOptOut
    <2>3. q = request \/ q = Override(request, d, "passthrough")
        OBVIOUS
    <2> HIDE DEF q
    <2>4. /\ request'.stage # "idle" /\ request'.body = request.body
          /\ request'.app = request.app /\ request'.eff = request.eff
        BY <2>1, <2>2, <2>3 DEF Override, Moving
    <2>5. QED
        BY <1>3, <2>4
<1>10. CASE Settle
    <2>1. request \in Moving
        BY <1>4, <1>10, NothingUnderWay DEF Settle
    <2>2. \/ request' = NoRoute
          \/ \E gate, pin : request' = [request EXCEPT !.stage = "budget", !.gate = gate,
                                                       !.pin = ApplyAlias(request, pin)]
        BY <1>10 DEF Settle
    <2>3. \/ request' = NoRoute
          \/ /\ request'.stage # "idle" /\ request'.body = request.body
             /\ request'.app = request.app /\ request'.eff = request.eff
        BY <2>1, <2>2 DEF Moving
    <2>4. QED
        BY <1>2, <1>3, <2>3
<1>11. CASE WithinBudget
    <2>1. request \in Moving
        BY <1>4, <1>11, NothingUnderWay DEF WithinBudget
    <2>2. /\ request'.stage # "idle" /\ request'.body = request.body
          /\ request'.app = request.app /\ request'.eff = request.eff
        BY <1>11, <2>1 DEF WithinBudget, Moving
    <2>3. QED
        BY <1>3, <2>2
<1>12. CASE Downgrade
    <2>1. request \in Moving
        BY <1>4, <1>12, NothingUnderWay DEF Downgrade
    <2>2. \E served, pin : request' = [Override(request, served, "budget")
                                        EXCEPT !.stage = "invoke", !.gate = None, !.pin = pin]
        BY <1>12 DEF Downgrade
    <2>3. /\ request'.stage # "idle" /\ request'.body = request.body
          /\ request'.app = request.app /\ request'.eff = request.eff
        BY <2>1, <2>2 DEF Override, Moving
    <2>4. QED
        BY <1>3, <2>3
<1>13. QED
    BY <1>5, <1>6, <1>7, <1>8, <1>9, <1>10, <1>11, <1>12

\* With any registry, connections, settings and bodies, routing implements the promise:
\* each of its steps takes a request, refuses it, answers it with a model it is entitled
\* to, or changes nothing the promise is about.
THEOREM GatewayKeepsItsPromise == RoutingSpec => RoutingIsGoverned
<1>1. RoutingInit => Promise!GatewayInit
    BY DEF RoutingInit, Promise!GatewayInit, Promise!NothingPending, Promise!NoAnswer, NoRoute, NoRecord
<1>2. RoutingInvariant /\ [RoutingNext]_RoutingVars => [Promise!GatewayNext]_(Promise!Gateway)
    <2> SUFFICES ASSUME RoutingInvariant, [RoutingNext]_RoutingVars
                 PROVE  Promise!GatewayNext \/ UNCHANGED Promise!Gateway
        OBVIOUS
    <2>1. CASE UNCHANGED RoutingVars
        BY <2>1 DEF RoutingVars, Promise!Gateway, ResolveDefault, LiveFor, Asked
    <2>2. CASE RefuseFeature \/ Block \/ GiveUp
        <3>1. /\ request.stage # "idle" /\ request' = NoRoute
              /\ UNCHANGED record \/ record' \in [status : {"none", "blocked", "failure"}]
            BY <2>2 DEF RefuseFeature, Block, GiveUp
        <3>2. QED
            BY <3>1, RefuseMaps DEF Promise!GatewayNext
    <2>3. QED
        BY <2>1, <2>2, TakeMaps, MoveMaps, ServeMaps DEF RoutingNext, Promise!GatewayNext
<1>3. QED
    BY <1>1, <1>2, RoutingAlways, PTL DEF RoutingSpec, RoutingIsGoverned, Promise!GatewaySpec

-----------------------------------------------------------------------------
(* The policy engine. *)

SoundRow(r) ==
    /\ r.synced \in Scores /\ Curated[r.id] \in Scores
    /\ r.input \in {None} \cup Nat /\ r.output \in {None} \cup Nat
    /\ \E i \in DOMAIN IdOrder : IdOrder[i] = r.id

\* Rows of one registry: finitely many, each with an id of its own.
RowSet(rows) ==
    /\ IsFiniteSet(rows)
    /\ \A r \in rows : SoundRow(r) /\ \A o \in rows : o.id = r.id => o = r

LEMMA NaturalProduct ==
    ASSUME NEW a \in Nat, NEW b \in Nat
    PROVE  a * b \in Nat
OBVIOUS

LEMMA ScoreIsNatural ==
    ASSUME NEW t \in PolicyTasks, NEW r, SoundRow(r)
    PROVE  QualityScore(t, r) \in Nat
<1> DEFINE f == [d \in Dims |-> Weights[t][d] * CapabilityOf(r, d)]
<1>1. ASSUME NEW d \in Dims PROVE Weights[t][d] \in Nat /\ CapabilityOf(r, d) \in Nat
    <2>1. r.synced[d] \in {None} \cup Nat /\ Curated[r.id][d] \in {None} \cup Nat
        BY DEF SoundRow, Scores
    <2>2. CapabilityOf(r, d) \in Nat
        BY <2>1 DEF CapabilityOf
    <2>3. QED
        BY <2>2, PolicyAssumption
<1>2. \A d \in Dims : f[d] \in Nat
    BY <1>1, NaturalProduct
<1>3. f \in [Dims -> Nat] /\ DOMAIN f = Dims /\ QualityScore(t, r) = SumFunction(f)
    BY <1>2 DEF QualityScore
<1>4. IsFiniteSet(Dims) /\ "coding" \in Dims
    BY PolicyAssumption
<1> HIDE DEF f
<1>5. SumFunctionOnSet(f, Dims) \in Nat
    BY <1>3, <1>4, TermInSum
<1>6. QED
    BY <1>3, <1>5 DEF SumFunction

LEMMA CostIsNatural ==
    ASSUME NEW r, SoundRow(r), NEW p \in [in : Nat, out : Nat]
    PROVE  ExpectedCost(r, p) \in Nat
<1>1. CASE ~HasPrice(r)
    BY <1>1 DEF ExpectedCost, NeverWins
<1>2. CASE HasPrice(r)
    <2>1. r.input \in Nat /\ (r.output = None \/ r.output \in Nat)
        BY <1>2 DEF HasPrice, SoundRow
    <2>2. p.in \in Nat /\ p.out \in Nat
        OBVIOUS
    <2> DEFINE rate == IF r.output = None THEN r.input ELSE r.output
    <2>3. rate \in Nat
        BY <2>1
    <2> HIDE DEF rate
    <2>4. p.in * r.input \in Nat /\ p.out * rate \in Nat
        BY <2>1, <2>2, <2>3, NaturalProduct
    <2>5. ExpectedCost(r, p) = p.in * r.input + p.out * rate
        BY <1>2 DEF ExpectedCost, rate
    <2>6. QED
        BY <2>4, <2>5
<1>3. QED
    BY <1>1, <1>2

\* Ids have different places.
LEMMA PlacesDiffer ==
    ASSUME NEW rows, RowSet(rows), NEW a \in rows, NEW b \in rows
    PROVE  Place(a) \in Nat /\ (a # b => Place(a) # Place(b))
<1>1. Place(a) \in DOMAIN IdOrder /\ IdOrder[Place(a)] = a.id
    BY DEF RowSet, SoundRow, Place
<1>2. Place(b) \in DOMAIN IdOrder /\ IdOrder[Place(b)] = b.id
    BY DEF RowSet, SoundRow, Place
<1>3. QED
    BY <1>1, <1>2, PolicyAssumption DEF RowSet

\* A tie between different rows goes to one of them, and ties chain.
LEMMA TiesOrder ==
    ASSUME NEW rows, RowSet(rows), NEW a \in rows, NEW b \in rows, NEW c \in rows
    PROVE  /\ a # b => TieGoesTo(a, b) \/ TieGoesTo(b, a)
           /\ TieGoesTo(a, b) /\ TieGoesTo(b, c) => TieGoesTo(a, c)
<1>1. /\ Place(a) \in Nat /\ Place(b) \in Nat /\ Place(c) \in Nat
      /\ a # b => Place(a) # Place(b)
    BY PlacesDiffer
<1>2. a # b => Place(a) < Place(b) \/ Place(b) < Place(a)
    BY <1>1
<1>3. Place(a) < Place(b) /\ Place(b) < Place(c) => Place(a) < Place(c)
    BY <1>1
<1>4. a # b => TieGoesTo(a, b) \/ TieGoesTo(b, a)
    BY <1>2, Zenon DEF TieGoesTo
<1>5. TieGoesTo(a, b) /\ TieGoesTo(b, c) => TieGoesTo(a, c)
    BY <1>3, Zenon DEF TieGoesTo
<1>6. QED
    BY <1>4, <1>5

\* Of two different rows one is better, and better chains: the engine has an order.
LEMMA BetterOrders ==
    ASSUME NEW rows, RowSet(rows), NEW a \in rows, NEW b \in rows, NEW c \in rows,
           NEW t \in PolicyTasks, NEW p \in [in : Nat, out : Nat], NEW goal
    PROVE  /\ a # b => Better(t, p, goal, a, b) \/ Better(t, p, goal, b, a)
           /\ Better(t, p, goal, a, b) /\ Better(t, p, goal, b, c) => Better(t, p, goal, a, c)
<1>1. PICK qa \in Nat, qb \in Nat, qc \in Nat :
          qa = QualityScore(t, a) /\ qb = QualityScore(t, b) /\ qc = QualityScore(t, c)
    BY ScoreIsNatural DEF RowSet
<1>2. PICK ca \in Nat, cb \in Nat, cc \in Nat :
          ca = ExpectedCost(a, p) /\ cb = ExpectedCost(b, p) /\ cc = ExpectedCost(c, p)
    BY CostIsNatural DEF RowSet
<1>3. /\ a # b => TieGoesTo(a, b) \/ TieGoesTo(b, a)
      /\ TieGoesTo(a, b) /\ TieGoesTo(b, c) => TieGoesTo(a, c)
    BY TiesOrder
<1>4. CASE goal = "quality"
    BY <1>1, <1>2, <1>3, <1>4 DEF Better
<1>5. CASE goal # "quality"
    BY <1>1, <1>2, <1>3, <1>5 DEF Better
<1>6. QED
    BY <1>4, <1>5

LEMMA OrAllRemain ==
    ASSUME NEW all, all # {}, NEW some \in SUBSET all
    PROVE  OrAll(some, all) # {} /\ OrAll(some, all) \subseteq all
BY DEF OrAll

LEMMA ContendersRemain ==
    ASSUME NEW rows, rows # {}, NEW t, NEW tier, NEW goal
    PROVE  Contenders(t, rows, tier, goal) # {} /\ Contenders(t, rows, tier, goal) \subseteq rows
<1> DEFINE pool == PoolFor(tier, rows, goal)
           gated == OrAll({r \in pool : PassesGates(t, r)}, pool)
           proven == IF tier = "premium" THEN OrAll({r \in gated : Measured(r)}, gated) ELSE gated
           clearing == OrAll({r \in proven : ClearsBar(t, r, goal)}, proven)
<1>1. pool # {} /\ pool \subseteq rows
    BY OrAllRemain DEF PoolFor
<1> HIDE DEF pool
<1>2. gated # {} /\ gated \subseteq pool
    BY <1>1, OrAllRemain
<1> HIDE DEF gated
<1>3. proven # {} /\ proven \subseteq gated
    BY <1>2, OrAllRemain
<1> HIDE DEF proven
<1>4. clearing # {} /\ clearing \subseteq proven
    BY <1>3, OrAllRemain
<1>5. Contenders(t, rows, tier, goal) = clearing
    BY DEF Contenders, clearing, proven, gated, pool
<1> HIDE DEF clearing
<1>6. QED
    BY <1>1, <1>2, <1>3, <1>4, <1>5

\* What is ranked first is better than every other contender.
LEMMA FirstIsBest ==
    ASSUME NEW rows, RowSet(rows), rows # {}, NEW t \in PolicyTasks, NEW tier, NEW goal,
           NEW p \in [in : Nat, out : Nat]
    PROVE  LET clearing == Contenders(t, rows, tier, goal)
               w == RankedFirst(t, rows, tier, p, goal)
           IN  w \in clearing /\ \A o \in clearing \ {w} : Better(t, p, goal, w, o)
<1> DEFINE clearing == Contenders(t, rows, tier, goal)
           order == {e \in clearing \X clearing : Better(t, p, goal, e[1], e[2])}
<1>1. clearing # {} /\ clearing \subseteq rows
    BY ContendersRemain
<1> HIDE DEF clearing
<1>2. IsFiniteSet(clearing) /\ order \in SUBSET (clearing \X clearing)
    BY <1>1, FS_Subset DEF RowSet
<1>3. \A a, b \in clearing : <<a, b>> \in order <=> Better(t, p, goal, a, b)
    OBVIOUS
<1>4. \A a, b \in clearing : a # b => <<a, b>> \in order \/ <<b, a>> \in order
    BY <1>1, <1>3, BetterOrders
<1>5. \A a, b, c \in clearing : <<a, b>> \in order /\ <<b, c>> \in order => <<a, c>> \in order
    BY <1>1, <1>3, BetterOrders
<1> HIDE DEF order
<1>6. PICK a \in clearing : \A b \in clearing \ {a} : <<a, b>> \in order
    BY <1>1, <1>2, <1>4, <1>5, FirstExists DEF Leads
<1>7. \E r \in clearing : \A o \in clearing \ {r} : Better(t, p, goal, r, o)
    BY <1>3, <1>6
<1>8. QED
    BY <1>7 DEF RankedFirst, clearing

\* What the filters keep when each of them can keep something.
LEMMA FiltersKeep ==
    ASSUME NEW rows, NEW t, NEW tier, NEW goal
    PROVE  LET tiered == {r \in rows : r.tier \in PoolTiers(tier, goal)}
               fit == {r \in tiered : PassesGates(t, r)}
               proven == tier = "premium" /\ \E r \in fit : Measured(r)
               best == {r \in fit : ClearsBar(t, r, goal) /\ (proven => Measured(r))}
               clearing == Contenders(t, rows, tier, goal)
           IN  /\ tiered # {} => clearing \subseteq tiered
               /\ fit # {} => clearing \subseteq fit
               /\ best # {} => clearing = best
<1> DEFINE tiered == {r \in rows : r.tier \in PoolTiers(tier, goal)}
           fit == {r \in tiered : PassesGates(t, r)}
           proven == tier = "premium" /\ \E r \in fit : Measured(r)
           best == {r \in fit : ClearsBar(t, r, goal) /\ (proven => Measured(r))}
           pool == OrAll(tiered, rows)
           gated == OrAll({r \in pool : PassesGates(t, r)}, pool)
           shown == IF tier = "premium" THEN OrAll({r \in gated : Measured(r)}, gated) ELSE gated
           clearing == OrAll({r \in shown : ClearsBar(t, r, goal)}, shown)
<1>1. Contenders(t, rows, tier, goal) = clearing
    BY DEF Contenders, PoolFor
<1>2. tiered # {} => pool = tiered
    BY DEF OrAll
<1>3. gated \subseteq pool /\ shown \subseteq gated /\ clearing \subseteq shown
    BY DEF OrAll
<1>4. fit # {} => gated = fit
    BY <1>2 DEF OrAll
<1>5. best # {} => shown = {r \in fit : proven => Measured(r)}
    <2> HIDE DEF gated, pool
    <2>1. CASE best # {} /\ tier = "premium" /\ \E r \in fit : Measured(r)
        <3>1. gated = fit
            BY <1>4, <2>1
        <3>2. QED
            BY <2>1, <3>1 DEF OrAll
    <2>2. CASE best # {} /\ tier = "premium" /\ ~\E r \in fit : Measured(r)
        <3>1. gated = fit
            BY <1>4, <2>2
        <3>2. QED
            BY <2>2, <3>1 DEF OrAll
    <2>3. CASE best # {} /\ tier # "premium"
        BY <1>4, <2>3
    <2>4. QED
        BY <2>1, <2>2, <2>3
<1>6. best # {} => clearing = best
    <2> HIDE DEF shown, proven
    <2>1. QED
        BY <1>5 DEF OrAll
<1>7. tiered # {} => clearing \subseteq tiered
    BY <1>2, <1>3
<1>8. fit # {} => clearing \subseteq fit
    BY <1>3, <1>4
<1>9. QED
    BY <1>1, <1>6, <1>7, <1>8

\* What GeneratedIsBest asks of a pick.
GoodPick(w, rows, t, tier, goal, p) ==
    LET tiered == {r \in rows : r.tier \in PoolTiers(tier, goal)}
        fit == {r \in tiered : PassesGates(t, r)}
        proven == tier = "premium" /\ \E r \in fit : Measured(r)
        best == {r \in fit : ClearsBar(t, r, goal) /\ (proven => Measured(r))}
    IN  /\ tiered # {} => w \in tiered
        /\ fit # {} => w \in fit
        /\ best # {} => w \in best
        /\ \A r \in best : IF goal = "quality" THEN QualityScore(t, r) <= QualityScore(t, w)
                           ELSE ExpectedCost(w, p) <= ExpectedCost(r, p)

\* The first in the ranking is as good as any row that needs no filter relaxed.
LEMMA FirstIsGood ==
    ASSUME NEW rows, RowSet(rows), rows # {}, NEW t \in PolicyTasks, NEW tier, NEW goal,
           NEW p \in [in : Nat, out : Nat]
    PROVE  /\ RankedFirst(t, rows, tier, p, goal) \in rows
           /\ GoodPick(RankedFirst(t, rows, tier, p, goal), rows, t, tier, goal, p)
<1> DEFINE w == RankedFirst(t, rows, tier, p, goal)
           tiered == {r \in rows : r.tier \in PoolTiers(tier, goal)}
           fit == {r \in tiered : PassesGates(t, r)}
           proven == tier = "premium" /\ \E r \in fit : Measured(r)
           best == {r \in fit : ClearsBar(t, r, goal) /\ (proven => Measured(r))}
           clearing == Contenders(t, rows, tier, goal)
<1>1. w \in clearing /\ \A o \in clearing \ {w} : Better(t, p, goal, w, o)
    BY FirstIsBest
<1>2. clearing \subseteq rows
    BY ContendersRemain
<1>3. /\ tiered # {} => clearing \subseteq tiered
      /\ fit # {} => clearing \subseteq fit
      /\ best # {} => clearing = best
    BY FiltersKeep
<1> HIDE DEF w, tiered, fit, proven, best, clearing
<1>4. ASSUME NEW r \in best
      PROVE  IF goal = "quality" THEN QualityScore(t, r) <= QualityScore(t, w)
             ELSE ExpectedCost(w, p) <= ExpectedCost(r, p)
    <2>1. r \in clearing /\ r \in rows /\ w \in rows
        BY <1>1, <1>2, <1>3
    <2>2. /\ QualityScore(t, r) \in Nat /\ QualityScore(t, w) \in Nat
          /\ ExpectedCost(r, p) \in Nat /\ ExpectedCost(w, p) \in Nat
        BY <2>1, ScoreIsNatural, CostIsNatural DEF RowSet
    <2>3. CASE r = w
        BY <2>2, <2>3
    <2>4. CASE r # w
        <3>1. Better(t, p, goal, w, r)
            BY <1>1, <2>1, <2>4
        <3>2. QED
            BY <2>2, <3>1 DEF Better
    <2>5. QED
        BY <2>3, <2>4
<1>5. /\ w \in rows
      /\ tiered # {} => w \in tiered
      /\ fit # {} => w \in fit
      /\ best # {} => w \in best
    BY <1>1, <1>2, <1>3
<1>6. QED
    BY <1>4, <1>5 DEF GoodPick, w, tiered, fit, proven, best

\* A row is known by its id.
LEMMA RowByItsId ==
    ASSUME NEW rows, RowSet(rows), NEW w \in rows
    PROVE  (CHOOSE r \in rows : r.id = w.id) = w
BY DEF RowSet

\* What a regeneration has taken from the registry, and what is stored.
PolicyInvariant ==
    /\ catalogue \in Catalogues
    /\ stored = [map |-> stored.map, version |-> stored.version]
    /\ job # None =>
         /\ RowSet(job.rows) /\ job.rows # {}
         /\ job = [rows |-> job.rows, goal |-> job.goal]

LEMMA CatalogueRows ==
    ASSUME NEW rows \in Catalogues
    PROVE  RowSet(rows)
BY PolicyAssumption DEF RowSet, SoundRow

LEMMA RoutableRows ==
    ASSUME NEW rows, RowSet(rows), NEW live
    PROVE  RowSet(Routable(rows, live))
<1>1. Routable(rows, live) \subseteq rows
    BY DEF Routable, PricedPool, OrAll
<1>2. QED
    BY <1>1, FS_Subset DEF RowSet

LEMMA PolicyStarts == PolicyInit => PolicyInvariant
BY PolicyAssumption DEF PolicyInit, PolicyInvariant

LEMMA JobTakesRows ==
    ASSUME PolicyInvariant, NEW goal, StartRegenerate(goal)
    PROVE  PolicyInvariant'
<1>1. RowSet(Routable(catalogue, liveIds)) /\ Routable(catalogue, liveIds) # {}
    BY CatalogueRows, RoutableRows DEF PolicyInvariant, StartRegenerate
<1>2. job' = [rows |-> Routable(catalogue, liveIds), goal |-> goal]
    BY DEF StartRegenerate
<1>3. job'.rows = Routable(catalogue, liveIds) /\ job'.goal = goal
    BY <1>2
<1>4. catalogue' = catalogue /\ stored' = stored
    BY DEF StartRegenerate
<1>5. QED
    BY <1>1, <1>2, <1>3, <1>4 DEF PolicyInvariant

LEMMA PolicyStep ==
    ASSUME PolicyInvariant, [PolicyNext]_PolicyVars
    PROVE  PolicyInvariant'
<1>1. ASSUME NEW goal \in Goals, StartRegenerate(goal)
      PROVE  PolicyInvariant'
    BY <1>1, JobTakesRows
<1>2. CASE Describe
    BY <1>2, JobTakesRows DEF Describe
<1>3. ASSUME NEW seen \in SUBSET CustomTasks, FinishRegenerate(seen)
      PROVE  PolicyInvariant'
    BY <1>3 DEF PolicyInvariant, FinishRegenerate
<1>4. CASE RegenerateFails
    BY <1>4 DEF PolicyInvariant, RegenerateFails
<1>5. ASSUME NEW map \in EditedMaps, SetAssignments(map)
      PROVE  PolicyInvariant'
    BY <1>5 DEF PolicyInvariant, SetAssignments
<1>6. CASE Upgrade
    BY <1>6 DEF PolicyInvariant, Upgrade
<1>7. ASSUME NEW rows \in Catalogues, NEW live \in LiveSets, RegistryChanges(rows, live)
      PROVE  PolicyInvariant'
    BY <1>7 DEF PolicyInvariant, RegistryChanges
<1>8. CASE GetEffective \/ UNCHANGED PolicyVars
    BY <1>8 DEF PolicyInvariant, GetEffective, PolicyVars
<1>9. QED
    BY <1>1, <1>2, <1>3, <1>4, <1>5, <1>6, <1>7, <1>8 DEF PolicyNext

\* The property, of one task and one step.
TaskIsBest(t) ==
    GoodPick(CHOOSE r \in job.rows : r.id = stored'.map[t], job.rows, t, TierOf(t), job.goal,
             Tokens[t])

\* No other step ends a regeneration and stores another policy of this version.
LEMMA OnlyAFinishStores ==
    ASSUME PolicyInvariant, [PolicyNext]_PolicyVars,
           job # None, job' = None, stored'.version = CurrentVersion, stored' # stored
    PROVE  \E seen \in SUBSET CustomTasks : FinishRegenerate(seen)
<1>1. \A goal : ~StartRegenerate(goal)
    BY DEF StartRegenerate
<1>2. ~Describe
    BY <1>1 DEF Describe
<1>3. ~RegenerateFails
    BY DEF RegenerateFails
<1>4. \A map : ~SetAssignments(map)
    BY DEF SetAssignments
<1>5. ~Upgrade
    <2>1. ASSUME Upgrade PROVE FALSE
        <3>1. stored' = [stored EXCEPT !.version = CurrentVersion - 1]
            BY <2>1 DEF Upgrade
        <3>2. stored'.version = CurrentVersion - 1
            BY <3>1 DEF PolicyInvariant
        <3>3. QED
            BY <3>2 DEF CurrentVersion
    <2>2. QED
        BY <2>1
<1>6. \A rows, live : ~RegistryChanges(rows, live)
    BY DEF RegistryChanges
<1>7. ~GetEffective /\ ~UNCHANGED PolicyVars
    BY DEF GetEffective, PolicyVars
<1>8. QED
    BY <1>1, <1>2, <1>3, <1>4, <1>5, <1>6, <1>7 DEF PolicyNext

LEMMA FinishIsBest ==
    ASSUME PolicyInvariant, NEW seen, FinishRegenerate(seen), NEW t \in PolicyTasks,
           stored'.map[t] # None
    PROVE  TaskIsBest(t)
<1>1. job # None /\ stored'.map = ComputeAssignments(job.rows, seen, job.goal)
    BY DEF FinishRegenerate
<1>2. PICK rows, goal : rows = job.rows /\ goal = job.goal /\ RowSet(rows) /\ rows # {}
    BY <1>1 DEF PolicyInvariant
<1>3. PICK w : w = RankedFirst(t, rows, TierOf(t), Tokens[t], goal)
    OBVIOUS
<1>4. stored'.map[t] = w.id
    BY <1>1, <1>2, <1>3 DEF ComputeAssignments
<1>5. Tokens[t] \in [in : Nat, out : Nat]
    BY PolicyAssumption
<1>6. w \in rows
    BY <1>2, <1>3, <1>5, FirstIsGood
<1>7. (CHOOSE r \in job.rows : r.id = stored'.map[t]) = w
    BY <1>2, <1>4, <1>6, RowByItsId
<1>8. GoodPick(w, rows, t, TierOf(t), goal, Tokens[t])
    BY <1>2, <1>3, <1>5, FirstIsGood
<1>9. QED
    BY <1>2, <1>7, <1>8 DEF TaskIsBest

\* What the engine stores for a task could not be bettered in the pool it was
\* computed from, for every registry, set of needs, prices and goal: of
\* rankCandidates and computeAssignments (aiPolicy.js), every relaxation included.
THEOREM GeneratedAlwaysBest == PolicySpec => GeneratedIsBest
<1>1. ASSUME PolicyInvariant, [PolicyNext]_PolicyVars
      PROVE  \A t \in PolicyTasks :
               (job # None /\ job' = None /\ stored'.version = CurrentVersion /\ stored' # stored
                  /\ stored'.map[t] # None) => TaskIsBest(t)
    BY <1>1, OnlyAFinishStores, FinishIsBest
<1>2. QED
    BY <1>1, PolicyStarts, PolicyStep, PTL DEF PolicySpec, GeneratedIsBest, TaskIsBest, GoodPick

\* The pick for a tier is a live row that can chat, and no contender is cheaper.
LEMMA PickStands ==
    ASSUME PolicyInvariant, NEW t \in PolicyTasks, NEW d, Routable(catalogue, liveIds) # {}
    PROVE  /\ PickFor(t, d) \in catalogue /\ RowOf(PickFor(t, d).id) = PickFor(t, d)
           /\ PickFor(t, d).chat /\ PickFor(t, d).provider \in liveIds
           /\ \A r \in Contenders(t, Routable(catalogue, liveIds), d, "balanced") :
                 ExpectedCost(PickFor(t, d), Default) <= ExpectedCost(r, Default)
<1>1. RowSet(catalogue) /\ RowSet(Routable(catalogue, liveIds))
    BY CatalogueRows, RoutableRows DEF PolicyInvariant
<1>2. Default \in [in : Nat, out : Nat]
    BY DEF Default
<1>3. PICK rows, w : rows = Routable(catalogue, liveIds) /\ w = PickFor(t, d)
    OBVIOUS
<1>4. /\ w \in Contenders(t, rows, d, "balanced")
      /\ \A o \in Contenders(t, rows, d, "balanced") \ {w} : Better(t, Default, "balanced", w, o)
    BY <1>1, <1>2, <1>3, FirstIsBest DEF PickFor
<1>5. Contenders(t, rows, d, "balanced") \subseteq rows
    BY <1>3, ContendersRemain
<1>6. rows \subseteq {r \in catalogue : r.provider \in liveIds /\ r.chat}
    BY <1>3 DEF Routable, PricedPool, OrAll
<1>7. w \in catalogue /\ w.chat /\ w.provider \in liveIds
    BY <1>4, <1>5, <1>6
<1>8. RowOf(w.id) = w
    BY <1>1, <1>7, RowByItsId DEF RowOf
<1>9. ASSUME NEW r \in Contenders(t, rows, d, "balanced")
      PROVE  ExpectedCost(w, Default) <= ExpectedCost(r, Default)
    <2>1. RowSet(rows) /\ w \in rows /\ r \in rows
        BY <1>1, <1>3, <1>4, <1>5
    <2>2. ExpectedCost(w, Default) \in Nat /\ ExpectedCost(r, Default) \in Nat
        BY <1>2, <2>1, CostIsNatural DEF RowSet
    <2>3. CASE r = w
        BY <2>2, <2>3
    <2>4. CASE r # w
        <3>1. Better(t, Default, "balanced", w, r)
            BY <1>4, <2>4
        <3>2. QED
            BY <2>2, <3>1 DEF Better
    <2>5. QED
        BY <2>3, <2>4
<1>10. QED
    BY <1>3, <1>7, <1>8, <1>9

\* What PickIsWarranted asks of the answer for one request.
Warranted(t, d, adjust) ==
    ResolveModel(t, d, adjust) # None =>
      LET base == RowOf(copy[t])
          pick == RowOf(ResolveModel(t, d, adjust))
          qualified == Contenders(t, Routable(catalogue, liveIds), d, "balanced")
      IN  /\ pick.chat
          /\ ~adjust => pick = base
          /\ pick # base =>
               /\ HasPrice(base) /\ pick.input < base.input /\ pick.provider \in liveIds
               /\ base \in qualified => ExpectedCost(pick, Default) <= ExpectedCost(base, Default)

LEMMA PickWarranted ==
    ASSUME PolicyInvariant, NEW t \in PolicyTasks, NEW d, NEW adjust \in BOOLEAN
    PROVE  Warranted(t, d, adjust)
<1> DEFINE base == RowOf(copy[t])
<1>1. SUFFICES ASSUME ResolveModel(t, d, adjust) # None PROVE Warranted(t, d, adjust)
    BY DEF Warranted
<1>2. CASE ResolveModel(t, d, adjust) = Lookup(t)
    <2>1. Lookup(t) = copy[t] /\ base.chat
        BY <1>1, <1>2 DEF Lookup
    <2>2. RowOf(ResolveModel(t, d, adjust)) = base
        BY <1>2, <2>1
    <2>3. QED
        BY <2>1, <2>2 DEF Warranted
<1>3. CASE ResolveModel(t, d, adjust) # Lookup(t)
    <2>1. /\ adjust /\ Lookup(t) # None /\ Routable(catalogue, liveIds) # {}
          /\ ResolveModel(t, d, adjust) = Adjusted(t, Lookup(t), d)
        BY <1>3 DEF ResolveModel
    <2>2. Lookup(t) = copy[t] /\ Known(copy[t])
        BY <2>1 DEF Lookup
    <2>3. base \in catalogue
        BY <2>2 DEF Known, RowOf
    <2>4. PICK w : w = PickFor(t, d)
        OBVIOUS
    <2>5. /\ w \in catalogue /\ RowOf(w.id) = w /\ w.chat /\ w.provider \in liveIds
          /\ \A r \in Contenders(t, Routable(catalogue, liveIds), d, "balanced") :
                 ExpectedCost(w, Default) <= ExpectedCost(r, Default)
        BY <2>1, <2>4, PickStands
    <2>6. /\ w.input # None /\ base.input # None /\ w.input < base.input
          /\ ResolveModel(t, d, adjust) = w.id
        BY <1>3, <2>1, <2>2, <2>4 DEF Adjusted
    <2>7. RowSet(catalogue)
        BY CatalogueRows DEF PolicyInvariant
    <2>8. w.input \in Nat /\ base.input \in Nat
        BY <2>3, <2>5, <2>6, <2>7 DEF RowSet, SoundRow
    <2>9. HasPrice(base)
        BY <2>6, <2>8 DEF HasPrice
    <2>10. RowOf(ResolveModel(t, d, adjust)) = w
        BY <2>5, <2>6
    <2> HIDE DEF base
    <2>11. QED
        BY <2>1, <2>5, <2>6, <2>9, <2>10 DEF Warranted, base
<1>4. QED
    BY <1>2, <1>3

\* For every registry, assignment and difficulty, what a request is given can chat, and
\* the adjustment only moves it to a model that asks less (resolveModel, aiPolicy.js).
THEOREM PickAlwaysWarranted == PolicySpec => []PickIsWarranted
<1>1. ASSUME PolicyInvariant PROVE PickIsWarranted
    <2>1. \A t \in PolicyTasks, d \in Tiers \cup {None}, adjust \in BOOLEAN : Warranted(t, d, adjust)
        BY <1>1, PickWarranted
    <2>2. QED
        BY <2>1 DEF PickIsWarranted, Warranted
<1>2. QED
    BY <1>1, PolicyStarts, PolicyStep, PTL DEF PolicySpec
-----------------------------------------------------------------------------
(* Calls beside routing. *)

\* A call as it is begun, and what a customer and an operator rely on in it.
CallSound(o) ==
    /\ o = [pc |-> o.pc, via |-> o.via, asked |-> o.asked, wanted |-> o.wanted, key |-> o.key,
            internal |-> o.internal, application |-> o.application, inputs |-> o.inputs,
            told |-> o.told]
    /\ o.internal => o.application = None
    /\ o.wanted # None => o.key = o.wanted

\* What the two places of its record hold once its caller was told.
RecordOnce(o, waiting, stored_) ==
    LET e == EntryOf(o, o.told)
    IN  \/ waiting = <<e>> /\ stored_ = <<>>
        \/ waiting = <<>> /\ stored_ \in {<<>>, <<e>>}

\* What a call can be at, with its records.
CallHolds(o, waiting, stored_) ==
    \/ o = AtHome /\ (waiting = <<>> \/ waiting = <<waiting[1]>>)
    \/ o.pc = "trying" /\ CallSound(o) /\ waiting = <<>> /\ stored_ = <<>>
    \/ /\ o.pc = "told" /\ (o.internal => o.application = None)
       /\ o.wanted # None => o.key = o.wanted
       /\ RecordOnce(o, waiting, stored_)

InternalInvariant ==
    /\ outgoing = [c \in Internals |-> outgoing[c]]
    /\ noted = [c \in Internals |-> noted[c]]
    /\ kept = [c \in Internals |-> kept[c]]
    /\ \A c \in Internals : CallHolds(outgoing[c], noted[c], kept[c])

LEMMA InternalStarts == InternalInit => InternalInvariant
BY DEF InternalInit, InternalInvariant, CallHolds, AtHome

\* An action touches one call.
LEMMA OneCall ==
    ASSUME InternalInvariant, NEW c \in Internals, NEW o, NEW waiting, NEW stored_,
           outgoing' = [outgoing EXCEPT ![c] = o], noted' = [noted EXCEPT ![c] = waiting],
           kept' = [kept EXCEPT ![c] = stored_],
           CallHolds(o, waiting, stored_)
    PROVE  InternalInvariant'
<1>1. ASSUME NEW b \in Internals PROVE CallHolds(outgoing'[b], noted'[b], kept'[b])
    <2>1. CASE b = c
        BY <2>1 DEF InternalInvariant
    <2>2. CASE b # c
        BY <2>2 DEF InternalInvariant
    <2>3. QED
        BY <2>1, <2>2
<1>2. /\ outgoing' = [b \in Internals |-> outgoing'[b]]
      /\ noted' = [b \in Internals |-> noted'[b]]
      /\ kept' = [b \in Internals |-> kept'[b]]
    BY DEF InternalInvariant
<1>3. QED
    BY <1>1, <1>2 DEF InternalInvariant

LEMMA CallBegins ==
    ASSUME InternalInvariant, NEW c \in Internals, NEW o, Begin(c, o), o.pc = "trying", CallSound(o)
    PROVE  InternalInvariant'
<1>1. noted' = [noted EXCEPT ![c] = <<>>]
    BY DEF Begin, InternalInvariant
<1>2. outgoing' = [outgoing EXCEPT ![c] = o] /\ kept' = [kept EXCEPT ![c] = <<>>]
    BY DEF Begin
<1>3. CallHolds(o, <<>>, <<>>)
    BY DEF CallHolds
<1>4. QED
    BY <1>1, <1>2, <1>3, OneCall

LEMMA OneBesideNone ==
    ASSUME NEW e
    PROVE  /\ <<e>> \o <<>> = <<e>> /\ <<>> \o <<e>> = <<e>> /\ <<>> \o <<>> = <<>>
           /\ Append(<<>>, e) = <<e>>
           /\ Range(<<e>>) = {e} /\ Range(<<>>) = {}
<1>1. <<e>> \o <<>> = <<e>> /\ <<>> \o <<e>> = <<e>> /\ <<>> \o <<>> = <<>>
    OBVIOUS
<1>2. Append(<<>>, e) = <<e>>
    OBVIOUS
<1>3. Range(<<e>>) = {e}
    <2>1. DOMAIN <<e>> = {1} /\ <<e>>[1] = e
        OBVIOUS
    <2>2. QED
        BY <2>1 DEF Range
<1>4. Range(<<>>) = {}
    BY DEF Range
<1>5. QED
    BY <1>1, <1>2, <1>3, <1>4

LEMMA CallIsTold ==
    ASSUME InternalInvariant, NEW c \in Internals, outgoing[c].pc = "trying",
           NEW told, Tell(c, told)
    PROVE  InternalInvariant'
<1>1. PICK o : o = outgoing[c]
    OBVIOUS
<1>2. CallSound(o) /\ noted[c] = <<>> /\ kept[c] = <<>>
    BY <1>1 DEF InternalInvariant, CallHolds, AtHome, RecordOnce
<1>3. PICK r : r = [o EXCEPT !.pc = "told", !.told = told]
    OBVIOUS
<1>4. /\ r.pc = "told" /\ r.told = told
      /\ r.internal = o.internal /\ r.application = o.application
      /\ r.wanted = o.wanted /\ r.key = o.key
    BY <1>2, <1>3 DEF CallSound
<1>5. PICK e : e = EntryOf(o, told)
    OBVIOUS
<1>6. outgoing' = [outgoing EXCEPT ![c] = r]
    BY <1>1, <1>3 DEF Tell
<1>7. noted' = [noted EXCEPT ![c] = <<e>>]
    BY <1>1, <1>2, <1>5, OneBesideNone DEF Tell
<1>8. kept' = [kept EXCEPT ![c] = <<>>]
    BY <1>2 DEF Tell, InternalInvariant
<1>9. e = EntryOf(r, r.told)
    BY <1>4, <1>5 DEF EntryOf
<1>10. CallHolds(r, <<e>>, <<>>)
    BY <1>2, <1>4, <1>9 DEF CallHolds, RecordOnce, CallSound
<1>11. QED
    BY <1>6, <1>7, <1>8, <1>10, OneCall

LEMMA InternalStep ==
    ASSUME InternalInvariant, [InternalNext]_InternalVars
    PROVE  InternalInvariant'
<1>1. ASSUME NEW c \in Internals, NEW p, Complete(c, p) PROVE InternalInvariant'
    BY <1>1, CallBegins DEF Complete, CallSound
<1>2. ASSUME NEW c \in Internals, NEW p, NEW k, Test(c, p, k) PROVE InternalInvariant'
    BY <1>2, CallBegins DEF Test, CallSound, KeyOfAlias
<1>3. ASSUME NEW c \in Internals, NEW m, NEW a, NEW n, Embed(c, m, a, n) PROVE InternalInvariant'
    BY <1>3, CallBegins DEF Embed, CallSound
<1>4. ASSUME NEW c \in Internals, NEW t, CompletionAnswers(c, t) \/ EmbeddingAnswers(c, t)
      PROVE  InternalInvariant'
    BY <1>4, CallIsTold DEF CompletionAnswers, EmbeddingAnswers
<1>5. ASSUME NEW c \in Internals, CompletionFails(c) \/ EmbeddingFails(c)
      PROVE  InternalInvariant'
    BY <1>5, CallIsTold DEF CompletionFails, EmbeddingFails
<1>6. ASSUME NEW c \in Internals, WriteLands(c) PROVE InternalInvariant'
    <2>1. /\ noted[c] # <<>> /\ outgoing' = outgoing
          /\ noted' = [noted EXCEPT ![c] = Tail(noted[c])]
          /\ kept' = [kept EXCEPT ![c] = Append(kept[c], noted[c][1])]
        BY <1>6 DEF WriteLands
    <2>2. outgoing' = [outgoing EXCEPT ![c] = outgoing[c]]
        BY <2>1 DEF InternalInvariant
    <2>3. CallHolds(outgoing[c], noted[c], kept[c])
        BY DEF InternalInvariant
    <2>4. PICK e : noted[c] = <<e>>
        BY <2>1, <2>3 DEF CallHolds, RecordOnce
    <2>5. noted' = [noted EXCEPT ![c] = <<>>] /\ kept' = [kept EXCEPT ![c] = Append(kept[c], e)]
        BY <2>1, <2>4
    <2>6. outgoing[c] = AtHome \/ kept[c] = <<>>
        BY <2>1, <2>3 DEF CallHolds, RecordOnce
    <2>7. CallHolds(outgoing[c], <<>>, Append(kept[c], e))
      <3>1. CASE outgoing[c] = AtHome
          BY <3>1 DEF CallHolds
      <3>2. CASE outgoing[c] # AtHome
          <4>1. /\ outgoing[c].pc = "told" /\ (outgoing[c].internal => outgoing[c].application = None)
                /\ (outgoing[c].wanted # None => outgoing[c].key = outgoing[c].wanted)
                /\ kept[c] = <<>>
                /\ e = EntryOf(outgoing[c], outgoing[c].told)
              BY <2>1, <2>3, <2>4, <3>2 DEF CallHolds, RecordOnce
          <4>2. Append(kept[c], e) = <<e>>
              BY <4>1, OneBesideNone
          <4>3. QED
              BY <4>1, <4>2 DEF CallHolds, RecordOnce
      <3>3. QED
          BY <3>1, <3>2
    <2>8. QED
        BY <2>2, <2>5, <2>7, OneCall
<1>7. ASSUME NEW c \in Internals, WriteSwallowed(c) PROVE InternalInvariant'
    <2>1. /\ noted[c] # <<>> /\ outgoing' = outgoing /\ kept' = kept
          /\ noted' = [noted EXCEPT ![c] = Tail(noted[c])]
        BY <1>7 DEF WriteSwallowed
    <2>2. outgoing' = [outgoing EXCEPT ![c] = outgoing[c]] /\ kept' = [kept EXCEPT ![c] = kept[c]]
        BY <2>1 DEF InternalInvariant
    <2>3. CallHolds(outgoing[c], noted[c], kept[c])
        BY DEF InternalInvariant
    <2>4. PICK e : noted[c] = <<e>>
        BY <2>1, <2>3 DEF CallHolds, RecordOnce
    <2>5. noted' = [noted EXCEPT ![c] = <<>>]
        BY <2>1, <2>4
    <2>6. CallHolds(outgoing[c], <<>>, kept[c])
        BY <2>1, <2>3, <2>4 DEF CallHolds, RecordOnce, AtHome
    <2>7. QED
        BY <2>2, <2>5, <2>6, OneCall
<1>8. ASSUME NEW c \in Internals, Leave(c) PROVE InternalInvariant'
    <2>1. outgoing[c].pc = "told" /\ outgoing' = [outgoing EXCEPT ![c] = AtHome] /\ noted' = noted /\ kept' = kept
        BY <1>8 DEF Leave
    <2>2. noted' = [noted EXCEPT ![c] = noted[c]] /\ kept' = [kept EXCEPT ![c] = kept[c]]
        BY <2>1 DEF InternalInvariant
    <2>3. CallHolds(outgoing[c], noted[c], kept[c])
        BY DEF InternalInvariant
    <2>4. CallHolds(AtHome, noted[c], kept[c])
        BY <2>1, <2>3 DEF CallHolds, RecordOnce, AtHome
    <2>5. QED
        BY <2>1, <2>2, <2>4, OneCall
<1>9. CASE UNCHANGED InternalVars
    BY <1>9 DEF InternalVars, InternalInvariant
<1>10. QED
    BY <1>1, <1>2, <1>3, <1>4, <1>5, <1>6, <1>7, <1>8, <1>9 DEF InternalNext

\* Of every call that is not routed there is one record at most, none before it is over,
\* and it says what the caller was told; a key that passed its test is the one asked for.
THEOREM CallsAlwaysAccounted == InternalSpec => []CallsAreAccounted
<1>1. ASSUME InternalInvariant PROVE CallsAreAccounted
    <2>1. ASSUME NEW c \in Internals, outgoing[c].pc = "trying"
          PROVE  noted[c] \o kept[c] = <<>>
        BY <1>1, <2>1 DEF InternalInvariant, CallHolds, AtHome
    <2>2. ASSUME NEW c \in Internals, outgoing[c].pc = "told"
          PROVE  LET records == noted[c] \o kept[c]
                 IN  /\ Len(records) <= 1
                     /\ \A e \in Range(records) :
                          /\ e = EntryOf(outgoing[c], outgoing[c].told)
                          /\ e.internal => e.application = None
      <3>1. PICK e : e = EntryOf(outgoing[c], outgoing[c].told)
          OBVIOUS
      <3>2. /\ (outgoing[c].internal => outgoing[c].application = None)
            /\ RecordOnce(outgoing[c], noted[c], kept[c])
          BY <1>1, <2>2 DEF InternalInvariant, CallHolds, AtHome
      <3>3. noted[c] \o kept[c] \in {<<>>, <<e>>}
          BY <3>1, <3>2, OneBesideNone DEF RecordOnce
      <3>4. e.internal => e.application = None
          BY <3>1, <3>2 DEF EntryOf
      <3>5. Len(noted[c] \o kept[c]) <= 1 /\ Range(noted[c] \o kept[c]) \subseteq {e}
        <4>1. CASE noted[c] \o kept[c] = <<>>
          <5>1. Len(<<>>) = 0 /\ 0 <= 1
              OBVIOUS
          <5>2. QED
              BY <4>1, <5>1, OneBesideNone
        <4>2. CASE noted[c] \o kept[c] = <<e>>
          <5>1. Len(<<e>>) = 1
              OBVIOUS
          <5>2. QED
              BY <4>2, <5>1, OneBesideNone
        <4>3. QED
            BY <3>3, <4>1, <4>2
      <3>6. QED
          BY <3>1, <3>4, <3>5
    <2>3. ASSUME NEW c \in Internals, outgoing[c].pc = "told", outgoing[c].wanted # None
          PROVE  outgoing[c].key = outgoing[c].wanted
        BY <1>1, <2>3 DEF InternalInvariant, CallHolds, AtHome
    <2>4. QED
        BY <2>1, <2>2, <2>3 DEF CallsAreAccounted, SpendIsSeenOnce, TestedIsAsked
<1>2. QED
    BY <1>1, InternalStarts, InternalStep, PTL DEF InternalSpec

-----------------------------------------------------------------------------
(* The classifier. *)

UserTurns(said) == {i \in 1..Len(said) : said[i].role = "user"}
IsConversation(said) ==
    /\ said \in Seq(Range(said)) /\ said # <<>>
    /\ \A i \in DOMAIN said : said[i].text.length \in Nat

\* What is asked is of the latest turn, or of the last message.
AskedAt(said, i) ==
    /\ i \in (IF UserTurns(said) = {} THEN {Len(said)} ELSE UserTurns(said))
    /\ said[i].text = Asking(said)
    /\ \A j \in UserTurns(said) : j <= i

LEMMA AskingIsLatest ==
    ASSUME NEW said, IsConversation(said)
    PROVE  \E i \in 1..Len(said) : AskedAt(said, i)
<1> DEFINE turn == IF UserTurns(said) # {} THEN Max(UserTurns(said)) ELSE 0
           at == IF turn = 0 THEN Len(said) ELSE turn
<1>1. Asking(said) = said[at].text
    BY DEF Asking, SelectLastInSeq, UserTurns
<1>2. Len(said) \in Nat /\ Len(said) \in 1..Len(said) /\ UserTurns(said) \in SUBSET (1..Len(said))
    BY DEF IsConversation, UserTurns
<1>3. CASE UserTurns(said) = {}
    <2>1. at = Len(said)
        BY <1>3
    <2> HIDE DEF turn, at
    <2>2. QED
        BY <1>1, <1>2, <1>3, <2>1 DEF AskedAt
<1>4. CASE UserTurns(said) # {}
    <2>1. \E x \in UserTurns(said) : \A y \in UserTurns(said) : x >= y
        BY <1>2, <1>4, IndexEnds
    <2>2. turn \in UserTurns(said) /\ \A y \in UserTurns(said) : turn >= y
        BY <1>4, <2>1 DEF Max
    <2>3. at = turn
        BY <1>2, <2>2
    <2> HIDE DEF turn, at
    <2>4. QED
        BY <1>1, <1>2, <1>4, <2>2, <2>3 DEF AskedAt
<1>5. QED
    BY <1>3, <1>4

\* What may be in the cache.
LlmEntry(text, label, rating) ==
    [text |-> text, verdict |-> Verdict("ai", text, label, NormalizeScore(rating))]
AskedTexts == {Asking(said) : said \in Conversations}
LlmEntries == {LlmEntry(x, l, r) : x \in AskedTexts, l \in TextTasks, r \in Ratings}

LEMMA SlotFinds ==
    ASSUME NEW S, NEW cache \in Seq(S), NEW text
    PROVE  /\ Slot(cache, text) \in 0..Len(cache)
           /\ Slot(cache, text) # 0 => cache[Slot(cache, text)].text = text
           /\ Slot(cache, text) = 0 => \A i \in 1..Len(cache) : cache[i].text # text
<1> DEFINE found == {i \in 1..Len(cache) : cache[i].text = text}
<1>1. Slot(cache, text) = IF found # {} THEN Min(found) ELSE 0
    BY DEF Slot, SelectInSeq
<1>2. Len(cache) \in Nat /\ found \in SUBSET (1..Len(cache))
    OBVIOUS
<1>3. CASE found = {}
    BY <1>1, <1>2, <1>3
<1>4. CASE found # {}
    <2>1. \E x \in found : \A y \in found : x <= y
        <3> HIDE DEF found
        <3>1. QED
            BY <1>2, <1>4, IndexEnds
    <2>2. Min(found) \in found
        BY <2>1 DEF Min
    <2>3. QED
        BY <1>1, <1>2, <1>4, <2>2
<1>5. QED
    BY <1>3, <1>4

\* One entry for a text.
OneEach(cache) == \A i, j \in DOMAIN cache : cache[i].text = cache[j].text => i = j

LEMMA RememberKeeps ==
    ASSUME NEW S, NEW cache \in Seq(S), Len(cache) <= LlmCacheMax, OneEach(cache),
           NEW text, NEW verdict, [text |-> text, verdict |-> verdict] \in S,
           \A e \in S : e = [text |-> e.text, verdict |-> e.verdict]
    PROVE  /\ Remember(cache, text, verdict) \in Seq(S)
           /\ Len(Remember(cache, text, verdict)) <= LlmCacheMax
           /\ OneEach(Remember(cache, text, verdict))
<1> DEFINE room == MakeRoom(cache)
           at == Slot(room, text)
           entry == [text |-> text, verdict |-> verdict]
<1>1. LlmCacheMax \in Nat /\ LlmCacheMax > 0
    BY ClassifierAssumption
<1>2. room \in Seq(S) /\ Len(room) < LlmCacheMax /\ OneEach(room)
    <2>1. CASE Len(cache) >= LlmCacheMax
        <3>1. room = Tail(cache) /\ cache # <<>>
            BY <1>1, <2>1 DEF MakeRoom
        <3>2. /\ Tail(cache) \in Seq(S) /\ Len(Tail(cache)) = Len(cache) - 1
              /\ \A i \in 1..(Len(cache) - 1) : Tail(cache)[i] = cache[i + 1]
            BY <3>1
        <3>3. OneEach(Tail(cache))
            <4>1. SUFFICES ASSUME NEW i \in 1..(Len(cache) - 1), NEW j \in 1..(Len(cache) - 1),
                                  cache[i + 1].text = cache[j + 1].text
                           PROVE  i = j
                BY <3>2 DEF OneEach
            <4>2. i + 1 \in DOMAIN cache /\ j + 1 \in DOMAIN cache
                OBVIOUS
            <4>3. i + 1 = j + 1
                BY <4>1, <4>2 DEF OneEach
            <4>4. QED
                BY <4>3
        <3>4. QED
            BY <1>1, <3>1, <3>2, <3>3
    <2>2. CASE ~(Len(cache) >= LlmCacheMax)
        BY <1>1, <2>2 DEF MakeRoom
    <2>3. QED
        BY <2>1, <2>2
<1>3. Remember(cache, text, verdict) = IF at = 0 THEN Append(room, entry)
                                       ELSE [room EXCEPT ![at].verdict = verdict]
    BY DEF Remember
<1> HIDE DEF room
<1>4. /\ at \in 0..Len(room) /\ (at # 0 => room[at].text = text)
      /\ at = 0 => \A i \in 1..Len(room) : room[i].text # text
    BY <1>2, SlotFinds
<1> HIDE DEF at
<1>5. CASE at = 0
    <2>1. /\ Append(room, entry) \in Seq(S) /\ Len(Append(room, entry)) = Len(room) + 1
          /\ \A i \in 1..Len(room) : Append(room, entry)[i] = room[i]
          /\ Append(room, entry)[Len(room) + 1] = entry
        BY <1>2
    <2>2. entry.text = text
        OBVIOUS
    <2> HIDE DEF entry
    <2>3. OneEach(Append(room, entry))
        BY <1>2, <1>4, <1>5, <2>1, <2>2 DEF OneEach
    <2>4. QED
        BY <1>1, <1>2, <1>3, <1>5, <2>1, <2>3
<1>6. CASE at # 0
    <2>1. at \in 1..Len(room) /\ room[at] \in S
        BY <1>2, <1>4, <1>6
    <2>2. room[at] = [text |-> text, verdict |-> room[at].verdict]
        BY <1>4, <1>6, <2>1
    <2>3. [room[at] EXCEPT !.verdict = verdict] = entry
        BY <2>2
    <2>4. Remember(cache, text, verdict) = [room EXCEPT ![at] = entry]
        BY <1>3, <1>6, <2>3
    <2>5. entry.text = text /\ entry \in S
        OBVIOUS
    <2> HIDE DEF entry
    <2>6. [room EXCEPT ![at] = entry] \in Seq(S) /\ Len([room EXCEPT ![at] = entry]) = Len(room)
        BY <1>2, <2>1, <2>5
    <2>7. \A i \in 1..Len(room) : [room EXCEPT ![at] = entry][i].text = room[i].text
        BY <1>2, <1>4, <1>6, <2>1, <2>5
    <2>8. OneEach([room EXCEPT ![at] = entry])
        BY <1>2, <2>6, <2>7 DEF OneEach
    <2>9. QED
        BY <1>1, <1>2, <2>4, <2>6, <2>8
<1>7. QED
    BY <1>5, <1>6

\* What a request is at: what it was asked stays with it until it is classified.
RequestSound(r) ==
    \/ r = AtRest
    \/ r.pc = "asking" /\ r = [pc |-> "asking", messages |-> r.messages]
         /\ r.messages \in Conversations
    \/ r.pc = "done" /\ r.messages \in Conversations /\ r.verdict.of = Asking(r.messages)

ClassifierInvariant ==
    /\ llmCache \in Seq(LlmEntries) /\ Len(llmCache) <= LlmCacheMax /\ OneEach(llmCache)
    /\ classifying = [c \in Classifications |-> classifying[c]]
    /\ \A c \in Classifications : RequestSound(classifying[c])

LEMMA ClassifierStarts == ClassifierInit => ClassifierInvariant
<1>1. Len(<<>>) = 0 /\ 0 <= LlmCacheMax /\ <<>> \in Seq(LlmEntries) /\ OneEach(<<>>)
    BY ClassifierAssumption DEF OneEach
<1>2. QED
    BY <1>1 DEF ClassifierInit, ClassifierInvariant, RequestSound

LEMMA OneRequest ==
    ASSUME ClassifierInvariant, NEW c \in Classifications, NEW r, RequestSound(r),
           classifying' = [classifying EXCEPT ![c] = r]
    PROVE  /\ classifying' = [b \in Classifications |-> classifying'[b]]
           /\ \A b \in Classifications : RequestSound(classifying'[b])
<1>1. ASSUME NEW b \in Classifications PROVE classifying'[b] = IF b = c THEN r ELSE classifying[b]
    BY DEF ClassifierInvariant
<1>2. classifying' = [b \in Classifications |-> classifying'[b]]
    BY DEF ClassifierInvariant
<1>3. QED
    BY <1>1, <1>2 DEF ClassifierInvariant

LEMMA VerdictOfText ==
    ASSUME NEW x, NEW method, NEW task, NEW score
    PROVE  Verdict(method, x, task, score).of = x
BY DEF Verdict

LEMMA DoneIsSound ==
    ASSUME ClassifierInvariant, NEW c \in Classifications, NEW said \in Conversations, NEW verdict,
           verdict.of = Asking(said), Done(c, said, verdict), UNCHANGED llmCache
    PROVE  ClassifierInvariant'
<1>1. RequestSound([pc |-> "done", messages |-> said, verdict |-> verdict])
    BY DEF RequestSound
<1>2. classifying' = [classifying EXCEPT ![c] = [pc |-> "done", messages |-> said, verdict |-> verdict]]
    BY DEF Done
<1>3. /\ classifying' = [b \in Classifications |-> classifying'[b]]
      /\ \A b \in Classifications : RequestSound(classifying'[b])
    BY <1>1, <1>2, OneRequest
<1>4. QED
    BY <1>3 DEF ClassifierInvariant

LEMMA EntryFits ==
    ASSUME NEW e \in LlmEntries
    PROVE  e = [text |-> e.text, verdict |-> e.verdict] /\ e.verdict.of = e.text
<1>1. PICK x \in AskedTexts, l \in TextTasks, r \in Ratings : e = LlmEntry(x, l, r)
    BY DEF LlmEntries
<1>2. e.text = x /\ e.verdict = Verdict("ai", x, l, NormalizeScore(r))
    BY <1>1 DEF LlmEntry
<1>3. QED
    BY <1>1, <1>2, VerdictOfText DEF LlmEntry

LEMMA ClassifierStep ==
    ASSUME ClassifierInvariant, [ClassifierNext]_ClassifierVars
    PROVE  ClassifierInvariant'
<1>1. ASSUME NEW c \in Classifications, NEW said \in Conversations, NEW t, Provided(c, said, t)
      PROVE  ClassifierInvariant'
    BY <1>1, DoneIsSound, VerdictOfText DEF Provided
<1>2. ASSUME NEW c \in Classifications, NEW said \in Conversations, KeywordsOnly(c, said)
      PROVE  ClassifierInvariant'
    <2>1. ByKeyword(Asking(said)).of = Asking(said)
        BY VerdictOfText DEF ByKeyword
    <2>2. QED
        BY <1>2, <2>1, DoneIsSound DEF KeywordsOnly
<1>3. ASSUME NEW c \in Classifications, NEW said \in Conversations, Recall(c, said)
      PROVE  ClassifierInvariant'
    <2>1. PICK i : i = Slot(llmCache, Asking(said))
        OBVIOUS
    <2>2. i \in 1..Len(llmCache) /\ llmCache[i].text = Asking(said)
        BY <1>3, <2>1, SlotFinds DEF Recall, ClassifierInvariant
    <2>3. llmCache[i] \in LlmEntries
        BY <2>2 DEF ClassifierInvariant
    <2>4. llmCache[i].verdict.of = Asking(said)
        BY <2>2, <2>3, EntryFits
    <2>5. Done(c, said, llmCache[i].verdict) /\ UNCHANGED llmCache
        BY <1>3, <2>1 DEF Recall
    <2>6. QED
        BY <2>4, <2>5, DoneIsSound
<1>4. ASSUME NEW c \in Classifications, NEW said \in Conversations, AskModel(c, said)
      PROVE  ClassifierInvariant'
    <2>1. RequestSound([pc |-> "asking", messages |-> said])
        BY DEF RequestSound
    <2>2. /\ classifying' = [b \in Classifications |-> classifying'[b]]
          /\ \A b \in Classifications : RequestSound(classifying'[b])
        BY <1>4, <2>1, OneRequest DEF AskModel
    <2>3. QED
        BY <1>4, <2>2 DEF ClassifierInvariant, AskModel
<1>5. ASSUME NEW c \in Classifications, NEW l \in TextTasks, NEW r \in Ratings, ModelAnswers(c, l, r)
      PROVE  ClassifierInvariant'
    <2>1. PICK said : said = classifying[c].messages
        OBVIOUS
    <2>2. said \in Conversations
        BY <1>5, <2>1 DEF ModelAnswers, ClassifierInvariant, RequestSound, AtRest
    <2>3. PICK text, verdict : text = Asking(said) /\ verdict = Verdict("ai", text, l, NormalizeScore(r))
        OBVIOUS
    <2>4. Done(c, said, verdict) /\ llmCache' = Remember(llmCache, text, verdict)
        BY <1>5, <2>1, <2>3 DEF ModelAnswers
    <2>5. [text |-> text, verdict |-> verdict] \in LlmEntries
        BY <2>2, <2>3 DEF LlmEntries, LlmEntry, AskedTexts
    <2>6. \A e \in LlmEntries : e = [text |-> e.text, verdict |-> e.verdict]
        BY EntryFits
    <2>7. llmCache' \in Seq(LlmEntries) /\ Len(llmCache') <= LlmCacheMax /\ OneEach(llmCache')
        BY <2>4, <2>5, <2>6, RememberKeeps DEF ClassifierInvariant
    <2>8. RequestSound([pc |-> "done", messages |-> said, verdict |-> verdict])
        BY <2>2, <2>3, VerdictOfText DEF RequestSound
    <2>9. classifying' = [classifying EXCEPT ![c] = [pc |-> "done", messages |-> said, verdict |-> verdict]]
        BY <2>4 DEF Done
    <2>10. /\ classifying' = [b \in Classifications |-> classifying'[b]]
           /\ \A b \in Classifications : RequestSound(classifying'[b])
        BY <2>8, <2>9, OneRequest
    <2>11. QED
        BY <2>7, <2>10 DEF ClassifierInvariant
<1>6. ASSUME NEW c \in Classifications, ModelFails(c)
      PROVE  ClassifierInvariant'
    <2>1. classifying[c].messages \in Conversations
        BY <1>6 DEF ModelFails, ClassifierInvariant, RequestSound, AtRest
    <2>2. ByKeyword(Asking(classifying[c].messages)).of = Asking(classifying[c].messages)
        BY VerdictOfText DEF ByKeyword
    <2>3. QED
        BY <1>6, <2>1, <2>2, DoneIsSound DEF ModelFails
<1>7. ASSUME NEW c \in Classifications, Forgotten(c)
      PROVE  ClassifierInvariant'
    <2>1. /\ classifying' = [b \in Classifications |-> classifying'[b]]
          /\ \A b \in Classifications : RequestSound(classifying'[b])
        BY <1>7, OneRequest DEF Forgotten, RequestSound
    <2>2. QED
        BY <1>7, <2>1 DEF ClassifierInvariant, Forgotten
<1>8. CASE UNCHANGED ClassifierVars
    BY <1>8 DEF ClassifierVars, ClassifierInvariant
<1>9. QED
    BY <1>1, <1>2, <1>3, <1>4, <1>5, <1>6, <1>7, <1>8 DEF ClassifierNext

-----------------------------------------------------------------------------
\* The score of a text buckets back to the tier that was estimated, at every length.

StartOf(t) == SelectInSeq(TextTiers, LAMBDA x : x = TextTier[t])

LEMMA StartsInATier ==
    ASSUME NEW t \in TextTasks
    PROVE  StartOf(t) \in 1..3
<1> DEFINE at == {i \in 1..Len(TextTiers) : TextTiers[i] = TextTier[t]}
<1>1. Len(TextTiers) = 3 /\ TextTiers[1] = "light" /\ TextTiers[2] = "mid" /\ TextTiers[3] = "premium"
    BY DEF TextTiers
<1>2. StartOf(t) = IF at # {} THEN Min(at) ELSE 0
    BY DEF SelectInSeq, StartOf
<1>3. at \in SUBSET (1..3) /\ at # {}
    BY <1>1, ClassifierAssumption
<1> HIDE DEF at
<1>4. \E x \in at : \A y \in at : x <= y
    BY <1>3, IndexEnds
<1>5. Min(at) \in at
    BY <1>4 DEF Min
<1>6. QED
    BY <1>2, <1>3, <1>5

LEMMA EstimateIsATier ==
    ASSUME NEW text, NEW t
    PROVE  EstimateDifficulty(text, t) \in {"light", "mid", "premium"}
<1> DEFINE start == IF t \in TextTasks THEN SelectInSeq(TextTiers, LAMBDA x : x = TextTier[t]) ELSE 2
           down == IF text.length < 80 /\ ~text.cues /\ start > 1 THEN start - 1 ELSE start
           up == IF (text.cues \/ text.length > 1500 \/ text.blocks >= 2) /\ down < 3 THEN down + 1 ELSE down
<1>1. EstimateDifficulty(text, t) = TextTiers[up]
    BY DEF EstimateDifficulty
<1>2. start \in 1..3
    <2>1. start = IF t \in TextTasks THEN StartOf(t) ELSE 2
        BY DEF StartOf
    <2>2. QED
        BY <2>1, StartsInATier
<1> HIDE DEF start
<1>3. down \in 1..3
    BY <1>2
<1> HIDE DEF down
<1>4. up \in 1..3
    BY <1>3
<1> HIDE DEF up
<1>5. QED
    BY <1>1, <1>4 DEF TextTiers

LEMMA ScoreInBand ==
    ASSUME NEW text, text.length \in Nat, NEW t
    PROVE  ScoreToTier(EstimateScore(text, t)) = EstimateDifficulty(text, t)
<1>1. PICK len \in 0..2000 : len = IF text.length > 2000 THEN 2000 ELSE text.length
    <2>1. PICK n \in Nat : n = text.length
        OBVIOUS
    <2>2. (IF n > 2000 THEN 2000 ELSE n) \in 0..2000
        OBVIOUS
    <2>3. (IF text.length > 2000 THEN 2000 ELSE text.length) \in 0..2000
        BY <2>1, <2>2
    <2>4. QED
        BY <2>3
<1>2. PICK tier \in {"light", "mid", "premium"} : tier = EstimateDifficulty(text, t)
    BY EstimateIsATier
<1>3. EstimateScore(text, t) =
        (2 * (Band(tier)[1] * 2000 + len * (Band(tier)[2] - Band(tier)[1])) + 2000) \div 4000
    BY <1>1, <1>2 DEF EstimateScore
<1>4. NoLabel \notin Nat
    BY ClassifierAssumption
<1>5. CASE tier = "light"
    <2>1. EstimateScore(text, t) = (6000 + 4 * len) \div 4000
        BY <1>3, <1>5 DEF Band
    <2>2. (6000 + 4 * len) \div 4000 \in 1..3
        OBVIOUS
    <2>3. QED
        BY <1>2, <1>4, <1>5, <2>1, <2>2 DEF ScoreToTier
<1>6. CASE tier = "mid"
    <2>1. EstimateScore(text, t) = (18000 + 6 * len) \div 4000
        BY <1>3, <1>6 DEF Band
    <2>2. (18000 + 6 * len) \div 4000 \in 4..7
        OBVIOUS
    <2>3. QED
        BY <1>2, <1>4, <1>6, <2>1, <2>2 DEF ScoreToTier
<1>7. CASE tier = "premium"
    <2>1. EstimateScore(text, t) = (34000 + 4 * len) \div 4000
        BY <1>3, <1>7 DEF Band
    <2>2. (34000 + 4 * len) \div 4000 \in 8..10
        OBVIOUS
    <2>3. QED
        BY <1>2, <1>4, <1>7, <2>1, <2>2 DEF ScoreToTier
<1>8. QED
    BY <1>5, <1>6, <1>7

\* A classification is of what the user asks now, for any conversations and any number of
\* requests; the cache keeps its limit and one entry a text; and no text, however long, is
\* given a score that routing would read as another tier (classifier.js).
THEOREM AlwaysClassifiedRightly == ClassifierSpec => []ClassifiedRightly
<1>1. \A said \in Conversations : IsConversation(said)
    BY ClassifierAssumption DEF IsConversation
<1>2. ASSUME ClassifierInvariant PROVE VerdictIsOwn
    <2>1. SUFFICES ASSUME NEW c \in Classifications, classifying[c].pc = "done"
                   PROVE  \E i \in (IF UserTurns(classifying[c].messages) = {} THEN {Len(classifying[c].messages)}
                                    ELSE UserTurns(classifying[c].messages)) :
                            /\ classifying[c].messages[i].text = classifying[c].verdict.of
                            /\ \A j \in UserTurns(classifying[c].messages) : j <= i
        <3>1. \A c \in Classifications : classifying[c].pc = "done" =>
                 DOMAIN classifying[c].messages = 1..Len(classifying[c].messages)
            BY <1>1, <1>2 DEF ClassifierInvariant, RequestSound, AtRest, IsConversation
        <3>2. QED
            BY <3>1 DEF VerdictIsOwn, UserTurns
    <2>2. PICK said : said = classifying[c].messages
        OBVIOUS
    <2>3. said \in Conversations /\ classifying[c].verdict.of = Asking(said)
        BY <1>2, <2>1, <2>2 DEF ClassifierInvariant, RequestSound, AtRest
    <2>4. PICK i \in 1..Len(said) : AskedAt(said, i)
        BY <1>1, <2>3, AskingIsLatest
    <2>5. QED
        BY <2>2, <2>3, <2>4 DEF AskedAt
<1>3. ASSUME ClassifierInvariant PROVE LlmCacheBounded
    BY <1>3 DEF ClassifierInvariant, LlmCacheBounded, OneEach
<1>4. ScoreKeepsTier
    <2>1. ASSUME NEW said \in Conversations, NEW t \in TextTasks \cup {Unsure}
          PROVE  ScoreToTier(EstimateScore(Asking(said), t)) = EstimateDifficulty(Asking(said), t)
        <3>1. PICK i \in 1..Len(said) : AskedAt(said, i)
            BY <1>1, AskingIsLatest
        <3>2. Asking(said).length \in Nat
            BY <1>1, <3>1 DEF AskedAt, IsConversation
        <3>3. QED
            BY <3>2, ScoreInBand
    <2>2. ASSUME NEW w \in {"light", "mid", "premium"}
          PROVE  ScoreToTier(NormalizeScore([word |-> w, n |-> 0])) = w
        BY ClassifierAssumption DEF ScoreToTier, NormalizeScore
    <2>3. QED
        BY <2>1, <2>2 DEF ScoreKeepsTier
<1>5. QED
    BY <1>2, <1>3, <1>4, ClassifierStarts, ClassifierStep, PTL DEF ClassifierSpec, ClassifiedRightly

-----------------------------------------------------------------------------
(* The scores that the engine rests on. *)

BestRow(rows, k) ==
    CHOOSE i \in DOMAIN rows :
        /\ rows[i].key = k
        /\ \A j \in DOMAIN rows : rows[j].key = k =>
              \/ Filled(rows[j]) < Filled(rows[i])
              \/ (Filled(rows[j]) = Filled(rows[i]) /\ j >= i)

LEMMA FilledIsNatural ==
    ASSUME NEW row
    PROVE  Filled(row) \in Nat
<1> DEFINE caps == ToCapabilities(row.scores)
           dims == {"coding", "reasoning", "writing", "analysis", "language", "data", "general"}
<1>1. DOMAIN caps = dims
    BY DEF ToCapabilities
<1>2. IsFiniteSet(dims)
    <2>1. IsFiniteSet({"coding"} \cup {"reasoning"}) /\ IsFiniteSet({"writing"} \cup {"analysis"})
        BY FS_Singleton, FS_Union
    <2>2. IsFiniteSet({"language"} \cup {"data"}) /\ IsFiniteSet({"general"})
        BY FS_Singleton, FS_Union
    <2>3. /\ IsFiniteSet(({"coding"} \cup {"reasoning"}) \cup ({"writing"} \cup {"analysis"}))
          /\ IsFiniteSet(({"language"} \cup {"data"}) \cup {"general"})
        BY <2>1, <2>2, FS_Union
    <2>4. IsFiniteSet((({"coding"} \cup {"reasoning"}) \cup ({"writing"} \cup {"analysis"}))
                        \cup (({"language"} \cup {"data"}) \cup {"general"}))
        BY <2>3, FS_Union
    <2>5. QED
        BY <2>4
<1>3. Filled(row) = Cardinality({d \in DOMAIN caps : caps[d] > 0})
    BY DEF Filled
<1> HIDE DEF caps, dims
<1>4. IsFiniteSet({d \in DOMAIN caps : caps[d] > 0})
    BY <1>1, <1>2, FS_Subset
<1>5. QED
    BY <1>3, <1>4, FS_CardinalityType

\* Of the rows of one key one has the most fields, the first of those.
LEMMA BestRowIsFullest ==
    ASSUME NEW n \in Nat, NEW rows, DOMAIN rows = 1..n, NEW k, \E i \in DOMAIN rows : rows[i].key = k
    PROVE  /\ BestRow(rows, k) \in DOMAIN rows /\ rows[BestRow(rows, k)].key = k
           /\ \A j \in DOMAIN rows : rows[j].key = k => Filled(rows[j]) <= Filled(rows[BestRow(rows, k)])
<1> DEFINE own == {i \in DOMAIN rows : rows[i].key = k}
           order == {e \in own \X own :
                        \/ Filled(rows[e[2]]) < Filled(rows[e[1]])
                        \/ (Filled(rows[e[2]]) = Filled(rows[e[1]]) /\ e[2] > e[1])}
<1>1. own # {} /\ own \in SUBSET (1..n)
    OBVIOUS
<1>2. IsFiniteSet(own)
    <2>1. IsFiniteSet(1..n)
        BY FS_Interval
    <2>2. QED
        BY <1>1, <2>1, FS_Subset
<1>3. \A i \in own : i \in Nat /\ Filled(rows[i]) \in Nat
    BY FilledIsNatural
<1>4. /\ order \in SUBSET (own \X own)
      /\ \A i, j \in own : <<i, j>> \in order <=> \/ Filled(rows[j]) < Filled(rows[i])
                                                  \/ (Filled(rows[j]) = Filled(rows[i]) /\ j > i)
    OBVIOUS
<1>5. \A i \in own : rows[i].key = k /\ i \in DOMAIN rows
    OBVIOUS
<1>6. \A i \in DOMAIN rows : rows[i].key = k => i \in own
    OBVIOUS
<1> HIDE DEF own, order
<1>7. \A i, j \in own : i # j => <<i, j>> \in order \/ <<j, i>> \in order
    BY <1>3, <1>4
<1>8. \A i, j, l \in own : <<i, j>> \in order /\ <<j, l>> \in order => <<i, l>> \in order
    BY <1>3, <1>4
<1>9. PICK i \in own : Leads(i, own, order)
    BY <1>1, <1>2, <1>4, <1>7, <1>8, FirstExists
<1>10. ASSUME NEW j \in DOMAIN rows, rows[j].key = k
       PROVE  Filled(rows[j]) < Filled(rows[i]) \/ (Filled(rows[j]) = Filled(rows[i]) /\ j >= i)
    <2>1. j \in own
        BY <1>6, <1>10
    <2>2. CASE j = i
        BY <1>3, <2>1, <2>2
    <2>3. CASE j # i
        <3>1. <<i, j>> \in order
            BY <1>9, <2>1, <2>3 DEF Leads
        <3>2. QED
            BY <1>3, <1>4, <2>1, <3>1
    <2>4. QED
        BY <2>2, <2>3
<1>11. \E x \in DOMAIN rows :
          /\ rows[x].key = k
          /\ \A j \in DOMAIN rows : rows[j].key = k =>
                \/ Filled(rows[j]) < Filled(rows[x])
                \/ (Filled(rows[j]) = Filled(rows[x]) /\ j >= x)
    BY <1>5, <1>10
<1>12. PICK b : b = BestRow(rows, k)
    OBVIOUS
<1>13. /\ b \in DOMAIN rows /\ rows[b].key = k
       /\ \A j \in DOMAIN rows : rows[j].key = k =>
                \/ Filled(rows[j]) < Filled(rows[b])
                \/ (Filled(rows[j]) = Filled(rows[b]) /\ j >= b)
    BY <1>11, <1>12 DEF BestRow
<1>14. \A j \in DOMAIN rows : rows[j].key = k => Filled(rows[j]) <= Filled(rows[b])
    BY <1>13, FilledIsNatural
<1>15. QED
    BY <1>12, <1>13, <1>14

\* A model that is listed by its own name is found there.
LEMMA OwnEntryFound ==
    ASSUME NEW v \in DOMAIN BenchTables, NEW m,
           \E i \in DOMAIN BenchTables[v] : BenchTables[v][i].key = m
    PROVE  Found("livebench", v, m) = BenchTables[v][BestRow(BenchTables[v], m)]
<1> DEFINE rows == BenchTables[v]
<1>1. PICK index : index = BenchIndex(rows)
    OBVIOUS
<1>2. m \in DOMAIN index /\ index[m].row = rows[BestRow(rows, m)]
    BY <1>1 DEF BenchIndex, BestRow
<1>3. BoardEntryOf(index, m) = index[m].row
    BY <1>2 DEF BoardEntryOf
<1>4. Found("livebench", v, m) = BoardEntryOf(index, m)
    BY <1>1 DEF Found
<1>5. QED
    BY <1>2, <1>3, <1>4

LEMMA FirstOfIsOne ==
    ASSUME NEW models, models # {}, models \subseteq Range(RatedModels)
    PROVE  FirstOf(models) \in models
<1> DEFINE at == {i \in DOMAIN RatedModels : RatedModels[i] \in models}
<1>1. Len(RatedModels) \in Nat /\ DOMAIN RatedModels = 1..Len(RatedModels)
    BY ScoreAssumption
<1>2. at \in SUBSET (1..Len(RatedModels)) /\ at # {}
    BY <1>1 DEF Range
<1>3. \A i \in at : RatedModels[i] \in models
    OBVIOUS
<1>4. FirstOf(models) = RatedModels[Min(at)]
    BY DEF FirstOf
<1> HIDE DEF at
<1>5. \E x \in at : \A y \in at : x <= y
    BY <1>1, <1>2, IndexEnds
<1>6. Min(at) \in at
    BY <1>5 DEF Min
<1>7. QED
    BY <1>3, <1>4, <1>6

\* What a request is at.
Todos == {<<>>, <<"livebench">>, <<"lmsys">>, <<"livebench", "lmsys">>}
AtWork(p) == p.stage \in {"fetching", "writing"}
PullSound(p) ==
    /\ p = [stage |-> p.stage, todo |-> p.todo, version |-> p.version, left |-> p.left,
            done |-> p.done, both |-> p.both, alone |-> p.alone]
    /\ p.done = [source \in Sources |-> p.done[source]]
    /\ p.alone \in BOOLEAN
    /\ p.stage \in {"idle", "fetching", "writing", "loading"}
    /\ p.todo \in Todos
    /\ AtWork(p) => p.todo # <<>> /\ p.done["lmsys"] = 0
    /\ AtWork(p) /\ p.todo # <<"lmsys">> => p.done = NotRun
    /\ p.stage = "writing" => /\ p.left \subseteq Range(RatedModels)
                              /\ Head(p.todo) = "livebench" => p.version \in DOMAIN BenchTables

\* The scores of a model are those of a version of a table.
HasScores(source, version, m) ==
    IF source = "livebench" THEN scores[m].measured.version = version
    ELSE scores[m].general.source = "lmsys" /\ scores[m].general.version = version
DoneHolds(p) ==
    \A source \in Sources : p.done[source] # 0 =>
        /\ dated[source] = p.done[source]
        /\ \A m \in Matched(source, p.done[source]) : HasScores(source, p.done[source], m)
NowHolds(p) ==
    p.stage = "writing" =>
        \A m \in Matched(Head(p.todo), p.version) \ p.left : HasScores(Head(p.todo), p.version, m)

\* Nothing else runs beside a request that no other has met.
Solo(s) == pull[s].alone /\ pull[s].stage # "idle" => \A o \in Pulls \ {s} : pull[o].stage = "idle"

ScoresTyped ==
    /\ scores = [m \in Range(RatedModels) |-> scores[m]]
    /\ \A m \in Range(RatedModels) :
          scores[m] = [measured |-> scores[m].measured, general |-> scores[m].general]
    /\ dated = [source \in Sources |-> dated[source]]
    /\ published = [source \in Sources |-> published[source]]
    /\ published["livebench"] \in DOMAIN BenchTables
    /\ pull = [s \in Pulls |-> pull[s]]
    /\ \A s \in Pulls : PullSound(pull[s])
NamesHold ==
    \A m \in Range(RatedModels) : scores[m].measured.version # 0 =>
        /\ scores[m].measured.version \in DOMAIN BenchTables
        /\ scores[m].measured.name = Found("livebench", scores[m].measured.version, m).name
PullsHold ==
    \A s \in Pulls : /\ Solo(s)
                     /\ pull[s].alone /\ pull[s].stage # "idle" => DoneHolds(pull[s]) /\ NowHolds(pull[s])
ScoresInvariant == ScoresTyped /\ NamesHold /\ PullsHold

LEMMA TodoFacts ==
    ASSUME NEW todo \in Todos
    PROVE  /\ Tail(todo) \in Todos \/ todo = <<>>
           /\ todo = <<"livebench">> => Head(todo) = "livebench" /\ Tail(todo) = <<>> /\ Len(todo) = 1
           /\ todo = <<"lmsys">> => Head(todo) = "lmsys" /\ Tail(todo) = <<>> /\ Len(todo) = 1
           /\ todo = <<"livebench", "lmsys">> =>
                 Head(todo) = "livebench" /\ Tail(todo) = <<"lmsys">> /\ Len(todo) = 2
<1>1. todo = <<"livebench">> => Head(todo) = "livebench" /\ Tail(todo) = <<>> /\ Len(todo) = 1
    OBVIOUS
<1>2. todo = <<"lmsys">> => Head(todo) = "lmsys" /\ Tail(todo) = <<>> /\ Len(todo) = 1
    OBVIOUS
<1>3. todo = <<"livebench", "lmsys">> => Head(todo) = "livebench" /\ Tail(todo) = <<"lmsys">> /\ Len(todo) = 2
    OBVIOUS
<1>4. QED
    BY <1>1, <1>2, <1>3 DEF Todos

LEMMA NoPullSound == PullSound(NoPull) /\ NoPull.stage = "idle" /\ NoPull.alone = FALSE
BY DEF PullSound, NoPull, NotRun, AtWork, Todos

LEMMA ScoresStart == ScoresInit => ScoresInvariant
<1>1. SUFFICES ASSUME ScoresInit PROVE ScoresInvariant
    OBVIOUS
<1>2. 1 \in DOMAIN BenchTables
    BY ScoreAssumption
<1>3. ScoresTyped
    BY <1>1, <1>2, NoPullSound DEF ScoresInit, ScoresTyped, Unscored, NotRun, Sources
<1>4. NamesHold
    BY <1>1 DEF ScoresInit, NamesHold, Unscored, Unmeasured
<1>5. PullsHold
    BY <1>1, NoPullSound DEF ScoresInit, PullsHold, Solo
<1>6. QED
    BY <1>3, <1>4, <1>5 DEF ScoresInvariant

\* A step of one request: what it leaves is sound, and if it has met none, holds.
LEMMA OnePull ==
    ASSUME ScoresInvariant, NEW s \in Pulls, NEW p, PullSound(p),
           pull' = [pull EXCEPT ![s] = p],
           p.stage # "idle" => p.alone = pull[s].alone, pull[s].stage # "idle"
    PROVE  /\ pull' = [o \in Pulls |-> pull'[o]]
           /\ \A o \in Pulls : PullSound(pull'[o])
           /\ \A o \in Pulls : Solo(o)'
           /\ pull'[s] = p
           /\ \A o \in Pulls : pull'[o].alone /\ pull'[o].stage # "idle" => o = s
<1>1. /\ pull' = [o \in Pulls |-> pull'[o]] /\ pull'[s] = p
      /\ \A o \in Pulls : o # s => pull'[o] = pull[o]
    BY DEF ScoresInvariant, ScoresTyped
<1>2. \A o \in Pulls : PullSound(pull'[o])
    BY <1>1 DEF ScoresInvariant, ScoresTyped
<1>3. ASSUME NEW o \in Pulls, pull'[o].alone, pull'[o].stage # "idle" PROVE o = s
    <2>1. SUFFICES ASSUME o # s PROVE FALSE
        OBVIOUS
    <2>2. pull[o].alone /\ pull[o].stage # "idle"
        BY <1>1, <1>3, <2>1
    <2>3. QED
        BY <2>1, <2>2 DEF ScoresInvariant, PullsHold, Solo
<1>4. ASSUME NEW o \in Pulls PROVE Solo(o)'
    <2>1. SUFFICES ASSUME pull'[o].alone, pull'[o].stage # "idle", NEW q \in Pulls \ {o}
                   PROVE  pull'[q].stage = "idle"
        BY DEF Solo
    <2>2. o = s /\ pull[s].alone
        BY <1>1, <1>3, <2>1
    <2>3. pull[q].stage = "idle"
        BY <2>1, <2>2 DEF ScoresInvariant, PullsHold, Solo
    <2>4. QED
        BY <1>1, <2>1, <2>2, <2>3
<1>5. QED
    BY <1>1, <1>2, <1>3, <1>4

LEMMA PullStarts ==
    ASSUME ScoresInvariant, NEW s \in Pulls, NEW todo \in Todos \ {<<>>}, Start(s, todo)
    PROVE  ScoresInvariant'
<1>1. PICK alone \in BOOLEAN : alone = (\A o \in Pulls : pull[o].stage = "idle")
    <2>1. (\A o \in Pulls : pull[o].stage = "idle") \in BOOLEAN
        OBVIOUS
    <2>2. QED
        BY <2>1
<1>2. PICK both \in BOOLEAN : both = (Len(todo) > 1)
    <2>1. (Len(todo) > 1) \in BOOLEAN
        OBVIOUS
    <2>2. QED
        BY <2>1
<1>3. PICK p : p = [stage |-> "fetching", todo |-> todo, version |-> 0, left |-> {},
                    done |-> NotRun, both |-> both, alone |-> alone]
    OBVIOUS
<1>4. PullSound(p)
    BY <1>3 DEF PullSound, AtWork, NotRun, Sources
<1>5. pull' = [o \in Pulls |-> IF o = s THEN p ELSE [pull[o] EXCEPT !.alone = FALSE]]
    <2>1. [NoPull EXCEPT !.stage = "fetching", !.todo = todo, !.both = both, !.alone = alone] = p
      <3>1. PICK r : r = [NoPull EXCEPT !.stage = "fetching", !.todo = todo, !.both = both, !.alone = alone]
          OBVIOUS
      <3>2. /\ DOMAIN r = {"stage", "todo", "version", "left", "done", "both", "alone"}
            /\ r = [x \in DOMAIN r |-> r[x]]
            /\ r["stage"] = "fetching" /\ r["todo"] = todo /\ r["version"] = 0 /\ r["left"] = {}
            /\ r["done"] = NotRun /\ r["both"] = both /\ r["alone"] = alone
          BY <3>1 DEF NoPull
      <3>3. r = p
          BY <1>3, <3>2
      <3>4. QED
          BY <3>1, <3>3
    <2>2. pull' = [o \in Pulls |->
                     IF o = s THEN [NoPull EXCEPT !.stage = "fetching", !.todo = todo, !.both = both,
                                                  !.alone = alone]
                     ELSE [pull[o] EXCEPT !.alone = FALSE]]
        BY <1>1, <1>2, Zenon DEF Start
    <2>3. QED
        BY <2>1, <2>2, Zenon
<1>6. pull'[s] = p /\ \A o \in Pulls : o # s => pull'[o] = [pull[o] EXCEPT !.alone = FALSE]
    BY <1>5
<1>7. \A o \in Pulls : PullSound(pull'[o]) /\ (o # s => pull'[o].alone = FALSE)
    <2>1. ASSUME NEW o \in Pulls, o # s PROVE PullSound(pull'[o]) /\ pull'[o].alone = FALSE
        <3>1. PICK q : q = pull[o]
            OBVIOUS
        <3>2. PullSound(q)
            BY <3>1 DEF ScoresInvariant, ScoresTyped
        <3>3. PICK r : r = [q EXCEPT !.alone = FALSE]
            OBVIOUS
        <3>4. /\ r.stage = q.stage /\ r.todo = q.todo /\ r.version = q.version /\ r.left = q.left
              /\ r.done = q.done /\ r.both = q.both /\ r.alone = FALSE
              /\ r = [stage |-> q.stage, todo |-> q.todo, version |-> q.version, left |-> q.left,
                      done |-> q.done, both |-> q.both, alone |-> FALSE]
            BY <3>2, <3>3 DEF PullSound
        <3>5. PullSound(r)
            BY <3>2, <3>4 DEF PullSound, AtWork
        <3>6. QED
            BY <1>6, <2>1, <3>1, <3>3, <3>4, <3>5
    <2>2. QED
        BY <1>4, <1>6, <2>1
<1>8. scores' = scores /\ dated' = dated /\ published' = published
    BY DEF Start
<1>9. ScoresTyped'
    BY <1>5, <1>7, <1>8 DEF ScoresInvariant, ScoresTyped
<1>10. NamesHold'
    BY <1>8 DEF ScoresInvariant, NamesHold
<1>11. ASSUME NEW o \in Pulls PROVE Solo(o)'
    <2>1. SUFFICES ASSUME pull'[o].alone, NEW q \in Pulls \ {o} PROVE pull'[q].stage = "idle"
        BY DEF Solo
    <2>2. o = s
        BY <1>7, <2>1
    <2>3. pull[q].stage = "idle"
        BY <1>1, <1>3, <1>6, <2>1, <2>2
    <2>4. PullSound(pull[q])
        BY DEF ScoresInvariant, ScoresTyped
    <2>5. [pull[q] EXCEPT !.alone = FALSE].stage = pull[q].stage
        BY <2>4 DEF PullSound
    <2>6. QED
        BY <1>6, <2>1, <2>2, <2>3, <2>5
<1>12. DoneHolds(p)' /\ NowHolds(p)'
    BY <1>3 DEF DoneHolds, NowHolds, NotRun
<1>13. PullsHold'
    BY <1>6, <1>7, <1>11, <1>12 DEF PullsHold
<1>14. QED
    BY <1>9, <1>10, <1>13 DEF ScoresInvariant

\* A step that writes no score and no date.
LEMMA QuietPull ==
    ASSUME ScoresInvariant, NEW s \in Pulls, NEW p, PullSound(p),
           pull' = [pull EXCEPT ![s] = p],
           p.stage # "idle" => p.alone = pull[s].alone, pull[s].stage # "idle",
           UNCHANGED <<scores, dated, published>>,
           p.stage # "idle" => p.done = pull[s].done /\ NowHolds(p)
    PROVE  ScoresInvariant'
<1>1. /\ pull' = [o \in Pulls |-> pull'[o]] /\ pull'[s] = p
      /\ \A o \in Pulls : PullSound(pull'[o])
      /\ \A o \in Pulls : Solo(o)'
      /\ \A o \in Pulls : pull'[o].alone /\ pull'[o].stage # "idle" => o = s
    BY OnePull
<1>2. scores' = scores /\ dated' = dated /\ published' = published
    OBVIOUS
<1>3. ScoresTyped'
    BY <1>1, <1>2 DEF ScoresInvariant, ScoresTyped
<1>4. NamesHold'
    BY <1>2 DEF ScoresInvariant, NamesHold
<1>5. ASSUME p.alone, p.stage # "idle" PROVE DoneHolds(p)' /\ NowHolds(p)'
    <2>1. DoneHolds(pull[s])
        BY <1>5 DEF ScoresInvariant, PullsHold
    <2>2. DoneHolds(p)
        BY <1>5, <2>1 DEF DoneHolds
    <2>3. NowHolds(p)
        BY <1>5
    <2>4. \A source, v, m : HasScores(source, v, m)' <=> HasScores(source, v, m)
        BY <1>2 DEF HasScores
    <2>5. DoneHolds(p)'
        BY <1>2, <2>2, <2>4 DEF DoneHolds
    <2>6. NowHolds(p)'
        BY <2>3, <2>4 DEF NowHolds
    <2>7. QED
        BY <2>5, <2>6
<1>6. PullsHold'
    BY <1>1, <1>5 DEF PullsHold
<1>7. QED
    BY <1>3, <1>4, <1>6 DEF ScoresInvariant

\* Records with other values.
LEMMA FailedRecord ==
    ASSUME NEW q, PullSound(q), NEW stage, NEW todo, NEW left
    PROVE  [q EXCEPT !.stage = stage, !.todo = todo, !.left = left]
             = [stage |-> stage, todo |-> todo, version |-> q.version, left |-> left,
                done |-> q.done, both |-> q.both, alone |-> q.alone]
<1>1. PICK a, b, c, d, e, f, g : /\ a = q.stage /\ b = q.todo /\ c = q.version /\ d = q.left
                                 /\ e = q.done /\ f = q.both /\ g = q.alone
    OBVIOUS
<1>2. q = [stage |-> a, todo |-> b, version |-> c, left |-> d, done |-> e, both |-> f, alone |-> g]
    BY <1>1 DEF PullSound
<1>3. PICK r : r = [q EXCEPT !.stage = stage, !.todo = todo, !.left = left]
    OBVIOUS
<1>4. /\ DOMAIN r = {"stage", "todo", "version", "left", "done", "both", "alone"}
      /\ r = [x \in DOMAIN r |-> r[x]]
    BY <1>2, <1>3
<1>5. /\ r["stage"] = stage /\ r["todo"] = todo /\ r["version"] = c /\ r["left"] = left
      /\ r["done"] = e /\ r["both"] = f /\ r["alone"] = g
    BY <1>2, <1>3
<1>6. r = [stage |-> stage, todo |-> todo, version |-> c, left |-> left,
           done |-> e, both |-> f, alone |-> g]
    BY <1>4, <1>5
<1>7. QED
    BY <1>1, <1>3, <1>6

LEMMA WrittenRecord ==
    ASSUME NEW q, PullSound(q), NEW left
    PROVE  [q EXCEPT !.left = left]
             = [stage |-> q.stage, todo |-> q.todo, version |-> q.version, left |-> left,
                done |-> q.done, both |-> q.both, alone |-> q.alone]
<1>1. PICK a, b, c, d, e, f, g : /\ a = q.stage /\ b = q.todo /\ c = q.version /\ d = q.left
                                 /\ e = q.done /\ f = q.both /\ g = q.alone
    OBVIOUS
<1>2. q = [stage |-> a, todo |-> b, version |-> c, left |-> d, done |-> e, both |-> f, alone |-> g]
    BY <1>1 DEF PullSound
<1>3. PICK r : r = [q EXCEPT !.left = left]
    OBVIOUS
<1>4. /\ DOMAIN r = {"stage", "todo", "version", "left", "done", "both", "alone"}
      /\ r = [x \in DOMAIN r |-> r[x]]
    BY <1>2, <1>3
<1>5. /\ r["stage"] = a /\ r["todo"] = b /\ r["version"] = c /\ r["left"] = left
      /\ r["done"] = e /\ r["both"] = f /\ r["alone"] = g
    BY <1>2, <1>3
<1>6. r = [stage |-> a, todo |-> b, version |-> c, left |-> left,
           done |-> e, both |-> f, alone |-> g]
    BY <1>4, <1>5
<1>7. QED
    BY <1>1, <1>3, <1>6

LEMMA DownloadStep ==
    ASSUME ScoresInvariant, NEW s \in Pulls, NEW source, NEW version, Download(s, source, version),
           source = "livebench" => version \in DOMAIN BenchTables
    PROVE  ScoresInvariant'
<1>1. PICK q : q = pull[s]
    OBVIOUS
<1>2. PullSound(q) /\ q.stage = "fetching" /\ Head(q.todo) = source
    BY <1>1 DEF ScoresInvariant, ScoresTyped, Download
<1>3. PICK p : p = [stage |-> "writing", todo |-> q.todo, version |-> version, left |-> Matched(source, version),
                    done |-> q.done, both |-> q.both, alone |-> q.alone]
    OBVIOUS
<1>4. [q EXCEPT !.stage = "writing", !.version = version, !.left = Matched(source, version)] = p
    <2>1. PICK b, d, e, f, g : /\ b = q.todo /\ d = Matched(source, version)
                               /\ e = q.done /\ f = q.both /\ g = q.alone
        OBVIOUS
    <2>2. q = [stage |-> "fetching", todo |-> b, version |-> q.version, left |-> q.left, done |-> e,
               both |-> f, alone |-> g]
        BY <1>2, <2>1 DEF PullSound
    <2>3. PICK r : r = [q EXCEPT !.stage = "writing", !.version = version, !.left = d]
        OBVIOUS
    <2>4. /\ DOMAIN r = {"stage", "todo", "version", "left", "done", "both", "alone"}
          /\ r = [x \in DOMAIN r |-> r[x]]
        BY <2>2, <2>3
    <2>5. /\ r["stage"] = "writing" /\ r["todo"] = b /\ r["version"] = version /\ r["left"] = d
          /\ r["done"] = e /\ r["both"] = f /\ r["alone"] = g
        BY <2>2, <2>3
    <2>6. r = [stage |-> "writing", todo |-> b, version |-> version, left |-> d,
               done |-> e, both |-> f, alone |-> g]
        BY <2>4, <2>5
    <2>7. QED
        BY <1>3, <2>1, <2>3, <2>6
<1>5. pull' = [pull EXCEPT ![s] = p]
    BY <1>1, <1>4 DEF Download
<1>6. Matched(source, version) \subseteq Range(RatedModels)
    BY DEF Matched
<1>7. PullSound(p)
    BY <1>2, <1>3, <1>6 DEF PullSound, AtWork
<1>8. NowHolds(p)
    BY <1>2, <1>3 DEF NowHolds
<1>9. QED
    BY <1>1, <1>2, <1>3, <1>5, <1>7, <1>8, QuietPull DEF Download

LEMMA FailStep ==
    ASSUME ScoresInvariant, NEW s \in Pulls, Fails(s)
    PROVE  ScoresInvariant'
<1>1. PICK q : q = pull[s]
    OBVIOUS
<1>2. PullSound(q) /\ AtWork(q)
    BY <1>1 DEF ScoresInvariant, ScoresTyped, Fails, AtWork
<1>3. CASE ~q.both
    <2>1. pull' = [pull EXCEPT ![s] = NoPull]
        BY <1>1, <1>3 DEF Fails
    <2>2. QED
        BY <1>1, <1>2, <2>1, NoPullSound, QuietPull DEF Fails, AtWork
<1>4. CASE q.both
    <2>1. PICK stage \in {"fetching", "loading"} : stage = IF Len(q.todo) > 1 THEN "fetching" ELSE "loading"
        OBVIOUS
    <2>2. PICK p : p = [stage |-> stage, todo |-> Tail(q.todo), version |-> q.version, left |-> {},
                        done |-> q.done, both |-> q.both, alone |-> q.alone]
        OBVIOUS
    <2>3. [q EXCEPT !.stage = stage, !.todo = Tail(q.todo), !.left = {}] = p
        BY <1>2, <2>2, FailedRecord
    <2>4. pull' = [pull EXCEPT ![s] = p]
        BY <1>1, <1>4, <2>1, <2>3 DEF Fails
    <2>5. /\ q.todo \in {<<"livebench">>, <<"lmsys">>} => stage = "loading" /\ Tail(q.todo) = <<>>
          /\ q.todo = <<"livebench", "lmsys">> => Tail(q.todo) = <<"lmsys">>
          /\ q.todo \in {<<"livebench">>, <<"lmsys">>, <<"livebench", "lmsys">>}
        <3>1. q.todo \in Todos /\ q.todo # <<>>
            BY <1>2 DEF PullSound
        <3>2. q.todo \in {<<"livebench">>, <<"lmsys">>} => Len(q.todo) = 1 /\ Tail(q.todo) = <<>>
            BY <3>1, TodoFacts
        <3>3. q.todo = <<"livebench", "lmsys">> => Tail(q.todo) = <<"lmsys">>
            BY <3>1, TodoFacts
        <3>4. q.todo \in {<<"livebench">>, <<"lmsys">>} => stage = "loading"
            <4>1. ASSUME q.todo \in {<<"livebench">>, <<"lmsys">>} PROVE stage = "loading"
                <5>1. Len(q.todo) = 1 /\ ~(1 > 1)
                    BY <3>2, <4>1
                <5>2. QED
                    BY <2>1, <5>1
            <4>2. QED
                BY <4>1
        <3>5. q.todo \in {<<"livebench">>, <<"lmsys">>, <<"livebench", "lmsys">>}
            BY <3>1 DEF Todos
        <3>6. QED
            BY <3>2, <3>3, <3>4, <3>5
    <2>6. PullSound(p)
        BY <1>2, <2>2, <2>5 DEF PullSound, AtWork, Todos
    <2>7. NowHolds(p)
        BY <2>2 DEF NowHolds
    <2>8. QED
        BY <1>1, <1>2, <2>2, <2>4, <2>6, <2>7, QuietPull DEF Fails, AtWork
<1>5. QED
    BY <1>3, <1>4

LEMMA ReloadStep ==
    ASSUME ScoresInvariant, NEW s \in Pulls, Reload(s)
    PROVE  ScoresInvariant'
BY NoPullSound, QuietPull DEF Reload

\* One row is written: what another source has left in it stays.
LEMMA WriteRowStep ==
    ASSUME ScoresInvariant, NEW s \in Pulls, WriteRow(s)
    PROVE  ScoresInvariant'
<1>1. PICK q : q = pull[s]
    OBVIOUS
<1>2. PullSound(q) /\ q.stage = "writing" /\ q.left # {} /\ q.left \subseteq Range(RatedModels)
    BY <1>1 DEF ScoresInvariant, ScoresTyped, WriteRow, PullSound
<1>3. PICK m, source, v : m = FirstOf(q.left) /\ source = Head(q.todo) /\ v = q.version
    OBVIOUS
<1>4. m \in q.left /\ m \in Range(RatedModels)
    BY <1>2, <1>3, FirstOfIsOne
<1>5. PICK row : row = Written(scores[m], source, v, m)
    OBVIOUS
<1>6. scores' = [scores EXCEPT ![m] = row]
    BY <1>1, <1>3, <1>5 DEF WriteRow
<1>7. source \in {"livebench", "lmsys"}
    BY <1>2, <1>3, TodoFacts DEF PullSound, AtWork, Todos
<1>8. /\ row = [measured |-> row.measured, general |-> row.general]
      /\ source = "livebench" => /\ row.measured.version = v
                                 /\ row.measured.name = Found("livebench", v, m).name
      /\ source = "lmsys" => /\ row.measured = scores[m].measured
                             /\ row.general.source = "lmsys" /\ row.general.version = v
    <2>1. scores[m] = [measured |-> scores[m].measured, general |-> scores[m].general]
        BY <1>4 DEF ScoresInvariant, ScoresTyped
    <2>2. CASE source = "livebench"
        BY <1>5, <2>2 DEF Written
    <2>3. CASE source = "lmsys"
        <3>1. PICK a : a = scores[m].measured
            OBVIOUS
        <3>2. PICK g : g = [source |-> source, version |-> v, score |-> General(Found(source, v, m).elo)]
            OBVIOUS
        <3>3. scores[m] = [measured |-> a, general |-> scores[m].general]
            BY <2>1, <3>1
        <3>4. row = [scores[m] EXCEPT !.general = g]
            BY <1>5, <2>3, <3>2 DEF Written
        <3>5. row = [measured |-> a, general |-> g]
            BY <3>3, <3>4
        <3>6. QED
            BY <2>3, <3>1, <3>2, <3>5
    <2>4. QED
        BY <1>7, <2>2, <2>3
<1>9. /\ scores'[m] = row
      /\ \A x \in Range(RatedModels) : x # m => scores'[x] = scores[x]
      /\ scores' = [x \in Range(RatedModels) |-> scores'[x]]
    BY <1>4, <1>6 DEF ScoresInvariant, ScoresTyped
<1>10. PICK p : p = [stage |-> q.stage, todo |-> q.todo, version |-> q.version, left |-> q.left \ {m},
                     done |-> q.done, both |-> q.both, alone |-> q.alone]
    OBVIOUS
<1>11. pull' = [pull EXCEPT ![s] = p]
    <2>1. PICK left : left = q.left \ {m}
        OBVIOUS
    <2>2. pull' = [pull EXCEPT ![s] = [q EXCEPT !.left = left]]
        BY <1>1, <1>3, <2>1 DEF WriteRow
    <2>3. [q EXCEPT !.left = left] = p
        BY <1>2, <1>10, <2>1, WrittenRecord
    <2>4. QED
        BY <2>2, <2>3
<1>12. PullSound(p)
    BY <1>2, <1>10 DEF PullSound, AtWork
<1>13. /\ pull' = [o \in Pulls |-> pull'[o]] /\ pull'[s] = p
       /\ \A o \in Pulls : PullSound(pull'[o])
       /\ \A o \in Pulls : Solo(o)'
       /\ \A o \in Pulls : pull'[o].alone /\ pull'[o].stage # "idle" => o = s
    BY <1>1, <1>2, <1>10, <1>11, <1>12, OnePull
<1>14. dated' = dated /\ published' = published
    BY DEF WriteRow
<1>15. ScoresTyped'
    BY <1>8, <1>9, <1>13, <1>14 DEF ScoresInvariant, ScoresTyped
<1>16. NamesHold'
    <2>1. SUFFICES ASSUME NEW x \in Range(RatedModels), scores'[x].measured.version # 0
                   PROVE  /\ scores'[x].measured.version \in DOMAIN BenchTables
                          /\ scores'[x].measured.name = Found("livebench", scores'[x].measured.version, x).name
        BY DEF NamesHold
    <2>2. CASE x # m \/ source = "lmsys"
        <3>1. scores'[x].measured = scores[x].measured
            BY <1>7, <1>8, <1>9, <2>2
        <3>2. QED
            BY <2>1, <3>1 DEF ScoresInvariant, NamesHold
    <2>3. CASE x = m /\ source = "livebench"
        <3>1. v \in DOMAIN BenchTables
            BY <1>2, <1>3, <2>3 DEF PullSound
        <3>2. QED
            BY <1>8, <1>9, <2>3, <3>1
    <2>4. QED
        BY <1>7, <2>2, <2>3
<1>17. ASSUME p.alone PROVE DoneHolds(p)' /\ NowHolds(p)'
    <2>1. DoneHolds(q) /\ NowHolds(q)
        BY <1>1, <1>2, <1>10, <1>17 DEF ScoresInvariant, PullsHold
    <2>2. ASSUME NEW x \in Range(RatedModels), HasScores(source, v, x) \/ x = m
          PROVE  HasScores(source, v, x)'
        <3>1. CASE x = m
            BY <1>7, <1>8, <1>9, <3>1 DEF HasScores
        <3>2. CASE x # m
            <4>1. scores'[x] = scores[x]
                BY <1>9, <3>2
            <4>2. QED
                BY <2>2, <3>2, <4>1 DEF HasScores
        <3>3. QED
            BY <3>1, <3>2
    <2>3. NowHolds(p)'
        <3>1. SUFFICES ASSUME NEW x \in Matched(source, v) \ p.left PROVE HasScores(source, v, x)'
            BY <1>3, <1>10 DEF NowHolds
        <3>2. x \in Range(RatedModels)
            BY DEF Matched
        <3>3. HasScores(source, v, x) \/ x = m
            BY <1>2, <1>3, <1>10, <2>1, <3>1 DEF NowHolds
        <3>4. QED
            BY <2>2, <3>2, <3>3
    <2>4. DoneHolds(p)'
        <3>1. SUFFICES ASSUME NEW t \in Sources, q.done[t] # 0
                       PROVE  /\ dated[t] = q.done[t]
                              /\ \A x \in Matched(t, q.done[t]) : HasScores(t, q.done[t], x)'
            BY <1>10, <1>14 DEF DoneHolds
        <3>2. t = "livebench" /\ source = "lmsys"
            <4>1. AtWork(q)
                BY <1>2 DEF AtWork
            <4>2. q.done["lmsys"] = 0 /\ q.todo # <<>> /\ (q.todo # <<"lmsys">> => q.done = NotRun)
                BY <1>2, <4>1 DEF PullSound
            <4>3. q.todo = <<"lmsys">>
                BY <3>1, <4>2 DEF NotRun
            <4>4. Head(<<"lmsys">>) = "lmsys"
                OBVIOUS
            <4>5. QED
                BY <1>3, <3>1, <4>2, <4>3, <4>4 DEF Sources
        <3>3. dated[t] = q.done[t] /\ \A x \in Matched(t, q.done[t]) : HasScores(t, q.done[t], x)
            BY <2>1, <3>1 DEF DoneHolds
        <3>4. ASSUME NEW x \in Matched(t, q.done[t]) PROVE HasScores(t, q.done[t], x)'
            <4>1. x \in Range(RatedModels)
                BY DEF Matched
            <4>2. scores'[x].measured = scores[x].measured
                BY <1>8, <1>9, <3>2, <4>1
            <4>3. HasScores(t, q.done[t], x)
                BY <3>3, <3>4
            <4>4. QED
                BY <3>2, <4>2, <4>3 DEF HasScores
        <3>5. QED
            BY <3>3, <3>4
    <2>5. QED
        BY <2>3, <2>4
<1>18. PullsHold'
    BY <1>10, <1>13, <1>17 DEF PullsHold
<1>19. QED
    BY <1>15, <1>16, <1>18 DEF ScoresInvariant

\* The date comes last: by then every row has been written.
LEMMA WriteDateStep ==
    ASSUME ScoresInvariant, NEW s \in Pulls, WriteDate(s)
    PROVE  ScoresInvariant'
<1>1. PICK q : q = pull[s]
    OBVIOUS
<1>2. PullSound(q) /\ q.stage = "writing" /\ q.left = {} /\ AtWork(q)
    BY <1>1 DEF ScoresInvariant, ScoresTyped, WriteDate, AtWork
<1>3. PICK source, v : source = Head(q.todo) /\ v = q.version
    OBVIOUS
<1>4. /\ q.todo \in {<<"livebench">>, <<"lmsys">>, <<"livebench", "lmsys">>}
      /\ q.todo \in {<<"livebench">>, <<"lmsys">>} => Tail(q.todo) = <<>> /\ Len(q.todo) = 1
      /\ q.todo = <<"livebench", "lmsys">> => Tail(q.todo) = <<"lmsys">> /\ Len(q.todo) = 2
      /\ q.todo = <<"lmsys">> => source = "lmsys"
      /\ q.todo # <<"lmsys">> => source = "livebench" /\ q.done = NotRun
    <2>1. q.todo \in Todos /\ q.todo # <<>> /\ (q.todo # <<"lmsys">> => q.done = NotRun)
        BY <1>2 DEF PullSound
    <2>2. q.todo \in {<<"livebench">>, <<"lmsys">>, <<"livebench", "lmsys">>}
        BY <2>1 DEF Todos
    <2>3. QED
        BY <1>3, <2>1, <2>2, TodoFacts
<1>5. PICK stage \in {"fetching", "loading"} : stage = IF Len(q.todo) > 1 THEN "fetching" ELSE "loading"
    OBVIOUS
<1>6. PICK done : done = [q.done EXCEPT ![source] = v]
    OBVIOUS
<1>7. PICK p : p = [stage |-> stage, todo |-> Tail(q.todo), version |-> q.version, left |-> {},
                    done |-> done, both |-> q.both, alone |-> q.alone]
    OBVIOUS
<1>8. source \in Sources /\ q.done = [t \in Sources |-> q.done[t]]
    BY <1>2, <1>4 DEF PullSound, Sources
<1>9. done = [t \in Sources |-> done[t]] /\ done[source] = v /\ \A t \in Sources : t # source => done[t] = q.done[t]
    BY <1>6, <1>8
<1>10. pull' = [pull EXCEPT ![s] = p]
    <2>1. PICK b, f, g, w : b = Tail(q.todo) /\ f = q.both /\ g = q.alone /\ w = q.done
        OBVIOUS
    <2>2. q = [stage |-> "writing", todo |-> q.todo, version |-> v, left |-> {}, done |-> w,
               both |-> f, alone |-> g]
        BY <1>2, <1>3, <2>1 DEF PullSound
    <2>3. PICK r : r = [q EXCEPT !.done = [w EXCEPT ![source] = v], !.todo = b, !.stage = stage]
        OBVIOUS
    <2>4. /\ DOMAIN r = {"stage", "todo", "version", "left", "done", "both", "alone"}
          /\ r = [x \in DOMAIN r |-> r[x]]
        BY <2>2, <2>3
    <2>5. /\ r["stage"] = stage /\ r["todo"] = b /\ r["version"] = v /\ r["left"] = {}
          /\ r["done"] = done /\ r["both"] = f /\ r["alone"] = g
        BY <1>6, <2>1, <2>2, <2>3
    <2>6. r = p
        BY <1>3, <1>7, <2>1, <2>4, <2>5
    <2>7. pull' = [pull EXCEPT ![s] = r]
        BY <1>1, <1>3, <1>5, <2>1, <2>3 DEF WriteDate
    <2>8. QED
        BY <2>6, <2>7
<1>11. PullSound(p)
    <2>1. CASE q.todo = <<"livebench", "lmsys">>
        <3>1. stage = "fetching" /\ p.todo = <<"lmsys">> /\ source = "livebench" /\ q.done = NotRun
            BY <1>4, <1>5, <1>7, <2>1
        <3>2. done["lmsys"] = 0
            BY <1>9, <3>1 DEF NotRun, Sources
        <3>3. QED
            BY <1>2, <1>7, <1>9, <3>1, <3>2 DEF PullSound, AtWork, Todos
    <2>2. CASE q.todo # <<"livebench", "lmsys">>
        <3>1. Len(q.todo) = 1 /\ ~(1 > 1) /\ p.todo = <<>>
            BY <1>4, <1>7, <2>2
        <3>2. stage = "loading"
            BY <1>5, <3>1
        <3>3. QED
            BY <1>2, <1>7, <1>9, <3>1, <3>2 DEF PullSound, AtWork, Todos
    <2>3. QED
        BY <2>1, <2>2
<1>12. /\ pull' = [o \in Pulls |-> pull'[o]] /\ pull'[s] = p
       /\ \A o \in Pulls : PullSound(pull'[o])
       /\ \A o \in Pulls : Solo(o)'
       /\ \A o \in Pulls : pull'[o].alone /\ pull'[o].stage # "idle" => o = s
    BY <1>1, <1>2, <1>7, <1>10, <1>11, OnePull
<1>13. /\ scores' = scores /\ published' = published /\ dated' = [dated EXCEPT ![source] = v]
    BY <1>1, <1>3 DEF WriteDate
<1>14. /\ dated' = [t \in Sources |-> dated'[t]] /\ dated'[source] = v
       /\ \A t \in Sources : t # source => dated'[t] = dated[t]
    BY <1>8, <1>13 DEF ScoresInvariant, ScoresTyped
<1>15. ScoresTyped'
    BY <1>12, <1>13, <1>14 DEF ScoresInvariant, ScoresTyped
<1>16. NamesHold'
    BY <1>13 DEF ScoresInvariant, NamesHold
<1>17. ASSUME p.alone PROVE DoneHolds(p)' /\ NowHolds(p)'
    <2>1. DoneHolds(q) /\ NowHolds(q)
        BY <1>1, <1>2, <1>7, <1>17 DEF ScoresInvariant, PullsHold
    <2>2. \A t, w, x : HasScores(t, w, x)' <=> HasScores(t, w, x)
        BY <1>13 DEF HasScores
    <2>3. NowHolds(p)'
        BY <1>5, <1>7 DEF NowHolds
    <2>4. \A x \in Matched(source, v) : HasScores(source, v, x)
        BY <1>2, <1>3, <2>1 DEF NowHolds
    <2>5. ASSUME NEW t \in Sources, done[t] # 0
          PROVE  dated'[t] = done[t] /\ \A x \in Matched(t, done[t]) : HasScores(t, done[t], x)
        <3>1. CASE t = source
            BY <1>9, <1>14, <2>4, <3>1
        <3>2. CASE t # source
            <4>1. done[t] = q.done[t] /\ dated'[t] = dated[t]
                BY <1>9, <1>14, <3>2
            <4>2. QED
                BY <2>1, <2>5, <4>1 DEF DoneHolds
        <3>3. QED
            BY <3>1, <3>2
    <2>6. DoneHolds(p)'
        BY <1>7, <2>2, <2>5 DEF DoneHolds
    <2>7. QED
        BY <2>3, <2>6
<1>18. PullsHold'
    BY <1>7, <1>12, <1>17 DEF PullsHold
<1>19. QED
    BY <1>15, <1>16, <1>18 DEF ScoresInvariant

LEMMA PublishStep ==
    ASSUME ScoresInvariant, NEW source \in Sources, Publish(source)
    PROVE  ScoresInvariant'
<1>1. /\ published' = [published EXCEPT ![source] = @ + 1]
      /\ scores' = scores /\ dated' = dated /\ pull' = pull
    BY DEF Publish
<1>2. published' = [t \in Sources |-> published'[t]]
    BY <1>1 DEF ScoresInvariant, ScoresTyped
<1>3. published'["livebench"] \in DOMAIN BenchTables
    <2>1. Len(BenchTables) \in Nat /\ DOMAIN BenchTables = 1..Len(BenchTables)
        BY ScoreAssumption
    <2>2. published["livebench"] \in 1..Len(BenchTables)
        BY <2>1 DEF ScoresInvariant, ScoresTyped
    <2>3. CASE source = "livebench"
        <3>1. Cardinality(DOMAIN BenchTables) = Len(BenchTables)
            <4>1. PICK n \in Nat : n = Len(BenchTables)
                BY <2>1
            <4>2. Cardinality(1..n) = IF 1 > n THEN 0 ELSE n - 1 + 1
                BY FS_Interval
            <4>3. Cardinality(1..n) = n
                BY <4>2
            <4>4. DOMAIN BenchTables = 1..n
                BY <2>1, <4>1
            <4>5. QED
                BY <4>1, <4>3, <4>4
        <3>2. published["livebench"] < Len(BenchTables)
            BY <2>3, <3>1 DEF Publish
        <3>3. published'["livebench"] = published["livebench"] + 1
            BY <1>1, <2>3 DEF ScoresInvariant, ScoresTyped, Sources
        <3>4. QED
            BY <2>1, <2>2, <3>2, <3>3
    <2>4. CASE source # "livebench"
        <3>1. published'["livebench"] = published["livebench"]
            BY <1>1, <2>4 DEF ScoresInvariant, ScoresTyped, Sources
        <3>2. QED
            BY <2>1, <2>2, <3>1
    <2>5. QED
        BY <2>3, <2>4
<1>4. ScoresTyped'
    BY <1>1, <1>2, <1>3 DEF ScoresInvariant, ScoresTyped
<1>5. NamesHold'
    BY <1>1 DEF ScoresInvariant, NamesHold
<1>6. PullsHold'
    BY <1>1 DEF ScoresInvariant, PullsHold, Solo, DoneHolds, NowHolds, HasScores
<1>7. QED
    BY <1>4, <1>5, <1>6 DEF ScoresInvariant

LEMMA ScoresStep == ScoresInvariant /\ [ScoresNext]_ScoreVars => ScoresInvariant'
<1>1. SUFFICES ASSUME ScoresInvariant, [ScoresNext]_ScoreVars PROVE ScoresInvariant'
    OBVIOUS
<1>2. CASE UNCHANGED ScoreVars
    <2>1. scores' = scores /\ dated' = dated /\ published' = published /\ pull' = pull
        BY <1>2 DEF ScoreVars
    <2>2. ScoresTyped' /\ NamesHold'
        BY <1>1, <2>1 DEF ScoresInvariant, ScoresTyped, NamesHold
    <2>3. PullsHold'
        BY <1>1, <2>1 DEF ScoresInvariant, PullsHold, Solo, DoneHolds, NowHolds, HasScores
    <2>4. QED
        BY <2>2, <2>3 DEF ScoresInvariant
<1>3. ASSUME NEW s \in Pulls, StartOne(s) PROVE ScoresInvariant'
    <2>1. PICK source \in Sources : Start(s, <<source>>)
        BY <1>3 DEF StartOne
    <2>2. <<source>> \in Todos \ {<<>>}
        BY DEF Sources, Todos
    <2>3. QED
        BY <1>1, <2>1, <2>2, PullStarts
<1>4. ASSUME NEW s \in Pulls, StartBoth(s) PROVE ScoresInvariant'
    <2>1. Both \in Todos \ {<<>>}
        BY DEF Both, Todos
    <2>2. QED
        BY <1>1, <1>4, <2>1, PullStarts DEF StartBoth
<1>5. ASSUME NEW s \in Pulls, FetchCsv(s) PROVE ScoresInvariant'
    <2>1. PICK version \in 1..published["livebench"] : Download(s, "livebench", version)
        BY <1>5 DEF FetchCsv
    <2>2. Len(BenchTables) \in Nat /\ DOMAIN BenchTables = 1..Len(BenchTables)
        BY ScoreAssumption
    <2>3. published["livebench"] \in 1..Len(BenchTables)
        BY <1>1, <2>2 DEF ScoresInvariant, ScoresTyped
    <2>4. version \in DOMAIN BenchTables
        BY <2>2, <2>3
    <2>5. QED
        BY <1>1, <2>1, <2>4, DownloadStep
<1>6. ASSUME NEW s \in Pulls, FetchLeaderboard(s) PROVE ScoresInvariant'
    <2>1. PICK version : version = published["lmsys"]
        OBVIOUS
    <2>2. Download(s, "lmsys", version)
        BY <1>6, <2>1 DEF FetchLeaderboard
    <2>3. QED
        BY <1>1, <2>2, DownloadStep
<1>7. ASSUME NEW s \in Pulls, SyncStep(s) PROVE ScoresInvariant'
    BY <1>1, <1>5, <1>6, <1>7, FailStep, ReloadStep, WriteRowStep, WriteDateStep DEF SyncStep
<1>8. QED
    BY <1>1, <1>2, <1>3, <1>4, <1>7, PublishStep DEF ScoresNext

\* What the invariant says of the properties.
LEMMA ScoresImply == ScoresInvariant => ScoresHold
<1>1. SUFFICES ASSUME ScoresInvariant PROVE ScoresHold
    OBVIOUS
<1>2. AloneIsExact
    <2>1. SUFFICES ASSUME NEW s \in Pulls, pull[s].stage = "loading", pull[s].alone
                   PROVE  LET bench == pull[s].done["livebench"]
                              arena == pull[s].done["lmsys"]
                          IN  /\ bench # 0 => /\ dated["livebench"] = bench
                                              /\ \A m \in Matched("livebench", bench) :
                                                    /\ scores[m].measured.version = bench
                                                    /\ (arena # 0 /\ m \in Matched("lmsys", arena)) =>
                                                          scores[m].general.source = "lmsys"
                              /\ arena # 0 => /\ dated["lmsys"] = arena
                                              /\ \A m \in Matched("lmsys", arena) :
                                                    /\ scores[m].general.source = "lmsys"
                                                    /\ scores[m].general.version = arena
        BY DEF AloneIsExact
    <2>2. PICK bench, arena : bench = pull[s].done["livebench"] /\ arena = pull[s].done["lmsys"]
        OBVIOUS
    <2>3. DoneHolds(pull[s])
        BY <1>1, <2>1 DEF ScoresInvariant, PullsHold
    <2>4. bench # 0 => /\ dated["livebench"] = bench
                       /\ \A m \in Matched("livebench", bench) : scores[m].measured.version = bench
        BY <2>2, <2>3 DEF DoneHolds, HasScores, Sources
    <2>5. arena # 0 => /\ dated["lmsys"] = arena
                       /\ \A m \in Matched("lmsys", arena) :
                             scores[m].general.source = "lmsys" /\ scores[m].general.version = arena
        BY <2>2, <2>3 DEF DoneHolds, HasScores, Sources
    <2>6. QED
        BY <2>2, <2>4, <2>5
<1>3. OwnScoresFirst
    <2>1. SUFFICES ASSUME NEW m \in Range(RatedModels), scores[m].measured.version # 0,
                          {i \in DOMAIN BenchTables[scores[m].measured.version] :
                              BenchTables[scores[m].measured.version][i].key = m} # {}
                   PROVE  \E i \in {i \in DOMAIN BenchTables[scores[m].measured.version] :
                                       BenchTables[scores[m].measured.version][i].key = m} :
                             /\ BenchTables[scores[m].measured.version][i].name = scores[m].measured.name
                             /\ \A j \in {i2 \in DOMAIN BenchTables[scores[m].measured.version] :
                                              BenchTables[scores[m].measured.version][i2].key = m} :
                                   Filled(BenchTables[scores[m].measured.version][j]) <=
                                   Filled(BenchTables[scores[m].measured.version][i])
        BY DEF OwnScoresFirst
    <2>2. PICK v : v = scores[m].measured.version
        OBVIOUS
    <2>3. v \in DOMAIN BenchTables /\ scores[m].measured.name = Found("livebench", v, m).name
        BY <1>1, <2>1, <2>2 DEF ScoresInvariant, NamesHold
    <2>4. PICK rows : rows = BenchTables[v]
        OBVIOUS
    <2>5. Len(rows) \in Nat /\ DOMAIN rows = 1..Len(rows)
        BY <2>3, <2>4, ScoreAssumption
    <2>6. \E i \in DOMAIN rows : rows[i].key = m
        BY <2>1, <2>2, <2>4
    <2>7. PICK b : b = BestRow(rows, m)
        OBVIOUS
    <2>8. /\ b \in DOMAIN rows /\ rows[b].key = m
          /\ \A j \in DOMAIN rows : rows[j].key = m => Filled(rows[j]) <= Filled(rows[b])
        BY <2>5, <2>6, <2>7, BestRowIsFullest
    <2>9. rows[b].name = scores[m].measured.name
        <3>1. Found("livebench", v, m) = rows[b]
            BY <2>3, <2>4, <2>6, <2>7, OwnEntryFound
        <3>2. QED
            BY <2>3, <3>1
    <2>10. QED
        BY <2>2, <2>4, <2>8, <2>9
<1>4. QED
    BY <1>2, <1>3 DEF ScoresHold

\* Whatever syncs run beside each other and wherever they fail: one that has met no
\* other leaves exactly what its date says, the Arena's general score beside what
\* LiveBench measured, and a model that a table lists by its own name never gets a
\* relative's scores or a subtotal's (livebench/sync.js, lmsys/sync.js).
THEOREM ScoresAlwaysHold == ScoresSpec => []ScoresHold
<1>1. ScoresSpec => []ScoresInvariant
    BY ScoresStart, ScoresStep, PTL DEF ScoresSpec
<1>2. QED
    BY <1>1, ScoresImply, PTL
=============================================================================
