--------------------------- MODULE CanaryLifecycle ---------------------------
(***************************************************************************)
(* Canary experiments: the administrators' routes that create, pause,      *)
(* resume, roll back and promote them (api/routes/experiments.js), the     *)
(* monitor of each process that rolls back what breaches its guardrails    *)
(* (routing/canaryMonitor.js), and the gateway's cached list of active     *)
(* experiments from which auto-routed requests are diverted                *)
(* (routing/canaryEngine.js).  The documents are shared by all processes,  *)
(* the cached lists are not.                                               *)
(*                                                                         *)
(* Guardrails, metrics, scope and rollout fraction are data: a check finds *)
(* the guardrails breached exactly while "bad" says so, and whether a      *)
(* request falls into the fraction is a free choice.  A cached list may    *)
(* expire at any moment, so the invalidation a handler performs when its   *)
(* write has been answered is either part of the write or such an expiry   *)
(* later.  What becomes of a rule once it exists is left out.              *)
(***************************************************************************)
EXTENDS FiniteSets, Integers

CONSTANTS
    Experiments,   \* RoutingExperiment documents that can be created
    Processes,     \* gateway processes, each with its cache and its monitor
    Requests,      \* auto-routed requests that match; each can be used again
    Promotions,    \* calls of the promote route; each makes at most one rule
    None

ASSUME CanaryAssumption ==
    /\ None \notin Experiments \cup Promotions
    /\ Processes # {}

VARIABLES
    exp,       \* experiment -> [status, rule], the document
    rules,     \* promotions whose rule has been created, enabled
    accepted,  \* experiments whose recommendation a promotion marked accepted
    bad,       \* experiment -> its live metrics breach the guardrails
    cache,     \* process -> [fresh, list]
    req,       \* request -> where selectCanary is, and what it chose
    mon,       \* process -> where the monitor's check is
    promo,     \* promotion -> where the handler is
    calm       \* TRUE: from now on the document store answers every call and
               \* no process dies

vars == <<exp, rules, accepted, bad, cache, req, mon, promo, calm>>

Statuses == {"absent", "active", "paused", "rolled_back", "promoted"}

Active == {e \in Experiments : exp[e].status = "active"}

SomeProcess == CHOOSE p \in Processes : TRUE

NoRequest == [pc |-> "idle", at |-> SomeProcess, list |-> {}, to |-> None]
Resting   == [pc |-> "resting", todo |-> {}, now |-> None, breached |-> FALSE]
NotAsked  == [pc |-> "idle", at |-> SomeProcess, of |-> None, was |-> "absent"]
Over      == [NotAsked EXCEPT !.pc = "over"]

Empty == [fresh |-> FALSE, list |-> {}]

InCourse(q) == promo[q].pc \in {"ruling", "saving", "linking"}

Init ==
    /\ exp = [e \in Experiments |-> [status |-> "absent", rule |-> None]]
    /\ rules = {}
    /\ accepted = {}
    /\ bad = [e \in Experiments |-> FALSE]
    /\ cache = [p \in Processes |-> Empty]
    /\ req = [r \in Requests |-> NoRequest]
    /\ mon = [p \in Processes |-> Resting]
    /\ promo = [q \in Promotions |-> NotAsked]
    /\ calm = FALSE

\* canaryEngine.invalidate in the process that served the write, at once or
\* as a later Expire.
Invalidate == \E p \in Processes : cache' \in {cache, [cache EXCEPT ![p] = Empty]}

-----------------------------------------------------------------------------
(* The administrators' routes.                                              *)

\* Both routes that create an experiment; the evaluation gate has let it pass.
Create(e) ==
    /\ exp[e].status = "absent"
    /\ exp' = [exp EXCEPT ![e].status = "active"]
    /\ Invalidate
    /\ UNCHANGED <<rules, accepted, bad, req, mon, promo, calm>>

\* PATCH looks at no status: it also resumes what was rolled back or promoted.
Patch(e) ==
    /\ exp[e].status # "absent"
    /\ \E s \in {"active", "paused"} : exp' = [exp EXCEPT ![e].status = s]
    /\ Invalidate
    /\ UNCHANGED <<rules, accepted, bad, req, mon, promo, calm>>

RollBack(e) ==
    /\ exp[e].status # "absent"
    /\ exp' = [exp EXCEPT ![e].status = "rolled_back"]
    /\ Invalidate
    /\ UNCHANGED <<rules, accepted, bad, req, mon, promo, calm>>

\* findById and the 409; "was" is the status of the document in memory.
Promote(q) ==
    /\ promo[q].pc = "idle"
    /\ \E e \in Experiments, p \in Processes :
          /\ exp[e].status \notin {"absent", "rolled_back"}
          /\ promo' = [promo EXCEPT ![q] = [pc |-> "ruling", at |-> p, of |-> e,
                                            was |-> exp[e].status]]
    /\ UNCHANGED <<exp, rules, accepted, bad, cache, req, mon, calm>>

\* Mutant: the creation of the rule is not awaited, so its error goes unseen.
MakeRule_Unawaited(q) ==
    /\ promo[q].pc = "ruling"
    /\ rules' \in {rules, rules \cup {q}}
    /\ promo' = [promo EXCEPT ![q].pc = "saving"]
    /\ UNCHANGED <<exp, accepted, bad, cache, req, mon, calm>>

MakeRule(q) ==
    /\ promo[q].pc = "ruling"
    /\ rules' = rules \cup {q}
    /\ promo' = [promo EXCEPT ![q].pc = "saving"]
    /\ UNCHANGED <<exp, accepted, bad, cache, req, mon, calm>>

\* save() writes the fields that differ from the document that was read: the
\* status only if it was not "promoted" then, whatever it is by now.
Save(q) ==
    LET e == promo[q].of
    IN  /\ promo[q].pc = "saving"
        /\ exp' = [exp EXCEPT ![e] = [status |-> IF promo[q].was = "promoted"
                                                 THEN exp[e].status ELSE "promoted",
                                      rule |-> q]]
        /\ promo' = [promo EXCEPT ![q].pc = "linking"]
        /\ UNCHANGED <<rules, accepted, bad, cache, req, mon, calm>>

\* The recommendation, if there is one, is accepted; then both caches of this
\* process are invalidated.
Link(q) ==
    /\ promo[q].pc = "linking"
    /\ accepted' \in {accepted, accepted \cup {promo[q].of}}
    /\ cache' = [cache EXCEPT ![promo[q].at] = Empty]
    /\ promo' = [promo EXCEPT ![q] = Over]
    /\ UNCHANGED <<exp, rules, bad, req, mon, calm>>

\* A write of the handler is rejected; what it wrote before stays.
PromoteFails(q) ==
    /\ ~calm
    /\ InCourse(q)
    /\ promo' = [promo EXCEPT ![q] = Over]
    /\ UNCHANGED <<exp, rules, accepted, bad, cache, req, mon, calm>>

-----------------------------------------------------------------------------
(* The monitor: check and rollback of canaryMonitor.js.                     *)

\* The timer: the active experiments of this moment are checked in turn.
StartCheck(p) ==
    /\ mon[p].pc = "resting" /\ Active # {}
    /\ mon' = [mon EXCEPT ![p] = [Resting EXCEPT !.pc = "measuring", !.todo = Active]]
    /\ UNCHANGED <<exp, rules, accepted, bad, cache, req, promo, calm>>

\* metricsFor and evaluateGuardrails; lastMetrics is written afterwards.
Measure(p) ==
    /\ mon[p].pc = "measuring"
    /\ \E e \in mon[p].todo :
          mon' = [mon EXCEPT ![p] = [pc |-> "noting", todo |-> mon[p].todo \ {e},
                                     now |-> e, breached |-> bad[e]]]
    /\ UNCHANGED <<exp, rules, accepted, bad, cache, req, promo, calm>>

\* Mutant: a check that returns after its first experiment.
Further_Returns(todo) == Resting

\* The next turn of the loop, or its end.
Further(todo) ==
    IF todo = {} THEN Resting ELSE [Resting EXCEPT !.pc = "measuring", !.todo = todo]

\* lastMonitoredAt and lastMetrics are written: no field of this model.
Note(p) ==
    /\ mon[p].pc = "noting"
    /\ mon' = [mon EXCEPT ![p] = IF mon[p].breached THEN [@ EXCEPT !.pc = "rolling"]
                                 ELSE Further(mon[p].todo)]
    /\ UNCHANGED <<exp, rules, accepted, bad, cache, req, promo, calm>>

\* Mutant: a status that the schema does not know; updateOne does not validate.
AutoRollBack_Misspelt(p) ==
    /\ mon[p].pc = "rolling"
    /\ exp' = [exp EXCEPT ![mon[p].now].status = "rolledback"]
    /\ cache' \in {cache, [cache EXCEPT ![p] = Empty]}
    /\ mon' = [mon EXCEPT ![p] = Further(mon[p].todo)]
    /\ UNCHANGED <<rules, accepted, bad, req, promo, calm>>

\* rollback writes whatever the status has become since the list was read.
AutoRollBack(p) ==
    /\ mon[p].pc = "rolling"
    /\ exp' = [exp EXCEPT ![mon[p].now].status = "rolled_back"]
    /\ cache' \in {cache, [cache EXCEPT ![p] = Empty]}
    /\ mon' = [mon EXCEPT ![p] = Further(mon[p].todo)]
    /\ UNCHANGED <<rules, accepted, bad, req, promo, calm>>

\* An error of any step ends the whole check, silently.
CheckFails(p) ==
    /\ ~calm
    /\ mon[p].pc # "resting"
    /\ mon' = [mon EXCEPT ![p] = Resting]
    /\ UNCHANGED <<exp, rules, accepted, bad, cache, req, promo, calm>>

-----------------------------------------------------------------------------
(* The gateway: activeExperiments and selectCanary of canaryEngine.js.      *)

\* What selectCanary may return, given the list: an experiment whose fraction
\* the request falls into, or none.
Choices(list) == list \cup {None}

\* The list is fresh and the choice is made without an await.
Hit(r) ==
    /\ req[r].pc = "idle"
    /\ \E p \in Processes :
          /\ cache[p].fresh
          /\ \E to \in Choices(cache[p].list) :
                req' = [req EXCEPT ![r] = [pc |-> "routed", at |-> p, list |-> {}, to |-> to]]
    /\ UNCHANGED <<exp, rules, accepted, bad, cache, mon, promo, calm>>

\* It is not, and the store is asked; "list" is what the query found.
Miss(r) ==
    /\ req[r].pc = "idle"
    /\ \E p \in Processes :
          /\ ~cache[p].fresh
          /\ req' = [req EXCEPT ![r] = [pc |-> "asking", at |-> p, list |-> Active, to |-> None]]
    /\ UNCHANGED <<exp, rules, accepted, bad, cache, mon, promo, calm>>

\* The answer arrives, or an error, which counts as an empty list: it becomes
\* the fresh list, whatever was invalidated meanwhile.
Answered(r) ==
    /\ req[r].pc = "asking"
    /\ \E list \in {req[r].list} \cup IF calm THEN {} ELSE {{}} :
          /\ cache' = [cache EXCEPT ![req[r].at] = [fresh |-> TRUE, list |-> list]]
          /\ \E to \in Choices(list) :
                req' = [req EXCEPT ![r] = [@ EXCEPT !.pc = "routed", !.list = {}, !.to = to]]
    /\ UNCHANGED <<exp, rules, accepted, bad, mon, promo, calm>>

\* The model that was chosen has answered.
Done(r) ==
    /\ req[r].pc = "routed"
    /\ req' = [req EXCEPT ![r] = NoRequest]
    /\ UNCHANGED <<exp, rules, accepted, bad, cache, mon, promo, calm>>

\* Mutant: a cached list that is kept for ever.
Expire_Never(p) == FALSE /\ UNCHANGED vars

\* TTL_MS has passed.
Expire(p) ==
    /\ cache[p].fresh
    /\ cache' = [cache EXCEPT ![p] = Empty]
    /\ UNCHANGED <<exp, rules, accepted, bad, req, mon, promo, calm>>

-----------------------------------------------------------------------------
(* The world around.                                                        *)

\* The traffic of the last hour makes an experiment better or worse.
Traffic(e) ==
    /\ exp[e].status # "absent"
    /\ bad' = [bad EXCEPT ![e] = ~bad[e]]
    /\ UNCHANGED <<exp, rules, accepted, cache, req, mon, promo, calm>>

Calm ==
    /\ ~calm
    /\ calm' = TRUE
    /\ UNCHANGED <<exp, rules, accepted, bad, cache, req, mon, promo>>

\* A process dies, with all that is under way in it, and is started again.
Crash(p) ==
    /\ ~calm
    /\ cache' = [cache EXCEPT ![p] = Empty]
    /\ mon' = [mon EXCEPT ![p] = Resting]
    /\ req' = [r \in Requests |-> IF req[r].at = p THEN NoRequest ELSE req[r]]
    /\ promo' = [q \in Promotions |->
                    IF promo[q].at = p /\ promo[q].pc # "idle" THEN Over ELSE promo[q]]
    /\ UNCHANGED <<exp, rules, accepted, bad, calm>>

-----------------------------------------------------------------------------
Administer ==
    \/ \E e \in Experiments : Create(e) \/ Patch(e) \/ RollBack(e)
    \/ \E q \in Promotions : \/ Promote(q) \/ MakeRule(q) \/ Save(q) \/ Link(q)
                             \/ PromoteFails(q)

Monitor(p) ==
    StartCheck(p) \/ Measure(p) \/ Note(p) \/ AutoRollBack(p) \/ CheckFails(p)

Route(r) == Hit(r) \/ Miss(r) \/ Answered(r) \/ Done(r)

Next ==
    \/ Administer
    \/ \E p \in Processes : Monitor(p) \/ Expire(p) \/ Crash(p)
    \/ \E r \in Requests : Route(r)
    \/ \E e \in Experiments : Traffic(e)
    \/ Calm

Spec == Init /\ [][Next]_vars

\* Every await ends, the timer of the monitor fires and the lists expire.
\* Nothing is assumed of administrators, of traffic or of new requests, nor that
\* the calm ever comes.
FairSpec ==
    /\ Spec
    /\ \A p \in Processes :
          /\ WF_vars(StartCheck(p)) /\ WF_vars(Measure(p))
          /\ WF_vars(Note(p)) /\ WF_vars(AutoRollBack(p))
          /\ WF_vars(Expire(p))
    /\ \A r \in Requests : WF_vars(Answered(r)) /\ WF_vars(Done(r))
    /\ \A q \in Promotions : WF_vars(MakeRule(q)) /\ WF_vars(Save(q)) /\ WF_vars(Link(q))

-----------------------------------------------------------------------------
ExperimentType == [status : Statuses, rule : Promotions \cup {None}]

CacheType == [fresh : BOOLEAN, list : SUBSET Experiments]

RequestType == [pc : {"idle", "asking", "routed"}, at : Processes,
                list : SUBSET Experiments, to : Experiments \cup {None}]

CheckType == [pc : {"resting", "measuring", "noting", "rolling"}, todo : SUBSET Experiments,
              now : Experiments \cup {None}, breached : BOOLEAN]

PromotionType == [pc : {"idle", "ruling", "saving", "linking", "over"}, at : Processes,
                  of : Experiments \cup {None}, was : Statuses]

\* The state is well formed: no status outside the schema is ever written
\* (updateOne does not validate), and a promotion under way is of an experiment.
TypeOK ==
    /\ exp \in [Experiments -> ExperimentType]
    /\ rules \subseteq Promotions
    /\ accepted \subseteq Experiments
    /\ bad \in [Experiments -> BOOLEAN]
    /\ cache \in [Processes -> CacheType]
    /\ req \in [Requests -> RequestType]
    /\ mon \in [Processes -> CheckType]
    /\ promo \in [Promotions -> PromotionType]
    /\ \A q \in Promotions : InCourse(q) => promo[q].of \in Experiments
    /\ calm \in BOOLEAN

\* A promotion makes its rule before anything says that it happened: an
\* experiment that is promoted, or whose recommendation is accepted for it, has
\* the rule that serves its traffic, however promotions, failures, crashes and
\* the monitor interleave (experiments.js:151-167).
PromotedHasRule ==
    \A e \in Experiments :
        exp[e].status = "promoted" \/ e \in accepted =>
            exp[e].rule \in rules

\* The monitor is not outrun: unless the store goes on failing or processes go
\* on dying, no experiment stays active and in breach of its guardrails for ever,
\* whatever administrators do to the others (canaryMonitor.js:96-106).
BreachIsRolledBack ==
    \A e \in Experiments :
        <>[]calm => []<>~(exp[e].status = "active" /\ bad[e])

\* Every process follows the documents, also one that was never told and one
\* whose query was under way when they changed, whatever happens to the other
\* experiments: what stays inactive is in the end in no list and has no
\* request diverted to it, even while the store fails and processes die; what
\* stays active is in the end in every list, once they no longer do
\* (canaryEngine.js:10-17).
ListsFollow ==
    \A e \in Experiments :
        /\ <>[](e \notin Active) =>
              <>[](/\ \A p \in Processes : e \notin cache[p].list
                   /\ \A r \in Requests : req[r].to # e)
        /\ <>[](calm /\ e \in Active) =>
              <>[](\A p \in Processes : cache[p].fresh => e \in cache[p].list)

=============================================================================
