------------------------ MODULE CanaryLifecycleProofs ------------------------
(***************************************************************************)
(* Proofs about CanaryLifecycle, for any number of experiments, processes, *)
(* requests, promotions and crashes.                                       *)
(***************************************************************************)
EXTENDS CanaryLifecycle, TLAPS

LEMMA ResetTypes ==
    /\ NoRequest \in RequestType
    /\ Resting \in CheckType
    /\ NotAsked \in PromotionType /\ Over \in PromotionType
    /\ Empty \in CacheType
    /\ \A todo \in SUBSET Experiments : Further(todo) \in CheckType
<1>1. SomeProcess \in Processes
    BY CanaryAssumption DEF CanaryAssumption, SomeProcess
<1>2. QED
    BY <1>1 DEF NoRequest, Resting, NotAsked, Over, Empty, Further, RequestType, CheckType,
                PromotionType, CacheType, Statuses

\* Either way the caches stay well formed.
LEMMA InvalidateType ==
    ASSUME TypeOK, Invalidate
    PROVE  cache' \in [Processes -> CacheType]
BY ResetTypes DEF TypeOK, Invalidate

LEMMA InitTypeOK == Init => TypeOK
<1> SUFFICES ASSUME Init PROVE TypeOK
    OBVIOUS
<1>1. exp \in [Experiments -> ExperimentType]
    BY DEF Init, ExperimentType, Statuses
<1>2. /\ cache \in [Processes -> CacheType]
      /\ req \in [Requests -> RequestType]
      /\ mon \in [Processes -> CheckType]
      /\ promo \in [Promotions -> PromotionType]
    BY ResetTypes DEF Init
<1>3. \A q \in Promotions : ~InCourse(q)
    BY DEF Init, InCourse, NotAsked
<1>4. QED
    BY <1>1, <1>2, <1>3 DEF Init, TypeOK

LEMMA AdministerTypeOK == TypeOK /\ Administer => TypeOK'
<1> SUFFICES ASSUME TypeOK, Administer PROVE TypeOK'
    OBVIOUS
<1> USE DEF TypeOK
<1>1. ASSUME NEW e \in Experiments, Create(e) PROVE TypeOK'
    BY <1>1, InvalidateType DEF Create, ExperimentType, Statuses, InCourse
<1>2. ASSUME NEW e \in Experiments, Patch(e) PROVE TypeOK'
    BY <1>2, InvalidateType DEF Patch, ExperimentType, Statuses, InCourse
<1>3. ASSUME NEW e \in Experiments, RollBack(e) PROVE TypeOK'
    BY <1>3, InvalidateType DEF RollBack, ExperimentType, Statuses, InCourse
<1>4. ASSUME NEW q \in Promotions, Promote(q) PROVE TypeOK'
    BY <1>4 DEF Promote, PromotionType, ExperimentType, InCourse
<1>5. ASSUME NEW q \in Promotions, MakeRule(q) PROVE TypeOK'
    BY <1>5 DEF MakeRule, PromotionType, InCourse
<1>6. ASSUME NEW q \in Promotions, Save(q) PROVE TypeOK'
    <2>1. exp' \in [Experiments -> ExperimentType]
        BY <1>6 DEF Save, ExperimentType, Statuses
    <2>2. promo' \in [Promotions -> PromotionType]
        BY <1>6 DEF Save, PromotionType
    <2>3. \A s \in Promotions : InCourse(s)' => promo'[s].of \in Experiments
        BY <1>6 DEF Save, InCourse, PromotionType
    <2>4. QED
        BY <1>6, <2>1, <2>2, <2>3 DEF Save
<1>7. ASSUME NEW q \in Promotions, Link(q) PROVE TypeOK'
    BY <1>7, ResetTypes DEF Link, InCourse, Over, NotAsked
<1>8. ASSUME NEW q \in Promotions, PromoteFails(q) PROVE TypeOK'
    BY <1>8, ResetTypes DEF PromoteFails, InCourse, Over, NotAsked
<1>9. QED
    BY <1>1, <1>2, <1>3, <1>4, <1>5, <1>6, <1>7, <1>8 DEF Administer

LEMMA MonitorTypeOK ==
    ASSUME TypeOK, NEW p \in Processes, Monitor(p)
    PROVE  TypeOK'
<1> USE DEF TypeOK
<1>1. CASE StartCheck(p)
    BY <1>1 DEF StartCheck, CheckType, Resting, Active, InCourse
<1>2. CASE Measure(p)
    BY <1>2 DEF Measure, CheckType, InCourse
<1>3. CASE Note(p)
    BY <1>3, ResetTypes DEF Note, CheckType, InCourse
<1>4. CASE AutoRollBack(p)
    <2>1. exp' \in [Experiments -> ExperimentType]
        BY <1>4 DEF AutoRollBack, ExperimentType, Statuses
    <2>2. mon' \in [Processes -> CheckType]
        BY <1>4, ResetTypes DEF AutoRollBack, CheckType
    <2>3. cache' \in [Processes -> CacheType]
        BY <1>4, ResetTypes DEF AutoRollBack
    <2>4. QED
        BY <1>4, <2>1, <2>2, <2>3 DEF AutoRollBack, InCourse
<1>5. CASE CheckFails(p)
    BY <1>5, ResetTypes DEF CheckFails, InCourse
<1>6. QED
    BY <1>1, <1>2, <1>3, <1>4, <1>5 DEF Monitor

LEMMA RouteTypeOK ==
    ASSUME TypeOK, NEW r \in Requests, Route(r)
    PROVE  TypeOK'
<1> USE DEF TypeOK
<1>1. CASE Hit(r)
    <2>1. PICK p \in Processes, to \in Experiments \cup {None} :
            req' = [req EXCEPT ![r] = [pc |-> "routed", at |-> p, list |-> {}, to |-> to]]
        BY <1>1 DEF Hit, Choices, CacheType
    <2>2. req' \in [Requests -> RequestType]
        BY <2>1 DEF RequestType
    <2>3. QED
        BY <1>1, <2>2 DEF Hit, InCourse
<1>2. CASE Miss(r)
    BY <1>2 DEF Miss, RequestType, Active, InCourse
<1>3. CASE Answered(r)
    <2>1. PICK list \in SUBSET Experiments :
            /\ cache' = [cache EXCEPT ![req[r].at] = [fresh |-> TRUE, list |-> list]]
            /\ \E to \in Choices(list) :
                  req' = [req EXCEPT ![r] = [req[r] EXCEPT !.pc = "routed", !.list = {},
                                                           !.to = to]]
        BY <1>3 DEF Answered, RequestType
    <2>2. cache' \in [Processes -> CacheType]
        BY <2>1 DEF CacheType
    <2>3. PICK to \in Experiments \cup {None} :
            req' = [req EXCEPT ![r] = [req[r] EXCEPT !.pc = "routed", !.list = {}, !.to = to]]
        BY <2>1 DEF Choices
    <2>4. [req[r] EXCEPT !.pc = "routed", !.list = {}, !.to = to] \in RequestType
        BY DEF RequestType
    <2>5. req' \in [Requests -> RequestType]
        BY <2>3, <2>4
    <2>6. QED
        BY <1>3, <2>2, <2>5 DEF Answered, InCourse
<1>4. CASE Done(r)
    BY <1>4, ResetTypes DEF Done, InCourse
<1>5. QED
    BY <1>1, <1>2, <1>3, <1>4 DEF Route

LEMMA NextTypeOK == TypeOK /\ [Next]_vars => TypeOK'
<1> SUFFICES ASSUME TypeOK, [Next]_vars PROVE TypeOK'
    OBVIOUS
<1>1. ASSUME NEW p \in Processes, Expire(p) PROVE TypeOK'
    BY <1>1, ResetTypes DEF TypeOK, Expire, InCourse
<1>2. ASSUME NEW p \in Processes, Crash(p) PROVE TypeOK'
    <2> USE DEF TypeOK
    <2>1. promo' \in [Promotions -> PromotionType]
        BY <1>2, ResetTypes DEF Crash
    <2>2. \A q \in Promotions : InCourse(q)' => promo'[q].of \in Experiments
        BY <1>2 DEF Crash, InCourse, Over, NotAsked
    <2>3. /\ cache' \in [Processes -> CacheType]
          /\ mon' \in [Processes -> CheckType]
          /\ req' \in [Requests -> RequestType]
        BY <1>2, ResetTypes DEF Crash
    <2>4. QED
        BY <1>2, <2>1, <2>2, <2>3 DEF Crash
<1>3. ASSUME NEW e \in Experiments, Traffic(e) PROVE TypeOK'
    BY <1>3 DEF TypeOK, Traffic, InCourse
<1>4. CASE Calm
    BY <1>4 DEF TypeOK, Calm, InCourse
<1>5. CASE UNCHANGED vars
    BY <1>5 DEF TypeOK, vars, InCourse
<1>6. QED
    BY <1>1, <1>2, <1>3, <1>4, <1>5, AdministerTypeOK, MonitorTypeOK, RouteTypeOK DEF Next

\* Every behaviour stays well formed: only statuses of the schema are written,
\* and a promotion under way always knows its experiment.
THEOREM TypeCorrect == Spec => []TypeOK
<1>1. Init => TypeOK
    BY InitTypeOK
<1>2. TypeOK /\ [Next]_vars => TypeOK'
    BY NextTypeOK
<1>3. QED
    BY <1>1, <1>2, PTL DEF Spec

-----------------------------------------------------------------------------
\* PromotedHasRule is not inductive: whether a save is allowed to say
\* "promoted" depends on where its handler is.  A handler that is past the
\* creation has its rule, and after the save the document names a rule, its
\* own or that of a later promotion.
RuleFirst ==
    /\ \A e \in Experiments : exp[e].rule \in rules \cup {None}
    /\ \A e \in Experiments : exp[e].status = "promoted" => exp[e].rule \in rules
    /\ accepted \subseteq {e \in Experiments : exp[e].rule \in rules}
    /\ \A q \in Promotions : promo[q].pc \in {"saving", "linking"} => q \in rules
    /\ \A q \in Promotions : promo[q].pc = "linking" => exp[promo[q].of].rule \in rules

\* A step that gives no experiment the status "promoted" and touches neither
\* rules nor accepted recommendations, and under which no promotion advances.
LEMMA ElsewhereKeeps ==
    ASSUME TypeOK, RuleFirst, exp' \in [Experiments -> ExperimentType],
           \A e \in Experiments : /\ exp'[e].rule = exp[e].rule
                                  /\ exp'[e].status = "promoted" => exp[e].status = "promoted",
           UNCHANGED <<rules, accepted>>,
           \A q \in Promotions : promo'[q] = promo[q] \/ promo'[q].pc \in {"ruling", "over"}
    PROVE  RuleFirst'
BY DEF TypeOK, RuleFirst, InCourse

LEMMA RuleFirstStep == TypeOK /\ TypeOK' /\ RuleFirst /\ [Next]_vars => RuleFirst'
<1> SUFFICES ASSUME TypeOK, TypeOK', RuleFirst, [Next]_vars PROVE RuleFirst'
    OBVIOUS
<1>1. exp' \in [Experiments -> ExperimentType]
    BY DEF TypeOK
<1>2. ASSUME NEW e \in Experiments, Create(e) \/ Patch(e) \/ RollBack(e) PROVE RuleFirst'
    <2>1. PICK s \in {"active", "paused", "rolled_back"} : exp' = [exp EXCEPT ![e].status = s]
        BY <1>2 DEF Create, Patch, RollBack
    <2>2. \A f \in Experiments : /\ exp'[f].rule = exp[f].rule
                                 /\ exp'[f].status = "promoted" => exp[f].status = "promoted"
        BY <2>1 DEF TypeOK, ExperimentType
    <2>3. UNCHANGED <<rules, accepted, promo>>
        BY <1>2 DEF Create, Patch, RollBack
    <2>4. QED
        BY <1>1, <2>2, <2>3, ElsewhereKeeps
<1>3. ASSUME NEW q \in Promotions, Promote(q) PROVE RuleFirst'
    BY <1>1, <1>3, ElsewhereKeeps DEF Promote, TypeOK
<1>4. ASSUME NEW q \in Promotions, MakeRule(q) PROVE RuleFirst'
    <2>1. \A r \in Promotions : promo'[r].pc = promo[r].pc \/ (r = q /\ promo'[r].pc = "saving")
        BY <1>4 DEF MakeRule, TypeOK, PromotionType
    <2>2. \A r \in Promotions : promo'[r].of = promo[r].of
        BY <1>4 DEF MakeRule, TypeOK, PromotionType
    <2>3. rules' = rules \cup {q} /\ exp' = exp /\ accepted' = accepted
        BY <1>4 DEF MakeRule
    <2>4. QED
        BY <2>1, <2>2, <2>3 DEF RuleFirst
<1>5. ASSUME NEW q \in Promotions, Save(q) PROVE RuleFirst'
    <2> DEFINE e == promo[q].of
    <2>1. q \in rules /\ e \in Experiments
        BY <1>5 DEF Save, RuleFirst, TypeOK, InCourse
    <2>2. /\ exp'[e].rule = q
          /\ \A f \in Experiments \ {e} : exp'[f] = exp[f]
          /\ rules' = rules /\ accepted' = accepted
        BY <1>5, <2>1 DEF Save, TypeOK
    <2>3. \A s \in Promotions : /\ promo'[s].of = promo[s].of
                                /\ s # q => promo'[s] = promo[s]
        BY <1>5 DEF Save, TypeOK, PromotionType
    <2>4. \A f \in Experiments : exp[f].rule \in rules => exp'[f].rule \in rules'
        BY <2>1, <2>2
    <2> HIDE DEF e
    <2>5. \A f \in Experiments : exp'[f].rule \in rules' \cup {None}
        BY <2>1, <2>2 DEF RuleFirst
    <2>6. \A f \in Experiments : exp'[f].status = "promoted" => exp'[f].rule \in rules'
        BY <2>1, <2>2 DEF RuleFirst
    <2>7. accepted' \subseteq {f \in Experiments : exp'[f].rule \in rules'}
        BY <2>2, <2>4 DEF RuleFirst
    <2>8. \A s \in Promotions : promo'[s].pc \in {"saving", "linking"} => s \in rules'
        BY <2>1, <2>2, <2>3 DEF RuleFirst
    <2>9. \A s \in Promotions : promo'[s].pc = "linking" => exp'[promo'[s].of].rule \in rules'
        <3> SUFFICES ASSUME NEW s \in Promotions, promo'[s].pc = "linking"
                     PROVE  exp'[promo'[s].of].rule \in rules'
            OBVIOUS
        <3>1. CASE s = q
            BY <2>1, <2>2, <2>3, <3>1 DEF e
        <3>2. CASE s # q
            BY <2>3, <2>4, <3>2 DEF RuleFirst, TypeOK, InCourse
        <3>3. QED
            BY <3>1, <3>2
    <2>10. QED
        BY <2>5, <2>6, <2>7, <2>8, <2>9 DEF RuleFirst
<1>6. ASSUME NEW q \in Promotions, Link(q) PROVE RuleFirst'
    <2>1. accepted' \subseteq accepted \cup {promo[q].of} /\ promo[q].of \in Experiments
        BY <1>6 DEF Link, TypeOK, InCourse
    <2>2. exp[promo[q].of].rule \in rules
        BY <1>6 DEF Link, RuleFirst
    <2>3. \A s \in Promotions : promo'[s] = promo[s] \/ promo'[s].pc = "over"
        BY <1>6 DEF Link, Over, NotAsked, TypeOK
    <2>4. UNCHANGED <<exp, rules>>
        BY <1>6 DEF Link
    <2>5. QED
        BY <2>1, <2>2, <2>3, <2>4 DEF RuleFirst
<1>7. ASSUME NEW q \in Promotions, PromoteFails(q) PROVE RuleFirst'
    BY <1>1, <1>7, ElsewhereKeeps DEF PromoteFails, Over, NotAsked, TypeOK
<1>8. ASSUME NEW p \in Processes, Monitor(p) PROVE RuleFirst'
    <2>1. CASE AutoRollBack(p)
        BY <1>1, <2>1, ElsewhereKeeps DEF AutoRollBack, TypeOK, ExperimentType
    <2>2. CASE StartCheck(p) \/ Measure(p) \/ Note(p) \/ CheckFails(p)
        BY <1>1, <2>2, ElsewhereKeeps DEF StartCheck, Measure, Note, CheckFails
    <2>3. QED
        BY <1>8, <2>1, <2>2 DEF Monitor
<1>9. ASSUME NEW r \in Requests, Route(r) PROVE RuleFirst'
    BY <1>1, <1>9, ElsewhereKeeps DEF Route, Hit, Miss, Answered, Done
<1>10. ASSUME NEW p \in Processes, Expire(p) PROVE RuleFirst'
    BY <1>1, <1>10, ElsewhereKeeps DEF Expire
<1>11. ASSUME NEW p \in Processes, Crash(p) PROVE RuleFirst'
    BY <1>1, <1>11, ElsewhereKeeps DEF Crash, Over, NotAsked
<1>12. ASSUME NEW e \in Experiments, Traffic(e) PROVE RuleFirst'
    BY <1>1, <1>12, ElsewhereKeeps DEF Traffic
<1>13. CASE Calm
    BY <1>1, <1>13, ElsewhereKeeps DEF Calm
<1>14. CASE UNCHANGED vars
    BY <1>1, <1>14, ElsewhereKeeps DEF vars
<1>15. QED
    BY <1>2, <1>3, <1>4, <1>5, <1>6, <1>7, <1>8, <1>9, <1>10, <1>11, <1>12, <1>13, <1>14
    DEF Next, Administer

\* However promotions, failures, crashes, administrators and monitors
\* interleave, no experiment is called promoted and no recommendation accepted
\* for it before the rule that carries the promotion exists.
THEOREM PromotedHasRuleAlways == Spec => []PromotedHasRule
<1>1. Init => RuleFirst
    BY DEF Init, RuleFirst, NotAsked
<1>2. TypeOK /\ TypeOK' /\ RuleFirst /\ [Next]_vars => RuleFirst'
    BY RuleFirstStep
<1>3. RuleFirst => PromotedHasRule
    BY DEF RuleFirst, PromotedHasRule
<1>4. QED
    BY <1>1, <1>2, <1>3, TypeCorrect, PTL DEF Spec
=============================================================================
