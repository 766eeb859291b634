--------------------------- MODULE EvaluationProofs ---------------------------
(***************************************************************************)
(* Proofs about Evaluation, for any number of recommendations, runs,       *)
(* workers and console requests: an accepted recommendation has its rule,  *)
(* no run is executed twice, and an evaluation that passed was earned by a *)
(* run that a worker within its load executed. About Reports: what a view  *)
(* says of a recommendation is true of the time it was read in. And about  *)
(* Benchmarks, for any number of operators, requests and days: the count   *)
(* of cases, what a deletion leaves, and the ages the purge keeps to.      *)
(* About Analytics, for any log and filter: its views add up to one        *)
(* another, and so do the savings and what people decided.                 *)
(***************************************************************************)
EXTENDS MCEvaluation, FiniteSums, FiniteSetTheorems, TLAPS

\* Documents, handlers and executions have the fields the code gives them, and what a
\* handler or an execution has read has a status to leave alone.
Docs(f) == DOMAIN f = Recs /\ \A r \in Recs : "status" \in DOMAIN f[r]
HandlerShape(h) ==
    DOMAIN h = {"op", "rec", "run", "read", "arg"} /\ "status" \in DOMAIN h.read
ExecutionShape(e) ==
    /\ DOMAIN e = {"pc", "run", "seen", "out", "read"} /\ "status" \in DOMAIN e.read
    /\ e.pc # "free" => e.run \in Runs
Handlers(f) == DOMAIN f = Clicks /\ \A c \in Clicks : HandlerShape(f[c])
Executions(f) ==
    /\ DOMAIN f = Processes
    /\ \A p \in Processes : /\ DOMAIN f[p] = Slots
                            /\ \A s \in Slots : ExecutionShape(f[p][s])

Shaped == Docs(rec) /\ DOMAIN rules = Recs /\ Handlers(click) /\ Executions(exec)

\* A handler about to save an acceptance has made the rule, unless its
\* recommendation was dropped meanwhile.
RuleComesFirst ==
    \A c \in Clicks : click[c].op = "accept" /\ click[c].rec \in Recs => rules[click[c].rec] # {}

AcceptInvariant == Shaped /\ RuleComesFirst /\ AcceptedHasRule

\* The save of a document in which the handler left the status alone keeps the
\* status that is stored.
LEMMA SavedKeepsStatus ==
    ASSUME NEW stored, NEW read, NEW changed, "status" \in DOMAIN stored,
           changed.status = read.status
    PROVE  /\ "status" \in DOMAIN Saved(stored, read, changed)
           /\ Saved(stored, read, changed).status = stored.status
BY DEF Saved

LEMMA AcceptInitial == EvalInit => AcceptInvariant
<1> SUFFICES ASSUME EvalInit PROVE AcceptInvariant
    OBVIOUS
<1>1. Docs(rec) /\ \A r \in Recs : rec[r].status = "pending"
  <2>1. CASE rec = [r \in Recs |-> Fresh]
      BY <2>1 DEF Docs, Fresh, Absent
  <2>2. ASSUME NEW r \in Recs,
               rec = [[q \in Recs |-> Fresh] EXCEPT ![r].eval = "running", ![r].run = 1]
        PROVE  Docs(rec) /\ \A q \in Recs : rec[q].status = "pending"
    <3>1. \A q \in Recs : q # r => rec[q] = Fresh
        BY <2>2
    <3>2. rec[r] = [Fresh EXCEPT !.eval = "running", !.run = 1] /\ DOMAIN rec = Recs
        BY <2>2
    <3>3. QED
        BY <3>1, <3>2 DEF Docs, Fresh, Absent
  <2>3. QED
      BY <2>1, <2>2 DEF EvalInit
<1>2. Handlers(click) /\ \A c \in Clicks : click[c].op = "idle"
    BY DEF EvalInit, Handlers, HandlerShape, IdleClick, Absent
<1>3. Executions(exec)
    BY DEF EvalInit, Executions, ExecutionShape, FreeSlot, Absent
<1>4. DOMAIN rules = Recs
    BY DEF EvalInit
<1>5. QED
    BY <1>1, <1>2, <1>3, <1>4 DEF AcceptInvariant, Shaped, RuleComesFirst, AcceptedHasRule

-----------------------------------------------------------------------------
(* What a step does to the four functions, in the forms the steps use. *)

\* A step that leaves the documents and the rules alone, and lets no handler go
\* on to save an acceptance.
LEMMA NothingAccepted ==
    ASSUME AcceptInvariant, UNCHANGED <<rec, rules>>, Handlers(click'), Executions(exec'),
           \A c \in Clicks : click'[c] = click[c] \/ click'[c].op # "accept"
    PROVE  AcceptInvariant'
BY DEF AcceptInvariant, Shaped, RuleComesFirst, AcceptedHasRule, Docs

\* A handler that ends, or goes on to something else than the save, while the status
\* of no recommendation becomes accepted.
LEMMA StatusesStay ==
    ASSUME AcceptInvariant, UNCHANGED rules, Handlers(click'), Executions(exec'), Docs(rec'),
           \A c \in Clicks : click'[c] = click[c] \/ click'[c].op # "accept",
           \A r \in Recs : rec'[r].status # "accepted" \/ rec'[r].status = rec[r].status
    PROVE  AcceptInvariant'
BY DEF AcceptInvariant, Shaped, RuleComesFirst, AcceptedHasRule, Docs

\* Writing one handler.
LEMMA HandlerWritten ==
    ASSUME Handlers(click), NEW c \in Clicks, NEW h, HandlerShape(h),
           click' = [click EXCEPT ![c] = h]
    PROVE  /\ Handlers(click')
           /\ click'[c] = h
           /\ \A d \in Clicks \ {c} : click'[d] = click[d]
BY DEF Handlers

\* Writing one execution.
LEMMA ExecutionWritten ==
    ASSUME Executions(exec), NEW p \in Processes, NEW s \in Slots, NEW e, ExecutionShape(e),
           exec' = [exec EXCEPT ![p][s] = e]
    PROVE  Executions(exec')
BY DEF Executions

\* Saving one document whose status the writer does not touch.
LEMMA DocumentSaved ==
    ASSUME Docs(rec), NEW r, NEW read, NEW changed, changed.status = read.status,
           SaveRec(r, read, changed)
    PROVE  Docs(rec') /\ \A q \in Recs : rec'[q].status = rec[q].status
<1>1. rec' = [rec EXCEPT ![r] = Saved(rec[r], read, changed)]
    BY DEF SaveRec
<1>2. \A q \in Recs : q # r => rec'[q] = rec[q]
    BY <1>1 DEF Docs
<1>3. DOMAIN rec' = Recs
    BY <1>1 DEF Docs
<1>4. ASSUME r \in Recs
      PROVE  "status" \in DOMAIN rec'[r] /\ rec'[r].status = rec[r].status
  <2>1. rec'[r] = Saved(rec[r], read, changed) /\ "status" \in DOMAIN rec[r]
      BY <1>1, <1>4 DEF Docs
  <2>2. QED
      BY <2>1, SavedKeepsStatus
<1>5. QED
    BY <1>2, <1>3, <1>4 DEF Docs

\* A handler that begins has not yet made its rule, and one that ends saves nothing.
LEMMA BeginKeeps ==
    ASSUME AcceptInvariant, NEW c \in Clicks, NEW op, op # "accept", NEW STATE r, NEW STATE u,
           NEW STATE arg, Begin(c, op, r, u, arg),
           op \in {"build", "link", "rule"} => r \in Recs \union {None}
    PROVE  /\ Handlers(click')
           /\ \A d \in Clicks : click'[d] = click[d] \/ click'[d].op # "accept"
<1> DEFINE h == [op |-> op, rec |-> r, run |-> u, arg |-> arg,
                 read |-> IF r # None /\ op \in {"build", "link", "rule"} THEN rec[r] ELSE Absent]
<1>1. click' = [click EXCEPT ![c] = h]
    BY DEF Begin
<1>2. HandlerShape(h) /\ h.op # "accept"
  <2>1. "status" \in DOMAIN h.read
      BY DEF AcceptInvariant, Shaped, Docs, Absent
  <2>2. QED
      BY <2>1 DEF HandlerShape
<1> HIDE DEF h
<1>3. QED
    BY <1>1, <1>2, HandlerWritten DEF AcceptInvariant, Shaped

LEMMA EndKeeps ==
    ASSUME AcceptInvariant, NEW c \in Clicks, End(c)
    PROVE  /\ Handlers(click')
           /\ \A d \in Clicks : click'[d] = click[d] \/ click'[d].op # "accept"
<1>1. click' = [click EXCEPT ![c] = IdleClick]
    BY DEF End
<1>2. HandlerShape(IdleClick) /\ IdleClick.op # "accept"
    BY DEF HandlerShape, IdleClick, Absent
<1>3. QED
    BY <1>1, <1>2, HandlerWritten DEF AcceptInvariant, Shaped

\* A handler that goes on to another of its steps keeps its fields.
LEMMA StepKeeps ==
    ASSUME AcceptInvariant, NEW c \in Clicks, NEW op, op # "accept", NEW arg,
           click' = [click EXCEPT ![c].op = op, ![c].arg = arg]
    PROVE  /\ Handlers(click')
           /\ \A d \in Clicks : click'[d] = click[d] \/ click'[d].op # "accept"
<1> DEFINE h == [click[c] EXCEPT !.op = op, !.arg = arg]
<1>1. click' = [click EXCEPT ![c] = h]
    OBVIOUS
<1>2. HandlerShape(h) /\ h.op # "accept"
    BY DEF AcceptInvariant, Shaped, Handlers, HandlerShape
<1> HIDE DEF h
<1>3. QED
    BY <1>1, <1>2, HandlerWritten DEF AcceptInvariant, Shaped

-----------------------------------------------------------------------------
(* The console. *)

LEMMA BuildKeeps ==
    ASSUME AcceptInvariant, NEW c \in Clicks, NEW r \in Recs,
           BuildDataset(c, r) \/ Accept(c, r) \/ Recompute(c, r)
    PROVE  AcceptInvariant'
<1>1. UNCHANGED <<rec, rules, exec>>
    BY DEF BuildDataset, Accept, Recompute
<1>2. Handlers(click') /\ \A d \in Clicks : click'[d] = click[d] \/ click'[d].op # "accept"
  <2>1. CASE BuildDataset(c, r)
      BY <2>1, BeginKeeps DEF BuildDataset
  <2>2. CASE Accept(c, r)
    <3>1. PICK override \in BOOLEAN : Begin(c, "rule", r, None, Gate(r, override))
        BY <2>2 DEF Accept
    <3>2. QED
        BY <3>1, BeginKeeps
  <2>3. CASE Recompute(c, r)
      BY <2>3, BeginKeeps DEF Recompute
  <2>4. QED
      BY <2>1, <2>2, <2>3
<1>3. Executions(exec')
    BY <1>1 DEF AcceptInvariant, Shaped, Executions
<1>4. QED
    BY <1>1, <1>2, <1>3, NothingAccepted

LEMMA RunHandlersKeep ==
    ASSUME AcceptInvariant, NEW c \in Clicks, NEW u \in Runs, NEW r \in Recs \union {None},
           DeleteRun(c, u) \/ Correct(c, u) \/ StartRun(c, r, u)
    PROVE  AcceptInvariant'
<1>1. UNCHANGED <<rec, rules, exec>>
    BY DEF DeleteRun, Correct, StartRun
<1>2. Handlers(click') /\ \A d \in Clicks : click'[d] = click[d] \/ click'[d].op # "accept"
  <2>1. CASE DeleteRun(c, u)
      BY <2>1, BeginKeeps DEF DeleteRun
  <2>2. CASE Correct(c, u)
      BY <2>2, BeginKeeps DEF Correct
  <2>3. CASE StartRun(c, r, u)
    <3>1. PICK op \in {"link", "cap"} : Begin(c, op, r, u, None)
        BY <2>3 DEF StartRun
    <3>2. QED
        BY <3>1, BeginKeeps
  <2>4. QED
      BY <2>1, <2>2, <2>3
<1>3. Executions(exec')
    BY <1>1 DEF AcceptInvariant, Shaped, Executions
<1>4. QED
    BY <1>1, <1>2, <1>3, NothingAccepted

\* Handlers that end, having saved nothing or a document whose status they did not touch.
LEMMA EndingsKeep ==
    ASSUME AcceptInvariant, NEW c \in Clicks,
           \/ DatasetReady(c) \/ DatasetFails(c) \/ RefuseCost(c) \/ LinkRun(c) \/ SaveScore(c)
    PROVE  AcceptInvariant'
<1>1. UNCHANGED <<rules, exec>> /\ End(c)
    BY DEF DatasetReady, DatasetFails, RefuseCost, LinkRun, SaveScore
<1>2. Handlers(click') /\ \A d \in Clicks : click'[d] = click[d] \/ click'[d].op # "accept"
    BY <1>1, EndKeeps
<1>3. Executions(exec') /\ Docs(rec)
    BY <1>1 DEF AcceptInvariant, Shaped, Executions
<1>4. CASE UNCHANGED rec
    BY <1>1, <1>2, <1>3, <1>4, NothingAccepted
<1>5. CASE rec' # rec
  <2> DEFINE d == click[c]
             linked == [d.read EXCEPT !.eval = "running", !.run = d.run]
             ready == [d.read EXCEPT !.eval = "dataset_ready"]
  <2>1. "status" \in DOMAIN d.read
      BY DEF AcceptInvariant, Shaped, Handlers, HandlerShape
  <2>2. linked.status = d.read.status /\ ready.status = d.read.status
      BY <2>1
  <2>3. SaveRec(d.rec, d.read, linked) \/ SaveRec(d.rec, d.read, ready)
      BY <1>5 DEF DatasetReady, DatasetFails, RefuseCost, LinkRun, SaveScore
  <2> HIDE DEF linked, ready
  <2>4. Docs(rec') /\ \A q \in Recs : rec'[q].status = rec[q].status
      BY <1>3, <2>2, <2>3, DocumentSaved
  <2>5. QED
      BY <1>1, <1>2, <1>3, <2>4, StatusesStay
<1>6. QED
    BY <1>4, <1>5

LEMMA DropDataKeeps ==
    ASSUME AcceptInvariant, NEW c \in Clicks, DropData(c)
    PROVE  AcceptInvariant'
<1>1. UNCHANGED <<rec, rules, exec>>
    BY DEF DropData
<1>2. Handlers(click') /\ \A d \in Clicks : click'[d] = click[d] \/ click'[d].op # "accept"
    BY StepKeeps DEF DropData
<1>3. Executions(exec')
    BY <1>1 DEF AcceptInvariant, Shaped, Executions
<1>4. QED
    BY <1>1, <1>2, <1>3, NothingAccepted

LEMMA UnlinkKeeps ==
    ASSUME AcceptInvariant, NEW c \in Clicks, Unlink(c)
    PROVE  AcceptInvariant'
<1>1. UNCHANGED <<rules, exec>> /\ End(c)
    BY DEF Unlink
<1>2. Handlers(click') /\ \A d \in Clicks : click'[d] = click[d] \/ click'[d].op # "accept"
    BY <1>1, EndKeeps
<1>3. Executions(exec') /\ Docs(rec)
    BY <1>1 DEF AcceptInvariant, Shaped, Executions
<1>4. Docs(rec') /\ \A q \in Recs : rec'[q].status = rec[q].status
  <2>1. PICK r, arg : \/ UNCHANGED rec
                      \/ rec' = [rec EXCEPT ![r].run = None, ![r].eval = arg]
      BY DEF Unlink
  <2>2. QED
      BY <1>3, <2>1 DEF Docs
<1>5. QED
    BY <1>1, <1>2, <1>3, <1>4, StatusesStay

LEMMA RescoreKeeps ==
    ASSUME AcceptInvariant, NEW c \in Clicks, Rescore(c)
    PROVE  AcceptInvariant'
<1>1. UNCHANGED <<rec, rules, exec>>
    BY DEF Rescore
<1>2. Handlers(click') /\ \A d \in Clicks : click'[d] = click[d] \/ click'[d].op # "accept"
  <2>1. PICK arg : \/ click' = [click EXCEPT ![c].op = "rescore", ![c].arg = arg]
                   \/ End(c)
      BY DEF Rescore
  <2>2. QED
      BY <2>1, EndKeeps, StepKeeps
<1>3. Executions(exec')
    BY <1>1 DEF AcceptInvariant, Shaped, Executions
<1>4. QED
    BY <1>1, <1>2, <1>3, NothingAccepted

\* The rule is there before the handler goes on to save the acceptance.
LEMMA CreateRuleKeeps ==
    ASSUME AcceptInvariant, NEW c \in Clicks, CreateRule(c)
    PROVE  AcceptInvariant'
<1> DEFINE h == [click[c] EXCEPT !.op = "accept"]
<1>1. /\ UNCHANGED <<rec, exec>>
      /\ click' = [click EXCEPT ![c] = h]
      /\ rules' = [r \in Recs |-> IF r = click[c].rec THEN rules[r] \union {click[c].arg}
                                  ELSE rules[r]]
    BY DEF CreateRule
<1>2. HandlerShape(h) /\ h.rec = click[c].rec
    BY DEF AcceptInvariant, Shaped, Handlers, HandlerShape
<1> HIDE DEF h
<1>3. Handlers(click') /\ click'[c] = h /\ \A d \in Clicks \ {c} : click'[d] = click[d]
    BY <1>1, <1>2, HandlerWritten DEF AcceptInvariant, Shaped
<1>4. /\ DOMAIN rules' = Recs
      /\ \A r \in Recs : rules[r] \subseteq rules'[r]
      /\ click[c].rec \in Recs => rules'[click[c].rec] # {}
    BY <1>1
<1>5. Docs(rec') /\ Executions(exec')
    BY <1>1 DEF AcceptInvariant, Shaped, Executions, Docs
<1>6. RuleComesFirst'
  <2> SUFFICES ASSUME NEW d \in Clicks, click'[d].op = "accept", click'[d].rec \in Recs
               PROVE  rules'[click'[d].rec] # {}
      BY DEF RuleComesFirst
  <2>1. CASE d = c
      BY <1>2, <1>3, <1>4, <2>1
  <2>2. CASE d # c
      BY <1>3, <1>4, <2>2 DEF AcceptInvariant, RuleComesFirst
  <2>3. QED
      BY <2>1, <2>2
<1>7. AcceptedHasRule'
    BY <1>1, <1>4 DEF AcceptInvariant, AcceptedHasRule
<1>8. QED
    BY <1>3, <1>4, <1>5, <1>6, <1>7 DEF AcceptInvariant, Shaped

\* The acceptance itself: the recommendation it is written to is the one the rule
\* was made for.
LEMMA SaveAcceptedKeeps ==
    ASSUME AcceptInvariant, NEW c \in Clicks, SaveAccepted(c)
    PROVE  AcceptInvariant'
<1> DEFINE d == click[c]
           changed == [d.read EXCEPT !.status = "accepted",
                            !.eval = IF d.arg = "overridden" THEN d.arg ELSE d.read.eval]
<1>1. /\ d.op = "accept" /\ UNCHANGED <<rules, exec>> /\ End(c)
      /\ IF Exists(d.rec) THEN SaveRec(d.rec, d.read, changed) ELSE UNCHANGED rec
    BY DEF SaveAccepted
<1> HIDE DEF changed
<1>2. Handlers(click') /\ \A e \in Clicks : click'[e] = click[e] \/ click'[e].op # "accept"
    BY <1>1, EndKeeps
<1>3. Executions(exec') /\ Docs(rec)
    BY <1>1 DEF AcceptInvariant, Shaped, Executions
<1>4. Docs(rec') /\ \A q \in Recs : q # d.rec => rec'[q] = rec[q]
  <2>1. CASE UNCHANGED rec
      BY <1>3, <2>1 DEF Docs
  <2>2. CASE rec' = [rec EXCEPT ![d.rec] = Saved(rec[d.rec], d.read, changed)]
    <3>1. DOMAIN rec' = Recs /\ \A q \in Recs : q # d.rec => rec'[q] = rec[q]
        BY <1>3, <2>2 DEF Docs
    <3>2. ASSUME d.rec \in Recs PROVE "status" \in DOMAIN rec'[d.rec]
      <4>1. rec'[d.rec] = Saved(rec[d.rec], d.read, changed)
          BY <1>3, <2>2, <3>2 DEF Docs
      <4>2. QED
          BY <1>3, <3>2, <4>1 DEF Docs, Saved
    <3>3. QED
        BY <1>3, <3>1, <3>2 DEF Docs
  <2>3. QED
      BY <1>1, <2>1, <2>2 DEF SaveRec
<1>5. AcceptedHasRule'
  <2>1. \A q \in Recs : q = d.rec => rules[q] # {}
      BY <1>1 DEF AcceptInvariant, RuleComesFirst
  <2>2. QED
      BY <1>1, <1>4, <2>1 DEF AcceptInvariant, AcceptedHasRule
<1>6. RuleComesFirst'
    BY <1>1, <1>2 DEF AcceptInvariant, RuleComesFirst
<1>7. QED
    BY <1>1, <1>2, <1>3, <1>4, <1>5, <1>6 DEF AcceptInvariant, Shaped

LEMMA UpsertKeeps ==
    ASSUME AcceptInvariant, NEW c \in Clicks, Upsert(c)
    PROVE  AcceptInvariant'
<1> DEFINE r == click[c].rec
           new == IF Exists(r) THEN [rec[r] EXCEPT !.status = "pending"] ELSE Fresh
<1>1. UNCHANGED <<rules, exec>> /\ End(c) /\ rec' = [rec EXCEPT ![r] = new]
    BY DEF Upsert
<1>2. Handlers(click') /\ \A d \in Clicks : click'[d] = click[d] \/ click'[d].op # "accept"
    BY <1>1, EndKeeps
<1>3. Executions(exec') /\ Docs(rec)
    BY <1>1 DEF AcceptInvariant, Shaped, Executions
<1>4. r \in Recs => "status" \in DOMAIN new /\ new.status = "pending"
    BY <1>3 DEF Docs, Fresh, Absent
<1> HIDE DEF new
<1>5. Docs(rec') /\ \A q \in Recs : rec'[q].status = "pending" \/ rec'[q].status = rec[q].status
    BY <1>1, <1>3, <1>4 DEF Docs
<1>6. QED
    BY <1>1, <1>2, <1>3, <1>5, StatusesStay

\* Requests of one step that write a recommendation directly.
LEMMA RequestsKeep ==
    ASSUME AcceptInvariant, NEW r \in Recs, UNCHANGED <<rules, exec, click>>,
           NEW eval, NEW u,
           \/ rec' = [rec EXCEPT ![r].eval = eval, ![r].run = u]
           \/ rec' = [rec EXCEPT ![r].eval = eval]
           \/ rec' = [rec EXCEPT ![r].status = "dismissed"]
    PROVE  AcceptInvariant'
<1>1. Handlers(click') /\ Executions(exec') /\ Docs(rec)
    BY DEF AcceptInvariant, Shaped, Executions, Handlers
<1>2. Docs(rec') /\ \A q \in Recs : rec'[q].status # "accepted" \/ rec'[q].status = rec[q].status
    BY <1>1 DEF Docs
<1>3. QED
    BY <1>1, <1>2, StatusesStay

LEMMA DirectWritesKeep ==
    ASSUME AcceptInvariant, NEW r \in Recs,
           Override(r) \/ Dismiss(r) \/ \E c \in Clicks, u \in Runs : SynthesizeRun(c, r, u)
    PROVE  AcceptInvariant'
<1>1. CASE Override(r) \/ Dismiss(r)
    BY <1>1, RequestsKeep DEF Override, Dismiss
<1>2. CASE \E c \in Clicks, u \in Runs : SynthesizeRun(c, r, u)
  <2>1. PICK c \in Clicks, u \in Runs : SynthesizeRun(c, r, u)
      BY <1>2
  <2>2. PICK out : rec' = [rec EXCEPT ![r].eval = out, ![r].run = u]
      BY <2>1 DEF SynthesizeRun
  <2>3. UNCHANGED <<rules, exec, click>>
      BY <2>1 DEF SynthesizeRun
  <2>4. QED
      BY <2>2, <2>3, RequestsKeep
<1>3. QED
    BY <1>1, <1>2

\* A recommendation that is dropped takes its rules' names with it, and the handlers
\* that were busy with it find nothing to save.
LEMMA DropStaleKeeps ==
    ASSUME AcceptInvariant, NEW r \in Recs, None \notin Recs, DropStale(r)
    PROVE  AcceptInvariant'
<1>1. /\ UNCHANGED exec /\ rec' = [rec EXCEPT ![r] = Absent] /\ rules' = [rules EXCEPT ![r] = {}]
      /\ click' = [c \in Clicks |-> IF click[c].rec = r /\ click[c].op # "upsert"
                                    THEN [click[c] EXCEPT !.rec = None] ELSE click[c]]
    BY DEF DropStale
<1>2. Executions(exec') /\ Docs(rec') /\ DOMAIN rules' = Recs /\ rec'[r].status = "none"
    BY <1>1 DEF AcceptInvariant, Shaped, Executions, Docs, Absent
<1>3. Handlers(click')
    BY <1>1 DEF AcceptInvariant, Shaped, Handlers, HandlerShape
<1>4. \A q \in Recs : q # r => rec'[q] = rec[q] /\ rules'[q] = rules[q]
    BY <1>1 DEF AcceptInvariant, Shaped, Docs
<1>5. AcceptedHasRule'
    BY <1>2, <1>4 DEF AcceptInvariant, AcceptedHasRule
<1>6. RuleComesFirst'
  <2> SUFFICES ASSUME NEW c \in Clicks, click'[c].op = "accept", click'[c].rec \in Recs
               PROVE  rules'[click'[c].rec] # {}
      BY DEF RuleComesFirst
  <2>1. CASE click[c].rec = r /\ click[c].op # "upsert"
    <3>1. click'[c] = [click[c] EXCEPT !.rec = None]
        BY <1>1, <2>1
    <3>2. click'[c].rec = None
        BY <3>1 DEF AcceptInvariant, Shaped, Handlers, HandlerShape
    <3>3. QED
        BY <3>2
  <2>2. CASE ~(click[c].rec = r /\ click[c].op # "upsert")
    <3>1. click'[c] = click[c]
        BY <1>1, <2>2
    <3>2. click[c].rec # r
        BY <2>2, <3>1
    <3>3. QED
        BY <1>4, <3>1, <3>2 DEF AcceptInvariant, RuleComesFirst
  <2>3. QED
      BY <2>1, <2>2
<1>7. QED
    BY <1>2, <1>3, <1>5, <1>6 DEF AcceptInvariant, Shaped

-----------------------------------------------------------------------------
(* The runs keep their form: a run is of a recommendation or of none. *)

RunsShaped ==
    /\ DOMAIN run = Runs
    /\ \A u \in Runs : DOMAIN run[u] = {"status", "rec"} /\ run[u].rec \in Recs \union {None}

LEMMA StatusWritten ==
    ASSUME RunsShaped, NEW u, NEW status,
           run' = run \/ run' = [run EXCEPT ![u].status = status]
    PROVE  RunsShaped'
BY DEF RunsShaped

LEMMA RunWritten ==
    ASSUME RunsShaped, NEW u \in Runs, NEW status, NEW r \in Recs \union {None},
           run' = [run EXCEPT ![u] = [status |-> status, rec |-> r]]
    PROVE  RunsShaped'
BY DEF RunsShaped

LEMMA ExecuteKeepsRuns ==
    ASSUME RunsShaped, NEW p \in Processes, NEW s \in Slots, Execute(p, s)
    PROVE  RunsShaped'
<1>1. PICK u, status : run' = run \/ run' = [run EXCEPT ![u].status = status]
  <2>1. CASE Claim(p, s)
      BY <2>1 DEF Claim
  <2>2. CASE CannotReplay(p, s) \/ Replay(p, s) \/ Evaluate(p, s) \/ TellRec(p, s)
      BY <2>2 DEF CannotReplay, Replay, Evaluate, TellRec
  <2>3. CASE SaveRun(p, s)
      BY <2>3 DEF SaveRun
  <2>4. QED
      BY <2>1, <2>2, <2>3 DEF Execute
<1>2. QED
    BY <1>1, StatusWritten

LEMMA ConsoleKeepsRuns ==
    ASSUME RunsShaped, Console
    PROVE  RunsShaped'
<1>1. ASSUME NEW c \in Clicks, NEW r \in Recs,
             BuildDataset(c, r) \/ Accept(c, r) \/ Recompute(c, r) \/ Override(r) \/ Dismiss(r)
      PROVE  RunsShaped'
  <2>1. run' = run
      BY <1>1 DEF BuildDataset, Accept, Recompute, Override, Dismiss
  <2>2. QED
      BY <2>1, StatusWritten
<1>2. ASSUME NEW c \in Clicks, NEW u \in Runs, DeleteRun(c, u) \/ Correct(c, u) \/ Cancel(u)
      PROVE  RunsShaped'
  <2>1. PICK status : run' = run \/ run' = [run EXCEPT ![u].status = status]
      BY <1>2 DEF DeleteRun, Correct, Cancel
  <2>2. QED
      BY <2>1, StatusWritten
<1>3. ASSUME NEW c \in Clicks, NEW r \in Recs \union {None}, NEW u \in Runs,
             StartRun(c, r, u) \/ SynthesizeRun(c, r, u)
      PROVE  RunsShaped'
  <2>1. PICK status : run' = [run EXCEPT ![u] = [status |-> status, rec |-> r]]
      BY <1>3 DEF StartRun, SynthesizeRun
  <2>2. QED
      BY <2>1, RunWritten
<1>4. ASSUME NEW c \in Clicks,
             \/ DatasetReady(c) \/ DatasetFails(c) \/ RefuseCost(c) \/ LinkRun(c)
             \/ DropData(c) \/ Unlink(c) \/ Rescore(c) \/ SaveScore(c)
             \/ CreateRule(c) \/ SaveAccepted(c) \/ Upsert(c)
      PROVE  RunsShaped'
  <2>1. PICK u, status : run' = run \/ run' = [run EXCEPT ![u].status = status]
      BY <1>4 DEF DatasetReady, DatasetFails, RefuseCost, LinkRun, DropData, Unlink, Rescore,
         SaveScore, CreateRule, SaveAccepted, Upsert
  <2>2. QED
      BY <2>1, StatusWritten
<1>5. ASSUME NEW r \in Recs, DropStale(r)
      PROVE  RunsShaped'
    BY <1>5 DEF RunsShaped, DropStale
<1>6. QED
  <2>1. CASE Clicks = {}
      BY <1>1, <1>2, <1>3, <1>4, <1>5, <2>1 DEF Console, Override, Dismiss, Cancel, RunsShaped
  <2>2. CASE Clicks # {}
      BY <1>1, <1>2, <1>3, <1>4, <1>5, <2>2 DEF Console
  <2>3. QED
      BY <2>1, <2>2

-----------------------------------------------------------------------------
(* The worker and its executions. *)

LEMMA WorkerKeeps ==
    ASSUME AcceptInvariant, NEW p \in Processes, Worker(p)
    PROVE  AcceptInvariant'
<1>1. UNCHANGED <<rec, rules, click>>
    BY DEF Worker, TickStart, TickSkips, TickEnds, TickFinds, EvalVars
<1>2. Executions(exec')
  <2>1. CASE UNCHANGED exec
      BY <2>1 DEF AcceptInvariant, Shaped, Executions
  <2>2. CASE TickFinds(p)
    <3> DEFINE s == CHOOSE i \in Slots : exec[p][i].pc = "free"
    <3>1. PICK u \in Runs : exec' = [exec EXCEPT ![p][s] = [FreeSlot EXCEPT !.pc = "claim", !.run = u]]
        BY <2>2 DEF TickFinds
    <3> DEFINE e == [FreeSlot EXCEPT !.pc = "claim", !.run = u]
    <3>2. ExecutionShape(e) /\ exec' = [exec EXCEPT ![p][s] = e]
        BY <3>1 DEF ExecutionShape, FreeSlot, Absent
    <3> HIDE DEF s, e
    <3>3. QED
        BY <3>2 DEF AcceptInvariant, Shaped, Executions
  <2>3. QED
      BY <2>1, <2>2 DEF Worker, TickStart, TickSkips, TickEnds, EvalVars
<1>3. Handlers(click')
    BY <1>1 DEF AcceptInvariant, Shaped, Handlers
<1>4. QED
    BY <1>1, <1>2, <1>3, NothingAccepted

\* Steps of an execution up to the save of its run.
LEMMA ReplayKeeps ==
    ASSUME AcceptInvariant, RunsShaped, NEW p \in Processes, NEW s \in Slots,
           \/ Claim(p, s) \/ CannotReplay(p, s) \/ Replay(p, s) \/ Evaluate(p, s) \/ SaveRun(p, s)
    PROVE  AcceptInvariant'
<1> DEFINE e == exec[p][s]
<1>1. UNCHANGED <<rec, rules, click>>
    BY DEF Claim, CannotReplay, Replay, Evaluate, SaveRun
<1>2. ExecutionShape(e) /\ Docs(rec) /\ Executions(exec)
    BY DEF AcceptInvariant, Shaped, Executions
<1>3. ExecutionShape(FreeSlot)
    BY DEF ExecutionShape, FreeSlot, Absent
<1>4. PICK f : ExecutionShape(f) /\ exec' = [exec EXCEPT ![p][s] = f]
  <2>1. CASE Claim(p, s)
    <3>1. ExecutionShape([e EXCEPT !.pc = "replay"])
        BY <1>2, <2>1 DEF ExecutionShape, Claim
    <3>2. \/ exec' = [exec EXCEPT ![p][s] = [e EXCEPT !.pc = "replay"]]
          \/ exec' = [exec EXCEPT ![p][s] = FreeSlot]
        BY <2>1 DEF Claim, Goto, Leave
    <3>3. QED
        BY <1>3, <3>1, <3>2
  <2>2. CASE CannotReplay(p, s)
    <3> DEFINE f == [e EXCEPT !.pc = "save", !.out = "failed"]
    <3>1. ExecutionShape(f) /\ exec' = [exec EXCEPT ![p][s] = f]
        BY <1>2, <2>2 DEF ExecutionShape, CannotReplay
    <3>2. QED
        BY <3>1
  <2>3. CASE Replay(p, s)
    <3>1. ExecutionShape([e EXCEPT !.pc = "save", !.out = "cancelled"])
        BY <1>2, <2>3 DEF ExecutionShape, Replay
    <3>2. \A v : ExecutionShape([e EXCEPT !.seen = Append(e.seen, v)])
        BY <1>2 DEF ExecutionShape
    <3>3. \/ exec' = [exec EXCEPT ![p][s].pc = "save", ![p][s].out = "cancelled"]
          \/ \E v : exec' = [exec EXCEPT ![p][s].seen = Append(e.seen, v)]
        BY <2>3, Zenon DEF Replay
    <3>4. CASE exec' = [exec EXCEPT ![p][s].pc = "save", ![p][s].out = "cancelled"]
        BY <3>1, <3>4
    <3>5. ASSUME NEW v, exec' = [exec EXCEPT ![p][s].seen = Append(e.seen, v)]
          PROVE  \E f : ExecutionShape(f) /\ exec' = [exec EXCEPT ![p][s] = f]
      <4> DEFINE f == [e EXCEPT !.seen = Append(e.seen, v)]
      <4>1. ExecutionShape(f) /\ exec' = [exec EXCEPT ![p][s] = f]
          BY <3>2, <3>5
      <4>2. QED
          BY <4>1
    <3>6. QED
        BY <3>3, <3>4, <3>5
  <2>4. CASE Evaluate(p, s)
    <3> DEFINE f == [e EXCEPT !.pc = "save", !.seen = <<>>,
                          !.out = IF Passes(e.seen) THEN "passed" ELSE "failed"]
    <3>1. ExecutionShape(f) /\ exec' = [exec EXCEPT ![p][s] = f]
        BY <1>2, <2>4 DEF ExecutionShape, Evaluate
    <3>2. QED
        BY <3>1
  <2>5. CASE SaveRun(p, s)
    <3> DEFINE f == [e EXCEPT !.pc = "rec", !.read = rec[run[e.run].rec]]
    <3>1. \/ exec' = [exec EXCEPT ![p][s] = FreeSlot]
          \/ exec' = [exec EXCEPT ![p][s] = f] /\ Exists(run[e.run].rec)
      <4>1. CASE Leave(p, s)
          BY <4>1 DEF Leave
      <4>2. CASE /\ Exists(run[e.run].rec)
                 /\ exec' = [exec EXCEPT ![p][s].pc = "rec", ![p][s].read = rec[run[e.run].rec]]
          BY <4>2
      <4>3. QED
          BY <2>5, <4>1, <4>2, Zenon DEF SaveRun
    <3>2. ASSUME Exists(run[e.run].rec) PROVE ExecutionShape(f)
      <4>1. e.run \in Runs
          BY <1>2, <2>5 DEF ExecutionShape, SaveRun
      <4>2. run[e.run].rec \in Recs
          BY <3>2, <4>1 DEF RunsShaped, Exists
      <4>3. "status" \in DOMAIN rec[run[e.run].rec]
          BY <1>2, <4>2 DEF Docs
      <4>4. QED
          BY <1>2, <4>1, <4>3 DEF ExecutionShape
    <3>3. QED
        BY <1>3, <3>1, <3>2
  <2>6. QED
      BY <2>1, <2>2, <2>3, <2>4, <2>5
<1>5. Executions(exec')
    BY <1>2, <1>4, ExecutionWritten
<1>6. Handlers(click')
    BY <1>1 DEF AcceptInvariant, Shaped, Handlers
<1>7. QED
    BY <1>1, <1>5, <1>6, NothingAccepted

\* The verdict is written next to a status that was read earlier, and leaves it alone.
LEMMA TellRecKeeps ==
    ASSUME AcceptInvariant, NEW p \in Processes, NEW s \in Slots, TellRec(p, s)
    PROVE  AcceptInvariant'
<1> DEFINE e == exec[p][s]
           r == run[e.run].rec
           told == [e.read EXCEPT !.run = e.run,
                        !.eval = IF e.out = "cancelled" THEN "dataset_ready" ELSE e.out]
<1>1. /\ UNCHANGED <<rules, click>> /\ exec' = [exec EXCEPT ![p][s] = FreeSlot]
      /\ SaveRec(r, e.read, told) \/ UNCHANGED rec
    BY DEF TellRec, Leave
<1>2. ExecutionShape(e) /\ Docs(rec) /\ Executions(exec) /\ Handlers(click')
    BY <1>1 DEF AcceptInvariant, Shaped, Executions, Handlers
<1>3. told.status = e.read.status
    BY <1>2 DEF ExecutionShape
<1>4. Executions(exec')
  <2>1. ExecutionShape(FreeSlot)
      BY DEF ExecutionShape, FreeSlot, Absent
  <2>2. QED
      BY <1>1, <1>2, <2>1, ExecutionWritten
<1> HIDE DEF told
<1>5. Docs(rec') /\ \A q \in Recs : rec'[q].status = rec[q].status
  <2>1. CASE UNCHANGED rec
      BY <1>2, <2>1 DEF Docs
  <2>2. CASE SaveRec(r, e.read, told)
      BY <1>2, <1>3, <2>2, DocumentSaved
  <2>3. QED
      BY <1>1, <2>1, <2>2
<1>6. QED
    BY <1>1, <1>2, <1>4, <1>5, StatusesStay

LEMMA CrashKeeps ==
    ASSUME AcceptInvariant, NEW p \in Processes, EvalCrash(p)
    PROVE  AcceptInvariant'
<1>1. /\ UNCHANGED <<rec, rules>>
      /\ exec' = [exec EXCEPT ![p] = [s \in Slots |-> FreeSlot]]
      /\ \E lost \in SUBSET Clicks :
            click' = [c \in Clicks |-> IF c \in lost THEN IdleClick ELSE click[c]]
    BY DEF EvalCrash
<1>2. HandlerShape(IdleClick) /\ IdleClick.op # "accept" /\ ExecutionShape(FreeSlot)
    BY DEF HandlerShape, ExecutionShape, FreeSlot, IdleClick, Absent
<1>3. Handlers(click') /\ \A c \in Clicks : click'[c] = click[c] \/ click'[c].op # "accept"
    BY <1>1, <1>2 DEF AcceptInvariant, Shaped, Handlers
<1>4. Executions(exec')
    BY <1>1, <1>2 DEF AcceptInvariant, Shaped, Executions
<1>5. QED
    BY <1>1, <1>3, <1>4, NothingAccepted

-----------------------------------------------------------------------------

LEMMA AcceptStep == AcceptInvariant /\ RunsShaped /\ [EvalNext]_EvalVars
                       => AcceptInvariant' /\ RunsShaped'
<1> SUFFICES ASSUME AcceptInvariant, RunsShaped, [EvalNext]_EvalVars
             PROVE  AcceptInvariant' /\ RunsShaped'
    OBVIOUS
<1>1. ASSUME NEW p \in Processes, Worker(p) PROVE AcceptInvariant' /\ RunsShaped'
  <2>1. run' = run
      BY <1>1 DEF Worker, TickStart, TickSkips, TickEnds, TickFinds, EvalVars
  <2>2. QED
      BY <1>1, <2>1, WorkerKeeps, StatusWritten
<1>2. ASSUME NEW p \in Processes, EvalCrash(p) PROVE AcceptInvariant' /\ RunsShaped'
  <2>1. run' = run
      BY <1>2 DEF EvalCrash
  <2>2. QED
      BY <1>2, <2>1, CrashKeeps, StatusWritten
<1>3. ASSUME NEW p \in Processes, NEW s \in Slots, Execute(p, s)
      PROVE  AcceptInvariant' /\ RunsShaped'
    BY <1>3, ReplayKeeps, TellRecKeeps, ExecuteKeepsRuns DEF Execute
<1>4. CASE Console
  <2>1. ASSUME NEW r \in Recs, Override(r) \/ Dismiss(r)
        PROVE  AcceptInvariant'
    BY <2>1, DirectWritesKeep
  <2>2. ASSUME NEW u \in Runs, Cancel(u) PROVE AcceptInvariant'
    <3>1. UNCHANGED <<rec, rules, click, exec>>
        BY <2>2 DEF Cancel
    <3>2. QED
        BY <3>1 DEF AcceptInvariant, Shaped, RuleComesFirst, AcceptedHasRule, Docs, Handlers,
           Executions
  <2>3. RunsShaped'
      BY <1>4, ConsoleKeepsRuns
  <2>4. QED
      BY <1>4, <2>1, <2>2, <2>3, BuildKeeps, RunHandlersKeep, EndingsKeep, DropDataKeeps,
         UnlinkKeeps, RescoreKeeps, CreateRuleKeeps, SaveAcceptedKeeps, UpsertKeeps,
         DirectWritesKeep, DropStaleKeeps, EvalAssumption
      DEF Console
<1>5. CASE UNCHANGED EvalVars
    BY <1>5 DEF EvalVars, AcceptInvariant, Shaped, RuleComesFirst, AcceptedHasRule, Docs, Handlers,
       Executions, RunsShaped
<1>6. QED
    BY <1>1, <1>2, <1>3, <1>4, <1>5 DEF EvalNext

LEMMA RunsInitial == EvalInit => RunsShaped
<1> SUFFICES ASSUME EvalInit PROVE RunsShaped
    OBVIOUS
<1>1. CASE run = [u \in Runs |-> NoRun]
    BY <1>1 DEF RunsShaped, NoRun
<1>2. ASSUME NEW r \in Recs,
             run = [[u \in Runs |-> NoRun] EXCEPT ![1] = [status |-> "queued", rec |-> r]]
      PROVE  RunsShaped
    BY <1>2 DEF RunsShaped, NoRun
<1>3. QED
    BY <1>1, <1>2 DEF EvalInit

\* A recommendation is accepted only when its rule exists, whatever fails, dies or runs
\* next to the handler, for any number of runs, workers and console requests
\* (recommendations.js:112-124).
THEOREM AcceptedAlwaysHasRule == EvalSpec => []AcceptedHasRule
<1>1. EvalInit => AcceptInvariant /\ RunsShaped
    BY AcceptInitial, RunsInitial
<1>2. AcceptInvariant /\ RunsShaped /\ [EvalNext]_EvalVars => (AcceptInvariant /\ RunsShaped)'
    BY AcceptStep
<1>3. AcceptInvariant => AcceptedHasRule
    BY DEF AcceptInvariant
<1>4. QED
    BY <1>1, <1>2, <1>3, PTL DEF EvalSpec

-----------------------------------------------------------------------------
(* No run is executed twice. *)

Ends == {"passed", "failed", "cancelled"}
Busy == {"replay", "save", "rec"}
Begun(u) == run[u].status \notin {"none", "queued"}

\* A run that is executed has left the queue, and nothing puts it back: what an
\* execution or a rescoring will write is an end.
RescoresEnd(f) == \A c \in Clicks : f[c].op = "rescore" => f[c].arg \in Ends
SavesEnd(f) == \A p \in Processes, s \in Slots : f[p][s].pc = "save" => f[p][s].out \in Ends
ClaimedFirst ==
    \A p \in Processes, s \in Slots : exec[p][s].pc \in Busy => Begun(exec[p][s].run)

OnceInvariant == RescoresEnd(click) /\ SavesEnd(exec) /\ ClaimedFirst /\ ExecutedOnce

\* Only a rescoring is about an outcome, and that is an end.
LEMMA BeginRescoresNothing ==
    ASSUME AcceptInvariant, OnceInvariant, NEW c \in Clicks, NEW op, op # "rescore", NEW STATE r,
           NEW STATE u, NEW STATE arg, Begin(c, op, r, u, arg)
    PROVE  RescoresEnd(click')
BY DEF Begin, OnceInvariant, RescoresEnd, AcceptInvariant, Shaped, Handlers

LEMMA EndRescoresNothing ==
    ASSUME AcceptInvariant, OnceInvariant, NEW c \in Clicks, End(c)
    PROVE  RescoresEnd(click')
BY DEF End, IdleClick, OnceInvariant, RescoresEnd, AcceptInvariant, Shaped, Handlers

LEMMA StepRescores ==
    ASSUME AcceptInvariant, OnceInvariant, NEW c \in Clicks, NEW op, NEW arg,
           op = "rescore" => arg \in Ends, click' = [click EXCEPT ![c].op = op, ![c].arg = arg]
    PROVE  RescoresEnd(click')
BY DEF OnceInvariant, RescoresEnd, AcceptInvariant, Shaped, Handlers, HandlerShape

LEMMA ConsoleKeepsHandlers ==
    ASSUME AcceptInvariant, OnceInvariant, Console
    PROVE  RescoresEnd(click') /\ exec' = exec
<1>1. ASSUME click' = click PROVE RescoresEnd(click')
    BY <1>1 DEF OnceInvariant
<1>2. ASSUME NEW c \in Clicks, NEW r \in Recs,
             BuildDataset(c, r) \/ Accept(c, r) \/ Recompute(c, r)
      PROVE  RescoresEnd(click') /\ exec' = exec
  <2>1. exec' = exec
      BY <1>2 DEF BuildDataset, Accept, Recompute
  <2>2. CASE BuildDataset(c, r)
      BY <2>1, <2>2, BeginRescoresNothing DEF BuildDataset
  <2>3. CASE Accept(c, r)
    <3>1. PICK override \in BOOLEAN : Begin(c, "rule", r, None, Gate(r, override))
        BY <2>3 DEF Accept
    <3>2. QED
        BY <2>1, <3>1, BeginRescoresNothing
  <2>4. CASE Recompute(c, r)
      BY <2>1, <2>4, BeginRescoresNothing DEF Recompute
  <2>5. QED
      BY <1>2, <2>2, <2>3, <2>4
<1>3. ASSUME NEW c \in Clicks, NEW u \in Runs, DeleteRun(c, u) \/ Correct(c, u)
      PROVE  RescoresEnd(click') /\ exec' = exec
    BY <1>3, BeginRescoresNothing DEF DeleteRun, Correct
<1>4. ASSUME NEW c \in Clicks, NEW r \in Recs \union {None}, NEW u \in Runs, StartRun(c, r, u)
      PROVE  RescoresEnd(click') /\ exec' = exec
  <2>1. PICK op \in {"link", "cap"} : Begin(c, op, r, u, None)
      BY <1>4 DEF StartRun
  <2>2. QED
      BY <1>4, <2>1, BeginRescoresNothing DEF StartRun
<1>5. ASSUME NEW c \in Clicks,
             \/ DatasetReady(c) \/ DatasetFails(c) \/ RefuseCost(c) \/ LinkRun(c) \/ Unlink(c)
             \/ SaveScore(c) \/ SaveAccepted(c) \/ Upsert(c)
      PROVE  RescoresEnd(click') /\ exec' = exec
  <2>1. End(c) /\ exec' = exec
      BY <1>5 DEF DatasetReady, DatasetFails, RefuseCost, LinkRun, Unlink, SaveScore,
         SaveAccepted, Upsert
  <2>2. QED
      BY <2>1, EndRescoresNothing
<1>6. ASSUME NEW c \in Clicks, DropData(c) \/ Rescore(c) \/ CreateRule(c)
      PROVE  RescoresEnd(click') /\ exec' = exec
  <2>1. exec' = exec
      BY <1>6 DEF DropData, Rescore, CreateRule
  <2>2. CASE DropData(c)
    <3>1. PICK op, arg : op # "rescore" /\ click' = [click EXCEPT ![c].op = op, ![c].arg = arg]
        BY <2>2 DEF DropData
    <3>2. QED
        BY <2>1, <3>1, StepRescores
  <2>3. CASE Rescore(c)
    <3>1. \/ End(c)
          \/ \E arg \in Ends : click' = [click EXCEPT ![c].op = "rescore", ![c].arg = arg]
        BY <2>3 DEF Rescore, Ends
    <3>2. QED
        BY <2>1, <3>1, StepRescores, EndRescoresNothing
  <2>4. CASE CreateRule(c)
    <3>1. click' = [click EXCEPT ![c].op = "accept"]
        BY <2>4 DEF CreateRule
    <3>2. QED
        BY <2>1, <3>1 DEF OnceInvariant, RescoresEnd, AcceptInvariant, Shaped, Handlers, HandlerShape
  <2>5. QED
      BY <1>6, <2>2, <2>3, <2>4
<1>7. ASSUME NEW r \in Recs, DropStale(r)
      PROVE  RescoresEnd(click') /\ exec' = exec
    BY <1>7 DEF DropStale, OnceInvariant, RescoresEnd, AcceptInvariant, Shaped, Handlers,
       HandlerShape
<1>8. ASSUME NEW c \in Clicks, NEW r \in Recs, NEW u \in Runs, SynthesizeRun(c, r, u)
      PROVE  RescoresEnd(click') /\ exec' = exec
    BY <1>1, <1>8 DEF SynthesizeRun
<1>9. ASSUME NEW u \in Runs, Cancel(u) PROVE RescoresEnd(click') /\ exec' = exec
    BY <1>1, <1>9 DEF Cancel
<1>10. ASSUME NEW r \in Recs, Override(r) \/ Dismiss(r)
       PROVE  RescoresEnd(click') /\ exec' = exec
    BY <1>1, <1>10 DEF Override, Dismiss
<1>11. QED
    BY <1>2, <1>3, <1>4, <1>5, <1>6, <1>7, <1>8, <1>9, <1>10 DEF Console

\* No write of a status puts a run back into the queue, if it is the status of an end.
Requeues == \E v \in Runs : Begun(v) /\ ~Begun(v)'

LEMMA StatusKeepsBegun ==
    ASSUME RunsShaped, NEW u, NEW status, status \notin {"none", "queued"},
           run' = run \/ run' = [run EXCEPT ![u].status = status]
    PROVE  ~Requeues
BY DEF RunsShaped, Begun, Requeues

LEMMA ConsoleNeverRequeues ==
    ASSUME RunsShaped, OnceInvariant, Console
    PROVE  ~Requeues
<1>1. ASSUME run' = run PROVE ~Requeues
    BY <1>1 DEF Requeues, Begun
<1>2. ASSUME NEW c \in Clicks, NEW u \in Runs, DeleteRun(c, u) \/ Correct(c, u)
      PROVE  ~Requeues
  <2>1. run' = run \/ run' = [run EXCEPT ![u].status = "gone"]
      BY <1>2 DEF DeleteRun, Correct
  <2>2. QED
      BY <2>1, StatusKeepsBegun
<1>3. ASSUME NEW c \in Clicks, NEW r \in Recs \union {None}, NEW u \in Runs,
             StartRun(c, r, u) \/ SynthesizeRun(c, r, u)
      PROVE  ~Requeues
  <2>1. ~Begun(u)
      BY <1>3 DEF StartRun, SynthesizeRun, New, Begun
  <2>2. PICK new : run' = [run EXCEPT ![u] = new]
      BY <1>3 DEF StartRun, SynthesizeRun
  <2>3. QED
      BY <2>1, <2>2 DEF RunsShaped, Begun, Requeues
<1>4. ASSUME NEW c \in Clicks, SaveScore(c) \/ RefuseCost(c) PROVE ~Requeues
  <2>1. PICK status \in Ends :
            run' = run \/ run' = [run EXCEPT ![click[c].run].status = status]
      BY <1>4 DEF SaveScore, RefuseCost, OnceInvariant, RescoresEnd, Ends
  <2>2. QED
      BY <2>1, StatusKeepsBegun DEF Ends
<1>5. ASSUME NEW r \in Recs, DropStale(r) PROVE ~Requeues
    BY <1>5 DEF DropStale, RunsShaped, Begun, Requeues
<1>6. ASSUME NEW c \in Clicks, NEW r \in Recs,
             BuildDataset(c, r) \/ Accept(c, r) \/ Recompute(c, r)
      PROVE  ~Requeues
  <2>1. run' = run
      BY <1>6 DEF BuildDataset, Accept, Recompute
  <2>2. QED
      BY <1>1, <2>1
<1>7. ASSUME NEW r \in Recs, Override(r) \/ Dismiss(r) PROVE ~Requeues
  <2>1. run' = run
      BY <1>7 DEF Override, Dismiss
  <2>2. QED
      BY <1>1, <2>1
<1>8. ASSUME NEW c \in Clicks,
             \/ DatasetReady(c) \/ DatasetFails(c) \/ LinkRun(c) \/ DropData(c) \/ Unlink(c)
             \/ Rescore(c) \/ CreateRule(c) \/ SaveAccepted(c) \/ Upsert(c)
      PROVE  ~Requeues
  <2>1. run' = run
      BY <1>8 DEF DatasetReady, DatasetFails, LinkRun, DropData, Unlink, Rescore, CreateRule,
         SaveAccepted, Upsert
  <2>2. QED
      BY <1>1, <2>1
<1>9. ASSUME NEW u \in Runs, Cancel(u) PROVE ~Requeues
  <2>1. PICK status \in Ends : run' = [run EXCEPT ![u].status = status]
      BY <1>9 DEF Cancel, Ends
  <2>2. QED
      BY <2>1, StatusKeepsBegun DEF Ends
<1>10. QED
    BY <1>2, <1>3, <1>4, <1>5, <1>6, <1>7, <1>8, <1>9 DEF Console

\* A step of one execution that has left the queue, or does not touch its run.
LEMMA OneExecution ==
    ASSUME AcceptInvariant, OnceInvariant, NEW p \in Processes, NEW s \in Slots, NEW f,
           click' = click, exec' = [exec EXCEPT ![p][s] = f], ~Requeues,
           f.pc = "save" => f.out \in Ends,
           f.pc \in Busy => /\ f.run = exec[p][s].run
                            /\ Begun(f.run)'
                            /\ exec[p][s].pc \in Busy \/ ~Begun(f.run)
    PROVE  OnceInvariant'
<1>1. /\ exec'[p][s] = f
      /\ \A q \in Processes, t \in Slots : ~(q = p /\ t = s) => exec'[q][t] = exec[q][t]
    BY DEF AcceptInvariant, Shaped, Executions
<1>2. RescoresEnd(click')
    BY DEF OnceInvariant
<1>3. SavesEnd(exec')
    BY <1>1 DEF OnceInvariant, SavesEnd
<1>4. ASSUME NEW q \in Processes, NEW t \in Slots, exec'[q][t].pc \in Busy
      PROVE  run'[exec'[q][t].run].status \notin {"none", "queued"}
  <2>1. CASE q = p /\ t = s
      BY <1>1, <1>4, <2>1 DEF Begun
  <2>2. CASE ~(q = p /\ t = s)
    <3>1. exec'[q][t] = exec[q][t]
        BY <1>1, <2>2
    <3>2. exec[q][t].pc \in Busy
        BY <1>4, <3>1
    <3>3. exec[q][t].run \in Runs
        BY <3>2 DEF AcceptInvariant, Shaped, Executions, ExecutionShape, Busy
    <3>4. Begun(exec[q][t].run)
        BY <3>2 DEF OnceInvariant, ClaimedFirst
    <3>5. QED
        BY <3>1, <3>3, <3>4 DEF Requeues, Begun
  <2>3. QED
      BY <2>1, <2>2
<1>5. ExecutedOnce'
  <2> SUFFICES ASSUME NEW u \in Runs, NEW q \in Processes, NEW r \in Processes, NEW t \in Slots,
                      NEW v \in Slots, Executing(q, t, u)', Executing(r, v, u)'
               PROVE  q = r /\ t = v
      BY DEF ExecutedOnce
  <2>1. ASSUME NEW a \in Processes, NEW b \in Slots, ~(a = p /\ b = s), Executing(a, b, u)'
        PROVE  Executing(a, b, u) /\ Begun(u)
    <3>1. exec'[a][b] = exec[a][b]
        BY <1>1, <2>1
    <3>2. Executing(a, b, u)
        BY <2>1, <3>1 DEF Executing
    <3>3. QED
        BY <3>2 DEF Executing, OnceInvariant, ClaimedFirst, Busy
  <2>2. ASSUME NEW a \in Processes, NEW b \in Slots, ~(a = p /\ b = s), Executing(a, b, u)',
               Executing(p, s, u)'
        PROVE  FALSE
    <3>1. Executing(a, b, u) /\ Begun(u)
        BY <2>1, <2>2
    <3>2. f.pc \in Busy /\ f.run = u
        BY <1>1, <2>2 DEF Executing, Busy
    <3>3. Executing(p, s, u)
        BY <3>1, <3>2 DEF Executing, Busy
    <3>4. QED
        BY <2>2, <3>1, <3>3 DEF OnceInvariant, ExecutedOnce
  <2>3. CASE ~(q = p /\ t = s) /\ ~(r = p /\ v = s)
    <3>1. Executing(q, t, u) /\ Executing(r, v, u)
        BY <2>1, <2>3
    <3>2. QED
        BY <3>1 DEF OnceInvariant, ExecutedOnce
  <2>4. QED
      BY <2>2, <2>3
<1>6. QED
    BY <1>2, <1>3, <1>4, <1>5 DEF OnceInvariant, ClaimedFirst, Begun

LEMMA GoesOn ==
    ASSUME AcceptInvariant, OnceInvariant, NEW p \in Processes, NEW s \in Slots, NEW f,
           click' = click, exec' = [exec EXCEPT ![p][s] = f], ~Requeues,
           exec[p][s].pc \in Busy, f.run = exec[p][s].run, f.pc = "save" => f.out \in Ends
    PROVE  OnceInvariant'
<1>1. exec[p][s].run \in Runs /\ Begun(exec[p][s].run)
    BY DEF AcceptInvariant, Shaped, Executions, ExecutionShape, OnceInvariant, ClaimedFirst, Busy
<1>2. Begun(f.run)'
    BY <1>1 DEF Requeues, Begun
<1>3. QED
    BY <1>2, OneExecution

LEMMA Leaves ==
    ASSUME AcceptInvariant, OnceInvariant, NEW p \in Processes, NEW s \in Slots,
           click' = click, exec' = [exec EXCEPT ![p][s] = FreeSlot], ~Requeues
    PROVE  OnceInvariant'
<1>1. FreeSlot.pc \notin Busy /\ FreeSlot.pc # "save"
    BY DEF FreeSlot, Busy
<1>2. QED
    BY <1>1, OneExecution

LEMMA RunUntouched ==
    ASSUME run' = run PROVE ~Requeues
BY DEF Requeues, Begun

LEMMA ExecuteOnce ==
    ASSUME AcceptInvariant, RunsShaped, OnceInvariant, NEW p \in Processes, NEW s \in Slots,
           Execute(p, s)
    PROVE  OnceInvariant'
<1> DEFINE e == exec[p][s]
<1>1. ExecutionShape(e) /\ click' = click
    BY DEF AcceptInvariant, Shaped, Executions, Execute, Claim, CannotReplay, Replay, Evaluate,
       SaveRun, TellRec
<1>2. CASE Claim(p, s) /\ run[e.run].status = "queued"
  <2>0. PICK f : f = [e EXCEPT !.pc = "replay"]
      OBVIOUS
  <2>1. exec' = [exec EXCEPT ![p][s] = f] /\ run' = [run EXCEPT ![e.run].status = "running"]
      BY <1>2, <2>0 DEF Claim, Goto
  <2>2. e.run \in Runs /\ ~Begun(e.run)
      BY <1>1, <1>2 DEF ExecutionShape, Claim, Begun
  <2>3. f.run = e.run /\ f.pc # "save"
      BY <1>1, <2>0 DEF ExecutionShape
  <2>4. run'[e.run].status = "running" /\ \A u \in Runs : u # e.run => run'[u] = run[u]
      BY <2>1, <2>2 DEF RunsShaped
  <2>5. ~Requeues /\ Begun(f.run)'
      BY <2>2, <2>3, <2>4 DEF Requeues, Begun
  <2>6. QED
      BY <1>1, <2>1, <2>2, <2>3, <2>5, OneExecution
<1>3. CASE Claim(p, s) /\ run[e.run].status # "queued"
  <2>1. exec' = [exec EXCEPT ![p][s] = FreeSlot] /\ run' = run
      BY <1>3 DEF Claim, Leave
  <2>2. QED
      BY <1>1, <2>1, Leaves, RunUntouched
<1>4. CASE CannotReplay(p, s) \/ Replay(p, s) \/ Evaluate(p, s)
  <2>1. run' = run /\ e.pc \in Busy
      BY <1>4 DEF CannotReplay, Replay, Evaluate, Busy
  <2>2. PICK f : /\ exec' = [exec EXCEPT ![p][s] = f]
                 /\ f.run = e.run
                 /\ f.pc = "save" => f.out \in Ends
    <3>1. CASE CannotReplay(p, s)
      <4> DEFINE f == [e EXCEPT !.pc = "save", !.out = "failed"]
      <4>1. exec' = [exec EXCEPT ![p][s] = f] /\ f.run = e.run /\ f.out \in Ends
          BY <1>1, <3>1 DEF CannotReplay, ExecutionShape, Ends
      <4>2. QED
          BY <4>1
    <3>2. CASE Replay(p, s) /\ exec' = [exec EXCEPT ![p][s].pc = "save", ![p][s].out = "cancelled"]
      <4> DEFINE f == [e EXCEPT !.pc = "save", !.out = "cancelled"]
      <4>1. exec' = [exec EXCEPT ![p][s] = f] /\ f.run = e.run /\ f.out \in Ends
          BY <1>1, <3>2 DEF ExecutionShape, Ends
      <4>2. QED
          BY <4>1
    <3>3. CASE Replay(p, s) /\ \E v : exec' = [exec EXCEPT ![p][s].seen = Append(e.seen, v)]
      <4>1. PICK v : exec' = [exec EXCEPT ![p][s].seen = Append(e.seen, v)]
          BY <3>3
      <4> DEFINE f == [e EXCEPT !.seen = Append(e.seen, v)]
      <4>2. e.pc = "replay"
          BY <3>3 DEF Replay
      <4>3. exec' = [exec EXCEPT ![p][s] = f] /\ f.run = e.run /\ f.pc # "save"
          BY <1>1, <4>1, <4>2 DEF ExecutionShape
      <4>4. QED
          BY <4>3
    <3>4. CASE Evaluate(p, s)
      <4> DEFINE f == [e EXCEPT !.pc = "save", !.seen = <<>>,
                            !.out = IF Passes(e.seen) THEN "passed" ELSE "failed"]
      <4>1. exec' = [exec EXCEPT ![p][s] = f] /\ f.run = e.run /\ f.out \in Ends
          BY <1>1, <3>4 DEF Evaluate, ExecutionShape, Ends
      <4>2. QED
          BY <4>1
    <3>5. Replay(p, s) => \/ exec' = [exec EXCEPT ![p][s].pc = "save", ![p][s].out = "cancelled"]
                          \/ \E v : exec' = [exec EXCEPT ![p][s].seen = Append(e.seen, v)]
        BY Zenon DEF Replay
    <3>6. QED
        BY <1>4, <3>1, <3>2, <3>3, <3>4, <3>5
  <2>3. QED
      BY <1>1, <2>1, <2>2, GoesOn, RunUntouched
<1>5. CASE SaveRun(p, s)
  <2>1. e.pc = "save" /\ e.out \in Ends
      BY <1>5 DEF SaveRun, OnceInvariant, SavesEnd
  <2>2. ~Requeues
    <3>1. run' = run \/ run' = [run EXCEPT ![e.run].status = e.out]
        BY <1>5 DEF SaveRun
    <3>2. e.out \notin {"none", "queued"}
        BY <2>1 DEF Ends
    <3>3. QED
        BY <3>1, <3>2, StatusKeepsBegun
  <2>3. CASE Leave(p, s)
      BY <1>1, <2>2, <2>3, Leaves DEF Leave
  <2>4. CASE exec' = [exec EXCEPT ![p][s].pc = "rec", ![p][s].read = rec[run[e.run].rec]]
    <3> DEFINE f == [e EXCEPT !.pc = "rec", !.read = rec[run[e.run].rec]]
    <3>1. exec' = [exec EXCEPT ![p][s] = f] /\ f.run = e.run /\ f.pc # "save"
        BY <1>1, <2>4 DEF ExecutionShape
    <3>2. e.pc \in Busy
        BY <2>1 DEF Busy
    <3> HIDE DEF f
    <3>3. QED
        BY <1>1, <2>2, <3>1, <3>2, GoesOn
  <2>5. QED
      BY <1>5, <2>3, <2>4, Zenon DEF SaveRun
<1>6. CASE TellRec(p, s)
  <2>1. run' = run /\ exec' = [exec EXCEPT ![p][s] = FreeSlot]
      BY <1>6 DEF TellRec, Leave
  <2>2. QED
      BY <1>1, <2>1, Leaves, RunUntouched
<1>7. QED
    BY <1>2, <1>3, <1>4, <1>5, <1>6 DEF Execute

\* An execution that is only found has its claim before it.
LEMMA WorkerOnce ==
    ASSUME AcceptInvariant, OnceInvariant, NEW p \in Processes, Worker(p)
    PROVE  OnceInvariant'
<1>1. run' = run /\ click' = click
    BY DEF Worker, TickStart, TickSkips, TickEnds, TickFinds, EvalVars
<1>2. CASE UNCHANGED exec
    BY <1>1, <1>2 DEF OnceInvariant, RescoresEnd, SavesEnd, ClaimedFirst, ExecutedOnce, Executing,
       Begun
<1>3. CASE TickFinds(p)
  <2>1. PICK s, f : exec' = [exec EXCEPT ![p][s] = f] /\ f.pc \notin Busy /\ f.pc # "save"
    <3>1. PICK u \in Runs : \E s :
            exec' = [exec EXCEPT ![p][s] = [FreeSlot EXCEPT !.pc = "claim", !.run = u]]
        BY <1>3 DEF TickFinds
    <3>2. [FreeSlot EXCEPT !.pc = "claim", !.run = u].pc = "claim"
        BY DEF FreeSlot
    <3>3. QED
        BY <3>1, <3>2 DEF Busy
  <2>2. CASE s \in Slots
      BY <1>1, <2>1, <2>2, OneExecution, RunUntouched
  <2>3. CASE s \notin Slots
    <3>1. /\ DOMAIN exec' = Processes
          /\ \A q \in Processes : DOMAIN exec'[q] = Slots
          /\ \A q \in Processes, t \in Slots : exec'[q][t] = exec[q][t]
        BY <2>1, <2>3 DEF AcceptInvariant, Shaped, Executions
    <3>2. QED
        BY <1>1, <3>1 DEF OnceInvariant, RescoresEnd, SavesEnd, ClaimedFirst, ExecutedOnce,
           Executing, Begun
  <2>4. QED
      BY <2>2, <2>3
<1>4. QED
    BY <1>2, <1>3 DEF Worker, TickStart, TickSkips, TickEnds, EvalVars

LEMMA CrashOnce ==
    ASSUME AcceptInvariant, OnceInvariant, NEW p \in Processes, EvalCrash(p)
    PROVE  OnceInvariant'
<1>1. /\ run' = run
      /\ exec' = [exec EXCEPT ![p] = [s \in Slots |-> FreeSlot]]
      /\ \E lost \in SUBSET Clicks :
            click' = [c \in Clicks |-> IF c \in lost THEN IdleClick ELSE click[c]]
    BY DEF EvalCrash
<1>2. \A q \in Processes, s \in Slots : exec'[q][s] = exec[q][s] \/ exec'[q][s] = FreeSlot
    BY <1>1 DEF AcceptInvariant, Shaped, Executions
<1>3. FreeSlot.pc = "free" /\ IdleClick.op = "idle"
    BY DEF FreeSlot, IdleClick
<1>4. RescoresEnd(click')
    BY <1>1, <1>3 DEF OnceInvariant, RescoresEnd
<1>5. SavesEnd(exec')
    BY <1>2, <1>3 DEF OnceInvariant, SavesEnd
<1>6. ClaimedFirst'
    BY <1>1, <1>2, <1>3 DEF OnceInvariant, ClaimedFirst, Begun, Busy
<1>7. ExecutedOnce'
    BY <1>2, <1>3 DEF OnceInvariant, ExecutedOnce, Executing
<1>8. QED
    BY <1>4, <1>5, <1>6, <1>7 DEF OnceInvariant

LEMMA ConsoleOnce ==
    ASSUME AcceptInvariant, RunsShaped, OnceInvariant, Console
    PROVE  OnceInvariant'
<1>1. RescoresEnd(click') /\ exec' = exec
    BY ConsoleKeepsHandlers
<1>2. SavesEnd(exec') /\ ExecutedOnce'
    BY <1>1 DEF OnceInvariant, SavesEnd, ExecutedOnce, Executing
<1>3. ClaimedFirst'
  <2>1. \A p \in Processes, s \in Slots : exec[p][s].pc \in Busy =>
            exec[p][s].run \in Runs /\ Begun(exec[p][s].run)
      BY DEF AcceptInvariant, Shaped, Executions, ExecutionShape, OnceInvariant, ClaimedFirst, Busy
  <2>2. QED
      BY <1>1, <2>1, ConsoleNeverRequeues DEF ClaimedFirst, Requeues, Begun
<1>4. QED
    BY <1>1, <1>2, <1>3 DEF OnceInvariant

\* A run is executed by at most one execution, although ticks overlap, several processes
\* poll and crash, and one run is found by several of them: for any number of runs,
\* workers and console requests (worker.js:17, replay.js:139).
THEOREM RunsExecutedOnce == EvalSpec => []ExecutedOnce
<1> DEFINE Inv == AcceptInvariant /\ RunsShaped /\ OnceInvariant
<1>1. EvalInit => Inv
  <2>1. EvalInit => AcceptInvariant /\ RunsShaped
      BY AcceptInitial, RunsInitial
  <2>2. ASSUME EvalInit PROVE OnceInvariant
    <3>1. \A p \in Processes, s \in Slots : exec[p][s].pc = "free"
        BY <2>2 DEF EvalInit, FreeSlot
    <3>2. \A c \in Clicks : click[c].op = "idle"
        BY <2>2 DEF EvalInit, IdleClick
    <3>3. QED
        BY <3>1, <3>2
        DEF OnceInvariant, RescoresEnd, SavesEnd, ClaimedFirst, ExecutedOnce, Executing, Busy
  <2>3. QED
      BY <2>1, <2>2
<1>2. Inv /\ [EvalNext]_EvalVars => Inv'
  <2> SUFFICES ASSUME Inv, [EvalNext]_EvalVars PROVE OnceInvariant'
      BY AcceptStep
  <2>1. CASE EvalNext
      BY <2>1, WorkerOnce, CrashOnce, ExecuteOnce, ConsoleOnce DEF EvalNext
  <2>2. CASE UNCHANGED EvalVars
      BY <2>2 DEF EvalVars, OnceInvariant, RescoresEnd, SavesEnd, ClaimedFirst, ExecutedOnce,
         Executing, Begun
  <2>3. QED
      BY <2>1, <2>2
<1>3. Inv => ExecutedOnce
    BY DEF OnceInvariant
<1>4. QED
    BY <1>1, <1>2, <1>3, PTL DEF EvalSpec

-----------------------------------------------------------------------------
(* Verdicts are earned. *)

\* What the documents, handlers and executions are made of.
Doc == [status : {"none", "pending", "accepted", "dismissed"}, eval : EvalStatuses,
        run : Runs \union {None}]
RunDoc == [status : RunStatuses, rec : Recs \union {None}]
Ops == {"idle", "build", "link", "cap", "dropdata", "unlink", "score", "rescore", "rule", "accept",
        "upsert"}
Args == {None, "passed", "failed", "overridden", "not_started", "dataset_ready"}
HandlerType == [op : Ops, rec : Recs \union {None}, run : Runs \union {None}, read : Doc, arg : Args]
ExecutionType == [pc : {"free", "claim"} \union Busy, run : Runs \union {None}, seen : Seq(Verdicts),
                  out : Ends \union {None}, read : Doc]

HandlerSound(h) ==
    /\ h.op \in {"link", "cap", "dropdata", "unlink", "score", "rescore"} => h.run \in Runs
    /\ h.op = "unlink" => h.arg \in {"not_started", "dataset_ready"}
    /\ h.op = "rescore" => h.arg \in {"passed", "failed"}
    /\ h.op \in {"rule", "accept"} => h.arg \in {"passed", "overridden"}
    /\ h.op = "upsert" => h.rec \in Recs
ExecutionSound(e) ==
    /\ e.pc # "free" => e.run \in Runs
    /\ e.pc \in {"save", "rec"} => e.out \in Ends

RecsTyped ==
    /\ rec \in [Recs -> Doc] /\ data \subseteq Recs
    /\ rules \in [Recs -> SUBSET {"passed", "overridden"}]
RunsTyped == run \in [Runs -> RunDoc] /\ results \in [Runs -> Seq(Verdicts)]
HandlersTyped == click \in [Clicks -> HandlerType] /\ \A c \in Clicks : HandlerSound(click[c])
ExecutionsTyped ==
    /\ exec \in [Processes -> [Slots -> ExecutionType]]
    /\ \A p \in Processes, s \in Slots : ExecutionSound(exec[p][s])

\* A worker counts its executions, and every tick in the air may add one to them.
BusySlots(p) == {s \in Slots : exec[p][s].pc # "free"}
Loaded ==
    /\ tick \in [Processes -> 0..MaxTicks] /\ active \in [Processes -> Nat]
    /\ \A p \in Processes : /\ active[p] = Cardinality(BusySlots(p))
                            /\ active[p] + tick[p] < MaxConcurrent + MaxTicks

\* An execution that will tell its recommendation of a success has proved it: the run
\* it executes exists, and belongs to that recommendation or to none any more.
Backed ==
    \A p \in Processes, s \in Slots :
       exec[p][s].pc # "free" =>
          /\ run[exec[p][s].run].status # "none"
          /\ exec[p][s].pc = "rec" /\ exec[p][s].out = "passed" /\ run[exec[p][s].run].rec \in Recs
                => run[exec[p][s].run].rec \in proven

TypedInvariant == RecsTyped /\ RunsTyped /\ HandlersTyped /\ ExecutionsTyped
EarnedInvariant == TypedInvariant /\ Loaded /\ Backed /\ PassedHasEvidence

LEMMA BlankDocuments ==
    /\ Absent \in Doc /\ Fresh \in Doc /\ Absent.eval # "passed" /\ Fresh.eval # "passed"
    /\ Absent.status = "none" /\ Fresh.status = "pending"
    /\ IdleClick \in HandlerType /\ HandlerSound(IdleClick)
    /\ FreeSlot \in ExecutionType /\ ExecutionSound(FreeSlot) /\ FreeSlot.pc = "free"
    /\ NoRun \in RunDoc
<1>1. /\ Absent \in Doc /\ Fresh \in Doc /\ Absent.eval # "passed" /\ Fresh.eval # "passed"
      /\ Absent.status = "none" /\ Fresh.status = "pending"
    BY DEF Absent, Fresh, Doc, EvalStatuses
<1>2. IdleClick \in HandlerType /\ HandlerSound(IdleClick)
    BY <1>1 DEF IdleClick, HandlerType, HandlerSound, Ops, Args
<1>3. <<>> \in Seq(Verdicts)
    OBVIOUS
<1>4. FreeSlot \in ExecutionType /\ ExecutionSound(FreeSlot) /\ FreeSlot.pc = "free"
    BY <1>1, <1>3 DEF FreeSlot, ExecutionType, ExecutionSound
<1>5. NoRun \in RunDoc
    BY DEF NoRun, RunDoc, RunStatuses
<1>6. QED
    BY <1>1, <1>2, <1>4, <1>5

LEMMA EarnedInitial == EvalInit => EarnedInvariant
<1> SUFFICES ASSUME EvalInit PROVE EarnedInvariant
    OBVIOUS
<1>1. 1 \in Runs
    BY EvalAssumption DEF EvalAssumption, Runs
<1>2. /\ rec \in [Recs -> Doc] /\ data \subseteq Recs /\ run \in [Runs -> RunDoc]
      /\ \A r \in Recs : rec[r].eval # "passed"
  <2>1. CASE rec = [r \in Recs |-> Fresh] /\ data = {} /\ run = [u \in Runs |-> NoRun]
      BY <2>1, BlankDocuments
  <2>2. ASSUME NEW r \in Recs,
               rec = [[q \in Recs |-> Fresh] EXCEPT ![r].eval = "running", ![r].run = 1],
               data = {r},
               run = [[u \in Runs |-> NoRun] EXCEPT ![1] = [status |-> "queued", rec |-> r]]
        PROVE  /\ rec \in [Recs -> Doc] /\ data \subseteq Recs /\ run \in [Runs -> RunDoc]
               /\ \A q \in Recs : rec[q].eval # "passed"
    <3>1. \A q \in Recs : q # r => rec[q] = Fresh
        BY <2>2
    <3>2. rec[r] = [Fresh EXCEPT !.eval = "running", !.run = 1] /\ DOMAIN rec = Recs
        BY <2>2
    <3>3. rec[r] \in Doc /\ rec[r].eval # "passed"
        BY <1>1, <3>2 DEF Fresh, Absent, Doc, EvalStatuses
    <3>4. rec = [q \in Recs |-> rec[q]]
        BY <2>2
    <3>5. \A q \in Recs : rec[q] \in Doc /\ rec[q].eval # "passed"
        BY <3>1, <3>3, BlankDocuments
    <3>6. [status |-> "queued", rec |-> r] \in RunDoc
        BY DEF RunDoc, RunStatuses
    <3>7. run \in [Runs -> RunDoc]
        BY <2>2, <3>6, BlankDocuments
    <3>8. QED
        BY <2>2, <3>4, <3>5, <3>7
  <2>3. QED
      BY <2>1, <2>2 DEF EvalInit
<1>3. TypedInvariant
  <2>1. RecsTyped /\ RunsTyped
      BY <1>2 DEF EvalInit, RecsTyped, RunsTyped
  <2>2. HandlersTyped /\ ExecutionsTyped
      BY BlankDocuments DEF EvalInit, HandlersTyped, ExecutionsTyped
  <2>3. QED
      BY <2>1, <2>2 DEF TypedInvariant
<1>4. \A p \in Processes, s \in Slots : exec[p][s].pc = "free"
    BY BlankDocuments DEF EvalInit
<1>5. Loaded
  <2>1. \A p \in Processes : BusySlots(p) = {}
      BY <1>4 DEF BusySlots
  <2>2. \A p \in Processes : Cardinality(BusySlots(p)) = 0
      BY <2>1, FS_EmptySet
  <2>3. 0 \in 0..MaxTicks /\ 0 < MaxConcurrent + MaxTicks
      BY EvalAssumption DEF EvalAssumption
  <2>4. QED
      BY <2>2, <2>3 DEF EvalInit, Loaded
<1>6. QED
    BY <1>2, <1>3, <1>4, <1>5 DEF EarnedInvariant, Backed, PassedHasEvidence

-----------------------------------------------------------------------------
(* Documents and handlers that are written. *)

\* Saving a document keeps it one, and it comes to say passed only when the writer says so.
LEMMA SavedKeeps ==
    ASSUME NEW stored \in Doc, NEW read \in Doc, NEW changed \in Doc
    PROVE  /\ Saved(stored, read, changed) \in Doc
           /\ Saved(stored, read, changed).eval = "passed" =>
                 stored.eval = "passed" \/ (changed.eval = "passed" /\ read.eval # "passed")
<1>1. DOMAIN stored = {"status", "eval", "run"}
    BY DEF Doc
<1>2. Saved(stored, read, changed) =
          [status |-> IF changed.status # read.status THEN changed.status ELSE stored.status,
           eval |-> IF changed.eval # read.eval THEN changed.eval ELSE stored.eval,
           run |-> IF changed.run # read.run THEN changed.run ELSE stored.run]
    BY <1>1 DEF Saved
<1>3. QED
    BY <1>2 DEF Doc

LEMMA RecSaved ==
    ASSUME rec \in [Recs -> Doc], NEW r \in Recs, NEW read \in Doc, NEW changed \in Doc,
           SaveRec(r, read, changed)
    PROVE  /\ rec' \in [Recs -> Doc]
           /\ \A q \in Recs : rec'[q].eval = "passed" =>
                 rec[q].eval = "passed" \/ (q = r /\ changed.eval = "passed" /\ read.eval # "passed")
<1>1. rec' = [rec EXCEPT ![r] = Saved(rec[r], read, changed)]
    BY DEF SaveRec
<1> DEFINE new == Saved(rec[r], read, changed)
<1>2. /\ new \in Doc
      /\ new.eval = "passed" => rec[r].eval = "passed" \/ (changed.eval = "passed" /\ read.eval # "passed")
    BY SavedKeeps
<1>3. rec' = [rec EXCEPT ![r] = new]
    BY <1>1
<1> HIDE DEF new
<1>4. QED
    BY <1>2, <1>3

LEMMA HandlerTyped ==
    ASSUME HandlersTyped, NEW c \in Clicks, NEW h \in HandlerType, HandlerSound(h),
           click' = [click EXCEPT ![c] = h]
    PROVE  HandlersTyped'
BY DEF HandlersTyped

LEMMA EndTyped ==
    ASSUME HandlersTyped, NEW c \in Clicks, End(c)
    PROVE  HandlersTyped'
BY BlankDocuments, HandlerTyped DEF End

LEMMA BeginTyped ==
    ASSUME HandlersTyped, rec \in [Recs -> Doc], NEW c \in Clicks, NEW op \in Ops,
           NEW STATE r, r \in Recs \union {None}, NEW STATE u, u \in Runs \union {None},
           NEW STATE arg, arg \in Args, Begin(c, op, r, u, arg),
           op \in {"link", "cap", "dropdata", "unlink", "score", "rescore"} => u \in Runs,
           op \notin {"unlink", "rescore", "accept"},
           op = "rule" => arg \in {"passed", "overridden"},
           op = "upsert" => r \in Recs
    PROVE  HandlersTyped'
<1> DEFINE read == IF r # None /\ op \in {"build", "link", "rule"} THEN rec[r] ELSE Absent
           h == [op |-> op, rec |-> r, run |-> u, arg |-> arg, read |-> read]
<1>1. click' = [click EXCEPT ![c] = h]
    BY DEF Begin
<1>2. read \in Doc
    BY BlankDocuments
<1> HIDE DEF read
<1>3. h \in HandlerType /\ HandlerSound(h)
    BY <1>2 DEF HandlerType, HandlerSound
<1> HIDE DEF h
<1>4. QED
    BY <1>1, <1>3, HandlerTyped

\* A run that exists goes on existing, with its recommendation or with none.
RunsGoOn ==
    \A u \in Runs : run[u].status # "none" =>
        run'[u].status # "none" /\ run'[u].rec \in {run[u].rec, None}

LEMMA StatusTyped ==
    ASSUME RunsTyped, NEW u \in Runs, NEW status \in RunStatuses \ {"none"},
           run' = [run EXCEPT ![u].status = status]
    PROVE  run' \in [Runs -> RunDoc] /\ RunsGoOn
BY DEF RunsTyped, RunDoc, RunsGoOn

LEMMA RunTyped ==
    ASSUME RunsTyped, NEW u \in Runs, run[u].status = "none", NEW status \in RunStatuses \ {"none"},
           NEW r \in Recs \union {None}, run' = [run EXCEPT ![u] = [status |-> status, rec |-> r]]
    PROVE  run' \in [Runs -> RunDoc] /\ RunsGoOn
<1> DEFINE new == [status |-> status, rec |-> r]
<1>1. new \in RunDoc /\ run' = [run EXCEPT ![u] = new]
    BY DEF RunDoc
<1> HIDE DEF new
<1>2. QED
    BY <1>1 DEF RunsTyped, RunsGoOn

LEMMA RunsStay == ASSUME run' = run PROVE RunsGoOn
BY DEF RunsGoOn

\* A step of the console beside the executions: what it has to keep.
LEMMA ConsoleEarns ==
    ASSUME EarnedInvariant, UNCHANGED <<tick, active, exec>>, RecsTyped', RunsTyped', HandlersTyped',
           RunsGoOn, proven \subseteq proven', PassedHasEvidence'
    PROVE  EarnedInvariant'
<1>1. ExecutionsTyped' /\ Loaded'
    BY DEF EarnedInvariant, TypedInvariant, ExecutionsTyped, Loaded, BusySlots
<1>2. Backed'
  <2>1. \A p \in Processes, s \in Slots : exec[p][s].pc # "free" => exec[p][s].run \in Runs
      BY DEF EarnedInvariant, TypedInvariant, ExecutionsTyped, ExecutionSound
  <2>2. None \notin Recs
      BY EvalAssumption DEF EvalAssumption
  <2>3. SUFFICES ASSUME NEW p \in Processes, NEW s \in Slots, exec[p][s].pc # "free"
                 PROVE  /\ run'[exec[p][s].run].status # "none"
                        /\ exec[p][s].pc = "rec" /\ exec[p][s].out = "passed"
                           /\ run'[exec[p][s].run].rec \in Recs => run'[exec[p][s].run].rec \in proven'
      BY DEF Backed
  <2>4. QED
      BY <2>1, <2>2, <2>3 DEF EarnedInvariant, Backed, RunsGoOn
<1>3. QED
    BY <1>1, <1>2 DEF EarnedInvariant, TypedInvariant

\* Handlers that only read, and begin to wait.
LEMMA ReadersEarn ==
    ASSUME EarnedInvariant, NEW c \in Clicks, NEW r \in Recs,
           BuildDataset(c, r) \/ Accept(c, r) \/ Recompute(c, r)
    PROVE  EarnedInvariant'
<1>1. UNCHANGED <<rec, data, run, results, rules, tick, active, exec, proven>>
    BY DEF BuildDataset, Accept, Recompute
<1>2. RecsTyped' /\ RunsTyped' /\ RunsGoOn /\ PassedHasEvidence'
    BY <1>1 DEF EarnedInvariant, TypedInvariant, RecsTyped, RunsTyped, RunsGoOn, PassedHasEvidence
<1>3. HandlersTyped /\ rec \in [Recs -> Doc]
    BY DEF EarnedInvariant, TypedInvariant, RecsTyped
<1>4. HandlersTyped'
  <2>1. CASE BuildDataset(c, r)
    <3>1. Begin(c, "build", r, None, None)
        BY <2>1 DEF BuildDataset
    <3>2. QED
        BY <1>3, <3>1, BeginTyped DEF Ops, Args
  <2>2. CASE Accept(c, r)
    <3>1. PICK override \in BOOLEAN : Gate(r, override) # "refused" /\ Begin(c, "rule", r, None, Gate(r, override))
        BY <2>2 DEF Accept
    <3>2. Gate(r, override) \in {"passed", "overridden"}
        BY <3>1 DEF Gate
    <3>3. PICK gate \in {"passed", "overridden"} : Begin(c, "rule", r, None, gate)
        BY <3>1, <3>2
    <3>4. QED
        BY <1>3, <3>3, BeginTyped DEF Ops, Args
  <2>3. CASE Recompute(c, r)
    <3>1. Begin(c, "upsert", r, None, None)
        BY <2>3 DEF Recompute
    <3>2. QED
        BY <1>3, <3>1, BeginTyped DEF Ops, Args
  <2>4. QED
      BY <2>1, <2>2, <2>3
<1>5. QED
    BY <1>1, <1>2, <1>4, ConsoleEarns

\* A step that leaves the recommendations alone.
LEMMA RecsUntouched ==
    ASSUME EarnedInvariant, UNCHANGED <<rec, rules>>, data' \subseteq Recs, proven \subseteq proven'
    PROVE  RecsTyped' /\ PassedHasEvidence'
BY DEF EarnedInvariant, TypedInvariant, RecsTyped, PassedHasEvidence

LEMMA VerdictCorrected ==
    ASSUME NEW S, NEW seq \in Seq(S), NEW i \in DOMAIN seq, NEW v \in S
    PROVE  [seq EXCEPT ![i] = v] \in Seq(S)
OBVIOUS

LEMMA RunHandlersEarn ==
    ASSUME EarnedInvariant, NEW c \in Clicks, NEW u \in Runs, DeleteRun(c, u) \/ Correct(c, u)
    PROVE  EarnedInvariant'
<1>1. UNCHANGED <<rec, data, rules, tick, active, exec, proven>>
    BY DEF DeleteRun, Correct
<1>2. HandlersTyped /\ rec \in [Recs -> Doc] /\ RunsTyped /\ data \subseteq Recs
    BY DEF EarnedInvariant, TypedInvariant, RecsTyped
<1>3. run[u].rec \in Recs \union {None}
    BY <1>2 DEF RunsTyped, RunDoc
<1>4. RecsTyped' /\ PassedHasEvidence'
    BY <1>1, <1>2, RecsUntouched
<1>5. CASE DeleteRun(c, u)
  <2>1. Begin(c, "dropdata", run[u].rec, u, None)
      BY <1>5 DEF DeleteRun
  <2>2. HandlersTyped'
      BY <1>2, <1>3, <2>1, BeginTyped DEF Ops, Args
  <2>3. run' \in [Runs -> RunDoc] /\ RunsGoOn
    <3>1. run' = [run EXCEPT ![u].status = "gone"]
        BY <1>5 DEF DeleteRun
    <3>2. QED
        BY <1>2, <3>1, StatusTyped DEF RunStatuses
  <2>4. results' = [results EXCEPT ![u] = <<>>] /\ <<>> \in Seq(Verdicts)
      BY <1>5 DEF DeleteRun
  <2>5. RunsTyped'
      BY <1>2, <2>3, <2>4 DEF RunsTyped
  <2>6. QED
      BY <1>1, <1>4, <2>2, <2>3, <2>5, ConsoleEarns
<1>6. CASE Correct(c, u)
  <2>1. Begin(c, "score", None, u, None) /\ run' = run
      BY <1>6 DEF Correct
  <2>2. HandlersTyped'
      BY <1>2, <2>1, BeginTyped DEF Ops, Args
  <2>3. PICK i \in DOMAIN results[u], v \in Verdicts : results' = [results EXCEPT ![u][i] = v]
      BY <1>6 DEF Correct
  <2>4. results' = [results EXCEPT ![u] = [results[u] EXCEPT ![i] = v]]
      BY <2>3
  <2>5. [results[u] EXCEPT ![i] = v] \in Seq(Verdicts)
      BY <1>2, VerdictCorrected DEF RunsTyped
  <2>6. RunsTyped'
      BY <1>2, <2>1, <2>4, <2>5 DEF RunsTyped
  <2>7. QED
      BY <1>1, <1>4, <2>1, <2>2, <2>6, RunsStay, ConsoleEarns
<1>7. QED
    BY <1>5, <1>6

LEMMA NewRunsEarn ==
    ASSUME EarnedInvariant, NEW c \in Clicks, NEW r \in Recs \union {None}, NEW u \in Runs,
           StartRun(c, r, u) \/ (r \in Recs /\ SynthesizeRun(c, r, u))
    PROVE  EarnedInvariant'
<1>1. /\ HandlersTyped /\ rec \in [Recs -> Doc] /\ RunsTyped /\ data \subseteq Recs
      /\ PassedHasEvidence /\ rules \in [Recs -> SUBSET {"passed", "overridden"}]
    BY DEF EarnedInvariant, TypedInvariant, RecsTyped
<1>2. run[u].status = "none" /\ results' = results /\ UNCHANGED <<data, rules, tick, active, exec>>
    BY DEF StartRun, SynthesizeRun, New
<1>3. CASE StartRun(c, r, u)
  <2>1. UNCHANGED <<rec, proven>> /\ run' = [run EXCEPT ![u] = [status |-> "queued", rec |-> r]]
      BY <1>3 DEF StartRun
  <2>2. run' \in [Runs -> RunDoc] /\ RunsGoOn
      BY <1>1, <1>2, <2>1, RunTyped DEF RunStatuses
  <2>3. PICK op \in {"link", "cap"} : Begin(c, op, r, u, None)
      BY <1>3 DEF StartRun
  <2>4. HandlersTyped'
      BY <1>1, <2>3, BeginTyped DEF Ops, Args
  <2>5. RecsTyped' /\ PassedHasEvidence'
      BY <1>1, <1>2, <2>1, RecsUntouched
  <2>6. QED
      BY <1>1, <1>2, <2>2, <2>4, <2>5, <2>1, ConsoleEarns DEF RunsTyped
<1>4. CASE r \in Recs /\ SynthesizeRun(c, r, u)
  <2>1. PICK out \in {"passed", "failed"} :
            /\ run' = [run EXCEPT ![u] = [status |-> out, rec |-> r]]
            /\ rec' = [rec EXCEPT ![r].eval = out, ![r].run = u]
            /\ proven' = IF out = "passed" THEN proven \union {r} ELSE proven
      BY <1>4 DEF SynthesizeRun
  <2>2. run' \in [Runs -> RunDoc] /\ RunsGoOn
      BY <1>1, <1>2, <2>1, RunTyped DEF RunStatuses
  <2>3. HandlersTyped'
      BY <1>1, <1>4 DEF SynthesizeRun, HandlersTyped
  <2>4. rec' = [rec EXCEPT ![r] = [rec[r] EXCEPT !.eval = out, !.run = u]]
      BY <2>1
  <2>5. [rec[r] EXCEPT !.eval = out, !.run = u] \in Doc /\ [rec[r] EXCEPT !.eval = out, !.run = u].eval = out
      BY <1>1, <1>4 DEF Doc, EvalStatuses
  <2>6. rec' \in [Recs -> Doc] /\ rec'[r].eval = out /\ \A q \in Recs : q # r => rec'[q] = rec[q]
      BY <1>1, <1>4, <2>4, <2>5
  <2>7. RecsTyped'
      BY <1>1, <1>2, <2>6 DEF RecsTyped
  <2>8. proven \subseteq proven' /\ PassedHasEvidence'
      BY <1>1, <2>1, <2>6 DEF PassedHasEvidence
  <2>9. QED
      BY <1>1, <1>2, <2>2, <2>3, <2>7, <2>8, ConsoleEarns DEF RunsTyped
<1>5. QED
    BY <1>3, <1>4

LEMMA StatusesEarn ==
    ASSUME EarnedInvariant, UNCHANGED <<rec, data, rules, results, tick, active, exec, proven>>,
           HandlersTyped', NEW u \in Runs, NEW status \in RunStatuses \ {"none"},
           run' = run \/ run' = [run EXCEPT ![u].status = status]
    PROVE  EarnedInvariant'
<1>1. RunsTyped /\ data \subseteq Recs
    BY DEF EarnedInvariant, TypedInvariant, RecsTyped
<1>2. run' \in [Runs -> RunDoc] /\ RunsGoOn
    BY <1>1, StatusTyped, RunsStay DEF RunsTyped
<1>3. RecsTyped' /\ PassedHasEvidence'
    BY <1>1, RecsUntouched
<1>4. QED
    BY <1>1, <1>2, <1>3, ConsoleEarns DEF RunsTyped

\* Handlers that end, with or without a status of a run.
LEMMA EndingsEarn ==
    ASSUME EarnedInvariant, NEW c \in Clicks,
           DatasetFails(c) \/ RefuseCost(c) \/ SaveScore(c) \/ DropData(c) \/ Rescore(c)
    PROVE  EarnedInvariant'
<1> DEFINE h == click[c]
<1>1. HandlersTyped /\ h \in HandlerType /\ HandlerSound(h) /\ click \in [Clicks -> HandlerType]
    BY DEF EarnedInvariant, TypedInvariant, HandlersTyped
<1>2. CASE DatasetFails(c)
  <2>1. HandlersTyped'
      BY <1>1, <1>2, EndTyped DEF DatasetFails
  <2>2. PICK u \in Runs : TRUE
      BY EvalAssumption DEF EvalAssumption, Runs
  <2>3. "failed" \in RunStatuses \ {"none"}
      BY DEF RunStatuses
  <2>4. UNCHANGED <<rec, data, rules, results, tick, active, exec, proven, run>>
      BY <1>2 DEF DatasetFails
  <2>5. QED
      BY <2>1, <2>2, <2>3, <2>4, StatusesEarn
<1>3. CASE RefuseCost(c)
  <2>1. HandlersTyped' /\ h.run \in Runs
      BY <1>1, <1>3, EndTyped DEF RefuseCost, HandlerSound
  <2>2. "failed" \in RunStatuses \ {"none"}
      BY DEF RunStatuses
  <2>3. /\ UNCHANGED <<rec, data, rules, results, tick, active, exec, proven>>
        /\ run' = run \/ run' = [run EXCEPT ![h.run].status = "failed"]
      BY <1>3 DEF RefuseCost
  <2>4. QED
      BY <2>1, <2>2, <2>3, StatusesEarn
<1>4. CASE SaveScore(c)
  <2>1. HandlersTyped' /\ h.run \in Runs
      BY <1>1, <1>4, EndTyped DEF SaveScore, HandlerSound
  <2>2. h.arg \in RunStatuses \ {"none"}
      BY <1>1, <1>4 DEF SaveScore, HandlerSound, RunStatuses
  <2>3. /\ UNCHANGED <<rec, data, rules, results, tick, active, exec, proven>>
        /\ run' = run \/ run' = [run EXCEPT ![h.run].status = h.arg]
      BY <1>4 DEF SaveScore
  <2>4. PICK status \in RunStatuses \ {"none"} : status = h.arg
      BY <2>2
  <2>5. QED
      BY <2>1, <2>3, <2>4, StatusesEarn
<1>5. CASE DropData(c)
  <2>1. PICK arg \in {"not_started", "dataset_ready"} :
            click' = [click EXCEPT ![c].op = "unlink", ![c].arg = arg]
      BY <1>5 DEF DropData
  <2>2. click' = [click EXCEPT ![c] = [h EXCEPT !.op = "unlink", !.arg = arg]]
      BY <2>1
  <2>3. [h EXCEPT !.op = "unlink", !.arg = arg] \in HandlerType
      BY <1>1 DEF HandlerType, Ops, Args
  <2>4. HandlerSound([h EXCEPT !.op = "unlink", !.arg = arg])
      BY <1>1, <1>5 DEF HandlerType, HandlerSound, DropData
  <2>5. HandlersTyped'
      BY <1>1, <2>2, <2>3, <2>4, HandlerTyped
  <2>6. /\ UNCHANGED <<rec, run, results, rules, tick, active, exec, proven>>
        /\ data' = data \/ data' = data \ {h.rec}
      BY <1>5 DEF DropData
  <2>7. RecsTyped' /\ PassedHasEvidence'
    <3>1. data' \subseteq Recs
        BY <2>6 DEF EarnedInvariant, TypedInvariant, RecsTyped
    <3>2. QED
        BY <2>6, <3>1, RecsUntouched
  <2>8. RunsTyped'
      BY <2>6 DEF EarnedInvariant, TypedInvariant, RunsTyped
  <2>9. QED
      BY <2>5, <2>6, <2>7, <2>8, RunsStay, ConsoleEarns
<1>6. CASE Rescore(c)
  <2>1. UNCHANGED <<rec, data, run, results, rules, tick, active, exec, proven>>
      BY <1>6 DEF Rescore
  <2>2. HandlersTyped'
    <3>1. CASE End(c)
        BY <1>1, <3>1, EndTyped
    <3>2. ASSUME NEW arg \in {"passed", "failed"},
                 click' = [click EXCEPT ![c].op = "rescore", ![c].arg = arg]
          PROVE  HandlersTyped'
      <4>1. click' = [click EXCEPT ![c] = [h EXCEPT !.op = "rescore", !.arg = arg]]
          BY <3>2
      <4>2. [h EXCEPT !.op = "rescore", !.arg = arg] \in HandlerType
          BY <1>1 DEF HandlerType, Ops, Args
      <4>3. HandlerSound([h EXCEPT !.op = "rescore", !.arg = arg])
          BY <1>1, <1>6 DEF HandlerType, HandlerSound, Rescore
      <4>4. QED
          BY <1>1, <4>1, <4>2, <4>3, HandlerTyped
    <3>3. \/ End(c)
          \/ \E arg \in {"passed", "failed"} :
                click' = [click EXCEPT ![c].op = "rescore", ![c].arg = arg]
        BY <1>6 DEF Rescore
    <3>4. QED
        BY <3>1, <3>2, <3>3
  <2>3. PICK u \in Runs : TRUE
      BY EvalAssumption DEF EvalAssumption, Runs
  <2>4. "failed" \in RunStatuses \ {"none"}
      BY DEF RunStatuses
  <2>5. QED
      BY <2>1, <2>2, <2>3, <2>4, StatusesEarn
<1>7. QED
    BY <1>2, <1>3, <1>4, <1>5, <1>6

\* Writes of recommendations: what does not say passed makes nobody believe it.
LEMMA WritesEarn ==
    ASSUME EarnedInvariant, UNCHANGED <<run, results, tick, active, exec, proven>>, HandlersTyped',
           data' \subseteq Recs, rules' \in [Recs -> SUBSET {"passed", "overridden"}],
           rec' \in [Recs -> Doc],
           \A q \in Recs : rec'[q].eval = "passed" => rec[q].eval = "passed"
    PROVE  EarnedInvariant'
<1>1. RecsTyped' /\ RunsTyped' /\ PassedHasEvidence'
    BY DEF EarnedInvariant, TypedInvariant, RecsTyped, RunsTyped, PassedHasEvidence
<1>2. QED
    BY <1>1, RunsStay, ConsoleEarns

LEMMA SavesEarn ==
    ASSUME EarnedInvariant, NEW c \in Clicks,
           DatasetReady(c) \/ LinkRun(c) \/ SaveAccepted(c)
    PROVE  EarnedInvariant'
<1> DEFINE h == click[c]
<1>1. /\ HandlersTyped /\ h \in HandlerType /\ HandlerSound(h) /\ rec \in [Recs -> Doc]
      /\ rules \in [Recs -> SUBSET {"passed", "overridden"}] /\ data \subseteq Recs
    BY DEF EarnedInvariant, TypedInvariant, HandlersTyped, RecsTyped
<1>2. h.read \in Doc /\ h.rec \in Recs \union {None} /\ h.run \in Runs \union {None}
    BY <1>1 DEF HandlerType
<1>3. UNCHANGED <<run, results, rules, tick, active, exec, proven>> /\ End(c) /\ data' \subseteq Recs
    BY <1>1, <1>2 DEF DatasetReady, LinkRun, SaveAccepted
<1>4. HandlersTyped'
    BY <1>1, <1>3, EndTyped
<1>5. ASSUME NEW changed \in Doc, changed.eval = "passed" => h.read.eval = "passed",
             \/ UNCHANGED rec
             \/ Exists(h.rec) /\ SaveRec(h.rec, h.read, changed)
      PROVE  EarnedInvariant'
  <2>1. /\ rec' \in [Recs -> Doc]
        /\ \A q \in Recs : rec'[q].eval = "passed" => rec[q].eval = "passed"
    <3>1. CASE UNCHANGED rec
        BY <1>1, <3>1
    <3>2. CASE Exists(h.rec) /\ SaveRec(h.rec, h.read, changed)
      <4>1. h.rec \in Recs
          BY <1>2, <3>2 DEF Exists
      <4>2. PICK r \in Recs, read \in Doc : r = h.rec /\ read = h.read
          BY <1>2, <4>1
      <4>3. SaveRec(r, read, changed)
          BY <3>2, <4>2
      <4>4. QED
          BY <1>1, <1>5, <4>2, <4>3, RecSaved
    <3>3. QED
        BY <1>5, <3>1, <3>2
  <2>2. QED
      BY <1>1, <1>3, <1>4, <2>1, WritesEarn
<1>6. CASE DatasetReady(c)
  <2>1. [h.read EXCEPT !.eval = "dataset_ready"] \in Doc /\ [h.read EXCEPT !.eval = "dataset_ready"].eval # "passed"
      BY <1>2 DEF Doc, EvalStatuses
  <2>2. UNCHANGED rec \/ (Exists(h.rec) /\ SaveRec(h.rec, h.read, [h.read EXCEPT !.eval = "dataset_ready"]))
      BY <1>6 DEF DatasetReady
  <2>3. PICK changed \in Doc : changed = [h.read EXCEPT !.eval = "dataset_ready"]
      BY <2>1
  <2>4. QED
      BY <1>5, <2>1, <2>2, <2>3
<1>7. CASE LinkRun(c)
  <2>1. h.run \in Runs
      BY <1>1, <1>7 DEF LinkRun, HandlerSound
  <2>2. [h.read EXCEPT !.eval = "running", !.run = h.run] \in Doc
        /\ [h.read EXCEPT !.eval = "running", !.run = h.run].eval # "passed"
      BY <1>2, <2>1 DEF Doc, EvalStatuses
  <2>3. \/ UNCHANGED rec
        \/ Exists(h.rec) /\ SaveRec(h.rec, h.read, [h.read EXCEPT !.eval = "running", !.run = h.run])
      BY <1>7 DEF LinkRun
  <2>4. PICK changed \in Doc : changed = [h.read EXCEPT !.eval = "running", !.run = h.run]
      BY <2>2
  <2>5. QED
      BY <1>5, <2>2, <2>3, <2>4
<1>8. CASE SaveAccepted(c)
  <2>1. PICK eval \in {"overridden", h.read.eval} :
           eval = IF h.arg = "overridden" THEN h.arg ELSE h.read.eval
      BY <1>8
  <2>2. /\ [h.read EXCEPT !.status = "accepted", !.eval = eval] \in Doc
        /\ [h.read EXCEPT !.status = "accepted", !.eval = eval].eval = eval
      BY <1>2, <2>1 DEF Doc, EvalStatuses
  <2>3. \/ UNCHANGED rec
        \/ Exists(h.rec) /\ SaveRec(h.rec, h.read, [h.read EXCEPT !.status = "accepted", !.eval = eval])
      BY <1>8, <2>1 DEF SaveAccepted
  <2>4. PICK changed \in Doc : changed = [h.read EXCEPT !.status = "accepted", !.eval = eval]
      BY <2>2
  <2>5. QED
      BY <1>5, <2>1, <2>2, <2>3, <2>4
<1>9. QED
    BY <1>6, <1>7, <1>8

LEMMA DocumentsEarn ==
    ASSUME EarnedInvariant, NEW c \in Clicks, Unlink(c) \/ Upsert(c) \/ CreateRule(c)
    PROVE  EarnedInvariant'
<1> DEFINE h == click[c]
<1>1. /\ HandlersTyped /\ h \in HandlerType /\ HandlerSound(h) /\ rec \in [Recs -> Doc]
      /\ click \in [Clicks -> HandlerType]
      /\ rules \in [Recs -> SUBSET {"passed", "overridden"}] /\ data \subseteq Recs
    BY DEF EarnedInvariant, TypedInvariant, HandlersTyped, RecsTyped
<1>2. UNCHANGED <<run, results, data, tick, active, exec, proven>>
    BY DEF Unlink, Upsert, CreateRule
<1>3. ASSUME NEW r \in Recs, NEW new \in Doc, rec' = [rec EXCEPT ![r] = new] \/ UNCHANGED rec,
             new.eval = "passed" => rec[r].eval = "passed", UNCHANGED rules, HandlersTyped'
      PROVE  EarnedInvariant'
  <2>1. /\ rec' \in [Recs -> Doc]
        /\ \A q \in Recs : rec'[q].eval = "passed" => rec[q].eval = "passed"
      BY <1>1, <1>3
  <2>2. QED
      BY <1>1, <1>2, <1>3, <2>1, WritesEarn
<1>4. CASE Unlink(c)
  <2>1. HandlersTyped' /\ UNCHANGED rules
      BY <1>1, <1>4, EndTyped DEF Unlink
  <2>2. CASE UNCHANGED rec
      BY <1>1, <1>2, <2>1, <2>2, WritesEarn
  <2>3. CASE Exists(h.rec) /\ rec' = [rec EXCEPT ![h.rec].run = None, ![h.rec].eval = h.arg]
    <3>1. h.rec \in Recs /\ h.arg \in {"not_started", "dataset_ready"}
        BY <1>1, <1>4, <2>3 DEF HandlerType, HandlerSound, Unlink, Exists
    <3> DEFINE new == [rec[h.rec] EXCEPT !.run = None, !.eval = h.arg]
    <3>2. rec' = [rec EXCEPT ![h.rec] = new]
        BY <2>3
    <3>3. new \in Doc /\ new.eval # "passed"
      <4>1. rec[h.rec] \in Doc
          BY <1>1, <3>1
      <4>2. QED
          BY <3>1, <4>1 DEF Doc, EvalStatuses
    <3> HIDE DEF new
    <3>4. PICK r \in Recs : r = h.rec
        BY <3>1
    <3>5. QED
        BY <1>3, <2>1, <3>2, <3>3, <3>4
  <2>4. QED
      BY <1>4, <2>2, <2>3 DEF Unlink
<1>5. CASE Upsert(c)
  <2>1. HandlersTyped' /\ UNCHANGED rules /\ h.rec \in Recs
      BY <1>1, <1>5, EndTyped DEF Upsert, HandlerSound
  <2> DEFINE new == IF Exists(h.rec) THEN [rec[h.rec] EXCEPT !.status = "pending"] ELSE Fresh
  <2>2. rec' = [rec EXCEPT ![h.rec] = new]
      BY <1>5 DEF Upsert
  <2>3. new \in Doc /\ (new.eval = "passed" => rec[h.rec].eval = "passed")
      BY <1>1, <2>1, BlankDocuments DEF Doc
  <2> HIDE DEF new
  <2>4. QED
      BY <1>3, <2>1, <2>2, <2>3
<1>6. CASE CreateRule(c)
  <2>1. /\ rules' = [r \in Recs |-> IF r = h.rec THEN rules[r] \union {h.arg} ELSE rules[r]]
        /\ click' = [click EXCEPT ![c].op = "accept"] /\ UNCHANGED rec
        /\ h.op = "rule" /\ h.arg \in {"passed", "overridden"}
      BY <1>1, <1>6 DEF CreateRule, HandlerSound
  <2>2. rules' \in [Recs -> SUBSET {"passed", "overridden"}]
      BY <1>1, <2>1
  <2>3. click' = [click EXCEPT ![c] = [h EXCEPT !.op = "accept"]]
      BY <2>1
  <2>4. [h EXCEPT !.op = "accept"] \in HandlerType /\ HandlerSound([h EXCEPT !.op = "accept"])
      BY <1>1, <2>1 DEF HandlerType, HandlerSound, Ops
  <2>5. HandlersTyped'
      BY <1>1, <2>3, <2>4, HandlerTyped
  <2>6. QED
      BY <1>1, <1>2, <2>1, <2>2, <2>5, WritesEarn
<1>7. QED
    BY <1>4, <1>5, <1>6

LEMMA DecisionsEarn ==
    ASSUME EarnedInvariant, NEW r \in Recs, Override(r) \/ Dismiss(r)
    PROVE  EarnedInvariant'
<1>1. /\ rec \in [Recs -> Doc] /\ data \subseteq Recs
      /\ rules \in [Recs -> SUBSET {"passed", "overridden"}]
    BY DEF EarnedInvariant, TypedInvariant, RecsTyped
<1>2. UNCHANGED <<data, run, results, rules, tick, active, exec, click, proven>>
    BY DEF Override, Dismiss
<1>3. HandlersTyped'
    BY <1>2 DEF EarnedInvariant, TypedInvariant, HandlersTyped
<1>4. PICK new \in Doc : rec' = [rec EXCEPT ![r] = new] /\ (new.eval = "passed" => rec[r].eval = "passed")
  <2>1. [rec[r] EXCEPT !.eval = "overridden"] \in Doc /\ [rec[r] EXCEPT !.eval = "overridden"].eval # "passed"
      BY <1>1 DEF Doc, EvalStatuses
  <2>2. /\ [rec[r] EXCEPT !.status = "dismissed"] \in Doc
        /\ [rec[r] EXCEPT !.status = "dismissed"].eval = rec[r].eval
      BY <1>1 DEF Doc, EvalStatuses
  <2>3. CASE Override(r)
      BY <2>1, <2>3 DEF Override
  <2>4. CASE Dismiss(r)
      BY <2>2, <2>4 DEF Dismiss
  <2>5. QED
      BY <2>3, <2>4
<1>5. /\ rec' \in [Recs -> Doc]
      /\ \A q \in Recs : rec'[q].eval = "passed" => rec[q].eval = "passed"
    BY <1>1, <1>4
<1>6. QED
    BY <1>1, <1>2, <1>3, <1>5, WritesEarn

\* A recommendation that goes takes the proof of it along, and nothing points at it any more.
LEMMA DropStaleEarns ==
    ASSUME EarnedInvariant, NEW r \in Recs, DropStale(r)
    PROVE  EarnedInvariant'
<1>1. /\ rec \in [Recs -> Doc] /\ data \subseteq Recs /\ RunsTyped /\ HandlersTyped
      /\ rules \in [Recs -> SUBSET {"passed", "overridden"}] /\ ExecutionsTyped /\ Loaded /\ Backed
      /\ PassedHasEvidence
    BY DEF EarnedInvariant, TypedInvariant, RecsTyped
<1>2. /\ UNCHANGED <<results, tick, active, exec>>
      /\ rec' = [rec EXCEPT ![r] = Absent] /\ data' = data \ {r} /\ proven' = proven \ {r}
      /\ rules' = [rules EXCEPT ![r] = {}]
      /\ run' = [u \in Runs |-> IF run[u].rec = r THEN [run[u] EXCEPT !.rec = None] ELSE run[u]]
    BY DEF DropStale
<1>3. RecsTyped' /\ PassedHasEvidence'
    BY <1>1, <1>2, BlankDocuments DEF RecsTyped, PassedHasEvidence
<1>4. \A u \in Runs : /\ run'[u] \in RunDoc /\ run'[u].status = run[u].status
                      /\ run'[u].rec = IF run[u].rec = r THEN None ELSE run[u].rec
    BY <1>1, <1>2 DEF RunsTyped, RunDoc
<1>5. RunsTyped'
    BY <1>1, <1>2, <1>4 DEF RunsTyped
<1>6. HandlersTyped'
  <2>1. \A c \in Clicks : /\ [click[c] EXCEPT !.rec = None] \in HandlerType
                          /\ click[c].op # "upsert" => HandlerSound([click[c] EXCEPT !.rec = None])
      BY <1>1 DEF HandlersTyped, HandlerType, HandlerSound
  <2>2. click' = [c \in Clicks |-> IF click[c].rec = r /\ click[c].op # "upsert"
                                   THEN [click[c] EXCEPT !.rec = None] ELSE click[c]]
      BY DEF DropStale
  <2>3. QED
      BY <1>1, <2>1, <2>2 DEF HandlersTyped
<1>7. ExecutionsTyped' /\ Loaded'
    BY <1>1, <1>2 DEF ExecutionsTyped, Loaded, BusySlots
<1>8. Backed'
  <2>1. \A p \in Processes, s \in Slots : exec[p][s].pc # "free" => exec[p][s].run \in Runs
      BY <1>1 DEF ExecutionsTyped, ExecutionSound
  <2>2. None \notin Recs
      BY EvalAssumption DEF EvalAssumption
  <2>3. SUFFICES ASSUME NEW p \in Processes, NEW s \in Slots, exec[p][s].pc # "free"
                 PROVE  /\ run'[exec[p][s].run].status # "none"
                        /\ exec[p][s].pc = "rec" /\ exec[p][s].out = "passed"
                           /\ run'[exec[p][s].run].rec \in Recs => run'[exec[p][s].run].rec \in proven'
      BY <1>2 DEF Backed
  <2>4. PICK u \in Runs : u = exec[p][s].run
      BY <2>1, <2>3
  <2>5. run'[u].status = run[u].status /\ run'[u].rec = IF run[u].rec = r THEN None ELSE run[u].rec
      BY <1>4
  <2>6. QED
      BY <1>1, <1>2, <2>2, <2>3, <2>4, <2>5 DEF Backed
<1>9. QED
    BY <1>3, <1>5, <1>6, <1>7, <1>8 DEF EarnedInvariant, TypedInvariant

LEMMA ConsoleKeepsEarned ==
    ASSUME EarnedInvariant, Console
    PROVE  EarnedInvariant'
<1>1. ASSUME NEW u \in Runs, Cancel(u) PROVE EarnedInvariant'
  <2>1. /\ UNCHANGED <<rec, data, rules, results, tick, active, exec, proven, click>>
        /\ run' = [run EXCEPT ![u].status = "cancelled"]
      BY <1>1 DEF Cancel
  <2>2. HandlersTyped' /\ "cancelled" \in RunStatuses \ {"none"}
      BY <2>1 DEF EarnedInvariant, TypedInvariant, HandlersTyped, RunStatuses
  <2>3. QED
      BY <2>1, <2>2, StatusesEarn
<1>2. QED
    BY <1>1, ReadersEarn, RunHandlersEarn, NewRunsEarn, EndingsEarn, SavesEarn, DocumentsEarn,
       DecisionsEarn, DropStaleEarns DEF Console

-----------------------------------------------------------------------------
(* The worker and its executions. *)

\* Cardinality of what is busy, when one slot changes.
LEMMA SlotTaken ==
    ASSUME ExecutionsTyped, NEW p \in Processes, NEW s \in Slots, NEW e \in ExecutionType,
           exec' = [exec EXCEPT ![p][s] = e]
    PROVE  /\ \A q \in Processes \ {p} : BusySlots(q)' = BusySlots(q)
           /\ BusySlots(p)' = IF e.pc # "free" THEN BusySlots(p) \union {s} ELSE BusySlots(p) \ {s}
BY DEF BusySlots, ExecutionsTyped

LEMMA BusyIsFinite ==
    ASSUME NEW p \in Processes
    PROVE  /\ IsFiniteSet(BusySlots(p)) /\ BusySlots(p) \subseteq Slots /\ IsFiniteSet(Slots)
           /\ Cardinality(Slots) = MaxConcurrent + MaxTicks
<1>1. IsFiniteSet(Slots) /\ Cardinality(Slots) = MaxConcurrent + MaxTicks
  <2>1. MaxConcurrent + MaxTicks \in Nat
      BY EvalAssumption DEF EvalAssumption
  <2>2. QED
      BY <2>1, FS_Interval DEF Slots
<1>2. BusySlots(p) \subseteq Slots
    BY DEF BusySlots
<1>3. QED
    BY <1>1, <1>2, FS_Subset

LEMMA WorkerEarns ==
    ASSUME EarnedInvariant, NEW p \in Processes, Worker(p)
    PROVE  EarnedInvariant'
<1>1. UNCHANGED <<rec, data, run, results, rules, click, proven>>
    BY DEF Worker, TickStart, TickSkips, TickEnds, TickFinds, EvalVars
<1>2. RecsTyped' /\ RunsTyped' /\ HandlersTyped' /\ PassedHasEvidence'
    BY <1>1 DEF EarnedInvariant, TypedInvariant, RecsTyped, RunsTyped, HandlersTyped, PassedHasEvidence
<1>3. /\ Loaded /\ Backed /\ ExecutionsTyped
      /\ tick \in [Processes -> 0..MaxTicks] /\ active \in [Processes -> Nat]
      /\ tick[p] \in 0..MaxTicks /\ active[p] \in Nat /\ active[p] + tick[p] < MaxConcurrent + MaxTicks
      /\ MaxTicks \in Nat /\ MaxConcurrent \in Nat
    BY EvalAssumption DEF EvalAssumption, EarnedInvariant, TypedInvariant, Loaded
<1>4. CASE UNCHANGED exec /\ UNCHANGED active
  <2>1. ExecutionsTyped' /\ Backed'
      BY <1>1, <1>3, <1>4 DEF ExecutionsTyped, Backed
  <2>2. PICK n \in 0..MaxTicks : /\ tick' = [tick EXCEPT ![p] = n]
                                 /\ active[p] + n < MaxConcurrent + MaxTicks
    <3>1. CASE TickStart(p)
      <4>1. tick[p] + 1 \in 0..MaxTicks /\ active[p] + (tick[p] + 1) < MaxConcurrent + MaxTicks
          BY <1>3, <3>1 DEF TickStart
      <4>2. QED
          BY <3>1, <4>1 DEF TickStart
    <3>2. CASE TickEnds(p)
      <4>1. tick[p] - 1 \in 0..MaxTicks /\ active[p] + (tick[p] - 1) < MaxConcurrent + MaxTicks
          BY <1>3, <3>2 DEF TickEnds
      <4>2. QED
          BY <3>2, <4>1 DEF TickEnds
    <3>3. CASE TickSkips(p)
      <4>1. tick' = [tick EXCEPT ![p] = tick[p]]
          BY <1>3, <3>3 DEF TickSkips, EvalVars
      <4>2. QED
          BY <1>3, <4>1
    <3>4. CASE TickFinds(p)
      <4>1. active'[p] = active[p] + 1
          BY <1>3, <3>4 DEF TickFinds
      <4>2. QED
          BY <1>3, <1>4, <4>1
    <3>5. QED
        BY <3>1, <3>2, <3>3, <3>4 DEF Worker
  <2>3. Loaded'
    <3>1. tick' \in [Processes -> 0..MaxTicks] /\ active' = active
        BY <1>3, <1>4, <2>2
    <3>2. \A q \in Processes : active[q] + tick'[q] < MaxConcurrent + MaxTicks
        BY <1>3, <2>2 DEF Loaded
    <3>3. \A q \in Processes : BusySlots(q)' = BusySlots(q)
        BY <1>4 DEF BusySlots
    <3>4. \A q \in Processes : active[q] = Cardinality(BusySlots(q))
        BY <1>3 DEF Loaded
    <3>5. \A q \in Processes : /\ active'[q] = Cardinality(BusySlots(q)')
                               /\ active'[q] + tick'[q] < MaxConcurrent + MaxTicks
        BY <3>1, <3>2, <3>3, <3>4
    <3>6. active' \in [Processes -> Nat]
        BY <1>3, <3>1
    <3>7. QED
        BY <3>1, <3>5, <3>6 DEF Loaded
  <2>4. QED
      BY <1>2, <2>1, <2>3 DEF EarnedInvariant, TypedInvariant
<1>5. CASE TickFinds(p)
  <2> DEFINE s == CHOOSE i \in Slots : exec[p][i].pc = "free"
  <2>1. s \in Slots /\ exec[p][s].pc = "free"
    <3>1. Cardinality(BusySlots(p)) < Cardinality(Slots)
        BY <1>3, BusyIsFinite DEF Loaded
    <3>2. BusySlots(p) # Slots
        BY <3>1, <1>3, BusyIsFinite
    <3>3. \E i \in Slots : exec[p][i].pc = "free"
        BY <3>2 DEF BusySlots
    <3>4. QED
        BY <3>3
  <2>2. PICK u \in Runs : /\ OldestQueued(u)
                          /\ exec' = [exec EXCEPT ![p][s] = [FreeSlot EXCEPT !.pc = "claim", !.run = u]]
      BY <1>5 DEF TickFinds
  <2>3. /\ active' = [active EXCEPT ![p] = active[p] + 1]
        /\ tick[p] > 0
        /\ tick' = IF active[p] + 1 < MaxConcurrent THEN tick ELSE [tick EXCEPT ![p] = tick[p] - 1]
      BY <1>5 DEF TickFinds
  <2> HIDE DEF s
  <2> DEFINE e == [FreeSlot EXCEPT !.pc = "claim", !.run = u]
  <2>4. e \in ExecutionType /\ ExecutionSound(e) /\ e.pc = "claim" /\ e.run = u
    <3>1. FreeSlot \in ExecutionType
        BY BlankDocuments
    <3>2. e \in ExecutionType /\ e.pc = "claim" /\ e.run = u
        BY <3>1 DEF ExecutionType, Busy
    <3>3. QED
        BY <3>2 DEF ExecutionSound
  <2>5. exec' = [exec EXCEPT ![p][s] = e]
      BY <2>2
  <2> HIDE DEF e
  <2>6. ExecutionsTyped'
      BY <1>3, <2>1, <2>4, <2>5 DEF ExecutionsTyped
  <2>7. /\ \A q \in Processes \ {p} : BusySlots(q)' = BusySlots(q)
        /\ BusySlots(p)' = BusySlots(p) \union {s}
      BY <1>3, <2>1, <2>4, <2>5, SlotTaken
  <2>8. Cardinality(BusySlots(p)') = active[p] + 1
    <3>1. s \notin BusySlots(p)
        BY <2>1 DEF BusySlots
    <3>2. Cardinality(BusySlots(p) \union {s}) = Cardinality(BusySlots(p)) + 1
        BY <3>1, BusyIsFinite, FS_AddElement
    <3>3. QED
        BY <1>3, <2>7, <3>2 DEF Loaded
  <2>9. /\ tick' \in [Processes -> 0..MaxTicks] /\ \A q \in Processes \ {p} : tick'[q] = tick[q]
        /\ active[p] + 1 + tick'[p] < MaxConcurrent + MaxTicks
    <3>1. CASE active[p] + 1 < MaxConcurrent
      <4>1. tick' = tick
          BY <2>3, <3>1
      <4>2. QED
          BY <1>3, <3>1, <4>1
    <3>2. CASE ~(active[p] + 1 < MaxConcurrent)
      <4>1. tick' = [tick EXCEPT ![p] = tick[p] - 1]
          BY <2>3, <3>2
      <4>2. tick[p] - 1 \in 0..MaxTicks
          BY <1>3, <2>3
      <4>3. tick'[p] = tick[p] - 1
          BY <1>3, <4>1
      <4>4. QED
          BY <1>3, <4>1, <4>2, <4>3
    <3>3. QED
        BY <3>1, <3>2
  <2>10. Loaded'
    <3>1. active' \in [Processes -> Nat] /\ active'[p] = active[p] + 1
          /\ \A q \in Processes \ {p} : active'[q] = active[q]
        BY <1>3, <2>3
    <3>2. \A q \in Processes \ {p} : /\ active'[q] = Cardinality(BusySlots(q)')
                                     /\ active'[q] + tick'[q] < MaxConcurrent + MaxTicks
        BY <1>3, <2>7, <2>9, <3>1 DEF Loaded
    <3>3. active'[p] = Cardinality(BusySlots(p)') /\ active'[p] + tick'[p] < MaxConcurrent + MaxTicks
        BY <2>8, <2>9, <3>1
    <3>4. \A q \in Processes : /\ active'[q] = Cardinality(BusySlots(q)')
                               /\ active'[q] + tick'[q] < MaxConcurrent + MaxTicks
        BY <3>2, <3>3
    <3>5. tick' \in [Processes -> 0..MaxTicks] /\ active' \in [Processes -> Nat]
        BY <2>9, <3>1
    <3>6. QED
        BY <3>4, <3>5 DEF Loaded
  <2>11. Backed'
    <3>1. run[u].status = "queued" /\ run' = run /\ proven' = proven
        BY <1>1, <2>2 DEF OldestQueued
    <3>2. \A q \in Processes, t \in Slots : exec'[q][t] = exec[q][t] \/ exec'[q][t] = e
        BY <1>3, <2>5 DEF ExecutionsTyped
    <3>3. QED
        BY <1>3, <2>4, <3>1, <3>2 DEF Backed
  <2>12. QED
      BY <1>2, <2>6, <2>10, <2>11 DEF EarnedInvariant, TypedInvariant
<1>6. QED
    BY <1>4, <1>5 DEF Worker, TickStart, TickSkips, TickEnds, EvalVars

\* An execution goes on, or ends and is counted off.
LEMMA ExecutionEarns ==
    ASSUME EarnedInvariant, NEW p \in Processes, NEW s \in Slots, exec[p][s].pc # "free",
           NEW e \in ExecutionType, ExecutionSound(e), exec' = [exec EXCEPT ![p][s] = e],
           \/ e.pc # "free" /\ active' = active
           \/ e.pc = "free" /\ active' = [active EXCEPT ![p] = active[p] - 1],
           UNCHANGED <<data, rules, tick, click>>, rec' \in [Recs -> Doc], PassedHasEvidence',
           RunsTyped', RunsGoOn, proven \subseteq proven',
           e.pc # "free" =>
              /\ run'[e.run].status # "none"
              /\ e.pc = "rec" /\ e.out = "passed" /\ run'[e.run].rec \in Recs
                   => run'[e.run].rec \in proven'
    PROVE  EarnedInvariant'
<1>1. /\ Loaded /\ Backed /\ ExecutionsTyped
      /\ tick \in [Processes -> 0..MaxTicks] /\ active \in [Processes -> Nat]
      /\ MaxTicks \in Nat /\ MaxConcurrent \in Nat
    BY EvalAssumption DEF EvalAssumption, EarnedInvariant, TypedInvariant, Loaded
<1>2. RecsTyped' /\ HandlersTyped'
    BY DEF EarnedInvariant, TypedInvariant, RecsTyped, HandlersTyped
<1>3. ExecutionsTyped' /\ \A q \in Processes, t \in Slots : q # p \/ t # s => exec'[q][t] = exec[q][t]
    BY <1>1 DEF ExecutionsTyped
<1>4. exec'[p][s] = e
    BY <1>1 DEF ExecutionsTyped
<1>5. s \in BusySlots(p)
    BY DEF BusySlots
<1>6. Loaded'
  <2>1. \A q \in Processes \ {p} : BusySlots(q)' = BusySlots(q)
      BY <1>1, SlotTaken
  <2>2. CASE e.pc # "free" /\ active' = active
    <3>1. BusySlots(p)' = BusySlots(p) \union {s}
        BY <1>1, <2>2, SlotTaken
    <3>2. \A q \in Processes : BusySlots(q)' = BusySlots(q)
        BY <1>5, <2>1, <3>1
    <3>3. \A q \in Processes : /\ active[q] = Cardinality(BusySlots(q))
                               /\ active[q] + tick[q] < MaxConcurrent + MaxTicks
        BY <1>1 DEF Loaded
    <3>4. \A q \in Processes : /\ active'[q] = Cardinality(BusySlots(q)')
                               /\ active'[q] + tick'[q] < MaxConcurrent + MaxTicks
        BY <2>2, <3>2, <3>3
    <3>5. QED
        BY <1>1, <2>2, <3>4 DEF Loaded
  <2>3. CASE e.pc = "free" /\ active' = [active EXCEPT ![p] = active[p] - 1]
    <3>1. BusySlots(p)' = BusySlots(p) \ {s}
        BY <1>1, <2>3, SlotTaken
    <3>2. Cardinality(BusySlots(p) \ {s}) = Cardinality(BusySlots(p)) - 1
        BY <1>5, BusyIsFinite, FS_RemoveElement
    <3>3. Cardinality(BusySlots(p) \ {s}) \in Nat
        BY BusyIsFinite, FS_RemoveElement, FS_CardinalityType
    <3>4. /\ active[p] = Cardinality(BusySlots(p)) /\ active[p] \in Nat /\ tick[p] \in 0..MaxTicks
          /\ active[p] + tick[p] < MaxConcurrent + MaxTicks
        BY <1>1 DEF Loaded
    <3>5. active'[p] = active[p] - 1 /\ active' \in [Processes -> Nat]
          /\ \A q \in Processes \ {p} : active'[q] = active[q]
        BY <1>1, <2>3, <3>2, <3>3, <3>4
    <3>6. active'[p] = Cardinality(BusySlots(p)') /\ active'[p] + tick[p] < MaxConcurrent + MaxTicks
        BY <1>1, <3>1, <3>2, <3>4, <3>5
    <3>7. \A q \in Processes \ {p} : /\ active'[q] = Cardinality(BusySlots(q)')
                                     /\ active'[q] + tick[q] < MaxConcurrent + MaxTicks
        BY <1>1, <2>1, <3>5 DEF Loaded
    <3>8. QED
        BY <1>1, <3>5, <3>6, <3>7 DEF Loaded
  <2>4. QED
      BY <2>2, <2>3
<1>7. Backed'
  <2>1. SUFFICES ASSUME NEW q \in Processes, NEW t \in Slots, exec'[q][t].pc # "free"
                 PROVE  /\ run'[exec'[q][t].run].status # "none"
                        /\ exec'[q][t].pc = "rec" /\ exec'[q][t].out = "passed"
                           /\ run'[exec'[q][t].run].rec \in Recs => run'[exec'[q][t].run].rec \in proven'
      BY DEF Backed
  <2>2. CASE q = p /\ t = s
      BY <1>4, <2>1, <2>2
  <2>3. CASE q # p \/ t # s
    <3>1. exec'[q][t] = exec[q][t]
        BY <1>3, <2>3
    <3>2. PICK u \in Runs : u = exec[q][t].run
        BY <1>1, <2>1, <3>1 DEF ExecutionsTyped, ExecutionSound
    <3>3. None \notin Recs
        BY EvalAssumption DEF EvalAssumption
    <3>4. run[u].status # "none"
        BY <1>1, <2>1, <3>1, <3>2 DEF Backed
    <3>5. run'[u].status # "none" /\ run'[u].rec \in {run[u].rec, None}
        BY <3>4 DEF RunsGoOn
    <3>6. QED
        BY <1>1, <2>1, <3>1, <3>2, <3>3, <3>5 DEF Backed
  <2>4. QED
      BY <2>2, <2>3
<1>8. QED
    BY <1>2, <1>3, <1>6, <1>7 DEF EarnedInvariant, TypedInvariant


LEMMA ExecuteEarns ==
    ASSUME EarnedInvariant, NEW p \in Processes, NEW s \in Slots, Execute(p, s)
    PROVE  EarnedInvariant'
<1> DEFINE e == exec[p][s]
<1>1. /\ Loaded /\ Backed /\ ExecutionsTyped /\ RunsTyped /\ PassedHasEvidence
      /\ rec \in [Recs -> Doc] /\ run \in [Runs -> RunDoc] /\ None \notin Recs
    BY EvalAssumption DEF EvalAssumption, EarnedInvariant, TypedInvariant, RecsTyped, RunsTyped
<1>2. /\ exec \in [Processes -> [Slots -> ExecutionType]] /\ e \in ExecutionType /\ ExecutionSound(e)
    BY <1>1 DEF ExecutionsTyped
<1>3. e.pc # "free" /\ e.run \in Runs /\ run[e.run].status # "none"
  <2>1. e.pc # "free"
      BY DEF Execute, Claim, CannotReplay, Replay, Evaluate, SaveRun, TellRec
  <2>2. QED
      BY <1>1, <1>2, <2>1 DEF ExecutionSound, Backed
<1>4. PICK u \in Runs : u = e.run
    BY <1>3
<1>5. run[u] \in RunDoc /\ run[u].rec \in Recs \union {None} /\ run[u].status # "none"
    BY <1>1, <1>3, <1>4 DEF RunDoc
<1>6. ASSUME NEW k \in ExecutionType, ExecutionSound(k), exec' = [exec EXCEPT ![p][s] = k],
             k.pc # "free" => k.run = u /\ k.pc # "rec", UNCHANGED <<data, rules, tick, click, rec, proven>>,
             RunsTyped', RunsGoOn,
             \/ k.pc # "free" /\ active' = active
             \/ k.pc = "free" /\ active' = [active EXCEPT ![p] = active[p] - 1]
      PROVE  EarnedInvariant'
  <2>1. rec' \in [Recs -> Doc] /\ PassedHasEvidence' /\ proven \subseteq proven'
      BY <1>1, <1>6 DEF PassedHasEvidence
  <2>2. run'[u].status # "none"
      BY <1>5, <1>6 DEF RunsGoOn
  <2>3. QED
      BY <1>3, <1>6, <2>1, <2>2, ExecutionEarns
<1>7. ASSUME NEW pc \in {"replay", "save"}, NEW seen \in Seq(Verdicts), NEW out \in Ends \union {None},
             pc = "save" => out \in Ends,
             exec' = [exec EXCEPT ![p][s] = [e EXCEPT !.pc = pc, !.seen = seen, !.out = out]],
             UNCHANGED <<data, rules, tick, click, rec, proven, active>>, RunsTyped', RunsGoOn
      PROVE  EarnedInvariant'
  <2> DEFINE k == [e EXCEPT !.pc = pc, !.seen = seen, !.out = out]
  <2>1. k \in ExecutionType /\ ExecutionSound(k) /\ k.pc = pc /\ k.run = u
      BY <1>2, <1>3, <1>4, <1>7 DEF ExecutionType, ExecutionSound, Busy
  <2>2. exec' = [exec EXCEPT ![p][s] = k]
      BY <1>7
  <2> HIDE DEF k
  <2>3. QED
      BY <1>6, <1>7, <2>1, <2>2
<1>8. ASSUME Leave(p, s), UNCHANGED <<data, rules, tick, click, rec, proven>>, RunsTyped', RunsGoOn
      PROVE  EarnedInvariant'
  <2>1. exec' = [exec EXCEPT ![p][s] = FreeSlot] /\ active' = [active EXCEPT ![p] = active[p] - 1]
      BY <1>8 DEF Leave
  <2>2. QED
      BY <1>6, <1>8, <2>1, BlankDocuments
<1>9. CASE Claim(p, s)
  <2>1. UNCHANGED <<data, rules, tick, click, rec, proven, results>>
      BY <1>9 DEF Claim
  <2>2. CASE /\ run' = [run EXCEPT ![u].status = "running"]
             /\ exec' = [exec EXCEPT ![p][s].pc = "replay"] /\ UNCHANGED active
    <3>1. run' \in [Runs -> RunDoc] /\ RunsGoOn
        BY <1>1, <2>2, StatusTyped DEF RunStatuses
    <3>2. RunsTyped'
        BY <1>1, <2>1, <3>1 DEF RunsTyped
    <3>3. e.seen \in Seq(Verdicts) /\ e.out \in Ends \union {None}
        BY <1>2 DEF ExecutionType
    <3>4. [e EXCEPT !.pc = "replay", !.seen = e.seen, !.out = e.out] = [e EXCEPT !.pc = "replay"]
        BY <1>2 DEF ExecutionType
    <3>5. exec' = [exec EXCEPT ![p][s] = [e EXCEPT !.pc = "replay"]]
        BY <2>2
    <3>6. QED
        BY <1>7, <2>1, <2>2, <3>1, <3>2, <3>3, <3>4, <3>5
  <2>3. CASE Leave(p, s) /\ UNCHANGED run
    <3>1. RunsTyped' /\ RunsGoOn
        BY <1>1, <2>1, <2>3, RunsStay DEF RunsTyped
    <3>2. QED
        BY <1>8, <2>1, <2>3, <3>1
  <2>4. QED
      BY <1>4, <1>9, <2>2, <2>3 DEF Claim, Goto
<1>10. CASE CannotReplay(p, s)
  <2>1. /\ UNCHANGED <<data, rules, tick, click, rec, proven, results, run, active>>
        /\ exec' = [exec EXCEPT ![p][s].pc = "save", ![p][s].out = "failed"]
      BY <1>10 DEF CannotReplay
  <2>2. RunsTyped' /\ RunsGoOn
      BY <1>1, <2>1, RunsStay DEF RunsTyped
  <2>3. exec' = [exec EXCEPT ![p][s] = [e EXCEPT !.pc = "save", !.seen = e.seen, !.out = "failed"]]
    <3>1. exec' = [exec EXCEPT ![p][s] = [e EXCEPT !.pc = "save", !.out = "failed"]]
        BY <2>1
    <3>2. [e EXCEPT !.pc = "save", !.seen = e.seen, !.out = "failed"] = [e EXCEPT !.pc = "save", !.out = "failed"]
        BY <1>2 DEF ExecutionType
    <3>3. QED
        BY <3>1, <3>2
  <2>4. e.seen \in Seq(Verdicts) /\ "failed" \in Ends
      BY <1>2 DEF ExecutionType, Ends
  <2>5. QED
      BY <1>7, <2>1, <2>2, <2>3, <2>4
<1>11. CASE Evaluate(p, s)
  <2>1. PICK out \in {"passed", "failed"} :
           /\ UNCHANGED <<data, rules, tick, click, rec, proven, results, run, active>>
           /\ exec' = [exec EXCEPT ![p][s].pc = "save", ![p][s].seen = <<>>, ![p][s].out = out]
      BY <1>11 DEF Evaluate
  <2>2. RunsTyped' /\ RunsGoOn
      BY <1>1, <2>1, RunsStay DEF RunsTyped
  <2>3. exec' = [exec EXCEPT ![p][s] = [e EXCEPT !.pc = "save", !.seen = <<>>, !.out = out]]
      BY <2>1
  <2>4. <<>> \in Seq(Verdicts) /\ out \in Ends
      BY DEF Ends
  <2>5. QED
      BY <1>7, <2>1, <2>2, <2>3, <2>4
<1>12. CASE Replay(p, s)
  <2>1. UNCHANGED <<data, rules, tick, click, rec, proven, run, active>> /\ e.pc = "replay"
      BY <1>12 DEF Replay
  <2>2. e.seen \in Seq(Verdicts) /\ e.out \in Ends \union {None}
      BY <1>2 DEF ExecutionType
  <2>3. CASE exec' = [exec EXCEPT ![p][s].pc = "save", ![p][s].out = "cancelled"] /\ UNCHANGED results
    <3>1. RunsTyped' /\ RunsGoOn
        BY <1>1, <2>1, <2>3, RunsStay DEF RunsTyped
    <3>2. exec' = [exec EXCEPT ![p][s] = [e EXCEPT !.pc = "save", !.out = "cancelled"]]
        BY <2>3
    <3>3. [e EXCEPT !.pc = "save", !.seen = e.seen, !.out = "cancelled"]
              = [e EXCEPT !.pc = "save", !.out = "cancelled"]
        BY <1>2 DEF ExecutionType
    <3>4. "cancelled" \in Ends
        BY DEF Ends
    <3>5. QED
        BY <1>7, <2>1, <2>2, <3>1, <3>2, <3>3, <3>4
  <2>4. ASSUME NEW v \in Verdicts, exec' = [exec EXCEPT ![p][s].seen = Append(e.seen, v)],
               results' = [results EXCEPT ![u] = Append(results[u], v)]
        PROVE  EarnedInvariant'
    <3>1. Append(e.seen, v) \in Seq(Verdicts) /\ Append(results[u], v) \in Seq(Verdicts)
        BY <1>1, <2>2 DEF RunsTyped
    <3>2. RunsTyped' /\ RunsGoOn
        BY <1>1, <2>1, <2>4, <3>1, RunsStay DEF RunsTyped
    <3>3. exec' = [exec EXCEPT ![p][s] = [e EXCEPT !.seen = Append(e.seen, v)]]
        BY <2>4
    <3>4. [e EXCEPT !.pc = "replay", !.seen = Append(e.seen, v), !.out = e.out]
              = [e EXCEPT !.seen = Append(e.seen, v)]
        BY <1>2, <2>1 DEF ExecutionType
    <3>5. QED
        BY <1>7, <2>1, <2>2, <3>1, <3>2, <3>3, <3>4
  <2>5. QED
      BY <1>4, <1>12, <2>3, <2>4 DEF Replay
<1>13. CASE SaveRun(p, s)
  <2>1. UNCHANGED <<rec, data, results, rules, tick, click>> /\ e.pc = "save" /\ e.out \in Ends
      BY <1>2, <1>13 DEF SaveRun, ExecutionSound
  <2>2. CASE Leave(p, s) /\ UNCHANGED <<run, proven>>
    <3>1. RunsTyped' /\ RunsGoOn
        BY <1>1, <2>1, <2>2, RunsStay DEF RunsTyped
    <3>2. QED
        BY <1>8, <2>1, <2>2, <3>1
  <2>3. CASE InStore(u)
    <3>1. /\ run' = [run EXCEPT ![u].status = e.out]
          /\ proven' = IF e.out = "passed" THEN proven \union {run[u].rec} ELSE proven
          /\ \/ exec' = [exec EXCEPT ![p][s].pc = "rec", ![p][s].read = rec[run[u].rec]]
                /\ UNCHANGED active /\ Exists(run[u].rec)
             \/ Leave(p, s)
        BY <1>4, <1>13, <2>3 DEF SaveRun
    <3>2. PICK out \in Ends : out = e.out
        BY <2>1
    <3>3. out \in RunStatuses \ {"none"} /\ run' = [run EXCEPT ![u].status = out]
        BY <3>1, <3>2 DEF Ends, RunStatuses
    <3>4. run' \in [Runs -> RunDoc] /\ RunsGoOn
        BY <1>1, <3>3, StatusTyped
    <3>5. RunsTyped' /\ proven \subseteq proven' /\ PassedHasEvidence' /\ rec' \in [Recs -> Doc]
        BY <1>1, <2>1, <3>1, <3>4 DEF RunsTyped, PassedHasEvidence
    <3>6. CASE Leave(p, s)
      <4>1. exec' = [exec EXCEPT ![p][s] = FreeSlot] /\ active' = [active EXCEPT ![p] = active[p] - 1]
          BY <3>6 DEF Leave
      <4>2. QED
          BY <1>3, <2>1, <3>4, <3>5, <4>1, BlankDocuments, ExecutionEarns
    <3>7. CASE /\ exec' = [exec EXCEPT ![p][s].pc = "rec", ![p][s].read = rec[run[u].rec]]
               /\ UNCHANGED active /\ Exists(run[u].rec)
      <4> DEFINE k == [e EXCEPT !.pc = "rec", !.read = rec[run[u].rec]]
      <4>1. exec' = [exec EXCEPT ![p][s] = k]
          BY <3>7
      <4>2. rec[run[u].rec] \in Doc
        <5>1. run[u].rec \in Recs
            BY <1>5, <3>7 DEF Exists
        <5>2. QED
            BY <1>1, <5>1
      <4>3. k \in ExecutionType /\ ExecutionSound(k) /\ k.pc = "rec" /\ k.run = u /\ k.out = e.out
          BY <1>2, <1>4, <2>1, <4>2 DEF ExecutionType, ExecutionSound, Busy
      <4> HIDE DEF k
      <4>4. run'[u].status # "none" /\ run'[u].rec = run[u].rec
          BY <1>1, <3>3 DEF RunDoc
      <4>5. k.out = "passed" => run'[k.run].rec \in proven'
          BY <3>1, <4>3, <4>4
      <4>6. QED
          BY <1>3, <2>1, <3>4, <3>5, <3>7, <4>1, <4>3, <4>4, <4>5, ExecutionEarns
    <3>8. QED
        BY <3>1, <3>6, <3>7
  <2>4. QED
      BY <1>4, <1>13, <2>2, <2>3 DEF SaveRun
<1>14. CASE TellRec(p, s)
  <2> DEFINE r == run[e.run].rec
             said == IF e.out = "cancelled" THEN "dataset_ready" ELSE e.out
  <2>1. /\ UNCHANGED <<data, run, results, rules, tick, click, proven>> /\ e.pc = "rec" /\ e.out \in Ends
        /\ exec' = [exec EXCEPT ![p][s] = FreeSlot] /\ active' = [active EXCEPT ![p] = active[p] - 1]
      BY <1>2, <1>14 DEF TellRec, ExecutionSound, Leave
  <2>2. RunsTyped' /\ RunsGoOn
      BY <1>1, <2>1, RunsStay DEF RunsTyped
  <2>3. rec' \in [Recs -> Doc] /\ PassedHasEvidence'
    <3>1. CASE UNCHANGED rec
        BY <1>1, <2>1, <3>1 DEF PassedHasEvidence
    <3>2. CASE Exists(r) /\ SaveRec(r, e.read, [e.read EXCEPT !.run = e.run, !.eval = said])
      <4>1. r \in Recs
          BY <1>4, <1>5, <3>2 DEF Exists
      <4>2. e.read \in Doc
          BY <1>2 DEF ExecutionType
      <4>3. said \in EvalStatuses /\ (said = "passed" => e.out = "passed")
          BY <2>1 DEF Ends, EvalStatuses
      <4> HIDE DEF said
      <4>4. /\ [e.read EXCEPT !.run = e.run, !.eval = said] \in Doc
            /\ [e.read EXCEPT !.run = e.run, !.eval = said].eval = said
          BY <1>3, <4>2, <4>3 DEF Doc
      <4>5. PICK q \in Recs, read \in Doc, changed \in Doc :
               q = r /\ read = e.read /\ changed = [e.read EXCEPT !.run = e.run, !.eval = said]
          BY <4>1, <4>2, <4>4
      <4>6. SaveRec(q, read, changed)
          BY <3>2, <4>5
      <4>7. /\ rec' \in [Recs -> Doc]
            /\ \A t \in Recs : rec'[t].eval = "passed" =>
                  rec[t].eval = "passed" \/ (t = q /\ changed.eval = "passed" /\ read.eval # "passed")
          BY <1>1, <4>6, RecSaved
      <4>8. e.out = "passed" => r \in proven
          BY <1>1, <2>1, <4>1 DEF Backed
      <4>9. changed.eval = "passed" => e.out = "passed"
          BY <4>3, <4>4, <4>5
      <4>10. QED
          BY <1>1, <2>1, <4>5, <4>7, <4>8, <4>9 DEF PassedHasEvidence
    <3>3. QED
        BY <1>14, <3>1, <3>2 DEF TellRec
  <2>4. QED
      BY <1>3, <2>1, <2>2, <2>3, BlankDocuments, ExecutionEarns
<1>15. QED
    BY <1>9, <1>10, <1>11, <1>12, <1>13, <1>14 DEF Execute

LEMMA CrashEarns ==
    ASSUME EarnedInvariant, NEW p \in Processes, EvalCrash(p)
    PROVE  EarnedInvariant'
<1>1. /\ Loaded /\ Backed /\ ExecutionsTyped /\ HandlersTyped
      /\ tick \in [Processes -> 0..MaxTicks] /\ active \in [Processes -> Nat]
      /\ MaxTicks \in Nat /\ MaxConcurrent \in Nat \ {0}
    BY EvalAssumption DEF EvalAssumption, EarnedInvariant, TypedInvariant, Loaded
<1>2. /\ UNCHANGED <<rec, data, run, results, rules, proven>>
      /\ tick' = [tick EXCEPT ![p] = 0] /\ active' = [active EXCEPT ![p] = 0]
      /\ exec' = [exec EXCEPT ![p] = [s \in Slots |-> FreeSlot]]
    BY DEF EvalCrash
<1>3. RecsTyped' /\ RunsTyped' /\ PassedHasEvidence'
    BY <1>2 DEF EarnedInvariant, TypedInvariant, RecsTyped, RunsTyped, PassedHasEvidence
<1>4. HandlersTyped'
  <2>1. PICK lost \in SUBSET Clicks :
           click' = [c \in Clicks |-> IF c \in lost THEN IdleClick ELSE click[c]]
      BY DEF EvalCrash
  <2>2. QED
      BY <1>1, <2>1, BlankDocuments DEF HandlersTyped
<1>5. /\ ExecutionsTyped' /\ \A s \in Slots : exec'[p][s].pc = "free"
      /\ \A q \in Processes : q # p => exec'[q] = exec[q]
    BY <1>1, <1>2, BlankDocuments DEF ExecutionsTyped
<1>6. Loaded'
  <2>1. BusySlots(p)' = {} /\ \A q \in Processes : q # p => BusySlots(q)' = BusySlots(q)
      BY <1>5 DEF BusySlots
  <2>2. Cardinality(BusySlots(p)') = 0
      BY <2>1, FS_EmptySet
  <2>3. /\ tick' \in [Processes -> 0..MaxTicks] /\ active' \in [Processes -> Nat]
        /\ tick'[p] = 0 /\ active'[p] = 0
        /\ \A q \in Processes : q # p => tick'[q] = tick[q] /\ active'[q] = active[q]
      BY <1>1, <1>2
  <2>4. \A q \in Processes : /\ active[q] = Cardinality(BusySlots(q))
                             /\ active[q] + tick[q] < MaxConcurrent + MaxTicks
      BY <1>1 DEF Loaded
  <2>5. \A q \in Processes : /\ active'[q] = Cardinality(BusySlots(q)')
                             /\ active'[q] + tick'[q] < MaxConcurrent + MaxTicks
    <3>1. 0 + 0 < MaxConcurrent + MaxTicks
        BY <1>1
    <3>2. QED
        BY <2>1, <2>2, <2>3, <2>4, <3>1
  <2>6. QED
      BY <2>3, <2>5 DEF Loaded
<1>7. Backed'
    BY <1>1, <1>2, <1>5 DEF Backed
<1>8. QED
    BY <1>3, <1>4, <1>5, <1>6, <1>7 DEF EarnedInvariant, TypedInvariant

LEMMA EarnedStep == EarnedInvariant /\ [EvalNext]_EvalVars => EarnedInvariant'
<1> SUFFICES ASSUME EarnedInvariant, [EvalNext]_EvalVars PROVE EarnedInvariant'
    OBVIOUS
<1>1. CASE EvalNext
    BY <1>1, WorkerEarns, CrashEarns, ExecuteEarns, ConsoleKeepsEarned DEF EvalNext
<1>2. CASE UNCHANGED EvalVars
    BY <1>2 DEF EvalVars, EarnedInvariant, TypedInvariant, RecsTyped, RunsTyped, HandlersTyped,
       ExecutionsTyped, Loaded, BusySlots, Backed, PassedHasEvidence
<1>3. QED
    BY <1>1, <1>2

\* Documents, runs and results, and what a worker counts, stay what the handlers can
\* produce, for any number of recommendations, runs, workers and console requests.
THEOREM EvalTypeCorrect == EvalSpec => []EvalTypeOK
<1>1. EarnedInvariant => EvalTypeOK
  <2> SUFFICES ASSUME EarnedInvariant PROVE EvalTypeOK
      OBVIOUS
  <2>1. RecsTyped /\ RunsTyped /\ Loaded
      BY DEF EarnedInvariant, TypedInvariant
  <2>2. QED
      BY <2>1 DEF RecsTyped, RunsTyped, Loaded, Doc, RunDoc, EvalTypeOK
<1>2. QED
    BY <1>1, EarnedInitial, EarnedStep, PTL DEF EvalSpec

\* No run is executed twice, no worker executes more than it wants and its overlapping
\* ticks add, and a recommendation whose evaluation passed has had a run that passed,
\* whatever is saved late, cancelled, deleted or dies (worker.js:16-23, replay.js:277-290).
THEOREM VerdictsAlwaysEarned == EvalSpec => []VerdictsAreEarned
<1>1. EarnedInvariant /\ ExecutedOnce => VerdictsAreEarned
  <2> SUFFICES ASSUME EarnedInvariant, ExecutedOnce PROVE VerdictsAreEarned
      OBVIOUS
  <2>1. ASSUME NEW p \in Processes
        PROVE  /\ active[p] = Cardinality({s \in Slots : exec[p][s].pc # "free"})
               /\ active[p] < MaxConcurrent + MaxTicks
    <3>1. active[p] = Cardinality(BusySlots(p))
        BY DEF EarnedInvariant, Loaded
    <3>2. /\ active[p] \in Nat /\ tick[p] \in 0..MaxTicks /\ MaxTicks \in Nat /\ MaxConcurrent \in Nat
          /\ active[p] + tick[p] < MaxConcurrent + MaxTicks
        BY EvalAssumption DEF EvalAssumption, EarnedInvariant, Loaded
    <3>3. active[p] < MaxConcurrent + MaxTicks
        BY <3>2
    <3>4. active[p] = Cardinality({s \in Slots : exec[p][s].pc # "free"})
        BY <3>1 DEF BusySlots
    <3>5. QED
        BY <3>3, <3>4
  <2>2. LoadBounded
      BY <2>1 DEF LoadBounded
  <2>3. PassedHasEvidence
      BY DEF EarnedInvariant
  <2>4. QED
      BY <2>2, <2>3 DEF VerdictsAreEarned
<1>2. QED
    BY <1>1, EarnedInitial, EarnedStep, RunsExecutedOnce, PTL DEF EvalSpec
-----------------------------------------------------------------------------
(* The views of recommendations.                                              *)

RuleNames == {"accept", "promote"}
RuleStates == {"none", "off", "on"}
RecDoc == [status : {"pending", "accepted", "dismissed"}, verdict : {"none", "passed", "overridden"},
           dataset : BOOLEAN, run : BOOLEAN, campaign : BOOLEAN, canary : 0..2]
RunStates == {"none", "queued", "running", "passed", "failed", "cancelled"}
CampaignStates == {"none", "active", "paused", "done"}
CanaryDoc == [status : {"none", "active", "paused", "rolled_back", "promoted"}, by : {"nobody", "hand", "monitor"}]
Documents == [rec : RecDoc, run : RunStates, campaign : CampaignStates, canary : [Canaries -> CanaryDoc],
              rules : [accept : RuleStates, promote : RuleStates], entries : SUBSET Canaries]
PaperType == [pc : {"idle", "reading", "measuring", "done"}, kind : {"none", "list", "report", "outcome"},
              left : SUBSET Linked, seen : Documents, live : BOOLEAN, on : SUBSET RuleNames,
              ever : SUBSET RuleNames, known : SUBSET Canaries, still : BOOLEAN]

\* What a view has read is what was stored at some time since it was opened: the rules it
\* saw on include those that stayed on, the entries those there were when it began, and
\* while nothing is written all of it is what is stored.
SeenWhile(p) ==
    /\ p.on \subseteq On(filed) /\ On(filed) \subseteq p.ever /\ p.known \subseteq filed.entries
    /\ "rules" \notin p.left => p.on \subseteq On(p.seen) /\ On(p.seen) \subseteq p.ever
    /\ (p.kind = "report" /\ p.pc # "reading") =>
          p.known \subseteq p.seen.entries /\ p.seen.entries \subseteq filed.entries
SeenNow(p) ==
    /\ p.seen.rec = filed.rec
    /\ "run" \notin p.left => p.seen.run = filed.run
    /\ "campaign" \notin p.left => p.seen.campaign = filed.campaign
    /\ "canary" \notin p.left => p.seen.canary = filed.canary
    /\ "rules" \notin p.left => p.seen.rules = filed.rules
InOrder(p) ==
    /\ p.kind # "none"
    /\ p.pc = "reading" => p.kind # "outcome"
    /\ p.pc = "measuring" => p.kind # "list"
    /\ (p.pc # "reading" /\ p.kind # "outcome") => p.left = {}
    /\ p.kind = "outcome" => p.left = Linked
    /\ (p.pc = "measuring" /\ p.kind = "report") => On(p.seen) # {}
Measured(p) ==
    /\ p.pc # "done" => ~p.live
    /\ (p.pc = "done" /\ p.kind = "report") =>
          /\ (On(p.seen) # {} /\ ~p.live) => p.on = {}
          /\ On(p.seen) = {} => ~p.live
    /\ (p.pc = "done" /\ p.kind # "list" /\ p.still) => p.live = (On(filed) # {})
Pages(p) == p.pc # "idle" => SeenWhile(p) /\ (p.still => SeenNow(p)) /\ InOrder(p) /\ Measured(p)
ReportTypes ==
    /\ filed \in Documents /\ paper \in PaperType
    /\ paper.pc = "idle" => paper = NoPaper
ReportInvariant == ReportTypes /\ Pages(paper)

\* The stage is live only when a rule is on, and is when the recommendation was not
\* dismissed.
LEMMA LiveStage ==
    ASSUME NEW d
    PROVE  /\ DeriveStage(d) = "promoted_live" => On(d) # {}
           /\ (On(d) # {} /\ d.rec.status # "dismissed") => DeriveStage(d) = "promoted_live"
<1> DEFINE p == Precedence(d)
           First(i) == p[i][2] /\ \A j \in 1..(i - 1) : ~p[j][2]
           k == CHOOSE i \in DOMAIN p : First(i)
<1>1. DOMAIN p = 1..11
    BY DEF Precedence
<1>8. d.rec.status # "dismissed" => ~p[1][2]
    BY DEF Precedence
<1>9. p[2][2] <=> On(d) # {}
    BY DEF Precedence
<1>10. p[2][1] = "promoted_live" /\ p[11][2]
    BY DEF Precedence
<1>2. \A i \in 1..11 : i # 2 => p[i][1] # "promoted_live"
    BY DEF Precedence
<1>3. DeriveStage(d) = p[k][1]
    BY DEF DeriveStage
<1> HIDE DEF p
<1>4. \E i \in DOMAIN p : First(i)
    <2> DEFINE T == {j \in 1..11 : p[j][2]}
    <2>1. 11 \in T
        BY <1>10
    <2>2. \E l \in T : \A j \in T : l <= j
        BY <2>1
    <2>3. QED
        BY <1>1, <2>2
<1>5. k \in 1..11 /\ First(k)
    BY <1>1, <1>4
<1> HIDE DEF k
<1>6. ASSUME On(d) # {}, d.rec.status # "dismissed" PROVE k = 2
    <2>1. ~(k > 2)
        <3>1. SUFFICES ASSUME k > 2 PROVE FALSE
            OBVIOUS
        <3>2. 2 \in 1..(k - 1)
            BY <1>5, <3>1
        <3>3. QED
            BY <1>5, <1>6, <1>9, <3>2
    <2>2. k # 1
        BY <1>5, <1>6, <1>8
    <2>3. QED
        BY <1>5, <2>1, <2>2
<1>7. QED
    <2>1. ASSUME On(d) # {}, d.rec.status # "dismissed" PROVE DeriveStage(d) = "promoted_live"
        BY <1>3, <1>6, <1>10, <2>1
    <2>2. ASSUME DeriveStage(d) = "promoted_live" PROVE On(d) # {}
        <3>1. k = 2
            BY <1>2, <1>3, <1>5, <2>2
        <3>2. QED
            BY <1>5, <1>9, <3>1
    <2>3. QED
        BY <2>1, <2>2

\* Nothing else of the documents matters for the stage than what a view reads.
LEMMA SameStage ==
    ASSUME NEW d, NEW e, d.rec = e.rec, d.run = e.run, d.campaign = e.campaign, d.canary = e.canary,
           d.rules = e.rules
    PROVE  DeriveStage(d) = DeriveStage(e)
<1>1. Precedence(d) = Precedence(e)
    BY DEF Precedence, On
<1>2. QED
    BY <1>1 DEF DeriveStage

\* A write leaves documents, and the entries that there are.
LEMMA WritesKeepDocuments ==
    ASSUME ReportTypes, Writes
    PROVE  filed' \in Documents /\ filed.entries \subseteq filed'.entries
<1> USE DEF ReportTypes, Documents
<1>1. filed \in Documents
    BY DEF ReportTypes
<1>a. filed.rec \in RecDoc
    BY <1>1
<1>2. ASSUME LinkDataset \/ NoteOverride \/ AcceptRule \/ AcceptSaves \/ PromotedSaves \/ DismissIt
      PROVE  filed' \in Documents /\ filed.entries \subseteq filed'.entries
    <2>1. CASE LinkDataset
        BY <1>1, <2>1 DEF LinkDataset, Write, Now, RecDoc
    <2>2. CASE NoteOverride
        BY <1>1, <2>2 DEF NoteOverride, Write, Now, RecDoc
    <2>3. CASE AcceptRule
        BY <1>1, <2>3 DEF AcceptRule, Write, Now, RuleStates
    <2>4. CASE DismissIt
        BY <1>1, <2>4 DEF DismissIt, Write, Now, RecDoc
    <2>5. CASE AcceptSaves \/ PromotedSaves
        <3>1. \/ filed' = [filed EXCEPT !.rec.status = "accepted"]
              \/ \E x \in {"overridden", "passed"} :
                    filed' = [filed EXCEPT !.rec.status = "accepted", !.rec.verdict = x]
            BY <2>5 DEF AcceptSaves, PromotedSaves, Write, Now
        <3>2. CASE filed' = [filed EXCEPT !.rec.status = "accepted"]
            BY <1>1, <3>2 DEF RecDoc
        <3>3. ASSUME NEW x \in {"overridden", "passed"},
                     filed' = [filed EXCEPT !.rec.status = "accepted", !.rec.verdict = x]
              PROVE  filed' \in Documents /\ filed.entries \subseteq filed'.entries
            <4>1. [filed.rec EXCEPT !.status = "accepted", !.verdict = x] \in RecDoc
                BY <1>a DEF RecDoc
            <4>2. filed' = [filed EXCEPT !.rec = [filed.rec EXCEPT !.status = "accepted", !.verdict = x]]
                BY <1>1, <3>3 DEF RecDoc
            <4>3. QED
                BY <1>1, <4>1, <4>2
        <3>4. QED
            BY <3>1, <3>2, <3>3
    <2>6. QED
        BY <1>2, <2>1, <2>2, <2>3, <2>4, <2>5
<1>3. ASSUME RunLinked \/ RunMoves \/ RunDeleted \/ RunUnlinked
      PROVE  filed' \in Documents /\ filed.entries \subseteq filed'.entries
    <2>1. CASE RunLinked \/ RunDeleted
        <3>1. CASE RunDeleted
            BY <1>1, <3>1 DEF RunDeleted, Write, Now, RunStates
        <3>2. CASE RunLinked
            <4>1. filed' = [filed EXCEPT !.rec = [filed.rec EXCEPT !.run = TRUE, !.verdict = "none"], !.run = "queued"]
                BY <1>1, <3>2 DEF RunLinked, Write, Now, RecDoc
            <4>2. [filed.rec EXCEPT !.run = TRUE, !.verdict = "none"] \in RecDoc
                BY <1>a DEF RecDoc
            <4>3. QED
                BY <1>1, <4>1, <4>2 DEF RunStates
        <3>3. QED
            BY <2>1, <3>1, <3>2
    <2>2. CASE RunMoves
        <3>1. \E x \in RunStates : filed' = [filed EXCEPT !.run = x]
            BY <2>2 DEF RunMoves, Write, Now, RunStates
        <3>2. QED
            BY <1>1, <3>1
    <2>3. CASE RunUnlinked
        <3>1. \E x \in BOOLEAN :
                filed' = [filed EXCEPT !.rec.run = FALSE, !.rec.verdict = "none", !.rec.dataset = x]
            BY <2>3 DEF RunUnlinked, Write, Now
        <3>2. PICK x \in BOOLEAN :
                filed' = [filed EXCEPT !.rec.run = FALSE, !.rec.verdict = "none", !.rec.dataset = x]
            BY <3>1
        <3>3. filed' = [filed EXCEPT !.rec = [filed.rec EXCEPT !.run = FALSE, !.verdict = "none", !.dataset = x]]
            BY <1>1, <3>2 DEF RecDoc
        <3>4. [filed.rec EXCEPT !.run = FALSE, !.verdict = "none", !.dataset = x] \in RecDoc
            BY <1>a DEF RecDoc
        <3>5. QED
            BY <1>1, <3>3, <3>4
    <2>4. QED
        BY <1>3, <2>1, <2>2, <2>3
<1>4. ASSUME NEW x \in {"passed", "failed", "cancelled"}, VerdictSaves(x)
      PROVE  filed' \in Documents /\ filed.entries \subseteq filed'.entries
    <2>1. filed' = [filed EXCEPT !.rec.verdict = "passed"] \/ filed' = [filed EXCEPT !.rec.verdict = "none"]
        BY <1>4 DEF VerdictSaves, Write, Now
    <2>2. QED
        BY <1>1, <2>1 DEF RecDoc
<1>5. ASSUME NEW r \in RuleNames, SwitchRule(r) \/ RuleDeleted(r)
      PROVE  filed' \in Documents /\ filed.entries \subseteq filed'.entries
    <2>1. \E x \in RuleStates : filed' = [filed EXCEPT !.rules[r] = x]
        BY <1>5 DEF SwitchRule, RuleDeleted, Write, Now, RuleStates
    <2>2. PICK x \in RuleStates : filed' = [filed EXCEPT !.rules[r] = x]
        BY <2>1
    <2>3. CASE r = "accept"
        BY <1>1, <2>2, <2>3 DEF RuleStates
    <2>4. CASE r = "promote"
        BY <1>1, <2>2, <2>4 DEF RuleStates
    <2>5. QED
        BY <2>3, <2>4 DEF RuleNames
<1>6. ASSUME LinkCampaign \/ CampaignMoves
      PROVE  filed' \in Documents /\ filed.entries \subseteq filed'.entries
    <2>1. CASE LinkCampaign
        BY <1>1, <2>1 DEF LinkCampaign, Write, Now, RecDoc, CampaignStates
    <2>2. CASE CampaignMoves
        <3>1. \E x \in CampaignStates : filed' = [filed EXCEPT !.campaign = x]
            BY <2>2 DEF CampaignMoves, Write, Now, CampaignStates
        <3>2. QED
            BY <1>1, <3>1
    <2>3. QED
        BY <1>6, <2>1, <2>2
<1>7. ASSUME LinkCanary
      PROVE  filed' \in Documents /\ filed.entries \subseteq filed'.entries
    <2>1. filed.rec.canary + 1 \in Canaries /\ filed.rec.canary + 1 \in 0..2
        BY <1>1, <1>7 DEF LinkCanary, Now, RecDoc, Canaries
    <2> DEFINE c == filed.rec.canary + 1
    <2>2. filed' = [filed EXCEPT !.rec.canary = c, !.canary[c].status = "active"]
        BY <1>7 DEF LinkCanary, Write, Now
    <2>3. c \in Canaries /\ c \in 0..2
        BY <2>1
    <2> HIDE DEF c
    <2>4. [filed.canary[c] EXCEPT !.status = "active"] \in CanaryDoc
        BY <1>1, <2>3 DEF CanaryDoc
    <2>5. [filed.rec EXCEPT !.canary = c] \in RecDoc
        BY <1>1, <2>3 DEF RecDoc
    <2>6. QED
        BY <1>1, <2>2, <2>3, <2>4, <2>5
<1>8. ASSUME NEW c \in Canaries,
             PatchCanary(c) \/ RollBackByHand(c) \/ MonitorRollsBack(c) \/ PromoteSaves(c)
      PROVE  filed' \in Documents /\ filed.entries \subseteq filed'.entries
    <2>1. filed.canary[c] \in CanaryDoc
        BY <1>1
    <2>2. \E x \in CanaryDoc : filed' = [filed EXCEPT !.canary[c] = x]
        <3>1. CASE RollBackByHand(c)
            BY <3>1 DEF RollBackByHand, Write, Now, CanaryDoc
        <3>2. CASE MonitorRollsBack(c)
            BY <3>2 DEF MonitorRollsBack, Write, Now, CanaryDoc
        <3>3. CASE PatchCanary(c)
            <4>1. PICK x \in {"active", "paused"} : filed' = [filed EXCEPT !.canary[c].status = x]
                BY <3>3 DEF PatchCanary, Write, Now
            <4>2. [filed.canary[c] EXCEPT !.status = x] \in CanaryDoc
                BY <2>1 DEF CanaryDoc
            <4>3. QED
                BY <1>1, <4>1, <4>2
        <3>4. CASE PromoteSaves(c)
            <4>1. filed' = [filed EXCEPT !.canary[c].status = "promoted"]
                BY <3>4 DEF PromoteSaves, Write, Now
            <4>2. [filed.canary[c] EXCEPT !.status = "promoted"] \in CanaryDoc
                BY <2>1 DEF CanaryDoc
            <4>3. QED
                BY <1>1, <4>1, <4>2
        <3>5. QED
            BY <1>8, <3>1, <3>2, <3>3, <3>4
    <2>3. QED
        BY <1>1, <2>2
<1>9. ASSUME NEW c \in Canaries, EntryLands(c) \/ PromoteRule(c)
      PROVE  filed' \in Documents /\ filed.entries \subseteq filed'.entries
    <2>1. CASE EntryLands(c)
        <3>1. PICK x \in {filed.entries, filed.entries \cup {c}} : filed' = [filed EXCEPT !.entries = x]
            BY <2>1 DEF EntryLands, Write, Now
        <3>2. QED
            BY <1>1, <3>1
    <2>2. CASE PromoteRule(c)
        BY <1>1, <2>2 DEF PromoteRule, Write, Now, RuleStates
    <2>3. QED
        BY <1>9, <2>1, <2>2
<1>10. DOMAIN Now.rules = RuleNames
    BY <1>1 DEF Now, RuleNames
<1>11. QED
    BY <1>2, <1>3, <1>4, <1>5, <1>6, <1>7, <1>8, <1>9, <1>10 DEF Writes

\* What a write does to a view.
LEMMA WritesTellViews ==
    ASSUME Writes
    PROVE  paper' = IF paper.pc = "idle" THEN paper
                    ELSE [paper EXCEPT !.on = @ \cap On(filed'), !.ever = @ \cup On(filed'), !.still = FALSE]
BY DEF Writes, LinkDataset, NoteOverride, AcceptRule, AcceptSaves, PromotedSaves, DismissIt, RunLinked, RunMoves,
   RunDeleted, RunUnlinked, VerdictSaves, SwitchRule, RuleDeleted, LinkCampaign, CampaignMoves, LinkCanary,
   PatchCanary, RollBackByHand, MonitorRollsBack, PromoteSaves, EntryLands, PromoteRule, Write

LEMMA WritesKeepViews ==
    ASSUME ReportInvariant, Writes
    PROVE  ReportInvariant'
<1>1. filed' \in Documents /\ filed.entries \subseteq filed'.entries
    BY WritesKeepDocuments DEF ReportInvariant
<1>2. paper \in PaperType /\ On(filed') \subseteq RuleNames
    BY <1>1 DEF ReportInvariant, ReportTypes, On, Documents, RuleNames
<1>3. CASE paper.pc = "idle"
    BY <1>1, <1>2, <1>3, WritesTellViews DEF ReportInvariant, ReportTypes, Pages
<1>4. CASE paper.pc # "idle"
    <2>1. paper' = [paper EXCEPT !.on = @ \cap On(filed'), !.ever = @ \cup On(filed'), !.still = FALSE]
        BY <1>4, WritesTellViews
    <2>2. paper' \in PaperType /\ paper'.pc # "idle"
        BY <1>2, <1>4, <2>1 DEF PaperType
    <2>3. SeenWhile(paper)'
        BY <1>1, <1>2, <1>4, <2>1 DEF ReportInvariant, Pages, SeenWhile, PaperType
    <2>4. InOrder(paper)'
        BY <1>2, <1>4, <2>1 DEF ReportInvariant, Pages, InOrder, PaperType
    <2>5. Measured(paper)' /\ ~paper'.still
        BY <1>2, <1>4, <2>1 DEF ReportInvariant, Pages, Measured, PaperType
    <2>6. QED
        BY <1>1, <2>2, <2>3, <2>4, <2>5 DEF ReportInvariant, ReportTypes, Pages
<1>5. QED
    BY <1>3, <1>4

LEMMA ReportsBegin == ReportInit => ReportInvariant
<1>1. SUFFICES ASSUME ReportInit PROVE ReportInvariant
    OBVIOUS
<1>2. Newly \in Documents
    BY DEF Newly, Documents, RecDoc, RunStates, CampaignStates, CanaryDoc, Canaries, RuleStates
<1>3. Judged \in Documents /\ Running \in Documents
    <2>1. Judged = [Newly EXCEPT !.rec = [Newly.rec EXCEPT !.dataset = TRUE, !.run = TRUE, !.verdict = "passed"], !.run = "passed"]
        BY DEF Judged, Newly
    <2>a. Newly.rec \in RecDoc
        BY <1>2 DEF Documents
    <2>2. [Newly.rec EXCEPT !.dataset = TRUE, !.run = TRUE, !.verdict = "passed"] \in RecDoc
        BY <2>a DEF RecDoc
    <2>3. Judged \in Documents
        BY <1>2, <2>1, <2>2 DEF Documents, RunStates
    <2>4. QED
        BY <2>3 DEF Running, Documents, RecDoc, RunStates
<1>4. Accepted \in Documents
    BY <1>3 DEF Accepted, Documents, RecDoc, RuleStates
<1>5. Tried \in Documents
    <2>1. Accepted.canary[1] \in CanaryDoc /\ Accepted.rec \in RecDoc /\ 1 \in Canaries
        BY <1>4 DEF Documents, Canaries
    <2>2. [Accepted.canary[1] EXCEPT !.status = "active"] \in CanaryDoc
        BY <2>1 DEF CanaryDoc
    <2> DEFINE one == 1
    <2>a. one \in 0..2
        OBVIOUS
    <2> HIDE DEF one
    <2>b. [Accepted.rec EXCEPT !.canary = one, !.campaign = TRUE] \in RecDoc
        BY <2>1, <2>a DEF RecDoc
    <2>3. [Accepted.rec EXCEPT !.canary = 1, !.campaign = TRUE] \in RecDoc
        BY <2>b DEF one
    <2>4. Tried = [Accepted EXCEPT !.rec = [Accepted.rec EXCEPT !.canary = 1, !.campaign = TRUE],
                                   !.canary[1] = [Accepted.canary[1] EXCEPT !.status = "active"],
                                   !.campaign = "active"]
        BY <1>4, <2>1 DEF Tried, Documents, RecDoc, CanaryDoc
    <2>5. QED
        BY <1>4, <2>1, <2>2, <2>3, <2>4 DEF Documents, CampaignStates
<1>6. /\ [Tried EXCEPT !.rules.accept = "on"] \in Documents
      /\ [Tried EXCEPT !.rules.promote = "on"] \in Documents
    BY <1>5 DEF Documents, RuleStates
<1>7. Resumed \in Documents
    <2>1. Tried.canary[1] \in CanaryDoc /\ 1 \in Canaries
        BY <1>5 DEF Documents, Canaries
    <2>2. [Tried.canary[1] EXCEPT !.by = "hand"] \in CanaryDoc
        BY <2>1 DEF CanaryDoc
    <2>3. Resumed = [Tried EXCEPT !.canary[1] = [Tried.canary[1] EXCEPT !.by = "hand"], !.entries = {1}]
        BY <1>5, <2>1 DEF Resumed, Documents, CanaryDoc
    <2>4. QED
        BY <1>5, <2>1, <2>2, <2>3 DEF Documents
<1>8. filed \in Documents
    BY <1>1, <1>2, <1>3, <1>4, <1>5, <1>6, <1>7 DEF ReportInit
<1>9. NoPaper \in PaperType
    BY <1>2 DEF NoPaper, PaperType
<1>10. paper = NoPaper /\ NoPaper.pc = "idle"
    BY <1>1 DEF ReportInit, NoPaper
<1>11. QED
    BY <1>8, <1>9, <1>10 DEF ReportInvariant, ReportTypes, Pages

\* Opening, reading and closing a view, step by step.
LEMMA ViewsGoOn ==
    ASSUME ReportInvariant,
           \/ \E kind \in {"list", "report", "outcome"} : Open(kind)
           \/ \E what \in Linked : Read(what)
           \/ AttachStages \/ BuildReport \/ ComputeOutcome \/ Close
    PROVE  ReportInvariant'
<1>1. filed \in Documents /\ paper \in PaperType /\ On(filed) \subseteq RuleNames
    BY DEF ReportInvariant, ReportTypes, On, Documents, RuleNames
<1>2. NoPaper \in PaperType /\ NoPaper.pc = "idle"
    BY DEF NoPaper, PaperType, Newly, Documents, RecDoc, RunStates, CampaignStates, CanaryDoc, Canaries, RuleStates
<1>3. ASSUME NEW kind \in {"list", "report", "outcome"}, Open(kind) PROVE ReportInvariant'
    <2>1. filed' = filed /\ paper = NoPaper
        BY <1>3 DEF Open, ReportInvariant, ReportTypes
    <2>2. paper' = [NoPaper EXCEPT !.pc = IF kind = "outcome" THEN "measuring" ELSE "reading", !.kind = kind,
                      !.left = Linked, !.seen.rec = filed.rec, !.on = On(filed), !.ever = On(filed),
                      !.known = filed.entries]
        BY <1>3 DEF Open
    <2>3. [Newly EXCEPT !.rec = filed.rec] \in Documents
        BY <1>1, <1>2 DEF PaperType, NoPaper, Documents
    <2>4. paper' = [pc |-> IF kind = "outcome" THEN "measuring" ELSE "reading", kind |-> kind, left |-> Linked,
                    seen |-> [Newly EXCEPT !.rec = filed.rec], live |-> FALSE, on |-> On(filed), ever |-> On(filed),
                    known |-> filed.entries, still |-> TRUE]
        BY <2>2 DEF NoPaper
    <2>5. paper' \in PaperType /\ paper'.pc # "idle"
        BY <1>1, <2>3, <2>4 DEF PaperType, Documents
    <2>6. SeenWhile(paper)' /\ SeenNow(paper)'
        BY <2>1, <2>4, <1>1, <1>2 DEF SeenWhile, SeenNow, Linked, PaperType, NoPaper, Documents, Newly
    <2>7. InOrder(paper)' /\ Measured(paper)'
        BY <2>4 DEF InOrder, Measured
    <2>8. QED
        BY <1>1, <2>1, <2>5, <2>6, <2>7 DEF ReportInvariant, ReportTypes, Pages
<1>4. ASSUME NEW what \in Linked, Read(what) PROVE ReportInvariant'
    <2>1. filed' = filed /\ paper.pc = "reading" /\ what \in paper.left
        BY <1>4 DEF Read
    <2>2. paper' = [paper EXCEPT !.seen[what] = filed[what], !.left = @ \ {what}]
        BY <1>4 DEF Read
    <2>3. paper'.seen = [paper.seen EXCEPT ![what] = filed[what]] /\ paper'.left = paper.left \ {what}
        BY <1>1, <2>2 DEF PaperType
    <2>4. paper'.seen \in Documents
        BY <1>1, <2>3 DEF PaperType, Documents, Linked
    <2>5. paper' \in PaperType /\ paper'.pc = "reading"
        BY <1>1, <2>1, <2>2, <2>3, <2>4 DEF PaperType
    <2>6. /\ paper'.kind = paper.kind /\ paper'.on = paper.on /\ paper'.ever = paper.ever
          /\ paper'.known = paper.known /\ paper'.still = paper.still /\ paper'.live = paper.live
        BY <1>1, <2>2 DEF PaperType
    <2>7. SeenWhile(paper) /\ (paper.still => SeenNow(paper)) /\ InOrder(paper) /\ Measured(paper)
        BY <2>1 DEF ReportInvariant, Pages
    <2>8. SeenWhile(paper)'
        BY <1>1, <2>1, <2>3, <2>5, <2>6, <2>7 DEF SeenWhile, On, PaperType, Documents, Linked
    <2>9. paper.still => SeenNow(paper)'
        BY <1>1, <2>1, <2>3, <2>7 DEF SeenNow, PaperType, Documents, Linked
    <2>10. InOrder(paper)' /\ Measured(paper)'
        BY <2>1, <2>3, <2>5, <2>6, <2>7 DEF InOrder, Measured, Linked
    <2>11. QED
        BY <1>1, <2>1, <2>5, <2>6, <2>8, <2>9, <2>10 DEF ReportInvariant, ReportTypes, Pages
<1>5. ASSUME AttachStages PROVE ReportInvariant'
    BY <1>1, <1>5 DEF AttachStages, ReportInvariant, ReportTypes, Pages, SeenWhile, SeenNow, InOrder, Measured, PaperType
<1>6. ASSUME BuildReport PROVE ReportInvariant'
    <2>1. /\ filed' = filed /\ paper.pc = "reading" /\ paper.kind = "report" /\ paper.left = {}
          /\ paper' = [paper EXCEPT !.pc = IF On(paper.seen) # {} THEN "measuring" ELSE "done",
                                    !.seen.entries = filed.entries]
        BY <1>6 DEF BuildReport
    <2>2. /\ paper'.seen = [paper.seen EXCEPT !.entries = filed.entries]
          /\ paper'.pc = IF On(paper.seen) # {} THEN "measuring" ELSE "done"
        BY <1>1, <2>1 DEF PaperType
    <2>3. paper'.seen \in Documents
        BY <1>1, <2>2 DEF PaperType, Documents
    <2>4. /\ paper'.kind = paper.kind /\ paper'.on = paper.on /\ paper'.ever = paper.ever /\ paper'.left = paper.left
          /\ paper'.known = paper.known /\ paper'.still = paper.still /\ paper'.live = paper.live
        BY <1>1, <2>1 DEF PaperType
    <2>5. paper' \in PaperType /\ paper'.pc # "idle"
        BY <1>1, <2>1, <2>2, <2>3, <2>4 DEF PaperType
    <2>6. SeenWhile(paper) /\ (paper.still => SeenNow(paper)) /\ InOrder(paper) /\ Measured(paper)
        BY <2>1 DEF ReportInvariant, Pages
    <2>7. /\ paper'.seen.rec = paper.seen.rec /\ paper'.seen.run = paper.seen.run
          /\ paper'.seen.campaign = paper.seen.campaign /\ paper'.seen.canary = paper.seen.canary
          /\ paper'.seen.rules = paper.seen.rules /\ paper'.seen.entries = filed.entries
        BY <1>1, <2>2 DEF PaperType, Documents
    <2>8. SeenWhile(paper)' /\ (paper.still => SeenNow(paper)')
        BY <2>1, <2>4, <2>6, <2>7 DEF SeenWhile, SeenNow, On
    <2>9. InOrder(paper)'
        BY <2>1, <2>2, <2>4, <2>6, <2>7 DEF InOrder, On
    <2>10. Measured(paper)'
        <3>1. ~paper.live /\ On(paper.seen)' = On(paper.seen)
            BY <2>1, <2>6, <2>7 DEF Measured, On
        <3>2. ~paper'.live
            BY <2>4, <3>1
        <3>3. On(paper.seen) # {} => paper'.pc # "done"
            BY <2>2
        <3>4. paper.still => On(filed) = On(paper.seen)
            BY <2>1, <2>6 DEF SeenNow, On
        <3>5. On(filed)' = On(filed)
            BY <2>1
        <3>6. paper'.pc = "done" => On(paper.seen)' = {}
            BY <3>1, <3>3
        <3>7. (paper'.pc = "done" /\ paper'.still) => On(filed)' = {}
            BY <2>4, <3>3, <3>4, <3>5
        <3>8. (paper'.pc = "done" /\ paper'.still) => paper'.live = (On(filed)' # {})
            BY <3>2, <3>7, <2>5 DEF PaperType
        <3>9. QED
            BY <3>2, <3>6, <3>8 DEF Measured
    <2>11. QED
        BY <1>1, <2>1, <2>4, <2>5, <2>8, <2>9, <2>10 DEF ReportInvariant, ReportTypes, Pages
<1>7. ASSUME ComputeOutcome PROVE ReportInvariant'
    <2>1. /\ filed' = filed /\ paper.pc = "measuring"
          /\ paper' = [paper EXCEPT !.pc = "done", !.live = On(filed) # {}]
        BY <1>7 DEF ComputeOutcome
    <2>2. paper' \in PaperType /\ paper'.pc = "done" /\ paper'.live = (On(filed) # {}) /\ paper'.seen = paper.seen
        BY <1>1, <2>1 DEF PaperType
    <2>3. /\ paper'.kind = paper.kind /\ paper'.on = paper.on /\ paper'.ever = paper.ever /\ paper'.left = paper.left
          /\ paper'.known = paper.known /\ paper'.still = paper.still
        BY <1>1, <2>1 DEF PaperType
    <2>4. SeenWhile(paper) /\ (paper.still => SeenNow(paper)) /\ InOrder(paper) /\ Measured(paper)
        BY <2>1 DEF ReportInvariant, Pages
    <2>5. SeenWhile(paper)' /\ (paper.still => SeenNow(paper)')
        BY <2>1, <2>2, <2>3, <2>4 DEF SeenWhile, SeenNow, On
    <2>6. InOrder(paper)'
        BY <2>1, <2>2, <2>3, <2>4 DEF InOrder
    <2>7. Measured(paper)'
        <3>1. On(filed)' = On(filed) /\ On(paper.seen)' = On(paper.seen)
            BY <2>1, <2>2
        <3>2. paper.kind = "report" => On(paper.seen) # {}
            BY <2>1, <2>4 DEF InOrder
        <3>3. ~paper'.live => paper'.on = {}
            BY <2>2, <2>3, <2>4 DEF SeenWhile
        <3>4. QED
            BY <2>2, <2>3, <3>1, <3>2, <3>3 DEF Measured
    <2>8. QED
        BY <1>1, <2>1, <2>2, <2>3, <2>5, <2>6, <2>7 DEF ReportInvariant, ReportTypes, Pages
<1>8. ASSUME Close PROVE ReportInvariant'
    BY <1>1, <1>2, <1>8 DEF Close, ReportInvariant, ReportTypes, Pages
<1>9. QED
    BY <1>3, <1>4, <1>5, <1>6, <1>7, <1>8

LEMMA ReportsGoOn == ReportInvariant /\ [ReportNext]_ReportVars => ReportInvariant'
<1>1. CASE UNCHANGED ReportVars
    BY <1>1 DEF ReportVars, ReportInvariant, ReportTypes, Pages, SeenWhile, SeenNow, InOrder, Measured, On
<1>2. QED
    BY <1>1, ViewsGoOn, WritesKeepViews DEF ReportNext

\* A view that is opened while documents change says live of a recommendation that is not
\* dismissed when a rule of it is on throughout, and only when one was on; undisturbed,
\* list, report and outcome agree; a report with a rule and no outcome was overtaken, and
\* a rollback is said to have no entry when it has none and is not when it had one
\* (stage.js:52-65, evidenceReport.js:27-76).
THEOREM ViewsAlwaysTrue == ReportSpec => [](RealityWins /\ ViewsAgree /\ EvidenceIsTrue)
<1>1. ASSUME ReportInvariant PROVE RealityWins
    <2>1. SUFFICES ASSUME Staged PROVE RealityWins
        BY DEF RealityWins
    <2>2. paper.on \subseteq On(paper.seen) /\ On(paper.seen) \subseteq paper.ever
        BY <1>1, <2>1 DEF ReportInvariant, Staged, Pages, SeenWhile, InOrder
    <2>3. QED
        BY <2>2, LiveStage DEF RealityWins
<1>2. ASSUME ReportInvariant PROVE ViewsAgree
    <2>1. SUFFICES ASSUME paper.pc = "done", paper.still PROVE ViewsAgree
        BY DEF ViewsAgree
    <2>2. SeenNow(paper) /\ InOrder(paper) /\ Measured(paper)
        BY <1>2, <2>1 DEF ReportInvariant, Pages
    <2>3. paper.kind # "outcome" => DeriveStage(paper.seen) = DeriveStage(filed)
        <3>1. SUFFICES ASSUME paper.kind # "outcome" PROVE DeriveStage(paper.seen) = DeriveStage(filed)
            OBVIOUS
        <3>2. paper.left = {}
            BY <2>1, <2>2, <3>1 DEF InOrder
        <3>3. /\ paper.seen.rec = filed.rec /\ paper.seen.run = filed.run
              /\ paper.seen.campaign = filed.campaign /\ paper.seen.canary = filed.canary
              /\ paper.seen.rules = filed.rules
            BY <2>2, <3>2 DEF SeenNow
        <3>4. QED
            BY <3>3, SameStage
    <2>4. paper.kind # "list" => paper.live = (On(filed) # {})
        BY <2>1, <2>2 DEF Measured
    <2>5. QED
        BY <2>3, <2>4 DEF ViewsAgree
<1>3. ASSUME ReportInvariant PROVE EvidenceIsTrue
    <2> DEFINE c == paper.seen.rec.canary
    <2>1. SUFFICES ASSUME paper.pc = "done", paper.kind = "report" PROVE EvidenceIsTrue
        BY DEF EvidenceIsTrue
    <2>2. SeenWhile(paper) /\ Measured(paper)
        BY <1>3, <2>1 DEF ReportInvariant, Pages
    <2>3. (On(paper.seen) # {} /\ ~paper.live) => paper.on = {}
        BY <2>1, <2>2 DEF Measured
    <2>4. paper.known \subseteq paper.seen.entries /\ paper.seen.entries \subseteq filed.entries
        BY <2>1, <2>2 DEF SeenWhile
    <2>5. ASSUME c # 0, paper.seen.canary[c].status = "rolled_back"
          PROVE  /\ c \notin filed.entries => SaysUnaudited(paper)
                 /\ c \in paper.known => ~SaysUnaudited(paper)
        BY <2>4, <2>5 DEF SaysUnaudited
    <2>6. QED
        BY <2>3, <2>5 DEF EvidenceIsTrue
<1>4. ReportInvariant => RealityWins /\ ViewsAgree /\ EvidenceIsTrue
    BY <1>1, <1>2, <1>3
<1>5. QED
    BY <1>4, ReportsBegin, ReportsGoOn, PTL DEF ReportSpec

-----------------------------------------------------------------------------
(* Benchmarks: what is there of a case, a result, and a request of an operator. *)

Deleting == {"results", "run", "items", "dataset"}

CaseShape(k, n) ==
    /\ DOMAIN k = {"id", "of", "request", "age", "text", "late"}
    /\ k.id \in Nat /\ k.of \in Nat /\ k.age \in Nat /\ k.text \in Nat /\ k.late \in BOOLEAN
    /\ k.id <= n /\ k.of <= n
ScoreShape(x) ==
    /\ DOMAIN x = {"item", "of", "age", "late"}
    /\ x.age \in Nat /\ x.late \in BOOLEAN
WorkShape(w, cs, n) ==
    /\ w.op \in {"none", "insert", "count", "erase", "create"} \cup Deleting
    /\ w.op # "none" => w.no \in Nat /\ w.no <= n
    /\ w.op = "insert" => w.text \in Nat
    /\ w.op = "count" => w.by \in {1, -1}
    /\ w.op = "erase" => /\ w.id \in Nat /\ w.id <= n
                         /\ \A k \in cs : k.id = w.id => k.of = w.no
    /\ w.op \in Deleting => DOMAIN w = {"op", "no"}

\* Numbers are given once.
Dataset(b, n) == b = None \/ (b \in [no : Nat, count : Int, age : Nat] /\ b.no <= n)
Stored(cs, n) ==
    /\ IsFiniteSet(cs)
    /\ \A k \in cs : CaseShape(k, n)
    /\ \A j, k \in cs : j.id = k.id => j = k
Works(f, cs, n) == DOMAIN f = Curators /\ \A c \in Curators : WorkShape(f[c], cs, n)
Record(f, d) ==
    /\ DOMAIN f = Traffic
    /\ \A r \in Traffic : IF f[r] = None THEN d > KeepDays ELSE f[r] = d

BenchShape ==
    /\ lastId \in Nat /\ drift \in Int /\ day \in Nat
    /\ purge \in {"due", "items", "results", "datasets", "done"}
    /\ missed \in {"never", "before", "last"}
    /\ Dataset(bench, lastId)
    /\ Record(logged, day)
    /\ Stored(cases, lastId)
    /\ \A x \in scored : ScoreShape(x)
    /\ Works(curator, cases, lastId)

\* What the purge of the day has passed is within the retention.
Purged(stages) == purge \in stages \/ (purge = "done" /\ missed # "last")
AgesInOrder ==
    /\ missed # "last" =>
         /\ \A x \in cases \cup scored : x.age <= KeepDays + 1
         /\ \A r \in Traffic : logged[r] # None => logged[r] <= KeepDays + 1
    /\ Purged({"items", "results", "datasets"}) =>
         \A r \in Traffic : logged[r] # None => logged[r] <= KeepDays
    /\ Purged({"results", "datasets"}) => \A k \in cases : k.age <= KeepDays
    /\ Purged({"datasets"}) => \A x \in scored : x.age <= KeepDays
    /\ missed = "never" =>
         /\ \A k \in cases : k.text <= k.age + KeepDays + 1
         /\ \A c \in Curators : curator[c].op = "insert" => curator[c].text <= KeepDays + 1

\* A deletion of a benchmark that stands has left no cases, or results, behind that
\* are not late.
DeletedBehind ==
    \A c \in Curators :
      curator[c].op \in {"run", "items", "dataset"} /\ Stands(curator[c].no) =>
        /\ \A x \in scored : x.of = curator[c].no => x.late
        /\ curator[c].op = "dataset" => \A k \in cases : k.of = curator[c].no => k.late

\* The count is short of the cases by what is still to be counted, until a purge takes
\* cases of a benchmark that is as old, which it or the next takes with them.
Owing(n) == {c \in Curators : curator[c].op = "count" /\ curator[c].no = bench.no /\ curator[c].by = n}
Doomed == bench.age > KeepDays /\ (missed = "last" \/ purge \in {"results", "datasets"})
CountKept ==
    bench # None =>
      /\ \A k \in Own : k.age <= bench.age
      /\ \/ Doomed
         \/ bench.count + Cardinality(Owing(1)) - Cardinality(Owing(-1)) = Cardinality(Own) - drift

BenchInvariant == BenchShape /\ AgesInOrder /\ DeletedBehind /\ LeftoversAreLate /\ CountKept

\* A case is one that there was before, or it has a new number.
Continued(cs, ds, n) == \A k \in ds : k.id > n \/ \E j \in cs : j.id = k.id /\ j.of = k.of

LEMMA WorkLasts ==
    ASSUME NEW w, NEW cs, NEW ds, NEW m \in Nat, NEW n \in Nat, m <= n,
           WorkShape(w, cs, m), Continued(cs, ds, m), \A k \in ds : k.id \in Nat
    PROVE  WorkShape(w, ds, n)
BY DEF WorkShape, Continued

LEMMA WorksLast ==
    ASSUME NEW f, NEW cs, NEW ds, NEW m \in Nat, NEW n \in Nat, m <= n,
           Works(f, cs, m), Continued(cs, ds, m), \A k \in ds : k.id \in Nat
    PROVE  Works(f, ds, n)
BY WorkLasts DEF Works

LEMMA WorksGoOn ==
    ASSUME NEW f, NEW g, NEW cs, NEW ds, NEW m \in Nat, NEW n \in Nat,
           m <= n, Works(f, cs, m), Continued(cs, ds, m), \A k \in ds : k.id \in Nat,
           DOMAIN g = Curators, \A c \in Curators : g[c] = f[c] \/ WorkShape(g[c], ds, n)
    PROVE  Works(g, ds, n)
<1>1. Works(f, ds, n)
    BY WorksLast
<1>2. QED
    BY <1>1 DEF Works

LEMMA CasesRemain ==
    ASSUME NEW cs, NEW ds, NEW m \in Nat, Stored(cs, m), ds \subseteq cs
    PROVE  /\ Stored(ds, m) /\ Continued(cs, ds, m) /\ \A k \in ds : k.id \in Nat
<1>1. IsFiniteSet(ds)
    BY FS_Subset DEF Stored
<1>2. \A k \in ds : k \in cs /\ CaseShape(k, m)
    BY DEF Stored
<1>3. \A k \in ds : k.id \in Nat
    BY <1>2 DEF CaseShape
<1>4. Continued(cs, ds, m)
    BY <1>2 DEF Continued
<1>5. QED
    BY <1>1, <1>2, <1>3, <1>4 DEF Stored

LEMMA CaseAdded ==
    ASSUME NEW cs, NEW m \in Nat, NEW n \in Nat, Stored(cs, m), m < n,
           NEW k, CaseShape(k, n), k.id > m
    PROVE  /\ Stored(cs \cup {k}, n) /\ Continued(cs, cs \cup {k}, m)
           /\ \A j \in cs \cup {k} : j.id \in Nat
           /\ k \notin cs
<1>1. IsFiniteSet(cs \cup {k})
    BY FS_AddElement DEF Stored
<1>2. \A j \in cs : CaseShape(j, m) /\ CaseShape(j, n) /\ j.id \in Nat /\ j.id <= m
    BY DEF Stored, CaseShape
<1>3. \A j \in cs \cup {k} : CaseShape(j, n) /\ j.id \in Nat
    BY <1>2 DEF CaseShape
<1>4. \A i, j \in cs \cup {k} : i.id = j.id => i = j
    BY <1>2, <1>3 DEF Stored
<1>5. Continued(cs, cs \cup {k}, m)
    BY DEF Continued
<1>6. QED
    BY <1>1, <1>2, <1>3, <1>4, <1>5 DEF Stored

LEMMA DatasetLasts ==
    ASSUME NEW b, NEW m \in Nat, NEW n \in Nat, m <= n, Dataset(b, m)
    PROVE  Dataset(b, n)
BY DEF Dataset

LEMMA BenchBegins == BenchInit => BenchInvariant
<1> SUFFICES ASSUME BenchInit PROVE BenchInvariant
    OBVIOUS
<1> DEFINE r == CHOOSE r \in Traffic : TRUE
<1>1. PICK k : k = CaseOf(2, 1, r, 0, FALSE)
    OBVIOUS
<1>2. cases = {k} /\ scored = {} /\ bench = [no |-> 1, count |-> 1, age |-> 0] /\ lastId = 2
      /\ drift = 0 /\ day = 0 /\ purge = "due" /\ missed = "never"
    BY <1>1 DEF BenchInit
<1>3. CaseShape(k, 2) /\ k.id = 2 /\ k.of = 1 /\ k.age = 0 /\ k.text = 0
    BY <1>1 DEF CaseOf, CaseShape
<1>4. IsFiniteSet({k}) /\ Cardinality({k}) = 1
    BY FS_Singleton
<1>5. Stored(cases, lastId)
    BY <1>2, <1>3, <1>4 DEF Stored
<1>6. DOMAIN curator = Curators /\ \A c \in Curators : curator[c].op = "none"
    BY DEF BenchInit, Idle
<1>7. Works(curator, cases, lastId)
    BY <1>6 DEF Works, WorkShape, Deleting
<1>8. DOMAIN logged = Traffic /\ \A q \in Traffic : logged[q] = 0
    BY DEF BenchInit
<1>9. bench # None /\ KeepDays \in Nat /\ 0 # None
    BY <1>2, BenchAssumption
<1>10. BenchShape
    <2>1. Dataset(bench, lastId)
        BY <1>2 DEF Dataset
    <2>2. Record(logged, day)
        BY <1>2, <1>8, <1>9 DEF Record
    <2>3. QED
        BY <1>2, <1>5, <1>7, <2>1, <2>2 DEF BenchShape
<1>11. AgesInOrder
    BY <1>2, <1>3, <1>6, <1>8, <1>9 DEF AgesInOrder, Purged
<1>12. DeletedBehind
    BY <1>6 DEF DeletedBehind
<1>13. LeftoversAreLate
    BY <1>2, <1>3, <1>9 DEF LeftoversAreLate, Stands
<1>14. CountKept
    <2>1. Owing(1) = {} /\ Owing(-1) = {}
        BY <1>6 DEF Owing
    <2>2. Own = {k}
        BY <1>2, <1>3, <1>9 DEF Own
    <2>3. Cardinality(Owing(1)) = 0 /\ Cardinality(Owing(-1)) = 0 /\ Cardinality(Own) = 1
        BY <1>4, <2>1, <2>2, FS_EmptySet
    <2>4. bench.count = 1 /\ bench.age = 0
        BY <1>2
    <2>5. bench.count + Cardinality(Owing(1)) - Cardinality(Owing(-1)) = Cardinality(Own) - drift
        BY <1>2, <2>3, <2>4
    <2>6. \A j \in Own : j.age <= bench.age
        BY <1>3, <2>2, <2>4
    <2>7. QED
        BY <2>5, <2>6 DEF CountKept
<1>15. QED
    BY <1>10, <1>11, <1>12, <1>13, <1>14 DEF BenchInvariant

\* A request of an operator goes on to w, and no case or number is made.
LEMMA CuratorTurns ==
    ASSUME BenchShape, NEW c \in Curators, NEW w, curator' = [curator EXCEPT ![c] = w],
           WorkShape(w, cases', lastId), cases' \subseteq cases, UNCHANGED lastId
    PROVE  /\ Works(curator', cases', lastId') /\ Stored(cases', lastId')
<1>1. lastId \in Nat /\ Stored(cases, lastId) /\ Works(curator, cases, lastId)
    BY DEF BenchShape
<1>2. Stored(cases', lastId) /\ Continued(cases, cases', lastId) /\ \A k \in cases' : k.id \in Nat
    BY <1>1, CasesRemain
<1>3. /\ DOMAIN curator' = Curators
      /\ \A d \in Curators : curator'[d] = curator[d] \/ WorkShape(curator'[d], cases', lastId)
    BY <1>1 DEF Works
<1>4. lastId <= lastId
    BY <1>1
<1>5. Works(curator', cases', lastId)
    BY <1>1, <1>2, <1>3, <1>4, WorksGoOn
<1>6. QED
    BY <1>2, <1>5

LEMMA IdleShape == \A cs, n : WorkShape(Idle, cs, n)
BY DEF WorkShape, Idle, Deleting

\* The next stage of a deletion.
LEMMA StageShape ==
    ASSUME NEW w, NEW v, NEW s \in Deleting, NEW cs, NEW n, WorkShape(w, cs, n), w.op \in Deleting,
           v = [w EXCEPT !.op = s]
    PROVE  \A ds : WorkShape(v, ds, n) /\ v.op = s /\ v.no = w.no
<1>1. DOMAIN w = {"op", "no"} /\ w.no \in Nat /\ w.no <= n
    BY DEF WorkShape, Deleting
<1>2. v.op = s /\ v.no = w.no /\ DOMAIN v = {"op", "no"}
    BY <1>1
<1>3. QED
    BY <1>1, <1>2 DEF WorkShape, Deleting

LEMMA CurationKeepsShape ==
    ASSUME BenchShape, NEW c \in Curators,
           CreateBench(c) \/ LookUpRequest(c) \/ InsertCase(c) \/ LookUpCase(c) \/ EraseCase(c)
           \/ CountCase(c)
    PROVE  BenchShape'
<1>1. /\ lastId \in Nat /\ Stored(cases, lastId) /\ Works(curator, cases, lastId)
      /\ Dataset(bench, lastId) /\ Record(logged, day) /\ drift \in Int
    BY DEF BenchShape
<1>2. WorkShape(curator[c], cases, lastId)
    BY <1>1 DEF Works
<1>3. bench # None => bench \in [no : Nat, count : Int, age : Nat] /\ bench.no <= lastId
    BY <1>1 DEF Dataset
<1>4. \A r \in Traffic : logged[r] # None => logged[r] \in Nat
    BY <1>1 DEF Record, BenchShape
<1>5. CASE CreateBench(c)
  <2>1. PICK r \in Traffic : /\ logged[r] # None
                             /\ bench' = [no |-> lastId + 1, count |-> 1, age |-> 0]
                             /\ cases' = cases \cup {CaseOf(lastId + 2, lastId + 1, r, logged[r], FALSE)}
      BY <1>5 DEF CreateBench
  <2>2. PICK k : k = CaseOf(lastId + 2, lastId + 1, r, logged[r], FALSE)
      OBVIOUS
  <2>3. CaseShape(k, lastId + 2) /\ k.id > lastId
      BY <1>1, <1>4, <2>1, <2>2 DEF CaseShape, CaseOf
  <2>4. cases' = cases \cup {k} /\ lastId' = lastId + 2 /\ drift' = 0
        /\ UNCHANGED <<logged, scored, purge, missed, day>>
      BY <1>5, <2>1, <2>2 DEF CreateBench
  <2>5. Stored(cases', lastId') /\ Continued(cases, cases', lastId) /\ \A j \in cases' : j.id \in Nat
      BY <1>1, <2>3, <2>4, CaseAdded
  <2>6. curator' = [curator EXCEPT ![c] = Idle]
      BY <1>5 DEF CreateBench, Asks
  <2>7. Works(curator', cases', lastId')
    <3>1. DOMAIN curator' = Curators
          /\ \A d \in Curators : curator'[d] = curator[d] \/ WorkShape(curator'[d], cases', lastId')
        BY <1>1, <2>6, IdleShape DEF Works
    <3>2. lastId' \in Nat /\ lastId <= lastId'
        BY <1>1, <2>4
    <3>3. QED
        BY <1>1, <2>5, <3>1, <3>2, WorksGoOn
  <2>8. Dataset(bench', lastId')
      BY <1>1, <2>1, <2>4 DEF Dataset
  <2>9. QED
      BY <2>4, <2>5, <2>7, <2>8, <1>1 DEF BenchShape
<1>6. CASE LookUpRequest(c)
  <2>1. \E r \in Traffic : \E w :
            /\ logged[r] # None
            /\ w = [op |-> "insert", no |-> bench.no, request |-> r, text |-> logged[r],
                    seen |-> bench.count]
            /\ curator' = [curator EXCEPT ![c] = w]
      BY <1>6 DEF LookUpRequest, Asks
  <2>2. bench # None /\ UNCHANGED <<bench, cases, logged, scored, purge, missed, drift, lastId, day>>
      BY <1>6 DEF LookUpRequest
  <2>3. PICK w : /\ w.op = "insert" /\ w.no = bench.no /\ w.text \in Nat
                 /\ curator' = [curator EXCEPT ![c] = w]
      BY <1>4, <2>1
  <2>4. WorkShape(w, cases', lastId)
      BY <1>3, <2>2, <2>3 DEF WorkShape, Deleting
  <2>5. Works(curator', cases', lastId') /\ Stored(cases', lastId')
      BY <2>2, <2>3, <2>4, CuratorTurns
  <2>6. QED
      BY <2>2, <2>5, <1>1 DEF BenchShape
<1>7. CASE InsertCase(c)
  <2>1. PICK b \in BOOLEAN : b = Passed(curator[c].no, {"dataset"})
      BY Zenon DEF Passed, Stands
  <2>2. PICK k : k = CaseOf(lastId + 1, curator[c].no, curator[c].request, curator[c].text, b)
      OBVIOUS
  <2>3. cases' = cases \cup {k}
      BY <1>7, <2>1, <2>2 DEF InsertCase
  <2>4. curator[c].no \in Nat /\ curator[c].no <= lastId /\ curator[c].text \in Nat /\ curator[c].op = "insert"
      BY <1>2, <1>7 DEF WorkShape, InsertCase
  <2>5. CaseShape(k, lastId + 1) /\ k.id > lastId
      BY <1>1, <2>2, <2>4 DEF CaseShape, CaseOf
  <2>6. lastId' = lastId + 1 /\ UNCHANGED <<bench, logged, scored, purge, missed, drift, day>>
      BY <1>7 DEF InsertCase
  <2>7. Stored(cases', lastId') /\ Continued(cases, cases', lastId) /\ \A j \in cases' : j.id \in Nat
    <3>1. lastId + 1 \in Nat /\ lastId < lastId + 1
        BY <1>1
    <3>2. QED
        BY <1>1, <2>3, <2>5, <2>6, <3>1, CaseAdded
  <2>8. PICK w : /\ w = [op |-> "count", no |-> curator[c].no, by |-> 1, seen |-> curator[c].seen]
                 /\ curator' = [curator EXCEPT ![c] = w]
      BY <1>7 DEF InsertCase, Goes
  <2>9. WorkShape(w, cases', lastId')
      BY <1>1, <2>4, <2>6, <2>8 DEF WorkShape, Deleting
  <2>10. Works(curator', cases', lastId')
    <3>1. DOMAIN curator' = Curators
          /\ \A d \in Curators : curator'[d] = curator[d] \/ WorkShape(curator'[d], cases', lastId')
        BY <1>1, <2>8, <2>9 DEF Works
    <3>2. lastId' \in Nat /\ lastId <= lastId'
        BY <1>1, <2>6
    <3>3. QED
        BY <1>1, <2>7, <3>1, <3>2, WorksGoOn
  <2>11. Dataset(bench', lastId')
      BY <1>1, <2>6, DatasetLasts
  <2>12. QED
      BY <2>6, <2>7, <2>10, <2>11, <1>1 DEF BenchShape
<1>8. CASE LookUpCase(c)
  <2>1. PICK k \in cases : curator' = [curator EXCEPT ![c] = [op |-> "erase", no |-> k.of, id |-> k.id]]
      BY <1>8 DEF LookUpCase, Asks
  <2>2. PICK w : w = [op |-> "erase", no |-> k.of, id |-> k.id]
      OBVIOUS
  <2>3. UNCHANGED <<bench, cases, logged, scored, purge, missed, drift, lastId, day>>
      BY <1>8 DEF LookUpCase
  <2>4. CaseShape(k, lastId) /\ \A j \in cases : j.id = k.id => j = k
      BY <1>1, <2>1 DEF Stored
  <2>5. WorkShape(w, cases', lastId)
      BY <2>2, <2>3, <2>4 DEF WorkShape, Deleting, CaseShape
  <2>6. Works(curator', cases', lastId') /\ Stored(cases', lastId')
      BY <2>1, <2>2, <2>3, <2>5, CuratorTurns
  <2>7. QED
      BY <2>3, <2>6, <1>1 DEF BenchShape
<1>9. CASE EraseCase(c)
  <2>1. PICK w : /\ w = [op |-> "count", no |-> curator[c].no, by |-> -1, seen |-> 0]
                 /\ curator' = [curator EXCEPT ![c] = w]
      BY <1>9 DEF EraseCase, Goes
  <2>2. cases' \subseteq cases /\ UNCHANGED <<bench, logged, scored, purge, missed, lastId, day>>
      BY <1>9 DEF EraseCase
  <2>3. drift' \in Int
      BY <1>1, <1>9 DEF EraseCase
  <2>4. curator[c].op = "erase"
      BY <1>9 DEF EraseCase
  <2>5. WorkShape(w, cases', lastId)
      BY <1>2, <2>1, <2>4 DEF WorkShape, Deleting
  <2>6. Works(curator', cases', lastId') /\ Stored(cases', lastId')
      BY <2>1, <2>2, <2>5, CuratorTurns
  <2>7. QED
      BY <2>2, <2>3, <2>6, <1>1 DEF BenchShape
<1>10. CASE CountCase(c)
  <2>1. curator' = [curator EXCEPT ![c] = Idle]
        /\ UNCHANGED <<cases, logged, scored, purge, missed, drift, lastId, day>>
      BY <1>10 DEF CountCase, Goes
  <2>2. Works(curator', cases', lastId') /\ Stored(cases', lastId')
      BY <2>1, CuratorTurns, IdleShape
  <2>3. curator[c].by \in Int
      BY <1>2, <1>10 DEF WorkShape, CountCase
  <2>4. Dataset(bench', lastId')
    <3>1. bench' = bench \/ (bench # None /\ bench' = [bench EXCEPT !.count = @ + curator[c].by])
        BY <1>10 DEF CountCase, Stands
    <3>2. CASE bench # None /\ bench' = [bench EXCEPT !.count = @ + curator[c].by]
        BY <1>3, <2>1, <2>3, <3>2 DEF Dataset
    <3>3. QED
        BY <1>1, <2>1, <3>1, <3>2
  <2>5. QED
      BY <2>1, <2>2, <2>4, <1>1 DEF BenchShape
<1>11. QED
    BY <1>5, <1>6, <1>7, <1>8, <1>9, <1>10

LEMMA DeletionKeepsShape ==
    ASSUME BenchShape, NEW c \in Curators,
           BeginDelete(c) \/ DeleteResults(c) \/ DeleteRuns(c) \/ DeleteItems(c) \/ DeleteDataset(c)
           \/ DeleteFails(c) \/ AskScore(c) \/ CreateRun(c)
    PROVE  BenchShape'
<1>1. /\ lastId \in Nat /\ Stored(cases, lastId) /\ Works(curator, cases, lastId)
      /\ Dataset(bench, lastId) /\ Record(logged, day) /\ drift \in Int
    BY DEF BenchShape
<1>2. WorkShape(curator[c], cases, lastId)
    BY <1>1 DEF Works
<1>3. /\ cases' \subseteq cases /\ scored' \subseteq scored
      /\ UNCHANGED <<logged, purge, missed, lastId, day>>
    BY DEF BeginDelete, DeleteResults, DeleteRuns, DeleteItems, DeleteDataset, DeleteFails, AskScore,
           CreateRun
<1>4. drift' \in Int
  <2>1. Cardinality(Own) \in Int
    <3>1. IsFiniteSet(cases) /\ Own \in SUBSET cases
        BY <1>1 DEF Stored, Own
    <3>2. IsFiniteSet(Own)
        BY <3>1, FS_Subset
    <3>3. QED
        BY <3>2, FS_CardinalityType
  <2>2. drift' = drift \/ drift' = drift - Cardinality(Own)
      BY DEF BeginDelete, DeleteResults, DeleteRuns, DeleteItems, DeleteDataset, DeleteFails, AskScore,
             CreateRun
  <2>3. QED
      BY <1>1, <2>1, <2>2
<1>5. bench' = bench \/ bench' = None
    BY DEF BeginDelete, DeleteResults, DeleteRuns, DeleteItems, DeleteDataset, DeleteFails, AskScore,
           CreateRun
<1>6. Dataset(bench', lastId')
    BY <1>1, <1>3, <1>5 DEF Dataset
<1>7. \E w : curator' = [curator EXCEPT ![c] = w] /\ WorkShape(w, cases', lastId)
  <2>1. CASE BeginDelete(c)
    <3>1. PICK w : w = [op |-> "results", no |-> bench.no] /\ curator' = [curator EXCEPT ![c] = w]
        BY <2>1 DEF BeginDelete, Asks
    <3>2. bench.no \in Nat /\ bench.no <= lastId
        BY <1>1, <2>1 DEF BeginDelete, Dataset
    <3>3. WorkShape(w, cases', lastId)
        BY <3>1, <3>2 DEF WorkShape, Deleting
    <3>4. QED
        BY <3>1, <3>3
  <2>2. ASSUME NEW s \in Deleting, curator[c].op \in Deleting,
               curator' = [curator EXCEPT ![c] = [curator[c] EXCEPT !.op = s]]
        PROVE  \E w : curator' = [curator EXCEPT ![c] = w] /\ WorkShape(w, cases', lastId)
    <3>1. PICK v : v = curator[c]
        OBVIOUS
    <3>2. PICK w : w = [v EXCEPT !.op = s]
        OBVIOUS
    <3>3. WorkShape(v, cases, lastId) /\ v.op \in Deleting
        BY <1>2, <2>2, <3>1
    <3>4. WorkShape(w, cases', lastId)
        BY <3>2, <3>3, StageShape
    <3>5. curator' = [curator EXCEPT ![c] = w]
        BY <2>2, <3>1, <3>2
    <3>6. QED
        BY <3>4, <3>5
  <2>3. CASE DeleteResults(c)
      BY <2>2, <2>3 DEF DeleteResults, Goes, Deleting
  <2>4. CASE DeleteRuns(c)
      BY <2>2, <2>4 DEF DeleteRuns, Goes, Deleting
  <2>5. CASE DeleteItems(c)
      BY <2>2, <2>5 DEF DeleteItems, Goes, Deleting
  <2>6. CASE DeleteDataset(c) \/ DeleteFails(c) \/ CreateRun(c)
      BY <2>6, IdleShape DEF DeleteDataset, DeleteFails, CreateRun, Goes
  <2>7. CASE AskScore(c)
    <3>1. PICK w : /\ w = [op |-> "create", no |-> bench.no, least |-> IF bench.count > 1 THEN bench.count ELSE 1]
                   /\ curator' = [curator EXCEPT ![c] = w]
        BY <2>7 DEF AskScore, Asks
    <3>2. bench.no \in Nat /\ bench.no <= lastId
        BY <1>1, <2>7 DEF AskScore, Dataset
    <3>3. WorkShape(w, cases', lastId)
        BY <3>1, <3>2 DEF WorkShape, Deleting
    <3>4. QED
        BY <3>1, <3>3
  <2>8. QED
      BY <2>1, <2>3, <2>4, <2>5, <2>6, <2>7
<1>8. Works(curator', cases', lastId') /\ Stored(cases', lastId')
    BY <1>3, <1>7, CuratorTurns
<1>9. QED
    BY <1>1, <1>3, <1>4, <1>6, <1>8 DEF BenchShape

\* What is as it was but a day older.
AgedCase(k) == [k EXCEPT !.age = @ + 1, !.text = @ + 1]
AgedScore(x) == [x EXCEPT !.age = @ + 1]

LEMMA CaseAges ==
    ASSUME NEW k, NEW n, CaseShape(k, n)
    PROVE  /\ CaseShape(AgedCase(k), n)
           /\ AgedCase(k).id = k.id /\ AgedCase(k).of = k.of /\ AgedCase(k).late = k.late
           /\ AgedCase(k).age = k.age + 1 /\ AgedCase(k).text = k.text + 1
BY DEF CaseShape, AgedCase

LEMMA ScoreAges ==
    ASSUME NEW x, ScoreShape(x)
    PROVE  /\ ScoreShape(AgedScore(x))
           /\ AgedScore(x).of = x.of /\ AgedScore(x).late = x.late /\ AgedScore(x).age = x.age + 1
BY DEF ScoreShape, AgedScore

\* A day makes no case, and no two cases the same.
LEMMA CasesAge ==
    ASSUME NEW cs, NEW n, Stored(cs, n)
    PROVE  /\ Stored({AgedCase(k) : k \in cs}, n)
           /\ \A os \in SUBSET cs : Cardinality({AgedCase(k) : k \in os}) = Cardinality(os)
<1>1. \A k \in cs : CaseShape(k, n)
    BY DEF Stored
<1>2. \A j, k \in cs : AgedCase(j) = AgedCase(k) => j = k
    BY <1>1, CaseAges DEF Stored
<1>3. ASSUME NEW os \in SUBSET cs
      PROVE  /\ IsFiniteSet({AgedCase(k) : k \in os})
             /\ Cardinality({AgedCase(k) : k \in os}) = Cardinality(os)
  <2> DEFINE as == {AgedCase(k) : k \in os}
             f == [k \in os |-> AgedCase(k)]
  <2>1. IsFiniteSet(os)
      BY FS_Subset DEF Stored
  <2>2. f \in [os -> as] /\ \A j, k \in os : f[j] = f[k] => j = k
      BY <1>2
  <2>3. \A x \in as : \E k \in os : f[k] = x
      OBVIOUS
  <2>4. f \in Bijection(os, as)
      BY <2>2, <2>3 DEF Bijection, Injection, Surjection, IsInjective
  <2>5. ExistsBijection(os, as)
      BY <2>4 DEF ExistsBijection
  <2>6. QED
      BY <2>1, <2>5, FS_Bijection
<1>4. Stored({AgedCase(k) : k \in cs}, n)
  <2>1. IsFiniteSet({AgedCase(k) : k \in cs})
      BY <1>3
  <2>2. \A x \in {AgedCase(k) : k \in cs} : CaseShape(x, n)
      BY <1>1, CaseAges
  <2>3. \A x, y \in {AgedCase(k) : k \in cs} : x.id = y.id => x = y
    <3>1. TAKE x, y \in {AgedCase(k) : k \in cs}
    <3>2. PICK j \in cs, k \in cs : x = AgedCase(j) /\ y = AgedCase(k)
        OBVIOUS
    <3>3. x.id = j.id /\ y.id = k.id
        BY <1>1, <3>2, CaseAges
    <3>4. QED
        BY <3>2, <3>3 DEF Stored
  <2>4. QED
      BY <2>1, <2>2, <2>3 DEF Stored
<1>5. QED
    BY <1>3, <1>4

LEMMA RestKeepsShape ==
    ASSUME BenchShape,
           ClaimRun \/ ReplayItem \/ FinishRun \/ PurgeStep \/ PurgeFails \/ DayPasses
           \/ UNCHANGED BenchVars
    PROVE  BenchShape'
<1>1. /\ lastId \in Nat /\ Stored(cases, lastId) /\ Works(curator, cases, lastId) /\ day \in Nat
      /\ Dataset(bench, lastId) /\ Record(logged, day) /\ drift \in Int
      /\ purge \in {"due", "items", "results", "datasets", "done"}
      /\ missed \in {"never", "before", "last"}
      /\ \A x \in scored : ScoreShape(x)
    BY DEF BenchShape
<1>2. CASE ClaimRun \/ FinishRun \/ PurgeFails \/ UNCHANGED BenchVars
  <2>1. UNCHANGED <<bench, cases, logged, scored, curator, drift, lastId, day>>
        /\ (UNCHANGED <<purge, missed>> \/ (purge' = "done" /\ missed' = "last"))
      BY <1>2 DEF ClaimRun, FinishRun, PurgeFails, BenchVars
  <2>2. QED
      BY <1>1, <2>1 DEF BenchShape
<1>3. CASE ReplayItem
  <2>1. UNCHANGED <<bench, cases, logged, curator, purge, missed, drift, lastId, day>>
      BY <1>3 DEF ReplayItem
  <2>2. \A x \in scored' : ScoreShape(x)
    <3>1. CASE scored' = scored
        BY <1>1, <3>1
    <3>2. ASSUME NEW k \in replay.todo, NEW late \in BOOLEAN,
                 scored' = scored \cup {[item |-> k.id, of |-> k.of, age |-> 0, late |-> late]}
          PROVE  \A x \in scored' : ScoreShape(x)
        BY <1>1, <3>2 DEF ScoreShape
    <3>3. \A k : \E b \in BOOLEAN : b = (trial.of # k.of \/ Passed(k.of, {"run", "items", "dataset"}))
        BY Zenon
    <3>4. scored' = scored \/ \E k \in replay.todo, late \in BOOLEAN :
            scored' = scored \cup {[item |-> k.id, of |-> k.of, age |-> 0, late |-> late]}
        BY <1>3, <3>3, Zenon DEF ReplayItem
    <3>5. QED
        BY <3>1, <3>2, <3>4
  <2>3. QED
      BY <1>1, <2>1, <2>2 DEF BenchShape
<1>4. CASE PurgeStep
  <2>1. UNCHANGED <<curator, drift, lastId, day>> /\ cases' \subseteq cases /\ scored' \subseteq scored
      BY <1>4 DEF PurgeStep
  <2>2. bench' = bench \/ bench' = None
      BY <1>4 DEF PurgeStep
  <2>3. purge' \in {"items", "results", "datasets", "done"} /\ missed' \in {"never", "before", "last"}
      BY <1>1, <1>4 DEF PurgeStep
  <2>4. Record(logged', day')
    <3>1. CASE logged' = logged
        BY <1>1, <2>1, <3>1
    <3>2. CASE logged' = [r \in Traffic |-> IF logged[r] # None /\ Old(logged[r]) THEN None ELSE logged[r]]
      <4>1. DOMAIN logged' = Traffic
          BY <3>2
      <4>2. \A r \in Traffic : \/ logged'[r] = logged[r]
                               \/ logged'[r] = None /\ logged[r] # None /\ logged[r] > KeepDays
          BY <3>2 DEF Old
      <4>3. QED
          BY <1>1, <2>1, <4>1, <4>2 DEF Record
    <3>3. QED
        BY <1>4, <3>1, <3>2 DEF PurgeStep
  <2>5. Stored(cases', lastId) /\ Continued(cases, cases', lastId) /\ \A k \in cases' : k.id \in Nat
      BY <1>1, <2>1, CasesRemain
  <2>6. lastId <= lastId
      BY <1>1
  <2>7. Works(curator, cases', lastId)
      BY <1>1, <2>5, <2>6, WorksLast
  <2>8. QED
      BY <1>1, <2>1, <2>2, <2>3, <2>4, <2>5, <2>7 DEF BenchShape, Dataset
<1>5. CASE DayPasses
  <2>1. /\ cases' = {AgedCase(k) : k \in cases}
        /\ scored' = {AgedScore(x) : x \in scored}
      BY <1>5 DEF DayPasses, AgedCase, AgedScore
  <2>2. UNCHANGED <<curator, missed, drift, lastId>> /\ day' = day + 1 /\ purge' = "due"
      BY <1>5 DEF DayPasses
  <2>3. Stored(cases', lastId)
      BY <1>1, <2>1, CasesAge
  <2>4. \A k \in cases : CaseShape(k, lastId)
      BY <1>1 DEF Stored
  <2>5. Continued(cases, cases', lastId) /\ \A k \in cases' : k.id \in Nat
    <3>1. ASSUME NEW k \in cases'
          PROVE  k.id \in Nat /\ \E j \in cases : j.id = k.id /\ j.of = k.of
      <4>1. PICK j \in cases : k = AgedCase(j)
          BY <2>1, <3>1
      <4>2. k.id = j.id /\ k.of = j.of /\ j.id \in Nat
          BY <2>4, <4>1, CaseAges DEF CaseShape
      <4>3. QED
          BY <4>2
    <3>2. QED
        BY <3>1 DEF Continued
  <2>6. lastId <= lastId
      BY <1>1
  <2>7. Works(curator, cases', lastId)
      BY <1>1, <2>5, <2>6, WorksLast
  <2>8. \A x \in scored' : ScoreShape(x)
      BY <1>1, <2>1, ScoreAges
  <2>9. Dataset(bench', lastId)
    <3>1. bench' = None \/ (bench # None /\ bench' = [bench EXCEPT !.age = @ + 1])
        BY <1>5 DEF DayPasses
    <3>2. QED
        BY <1>1, <3>1 DEF Dataset
  <2>10. Record(logged', day')
    <3>1. DOMAIN logged' = Traffic
          /\ \A r \in Traffic : IF logged[r] = None THEN logged'[r] = None ELSE logged'[r] = logged[r] + 1
        BY <1>5 DEF DayPasses
    <3>2. day + 1 # None /\ KeepDays \in Nat
        BY <1>1, BenchAssumption
    <3>3. QED
        BY <1>1, <2>2, <3>1, <3>2 DEF Record
  <2>11. QED
      BY <1>1, <2>2, <2>3, <2>7, <2>8, <2>9, <2>10 DEF BenchShape
<1>6. QED
    BY <1>2, <1>3, <1>4, <1>5

-----------------------------------------------------------------------------
(* Benchmarks: ages. *)

\* What a step adds is new, and copies nothing that is too old while no purge has failed.
LEMMA AgesStay ==
    ASSUME BenchShape, AgesInOrder, UNCHANGED <<logged, purge, missed>>,
           \A k \in cases' : \/ k \in cases
                             \/ k.age = 0 /\ (missed = "never" => k.text <= KeepDays + 1),
           \A x \in scored' : x \in scored \/ x.age = 0,
           \A c \in Curators : curator'[c].op = "insert" =>
             curator'[c] = curator[c] \/ (missed = "never" => curator'[c].text <= KeepDays + 1)
    PROVE  AgesInOrder'
<1>1. KeepDays \in Nat
    BY BenchAssumption
<1>2. missed # "last" =>
        /\ \A x \in cases' \cup scored' : x.age <= KeepDays + 1
        /\ \A r \in Traffic : logged'[r] # None => logged'[r] <= KeepDays + 1
    BY <1>1 DEF AgesInOrder
<1>3. Purged({"items", "results", "datasets"}) =>
        \A r \in Traffic : logged'[r] # None => logged'[r] <= KeepDays
    BY DEF AgesInOrder
<1>4. Purged({"results", "datasets"}) => \A k \in cases' : k.age <= KeepDays
    BY <1>1 DEF AgesInOrder
<1>5. Purged({"datasets"}) => \A x \in scored' : x.age <= KeepDays
    BY <1>1 DEF AgesInOrder
<1>6. missed = "never" => \A k \in cases' : k.text <= k.age + KeepDays + 1
    BY <1>1 DEF AgesInOrder
<1>7. missed = "never" =>
        \A c \in Curators : curator'[c].op = "insert" => curator'[c].text <= KeepDays + 1
    BY DEF AgesInOrder
<1>8. QED
    BY <1>2, <1>3, <1>4, <1>5, <1>6, <1>7 DEF AgesInOrder, Purged

LEMMA CurationKeepsAges ==
    ASSUME BenchShape, AgesInOrder, NEW c \in Curators,
           CreateBench(c) \/ LookUpRequest(c) \/ InsertCase(c) \/ LookUpCase(c) \/ EraseCase(c)
           \/ CountCase(c)
    PROVE  AgesInOrder'
<1>1. DOMAIN curator = Curators
    BY DEF BenchShape, Works
<1>2. missed = "never" => \A r \in Traffic : logged[r] # None => logged[r] <= KeepDays + 1
    BY DEF AgesInOrder
<1>3. UNCHANGED <<logged, purge, missed, scored>>
    BY DEF CreateBench, LookUpRequest, InsertCase, LookUpCase, EraseCase, CountCase
<1>4. CASE CreateBench(c)
  <2>1. PICK r \in Traffic : /\ logged[r] # None
                             /\ cases' = cases \cup {CaseOf(lastId + 2, lastId + 1, r, logged[r], FALSE)}
      BY <1>4 DEF CreateBench
  <2>2. \A d \in Curators : curator'[d] = curator[d] \/ curator'[d].op = "none"
      BY <1>1, <1>4 DEF CreateBench, Asks, Idle
  <2>3. \A k \in cases' : k \in cases \/ (k.age = 0 /\ k.text = logged[r])
      BY <2>1 DEF CaseOf
  <2>4. QED
      BY <1>2, <1>3, <2>1, <2>2, <2>3, AgesStay
<1>5. CASE LookUpRequest(c)
  <2>1. PICK r \in Traffic : /\ logged[r] # None
                             /\ curator' = [curator EXCEPT ![c] =
                                  [op |-> "insert", no |-> bench.no, request |-> r,
                                   text |-> logged[r], seen |-> bench.count]]
      BY <1>5 DEF LookUpRequest, Asks
  <2>2. \A d \in Curators : curator'[d] = curator[d] \/ curator'[d].text = logged[r]
      BY <1>1, <2>1
  <2>3. cases' = cases
      BY <1>5 DEF LookUpRequest
  <2>4. QED
      BY <1>2, <1>3, <2>1, <2>2, <2>3, AgesStay
<1>6. CASE InsertCase(c)
  <2>1. /\ curator[c].op = "insert"
        /\ cases' = cases \cup {CaseOf(lastId + 1, curator[c].no, curator[c].request, curator[c].text,
                                       Passed(curator[c].no, {"dataset"}))}
        /\ curator' = [curator EXCEPT ![c] =
             [op |-> "count", no |-> curator[c].no, by |-> 1, seen |-> curator[c].seen]]
      BY <1>6 DEF InsertCase, Goes
  <2>2. missed = "never" => curator[c].text <= KeepDays + 1
      BY <2>1 DEF AgesInOrder
  <2>3. \A k \in cases' : k \in cases \/ (k.age = 0 /\ k.text = curator[c].text)
      BY <2>1 DEF CaseOf
  <2>4. \A d \in Curators : curator'[d] = curator[d] \/ curator'[d].op = "count"
      BY <1>1, <2>1
  <2>5. QED
      BY <1>3, <2>2, <2>3, <2>4, AgesStay
<1>7. CASE LookUpCase(c) \/ EraseCase(c) \/ CountCase(c)
  <2>1. cases' \subseteq cases
      BY <1>7 DEF LookUpCase, EraseCase, CountCase
  <2>2. \A d \in Curators : curator'[d] = curator[d] \/ curator'[d].op \in {"none", "erase", "count"}
      BY <1>1, <1>7 DEF LookUpCase, EraseCase, CountCase, Asks, Goes, Idle
  <2>3. QED
      BY <1>3, <2>1, <2>2, AgesStay
<1>8. QED
    BY <1>4, <1>5, <1>6, <1>7

\* Only a request that is looked up becomes an addition.
LEMMA NoAddition ==
    ASSUME BenchShape, NEW c \in Curators,
           BeginDelete(c) \/ DeleteResults(c) \/ DeleteRuns(c) \/ DeleteItems(c) \/ DeleteDataset(c)
           \/ DeleteFails(c) \/ AskScore(c) \/ CreateRun(c)
    PROVE  \A d \in Curators :
             curator'[d] = curator[d] \/ (curator'[d].op \in {"none", "create"} \cup Deleting)
<1>1. DOMAIN curator = Curators /\ WorkShape(curator[c], cases, lastId)
    BY DEF BenchShape, Works
<1>2. CASE BeginDelete(c) \/ DeleteDataset(c) \/ DeleteFails(c) \/ AskScore(c) \/ CreateRun(c)
    BY <1>1, <1>2 DEF BeginDelete, DeleteDataset, DeleteFails, AskScore, CreateRun, Asks, Goes, Idle,
       Deleting
<1>3. CASE DeleteResults(c) \/ DeleteRuns(c) \/ DeleteItems(c)
  <2>1. PICK s \in Deleting : /\ curator[c].op \in Deleting
                              /\ curator' = [curator EXCEPT ![c] = [curator[c] EXCEPT !.op = s]]
      BY <1>3 DEF DeleteResults, DeleteRuns, DeleteItems, Goes, Deleting
  <2>2. DOMAIN curator[c] = {"op", "no"}
      BY <1>1, <2>1 DEF WorkShape
  <2>3. curator'[c].op = s
      BY <1>1, <2>1, <2>2
  <2>4. QED
      BY <1>1, <2>1, <2>3
<1>4. QED
    BY <1>2, <1>3

LEMMA DeletionKeepsAges ==
    ASSUME BenchShape, AgesInOrder, NEW c \in Curators,
           BeginDelete(c) \/ DeleteResults(c) \/ DeleteRuns(c) \/ DeleteItems(c) \/ DeleteDataset(c)
           \/ DeleteFails(c) \/ AskScore(c) \/ CreateRun(c)
    PROVE  AgesInOrder'
<1>1. UNCHANGED <<logged, purge, missed>> /\ cases' \subseteq cases /\ scored' \subseteq scored
    BY DEF BeginDelete, DeleteResults, DeleteRuns, DeleteItems, DeleteDataset, DeleteFails, AskScore,
           CreateRun
<1>2. \A d \in Curators : curator'[d].op = "insert" => curator'[d] = curator[d]
    BY NoAddition DEF Deleting
<1>3. QED
    BY <1>1, <1>2, AgesStay

LEMMA RestKeepsAges ==
    ASSUME BenchShape, AgesInOrder,
           ClaimRun \/ ReplayItem \/ FinishRun \/ PurgeStep \/ PurgeFails \/ DayPasses
           \/ UNCHANGED BenchVars
    PROVE  AgesInOrder'
<1>1. KeepDays \in Nat
    BY BenchAssumption
<1>2. CASE ClaimRun \/ ReplayItem \/ FinishRun \/ UNCHANGED BenchVars
  <2>1. UNCHANGED <<cases, logged, curator, purge, missed>>
      BY <1>2 DEF ClaimRun, ReplayItem, FinishRun, BenchVars
  <2>2. \A x \in scored' : x \in scored \/ x.age = 0
      BY <1>2 DEF ClaimRun, ReplayItem, FinishRun, BenchVars
  <2>3. QED
      BY <2>1, <2>2, AgesStay
<1>3. CASE PurgeStep
  <2>1. UNCHANGED curator
      BY <1>3 DEF PurgeStep
  <2>2. \A k \in cases : k.age \in Nat /\ k.text \in Nat
      BY DEF BenchShape, Stored, CaseShape
  <2>3. CASE purge = "due"
    <3>1. /\ purge' = "items" /\ UNCHANGED <<cases, scored, missed>>
          /\ logged' = [r \in Traffic |-> IF logged[r] # None /\ Old(logged[r]) THEN None ELSE logged[r]]
        BY <1>3, <2>3 DEF PurgeStep
    <3>2. \A r \in Traffic : logged[r] # None => logged[r] \in Nat
        BY DEF BenchShape, Record
    <3>3. \A r \in Traffic : logged'[r] # None => logged[r] # None /\ logged'[r] = logged[r] /\ logged'[r] <= KeepDays
        BY <1>1, <3>1, <3>2 DEF Old
    <3>4. QED
        BY <1>1, <2>1, <3>1, <3>3 DEF AgesInOrder, Purged
  <2>4. CASE purge = "items"
    <3>1. /\ purge' = "results" /\ UNCHANGED <<logged, scored, missed>>
          /\ cases' = {k \in cases : ~Old(k.age)}
        BY <1>3, <2>4 DEF PurgeStep
    <3>2. \A k \in cases' : k \in cases /\ k.age <= KeepDays
        BY <1>1, <2>2, <3>1 DEF Old
    <3>3. QED
        BY <1>1, <2>1, <2>4, <3>1, <3>2 DEF AgesInOrder, Purged
  <2>5. CASE purge = "results"
    <3>1. /\ purge' = "datasets" /\ UNCHANGED <<logged, cases, missed>>
          /\ scored' = {x \in scored : ~Old(x.age)}
        BY <1>3, <2>5 DEF PurgeStep
    <3>2. \A x \in scored' : x \in scored /\ x.age <= KeepDays
        BY <1>1, <3>1 DEF Old, BenchShape, ScoreShape
    <3>3. QED
        BY <1>1, <2>1, <2>5, <3>1, <3>2 DEF AgesInOrder, Purged
  <2>6. CASE purge = "datasets"
    <3>1. /\ purge' = "done" /\ UNCHANGED <<logged, cases, scored>>
          /\ missed' = IF missed = "never" THEN "never" ELSE "before"
        BY <1>3, <2>6 DEF PurgeStep
    <3>2. /\ \A r \in Traffic : logged[r] # None => logged[r] <= KeepDays
          /\ \A k \in cases : k.age <= KeepDays
          /\ \A x \in scored : x.age <= KeepDays
        BY <2>6 DEF AgesInOrder, Purged
    <3>3. \A r \in Traffic : logged[r] # None => logged[r] \in Nat
        BY DEF BenchShape, Record
    <3>4. \A x \in scored : x.age \in Nat
        BY DEF BenchShape, ScoreShape
    <3>5. /\ \A x \in cases \cup scored : x.age <= KeepDays + 1
          /\ \A r \in Traffic : logged[r] # None => logged[r] <= KeepDays + 1
        BY <1>1, <2>2, <3>2, <3>3, <3>4
    <3>6. missed' = "never" => missed = "never"
        BY <3>1
    <3>7. QED
        BY <1>1, <2>1, <3>1, <3>2, <3>5, <3>6 DEF AgesInOrder, Purged
  <2>7. QED
      BY <1>3, <2>3, <2>4, <2>5, <2>6 DEF PurgeStep
<1>4. CASE PurgeFails
    BY <1>4 DEF PurgeFails, AgesInOrder, Purged
<1>5. CASE DayPasses
  <2>1. /\ purge = "done" /\ purge' = "due" /\ UNCHANGED <<curator, missed>>
        /\ cases' = {AgedCase(k) : k \in cases} /\ scored' = {AgedScore(x) : x \in scored}
      BY <1>5 DEF DayPasses, AgedCase, AgedScore
  <2>2. \A r \in Traffic : logged'[r] # None => logged[r] # None /\ logged'[r] = logged[r] + 1
      BY <1>5 DEF DayPasses
  <2>3. \A k \in cases : CaseShape(k, lastId)
      BY DEF BenchShape, Stored
  <2>4. \A x \in scored : ScoreShape(x)
      BY DEF BenchShape
  <2>5. \A r \in Traffic : logged[r] # None => logged[r] \in Nat
      BY DEF BenchShape, Record
  <2>6. missed # "last" => /\ \A k \in cases : k.age <= KeepDays
                           /\ \A x \in scored : x.age <= KeepDays
                           /\ \A r \in Traffic : logged[r] # None => logged[r] <= KeepDays
      BY <2>1 DEF AgesInOrder, Purged
  <2>7. \A k \in cases' : \E j \in cases : /\ k.age = j.age + 1 /\ k.text = j.text + 1
                                           /\ j.age \in Nat /\ j.text \in Nat
      BY <2>1, <2>3, CaseAges DEF CaseShape
  <2>8. \A x \in scored' : \E y \in scored : x.age = y.age + 1 /\ y.age \in Nat
      BY <2>1, <2>4, ScoreAges DEF ScoreShape
  <2>9. missed # "last" => \A k \in cases' : k.age <= KeepDays + 1
      BY <1>1, <2>6, <2>7
  <2>10. missed # "last" => \A x \in scored' : x.age <= KeepDays + 1
      BY <1>1, <2>6, <2>8
  <2>11. missed # "last" => \A r \in Traffic : logged'[r] # None => logged'[r] <= KeepDays + 1
      BY <1>1, <2>2, <2>5, <2>6
  <2>12. missed = "never" => \A k \in cases' : k.text <= k.age + KeepDays + 1
    <3>1. missed = "never" => \A j \in cases : j.text <= j.age + KeepDays + 1
        BY DEF AgesInOrder
    <3>2. QED
        BY <1>1, <2>7, <3>1
  <2>13. missed = "never" =>
           \A c \in Curators : curator[c].op = "insert" => curator[c].text <= KeepDays + 1
      BY DEF AgesInOrder
  <2>14. QED
      BY <2>1, <2>9, <2>10, <2>11, <2>12, <2>13 DEF AgesInOrder, Purged
<1>6. QED
    BY <1>2, <1>3, <1>4, <1>5

-----------------------------------------------------------------------------
(* Benchmarks: what a deletion leaves. *)

\* Nothing is written, no benchmark goes or comes, and no deletion gets further.
LEMMA LatenessStays ==
    ASSUME DeletedBehind, LeftoversAreLate, cases' \subseteq cases, scored' \subseteq scored,
           UNCHANGED dropped, \A n : Stands(n)' = Stands(n),
           \A c \in Curators : \/ curator'[c] = curator[c]
                               \/ curator'[c].op \notin {"run", "items", "dataset"}
    PROVE  DeletedBehind' /\ LeftoversAreLate'
<1>1. LeftoversAreLate'
    BY DEF LeftoversAreLate
<1>2. ASSUME NEW c \in Curators, curator'[c].op \in {"run", "items", "dataset"},
             bench' # None, bench'.no = curator'[c].no
      PROVE  /\ \A x \in scored' : x.of = curator'[c].no => x.late
             /\ curator'[c].op = "dataset" => \A k \in cases' : k.of = curator'[c].no => k.late
  <2>1. curator'[c] = curator[c]
      BY <1>2
  <2>2. PICK w : w = curator[c]
      OBVIOUS
  <2>3. PICK m : m = w.no
      OBVIOUS
  <2>4. Stands(m)
    <3>1. Stands(m)'
        BY <1>2, <2>1, <2>2, <2>3 DEF Stands
    <3>2. QED
        BY <3>1
  <2>5. QED
      BY <1>2, <2>1, <2>2, <2>3, <2>4 DEF DeletedBehind
<1>3. DeletedBehind'
    BY <1>2 DEF DeletedBehind, Stands
<1>4. QED
    BY <1>1, <1>3

LEMMA CurationKeepsLateness ==
    ASSUME BenchShape, DeletedBehind, LeftoversAreLate, NEW c \in Curators,
           CreateBench(c) \/ LookUpRequest(c) \/ InsertCase(c) \/ LookUpCase(c) \/ EraseCase(c)
           \/ CountCase(c)
    PROVE  DeletedBehind' /\ LeftoversAreLate'
<1>1. /\ DOMAIN curator = Curators /\ \A d \in Curators : WorkShape(curator[d], cases, lastId)
      /\ \A k \in cases : CaseShape(k, lastId)
      /\ lastId \in Nat /\ Dataset(bench, lastId)
    BY DEF BenchShape, Works, Stored
<1>2. UNCHANGED <<dropped, scored>>
    BY DEF CreateBench, LookUpRequest, InsertCase, LookUpCase, EraseCase, CountCase
<1>3. CASE CreateBench(c)
  <2>1. PICK r \in Traffic : /\ bench' = [no |-> lastId + 1, count |-> 1, age |-> 0]
                             /\ cases' = cases \cup {CaseOf(lastId + 2, lastId + 1, r, logged[r], FALSE)}
      BY <1>3 DEF CreateBench
  <2>2. \A d \in Curators : curator'[d] = curator[d] \/ curator'[d].op = "none"
      BY <1>1, <1>3 DEF CreateBench, Asks, Idle
  <2>3. bench = None
      BY <1>3 DEF CreateBench
  <2>4. bench' # None /\ bench'.no = lastId + 1
      BY <1>1, <2>1, BenchAssumption
  <2>5. LeftoversAreLate'
    <3>1. \A x \in cases \cup scored : x.late \/ x.of \in dropped
        BY <2>3 DEF LeftoversAreLate, Stands
    <3>2. \A k \in cases' : k \in cases \/ k.of = lastId + 1
        BY <2>1 DEF CaseOf
    <3>3. QED
        BY <1>2, <2>4, <3>1, <3>2 DEF LeftoversAreLate, Stands
  <2>6. \A d \in Curators : curator'[d].op \in {"run", "items", "dataset"} => curator'[d].no # lastId + 1
      BY <1>1, <2>2 DEF WorkShape
  <2>7. DeletedBehind'
      BY <2>4, <2>6 DEF DeletedBehind, Stands
  <2>8. QED
      BY <2>5, <2>7
<1>4. CASE InsertCase(c)
  <2>1. PICK b \in BOOLEAN : b = Passed(curator[c].no, {"dataset"})
      BY Zenon DEF Passed, Stands
  <2>2. PICK k : k = CaseOf(lastId + 1, curator[c].no, curator[c].request, curator[c].text, b)
      OBVIOUS
  <2>3. cases' = cases \cup {k} /\ k.of = curator[c].no /\ k.late = b /\ UNCHANGED bench
      BY <1>4, <2>1, <2>2 DEF InsertCase, CaseOf
  <2>4. \A d \in Curators : curator'[d] = curator[d] \/ curator'[d].op = "count"
      BY <1>1, <1>4 DEF InsertCase, Goes
  <2>5. \A n : Stands(n)' = Stands(n)
      BY <2>3 DEF Stands
  <2>6. PICK n : n = k.of
      OBVIOUS
  <2>7. ~Stands(n) => k.late
      BY <2>1, <2>3, <2>6, Zenon DEF Passed
  <2>8. \A d \in Curators : curator[d].op = "dataset" /\ curator[d].no = n => k.late
      BY <2>1, <2>3, <2>6, Zenon DEF Passed
  <2>9. LeftoversAreLate'
    <3>1. ASSUME NEW x \in cases' \cup scored', ~Stands(x.of)' PROVE x.late \/ x.of \in dropped'
      <4>1. PICK m : m = x.of
          OBVIOUS
      <4>2. ~Stands(m)
          BY <2>5, <3>1, <4>1
      <4>3. QED
          BY <1>2, <2>3, <2>6, <2>7, <4>1, <4>2 DEF LeftoversAreLate
    <3>2. QED
        BY <3>1 DEF LeftoversAreLate
  <2>10. DeletedBehind'
    <3>1. ASSUME NEW d \in Curators, curator'[d].op \in {"run", "items", "dataset"},
                 bench' # None, bench'.no = curator'[d].no
          PROVE  /\ \A x \in scored' : x.of = curator'[d].no => x.late
                 /\ curator'[d].op = "dataset" => \A j \in cases' : j.of = curator'[d].no => j.late
      <4>1. curator'[d] = curator[d]
          BY <2>4, <3>1
      <4>2. PICK m : m = curator[d].no
          OBVIOUS
      <4>3. Stands(m)
        <5>1. Stands(m)'
            BY <3>1, <4>1, <4>2 DEF Stands
        <5>2. QED
            BY <2>5, <5>1
      <4>4. QED
          BY <1>2, <2>3, <2>6, <2>8, <3>1, <4>1, <4>2, <4>3 DEF DeletedBehind
    <3>2. QED
        BY <3>1 DEF DeletedBehind, Stands
  <2>11. QED
      BY <2>9, <2>10
<1>5. CASE LookUpRequest(c) \/ LookUpCase(c) \/ EraseCase(c) \/ CountCase(c)
  <2>1. cases' \subseteq cases
      BY <1>5 DEF LookUpRequest, LookUpCase, EraseCase, CountCase
  <2>2. \A d \in Curators : \/ curator'[d] = curator[d]
                            \/ curator'[d].op \in {"none", "insert", "erase", "count"}
      BY <1>1, <1>5 DEF LookUpRequest, LookUpCase, EraseCase, CountCase, Asks, Goes, Idle
  <2>3. bench' = bench \/ (bench # None /\ bench' # None /\ bench'.no = bench.no)
    <3>1. CASE CountCase(c)
      <4>1. bench' = bench \/ (bench # None /\ bench' = [bench EXCEPT !.count = @ + curator[c].by])
          BY <3>1 DEF CountCase, Stands
      <4>2. curator[c].by \in Int
          BY <1>1, <3>1 DEF WorkShape, CountCase
      <4>3. ASSUME bench # None, bench' = [bench EXCEPT !.count = @ + curator[c].by]
            PROVE  bench' # None /\ bench'.no = bench.no
        <5>1. bench \in [no : Nat, count : Int, age : Nat]
            BY <1>1, <4>3 DEF Dataset
        <5>2. bench' \in [no : Nat, count : Int, age : Nat] /\ bench'.no = bench.no
            BY <4>2, <4>3, <5>1
        <5>3. QED
            BY <5>2, BenchAssumption
      <4>4. QED
          BY <4>1, <4>3
    <3>2. QED
        BY <1>5, <3>1 DEF LookUpRequest, LookUpCase, EraseCase
  <2>4. \A n : Stands(n)' = Stands(n)
      BY <2>3 DEF Stands
  <2>5. QED
      BY <1>2, <2>1, <2>2, <2>4, LatenessStays
<1>6. QED
    BY <1>3, <1>4, <1>5

LEMMA DeletionKeepsLateness ==
    ASSUME BenchShape, DeletedBehind, LeftoversAreLate, NEW c \in Curators,
           BeginDelete(c) \/ DeleteResults(c) \/ DeleteRuns(c) \/ DeleteItems(c) \/ DeleteDataset(c)
           \/ DeleteFails(c) \/ AskScore(c) \/ CreateRun(c)
    PROVE  DeletedBehind' /\ LeftoversAreLate'
<1>1. DOMAIN curator = Curators /\ \A d \in Curators : WorkShape(curator[d], cases, lastId)
    BY DEF BenchShape, Works
<1>2. UNCHANGED dropped /\ cases' \subseteq cases /\ scored' \subseteq scored
    BY DEF BeginDelete, DeleteResults, DeleteRuns, DeleteItems, DeleteDataset, DeleteFails, AskScore,
           CreateRun
<1>3. CASE BeginDelete(c) \/ DeleteFails(c) \/ AskScore(c) \/ CreateRun(c)
  <2>1. \A d \in Curators : \/ curator'[d] = curator[d]
                            \/ curator'[d].op \in {"none", "results", "create"}
      BY <1>1, <1>3 DEF BeginDelete, DeleteFails, AskScore, CreateRun, Asks, Goes, Idle
  <2>2. UNCHANGED bench
      BY <1>3 DEF BeginDelete, DeleteFails, AskScore, CreateRun
  <2>3. \A n : Stands(n)' = Stands(n)
      BY <2>2 DEF Stands
  <2>4. QED
      BY <1>2, <2>1, <2>3, LatenessStays
<1>4. CASE DeleteResults(c) \/ DeleteRuns(c) \/ DeleteItems(c)
  <2>1. PICK s \in {"run", "items", "dataset"} :
             /\ curator[c].op \in Deleting
             /\ curator' = [curator EXCEPT ![c] = [curator[c] EXCEPT !.op = s]]
             /\ s = "run" => curator[c].op = "results"
             /\ s = "items" => curator[c].op = "run"
             /\ s = "dataset" => curator[c].op = "items"
      BY <1>4 DEF DeleteResults, DeleteRuns, DeleteItems, Goes, Deleting
  <2>2. DOMAIN curator[c] = {"op", "no"}
      BY <1>1, <2>1 DEF WorkShape
  <2>3. curator'[c].op = s /\ curator'[c].no = curator[c].no
        /\ \A d \in Curators : d # c => curator'[d] = curator[d]
      BY <1>1, <2>1, <2>2
  <2>4. UNCHANGED bench
      BY <1>4 DEF DeleteResults, DeleteRuns, DeleteItems
  <2>5. \A n : Stands(n)' = Stands(n)
      BY <2>4 DEF Stands
  <2>6. LeftoversAreLate'
    <3>1. ASSUME NEW x \in cases' \cup scored', ~Stands(x.of)' PROVE x.late \/ x.of \in dropped'
      <4>1. PICK m : m = x.of
          OBVIOUS
      <4>2. ~Stands(m)
          BY <2>5, <3>1, <4>1
      <4>3. QED
          BY <1>2, <4>1, <4>2 DEF LeftoversAreLate
    <3>2. QED
        BY <3>1 DEF LeftoversAreLate
  <2>7. DeletedBehind'
    <3>1. ASSUME NEW d \in Curators, curator'[d].op \in {"run", "items", "dataset"},
                 bench' # None, bench'.no = curator'[d].no
          PROVE  /\ \A x \in scored' : x.of = curator'[d].no => x.late
                 /\ curator'[d].op = "dataset" => \A j \in cases' : j.of = curator'[d].no => j.late
      <4>1. PICK m : m = curator[d].no
          OBVIOUS
      <4>2. curator'[d].no = m
          BY <2>3, <4>1
      <4>3. Stands(m)
        <5>1. Stands(m)'
            BY <3>1, <4>2 DEF Stands
        <5>2. QED
            BY <2>5, <5>1
      <4>4. CASE d # c
          BY <1>2, <2>3, <3>1, <4>1, <4>3, <4>4 DEF DeletedBehind
      <4>5. CASE d = c /\ s = "run"
        <5>1. DeleteResults(c)
            BY <1>4, <2>1, <4>5 DEF DeleteRuns, DeleteItems
        <5>2. \A x \in scored' : x.of # m
            BY <4>1, <4>5, <5>1 DEF DeleteResults
        <5>3. QED
            BY <2>3, <4>2, <4>5, <5>2
      <4>6. CASE d = c /\ s = "items"
          BY <1>2, <2>1, <2>3, <4>1, <4>2, <4>3, <4>6 DEF DeletedBehind
      <4>7. CASE d = c /\ s = "dataset"
        <5>1. DeleteItems(c)
            BY <1>4, <2>1, <4>7 DEF DeleteResults, DeleteRuns
        <5>2. \A k \in cases' : k.of # m
            BY <4>1, <4>7, <5>1 DEF DeleteItems
        <5>3. \A x \in scored' : x.of = m => x.late
            BY <1>2, <2>1, <4>1, <4>3, <4>7 DEF DeletedBehind
        <5>4. QED
            BY <4>2, <5>2, <5>3
      <4>8. QED
          BY <4>4, <4>5, <4>6, <4>7
    <3>2. QED
        BY <3>1 DEF DeletedBehind, Stands
  <2>8. QED
      BY <2>6, <2>7
<1>5. CASE DeleteDataset(c)
  <2>1. PICK n : n = curator[c].no
      OBVIOUS
  <2>2. curator[c].op = "dataset" /\ UNCHANGED <<cases, scored, dropped>>
        /\ bench' = IF Stands(n) THEN None ELSE bench
      BY <1>5, <2>1 DEF DeleteDataset
  <2>3. \A d \in Curators : curator'[d] = curator[d] \/ curator'[d].op = "none"
      BY <1>1, <1>5 DEF DeleteDataset, Goes, Idle
  <2>4. CASE ~Stands(n)
    <3>1. \A m : Stands(m)' = Stands(m)
        BY <2>2, <2>4 DEF Stands
    <3>2. QED
        BY <2>2, <2>3, <3>1, LatenessStays
  <2>5. CASE Stands(n)
    <3>1. \A m : ~Stands(m)'
        BY <2>2, <2>5 DEF Stands
    <3>2. \A m : Stands(m) => m = n
        BY <2>5 DEF Stands
    <3>3. \A x \in cases \cup scored : x.of = n => x.late
        BY <2>1, <2>2, <2>5 DEF DeletedBehind
    <3>4. \A x \in cases \cup scored : x.late \/ x.of \in dropped
        BY <3>2, <3>3 DEF LeftoversAreLate
    <3>5. LeftoversAreLate'
        BY <2>2, <3>4 DEF LeftoversAreLate
    <3>6. DeletedBehind'
      <4>1. bench' = None
          BY <2>2, <2>5
      <4>2. QED
          BY <4>1 DEF DeletedBehind, Stands
    <3>7. QED
        BY <3>5, <3>6
  <2>6. QED
      BY <2>4, <2>5
<1>6. QED
    BY <1>3, <1>4, <1>5

LEMMA RestKeepsLateness ==
    ASSUME BenchShape, DeletedBehind, LeftoversAreLate,
           ClaimRun \/ ReplayItem \/ FinishRun \/ PurgeStep \/ PurgeFails \/ DayPasses
           \/ UNCHANGED BenchVars
    PROVE  DeletedBehind' /\ LeftoversAreLate'
<1>1. CASE ClaimRun \/ FinishRun \/ PurgeFails \/ UNCHANGED BenchVars
  <2>1. UNCHANGED <<bench, cases, scored, curator, dropped>>
      BY <1>1 DEF ClaimRun, FinishRun, PurgeFails, BenchVars
  <2>2. \A n : Stands(n)' = Stands(n)
      BY <2>1 DEF Stands
  <2>3. QED
      BY <2>1, <2>2, LatenessStays
<1>2. CASE ReplayItem
  <2>1. UNCHANGED <<bench, cases, curator, dropped>>
      BY <1>2 DEF ReplayItem
  <2>2. \A n : Stands(n)' = Stands(n)
      BY <2>1 DEF Stands
  <2>3. CASE scored' = scored
      BY <2>1, <2>2, <2>3, LatenessStays
  <2>4. CASE scored' # scored
    <3>1. PICK k \in replay.todo :
            scored' = scored \cup {[item |-> k.id, of |-> k.of, age |-> 0,
                        late |-> trial.of # k.of \/ Passed(k.of, {"run", "items", "dataset"})]}
        BY <1>2, <2>4 DEF ReplayItem
    <3>2. PICK n : n = k.of
        OBVIOUS
    <3>3. PICK b \in BOOLEAN : b = (trial.of # n \/ Passed(n, {"run", "items", "dataset"}))
        OBVIOUS
    <3>4. PICK z : z = [item |-> k.id, of |-> n, age |-> 0, late |-> b]
        OBVIOUS
    <3>5. scored' = scored \cup {z} /\ z.of = n /\ z.late = b
        BY <3>1, <3>2, <3>3, <3>4
    <3>6. ~Stands(n) => b
        BY <3>3, Zenon DEF Passed
    <3>7. \A d \in Curators : curator[d].op \in {"run", "items", "dataset"} /\ curator[d].no = n => b
        BY <3>3, Zenon DEF Passed
    <3>8. LeftoversAreLate'
      <4>1. ASSUME NEW x \in cases' \cup scored', ~Stands(x.of)' PROVE x.late \/ x.of \in dropped'
        <5>1. PICK m : m = x.of
            OBVIOUS
        <5>2. ~Stands(m)
            BY <2>2, <4>1, <5>1
        <5>3. QED
            BY <2>1, <3>5, <3>6, <4>1, <5>1, <5>2 DEF LeftoversAreLate
      <4>2. QED
          BY <4>1 DEF LeftoversAreLate
    <3>9. DeletedBehind'
        BY <2>1, <3>5, <3>7 DEF DeletedBehind, Stands
    <3>10. QED
        BY <3>8, <3>9
  <2>5. QED
      BY <2>3, <2>4
<1>3. CASE PurgeStep
  <2>1. cases' \subseteq cases /\ scored' \subseteq scored /\ UNCHANGED curator
      BY <1>3 DEF PurgeStep
  <2>2. CASE UNCHANGED <<bench, dropped>>
    <3>1. \A n : Stands(n)' = Stands(n)
        BY <2>2 DEF Stands
    <3>2. QED
        BY <2>1, <2>2, <3>1, LatenessStays
  <2>3. CASE bench # None /\ bench' = None /\ dropped' = dropped \cup {bench.no}
    <3>1. LeftoversAreLate'
        BY <2>1, <2>3 DEF LeftoversAreLate, Stands
    <3>2. DeletedBehind'
        BY <2>3 DEF DeletedBehind, Stands
    <3>3. QED
        BY <3>1, <3>2
  <2>4. QED
      BY <1>3, <2>2, <2>3 DEF PurgeStep
<1>4. CASE DayPasses
  <2>1. /\ cases' = {AgedCase(k) : k \in cases} /\ scored' = {AgedScore(x) : x \in scored}
        /\ UNCHANGED <<curator, dropped>> /\ \A d \in Curators : curator[d] = Idle
      BY <1>4 DEF DayPasses, AgedCase, AgedScore
  <2>2. DeletedBehind'
      BY <2>1 DEF DeletedBehind, Idle
  <2>3. \A k \in cases' : \E j \in cases : k.of = j.of /\ k.late = j.late
    <3>1. \A k \in cases : CaseShape(k, lastId)
        BY DEF BenchShape, Stored
    <3>2. QED
        BY <2>1, <3>1, CaseAges
  <2>4. \A x \in scored' : \E y \in scored : x.of = y.of /\ x.late = y.late
    <3>1. \A x \in scored : ScoreShape(x)
        BY DEF BenchShape
    <3>2. QED
        BY <2>1, <3>1, ScoreAges
  <2>5. (bench' = None <=> bench = None) /\ (bench # None => bench'.no = bench.no)
    <3>1. (bench = None /\ bench' = None) \/ (bench # None /\ bench' = [bench EXCEPT !.age = @ + 1])
        BY <1>4 DEF DayPasses
    <3>2. bench # None => bench \in [no : Nat, count : Int, age : Nat]
        BY DEF BenchShape, Dataset
    <3>3. ASSUME bench # None, bench' = [bench EXCEPT !.age = @ + 1]
          PROVE  bench' # None /\ bench'.no = bench.no
      <4>1. bench' \in [no : Nat, count : Int, age : Nat] /\ bench'.no = bench.no
          BY <3>2, <3>3
      <4>2. QED
          BY <4>1, BenchAssumption
    <3>4. QED
        BY <3>1, <3>3
  <2>6. \A n : Stands(n)' = Stands(n)
      BY <2>5 DEF Stands
  <2>7. LeftoversAreLate'
    <3>1. ASSUME NEW x \in cases' \cup scored', ~Stands(x.of)' PROVE x.late \/ x.of \in dropped'
      <4>1. PICK m : m = x.of
          OBVIOUS
      <4>2. ~Stands(m)
          BY <2>6, <3>1, <4>1
      <4>3. PICK y \in cases \cup scored : x.of = y.of /\ x.late = y.late
          BY <2>3, <2>4, <3>1
      <4>4. QED
          BY <2>1, <4>1, <4>2, <4>3 DEF LeftoversAreLate
    <3>2. QED
        BY <3>1 DEF LeftoversAreLate
  <2>8. QED
      BY <2>2, <2>7
<1>5. QED
    BY <1>1, <1>2, <1>3, <1>4

-----------------------------------------------------------------------------
(* Benchmarks: the count. *)

LEMMA OwingFinite ==
    ASSUME NEW n
    PROVE  IsFiniteSet(Owing(n)) /\ Cardinality(Owing(n)) \in Nat
<1>1. Owing(n) \in SUBSET Curators
    BY DEF Owing
<1>2. QED
    BY <1>1, FS_Subset, FS_CardinalityType, BenchAssumption

LEMMA OwnFinite == BenchShape => IsFiniteSet(Own) /\ Cardinality(Own) \in Nat
<1>1. SUFFICES ASSUME BenchShape PROVE IsFiniteSet(Own) /\ Cardinality(Own) \in Nat
    OBVIOUS
<1>2. IsFiniteSet(cases)
    BY <1>1 DEF BenchShape, Stored
<1>3. Own \in SUBSET cases
    BY DEF Own
<1>4. IsFiniteSet(Own)
    BY <1>2, <1>3, FS_Subset
<1>5. QED
    BY <1>4, FS_CardinalityType

\* Neither the cases of the benchmark nor what is owed to its count change.
LEMMA CountStays ==
    ASSUME CountKept, Doomed => Doomed', UNCHANGED drift, bench' # None => bench' = bench,
           bench' # None => \A k : k \in cases' /\ k.of = bench.no <=> k \in cases /\ k.of = bench.no,
           \A c \in Curators : \/ curator'[c] = curator[c]
                               \/ curator'[c].op # "count" /\ curator[c].op # "count"
    PROVE  CountKept'
<1>1. SUFFICES ASSUME bench' # None PROVE CountKept'
    BY DEF CountKept
<1>2. bench' = bench /\ bench # None
    BY <1>1
<1>3. Own' = Own
    BY <1>1, <1>2 DEF Own
<1>4. Owing(1)' = Owing(1) /\ Owing(-1)' = Owing(-1)
    BY <1>2 DEF Owing
<1>5. QED
    BY <1>2, <1>3, <1>4 DEF CountKept

\* One operator begins, or ends, to owe n.
LEMMA OwesMore ==
    ASSUME NEW c \in Curators, NEW n, bench'.no = bench.no, ~(c \in Owing(n)), c \in Owing(n)',
           \A d \in Curators : d # c => curator'[d] = curator[d]
    PROVE  Cardinality(Owing(n)') = Cardinality(Owing(n)) + 1
<1>1. Owing(n)' = Owing(n) \cup {c}
    BY DEF Owing
<1>2. QED
    BY <1>1, OwingFinite, FS_AddElement

LEMMA OwesLess ==
    ASSUME NEW c \in Curators, NEW n, ~(c \in Owing(n)'), c \in Owing(n), bench'.no = bench.no,
           \A d \in Curators : d # c => curator'[d] = curator[d]
    PROVE  Cardinality(Owing(n)') = Cardinality(Owing(n)) - 1
<1>1. Owing(n)' = Owing(n) \ {c}
    BY DEF Owing
<1>2. QED
    BY <1>1, OwingFinite, FS_RemoveElement

LEMMA OwesAsMuch ==
    ASSUME NEW c \in Curators, NEW n, bench'.no = bench.no, ~(c \in Owing(n)'), ~(c \in Owing(n)),
           \A d \in Curators : d # c => curator'[d] = curator[d]
    PROVE  Owing(n)' = Owing(n)
BY DEF Owing

LEMMA CurationKeepsCount ==
    ASSUME BenchShape, CountKept, NEW c \in Curators,
           CreateBench(c) \/ LookUpRequest(c) \/ InsertCase(c) \/ LookUpCase(c) \/ EraseCase(c)
           \/ CountCase(c)
    PROVE  CountKept'
<1>1. /\ DOMAIN curator = Curators /\ \A d \in Curators : WorkShape(curator[d], cases, lastId)
      /\ \A k \in cases : CaseShape(k, lastId)
      /\ lastId \in Nat /\ drift \in Int
      /\ bench # None => bench \in [no : Nat, count : Int, age : Nat]
    BY DEF BenchShape, Works, Stored, Dataset
<1>2. UNCHANGED <<purge, missed>>
    BY DEF CreateBench, LookUpRequest, InsertCase, LookUpCase, EraseCase, CountCase
<1>3. /\ Cardinality(Owing(1)) \in Nat /\ Cardinality(Owing(-1)) \in Nat
      /\ Cardinality(Own) \in Nat /\ IsFiniteSet(Own)
    BY OwingFinite, OwnFinite
<1>4. CASE CreateBench(c)
  <2>1. PICK r \in Traffic : /\ bench' = [no |-> lastId + 1, count |-> 1, age |-> 0]
                             /\ cases' = cases \cup {CaseOf(lastId + 2, lastId + 1, r, logged[r], FALSE)}
      BY <1>4 DEF CreateBench
  <2>2. PICK k : k = CaseOf(lastId + 2, lastId + 1, r, logged[r], FALSE)
      OBVIOUS
  <2>3. \A d \in Curators : curator'[d] = curator[d] \/ curator'[d].op = "none"
      BY <1>1, <1>4 DEF CreateBench, Asks, Idle
  <2>4. bench' # None /\ bench'.no = lastId + 1 /\ bench'.count = 1 /\ bench'.age = 0 /\ drift' = 0
      BY <1>1, <1>4, <2>1, BenchAssumption DEF CreateBench
  <2>5. \A j \in cases : j.of # lastId + 1
      BY <1>1 DEF CaseShape
  <2>6. Own' = {k} /\ k.age = 0
      BY <2>1, <2>2, <2>4, <2>5 DEF Own, CaseOf
  <2>7. \A d \in Curators : curator'[d].op = "count" => curator'[d].no # lastId + 1
      BY <1>1, <2>3 DEF WorkShape
  <2>8. Owing(1)' = {} /\ Owing(-1)' = {}
      BY <2>4, <2>7 DEF Owing
  <2>9. Cardinality(Own') = 1 /\ Cardinality(Owing(1)') = 0 /\ Cardinality(Owing(-1)') = 0
      BY <2>6, <2>8, FS_EmptySet, FS_Singleton
  <2>10. bench'.count + Cardinality(Owing(1)') - Cardinality(Owing(-1)') = Cardinality(Own') - drift'
      BY <2>4, <2>9
  <2>11. \A j \in Own' : j.age <= bench'.age
      BY <2>4, <2>6
  <2>12. QED
      BY <2>10, <2>11 DEF CountKept
<1>5. CASE LookUpRequest(c) \/ LookUpCase(c)
  <2>1. UNCHANGED <<bench, cases, drift>>
      BY <1>5 DEF LookUpRequest, LookUpCase
  <2>2. \A d \in Curators : \/ curator'[d] = curator[d]
                            \/ curator'[d].op # "count" /\ curator[d].op # "count"
      BY <1>1, <1>5 DEF LookUpRequest, LookUpCase, Asks, Idle
  <2>3. Doomed => Doomed'
      BY <1>2, <2>1 DEF Doomed
  <2>4. QED
      BY <2>1, <2>2, <2>3, CountStays
<1>6. CASE InsertCase(c)
  <2>1. PICK k : /\ k = CaseOf(lastId + 1, curator[c].no, curator[c].request, curator[c].text,
                               Passed(curator[c].no, {"dataset"}))
                 /\ cases' = cases \cup {k}
      BY <1>6 DEF InsertCase
  <2>2. k.of = curator[c].no /\ k.age = 0 /\ k.id = lastId + 1
      BY <2>1 DEF CaseOf
  <2>3. UNCHANGED <<bench, drift>> /\ curator[c].op = "insert"
      BY <1>6 DEF InsertCase
  <2>4. /\ curator'[c].op = "count" /\ curator'[c].no = curator[c].no /\ curator'[c].by = 1
        /\ \A d \in Curators : d # c => curator'[d] = curator[d]
      BY <1>1, <1>6 DEF InsertCase, Goes
  <2>5. SUFFICES ASSUME bench # None PROVE CountKept'
      BY <2>3 DEF CountKept
  <2>6. k \notin cases
      BY <1>1, <2>2 DEF CaseShape
  <2>7. Doomed => Doomed'
      BY <1>2, <2>3 DEF Doomed
  <2>8. Owing(-1)' = Owing(-1)
      BY <2>3, <2>4, OwesAsMuch DEF Owing
  <2>9. bench.age \in Nat /\ bench.count \in Int
      BY <1>1, <2>5
  <2>10. CASE curator[c].no = bench.no
    <3>1. Own' = Own \cup {k} /\ k \notin Own
        BY <2>1, <2>2, <2>3, <2>5, <2>6, <2>10 DEF Own
    <3>2. Cardinality(Own') = Cardinality(Own) + 1
        BY <1>3, <3>1, FS_AddElement
    <3>3. c \in Owing(1)' /\ ~(c \in Owing(1))
        BY <2>3, <2>4, <2>10 DEF Owing
    <3>4. Cardinality(Owing(1)') = Cardinality(Owing(1)) + 1
        BY <2>3, <2>4, <3>3, OwesMore
    <3>5. \A j \in Own' : j.age <= bench'.age
        BY <2>2, <2>3, <2>5, <2>9, <3>1 DEF CountKept
    <3>6. Doomed \/ bench.count + Cardinality(Owing(1)) - Cardinality(Owing(-1)) = Cardinality(Own) - drift
        BY <2>5 DEF CountKept
    <3>7. Doomed' \/ bench'.count + Cardinality(Owing(1)') - Cardinality(Owing(-1)') = Cardinality(Own') - drift'
        BY <1>1, <1>3, <2>3, <2>7, <2>8, <2>9, <3>2, <3>4, <3>6
    <3>8. QED
        BY <3>5, <3>7 DEF CountKept
  <2>11. CASE curator[c].no # bench.no
    <3>1. Own' = Own
        BY <2>1, <2>2, <2>3, <2>5, <2>11 DEF Own
    <3>2. Owing(1)' = Owing(1)
        BY <2>3, <2>4, <2>11, OwesAsMuch DEF Owing
    <3>3. QED
        BY <2>3, <2>5, <2>7, <2>8, <3>1, <3>2 DEF CountKept
  <2>12. QED
      BY <2>10, <2>11
<1>7. CASE EraseCase(c)
  <2> DEFINE w == curator[c]
  <2>1. /\ w.op = "erase" /\ cases' = {k \in cases : k.id # w.id} /\ UNCHANGED bench
        /\ drift' = IF cases' = cases /\ Stands(w.no) THEN drift + 1 ELSE drift
      BY <1>7 DEF EraseCase
  <2>2. /\ curator'[c].op = "count" /\ curator'[c].no = w.no /\ curator'[c].by = -1
        /\ \A d \in Curators : d # c => curator'[d] = curator[d]
      BY <1>1, <1>7 DEF EraseCase, Goes
  <2>3. SUFFICES ASSUME bench # None PROVE CountKept'
      BY <2>1 DEF CountKept
  <2>4. \A k \in cases : k.id = w.id => k.of = w.no
      BY <1>1, <2>1 DEF WorkShape
  <2>5. Doomed => Doomed'
      BY <1>2, <2>1 DEF Doomed
  <2>6. Owing(1)' = Owing(1)
      BY <2>1, <2>2, OwesAsMuch DEF Owing
  <2>7. bench.age \in Nat /\ bench.count \in Int
      BY <1>1, <2>3
  <2>8. \A j \in Own' : j \in Own
      BY <2>1, <2>3 DEF Own
  <2>9. \A j \in Own' : j.age <= bench'.age
      BY <2>1, <2>3, <2>8 DEF CountKept
  <2>10. Doomed \/ bench.count + Cardinality(Owing(1)) - Cardinality(Owing(-1)) = Cardinality(Own) - drift
      BY <2>3 DEF CountKept
  <2>11. CASE w.no = bench.no
    <3>1. c \in Owing(-1)' /\ ~(c \in Owing(-1))
        BY <2>1, <2>2, <2>11 DEF Owing
    <3>2. Cardinality(Owing(-1)') = Cardinality(Owing(-1)) + 1
        BY <2>1, <2>2, <3>1, OwesMore
    <3>3. CASE cases' = cases
      <4>1. Own' = Own
          BY <2>1, <3>3 DEF Own
      <4>2. drift' = drift + 1
          BY <2>1, <2>3, <2>11, <3>3 DEF Stands
      <4>3. Doomed' \/ bench'.count + Cardinality(Owing(1)') - Cardinality(Owing(-1)') = Cardinality(Own') - drift'
          BY <1>1, <1>3, <2>1, <2>5, <2>6, <2>7, <2>10, <3>2, <4>1, <4>2
      <4>4. QED
          BY <2>9, <4>3 DEF CountKept
    <3>4. CASE cases' # cases
      <4>1. PICK k \in cases : k.id = w.id
          BY <2>1, <3>4
      <4>2. \A j \in cases : j.id = w.id => j = k
          BY <4>1 DEF BenchShape, Stored
      <4>3. Own' = Own \ {k} /\ k \in Own
          BY <2>1, <2>3, <2>4, <2>11, <4>1, <4>2 DEF Own
      <4>4. Cardinality(Own') = Cardinality(Own) - 1
          BY <1>3, <4>3, FS_RemoveElement
      <4>5. drift' = drift
          BY <2>1, <3>4
      <4>6. Doomed' \/ bench'.count + Cardinality(Owing(1)') - Cardinality(Owing(-1)') = Cardinality(Own') - drift'
        <5>1. bench'.count = bench.count /\ Cardinality(Owing(1)') = Cardinality(Owing(1))
            BY <2>1, <2>6
        <5>2. CASE Doomed
            BY <2>5, <5>2
        <5>3. CASE bench.count + Cardinality(Owing(1)) - Cardinality(Owing(-1)) = Cardinality(Own) - drift
            BY <1>1, <1>3, <2>7, <3>2, <4>4, <4>5, <5>1, <5>3
        <5>4. QED
            BY <2>10, <5>2, <5>3
      <4>7. QED
          BY <2>9, <4>6 DEF CountKept
    <3>5. QED
        BY <3>3, <3>4
  <2>12. CASE w.no # bench.no
    <3>1. Own' = Own
        BY <2>1, <2>3, <2>4, <2>12 DEF Own
    <3>2. Owing(-1)' = Owing(-1)
        BY <2>1, <2>2, <2>12, OwesAsMuch DEF Owing
    <3>3. drift' = drift
        BY <2>1, <2>12 DEF Stands
    <3>4. QED
        BY <2>1, <2>3, <2>5, <2>6, <3>1, <3>2, <3>3 DEF CountKept
  <2>13. QED
      BY <2>11, <2>12
<1>8. CASE CountCase(c)
  <2>1. /\ curator[c].op = "count" /\ UNCHANGED <<cases, drift>>
        /\ bench' = IF Stands(curator[c].no) THEN [bench EXCEPT !.count = @ + curator[c].by] ELSE bench
      BY <1>8 DEF CountCase
  <2>2. curator[c].by \in {1, -1}
      BY <1>1, <2>1 DEF WorkShape
  <2>3. /\ curator'[c].op = "none" /\ \A d \in Curators : d # c => curator'[d] = curator[d]
      BY <1>1, <1>8 DEF CountCase, Goes, Idle
  <2>4. SUFFICES ASSUME bench # None PROVE CountKept'
      BY <2>1 DEF CountKept, Stands
  <2>5. Doomed \/ bench.count + Cardinality(Owing(1)) - Cardinality(Owing(-1)) = Cardinality(Own) - drift
      BY <2>4 DEF CountKept
  <2>6. CASE curator[c].no = bench.no
    <3>1. bench' = [bench EXCEPT !.count = bench.count + curator[c].by]
        BY <2>1, <2>4, <2>6 DEF Stands
    <3>2. /\ bench'.no = bench.no /\ bench'.age = bench.age /\ bench.count \in Int
          /\ bench'.count = bench.count + curator[c].by
          /\ bench' \in [no : Nat, count : Int, age : Nat]
        BY <1>1, <2>2, <2>4, <3>1
    <3>3. bench' # None
        BY <3>2, BenchAssumption
    <3>4. Own' = Own
        BY <2>1, <2>4, <3>2, <3>3 DEF Own
    <3>5. Doomed => Doomed'
        BY <1>2, <3>2 DEF Doomed
    <3>6. \A j \in Own' : j.age <= bench'.age
        BY <2>4, <3>2, <3>4 DEF CountKept
    <3>7. CASE curator[c].by = 1
      <4>1. Cardinality(Owing(1)') = Cardinality(Owing(1)) - 1
        <5>1. c \in Owing(1) /\ ~(c \in Owing(1)')
            BY <2>1, <2>3, <2>6, <3>7 DEF Owing
        <5>2. QED
            BY <2>3, <3>2, <5>1, OwesLess
      <4>2. Owing(-1)' = Owing(-1)
        <5>1. ~(c \in Owing(-1)) /\ ~(c \in Owing(-1)')
            BY <2>3, <3>7 DEF Owing
        <5>2. QED
            BY <2>3, <3>2, <5>1, OwesAsMuch
      <4>3. Doomed' \/ bench'.count + Cardinality(Owing(1)') - Cardinality(Owing(-1)') = Cardinality(Own') - drift'
          BY <1>1, <1>3, <2>1, <2>5, <3>2, <3>4, <3>5, <3>7, <4>1, <4>2
      <4>4. QED
          BY <3>6, <4>3 DEF CountKept
    <3>8. CASE curator[c].by = -1
      <4>1. Cardinality(Owing(-1)') = Cardinality(Owing(-1)) - 1
        <5>1. c \in Owing(-1) /\ ~(c \in Owing(-1)')
            BY <2>1, <2>3, <2>6, <3>8 DEF Owing
        <5>2. QED
            BY <2>3, <3>2, <5>1, OwesLess
      <4>2. Owing(1)' = Owing(1)
        <5>1. ~(c \in Owing(1)) /\ ~(c \in Owing(1)')
            BY <2>3, <3>8 DEF Owing
        <5>2. QED
            BY <2>3, <3>2, <5>1, OwesAsMuch
      <4>3. Doomed' \/ bench'.count + Cardinality(Owing(1)') - Cardinality(Owing(-1)') = Cardinality(Own') - drift'
          BY <1>1, <1>3, <2>1, <2>5, <3>2, <3>4, <3>5, <3>8, <4>1, <4>2
      <4>4. QED
          BY <3>6, <4>3 DEF CountKept
    <3>9. QED
        BY <2>2, <3>7, <3>8
  <2>7. CASE curator[c].no # bench.no
    <3>1. bench' = bench
        BY <2>1, <2>4, <2>7 DEF Stands
    <3>2. Own' = Own
        BY <2>1, <3>1 DEF Own
    <3>3. Owing(1)' = Owing(1) /\ Owing(-1)' = Owing(-1)
        BY <2>3, <2>7, <3>1, OwesAsMuch DEF Owing
    <3>4. Doomed => Doomed'
        BY <1>2, <3>1 DEF Doomed
    <3>5. QED
        BY <2>1, <2>4, <3>1, <3>2, <3>3, <3>4 DEF CountKept
  <2>8. QED
      BY <2>6, <2>7
<1>9. QED
    BY <1>4, <1>5, <1>6, <1>7, <1>8

LEMMA DeletionKeepsCount ==
    ASSUME BenchShape, CountKept, NEW c \in Curators,
           BeginDelete(c) \/ DeleteResults(c) \/ DeleteRuns(c) \/ DeleteItems(c) \/ DeleteDataset(c)
           \/ DeleteFails(c) \/ AskScore(c) \/ CreateRun(c)
    PROVE  CountKept'
<1>1. DOMAIN curator = Curators /\ drift \in Int
    BY DEF BenchShape, Works
<1>2. UNCHANGED <<purge, missed>>
    BY DEF BeginDelete, DeleteResults, DeleteRuns, DeleteItems, DeleteDataset, DeleteFails, AskScore,
           CreateRun
<1>3. \A d \in Curators : \/ curator'[d] = curator[d]
                          \/ curator'[d].op # "count" /\ curator[d].op # "count"
  <2>1. \A d \in Curators : curator'[d] = curator[d] \/ curator'[d].op # "count"
      BY NoAddition DEF Deleting
  <2>2. curator[c].op # "count" /\ \A d \in Curators : d # c => curator'[d] = curator[d]
      BY <1>1 DEF BeginDelete, DeleteResults, DeleteRuns, DeleteItems, DeleteDataset, DeleteFails,
         AskScore, CreateRun, Asks, Goes, Idle
  <2>3. QED
      BY <2>1, <2>2
<1>4. CASE ~DeleteItems(c)
  <2>1. UNCHANGED <<cases, drift>> /\ (bench' = bench \/ bench' = None)
      BY <1>4 DEF BeginDelete, DeleteResults, DeleteRuns, DeleteDataset, DeleteFails, AskScore, CreateRun
  <2>2. CASE bench' = None
      BY <2>2 DEF CountKept
  <2>3. CASE bench' = bench
    <3>1. Doomed => Doomed'
        BY <1>2, <2>3 DEF Doomed
    <3>2. QED
        BY <1>3, <2>1, <2>3, <3>1, CountStays
  <2>4. QED
      BY <2>1, <2>2, <2>3
<1>5. CASE DeleteItems(c)
  <2>1. /\ cases' = {k \in cases : k.of # curator[c].no} /\ UNCHANGED bench
        /\ drift' = IF Stands(curator[c].no) THEN drift - Cardinality(Own) ELSE drift
      BY <1>5 DEF DeleteItems
  <2>2. SUFFICES ASSUME bench # None PROVE CountKept'
      BY <2>1 DEF CountKept
  <2>3. Doomed => Doomed'
      BY <1>2, <2>1 DEF Doomed
  <2>4. CASE curator[c].no # bench.no
    <3>1. drift' = drift
        BY <2>1, <2>4 DEF Stands
    <3>2. \A k : k \in cases' /\ k.of = bench.no <=> k \in cases /\ k.of = bench.no
        BY <2>1, <2>4
    <3>3. QED
        BY <1>3, <2>1, <2>3, <3>1, <3>2, CountStays
  <2>5. CASE curator[c].no = bench.no
    <3>1. Own' = {}
        BY <2>1, <2>5 DEF Own
    <3>2. Cardinality(Own') = 0
        BY <3>1, FS_EmptySet
    <3>3. drift' = drift - Cardinality(Own)
        BY <2>1, <2>2, <2>5 DEF Stands
    <3>4. Cardinality(Own) \in Nat
        BY OwnFinite
    <3>5. Owing(1)' = Owing(1) /\ Owing(-1)' = Owing(-1)
        BY <1>3, <2>1 DEF Owing
    <3>6. Cardinality(Own') - drift' = Cardinality(Own) - drift
        BY <1>1, <3>2, <3>3, <3>4
    <3>7. QED
        BY <2>1, <2>2, <2>3, <3>1, <3>5, <3>6 DEF CountKept
  <2>6. QED
      BY <2>4, <2>5
<1>6. QED
    BY <1>4, <1>5

LEMMA RestKeepsCount ==
    ASSUME BenchShape, CountKept,
           ClaimRun \/ ReplayItem \/ FinishRun \/ PurgeStep \/ PurgeFails \/ DayPasses
           \/ UNCHANGED BenchVars
    PROVE  CountKept'
<1>1. KeepDays \in Nat
    BY BenchAssumption
<1>2. /\ drift \in Int /\ \A k \in cases : CaseShape(k, lastId)
      /\ bench # None => bench \in [no : Nat, count : Int, age : Nat]
    BY DEF BenchShape, Stored, Dataset
<1>3. CASE ClaimRun \/ ReplayItem \/ FinishRun \/ PurgeFails \/ UNCHANGED BenchVars
  <2>1. UNCHANGED <<bench, cases, curator, drift>>
      BY <1>3 DEF ClaimRun, ReplayItem, FinishRun, PurgeFails, BenchVars
  <2>2. Doomed => Doomed'
      BY <1>3 DEF Doomed, ClaimRun, ReplayItem, FinishRun, PurgeFails, BenchVars
  <2>3. QED
      BY <2>1, <2>2, CountStays
<1>4. CASE PurgeStep
  <2>1. UNCHANGED <<curator, drift>>
      BY <1>4 DEF PurgeStep
  <2>2. CASE purge = "due" \/ purge = "results"
    <3>1. /\ UNCHANGED <<bench, cases, missed>>
          /\ purge = "results" => purge' = "datasets"
        BY <1>4, <2>2 DEF PurgeStep
    <3>2. Doomed => Doomed'
        BY <2>2, <3>1 DEF Doomed
    <3>3. QED
        BY <2>1, <3>1, <3>2, CountStays
  <2>3. CASE purge = "items"
    <3>1. /\ purge' = "results" /\ UNCHANGED <<bench, missed>>
          /\ cases' = {k \in cases : ~Old(k.age)}
        BY <1>4, <2>3 DEF PurgeStep
    <3>2. SUFFICES ASSUME bench # None PROVE CountKept'
        BY <3>1 DEF CountKept
    <3>3. bench.age \in Nat /\ \A k \in Own : k.age \in Nat /\ k.age <= bench.age
        BY <1>2, <3>2 DEF CountKept, Own, CaseShape
    <3>4. Doomed => Doomed'
        BY <3>1 DEF Doomed
    <3>5. CASE bench.age > KeepDays
      <4>1. Doomed'
          BY <3>1, <3>5 DEF Doomed
      <4>2. \A k \in Own' : k \in Own
          BY <3>1 DEF Own
      <4>3. QED
          BY <3>1, <3>3, <4>1, <4>2 DEF CountKept
    <3>6. CASE ~(bench.age > KeepDays)
      <4>1. \A k \in Own : ~Old(k.age)
          BY <1>1, <3>3, <3>6 DEF Old
      <4>2. \A k : k \in cases' /\ k.of = bench.no <=> k \in cases /\ k.of = bench.no
          BY <3>1, <3>2, <4>1 DEF Own
      <4>3. QED
          BY <2>1, <3>1, <3>4, <4>2, CountStays
    <3>7. QED
        BY <3>5, <3>6
  <2>4. CASE purge = "datasets"
    <3>1. /\ UNCHANGED cases
          /\ bench' = IF bench # None /\ Old(bench.age) THEN None ELSE bench
        BY <1>4, <2>4 DEF PurgeStep
    <3>2. bench' # None => bench' = bench /\ ~Old(bench.age)
        BY <3>1
    <3>3. bench' # None => ~Doomed
        BY <3>2 DEF Doomed, Old
    <3>4. CASE bench' = None
        BY <3>4 DEF CountKept
    <3>5. CASE bench' # None
      <4>1. Doomed => Doomed'
          BY <3>3, <3>5
      <4>2. QED
          BY <2>1, <3>1, <3>2, <4>1, CountStays
    <3>6. QED
        BY <3>4, <3>5
  <2>5. QED
      BY <1>4, <2>2, <2>3, <2>4 DEF PurgeStep
<1>5. CASE DayPasses
  <2>1. /\ purge = "done" /\ UNCHANGED <<curator, missed, drift>>
        /\ cases' = {AgedCase(k) : k \in cases}
        /\ bench' = IF bench = None THEN None ELSE [bench EXCEPT !.age = @ + 1]
      BY <1>5 DEF DayPasses, AgedCase
  <2>2. SUFFICES ASSUME bench # None PROVE CountKept'
      BY <2>1 DEF CountKept
  <2>3. bench \in [no : Nat, count : Int, age : Nat] /\ bench' = [bench EXCEPT !.age = bench.age + 1]
      BY <1>2, <2>1, <2>2
  <2>4. /\ bench'.no = bench.no /\ bench'.count = bench.count /\ bench'.age = bench.age + 1
        /\ bench' \in [no : Nat, count : Int, age : Nat] /\ bench.age \in Nat
      BY <2>3
  <2>5. bench' # None
      BY <2>4, BenchAssumption
  <2>6. Own' = {AgedCase(k) : k \in Own}
    <3>1. \A k \in cases : AgedCase(k).of = k.of
        BY <1>2, CaseAges
    <3>2. QED
        BY <2>1, <2>2, <2>4, <2>5, <3>1 DEF Own
  <2>7. Cardinality(Own') = Cardinality(Own)
    <3>1. Stored(cases, lastId) /\ Own \in SUBSET cases
        BY DEF BenchShape, Own
    <3>2. QED
        BY <2>6, <3>1, CasesAge
  <2>8. Owing(1)' = Owing(1) /\ Owing(-1)' = Owing(-1)
      BY <2>1, <2>4 DEF Owing
  <2>9. \A j \in Own' : j.age <= bench'.age
    <3>1. \A k \in Own : CaseShape(k, lastId) /\ k.age \in Nat /\ k.age <= bench.age
        BY <1>2, <2>2 DEF Own, CountKept, CaseShape
    <3>2. \A k \in Own : AgedCase(k).age = k.age + 1
        BY <3>1, CaseAges
    <3>3. QED
        BY <2>4, <2>6, <3>1, <3>2
  <2>10. Doomed => Doomed'
      BY <1>1, <2>1, <2>4 DEF Doomed
  <2>11. QED
      BY <2>1, <2>2, <2>4, <2>7, <2>8, <2>9, <2>10 DEF CountKept
<1>6. QED
    BY <1>3, <1>4, <1>5

-----------------------------------------------------------------------------
LEMMA BenchGoesOn == BenchInvariant /\ [BenchNext]_BenchVars => BenchInvariant'
<1> SUFFICES ASSUME BenchInvariant, [BenchNext]_BenchVars PROVE BenchInvariant'
    OBVIOUS
<1> USE DEF BenchInvariant
<1>1. ASSUME NEW c \in Curators,
             CreateBench(c) \/ LookUpRequest(c) \/ InsertCase(c) \/ LookUpCase(c) \/ EraseCase(c)
             \/ CountCase(c)
      PROVE  BenchInvariant'
    BY <1>1, CurationKeepsShape, CurationKeepsAges, CurationKeepsLateness, CurationKeepsCount
<1>2. ASSUME NEW c \in Curators,
             BeginDelete(c) \/ DeleteResults(c) \/ DeleteRuns(c) \/ DeleteItems(c) \/ DeleteDataset(c)
             \/ DeleteFails(c) \/ AskScore(c) \/ CreateRun(c)
      PROVE  BenchInvariant'
    BY <1>2, DeletionKeepsShape, DeletionKeepsAges, DeletionKeepsLateness, DeletionKeepsCount
<1>3. ASSUME ClaimRun \/ ReplayItem \/ FinishRun \/ PurgeStep \/ PurgeFails \/ DayPasses
             \/ UNCHANGED BenchVars
      PROVE  BenchInvariant'
    BY <1>3, RestKeepsShape, RestKeepsAges, RestKeepsLateness, RestKeepsCount
<1>4. QED
    BY <1>1, <1>2, <1>3 DEF BenchNext, Over

\* What a benchmark counts is explained, what a deletion leaves was written late, the
\* text of requests ages out, and no request is taken that is young, whatever is
\* added, removed, deleted, replayed and purged at the same time and fails on the way.
THEOREM BenchmarksAlwaysSound ==
    BenchSpec => [](CountIsExplained /\ LeftoversAreLate /\ TextAgesOut /\ YoungStay)
<1>1. BenchInvariant => CountIsExplained
  <2>1. SUFFICES ASSUME BenchInvariant, bench # None, missed # "last", purge \in {"due", "done"},
                        \A c \in Curators : curator[c] = Idle
                 PROVE  bench.count = Cardinality(Own) - drift
      BY DEF CountIsExplained
  <2>2. Owing(1) = {} /\ Owing(-1) = {}
      BY <2>1 DEF Owing, Idle
  <2>3. Cardinality(Owing(1)) = 0 /\ Cardinality(Owing(-1)) = 0
      BY <2>2, FS_EmptySet
  <2>4. bench.count \in Int
      BY <2>1 DEF BenchInvariant, BenchShape, Dataset
  <2>5. ~Doomed
      BY <2>1 DEF Doomed
  <2>6. bench.count + Cardinality(Owing(1)) - Cardinality(Owing(-1)) = Cardinality(Own) - drift
      BY <2>1, <2>5 DEF BenchInvariant, CountKept
  <2>7. QED
      BY <2>3, <2>4, <2>6
<1>2. BenchInvariant => TextAgesOut
  <2>1. SUFFICES ASSUME BenchInvariant PROVE TextAgesOut
      OBVIOUS
  <2>2. KeepDays \in Nat /\ \A k \in cases : k.age \in Nat /\ k.text \in Nat
      BY <2>1, BenchAssumption DEF BenchInvariant, BenchShape, Stored, CaseShape
  <2>3. /\ missed # "last" => /\ \A x \in cases \cup scored : x.age <= KeepDays + 1
                              /\ \A r \in Traffic : logged[r] # None => logged[r] <= KeepDays + 1
        /\ missed = "never" => \A k \in cases : k.text <= k.age + KeepDays + 1
      BY <2>1 DEF BenchInvariant, AgesInOrder
  <2>4. ASSUME missed = "never" PROVE \A k \in cases : k.text <= 2 * (KeepDays + 1)
      BY <2>2, <2>3, <2>4
  <2>5. QED
      BY <2>3, <2>4 DEF TextAgesOut
<1>3. BenchInvariant => YoungStay /\ LeftoversAreLate
    BY DEF BenchInvariant, BenchShape, Record, YoungStay
<1>4. BenchInvariant => CountIsExplained /\ LeftoversAreLate /\ TextAgesOut /\ YoungStay
    BY <1>1, <1>2, <1>3
<1>5. QED
    BY <1>4, BenchBegins, BenchGoesOn, PTL DEF BenchSpec

-----------------------------------------------------------------------------
(* Analytics: sums over the records of a log. *)

Gates == {"passed", "overridden", "ungated", Null}
IsLog(log) ==
    /\ IsFiniteSet(log)
    /\ \A r \in log : r.cost \in Int /\ r.tokens \in Int /\ r.qualityGate \in Gates
IsFilter(f) == f = [d \in DOMAIN Unfiltered |-> f[d]] /\ f.internalScope = Null

LEMMA PartOfLog ==
    ASSUME NEW log, IsLog(log), NEW S \in SUBSET log
    PROVE  IsLog(S) /\ IsFiniteSet(S) /\ Cardinality(S) \in Nat /\ CostOf(S) \in Int
<1>1. IsFiniteSet(S) /\ IsLog(S)
    BY FS_Subset DEF IsLog
<1> DEFINE f == [r \in S |-> r.cost]
<1>2. \A r \in S : f[r] \in Int
    BY DEF IsLog
<1>3. CostOf(S) = SumFunctionOnSet(f, S)
    BY DEF CostOf, SumOf
<1>4. CostOf(S) \in Int
  <2> HIDE DEF f
  <2>1. QED
      BY <1>1, <1>2, <1>3, SumIsInt
<1>5. QED
    BY <1>1, <1>4, FS_CardinalityType

LEMMA CostSplits ==
    ASSUME NEW S, IsLog(S), NEW A \in SUBSET S
    PROVE  CostOf(S) = CostOf(A) + CostOf(S \ A)
<1> DEFINE f == [r \in S |-> r.cost]
           Of(T) == [r \in T |-> r.cost]
<1>1. (\A r \in S : f[r] \in Int) /\ IsFiniteSet(S)
    BY DEF IsLog
<1>2. ASSUME NEW T \in SUBSET S PROVE CostOf(T) = SumFunctionOnSet(f, T)
  <2>1. CostOf(T) = SumFunctionOnSet(Of(T), T)
      BY DEF CostOf, SumOf
  <2>2. \A r \in T : f[r] \in Int /\ Of(T)[r] = f[r]
      BY <1>1
  <2>3. IsFiniteSet(T)
      BY <1>1, FS_Subset
  <2> HIDE DEF f, Of
  <2>4. QED
      BY <2>1, <2>2, <2>3, SumsAgree
<1> HIDE DEF f
<1>3. S \in SUBSET S /\ S \ A \in SUBSET S
    OBVIOUS
<1>4. QED
    BY <1>1, <1>2, <1>3, SumSplits

\* The figures of groups add up to the figures of all.
LEMMA GroupsAddUp ==
    ASSUME NEW S, IsLog(S), NEW key, NEW view,
           view = [k \in {key[r] : r \in S} |-> Figures({r \in S : key[r] = k})]
    PROVE  TotalOf(view) = Figures(S)
<1> DEFINE K == {key[r] : r \in S}
           Group(k) == {r \in S : key[r] = k}
           cost == [r \in S |-> r.cost]
           one == [r \in S |-> 1]
           failed == [r \in S |-> IF r.status = "failure" THEN 1 ELSE 0]
           costs == [k \in K |-> view[k].cost]
           requests == [k \in K |-> view[k].requests]
           failures == [k \in K |-> view[k].failures]
<1>1. IsFiniteSet(S) /\ \A r \in S : cost[r] \in Int /\ one[r] \in Int /\ failed[r] \in Int
    BY DEF IsLog
<1>2. IsFiniteSet(K)
  <2> DEFINE q == [r \in S |-> key[r]]
  <2>1. q \in Surjection(S, K)
      BY DEF Surjection
  <2>2. QED
      BY <1>1, <2>1, FS_Surjection
<1>3. \A k \in K : view[k] = [requests |-> Cardinality(Group(k)), cost |-> CostOf(Group(k)),
                              failures |-> Cardinality(FailuresOf(Group(k)))]
    BY DEF Figures
<1>4. \A r \in S : key[r] \in K
    OBVIOUS
<1>5. ASSUME NEW T \in SUBSET S
      PROVE  /\ CostOf(T) = SumFunctionOnSet(cost, T)
             /\ Cardinality(T) = SumFunctionOnSet(one, T)
             /\ Cardinality(FailuresOf(T)) = SumFunctionOnSet(failed, T)
  <2> DEFINE own == [r \in T |-> r.cost]
  <2>1. IsFiniteSet(T)
      BY <1>1, FS_Subset
  <2>2. CostOf(T) = SumFunctionOnSet(own, T)
      BY DEF CostOf, SumOf
  <2>3. \A r \in T : cost[r] \in Int /\ own[r] = cost[r]
      BY <1>1
  <2>4. CostOf(T) = SumFunctionOnSet(cost, T)
    <3> HIDE DEF cost, own
    <3>1. QED
        BY <2>1, <2>2, <2>3, SumsAgree
  <2>5. \A r \in T : one[r] = 1
      OBVIOUS
  <2>6. Cardinality(T) = SumFunctionOnSet(one, T)
    <3> HIDE DEF one
    <3>1. QED
        BY <2>1, <2>5, SumOfOnes
  <2>7. FailuresOf(T) \in SUBSET T
      BY DEF FailuresOf
  <2>8. /\ \A r \in T : failed[r] \in Int
        /\ \A r \in T \ FailuresOf(T) : failed[r] = 0
        /\ \A r \in FailuresOf(T) : failed[r] = 1
      BY DEF FailuresOf
  <2>9. IsFiniteSet(FailuresOf(T))
      BY <2>1, <2>7, FS_Subset
  <2>10. Cardinality(FailuresOf(T)) = SumFunctionOnSet(failed, T)
    <3> HIDE DEF failed
    <3>1. SumFunctionOnSet(failed, T) = SumFunctionOnSet(failed, FailuresOf(T))
        BY <2>1, <2>7, <2>8, SumOfPart
    <3>2. SumFunctionOnSet(failed, FailuresOf(T)) = Cardinality(FailuresOf(T))
        BY <2>8, <2>9, SumOfOnes
    <3>3. QED
        BY <3>1, <3>2
  <2>11. QED
      BY <2>4, <2>6, <2>10
<1>6. \A k \in K : Group(k) \in SUBSET S
    OBVIOUS
<1>7. \A k \in K : /\ view[k].cost = SumFunctionOnSet(cost, Group(k))
                  /\ view[k].requests = SumFunctionOnSet(one, Group(k))
                  /\ view[k].failures = SumFunctionOnSet(failed, Group(k))
  <2> HIDE DEF cost, one, failed, K, Group
  <2>1. TAKE k \in K
  <2>2. PICK p \in SUBSET S : p = Group(k)
      BY <1>6
  <2>3. /\ view[k].cost = CostOf(p) /\ view[k].requests = Cardinality(p)
        /\ view[k].failures = Cardinality(FailuresOf(p))
    <3>1. view[k] = [requests |-> Cardinality(p), cost |-> CostOf(p), failures |-> Cardinality(FailuresOf(p))]
        BY <1>3, <2>2, Zenon
    <3>2. QED
        BY <3>1
  <2>4. QED
      BY <1>5, <2>2, <2>3
<1>8. /\ costs = [k \in K |-> SumFunctionOnSet(cost, Group(k))]
      /\ requests = [k \in K |-> SumFunctionOnSet(one, Group(k))]
      /\ failures = [k \in K |-> SumFunctionOnSet(failed, Group(k))]
  <2> HIDE DEF cost, one, failed, K, Group
  <2>1. QED
      BY <1>7
<1>10. SumFunctionOnSet(costs, K) = SumFunctionOnSet(cost, S)
  <2> HIDE DEF cost, costs, K
  <2>1. QED
      BY <1>1, <1>2, <1>4, <1>8, SumByKey
<1>11. SumFunctionOnSet(requests, K) = SumFunctionOnSet(one, S)
  <2> HIDE DEF one, requests, K
  <2>1. QED
      BY <1>1, <1>2, <1>4, <1>8, SumByKey
<1>12. SumFunctionOnSet(failures, K) = SumFunctionOnSet(failed, S)
  <2> HIDE DEF failed, failures, K
  <2>1. QED
      BY <1>1, <1>2, <1>4, <1>8, SumByKey
<1>13. TotalOf(view) = [requests |-> SumFunctionOnSet(requests, K), cost |-> SumFunctionOnSet(costs, K),
                        failures |-> SumFunctionOnSet(failures, K)]
  <2>1. DOMAIN view = K
      OBVIOUS
  <2>2. QED
      BY <2>1 DEF TotalOf, SumOf
<1>14. S \in SUBSET S
    OBVIOUS
<1>15. QED
    BY <1>5, <1>10, <1>11, <1>12, <1>13, <1>14 DEF Figures

\* The views by a field and the series are such groups.
LEMMA FieldsAddUp ==
    ASSUME NEW log, IsLog(log), NEW f, NEW d
    PROVE  TotalOf(GroupBy(log, d, f)) = Figures(BuildMatch(log, f))
<1>1. PICK S \in SUBSET log : S = BuildMatch(log, f)
    BY DEF BuildMatch
<1>2. IsLog(S)
    BY PartOfLog
<1> DEFINE key == [r \in S |-> r[d]]
           view == GroupBy(log, d, f)
<1>3. view = [k \in {r[d] : r \in S} |-> Figures({r \in S : r[d] = k})]
    BY <1>1 DEF GroupBy, GroupOn
<1>4. /\ {r[d] : r \in S} = {key[r] : r \in S}
      /\ \A k : {r \in S : r[d] = k} = {r \in S : key[r] = k}
    OBVIOUS
<1>5. view = [k \in {key[r] : r \in S} |-> Figures({r \in S : key[r] = k})]
  <2> HIDE DEF view, key
  <2>1. QED
      BY <1>3, <1>4
<1> HIDE DEF view, key
<1>6. TotalOf(view) = Figures(S)
    BY <1>2, <1>5, GroupsAddUp
<1>7. QED
    BY <1>1, <1>6 DEF view

LEMMA BucketsAddUp ==
    ASSUME NEW log, IsLog(log), NEW f, NEW b
    PROVE  TotalOf(TimeSeries(log, f, b)) = Figures(BuildMatch(log, f))
<1>1. PICK S \in SUBSET log : S = BuildMatch(log, f)
    BY DEF BuildMatch
<1>2. IsLog(S)
    BY PartOfLog
<1> DEFINE key == [r \in S |-> BucketOf(r.at, b)]
           view == TimeSeries(log, f, b)
<1>3. view = [k \in {BucketOf(r.at, b) : r \in S} |-> Figures({r \in S : BucketOf(r.at, b) = k})]
    BY <1>1 DEF TimeSeries, GroupOn
<1>4. /\ {BucketOf(r.at, b) : r \in S} = {key[r] : r \in S}
      /\ \A k : {r \in S : BucketOf(r.at, b) = k} = {r \in S : key[r] = k}
    OBVIOUS
<1>5. view = [k \in {key[r] : r \in S} |-> Figures({r \in S : key[r] = k})]
  <2> HIDE DEF view, key
  <2>1. QED
      BY <1>3, <1>4
<1> HIDE DEF view, key
<1>6. TotalOf(view) = Figures(S)
    BY <1>2, <1>5, GroupsAddUp
<1>7. QED
    BY <1>1, <1>6 DEF view

\* The customers' records and Arbr's own part what a filter finds in every scope.
LEMMA ScopesPart ==
    ASSUME NEW log, NEW f, IsFilter(f)
    PROVE  LET In(s) == BuildMatch(log, [f EXCEPT !.internalScope = s])
           IN  /\ In("customer") = BuildMatch(log, f)
               /\ {r \in In("customer") : IsCustomer(r)} = BuildMatch(log, f)
               /\ {r \in In("all") : IsCustomer(r)} = BuildMatch(log, f)
               /\ In("all") \ BuildMatch(log, f) = In("internal")
<1> DEFINE Other(r) == /\ f.from # 0 => r.at >= f.from
                       /\ f.to # 0 => r.at <= f.to
                       /\ \A d \in Headed : f[d] # Null => r[d] = f[d]
                       /\ FromSource(r, f.source)
           Of(s) == [f EXCEPT !.internalScope = s]
<1>1. ASSUME NEW s
      PROVE  BuildMatch(log, Of(s)) = {r \in log : Other(r) /\ InScope(r, s)}
  <2> DEFINE g == Of(s)
  <2>1. /\ g.from = f.from /\ g.to = f.to /\ g.source = f.source /\ g.internalScope = s
        /\ \A d \in Headed : g[d] = f[d]
      BY DEF IsFilter, Unfiltered, Headed
  <2> HIDE DEF g
  <2>2. BuildMatch(log, g) = {r \in log : Other(r) /\ InScope(r, s)}
      BY <2>1 DEF BuildMatch
  <2>3. QED
      BY <2>2 DEF g
<1>2. BuildMatch(log, f) = {r \in log : Other(r) /\ InScope(r, Null)}
    BY DEF BuildMatch, IsFilter
<1>3. \A r : /\ InScope(r, "all") /\ (InScope(r, "customer") <=> CustomerOnly(r))
             /\ (InScope(r, Null) <=> CustomerOnly(r)) /\ (InScope(r, "internal") <=> ~CustomerOnly(r))
    BY DEF InScope, CustomerOnly, Null
<1>4. \A r : IsCustomer(r) <=> CustomerOnly(r)
    BY DEF IsCustomer, CustomerOnly, InternalOnly
<1> HIDE DEF Other, Of
<1>5. /\ Of("customer") = [f EXCEPT !.internalScope = "customer"]
      /\ Of("all") = [f EXCEPT !.internalScope = "all"]
      /\ Of("internal") = [f EXCEPT !.internalScope = "internal"]
    BY DEF Of
<1>6. /\ BuildMatch(log, Of("customer")) = BuildMatch(log, f)
      /\ {r \in BuildMatch(log, Of("customer")) : IsCustomer(r)} = BuildMatch(log, f)
      /\ {r \in BuildMatch(log, Of("all")) : IsCustomer(r)} = BuildMatch(log, f)
      /\ BuildMatch(log, Of("all")) \ BuildMatch(log, f) = BuildMatch(log, Of("internal"))
    BY <1>1, <1>2, <1>3, <1>4
<1>7. QED
    BY <1>5, <1>6

\* What the headline is made of.
MadeOf(log, f, C, m) ==
    LET head == Overview(log, f)
    IN  /\ C \in SUBSET m
        /\ IsDimensionScoped(f) => m = C
        /\ ~IsDimensionScoped(f) => m \ C = BuildMatch(log, [f EXCEPT !.internalScope = "internal"])
        /\ head.totalCost = CostOf(m) /\ head.customerCost = CostOf(C)
        /\ head.totalRequests = Cardinality(C) /\ head.failures = Cardinality(FailuresOf(C))
        /\ head.internalCost = CostOf(m \ C) /\ head.internalRequests = Cardinality(m \ C)

LEMMA HeadlineIs ==
    ASSUME NEW log, NEW f, IsFilter(f)
    PROVE  \E m \in SUBSET log : MadeOf(log, f, BuildMatch(log, f), m)
<1> DEFINE scope == IF IsDimensionScoped(f) THEN "customer" ELSE "all"
           found == BuildMatch(log, [f EXCEPT !.internalScope = scope])
           head == Overview(log, f)
<1>1. PICK C : C = BuildMatch(log, f)
    OBVIOUS
<1>2. PICK m \in SUBSET log : m = found
    BY DEF BuildMatch
<1>3. /\ {r \in m : IsCustomer(r)} = C
      /\ IsDimensionScoped(f) => m = C
      /\ ~IsDimensionScoped(f) => m \ C = BuildMatch(log, [f EXCEPT !.internalScope = "internal"])
  <2>1. CASE IsDimensionScoped(f)
    <3>1. m = BuildMatch(log, [f EXCEPT !.internalScope = "customer"])
        BY <1>2, <2>1
    <3>2. QED
        BY <1>1, <2>1, <3>1, ScopesPart
  <2>2. CASE ~IsDimensionScoped(f)
    <3>1. m = BuildMatch(log, [f EXCEPT !.internalScope = "all"])
        BY <1>2, <2>2
    <3>2. QED
        BY <1>1, <2>2, <3>1, ScopesPart
  <2>3. QED
      BY <2>1, <2>2
<1>4. /\ head.totalCost = CostOf(m) /\ head.customerCost = CostOf(C)
      /\ head.totalRequests = Cardinality(C) /\ head.failures = Cardinality(FailuresOf(C))
      /\ head.internalCost = CostOf(m \ C) /\ head.internalRequests = Cardinality(m \ C)
  <2>1. m = BuildMatch(log, [f EXCEPT !.internalScope = IF IsDimensionScoped(f) THEN "customer" ELSE "all"])
      BY <1>2
  <2>2. QED
      BY <1>3, <2>1 DEF Overview
<1>5. MadeOf(log, f, C, m)
    BY <1>3, <1>4 DEF MadeOf
<1>6. QED
    BY <1>1, <1>5

\* Every view of every log accounts for the customers' share of the headline, and the
\* views of Arbr's own spend for the rest of it: ViewsReconcile, of any finite log.
THEOREM ViewsAlwaysReconcile ==
    ASSUME NEW log, IsLog(log), NEW f, IsFilter(f)
    PROVE  Reconciled(log, f)
<1> DEFINE head == Overview(log, f)
           own == InternalSpend(log, f)
           customers == [requests |-> head.totalRequests, cost |-> head.customerCost, failures |-> head.failures]
           narrowed == [f EXCEPT !.internalScope = "internal"]
<1>1. PICK C \in SUBSET log : C = BuildMatch(log, f)
    BY DEF BuildMatch
<1>2. PICK m \in SUBSET log : MadeOf(log, f, C, m)
    BY <1>1, HeadlineIs
<1>3. /\ C \in SUBSET m
      /\ IsDimensionScoped(f) => m = C
      /\ ~IsDimensionScoped(f) => m \ C = BuildMatch(log, narrowed)
      /\ head.totalCost = CostOf(m) /\ head.customerCost = CostOf(C)
      /\ head.totalRequests = Cardinality(C) /\ head.failures = Cardinality(FailuresOf(C))
      /\ head.internalCost = CostOf(m \ C) /\ head.internalRequests = Cardinality(m \ C)
    BY <1>2 DEF MadeOf
<1>4. customers = Figures(C)
    BY <1>3 DEF Figures
<1>5. \A d \in Headed : TotalOf(GroupBy(log, d, f)) = customers
    BY <1>1, <1>4, FieldsAddUp
<1>6. \A b \in {"hour", "day", "month"} : TotalOf(TimeSeries(log, f, b)) = customers
    BY <1>1, <1>4, BucketsAddUp
<1>7. head.totalCost = head.customerCost + head.internalCost
  <2>1. IsLog(m)
      BY <1>3, PartOfLog
  <2>2. QED
      BY <1>3, <2>1, CostSplits
<1>8. TotalOf(own.byKind) = own.total /\ TotalOf(own.byModel) = own.total
  <2>1. /\ own.total = Figures(BuildMatch(log, narrowed))
        /\ own.byKind = GroupBy(log, "internalKind", narrowed)
        /\ own.byModel = GroupBy(log, "model", narrowed)
      BY DEF InternalSpend
  <2> HIDE DEF own, narrowed
  <2>2. QED
      BY <2>1, FieldsAddUp
<1>9. ~IsDimensionScoped(f) =>
        head.internalCost = own.total.cost /\ head.internalRequests = own.total.requests
  <2>1. own.total.cost = CostOf(BuildMatch(log, narrowed))
        /\ own.total.requests = Cardinality(BuildMatch(log, narrowed))
      BY DEF InternalSpend, Figures
  <2> HIDE DEF own, narrowed
  <2>2. QED
      BY <1>3, <2>1
<1>10. IsDimensionScoped(f) => head.internalRequests = 0
  <2>1. IsDimensionScoped(f) => m \ C = {}
      BY <1>3
  <2>2. QED
      BY <1>3, <2>1, FS_EmptySet
<1> HIDE DEF head, own, customers
<1>11. QED
    BY <1>5, <1>6, <1>7, <1>8, <1>9, <1>10 DEF Reconciled, head, own, customers

\* What a cap that is off is said to have spent is the figure of the headline for its
\* scope and window, whatever was logged: EstimateIsShown, of any log.
THEOREM EstimatesAlwaysShown ==
    ASSUME NEW log, NEW dimension \in Headed \cup {Null}, NEW value, NEW from
    PROVE  EstimateShown(log, dimension, value, from)
<1> DEFINE cap == [enabled |-> FALSE, dimension |-> dimension, value |-> value, from |-> from, limit |-> 0]
           f == [d \in DOMAIN Unfiltered |->
                   CASE d = "from" -> from [] d = dimension -> value [] OTHER -> Unfiltered[d]]
           filter(include) ==
             [d \in DOMAIN Unfiltered |->
                CASE d = "from" -> from
                  [] d = "internalScope" -> IF include THEN "all" ELSE Null
                  [] d = dimension -> value
                  [] OTHER -> Unfiltered[d]]
           head == Overview(log, f)
<1>1. IsFilter(f)
    BY DEF IsFilter, Unfiltered, Headed, Null
<1>2. filter(FALSE) = f
    BY DEF Unfiltered, Headed, Null
<1>3. filter(TRUE) = [f EXCEPT !.internalScope = "all"]
    BY DEF Unfiltered, Headed, Null
<1>4. dimension = Null => ~IsDimensionScoped(f)
    BY DEF IsDimensionScoped, Unfiltered, Null
<1>5. CapStatus(log, cap, 0).spent = CostOf(BuildMatch(log, filter(dimension = Null)))
    BY DEF CapStatus, SpentUnder, Spend
<1>6. ~CapStatus(log, cap, 0).breached
    BY DEF CapStatus
<1> HIDE DEF f, filter
<1>7. head.customerCost = CostOf(BuildMatch(log, f))
  <2>1. PICK m \in SUBSET log : MadeOf(log, f, BuildMatch(log, f), m)
      BY <1>1, HeadlineIs
  <2>2. QED
      BY <2>1 DEF MadeOf
<1>8. dimension = Null => head.totalCost = CostOf(BuildMatch(log, [f EXCEPT !.internalScope = "all"]))
    BY <1>4 DEF Overview
<1>9. CapStatus(log, cap, 0).spent = IF dimension = Null THEN head.totalCost ELSE head.customerCost
  <2> HIDE DEF cap, head
  <2>1. CASE dimension = Null
      BY <1>3, <1>5, <1>8, <2>1
  <2>2. CASE dimension # Null
      BY <1>2, <1>5, <1>7, <2>2
  <2>3. QED
      BY <2>1, <2>2
<1>10. QED
    BY <1>6, <1>9 DEF EstimateShown, f

\* An application is offered as new exactly while no request of it is in a view:
\* NewAreUnseen, of any log.
LEMMA NewAreUnseenIn ==
    ASSUME NEW log, NEW keyApps
    PROVE  LET facets == Facets(log, keyApps)
               seen == DOMAIN GroupBy(log, "application", Unfiltered)
           IN  facets.applications = seen /\ facets.newApplications = (keyApps \ {Null}) \ seen
<1>1. BuildMatch(log, Unfiltered) = {r \in log : CustomerOnly(r)}
    BY DEF BuildMatch, Unfiltered, Headed, InScope, FromSource, CustomerOnly, InternalOnly, Null
<1>2. PICK S : S = {r \in log : CustomerOnly(r)}
    OBVIOUS
<1>3. DOMAIN GroupBy(log, "application", Unfiltered) = {r.application : r \in S}
    BY <1>1, <1>2 DEF GroupBy, GroupOn
<1>4. QED
    BY <1>2, <1>3 DEF Facets

\* At one price, what was saved over all is what was saved one by one.
LEMMA SavedAtOnePrice ==
    ASSUME NEW p \in {1, 3}, NEW S, IsFiniteSet(S), NEW tokens, NEW cost, NEW saved,
           \A i \in S : tokens[i] \in Int /\ cost[i] \in Int /\ saved[i] = p * tokens[i] - cost[i]
    PROVE  p * SumFunctionOnSet(tokens, S) - SumFunctionOnSet(cost, S) = SumFunctionOnSet(saved, S)
<1> DEFINE Fits(s) == p * SumFunctionOnSet(tokens, s) - SumFunctionOnSet(cost, s) = SumFunctionOnSet(saved, s)
           bad == {s \in SUBSET S : ~Fits(s)}
<1>1. ASSUME bad # {} PROVE FALSE
  <2>1. bad \in SUBSET (SUBSET S)
      OBVIOUS
  <2>2. PICK s \in bad : \A t \in bad : t \subseteq s => t = s
    <3> HIDE DEF bad
    <3>1. QED
        BY <1>1, <2>1, LeastSet
  <2>3. s \in SUBSET S /\ ~Fits(s)
      OBVIOUS
  <2>4. Fits({})
      BY SumEmpty
  <2>5. PICK x : x \in s
    <3>1. s # {}
        BY <2>3, <2>4
    <3>2. QED
        BY <3>1
  <2>6. Fits(s \ {x})
      BY <2>2, <2>3, <2>5
  <2>7. IsFiniteSet(s) /\ (\A i \in s : tokens[i] \in Int /\ cost[i] \in Int /\ saved[i] \in Int)
        /\ tokens[x] \in Int /\ cost[x] \in Int /\ saved[x] = p * tokens[x] - cost[x]
      BY <2>3, <2>5, FS_Subset
  <2>8. PICK t : t = s \ {x}
      OBVIOUS
  <2>9. /\ SumFunctionOnSet(tokens, t) \in Int
        /\ SumFunctionOnSet(tokens, s) = tokens[x] + SumFunctionOnSet(tokens, t)
      BY <2>5, <2>7, <2>8, SumStep
  <2>10. /\ SumFunctionOnSet(cost, t) \in Int
         /\ SumFunctionOnSet(cost, s) = cost[x] + SumFunctionOnSet(cost, t)
      BY <2>5, <2>7, <2>8, SumStep
  <2>11. SumFunctionOnSet(saved, s) = saved[x] + SumFunctionOnSet(saved, t)
      BY <2>5, <2>7, <2>8, SumStep
  <2>12. Fits(t)
      BY <2>6, <2>8
  <2>13. QED
      BY <2>3, <2>7, <2>9, <2>10, <2>11, <2>12
<1>2. S \in SUBSET S
    OBVIOUS
<1>3. QED
    BY <1>1, <1>2

\* What is said to be saved is what the successful requests saved one by one, and the
\* split by gate leaves none of it out: SavingsAddUp, of any finite log.
THEOREM SavingsAlwaysAddUp ==
    ASSUME NEW log, IsLog(log), NEW f
    PROVE  SavedOneByOne(log, f)
<1> DEFINE served == Substitutions(log, f)
           Of(g) == {r \in served : GroupKey(r) = g}
           groups == {g \in {GroupKey(r) : r \in served} : g[1] \notin {Null, "auto"} /\ g[1] \in DOMAIN Prices}
           SavedIn(g) == Prices[g[1]] * SumOf(Of(g), LAMBDA r : r.tokens) - CostOf(Of(g))
           In(gates) == {g \in groups : g[3] \in gates}
           Under(gates) == SumOf(In(gates), SavedIn)
           priced == {r \in BuildMatch(log, f) : r.status = "success" /\ r.requested \in DOMAIN Prices \ {r.model}}
           tokens == [r \in priced |-> r.tokens]
           cost == [r \in priced |-> r.cost]
           saving == [r \in priced |-> Prices[r.requested] * r.tokens - r.cost]
           one == [r \in priced |-> 1]
           key == [r \in priced |-> GroupKey(r)]
           Part(g) == {r \in priced : key[r] = g}
           saved == [g \in groups |-> SavedIn(g)]
           total == SumOf(groups, SavedIn)
           number == SumOf(groups, LAMBDA g : Cardinality(Of(g)))
<1>1. DOMAIN Prices = {"light", "heavy"} /\ \A m \in DOMAIN Prices : Prices[m] \in {1, 3}
    BY DEF Prices
<1>2. priced \in SUBSET log /\ priced \subseteq served /\ served \in SUBSET log
    BY DEF Substitutions, BuildMatch
<1>3. IsFiniteSet(priced) /\ \A r \in priced :
        tokens[r] \in Int /\ cost[r] \in Int /\ saving[r] \in Int /\ one[r] = 1 /\ key[r] \in groups
  <2>1. IsFiniteSet(priced)
      BY <1>2, PartOfLog
  <2>2. ASSUME NEW r \in priced
        PROVE  tokens[r] \in Int /\ cost[r] \in Int /\ saving[r] \in Int /\ one[r] = 1
      BY <1>1, <1>2 DEF IsLog
  <2>3. ASSUME NEW r \in priced PROVE key[r] \in groups
    <3>1. r \in served /\ GroupKey(r)[1] = r.requested /\ r.requested \in {"light", "heavy"}
        BY <1>1, <1>2 DEF GroupKey
    <3>2. QED
        BY <1>1, <3>1 DEF Null
  <2>4. QED
      BY <2>1, <2>2, <2>3
<1>4. ASSUME NEW g \in groups PROVE Of(g) = Part(g) /\ \A r \in Part(g) : r.requested = g[1]
    BY <1>2 DEF GroupKey, Substitutions
<1>5. IsFiniteSet(groups) /\ \A g \in groups : g[3] \in Gates
  <2> DEFINE all == {GroupKey(r) : r \in served}
             q == [r \in served |-> GroupKey(r)]
  <2>1. q \in Surjection(served, all)
      BY DEF Surjection
  <2>2. IsFiniteSet(served)
      BY <1>2, PartOfLog
  <2>3. IsFiniteSet(all)
    <3> HIDE DEF q, all, served
    <3>1. QED
        BY <2>1, <2>2, FS_Surjection
  <2>4. groups \in SUBSET all
      OBVIOUS
  <2>5. \A g \in all : g[3] \in Gates
      BY <1>2 DEF GroupKey, IsLog
  <2>6. QED
    <3> HIDE DEF all
    <3>1. QED
        BY <2>3, <2>4, <2>5, FS_Subset
<1>6. ASSUME NEW g \in groups
      PROVE  /\ saved[g] = SumFunctionOnSet(saving, Part(g))
             /\ Cardinality(Of(g)) = SumFunctionOnSet(one, Part(g))
             /\ saved[g] \in Int
  <2> DEFINE T == Part(g)
             own == [r \in T |-> r.tokens]
             price == Prices[g[1]]
  <2>1. IsFiniteSet(T) /\ T \in SUBSET priced
      BY <1>3, FS_Subset
  <2>2. saved[g] = price * SumFunctionOnSet(own, T) - CostOf(T)
      BY <1>4 DEF SumOf
  <2>3. CostOf(T) = SumFunctionOnSet([r \in T |-> r.cost], T)
      BY DEF CostOf, SumOf
  <2>4. price \in {1, 3}
      BY <1>1
  <2>5. \A r \in T : own[r] \in Int /\ [x \in T |-> x.cost][r] \in Int /\ one[r] = 1
                      /\ saving[r] = price * own[r] - [x \in T |-> x.cost][r] /\ saving[r] \in Int
      BY <1>3, <1>4, <2>1
  <2> HIDE DEF T, own, price, saving, one, saved, groups
  <2>6. saved[g] = SumFunctionOnSet(saving, T)
      BY <2>1, <2>2, <2>3, <2>4, <2>5, SavedAtOnePrice
  <2>7. SumFunctionOnSet(one, T) = Cardinality(T)
      BY <2>1, <2>5, SumOfOnes
  <2>8. SumFunctionOnSet(saving, T) \in Int
      BY <2>1, <2>5, SumIsInt
  <2>9. QED
      BY <1>4, <2>6, <2>7, <2>8 DEF T
<1>7. total = SumFunctionOnSet(saving, priced)
  <2>1. total = SumFunctionOnSet(saved, groups)
      BY DEF SumOf
  <2>2. saved = [g \in groups |-> SumFunctionOnSet(saving, Part(g))]
    <3>1. \A g \in groups : SavedIn(g) = SumFunctionOnSet(saving, Part(g))
        BY <1>6
    <3> HIDE DEF SavedIn, saving, Part, groups
    <3>2. QED
        BY <3>1
  <2> HIDE DEF total, saved, saving, groups, priced, key
  <2>3. SumFunctionOnSet(saved, groups) = SumFunctionOnSet(saving, priced)
      BY <1>3, <1>5, <2>2, SumByKey
  <2>4. QED
      BY <2>1, <2>3
<1>8. number = Cardinality(priced)
  <2> DEFINE counts == [g \in groups |-> Cardinality(Of(g))]
  <2>1. number = SumFunctionOnSet(counts, groups)
      BY DEF SumOf
  <2>2. counts = [g \in groups |-> SumFunctionOnSet(one, Part(g))]
    <3>1. \A g \in groups : Cardinality(Of(g)) = SumFunctionOnSet(one, Part(g))
        BY <1>6
    <3> HIDE DEF Of, one, Part, groups
    <3>2. QED
        BY <3>1
  <2>3. \A r \in priced : one[r] = 1 /\ one[r] \in Int
      BY <1>3
  <2> HIDE DEF number, counts, one, groups, priced, key
  <2>4. SumFunctionOnSet(counts, groups) = SumFunctionOnSet(one, priced)
      BY <1>3, <1>5, <2>2, <2>3, SumByKey
  <2>5. SumFunctionOnSet(one, priced) = Cardinality(priced)
      BY <1>3, <2>3, SumOfOnes
  <2>6. QED
      BY <2>1, <2>4, <2>5
<1>9. Under({"passed"}) + Under({"overridden", "ungated"}) + Under({Null}) = total
  <2>1. ASSUME NEW gates
        PROVE  Under(gates) = SumFunctionOnSet(saved, In(gates)) /\ Under(gates) \in Int
    <3> DEFINE part == In(gates)
               own == [g \in part |-> SavedIn(g)]
    <3>1. IsFiniteSet(part)
      <4>1. part \in SUBSET groups
          OBVIOUS
      <4> HIDE DEF part, groups
      <4>2. QED
          BY <1>5, <4>1, FS_Subset
    <3>2. \A g \in part : saved[g] \in Int /\ own[g] = saved[g]
        BY <1>6
    <3>3. Under(gates) = SumFunctionOnSet(own, part)
        BY DEF SumOf
    <3> HIDE DEF own, part, saved, Under
    <3>4. SumFunctionOnSet(own, part) = SumFunctionOnSet(saved, part)
        BY <3>1, <3>2, SumsAgree
    <3>5. SumFunctionOnSet(saved, part) \in Int
        BY <3>1, <3>2, SumIsInt
    <3>6. QED
        BY <3>3, <3>4, <3>5 DEF part
  <2>2. total = SumFunctionOnSet(saved, groups)
      BY DEF SumOf
  <2> DEFINE rest == groups \ In({"passed"})
  <2>3. /\ In({"passed"}) \in SUBSET groups /\ rest \in SUBSET groups
        /\ In({"overridden", "ungated"}) \in SUBSET rest
        /\ rest \ In({"overridden", "ungated"}) = In({Null})
      BY <1>5 DEF Gates, Null
  <2>4. (\A g \in groups : saved[g] \in Int) /\ IsFiniteSet(rest)
      BY <1>5, <1>6, <2>3, FS_Subset
  <2> DEFINE A == In({"passed"})
             B == In({"overridden", "ungated"})
  <2>5. \A g \in rest : saved[g] \in Int
      BY <2>3, <2>4
  <2> HIDE DEF A, B, rest, In, Under, saved, groups, total
  <2>6. SumFunctionOnSet(saved, groups) = SumFunctionOnSet(saved, A) + SumFunctionOnSet(saved, groups \ A)
      BY <1>5, <2>3, <2>4, SumSplits DEF A
  <2>7. SumFunctionOnSet(saved, rest) = SumFunctionOnSet(saved, B) + SumFunctionOnSet(saved, rest \ B)
      BY <2>3, <2>4, <2>5, SumSplits DEF B
  <2>8. /\ SumFunctionOnSet(saved, groups \ A) = SumFunctionOnSet(saved, rest)
        /\ SumFunctionOnSet(saved, rest \ B) = SumFunctionOnSet(saved, In({Null}))
      BY <2>3 DEF rest, A, B
  <2>9. /\ Under({"passed"}) = SumFunctionOnSet(saved, A) /\ Under({"passed"}) \in Int
        /\ Under({"overridden", "ungated"}) = SumFunctionOnSet(saved, B)
        /\ Under({"overridden", "ungated"}) \in Int
        /\ Under({Null}) = SumFunctionOnSet(saved, In({Null})) /\ Under({Null}) \in Int
      BY <2>1 DEF A, B
  <2>10. QED
      BY <2>2, <2>6, <2>7, <2>8, <2>9
<1>10. RealisedSavings(log, f) =
         [totalSaved |-> total, substitutedRequests |-> number,
          passed |-> Under({"passed"}), ungated |-> Under({"overridden", "ungated"}), unknown |-> Under({Null})]
    BY DEF RealisedSavings
<1>11. SumOf(priced, LAMBDA r : Prices[r.requested] * r.tokens - r.cost) = SumFunctionOnSet(saving, priced)
    BY DEF SumOf
<1>12. QED
  <2> DEFINE said == RealisedSavings(log, f)
  <2>1. /\ said.totalSaved = SumOf(priced, LAMBDA r : Prices[r.requested] * r.tokens - r.cost)
        /\ said.substitutedRequests = Cardinality(priced)
        /\ said.passed + said.ungated + said.unknown = said.totalSaved
    <3> HIDE DEF Under, saving, priced, total, number
    <3>1. /\ said.totalSaved = total /\ said.substitutedRequests = number
          /\ said.passed = Under({"passed"}) /\ said.ungated = Under({"overridden", "ungated"})
          /\ said.unknown = Under({Null})
        BY <1>10
    <3> HIDE DEF said
    <3>2. QED
        BY <1>7, <1>8, <1>9, <1>11, <3>1
  <2>2. QED
      BY <2>1 DEF SavedOneByOne

\* Every accepted recommendation stands under one trust, with what it was projected to
\* save, and no other under any: DecisionsAddUp, of any finite set of them.
Trusts == {"passed", "overridden", "ungated"}
THEOREM DecisionsAlwaysAddUp ==
    ASSUME NEW recs, IsFiniteSet(recs),
           \A r \in recs : r.saving \in Int /\ r.acceptedVia \in Trusts \cup {Null}
    PROVE  DecidedUnderOne(recs)
<1> DEFINE accepted == {r \in recs : r.status = "accepted"}
           Via(r) == IF r.acceptedVia = Null THEN "ungated" ELSE r.acceptedVia
           of(via) == {r \in recs : r.status = "accepted" /\ Via(r) = via}
           saving == [r \in accepted |-> r.saving]
           one == [r \in accepted |-> 1]
           key == [r \in accepted |-> Via(r)]
           Part(via) == {r \in accepted : key[r] = via}
           trust == SavingsTrust(recs)
           counts == [v \in Trusts |-> trust[v].count]
           savings == [v \in Trusts |-> trust[v].saving]
<1>1. trust = [via \in Trusts |-> [count |-> Cardinality(of(via)), saving |-> SumOf(of(via), LAMBDA r : r.saving)]]
    BY DEF SavingsTrust, Trusts
<1>2. DOMAIN trust = Trusts /\ IsFiniteSet(Trusts)
  <2>1. DOMAIN trust = Trusts
      BY <1>1
  <2>2. IsFiniteSet(Trusts)
    <3>1. PICK ungated, overridden : ungated = {"ungated"} /\ overridden = ungated \cup {"overridden"}
        OBVIOUS
    <3>2. IsFiniteSet(ungated)
        BY <3>1, FS_Singleton
    <3>3. IsFiniteSet(overridden)
        BY <3>1, <3>2, FS_AddElement
    <3>4. IsFiniteSet(overridden \cup {"passed"})
        BY <3>3, FS_AddElement
    <3>5. Trusts = overridden \cup {"passed"}
        BY <3>1 DEF Trusts
    <3>6. QED
        BY <3>4, <3>5
  <2>3. QED
      BY <2>1, <2>2
<1>3. IsFiniteSet(accepted)
    BY FS_Subset
<1>4. \A r \in accepted : saving[r] \in Int /\ one[r] \in Int /\ one[r] = 1 /\ key[r] \in Trusts
    BY DEF Trusts
<1>5. \A v : of(v) = Part(v)
    OBVIOUS
<1>6. ASSUME NEW v \in Trusts
      PROVE  /\ trust[v].count = SumFunctionOnSet(one, Part(v))
             /\ trust[v].saving = SumFunctionOnSet(saving, Part(v))
  <2> DEFINE T == Part(v)
             own == [r \in T |-> r.saving]
  <2>1. IsFiniteSet(T) /\ T \in SUBSET accepted
      BY <1>3, FS_Subset
  <2>2. trust[v].count = Cardinality(T) /\ trust[v].saving = SumFunctionOnSet(own, T)
    <3>1. trust[v].count = Cardinality(of(v)) /\ trust[v].saving = SumOf(of(v), LAMBDA r : r.saving)
      <4> HIDE DEF trust, of
      <4>1. QED
          BY <1>1
    <3>2. of(v) = T
        BY <1>5
    <3>3. SumOf(T, LAMBDA r : r.saving) = SumFunctionOnSet(own, T)
        BY DEF SumOf
    <3> HIDE DEF of, T, trust, own
    <3>4. QED
        BY <3>1, <3>2, <3>3
  <2>3. \A r \in T : one[r] = 1 /\ saving[r] \in Int /\ own[r] = saving[r]
      BY <1>4, <2>1
  <2> HIDE DEF T, own, one, saving, trust
  <2>4. SumFunctionOnSet(one, T) = Cardinality(T) /\ SumFunctionOnSet(own, T) = SumFunctionOnSet(saving, T)
      BY <2>1, <2>3, SumOfOnes, SumsAgree
  <2>5. QED
      BY <2>2, <2>4 DEF T
<1>7. /\ counts = [v \in Trusts |-> SumFunctionOnSet(one, Part(v))]
      /\ savings = [v \in Trusts |-> SumFunctionOnSet(saving, Part(v))]
  <2> HIDE DEF trust, one, saving, Part
  <2>1. QED
      BY <1>6
<1>8. /\ SumFunctionOnSet(counts, Trusts) = SumFunctionOnSet(one, accepted)
      /\ SumFunctionOnSet(savings, Trusts) = SumFunctionOnSet(saving, accepted)
  <2> HIDE DEF counts, savings, one, saving, accepted, key
  <2>1. SumFunctionOnSet(counts, Trusts) = SumFunctionOnSet(one, accepted)
      BY <1>2, <1>3, <1>4, <1>7, SumByKey
  <2>2. SumFunctionOnSet(savings, Trusts) = SumFunctionOnSet(saving, accepted)
      BY <1>2, <1>3, <1>4, <1>7, SumByKey
  <2>3. QED
      BY <2>1, <2>2
<1>9. SumFunctionOnSet(one, accepted) = Cardinality(accepted)
  <2> HIDE DEF one, accepted
  <2>1. QED
      BY <1>3, <1>4, SumOfOnes
<1>10. /\ SumOf(DOMAIN trust, LAMBDA v : trust[v].count) = SumFunctionOnSet(counts, Trusts)
       /\ SumOf(DOMAIN trust, LAMBDA v : trust[v].saving) = SumFunctionOnSet(savings, Trusts)
       /\ SumOf(accepted, LAMBDA r : r.saving) = SumFunctionOnSet(saving, accepted)
  <2> HIDE DEF trust, accepted
  <2>1. QED
      BY <1>2 DEF SumOf
<1>11. Acceptance(recs)["accepted"] = Cardinality(accepted)
    BY DEF Acceptance
<1>12. /\ SumOf(DOMAIN trust, LAMBDA v : trust[v].count) = Acceptance(recs)["accepted"]
       /\ SumOf(DOMAIN trust, LAMBDA v : trust[v].saving) = SumOf(accepted, LAMBDA r : r.saving)
  <2> HIDE DEF trust, accepted, counts, savings, one, saving
  <2>1. QED
      BY <1>8, <1>9, <1>10, <1>11
<1>13. QED
    BY <1>12 DEF DecidedUnderOne

\* The documents of the log: each with its id, and Arbr's own without the dimensions of
\* a customer (internal/complete.js:9).
Fields == {"id", "at", "application", "userId", "model", "requested", "qualityGate", "status", "cost",
           "tokens", "internalKind", "source", "knownPricing"}
IsDocument(r) == DOMAIN r = Fields /\ r = [d \in Fields |-> r[d]]
IsStored(log) ==
    /\ IsLog(log)
    /\ \A r \in log : IsDocument(r) /\ (InternalOnly(r) => r.application = Null)
    /\ \A r, s \in log : r.id = s.id => r = s

Moved(r) == IF r.application = LegacyApplication /\ CustomerOnly(r) THEN Relabelled(r) ELSE r

LEMMA MovedIs ==
    ASSUME NEW r, IsDocument(r), InternalOnly(r) => r.application = Null
    PROVE  /\ Moved(r).id = r.id /\ Moved(r).cost = r.cost
           /\ Moved(r).application # LegacyApplication
           /\ r.application # LegacyApplication => Moved(r) = r
<1>1. CASE r.application = LegacyApplication /\ CustomerOnly(r)
  <2>1. Moved(r) = [r EXCEPT !.internalKind = "classifier", !.application = Null]
      BY <1>1 DEF Moved, Relabelled
  <2>2. [r EXCEPT !.internalKind = "classifier", !.application = Null] =
          [d \in Fields |-> IF d = "application" THEN Null ELSE IF d = "internalKind" THEN "classifier" ELSE r[d]]
      BY DEF IsDocument, Fields
  <2>3. /\ Moved(r)["id"] = r["id"] /\ Moved(r)["cost"] = r["cost"] /\ Moved(r)["application"] = Null
      BY <2>1, <2>2 DEF Fields
  <2>4. QED
      BY <1>1, <2>3 DEF Null, LegacyApplication
<1>2. CASE ~(r.application = LegacyApplication /\ CustomerOnly(r))
  <2>1. Moved(r) = r
      BY <1>2 DEF Moved
  <2>2. QED
      BY <1>2, <2>1 DEF CustomerOnly, Null, LegacyApplication
<1>3. QED
    BY <1>1, <1>2

\* The backfill of the boot moves records between two shares of the headline and does
\* nothing else, whatever is stored: BackfillMovesOnly, of any log.
THEOREM BackfillAlwaysMoves ==
    ASSUME NEW log, IsStored(log)
    PROVE  BackfillMoves(log)
<1> DEFINE after == BackfillInternalKind(log)
           was == Overview(log, Unfiltered)
           is == Overview(after, Unfiltered)
           b == [r \in log |-> Moved(r)]
           Costs(S) == [r \in S |-> r.cost]
           scoped(s) == [Unfiltered EXCEPT !.internalScope = s]
<1>1. /\ IsFiniteSet(log) /\ \A r \in log : r.cost \in Int
      /\ \A r, s \in log : r.id = s.id => r = s
    BY DEF IsStored, IsLog
<1>2. \A r \in log : /\ Moved(r).id = r.id /\ Moved(r).cost = r.cost
                     /\ Moved(r).application # LegacyApplication
                     /\ r.application # LegacyApplication => Moved(r) = r
    BY MovedIs DEF IsStored
<1>3. after = {Moved(r) : r \in log}
    BY DEF BackfillInternalKind, Moved
<1>4. \A r \in after : r.application # LegacyApplication
    BY <1>2, <1>3
<1>5. BackfillInternalKind(after) = after
  <2>1. \A r \in after : Moved(r) = r
      BY <1>4 DEF Moved
  <2>2. BackfillInternalKind(after) = {Moved(r) : r \in after}
      BY DEF BackfillInternalKind, Moved
  <2> HIDE DEF after
  <2>3. QED
      BY <2>1, <2>2
<1>6. {r \in log : r.application # LegacyApplication} \subseteq after
    BY <1>2, <1>3
<1>7. \A L, s : DOMAIN GroupBy(L, "application", scoped(s)) \subseteq {r.application : r \in L}
    BY DEF GroupBy, GroupOn, BuildMatch
<1>8. LegacyApplication \notin Facets(after, {"a1", "a3", Null}).applications
  <2>1. Facets(after, {"a1", "a3", Null}).applications \subseteq {r.application : r \in after}
      BY DEF Facets
  <2> HIDE DEF after
  <2>2. QED
      BY <1>4, <2>1
<1>9. /\ IsFiniteSet(after) /\ Cardinality(after) = Cardinality(log)
      /\ CostOf(after) = CostOf(log)
  <2>1. after = {b[r] : r \in log}
      BY <1>3
  <2>2. \A x, y \in log : b[x] = b[y] => x = y
      BY <1>1, <1>2
  <2>3. \A x \in log : Costs(log)[x] \in Int /\ Costs(after)[b[x]] = Costs(log)[x]
      BY <1>1, <1>2, <2>1
  <2>4. CostOf(after) = SumFunctionOnSet(Costs(after), after) /\ CostOf(log) = SumFunctionOnSet(Costs(log), log)
      BY DEF CostOf, SumOf
  <2> HIDE DEF after, b, Costs
  <2>5. QED
      BY <1>1, <2>1, <2>2, <2>3, <2>4, SumRenamed
<1>10. ASSUME NEW L, IsFiniteSet(L)
       PROVE  LET head == Overview(L, Unfiltered)
              IN  /\ head.totalCost = CostOf(L)
                  /\ head.totalRequests + head.internalRequests = Cardinality(L)
  <2> DEFINE C == {r \in L : IsCustomer(r)}
  <2>1. BuildMatch(L, scoped("all")) = L
      BY DEF BuildMatch, Unfiltered, Headed, InScope, FromSource, Null
  <2>2. ~IsDimensionScoped(Unfiltered)
      BY DEF IsDimensionScoped, Unfiltered
  <2>3. /\ Overview(L, Unfiltered).totalCost = CostOf(L)
        /\ Overview(L, Unfiltered).totalRequests = Cardinality(C)
        /\ Overview(L, Unfiltered).internalRequests = Cardinality(L \ C)
      BY <2>1, <2>2 DEF Overview
  <2>4. C \in SUBSET L
      OBVIOUS
  <2> HIDE DEF C
  <2>5. L \cap C = C
      BY <2>4
  <2>6. Cardinality(L \ C) = Cardinality(L) - Cardinality(C) /\ Cardinality(C) \in Nat /\ Cardinality(L) \in Nat
      BY <1>10, <2>4, <2>5, FS_Difference, FS_Subset, FS_CardinalityType
  <2>7. QED
      BY <2>3, <2>6
<1>11. /\ is.totalCost = was.totalCost
       /\ is.totalRequests + is.internalRequests = was.totalRequests + was.internalRequests
    BY <1>1, <1>9, <1>10
<1>12. \A s \in {"customer", "internal", "all"} : LegacyApplication \notin DOMAIN GroupBy(after, "application", scoped(s))
  <2> HIDE DEF after, scoped
  <2>1. QED
      BY <1>4, <1>7
<1> HIDE DEF after, was, is
<1>13. QED
    BY <1>5, <1>6, <1>8, <1>11, <1>12 DEF BackfillMoves, after, was, is

-----------------------------------------------------------------------------
(* The analysis of traffic, and what is recommended of it. *)

\* Traffic by application, kind of task and model.
IsTraffic(groups) ==
    /\ IsFiniteSet(groups)
    /\ \A g \in groups : g.requests \in Nat /\ g.tokens \in Int /\ g.cost \in Int
    /\ \A g, h \in groups : (g.application = h.application /\ g.taskType = h.taskType /\ g.model = h.model) => g = h

\* What is recommended of a pair counts no request twice.
LEMMA PlanCountsOnce ==
    ASSUME NEW groups, IsTraffic(groups), NEW pair
    PROVE  SumOf(PlanFor(groups, pair), LAMBDA r : r.requests) <= Together(GroupsOf(groups, pair)).requests
<1> DEFINE G == GroupsOf(groups, pair)
           own == {g \in G : g.application # "unknown" /\ Worth(g, pair[2])}
           f == [g \in G |-> g.requests]
           b == [g \in G |-> [scope |-> g.application, requests |-> g.requests]]
           Asked(S) == [r \in S |-> r.requests]
           plan == PlanFor(groups, pair)
           all == Together(G).requests
<1>1. /\ G \in SUBSET groups /\ IsFiniteSet(G) /\ own \in SUBSET G
      /\ \A g \in G : g.requests \in Nat
      /\ \A g, h \in G : g.application = h.application => g = h
  <2>1. G \in SUBSET groups /\ own \in SUBSET G
      BY DEF GroupsOf
  <2>2. \A g, h \in G : g.taskType = h.taskType /\ g.model = h.model
      BY DEF GroupsOf
  <2> HIDE DEF G
  <2>3. QED
      BY <2>1, <2>2, FS_Subset DEF IsTraffic
<1>2. SumOf(plan, LAMBDA r : r.requests) = SumFunctionOnSet(Asked(plan), plan) /\ all = SumFunctionOnSet(f, G)
    BY DEF SumOf, Together
<1>3. plan = IF own # {} THEN {[scope |-> g.application, requests |-> g.requests] : g \in own}
             ELSE IF Worth(Together(G), pair[2]) THEN {[scope |-> "any", requests |-> all]} ELSE {}
    BY DEF PlanFor
<1>4. \A g \in G : f[g] \in Nat /\ f[g] = g.requests
    BY <1>1
<1>5. /\ all \in Nat
      /\ SumFunctionOnSet(f, own) <= all
  <2> HIDE DEF G, own, f, all
  <2>1. QED
      BY <1>1, <1>2, <1>4, PartIsLess
<1>6. CASE own # {}
  <2>1. plan = {[scope |-> g.application, requests |-> g.requests] : g \in own}
      BY <1>3, <1>6
  <2>2. plan = {b[g] : g \in own}
      BY <1>1, <2>1
  <2>3. \A g, h \in own : b[g] = b[h] => g = h
      BY <1>1
  <2>4. \A g \in own : f[g] \in Int /\ Asked(plan)[b[g]] = f[g]
    <3>1. ASSUME NEW g \in own PROVE f[g] \in Int /\ b[g] \in plan /\ b[g].requests = f[g]
        BY <1>1, <1>4, <2>2
    <3> HIDE DEF plan, own, f, b
    <3>2. QED
        BY <3>1
  <2>5. IsFiniteSet(own)
      BY <1>1, FS_Subset
  <2> HIDE DEF plan, own, f, b, Asked
  <2>6. SumFunctionOnSet(Asked(plan), plan) = SumFunctionOnSet(f, own)
      BY <2>2, <2>3, <2>4, <2>5, SumRenamed
  <2>7. QED
      BY <1>2, <1>5, <2>6 DEF plan
<1>7. CASE own = {} /\ Worth(Together(G), pair[2])
  <2>1. PICK x : x = [scope |-> "any", requests |-> all]
      OBVIOUS
  <2>2. plan = {x}
      BY <1>3, <1>7, <2>1
  <2>3. Asked(plan)[x] = all
    <3> HIDE DEF plan, all
    <3>1. QED
        BY <2>1, <2>2
  <2> HIDE DEF plan, all, Asked
  <2>4. SumFunctionOnSet(Asked(plan), plan) = all
      BY <1>5, <2>2, <2>3, SumOfOne
  <2>5. QED
      BY <1>2, <1>5, <2>4 DEF plan, all
<1>8. CASE own = {} /\ ~Worth(Together(G), pair[2])
  <2>1. plan = {}
      BY <1>3, <1>8
  <2> HIDE DEF plan, all, Asked
  <2>2. SumFunctionOnSet(Asked(plan), plan) = 0
      BY <2>1, SumEmpty
  <2>3. QED
      BY <1>2, <1>5, <2>2 DEF plan, all
<1>9. QED
    BY <1>6, <1>7, <1>8

\* What is worth it has a plan.
LEMMA WorthIsPlanned ==
    ASSUME NEW groups, NEW pair, Worth(Together(GroupsOf(groups, pair)), pair[2])
    PROVE  PlanFor(groups, pair) # {}
<1> DEFINE own == {g \in GroupsOf(groups, pair) : g.application # "unknown" /\ Worth(g, pair[2])}
<1>1. CASE own # {}
    BY <1>1 DEF PlanFor
<1>2. CASE own = {}
    BY <1>2 DEF PlanFor
<1>3. QED
    BY <1>1, <1>2

\* What the analysis says of any traffic and what is recommended of it fit together:
\* PlanFollowsAnalysis, of any groups and any kinds of task that are marked cheap.
THEOREM PlanAlwaysFollows ==
    ASSUME NEW groups, IsTraffic(groups), NEW cheap
    PROVE  PlanFollows(groups, cheap)
<1> DEFINE seen == AnalyzeGroups(groups, cheap)
           next == PlanRecommendations(groups, cheap \cup seen.suggestMarkCheap)
           worth == {pair \in Pairs(groups) : Worth(Together(GroupsOf(groups, pair)), pair[2])}
<1>1. /\ seen.unmarked = {pair \in worth : pair[1] \notin cheap}
      /\ seen.flagged = worth \ seen.unmarked
      /\ seen.suggestMarkCheap = {pair[1] : pair \in seen.unmarked}
    BY DEF AnalyzeGroups
<1>2. \A marked : \A pair \in Pairs(groups) :
         pair[1] \in marked => /\ pair \in DOMAIN PlanRecommendations(groups, marked)
                               /\ PlanRecommendations(groups, marked)[pair] = PlanFor(groups, pair)
    BY DEF PlanRecommendations
<1>3. \A pair \in worth : PlanFor(groups, pair) # {} /\ pair \in Pairs(groups)
    BY WorthIsPlanned
<1> HIDE DEF worth
<1>4. \A pair \in seen.flagged : PlanRecommendations(groups, cheap)[pair] # {}
    BY <1>1, <1>2, <1>3
<1>5. \A pair \in seen.unmarked : pair \in DOMAIN next /\ next[pair] # {}
    BY <1>1, <1>2, <1>3
<1>6. \A pair \in DOMAIN next :
        SumOf(next[pair], LAMBDA r : r.requests) <= Together(GroupsOf(groups, pair)).requests
  <2>1. \A marked : \A pair \in DOMAIN PlanRecommendations(groups, marked) :
           PlanRecommendations(groups, marked)[pair] = PlanFor(groups, pair)
      BY DEF PlanRecommendations
  <2>2. ASSUME NEW pair \in DOMAIN next
        PROVE  SumOf(next[pair], LAMBDA r : r.requests) <= Together(GroupsOf(groups, pair)).requests
    <3>1. next[pair] = PlanFor(groups, pair)
        BY <2>1
    <3> HIDE DEF next
    <3>2. QED
        BY <3>1, PlanCountsOnce
  <2>3. QED
      BY <2>2
<1> HIDE DEF seen, next
<1>7. QED
    BY <1>4, <1>5, <1>6 DEF PlanFollows, seen, next

-----------------------------------------------------------------------------
(* Scoring: how a run is summed up, how candidates and judges are compared, and     *)
(* what is sampled.                                                                  *)

\* Runs of any length over items of any severity, cost and delay.
Replayable == [errored : {FALSE}, verdict : {"better", "equal", "worse", Unjudged},
               severity : {"trivial", "normal", "critical"}, critical : BOOLEAN,
               formatPass : BOOLEAN, cost : Nat, slower : Int]
RunsOfItems == Seq({Failed} \cup Replayable)

LEMMA PartsOfRun ==
    ASSUME NEW e \in RunsOfItems
    PROVE  /\ Len(e) \in Nat /\ DOMAIN e = 1 .. Len(e) /\ IsFiniteSet(DOMAIN e)
           /\ Cardinality(DOMAIN e) = Len(e)
           /\ \A i \in DOMAIN e : e[i].errored \in BOOLEAN
           /\ \A i \in ReplayedIn(e) : e[i] \in Replayable
           /\ ReplayedIn(e) \subseteq DOMAIN e /\ JudgedIn(e) \subseteq ReplayedIn(e) /\ WorseIn(e) \subseteq JudgedIn(e)
           /\ IsFiniteSet(ReplayedIn(e)) /\ IsFiniteSet(JudgedIn(e)) /\ IsFiniteSet(WorseIn(e))
<1>1. Len(e) \in Nat /\ DOMAIN e = 1 .. Len(e)
    BY DEF RunsOfItems
<1>2. IsFiniteSet(DOMAIN e) /\ Cardinality(DOMAIN e) = Len(e)
  <2>1. PICK n \in Nat : n = Len(e)
      BY <1>1
  <2>2. IsFiniteSet(1 .. n) /\ Cardinality(1 .. n) = IF 1 > n THEN 0 ELSE n - 1 + 1
      BY FS_Interval, 1 \in Int, n \in Int
  <2>3. QED
      BY <1>1, <2>1, <2>2
<1>3. \A i \in DOMAIN e : e[i] = Failed \/ e[i] \in Replayable
    BY <1>1 DEF RunsOfItems
<1>4. /\ \A i \in DOMAIN e : e[i].errored \in BOOLEAN
      /\ \A i \in ReplayedIn(e) : e[i] \in Replayable
  <2>1. ASSUME NEW i \in DOMAIN e PROVE e[i].errored \in BOOLEAN /\ (~e[i].errored => e[i] \in Replayable)
    <3>1. CASE e[i] = Failed
        BY <3>1 DEF Failed
    <3>2. CASE e[i] \in Replayable
        BY <3>2 DEF Replayable
    <3>3. QED
        BY <1>3, <3>1, <3>2
  <2>2. QED
      BY <2>1 DEF ReplayedIn
<1>5. /\ ReplayedIn(e) \subseteq DOMAIN e /\ JudgedIn(e) \subseteq ReplayedIn(e)
      /\ WorseIn(e) \subseteq JudgedIn(e)
    BY DEF ReplayedIn, JudgedIn, WorseIn
<1>6. QED
    BY <1>1, <1>2, <1>4, <1>5, FS_Subset

\* A run that passes over a benchmark: PassIsEarned, of any run.
THEOREM PassAlwaysEarned ==
    ASSUME NEW e \in RunsOfItems, NEW tier
    PROVE  EarnsItsPass(e, tier)
<1> DEFINE t == OfBenchmark(RiskForTier(tier), Len(e))
<1>1. SUFFICES ASSUME e # <<>>, EvaluateRun(Aggregate(e), t)
               PROVE  \A i \in DOMAIN e : ~e[i].errored /\ e[i].verdict # Unjudged
    BY DEF EarnsItsPass
<1>2. t.minItems >= Len(e) /\ t.minItems \in Nat
    BY PartsOfRun DEF OfBenchmark, RiskForTier, Thresholds, Limits
<1>3. ~(Aggregate(e).judged < t.minItems)
  <2>1. "judged" \notin Failures(Aggregate(e), t)
      BY <1>1 DEF EvaluateRun
  <2> HIDE DEF t
  <2>2. QED
      BY <2>1 DEF Failures
<1>4. Aggregate(e).judged = Cardinality(JudgedIn(e))
    BY DEF Aggregate, Summary
<1>5. JudgedIn(e) \subseteq DOMAIN e /\ Cardinality(JudgedIn(e)) \in Nat
    BY PartsOfRun, FS_CardinalityType
<1>6. Cardinality(JudgedIn(e)) >= Cardinality(DOMAIN e)
  <2> HIDE DEF t
  <2>1. QED
      BY <1>2, <1>3, <1>4, <1>5, PartsOfRun
<1>7. JudgedIn(e) = DOMAIN e
    BY <1>5, <1>6, PartsOfRun, FS_Subset
<1>8. QED
    BY <1>7 DEF JudgedIn, ReplayedIn

\* A judge: BiasIsOfPlaces, of any number of verdicts.
THEOREM BiasAlwaysOfPlaces ==
    ASSUME NEW n \in Nat, NEW v \in [1 .. n -> VerdictsOfJudge]
    PROVE  BiasOfPlace(v)
<1> DEFINE w == Swapped(v)
<1>1. /\ \A f \in BOOLEAN : WinsIn(v, f) \in Nat /\ ShownIn(v, f) \in Nat
  <2>1. IsFiniteSet(DOMAIN v)
      BY FS_Interval, 1 \in Int
  <2>2. \A S \in SUBSET DOMAIN v : Cardinality(S) \in Nat
      BY <2>1, FS_Subset, FS_CardinalityType
  <2>3. QED
      BY <2>2 DEF WinsIn, ShownIn
<1>2. \A f \in BOOLEAN : WinsIn(w, f) = WinsIn(v, ~f) /\ ShownIn(w, f) = ShownIn(v, ~f)
  <2> SUFFICES ASSUME NEW f \in BOOLEAN PROVE WinsIn(w, f) = WinsIn(v, ~f) /\ ShownIn(w, f) = ShownIn(v, ~f)
      OBVIOUS
  <2>1. DOMAIN w = 1 .. n /\ DOMAIN v = 1 .. n
      BY DEF Swapped
  <2>2. \A i \in 1 .. n : w[i].verdict = v[i].verdict /\ (w[i].first = f) = (v[i].first = ~f)
      BY DEF Swapped, VerdictsOfJudge
  <2> HIDE DEF w
  <2>3. /\ {i \in DOMAIN w : w[i].verdict = "better" /\ w[i].first = f}
             = {i \in DOMAIN v : v[i].verdict = "better" /\ v[i].first = ~f}
        /\ {i \in DOMAIN w : w[i].verdict # Unjudged /\ w[i].first = f}
             = {i \in DOMAIN v : v[i].verdict # Unjudged /\ v[i].first = ~f}
      BY <2>1, <2>2, Zenon
  <2>4. QED
      BY <2>3 DEF WinsIn, ShownIn
<1>3. PICK a \in Nat : a = ShownIn(v, TRUE)
    BY <1>1
<1>4. PICK b \in Nat : b = ShownIn(v, FALSE)
    BY <1>1
<1>5. PICK x \in Nat : x = WinsIn(v, TRUE)
    BY <1>1
<1>6. PICK y \in Nat : y = WinsIn(v, FALSE)
    BY <1>1
<1>7. /\ WinsIn(w, TRUE) = y /\ WinsIn(w, FALSE) = x /\ ShownIn(w, TRUE) = b /\ ShownIn(w, FALSE) = a
    BY <1>2, <1>3, <1>4, <1>5, <1>6
<1> HIDE DEF w
<1>8. PositionBias(v) = [known |-> a > 0 /\ b > 0, over |-> IF a * b = 0 THEN 1 ELSE a * b, by |-> x * b - y * a]
    BY <1>3, <1>4, <1>5, <1>6 DEF PositionBias
<1>9. PositionBias(w) = [known |-> b > 0 /\ a > 0, over |-> IF b * a = 0 THEN 1 ELSE b * a, by |-> y * a - x * b]
    BY <1>7 DEF PositionBias
<1>10. ASSUME \A i \in DOMAIN v : v[i].verdict = "better" PROVE x = a /\ y = b
  <2>1. \A f : WinsIn(v, f) = ShownIn(v, f)
      BY <1>10 DEF WinsIn, ShownIn, Unjudged
  <2>2. QED
      BY <2>1, <1>3, <1>4, <1>5, <1>6
<1>11. PICK p \in Int : p = x * b
    OBVIOUS
<1>12. PICK q \in Int : q = y * a
    OBVIOUS
<1>13. PICK o \in Nat : o = a * b /\ o = b * a
    OBVIOUS
<1>14. /\ PositionBias(v).known = PositionBias(w).known
       /\ PositionBias(v).by = p - q /\ PositionBias(w).by = q - p
       /\ PositionBias(v).over = PositionBias(w).over /\ PositionBias(v).over \in Int
    BY <1>8, <1>9, <1>11, <1>12, <1>13
<1>15. PICK r \in Int : r = PositionBias(v).over
    BY <1>14
<1>16. (p - q) * r = -((q - p) * r)
    OBVIOUS
<1>17. ASSUME \A i \in DOMAIN v : v[i].verdict = "better" PROVE PositionBias(v).by = 0
    BY <1>8, <1>10, <1>17
<1>18. QED
    BY <1>14, <1>15, <1>16, <1>17 DEF BiasOfPlace, w

-----------------------------------------------------------------------------
Graveness == {"trivial", "normal", "critical"}
Weighable(e, S) == IsFiniteSet(S) /\ \A j \in S : e[j].severity \in Graveness

LEMMA WeightOfOne ==
    ASSUME NEW s \in Graveness
    PROVE  SeverityWeight[s] \in {3, 10, 30}
BY DEF Graveness, SeverityWeight

\* The weight of entries is that of one and of the others, and more of them weigh no less.
LEMMA WeightAdds ==
    ASSUME NEW e, NEW S, Weighable(e, S)
    PROVE  /\ Weight(e, S) \in Int
           /\ \A i \in S : Weight(e, S) = SeverityWeight[e[i].severity] + Weight(e, S \ {i})
           /\ \A A \in SUBSET S : 0 <= Weight(e, A) /\ Weight(e, A) <= Weight(e, S)
<1> DEFINE w == [j \in S |-> SeverityWeight[e[j].severity]]
           Of(A) == [j \in A |-> SeverityWeight[e[j].severity]]
           none == [j \in S |-> 0]
<1>1. IsFiniteSet(S) /\ \A j \in S : w[j] \in Int /\ 0 <= w[j] /\ none[j] = 0
    BY WeightOfOne DEF Weighable
<1>2. ASSUME NEW A \in SUBSET S PROVE Weight(e, A) = SumFunctionOnSet(w, A) /\ IsFiniteSet(A)
  <2>1. Weight(e, A) = SumFunctionOnSet(Of(A), A)
      BY DEF Weight, Total
  <2>2. \A j \in A : w[j] \in Int /\ Of(A)[j] = w[j]
      BY <1>1
  <2>3. IsFiniteSet(A)
      BY <1>1, FS_Subset
  <2> HIDE DEF w, Of
  <2>4. QED
      BY <2>1, <2>2, <2>3, SumsAgree
<1>3. \A j \in S : w[j] = SeverityWeight[e[j].severity]
    OBVIOUS
<1> HIDE DEF w, none
<1>4. ASSUME NEW A \in SUBSET S PROVE 0 <= Weight(e, A) /\ Weight(e, A) \in Int
  <2>1. IsFiniteSet(A) /\ Weight(e, A) = SumFunctionOnSet(w, A)
      BY <1>2
  <2>2. SumFunctionOnSet(none, A) = 0
      BY <1>1, <2>1, SumOfNothing
  <2>3. \A j \in A : none[j] \in Int /\ w[j] \in Int /\ none[j] <= w[j]
      BY <1>1
  <2>4. SumFunctionOnSet(none, A) <= SumFunctionOnSet(w, A)
      BY <2>1, <2>3, SumGrows
  <2>5. SumFunctionOnSet(w, A) \in Int
      BY <1>1, <2>1, SumIsInt
  <2>6. QED
      BY <2>1, <2>2, <2>4, <2>5
<1>5. S \in SUBSET S
    OBVIOUS
<1>6. ASSUME NEW A \in SUBSET S PROVE Weight(e, A) <= Weight(e, S)
  <2>1. S \ A \in SUBSET S
      OBVIOUS
  <2>2. Weight(e, S) = Weight(e, A) + Weight(e, S \ A)
    <3>1. SumFunctionOnSet(w, S) = SumFunctionOnSet(w, A) + SumFunctionOnSet(w, S \ A)
        BY <1>1, SumSplits
    <3>2. QED
        BY <3>1, <1>2, <1>5, <2>1
  <2>3. QED
      BY <1>4, <1>5, <2>1, <2>2
<1>7. ASSUME NEW i \in S PROVE Weight(e, S) = SeverityWeight[e[i].severity] + Weight(e, S \ {i})
  <2>1. SumFunctionOnSet(w, S) = w[i] + SumFunctionOnSet(w, S \ {i})
      BY <1>1, SumStep
  <2>2. S \ {i} \in SUBSET S
      OBVIOUS
  <2>3. QED
      BY <1>2, <1>3, <1>5, <2>1, <2>2
<1>8. QED
    BY <1>4, <1>5, <1>6, <1>7

\* An entry that is graded otherwise changes nothing but what is worse and what it weighs.
LEMMA GradedEntry ==
    ASSUME NEW e \in RunsOfItems, NEW i \in WorseIn(e), NEW v \in {"worse", "equal", "better"}, NEW s \in Graveness,
           NEW g, g = Graded(e, i, v, s)
    PROVE  /\ DOMAIN g = DOMAIN e /\ \A j \in DOMAIN e \ {i} : g[j] = e[j]
           /\ g[i].verdict = v /\ g[i].severity = s /\ g[i].errored = e[i].errored
           /\ g[i].critical = e[i].critical /\ g[i].formatPass = e[i].formatPass
           /\ g[i].cost = e[i].cost /\ g[i].slower = e[i].slower
<1>1. i \in DOMAIN e /\ e[i] \in Replayable
    BY PartsOfRun
<1>2. DOMAIN g = DOMAIN e /\ \A j \in DOMAIN e \ {i} : g[j] = e[j]
    BY DEF Graded
<1>3. g[i] = [e[i] EXCEPT !.verdict = v, !.severity = s]
    BY <1>1 DEF Graded
<1>4. QED
    BY <1>1, <1>2, <1>3 DEF Replayable

LEMMA GradedRun ==
    ASSUME NEW e \in RunsOfItems, NEW i \in WorseIn(e), NEW v \in {"worse", "equal", "better"}, NEW s \in Graveness,
           NEW g, g = Graded(e, i, v, s)
    PROVE  /\ ReplayedIn(g) = ReplayedIn(e) /\ JudgedIn(g) = JudgedIn(e)
           /\ WorseIn(g) = IF v = "worse" THEN WorseIn(e) ELSE WorseIn(e) \ {i}
           /\ Weighable(e, JudgedIn(e)) /\ Weighable(g, JudgedIn(e))
           /\ \A S \in SUBSET (JudgedIn(e) \ {i}) : Weight(g, S) = Weight(e, S)
<1>1. /\ DOMAIN g = DOMAIN e /\ \A j \in DOMAIN e \ {i} : g[j] = e[j]
      /\ g[i].verdict = v /\ g[i].severity = s /\ g[i].errored = e[i].errored
    BY GradedEntry
<1>2. i \in JudgedIn(e) /\ e[i].verdict = "worse"
    BY DEF WorseIn
<1>3. \A j \in DOMAIN e : g[j].errored = e[j].errored
    BY <1>1
<1>4. ReplayedIn(g) = ReplayedIn(e)
    BY <1>1, <1>3 DEF ReplayedIn
<1>5. \A j \in ReplayedIn(e) : (g[j].verdict # Unjudged) = (e[j].verdict # Unjudged)
    BY <1>1, <1>2 DEF Unjudged, ReplayedIn
<1>6. JudgedIn(g) = JudgedIn(e)
    BY <1>4, <1>5 DEF JudgedIn
<1>7. JudgedIn(e) \subseteq DOMAIN e /\ IsFiniteSet(JudgedIn(e)) /\ \A j \in JudgedIn(e) : e[j] \in Replayable
    BY PartsOfRun
<1>8. WorseIn(g) = IF v = "worse" THEN WorseIn(e) ELSE WorseIn(e) \ {i}
    BY <1>1, <1>2, <1>6, <1>7 DEF WorseIn
<1>9. Weighable(e, JudgedIn(e)) /\ Weighable(g, JudgedIn(e))
    BY <1>1, <1>7 DEF Weighable, Replayable, Graveness
<1>10. ASSUME NEW S \in SUBSET (JudgedIn(e) \ {i}) PROVE Weight(g, S) = Weight(e, S)
  <2>1. \A j \in S : g[j] = e[j]
      BY <1>1, <1>7
  <2>2. [j \in S |-> SeverityWeight[g[j].severity]] = [j \in S |-> SeverityWeight[e[j].severity]]
      BY <2>1
  <2>3. QED
      BY <2>2 DEF Weight, Total
<1>11. QED
    BY <1>4, <1>6, <1>8, <1>9, <1>10

LEMMA GradedSummary ==
    ASSUME NEW e \in RunsOfItems, NEW i \in WorseIn(e), NEW v \in {"worse", "equal", "better"}, NEW s \in Graveness,
           NEW g, g = Graded(e, i, v, s)
    PROVE  LET a == Aggregate(g)
               b == Aggregate(e)
           IN  /\ a.judged = b.judged /\ a.ok = b.ok /\ a.critical = b.critical
               /\ a.formatted = b.formatted /\ a.cost = b.cost /\ a.slower = b.slower
               /\ a.worse = Weight(g, WorseIn(g)) /\ a.weight = Weight(g, JudgedIn(g))
<1>1. ReplayedIn(g) = ReplayedIn(e) /\ JudgedIn(g) = JudgedIn(e)
    BY GradedRun
<1>2. PICK ok : ok = ReplayedIn(e)
    OBVIOUS
<1>3. \A j \in ok : /\ g[j].critical = e[j].critical /\ g[j].formatPass = e[j].formatPass
                    /\ g[j].cost = e[j].cost /\ g[j].slower = e[j].slower
  <2>1. ok \subseteq DOMAIN e
      BY <1>2, PartsOfRun
  <2>2. QED
      BY <2>1, GradedEntry
<1>4. /\ {j \in ok : g[j].critical} = {j \in ok : e[j].critical}
      /\ {j \in ok : g[j].formatPass} = {j \in ok : e[j].formatPass}
      /\ [j \in ok |-> g[j].cost] = [j \in ok |-> e[j].cost]
      /\ [j \in ok |-> g[j].slower] = [j \in ok |-> e[j].slower]
    BY <1>3
<1>5. QED
    BY <1>1, <1>2, <1>4 DEF Aggregate, Summary, Total

\* Of two runs that differ in what is worse alone, the second passes where the first does.
LEMMA PassesToo ==
    ASSUME NEW a, NEW b, NEW t,
           a.judged = b.judged, a.ok = b.ok, a.critical = b.critical,
           a.formatted = b.formatted, a.cost = b.cost, a.slower = b.slower,
           b.worse * 1000 > t.maxWorse * b.weight => a.worse * 1000 > t.maxWorse * a.weight,
           EvaluateRun(a, t)
    PROVE  EvaluateRun(b, t)
<1>1. ASSUME NEW f \in Failures(b, t) PROVE f \in Failures(a, t)
  <2>1. CASE f = "judged"
      BY <1>1, <2>1 DEF Failures
  <2>2. CASE f = "worse"
      BY <1>1, <2>2 DEF Failures
  <2>3. CASE f = "critical"
      BY <1>1, <2>3 DEF Failures
  <2>4. CASE f = "format"
      BY <1>1, <2>4 DEF Failures
  <2>5. CASE f = "saving"
      BY <1>1, <2>5 DEF Failures
  <2>6. CASE f = "latency"
      BY <1>1, <2>6 DEF Failures
  <2>7. f \in {"judged", "worse", "critical", "format", "saving", "latency"}
      BY <1>1 DEF Failures
  <2>8. QED
      BY <2>1, <2>2, <2>3, <2>4, <2>5, <2>6, <2>7
<1>2. QED
    BY <1>1 DEF EvaluateRun

\* A rate of the worse that is not too high with a grave case is not too high with a light one.
LEMMA LighterIsNoWorse ==
    ASSUME NEW W \in Int, NEW T \in Int, NEW m \in Int, 0 <= W, W <= T,
           (W + 3) * 1000 > m * (T + 3)
    PROVE  (W + 30) * 1000 > m * (T + 30)
<1>1. PICK p \in Int : p = m * T
    OBVIOUS
<1>2. m * (T + 3) = p + 3 * m /\ m * (T + 30) = p + 30 * m
    BY <1>1
<1>3. CASE m <= 1000
    BY <1>2, <1>3
<1>4. CASE m > 1000
  <2>1. 1000 * T <= m * T
      BY <1>4
  <2>2. QED
      BY <1>1, <1>2, <1>4, <2>1
<1>5. QED
    BY <1>3, <1>4

LEMMA SeveritiesWeigh == SeverityWeight["trivial"] = 3 /\ SeverityWeight["normal"] = 10 /\ SeverityWeight["critical"] = 30
BY DEF SeverityWeight

LEMMA EvenedRun ==
    ASSUME NEW e \in RunsOfItems, NEW g, g = Evened(e)
    PROVE  /\ JudgedIn(g) = JudgedIn(e) /\ WorseIn(g) = WorseIn(e)
           /\ \A S \in SUBSET JudgedIn(e) : Weight(g, S) = 10 * Cardinality(S)
<1>1. DOMAIN g = DOMAIN e /\ \A j \in DOMAIN e : g[j] = IF e[j].errored THEN Failed ELSE [e[j] EXCEPT !.severity = "normal"]
    BY DEF Evened
<1>2. \A j \in DOMAIN e : e[j].errored \in BOOLEAN /\ (e[j].errored = FALSE => e[j] \in Replayable)
    BY PartsOfRun DEF ReplayedIn
<1>3. ASSUME NEW j \in DOMAIN e, ~e[j].errored
      PROVE  g[j].errored = FALSE /\ g[j].verdict = e[j].verdict /\ g[j].severity = "normal"
  <2>1. g[j] = [e[j] EXCEPT !.severity = "normal"] /\ e[j] \in Replayable
      BY <1>1, <1>2, <1>3
  <2>2. QED
      BY <2>1 DEF Replayable
<1>4. ASSUME NEW j \in DOMAIN e, e[j].errored PROVE g[j].errored = TRUE
    BY <1>1, <1>4 DEF Failed
<1>5. ReplayedIn(g) = ReplayedIn(e)
    BY <1>1, <1>3, <1>4 DEF ReplayedIn
<1>6. JudgedIn(g) = JudgedIn(e)
    BY <1>3, <1>5 DEF JudgedIn, ReplayedIn
<1>7. WorseIn(g) = WorseIn(e)
    BY <1>3, <1>6 DEF WorseIn, JudgedIn, ReplayedIn
<1>8. ASSUME NEW S \in SUBSET JudgedIn(e) PROVE Weight(g, S) = 10 * Cardinality(S)
  <2> DEFINE w == [j \in S |-> SeverityWeight[g[j].severity]]
  <2>1. IsFiniteSet(S)
      BY PartsOfRun, FS_Subset
  <2>2. \A j \in S : g[j].severity = "normal"
      BY <1>3 DEF JudgedIn, ReplayedIn
  <2>3. \A j \in S : w[j] = 10
      BY <2>2, SeveritiesWeigh
  <2>4. Weight(g, S) = SumFunctionOnSet(w, S)
      BY DEF Weight, Total
  <2> HIDE DEF w
  <2>5. QED
      BY <2>1, <2>3, <2>4, SumOfSame
<1>9. QED
    BY <1>6, <1>7, <1>8

\* BetterNeverHurts, of any run and any limit.
THEOREM BetterNeverHurtsAny ==
    ASSUME NEW e \in RunsOfItems, NEW t, t.maxWorse \in Int
    PROVE  HelpedByBetter(e, t)
<1> DEFINE pass(i, v, s) == EvaluateRun(Aggregate(Graded(e, i, v, s)), t)
<1>1. ASSUME NEW i \in WorseIn(e)
      PROVE  /\ \A s \in Graveness, v \in {"equal", "better"} : pass(i, "worse", s) => pass(i, v, s)
             /\ pass(i, "worse", "critical") => pass(i, "worse", "trivial")
             /\ e[i].severity \in Graveness
  <2>1. WorseIn(e) \subseteq JudgedIn(e) /\ i \in JudgedIn(e) /\ i \in ReplayedIn(e)
      BY PartsOfRun
  <2>2. PICK W : W = Weight(e, WorseIn(e) \ {i})
      OBVIOUS
  <2>3. PICK T : T = Weight(e, JudgedIn(e) \ {i})
      OBVIOUS
  <2>4. Weighable(e, JudgedIn(e))
      BY GradedRun, WeightOfOne DEF Graveness
  <2>5. W \in Int /\ T \in Int /\ 0 <= W /\ W <= T
    <3>1. Weighable(e, WorseIn(e) \ {i}) /\ Weighable(e, JudgedIn(e) \ {i})
        BY <2>1, <2>4, FS_Subset DEF Weighable
    <3>2. WorseIn(e) \ {i} \in SUBSET (JudgedIn(e) \ {i})
        BY <2>1
    <3>3. QED
        BY <2>2, <2>3, <3>1, <3>2, WeightAdds
  <2>6. ASSUME NEW v \in {"worse", "equal", "better"}, NEW s \in Graveness
        PROVE  LET a == Aggregate(Graded(e, i, v, s))
               IN  /\ a.worse = IF v = "worse" THEN W + SeverityWeight[s] ELSE W
                   /\ a.weight = T + SeverityWeight[s]
    <3>1. PICK g : g = Graded(e, i, v, s)
        OBVIOUS
    <3>2. /\ JudgedIn(g) = JudgedIn(e) /\ Weighable(g, JudgedIn(e)) /\ g[i].severity = s
          /\ WorseIn(g) = IF v = "worse" THEN WorseIn(e) ELSE WorseIn(e) \ {i}
          /\ \A S \in SUBSET (JudgedIn(e) \ {i}) : Weight(g, S) = Weight(e, S)
        BY <3>1, GradedRun, GradedEntry
    <3>3. Weight(g, JudgedIn(e)) = SeverityWeight[s] + T
      <4>1. Weight(g, JudgedIn(e)) = SeverityWeight[g[i].severity] + Weight(g, JudgedIn(e) \ {i})
          BY <2>1, <3>2, WeightAdds
      <4>2. QED
          BY <4>1, <3>2, <2>3
    <3>4. Weight(g, WorseIn(e)) = SeverityWeight[s] + W
      <4>1. Weighable(g, WorseIn(e))
          BY <3>2, <2>1, FS_Subset DEF Weighable
      <4>2. Weight(g, WorseIn(e)) = SeverityWeight[g[i].severity] + Weight(g, WorseIn(e) \ {i})
          BY <4>1, WeightAdds
      <4>3. WorseIn(e) \ {i} \in SUBSET (JudgedIn(e) \ {i})
          BY <2>1
      <4>4. QED
          BY <4>2, <4>3, <3>2, <2>2
    <3>5. Weight(g, WorseIn(e) \ {i}) = W
        BY <2>1, <2>2, <3>2
    <3>6. Aggregate(g).worse = Weight(g, WorseIn(g)) /\ Aggregate(g).weight = Weight(g, JudgedIn(g))
        BY <3>1, GradedSummary
    <3>7. SeverityWeight[s] \in Int
        BY WeightOfOne
    <3>8. QED
        BY <3>1, <3>2, <3>3, <3>4, <3>5, <3>6, <3>7, <2>5
  <2>7. ASSUME NEW s \in Graveness, NEW v \in {"equal", "better"}, pass(i, "worse", s) PROVE pass(i, v, s)
    <3>1. PICK a : a = Aggregate(Graded(e, i, "worse", s))
        OBVIOUS
    <3>2. PICK b : b = Aggregate(Graded(e, i, v, s))
        OBVIOUS
    <3>3. /\ a.judged = b.judged /\ a.ok = b.ok /\ a.critical = b.critical
          /\ a.formatted = b.formatted /\ a.cost = b.cost /\ a.slower = b.slower
        BY <3>1, <3>2, GradedSummary
    <3>4. a.worse = W + SeverityWeight[s] /\ b.worse = W /\ a.weight = b.weight
        BY <2>6, <3>1, <3>2
    <3>5. b.worse * 1000 > t.maxWorse * b.weight => a.worse * 1000 > t.maxWorse * a.weight
      <4>1. PICK limit \in Int : limit = t.maxWorse * (T + SeverityWeight[s])
          BY <2>5, WeightOfOne
      <4>2. SeverityWeight[s] \in {3, 10, 30} /\ t.maxWorse * b.weight = limit /\ t.maxWorse * a.weight = limit
          BY <4>1, <2>6, <3>1, <3>2, WeightOfOne
      <4>3. QED
          BY <4>2, <3>4, <2>5
    <3>6. QED
        BY <2>7, <3>1, <3>2, <3>3, <3>5, PassesToo
  <2>8. ASSUME pass(i, "worse", "critical") PROVE pass(i, "worse", "trivial")
    <3>1. PICK a : a = Aggregate(Graded(e, i, "worse", "critical"))
        OBVIOUS
    <3>2. PICK b : b = Aggregate(Graded(e, i, "worse", "trivial"))
        OBVIOUS
    <3>3. "critical" \in Graveness /\ "trivial" \in Graveness
        BY DEF Graveness
    <3>4. /\ a.judged = b.judged /\ a.ok = b.ok /\ a.critical = b.critical
          /\ a.formatted = b.formatted /\ a.cost = b.cost /\ a.slower = b.slower
        BY <3>1, <3>2, <3>3, GradedSummary
    <3>5. a.worse = W + 30 /\ a.weight = T + 30 /\ b.worse = W + 3 /\ b.weight = T + 3
        BY <2>6, <3>1, <3>2, <3>3, SeveritiesWeigh
    <3>6. b.worse * 1000 > t.maxWorse * b.weight => a.worse * 1000 > t.maxWorse * a.weight
        BY <3>5, <2>5, LighterIsNoWorse
    <3>7. QED
        BY <2>8, <3>1, <3>2, <3>4, <3>6, PassesToo
  <2>9. e[i].severity \in Graveness
      BY <2>1, <2>4 DEF Weighable
  <2>10. QED
      BY <2>7, <2>8, <2>9
<1>2. ASSUME NEW even, even = Aggregate(Evened(e)) PROVE even.worse * even.judged = even.worseRaw * even.weight
  <2>1. PICK g : g = Evened(e)
      OBVIOUS
  <2>2. /\ even.judged = Cardinality(JudgedIn(g)) /\ even.worse = Weight(g, WorseIn(g))
        /\ even.worseRaw = Cardinality(WorseIn(g)) /\ even.weight = Weight(g, JudgedIn(g))
      BY <1>2, <2>1 DEF Aggregate, Summary
  <2>3. PICK n \in Nat : n = Cardinality(JudgedIn(e))
      BY PartsOfRun, FS_CardinalityType
  <2>4. PICK k \in Nat : k = Cardinality(WorseIn(e))
      BY PartsOfRun, FS_CardinalityType
  <2>5. even.judged = n /\ even.worseRaw = k /\ even.worse = 10 * k /\ even.weight = 10 * n
      BY <2>1, <2>2, <2>3, <2>4, EvenedRun, PartsOfRun
  <2>6. (10 * k) * n = k * (10 * n)
      OBVIOUS
  <2>7. QED
      BY <2>5, <2>6
<1>3. QED
    BY <1>1, <1>2 DEF HelpedByBetter

-----------------------------------------------------------------------------
IsPriced(x) ==
    /\ x.quality \in Nat /\ x.scale \in Nat /\ x.cost \in Nat /\ x.judged \in Nat
    /\ x.known => x.scale > 0

LEMMA PricedRun ==
    ASSUME NEW e \in RunsOfItems, NEW cost \in Nat
    PROVE  IsPriced(EfficiencyOf(Aggregate(e), cost))
<1> DEFINE a == Aggregate(e)
<1>1. /\ a.judged = Cardinality(JudgedIn(e)) /\ a.ok = Cardinality(ReplayedIn(e))
      /\ a.worse = Weight(e, WorseIn(e)) /\ a.weight = Weight(e, JudgedIn(e))
      /\ a.formatted = Cardinality({i \in ReplayedIn(e) : e[i].formatPass})
    BY DEF Aggregate, Summary
<1>2. a.judged \in Nat /\ a.ok \in Nat /\ a.judged <= a.ok
    BY <1>1, PartsOfRun, FS_Subset, FS_CardinalityType
<1>3. a.formatted \in Nat
  <2>1. {i \in ReplayedIn(e) : e[i].formatPass} \in SUBSET ReplayedIn(e)
      OBVIOUS
  <2>2. QED
      BY <1>1, <2>1, PartsOfRun, FS_Subset, FS_CardinalityType
<1>4. Weighable(e, JudgedIn(e))
    BY PartsOfRun DEF Weighable, Replayable, Graveness
<1>5. a.weight \in Int /\ a.worse \in Int /\ 0 <= a.worse /\ a.worse <= a.weight
  <2>1. Weighable(e, WorseIn(e)) /\ WorseIn(e) \in SUBSET JudgedIn(e)
      BY <1>4, PartsOfRun DEF Weighable
  <2>2. QED
      BY <1>1, <1>4, <2>1, WeightAdds
<1>6. a.judged > 0 => a.weight > 0
  <2>1. ASSUME a.judged > 0 PROVE a.weight > 0
    <3>1. PICK i : i \in JudgedIn(e)
        BY <1>1, <2>1, FS_EmptySet
    <3>2. Weight(e, JudgedIn(e)) = SeverityWeight[e[i].severity] + Weight(e, JudgedIn(e) \ {i})
        BY <1>4, <3>1, WeightAdds
    <3>3. 0 <= Weight(e, JudgedIn(e) \ {i})
        BY <1>4, WeightAdds
    <3>4. Weight(e, JudgedIn(e) \ {i}) \in Int
      <4>1. Weighable(e, JudgedIn(e) \ {i})
          BY <1>4, FS_Subset DEF Weighable
      <4>2. QED
          BY <4>1, WeightAdds
    <3>5. SeverityWeight[e[i].severity] \in {3, 10, 30}
        BY <1>4, <3>1, WeightOfOne DEF Weighable
    <3>6. QED
        BY <1>1, <3>2, <3>3, <3>4, <3>5
  <2>2. QED
      BY <2>1
<1> DEFINE good == IF a.ok = 0 THEN 1 ELSE a.formatted
           many == IF a.ok = 0 THEN 1 ELSE a.ok
<1>7. good \in Nat /\ many \in Nat /\ many > 0
    BY <1>2, <1>3
<1>8. EfficiencyOf(a, cost) = [known |-> a.judged > 0, quality |-> (a.weight - a.worse) * good,
                               scale |-> a.weight * many, cost |-> cost, judged |-> a.judged]
    BY DEF EfficiencyOf
<1> HIDE DEF a, good, many
<1>9. a.weight - a.worse \in Nat /\ a.weight \in Nat
    BY <1>5
<1>10. (a.weight - a.worse) * good \in Nat /\ a.weight * many \in Nat
    BY <1>7, <1>9
<1>11. a.weight > 0 => a.weight * many > 0
    BY <1>7, <1>9
<1>12. PICK E : E = EfficiencyOf(a, cost)
    OBVIOUS
<1>13. /\ E.quality = (a.weight - a.worse) * good /\ E.scale = a.weight * many
       /\ E.cost = cost /\ E.judged = a.judged
    BY <1>8, <1>12
<1>14. E.known => a.judged > 0
  <2>1. EfficiencyOf(a, cost).known = (a.judged > 0)
      BY Zenon DEF EfficiencyOf
  <2>2. QED
      BY <1>12, <2>1, Zenon
<1>15. IsPriced(E)
    BY <1>2, <1>6, <1>10, <1>11, <1>13, <1>14 DEF IsPriced
<1>16. QED
    BY <1>12, <1>15 DEF a

LEMMA Products ==
    ASSUME NEW x \in Nat, NEW y \in Nat, NEW z \in Nat, NEW w \in Nat, x <= y, z <= w
    PROVE  x * z \in Nat /\ x * z <= y * w
<1>1. x * z \in Nat /\ y * z \in Nat /\ y * w \in Nat
    OBVIOUS
<1>2. x * z <= y * z
  <2>1. PICK d \in Nat : y = x + d
      BY x <= y, y - x \in Nat
  <2>2. (x + d) * z = x * z + d * z /\ d * z \in Nat
      OBVIOUS
  <2>3. QED
      BY <1>1, <2>1, <2>2
<1>3. y * z <= y * w
  <2>1. PICK d \in Nat : w = z + d
      BY z <= w, w - z \in Nat
  <2>2. y * (z + d) = y * z + y * d /\ y * d \in Nat
      OBVIOUS
  <2>3. QED
      BY <1>1, <2>1, <2>2
<1>4. QED
    BY <1>1, <1>2, <1>3

\* RankIsFair, of any two candidates.
LEMMA PricedRankFairly ==
    ASSUME NEW a, NEW b, IsPriced(a), IsPriced(b)
    PROVE  FairlyRanked(a, b)
<1> DEFINE P == a.quality * b.scale * a.judged * b.cost
           Q == b.quality * a.scale * b.judged * a.cost
<1>1. /\ a.quality \in Nat /\ a.scale \in Nat /\ a.cost \in Nat /\ a.judged \in Nat
      /\ b.quality \in Nat /\ b.scale \in Nat /\ b.cost \in Nat /\ b.judged \in Nat
      /\ (a.known => a.scale > 0) /\ (b.known => b.scale > 0)
    BY DEF IsPriced
<1>2. P \in Nat /\ Q \in Nat
    BY <1>1
<1>3. /\ (Value(a) = "none") <=> ~a.known
      /\ (Value(a) = "ratio") <=> (a.known /\ a.cost > 0)
      /\ (Value(a) = "free") <=> (a.known /\ a.cost = 0 /\ a.quality > 0)
      /\ (Value(a) = "nothing") <=> (a.known /\ a.cost = 0 /\ a.quality = 0)
    BY <1>1 DEF Value
<1>4. /\ (Value(b) = "none") <=> ~b.known
      /\ (Value(b) = "ratio") <=> (b.known /\ b.cost > 0)
      /\ (Value(b) = "free") <=> (b.known /\ b.cost = 0 /\ b.quality > 0)
      /\ (Value(b) = "nothing") <=> (b.known /\ b.cost = 0 /\ b.quality = 0)
    BY <1>1 DEF Value
<1>5. /\ Value(a) \in {"none", "ratio", "free", "nothing"} /\ Value(b) \in {"none", "ratio", "free", "nothing"}
    BY DEF Value
<1>6. Value(a) = "ratio" /\ Value(b) = "ratio" => (Ranks(a, b) => (P > Q)) /\ (Ranks(b, a) => (Q > P))
    BY DEF Ranks
<1> HIDE DEF P, Q
<1>7. /\ Value(a) = "none" => ~Ranks(a, b)
      /\ Value(b) = "none" => ~Ranks(b, a)
      /\ Value(a) = "free" => (Ranks(a, b) => (Value(b) # "free"))
      /\ Value(b) = "free" => (Ranks(b, a) => (Value(a) # "free"))
      /\ Value(a) = "nothing" => (Ranks(a, b) => (Value(b) = "none"))
      /\ Value(b) = "nothing" => (Ranks(b, a) => (Value(a) = "none"))
      /\ Value(a) = "ratio" /\ Value(b) # "ratio" =>
            (Ranks(a, b) => (Value(b) = "none" \/ (Value(b) = "nothing" /\ a.quality > 0)))
      /\ Value(b) = "ratio" /\ Value(a) # "ratio" =>
            (Ranks(b, a) => (Value(a) = "none" \/ (Value(a) = "nothing" /\ b.quality > 0)))
    BY <1>5 DEF Ranks
<1>8. ~(Ranks(a, b) /\ Ranks(b, a))
  <2>1. CASE Value(a) = "ratio" /\ Value(b) = "ratio"
      BY <1>2, <1>6, <2>1
  <2>2. CASE ~(Value(a) = "ratio" /\ Value(b) = "ratio")
      BY <1>5, <1>7, <2>2
  <2>3. QED
      BY <2>1, <2>2
<1>9. ASSUME a.known, b.known, a.judged = b.judged, a.cost <= b.cost,
             a.quality * b.scale >= b.quality * a.scale
      PROVE  ~Ranks(b, a)
  <2>1. PICK X \in Nat : X = a.quality * b.scale
      BY <1>1
  <2>2. PICK Y \in Nat : Y = b.quality * a.scale
      BY <1>1
  <2>3. Y <= X
      BY <1>9, <2>1, <2>2
  <2>4. CASE Value(a) = "ratio" /\ Value(b) = "ratio"
    <3>1. PICK j \in Nat : j = a.judged /\ j = b.judged
        BY <1>1, <1>9
    <3>2. Y * j \in Nat /\ X * j \in Nat /\ Y * j <= X * j
        BY <2>3, Products
    <3>3. (Y * j) * a.cost <= (X * j) * b.cost
        BY <3>2, <1>1, <1>9, Products
    <3>4. P = (X * j) * b.cost /\ Q = (Y * j) * a.cost
        BY <2>1, <2>2, <3>1 DEF P, Q
    <3>5. QED
        BY <1>2, <1>6, <2>4, <3>3, <3>4
  <2>5. CASE b.quality > 0
    <3>1. PICK q \in Nat : q = b.quality
        BY <1>1
    <3>2. PICK c \in Nat : c = a.scale
        BY <1>1
    <3>3. q * c > 0
        BY <1>1, <1>9, <2>5, <3>1, <3>2
    <3>4. a.quality # 0
        BY <1>1, <2>1, <2>2, <2>3, <3>1, <3>2, <3>3
    <3>5. QED
        BY <1>1, <1>3, <1>4, <1>5, <1>7, <1>9, <2>4, <3>4
  <2>6. CASE ~(b.quality > 0)
      BY <1>1, <1>3, <1>4, <1>5, <1>7, <1>9, <2>4, <2>6
  <2>7. QED
      BY <2>5, <2>6
<1>10. QED
    BY <1>8, <1>9 DEF FairlyRanked

THEOREM RankAlwaysFair ==
    ASSUME NEW x \in RunsOfItems, NEW y \in RunsOfItems, NEW c \in Nat, NEW d \in Nat
    PROVE  FairlyRanked(EfficiencyOf(Aggregate(x), c), EfficiencyOf(Aggregate(y), d))
BY PricedRun, PricedRankFairly

\* A stratum is some of those sampled from, and a record is of its own.
LEMMA StratumOf ==
    ASSUME NEW n \in Nat, NEW records, NEW from \in SUBSET (1 .. n), NEW i \in from
    PROVE  /\ OfStratum(records, from, i) \in SUBSET from /\ OfStratum(records, from, i) \in SUBSET (1 .. n)
           /\ i \in OfStratum(records, from, i)
           /\ \A S \in SUBSET (1 .. n) : IsFiniteSet(S) /\ Cardinality(S) \in Nat
           /\ \A j \in OfStratum(records, from, i) :
                j \in from /\ OfStratum(records, from, j) = OfStratum(records, from, i)
BY SubsetsCounted DEF OfStratum

\* The first of a stratum is one of it, and before all others.
LEMMA FirstIsLeast ==
    ASSUME NEW n \in Nat, NEW records, NEW from \in SUBSET (1 .. n), NEW i \in from
    PROVE  /\ FirstOf(records, from, i) \in OfStratum(records, from, i)
           /\ FirstOf(records, from, i) \in 1 .. n
<1>1. OfStratum(records, from, i) \in SUBSET (1 .. n) /\ OfStratum(records, from, i) # {}
    BY StratumOf
<1>2. \E x \in OfStratum(records, from, i) : \A y \in OfStratum(records, from, i) : x <= y
    BY <1>1, IndexEnds
<1>3. FirstOf(records, from, i) \in OfStratum(records, from, i)
    BY <1>2 DEF FirstOf
<1>4. QED
    BY <1>1, <1>3

\* Within a stratum, turns come as the records do.
LEMMA TurnsGrow ==
    ASSUME NEW n \in Nat, NEW records, NEW from \in SUBSET (1 .. n), NEW i \in from
    PROVE  /\ TurnOf(records, from, i) \in Nat
           /\ \A j \in OfStratum(records, from, i) : j < i => TurnOf(records, from, j) < TurnOf(records, from, i)
<1> DEFINE Till(k) == {j \in OfStratum(records, from, k) : j <= k}
<1>1. \A k \in from : Till(k) \in SUBSET (1 .. n) /\ IsFiniteSet(Till(k)) /\ Cardinality(Till(k)) \in Nat
    BY StratumOf
<1>2. \A k \in from : TurnOf(records, from, k) = Cardinality(Till(k))
    BY DEF TurnOf
<1>3. ASSUME NEW j \in OfStratum(records, from, i), j < i
      PROVE  TurnOf(records, from, j) < TurnOf(records, from, i)
  <2>1. j \in from /\ OfStratum(records, from, j) = OfStratum(records, from, i) /\ i \in OfStratum(records, from, i)
        /\ OfStratum(records, from, i) \in SUBSET (1 .. n)
      BY StratumOf
  <2>2. i \in Int /\ j \in Int
      BY <2>1
  <2>3. Till(j) \subseteq Till(i) /\ i \in Till(i) /\ i \notin Till(j)
      BY <1>3, <2>1, <2>2
  <2> HIDE DEF Till
  <2>4. Till(j) # Till(i) /\ IsFiniteSet(Till(i))
      BY <1>1, <2>3
  <2>5. Cardinality(Till(j)) <= Cardinality(Till(i)) /\ Cardinality(Till(j)) # Cardinality(Till(i))
      BY <2>3, <2>4, FS_Subset
  <2>6. QED
      BY <1>1, <1>2, <2>1, <2>5
<1>4. QED
    BY <1>1, <1>2, <1>3

TakenBefore(records, from) == {p \in from \X from : Before(records, from, p[1], p[2])}

LEMMA TakenInOrder ==
    ASSUME NEW n \in Nat, NEW records, NEW from \in SUBSET (1 .. n)
    PROVE  Ordering(from, TakenBefore(records, from))
<1> DEFINE Turn(i) == TurnOf(records, from, i)
           First(i) == FirstOf(records, from, i)
           R == TakenBefore(records, from)
<1>1. \A i \in from : Turn(i) \in Nat /\ First(i) \in Nat
  <2>1. \A i \in from : Turn(i) \in Nat
      BY TurnsGrow
  <2>2. \A i \in from : First(i) \in 1 .. n
      BY FirstIsLeast
  <2> HIDE DEF Turn, First
  <2>3. QED
      BY <2>1, <2>2
<1>2. \A i, j \in from : <<i, j>> \in R <=> (Turn(i) < Turn(j) \/ (Turn(i) = Turn(j) /\ First(i) < First(j)))
    BY DEF TakenBefore, Before
<1>3. ASSUME NEW i \in from, NEW j \in from, i # j, Turn(i) = Turn(j) PROVE First(i) # First(j)
  <2>1. ASSUME First(i) = First(j) PROVE FALSE
    <3>1. /\ First(i) \in OfStratum(records, from, i) /\ First(j) \in OfStratum(records, from, j)
        BY FirstIsLeast
    <3>2. OfStratum(records, from, i) = OfStratum(records, from, j)
        BY <2>1, <3>1, StratumOf
    <3>3. i \in OfStratum(records, from, j) /\ j \in OfStratum(records, from, i)
        BY <3>2, StratumOf
    <3>4. (i < j => Turn(i) < Turn(j)) /\ (j < i => Turn(j) < Turn(i))
        BY <3>3, TurnsGrow
    <3>5. i \in Int /\ j \in Int
        OBVIOUS
    <3> HIDE DEF Turn
    <3>6. QED
        BY <1>1, <1>3, <3>4, <3>5
  <2>2. QED
      BY <2>1
<1> HIDE DEF Turn, First, R
<1>4. \A x \in from : <<x, x>> \notin R
    BY <1>1, <1>2
<1>5. \A x, y \in from : x # y => <<x, y>> \in R \/ <<y, x>> \in R
    BY <1>1, <1>2, <1>3
<1>6. ASSUME NEW x \in from, NEW y \in from, NEW z \in from, <<x, y>> \in R, <<y, z>> \in R PROVE <<x, z>> \in R
    BY <1>1, <1>2, <1>6
<1>7. R \subseteq from \X from
    BY DEF R, TakenBefore
<1>8. QED
    BY <1>4, <1>5, <1>6, <1>7 DEF Ordering, R

\* A record that is kept is the first of its prompt.
LEMMA PromptsOnce ==
    ASSUME NEW n \in Nat, NEW records, DOMAIN records = 1 .. n
    PROVE  /\ DedupeByPromptHash(records) \in SUBSET (1 .. n)
           /\ \A i, j \in DedupeByPromptHash(records) : records[i].prompt = records[j].prompt => i = j
<1>1. \A i, j \in DedupeByPromptHash(records) : i < j => records[i].prompt # records[j].prompt
    BY DEF DedupeByPromptHash
<1>2. DedupeByPromptHash(records) \in SUBSET (1 .. n)
    BY DEF DedupeByPromptHash
<1>3. \A i, j \in DedupeByPromptHash(records) : i \in Int /\ j \in Int
    BY <1>2
<1>4. QED
    BY <1>1, <1>2, <1>3

\* The sample is those that fewer come before than are asked for: all, where there are
\* no more.
LEMMA SampleByRank ==
    ASSUME NEW n \in Nat, NEW records, NEW from \in SUBSET (1 .. n), NEW target \in Nat
    PROVE  StratifiedSample(records, from, target) = Leaders(from, TakenBefore(records, from), target)
<1> DEFINE R == TakenBefore(records, from)
<1>1. IsFiniteSet(from) /\ Cardinality(from) \in Nat
    BY SubsetsCounted
<1>2. Ordering(from, R)
    BY TakenInOrder
<1>3. \A i \in from : RankIn(from, R, i) = Cardinality({j \in from : Before(records, from, j, i)})
  <2>1. \A i, j \in from : <<j, i>> \in R <=> Before(records, from, j, i)
      BY DEF TakenBefore
  <2>2. ASSUME NEW i \in from
        PROVE  {j \in from : <<j, i>> \in R} = {j \in from : Before(records, from, j, i)}
      BY <2>1
  <2>3. QED
      BY <2>2 DEF RankIn
<1> HIDE DEF R
<1>4. \A i \in from : RankIn(from, R, i) \in Nat /\ RankIn(from, R, i) < Cardinality(from)
    BY <1>1, <1>2, RanksGrow
<1>5. CASE Cardinality(from) <= target
  <2>1. \A i \in from : RankIn(from, R, i) < target
      BY <1>1, <1>4, <1>5
  <2>2. QED
      BY <1>5, <2>1 DEF StratifiedSample, R, Leaders
<1>6. CASE ~(Cardinality(from) <= target)
  <2>1. StratifiedSample(records, from, target) =
          {i \in from : Cardinality({j \in from : Before(records, from, j, i)}) < target}
      BY <1>6 DEF StratifiedSample
  <2>2. QED
      BY <1>3, <2>1 DEF R, Leaders
<1>7. QED
    BY <1>5, <1>6

\* A sample is fair (eval/dataset.js), of any records and of any size: no prompt is
\* taken twice, as many are as can be, no stratum is two ahead of one that has more to
\* give, and of a stratum the first are taken.
THEOREM SampleAlwaysFair ==
    ASSUME NEW n \in Nat, NEW records, DOMAIN records = 1 .. n, NEW target \in Nat
    PROVE  FairSample(records, target)
<1> DEFINE from == DedupeByPromptHash(records)
           taken == StratifiedSample(records, from, target)
           of(i) == OfStratum(records, from, i)
           turn(i) == TurnOf(records, from, i)
           R == TakenBefore(records, from)
           rank(i) == RankIn(from, R, i)
<1>1. /\ from \in SUBSET (1 .. n) /\ IsFiniteSet(from) /\ Cardinality(from) \in Nat
      /\ \A i, j \in from : records[i].prompt = records[j].prompt => i = j
    BY PromptsOnce, SubsetsCounted
<1>2. taken = Leaders(from, R, target)
    BY <1>1, SampleByRank
<1>3. Ordering(from, R)
    BY <1>1, TakenInOrder
<1>4. /\ \A i \in from : rank(i) \in Nat
      /\ \A i, j \in from : <<i, j>> \in R => rank(i) < rank(j)
    BY <1>1, <1>3, RanksGrow
<1>5. Cardinality(taken) = IF Cardinality(from) < target THEN Cardinality(from) ELSE target
    BY <1>1, <1>2, <1>3, LeadersCounted
<1>6. \A i \in from : /\ of(i) \in SUBSET from /\ of(i) \in SUBSET (1 .. n) /\ i \in of(i)
                      /\ \A j \in of(i) : j \in from /\ of(j) = of(i)
    BY <1>1, StratumOf
<1>7. \A S \in SUBSET (1 .. n) : IsFiniteSet(S) /\ Cardinality(S) \in Nat
    BY SubsetsCounted
<1>8. /\ \A i \in from : turn(i) \in Nat
      /\ \A i \in from : \A j \in of(i) : j < i => turn(j) < turn(i)
    BY <1>1, TurnsGrow
<1>9. \A i, j \in from : turn(i) < turn(j) => <<i, j>> \in R
    BY DEF TakenBefore, Before
<1>10. \A i \in from : turn(i) = Cardinality({j \in of(i) : j <= i})
    BY DEF TurnOf
<1>14. taken = {i \in from : rank(i) < target}
    BY <1>2 DEF Leaders
<1> HIDE DEF from, taken, of, turn, R, rank
<1>11. ASSUME NEW i \in from, NEW j \in from, turn(i) < turn(j), j \in taken PROVE i \in taken
  <2>1. rank(i) < rank(j) /\ rank(i) \in Nat /\ rank(j) \in Nat /\ rank(j) < target
      BY <1>4, <1>9, <1>11, <1>14
  <2>2. QED
      BY <1>14, <2>1
<1>12. ASSUME NEW i \in from, NEW j \in from,
              Cardinality(taken \cap of(i)) > Cardinality(taken \cap of(j)) + 1
       PROVE  of(j) \subseteq taken
  <2> DEFINE some == taken \cap of(i)
             left == of(j) \ taken
             least == taken \cap of(j)
  <2>1. /\ some \in SUBSET (1 .. n) /\ left \in SUBSET (1 .. n) /\ least \in SUBSET (1 .. n)
        /\ Cardinality(some) \in Nat /\ Cardinality(least) \in Nat /\ IsFiniteSet(least)
      BY <1>6, <1>7
  <2>2. ASSUME left # {} PROVE FALSE
    <3>1. some # {}
      <4>1. Cardinality({}) = 0
          BY FS_EmptySet
      <4>2. Cardinality(some) > Cardinality(least) + 1
          BY <1>12
      <4> HIDE DEF some, least
      <4>3. Cardinality(some) # 0
          BY <2>1, <4>2
      <4>4. QED
          BY <4>1, <4>3
    <3>2. PICK g \in some : \A y \in some : g >= y
        BY <2>1, <3>1, IndexEnds
    <3>3. PICK k \in left : \A y \in left : k <= y
        BY <2>1, <2>2, IndexEnds
    <3>4. g \in from /\ k \in from /\ g \in taken /\ k \notin taken /\ of(g) = of(i) /\ of(k) = of(j)
        BY <1>6, <3>2, <3>3
    <3>5. Cardinality(some) <= turn(g)
      <4> DEFINE till == {y \in of(g) : y <= g}
      <4>1. \A y \in some : y <= g
        <5>1. g \in Int /\ \A y \in some : y \in Int
            BY <2>1
        <5>2. QED
            BY <3>2, <5>1
      <4>2. some \subseteq till /\ till \in SUBSET (1 .. n)
          BY <1>6, <3>4, <4>1
      <4>3. IsFiniteSet(till)
          BY <1>7, <4>2
      <4>4. turn(g) = Cardinality(till)
          BY <1>10, <3>4
      <4> HIDE DEF some, till
      <4>5. QED
          BY <4>2, <4>3, <4>4, FS_Subset
    <3>6. turn(k) <= Cardinality(least) + 1
      <4> DEFINE till == {y \in of(k) : y <= k}
      <4>1. \A y \in till : y \in Int /\ k \in Int
          BY <1>6, <3>4
      <4>2. till \subseteq least \cup {k}
        <5>1. ASSUME NEW y \in till, y # k PROVE y \in taken
          <6>1. y \in of(j) /\ y < k
              BY <3>4, <4>1, <5>1
          <6>2. y \notin left
              BY <3>3, <4>1, <6>1
          <6>3. QED
              BY <6>1, <6>2
        <5>2. QED
            BY <3>4, <5>1
      <4>3. IsFiniteSet(least \cup {k}) /\ Cardinality(least \cup {k}) = Cardinality(least) + 1
        <5>1. k \notin least
            BY <3>4
        <5> HIDE DEF least
        <5>2. QED
            BY <2>1, <5>1, FS_AddElement
      <4>4. turn(k) = Cardinality(till)
          BY <1>10, <3>4
      <4> HIDE DEF till, least
      <4>5. Cardinality(till) <= Cardinality(least \cup {k})
          BY <4>2, <4>3, FS_Subset
      <4>6. QED
          BY <4>3, <4>4, <4>5
    <3>7. turn(k) < turn(g)
      <4>1. turn(k) \in Nat /\ turn(g) \in Nat
          BY <1>8, <3>4
      <4>2. Cardinality(some) > Cardinality(least) + 1
          BY <1>12
      <4> HIDE DEF some, least
      <4>3. QED
          BY <2>1, <3>5, <3>6, <4>1, <4>2
    <3>8. QED
        BY <1>11, <3>4, <3>7
  <2>3. QED
      BY <2>2
<1>13. ASSUME NEW i \in taken, NEW j \in of(i), j < i PROVE j \in taken
  <2>1. i \in from /\ j \in from
      BY <1>14, <1>6
  <2>2. turn(j) < turn(i)
      BY <1>8, <1>13, <2>1
  <2>3. QED
      BY <1>11, <2>1, <2>2
<1>15. taken \subseteq from
    BY <1>14
<1>16. QED
  <2>1. \A i, j \in taken : records[i].prompt = records[j].prompt => i = j
      BY <1>1, <1>15
  <2>2. \A i, j \in from :
          /\ Cardinality(taken \cap of(i)) > Cardinality(taken \cap of(j)) + 1 => of(j) \subseteq taken
          /\ i \in taken /\ j \in of(i) /\ j < i => j \in taken
      BY <1>12, <1>13
  <2>3. QED
      BY <1>5, <1>15, <2>1, <2>2 DEF FairSample, from, taken, of

-----------------------------------------------------------------------------
(* All figures: the samples that the run evaluates are some of what the theorems    *)
(* above are about.                                                                  *)

\* A document with an id.
Fine(r, i) ==
    /\ r.id = i /\ r.cost \in Int /\ r.tokens \in Int /\ r.qualityGate \in Gates
    /\ DOMAIN r = Fields /\ r = [d \in Fields |-> r[d]]
    /\ InternalOnly(r) => r.application = Null

LEMMA FewAreFinite ==
    ASSUME NEW a, NEW b, NEW c, NEW d, NEW e
    PROVE  IsFiniteSet({a, b, c, d, e})
<1>1. IsFiniteSet({a})
    BY FS_Singleton
<1>2. IsFiniteSet({a} \cup {b})
    BY <1>1, FS_AddElement
<1>3. IsFiniteSet(({a} \cup {b}) \cup {c})
    BY <1>2, FS_AddElement
<1>4. IsFiniteSet((({a} \cup {b}) \cup {c}) \cup {d})
    BY <1>3, FS_AddElement
<1>5. IsFiniteSet(((({a} \cup {b}) \cup {c}) \cup {d}) \cup {e})
    BY <1>4, FS_AddElement
<1>6. ((({a} \cup {b}) \cup {c}) \cup {d}) \cup {e} = {a, b, c, d, e}
    OBVIOUS
<1>7. QED
    BY <1>5, <1>6

LEMMA LoggedAreFine ==
    /\ IsFiniteSet(Logged)
    /\ \A r \in Logged : \E i \in 1 .. 10 : Fine(r, i)
    /\ \A r, s \in Logged : r.id = s.id => r = s
<1> DEFINE e1 == Call(1, 20, "a1", "u1", "light", "heavy", "passed", "success", 2)
           e2 == [Call(2, 30, "a1", Null, "heavy", "heavy", Null, "success", 6) EXCEPT !.internalKind = Missing, !.source = Missing]
           e3 == [Call(3, 31, "a2", "u1", "light", "light", Null, "success", 2) EXCEPT !.source = "ingested"]
           e4 == Call(4, 32, "a1", "u1", "light", "heavy", Null, "failure", 0)
           e5 == Call(5, 40, "a2", Null, "light", "auto", "ungated", "success", 2)
           e6 == Call(6, 41, "a2", "u1", "light", "heavy", "overridden", "success", 2)
           e7 == Call(7, 42, "a1", "u1", "light", "heavy", Null, "success", 3)
           e8 == [Call(8, 20, "a2", Null, "other", "gone", Null, "success", 0) EXCEPT !.knownPricing = FALSE]
           e9 == [Call(9, 21, Null, Null, "light", "light", Null, "success", 1) EXCEPT !.internalKind = "judge"]
           e10 == [Call(10, 22, LegacyApplication, Null, "light", Null, Null, "success", 1) EXCEPT !.internalKind = Missing]
<1>1. Fine(e1, 1)
    BY DEF Fine, Call, Gates, Fields, InternalOnly, Null, Missing, LegacyApplication
<1>2. Fine(e2, 2)
  <2> DEFINE c == Call(2, 30, "a1", Null, "heavy", "heavy", Null, "success", 6)
  <2>1. /\ c.id = 2 /\ c.cost = 6 /\ c.tokens = 2 /\ c.qualityGate = Null
        /\ DOMAIN c = Fields /\ c = [d \in Fields |-> c[d]]
      BY DEF Call, Fields
  <2>2. e2 = [c EXCEPT !.internalKind = Missing, !.source = Missing]
      OBVIOUS
  <2> HIDE DEF c, e2
  <2>3. e2 = [d \in Fields |-> IF d = "source" THEN Missing ELSE IF d = "internalKind" THEN Missing ELSE c[d]]
      BY <2>1, <2>2 DEF Fields
  <2>4. /\ e2.id = 2 /\ e2.cost = 6 /\ e2.tokens = 2 /\ e2.qualityGate = Null /\ e2.internalKind = Missing
      BY <2>1, <2>3 DEF Fields
  <2>5. DOMAIN e2 = Fields /\ e2 = [d \in Fields |-> e2[d]]
      BY <2>3
  <2>6. QED
      BY <2>4, <2>5 DEF Fine, Gates, InternalOnly
<1>3. Fine(e3, 3)
    BY DEF Fine, Call, Gates, Fields, InternalOnly, Null, Missing, LegacyApplication
<1>4. Fine(e4, 4)
    BY DEF Fine, Call, Gates, Fields, InternalOnly, Null, Missing, LegacyApplication
<1>5. Fine(e5, 5)
    BY DEF Fine, Call, Gates, Fields, InternalOnly, Null, Missing, LegacyApplication
<1>6. Fine(e6, 6)
    BY DEF Fine, Call, Gates, Fields, InternalOnly, Null, Missing, LegacyApplication
<1>7. Fine(e7, 7)
    BY DEF Fine, Call, Gates, Fields, InternalOnly, Null, Missing, LegacyApplication
<1>8. Fine(e8, 8)
    BY DEF Fine, Call, Gates, Fields, InternalOnly, Null, Missing, LegacyApplication
<1>9. Fine(e9, 9)
    BY DEF Fine, Call, Gates, Fields, InternalOnly, Null, Missing, LegacyApplication
<1>10. Fine(e10, 10)
    BY DEF Fine, Call, Gates, Fields, InternalOnly, Null, Missing, LegacyApplication
<1>11. Logged = {e1, e2, e3, e4, e5} \cup {e6, e7, e8, e9, e10}
    BY DEF Logged
<1> HIDE DEF e1, e2, e3, e4, e5, e6, e7, e8, e9, e10
<1>12. IsFiniteSet(Logged)
    BY <1>11, FewAreFinite, FS_Union
<1>13. \A r \in Logged : \E i \in 1 .. 10 : Fine(r, i)
    BY <1>1, <1>2, <1>3, <1>4, <1>5, <1>6, <1>7, <1>8, <1>9, <1>10, <1>11
<1>14. /\ e1.id = 1 /\ e2.id = 2 /\ e3.id = 3 /\ e4.id = 4 /\ e5.id = 5
       /\ e6.id = 6 /\ e7.id = 7 /\ e8.id = 8 /\ e9.id = 9 /\ e10.id = 10
    BY <1>1, <1>2, <1>3, <1>4, <1>5, <1>6, <1>7, <1>8, <1>9, <1>10 DEF Fine
<1>15. \A r, s \in Logged : r.id = s.id => r = s
    BY <1>11, <1>14
<1>16. QED
    BY <1>12, <1>13, <1>15

LEMMA SampleOfLogs ==
    ASSUME NEW log \in SampleLogs
    PROVE  IsStored(log)
<1>1. log \in SUBSET Logged
    BY DEF SampleLogs
<1>2. IsFiniteSet(log)
    BY <1>1, LoggedAreFine, FS_Subset
<1>3. QED
    BY <1>1, <1>2, LoggedAreFine DEF IsStored, IsLog, IsDocument, Fine

LEMMA SampleOfFilters ==
    ASSUME NEW f \in SampleFilters
    PROVE  IsFilter(f)
<1> DEFINE F(a, u, s, w) ==
        [Unfiltered EXCEPT !.application = a, !.userId = u, !.source = s, !.from = w[1], !.to = w[2]]
<1>1. ASSUME NEW a, NEW u, NEW s, NEW w PROVE IsFilter(F(a, u, s, w))
    BY DEF IsFilter, Unfiltered
<1>2. SampleFilters = {F(a, u, s, w) : a \in {Null, "a1", LegacyApplication}, u \in {Null, "u1"},
                           s \in {Null, "gateway", "ingested"}, w \in {<<0, 0>>, <<24, 0>>, <<0, 31>>}}
    BY DEF SampleFilters
<1> HIDE DEF F
<1>3. QED
    BY <1>1, <1>2

LEMMA SampleOfDecisions ==
    ASSUME NEW recs \in SUBSET [status : {"pending", "accepted", "dismissed"}, saving : {5, 7},
                                acceptedVia : {Null, "passed"}]
    PROVE  IsFiniteSet(recs)
<1> DEFINE S == {"pending", "accepted", "dismissed"}
           V == {Null, "passed"}
           P == (S \X {5, 7}) \X V
           f == [p \in P |-> [status |-> p[1][1], saving |-> p[1][2], acceptedVia |-> p[2]]]
           all == [status : S, saving : {5, 7}, acceptedVia : V]
<1>1. IsFiniteSet(S) /\ IsFiniteSet({5, 7}) /\ IsFiniteSet(V)
  <2>1. /\ S = {"pending", "accepted", "dismissed", "dismissed", "dismissed"}
        /\ {5, 7} = {5, 7, 7, 7, 7} /\ V = {Null, "passed", "passed", "passed", "passed"}
      OBVIOUS
  <2> HIDE DEF S, V
  <2>2. /\ IsFiniteSet({"pending", "accepted", "dismissed", "dismissed", "dismissed"})
        /\ IsFiniteSet({5, 7, 7, 7, 7}) /\ IsFiniteSet({Null, "passed", "passed", "passed", "passed"})
      BY Zenon, FewAreFinite
  <2>3. QED
      BY Zenon, <2>1, <2>2
<1> HIDE DEF S, V
<1>2. IsFiniteSet(P)
    BY <1>1, FS_Product
<1>3. ASSUME NEW r \in all PROVE \E p \in P : f[p] = r
  <2>1. <<<<r.status, r.saving>>, r.acceptedVia>> \in P
      OBVIOUS
  <2>2. f[<<<<r.status, r.saving>>, r.acceptedVia>>] = r
      BY <2>1
  <2>3. QED
      BY <2>1, <2>2
<1>4. all \subseteq {f[p] : p \in P}
    BY <1>3
<1> HIDE DEF f, P, all
<1>5. IsFiniteSet({f[p] : p \in P})
    BY <1>2, ImageIsFinite
<1>6. recs \subseteq all
    BY DEF all, S, V
<1>7. QED
    BY <1>4, <1>5, <1>6, FS_Subset

LEMMA SampleOfTraffic ==
    ASSUME NEW groups \in SUBSET SomeTraffic
    PROVE  IsTraffic(groups)
<1>1. IsFiniteSet(SomeTraffic)
  <2> DEFINE five == {TrafficOf("a1", "chat", "premium", 2, 5), TrafficOf("a2", "chat", "premium", 1, 4),
                      TrafficOf("unknown", "chat", "premium", 3, 9), TrafficOf("a2", "code", "premium", 2, 1),
                      TrafficOf("a1", "code", "premium", 1, 6)}
             rest == {TrafficOf("a1", "chat", "alone", 4, 9), TrafficOf("a2", "chat", "light", 5, 5),
                      TrafficOf("a3", "chat", "premium", 2, 1), TrafficOf("a3", "chat", "premium", 2, 1),
                      TrafficOf("a3", "chat", "premium", 2, 1)}
  <2>1. IsFiniteSet(five)
      BY FewAreFinite
  <2>2. IsFiniteSet(rest)
      BY FewAreFinite
  <2>3. SomeTraffic = five \cup rest
      BY DEF SomeTraffic
  <2> HIDE DEF five, rest
  <2>4. QED
      BY <2>1, <2>2, <2>3, FS_Union
<1>2. \A g \in SomeTraffic : g.requests \in Nat /\ g.tokens \in Int /\ g.cost \in Int
    BY DEF SomeTraffic, TrafficOf
<1>3. \A g, h \in SomeTraffic :
        (g.application = h.application /\ g.taskType = h.taskType /\ g.model = h.model) => g = h
    BY DEF SomeTraffic, TrafficOf
<1>4. QED
    BY <1>1, <1>2, <1>3, FS_Subset DEF IsTraffic

LEMMA SampleOfRuns ==
    /\ \A x, y \in SomeItems : <<x, y>> \in RunsOfItems
    /\ SomeRuns \subseteq RunsOfItems
    /\ Even \in SomeItems /\ Failed \in SomeItems
<1>1. SomeItems \subseteq {Failed} \cup Replayable
  <2> DEFINE rest == {Even, Plain(Unjudged, "normal"), Item("better", "normal", FALSE, FALSE, 5, 0),
                       Item("equal", "normal", TRUE, TRUE, 5, 0), Item("better", "normal", FALSE, TRUE, 12, 0),
                       Item("better", "normal", FALSE, TRUE, 5, 500)}
  <2>1. \A v \in {"better", "equal", "worse", Unjudged}, s \in {"trivial", "normal", "critical"} :
           Plain(v, s) \in Replayable
      BY DEF Plain, Item, Replayable
  <2>2. Plains \subseteq Replayable
    <3>1. \A v \in {"better", "equal", "worse"}, s \in {"trivial", "normal", "critical"} : Plain(v, s) \in Replayable
        BY <2>1
    <3>2. QED
        BY <3>1 DEF Plains
  <2>3. rest \subseteq Replayable
    <3>1. Even \in Replayable /\ Plain(Unjudged, "normal") \in Replayable
        BY <2>1 DEF Even
    <3>2. Item("better", "normal", FALSE, FALSE, 5, 0) \in Replayable
        BY DEF Item, Replayable
    <3>3. Item("equal", "normal", TRUE, TRUE, 5, 0) \in Replayable
        BY DEF Item, Replayable
    <3>4. Item("better", "normal", FALSE, TRUE, 12, 0) \in Replayable
        BY DEF Item, Replayable
    <3>5. Item("better", "normal", FALSE, TRUE, 5, 500) \in Replayable
        BY DEF Item, Replayable
    <3>6. QED
        BY <3>1, <3>2, <3>3, <3>4, <3>5
  <2>4. SomeItems = Plains \cup ({Failed} \cup rest)
      BY DEF SomeItems
  <2> HIDE DEF rest
  <2>5. QED
      BY <2>2, <2>3, <2>4
<1>2. \A X, Y : X \subseteq Y => (\A n \in Nat : [1 .. n -> X] \subseteq Seq(Y)) /\ \A x, y \in X : <<x, y>> \in Seq(Y)
    OBVIOUS
<1>3. SomeRuns \subseteq RunsOfItems
  <2>1. \A n \in 0 .. 2 : [1 .. n -> SomeItems] \subseteq RunsOfItems
      BY <1>1, <1>2 DEF RunsOfItems
  <2>2. QED
      BY <2>1 DEF SomeRuns
<1>4. \A x, y \in SomeItems : <<x, y>> \in RunsOfItems
    BY <1>1, <1>2 DEF RunsOfItems
<1>5. Even \in SomeItems /\ Failed \in SomeItems
    BY DEF SomeItems
<1>6. QED
    BY <1>3, <1>4, <1>5

LEMMA ScoresAreSound == ScoringIsSound
<1>1. PassIsEarned
    BY SampleOfRuns, PassAlwaysEarned DEF PassIsEarned
<1>2. BetterNeverHurts
  <2>1. Lenient.maxWorse \in Int
      BY DEF Lenient, Limits
  <2>2. QED
      BY <2>1, SampleOfRuns, BetterNeverHurtsAny DEF BetterNeverHurts
<1>3. RankIsFair
  <2>1. ASSUME NEW a \in SomePriced PROVE IsPriced(a)
    <3>1. PICK s \in SomeScores, cost \in {0, 1, 3} : a = EfficiencyOf(s, cost)
        BY DEF SomePriced
    <3>2. PICK x \in SomeItems, y \in SomeItems : s = Aggregate(<<x, y>>)
      <4> DEFINE A(x, y) == Aggregate(<<x, y>>)
      <4>1. s \in {A(x, y) : x \in SomeItems, y \in {Even, Failed}}
          BY <3>1 DEF SomeScores
      <4> HIDE DEF A
      <4>2. PICK x \in SomeItems, y \in {Even, Failed} : s = A(x, y)
          BY <4>1
      <4>3. y \in SomeItems
          BY <4>2, SampleOfRuns
      <4>4. QED
          BY <4>2, <4>3 DEF A
    <3>3. <<x, y>> \in RunsOfItems /\ cost \in Nat
        BY <3>1, <3>2, SampleOfRuns
    <3>4. IsPriced(EfficiencyOf(Aggregate(<<x, y>>), cost))
        BY <3>3, PricedRun
    <3>5. QED
        BY <3>1, <3>2, <3>4
  <2>2. QED
      BY <2>1, PricedRankFairly DEF RankIsFair
<1>4. BiasIsOfPlaces
  <2>1. \A n \in 0 .. 3 : n \in Nat
      OBVIOUS
  <2>2. QED
      BY <2>1, BiasAlwaysOfPlaces DEF BiasIsOfPlaces
<1>5. SampleIsFair
  <2>1. ASSUME NEW n \in 0 .. 4, NEW target \in 1 .. 3,
               NEW records \in [1 .. n -> [stratum : {"a", "b"}, prompt : 1 .. 3]]
        PROVE  FairSample(records, target)
    <3>1. n \in Nat /\ target \in Nat /\ DOMAIN records = 1 .. n
        OBVIOUS
    <3>2. QED
        BY <3>1, SampleAlwaysFair
  <2>2. QED
      BY <2>1 DEF SampleIsFair
<1>6. QED
    BY <1>1, <1>2, <1>3, <1>4, <1>5 DEF ScoringIsSound

LEMMA ViewsAgreeAll == AnalyticsAgree
<1>1. DecisionsAddUp
  <2>1. ASSUME NEW recs \in SUBSET [status : {"pending", "accepted", "dismissed"}, saving : {5, 7},
                                    acceptedVia : {Null, "passed"}]
        PROVE  DecidedUnderOne(recs)
    <3>1. \A r \in recs : r.saving \in Int /\ r.acceptedVia \in Trusts \cup {Null}
        BY DEF Trusts
    <3>2. QED
        BY <3>1, SampleOfDecisions, DecisionsAlwaysAddUp
  <2>2. QED
      BY <2>1 DEF DecisionsAddUp
<1>2. \A log \in SampleLogs : IsLog(log)
    BY SampleOfLogs DEF IsStored
<1>3. ViewsReconcile
    BY <1>2, SampleOfFilters, ViewsAlwaysReconcile DEF ViewsReconcile
<1>4. SavingsAddUp
    BY <1>2, SampleOfFilters, SavingsAlwaysAddUp DEF SavingsAddUp
<1>5. EstimateIsShown
    BY EstimatesAlwaysShown DEF EstimateIsShown
<1>6. BackfillMovesOnly
    BY SampleOfLogs, BackfillAlwaysMoves DEF BackfillMovesOnly
<1>7. NewAreUnseen
  <2>1. ASSUME NEW log \in SampleLogs, NEW keys, keys = {"a1", "a3", Null}
        PROVE  LET f == Facets(log, keys) IN
               /\ f.newApplications \cap DOMAIN GroupBy(log, "application", Unfiltered) = {}
               /\ f.applications = DOMAIN GroupBy(log, "application", Unfiltered)
      BY NewAreUnseenIn
  <2>2. QED
      BY <2>1 DEF NewAreUnseen
<1>8. QED
    BY <1>1, <1>3, <1>4, <1>5, <1>6, <1>7 DEF AnalyticsAgree

\* Whatever moves, every figure can be accounted for: FiguresAreSound, of the whole.
THEOREM FiguresAlwaysSound == MCEvalSpec => []FiguresAreSound
<1>1. MCEvalInit => BenchInit /\ ReportInit
    BY DEF MCEvalInit
<1>2. [MCEvalNext]_MCEvalVars => [BenchNext]_BenchVars /\ [ReportNext]_ReportVars
    BY DEF MCEvalNext, MCEvalVars
<1>3. MCEvalSpec => BenchSpec /\ ReportSpec
    BY <1>1, <1>2, PTL DEF MCEvalSpec, BenchSpec, ReportSpec
<1>4. ScoringIsSound /\ AnalyticsAgree /\ PlanFollowsAnalysis
    BY ScoresAreSound, ViewsAgreeAll, SampleOfTraffic, PlanAlwaysFollows DEF PlanFollowsAnalysis
<1>5. (CountIsExplained /\ LeftoversAreLate /\ TextAgesOut /\ YoungStay)
      /\ (RealityWins /\ ViewsAgree /\ EvidenceIsTrue) => FiguresAreSound
    BY <1>4 DEF FiguresAreSound, ReportsAreSound
<1>6. QED
    BY <1>3, <1>5, BenchmarksAlwaysSound, ViewsAlwaysTrue, PTL

\* The invariants of the run of evaluations, of the specification it checks.
THEOREM EvaluationAlwaysSafe ==
    MCEvalSpec => [](EvalTypeOK /\ VerdictsAreEarned /\ FiguresAreSound /\ AcceptedHasRule)
<1>1. MCEvalInit => EvalInit
    BY DEF MCEvalInit
<1>2. [MCEvalNext]_MCEvalVars => [EvalNext]_EvalVars
    BY DEF MCEvalNext, MCEvalVars
<1>3. MCEvalSpec => EvalSpec
    BY <1>1, <1>2, PTL DEF MCEvalSpec, EvalSpec
<1>4. QED
    BY <1>3, EvalTypeCorrect, VerdictsAlwaysEarned, FiguresAlwaysSound, AcceptedAlwaysHasRule, PTL
=============================================================================
