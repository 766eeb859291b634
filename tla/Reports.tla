------------------------------- MODULE Reports -------------------------------
(* What is said of a recommendation: its stage, in the list and in the report of     *)
(* evidence, and its outcome. Nothing of it is stored. A view reads the               *)
(* recommendation first, then what it links to in any order, then for a report the    *)
(* history and the outcome, while routes, workers and monitors go on writing one      *)
(* document at a time. And the analysis of traffic, which has to agree with what is   *)
(* recommended.                                                                        *)
(* src/server/src: recommend/stage.js, recommend/stageBatch.js, recommend/outcome.js, *)
(* recommend/evidenceReport.js, recommend/engine.js, api/routes/recommendations.js.    *)
EXTENDS Analytics

CONSTANT MaxWrites     \* bound on the writes

VARIABLES filed,     \* the documents of one recommendation
          owed,      \* writes that a handler has begun and still has to do
          paper,     \* the view: how far it is and what it has read; for the properties the
                     \* rules on throughout or ever, the entries there were, whether all stood still
          writes     \* writes so far

ReportVars == <<filed, owed, paper, writes>>

Linked == {"run", "campaign", "canary", "rules"}
Canaries == 1..2
Newly == [rec |-> [status |-> "pending", verdict |-> "none", dataset |-> FALSE, run |-> FALSE,
                   campaign |-> FALSE, canary |-> 0],
          run |-> "none", campaign |-> "none",
          canary |-> [c \in Canaries |-> [status |-> "none", by |-> "nobody"]],
          rules |-> [accept |-> "none", promote |-> "none"],
          entries |-> {}]
Judged == [Newly EXCEPT !.rec.dataset = TRUE, !.rec.run = TRUE, !.rec.verdict = "passed", !.run = "passed"]
Running == [Judged EXCEPT !.rec.verdict = "none", !.run = "running"]
Accepted == [Judged EXCEPT !.rec.status = "accepted", !.rules.accept = "off"]
Tried == [Accepted EXCEPT !.rec.canary = 1, !.canary[1].status = "active", !.rec.campaign = TRUE, !.campaign = "active"]
\* Rolled back by hand, with the entry, and resumed.
Resumed == [Tried EXCEPT !.canary[1].by = "hand", !.entries = {1}]
On(docs) == {r \in DOMAIN docs.rules : docs.rules[r] = "on"}

NoPaper == [pc |-> "idle", kind |-> "none", left |-> {}, seen |-> Newly, live |-> FALSE,
            on |-> {}, ever |-> {}, known |-> {}, still |-> TRUE]

ReportInit ==
    /\ \/ /\ filed \in {Newly, Judged, Running, Accepted, Tried, [Tried EXCEPT !.rules.accept = "on"], Resumed}
          /\ owed = {}
       \/ filed = [Tried EXCEPT !.rules.promote = "on"] /\ owed = {<<"promote", 1>>}     \* half promoted
    /\ paper = NoPaper /\ writes = 0

-----------------------------------------------------------------------------
(* The stage: the first of these that is so.                                          *)

\* Mutant: a canary that was rolled back before a rule that is live.
Precedence_CanaryFirst(d) ==
    << <<"dismissed", d.rec.status = "dismissed">>,
       <<"rolled_back", d.rec.canary # 0 /\ d.canary[d.rec.canary].status = "rolled_back">>,
       <<"promoted_live", On(d) # {}>>, <<"opportunity", TRUE>> >>
Precedence(d) ==
    LET canary == IF d.rec.canary = 0 THEN "none" ELSE d.canary[d.rec.canary].status
        campaign == IF d.rec.campaign THEN d.campaign ELSE "none"
        run == IF d.rec.run THEN d.run ELSE "none"
    IN  << <<"dismissed", d.rec.status = "dismissed">>,
           <<"promoted_live", On(d) # {}>>,
           <<"rolled_back", canary = "rolled_back">>,
           <<"canary_running", canary \in {"active", "paused"}>>,
           <<"shadow_running", campaign \in {"active", "paused"}>>,
           <<"accepted_awaiting_enable", d.rec.status = "accepted">>,
           <<"evaluating", run \in {"queued", "running"}>>,
           <<"eval_failed", run = "failed">>,
           <<"ready_for_rollout", run = "passed" \/ d.rec.verdict = "overridden">>,
           <<"dataset_ready", d.rec.dataset>>,
           <<"opportunity", TRUE>> >>
DeriveStage(d) ==
    LET stages == Precedence(d)
    IN  stages[CHOOSE i \in DOMAIN stages : stages[i][2] /\ \A j \in 1..(i - 1) : ~stages[j][2]][1]

-----------------------------------------------------------------------------
(* A view.                                                                             *)

Open(kind) ==
    /\ paper.pc = "idle"
    /\ paper' = [NoPaper EXCEPT !.pc = IF kind = "outcome" THEN "measuring" ELSE "reading", !.kind = kind,
                                !.left = Linked, !.seen.rec = filed.rec, !.on = On(filed), !.ever = On(filed), !.known = filed.entries]
    /\ UNCHANGED <<filed, owed, writes>>

\* One of the queries that were sent together is answered.
Read(what) ==
    /\ paper.pc = "reading" /\ what \in paper.left
    /\ paper' = [paper EXCEPT !.seen[what] = filed[what], !.left = @ \ {what}]
    /\ UNCHANGED <<filed, owed, writes>>

AttachStages ==
    /\ paper.pc = "reading" /\ paper.kind = "list" /\ paper.left = {}
    /\ paper' = [paper EXCEPT !.pc = "done"]
    /\ UNCHANGED <<filed, owed, writes>>

\* The history of the linked ids; then the outcome, if a rule was seen live.
\* Mutant: the history of the recommendation alone.
BuildReport_OwnHistory ==
    /\ paper.pc = "reading" /\ paper.kind = "report" /\ paper.left = {}
    /\ paper' = [paper EXCEPT !.pc = IF On(paper.seen) # {} THEN "measuring" ELSE "done"]
    /\ UNCHANGED <<filed, owed, writes>>
BuildReport ==
    /\ paper.pc = "reading" /\ paper.kind = "report" /\ paper.left = {}
    /\ paper' = [paper EXCEPT !.pc = IF On(paper.seen) # {} THEN "measuring" ELSE "done",
                              !.seen.entries = filed.entries]
    /\ UNCHANGED <<filed, owed, writes>>

\* The rule is looked up once more.
ComputeOutcome ==
    /\ paper.pc = "measuring"
    /\ paper' = [paper EXCEPT !.pc = "done", !.live = On(filed) # {}]
    /\ UNCHANGED <<filed, owed, writes>>

Close == paper.pc = "done" /\ paper' = NoPaper /\ UNCHANGED <<filed, owed, writes>>

\* A rollback without an entry is said to look like that of the monitor.
SaysUnaudited(p) ==
    /\ p.seen.rec.canary # 0 /\ p.seen.canary[p.seen.rec.canary].status = "rolled_back"
    /\ p.seen.rec.canary \notin p.seen.entries

-----------------------------------------------------------------------------
(* The writes of the others, each of one document (Evaluation, CanaryLifecycle and     *)
(* ShadowEval have the handlers they belong to): one run and one campaign at a time, a  *)
(* rule from each way of accepting, two canaries.                                       *)

Write(docs, due) ==
    /\ writes < MaxWrites /\ writes' = writes + 1
    /\ filed' = docs /\ owed' = due
    /\ paper' = IF paper.pc = "idle" THEN paper
                ELSE [paper EXCEPT !.on = @ \cap On(docs), !.ever = @ \cup On(docs), !.still = FALSE]

Now == filed
LinkDataset == ~Now.rec.dataset /\ Write([Now EXCEPT !.rec.dataset = TRUE], owed)
RunLinked ==
    /\ Now.rec.dataset /\ Now.run \notin {"queued", "running"}
    /\ Write([Now EXCEPT !.rec.run = TRUE, !.rec.verdict = "none", !.run = "queued"], owed \ {<<"unlink", 0>>})
\* The verdict is noted after the run is; a run that is cancelled in the queue leaves none.
RunMoves ==
    \/ Now.run = "queued" /\ \E s \in {"running", "cancelled"} : Write([Now EXCEPT !.run = s], owed)
    \/ Now.run = "running" /\ \E s \in {"passed", "failed", "cancelled"} : Write([Now EXCEPT !.run = s], owed \cup {<<s, 0>>})
VerdictSaves(s) ==
    /\ <<s, 0>> \in owed
    /\ Write([Now EXCEPT !.rec.verdict = IF s = "passed" THEN s ELSE "none"], owed \ {<<s, 0>>})
RunDeleted ==
    /\ Now.rec.run /\ Now.run # "none"
    /\ Write([Now EXCEPT !.run = "none"], owed \cup {<<"unlink", 0>>})
RunUnlinked ==
    /\ <<"unlink", 0>> \in owed
    /\ \E kept \in BOOLEAN :
          Write([Now EXCEPT !.rec.run = FALSE, !.rec.verdict = "none", !.rec.dataset = kept], owed \ {<<"unlink", 0>>})
NoteOverride == Now.rec.verdict # "overridden" /\ Write([Now EXCEPT !.rec.verdict = "overridden"], owed)
\* A request to accept, or to try, may bring its own override.
AcceptRule ==
    /\ Now.rules.accept = "none"
    /\ Write([Now EXCEPT !.rules.accept = "off"],
             owed \cup {IF Now.rec.verdict = "passed" THEN <<"accept", 0>> ELSE <<"override", 0>>})
AcceptSaves ==
    \/ <<"accept", 0>> \in owed /\ Write([Now EXCEPT !.rec.status = "accepted"], owed \ {<<"accept", 0>>})
    \/ /\ <<"override", 0>> \in owed
       /\ Write([Now EXCEPT !.rec.status = "accepted", !.rec.verdict = "overridden"], owed \ {<<"override", 0>>})
DismissIt == Now.rec.status # "dismissed" /\ Write([Now EXCEPT !.rec.status = "dismissed"], owed)
SwitchRule(r) ==
    \/ Now.rules[r] = "off" /\ Write([Now EXCEPT !.rules[r] = "on"], owed)
    \/ Now.rules[r] = "on" /\ Write([Now EXCEPT !.rules[r] = "off"], owed)
RuleDeleted(r) == Now.rules[r] # "none" /\ Write([Now EXCEPT !.rules[r] = "none"], owed)
LinkCampaign == ~Now.rec.campaign /\ Write([Now EXCEPT !.rec.campaign = TRUE, !.campaign = "active"], owed)
CampaignMoves ==
    Now.campaign # "none" /\ \E s \in {"active", "paused", "done", "none"} \ {Now.campaign} : Write([Now EXCEPT !.campaign = s], owed)
LinkCanary ==
    /\ Now.rec.canary < 2
    /\ LET c == Now.rec.canary + 1 IN Write([Now EXCEPT !.rec.canary = c, !.canary[c].status = "active"], owed)
PatchCanary(c) ==
    /\ Now.canary[c].status # "none"
    /\ \E s \in {"active", "paused"} \ {Now.canary[c].status} : Write([Now EXCEPT !.canary[c].status = s], owed)
\* By hand: the entry follows the answer, or is lost.
RollBackByHand(c) ==
    /\ Now.canary[c].status # "none"
    /\ Write([Now EXCEPT !.canary[c] = [status |-> "rolled_back", by |-> "hand"]], owed \cup {<<"entry", c>>})
EntryLands(c) ==
    /\ <<"entry", c>> \in owed
    /\ \E done \in {Now.entries, Now.entries \cup {c}} : Write([Now EXCEPT !.entries = done], owed \ {<<"entry", c>>})
MonitorRollsBack(c) ==
    /\ Now.canary[c].status = "active"
    /\ Write([Now EXCEPT !.canary[c] = [status |-> "rolled_back", by |-> "monitor"]], owed)
PromoteRule(c) ==
    /\ Now.canary[c].status \notin {"none", "rolled_back"} /\ Now.rules.promote = "none"
    /\ Write([Now EXCEPT !.rules.promote = "on"], owed \cup {<<"promote", c>>})
PromoteSaves(c) ==
    /\ <<"promote", c>> \in owed
    /\ Write([Now EXCEPT !.canary[c].status = "promoted"], (owed \ {<<"promote", c>>}) \cup {<<"promoted", 0>>})
PromotedSaves ==
    /\ <<"promoted", 0>> \in owed
    /\ Write([Now EXCEPT !.rec.status = "accepted", !.rec.verdict = "passed"], owed \ {<<"promoted", 0>>})

Writes ==
    \/ LinkDataset \/ RunLinked \/ RunMoves \/ RunDeleted \/ RunUnlinked
    \/ \E s \in {"passed", "failed", "cancelled"} : VerdictSaves(s)
    \/ NoteOverride \/ AcceptRule \/ AcceptSaves \/ PromotedSaves \/ DismissIt
    \/ \E r \in DOMAIN Now.rules : SwitchRule(r) \/ RuleDeleted(r)
    \/ LinkCampaign \/ CampaignMoves \/ LinkCanary
    \/ \E c \in Canaries : \/ PatchCanary(c) \/ RollBackByHand(c) \/ EntryLands(c) \/ MonitorRollsBack(c)
                           \/ PromoteRule(c) \/ PromoteSaves(c)
ReportNext ==
    \/ \E kind \in {"list", "report", "outcome"} : Open(kind)
    \/ \E what \in Linked : Read(what)
    \/ AttachStages \/ BuildReport \/ ComputeOutcome \/ Close \/ Writes
ReportSpec == ReportInit /\ [][ReportNext]_ReportVars

-----------------------------------------------------------------------------
(* Properties of the views.                                                            *)

Staged == paper.pc = "done" /\ paper.kind # "outcome"

\* Reality on the wire wins over any stale field (stage.js:59): a recommendation that is
\* not dismissed and has a rule on all the while is said to be live, whatever else its
\* documents say and in whatever order they are read; and none is said to be live that
\* had no rule on at any time.
RealityWins ==
    Staged =>
      /\ (paper.on # {} /\ paper.seen.rec.status # "dismissed") => DeriveStage(paper.seen) = "promoted_live"
      /\ DeriveStage(paper.seen) = "promoted_live" => paper.ever # {}

\* While nothing is written the list and the report say the same stage, and the report
\* has an outcome exactly when a rule is on (stageBatch.js, evidenceReport.js:27-50).
ViewsAgree ==
    (paper.pc = "done" /\ paper.still) =>
      /\ paper.kind # "outcome" => DeriveStage(paper.seen) = DeriveStage(filed)
      /\ paper.kind # "list" => (paper.live <=> On(filed) # {})

\* A report that calls a rule live and has nothing to measure was overtaken by a switch
\* of the rule. A rollback of the monitor is said to have no entry, unless somebody had
\* rolled the same experiment back before; one by hand is not, once its entry is there
\* (evidenceReport.js:71-76).
EvidenceIsTrue ==
    LET c == paper.seen.rec.canary IN
    (paper.pc = "done" /\ paper.kind = "report") =>
      /\ (On(paper.seen) # {} /\ ~paper.live) => paper.on = {}
      /\ (c # 0 /\ paper.seen.canary[c].status = "rolled_back") =>
           /\ (paper.seen.canary[c].by = "monitor" /\ c \notin filed.entries) => SaysUnaudited(paper)
           /\ c \in paper.known => ~SaysUnaudited(paper)

-----------------------------------------------------------------------------
(* What is recommended, and what the analysis says of the same traffic.                *)

MinRequests == 2
LightPrice == 1     \* of the light model, per token
\* A premium model has a lighter one, unless it has none in its family.
SuggestLightTarget == [premium |-> "light", alone |-> "none", light |-> "none"]
IsPremium(m) == m \in {"premium", "alone"}

TrafficOf(application, taskType, model, requests, cost) ==
    [application |-> application, taskType |-> taskType, model |-> model, requests |-> requests,
     tokens |-> requests, cost |-> cost]
\* The groups of one task and model together, as the analysis sees them.
Together(groups) ==
    [requests |-> SumOf(groups, LAMBDA g : g.requests), tokens |-> SumOf(groups, LAMBDA g : g.tokens),
     cost |-> SumOf(groups, LAMBDA g : g.cost)]
Saving(g) == g.cost - LightPrice * g.tokens
Worth(g, m) == /\ IsPremium(m) /\ SuggestLightTarget[m] # "none"
               /\ g.requests >= MinRequests /\ Saving(g) > 0
Pairs(groups) == {<<g.taskType, g.model>> : g \in groups}
GroupsOf(groups, pair) == {g \in groups : <<g.taskType, g.model>> = pair}

\* For each application that clears the bar, or for all together if none does.
\* Mutant: together as well.
PlanFor_Both(groups, pair) ==
    LET own == {g \in GroupsOf(groups, pair) : g.application # "unknown" /\ Worth(g, pair[2])}
    IN  {[scope |-> g.application, requests |-> g.requests] : g \in own}
          \cup (IF Worth(Together(GroupsOf(groups, pair)), pair[2])
                THEN {[scope |-> "any", requests |-> Together(GroupsOf(groups, pair)).requests]} ELSE {})
PlanFor(groups, pair) ==
    LET own == {g \in GroupsOf(groups, pair) : g.application # "unknown" /\ Worth(g, pair[2])}
        all == Together(GroupsOf(groups, pair))
    IN  IF own # {} THEN {[scope |-> g.application, requests |-> g.requests] : g \in own}
        ELSE IF Worth(all, pair[2]) THEN {[scope |-> "any", requests |-> all.requests]} ELSE {}
PlanRecommendations(groups, cheap) == [pair \in {p \in Pairs(groups) : p[1] \in cheap} |-> PlanFor(groups, pair)]

\* What is worth it and not marked cheap is an opportunity.
AnalyzeGroups(groups, cheap) ==
    LET worth == {pair \in Pairs(groups) : Worth(Together(GroupsOf(groups, pair)), pair[2])}
        unmarked == {pair \in worth : pair[1] \notin cheap}
    IN  [flagged |-> worth \ unmarked, unmarked |-> unmarked, suggestMarkCheap |-> {pair[1] : pair \in unmarked}]

SomeTraffic ==
    {TrafficOf("a1", "chat", "premium", 2, 5), TrafficOf("a2", "chat", "premium", 1, 4),
     TrafficOf("unknown", "chat", "premium", 3, 9), TrafficOf("a2", "code", "premium", 2, 1),
     TrafficOf("a1", "code", "premium", 1, 6), TrafficOf("a1", "chat", "alone", 4, 9),
     TrafficOf("a2", "chat", "light", 5, 5), TrafficOf("a3", "chat", "premium", 2, 1)}

\* Everything the analysis counts as recommended is, marking cheap what it suggests
\* brings a recommendation for every opportunity it shows, and no request is counted in
\* two recommendations (engine.js:41-44, 148-180).
PlanFollows(groups, cheap) ==
    LET seen == AnalyzeGroups(groups, cheap)
        next == PlanRecommendations(groups, cheap \cup seen.suggestMarkCheap)
    IN  /\ \A pair \in seen.flagged : PlanRecommendations(groups, cheap)[pair] # {}
        /\ \A pair \in seen.unmarked : pair \in DOMAIN next /\ next[pair] # {}
        /\ \A pair \in DOMAIN next :
              SumOf(next[pair], LAMBDA r : r.requests) <= Together(GroupsOf(groups, pair)).requests
PlanFollowsAnalysis == \A groups \in SUBSET SomeTraffic, cheap \in SUBSET {"chat", "code"} : PlanFollows(groups, cheap)

ReportsAreSound == RealityWins /\ ViewsAgree /\ EvidenceIsTrue /\ PlanFollowsAnalysis
=============================================================================
