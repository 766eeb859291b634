----------------------------- MODULE ShadowEval ------------------------------
(* Shadow campaigns: after a served request a sampled copy is sent to a      *)
(* candidate model and the pair is judged, within a daily budget and up to a  *)
(* number of candidate errors. Every process caches the active campaign.     *)
(* src/server/src: eval/shadow.js, eval/logic.js, api/routes/shadow.js.      *)
EXTENDS Deployment

CONSTANTS Mirrors,        \* mirrored calls under way
          DailyBudget,    \* maxDailyShadowBudgetUsd, in calls
          ErrorCap        \* maxCandidateErrors

ASSUME ShadowAssumption ==
    /\ IsFiniteSet(Mirrors) /\ Mirrors # {}
    /\ DailyBudget \in Nat /\ ErrorCap \in Nat

VARIABLES camp,      \* the campaign document of an application
          pairs,     \* pairs stored today
          shadowed,  \* the cached answer of each process
          mirror,    \* mirrored calls under way
          passed,    \* the offline run the campaign requires has passed
          gated,     \* history: the gate allowed the campaign to be active
          patch      \* the PATCH of the campaign under way

ShadowVars == <<camp, pairs, shadowed, mirror, passed, gated, patch>>

NoCampaign == [status |-> "none", errors |-> 0]
NotCached == [st |-> "stale", doc |-> NoCampaign]
NoMirror == [pc |-> "idle", at |-> None, doc |-> NoCampaign]
NoPatch == [at |-> None, to |-> "none", was |-> "none"]

ShadowInit ==
    /\ camp = NoCampaign
    /\ pairs = 0
    /\ shadowed = [p \in Processes |-> NotCached]
    /\ mirror = [k \in Mirrors |-> NoMirror]
    /\ passed = FALSE /\ gated = FALSE
    /\ patch = NoPatch

Invalidated(p) == shadowed' = [shadowed EXCEPT ![p] = NotCached]

\* canActivateShadow: the offline run passed, or an administrator overrides.
MayActivate(override) == passed \/ override

-----------------------------------------------------------------------------
(* The console, served by any process, whose own cache it drops. *)

\* POST /eval/campaigns: without the gate's consent the campaign is created paused.
CreateCampaign(p, wanted, override) ==
    /\ camp.status = "none" /\ patch = NoPatch
    /\ camp' = [NoCampaign EXCEPT
                   !.status = IF wanted /\ MayActivate(override) THEN "active" ELSE "paused"]
    /\ gated' = (wanted /\ MayActivate(override))
    /\ Invalidated(p)
    /\ UNCHANGED <<pairs, mirror, passed, patch>>

\* Mutant: the gate is not asked.
StartShadow_Ungated(p, override) ==
    /\ camp.status = "none" /\ patch = NoPatch
    /\ camp' = [NoCampaign EXCEPT !.status = "active"]
    /\ gated' = MayActivate(override)
    /\ Invalidated(p)
    /\ UNCHANGED <<pairs, mirror, passed, patch>>

\* POST /recommendations/:id/start-shadow: refused without the gate's consent.
StartShadow(p, override) ==
    /\ camp.status = "none" /\ patch = NoPatch
    /\ MayActivate(override)
    /\ camp' = [NoCampaign EXCEPT !.status = "active"]
    /\ gated' = TRUE
    /\ Invalidated(p)
    /\ UNCHANGED <<pairs, mirror, passed, patch>>

\* PATCH: what is not active passes the gate again and starts with no errors. The
\* document is read first and written after the gate.
ReadPatch(p, status, override) ==
    /\ camp.status # "none" /\ patch = NoPatch
    /\ status = "active" /\ camp.status # "active" => MayActivate(override)
    /\ patch' = [at |-> p, to |-> status, was |-> camp.status]
    /\ gated' = (gated \/ (status = "active" /\ MayActivate(override)))
    /\ UNCHANGED <<camp, pairs, shadowed, mirror, passed>>

WritePatch ==
    /\ patch # NoPatch
    /\ camp' = IF patch.to = "active" /\ patch.was # "active"
               THEN [camp EXCEPT !.status = patch.to, !.errors = 0]
               ELSE [camp EXCEPT !.status = patch.to]
    /\ Invalidated(patch.at)
    /\ patch' = NoPatch
    /\ UNCHANGED <<pairs, mirror, passed, gated>>

\* DELETE: the campaign and its pairs. Calls under way and the caches of other
\* processes keep a document that is gone.
Gone(doc) == IF doc = NoCampaign THEN doc ELSE [NoCampaign EXCEPT !.status = "gone"]

DeleteCampaign(p) ==
    /\ camp.status # "none" /\ patch = NoPatch
    /\ camp' = NoCampaign /\ gated' = FALSE
    /\ pairs' = 0
    /\ shadowed' = [q \in Processes |-> IF q = p THEN NotCached
                                       ELSE [shadowed[q] EXCEPT !.doc = Gone(shadowed[q].doc)]]
    /\ mirror' = [k \in Mirrors |-> [mirror[k] EXCEPT !.doc = Gone(mirror[k].doc)]]
    /\ UNCHANGED <<passed, patch>>

\* The offline run of the campaign passes, or a human corrects it.
RunCorrected == passed' = ~passed /\ UNCHANGED <<camp, pairs, shadowed, mirror, gated, patch>>

CampaignAdmin ==
    \/ WritePatch
    \/ \E p \in Processes, override \in BOOLEAN :
          \/ \E wanted \in BOOLEAN : CreateCampaign(p, wanted, override)
          \/ StartShadow(p, override)
          \/ \E status \in {"active", "paused", "done"} : ReadPatch(p, status, override)
          \/ DeleteCampaign(p)

-----------------------------------------------------------------------------
(* A mirrored call. *)

Move(k, pc) == mirror' = [mirror EXCEPT ![k].pc = pc]
Quit(k) == mirror' = [mirror EXCEPT ![k] = NoMirror]

\* A request was served by p: a fresh answer is used, and with no campaign in it
\* nothing is mirrored.
Mirror(k, p) ==
    /\ mirror[k] = NoMirror
    /\ shadowed[p].st = "fresh" /\ shadowed[p].doc # NoCampaign
    /\ mirror' = [mirror EXCEPT ![k] = [pc |-> "budget", at |-> p, doc |-> shadowed[p].doc]]
    /\ UNCHANGED <<camp, pairs, shadowed, passed, gated, patch>>

\* A stale answer: the active campaign is looked up, in vain if the store fails ...
Lookup(k, p) ==
    /\ mirror[k] = NoMirror /\ shadowed[p].st = "stale"
    /\ \E doc \in {NoCampaign, IF camp.status = "active" THEN camp ELSE NoCampaign} :
          mirror' = [mirror EXCEPT ![k] = [pc |-> "keep", at |-> p, doc |-> doc]]
    /\ UNCHANGED <<camp, pairs, shadowed, passed, gated, patch>>

\* ... and kept for 30 seconds, whatever was invalidated since.
Keep(k) ==
    LET m == mirror[k]
    IN /\ m.pc = "keep"
       /\ shadowed' = [shadowed EXCEPT ![m.at] = [st |-> "fresh", doc |-> m.doc]]
       /\ IF m.doc = NoCampaign THEN Quit(k) ELSE Move(k, "budget")
       /\ UNCHANGED <<camp, pairs, passed, gated, patch>>

\* Outside the window, out of scope, not single-shot, not sampled, or the candidate
\* is not live or is the model that served.
Unsampled(k) ==
    /\ mirror[k].pc = "budget" /\ Quit(k)
    /\ UNCHANGED <<camp, pairs, shadowed, passed, gated, patch>>

\* Mutant: the day's spend may reach the budget and one pair more.
CheckSpend_Strict(k) ==
    /\ mirror[k].pc = "budget"
    /\ IF mirror[k].doc.status # "gone" /\ pairs > DailyBudget THEN Quit(k) ELSE Move(k, "call")
    /\ UNCHANGED <<camp, pairs, shadowed, passed, gated, patch>>

\* Today's spend of the stored pairs is compared with the budget.
CheckSpend(k) ==
    /\ mirror[k].pc = "budget"
    /\ IF mirror[k].doc.status # "gone" /\ pairs >= DailyBudget THEN Quit(k) ELSE Move(k, "call")
    /\ UNCHANGED <<camp, pairs, shadowed, passed, gated, patch>>

\* Mutant: the campaign is paused by the name of its error.
CandidateFails_Misspelt(k) ==
    LET m == mirror[k]  n == m.doc.errors + 1
    IN /\ m.pc = "call"
       /\ camp' = IF m.doc.status = "gone" THEN camp
                  ELSE [camp EXCEPT !.errors = n,
                           !.status = IF n >= ErrorCap THEN "errored" ELSE camp.status]
       /\ Invalidated(m.at)
       /\ Quit(k)
       /\ UNCHANGED <<pairs, passed, gated, patch>>

\* The candidate failed: the errors of the document this call holds, plus one, are
\* written, and at the cap the campaign is paused.
CandidateFails(k) ==
    LET m == mirror[k]  n == m.doc.errors + 1
    IN /\ m.pc = "call"
       /\ camp' = IF m.doc.status = "gone" THEN camp
                  ELSE [camp EXCEPT !.errors = IF n > ErrorCap THEN ErrorCap ELSE n,
                           !.status = IF n >= ErrorCap THEN "paused" ELSE camp.status]
       /\ Invalidated(m.at)
       /\ Quit(k)
       /\ UNCHANGED <<pairs, passed, gated, patch>>

CandidateAnswers(k) ==
    /\ mirror[k].pc = "call"
    /\ Move(k, "save")
    /\ UNCHANGED <<camp, pairs, shadowed, passed, gated, patch>>

\* The pair is stored, judged or not; or storing it fails, and its cost is lost.
SavePair(k) ==
    /\ mirror[k].pc = "save"
    /\ pairs' = IF mirror[k].doc.status = "gone" THEN pairs ELSE pairs + 1
    /\ Quit(k) \/ Move(k, "notify")
    /\ UNCHANGED <<camp, shadowed, passed, gated, patch>>

PairLost(k) ==
    /\ mirror[k].pc = "save"
    /\ Quit(k)
    /\ UNCHANGED <<camp, pairs, shadowed, passed, gated, patch>>

\* Enough pairs and few enough losses: the webhook, then a save of the document
\* this call holds that writes notifiedAt and nothing else.
Notify(k) ==
    /\ mirror[k].pc = "notify"
    /\ Quit(k)
    /\ UNCHANGED <<camp, pairs, shadowed, passed, gated, patch>>

MirrorStep(k) ==
    \/ Keep(k) \/ Unsampled(k) \/ CheckSpend(k) \/ CandidateFails(k) \/ CandidateAnswers(k)
    \/ SavePair(k) \/ PairLost(k) \/ Notify(k)

\* Mutant: the cached answer never gets stale by itself.
StaleCampaign_Never(p) == shadowed[p].st = "gone" /\ UNCHANGED ShadowVars

StaleCampaign(p) ==
    /\ shadowed[p].st = "fresh"
    /\ Invalidated(p)
    /\ UNCHANGED <<camp, pairs, mirror, passed, gated, patch>>

\* UTC midnight, with no call in the air.
Midnight ==
    /\ \A k \in Mirrors : mirror[k] = NoMirror
    /\ pairs > 0 /\ pairs' = 0
    /\ UNCHANGED <<camp, shadowed, mirror, passed, gated, patch>>

ShadowNext ==
    \/ CampaignAdmin \/ RunCorrected \/ Midnight
    \/ \E p \in Processes : StaleCampaign(p) \/ \E k \in Mirrors : Mirror(k, p) \/ Lookup(k, p)
    \/ \E k \in Mirrors : MirrorStep(k)

ShadowSpec == ShadowInit /\ [][ShadowNext]_ShadowVars

-----------------------------------------------------------------------------
(* Properties. *)

\* A campaign has a status of the schema, and what processes hold is a campaign
\* that was active, or gone, when they looked.
ShadowTypeOK ==
    /\ camp.status \in {"none", "active", "paused", "done"}
    /\ camp.errors \in 0..ErrorCap
    /\ pairs \in Nat
    /\ \A k \in Mirrors : mirror[k].doc.status \in {"none", "active", "gone"}
    /\ \A p \in Processes : shadowed[p].doc.status \in {"none", "active", "gone"}

\* The stored spend of a day exceeds its budget by less than one pair per call under
\* way, in any number of processes (shadow.js:108 compares, 141 stores).
ShadowSpendBounded == pairs < DailyBudget + Cardinality(Mirrors)

\* A campaign is active only if the gate allowed it since it was created: neither a
\* late error, nor a notification, nor a PATCH that read an older status makes it so
\* (routes/shadow.js:46-47, 95-96, 132-138).
ActiveWasGated == camp.status = "active" => gated

\* Shadow evaluation spends within its budgets, and only for campaigns that were gated.
CampaignsAreBounded == ShadowSpendBounded /\ ActiveWasGated

\* When a campaign is stopped for good, its candidate is not called any more in any
\* process, although each keeps what it looked up before (shadow.js:30-38).
StoppedIsStopped ==
    <>[](camp.status # "active") => <>[](\A k \in Mirrors : mirror[k].pc # "call")
=============================================================================
