------------------------------- MODULE Alerts --------------------------------
(* Webhooks: the notice of a breached cap, sent once per five minutes over   *)
(* all processes by a claim in the store, and the alert of an error rate, sent *)
(* once per half hour by the timer of each process.                            *)
(* src/server/src: routing/notifier.js, models/NotificationDedup.js,           *)
(* routing/errorAlertMonitor.js, routing/capEngine.js.                         *)
EXTENDS Deployment

CONSTANTS Notices,     \* calls of notify() under way
          Checks,      \* checks of the error rate under way in a process
          HalfHour     \* DEDUP_MS, in units of time

ASSUME AlertAssumption == HalfHour \in Nat \ {0}

VARIABLES claim,      \* a NotificationDedup document exists
          notice,     \* notices under way
          sends,      \* history: deliveries tried under the present claim
          arrived,    \* external: the operator's endpoint got the notice
          upright,    \* external: from now on the endpoint and the store answer
          breached,   \* external: the cap is breached and its calls go on coming
          errorCheck, \* checks of the error rate, per process
          since,      \* time since _lastFired of each process
          fired       \* history: alerts of a process within the last half hour

AlertVars == <<claim, notice, sends, arrived, upright, breached, errorCheck, since, fired>>
NoticeVars == <<claim, notice, sends, arrived, upright, breached>>
MonitorVars == <<errorCheck, since, fired>>

AlertInit ==
    /\ claim = FALSE
    /\ notice = [n \in Notices |-> "idle"]
    /\ sends = 0 /\ arrived = FALSE
    /\ upright = FALSE /\ breached = TRUE
    /\ errorCheck = [p \in Processes |-> [c \in Checks |-> "idle"]]
    /\ since = [p \in Processes |-> HalfHour]
    /\ fired = [p \in Processes |-> 0]

-----------------------------------------------------------------------------
(* notify("cap_breach"). *)

\* Every call that finds the cap breached says so.
Breach(n) ==
    /\ breached /\ notice[n] = "idle"
    /\ notice' = [notice EXCEPT ![n] = "claim"]
    /\ UNCHANGED <<claim, sends, arrived, upright, breached, MonitorVars>>

\* Mutant: the claim is looked for, and made a step later.
ClaimNotice_Looks(n) ==
    /\ \/ notice[n] = "claim" /\ notice' = [notice EXCEPT ![n] = IF claim THEN "idle" ELSE "take"]
          /\ UNCHANGED <<claim, sends>>
       \/ notice[n] = "take" /\ notice' = [notice EXCEPT ![n] = "send"]
          /\ claim' = TRUE /\ sends' = IF claim THEN sends ELSE 0
    /\ UNCHANGED <<arrived, upright, breached, MonitorVars>>

\* Mutant: the claim is left to the delivery.
ClaimNotice_Later(n) ==
    /\ notice[n] = "claim"
    /\ notice' = [notice EXCEPT ![n] = IF claim THEN "idle" ELSE "send"]
    /\ sends' = 0
    /\ UNCHANGED <<claim, arrived, upright, breached, MonitorVars>>

\* The unique index admits one document: who inserts it is the sender.
ClaimNotice(n) ==
    /\ notice[n] = "claim"
    /\ notice' = [notice EXCEPT ![n] = IF claim THEN "idle" ELSE "send"]
    /\ claim' = TRUE
    /\ sends' = IF claim THEN sends ELSE 0
    /\ UNCHANGED <<arrived, upright, breached, MonitorVars>>

\* The endpoint answers, or does not within five seconds; the claim stays either way.
Deliver(n) ==
    /\ notice[n] = "send"
    /\ notice' = [notice EXCEPT ![n] = "idle"]
    /\ sends' = IF sends < 2 THEN sends + 1 ELSE sends
    /\ arrived' \in IF upright THEN {TRUE} ELSE {arrived, TRUE}
    /\ UNCHANGED <<claim, upright, breached, MonitorVars>>

\* The store fails, or the process dies with its claim made.
NoticeLost(n) ==
    /\ ~upright /\ notice[n] # "idle"
    /\ notice' = [notice EXCEPT ![n] = "idle"]
    /\ UNCHANGED <<claim, sends, arrived, upright, breached, MonitorVars>>

\* Mutant: the documents have no time to live.
ClaimExpires_Never == claim /\ UNCHANGED AlertVars

\* The TTL index removes the document; a delivery lasts at most five seconds.
ClaimExpires ==
    /\ claim /\ \A n \in Notices : notice[n] # "send"
    /\ claim' = FALSE
    /\ UNCHANGED <<notice, sends, arrived, upright, breached, MonitorVars>>

\* External: the outage ends; the budget is raised or its window is over.
Recovered == ~upright /\ upright' = TRUE /\ UNCHANGED <<claim, notice, sends, arrived, breached, MonitorVars>>
Relieved ==
    /\ \A n \in Notices : notice[n] = "idle"
    /\ breached' = ~breached /\ arrived' = FALSE
    /\ UNCHANGED <<claim, notice, sends, upright, MonitorVars>>

-----------------------------------------------------------------------------
(* check() of the error rate, every five minutes. *)

Watch(p, c) ==
    /\ errorCheck[p][c] = "idle"
    /\ errorCheck' = [errorCheck EXCEPT ![p][c] = "count"]
    /\ UNCHANGED <<since, fired, NoticeVars>>

\* Mutant: whether an alert was sent lately is asked before the records are counted.
JudgeRate_Early(p, c) ==
    /\ errorCheck[p][c] = "count"
    /\ errorCheck' = [errorCheck EXCEPT ![p][c] = "idle"]
    /\ \E over \in BOOLEAN :
          IF over
          THEN since' = [since EXCEPT ![p] = 0] /\ fired' = [fired EXCEPT ![p] = IF @ < 2 THEN @ + 1 ELSE @]
          ELSE UNCHANGED <<since, fired>>
    /\ UNCHANGED NoticeVars

\* The rate of the last hour is over the threshold or not; the last alert is half an
\* hour old or not. The request is not waited for.
JudgeRate(p, c) ==
    /\ errorCheck[p][c] = "count"
    /\ errorCheck' = [errorCheck EXCEPT ![p][c] = "idle"]
    /\ \E over \in BOOLEAN :
          IF over /\ since[p] >= HalfHour
          THEN since' = [since EXCEPT ![p] = 0] /\ fired' = [fired EXCEPT ![p] = IF @ < 2 THEN @ + 1 ELSE @]
          ELSE UNCHANGED <<since, fired>>
    /\ UNCHANGED NoticeVars

FiveMinutes ==
    /\ \E p \in Processes : since[p] < HalfHour
    /\ since' = [p \in Processes |-> IF since[p] < HalfHour THEN since[p] + 1 ELSE HalfHour]
    /\ fired' = [p \in Processes |-> IF since'[p] = HalfHour THEN 0 ELSE fired[p]]
    /\ UNCHANGED <<errorCheck, NoticeVars>>

-----------------------------------------------------------------------------
NoticeStep(n) == ClaimNotice(n) \/ Deliver(n)

AlertNext ==
    \/ \E n \in Notices : Breach(n) \/ NoticeStep(n) \/ NoticeLost(n)
    \/ ClaimExpires \/ Recovered \/ Relieved \/ FiveMinutes
    \/ \E p \in Processes, c \in Checks : Watch(p, c) \/ JudgeRate(p, c)

AlertSpec == AlertInit /\ [][AlertNext]_AlertVars

-----------------------------------------------------------------------------
(* Properties. *)

\* Times and counts stay in range, and only a claim makes a sender.
AlertTypeOK ==
    /\ sends \in 0..2 /\ since \in [Processes -> 0..HalfHour]
    /\ \A n \in Notices : notice[n] = "send" => claim

\* Over all processes one delivery at most is tried under one claim, also by a notice
\* that lost its insert (notifier.js:11-19, 27).
OneDeliveryPerClaim == sends <= 1

\* A process sends one error alert in half an hour at most, also when a check lasts
\* longer than the interval and runs next to the following one (errorAlertMonitor.js:35-37).
OneAlertPerProcess == \A p \in Processes : fired[p] <= 1

\* A cap that stays breached is heard of in the end, although the claim is made before the
\* delivery and survives its failure (notifier.js:27-35).
NoticeArrives == []<>(breached => arrived) \/ []<>~upright

\* Neither a breach nor a high error rate is told more often than once in its window
\* (notifier.js, errorAlertMonitor.js).
AlertsAreFew == OneDeliveryPerClaim /\ OneAlertPerProcess
=============================================================================
