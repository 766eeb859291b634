--------------------------- MODULE ControlProofs ----------------------------
(***************************************************************************)
(* Proofs about the components behind the dashboard and the life of a      *)
(* process, for any deployment.                                            *)
(***************************************************************************)
EXTENDS MCControl, FiniteSums, FiniteSetTheorems, TLAPS

-----------------------------------------------------------------------------
(* Alerts. *)

\* One notice at most is on its way, and nothing has been sent under its claim yet.
OneSender ==
    /\ notice \in [Notices -> {"idle", "claim", "send"}]
    /\ \A n \in Notices : notice[n] = "send" => claim /\ sends = 0
    /\ \A m, n \in Notices : notice[m] = "send" /\ notice[n] = "send" => m = n
    /\ sends \in 0..1

\* A process has fired at most once since it fired last, and not at all when that is
\* half an hour ago.
OnceInHalfAnHour ==
    /\ since \in [Processes -> 0..HalfHour] /\ fired \in [Processes -> 0..1]
    /\ \A p \in Processes : since[p] = HalfHour => fired[p] = 0

AlertInvariant == OneSender /\ OnceInHalfAnHour

LEMMA AlertInitial == AlertInit => AlertInvariant
BY AlertAssumption DEF AlertInit, AlertInvariant, OneSender, OnceInHalfAnHour

\* What is done with a notice leaves the monitor alone.
LEMMA NoticesKeep ==
    ASSUME OneSender,
           \/ \E n \in Notices : Breach(n) \/ NoticeStep(n) \/ NoticeLost(n)
           \/ ClaimExpires \/ Recovered \/ Relieved
    PROVE  OneSender' /\ UNCHANGED <<since, fired>>
<1>1. ASSUME NEW n \in Notices, Breach(n) PROVE OneSender' /\ UNCHANGED <<since, fired>>
    BY <1>1 DEF Breach, MonitorVars, OneSender
<1>2. ASSUME NEW n \in Notices, ClaimNotice(n) PROVE OneSender' /\ UNCHANGED <<since, fired>>
    <2>1. CASE claim
        BY <1>2, <2>1 DEF ClaimNotice, MonitorVars, OneSender
    <2>2. CASE ~claim
        <3>1. \A m \in Notices : notice[m] # "send"
            BY <2>2 DEF OneSender
        <3>2. notice' = [notice EXCEPT ![n] = "send"] /\ claim' /\ sends' = 0
            BY <1>2, <2>2 DEF ClaimNotice
        <3>3. QED
            BY <1>2, <3>1, <3>2 DEF ClaimNotice, MonitorVars, OneSender
    <2>3. QED
        BY <2>1, <2>2
<1>3. ASSUME NEW n \in Notices, Deliver(n) PROVE OneSender' /\ UNCHANGED <<since, fired>>
    <2>1. notice[n] = "send" /\ sends' = 1 /\ claim' = claim
        BY <1>3 DEF Deliver, OneSender
    <2>2. notice' = [notice EXCEPT ![n] = "idle"]
        BY <1>3 DEF Deliver
    <2>3. \A m \in Notices : notice'[m] # "send"
        BY <2>1, <2>2 DEF OneSender
    <2>4. QED
        BY <1>3, <2>1, <2>2, <2>3 DEF Deliver, MonitorVars, OneSender
<1>4. ASSUME NEW n \in Notices, NoticeLost(n) PROVE OneSender' /\ UNCHANGED <<since, fired>>
    BY <1>4 DEF NoticeLost, MonitorVars, OneSender
<1>5. CASE ClaimExpires
    BY <1>5 DEF ClaimExpires, MonitorVars, OneSender
<1>6. CASE Recovered \/ Relieved
    BY <1>6 DEF Recovered, Relieved, MonitorVars, OneSender
<1>7. QED
    BY <1>1, <1>2, <1>3, <1>4, <1>5, <1>6 DEF NoticeStep

\* The monitor of a process fires when the last alert is old, and only then.
LEMMA JudgeKeeps ==
    ASSUME OnceInHalfAnHour, NEW p \in Processes, NEW c \in Checks, JudgeRate(p, c)
    PROVE  OnceInHalfAnHour'
<1>1. CASE UNCHANGED <<since, fired>>
    BY <1>1 DEF OnceInHalfAnHour
<1>2. CASE since[p] >= HalfHour /\ since' = [since EXCEPT ![p] = 0]
           /\ fired' = [fired EXCEPT ![p] = IF fired[p] < 2 THEN fired[p] + 1 ELSE fired[p]]
    <2>1. fired[p] = 0
        BY <1>2, AlertAssumption DEF OnceInHalfAnHour
    <2>2. fired' = [fired EXCEPT ![p] = 1]
        BY <1>2, <2>1
    <2>3. QED
        BY <1>2, <2>2, AlertAssumption DEF OnceInHalfAnHour
<1>3. QED
    BY <1>1, <1>2 DEF JudgeRate

LEMMA FiveMinutesKeeps ==
    ASSUME OnceInHalfAnHour, FiveMinutes
    PROVE  OnceInHalfAnHour'
<1>1. since' = [p \in Processes |-> IF since[p] < HalfHour THEN since[p] + 1 ELSE HalfHour]
    BY DEF FiveMinutes
<1>2. since' \in [Processes -> 0..HalfHour]
    BY <1>1, AlertAssumption DEF OnceInHalfAnHour
<1>3. fired' = [p \in Processes |-> IF since'[p] = HalfHour THEN 0 ELSE fired[p]]
    BY DEF FiveMinutes
<1>4. QED
    BY <1>2, <1>3 DEF OnceInHalfAnHour

LEMMA AlertStep == AlertInvariant /\ [AlertNext]_AlertVars => AlertInvariant'
<1> SUFFICES ASSUME AlertInvariant, [AlertNext]_AlertVars PROVE AlertInvariant'
    OBVIOUS
<1>1. OneSender /\ OnceInHalfAnHour
    BY DEF AlertInvariant
<1>2. CASE UNCHANGED AlertVars
    BY <1>1, <1>2 DEF AlertVars, AlertInvariant, OneSender, OnceInHalfAnHour
<1>3. CASE \/ \E n \in Notices : Breach(n) \/ NoticeStep(n) \/ NoticeLost(n)
           \/ ClaimExpires \/ Recovered \/ Relieved
    <2>1. OneSender' /\ UNCHANGED <<since, fired>>
        BY <1>1, <1>3, NoticesKeep
    <2>2. QED
        BY <1>1, <2>1 DEF AlertInvariant, OnceInHalfAnHour
<1>4. ASSUME NEW p \in Processes, NEW c \in Checks, Watch(p, c) PROVE AlertInvariant'
    BY <1>1, <1>4 DEF Watch, NoticeVars, AlertInvariant, OneSender, OnceInHalfAnHour
<1>5. ASSUME NEW p \in Processes, NEW c \in Checks, JudgeRate(p, c) PROVE AlertInvariant'
    <2>1. OnceInHalfAnHour'
        BY <1>1, <1>5, JudgeKeeps
    <2>2. QED
        BY <1>1, <1>5, <2>1 DEF JudgeRate, NoticeVars, AlertInvariant, OneSender
<1>6. CASE FiveMinutes
    <2>1. OnceInHalfAnHour'
        BY <1>1, <1>6, FiveMinutesKeeps
    <2>2. QED
        BY <1>1, <1>6, <2>1 DEF FiveMinutes, NoticeVars, AlertInvariant, OneSender
<1>7. QED
    BY <1>2, <1>3, <1>4, <1>5, <1>6 DEF AlertNext

\* For any number of processes, notices and checks, and any length of the window.
THEOREM AlertsAlwaysFew == AlertSpec => []AlertsAreFew
<1>1. AlertInvariant => AlertsAreFew
    BY DEF AlertInvariant, OneSender, OnceInHalfAnHour, AlertsAreFew, OneDeliveryPerClaim,
           OneAlertPerProcess
<1>2. QED
    BY <1>1, AlertInitial, AlertStep, PTL DEF AlertSpec

-----------------------------------------------------------------------------
(* The display currency. *)

Labels == Currencies \cup {"USD"}
RateDocument == [currency : Labels, rate : Labels, dated : BOOLEAN]
Steps == [pc : {"reset", "refresh", "fetch"}, doc : RateDocument, to : Labels]

FxTypes ==
    /\ money \in RateDocument /\ crossed \in BOOLEAN
    /\ fetch \in [Fetches -> {NoFetch} \cup Steps]

\* A switch or a refresh that nothing has overlapped knows the stored settings: it reads
\* them when it begins, and nobody else writes them.
OneAtATime ==
    /\ \A f, g \in Fetches : fetch[f] # NoFetch /\ fetch[g] # NoFetch => f = g
    /\ \A f \in Fetches : /\ fetch[f].pc = "reset" => fetch[f].doc = money
                          /\ fetch[f].pc = "fetch" => fetch[f].to = money.currency
    /\ RateFits

FxInvariant == FxTypes /\ (~crossed => OneAtATime)

LEMMA FxInitial == FxInit => FxInvariant
<1> SUFFICES ASSUME FxInit PROVE FxInvariant
    OBVIOUS
<1>1. FxTypes
    BY DEF FxInit, FxTypes, RateDocument, Labels, Dollars
<1>2. OneAtATime
    BY DEF FxInit, OneAtATime, RateFits, Dollars, NoFetch
<1>3. QED
    BY <1>1, <1>2 DEF FxInvariant

\* Whoever steps without being crossed is alone, before and after.
LEMMA AloneStays ==
    ASSUME FxInvariant, NEW f \in Fetches, NEW new, FetchAt(f, new), ~crossed'
    PROVE  /\ OneAtATime
           /\ \A g \in Fetches \ {f} : fetch[g] = NoFetch /\ fetch'[g] = NoFetch
           /\ \A g, h \in Fetches : fetch'[g] # NoFetch /\ fetch'[h] # NoFetch => g = h
           /\ fetch'[f] = new
<1>1. ~crossed /\ \A g \in Fetches \ {f} : fetch[g] = NoFetch
    BY DEF FetchAt
<1>2. fetch' = [fetch EXCEPT ![f] = new]
    BY DEF FetchAt
<1>3. QED
    BY <1>1, <1>2 DEF FxInvariant, FxTypes

\* A step keeps the types if what it leaves has them.
LEMMA TypesStay ==
    ASSUME FxTypes, NEW f \in Fetches, NEW new \in {NoFetch} \cup Steps, FetchAt(f, new),
           money' \in RateDocument
    PROVE  FxTypes'
BY DEF FxTypes, FetchAt

LEMMA SwitchKeeps ==
    ASSUME FxInvariant, NEW f \in Fetches, NEW c \in Labels, Switch(f, c)
    PROVE  FxInvariant'
<1> DEFINE new == [pc |-> "reset", doc |-> money, to |-> c]
<1>1. FetchAt(f, new) /\ money' = money /\ new \in Steps
    BY DEF Switch, FxInvariant, FxTypes, Steps
<1>2. new.pc = "reset" /\ new.doc = money
    OBVIOUS
<1> HIDE DEF new
<1>3. FxTypes'
    BY <1>1, TypesStay DEF FxInvariant, FxTypes
<1>4. ASSUME ~crossed' PROVE OneAtATime'
    BY <1>1, <1>2, <1>4, AloneStays DEF OneAtATime, RateFits, NoFetch
<1>5. QED
    BY <1>3, <1>4 DEF FxInvariant

LEMMA ResetKeeps ==
    ASSUME FxInvariant, NEW f \in Fetches, Reset(f)
    PROVE  FxInvariant'
<1> DEFINE new == [fetch[f] EXCEPT !.pc = "refresh"]
           changed == [currency |-> fetch[f].to, rate |-> "USD", dated |-> FALSE]
<1>1. FetchAt(f, new) /\ money' = Saved(money, fetch[f].doc, changed) /\ fetch[f] \in Steps
    BY DEF Reset, FxInvariant, FxTypes, NoFetch
<1>2. new \in Steps /\ new.pc = "refresh" /\ changed \in RateDocument
    BY <1>1 DEF Steps, RateDocument, Labels
<1> HIDE DEF new
<1>3. /\ money' \in RateDocument
      /\ money'.dated = IF FALSE # fetch[f].doc.dated THEN FALSE ELSE money.dated
    BY <1>1, <1>2 DEF Saved, FxInvariant, FxTypes, RateDocument, Labels
<1> HIDE DEF changed
<1>4. FxTypes'
    BY <1>1, <1>2, <1>3, TypesStay DEF FxInvariant
<1>5. ASSUME ~crossed' PROVE OneAtATime'
    <2>1. fetch[f].doc = money
        BY <1>1, <1>5, AloneStays DEF OneAtATime, Reset
    <2>2. ~money'.dated
        BY <1>3, <2>1 DEF FxInvariant, FxTypes, RateDocument
    <2>3. QED
        BY <1>1, <1>2, <1>5, <2>2, AloneStays DEF OneAtATime, RateFits, NoFetch
<1>6. QED
    BY <1>4, <1>5 DEF FxInvariant

LEMMA RefreshKeeps ==
    ASSUME FxInvariant, NEW f \in Fetches, Refresh(f)
    PROVE  FxInvariant'
<1> DEFINE asking == [pc |-> "fetch", doc |-> money, to |-> money.currency]
<1>1. asking \in Steps /\ asking.pc = "fetch" /\ asking.to = money.currency /\ money' = money
    BY DEF Refresh, FxInvariant, FxTypes, Steps, RateDocument
<1>2. PICK new \in {NoFetch, asking} : FetchAt(f, new)
    BY DEF Refresh
<1> HIDE DEF asking
<1>3. FxTypes'
    BY <1>1, <1>2, TypesStay DEF FxInvariant, FxTypes
<1>4. ASSUME ~crossed' PROVE OneAtATime'
    <2>1. new.pc # "reset" /\ (new.pc = "fetch" => new.to = money.currency)
        BY <1>1, <1>2 DEF NoFetch
    <2>2. QED
        BY <1>1, <1>2, <1>4, <2>1, AloneStays DEF OneAtATime, RateFits, NoFetch
<1>5. QED
    BY <1>3, <1>4 DEF FxInvariant

LEMMA FetchedKeeps ==
    ASSUME FxInvariant, NEW f \in Fetches, Store(f)
    PROVE  FxInvariant'
<1>1. /\ FetchAt(f, NoFetch) /\ fetch[f] \in Steps
      /\ money' = [money EXCEPT !.rate = fetch[f].to, !.dated = TRUE]
    BY DEF Store, FxInvariant, FxTypes, NoFetch
<1>2. money' \in RateDocument /\ money'.rate = fetch[f].to /\ money'.currency = money.currency
    BY <1>1 DEF FxInvariant, FxTypes, RateDocument, Steps
<1>3. FxTypes'
    BY <1>1, <1>2, TypesStay DEF FxInvariant
<1>4. ASSUME ~crossed' PROVE OneAtATime'
    <2>1. fetch[f].to = money.currency
        BY <1>1, <1>4, AloneStays DEF OneAtATime, Store
    <2>2. QED
        BY <1>1, <1>2, <1>4, <2>1, AloneStays DEF OneAtATime, RateFits, NoFetch
<1>5. QED
    BY <1>3, <1>4 DEF FxInvariant

LEMMA FailKeeps ==
    ASSUME FxInvariant, NEW f \in Fetches, FetchFails(f)
    PROVE  FxInvariant'
<1>1. FetchAt(f, NoFetch) /\ money' = money
    BY DEF FetchFails
<1>2. FxTypes'
    BY <1>1, TypesStay DEF FxInvariant, FxTypes
<1>3. ASSUME ~crossed' PROVE OneAtATime'
    BY <1>1, <1>3, AloneStays DEF OneAtATime, RateFits, NoFetch
<1>4. QED
    BY <1>2, <1>3 DEF FxInvariant

\* With any currencies and any number of switches and refreshes: while none overlaps
\* another, amounts are never shown at the rate of a currency other than their label's,
\* whichever of them fail.
THEOREM RateFitsAlways == FxSpec => []RateFitsAlone
<1>1. FxInvariant /\ [FxNext]_FxVars => FxInvariant'
    <2> SUFFICES ASSUME FxInvariant, [FxNext]_FxVars PROVE FxInvariant'
        OBVIOUS
    <2>1. CASE UNCHANGED FxVars
        BY <2>1 DEF FxVars, FxInvariant, FxTypes, OneAtATime, RateFits
    <2>2. QED
        BY <2>1, SwitchKeeps, ResetKeeps, RefreshKeeps, FetchedKeeps, FailKeeps
        DEF FxNext, FxStep, Labels
<1>2. FxInvariant => RateFitsAlone
    BY DEF FxInvariant, OneAtATime, RateFitsAlone
<1>3. QED
    BY <1>1, <1>2, FxInitial, PTL DEF FxSpec

-----------------------------------------------------------------------------
(* Boot and shutdown. *)

Phases == {"boot", "serving", "grace", "closing", "drain", "ended"}
SessionType == [client : {"none", "open", "closing", "closed"},
                upstream : {"none", "open", "closing", "closed"},
                torn : BOOLEAN, writes : 0..1, written : Nat]

\* The record of a session is written by the one teardown, which comes no later than the
\* close of the client.
SessionSound(session) ==
    /\ session.writes = IF session.torn THEN 1 ELSE 0
    /\ session.client = "none" => session = NoSession
    /\ session.client = "closed" => session.torn

\* What the balancer knows: a poll of this process while it drains takes it out.
BalancerLearns ==
    /\ phase = "grace" => /\ left <= Grace
                          /\ left < Grace /\ polled => ~routed
                          /\ left + 1 < Grace => ~routed
    /\ phase \in {"closing", "drain"} => ~routed

\* While the store drains no record is added to those that have to be written.
DrainCloses ==
    phase = "drain" =>
        /\ AllEnded
        /\ left = 0 => Unwritten = {}

LifeInvariant ==
    /\ phase \in Phases /\ left \in Nat /\ exit \in {None, 0, 1} /\ polled \in BOOLEAN
    /\ served \in [Requests -> {"none", "answering", "writing", "done"}]
    /\ realtime \in [Sessions -> SessionType]
    /\ \A s \in Sessions : SessionSound(realtime[s])
    /\ BalancerLearns /\ DrainCloses
    /\ exit = 0 => lost = 0

LEMMA FreshSession == NoSession \in SessionType /\ SessionSound(NoSession) /\ NoSession.client = "none"
                      /\ NoSession.writes = NoSession.written
BY DEF NoSession, SessionType, SessionSound

LEMMA LifeInitial == LifeInit => LifeInvariant
<1> SUFFICES ASSUME LifeInit PROVE LifeInvariant
    OBVIOUS
<1>1. phase = "boot" /\ left = 0 /\ exit = None /\ polled = FALSE
      /\ served = [r \in Requests |-> "none"] /\ realtime = [s \in Sessions |-> NoSession]
    BY DEF LifeInit
<1>2. realtime \in [Sessions -> SessionType] /\ \A s \in Sessions : SessionSound(realtime[s])
    BY <1>1, FreshSession
<1>3. BalancerLearns /\ DrainCloses
    BY <1>1 DEF BalancerLearns, DrainCloses
<1>4. exit # 0
    BY <1>1, LifeAssumption
<1>5. QED
    BY <1>1, <1>2, <1>3, <1>4 DEF LifeInvariant, Phases

\* teardown() of a session whose client has come: one record in all.
LEMMA TeardownKeeps ==
    ASSUME NEW x \in SessionType, SessionSound(x), x.client # "none",
           NEW z \in SessionType, z.torn = x.torn, z.writes = x.writes, z.written = x.written,
           z.client = x.client \/ z.client = "closed"
    PROVE  LET y == Teardown(z)
           IN  /\ y \in SessionType /\ SessionSound(y) /\ y.client # "none"
               /\ (x.torn => y.writes = x.writes)
               /\ y.written = x.written
               /\ (x.client = "closed" => y.client = "closed")
<1> DEFINE w == [z EXCEPT !.torn = TRUE, !.client = Closing(z.client), !.upstream = Closing(z.upstream),
                          !.writes = z.writes + 1]
<1>1. Closing(z.client) \in {"closing", "closed"} /\ Closing(z.upstream) \in {"none", "closing", "closed"}
    BY DEF Closing, SessionType
<1>2. x.torn \in BOOLEAN /\ (x.torn => x.writes = 1) /\ (~x.torn => x.writes = 0 /\ x.client # "closed")
    BY DEF SessionSound, SessionType
<1>3. CASE x.torn
    <2>1. Teardown(z) = z
        BY <1>3 DEF Teardown
    <2>2. SessionSound(z) /\ z.client # "none"
        BY <1>2, <1>3 DEF SessionSound
    <2>3. QED
        BY <2>1, <2>2
<1>4. CASE ~x.torn
    <2>1. Teardown(z) = w
        BY <1>4 DEF Teardown
    <2>2. z.writes + 1 = 1
        BY <1>2, <1>4
    <2>3. w = [z EXCEPT !.torn = TRUE, !.client = Closing(z.client), !.upstream = Closing(z.upstream), !.writes = 1]
        BY <2>2
    <2> HIDE DEF w
    <2>4. w \in SessionType
        <3> DEFINE yes == TRUE
                   client == Closing(z.client)
                   upstream == Closing(z.upstream)
        <3>1. w = [z EXCEPT !.torn = yes, !.client = client, !.upstream = upstream, !.writes = 1]
            BY <2>3
        <3>2. /\ yes \in BOOLEAN /\ client \in {"none", "open", "closing", "closed"}
              /\ upstream \in {"none", "open", "closing", "closed"}
            BY <1>1
        <3> HIDE DEF yes, client, upstream
        <3>3. 1 \in 0..1
            OBVIOUS
        <3>4. QED
            BY <3>1, <3>2, <3>3 DEF SessionType
    <2>5. w.writes = 1 /\ w.client = Closing(z.client) /\ w.written = z.written
        BY <2>3 DEF SessionType
    <2>6. w.torn
        BY <2>3 DEF SessionType
    <2>7. SessionSound(w) /\ w.client # "none"
        BY <1>1, <2>5, <2>6 DEF SessionSound
    <2>8. QED
        BY <1>2, <1>4, <2>1, <2>4, <2>5, <2>7
<1>5. QED
    BY <1>2, <1>3, <1>4

-----------------------------------------------------------------------------
\* Requests and sessions take their steps while the shutdown waits for them.

\* A session that starts, or goes on, while the others rest.
LEMMA SessionStepKeeps ==
    ASSUME LifeInvariant, NEW s \in Sessions, NEW new \in SessionType, SessionSound(new),
           realtime' = [realtime EXCEPT ![s] = new],
           phase = "drain" => /\ new.client \in {"none", "closed"}
                              /\ (new.writes > new.written => realtime[s].writes > realtime[s].written),
           UNCHANGED <<phase, left, exit, routed, polled, served, lost>>
    PROVE  LifeInvariant'
<1>1. realtime \in [Sessions -> SessionType] /\ \A i \in Sessions : SessionSound(realtime[i])
    BY DEF LifeInvariant
<1>2. /\ realtime' \in [Sessions -> SessionType]
      /\ \A i \in Sessions : realtime'[i] = IF i = s THEN new ELSE realtime[i]
    BY <1>1
<1>3. \A i \in Sessions : SessionSound(realtime'[i])
    BY <1>1, <1>2
<1>4. ASSUME phase = "drain" PROVE AllEnded' /\ Unwritten' \subseteq Unwritten
    <2>1. AllEnded
        BY <1>4 DEF LifeInvariant, DrainCloses
    <2>2. AllEnded'
        BY <1>2, <1>4, <2>1 DEF AllEnded
    <2>3. Unwritten' \subseteq Unwritten
        BY <1>2, <1>4 DEF Unwritten
    <2>4. QED
        BY <2>2, <2>3
<1>5. DrainCloses'
    BY <1>4 DEF LifeInvariant, DrainCloses
<1>6. BalancerLearns'
    BY DEF LifeInvariant, BalancerLearns
<1>7. QED
    BY <1>2, <1>3, <1>5, <1>6 DEF LifeInvariant

LEMMA RequestsKeep ==
    ASSUME LifeInvariant, NEW r \in Requests, TakeRequest(r) \/ Respond(r) \/ Record(r)
    PROVE  LifeInvariant'
<1>1. /\ UNCHANGED <<phase, waited, left, exit, routed, polled, realtime, lost>>
      /\ served' \in [Requests -> {"none", "answering", "writing", "done"}]
    BY DEF TakeRequest, Respond, Record, LifeInvariant
<1>2. ASSUME phase = "drain" PROVE AllEnded' /\ Unwritten' \subseteq Unwritten
    <2>1. AllEnded
        BY <1>2 DEF LifeInvariant, DrainCloses
    <2>2. served[r] = "writing" /\ served' = [served EXCEPT ![r] = "done"]
        BY <1>2, <2>1 DEF TakeRequest, Listening, Respond, AllEnded, Record
    <2>3. \A q \in Requests : served'[q] = IF q = r THEN "done" ELSE served[q]
        BY <2>2 DEF LifeInvariant
    <2>4. AllEnded'
        BY <1>1, <2>1, <2>3 DEF AllEnded
    <2>5. Unwritten' \subseteq Unwritten
        BY <1>1, <2>3 DEF Unwritten
    <2>6. QED
        BY <2>4, <2>5
<1>3. DrainCloses'
    BY <1>1, <1>2 DEF LifeInvariant, DrainCloses
<1>4. QED
    BY <1>1, <1>3 DEF LifeInvariant, BalancerLearns

LEMMA SessionsKeep ==
    ASSUME LifeInvariant, NEW s \in Sessions,
           \/ Upgrade(s) \/ RecordSession(s)
           \/ \E end \in {"client", "upstream"} : EndCloses(s, end) \/ EndFails(s, end)
    PROVE  LifeInvariant'
<1> DEFINE x == realtime[s]
<1>1. /\ realtime \in [Sessions -> SessionType] /\ x \in SessionType /\ SessionSound(x)
      /\ x.client \in {"none", "open", "closing", "closed"} /\ x.upstream \in {"none", "open", "closing", "closed"}
    BY DEF LifeInvariant, SessionType
<1>2. phase = "drain" => x.client \in {"none", "closed"}
    BY DEF LifeInvariant, DrainCloses, AllEnded
<1>3. CASE Upgrade(s)
    <2> DEFINE new == [NoSession EXCEPT !.client = "open", !.upstream = "open"]
    <2>1. realtime' = [realtime EXCEPT ![s] = new] /\ phase # "drain"
          /\ UNCHANGED <<phase, left, exit, routed, polled, served, lost>>
        BY <1>1, <1>3 DEF Upgrade, Listening
    <2>2. NoSession.torn = FALSE /\ NoSession.writes = 0
        BY DEF NoSession
    <2>3. new \in SessionType
        BY FreshSession DEF SessionType
    <2>4. new.client = "open" /\ new.torn = FALSE /\ new.writes = 0
        BY <2>2, FreshSession DEF SessionType
    <2> HIDE DEF new
    <2>5. SessionSound(new)
        BY <2>4 DEF SessionSound
    <2>6. QED
        BY <2>1, <2>3, <2>4, <2>5, SessionStepKeeps
<1>4. CASE RecordSession(s)
    <2> DEFINE new == [x EXCEPT !.written = x.written + 1]
    <2>1. realtime' = [realtime EXCEPT ![s] = new] /\ x.writes > x.written
          /\ UNCHANGED <<phase, left, exit, routed, polled, served, lost>>
        BY <1>1, <1>4 DEF RecordSession
    <2>2. new \in SessionType /\ new.client = x.client /\ new.torn = x.torn /\ new.writes = x.writes
        BY <1>1 DEF SessionType
    <2>3. x.client # "none"
        BY <1>1, <2>1, FreshSession DEF SessionSound, SessionType
    <2>4. SessionSound(new)
        BY <1>1, <2>2, <2>3 DEF SessionSound
    <2> HIDE DEF new
    <2>5. QED
        BY <1>2, <2>1, <2>2, <2>4, SessionStepKeeps
<1>5. ASSUME NEW end \in {"client", "upstream"}, EndCloses(s, end) PROVE LifeInvariant'
    <2> DEFINE z == [x EXCEPT ![end] = "closed"]
               new == Teardown(z)
    <2>1. x.client # "none"
        BY <1>1, <1>5 DEF EndCloses, SessionSound, NoSession
    <2>2. /\ z \in SessionType /\ z.torn = x.torn /\ z.writes = x.writes /\ z.written = x.written
          /\ z.client = x.client \/ z.client = "closed"
        BY <1>1 DEF SessionType
    <2>3. realtime' = [realtime EXCEPT ![s] = new] /\ UNCHANGED <<phase, left, exit, routed, polled, served, lost>>
        BY <1>5 DEF EndCloses
    <2> HIDE DEF z
    <2>4. /\ new \in SessionType /\ SessionSound(new) /\ (x.torn => new.writes = x.writes)
          /\ new.written = x.written /\ (x.client = "closed" => new.client = "closed")
        BY <1>1, <2>1, <2>2, TeardownKeeps
    <2> HIDE DEF new
    <2>5. x.client = "closed" => x.torn
        BY <1>1 DEF SessionSound
    <2>6. phase = "drain" => /\ new.client \in {"none", "closed"}
                             /\ (new.writes > new.written => x.writes > x.written)
        BY <1>2, <2>1, <2>4, <2>5
    <2>7. QED
        BY <2>3, <2>4, <2>6, SessionStepKeeps
<1>6. ASSUME NEW end \in {"client", "upstream"}, EndFails(s, end) PROVE LifeInvariant'
    <2> DEFINE z == x
               new == Teardown(z)
    <2>1. x.client # "none"
        BY <1>1, <1>6 DEF EndFails, SessionSound, NoSession
    <2>2. /\ z \in SessionType /\ z.torn = x.torn /\ z.writes = x.writes /\ z.written = x.written
          /\ z.client = x.client \/ z.client = "closed"
        BY <1>1 DEF SessionType
    <2>3. realtime' = [realtime EXCEPT ![s] = new] /\ UNCHANGED <<phase, left, exit, routed, polled, served, lost>>
        BY <1>6 DEF EndFails
    <2> HIDE DEF z
    <2>4. /\ new \in SessionType /\ SessionSound(new) /\ (x.torn => new.writes = x.writes)
          /\ new.written = x.written /\ (x.client = "closed" => new.client = "closed")
        BY <1>1, <2>1, <2>2, TeardownKeeps
    <2> HIDE DEF new
    <2>5. x.client = "closed" => x.torn
        BY <1>1 DEF SessionSound
    <2>6. phase = "drain" => /\ new.client \in {"none", "closed"}
                             /\ (new.writes > new.written => x.writes > x.written)
        BY <1>2, <2>1, <2>4, <2>5
    <2>7. QED
        BY <2>3, <2>4, <2>6, SessionStepKeeps
<1>7. QED
    BY <1>3, <1>4, <1>5, <1>6

-----------------------------------------------------------------------------
\* The boot, the shutdown and the time that passes in between.

LEMMA NoneIsNoCode == None # 0 /\ None # 1
BY LifeAssumption

LEMMA BootKeeps ==
    ASSUME LifeInvariant, Boot \/ BootFails \/ Restart
    PROVE  LifeInvariant'
<1>1. CASE Boot
    BY <1>1 DEF Boot, LifeInvariant, Phases, BalancerLearns, DrainCloses
<1>2. CASE BootFails
    BY <1>2 DEF BootFails, LifeInvariant, Phases, BalancerLearns, DrainCloses
<1>3. CASE Restart
    <2>1. /\ phase' = "boot" /\ left' = 0 /\ exit' = None /\ polled' = FALSE
          /\ served' = [r \in Requests |-> "none"] /\ realtime' = [s \in Sessions |-> NoSession]
        BY <1>3 DEF Restart
    <2>2. realtime' \in [Sessions -> SessionType] /\ \A s \in Sessions : SessionSound(realtime'[s])
        BY <2>1, FreshSession
    <2>3. BalancerLearns' /\ DrainCloses'
        BY <2>1 DEF BalancerLearns, DrainCloses
    <2>4. exit' # 0
        BY <2>1, NoneIsNoCode
    <2>5. QED
        BY <2>1, <2>2, <2>3, <2>4 DEF LifeInvariant, Phases
<1>4. QED
    BY <1>1, <1>2, <1>3

LEMMA PollKeeps ==
    ASSUME LifeInvariant, Poll \/ Signal
    PROVE  LifeInvariant'
<1>1. /\ UNCHANGED <<exit, served, realtime, lost>> /\ phase' \in Phases /\ left' \in Nat /\ polled' \in BOOLEAN
      /\ phase' = "drain" => phase = "drain" /\ left' = left
    BY LifeAssumption DEF Poll, Signal, LifeInvariant, Phases
<1>2. BalancerLearns'
    <2>1. CASE Poll
        BY <2>1 DEF Poll, Ready, LifeInvariant, BalancerLearns
    <2>2. CASE Signal
        BY <2>2, LifeAssumption DEF Signal, BalancerLearns
    <2>3. QED
        BY <2>1, <2>2
<1>3. DrainCloses'
    BY <1>1 DEF LifeInvariant, DrainCloses, AllEnded, Unwritten
<1>4. QED
    BY <1>1, <1>2, <1>3 DEF LifeInvariant

LEMMA ShutdownKeeps ==
    ASSUME LifeInvariant, Shutdown
    PROVE  LifeInvariant'
<1>1. CASE StopListening
    <2>1. ~routed
        BY <1>1, LifeAssumption DEF StopListening, LifeInvariant, BalancerLearns
    <2>2. phase' = "closing" /\ UNCHANGED <<left, exit, routed, polled, served, realtime, lost>>
        BY <1>1 DEF StopListening
    <2>3. BalancerLearns' /\ DrainCloses'
        BY <2>1, <2>2 DEF BalancerLearns, DrainCloses
    <2>4. QED
        BY <2>2, <2>3 DEF LifeInvariant, Phases
<1>2. CASE Closed
    <2>1. /\ phase = "closing" /\ AllEnded /\ phase' = "drain" /\ left' = 1
          /\ UNCHANGED <<exit, routed, polled, served, realtime, lost>>
        BY <1>2 DEF Closed
    <2>2. BalancerLearns' /\ DrainCloses'
        BY <2>1 DEF LifeInvariant, BalancerLearns, DrainCloses, AllEnded
    <2>3. QED
        BY <2>1, <2>2 DEF LifeInvariant, Phases
<1>3. CASE LeaveStore
    <2>1. Unwritten = {}
        BY <1>3 DEF LeaveStore, LifeInvariant, DrainCloses
    <2>2. lost' = 0
        BY <1>3, <2>1, FS_EmptySet DEF LeaveStore
    <2>3. /\ phase' = "ended" /\ exit' = 0
          /\ UNCHANGED <<left, routed, polled, served, realtime>>
        BY <1>3 DEF LeaveStore
    <2>4. QED
        BY <2>2, <2>3 DEF LifeInvariant, Phases, BalancerLearns, DrainCloses
<1>4. CASE ForceExit
    BY <1>4 DEF ForceExit, LifeInvariant, Phases, BalancerLearns, DrainCloses
<1>5. QED
    BY <1>1, <1>2, <1>3, <1>4 DEF Shutdown

LEMMA TimeKeeps ==
    ASSUME LifeInvariant, TimePasses
    PROVE  LifeInvariant'
<1>1. /\ polled = TRUE /\ polled' = FALSE /\ UNCHANGED <<phase, exit, routed, lost>>
      /\ left' = IF left > 0 THEN left - 1 ELSE 0
      /\ phase = "grace" => left > 0
      /\ Unwritten = {}
    BY DEF TimePasses, LifeInvariant
<1>2. /\ served' = [r \in Requests |-> IF served[r] = "done" THEN "none" ELSE served[r]]
      /\ realtime' = [s \in Sessions |-> IF ClientLeaves(realtime[s]) THEN NoSession ELSE realtime[s]]
    BY DEF TimePasses
<1>3. /\ served' \in [Requests -> {"none", "answering", "writing", "done"}]
      /\ realtime' \in [Sessions -> SessionType] /\ \A s \in Sessions : SessionSound(realtime'[s])
    BY <1>2, FreshSession DEF LifeInvariant
<1>4. left' \in Nat
    BY <1>1 DEF LifeInvariant
<1>5. BalancerLearns'
    BY <1>1, LifeAssumption DEF LifeInvariant, BalancerLearns
<1>6. Unwritten' = {}
    <2>1. \A r \in Requests : served'[r] # "writing"
        BY <1>1, <1>2 DEF Unwritten
    <2>2. \A s \in Sessions : realtime[s] \in SessionType /\ ~(realtime[s].writes > realtime[s].written)
        BY <1>1 DEF Unwritten, LifeInvariant
    <2>3. ~(NoSession.writes > NoSession.written)
        BY FreshSession DEF SessionType
    <2>4. \A s \in Sessions : ~(realtime'[s].writes > realtime'[s].written)
        BY <1>2, <2>2, <2>3
    <2>5. QED
        BY <2>1, <2>4 DEF Unwritten
<1>7. AllEnded => AllEnded'
    BY <1>2, FreshSession DEF AllEnded
<1>8. DrainCloses'
    BY <1>1, <1>6, <1>7 DEF LifeInvariant, DrainCloses
<1>9. QED
    BY <1>1, <1>3, <1>4, <1>5, <1>8 DEF LifeInvariant

LEMMA LifeStep == LifeInvariant /\ [LifeNext]_LifeVars => LifeInvariant'
<1> SUFFICES ASSUME LifeInvariant, [LifeNext]_LifeVars PROVE LifeInvariant'
    OBVIOUS
<1>1. CASE UNCHANGED LifeVars
    BY <1>1 DEF LifeVars, LifeInvariant, BalancerLearns, DrainCloses, AllEnded, Unwritten
<1>2. CASE LifeNext
    BY <1>2, BootKeeps, PollKeeps, ShutdownKeeps, TimeKeeps, RequestsKeep, SessionsKeep DEF LifeNext
<1>3. QED
    BY <1>1, <1>2

\* For any number of requests and sessions, and any grace period in which a poll falls.
THEOREM NothingIsEverLost == LifeSpec => []NothingIsLost
<1>1. LifeInvariant => NothingIsLost
    BY DEF LifeInvariant, BalancerLearns, SessionType, NothingIsLost, RecordsLand, NobodyIsRefused,
           SessionRecordedOnce
<1>2. QED
    BY <1>1, LifeInitial, LifeStep, PTL DEF LifeSpec

-----------------------------------------------------------------------------
(* Shadow evaluation. *)

\* What a process holds of a campaign, and the campaign itself.
HeldDocument == [status : {"none", "active", "gone"}, errors : 0..ErrorCap]
Campaign == [status : {"none", "active", "paused", "done"}, errors : 0..ErrorCap]
MirrorType == [pc : {"idle", "budget", "keep", "call", "save", "notify"}, at : Processes \cup {None},
               doc : HeldDocument]
CacheType == [st : {"stale", "fresh"}, doc : HeldDocument]
PatchType == [at : Processes \cup {None}, to : {"none", "active", "paused", "done"},
              was : {"none", "active", "paused", "done"}]

ShadowTypes ==
    /\ camp \in Campaign
    /\ pairs \in Nat
    /\ shadowed \in [Processes -> CacheType]
    /\ mirror \in [Mirrors -> MirrorType]
    /\ patch \in PatchType

\* A PATCH that is going to activate the campaign has passed the gate as well.
Gated == camp.status = "active" \/ patch.to = "active" => gated

\* The calls that were let through and may still store a pair.
InTheAir == {k \in Mirrors : mirror[k].pc \in {"call", "save"} /\ mirror[k].doc.status # "gone"}
Spendable == pairs + Cardinality(InTheAir) < DailyBudget + Cardinality(Mirrors)

ShadowInvariant == ShadowTypes /\ Gated /\ Spendable

-----------------------------------------------------------------------------
LEMMA Empties ==
    /\ NoCampaign \in Campaign /\ NoCampaign \in HeldDocument /\ NotCached \in CacheType
    /\ NoMirror \in MirrorType /\ NoPatch \in PatchType
    /\ NoMirror.pc = "idle" /\ NoPatch.to = "none" /\ NoCampaign.status = "none"
<1>1. NoCampaign \in Campaign /\ NoCampaign \in HeldDocument /\ NoCampaign.status = "none"
    BY ShadowAssumption DEF NoCampaign, Campaign, HeldDocument
<1>2. NotCached \in CacheType /\ NoMirror \in MirrorType /\ NoMirror.pc = "idle"
    BY <1>1 DEF NotCached, NoMirror, CacheType, MirrorType
<1>3. NoPatch \in PatchType /\ NoPatch.to = "none"
    BY DEF NoPatch, PatchType
<1>4. QED
    BY <1>1, <1>2, <1>3

LEMMA AirIsBounded ==
    /\ IsFiniteSet(InTheAir) /\ Cardinality(InTheAir) \in Nat
    /\ Cardinality(Mirrors) \in Nat /\ Cardinality(InTheAir) <= Cardinality(Mirrors)
    /\ Cardinality(Mirrors) > 0
<1>1. InTheAir \subseteq Mirrors
    BY DEF InTheAir
<1>2. IsFiniteSet(InTheAir) /\ Cardinality(InTheAir) <= Cardinality(Mirrors)
    BY <1>1, ShadowAssumption, FS_Subset
<1>3. Cardinality(Mirrors) \in Nat /\ Cardinality(InTheAir) \in Nat /\ Cardinality(Mirrors) # 0
    BY <1>2, ShadowAssumption, FS_CardinalityType, FS_EmptySet
<1>4. QED
    BY <1>2, <1>3

\* Steps that let no call through and store no pair.
LEMMA FewerCalls ==
    ASSUME ShadowTypes, Spendable, pairs' \in Nat, pairs' <= pairs, InTheAir' \subseteq InTheAir
    PROVE  Spendable'
<1>1. IsFiniteSet(InTheAir) /\ Cardinality(InTheAir) \in Nat /\ Cardinality(Mirrors) \in Nat
    BY AirIsBounded
<1>2. IsFiniteSet(InTheAir') /\ Cardinality(InTheAir') <= Cardinality(InTheAir)
    BY <1>1, FS_Subset
<1>3. Cardinality(InTheAir') \in Nat
    BY <1>2, FS_CardinalityType
<1>4. pairs + Cardinality(InTheAir) < DailyBudget + Cardinality(Mirrors) /\ pairs \in Nat
    BY DEF Spendable, ShadowTypes
<1>5. pairs' + Cardinality(InTheAir') < DailyBudget + Cardinality(Mirrors)
    BY <1>1, <1>2, <1>3, <1>4, ShadowAssumption
<1>6. QED
    BY <1>5 DEF Spendable

\* A call that leaves the air, or moves in it, takes nobody else there.
LEMMA AirWithout ==
    ASSUME ShadowTypes, NEW k \in Mirrors, NEW new \in MirrorType, mirror' = [mirror EXCEPT ![k] = new]
    PROVE  /\ mirror' \in [Mirrors -> MirrorType]
           /\ InTheAir' \subseteq InTheAir \cup {k}
           /\ new.pc \notin {"call", "save"} => InTheAir' = InTheAir \ {k}
           /\ new.pc \in {"call", "save"} /\ mirror[k].pc \in {"call", "save"} /\ new.doc = mirror[k].doc
                 => InTheAir' = InTheAir
<1>1. mirror' \in [Mirrors -> MirrorType] /\ \A i \in Mirrors : mirror'[i] = IF i = k THEN new ELSE mirror[i]
    BY DEF ShadowTypes
<1>2. QED
    BY <1>1 DEF InTheAir

-----------------------------------------------------------------------------
LEMMA ShadowInitial == ShadowInit => ShadowInvariant
<1> SUFFICES ASSUME ShadowInit PROVE ShadowInvariant
    OBVIOUS
<1>1. ShadowTypes /\ Gated
    BY Empties DEF ShadowInit, ShadowTypes, Gated
<1>2. InTheAir = {}
    BY Empties DEF ShadowInit, InTheAir
<1>3. Cardinality(InTheAir) = 0 /\ pairs = 0
    BY <1>2, FS_EmptySet DEF ShadowInit
<1>4. Spendable
    BY <1>3, AirIsBounded, ShadowAssumption DEF Spendable
<1>5. QED
    BY <1>1, <1>4 DEF ShadowInvariant

\* The console drops the answer of its own process at most.
LEMMA InvalidatedKeeps ==
    ASSUME ShadowTypes, NEW p, Invalidated(p)
    PROVE  shadowed' \in [Processes -> CacheType]
BY Empties DEF Invalidated, ShadowTypes

LEMMA CreationKeeps ==
    ASSUME ShadowInvariant, NEW p \in Processes, NEW override \in BOOLEAN,
           StartShadow(p, override) \/ \E immediate \in BOOLEAN : CreateCampaign(p, immediate, override)
    PROVE  ShadowInvariant'
<1>1. /\ patch = NoPatch /\ Invalidated(p) /\ UNCHANGED <<pairs, mirror, passed, patch>>
      /\ \E status \in {"active", "paused"} :
            camp' = [NoCampaign EXCEPT !.status = status] /\ (status = "active" => gated')
    BY DEF StartShadow, CreateCampaign
<1>2. PICK status \in {"active", "paused"} :
            camp' = [NoCampaign EXCEPT !.status = status] /\ (status = "active" => gated')
    BY <1>1
<1>3. camp' \in Campaign /\ camp'.status = status
    BY <1>2, Empties DEF Campaign
<1>4. ShadowTypes'
    BY <1>1, <1>3, InvalidatedKeeps DEF ShadowInvariant, ShadowTypes
<1>5. Gated'
    BY <1>1, <1>2, <1>3, Empties DEF Gated
<1>6. InTheAir' = InTheAir
    BY <1>1 DEF InTheAir
<1>7. QED
    BY <1>1, <1>4, <1>5, <1>6 DEF ShadowInvariant, Spendable

LEMMA PatchKeeps ==
    ASSUME ShadowInvariant,
           \/ WritePatch
           \/ \E p \in Processes, status \in {"active", "paused", "done"}, override \in BOOLEAN :
                 ReadPatch(p, status, override)
    PROVE  ShadowInvariant'
<1>1. camp \in Campaign /\ patch \in PatchType
    BY DEF ShadowInvariant, ShadowTypes
<1>2. UNCHANGED <<pairs, mirror>> /\ InTheAir' = InTheAir
    BY DEF WritePatch, ReadPatch, InTheAir
<1>3. Spendable'
    BY <1>2 DEF ShadowInvariant, Spendable
<1>4. CASE WritePatch
    <2>1. camp' \in Campaign /\ camp'.status = patch.to
        <3>1. patch.to \in {"none", "active", "paused", "done"} /\ 0 \in 0..ErrorCap
            BY <1>1, ShadowAssumption DEF PatchType
        <3>2. camp' = [camp EXCEPT !.status = patch.to, !.errors = 0] \/ camp' = [camp EXCEPT !.status = patch.to]
            BY <1>4 DEF WritePatch
        <3>3. QED
            BY <1>1, <3>1, <3>2 DEF Campaign
    <2>2. patch' = NoPatch /\ gated' = gated /\ Invalidated(patch.at)
        BY <1>4 DEF WritePatch
    <2>3. ShadowTypes'
        BY <1>2, <2>1, <2>2, Empties, InvalidatedKeeps DEF ShadowInvariant, ShadowTypes
    <2>4. Gated'
        BY <2>1, <2>2, Empties DEF ShadowInvariant, Gated
    <2>5. QED
        BY <1>3, <2>3, <2>4 DEF ShadowInvariant
<1>5. ASSUME NEW p \in Processes, NEW status \in {"active", "paused", "done"}, NEW override \in BOOLEAN,
             ReadPatch(p, status, override)
      PROVE  ShadowInvariant'
    <2>1. /\ patch' = [at |-> p, to |-> status, was |-> camp.status]
          /\ gated' = (gated \/ (status = "active" /\ MayActivate(override)))
          /\ status = "active" /\ camp.status # "active" => MayActivate(override)
          /\ UNCHANGED <<camp, pairs, shadowed, mirror, passed>>
        BY <1>5 DEF ReadPatch
    <2>2. camp.status \in {"none", "active", "paused", "done"}
        BY <1>1 DEF Campaign
    <2>3. patch' \in PatchType /\ patch'.to = status
        BY <2>1, <2>2 DEF PatchType
    <2>4. Gated'
        BY <2>1, <2>3 DEF ShadowInvariant, Gated
    <2>5. QED
        BY <1>3, <2>1, <2>3, <2>4 DEF ShadowInvariant, ShadowTypes
<1>6. QED
    BY <1>4, <1>5

LEMMA GoneIsHeld ==
    ASSUME NEW doc \in HeldDocument
    PROVE  Gone(doc) \in HeldDocument /\ (doc.status = "gone" => Gone(doc).status = "gone")
<1>1. CASE doc = NoCampaign
    BY <1>1 DEF Gone
<1>2. CASE doc # NoCampaign
    <2>1. Gone(doc) = [NoCampaign EXCEPT !.status = "gone"]
        BY <1>2 DEF Gone
    <2>2. QED
        BY <2>1, Empties DEF HeldDocument
<1>3. QED
    BY <1>1, <1>2

LEMMA DeletionKeeps ==
    ASSUME ShadowInvariant, NEW p \in Processes, DeleteCampaign(p)
    PROVE  ShadowInvariant'
<1>1. /\ camp' = NoCampaign /\ pairs' = 0 /\ patch' = NoPatch
      /\ shadowed' = [q \in Processes |-> IF q = p THEN NotCached
                                          ELSE [shadowed[q] EXCEPT !.doc = Gone(shadowed[q].doc)]]
      /\ mirror' = [k \in Mirrors |-> [mirror[k] EXCEPT !.doc = Gone(mirror[k].doc)]]
    BY DEF DeleteCampaign
<1>2. ASSUME NEW q \in Processes PROVE [shadowed[q] EXCEPT !.doc = Gone(shadowed[q].doc)] \in CacheType
    <2>1. shadowed[q] \in CacheType /\ Gone(shadowed[q].doc) \in HeldDocument
        BY GoneIsHeld DEF ShadowInvariant, ShadowTypes, CacheType
    <2>2. QED
        BY <2>1 DEF CacheType
<1>3. ASSUME NEW k \in Mirrors
      PROVE  /\ [mirror[k] EXCEPT !.doc = Gone(mirror[k].doc)] \in MirrorType
             /\ mirror'[k].pc = mirror[k].pc
             /\ (mirror[k].doc.status = "gone" => mirror'[k].doc.status = "gone")
    <2>1. /\ mirror[k] \in MirrorType /\ Gone(mirror[k].doc) \in HeldDocument
          /\ (mirror[k].doc.status = "gone" => Gone(mirror[k].doc).status = "gone")
        BY GoneIsHeld DEF ShadowInvariant, ShadowTypes, MirrorType
    <2>2. QED
        BY <1>1, <2>1 DEF MirrorType
<1>4. shadowed' \in [Processes -> CacheType] /\ mirror' \in [Mirrors -> MirrorType]
    BY <1>1, <1>2, <1>3, Empties
<1>5. ShadowTypes' /\ Gated'
    BY <1>1, <1>4, Empties DEF ShadowTypes, Gated
<1>6. InTheAir' \subseteq InTheAir
    BY <1>3 DEF InTheAir
<1>7. pairs' <= pairs /\ pairs' \in Nat
    BY <1>1 DEF ShadowInvariant, ShadowTypes
<1>8. QED
    BY <1>5, <1>6, <1>7, FewerCalls DEF ShadowInvariant

-----------------------------------------------------------------------------
\* Steps of a mirrored call that leave the campaign and its pairs as they are.
LEMMA CallMoves ==
    ASSUME ShadowInvariant, NEW k \in Mirrors, NEW new \in MirrorType, mirror' = [mirror EXCEPT ![k] = new],
           \/ new.pc \notin {"call", "save"}
           \/ mirror[k].pc \in {"call", "save"} /\ new.doc = mirror[k].doc
           \/ new.doc.status = "gone" \/ pairs < DailyBudget,
           shadowed' \in [Processes -> CacheType],
           UNCHANGED <<camp, pairs, gated, patch>>
    PROVE  ShadowInvariant'
<1>1. ShadowTypes
    BY DEF ShadowInvariant
<1>2. ShadowTypes'
    BY <1>1, AirWithout DEF ShadowTypes
<1>3. Gated'
    BY DEF ShadowInvariant, Gated
<1>4. pairs' <= pairs /\ pairs' \in Nat
    BY <1>1 DEF ShadowTypes
<1>5. CASE InTheAir' \subseteq InTheAir
    BY <1>1, <1>2, <1>3, <1>4, <1>5, FewerCalls DEF ShadowInvariant
<1>6. CASE pairs < DailyBudget
    <2>1. Cardinality(InTheAir') <= Cardinality(Mirrors) /\ Cardinality(InTheAir') \in Nat
        <3>1. InTheAir' \subseteq Mirrors
            BY DEF InTheAir
        <3>2. QED
            BY <3>1, ShadowAssumption, FS_Subset, FS_CardinalityType
    <2>2. Spendable'
        BY <1>4, <1>6, <2>1, ShadowAssumption, AirIsBounded DEF Spendable
    <2>3. QED
        BY <1>2, <1>3, <2>2 DEF ShadowInvariant
<1>7. new.doc.status = "gone" => InTheAir' \subseteq InTheAir
    <2>1. \A i \in Mirrors : mirror'[i] = IF i = k THEN new ELSE mirror[i]
        BY <1>1 DEF ShadowTypes
    <2>2. QED
        BY <2>1 DEF InTheAir
<1>8. QED
    BY <1>1, <1>5, <1>6, <1>7, AirWithout

LEMMA MirrorKeeps ==
    ASSUME ShadowInvariant, NEW k \in Mirrors, NEW p \in Processes, Mirror(k, p) \/ Lookup(k, p)
    PROVE  ShadowInvariant'
<1>1. /\ shadowed \in [Processes -> CacheType] /\ shadowed[p].doc \in HeldDocument /\ camp \in Campaign
    BY DEF ShadowInvariant, ShadowTypes, CacheType
<1>2. \E pc \in {"budget", "keep"}, doc \in HeldDocument : mirror' = [mirror EXCEPT ![k] = [pc |-> pc, at |-> p, doc |-> doc]]
    <2>1. CASE Mirror(k, p)
        BY <1>1, <2>1 DEF Mirror
    <2>2. CASE Lookup(k, p)
        <3>1. camp.status = "active" => camp \in HeldDocument
            BY <1>1 DEF Campaign, HeldDocument
        <3>2. PICK doc \in {NoCampaign, IF camp.status = "active" THEN camp ELSE NoCampaign} :
                    mirror' = [mirror EXCEPT ![k] = [pc |-> "keep", at |-> p, doc |-> doc]]
            BY <2>2 DEF Lookup
        <3>3. doc \in HeldDocument
            BY <3>1, Empties
        <3>4. QED
            BY <3>2, <3>3
    <2>3. QED
        BY <2>1, <2>2
<1>3. PICK pc \in {"budget", "keep"}, doc \in HeldDocument : mirror' = [mirror EXCEPT ![k] = [pc |-> pc, at |-> p, doc |-> doc]]
    BY <1>2
<1> DEFINE new == [pc |-> pc, at |-> p, doc |-> doc]
<1>4. new \in MirrorType /\ new.pc \notin {"call", "save"}
    BY DEF MirrorType
<1>5. UNCHANGED <<camp, pairs, shadowed, gated, patch>>
    BY DEF Mirror, Lookup
<1>6. mirror' = [mirror EXCEPT ![k] = new]
    BY <1>3
<1> HIDE DEF new
<1>7. QED
    BY <1>1, <1>4, <1>5, <1>6, CallMoves

\* The pair of a call takes the place of the call.
LEMMA SaveKeeps ==
    ASSUME ShadowInvariant, NEW k \in Mirrors, NEW new \in MirrorType, mirror' = [mirror EXCEPT ![k] = new],
           mirror[k].pc = "save", mirror[k].doc.status # "gone", new.pc \notin {"call", "save"}, pairs' = pairs + 1,
           UNCHANGED <<camp, shadowed, gated, patch>>
    PROVE  ShadowInvariant'
<1>1. ShadowTypes
    BY DEF ShadowInvariant
<1>2. k \in InTheAir /\ InTheAir' = InTheAir \ {k}
    BY <1>1, AirWithout DEF InTheAir
<1>3. Cardinality(InTheAir') = Cardinality(InTheAir) - 1
    BY <1>2, AirIsBounded, FS_RemoveElement
<1>4. pairs \in Nat /\ pairs' \in Nat
    BY <1>1 DEF ShadowTypes
<1>5. Spendable'
    BY <1>3, <1>4, AirIsBounded, ShadowAssumption DEF ShadowInvariant, Spendable
<1>6. ShadowTypes' /\ Gated'
    BY <1>1, <1>4, AirWithout DEF ShadowInvariant, ShadowTypes, Gated
<1>7. QED
    BY <1>5, <1>6 DEF ShadowInvariant

LEMMA FailureKeeps ==
    ASSUME ShadowInvariant, NEW k \in Mirrors, CandidateFails(k)
    PROVE  ShadowInvariant'
<1> DEFINE n == mirror[k].doc.errors + 1
<1>1. /\ mirror' = [mirror EXCEPT ![k] = NoMirror] /\ Invalidated(mirror[k].at)
      /\ UNCHANGED <<pairs, gated, patch>>
      /\ camp' = IF mirror[k].doc.status = "gone" THEN camp
                 ELSE [camp EXCEPT !.errors = IF n > ErrorCap THEN ErrorCap ELSE n,
                                   !.status = IF n >= ErrorCap THEN "paused" ELSE camp.status]
    BY DEF CandidateFails, Quit
<1>2. camp \in Campaign /\ n \in Nat
    BY ShadowAssumption DEF ShadowInvariant, ShadowTypes, MirrorType, HeldDocument
<1> HIDE DEF n
<1>3. camp' \in Campaign /\ camp'.status \in {camp.status, "paused"}
    <2> DEFINE errors == IF n > ErrorCap THEN ErrorCap ELSE n
               status == IF n >= ErrorCap THEN "paused" ELSE camp.status
    <2>1. errors \in 0..ErrorCap
        BY <1>2, ShadowAssumption
    <2>2. status \in {"none", "active", "paused", "done"} /\ status \in {camp.status, "paused"}
        BY <1>2 DEF Campaign
    <2>3. camp' = camp \/ camp' = [camp EXCEPT !.errors = errors, !.status = status]
        BY <1>1
    <2> HIDE DEF errors, status
    <2>4. QED
        BY <1>2, <2>1, <2>2, <2>3 DEF Campaign
<1>4. ShadowTypes /\ Gated /\ Spendable
    BY DEF ShadowInvariant
<1>5. ShadowTypes'
    BY <1>1, <1>3, <1>4, InvalidatedKeeps, Empties, AirWithout DEF ShadowTypes
<1>6. Gated'
    BY <1>1, <1>3, <1>4 DEF Gated
<1>7. InTheAir' \subseteq InTheAir
    BY <1>1, <1>4, Empties, AirWithout
<1>8. pairs' <= pairs /\ pairs' \in Nat
    BY <1>1, <1>4 DEF ShadowTypes
<1>9. QED
    BY <1>4, <1>5, <1>6, <1>7, <1>8, FewerCalls DEF ShadowInvariant

LEMMA MirrorStepKeeps ==
    ASSUME ShadowInvariant, NEW k \in Mirrors, MirrorStep(k)
    PROVE  ShadowInvariant'
<1> DEFINE to(pc) == [mirror[k] EXCEPT !.pc = pc]
<1>1. /\ mirror \in [Mirrors -> MirrorType] /\ mirror[k] \in MirrorType /\ mirror[k].doc \in HeldDocument
      /\ shadowed \in [Processes -> CacheType] /\ pairs \in Nat
    BY DEF ShadowInvariant, ShadowTypes, MirrorType
<1>2. \A pc \in {"budget", "call", "save", "notify"} :
         to(pc) \in MirrorType /\ to(pc).pc = pc /\ to(pc).doc = mirror[k].doc
    BY <1>1 DEF MirrorType
<1>3. ASSUME NEW pc, Move(k, pc) PROVE mirror' = [mirror EXCEPT ![k] = to(pc)]
    BY <1>1, <1>3 DEF Move
<1> HIDE DEF to
<1>4. CASE Keep(k)
    <2>1. shadowed' \in [Processes -> CacheType]
        <3>1. [st |-> "fresh", doc |-> mirror[k].doc] \in CacheType
            BY <1>1 DEF CacheType
        <3>2. QED
            BY <1>1, <1>4, <3>1 DEF Keep
    <2>2. PICK new \in {NoMirror, to("budget")} : mirror' = [mirror EXCEPT ![k] = new]
        BY <1>3, <1>4 DEF Keep, Quit
    <2>3. new \in MirrorType /\ new.pc \notin {"call", "save"}
        BY <1>2, <2>2, Empties
    <2>4. UNCHANGED <<camp, pairs, gated, patch>>
        BY <1>4 DEF Keep
    <2>5. QED
        BY <2>1, <2>2, <2>3, <2>4, CallMoves
<1>5. CASE Unsampled(k) \/ PairLost(k) \/ Notify(k)
    <2>1. mirror' = [mirror EXCEPT ![k] = NoMirror] /\ UNCHANGED <<camp, pairs, shadowed, gated, patch>>
        BY <1>5 DEF Unsampled, PairLost, Notify, Quit
    <2>2. QED
        BY <1>1, <2>1, Empties, CallMoves
<1>6. CASE CheckSpend(k)
    <2>1. UNCHANGED <<camp, pairs, shadowed, gated, patch>>
        BY <1>6 DEF CheckSpend
    <2>2. CASE mirror[k].doc.status # "gone" /\ pairs >= DailyBudget
        <3>1. mirror' = [mirror EXCEPT ![k] = NoMirror]
            BY <1>6, <2>2 DEF CheckSpend, Quit
        <3>2. QED
            BY <1>1, <2>1, <3>1, Empties, CallMoves
    <2>3. CASE ~(mirror[k].doc.status # "gone" /\ pairs >= DailyBudget)
        <3>1. mirror' = [mirror EXCEPT ![k] = to("call")]
            BY <1>3, <1>6, <2>3 DEF CheckSpend
        <3>2. to("call") \in MirrorType /\ to("call").doc = mirror[k].doc
            BY <1>2
        <3>3. mirror[k].doc.status = "gone" \/ pairs < DailyBudget
            BY <1>1, <2>3, ShadowAssumption
        <3>4. QED
            BY <1>1, <2>1, <3>1, <3>2, <3>3, CallMoves
    <2>4. QED
        BY <2>2, <2>3
<1>7. CASE CandidateAnswers(k)
    <2>1. mirror' = [mirror EXCEPT ![k] = to("save")] /\ mirror[k].pc = "call"
          /\ UNCHANGED <<camp, pairs, shadowed, gated, patch>>
        BY <1>3, <1>7 DEF CandidateAnswers
    <2>2. to("save") \in MirrorType /\ to("save").doc = mirror[k].doc
        BY <1>2
    <2>3. QED
        BY <1>1, <2>1, <2>2, CallMoves
<1>8. CASE SavePair(k)
    <2>1. PICK new \in {NoMirror, to("notify")} : mirror' = [mirror EXCEPT ![k] = new]
        BY <1>3, <1>8 DEF SavePair, Quit
    <2>2. new \in MirrorType /\ new.pc \notin {"call", "save"}
        BY <1>2, <2>1, Empties
    <2>3. mirror[k].pc = "save" /\ UNCHANGED <<camp, shadowed, gated, patch>>
          /\ pairs' = IF mirror[k].doc.status = "gone" THEN pairs ELSE pairs + 1
        BY <1>8 DEF SavePair
    <2>4. CASE mirror[k].doc.status = "gone"
        BY <1>1, <2>1, <2>2, <2>3, <2>4, CallMoves
    <2>5. CASE mirror[k].doc.status # "gone"
        BY <2>1, <2>2, <2>3, <2>5, SaveKeeps
    <2>6. QED
        BY <2>4, <2>5
<1>9. QED
    BY <1>4, <1>5, <1>6, <1>7, <1>8, FailureKeeps DEF MirrorStep

LEMMA ShadowStep == ShadowInvariant /\ [ShadowNext]_ShadowVars => ShadowInvariant'
<1> SUFFICES ASSUME ShadowInvariant, [ShadowNext]_ShadowVars PROVE ShadowInvariant'
    OBVIOUS
<1>1. CASE UNCHANGED ShadowVars
    BY <1>1 DEF ShadowVars, ShadowInvariant, ShadowTypes, Gated, Spendable, InTheAir
<1>2. CASE CampaignAdmin
    BY <1>2, CreationKeeps, PatchKeeps, DeletionKeeps DEF CampaignAdmin
<1>3. CASE RunCorrected
    BY <1>3 DEF RunCorrected, ShadowInvariant, ShadowTypes, Gated, Spendable, InTheAir
<1>4. CASE Midnight
    <2>1. pairs' = 0 /\ UNCHANGED <<camp, shadowed, mirror, gated, patch>>
        BY <1>4 DEF Midnight
    <2>2. InTheAir' = InTheAir /\ pairs' <= pairs /\ pairs' \in Nat
        BY <2>1 DEF InTheAir, ShadowInvariant, ShadowTypes
    <2>3. ShadowTypes' /\ Gated'
        BY <2>1, <2>2 DEF ShadowInvariant, ShadowTypes, Gated
    <2>4. QED
        BY <2>2, <2>3, FewerCalls DEF ShadowInvariant
<1>5. ASSUME NEW p \in Processes, StaleCampaign(p) PROVE ShadowInvariant'
    BY <1>5, InvalidatedKeeps DEF StaleCampaign, ShadowInvariant, ShadowTypes, Gated, Spendable, InTheAir
<1>6. QED
    BY <1>1, <1>2, <1>3, <1>4, <1>5, MirrorKeeps, MirrorStepKeeps DEF ShadowNext

\* For any number of calls and processes, and any budget.
THEOREM CampaignsAlwaysBounded == ShadowSpec => []CampaignsAreBounded
<1>1. ShadowInvariant => CampaignsAreBounded
    <2> SUFFICES ASSUME ShadowInvariant PROVE CampaignsAreBounded
        OBVIOUS
    <2>1. pairs \in Nat /\ pairs + Cardinality(InTheAir) < DailyBudget + Cardinality(Mirrors)
        BY DEF ShadowInvariant, ShadowTypes, Spendable
    <2>2. ShadowSpendBounded
        BY <2>1, AirIsBounded, ShadowAssumption DEF ShadowSpendBounded
    <2>3. QED
        BY <2>2 DEF ShadowInvariant, Gated, CampaignsAreBounded, ActiveWasGated
<1>2. QED
    BY <1>1, ShadowInitial, ShadowStep, PTL DEF ShadowSpec

\* The state of shadow evaluation is of its types, for any number of calls and processes.
THEOREM ShadowTypeCorrect == ShadowSpec => []ShadowTypeOK
<1>1. ShadowInvariant => ShadowTypeOK
    BY DEF ShadowInvariant, ShadowTypes, Campaign, MirrorType, CacheType, HeldDocument, ShadowTypeOK
<1>2. QED
    BY <1>1, ShadowInitial, ShadowStep, PTL DEF ShadowSpec

-----------------------------------------------------------------------------
(* Keys of the gateway. *)

KeyDocument == [st : {"on", "off", "revoked"}, kind : {"gateway", "read"}, root : Nat]
BearerType == [pc : {"idle", "read", "in"}, at : Processes \cup {None}, key : Nat,
               door : {None, "chat", "usage", "self"}, read : SUBSET Nat, ok : BOOLEAN]
RotationType == [pc : {"idle", "revoke", "mint"}, at : Processes \cup {None}, old : Nat]

KeyTypes ==
    /\ keys \in Seq(KeyDocument)
    /\ known \in [Processes -> {None} \cup SUBSET Nat]
    /\ bearer \in [Bearers -> BearerType]
    /\ rotation \in [Rotations -> RotationType]
    /\ ingested \in [Events -> [Ids -> 0..1]]

\* Whoever names a key names one that was made, of the kind of the one it began with.
KeysNamed ==
    /\ \A k \in DOMAIN keys : keys[k].root \in 1..k /\ keys[k].kind = keys[keys[k].root].kind
    /\ \A p \in Processes : known[p] # None => known[p] \subseteq DOMAIN keys
    /\ \A b \in Bearers : bearer[b].read \subseteq DOMAIN keys
    /\ \A q \in Rotations : rotation[q].pc # "idle" => rotation[q].old \in DOMAIN keys

KeysInvariant == KeyTypes /\ KeysNamed

LEMMA KeysInitial == KeysInit => KeysInvariant
<1> SUFFICES ASSUME KeysInit PROVE KeysInvariant
    OBVIOUS
<1>1. Stranger \in BearerType /\ Still \in RotationType /\ Stranger.read = {} /\ Still.pc = "idle"
    BY DEF Stranger, Still, BearerType, RotationType
<1>2. KeyTypes
    BY <1>1 DEF KeysInit, KeyTypes
<1>3. KeysNamed
    BY <1>1 DEF KeysInit, KeysNamed
<1>4. QED
    BY <1>2, <1>3 DEF KeysInvariant

LEMMA DocumentsAreTyped ==
    ASSUME KeysInvariant, NEW k \in DOMAIN keys
    PROVE  keys[k] \in KeyDocument /\ keys[k].st \in {"on", "off", "revoked"}
           /\ keys[k].kind \in {"gateway", "read"} /\ k \in 1..Len(keys)
<1>1. keys \in Seq(KeyDocument)
    BY DEF KeysInvariant, KeyTypes
<1>2. keys[k] \in KeyDocument /\ k \in 1..Len(keys)
    BY <1>1
<1>3. QED
    BY <1>2 DEF KeyDocument

\* A key that is made names one that was there, or begins a line of its own.
LEMMA AppendKeeps ==
    ASSUME KeysInvariant, NEW kind \in {"gateway", "read"}, NEW root \in 1..(Len(keys) + 1),
           root = Len(keys) + 1 \/ keys[root].kind = kind,
           keys' = Append(keys, Document(kind, root))
    PROVE  /\ keys' \in Seq(KeyDocument)
           /\ DOMAIN keys \subseteq DOMAIN keys'
           /\ \A k \in DOMAIN keys' : keys'[k].root \in 1..k /\ keys'[k].kind = keys'[keys'[k].root].kind
<1> DEFINE n == Len(keys) + 1
           doc == Document(kind, root)
<1>1. doc \in KeyDocument /\ doc.kind = kind /\ doc.root = root
    BY DEF Document, KeyDocument, KeysInvariant, KeyTypes
<1>2. keys \in Seq(KeyDocument)
    BY DEF KeysInvariant, KeyTypes
<1> HIDE DEF doc
<1>3. /\ keys' \in Seq(KeyDocument) /\ Len(keys') = n /\ keys'[n] = doc
      /\ \A k \in 1..Len(keys) : keys'[k] = keys[k]
    BY <1>1, <1>2 DEF doc
<1>4. ASSUME NEW k \in 1..Len(keys) PROVE keys'[k].root \in 1..k /\ keys'[k].kind = keys'[keys'[k].root].kind
    <2>1. keys[k].root \in 1..k /\ keys[k].kind = keys[keys[k].root].kind
        BY <1>2 DEF KeysInvariant, KeysNamed
    <2>2. keys[k].root \in 1..Len(keys)
        BY <1>2, <2>1
    <2>3. QED
        BY <1>3, <2>1, <2>2
<1>5. keys'[n].root \in 1..n /\ keys'[n].kind = keys'[keys'[n].root].kind
    <2>1. CASE root = n
        BY <1>1, <1>3, <2>1
    <2>2. CASE root # n
        <3>1. root \in 1..Len(keys)
            BY <1>2, <2>2
        <3>2. QED
            BY <1>1, <1>3, <2>2, <3>1
    <2>3. QED
        BY <2>1, <2>2
<1>6. DOMAIN keys = 1..Len(keys) /\ DOMAIN keys' = 1..n
    BY <1>2, <1>3
<1>7. \A k \in 1..n : k = n \/ k \in 1..Len(keys)
    BY <1>2
<1>8. DOMAIN keys \subseteq DOMAIN keys'
    BY <1>2, <1>6
<1> HIDE DEF n
<1>9. \A k \in DOMAIN keys' : keys'[k].root \in 1..k /\ keys'[k].kind = keys'[keys'[k].root].kind
    BY <1>4, <1>5, <1>6, <1>7
<1>10. QED
    BY <1>3, <1>8, <1>9

\* A change of status keeps the kind of a key and the key it began with.
LEMMA StatusKeeps ==
    ASSUME KeysInvariant, NEW k \in DOMAIN keys, NEW st \in {"on", "off", "revoked"},
           keys' = [keys EXCEPT ![k].st = st]
    PROVE  /\ keys' \in Seq(KeyDocument)
           /\ DOMAIN keys' = DOMAIN keys
           /\ \A i \in DOMAIN keys' : keys'[i].root \in 1..i /\ keys'[i].kind = keys'[keys'[i].root].kind
<1>1. keys \in Seq(KeyDocument) /\ keys[k] \in KeyDocument
    BY DEF KeysInvariant, KeyTypes
<1>2. [keys[k] EXCEPT !.st = st] \in KeyDocument
    BY <1>1 DEF KeyDocument
<1>3. keys' = [keys EXCEPT ![k] = [keys[k] EXCEPT !.st = st]]
    BY <1>1
<1>4. keys' \in Seq(KeyDocument) /\ DOMAIN keys' = DOMAIN keys
    BY <1>1, <1>2, <1>3
<1>5. \A i \in DOMAIN keys : keys'[i].root = keys[i].root /\ keys'[i].kind = keys[i].kind
    BY <1>1, <1>3 DEF KeyDocument
<1>6. \A i \in DOMAIN keys : keys[i].root \in DOMAIN keys
    BY <1>1 DEF KeysInvariant, KeysNamed
<1>7. QED
    BY <1>4, <1>5, <1>6 DEF KeysInvariant, KeysNamed

\* A step that makes or changes a key forgets a copy of them at most.
LEMMA WriteKeeps ==
    ASSUME KeysInvariant,
           keys' \in Seq(KeyDocument), DOMAIN keys \subseteq DOMAIN keys',
           \A k \in DOMAIN keys' : keys'[k].root \in 1..k /\ keys'[k].kind = keys'[keys'[k].root].kind,
           \/ UNCHANGED known
           \/ \E p : known' = [known EXCEPT ![p] = None],
           rotation' \in [Rotations -> RotationType],
           \A q \in Rotations : rotation'[q].pc # "idle" =>
                 rotation[q].pc # "idle" /\ rotation'[q].old = rotation[q].old,
           UNCHANGED <<bearer, ingested>>
    PROVE  KeysInvariant'
<1>1. /\ known' \in [Processes -> {None} \cup SUBSET Nat]
      /\ \A p \in Processes : known'[p] # None => known'[p] = known[p]
    BY DEF KeysInvariant, KeyTypes
<1>2. KeyTypes'
    BY <1>1 DEF KeysInvariant, KeyTypes
<1>3. KeysNamed'
    BY <1>1 DEF KeysInvariant, KeysNamed
<1>4. QED
    BY <1>2, <1>3 DEF KeysInvariant

LEMMA ConsoleKeepsKeys ==
    ASSUME KeysInvariant, NEW p \in Processes,
           \/ \E kind \in {"gateway", "read"} : CreateKey(p, kind)
           \/ \E k \in Ids : PatchKey(p, k) \/ RevokeKey(p, k)
    PROVE  KeysInvariant'
<1>1. /\ UNCHANGED <<bearer, rotation, ingested>> /\ known' = [known EXCEPT ![p] = None]
      /\ rotation' \in [Rotations -> RotationType]
    BY DEF CreateKey, PatchKey, RevokeKey, Forget, KeysInvariant, KeyTypes
<1>2. ASSUME NEW kind \in {"gateway", "read"}, CreateKey(p, kind) PROVE KeysInvariant'
    <2>1. keys' = Append(keys, Document(kind, Len(keys) + 1))
        BY <1>2 DEF CreateKey
    <2>2. Len(keys) + 1 \in 1..(Len(keys) + 1)
        BY DEF KeysInvariant, KeyTypes
    <2>3. QED
        BY <1>1, <2>1, <2>2, AppendKeeps, WriteKeeps
<1>3. ASSUME NEW k \in Ids, PatchKey(p, k) \/ RevokeKey(p, k) PROVE KeysInvariant'
    <2>1. k \in DOMAIN keys
        BY <1>3 DEF PatchKey, RevokeKey
    <2>2. keys[k].st \in {"on", "off", "revoked"}
        BY <2>1, DocumentsAreTyped
    <2>3. PICK st \in {"on", "off", "revoked"} : keys' = [keys EXCEPT ![k].st = st]
        <3>1. CASE PatchKey(p, k)
            <4> DEFINE st == CASE keys[k].st = "on" -> "off" [] keys[k].st = "off" -> "on" [] OTHER -> keys[k].st
            <4>1. st \in {"on", "off", "revoked"}
                BY <2>2
            <4>2. keys' = [keys EXCEPT ![k].st = st]
                BY <3>1 DEF PatchKey
            <4>3. QED
                BY <4>1, <4>2
        <3>2. CASE RevokeKey(p, k)
            BY <3>2 DEF RevokeKey
        <3>3. QED
            BY <1>3, <3>1, <3>2
    <2>4. QED
        BY <1>1, <2>1, <2>3, StatusKeeps, WriteKeeps
<1>4. QED
    BY <1>2, <1>3

LEMMA RotationKeeps ==
    ASSUME KeysInvariant, NEW q \in Rotations,
           RotationStep(q) \/ \E p \in Processes, k \in Ids : Rotate(q, p, k)
    PROVE  KeysInvariant'
<1>1. rotation[q] \in RotationType /\ Still \in RotationType /\ Still.pc = "idle"
    BY DEF KeysInvariant, KeyTypes, RotationType, Still
<1>2. ASSUME NEW p \in Processes, NEW k \in Ids, Rotate(q, p, k) PROVE KeysInvariant'
    <2> DEFINE new == [pc |-> "revoke", at |-> p, old |-> k]
    <2>1. k \in DOMAIN keys /\ rotation' = [rotation EXCEPT ![q] = new]
          /\ UNCHANGED <<keys, known, bearer, ingested>>
        BY <1>2 DEF Rotate
    <2>2. new \in RotationType /\ new.old = k
        BY KeysAssumption DEF RotationType, Ids
    <2> HIDE DEF new
    <2>3. KeyTypes'
        BY <2>1, <2>2 DEF KeysInvariant, KeyTypes
    <2>4. \A r \in Rotations : rotation'[r] = IF r = q THEN new ELSE rotation[r]
        BY <2>1 DEF KeysInvariant, KeyTypes
    <2>5. KeysNamed'
        BY <2>1, <2>2, <2>4 DEF KeysInvariant, KeysNamed
    <2>6. QED
        BY <2>3, <2>5 DEF KeysInvariant
<1>3. CASE RevokeOld(q)
    <2> DEFINE new == [rotation[q] EXCEPT !.pc = "mint"]
    <2>1. rotation[q].pc = "revoke" /\ rotation[q].old \in DOMAIN keys
        BY <1>3 DEF RevokeOld, KeysInvariant, KeysNamed
    <2>2. new \in RotationType /\ new.old = rotation[q].old
        BY <1>1 DEF RotationType
    <2>3. rotation' = [rotation EXCEPT ![q] = new]
          /\ keys' = [keys EXCEPT ![rotation[q].old].st = "revoked"] /\ UNCHANGED <<known, bearer, ingested>>
        BY <1>3 DEF RevokeOld, KeysInvariant, KeyTypes
    <2> HIDE DEF new
    <2>4. rotation' \in [Rotations -> RotationType]
          /\ \A r \in Rotations : rotation'[r].pc # "idle" =>
                rotation[r].pc # "idle" /\ rotation'[r].old = rotation[r].old
        BY <2>1, <2>2, <2>3 DEF KeysInvariant, KeyTypes
    <2>5. QED
        BY <2>1, <2>3, <2>4, StatusKeeps, WriteKeeps
<1>4. CASE MintNew(q)
    <2> DEFINE old == keys[rotation[q].old]
    <2>1. rotation[q].pc = "mint" /\ rotation[q].old \in DOMAIN keys
        BY <1>4 DEF MintNew, KeysInvariant, KeysNamed
    <2>2. /\ keys' = Append(keys, Document(old.kind, old.root))
          /\ known' = [known EXCEPT ![rotation[q].at] = None]
          /\ rotation' = [rotation EXCEPT ![q] = Still] /\ UNCHANGED <<bearer, ingested>>
        BY <1>4 DEF MintNew, Forget
    <2>3. keys \in Seq(KeyDocument)
        BY DEF KeysInvariant, KeyTypes
    <2>4. old.kind \in {"gateway", "read"} /\ old.root \in 1..(Len(keys) + 1) /\ keys[old.root].kind = old.kind
        <3>1. old.kind \in {"gateway", "read"} /\ rotation[q].old \in 1..Len(keys)
            BY <2>1, DocumentsAreTyped
        <3>2. old.root \in 1..rotation[q].old /\ keys[old.root].kind = old.kind
            BY <2>1 DEF KeysInvariant, KeysNamed
        <3>3. Len(keys) \in Nat
            BY <2>3
        <3>4. QED
            BY <3>1, <3>2, <3>3
    <2> HIDE DEF old
    <2>5. rotation' \in [Rotations -> RotationType]
          /\ \A r \in Rotations : rotation'[r].pc # "idle" =>
                rotation[r].pc # "idle" /\ rotation'[r].old = rotation[r].old
        BY <1>1, <2>2 DEF KeysInvariant, KeyTypes
    <2>6. QED
        BY <2>2, <2>4, <2>5, AppendKeeps, WriteKeeps
<1>5. CASE RotationFails(q)
    <2>1. rotation' = [rotation EXCEPT ![q] = Still] /\ UNCHANGED <<keys, known, bearer, ingested>>
        BY <1>5 DEF RotationFails
    <2>2. rotation' \in [Rotations -> RotationType]
          /\ \A r \in Rotations : rotation'[r].pc # "idle" => rotation'[r] = rotation[r]
        BY <1>1, <2>1 DEF KeysInvariant, KeyTypes
    <2>3. QED
        BY <2>1, <2>2 DEF KeysInvariant, KeyTypes, KeysNamed
<1>6. QED
    BY <1>2, <1>3, <1>4, <1>5 DEF RotationStep

\* A request names keys that were read, and the record of an event is made once.
LEMMA BearerKeeps ==
    ASSUME KeysInvariant, NEW b \in Bearers,
           \/ BearerStep(b) \/ \E e \in Events : Ingest(b, e)
           \/ \E p \in Processes, k \in Ids, door \in {"chat", "usage", "self"} : Present(b, p, k, door)
    PROVE  KeysInvariant'
<1>1. keys \in Seq(KeyDocument) /\ DOMAIN keys \subseteq Nat /\ bearer[b] \in BearerType
    BY DEF KeysInvariant, KeyTypes
<1>2. ASSUME NEW new \in BearerType, new.read \subseteq DOMAIN keys, bearer' = [bearer EXCEPT ![b] = new],
             NEW list \in SUBSET DOMAIN keys,
             UNCHANGED known \/ known' = [known EXCEPT ![bearer[b].at] = list],
             UNCHANGED <<keys, rotation, ingested>>
      PROVE  KeysInvariant'
    <2>1. list \in SUBSET Nat
        BY <1>1
    <2>2. KeyTypes'
        BY <1>2, <2>1 DEF KeysInvariant, KeyTypes
    <2>3. \A c \in Bearers : bearer'[c] = IF c = b THEN new ELSE bearer[c]
        BY <1>2 DEF KeysInvariant, KeyTypes
    <2>4. \A p \in Processes : known'[p] = known[p] \/ known'[p] = list
        BY <1>2 DEF KeysInvariant, KeyTypes
    <2>5. KeysNamed'
        BY <1>2, <2>3, <2>4 DEF KeysInvariant, KeysNamed
    <2>6. QED
        BY <2>2, <2>5 DEF KeysInvariant
<1>3. ASSUME NEW p \in Processes, NEW k \in Ids, NEW door \in {"chat", "usage", "self"}, Present(b, p, k, door)
      PROVE  KeysInvariant'
    <2> DEFINE read == IF known[p] = None THEN UsableKeys ELSE {}
               ok == known[p] # None /\ Admits(known[p], k, door)
               new == [Stranger EXCEPT !.pc = IF known[p] = None THEN "read" ELSE "in", !.at = p, !.key = k,
                                       !.door = door, !.read = read, !.ok = ok]
    <2>1. bearer' = [bearer EXCEPT ![b] = new] /\ UNCHANGED <<keys, known, rotation, ingested>>
        BY <1>3 DEF Present
    <2>2. read \subseteq DOMAIN keys /\ ok \in BOOLEAN
        BY DEF UsableKeys, Admits
    <2> HIDE DEF read, ok
    <2>3. k \in Nat
        BY KeysAssumption DEF Ids
    <2>4. new \in BearerType /\ new.read = read
        BY <1>1, <2>2, <2>3 DEF Stranger, BearerType
    <2> HIDE DEF new
    <2>5. QED
        BY <1>2, <2>1, <2>2, <2>4
<1>4. CASE KeysRead(b)
    <2> DEFINE ok == Admits(bearer[b].read, bearer[b].key, bearer[b].door)
               new == [bearer[b] EXCEPT !.pc = "in", !.read = {}, !.ok = ok]
    <2>1. bearer' = [bearer EXCEPT ![b] = new] /\ known' = [known EXCEPT ![bearer[b].at] = bearer[b].read]
          /\ UNCHANGED <<keys, rotation, ingested>>
        BY <1>4 DEF KeysRead, KeysInvariant, KeyTypes
    <2>2. ok \in BOOLEAN
        BY DEF Admits
    <2> HIDE DEF ok
    <2>3. new \in BearerType /\ new.read = {}
        BY <1>1, <2>2 DEF BearerType
    <2>4. bearer[b].read \in SUBSET DOMAIN keys
        BY DEF KeysInvariant, KeysNamed
    <2> HIDE DEF new
    <2>5. QED
        BY <1>2, <2>1, <2>3, <2>4
<1>5. CASE Finish(b)
    <2>1. bearer' = [bearer EXCEPT ![b] = Stranger] /\ UNCHANGED <<keys, known, rotation, ingested>>
        BY <1>5 DEF Finish
    <2>2. Stranger \in BearerType /\ Stranger.read = {} /\ {} \in SUBSET DOMAIN keys
        BY DEF Stranger, BearerType
    <2>3. QED
        BY <1>2, <2>1, <2>2
<1>6. ASSUME NEW e \in Events, Ingest(b, e) PROVE KeysInvariant'
    <2>1. ingested' = [ingested EXCEPT ![e] = [ingested[e] EXCEPT ![bearer[b].key] = 1]]
          /\ UNCHANGED <<keys, known, bearer, rotation>>
        BY <1>6 DEF Ingest, KeysInvariant, KeyTypes
    <2>2. ingested[e] \in [Ids -> 0..1] /\ 1 \in 0..1
        BY DEF KeysInvariant, KeyTypes
    <2>3. [ingested[e] EXCEPT ![bearer[b].key] = 1] \in [Ids -> 0..1]
        BY <2>2
    <2>4. QED
        BY <2>1, <2>3 DEF KeysInvariant, KeyTypes, KeysNamed
<1>7. QED
    BY <1>3, <1>4, <1>5, <1>6 DEF BearerStep

LEMMA KeysStep == KeysInvariant /\ [KeysNext]_KeyVars => KeysInvariant'
<1> SUFFICES ASSUME KeysInvariant, [KeysNext]_KeyVars PROVE KeysInvariant'
    OBVIOUS
<1>1. CASE UNCHANGED KeyVars
    BY <1>1 DEF KeyVars, KeysInvariant, KeyTypes, KeysNamed
<1>2. ASSUME NEW p \in Processes, KnownExpire(p) PROVE KeysInvariant'
    BY <1>2 DEF KnownExpire, Forget, KeysInvariant, KeyTypes, KeysNamed
<1>3. QED
    BY <1>1, <1>2, ConsoleKeepsKeys, RotationKeeps, BearerKeeps DEF KeysNext

\* Keys begin with a key made before them, and a process knows keys that were made.
LEMMA KeysImplied == KeysInvariant => KeysTypeOK
<1> SUFFICES ASSUME KeysInvariant PROVE KeysTypeOK
    OBVIOUS
<1>1. \A k \in DOMAIN keys : keys[k] \in KeyDocument
    BY DEF KeysInvariant, KeyTypes
<1>2. \A k \in DOMAIN keys : keys[k].st \in {"on", "off", "revoked"}
    BY <1>1 DEF KeyDocument
<1>3. QED
    BY <1>2 DEF KeysInvariant, KeysNamed, KeysTypeOK

\* For any number of processes, keys, requests and rotations.
THEOREM KeysAlwaysKept == KeysSpec => []KeysAreKept
<1>1. KeysInvariant => KeysAreKept
    <2> SUFFICES ASSUME KeysInvariant PROVE KeysAreKept
        OBVIOUS
    <2>1. \A e \in Events, k \in Ids : ingested[e][k] <= 1
        BY DEF KeysInvariant, KeyTypes
    <2>2. QED
        BY <2>1 DEF KeysInvariant, KeysNamed, KeysAreKept, RotationKeepsKind, IngestedOnce
<1>2. QED
    BY <1>1, KeysInitial, KeysStep, PTL DEF KeysSpec

-----------------------------------------------------------------------------
(* Keys of a provider. *)

Names == KeyNames \cup {"env"}
Hosts == {"builtin", "custom"}
KeysOf(home) == {key \in Keys : key.home = home}
StoredRow == [key : KeysOf("builtin"), top : BOOLEAN]
Rows == [KeyNames -> {None} \cup StoredRow]
View == [keys : [Names -> {None} \cup Keys], default : Names \cup {None}, host : Hosts \cup {None}]
Router == [sig : {None} \cup (Names \X Tails), key : {None} \cup Keys, host : Hosts \cup {None}]
CallerType == [pc : {"idle", "rows", "fill", "sent"}, at : Processes \cup {None}, rows : {None} \cup Rows,
               view : View, pin : Pins, sent : Router]
OwnerType == [op : {"none", "set", "top", "remove", "disconnect", "custom", "secret"},
              pc : {"idle", "clear", "store", "flag", "delete", "succeed", "drop"},
              at : Processes \cup {None}, alias : KeyNames \cup {None}, top : BOOLEAN]

\* A view is empty, or its keys are all of one host and its default is one of them.
ViewSound(view) ==
    \/ view = Dark
    \/ /\ view.default \in Names /\ view.keys[view.default] \in Keys /\ view.host \in Hosts
       /\ \A a \in Names : view.keys[a] # None => view.keys[a].home = view.host

\* A router is none, or sends its key home and is known by what that key ends in.
RouterSound(router) ==
    \/ router = NoRouter
    \/ router.key \in Keys /\ router.host = router.key.home /\ router.sig[2] = LastTwelve(router.key)

CallerSound(x) ==
    /\ x.pc \in {"rows", "fill"} => x.at \in Processes
    /\ x.pc = "rows" => x.rows \in Rows
    /\ x.pc \in {"fill", "sent"} => ViewSound(x.view)
    /\ x.sent.key # None => x.sent.key.home = x.sent.host
    /\ x.pc = "sent" /\ x.view # Dark /\ ~TailIsCommon => x.sent.key = CredentialOf(x.view, x.pin)

StoreTypes ==
    /\ rows \in Rows
    /\ custom \in {None} \cup KeysOf("custom")
    /\ envKey \in [Processes -> {None} \cup KeysOf("builtin")]
    /\ minted \in 0..KeyChanges

ChangeTypes == owner \in [Owners -> OwnerType]

CallTypes ==
    /\ views \in [Processes -> {None} \cup View]
    /\ \A p \in Processes : views[p] # None => ViewSound(views[p])
    /\ routers \in [Processes -> Router] /\ \A p \in Processes : RouterSound(routers[p])
    /\ caller \in [Callers -> CallerType] /\ \A c \in Callers : CallerSound(caller[c])

ConnInvariant == StoreTypes /\ ChangeTypes /\ CallTypes

-----------------------------------------------------------------------------
LEMMA ConnConstants ==
    /\ None \notin Names /\ None \notin Keys /\ None \notin Names \X Tails /\ "env" \notin KeyNames
    /\ "default" \in KeyNames /\ "default" \in Names /\ "env" \in Names /\ KeyChanges \in Nat
BY KeyAssumption, ConnAssumption DEF Names

\* Keys that end alike are of one host, and the same where credentials tell themselves apart.
LEMMA TailsTell ==
    ASSUME NEW k \in Keys, NEW l \in Keys
    PROVE  /\ LastTwelve(k) \in Tails
           /\ LastTwelve(k) = LastTwelve(l) => k.home = l.home /\ (~TailIsCommon => k = l)
<1>1. CommonTail.no = 0 /\ CommonTail.home = "builtin" /\ k.no # 0 /\ l.no # 0
    BY ConnConstants DEF CommonTail, Key, Keys
<1>2. k.home \in {"builtin", "custom"} /\ l.home \in {"builtin", "custom"}
    BY DEF Keys
<1>3. QED
    BY <1>1, <1>2 DEF LastTwelve, Tails

LEMMA ConnEmpties ==
    /\ Dark \in View /\ ViewSound(Dark) /\ Dark.keys \in [Names -> {None}]
    /\ NoRouter \in Router /\ RouterSound(NoRouter) /\ NoRouter.key = None /\ NoRouter.sig = None
    /\ AtRest \in CallerType /\ CallerSound(AtRest)
    /\ Settled \in OwnerType
<1>1. Dark \in View /\ ViewSound(Dark) /\ Dark.keys \in [Names -> {None}]
    BY DEF Dark, View, ViewSound, Names
<1>2. NoRouter \in Router /\ RouterSound(NoRouter) /\ NoRouter.key = None /\ NoRouter.sig = None
    BY DEF NoRouter, Router, RouterSound
<1>3. /\ AtRest \in CallerType /\ AtRest.pc = "idle" /\ AtRest.sent = NoRouter
    BY <1>1, <1>2 DEF AtRest, CallerType, Pins
<1>4. CallerSound(AtRest)
    BY <1>2, <1>3 DEF CallerSound
<1>5. Settled \in OwnerType
    BY DEF Settled, OwnerType
<1>6. QED
    BY <1>1, <1>2, <1>3, <1>4, <1>5

LEMMA ConnInitial == ConnInit => ConnInvariant
<1> SUFFICES ASSUME ConnInit PROVE ConnInvariant
    OBVIOUS
<1>1. StoreTypes
    BY ConnConstants DEF ConnInit, StoreTypes, Rows
<1>2. ChangeTypes
    BY ConnEmpties DEF ConnInit, ChangeTypes
<1>3. CallTypes
    BY ConnEmpties DEF ConnInit, CallTypes
<1>4. QED
    BY <1>1, <1>2, <1>3 DEF ConnInvariant

-----------------------------------------------------------------------------
\* The view of a provider: the keys of its rows and of the environment, or those of the
\* custom provider that replaces it.

LEMMA PreferredIsStored ==
    ASSUME NEW r \in Rows, StoredNames(r) # {}
    PROVE  Preferred(r) \in StoredNames(r)
<1> DEFINE flagged == {a \in StoredNames(r) : r[a].top}
           best == IF flagged # {} THEN flagged ELSE StoredNames(r)
<1>1. best # {} /\ best \subseteq StoredNames(r)
    OBVIOUS
<1>2. Preferred(r) = IF "default" \in best THEN "default" ELSE CHOOSE a \in best : TRUE
    BY DEF Preferred
<1> HIDE DEF best
<1>3. Preferred(r) \in best
    BY <1>1, <1>2
<1>4. QED
    BY <1>1, <1>3

LEMMA BuiltinViewSound ==
    ASSUME NEW r \in Rows, NEW e \in {None} \cup KeysOf("builtin")
    PROVE  LET view == BuiltinView(r, e)
           IN  view \in View /\ ViewSound(view) /\ (view = Dark \/ view.host = "builtin")
<1> DEFINE names == StoredNames(r)
           secrets == [a \in Names |-> IF a = "env" THEN e ELSE IF a \in names THEN r[a].key ELSE None]
           default == IF e # None THEN "env" ELSE Preferred(r)
           view == [keys |-> secrets, default |-> default, host |-> "builtin"]
<1>1. CASE names = {} /\ e = None
    BY <1>1, ConnEmpties DEF BuiltinView
<1>2. CASE ~(names = {} /\ e = None)
    <2>1. BuiltinView(r, e) = view
        BY <1>2 DEF BuiltinView, Names
    <2>2. \A a \in names : a \in KeyNames /\ r[a].key \in KeysOf("builtin")
        BY DEF StoredNames, Rows, StoredRow
    <2>3. \A a \in Names : secrets[a] \in {None} \cup KeysOf("builtin")
        BY <2>2
    <2>4. default \in Names /\ secrets[default] \in KeysOf("builtin")
        <3>1. CASE e # None
            BY <3>1, ConnConstants
        <3>2. CASE e = None
            <4>1. Preferred(r) \in names
                BY <1>2, <3>2, PreferredIsStored
            <4>2. QED
                BY <2>2, <3>2, <4>1, ConnConstants DEF Names
        <3>3. QED
            BY <3>1, <3>2
    <2>5. secrets \in [Names -> {None} \cup Keys]
        BY <2>3 DEF KeysOf
    <2> HIDE DEF secrets, default
    <2>6. view \in View /\ view.default = default /\ view.keys = secrets /\ view.host = "builtin"
        BY <2>4, <2>5 DEF View, Hosts
    <2> HIDE DEF view
    <2>7. ViewSound(view)
        BY <2>3, <2>4, <2>6 DEF ViewSound, KeysOf, Hosts
    <2>8. QED
        BY <2>1, <2>6, <2>7
<1>3. QED
    BY <1>1, <1>2

LEMMA ShadowingSound ==
    ASSUME NEW v \in View, ViewSound(v), NEW key \in {None} \cup KeysOf("custom")
    PROVE  Shadowing(v, key) \in View /\ ViewSound(Shadowing(v, key))
<1> DEFINE secrets == [Dark.keys EXCEPT !["default"] = key]
           view == [keys |-> secrets, default |-> "default", host |-> "custom"]
<1>1. CASE key = None
    BY <1>1 DEF Shadowing
<1>2. CASE key # None
    <2>1. Shadowing(v, key) = view
        BY <1>2 DEF Shadowing
    <2>2. key \in Keys /\ key.home = "custom"
        BY <1>2 DEF KeysOf
    <2>3. /\ secrets \in [Names -> {None} \cup Keys]
          /\ \A a \in Names : secrets[a] = IF a = "default" THEN key ELSE None
        BY <2>2, ConnEmpties, ConnConstants
    <2> HIDE DEF secrets
    <2>4. view \in View /\ view.default = "default" /\ view.keys = secrets /\ view.host = "custom"
        BY <2>3, ConnConstants DEF View, Hosts
    <2> HIDE DEF view
    <2>5. ViewSound(view)
        BY <2>2, <2>3, <2>4, ConnConstants DEF ViewSound, Hosts
    <2>6. QED
        BY <2>1, <2>4, <2>5
<1>3. QED
    BY <1>1, <1>2

\* The router that answers to the signature of a view sends home a key of the same host,
\* which is the default key of the view where credentials tell themselves apart.
LEMMA RouterIsOfTheView ==
    ASSUME NEW memo \in Router, RouterSound(memo), NEW v \in View, ViewSound(v), v # Dark
    PROVE  LET router == RouterFor(memo, v)
           IN  /\ router \in Router /\ RouterSound(router) /\ router.key \in Keys
               /\ router.host = v.host /\ router.key.home = v.host
               /\ ~TailIsCommon => router.key = v.keys[v.default]
<1> DEFINE key == v.keys[v.default]
           new == [sig |-> Signature(v), key |-> key, host |-> v.host]
<1>1. v.default \in Names /\ key \in Keys /\ v.host \in Hosts /\ key.home = v.host
    BY ConnConstants DEF ViewSound
<1>2. Signature(v) = <<v.default, LastTwelve(key)>> /\ LastTwelve(key) \in Tails
    BY <1>1, TailsTell DEF Signature
<1>3. Signature(v) \in Names \X Tails /\ Signature(v)[2] = LastTwelve(key) /\ Signature(v) # None
    BY <1>1, <1>2, ConnConstants
<1>4. CASE memo.sig = Signature(v)
    <2>1. RouterFor(memo, v) = memo
        BY <1>4 DEF RouterFor
    <2>2. memo # NoRouter
        BY <1>3, <1>4, ConnEmpties
    <2>3. memo.key \in Keys /\ memo.host = memo.key.home /\ LastTwelve(memo.key) = LastTwelve(key)
        BY <1>3, <1>4, <2>2 DEF RouterSound
    <2> HIDE DEF key
    <2>4. memo.key.home = key.home /\ (~TailIsCommon => memo.key = key)
        BY <1>1, <2>3, TailsTell
    <2>5. QED
        BY <1>1, <2>1, <2>3, <2>4 DEF key
<1>5. CASE memo.sig # Signature(v)
    <2>1. RouterFor(memo, v) = new
        BY <1>5 DEF RouterFor
    <2> HIDE DEF key
    <2>2. new \in Router /\ new.key = key /\ new.host = v.host /\ new.sig = Signature(v)
        BY <1>1, <1>3 DEF Router
    <2> HIDE DEF new
    <2>3. RouterSound(new)
        BY <1>1, <1>3, <2>2 DEF RouterSound
    <2>4. QED
        BY <1>1, <2>1, <2>2, <2>3 DEF key
<1>6. QED
    BY <1>4, <1>5

\* What is sent goes home, and is the key that the view gives for the pin where credentials
\* tell themselves apart.
LEMMA DispatchIsOfTheView ==
    ASSUME NEW router \in Router, NEW v \in View, ViewSound(v), v # Dark, NEW pin \in Pins,
           router.key.home = v.host, router.host = v.host,
           ~TailIsCommon => router.key = v.keys[v.default]
    PROVE  LET sent == Dispatch(router, v, pin)
           IN  /\ sent \in Router /\ (~TailIsCommon => sent.key = CredentialOf(v, pin))
               /\ (sent.key # None => sent.key.home = sent.host)
<1>1. CASE pin = None \/ v.keys[pin] = None \/ pin = v.default
    BY <1>1 DEF Dispatch, CredentialOf
<1>2. CASE ~(pin = None \/ v.keys[pin] = None \/ pin = v.default)
    <2> DEFINE key == v.keys[pin]
               sent == [router EXCEPT !.key = key]
    <2>1. pin \in Names /\ Dispatch(router, v, pin) = sent /\ CredentialOf(v, pin) = key
        BY <1>2 DEF Pins, Names, Dispatch, CredentialOf
    <2>2. key \in Keys /\ key.home = v.host
        BY <1>2, <2>1 DEF View, ViewSound
    <2> HIDE DEF key
    <2>3. sent \in Router /\ sent.key = key /\ sent.host = v.host
        BY <2>2 DEF Router
    <2> HIDE DEF sent
    <2>4. QED
        BY <2>1, <2>2, <2>3
<1>3. QED
    BY <1>1, <1>2

-----------------------------------------------------------------------------
\* Calls leave the store and the changes alone.

LEMMA CallerMoves ==
    ASSUME CallTypes, NEW c \in Callers, NEW new \in CallerType, CallerSound(new),
           caller' = [caller EXCEPT ![c] = new],
           views' \in [Processes -> {None} \cup View],
           \A p \in Processes : views'[p] # None => ViewSound(views'[p]),
           routers' \in [Processes -> Router], \A p \in Processes : RouterSound(routers'[p])
    PROVE  CallTypes'
<1>1. /\ caller' \in [Callers -> CallerType]
      /\ \A d \in Callers : caller'[d] = IF d = c THEN new ELSE caller[d]
    BY DEF CallTypes
<1>2. \A d \in Callers : CallerSound(caller'[d])
    BY <1>1 DEF CallTypes
<1>3. QED
    BY <1>1, <1>2 DEF CallTypes

LEMMA UseViewKeeps ==
    ASSUME ConnInvariant, NEW c \in Callers, NEW p \in Processes, NEW STATE v, v \in View, ViewSound(v),
           NEW pin \in Pins,
           views' \in [Processes -> {None} \cup View],
           \A q \in Processes : views'[q] # None => ViewSound(views'[q]),
           UseView(c, p, v, pin), UNCHANGED <<rows, custom, envKey, owner, minted>>
    PROVE  ConnInvariant'
<1> DEFINE router == IF v = Dark THEN NoRouter ELSE RouterFor(routers[p], v)
           sent == IF v = Dark THEN router ELSE Dispatch(router, v, pin)
           new == [AtRest EXCEPT !.pc = "sent", !.at = p, !.view = v, !.pin = pin, !.sent = sent]
<1>1. routers' = [routers EXCEPT ![p] = router] /\ caller' = [caller EXCEPT ![c] = new]
    BY DEF UseView
<1>2. routers \in [Processes -> Router] /\ \A q \in Processes : RouterSound(routers[q])
    BY DEF ConnInvariant, CallTypes
<1>3. /\ router \in Router /\ RouterSound(router)
      /\ v # Dark => router.key.home = v.host /\ router.host = v.host
      /\ v # Dark /\ ~TailIsCommon => router.key = v.keys[v.default]
    <2>1. CASE v = Dark
        BY <2>1, ConnEmpties
    <2>2. CASE v # Dark
        <3>1. routers[p] \in Router /\ RouterSound(routers[p])
            BY <1>2, <2>2
        <3>2. router = RouterFor(routers[p], v)
            BY <2>2
        <3> HIDE DEF router
        <3>3. QED
            BY <2>2, <3>1, <3>2, RouterIsOfTheView
    <2>3. QED
        BY <2>1, <2>2
<1>4. /\ sent \in Router /\ (v # Dark /\ ~TailIsCommon => sent.key = CredentialOf(v, pin))
      /\ (sent.key # None => sent.key.home = sent.host)
    <2>1. CASE v = Dark
        BY <2>1, ConnEmpties
    <2>2. CASE v # Dark
        <3>1. sent = Dispatch(router, v, pin)
            BY <2>2
        <3> HIDE DEF router, sent
        <3>2. QED
            BY <1>3, <2>2, <3>1, DispatchIsOfTheView
    <2>3. QED
        BY <2>1, <2>2
<1> HIDE DEF router, sent
<1>5. /\ routers' \in [Processes -> Router]
      /\ \A q \in Processes : routers'[q] = router \/ routers'[q] = routers[q]
    BY <1>1, <1>2, <1>3
<1>6. \A q \in Processes : RouterSound(routers'[q])
    BY <1>2, <1>3, <1>5
<1>7. /\ new \in CallerType /\ new.pc = "sent" /\ new.view = v /\ new.pin = pin /\ new.sent = sent
    BY <1>4, ConnEmpties DEF CallerType
<1> HIDE DEF new
<1>8. CallerSound(new)
    BY <1>4, <1>7 DEF CallerSound
<1>9. CallTypes
    BY DEF ConnInvariant
<1>10. CallTypes'
    BY <1>1, <1>5, <1>6, <1>7, <1>8, <1>9, CallerMoves
<1>11. QED
    BY <1>10 DEF ConnInvariant, StoreTypes, ChangeTypes

LEMMA CallsKeep ==
    ASSUME ConnInvariant, NEW c \in Callers,
           \/ CallStep(c)
           \/ \E p \in Processes : Miss(c, p) \/ \E pin \in Pins : Hit(c, p, pin)
    PROVE  ConnInvariant'
<1> DEFINE x == caller[c]
<1>1. CallTypes /\ x \in CallerType /\ CallerSound(x) /\ StoreTypes
    BY DEF ConnInvariant, CallTypes
<1>2. /\ views \in [Processes -> {None} \cup View]
      /\ \A q \in Processes : views[q] # None => ViewSound(views[q])
      /\ routers \in [Processes -> Router] /\ \A q \in Processes : RouterSound(routers[q])
    BY <1>1 DEF CallTypes
<1>3. ASSUME NEW p \in Processes, Miss(c, p) PROVE ConnInvariant'
    <2> DEFINE new == [AtRest EXCEPT !.pc = "rows", !.at = p, !.rows = rows]
    <2>1. caller' = [caller EXCEPT ![c] = new] /\ UNCHANGED <<rows, custom, envKey, views, routers, owner, minted>>
        BY <1>3 DEF Miss
    <2>2. new \in CallerType /\ new.pc = "rows" /\ new.rows = rows /\ new.sent = NoRouter /\ new.at = p
        <3>1. AtRest.sent = NoRouter /\ rows \in Rows
            BY <1>1 DEF AtRest, StoreTypes
        <3>2. QED
            BY <3>1, ConnEmpties DEF CallerType
    <2> HIDE DEF new
    <2>3. CallerSound(new)
        BY <1>1, <2>2, ConnEmpties DEF CallerSound, StoreTypes
    <2>4. CallTypes'
        BY <1>1, <1>2, <2>1, <2>2, <2>3, CallerMoves
    <2>5. QED
        BY <2>1, <2>4 DEF ConnInvariant, StoreTypes, ChangeTypes
<1>4. ASSUME NEW p \in Processes, NEW pin \in Pins, Hit(c, p, pin) PROVE ConnInvariant'
    <2>1. views[p] \in View /\ ViewSound(views[p])
        BY <1>2, <1>4 DEF Hit
    <2>2. UseView(c, p, views[p], pin) /\ UNCHANGED <<rows, custom, envKey, views, owner, minted>>
        BY <1>4 DEF Hit
    <2>3. QED
        BY <1>2, <2>1, <2>2, UseViewKeeps
<1>5. CASE Merge(c)
    <2> DEFINE builtin == BuiltinView(x.rows, envKey[x.at])
               view == Shadowing(builtin, custom)
               new == [x EXCEPT !.pc = "fill", !.rows = None, !.view = view]
    <2>1. /\ caller' = [caller EXCEPT ![c] = new] /\ x.pc = "rows"
          /\ UNCHANGED <<rows, custom, envKey, views, routers, owner, minted>>
        BY <1>1, <1>5 DEF Merge, CallTypes
    <2>2. x.rows \in Rows
        BY <1>1, <2>1 DEF CallerSound
    <2>3. builtin \in View /\ ViewSound(builtin)
        <3>1. envKey[x.at] \in {None} \cup KeysOf("builtin")
            BY <1>1, <2>1 DEF CallerSound, StoreTypes
        <3>2. QED
            BY <2>2, <3>1, BuiltinViewSound
    <2>4. view \in View /\ ViewSound(view)
        <3> HIDE DEF builtin
        <3>1. QED
            BY <1>1, <2>3, ShadowingSound DEF StoreTypes
    <2> HIDE DEF view
    <2>5. new \in CallerType /\ new.pc = "fill" /\ new.view = view /\ new.sent = x.sent /\ new.at = x.at
        BY <1>1, <2>4 DEF CallerType
    <2> HIDE DEF new
    <2>6. CallerSound(new)
        BY <1>1, <2>1, <2>4, <2>5 DEF CallerSound
    <2>7. CallTypes'
        BY <1>1, <1>2, <2>1, <2>5, <2>6, CallerMoves
    <2>8. QED
        BY <2>1, <2>7 DEF ConnInvariant, StoreTypes, ChangeTypes
<1>6. CASE Over(c)
    <2>1. caller' = [caller EXCEPT ![c] = AtRest] /\ UNCHANGED <<rows, custom, envKey, views, routers, owner, minted>>
        BY <1>6 DEF Over
    <2>2. CallTypes'
        BY <1>1, <1>2, <2>1, ConnEmpties, CallerMoves
    <2>3. QED
        BY <2>1, <2>2 DEF ConnInvariant, StoreTypes, ChangeTypes
<1>7. ASSUME NEW pin \in Pins, FillView(c, pin) PROVE ConnInvariant'
    <2>1. x.pc = "fill" /\ views' = [views EXCEPT ![x.at] = x.view] /\ UseView(c, x.at, x.view, pin)
          /\ UNCHANGED <<rows, custom, envKey, owner, minted>>
        BY <1>7 DEF FillView
    <2>2. x.at \in Processes /\ x.view \in View /\ ViewSound(x.view)
        BY <1>1, <2>1 DEF CallerSound, CallerType
    <2> HIDE DEF x
    <2>3. views' \in [Processes -> {None} \cup View]
          /\ \A q \in Processes : views'[q] = IF q = x.at THEN x.view ELSE views[q]
        BY <1>2, <2>1, <2>2
    <2>4. \A q \in Processes : views'[q] # None => ViewSound(views'[q])
        BY <1>2, <2>2, <2>3
    <2>5. QED
        BY <2>1, <2>2, <2>3, <2>4, UseViewKeeps
<1>8. QED
    BY <1>3, <1>4, <1>5, <1>6, <1>7 DEF CallStep

LEMMA ExpiryKeeps ==
    ASSUME CallTypes, NEW p, views' = [views EXCEPT ![p] = None], UNCHANGED <<routers, caller>>
    PROVE  CallTypes'
BY DEF CallTypes

-----------------------------------------------------------------------------
\* Changes leave the routers and the calls alone.

LEMMA ChangeMoves ==
    ASSUME ChangeTypes, NEW o \in Owners,
           \/ \E new \in OwnerType : owner' = [owner EXCEPT ![o] = new]
           \/ \E pc \in {"store", "flag", "drop", "succeed"} : owner' = [owner EXCEPT ![o].pc = pc]
    PROVE  ChangeTypes'
<1>1. ASSUME NEW new \in OwnerType, owner' = [owner EXCEPT ![o] = new] PROVE ChangeTypes'
    BY <1>1 DEF ChangeTypes
<1>2. ASSUME NEW pc \in {"store", "flag", "drop", "succeed"}, owner' = [owner EXCEPT ![o].pc = pc]
      PROVE  ChangeTypes'
    <2> DEFINE new == [owner[o] EXCEPT !.pc = pc]
    <2>1. new \in OwnerType
        BY DEF ChangeTypes, OwnerType
    <2>2. owner' = [owner EXCEPT ![o] = new]
        BY <1>2 DEF ChangeTypes
    <2> HIDE DEF new
    <2>3. QED
        BY <1>1, <2>1, <2>2
<1>3. QED
    BY <1>1, <1>2

\* A key that is minted belongs to the host it is minted for.
LEMMA MintIsAKey ==
    ASSUME StoreTypes, minted < KeyChanges, NEW home \in Hosts
    PROVE  Mint(home) \in KeysOf(home) /\ minted + 1 \in 0..KeyChanges
BY ConnConstants DEF StoreTypes, Hosts, Mint, Key, KeysOf, Keys

LEMMA BeginningsKeep ==
    ASSUME ConnInvariant, NEW o \in Owners, NEW p \in Processes,
           \/ Disconnect(o, p) \/ ChangeCustom(o, p) \/ RefreshSecrets(o, p)
           \/ \E a \in KeyNames : SetDefault(o, p, a) \/ RemoveKey(o, p, a)
                                  \/ \E asked \in BOOLEAN : SetCredential(o, p, a, asked)
    PROVE  ConnInvariant'
<1>1. StoreTypes /\ ChangeTypes /\ CallTypes
    BY DEF ConnInvariant
<1>2. UNCHANGED <<views, routers, caller>>
    BY DEF Disconnect, ChangeCustom, RefreshSecrets, SetDefault, RemoveKey, SetCredential
<1>3. CallTypes'
    BY <1>1, <1>2 DEF CallTypes
<1>4. \A op \in {"disconnect", "custom", "secret"} :
         [Settled EXCEPT !.op = op, !.pc = "drop", !.at = p] \in OwnerType
    BY ConnEmpties DEF OwnerType
<1>5. CASE Disconnect(o, p)
    <2>1. rows' \in Rows /\ UNCHANGED <<custom, envKey, minted>>
        BY <1>5 DEF Disconnect, Rows
    <2>2. ChangeTypes'
        BY <1>1, <1>4, <1>5, ChangeMoves DEF Disconnect
    <2>3. QED
        BY <1>1, <1>3, <2>1, <2>2 DEF ConnInvariant, StoreTypes
<1>6. CASE ChangeCustom(o, p)
    <2>1. custom' \in {None} \cup KeysOf("custom") /\ minted' \in 0..KeyChanges
        BY <1>1, <1>6, MintIsAKey DEF ChangeCustom, StoreTypes, Hosts
    <2>2. ChangeTypes'
        BY <1>1, <1>4, <1>6, ChangeMoves DEF ChangeCustom
    <2>3. UNCHANGED <<rows, envKey>>
        BY <1>6 DEF ChangeCustom
    <2>4. QED
        BY <1>1, <1>3, <2>1, <2>2, <2>3 DEF ConnInvariant, StoreTypes
<1>7. CASE RefreshSecrets(o, p)
    <2>1. envKey' \in [Processes -> {None} \cup KeysOf("builtin")] /\ minted' \in 0..KeyChanges
        <3>1. Mint("builtin") \in KeysOf("builtin") /\ minted + 1 \in 0..KeyChanges
            BY <1>1, <1>7, MintIsAKey DEF RefreshSecrets, Forward, Hosts
        <3>2. QED
            BY <1>1, <1>7, <3>1 DEF RefreshSecrets, StoreTypes
    <2>2. ChangeTypes'
        BY <1>1, <1>4, <1>7, ChangeMoves DEF RefreshSecrets
    <2>3. UNCHANGED <<rows, custom>>
        BY <1>7 DEF RefreshSecrets
    <2>4. QED
        BY <1>1, <1>3, <2>1, <2>2, <2>3 DEF ConnInvariant, StoreTypes
<1>8. ASSUME NEW a \in KeyNames, SetDefault(o, p, a) PROVE ConnInvariant'
    <2>1. [op |-> "top", pc |-> "clear", at |-> p, alias |-> a, top |-> TRUE] \in OwnerType
        BY DEF OwnerType
    <2>2. ChangeTypes' /\ UNCHANGED <<rows, custom, envKey, minted>>
        BY <1>1, <1>8, <2>1, ChangeMoves DEF SetDefault
    <2>3. QED
        BY <1>1, <1>3, <2>2 DEF ConnInvariant, StoreTypes
<1>9. ASSUME NEW a \in KeyNames, RemoveKey(o, p, a) PROVE ConnInvariant'
    <2>1. rows[a].top \in BOOLEAN
        BY <1>1, <1>9 DEF RemoveKey, StoreTypes, Rows, StoredRow
    <2>2. [op |-> "remove", pc |-> "delete", at |-> p, alias |-> a, top |-> rows[a].top] \in OwnerType
        BY <2>1 DEF OwnerType
    <2>3. ChangeTypes' /\ UNCHANGED <<rows, custom, envKey, minted>>
        BY <1>1, <1>9, <2>2, ChangeMoves DEF RemoveKey
    <2>4. QED
        BY <1>1, <1>3, <2>3 DEF ConnInvariant, StoreTypes
<1>10. ASSUME NEW a \in KeyNames, NEW asked \in BOOLEAN, SetCredential(o, p, a, asked) PROVE ConnInvariant'
    <2> DEFINE top == asked \/ StoredNames(rows) = {}
               pc == IF top THEN "clear" ELSE "store"
               new == [op |-> "set", pc |-> pc, at |-> p, alias |-> a, top |-> top]
    <2>1. owner' = [owner EXCEPT ![o] = new] /\ UNCHANGED <<rows, custom, envKey, minted>>
        BY <1>10 DEF SetCredential
    <2>2. top \in BOOLEAN /\ pc \in {"clear", "store"}
        OBVIOUS
    <2> HIDE DEF top, pc
    <2>3. new \in OwnerType
        BY <2>2 DEF OwnerType
    <2> HIDE DEF new
    <2>4. ChangeTypes'
        BY <1>1, <2>1, <2>3, ChangeMoves
    <2>5. QED
        BY <1>1, <1>3, <2>1, <2>4 DEF ConnInvariant, StoreTypes
<1>11. QED
    BY <1>5, <1>6, <1>7, <1>8, <1>9, <1>10

LEMMA ChangesKeep ==
    ASSUME ConnInvariant, NEW o \in Owners, ChangeStep(o)
    PROVE  ConnInvariant'
<1> DEFINE w == owner[o]
<1>1. StoreTypes /\ ChangeTypes /\ CallTypes /\ w \in OwnerType
    BY DEF ConnInvariant, ChangeTypes
<1>2. rows \in Rows /\ \A a \in KeyNames : rows[a] = None \/ rows[a] \in StoredRow
    BY <1>1 DEF StoreTypes, Rows
<1>3. UNCHANGED <<custom, envKey, routers, caller>>
    BY DEF ChangeStep, ClearDefaults, StoreKey, FlagDefault, DeleteKey, Succeed, Invalidate, ChangeFails
<1>4. ASSUME NEW a, NEW row \in {None} \cup StoredRow, rows' = [rows EXCEPT ![a] = row] PROVE rows' \in Rows
    BY <1>2, <1>4 DEF Rows
<1>5. CASE ClearDefaults(o)
    <2>1. \A a \in KeyNames : rows[a] # None => [rows[a] EXCEPT !.top = FALSE] \in StoredRow
        <3>1. FALSE \in BOOLEAN
            OBVIOUS
        <3>2. QED
            BY <1>2, <3>1 DEF StoredRow
    <2>2. rows' \in Rows /\ UNCHANGED <<views, minted>>
        BY <1>5, <2>1 DEF ClearDefaults, Unflagged, Rows
    <2>3. ChangeTypes'
        BY <1>1, <1>5, ChangeMoves DEF ClearDefaults, Then
    <2>4. QED
        BY <1>1, <1>3, <2>2, <2>3 DEF ConnInvariant, StoreTypes, CallTypes
<1>6. CASE StoreKey(o)
    <2> DEFINE top == w.top \/ (rows[w.alias] # None /\ rows[w.alias].top)
               row == [key |-> Mint("builtin"), top |-> top]
    <2>1. rows' = [rows EXCEPT ![w.alias] = row] /\ minted' = minted + 1 /\ minted < KeyChanges /\ UNCHANGED views
        BY <1>6 DEF StoreKey
    <2>2. Mint("builtin") \in KeysOf("builtin") /\ minted' \in 0..KeyChanges
        BY <1>1, <2>1, MintIsAKey DEF Hosts
    <2>3. top \in BOOLEAN
        OBVIOUS
    <2> HIDE DEF top
    <2>4. row \in StoredRow
        BY <2>2, <2>3 DEF StoredRow
    <2> HIDE DEF row
    <2>5. rows' \in Rows
        BY <1>4, <2>1, <2>4
    <2>6. ChangeTypes'
        BY <1>1, <1>6, ChangeMoves DEF StoreKey, Then
    <2>7. QED
        BY <1>1, <1>3, <2>1, <2>2, <2>5, <2>6 DEF ConnInvariant, StoreTypes, CallTypes
<1>7. CASE FlagDefault(o)
    <2> DEFINE row == IF rows[w.alias] = None THEN None ELSE [rows[w.alias] EXCEPT !.top = TRUE]
    <2>1. rows' = [rows EXCEPT ![w.alias] = row] /\ UNCHANGED <<views, minted>>
        BY <1>7 DEF FlagDefault
    <2>2. w.alias \in KeyNames => row \in {None} \cup StoredRow
        <3>1. TRUE \in BOOLEAN
            OBVIOUS
        <3>2. QED
            BY <1>2, <3>1 DEF StoredRow
    <2> HIDE DEF row
    <2>3. rows' \in Rows
        BY <1>2, <2>1, <2>2 DEF Rows
    <2>4. ChangeTypes'
        BY <1>1, <1>7, ChangeMoves DEF FlagDefault, Then
    <2>5. QED
        BY <1>1, <1>3, <2>1, <2>3, <2>4 DEF ConnInvariant, StoreTypes, CallTypes
<1>8. CASE DeleteKey(o)
    <2>1. rows' \in Rows /\ UNCHANGED <<views, minted>>
        BY <1>4, <1>8 DEF DeleteKey
    <2>2. ChangeTypes'
        BY <1>1, <1>8, ChangeMoves DEF DeleteKey, Then
    <2>3. QED
        BY <1>1, <1>3, <2>1, <2>2 DEF ConnInvariant, StoreTypes, CallTypes
<1>9. CASE Succeed(o)
    <2>1. ASSUME StoredNames(rows) = {} PROVE ChangeTypes'
        BY <1>1, <1>9, <2>1, ChangeMoves DEF Succeed, Then
    <2>2. ASSUME StoredNames(rows) # {} PROVE ChangeTypes'
        <3> DEFINE heir == Preferred(rows)
                   new == [w EXCEPT !.pc = "flag", !.alias = heir]
        <3>1. heir \in KeyNames
            BY <1>2, <2>2, PreferredIsStored DEF StoredNames
        <3>2. owner' = [owner EXCEPT ![o] = new]
            BY <1>1, <1>9, <2>2 DEF Succeed, ChangeTypes
        <3> HIDE DEF heir
        <3>3. new \in OwnerType
            BY <1>1, <3>1 DEF OwnerType
        <3> HIDE DEF new
        <3>4. QED
            BY <1>1, <3>2, <3>3, ChangeMoves
    <2>3. ChangeTypes'
        BY <2>1, <2>2
    <2>4. UNCHANGED <<rows, views, minted>>
        BY <1>9 DEF Succeed
    <2>5. QED
        BY <1>1, <1>3, <2>3, <2>4 DEF ConnInvariant, StoreTypes, CallTypes
<1>10. CASE Invalidate(o)
    <2>1. ChangeTypes' /\ UNCHANGED <<rows, minted>>
        BY <1>1, <1>10, ConnEmpties, ChangeMoves DEF Invalidate
    <2>2. CallTypes'
        BY <1>1, <1>3, <1>10, ExpiryKeeps DEF Invalidate
    <2>3. QED
        BY <1>1, <1>3, <2>1, <2>2 DEF ConnInvariant, StoreTypes
<1>11. CASE ChangeFails(o)
    <2>1. ChangeTypes' /\ UNCHANGED <<rows, views, minted>>
        BY <1>1, <1>11, ConnEmpties, ChangeMoves DEF ChangeFails
    <2>2. QED
        BY <1>1, <1>3, <2>1 DEF ConnInvariant, StoreTypes, CallTypes
<1>12. QED
    BY <1>5, <1>6, <1>7, <1>8, <1>9, <1>10, <1>11 DEF ChangeStep

LEMMA ConnStep == ConnInvariant /\ [ConnNext]_ConnVars => ConnInvariant'
<1> SUFFICES ASSUME ConnInvariant, [ConnNext]_ConnVars PROVE ConnInvariant'
    OBVIOUS
<1>1. CASE UNCHANGED ConnVars
    BY <1>1 DEF ConnVars, ConnInvariant, StoreTypes, ChangeTypes, CallTypes
<1>2. ASSUME NEW p \in Processes, ViewExpires(p) PROVE ConnInvariant'
    <2>1. CallTypes'
        BY <1>2, ExpiryKeeps DEF ViewExpires, ConnInvariant
    <2>2. QED
        BY <1>2, <2>1 DEF ViewExpires, ConnInvariant, StoreTypes, ChangeTypes
<1>3. QED
    BY <1>1, <1>2, CallsKeep, BeginningsKeep, ChangesKeep DEF ConnNext

\* What the invariant says of the types, and of the host a key leaves for.
LEMMA ConnImplied == ConnInvariant => ConnTypeOK /\ KeyGoesHome /\ StaysLive
<1> SUFFICES ASSUME ConnInvariant PROVE ConnTypeOK /\ KeyGoesHome /\ StaysLive
    OBVIOUS
<1>1. \A a \in KeyNames : rows[a] # None => rows[a].key \in Keys /\ rows[a].key.home = "builtin"
    BY DEF ConnInvariant, StoreTypes, Rows, StoredRow, KeysOf
<1>2. (custom # None => custom \in Keys /\ custom.home = "custom") /\ minted \in 0..KeyChanges
    BY DEF ConnInvariant, StoreTypes, KeysOf
<1>3. \A p \in Processes : views[p] # None => DOMAIN views[p].keys = KeyNames \cup {"env"}
    BY DEF ConnInvariant, CallTypes, View, Names
<1>4. \A c \in Callers : CallerSound(caller[c])
    BY DEF ConnInvariant, CallTypes
<1>5. KeyGoesHome
    BY <1>4 DEF KeyGoesHome, CallerSound
<1>6. StaysLive
    BY <1>4, ConnConstants DEF StaysLive, CallerSound, ViewSound
<1>7. QED
    BY <1>1, <1>2, <1>3, <1>5, <1>6 DEF ConnTypeOK

\* For any number of aliases, calls and administrators, whatever credentials end in: the
\* state is of its types, a key leaves for the host it was stored for alone, and a live
\* provider keeps a default.
THEOREM ConnTypeCorrect == ConnSpec => [](ConnTypeOK /\ KeyGoesHome /\ StaysLive)
BY ConnInitial, ConnStep, ConnImplied, PTL DEF ConnSpec

\* Where the last twelve characters tell credentials apart, a call is also sent with the key
\* that its own view gives for its pin.
THEOREM KeysAlwaysGoHome == ~TailIsCommon => (ConnSpec => []KeysGoHome)
<1> SUFFICES ASSUME ~TailIsCommon PROVE ConnSpec => []KeysGoHome
    OBVIOUS
<1>1. ConnInvariant => KeysGoHome
    <2> SUFFICES ASSUME ConnInvariant PROVE KeysGoHome
        OBVIOUS
    <2>1. \A c \in Callers : CallerSound(caller[c])
        BY DEF ConnInvariant, CallTypes
    <2>2. SentKeyIsOfTheView
        BY <2>1 DEF SentKeyIsOfTheView, CallerSound
    <2>3. QED
        BY <2>2, ConnImplied DEF KeysGoHome
<1>2. QED
    BY <1>1, ConnInitial, ConnStep, PTL DEF ConnSpec

-----------------------------------------------------------------------------
(* The registry of models. *)

RequestType == [pc : {"none", "write", "reload"}, kind : Kinds \cup {None}, id : ModelIds \cup {None},
                read : RegistryRow \cup {None}]
RegistryTypes ==
    /\ entries \in [ModelIds -> RegistryRow \cup {None}]
    /\ wanted \in [ModelIds -> [enabled : BOOLEAN, byHand : BOOLEAN]]
    /\ admin \in [Admins -> RequestType]
    /\ \A a \in Admins : admin[a].pc = "write" => admin[a].id \in ModelIds

\* A row of the curated catalogue is there and built in, and so it is in what a request
\* has read.
Seeded(m, row) == m \in Catalogue => row # None /\ row.builtIn
BuiltInHolds ==
    /\ \A m \in ModelIds : Seeded(m, entries[m])
    /\ \A a \in Admins : admin[a].pc = "write" => Seeded(admin[a].id, admin[a].read)

\* What the operators of a row may count on.
AsWished(row, wish) ==
    row # None =>
        /\ row.enabled = wish.enabled
        /\ row.provider = "custom" /\ wish.byHand => row.price = "hand"
WishesHold == \A m \in ModelIds : AsWished(entries[m], wanted[m])

RegistryInvariant == RegistryTypes /\ BuiltInHolds /\ WishesHold

LEMMA RegistryStarts == RegistryInit => RegistryInvariant
<1> SUFFICES ASSUME RegistryInit PROVE RegistryInvariant
    OBVIOUS
<1>1. Row("listed", TRUE, "feed") \in RegistryRow /\ Row("listed", TRUE, "feed") # None
      /\ Row("listed", TRUE, "feed").enabled /\ Row("listed", TRUE, "feed").builtIn
      /\ Row("listed", TRUE, "feed").provider = "listed"
  <2>1. Row("listed", TRUE, "feed") \in RegistryRow
      BY DEF Row, RegistryRow
  <2>2. QED
      BY <2>1, RegistryAssumption DEF Row
<1>2. /\ entries \in [ModelIds -> RegistryRow \cup {None}]
      /\ wanted \in [ModelIds -> [enabled : BOOLEAN, byHand : BOOLEAN]]
    BY <1>1 DEF RegistryInit, NoWish
<1>3. admin \in [Admins -> RequestType] /\ \A a \in Admins : admin[a].pc = "none"
    BY DEF RegistryInit, NoAdmin, RequestType
<1>4. \A m \in ModelIds : Seeded(m, entries[m])
    BY <1>1 DEF RegistryInit, Seeded
<1>5. \A m \in ModelIds : AsWished(entries[m], wanted[m])
    BY <1>1 DEF RegistryInit, AsWished, NoWish
<1>6. QED
    BY <1>2, <1>3, <1>4, <1>5 DEF RegistryInvariant, RegistryTypes, BuiltInHolds, WishesHold

\* A step that changes no row and begins no request, or one that reads its row.
LEMMA RowsRest ==
    ASSUME RegistryInvariant, UNCHANGED <<entries, wanted>>, NEW a \in Admins, NEW r \in RequestType,
           admin' = [admin EXCEPT ![a] = r] \/ admin' = admin,
           r.pc = "write" => r.id \in ModelIds /\ Seeded(r.id, r.read)
    PROVE  RegistryInvariant'
<1>1. admin' \in [Admins -> RequestType]
    BY DEF RegistryInvariant, RegistryTypes
<1>2. ASSUME NEW b \in Admins, admin'[b].pc = "write"
      PROVE  admin'[b].id \in ModelIds /\ Seeded(admin'[b].id, admin'[b].read)
    BY <1>2 DEF RegistryInvariant, RegistryTypes, BuiltInHolds
<1>3. QED
    BY <1>1, <1>2 DEF RegistryInvariant, RegistryTypes, BuiltInHolds, WishesHold, Seeded, AsWished

\* Rows that are what they have to be, while no request begins.
LEMMA RowsChange ==
    ASSUME RegistryInvariant,
           \/ admin' = admin
           \/ \E a \in Admins : /\ admin[a].pc = "write"
                                /\ admin' = [admin EXCEPT ![a].pc = "reload"] \/ admin' = [admin EXCEPT ![a] = NoAdmin],
           entries' \in [ModelIds -> RegistryRow \cup {None}],
           wanted' \in [ModelIds -> [enabled : BOOLEAN, byHand : BOOLEAN]],
           \A m \in ModelIds : Seeded(m, entries'[m]) /\ AsWished(entries'[m], wanted'[m])
    PROVE  RegistryInvariant'
<1>1. NoAdmin \in RequestType /\ NoAdmin.pc = "none"
    BY DEF NoAdmin, RequestType
<1>2. /\ admin' \in [Admins -> RequestType]
      /\ \A b \in Admins : admin'[b] = admin[b] \/ admin'[b].pc # "write"
  <2>1. CASE admin' = admin
      BY <2>1 DEF RegistryInvariant, RegistryTypes
  <2>2. ASSUME NEW a \in Admins, admin' = [admin EXCEPT ![a].pc = "reload"]
        PROVE  <1>2!1 /\ <1>2!2
    <3>0. admin[a] \in RequestType
        BY DEF RegistryInvariant, RegistryTypes
    <3>1. [admin[a] EXCEPT !.pc = "reload"] \in RequestType
        BY <3>0 DEF RequestType
    <3>2. [admin[a] EXCEPT !.pc = "reload"].pc = "reload"
        BY DEF RegistryInvariant, RegistryTypes, RequestType
    <3>3. QED
        BY <2>2, <3>1, <3>2 DEF RegistryInvariant, RegistryTypes
  <2>3. ASSUME NEW a \in Admins, admin' = [admin EXCEPT ![a] = NoAdmin]
        PROVE  <1>2!1 /\ <1>2!2
      BY <1>1, <2>3 DEF RegistryInvariant, RegistryTypes
  <2>4. QED
      BY <2>1, <2>2, <2>3
<1>3. QED
    BY <1>2 DEF RegistryInvariant, RegistryTypes, BuiltInHolds, WishesHold, Seeded

\* The rows an action writes of one id.
LEMMA RowWritten ==
    ASSUME RegistryInvariant, NEW a \in Admins, admin[a].pc = "write",
           NEW row \in RegistryRow \cup {None}, NEW wish \in [enabled : BOOLEAN, byHand : BOOLEAN],
           Seeded(admin[a].id, row), AsWished(row, wish), Write(a, row, wish)
    PROVE  RegistryInvariant'
<1>1. PICK m \in ModelIds : m = admin[a].id
    BY DEF RegistryInvariant, RegistryTypes
<1>2. entries' = [entries EXCEPT ![m] = row] /\ wanted' = [wanted EXCEPT ![m] = wish]
      /\ admin' = [admin EXCEPT ![a].pc = "reload"]
    BY <1>1 DEF Write
<1>3. /\ entries' \in [ModelIds -> RegistryRow \cup {None}]
      /\ wanted' \in [ModelIds -> [enabled : BOOLEAN, byHand : BOOLEAN]]
    BY <1>2 DEF RegistryInvariant, RegistryTypes
<1>4. ASSUME NEW n \in ModelIds PROVE Seeded(n, entries'[n]) /\ AsWished(entries'[n], wanted'[n])
  <2>1. CASE n = m
    <3>1. entries'[n] = row /\ wanted'[n] = wish
        BY <1>2, <2>1 DEF RegistryInvariant, RegistryTypes
    <3>2. QED
        BY <1>1, <2>1, <3>1
  <2>2. CASE n # m
    <3>1. entries'[n] = entries[n] /\ wanted'[n] = wanted[n]
        BY <1>2, <2>2 DEF RegistryInvariant, RegistryTypes
    <3>2. QED
        BY <3>1 DEF RegistryInvariant, BuiltInHolds, WishesHold
  <2>3. QED
      BY <2>1, <2>2
<1>5. QED
    BY <1>2, <1>3, <1>4, RowsChange

LEMMA RequestRefused ==
    ASSUME RegistryInvariant, NEW a \in Admins, admin[a].pc = "write",
           Refuse(a) \/ (admin' = [admin EXCEPT ![a].pc = "reload"] /\ UNCHANGED <<entries, wanted>>)
    PROVE  RegistryInvariant'
<1>1. entries' = entries /\ wanted' = wanted
    BY DEF Refuse
<1>2. admin' = [admin EXCEPT ![a].pc = "reload"] \/ admin' = [admin EXCEPT ![a] = NoAdmin]
    BY DEF Refuse
<1>3. \A m \in ModelIds : Seeded(m, entries'[m]) /\ AsWished(entries'[m], wanted'[m])
    BY <1>1 DEF RegistryInvariant, BuiltInHolds, WishesHold
<1>4. QED
    BY <1>1, <1>2, <1>3, RowsChange DEF RegistryInvariant, RegistryTypes

LEMMA RowCreated ==
    ASSUME RegistryInvariant, NEW a \in Admins, admin[a].pc = "write",
           NEW provider \in {"custom", "listed"}, NEW price \in {"hand", "none"}, CreateRow(a, provider, price)
    PROVE  RegistryInvariant'
<1>1. CASE entries[admin[a].id] # None
    BY <1>1, RequestRefused DEF CreateRow
<1>2. CASE entries[admin[a].id] = None
  <2>1. Write(a, Row(provider, FALSE, price), [NoWish EXCEPT !.byHand = price = "hand"])
      BY <1>2 DEF CreateRow
  <2>2. Row(provider, FALSE, price) \in RegistryRow \cup {None}
      BY DEF Row, RegistryRow
  <2>3. PICK wish \in [enabled : BOOLEAN, byHand : BOOLEAN] :
           /\ wish = [NoWish EXCEPT !.byHand = price = "hand"]
           /\ wish.enabled /\ (wish.byHand => price = "hand")
    <3>1. PICK hand \in BOOLEAN : hand = (price = "hand")
        OBVIOUS
    <3>2. [NoWish EXCEPT !.byHand = price = "hand"] = [NoWish EXCEPT !.byHand = hand]
        BY <3>1, Zenon
    <3>3. [NoWish EXCEPT !.byHand = hand] \in [enabled : BOOLEAN, byHand : BOOLEAN]
          /\ [NoWish EXCEPT !.byHand = hand].enabled
          /\ [NoWish EXCEPT !.byHand = hand].byHand = hand
        BY DEF NoWish
    <3>4. QED
        BY <3>1, <3>2, <3>3
  <2>5. Seeded(admin[a].id, Row(provider, FALSE, price))
      BY <1>2 DEF RegistryInvariant, RegistryTypes, BuiltInHolds, Seeded
  <2>6. AsWished(Row(provider, FALSE, price), wish)
      BY <2>3 DEF AsWished, Row
  <2>7. Write(a, Row(provider, FALSE, price), wish)
      BY <2>1, <2>3
  <2>8. QED
      BY <2>2, <2>5, <2>6, <2>7, RowWritten
<1>3. QED
    BY <1>1, <1>2

\* PATCH sets what it names on the row it finds.
LEMMA RowPatched ==
    ASSUME RegistryInvariant, NEW a \in Admins, admin[a].pc = "write", PatchRow(a)
    PROVE  RegistryInvariant'
<1>1. PICK m \in ModelIds : m = admin[a].id
    BY DEF RegistryInvariant, RegistryTypes
<1>2. CASE admin[a].read = None \/ entries[m] = None
    BY <1>1, <1>2, RequestRefused DEF PatchRow
<1>3. CASE admin[a].read # None /\ entries[m] # None
  <2>1. entries[m] \in RegistryRow /\ wanted[m] \in [enabled : BOOLEAN, byHand : BOOLEAN]
      BY <1>3 DEF RegistryInvariant, RegistryTypes
  <2>2. Seeded(m, entries[m]) /\ AsWished(entries[m], wanted[m])
      BY DEF RegistryInvariant, BuiltInHolds, WishesHold
  <2>3. CASE admin[a].kind = "price"
    <3>1. Write(a, [entries[m] EXCEPT !.price = "hand"], [wanted[m] EXCEPT !.byHand = TRUE])
        BY <1>1, <1>3, <2>3 DEF PatchRow
    <3>2. PICK row \in RegistryRow : row = [entries[m] EXCEPT !.price = "hand"]
        BY <2>1 DEF RegistryRow
    <3>3. PICK wish \in [enabled : BOOLEAN, byHand : BOOLEAN] : wish = [wanted[m] EXCEPT !.byHand = TRUE]
        BY <2>1
    <3>4. /\ row.builtIn = entries[m].builtIn /\ row.enabled = entries[m].enabled /\ row.price = "hand"
          /\ wish.enabled = wanted[m].enabled
        BY <2>1, <3>2, <3>3 DEF RegistryRow
    <3>5. row # None
        BY RegistryAssumption
    <3>6. Seeded(m, row) /\ AsWished(row, wish)
        BY <1>3, <2>2, <3>4, <3>5 DEF Seeded, AsWished
    <3>7. Write(a, row, wish)
        BY <3>1, <3>2, <3>3
    <3>8. QED
        BY <1>1, <3>6, <3>7, RowWritten
  <2>4. CASE admin[a].kind # "price"
    <3>1. PICK on \in BOOLEAN : on = (admin[a].kind = "enable")
        OBVIOUS
    <3>2. Write(a, [entries[m] EXCEPT !.enabled = on], [wanted[m] EXCEPT !.enabled = on])
      <4>1. Write(a, [entries[m] EXCEPT !.enabled = admin[a].kind = "enable"],
                     [wanted[m] EXCEPT !.enabled = admin[a].kind = "enable"])
          BY <1>1, <1>3, <2>4 DEF PatchRow
      <4>2. QED
          BY <3>1, <4>1, Zenon
    <3>3. PICK row \in RegistryRow : row = [entries[m] EXCEPT !.enabled = on]
        BY <2>1 DEF RegistryRow
    <3>4. PICK wish \in [enabled : BOOLEAN, byHand : BOOLEAN] : wish = [wanted[m] EXCEPT !.enabled = on]
        BY <2>1
    <3>5. /\ row.builtIn = entries[m].builtIn /\ row.enabled = on /\ row.price = entries[m].price
          /\ row.provider = entries[m].provider
          /\ wish.enabled = on /\ wish.byHand = wanted[m].byHand
        BY <2>1, <3>3, <3>4 DEF RegistryRow
    <3>6. row # None
        BY RegistryAssumption
    <3>7. Seeded(m, row) /\ AsWished(row, wish)
        BY <1>3, <2>2, <3>5, <3>6 DEF Seeded, AsWished
    <3>8. Write(a, row, wish)
        BY <3>2, <3>3, <3>4
    <3>9. QED
        BY <1>1, <3>7, <3>8, RowWritten
  <2>5. QED
      BY <2>3, <2>4
<1>4. QED
    BY <1>2, <1>3

\* DELETE refuses a row that it has read to be built in, and a built-in row was read as one.
LEMMA RowDeleted ==
    ASSUME RegistryInvariant, NEW a \in Admins, admin[a].pc = "write", DeleteRow(a)
    PROVE  RegistryInvariant'
<1>1. CASE Refuse(a)
    BY <1>1, RequestRefused
<1>2. CASE admin[a].read # None /\ ~admin[a].read.builtIn /\ Write(a, None, NoWish)
  <2>1. Seeded(admin[a].id, None)
      BY <1>2 DEF RegistryInvariant, BuiltInHolds, Seeded
  <2>2. AsWished(None, NoWish) /\ NoWish \in [enabled : BOOLEAN, byHand : BOOLEAN]
      BY DEF AsWished, NoWish
  <2>3. QED
      BY <1>2, <2>1, <2>2, RowWritten
<1>3. QED
    BY <1>1, <1>2 DEF DeleteRow

\* An orphan of the catalogue is adopted with the price it has, by hand or not.
LEMMA RowImported ==
    ASSUME RegistryInvariant, NEW a \in Admins, admin[a].pc = "write", ImportRow(a)
    PROVE  RegistryInvariant'
<1>1. PICK m \in ModelIds : m = admin[a].id
    BY DEF RegistryInvariant, RegistryTypes
<1>2. CASE admin[a].read = None
    BY <1>2, RowCreated DEF ImportRow
<1>3. CASE /\ admin[a].read # None
           /\ admin[a].read.provider = "custom" \/ admin[a].read.builtIn \/ entries[m] = None
    BY <1>1, <1>3, RequestRefused DEF ImportRow
<1>4. CASE /\ admin[a].read # None
           /\ ~(admin[a].read.provider = "custom" \/ admin[a].read.builtIn \/ entries[m] = None)
  <2>1. entries[m] \in RegistryRow
      BY <1>4 DEF RegistryInvariant, RegistryTypes
  <2>2. PICK row \in RegistryRow : row = [entries[m] EXCEPT !.provider = "custom", !.enabled = TRUE]
      BY <2>1 DEF RegistryRow
  <2>3. PICK hand \in BOOLEAN : hand = (entries[m].price = "hand")
      OBVIOUS
  <2>4. PICK wish \in [enabled : BOOLEAN, byHand : BOOLEAN] : wish = [enabled |-> TRUE, byHand |-> hand]
      OBVIOUS
  <2>5. Write(a, [entries[m] EXCEPT !.provider = "custom", !.enabled = TRUE],
                 [enabled |-> TRUE, byHand |-> entries[m].price = "hand"])
      BY <1>1, <1>4 DEF ImportRow
  <2>6. Write(a, row, wish)
    <3>1. [enabled |-> TRUE, byHand |-> entries[m].price = "hand"] = wish
        BY <2>3, <2>4, Zenon
    <3>2. QED
        BY <2>2, <2>5, <3>1
  <2>7. Seeded(m, entries[m])
      BY DEF RegistryInvariant, BuiltInHolds
  <2>8. Seeded(m, row)
    <3>1. row.builtIn = entries[m].builtIn /\ row # None
        BY <2>1, <2>2, RegistryAssumption DEF RegistryRow
    <3>2. QED
        BY <2>7, <3>1 DEF Seeded
  <2>9. AsWished(row, wish)
    <3>1. row.enabled = TRUE /\ row.price = entries[m].price
        BY <2>1, <2>2 DEF RegistryRow
    <3>2. wish.enabled = TRUE /\ (wish.byHand => entries[m].price = "hand")
        BY <2>3, <2>4
    <3>3. QED
        BY <3>1, <3>2 DEF AsWished
  <2>10. QED
      BY <1>1, <2>6, <2>8, <2>9, RowWritten
<1>5. QED
    BY <1>2, <1>3, <1>4

-----------------------------------------------------------------------------
\* The sync adds rows and takes rows away, without anybody's request.
LEMMA SyncWrites ==
    ASSUME RegistryInvariant, admin' = admin,
           entries' = [m \in ModelIds |-> entries'[m]], wanted' = [m \in ModelIds |-> wanted'[m]],
           \A m \in ModelIds :
              \/ entries'[m] = entries[m] /\ wanted'[m] = wanted[m]
              \/ /\ m \notin Catalogue /\ wanted'[m] = NoWish
                 /\ entries'[m] = None \/ entries'[m] = Row("listed", FALSE, "feed")
    PROVE  RegistryInvariant'
<1>1. Row("listed", FALSE, "feed") \in RegistryRow /\ NoWish \in [enabled : BOOLEAN, byHand : BOOLEAN]
    BY DEF Row, RegistryRow, NoWish
<1>2. AsWished(Row("listed", FALSE, "feed"), NoWish) /\ AsWished(None, NoWish)
    BY DEF AsWished, Row, NoWish
<1>3. ASSUME NEW m \in ModelIds
      PROVE  /\ entries'[m] \in RegistryRow \cup {None} /\ wanted'[m] \in [enabled : BOOLEAN, byHand : BOOLEAN]
             /\ Seeded(m, entries'[m]) /\ AsWished(entries'[m], wanted'[m])
  <2>1. CASE entries'[m] = entries[m] /\ wanted'[m] = wanted[m]
      BY <2>1 DEF RegistryInvariant, RegistryTypes, BuiltInHolds, WishesHold
  <2>2. CASE /\ m \notin Catalogue /\ wanted'[m] = NoWish
             /\ entries'[m] = None \/ entries'[m] = Row("listed", FALSE, "feed")
    <3>1. AsWished(entries'[m], wanted'[m])
        BY <1>2, <2>2
    <3>2. QED
        BY <1>1, <2>2, <3>1 DEF Seeded
  <2>3. QED
      BY <2>1, <2>2
<1>4. /\ entries' \in [ModelIds -> RegistryRow \cup {None}]
      /\ wanted' \in [ModelIds -> [enabled : BOOLEAN, byHand : BOOLEAN]]
    BY <1>3
<1>5. QED
    BY <1>3, <1>4, RowsChange

LEMMA SyncInserts == ASSUME RegistryInvariant, InsertMany PROVE RegistryInvariant'
<1>1. PICK new : /\ new = {m \in sync.listed \ sync.read : entries[m] = None}
                 /\ entries' = [m \in ModelIds |-> IF m \in new THEN Row("listed", FALSE, "feed") ELSE entries[m]]
                 /\ wanted' = [m \in ModelIds |-> IF m \in new THEN NoWish ELSE wanted[m]]
                 /\ admin' = admin
    BY DEF InsertMany
<1>2. \A m \in new : m \in ModelIds => m \notin Catalogue
    BY <1>1 DEF RegistryInvariant, BuiltInHolds, Seeded
<1>3. QED
    BY <1>1, <1>2, SyncWrites

\* The delete names rows that are not built in, whatever was read before it.
LEMMA SyncDeletes == ASSUME RegistryInvariant, DeleteStale PROVE RegistryInvariant'
<1>1. PICK stale : /\ stale = {m \in sync.read : entries[m] # None /\ ~entries[m].builtIn}
                   /\ entries' = [m \in ModelIds |-> IF m \in stale THEN None ELSE entries[m]]
                   /\ wanted' = [m \in ModelIds |-> IF m \in stale THEN NoWish ELSE wanted[m]]
                   /\ admin' = admin
    BY DEF DeleteStale
<1>2. \A m \in stale : m \in ModelIds => m \notin Catalogue
    BY <1>1 DEF RegistryInvariant, BuiltInHolds, Seeded
<1>3. QED
    BY <1>1, <1>2, SyncWrites

\* A refreshed row gets the price of the feed, if it is one of the catalogue's still.
LEMMA SyncRefreshes == ASSUME RegistryInvariant, NEW m \in ModelIds, RefreshRow(m) PROVE RegistryInvariant'
<1>1. admin' = admin /\ wanted' = wanted
    BY DEF RefreshRow
<1>2. CASE entries' = entries
    BY <1>1, <1>2, RowsChange DEF RegistryInvariant, RegistryTypes, BuiltInHolds, WishesHold
<1>3. CASE /\ entries[m] # None /\ entries[m].provider = "listed"
           /\ entries' = [entries EXCEPT ![m].price = "feed"]
  <2>1. entries[m] \in RegistryRow
      BY <1>3 DEF RegistryInvariant, RegistryTypes
  <2>2. PICK row \in RegistryRow : row = [entries[m] EXCEPT !.price = "feed"]
      BY <2>1 DEF RegistryRow
  <2>3. row.builtIn = entries[m].builtIn /\ row.enabled = entries[m].enabled /\ row.provider = "listed" /\ row # None
      BY <1>3, <2>1, <2>2, RegistryAssumption DEF RegistryRow
  <2>4. entries' = [entries EXCEPT ![m] = row]
      BY <1>3, <2>2
  <2>5. entries' \in [ModelIds -> RegistryRow \cup {None}] /\ wanted' \in [ModelIds -> [enabled : BOOLEAN, byHand : BOOLEAN]]
      BY <1>1, <2>4 DEF RegistryInvariant, RegistryTypes
  <2>6. ASSUME NEW n \in ModelIds PROVE Seeded(n, entries'[n]) /\ AsWished(entries'[n], wanted'[n])
    <3>1. Seeded(n, entries[n]) /\ AsWished(entries[n], wanted[n])
        BY DEF RegistryInvariant, BuiltInHolds, WishesHold
    <3>2. CASE n = m
      <4>1. entries'[n] = row /\ wanted'[n] = wanted[m]
          BY <1>1, <2>4, <3>2 DEF RegistryInvariant, RegistryTypes
      <4>2. QED
          BY <1>3, <2>3, <3>1, <3>2, <4>1 DEF Seeded, AsWished
    <3>3. CASE n # m
      <4>1. entries'[n] = entries[n] /\ wanted'[n] = wanted[n]
          BY <1>1, <2>4, <3>3 DEF RegistryInvariant, RegistryTypes
      <4>2. QED
          BY <3>1, <4>1
    <3>4. QED
        BY <3>2, <3>3
  <2>7. QED
      BY <1>1, <2>5, <2>6, RowsChange
<1>4. QED
    BY <1>2, <1>3 DEF RefreshRow

-----------------------------------------------------------------------------
\* Every step keeps what the registry promises.
LEMMA RegistryStep == RegistryInvariant /\ [RegistryNext]_RegistryVars => RegistryInvariant'
<1> SUFFICES ASSUME RegistryInvariant, [RegistryNext]_RegistryVars PROVE RegistryInvariant'
    OBVIOUS
<1>1. ASSUME NEW a \in Admins, NEW kind \in Kinds, NEW m \in ModelIds, ReadRow(a, kind, m)
      PROVE  RegistryInvariant'
  <2>1. PICK r : r = [pc |-> "write", kind |-> kind, id |-> m, read |-> entries[m]]
      OBVIOUS
  <2>2. r \in RequestType /\ r.id = m /\ r.read = entries[m]
      BY <2>1 DEF RegistryInvariant, RegistryTypes, RequestType
  <2>3. Seeded(m, entries[m])
      BY DEF RegistryInvariant, BuiltInHolds
  <2>4. admin' = [admin EXCEPT ![a] = r] /\ UNCHANGED <<entries, wanted>>
      BY <1>1, <2>1 DEF ReadRow
  <2>5. QED
      BY <2>2, <2>3, <2>4, RowsRest
<1>2. ASSUME NEW a \in Admins, WriteRow(a) PROVE RegistryInvariant'
  <2>1. admin[a].pc = "write"
      BY <1>2 DEF WriteRow
  <2>2. \/ \E provider \in {"custom", "listed"} : CreateRow(a, provider, "hand")
        \/ DeleteRow(a) \/ ImportRow(a) \/ PatchRow(a)
      BY <1>2 DEF WriteRow
  <2>3. QED
      BY <2>1, <2>2, RowCreated, RowDeleted, RowImported, RowPatched
<1>3. NoAdmin \in RequestType /\ NoAdmin.pc # "write"
    BY DEF NoAdmin, RequestType
<1>4. ASSUME NEW a \in Admins, NEW p \in Processes, Reload(a, p) PROVE RegistryInvariant'
  <2>1. admin' = [admin EXCEPT ![a] = NoAdmin] /\ UNCHANGED <<entries, wanted>>
      BY <1>4 DEF Reload
  <2>2. QED
      BY <1>3, <2>1, RowsRest
<1>5. ASSUME UNCHANGED <<entries, wanted, admin>> PROVE RegistryInvariant'
    BY <1>5 DEF RegistryInvariant, RegistryTypes, BuiltInHolds, WishesHold, Seeded, AsWished
<1>6. ASSUME RequestFails PROVE RegistryInvariant'
  <2>1. UNCHANGED <<entries, wanted, admin>> \/ \E a \in Admins : admin' = [admin EXCEPT ![a] = NoAdmin]
      BY <1>6 DEF RequestFails
  <2>2. UNCHANGED <<entries, wanted>>
      BY <1>6 DEF RequestFails
  <2>3. QED
      BY <1>3, <1>5, <2>1, <2>2, RowsRest
<1>7. ASSUME NEW listed, FetchCatalogue(listed) PROVE RegistryInvariant'
    BY <1>5, <1>7 DEF FetchCatalogue
<1>8. ASSUME SyncStep PROVE RegistryInvariant'
  <2>1. \A p \in Processes : SyncEnds(p) => UNCHANGED <<entries, wanted, admin>>
      BY DEF SyncEnds
  <2>2. FindStale \/ FindAll => UNCHANGED <<entries, wanted, admin>>
      BY DEF FindStale, FindAll
  <2>3. QED
      BY <1>5, <1>8, <2>1, <2>2, SyncInserts, SyncDeletes, SyncRefreshes DEF SyncStep
<1>9. ASSUME NEW p \in Processes, Load(p) \/ Loaded(p) PROVE RegistryInvariant'
    BY <1>5, <1>9 DEF Load, Loaded
<1>10. ASSUME UNCHANGED RegistryVars PROVE RegistryInvariant'
    BY <1>5, <1>10 DEF RegistryVars
<1>11. QED
    BY <1>1, <1>2, <1>4, <1>6, <1>7, <1>8, <1>9, <1>10 DEF RegistryNext, AdminStep

\* The built-in rows stay, and a sync takes from no row what its operators decided, for any
\* models, processes, requests and syncs (registry.js:107-114, models.js:116,
\* litellm/sync.js:13).
THEOREM RowsAlwaysKept == RegistrySpec => []RowsAreKept
<1>1. RegistryInvariant => RowsAreKept
    BY RegistryAssumption DEF RegistryInvariant, BuiltInHolds, WishesHold, Seeded, AsWished, RowsAreKept,
       BuiltInStays, OperatorsRows
<1>2. QED
    BY <1>1, RegistryStarts, RegistryStep, PTL DEF RegistrySpec

-----------------------------------------------------------------------------
(* The client libraries. *)

Codes == NamedErrors \cup {"ok", "bad_request", "http_error", "timeout", "network", "aborted",
                           "foreign", "undefined", "invalid_input"}
Told == [code : Codes, retryable : BOOLEAN, length : Nat]
Warranted(a, r) ==
    \/ a.code \in {"timeout", "network"}
    \/ r # None /\ a.code # "budget_exceeded" /\ (r.status = 429 \/ r.status >= 500)

\* What a call is at between its beginning and its end, and what it has tried.
SdkTypes ==
    /\ stage \in {"idle", "starting", "waiting", "reading", "backoff", "streaming", "settled"}
    /\ attempts \in Seq(Told \cup {Open}) /\ replied \in Seq(Replies \cup {None})
    /\ Len(attempts) = Len(replied)
    /\ stage # "idle" => /\ using.client \in Options /\ using.order \in Orders
                         /\ using.left \in Nat \cup {None}
                         /\ using = [client |-> using.client, order |-> using.order, left |-> using.left]
    /\ given \in Nat

\* Attempts that were followed by another were worth it, and so was the last one while
\* another is still to come; there is room for that one.
Tried ==
    /\ \A i \in 1..Len(attempts) - 1 : Warranted(attempts[i], replied[i])
    /\ (stage \in {"starting", "backoff"} /\ Len(attempts) > 0) =>
          /\ Warranted(attempts[Len(attempts)], replied[Len(attempts)])
          /\ Len(attempts) <= Retries
    /\ stage \in {"waiting", "reading"} => Len(attempts) > 0
    /\ stage = "idle" => attempts = <<>>
    /\ (stage # "idle" /\ attempts # <<>>) => Len(attempts) <= Retries + 1
    /\ stage = "reading" => replied[Len(replied)] # None

\* Only who is told anything is at the end, of an attempt that ended so.
ToldOf ==
    /\ stage \notin {"settled", "streaming"} => told = None /\ given = 0
    /\ stage \in {"settled", "streaming"} =>
          /\ told \in Told
          /\ attempts # <<>> => told = attempts[Len(attempts)] \/ told.code = "aborted"
          /\ told.code = "ok" =>
                /\ Len(attempts) > 0 /\ replied[Len(attempts)] # None
                /\ replied[Len(attempts)].status = 200
                /\ told.length \in {0, replied[Len(attempts)].length}
    /\ stage = "streaming" => told.code = "ok" /\ given <= told.length
    /\ (stage = "settled" /\ told.code = "ok" /\ using.order.method = "stream") => given = told.length

SdkInvariant == SdkTypes /\ Tried /\ ToldOf /\ NothingAfterTheSignal

LEMMA SdkStarts == SdkInit => SdkInvariant
BY DEF SdkInit, SdkInvariant, SdkTypes, Tried, ToldOf, NothingAfterTheSignal, NoCaller

\* Both libraries count alike.
LEMMA RetriesCount == ASSUME SdkTypes, stage # "idle" PROVE Retries \in Int
<1>1. using.client.retries \in Int /\ using.order.retries \in Int \cup {None}
    BY SdkAssumption DEF SdkTypes
<1>2. QED
    BY <1>1 DEF Retries, JsRetries, PyRetries, Client

\* What the libraries promise of every pair of a client and a call.
LEMMA LibrariesAgree == ClientsAgree
<1> SUFFICES ASSUME NEW c \in Options, NEW o \in Orders, JsAccepts(c, o), PyAccepts(c, o)
             PROVE  /\ JsRetries(c, o) = PyRetries(c, o)
                    /\ (o.method \in Chatting /\ o.application # "undefined") => JsBody(c, o) = PyBody(c, o)
    BY DEF ClientsAgree
<1>1. JsRetries(c, o) = PyRetries(c, o)
    BY SdkAssumption DEF JsRetries, PyRetries
<1>2. ASSUME o.method \in Chatting, o.application # "undefined" PROVE JsBody(c, o) = PyBody(c, o)
  <2>1. JsMessages(o.messages) # None /\ PyMessages(o.messages) # None
      BY <1>2 DEF JsAccepts, PyAccepts, Chatting
  <2>2. /\ o.messages # <<>> 
        /\ \A i \in DOMAIN o.messages : o.messages[i].form \in {"text", "plain", "langchain"}
      BY <2>1 DEF PyMessages
  <2>3. ASSUME NEW m, m.form \in {"text", "plain", "langchain"} PROVE JsRole(m) = PyRole(m)
      BY <2>3 DEF JsRole, PyRole
  <2>4. JsMessages(o.messages) = [i \in DOMAIN o.messages |-> JsRole(o.messages[i])]
      BY <2>2 DEF JsMessages
  <2>5. PyMessages(o.messages) = [i \in DOMAIN o.messages |-> PyRole(o.messages[i])]
      BY <2>2 DEF PyMessages
  <2>6. \A i \in DOMAIN o.messages : JsRole(o.messages[i]) = PyRole(o.messages[i])
      BY <2>2, <2>3
  <2>7. JsMessages(o.messages) = PyMessages(o.messages)
      BY <2>4, <2>5, <2>6
  <2>8. QED
      BY <1>2, <2>7 DEF JsBody, PyBody
<1>3. QED
    BY <1>1, <1>2

-----------------------------------------------------------------------------
LEMMA CallBegins ==
    ASSUME SdkInvariant, NEW c \in Options, NEW o \in Orders, JsCall(c, o) \/ PyCall(c, o)
    PROVE  SdkInvariant'
<1>1. PICK accepts : Begin(c, o, accepts)
    BY DEF JsCall, PyCall
<1>2. /\ stage = "idle" /\ using' = [client |-> c, order |-> o, left |-> None]
      /\ \/ stage' = "starting" /\ told' = told
         \/ stage' = "settled" /\ told' = Refused
      /\ attempts' = attempts /\ replied' = replied /\ given' = given
    BY <1>1 DEF Begin
<1>3. /\ attempts = <<>> /\ told = None /\ given = 0 /\ Len(attempts) = 0
    BY <1>2 DEF SdkInvariant, SdkTypes, Tried, ToldOf
<1>4. SdkTypes'
    BY <1>2, SdkAssumption DEF SdkInvariant, SdkTypes
<1>5. Tried'
    BY <1>2, <1>3 DEF SdkInvariant, Tried
<1>6. Refused \in Told /\ Refused.code # "ok"
    BY DEF Refused, Error, Told, Codes
<1>7. ToldOf'
    BY <1>2, <1>3, <1>6 DEF ToldOf
<1>8. NothingAfterTheSignal'
    BY <1>2 DEF NothingAfterTheSignal
<1>9. QED
    BY <1>4, <1>5, <1>7, <1>8 DEF SdkInvariant

LEMMA CallerLeaves == ASSUME SdkInvariant, Leave PROVE SdkInvariant'
<1>1. /\ stage # "idle" /\ using' = [using EXCEPT !.left = Len(attempts)]
      /\ stage' = stage /\ attempts' = attempts /\ replied' = replied /\ told' = told /\ given' = given
    BY DEF Leave
<1>2. using = [client |-> using.client, order |-> using.order, left |-> using.left] /\ Len(attempts) \in Nat
    BY <1>1 DEF SdkInvariant, SdkTypes
<1>3. /\ using' = [client |-> using.client, order |-> using.order, left |-> Len(attempts)]
      /\ using'.client = using.client /\ using'.order = using.order /\ using'.left = Len(attempts)
    BY <1>1, <1>2
<1>4. Retries' = Retries
    BY <1>3 DEF Retries, IsJs, Client
<1>5. SdkTypes'
    BY <1>1, <1>2, <1>3 DEF SdkInvariant, SdkTypes
<1>6. Tried'
    BY <1>1, <1>4 DEF SdkInvariant, Tried, Warranted
<1>7. ToldOf'
    BY <1>1, <1>3 DEF SdkInvariant, ToldOf
<1>8. NothingAfterTheSignal'
    BY <1>1, <1>2, <1>3 DEF NothingAfterTheSignal
<1>9. QED
    BY <1>5, <1>6, <1>7, <1>8 DEF SdkInvariant

\* An attempt begins when there is room for one, and in JavaScript nobody has left.
LEMMA AttemptBegins ==
    ASSUME SdkInvariant, stage = "starting", Retries >= 0, IsJs => using.left = None, Send
    PROVE  SdkInvariant'
<1> DEFINE n == Len(attempts)
<1>1. /\ attempts \in Seq(Told \cup {Open}) /\ replied \in Seq(Replies \cup {None})
      /\ Len(attempts) = Len(replied) /\ n \in Nat /\ Retries \in Int
    BY RetriesCount DEF SdkInvariant, SdkTypes
<1>2. /\ stage' = "waiting" /\ attempts' = Append(attempts, Open) /\ replied' = Append(replied, None)
      /\ using' = using /\ told' = told /\ given' = given
    BY DEF Send
<1>3. /\ Len(attempts') = n + 1 /\ Len(replied') = n + 1
      /\ attempts' \in Seq(Told \cup {Open}) /\ replied' \in Seq(Replies \cup {None})
      /\ \A i \in 1..n : attempts'[i] = attempts[i] /\ replied'[i] = replied[i]
    BY <1>1, <1>2
<1>4. Retries' = Retries /\ IsJs' = IsJs
    BY <1>2 DEF Retries, IsJs, Client
<1>5. SdkTypes'
    BY <1>2, <1>3 DEF SdkInvariant, SdkTypes
<1>6. \A i \in 1..n : Warranted(attempts[i], replied[i])
    BY <1>1 DEF SdkInvariant, Tried
<1>7. n <= Retries
    BY <1>1 DEF SdkInvariant, Tried
<1>8. Tried'
  <2>1. \A i \in 1..Len(attempts') - 1 : Warranted(attempts'[i], replied'[i])
      BY <1>1, <1>3, <1>6
  <2>2. Len(attempts') <= Retries' + 1 /\ Len(attempts') > 0
      BY <1>1, <1>3, <1>4, <1>7
  <2>3. QED
      BY <1>2, <2>1, <2>2 DEF Tried, Warranted
<1>9. ToldOf'
    BY <1>2 DEF SdkInvariant, ToldOf
<1>10. NothingAfterTheSignal'
    BY <1>2 DEF NothingAfterTheSignal, IsJs, Client
<1>11. QED
    BY <1>5, <1>8, <1>9, <1>10 DEF SdkInvariant

\* The caller is told of no attempt.
LEMMA CallEndsEarly ==
    ASSUME SdkInvariant, stage = "starting", NEW outcome \in Told, outcome.code # "ok",
           attempts # <<>> => outcome.code = "aborted",
           Tell(outcome), UNCHANGED <<using, attempts, replied, given>>
    PROVE  SdkInvariant'
<1>1. stage' = "settled" /\ told' = outcome
    BY DEF Tell
<1>2. SdkTypes'
    BY <1>1 DEF SdkInvariant, SdkTypes
<1>3. Retries' = Retries /\ Retries \in Int /\ IsJs' = IsJs
    BY RetriesCount DEF Retries, IsJs, Client, SdkInvariant
<1>4. Tried'
    BY <1>1, <1>3 DEF SdkInvariant, SdkTypes, Tried, Warranted
<1>5. ToldOf'
    BY <1>1 DEF SdkInvariant, ToldOf
<1>6. NothingAfterTheSignal'
    BY <1>1 DEF SdkInvariant, NothingAfterTheSignal, IsJs, Client
<1>7. QED
    BY <1>2, <1>4, <1>5, <1>6 DEF SdkInvariant

\* An answer of the gateway replaces none.
LEMMA AnswerComes ==
    ASSUME SdkInvariant, NEW i \in DOMAIN replied, NEW r \in Replies, GatewayAnswers(i, r)
    PROVE  SdkInvariant'
<1>1. /\ replied[i] = None /\ replied' = [replied EXCEPT ![i] = r] /\ r # None
      /\ using' = using /\ stage' = stage /\ attempts' = attempts /\ told' = told /\ given' = given
    BY SdkAssumption DEF GatewayAnswers
<1>2. replied \in Seq(Replies \cup {None}) /\ i \in 1..Len(replied) /\ Len(attempts) = Len(replied)
    BY DEF SdkInvariant, SdkTypes
<1>3. /\ replied' \in Seq(Replies \cup {None}) /\ Len(replied') = Len(replied)
      /\ \A j \in 1..Len(replied) : replied[j] # None => replied'[j] = replied[j]
    BY <1>1, <1>2
<1>4. \A j \in 1..Len(replied) : replied[j] # None => replied'[j] # None
    BY <1>3
<1>5. SdkTypes'
    BY <1>1, <1>3 DEF SdkInvariant, SdkTypes
<1>6. \A j \in 1..Len(replied) : Warranted(attempts[j], replied[j]) => Warranted(attempts[j], replied'[j])
    BY <1>3 DEF Warranted
<1>7. Retries' = Retries /\ IsJs' = IsJs
    BY <1>1 DEF Retries, IsJs, Client
<1>8. Tried'
  <2>1. \A j \in 1..Len(attempts) - 1 : Warranted(attempts[j], replied'[j])
      BY <1>2, <1>6 DEF SdkInvariant, Tried
  <2>2. (stage \in {"starting", "backoff"} /\ Len(attempts) > 0) =>
             /\ Warranted(attempts[Len(attempts)], replied'[Len(attempts)])
             /\ Len(attempts) <= Retries
      BY <1>2, <1>6 DEF SdkInvariant, Tried
  <2>3. stage = "reading" => replied'[Len(replied)] # None
      BY <1>2, <1>4 DEF SdkInvariant, Tried
  <2>4. QED
      BY <1>1, <1>3, <1>7, <2>1, <2>2, <2>3 DEF SdkInvariant, Tried, Warranted
<1>9. ToldOf'
  <2>1. Len(attempts) > 0 /\ replied[Len(attempts)] # None => replied'[Len(attempts)] = replied[Len(attempts)]
      BY <1>2, <1>3
  <2>2. QED
      BY <1>1, <2>1 DEF SdkInvariant, ToldOf
<1>10. NothingAfterTheSignal'
    BY <1>1 DEF SdkInvariant, NothingAfterTheSignal, IsJs, Client
<1>11. QED
    BY <1>5, <1>8, <1>9, <1>10 DEF SdkInvariant

\* An attempt has ended, and is tried again if it is worth it and there is room.
LEMMA AttemptEnds ==
    ASSUME SdkInvariant, stage \in {"waiting", "reading"}, NEW outcome \in Told, Conclude(outcome),
           outcome.retryable => Warranted(outcome, replied[Len(replied)]),
           outcome.code = "ok" => /\ replied[Len(replied)] # None /\ replied[Len(replied)].status = 200
                                  /\ outcome.length \in {0, replied[Len(replied)].length}
    PROVE  SdkInvariant'
<1> DEFINE n == Len(attempts)
<1>1. /\ attempts \in Seq(Told \cup {Open}) /\ replied \in Seq(Replies \cup {None})
      /\ n = Len(replied) /\ n \in Nat /\ n > 0 /\ Retries \in Int /\ n <= Retries + 1
    BY RetriesCount DEF SdkInvariant, SdkTypes, Tried
<1>2. /\ attempts' = [attempts EXCEPT ![n] = outcome]
      /\ using' = using /\ replied' = replied /\ given' = given
      /\ \/ outcome.retryable /\ n <= Retries /\ stage' = "backoff" /\ told' = told
         \/ ~(outcome.retryable /\ n <= Retries) /\ Tell(outcome)
    BY DEF Conclude, Again
<1>3. /\ attempts' \in Seq(Told \cup {Open}) /\ Len(attempts') = n /\ attempts'[n] = outcome
      /\ \A i \in 1..n - 1 : attempts'[i] = attempts[i]
    BY <1>1, <1>2
<1>4. Retries' = Retries /\ IsJs' = IsJs
    BY <1>2 DEF Retries, IsJs, Client
<1>5. stage' \in {"backoff", "streaming", "settled"}
    BY <1>2 DEF Tell
<1>6. SdkTypes'
    BY <1>1, <1>2, <1>3, <1>5 DEF SdkInvariant, SdkTypes
<1>7. \A i \in 1..n - 1 : Warranted(attempts'[i], replied'[i])
    BY <1>1, <1>2, <1>3 DEF SdkInvariant, Tried
<1>8. stage' = "backoff" => Warranted(attempts'[n], replied'[n]) /\ n <= Retries
  <2>1. stage' = "backoff" => outcome.retryable /\ n <= Retries
      BY <1>2 DEF Tell
  <2>2. QED
      BY <1>1, <1>2, <1>3, <2>1
<1>9. Tried'
    BY <1>1, <1>3, <1>4, <1>5, <1>7, <1>8 DEF Tried, Warranted
<1>10. told = None /\ given = 0
    BY DEF SdkInvariant, ToldOf
<1>11. ToldOf'
  <2>1. CASE stage' = "backoff" /\ told' = told
      BY <1>2, <1>10, <2>1 DEF ToldOf
  <2>2. CASE Tell(outcome)
    <3>1. /\ told' = outcome /\ stage' \in {"settled", "streaming"}
          /\ stage' = "streaming" => outcome.code = "ok"
          /\ (stage' = "settled" /\ outcome.code = "ok") => using.order.method # "stream"
        BY <2>2 DEF Tell
    <3>2. outcome.length \in Nat
        BY DEF Told
    <3>3. QED
        BY <1>1, <1>2, <1>3, <1>10, <3>1, <3>2 DEF ToldOf
  <2>3. QED
      BY <1>2, <2>1, <2>2
<1>12. NothingAfterTheSignal'
    BY <1>2, <1>3 DEF SdkInvariant, NothingAfterTheSignal, IsJs, Client
<1>13. QED
    BY <1>6, <1>9, <1>11, <1>12 DEF SdkInvariant

\* Failures without an answer.
LEMMA FailureEnds ==
    ASSUME SdkInvariant, NEW code \in {"timeout", "network", "aborted"},
           JsFails(code) \/ (PyFails(code) /\ code # "aborted") \/ PyBreaksOff
    PROVE  SdkInvariant'
<1>1. stage \in {"waiting", "reading"}
    BY DEF JsFails, PyFails, PyBreaksOff
<1>2. CASE PyBreaksOff
  <2>1. Error("foreign", FALSE) \in Told /\ ~Error("foreign", FALSE).retryable /\ Error("foreign", FALSE).code # "ok"
      BY DEF Error, Told, Codes
  <2>2. QED
      BY <1>1, <1>2, <2>1, AttemptEnds DEF PyBreaksOff
<1>3. CASE JsFails(code) \/ (PyFails(code) /\ code # "aborted")
  <2>1. PICK again \in BOOLEAN : again = (code # "aborted")
      OBVIOUS
  <2>2. Conclude(Error(code, again))
    <3>1. CASE JsFails(code)
      <4>1. Conclude(Error(code, code # "aborted"))
          BY <3>1 DEF JsFails
      <4>2. QED
          BY <2>1, <4>1, Zenon
    <3>2. CASE PyFails(code) /\ code # "aborted"
        BY <2>1, <3>2 DEF PyFails
    <3>3. QED
        BY <1>3, <3>1, <3>2
  <2>3. /\ Error(code, again) \in Told /\ Error(code, again).code = code /\ Error(code, again).retryable = again
      BY DEF Error, Told, Codes
  <2>4. Error(code, again).retryable => Warranted(Error(code, again), replied[Len(replied)])
      BY <2>1, <2>3 DEF Warranted
  <2>5. QED
      BY <1>1, <2>2, <2>3, <2>4, AttemptEnds
<1>4. QED
    BY <1>2, <1>3

\* What an answer is to the caller.
LEMMA OutcomeOfAnswer ==
    ASSUME NEW reply \in Replies, NEW parsed \in BOOLEAN
    PROVE  /\ OutcomeOf(reply, parsed) \in Told
           /\ OutcomeOf(reply, parsed).retryable => Warranted(OutcomeOf(reply, parsed), reply)
           /\ OutcomeOf(reply, parsed).code = "ok" =>
                 reply.status = 200 /\ OutcomeOf(reply, parsed).length \in {0, reply.length}
<1>1. reply.status \in Nat /\ reply.length \in Nat /\ reply # None
    BY SdkAssumption
<1>2. CASE reply.status = 200
    BY <1>1, <1>2 DEF OutcomeOf, Told, Codes
<1>3. CASE reply.status # 200
  <2>1. PICK error : error = IF parsed THEN reply.error ELSE None
      OBVIOUS
  <2>2. PICK code \in Codes : /\ code = IF error \in NamedErrors THEN error
                                        ELSE IF reply.status = 400 THEN "bad_request" ELSE "http_error"
                              /\ code # "ok"
      BY DEF Codes, NamedErrors
  <2>3. PICK again \in BOOLEAN :
           again = (code # "budget_exceeded" /\ (reply.status = 429 \/ reply.status >= 500))
      OBVIOUS
  <2>4. OutcomeOf(reply, parsed) = [code |-> code, retryable |-> again, length |-> 0]
    <3>1. OutcomeOf(reply, parsed) = ErrorFromResponse(reply.status, error)
        BY <1>3, <2>1 DEF OutcomeOf
    <3>2. ErrorFromResponse(reply.status, error)
             = Error(code, code # "budget_exceeded" /\ (reply.status = 429 \/ reply.status >= 500))
        BY <2>2 DEF ErrorFromResponse
    <3>3. QED
        BY <2>3, <3>1, <3>2, Zenon DEF Error
  <2>5. again => code # "budget_exceeded" /\ (reply.status = 429 \/ reply.status >= 500)
      BY <2>3
  <2>6. QED
      BY <1>1, <2>2, <2>4, <2>5 DEF Told, Warranted
<1>4. QED
    BY <1>2, <1>3

LEMMA AnswerEnds ==
    ASSUME SdkInvariant, NEW parsed \in BOOLEAN, JsBodyRead(parsed) \/ PyAnswered(parsed)
    PROVE  SdkInvariant'
<1>1. /\ stage \in {"waiting", "reading"} /\ Len(attempts) = Len(replied) /\ Len(replied) \in Nat
      /\ Len(replied) > 0 /\ replied \in Seq(Replies \cup {None})
    BY DEF JsBodyRead, PyAnswered, SdkInvariant, SdkTypes, Tried
<1>2. replied[Len(replied)] # None
    BY <1>1 DEF JsBodyRead, PyAnswered, SdkInvariant, Tried
<1>3. PICK reply \in Replies : reply = replied[Len(replied)]
    BY <1>1, <1>2
<1>4. Conclude(OutcomeOf(reply, parsed))
    BY <1>1, <1>3 DEF JsBodyRead, PyAnswered
<1>5. PICK outcome \in Told : /\ outcome = OutcomeOf(reply, parsed)
                              /\ outcome.retryable => Warranted(outcome, reply)
                              /\ outcome.code = "ok" => reply.status = 200 /\ outcome.length \in {0, reply.length}
    BY OutcomeOfAnswer
<1>6. QED
    BY <1>1, <1>2, <1>3, <1>4, <1>5, AttemptEnds

LEMMA HeadComes == ASSUME SdkInvariant, JsHead \/ Backoff PROVE SdkInvariant'
<1>1. /\ using' = using /\ attempts' = attempts /\ replied' = replied /\ told' = told /\ given' = given
      /\ \/ stage = "waiting" /\ replied[Len(attempts)] # None /\ stage' = "reading"
         \/ stage = "backoff" /\ stage' = "starting"
    BY DEF JsHead, Backoff
<1>2. Retries' = Retries /\ IsJs' = IsJs
    BY <1>1 DEF Retries, IsJs, Client
<1>3. SdkTypes'
    BY <1>1 DEF SdkInvariant, SdkTypes
<1>4. Tried'
    BY <1>1, <1>2 DEF SdkInvariant, SdkTypes, Tried, Warranted
<1>5. ToldOf' /\ NothingAfterTheSignal'
    BY <1>1, <1>2 DEF SdkInvariant, ToldOf, NothingAfterTheSignal
<1>6. QED
    BY <1>3, <1>4, <1>5 DEF SdkInvariant

LEMMA ChunkGiven == ASSUME SdkInvariant, NextChunk PROVE SdkInvariant'
<1>1. /\ using' = using /\ attempts' = attempts /\ replied' = replied /\ told' = told /\ stage = "streaming"
      /\ \/ given < told.length /\ stage' = stage
            /\ given' = IF given + ChunkChars < told.length THEN given + ChunkChars ELSE told.length
         \/ ~(given < told.length) /\ stage' = "settled" /\ given' = given
    BY DEF NextChunk
<1>2. told \in Told /\ told.length \in Nat /\ given \in Nat /\ given <= told.length /\ ChunkChars \in Nat
    BY <1>1 DEF SdkInvariant, SdkTypes, ToldOf, Told, ChunkChars
<1>3. Retries' = Retries /\ IsJs' = IsJs
    BY <1>1 DEF Retries, IsJs, Client
<1>4. SdkTypes'
    BY <1>1, <1>2 DEF SdkInvariant, SdkTypes
<1>5. Tried'
    BY <1>1, <1>3 DEF SdkInvariant, SdkTypes, Tried, Warranted
<1>6. ToldOf'
  <2>1. given' <= told.length /\ (stage' = "settled" => given' = told.length)
      BY <1>1, <1>2
  <2>2. QED
      BY <1>1, <2>1 DEF SdkInvariant, ToldOf
<1>7. NothingAfterTheSignal'
    BY <1>1, <1>3 DEF SdkInvariant, NothingAfterTheSignal
<1>8. QED
    BY <1>4, <1>5, <1>6, <1>7 DEF SdkInvariant

LEMMA SdkStep == SdkInvariant /\ [SdkNext]_SdkVars => SdkInvariant'
<1> SUFFICES ASSUME SdkInvariant, [SdkNext]_SdkVars PROVE SdkInvariant'
    OBVIOUS
<1>1. ASSUME JsNoAttempt \/ PyNoAttempt PROVE SdkInvariant'
  <2>1. stage = "starting" /\ Retries < 0 /\ UNCHANGED <<using, attempts, replied, given>>
      BY <1>1 DEF JsNoAttempt, PyNoAttempt, NoAttempt
  <2>2. PICK code \in {"undefined", "http_error"} : Tell(Error(code, FALSE))
      BY <1>1 DEF JsNoAttempt, PyNoAttempt, NoAttempt
  <2>3. Error(code, FALSE) \in Told /\ Error(code, FALSE).code # "ok"
      BY DEF Error, Told, Codes
  <2>4. attempts = <<>>
    <3>1. Retries \in Int
        BY <2>1, RetriesCount DEF SdkInvariant
    <3>2. ~(Len(attempts) > 0)
        BY <2>1, <3>1 DEF SdkInvariant, SdkTypes, Tried
    <3>3. QED
        BY <3>2 DEF SdkInvariant, SdkTypes
  <2>5. QED
      BY <2>1, <2>2, <2>3, <2>4, CallEndsEarly
<1>2. ASSUME JsStart \/ PyStart PROVE SdkInvariant'
  <2>1. stage = "starting" /\ Retries >= 0
      BY <1>2 DEF JsStart, PyStart
  <2>2. CASE Send /\ (IsJs => using.left = None)
      BY <2>1, <2>2, AttemptBegins
  <2>3. CASE Tell(Error("aborted", FALSE)) /\ UNCHANGED <<using, attempts, replied, given>>
    <3>1. Error("aborted", FALSE) \in Told /\ Error("aborted", FALSE).code = "aborted"
        BY DEF Error, Told, Codes
    <3>2. QED
        BY <2>1, <2>3, <3>1, CallEndsEarly
  <2>4. QED
      BY <1>2, <2>2, <2>3 DEF JsStart, PyStart
<1>3. ASSUME Return PROVE SdkInvariant'
    BY <1>3 DEF Return, SdkInvariant, SdkTypes, Tried, ToldOf, NothingAfterTheSignal
<1>4. ASSUME UNCHANGED SdkVars PROVE SdkInvariant'
  <2>1. Retries' = Retries /\ IsJs' = IsJs
      BY <1>4 DEF SdkVars, Retries, IsJs, Client
  <2>2. QED
      BY <1>4, <2>1 DEF SdkVars, SdkInvariant, SdkTypes, Tried, ToldOf, NothingAfterTheSignal, Warranted
<1>5. QED
    BY <1>1, <1>2, <1>3, <1>4, CallBegins, CallerLeaves, AnswerComes, FailureEnds, AnswerEnds, HeadComes, ChunkGiven
       DEF SdkNext

\* Through either library a call is tried again only when that is worth it and as often as
\* was asked for, never after the caller's signal; the caller is told how the last attempt
\* ended, a stream gives the whole of it, and both libraries send alike what both accept,
\* for any clients, calls and answers (js/src/index.js:132-152, __init__.py:221-271).
THEOREM LibrariesAlwaysBehave == SdkSpec => []LibrariesBehave
<1>1. SdkInvariant => LibrariesBehave
  <2> SUFFICES ASSUME SdkInvariant PROVE LibrariesBehave
      OBVIOUS
  <2>1. AttemptsAreWarranted
    <3>1. attempts \in Seq(Told \cup {Open})
        BY DEF SdkInvariant, SdkTypes
    <3>2. QED
        BY <3>1 DEF SdkInvariant, SdkTypes, Tried, ToldOf, AttemptsAreWarranted, Warranted, Last
  <2>2. NothingAfterTheSignal /\ StreamIsWhole
      BY DEF SdkInvariant, ToldOf, StreamIsWhole
  <2>3. QED
      BY <2>1, <2>2, LibrariesAgree DEF LibrariesBehave
<1>2. QED
    BY <1>1, SdkStarts, SdkStep, PTL DEF SdkSpec

-----------------------------------------------------------------------------
(* The console. *)

StoredSettings ==
    [_id : {"here"}, key : {"global"}, routingMode : Modes \cup {None}, autoRouting : BOOLEAN,
     piiMaskingEnabled : BOOLEAN, webhookUrl : {"hook", None}, maintenanceMode : Maintenance]
StoredRule ==
    [id : Nat, what : {"fixture", "manual"}, alias : {"team", "env", None}, enabled : BOOLEAN,
     isDemoFixture : BOOLEAN]
StoredCap == [id : Nat, of : {"app"}]
Importing == {"settings", "rules", "caps"}
Work ==
    {NoWork} \cup [op : {"mode"}, read : StoredSettings, now : StoredSettings]
    \cup [op : {"export"}, left : SUBSET {"settings", "rules", "caps"}, got : Exports]
    \cup [op : Importing, no : Nat]
Import ==
    [file : Exports, settings : BOOLEAN, rules : SUBSET Nat, caps : SUBSET Nat, answer : {None, "ok", "failed"}]
ConsoleTypes ==
    /\ settingsRow \in StoredSettings
    /\ ruleRows \subseteq StoredRule /\ IsFiniteSet(ruleRows)
    /\ capRows \subseteq StoredCap /\ IsFiniteSet(capRows)
    /\ lastRow \in Nat
    /\ file \in Exports
    /\ desk \in [Desks -> Work]
    /\ imports \in Seq(Import)
    /\ inForce \in 0..Len(imports)

\* How far an import has come says what it has written; one administrator makes it.
Begun(a, op) ==
    /\ a.caps = {} /\ a.answer = None
    /\ a.settings = (op # "settings")
    /\ op \in {"settings", "rules"} => a.rules = {}
    /\ op = "caps" => Cardinality(a.rules) = Len(a.file.rules)
Stages ==
    /\ \A d \in Desks : desk[d].op \in Importing =>
          desk[d].no \in DOMAIN imports /\ Begun(imports[desk[d].no], desk[d].op)
    /\ \A d, e \in Desks :
          desk[d].op \in Importing /\ desk[e].op \in Importing /\ d # e => desk[d].no # desk[e].no

\* What each import has written holds of it alone.
Ordered(a) ==
    /\ a.rules # {} => a.settings
    /\ a.caps # {} => a.settings /\ Cardinality(a.rules) = Len(a.file.rules)
    /\ a.answer = "ok" => /\ a.settings /\ Cardinality(a.rules) = Len(a.file.rules)
                          /\ Cardinality(a.caps) = Len(a.file.caps)
AllOrdered == \A i \in DOMAIN imports : Ordered(imports[i])

\* A rule that came with a file bears no mark of the fixture while it is there.
Stands(id) == id \in erased \/ \E r \in ruleRows : r.id = id /\ ~r.isDemoFixture
AllStand == \A i \in DOMAIN imports : \A id \in imports[i].rules : Stands(id)

ConsoleInvariant == ConsoleTypes /\ Stages /\ AllOrdered /\ AllStand /\ SettingsComeBack

-----------------------------------------------------------------------------
\* A document leaves without what identifies it.
LEMMA SettingsStripped ==
    ASSUME NEW s \in StoredSettings
    PROVE  /\ StripInternal(s) \in ExportedSettings
           /\ StripInternal(s) = [key |-> s.key, routingMode |-> s.routingMode, autoRouting |-> s.autoRouting,
                                  piiMaskingEnabled |-> s.piiMaskingEnabled, webhookUrl |-> s.webhookUrl,
                                  maintenanceMode |-> s.maintenanceMode]
BY DEF StripInternal, StoredSettings, ExportedSettings

LEMMA RuleStripped == ASSUME NEW r \in StoredRule PROVE StripInternal(r) \in RuleDoc
BY DEF StripInternal, StoredRule, RuleDoc

LEMMA CapStripped == ASSUME NEW c \in StoredCap PROVE StripInternal(c) \in CapDoc
BY DEF StripInternal, StoredCap, CapDoc

\* A finite collection is listed in some order.
LEMMA Listable ==
    ASSUME NEW stock, IsFiniteSet(stock)
    PROVE  /\ Cardinality(stock) \in Nat
           /\ SetToSeq(stock) \in [1..Cardinality(stock) -> stock]
<1>1. Cardinality(stock) \in Nat /\ ExistsBijection(1..Cardinality(stock), stock)
    BY FS_CardinalityType
<1>2. \E f \in [1..Cardinality(stock) -> stock] : IsInjective(f)
    BY <1>1 DEF ExistsBijection, Bijection, Injection
<1>3. QED
    BY <1>1, <1>2 DEF SetToSeq

LEMMA RulesListed == ASSUME NEW stock \in SUBSET StoredRule, IsFiniteSet(stock) PROVE Listed(stock) \in Seq(RuleDoc)
<1>1. PICK order \in [1..Cardinality(stock) -> stock] : order = SetToSeq(stock)
    BY Listable
<1>2. Cardinality(stock) \in Nat /\ DOMAIN order = 1..Cardinality(stock)
    BY <1>1, Listable
<1>3. \A i \in 1..Cardinality(stock) : StripInternal(order[i]) \in RuleDoc
    BY <1>1, RuleStripped
<1>4. Listed(stock) = [i \in 1..Cardinality(stock) |-> StripInternal(order[i])]
    BY <1>1, <1>2 DEF Listed
<1>5. QED
    BY <1>2, <1>3, <1>4

LEMMA CapsListed == ASSUME NEW stock \in SUBSET StoredCap, IsFiniteSet(stock) PROVE Listed(stock) \in Seq(CapDoc)
<1>1. PICK order \in [1..Cardinality(stock) -> stock] : order = SetToSeq(stock)
    BY Listable
<1>2. Cardinality(stock) \in Nat /\ DOMAIN order = 1..Cardinality(stock)
    BY <1>1, Listable
<1>3. \A i \in 1..Cardinality(stock) : StripInternal(order[i]) \in CapDoc
    BY <1>1, CapStripped
<1>4. Listed(stock) = [i \in 1..Cardinality(stock) |-> StripInternal(order[i])]
    BY <1>1, <1>2 DEF Listed
<1>5. QED
    BY <1>2, <1>3, <1>4

\* What insertMany writes of rules, and under which identifiers.
LEMMA RulesInserted ==
    ASSUME NEW docs \in Seq(RuleDoc), NEW n \in 0..Len(docs), lastRow \in Nat
    PROVE  /\ Inserted(docs, n) \subseteq StoredRule /\ IsFiniteSet(Inserted(docs, n))
           /\ {r.id : r \in Inserted(docs, n)} = lastRow + 1 .. lastRow + n
           /\ Cardinality({r.id : r \in Inserted(docs, n)}) = n
           /\ \A r \in Inserted(docs, n) : \E i \in 1..n : r.isDemoFixture = docs[i].isDemoFixture
<1>1. n \in Nat /\ \A i \in 1..n : docs[i] \in RuleDoc
    OBVIOUS
<1>2. ASSUME NEW doc \in RuleDoc, NEW id \in Nat
      PROVE  /\ WithId(doc, id) \in StoredRule /\ WithId(doc, id).id = id
             /\ WithId(doc, id).isDemoFixture = doc.isDemoFixture
    BY DEF WithId, RuleDoc, StoredRule
<1>3. \A i \in 1..n : /\ WithId(docs[i], lastRow + i) \in StoredRule
                      /\ WithId(docs[i], lastRow + i).id = lastRow + i
                      /\ WithId(docs[i], lastRow + i).isDemoFixture = docs[i].isDemoFixture
    BY <1>1, <1>2
<1>4. Inserted(docs, n) \subseteq StoredRule
    BY <1>3 DEF Inserted
<1>5. IsFiniteSet(Inserted(docs, n))
  <2>1. PICK f : f = [i \in 1..n |-> WithId(docs[i], lastRow + i)]
      OBVIOUS
  <2>2. f \in Surjection(1..n, Inserted(docs, n))
      BY <2>1 DEF Surjection, Inserted
  <2>3. IsFiniteSet(1..n)
      BY <1>1, FS_Interval
  <2>4. QED
      BY <2>2, <2>3, FS_Surjection
<1>6. {r.id : r \in Inserted(docs, n)} = lastRow + 1 .. lastRow + n
  <2>1. ASSUME NEW id \in {r.id : r \in Inserted(docs, n)} PROVE id \in lastRow + 1 .. lastRow + n
      BY <1>1, <1>3 DEF Inserted
  <2>2. ASSUME NEW id \in lastRow + 1 .. lastRow + n PROVE id \in {r.id : r \in Inserted(docs, n)}
    <3>1. id - lastRow \in 1..n /\ lastRow + (id - lastRow) = id
        BY <1>1
    <3>2. WithId(docs[id - lastRow], lastRow + (id - lastRow)).id = id
        BY <1>3, <3>1
    <3>3. QED
        BY <3>1, <3>2 DEF Inserted
  <2>3. QED
      BY <2>1, <2>2
<1>7. Cardinality(lastRow + 1 .. lastRow + n) = n
    BY <1>1, FS_Interval
<1>8. \A r \in Inserted(docs, n) : \E i \in 1..n : r.isDemoFixture = docs[i].isDemoFixture
    BY <1>3 DEF Inserted
<1>9. QED
    BY <1>4, <1>5, <1>6, <1>7, <1>8

LEMMA CapsInserted ==
    ASSUME NEW docs \in Seq(CapDoc), NEW n \in 0..Len(docs), lastRow \in Nat
    PROVE  /\ Inserted(docs, n) \subseteq StoredCap /\ IsFiniteSet(Inserted(docs, n))
           /\ {r.id : r \in Inserted(docs, n)} \subseteq Nat
           /\ Cardinality({r.id : r \in Inserted(docs, n)}) = n
<1>1. n \in Nat /\ \A i \in 1..n : docs[i] \in CapDoc
    OBVIOUS
<1>2. ASSUME NEW doc \in CapDoc, NEW id \in Nat
      PROVE  WithId(doc, id) \in StoredCap /\ WithId(doc, id).id = id
    BY DEF WithId, CapDoc, StoredCap
<1>3. \A i \in 1..n : /\ WithId(docs[i], lastRow + i) \in StoredCap
                      /\ WithId(docs[i], lastRow + i).id = lastRow + i
    BY <1>1, <1>2
<1>4. Inserted(docs, n) \subseteq StoredCap
    BY <1>3 DEF Inserted
<1>5. IsFiniteSet(Inserted(docs, n))
  <2>1. PICK f : f = [i \in 1..n |-> WithId(docs[i], lastRow + i)]
      OBVIOUS
  <2>2. f \in Surjection(1..n, Inserted(docs, n))
      BY <2>1 DEF Surjection, Inserted
  <2>3. IsFiniteSet(1..n)
      BY <1>1, FS_Interval
  <2>4. QED
      BY <2>2, <2>3, FS_Surjection
<1>6. {r.id : r \in Inserted(docs, n)} = lastRow + 1 .. lastRow + n
  <2>1. ASSUME NEW id \in {r.id : r \in Inserted(docs, n)} PROVE id \in lastRow + 1 .. lastRow + n
      BY <1>1, <1>3 DEF Inserted
  <2>2. ASSUME NEW id \in lastRow + 1 .. lastRow + n PROVE id \in {r.id : r \in Inserted(docs, n)}
    <3>1. id - lastRow \in 1..n /\ lastRow + (id - lastRow) = id
        BY <1>1
    <3>2. WithId(docs[id - lastRow], lastRow + (id - lastRow)).id = id
        BY <1>3, <3>1
    <3>3. QED
        BY <3>1, <3>2 DEF Inserted
  <2>3. QED
      BY <2>1, <2>2
<1>7. Cardinality(lastRow + 1 .. lastRow + n) = n /\ lastRow + 1 .. lastRow + n \subseteq Nat
    BY <1>1, FS_Interval
<1>8. QED
    BY <1>4, <1>5, <1>6, <1>7

-----------------------------------------------------------------------------
LEMMA ConsoleStarts == ConsoleInit => ConsoleInvariant
<1> SUFFICES ASSUME ConsoleInit PROVE ConsoleInvariant
    OBVIOUS
<1>1. settingsRow \in StoredSettings
    BY DEF ConsoleInit, NewSettings, StoredSettings, Maintenance, Messages
<1>2. RuleRow(1, "fixture", None, FALSE, TRUE) \in StoredRule
    BY DEF RuleRow, StoredRule
<1>3. ruleRows \subseteq StoredRule /\ IsFiniteSet(ruleRows) /\ capRows \subseteq StoredCap /\ IsFiniteSet(capRows)
    BY <1>2, FS_Singleton, FS_EmptySet DEF ConsoleInit
<1>4. desk \in [Desks -> Work] /\ \A d \in Desks : desk[d].op \notin Importing
    BY DEF ConsoleInit, Work, NoWork, Importing
<1>5. imports = <<>> /\ imports \in Seq(Import) /\ Len(imports) = 0 /\ inForce = 0
    BY DEF ConsoleInit
<1>6. ConsoleTypes
  <2>1. file \in Exports
      BY ConsoleAssumption DEF ConsoleInit
  <2>2. lastRow \in Nat
      BY DEF ConsoleInit
  <2>3. inForce \in 0..Len(imports)
      BY <1>5
  <2>4. QED
      BY <1>1, <1>3, <1>4, <1>5, <2>1, <2>2, <2>3 DEF ConsoleTypes
<1>7. QED
    BY <1>4, <1>5, <1>6 DEF ConsoleInvariant, Stages, AllOrdered, AllStand, SettingsComeBack

\* A change of rules, in which what stood stands.
LEMMA RulesChange ==
    ASSUME ConsoleInvariant, UNCHANGED <<settingsRow, capRows, file, desk, imports, inForce>>,
           ruleRows' \subseteq StoredRule, IsFiniteSet(ruleRows'), lastRow' \in Nat,
           \A id : Stands(id) => Stands(id)'
    PROVE  ConsoleInvariant'
<1>1. ConsoleTypes'
    BY DEF ConsoleInvariant, ConsoleTypes
<1>2. Stages' /\ AllOrdered' /\ SettingsComeBack'
    BY DEF ConsoleInvariant, Stages, AllOrdered, SettingsComeBack
<1>3. AllStand'
    BY DEF ConsoleInvariant, AllStand
<1>4. QED
    BY <1>1, <1>2, <1>3 DEF ConsoleInvariant

LEMMA RuleMade ==
    ASSUME ConsoleInvariant, NEW d \in Desks, CreateRule(d) \/ SeedFixture(d)
    PROVE  ConsoleInvariant'
<1>1. PICK r \in StoredRule : ruleRows' = ruleRows \cup {r}
  <2>1. lastRow + 1 \in Nat
      BY DEF ConsoleInvariant, ConsoleTypes
  <2>2. \A raw \in RawAliases : NormalizeTargetAlias(raw) \in {"team", "env", None}
      BY DEF NormalizeTargetAlias
  <2>3. ASSUME CreateRule(d) PROVE \E r \in StoredRule : ruleRows' = ruleRows \cup {r}
      BY <2>1, <2>2, <2>3 DEF CreateRule, RuleRow, StoredRule
  <2>4. ASSUME SeedFixture(d) PROVE \E r \in StoredRule : ruleRows' = ruleRows \cup {r}
      BY <2>1, <2>4 DEF SeedFixture, RuleRow, StoredRule
  <2>5. QED
      BY <2>3, <2>4
<1>2. lastRow' = lastRow + 1 /\ erased' = erased /\ UNCHANGED <<settingsRow, capRows, file, desk, imports, inForce>>
    BY DEF CreateRule, SeedFixture
<1>3. ruleRows' \subseteq StoredRule /\ IsFiniteSet(ruleRows') /\ lastRow' \in Nat
    BY <1>1, <1>2, FS_AddElement DEF ConsoleInvariant, ConsoleTypes
<1>4. \A id : Stands(id) => Stands(id)'
    BY <1>1, <1>2 DEF Stands
<1>5. QED
    BY <1>2, <1>3, <1>4, RulesChange

\* A rule that is changed keeps its identifier, and its mark.
LEMMA RuleChanged == ASSUME ConsoleInvariant, NEW d \in Desks, UpdateRule(d) PROVE ConsoleInvariant'
<1>1. PICK r \in ruleRows, raw \in RawAliases, enabled \in BOOLEAN :
         ruleRows' = (ruleRows \ {r}) \cup {[r EXCEPT !.enabled = enabled, !.alias = NormalizeTargetAlias(raw)]}
    BY DEF UpdateRule
<1>2. lastRow' = lastRow /\ erased' = erased /\ UNCHANGED <<settingsRow, capRows, file, desk, imports, inForce>>
    BY DEF UpdateRule
<1>3. r \in StoredRule
    BY DEF ConsoleInvariant, ConsoleTypes
<1>4. PICK alias \in {"team", "env", None} : alias = NormalizeTargetAlias(raw)
    BY DEF NormalizeTargetAlias
<1>5. PICK q \in StoredRule : /\ q = [r EXCEPT !.enabled = enabled, !.alias = alias]
                              /\ q.id = r.id /\ q.isDemoFixture = r.isDemoFixture
  <2>1. [r EXCEPT !.enabled = enabled, !.alias = alias] \in StoredRule
      BY <1>3 DEF StoredRule
  <2>2. /\ [r EXCEPT !.enabled = enabled, !.alias = alias].id = r.id
        /\ [r EXCEPT !.enabled = enabled, !.alias = alias].isDemoFixture = r.isDemoFixture
      BY <1>3 DEF StoredRule
  <2>3. QED
      BY <2>1, <2>2
<1>6. ruleRows' = (ruleRows \ {r}) \cup {q}
    BY <1>1, <1>4, <1>5
<1>7. ruleRows' \subseteq StoredRule /\ IsFiniteSet(ruleRows') /\ lastRow' \in Nat
    BY <1>2, <1>6, FS_AddElement, FS_RemoveElement DEF ConsoleInvariant, ConsoleTypes
<1>8. \A id : Stands(id) => Stands(id)'
    BY <1>2, <1>5, <1>6 DEF Stands
<1>9. QED
    BY <1>2, <1>7, <1>8, RulesChange

\* Rules that are taken away are erased by an administrator, or bear the mark.
LEMMA RulesTaken ==
    ASSUME ConsoleInvariant, NEW d \in Desks, DeleteRule(d) \/ ResetFixture(d)
    PROVE  ConsoleInvariant'
<1>1. lastRow' = lastRow /\ UNCHANGED <<settingsRow, capRows, file, desk, imports, inForce>>
    BY DEF DeleteRule, ResetFixture
<1>2. ruleRows' \subseteq ruleRows
    BY DEF DeleteRule, ResetFixture
<1>3. \A id : Stands(id) => Stands(id)'
  <2>1. CASE DeleteRule(d)
      BY <2>1 DEF DeleteRule, Stands
  <2>2. CASE ResetFixture(d)
      BY <2>2 DEF ResetFixture, Stands
  <2>3. QED
      BY <2>1, <2>2
<1>4. ruleRows' \subseteq StoredRule /\ IsFiniteSet(ruleRows') /\ lastRow' \in Nat
    BY <1>1, <1>2, FS_Subset DEF ConsoleInvariant, ConsoleTypes
<1>5. QED
    BY <1>1, <1>3, <1>4, RulesChange

-----------------------------------------------------------------------------
\* A desk turns to something that is no import.
LEMMA DeskTurns ==
    ASSUME ConsoleInvariant, NEW d \in Desks, NEW w \in Work, w.op \notin Importing,
           desk' = [desk EXCEPT ![d] = w], imports' = imports
    PROVE  desk' \in [Desks -> Work] /\ Stages'
<1>1. desk' \in [Desks -> Work] /\ \A e \in Desks : desk'[e] = IF e = d THEN w ELSE desk[e]
    BY DEF ConsoleInvariant, ConsoleTypes
<1>2. Stages'
    BY <1>1 DEF ConsoleInvariant, Stages
<1>3. QED
    BY <1>1, <1>2

LEMMA SettingsChange ==
    ASSUME ConsoleInvariant, UNCHANGED <<ruleRows, capRows, lastRow, imports, erased>>,
           settingsRow' \in StoredSettings, file' \in Exports,
           inForce' = 0 \/ (inForce' = inForce /\ settingsRow' = settingsRow),
           \/ desk' = desk
           \/ \E d \in Desks, w \in Work : w.op \notin Importing /\ desk' = [desk EXCEPT ![d] = w]
    PROVE  ConsoleInvariant'
<1>1. desk' \in [Desks -> Work] /\ Stages'
  <2>1. CASE desk' = desk
      BY <2>1 DEF ConsoleInvariant, ConsoleTypes, Stages
  <2>2. CASE \E d \in Desks, w \in Work : w.op \notin Importing /\ desk' = [desk EXCEPT ![d] = w]
      BY <2>2, DeskTurns
  <2>3. QED
      BY <2>1, <2>2
<1>2. ConsoleTypes'
    BY <1>1 DEF ConsoleInvariant, ConsoleTypes
<1>3. AllOrdered' /\ AllStand'
    BY DEF ConsoleInvariant, AllOrdered, AllStand, Stands
<1>4. SettingsComeBack'
    BY DEF ConsoleInvariant, SettingsComeBack
<1>5. QED
    BY <1>1, <1>2, <1>3, <1>4 DEF ConsoleInvariant

LEMMA GovernancePatched == ASSUME ConsoleInvariant, NEW d \in Desks, PatchGovernance(d) PROVE ConsoleInvariant'
<1>1. PICK c \in Changes : settingsRow' = Patched(settingsRow, c)
    BY DEF PatchGovernance
<1>2. /\ inForce' = 0 /\ desk' = desk /\ file' = file
      /\ UNCHANGED <<ruleRows, capRows, lastRow, imports, erased>>
    BY DEF PatchGovernance
<1>3. settingsRow \in StoredSettings /\ settingsRow.maintenanceMode \in Maintenance
    BY DEF ConsoleInvariant, ConsoleTypes, StoredSettings
<1>4. PICK group \in Maintenance :
         group = IF c.maintenance = None THEN settingsRow.maintenanceMode
                 ELSE Maintained(settingsRow.maintenanceMode, c.maintenance)
  <2>1. CASE c.maintenance = None
      BY <1>3, <2>1
  <2>2. CASE c.maintenance # None
    <3>1. c.maintenance \in [enabled : BOOLEAN, message : {None, " ", "soon"}]
        BY <2>2 DEF Changes
    <3>2. Maintained(settingsRow.maintenanceMode, c.maintenance) \in Maintenance
        BY <1>3, <3>1 DEF Maintained, Maintenance, Messages
    <3>3. QED
        BY <2>2, <3>2
  <2>3. QED
      BY <2>1, <2>2
<1>5. PICK pii \in BOOLEAN : pii = IF c.pii = None THEN settingsRow.piiMaskingEnabled ELSE c.pii
    BY <1>3 DEF StoredSettings, Changes
<1>6. PICK hook \in {"hook", None} : hook = IF c.webhook = "absent" THEN settingsRow.webhookUrl ELSE c.webhook
    BY <1>3 DEF StoredSettings, Changes
<1>7. settingsRow' = [settingsRow EXCEPT !.maintenanceMode = group, !.piiMaskingEnabled = pii, !.webhookUrl = hook]
    BY <1>1, <1>4, <1>5, <1>6 DEF Patched
<1>8. settingsRow' \in StoredSettings
    BY <1>3, <1>7 DEF StoredSettings
<1>9. file' \in Exports
    BY <1>2 DEF ConsoleInvariant, ConsoleTypes
<1>10. QED
    BY <1>2, <1>8, <1>9, SettingsChange

LEMMA ModePut == ASSUME ConsoleInvariant, NEW d \in Desks, PutMode(d) PROVE ConsoleInvariant'
<1>1. PICK mode : desk' = [desk EXCEPT ![d] = [op |-> "mode", read |-> settingsRow,
                                               now |-> WithMode(settingsRow, mode)]]
    BY DEF PutMode
<1>2. /\ settingsRow' = settingsRow /\ inForce' = inForce /\ file' = file
      /\ UNCHANGED <<ruleRows, capRows, lastRow, imports, erased>>
    BY DEF PutMode
<1>3. settingsRow \in StoredSettings /\ file \in Exports
    BY DEF ConsoleInvariant, ConsoleTypes
<1>4. WithMode(settingsRow, mode) \in StoredSettings
  <2>1. ValidMode(mode) \in Modes
      BY DEF ValidMode, Modes
  <2>2. PICK on \in BOOLEAN : on = (ValidMode(mode) # "off")
      OBVIOUS
  <2>3. WithMode(settingsRow, mode) = [settingsRow EXCEPT !.routingMode = ValidMode(mode), !.autoRouting = on]
      BY <2>2, Zenon DEF WithMode
  <2>4. QED
      BY <1>3, <2>1, <2>3 DEF StoredSettings
<1>5. PICK w \in Work : w = [op |-> "mode", read |-> settingsRow, now |-> WithMode(settingsRow, mode)]
                        /\ w.op = "mode"
  <2>1. [op |-> "mode", read |-> settingsRow, now |-> WithMode(settingsRow, mode)] \in Work
      BY <1>3, <1>4 DEF Work
  <2>2. QED
      BY <2>1
<1>6. w.op \notin Importing
    BY <1>5 DEF Importing
<1>7. QED
    BY <1>1, <1>2, <1>3, <1>5, <1>6, SettingsChange

LEMMA ModeSaved == ASSUME ConsoleInvariant, NEW d \in Desks, SaveMode(d) PROVE ConsoleInvariant'
<1>1. /\ desk[d].op = "mode" /\ settingsRow' = Saved(settingsRow, desk[d].read, desk[d].now)
      /\ inForce' = IF settingsRow' = settingsRow THEN inForce ELSE 0
      /\ desk' = [desk EXCEPT ![d] = NoWork] /\ file' = file
      /\ UNCHANGED <<ruleRows, capRows, lastRow, imports, erased>>
    BY DEF SaveMode
<1>2. desk[d].read \in StoredSettings /\ desk[d].now \in StoredSettings
  <2>1. desk[d] \in Work
      BY DEF ConsoleInvariant, ConsoleTypes
  <2>2. QED
      BY <1>1, <2>1 DEF Work, NoWork, Importing
<1>3. settingsRow \in StoredSettings /\ file \in Exports
    BY DEF ConsoleInvariant, ConsoleTypes
<1>4. settingsRow' \in StoredSettings
  <2>1. PICK read \in StoredSettings, now \in StoredSettings : read = desk[d].read /\ now = desk[d].now
      BY <1>2
  <2>2. settingsRow' = Saved(settingsRow, read, now)
      BY <1>1, <2>1
  <2>3. Saved(settingsRow, read, now) \in StoredSettings
      BY <1>3 DEF Saved, StoredSettings
  <2>4. QED
      BY <2>2, <2>3
<1>5. NoWork \in Work /\ NoWork.op \notin Importing
    BY DEF NoWork, Work, Importing
<1>6. QED
    BY <1>1, <1>3, <1>4, <1>5, SettingsChange

LEMMA ExportBegun == ASSUME ConsoleInvariant, NEW d \in Desks, BeginExport(d) PROVE ConsoleInvariant'
<1>1. /\ desk' = [desk EXCEPT ![d] = [op |-> "export", left |-> {"settings", "rules", "caps"}, got |-> OtherFile]]
      /\ settingsRow' = settingsRow /\ inForce' = inForce /\ file' = file
      /\ UNCHANGED <<ruleRows, capRows, lastRow, imports, erased>>
    BY DEF BeginExport
<1>2. settingsRow \in StoredSettings /\ file \in Exports
    BY DEF ConsoleInvariant, ConsoleTypes
<1>3. PICK w \in Work : /\ w = [op |-> "export", left |-> {"settings", "rules", "caps"}, got |-> OtherFile]
                        /\ w.op = "export"
  <2>1. [op |-> "export", left |-> {"settings", "rules", "caps"}, got |-> OtherFile] \in Work
      BY ConsoleAssumption DEF Work
  <2>2. QED
      BY <2>1
<1>4. w.op \notin Importing
    BY <1>3 DEF Importing
<1>5. QED
    BY <1>1, <1>2, <1>3, <1>4, SettingsChange

LEMMA PartRead == ASSUME ConsoleInvariant, NEW d \in Desks, ReadPart(d) PROVE ConsoleInvariant'
<1>1. desk[d] \in Work /\ desk[d].op = "export"
    BY DEF ReadPart, ConsoleInvariant, ConsoleTypes
<1>2. desk[d].left \in SUBSET {"settings", "rules", "caps"} /\ desk[d].got \in Exports
    BY <1>1 DEF Work, NoWork, Importing
<1>3. PICK part \in desk[d].left :
         LET got == [desk[d].got EXCEPT ![part] = CASE part = "settings" -> StripInternal(settingsRow)
                                                    [] part = "rules" -> Listed(ruleRows)
                                                    [] part = "caps" -> Listed(capRows)]
         IN  IF desk[d].left = {part}
             THEN file' = got /\ desk' = [desk EXCEPT ![d] = NoWork]
             ELSE /\ desk' = [desk EXCEPT ![d] = [op |-> "export", left |-> desk[d].left \ {part}, got |-> got]]
                  /\ file' = file
    BY DEF ReadPart
<1>4. /\ settingsRow' = settingsRow /\ inForce' = inForce
      /\ UNCHANGED <<ruleRows, capRows, lastRow, imports, erased>>
    BY DEF ReadPart
<1>5. settingsRow \in StoredSettings /\ file \in Exports
    BY DEF ConsoleInvariant, ConsoleTypes
<1>6. StripInternal(settingsRow) \in ExportedSettings
    BY <1>5, SettingsStripped
<1>7. Listed(ruleRows) \in Seq(RuleDoc) /\ Listed(capRows) \in Seq(CapDoc)
    BY RulesListed, CapsListed DEF ConsoleInvariant, ConsoleTypes
<1>8. PICK got \in Exports :
         got = [desk[d].got EXCEPT ![part] = CASE part = "settings" -> StripInternal(settingsRow)
                                               [] part = "rules" -> Listed(ruleRows)
                                               [] part = "caps" -> Listed(capRows)]
  <2>1. CASE part = "settings"
      BY <1>2, <1>6, <2>1 DEF Exports
  <2>2. CASE part = "rules"
      BY <1>2, <1>7, <2>2 DEF Exports
  <2>3. CASE part = "caps"
      BY <1>2, <1>7, <2>3 DEF Exports
  <2>4. QED
      BY <1>2, <2>1, <2>2, <2>3
<1>9. PICK w \in Work : /\ desk' = [desk EXCEPT ![d] = w] /\ w.op \notin Importing
  <2>1. NoWork \in Work /\ NoWork.op \notin Importing
      BY DEF NoWork, Work, Importing
  <2>2. PICK w \in Work : /\ w = [op |-> "export", left |-> desk[d].left \ {part}, got |-> got]
                          /\ w.op = "export"
    <3>1. [op |-> "export", left |-> desk[d].left \ {part}, got |-> got] \in Work
        BY <1>2, <1>8 DEF Work
    <3>2. QED
        BY <3>1
  <2>3. w.op \notin Importing
      BY <2>2 DEF Importing
  <2>4. QED
      BY <1>3, <1>8, <2>1, <2>2, <2>3
<1>10. file' \in Exports
    BY <1>3, <1>5, <1>8
<1>11. QED
    BY <1>4, <1>5, <1>9, <1>10, SettingsChange

-----------------------------------------------------------------------------
\* A step of an import writes its record, and goes on to the next step or ends.
LEMMA ImportMoves ==
    ASSUME ConsoleInvariant, NEW d \in Desks, desk[d].op \in Importing,
           NEW a \in Import, a.file = imports[desk[d].no].file,
           imports' = [imports EXCEPT ![desk[d].no] = a],
           NEW w \in Work, desk' = [desk EXCEPT ![d] = w],
           w.op \in Importing => w.no = desk[d].no /\ Begun(a, w.op),
           Ordered(a), \A id \in a.rules : Stands(id)', \A id : Stands(id) => Stands(id)'
    PROVE  /\ desk' \in [Desks -> Work] /\ imports' \in Seq(Import) /\ Len(imports') = Len(imports)
           /\ \A i \in DOMAIN imports : imports'[i].file = imports[i].file
           /\ Stages' /\ AllOrdered' /\ AllStand'
<1>1. PICK no \in DOMAIN imports : no = desk[d].no
    BY DEF ConsoleInvariant, Stages
<1>2. imports \in Seq(Import) /\ desk \in [Desks -> Work]
    BY DEF ConsoleInvariant, ConsoleTypes
<1>3. /\ imports' \in Seq(Import) /\ Len(imports') = Len(imports) /\ DOMAIN imports' = DOMAIN imports
      /\ \A i \in DOMAIN imports : imports'[i] = IF i = no THEN a ELSE imports[i]
    BY <1>1, <1>2
<1>4. /\ desk' \in [Desks -> Work]
      /\ \A e \in Desks : desk'[e] = IF e = d THEN w ELSE desk[e]
    BY <1>2
<1>5. \A i \in DOMAIN imports : imports'[i].file = imports[i].file
    BY <1>1, <1>3
<1>6. Stages'
  <2>1. ASSUME NEW e \in Desks, desk'[e].op \in Importing
        PROVE  desk'[e].no \in DOMAIN imports' /\ Begun(imports'[desk'[e].no], desk'[e].op)
    <3>1. CASE e = d
        BY <1>1, <1>3, <1>4, <2>1, <3>1
    <3>2. CASE e # d
      <4>1. desk'[e] = desk[e] /\ desk[e].no # no /\ desk[e].no \in DOMAIN imports
          BY <1>1, <1>4, <2>1, <3>2 DEF ConsoleInvariant, Stages
      <4>2. imports'[desk[e].no] = imports[desk[e].no]
          BY <1>3, <4>1
      <4>3. QED
          BY <1>3, <2>1, <4>1, <4>2 DEF ConsoleInvariant, Stages
    <3>3. QED
        BY <3>1, <3>2
  <2>2. ASSUME NEW e \in Desks, desk'[e].op \in Importing
        PROVE  desk[e].op \in Importing /\ desk'[e].no = desk[e].no
      BY <1>4, <2>2
  <2>3. \A e, g \in Desks : desk'[e].op \in Importing /\ desk'[g].op \in Importing /\ e # g
                             => desk'[e].no # desk'[g].no
      BY <2>2 DEF ConsoleInvariant, Stages
  <2>4. QED
      BY <2>1, <2>3 DEF Stages
<1>7. AllOrdered'
    BY <1>3 DEF ConsoleInvariant, AllOrdered, Ordered
<1>8. AllStand'
  <2>1. ASSUME NEW i \in DOMAIN imports', NEW id \in imports'[i].rules PROVE Stands(id)'
    <3>1. CASE i = no
        BY <1>3, <2>1, <3>1
    <3>2. CASE i # no
      <4>1. i \in DOMAIN imports /\ id \in imports[i].rules
          BY <1>3, <2>1, <3>2
      <4>2. QED
          BY <4>1 DEF ConsoleInvariant, AllStand
    <3>3. QED
        BY <3>1, <3>2
  <2>2. QED
      BY <2>1 DEF AllStand
<1>9. QED
    BY <1>3, <1>4, <1>5, <1>6, <1>7, <1>8

\* What the one who makes an import finds of it.
LEMMA ImportAt ==
    ASSUME ConsoleInvariant, NEW d \in Desks, desk[d].op \in Importing
    PROVE  /\ desk[d].no \in DOMAIN imports /\ desk[d].no \in 1..Len(imports)
           /\ imports[desk[d].no] \in Import
           /\ Begun(imports[desk[d].no], desk[d].op)
           /\ imports[desk[d].no].file \in Exports
<1>1. desk[d].no \in DOMAIN imports /\ Begun(imports[desk[d].no], desk[d].op)
    BY DEF ConsoleInvariant, Stages
<1>2. imports \in Seq(Import) /\ desk[d].no \in 1..Len(imports)
    BY <1>1 DEF ConsoleInvariant, ConsoleTypes
<1>3. imports[desk[d].no] \in Import
    BY <1>2
<1>4. QED
    BY <1>1, <1>2, <1>3 DEF Import

LEMMA ImportBegun == ASSUME ConsoleInvariant, NEW d \in Desks, BeginImport(d) PROVE ConsoleInvariant'
<1>1. PICK a : a = [file |-> file, settings |-> FALSE, rules |-> {}, caps |-> {}, answer |-> None]
    OBVIOUS
<1>2. PICK w : w = [op |-> "settings", no |-> Len(imports) + 1]
    OBVIOUS
<1>3. /\ imports' = Append(imports, a) /\ desk' = [desk EXCEPT ![d] = w]
      /\ UNCHANGED <<settingsRow, ruleRows, capRows, lastRow, file, inForce, erased>>
    BY <1>1, <1>2 DEF BeginImport
<1>4. imports \in Seq(Import) /\ desk \in [Desks -> Work] /\ file \in Exports /\ Len(imports) \in Nat
    BY DEF ConsoleInvariant, ConsoleTypes
<1>5. a \in Import
    BY <1>1, <1>4 DEF Import
<1>6. w \in Work /\ w.op = "settings" /\ w.no = Len(imports) + 1
    BY <1>2, <1>4 DEF Work, Importing
<1>7. /\ imports' \in Seq(Import) /\ Len(imports') = Len(imports) + 1 /\ imports'[Len(imports) + 1] = a
      /\ \A i \in 1..Len(imports) : imports'[i] = imports[i]
      /\ DOMAIN imports' = 1..Len(imports) + 1 /\ DOMAIN imports = 1..Len(imports)
    BY <1>3, <1>4, <1>5
<1>8. /\ desk' \in [Desks -> Work] /\ \A e \in Desks : desk'[e] = IF e = d THEN w ELSE desk[e]
    BY <1>3, <1>4, <1>6
<1>9. ConsoleTypes'
    BY <1>3, <1>7, <1>8 DEF ConsoleInvariant, ConsoleTypes
<1>10. Begun(a, "settings") /\ Ordered(a) /\ a.rules = {}
    BY <1>1, ConsoleAssumption DEF Begun, Ordered
<1>11. ASSUME NEW e \in Desks, desk[e].op \in Importing
       PROVE  desk[e].no \in 1..Len(imports) /\ Begun(imports[desk[e].no], desk[e].op)
    BY <1>11, ImportAt
<1>12. Stages'
  <2>1. ASSUME NEW e \in Desks, desk'[e].op \in Importing
        PROVE  desk'[e].no \in DOMAIN imports' /\ Begun(imports'[desk'[e].no], desk'[e].op)
    <3>1. CASE e = d
        BY <1>4, <1>6, <1>7, <1>8, <1>10, <3>1
    <3>2. CASE e # d
      <4>1. desk'[e] = desk[e]
          BY <1>8, <3>2
      <4>2. desk[e].no \in 1..Len(imports) /\ Begun(imports[desk[e].no], desk[e].op)
          BY <1>11, <2>1, <4>1
      <4>3. QED
          BY <1>4, <1>7, <4>1, <4>2
    <3>3. QED
        BY <3>1, <3>2
  <2>2. ASSUME NEW e \in Desks, NEW g \in Desks, desk'[e].op \in Importing, desk'[g].op \in Importing, e # g
        PROVE  desk'[e].no # desk'[g].no
    <3>1. CASE e # d /\ g # d
        BY <1>8, <2>2, <3>1 DEF ConsoleInvariant, Stages
    <3>2. CASE e = d
        BY <1>4, <1>6, <1>8, <1>11, <2>2, <3>2
    <3>3. CASE g = d
        BY <1>4, <1>6, <1>8, <1>11, <2>2, <3>3
    <3>4. QED
        BY <3>1, <3>2, <3>3
  <2>3. QED
      BY <2>1, <2>2 DEF Stages
<1>13. AllOrdered'
  <2>1. ASSUME NEW i \in DOMAIN imports' PROVE Ordered(imports'[i])
    <3>1. CASE i = Len(imports) + 1
        BY <1>7, <1>10, <3>1
    <3>2. CASE i # Len(imports) + 1
        BY <1>4, <1>7, <2>1, <3>2 DEF ConsoleInvariant, AllOrdered
    <3>3. QED
        BY <3>1, <3>2
  <2>2. QED
      BY <2>1 DEF AllOrdered, Ordered
<1>14. AllStand'
  <2>1. ASSUME NEW i \in DOMAIN imports', NEW id \in imports'[i].rules PROVE Stands(id)'
    <3>1. i # Len(imports) + 1
        BY <1>7, <1>10, <2>1
    <3>2. i \in DOMAIN imports /\ id \in imports[i].rules
        BY <1>4, <1>7, <2>1, <3>1
    <3>3. Stands(id)
        BY <3>2 DEF ConsoleInvariant, AllStand
    <3>4. QED
        BY <1>3, <3>3 DEF Stands
  <2>2. QED
      BY <2>1 DEF AllStand
<1>15. SettingsComeBack'
  <2>1. inForce # 0 => inForce \in 1..Len(imports)
      BY <1>4 DEF ConsoleInvariant, ConsoleTypes
  <2>2. QED
      BY <1>3, <1>7, <2>1 DEF ConsoleInvariant, SettingsComeBack
<1>16. QED
    BY <1>9, <1>12, <1>13, <1>14, <1>15 DEF ConsoleInvariant

\* The fields an import takes are all there are, but the key.
LEMMA FieldsTaken ==
    SettingsFields = {"routingMode", "autoRouting", "piiMaskingEnabled", "webhookUrl", "maintenanceMode"}
<1>1. {path[1] : path \in SchemaPaths}
         = {"_id", "key", "routingMode", "autoRouting", "piiMaskingEnabled", "webhookUrl", "maintenanceMode"}
    BY DEF SchemaPaths
<1>2. QED
    BY <1>1 DEF SettingsFields

LEMMA SettingsTaken ==
    ASSUME NEW old \in StoredSettings, NEW new \in ExportedSettings, NEW picked, picked = PickSettingsFields(new),
           NEW row, row = [f \in DOMAIN old |-> IF f \in DOMAIN picked THEN picked[f] ELSE old[f]]
    PROVE  row \in StoredSettings /\ StripInternal(row) = new
<1>1. PICK fields : fields = SettingsFields
    OBVIOUS
<1>2. fields = {"routingMode", "autoRouting", "piiMaskingEnabled", "webhookUrl", "maintenanceMode"}
    BY <1>1, FieldsTaken
<1>3. DOMAIN new = {"key", "routingMode", "autoRouting", "piiMaskingEnabled", "webhookUrl", "maintenanceMode"}
    BY DEF ExportedSettings
<1>4. fields \cap DOMAIN new = fields
    BY <1>2, <1>3
<1>5. DOMAIN picked = fields /\ \A f \in fields : picked[f] = new[f]
    BY <1>1, <1>4 DEF PickSettingsFields
<1>6. row = [_id |-> "here", key |-> "global", routingMode |-> new.routingMode, autoRouting |-> new.autoRouting,
             piiMaskingEnabled |-> new.piiMaskingEnabled, webhookUrl |-> new.webhookUrl,
             maintenanceMode |-> new.maintenanceMode]
    BY <1>2, <1>5 DEF StoredSettings
<1>7. row \in StoredSettings
    BY <1>6 DEF StoredSettings, ExportedSettings
<1>8. new = [key |-> "global", routingMode |-> new.routingMode, autoRouting |-> new.autoRouting,
             piiMaskingEnabled |-> new.piiMaskingEnabled, webhookUrl |-> new.webhookUrl,
             maintenanceMode |-> new.maintenanceMode]
    BY DEF ExportedSettings
<1>9. QED
    BY <1>6, <1>7, <1>8, SettingsStripped

LEMMA SettingsImported == ASSUME ConsoleInvariant, NEW d \in Desks, ImportSettings(d) PROVE ConsoleInvariant'
<1>1. desk[d].op = "settings" /\ desk[d].op \in Importing
    BY DEF ImportSettings, Importing
<1>2. PICK no \in 1..Len(imports) : no = desk[d].no
    BY <1>1, ImportAt
<1>3. /\ imports[no] \in Import /\ imports[no].file \in Exports /\ Begun(imports[no], "settings")
      /\ imports \in Seq(Import)
    BY <1>1, <1>2, ImportAt DEF ConsoleInvariant, ConsoleTypes
<1>4. PICK picked : /\ picked = PickSettingsFields(imports[no].file.settings)
                    /\ settingsRow' = [f \in DOMAIN settingsRow |->
                                          IF f \in DOMAIN picked THEN picked[f] ELSE settingsRow[f]]
    BY <1>2 DEF ImportSettings
<1>5. /\ imports' = [imports EXCEPT ![no].settings = TRUE] /\ inForce' = no
      /\ desk' = [desk EXCEPT ![d] = [op |-> "rules", no |-> no]]
      /\ UNCHANGED <<ruleRows, capRows, lastRow, file, erased>>
    BY <1>2 DEF ImportSettings
<1>6. settingsRow' \in StoredSettings /\ StripInternal(settingsRow') = imports[no].file.settings
  <2>1. settingsRow \in StoredSettings
      BY DEF ConsoleInvariant, ConsoleTypes
  <2>2. PICK new \in ExportedSettings : new = imports[no].file.settings
      BY <1>3 DEF Exports
  <2>3. PICK row : row = [f \in DOMAIN settingsRow |-> IF f \in DOMAIN picked THEN picked[f] ELSE settingsRow[f]]
      OBVIOUS
  <2>4. row \in StoredSettings /\ StripInternal(row) = new
      BY <1>4, <2>1, <2>2, <2>3, SettingsTaken
  <2>5. QED
      BY <1>4, <2>2, <2>3, <2>4
<1>7. PICK a \in Import : /\ a = [imports[no] EXCEPT !.settings = TRUE]
                          /\ a.file = imports[no].file /\ a.settings = TRUE /\ a.rules = {} /\ a.caps = {}
                          /\ a.answer = None
  <2>1. [imports[no] EXCEPT !.settings = TRUE] \in Import
      BY <1>3 DEF Import
  <2>2. /\ [imports[no] EXCEPT !.settings = TRUE].file = imports[no].file
        /\ [imports[no] EXCEPT !.settings = TRUE].settings = TRUE
        /\ [imports[no] EXCEPT !.settings = TRUE].rules = imports[no].rules
        /\ [imports[no] EXCEPT !.settings = TRUE].caps = imports[no].caps
        /\ [imports[no] EXCEPT !.settings = TRUE].answer = imports[no].answer
      BY <1>3 DEF Import
  <2>3. imports[no].rules = {} /\ imports[no].caps = {} /\ imports[no].answer = None
      BY <1>3 DEF Begun
  <2>4. QED
      BY <2>1, <2>2, <2>3
<1>8. imports' = [imports EXCEPT ![no] = a]
    BY <1>3, <1>5, <1>7
<1>9. PICK w \in Work : w = [op |-> "rules", no |-> no] /\ w.op = "rules" /\ w.no = no
  <2>1. [op |-> "rules", no |-> no] \in Work
      BY DEF Work, Importing
  <2>2. QED
      BY <2>1
<1>10. Begun(a, "rules") /\ Ordered(a)
    BY <1>7, ConsoleAssumption DEF Begun, Ordered
<1>11. \A id : Stands(id) => Stands(id)'
    BY <1>5 DEF Stands
<1>12. desk' = [desk EXCEPT ![d] = w]
    BY <1>5, <1>9
<1>13. /\ desk' \in [Desks -> Work] /\ imports' \in Seq(Import) /\ Len(imports') = Len(imports)
       /\ \A i \in DOMAIN imports : imports'[i].file = imports[i].file
       /\ Stages' /\ AllOrdered' /\ AllStand'
    BY <1>1, <1>2, <1>7, <1>8, <1>9, <1>10, <1>11, <1>12, ImportMoves
<1>14. ConsoleTypes'
    BY <1>5, <1>6, <1>13 DEF ConsoleInvariant, ConsoleTypes
<1>15. SettingsComeBack'
    BY <1>3, <1>5, <1>6, <1>13 DEF SettingsComeBack
<1>16. QED
    BY <1>13, <1>14, <1>15 DEF ConsoleInvariant

\* The steps of an import that leave the settings alone.
LEMMA SettingsRest ==
    ASSUME ConsoleInvariant, settingsRow' = settingsRow, inForce' = inForce, file' = file,
           desk' \in [Desks -> Work], imports' \in Seq(Import), Len(imports') = Len(imports),
           \A i \in DOMAIN imports : imports'[i].file = imports[i].file,
           Stages', AllOrdered', AllStand',
           ruleRows' \subseteq StoredRule, IsFiniteSet(ruleRows'),
           capRows' \subseteq StoredCap, IsFiniteSet(capRows'), lastRow' \in Nat
    PROVE  ConsoleInvariant'
<1>1. ConsoleTypes'
    BY DEF ConsoleInvariant, ConsoleTypes
<1>2. SettingsComeBack'
  <2>1. inForce # 0 => inForce \in DOMAIN imports
      BY DEF ConsoleInvariant, ConsoleTypes
  <2>2. QED
      BY <2>1 DEF ConsoleInvariant, SettingsComeBack
<1>3. QED
    BY <1>1, <1>2 DEF ConsoleInvariant

LEMMA RulesImported == ASSUME ConsoleInvariant, NEW d \in Desks, ImportRules(d) PROVE ConsoleInvariant'
<1>1. desk[d].op = "rules" /\ desk[d].op \in Importing
    BY DEF ImportRules, Importing
<1>2. PICK no \in 1..Len(imports) : no = desk[d].no
    BY <1>1, ImportAt
<1>3. /\ imports[no] \in Import /\ imports[no].file \in Exports /\ Begun(imports[no], "rules")
      /\ imports \in Seq(Import) /\ lastRow \in Nat
    BY <1>1, <1>2, ImportAt DEF ConsoleInvariant, ConsoleTypes
<1>4. PICK docs : docs = [i \in DOMAIN imports[no].file.rules |-> Unmarked(imports[no].file.rules[i])]
    OBVIOUS
<1>5. PICK n \in 0..Len(docs), failed \in BOOLEAN :
         /\ n < Len(docs) => failed
         /\ ruleRows' = ruleRows \cup Inserted(docs, n)
         /\ lastRow' = lastRow + n
         /\ imports' = [imports EXCEPT ![no] = [imports[no] EXCEPT
                             !.rules = {r.id : r \in Inserted(docs, n)},
                             !.answer = IF failed THEN "failed" ELSE None]]
         /\ desk' = [desk EXCEPT ![d] = IF failed THEN NoWork ELSE [op |-> "caps", no |-> no]]
    BY <1>2, <1>4 DEF ImportRules
<1>6. settingsRow' = settingsRow /\ capRows' = capRows /\ file' = file /\ inForce' = inForce /\ erased' = erased
    BY DEF ImportRules
<1>7. /\ docs \in Seq(RuleDoc) /\ Len(docs) = Len(imports[no].file.rules)
      /\ \A i \in 1..Len(docs) : docs[i].isDemoFixture = FALSE
  <2>1. PICK rules \in Seq(RuleDoc) : rules = imports[no].file.rules
      BY <1>3 DEF Exports
  <2>2. ASSUME NEW rule \in RuleDoc
        PROVE  Unmarked(rule) \in RuleDoc /\ Unmarked(rule).isDemoFixture = FALSE
      BY DEF Unmarked, RuleDoc
  <2>3. docs = [i \in 1..Len(rules) |-> Unmarked(rules[i])] /\ Len(rules) \in Nat
      BY <1>4, <2>1
  <2>4. \A i \in 1..Len(rules) : Unmarked(rules[i]) \in RuleDoc /\ Unmarked(rules[i]).isDemoFixture = FALSE
    <3>1. \A i \in 1..Len(rules) : rules[i] \in RuleDoc
        OBVIOUS
    <3>2. QED
        BY <2>2, <3>1
  <2>5. docs \in Seq(RuleDoc) /\ Len(docs) = Len(rules) /\ \A i \in 1..Len(docs) : docs[i] = Unmarked(rules[i])
      BY <2>3, <2>4
  <2>6. QED
      BY <2>1, <2>4, <2>5
<1>8. PICK brought : brought = Inserted(docs, n)
    OBVIOUS
<1>9. PICK ids : ids = {r.id : r \in brought}
    OBVIOUS
<1>10. /\ brought \subseteq StoredRule /\ IsFiniteSet(brought)
       /\ ids = lastRow + 1 .. lastRow + n /\ Cardinality(ids) = n
       /\ \A r \in brought : \E i \in 1..n : r.isDemoFixture = docs[i].isDemoFixture
    BY <1>3, <1>7, <1>8, <1>9, RulesInserted
<1>11. PICK answer \in {None, "failed"} : answer = IF failed THEN "failed" ELSE None
    OBVIOUS
<1>12. ids \in SUBSET Nat
    BY <1>3, <1>10
<1>13. PICK a \in Import : /\ a = [imports[no] EXCEPT !.rules = ids, !.answer = answer]
                           /\ a.file = imports[no].file /\ a.settings = imports[no].settings /\ a.rules = ids
                           /\ a.caps = imports[no].caps /\ a.answer = answer
  <2>1. [imports[no] EXCEPT !.rules = ids, !.answer = answer] \in Import
      BY <1>3, <1>12 DEF Import
  <2>2. /\ [imports[no] EXCEPT !.rules = ids, !.answer = answer].file = imports[no].file
        /\ [imports[no] EXCEPT !.rules = ids, !.answer = answer].settings = imports[no].settings
        /\ [imports[no] EXCEPT !.rules = ids, !.answer = answer].rules = ids
        /\ [imports[no] EXCEPT !.rules = ids, !.answer = answer].caps = imports[no].caps
        /\ [imports[no] EXCEPT !.rules = ids, !.answer = answer].answer = answer
      BY <1>3 DEF Import
  <2>3. QED
      BY <2>1, <2>2
<1>14. imports' = [imports EXCEPT ![no] = a]
    BY <1>5, <1>8, <1>9, <1>11, <1>13
<1>15. PICK w \in Work : /\ desk' = [desk EXCEPT ![d] = w]
                         /\ w.op \in Importing => ~failed /\ w.op = "caps" /\ w.no = no
  <2>1. NoWork \in Work /\ NoWork.op \notin Importing
      BY DEF NoWork, Work, Importing
  <2>2. /\ [op |-> "caps", no |-> no] \in Work /\ [op |-> "caps", no |-> no].op = "caps"
        /\ [op |-> "caps", no |-> no].no = no
      BY DEF Work, Importing
  <2>3. CASE failed
      BY <1>5, <2>1, <2>3
  <2>4. CASE ~failed
      BY <1>5, <2>2, <2>4
  <2>5. QED
      BY <2>3, <2>4
<1>16. /\ a.settings = TRUE /\ a.caps = {} /\ a.answer # "ok"
    BY <1>3, <1>11, <1>13, ConsoleAssumption DEF Begun
<1>17. ~failed => Begun(a, "caps")
  <2>1. ~failed => n = Len(docs) /\ answer = None
      BY <1>5, <1>7, <1>11
  <2>2. ~failed => Cardinality(a.rules) = Len(a.file.rules) /\ a.answer = None
      BY <1>7, <1>10, <1>13, <2>1
  <2>3. QED
      BY <1>16, <2>2 DEF Begun
<1>18. Ordered(a)
    BY <1>16 DEF Ordered
<1>19. \A id : Stands(id) => Stands(id)'
    BY <1>5, <1>6 DEF Stands
<1>20. \A id \in a.rules : Stands(id)'
  <2>1. \A r \in brought : r.isDemoFixture = FALSE
      BY <1>7, <1>10
  <2>2. QED
      BY <1>5, <1>8, <1>9, <1>13, <2>1 DEF Stands
<1>21. w.op \in Importing => w.no = no /\ Begun(a, w.op)
    BY <1>15, <1>17
<1>22. /\ desk' \in [Desks -> Work] /\ imports' \in Seq(Import) /\ Len(imports') = Len(imports)
       /\ \A i \in DOMAIN imports : imports'[i].file = imports[i].file
       /\ Stages' /\ AllOrdered' /\ AllStand'
    BY <1>1, <1>2, <1>13, <1>14, <1>15, <1>18, <1>19, <1>20, <1>21, ImportMoves
<1>23. /\ ruleRows' \subseteq StoredRule /\ IsFiniteSet(ruleRows')
       /\ capRows' \subseteq StoredCap /\ IsFiniteSet(capRows') /\ lastRow' \in Nat
  <2>1. n \in Nat /\ lastRow' \in Nat
      BY <1>3, <1>5, <1>7
  <2>2. ruleRows' = ruleRows \cup brought /\ capRows' = capRows
      BY <1>5, <1>6, <1>8
  <2>3. /\ ruleRows \subseteq StoredRule /\ IsFiniteSet(ruleRows)
        /\ capRows \subseteq StoredCap /\ IsFiniteSet(capRows)
      BY DEF ConsoleInvariant, ConsoleTypes
  <2>4. IsFiniteSet(ruleRows \cup brought)
      BY <1>10, <2>3, FS_Union
  <2>5. QED
      BY <1>10, <2>1, <2>2, <2>3, <2>4
<1>24. QED
    BY <1>6, <1>22, <1>23, SettingsRest

LEMMA CapsImported == ASSUME ConsoleInvariant, NEW d \in Desks, ImportCaps(d) PROVE ConsoleInvariant'
<1>1. desk[d].op = "caps" /\ desk[d].op \in Importing
    BY DEF ImportCaps, Importing
<1>2. PICK no \in 1..Len(imports) : no = desk[d].no
    BY <1>1, ImportAt
<1>3. /\ imports[no] \in Import /\ imports[no].file \in Exports /\ Begun(imports[no], "caps")
      /\ imports \in Seq(Import) /\ lastRow \in Nat
    BY <1>1, <1>2, ImportAt DEF ConsoleInvariant, ConsoleTypes
<1>4. PICK docs \in Seq(CapDoc) : docs = imports[no].file.caps
    BY <1>3 DEF Exports
<1>5. PICK n \in 0..Len(docs), failed \in BOOLEAN :
         /\ n < Len(docs) => failed
         /\ capRows' = capRows \cup Inserted(docs, n)
         /\ lastRow' = lastRow + n
         /\ imports' = [imports EXCEPT ![no] = [imports[no] EXCEPT
                             !.caps = {c.id : c \in Inserted(docs, n)},
                             !.answer = IF failed THEN "failed" ELSE "ok"]]
    BY <1>2, <1>4 DEF ImportCaps
<1>6. /\ settingsRow' = settingsRow /\ ruleRows' = ruleRows /\ file' = file /\ inForce' = inForce
      /\ erased' = erased /\ desk' = [desk EXCEPT ![d] = NoWork]
    BY DEF ImportCaps
<1>7. PICK brought : brought = Inserted(docs, n)
    OBVIOUS
<1>8. PICK ids : ids = {c.id : c \in brought}
    OBVIOUS
<1>9. /\ brought \subseteq StoredCap /\ IsFiniteSet(brought) /\ ids \in SUBSET Nat /\ Cardinality(ids) = n
    BY <1>3, <1>7, <1>8, CapsInserted
<1>10. PICK answer \in {"failed", "ok"} : answer = IF failed THEN "failed" ELSE "ok"
    OBVIOUS
<1>11. PICK a \in Import : /\ a = [imports[no] EXCEPT !.caps = ids, !.answer = answer]
                           /\ a.file = imports[no].file /\ a.settings = imports[no].settings /\ a.caps = ids
                           /\ a.rules = imports[no].rules /\ a.answer = answer
  <2>1. [imports[no] EXCEPT !.caps = ids, !.answer = answer] \in Import
      BY <1>3, <1>9 DEF Import
  <2>2. /\ [imports[no] EXCEPT !.caps = ids, !.answer = answer].file = imports[no].file
        /\ [imports[no] EXCEPT !.caps = ids, !.answer = answer].settings = imports[no].settings
        /\ [imports[no] EXCEPT !.caps = ids, !.answer = answer].rules = imports[no].rules
        /\ [imports[no] EXCEPT !.caps = ids, !.answer = answer].caps = ids
        /\ [imports[no] EXCEPT !.caps = ids, !.answer = answer].answer = answer
      BY <1>3 DEF Import
  <2>3. QED
      BY <2>1, <2>2
<1>12. imports' = [imports EXCEPT ![no] = a]
    BY <1>5, <1>7, <1>8, <1>10, <1>11
<1>13. NoWork \in Work /\ NoWork.op \notin Importing
    BY DEF NoWork, Work, Importing
<1>14. Ordered(a)
  <2>1. a.settings = TRUE /\ Cardinality(a.rules) = Len(a.file.rules)
      BY <1>3, <1>11 DEF Begun
  <2>2. answer = "ok" => Cardinality(a.caps) = Len(a.file.caps)
      BY <1>4, <1>5, <1>9, <1>10, <1>11
  <2>3. QED
      BY <1>11, <2>1, <2>2 DEF Ordered
<1>15. \A id : Stands(id) => Stands(id)'
    BY <1>6 DEF Stands
<1>16. \A id \in a.rules : Stands(id)'
    BY <1>2, <1>3, <1>11, <1>15 DEF ConsoleInvariant, AllStand
<1>17. /\ desk' \in [Desks -> Work] /\ imports' \in Seq(Import) /\ Len(imports') = Len(imports)
       /\ \A i \in DOMAIN imports : imports'[i].file = imports[i].file
       /\ Stages' /\ AllOrdered' /\ AllStand'
    BY <1>1, <1>2, <1>6, <1>11, <1>12, <1>13, <1>14, <1>15, <1>16, ImportMoves
<1>18. /\ ruleRows' \subseteq StoredRule /\ IsFiniteSet(ruleRows')
       /\ capRows' \subseteq StoredCap /\ IsFiniteSet(capRows') /\ lastRow' \in Nat
  <2>1. n \in Nat /\ lastRow' \in Nat
      BY <1>3, <1>4, <1>5
  <2>2. capRows' = capRows \cup brought /\ ruleRows' = ruleRows
      BY <1>5, <1>6, <1>7
  <2>3. /\ ruleRows \subseteq StoredRule /\ IsFiniteSet(ruleRows)
        /\ capRows \subseteq StoredCap /\ IsFiniteSet(capRows)
      BY DEF ConsoleInvariant, ConsoleTypes
  <2>4. IsFiniteSet(capRows \cup brought)
      BY <1>9, <2>3, FS_Union
  <2>5. QED
      BY <1>9, <2>1, <2>2, <2>3, <2>4
<1>19. QED
    BY <1>6, <1>17, <1>18, SettingsRest

LEMMA ImportFailed == ASSUME ConsoleInvariant, NEW d \in Desks, ImportFails(d) PROVE ConsoleInvariant'
<1>1. desk[d].op = "settings" /\ desk[d].op \in Importing
    BY DEF ImportFails, Importing
<1>2. PICK no \in 1..Len(imports) : no = desk[d].no
    BY <1>1, ImportAt
<1>3. /\ imports[no] \in Import /\ Begun(imports[no], "settings") /\ imports \in Seq(Import)
    BY <1>1, <1>2, ImportAt DEF ConsoleInvariant, ConsoleTypes
<1>4. /\ imports' = [imports EXCEPT ![no].answer = "failed"] /\ desk' = [desk EXCEPT ![d] = NoWork]
      /\ UNCHANGED <<settingsRow, ruleRows, capRows, lastRow, file, inForce, erased>>
    BY <1>2 DEF ImportFails
<1>5. PICK a \in Import : /\ a = [imports[no] EXCEPT !.answer = "failed"]
                          /\ a.file = imports[no].file /\ a.rules = {} /\ a.caps = {} /\ a.answer = "failed"
  <2>1. [imports[no] EXCEPT !.answer = "failed"] \in Import
      BY <1>3 DEF Import
  <2>2. /\ [imports[no] EXCEPT !.answer = "failed"].file = imports[no].file
        /\ [imports[no] EXCEPT !.answer = "failed"].rules = imports[no].rules
        /\ [imports[no] EXCEPT !.answer = "failed"].caps = imports[no].caps
        /\ [imports[no] EXCEPT !.answer = "failed"].answer = "failed"
      BY <1>3 DEF Import
  <2>3. imports[no].rules = {} /\ imports[no].caps = {}
      BY <1>3 DEF Begun
  <2>4. QED
      BY <2>1, <2>2, <2>3
<1>6. imports' = [imports EXCEPT ![no] = a]
    BY <1>3, <1>4, <1>5
<1>7. NoWork \in Work /\ NoWork.op \notin Importing
    BY DEF NoWork, Work, Importing
<1>8. Ordered(a)
    BY <1>5 DEF Ordered
<1>9. \A id : Stands(id) => Stands(id)'
    BY <1>4 DEF Stands
<1>10. /\ desk' \in [Desks -> Work] /\ imports' \in Seq(Import) /\ Len(imports') = Len(imports)
       /\ \A i \in DOMAIN imports : imports'[i].file = imports[i].file
       /\ Stages' /\ AllOrdered' /\ AllStand'
    BY <1>1, <1>2, <1>4, <1>5, <1>6, <1>7, <1>8, <1>9, ImportMoves
<1>11. QED
    BY <1>4, <1>10, SettingsRest DEF ConsoleInvariant, ConsoleTypes

LEMMA ConsoleStep == ConsoleInvariant /\ [ConsoleNext]_ConsoleVars => ConsoleInvariant'
<1> SUFFICES ASSUME ConsoleInvariant, [ConsoleNext]_ConsoleVars PROVE ConsoleInvariant'
    OBVIOUS
<1>1. ASSUME NEW d \in Desks, CreateRule(d) \/ UpdateRule(d) \/ DeleteRule(d) \/ SeedFixture(d) \/ ResetFixture(d)
      PROVE  ConsoleInvariant'
    BY <1>1, RuleMade, RuleChanged, RulesTaken
<1>2. ASSUME NEW d \in Desks, PatchGovernance(d) \/ PutMode(d) \/ SaveMode(d) PROVE ConsoleInvariant'
    BY <1>2, GovernancePatched, ModePut, ModeSaved
<1>3. ASSUME NEW d \in Desks, BeginExport(d) \/ ReadPart(d) PROVE ConsoleInvariant'
    BY <1>3, ExportBegun, PartRead
<1>4. ASSUME NEW d \in Desks,
             BeginImport(d) \/ ImportSettings(d) \/ ImportRules(d) \/ ImportCaps(d) \/ ImportFails(d)
      PROVE  ConsoleInvariant'
    BY <1>4, ImportBegun, SettingsImported, RulesImported, CapsImported, ImportFailed
<1>5. ASSUME UNCHANGED ConsoleVars PROVE ConsoleInvariant'
    BY <1>5 DEF ConsoleVars, ConsoleInvariant, ConsoleTypes, Stages, AllOrdered, AllStand, Stands, SettingsComeBack
<1>6. QED
    BY <1>1, <1>2, <1>3, <1>4, <1>5 DEF ConsoleNext, Answered

-----------------------------------------------------------------------------
(* What is computed from one rule or one number. *)

LEMMA RulesAreOrdered == PrecedenceIsTotal
<1> DEFINE some == [id : 1 .. 3, priority : {0, 1}, condition : SUBSET {"taskType", "workflow"} \ {{}}]
<1>1. ASSUME NEW a \in some PROVE Specificity(a) \in Nat /\ a.priority \in Int /\ a.id \in Int
  <2>1. IsFiniteSet({"taskType", "workflow"})
    <3>1. PICK s, t : s = {"taskType"} /\ t = {"workflow"}
        OBVIOUS
    <3>2. IsFiniteSet(s) /\ IsFiniteSet(t)
        BY <3>1, FS_Singleton
    <3>3. IsFiniteSet(s \cup t)
        BY <3>2, FS_Union
    <3>4. {"taskType", "workflow"} = s \cup t
        BY <3>1
    <3>5. QED
        BY <3>3, <3>4
  <2>2. a.condition \in SUBSET {"taskType", "workflow"}
      OBVIOUS
  <2>3. QED
      BY <2>1, <2>2, FS_Subset, FS_CardinalityType DEF Specificity
<1>2. ASSUME NEW a \in some, NEW b \in some, a.id # b.id
      PROVE  (Before(a, b) \/ Before(b, a)) /\ ~(Before(a, b) /\ Before(b, a))
  <2>1. PICK m \in Nat, n \in Nat : m = Specificity(a) /\ n = Specificity(b)
      BY <1>1
  <2>2. a.priority \in Int /\ b.priority \in Int /\ a.id \in Int /\ b.id \in Int
      BY <1>1
  <2>3. QED
      BY <1>2, <2>1, <2>2 DEF Before
<1>3. QED
    BY <1>2 DEF PrecedenceIsTotal

LEMMA HealthTold == HealthIsHonest
<1> SUFFICES ASSUME NEW target \in [provider : {"p", "q"}, model : {"m", "n", "o"}, alias : {None, "team"}],
                    NEW live \in SUBSET {"p", "q"}, NEW aliases \in SUBSET {"team"},
                    NEW registry, registry = [x \in {"m", "n"} |-> IF x = "m" THEN 1 ELSE 0],
                    NEW h, h = RuleTargetHealth(target, live, registry, aliases)
             PROVE  /\ h.level = "error" <=> ~TargetServable(target, live)
                    /\ h.level = "ok" => /\ target.alias # None => target.alias \in aliases
                                        /\ target.model = "m"
    BY DEF HealthIsHonest
<1>1. CASE target.provider \notin live
    BY <1>1 DEF RuleTargetHealth, Health, TargetServable
<1>2. CASE target.provider \in live /\ target.alias # None /\ target.alias \notin aliases
    BY <1>2 DEF RuleTargetHealth, Health, TargetServable
<1>3. CASE target.provider \in live /\ (target.alias = None \/ target.alias \in aliases)
  <2>1. target.model \in {"m", "n"} => registry[target.model] = IF target.model = "m" THEN 1 ELSE 0
      OBVIOUS
  <2>2. DOMAIN registry = {"m", "n"}
      OBVIOUS
  <2>3. CASE target.model = "o"
      BY <1>3, <2>2, <2>3 DEF RuleTargetHealth, Health, TargetServable
  <2>4. CASE target.model = "n"
      BY <1>3, <2>1, <2>2, <2>4 DEF RuleTargetHealth, Health, TargetServable
  <2>5. CASE target.model = "m"
      BY <1>3, <2>1, <2>2, <2>5 DEF RuleTargetHealth, Health, TargetServable
  <2>6. QED
      BY <2>3, <2>4, <2>5
<1>4. QED
    BY <1>1, <1>2, <1>3

LEMMA FieldsRanged == FieldsAreInRange
<1> SUFFICES ASSUME NEW raw \in Raws
             PROVE  /\ \A v \in Guardrail(raw) : v # None => v >= 1
                    /\ RetentionDays(raw) # None => RetentionDays(raw) >= 1
                    /\ ErrorRateThreshold(raw) \in 0 .. 100 /\ CacheThreshold(raw) \in 0 .. 100
                    /\ CacheTtlMinutes(raw) >= 1
                    /\ OtelSampleRatio(raw) # None => OtelSampleRatio(raw) \in 0 .. 100
    BY DEF FieldsAreInRange
<1>1. raw.is = "number" => raw.n \in Int
    BY DEF Raws
<1>2. raw.is \in {"nothing", "text", "number"}
    BY DEF Raws
<1>3. \A default \in Int : OrElse(raw, default) \in Int
    BY <1>1 DEF OrElse
<1>4. \A k \in Int : Clamp(k, 0, 100) \in 0..100
    BY DEF Clamp, Smaller, Larger
<1>5. \A v \in Guardrail(raw) : v # None => v >= 1
    BY <1>1, <1>2 DEF Guardrail, Truthy, Larger
<1>6. RetentionDays(raw) # None => RetentionDays(raw) >= 1
  <2>1. PICK n \in Int : n = Larger(0, OrElse(raw, 0)) /\ n >= 0
      BY <1>3 DEF Larger
  <2>2. RetentionDays(raw) = IF n = 0 THEN None ELSE n
      BY <2>1 DEF RetentionDays
  <2>3. QED
      BY <2>1, <2>2
<1>7. ErrorRateThreshold(raw) \in 0 .. 100 /\ CacheThreshold(raw) \in 0 .. 100
    BY <1>3, <1>4 DEF ErrorRateThreshold, CacheThreshold
<1>8. CacheTtlMinutes(raw) >= 1
    BY <1>3 DEF CacheTtlMinutes, Larger
<1>9. OtelSampleRatio(raw) # None => OtelSampleRatio(raw) \in 0 .. 100
    BY <1>3, <1>4 DEF OtelSampleRatio
<1>10. QED
    BY <1>5, <1>6, <1>7, <1>8, <1>9

\* What administrators write is kept: an import writes its parts in order and whole where
\* it says so, no reset takes a rule that it brought, its settings are there until somebody
\* changes one, and callers always have a message; rules are ordered one way, their health
\* is told as requests meet it, and numbers are stored in the range of their readers, for
\* any administrators and any file (ops.js:67-106, governance.js, rules.js).
THEOREM ConsoleAlwaysKeeps == ConsoleSpec => []ConsoleKeeps
<1>1. ConsoleInvariant => ConsoleKeeps
  <2> SUFFICES ASSUME ConsoleInvariant PROVE ConsoleKeeps
      OBVIOUS
  <2>1. ImportsAreOrdered
      BY DEF ConsoleInvariant, AllOrdered, Ordered, ImportsAreOrdered
  <2>2. ImportedRulesStay
      BY DEF ConsoleInvariant, AllStand, Stands, ImportedRulesStay
  <2>3. MessageIsThere
    <3>1. settingsRow.maintenanceMode.message \in Messages
        BY DEF ConsoleInvariant, ConsoleTypes, StoredSettings, Maintenance
    <3>2. QED
        BY <3>1, ConsoleAssumption DEF MessageIsThere, Messages
  <2>4. QED
      BY <2>1, <2>2, <2>3, RulesAreOrdered, HealthTold, FieldsRanged DEF ConsoleInvariant, ConsoleKeeps
<1>2. QED
    BY <1>1, ConsoleStarts, ConsoleStep, PTL DEF ConsoleSpec

-----------------------------------------------------------------------------
(* The audit of a log. *)

ALog(log) == \E n \in Nat : log \in [1..n -> LogLines]

\* What a line is worth, field by field.
Worths(log, field) == [i \in DOMAIN log |-> Amount(log[i][field])]

LEMMA LogIsFinite ==
    ASSUME NEW log, ALog(log)
    PROVE  /\ IsFiniteSet(DOMAIN log) /\ \A i \in DOMAIN log : log[i] \in LogLines
           /\ IsFiniteSet({KeyOf(log[i]) : i \in DOMAIN log})
           /\ Cardinality(DOMAIN log) \in Nat
<1>1. PICK n \in Nat : log \in [1..n -> LogLines]
    BY DEF ALog
<1>2. IsFiniteSet(1..n)
    BY FS_Interval
<1>3. DOMAIN log = 1..n
    BY <1>1
<1>4. IsFiniteSet({KeyOf(log[i]) : i \in DOMAIN log})
  <2> DEFINE key == [i \in DOMAIN log |-> KeyOf(log[i])]
  <2>1. {KeyOf(log[i]) : i \in DOMAIN log} = {key[i] : i \in DOMAIN log}
      OBVIOUS
  <2> HIDE DEF key
  <2>2. IsFiniteSet({key[i] : i \in DOMAIN log})
      BY <1>2, <1>3, ImageIsFinite
  <2>3. QED
      BY <2>1, <2>2
<1>5. QED
    BY <1>1, <1>2, <1>3, <1>4, FS_CardinalityType

LEMMA AmountsAreNat ==
    ASSUME NEW log, ALog(log), NEW i \in DOMAIN log, NEW field \in CellAmounts
    PROVE  Amount(log[i][field]) \in Nat
<1>1. log[i][field] \in Nat \cup {None}
    BY LogIsFinite, AuditAssumption
<1>2. QED
    BY <1>1 DEF Amount

\* A group costs what its lines do.
LEMMA AddedUpIs ==
    ASSUME NEW log, ALog(log), NEW lines \in SUBSET DOMAIN log, NEW field \in CellAmounts
    PROVE  /\ AddedUp(log, field, lines) = SumFunctionOnSet(Worths(log, field), lines)
           /\ AddedUp(log, field, lines) \in Nat
<1> DEFINE e == [i \in lines |-> Amount(log[i][field])]
           f == Worths(log, field)
           z == [i \in lines |-> 0]
<1>1. IsFiniteSet(lines)
    BY LogIsFinite, FS_Subset
<1>2. \A i \in lines : f[i] \in Int /\ f[i] >= 0 /\ e[i] = f[i]
    BY AmountsAreNat DEF Worths
<1>3. AddedUp(log, field, lines) = SumFunctionOnSet(e, lines)
    BY DEF AddedUp
<1>4. \A i \in lines : z[i] = 0
    OBVIOUS
<1> HIDE DEF e, f, z
<1>5. SumFunctionOnSet(e, lines) = SumFunctionOnSet(f, lines)
    BY <1>1, <1>2, SumsAgree
<1>6. SumFunctionOnSet(f, lines) \in Int
    BY <1>1, <1>2, SumIsInt
<1>7. SumFunctionOnSet(z, lines) = 0
    BY <1>1, <1>4, SumOfNothing
<1>8. \A i \in lines : z[i] \in Int /\ f[i] \in Int /\ z[i] <= f[i]
    BY <1>2, <1>4
<1>9. SumFunctionOnSet(z, lines) <= SumFunctionOnSet(f, lines)
    BY <1>1, <1>8, SumGrows
<1>10. QED
    BY <1>3, <1>5, <1>6, <1>7, <1>9 DEF f

Lines(log, k) == {i \in DOMAIN log : KeyOf(log[i]) = k}

LEMMA GroupIs ==
    ASSUME NEW log, ALog(log), NEW k \in DOMAIN AggregateGroups(log)
    PROVE  LET g == AggregateGroups(log)[k]
           IN  /\ g.requests = Cardinality(Lines(log, k)) /\ g.requests \in Nat
               /\ g.currentCost = SumFunctionOnSet(Worths(log, "totalCost"), Lines(log, k)) /\ g.currentCost \in Nat
               /\ g.promptTokens \in Nat /\ g.completionTokens \in Nat
<1>1. AggregateGroups(log)[k] = Group(log, Lines(log, k))
    BY DEF AggregateGroups, Lines
<1>2. Lines(log, k) \in SUBSET DOMAIN log
    BY DEF Lines
<1>3. {"promptTokens", "completionTokens", "totalCost"} = CellAmounts
    BY DEF CellAmounts
<1>4. Cardinality(Lines(log, k)) \in Nat
    BY <1>2, LogIsFinite, FS_Subset, FS_CardinalityType
<1>5. /\ AddedUp(log, "totalCost", Lines(log, k)) = SumFunctionOnSet(Worths(log, "totalCost"), Lines(log, k))
      /\ AddedUp(log, "totalCost", Lines(log, k)) \in Nat
      /\ AddedUp(log, "promptTokens", Lines(log, k)) \in Nat
      /\ AddedUp(log, "completionTokens", Lines(log, k)) \in Nat
    BY <1>2, <1>3, AddedUpIs
<1>6. QED
    BY <1>1, <1>4, <1>5 DEF Group

\* The groups of a log add up to it.
LEMMA GroupsAddUp ==
    ASSUME NEW log, ALog(log)
    PROVE  LET g == AggregateGroups(log)
           IN  /\ IsFiniteSet(DOMAIN g)
               /\ SumFunctionOnSet([k \in DOMAIN g |-> g[k].requests], DOMAIN g) = Cardinality(DOMAIN log)
               /\ SumFunctionOnSet([k \in DOMAIN g |-> g[k].currentCost], DOMAIN g)
                    = AddedUp(log, "totalCost", DOMAIN log)
<1> DEFINE g == AggregateGroups(log)
           K == DOMAIN g
           S == DOMAIN log
           key == [i \in S |-> KeyOf(log[i])]
           f == Worths(log, "totalCost")
           ones == [i \in S |-> 1]
<1>1. K = {KeyOf(log[i]) : i \in S}
    BY DEF AggregateGroups
<1>2. IsFiniteSet(S) /\ IsFiniteSet(K)
    BY <1>1, LogIsFinite
<1>3. \A i \in S : key[i] \in K
    BY <1>1
<1>4. \A i \in S : f[i] \in Int /\ ones[i] \in Int /\ ones[i] = 1
    BY AmountsAreNat DEF Worths, CellAmounts
<1>5. \A k \in K : {i \in S : key[i] = k} = Lines(log, k) /\ Lines(log, k) \in SUBSET S
    BY DEF Lines
<1>6. \A k \in K : g[k].requests = Cardinality(Lines(log, k)) /\ g[k].currentCost = SumFunctionOnSet(f, Lines(log, k))
    BY GroupIs
<1>7. "totalCost" \in CellAmounts
    BY DEF CellAmounts
<1>8. AddedUp(log, "totalCost", S) = SumFunctionOnSet(f, S)
    BY <1>7, AddedUpIs
<1> HIDE DEF g, K, S, key, f, ones
<1>9. \A k \in K : SumFunctionOnSet(ones, Lines(log, k)) = Cardinality(Lines(log, k))
  <2> TAKE k \in K
  <2>1. IsFiniteSet(Lines(log, k)) /\ (\A i \in Lines(log, k) : ones[i] = 1)
      BY <1>2, <1>4, <1>5, FS_Subset
  <2>2. QED
      BY <2>1, SumOfOnes
<1>10. SumFunctionOnSet([k \in K |-> SumFunctionOnSet(ones, {i \in S : key[i] = k})], K) = SumFunctionOnSet(ones, S)
    BY <1>2, <1>3, <1>4, SumByKey
<1>11. SumFunctionOnSet([k \in K |-> SumFunctionOnSet(f, {i \in S : key[i] = k})], K) = SumFunctionOnSet(f, S)
    BY <1>2, <1>3, <1>4, SumByKey
<1>12. \A k \in K : SumFunctionOnSet(ones, {i \in S : key[i] = k}) = g[k].requests
    BY <1>5, <1>6, <1>9
<1>13. \A k \in K : SumFunctionOnSet(f, {i \in S : key[i] = k}) = g[k].currentCost
    BY <1>5, <1>6
<1>14. [k \in K |-> SumFunctionOnSet(ones, {i \in S : key[i] = k})] = [k \in K |-> g[k].requests]
    BY <1>12
<1>15. [k \in K |-> SumFunctionOnSet(f, {i \in S : key[i] = k})] = [k \in K |-> g[k].currentCost]
    BY <1>13
<1>16. SumFunctionOnSet(ones, S) = Cardinality(S)
    BY <1>2, <1>4, SumOfOnes
<1>17. QED
    BY <1>2, <1>8, <1>10, <1>11, <1>14, <1>15, <1>16 DEF g, K, S

\* Bars add up to what their groups do.
LEMMA BarsAddUp ==
    ASSUME NEW g, IsFiniteSet(DOMAIN g), \A k \in DOMAIN g : g[k].requests \in Int /\ g[k].currentCost \in Int
    PROVE  LET b == AggregateByModel(g)
           IN  /\ SumFunctionOnSet([m \in DOMAIN b |-> b[m].requests], DOMAIN b)
                    = SumFunctionOnSet([k \in DOMAIN g |-> g[k].requests], DOMAIN g)
               /\ SumFunctionOnSet([m \in DOMAIN b |-> b[m].cost], DOMAIN b)
                    = SumFunctionOnSet([k \in DOMAIN g |-> g[k].currentCost], DOMAIN g)
<1> DEFINE b == AggregateByModel(g)
           S == DOMAIN g
           key == [k \in S |-> k[2]]
           M == {key[k] : k \in S}
           r == [k \in S |-> g[k].requests]
           c == [k \in S |-> g[k].currentCost]
           Of(m) == {k \in S : key[k] = m}
<1>1. /\ \A k \in S : key[k] \in M /\ r[k] \in Int /\ c[k] \in Int /\ r[k] = g[k].requests /\ c[k] = g[k].currentCost
      /\ \A m \in M : Of(m) \in SUBSET S
    OBVIOUS
<1>2. IsFiniteSet(S) /\ IsFiniteSet(M)
  <2> HIDE DEF key
  <2>1. QED
      BY ImageIsFinite
<1>3. DOMAIN b = M
    BY DEF AggregateByModel
<1>4. ASSUME NEW m \in M
      PROVE  /\ b[m].requests = SumFunctionOnSet(r, Of(m))
             /\ b[m].cost = SumFunctionOnSet(c, Of(m))
  <2> DEFINE of == {k \in DOMAIN g : k[2] = m}
             rr == [k \in of |-> g[k].requests]
             cc == [k \in of |-> g[k].currentCost]
  <2>1. Of(m) = of
      OBVIOUS
  <2>2. b[m].requests = SumFunctionOnSet(rr, of) /\ b[m].cost = SumFunctionOnSet(cc, of)
      BY <1>4 DEF AggregateByModel
  <2>3. IsFiniteSet(of) /\ of \in SUBSET S
      BY <1>2, FS_Subset
  <2>4. \A k \in of : rr[k] = r[k] /\ cc[k] = c[k] /\ r[k] \in Int /\ c[k] \in Int
      BY <1>1
  <2> HIDE DEF of, rr, cc, r, c, b, Of
  <2>5. SumFunctionOnSet(rr, of) = SumFunctionOnSet(r, of) /\ SumFunctionOnSet(cc, of) = SumFunctionOnSet(c, of)
      BY <2>3, <2>4, SumsAgree
  <2>6. QED
      BY <2>1, <2>2, <2>5
<1> HIDE DEF b, S, key, M, r, c
<1>5. SumFunctionOnSet([m \in M |-> SumFunctionOnSet(r, {k \in S : key[k] = m})], M) = SumFunctionOnSet(r, S)
    BY <1>1, <1>2, SumByKey
<1>6. SumFunctionOnSet([m \in M |-> SumFunctionOnSet(c, {k \in S : key[k] = m})], M) = SumFunctionOnSet(c, S)
    BY <1>1, <1>2, SumByKey
<1>7. [m \in M |-> SumFunctionOnSet(r, {k \in S : key[k] = m})] = [m \in M |-> b[m].requests]
    BY <1>4
<1>8. [m \in M |-> SumFunctionOnSet(c, {k \in S : key[k] = m})] = [m \in M |-> b[m].cost]
    BY <1>4
<1>9. QED
    BY <1>3, <1>5, <1>6, <1>7, <1>8 DEF b, S, r, c

LEMMA ReportsAddUp ==
    ASSUME NEW log, ALog(log), NEW result, NEW how, result.groups = AggregateGroups(log),
           result.totalRequests = Cardinality(DOMAIN log), result.totalCost = AddedUp(log, "totalCost", DOMAIN log)
    PROVE  ReportAddsUp(log, result, how)
<1> DEFINE g == AggregateGroups(log)
           b == AggregateByModel(g)
<1>1. /\ IsFiniteSet(DOMAIN g)
      /\ SumFunctionOnSet([k \in DOMAIN g |-> g[k].requests], DOMAIN g) = Cardinality(DOMAIN log)
      /\ SumFunctionOnSet([k \in DOMAIN g |-> g[k].currentCost], DOMAIN g) = AddedUp(log, "totalCost", DOMAIN log)
    BY GroupsAddUp
<1>2. \A k \in DOMAIN g : g[k].requests \in Int /\ g[k].currentCost \in Int
  <2> TAKE k \in DOMAIN g
  <2>1. g[k].requests \in Nat /\ g[k].currentCost \in Nat
      BY GroupIs
  <2>2. QED
      BY <2>1
<1>3. /\ RenderReport(result, how).bars = b /\ RenderReport(result, how).requests = Cardinality(DOMAIN log)
      /\ RenderReport(result, how).spent = AddedUp(log, "totalCost", DOMAIN log)
    BY DEF RenderReport
<1> HIDE DEF g
<1>4. /\ SumFunctionOnSet([m \in DOMAIN b |-> b[m].requests], DOMAIN b) = Cardinality(DOMAIN log)
      /\ SumFunctionOnSet([m \in DOMAIN b |-> b[m].cost], DOMAIN b) = AddedUp(log, "totalCost", DOMAIN log)
    BY <1>1, <1>2, BarsAddUp
<1> HIDE DEF b
<1>5. QED
    BY <1>1, <1>3, <1>4 DEF ReportAddsUp, g

LEMMA ProductIsNat ==
    ASSUME NEW a \in Nat, NEW b \in Nat
    PROVE  a * b \in Nat
OBVIOUS

LEMMA ProjectedIsNat ==
    ASSUME NEW log, ALog(log), NEW k \in DOMAIN AggregateGroups(log)
    PROVE  Projected(k, AggregateGroups(log)[k]) \in Nat
<1> DEFINE g == AggregateGroups(log)[k]
           m == SuggestLightTarget(k[2])
<1>1. PICK a \in Nat : a = g.promptTokens
    BY GroupIs
<1>2. PICK b \in Nat : b = g.completionTokens
    BY GroupIs
<1>3. Projected(k, g) = CostFor(m, a, b)
    BY <1>1, <1>2 DEF Projected
<1> HIDE DEF m
<1>4. CASE m \in DOMAIN PriceTable
  <2>1. PICK x \in Nat : x = PriceTable[m].input
      BY <1>4, AuditAssumption
  <2>2. PICK y \in Nat : y = PriceTable[m].output
      BY <1>4, AuditAssumption
  <2>3. a * x \in Nat /\ b * y \in Nat
      BY ProductIsNat
  <2>4. CostFor(m, a, b) = a * x + b * y
      BY <1>4, <2>1, <2>2 DEF CostFor
  <2>5. QED
      BY <1>3, <2>3, <2>4
<1>5. CASE m \notin DOMAIN PriceTable
    BY <1>3, <1>5 DEF CostFor
<1>6. QED
    BY <1>4, <1>5

LEMMA SavingsHold ==
    ASSUME NEW log, ALog(log), NEW cheap
    PROVE  SavingsAreReal(RunAudit(log, cheap))
<1> DEFINE g == AggregateGroups(log)
           F == PlanRecommendations(g, {InSmall(name) : name \in cheap})
           S == DOMAIN g
           c == [k \in F |-> g[k].currentCost]
           s == [k \in F |-> Saving(k, g[k])]
           z == [k \in F |-> 0]
           a == [k \in S |-> g[k].currentCost]
           za == [k \in S |-> 0]
           R == RunAudit(log, cheap)
<1>1. F \in SUBSET S /\ \A k \in F : Worth(k, g[k])
    BY DEF PlanRecommendations
<1>2. IsFiniteSet(S) /\ SumFunctionOnSet(a, S) = AddedUp(log, "totalCost", DOMAIN log)
    BY GroupsAddUp
<1>3. IsFiniteSet(F)
    BY <1>1, <1>2, FS_Subset
<1>4. ASSUME NEW k \in S
      PROVE  /\ a[k] \in Int /\ 0 <= a[k]
             /\ k \in F => /\ s[k] \in Int /\ c[k] \in Int /\ 0 <= s[k] /\ s[k] <= c[k] /\ c[k] = a[k]
                           /\ Projected(k, g[k]) < g[k].currentCost
  <2>1. PICK x \in Nat : x = g[k].currentCost
      BY GroupIs
  <2>2. PICK y \in Nat : y = Projected(k, g[k])
      BY ProjectedIsNat
  <2>3. a[k] = x
      BY <2>1
  <2>4. Saving(k, g[k]) = x - y
      BY <2>1, <2>2 DEF Saving
  <2>5. ASSUME k \in F PROVE s[k] = x - y /\ c[k] = x /\ x - y > 0
    <3>1. Worth(k, g[k])
        BY <1>1, <2>5
    <3> HIDE DEF g, F
    <3>2. s[k] = Saving(k, g[k]) /\ c[k] = g[k].currentCost
        BY <2>5
    <3>3. QED
        BY <2>1, <2>4, <3>1, <3>2 DEF Worth
  <2> HIDE DEF g, F, s, c, a
  <2>6. QED
      BY <2>1, <2>2, <2>3, <2>5
<1>5. \A k \in F : z[k] \in Int /\ z[k] = 0
    OBVIOUS
<1>6. \A k \in S : za[k] \in Int /\ za[k] = 0
    OBVIOUS
<1>7. /\ R.recommendations = F /\ R.flaggedCost = SumFunctionOnSet(c, F) /\ R.flaggedSavings = SumFunctionOnSet(s, F)
      /\ R.totalCost = AddedUp(log, "totalCost", DOMAIN log) /\ R.groups = g
    BY DEF RunAudit
<1> HIDE DEF g, F, S, c, s, z, a, za, R
<1>8. \A k \in F : s[k] \in Int /\ c[k] \in Int /\ 0 <= s[k] /\ s[k] <= c[k] /\ c[k] = a[k] /\ a[k] \in Int /\ 0 <= a[k]
    BY <1>1, <1>4
<1>9. SumFunctionOnSet(s, F) \in Int /\ SumFunctionOnSet(c, F) \in Int
    BY <1>3, <1>8, SumIsInt
<1>10. SumFunctionOnSet(s, F) <= SumFunctionOnSet(c, F)
    BY <1>3, <1>8, SumGrows
<1>11. SumFunctionOnSet(z, F) = 0
    BY <1>3, <1>5, SumOfNothing
<1>12. \A k \in F : z[k] \in Int /\ s[k] \in Int /\ z[k] <= s[k]
    BY <1>5, <1>8
<1>13. SumFunctionOnSet(z, F) <= SumFunctionOnSet(s, F)
    BY <1>3, <1>12, SumGrows
<1>14. SumFunctionOnSet(c, F) = SumFunctionOnSet(a, F)
    BY <1>3, <1>8, SumsAgree
<1>15. SumFunctionOnSet(a, S) = SumFunctionOnSet(a, F) + SumFunctionOnSet(a, S \ F)
    BY <1>1, <1>2, <1>4, SumSplits
<1>16. IsFiniteSet(S \ F) /\ S \ F \in SUBSET S
    BY <1>2, FS_Subset
<1>17. SumFunctionOnSet(za, S \ F) = 0
    BY <1>6, <1>16, SumOfNothing
<1>18. \A k \in S \ F : za[k] \in Int /\ a[k] \in Int /\ za[k] <= a[k]
    BY <1>4, <1>6
<1>19. SumFunctionOnSet(za, S \ F) <= SumFunctionOnSet(a, S \ F)
    BY <1>16, <1>18, SumGrows
<1>20. SumFunctionOnSet(a, S \ F) \in Int
    BY <1>16, <1>18, SumIsInt
<1>21. /\ 0 <= R.flaggedSavings /\ R.flaggedSavings <= R.flaggedCost /\ R.flaggedCost <= R.totalCost
  <2>1. PICK x, y, u, v \in Int : x = SumFunctionOnSet(s, F) /\ y = SumFunctionOnSet(c, F) /\ u = SumFunctionOnSet(a, S \ F) /\ v = SumFunctionOnSet(a, S)
      BY <1>9, <1>14, <1>15, <1>20
  <2>2. 0 <= x /\ x <= y /\ v = y + u /\ 0 <= u
      BY <1>10, <1>11, <1>13, <1>14, <1>15, <1>17, <1>19, <2>1
  <2>3. 0 <= x /\ x <= y /\ y <= v
      BY <2>2
  <2>4. QED
      BY <1>2, <1>7, <2>1, <2>3
<1>22. \A k \in R.recommendations : Projected(k, R.groups[k]) < R.groups[k].currentCost
    BY <1>1, <1>4, <1>7
<1>23. QED
    BY <1>21, <1>22 DEF SavingsAreReal, R

\* What a line is looked at for does not change in an export.
LEMMA ExportedAlike ==
    ASSUME NEW log, ALog(log)
    PROVE  LET far == FetchRemoteRecords(log)
           IN  /\ DOMAIN far = DOMAIN log
               /\ \A i \in DOMAIN log : KeyOf(far[i]) = KeyOf(log[i])
               /\ \A i \in DOMAIN log, f \in CellAmounts : Amount(far[i][f]) = Amount(log[i][f])
<1> DEFINE far == FetchRemoteRecords(log)
<1>1. DOMAIN far = DOMAIN log
    BY DEF FetchRemoteRecords
<1>2. ASSUME NEW i \in DOMAIN log
      PROVE  /\ \A f \in CellAmounts : far[i][f] = Amount(CsvCell(log[i][f]))
             /\ far[i].taskType = CsvCell(log[i].taskType) /\ far[i].model = CsvCell(log[i].model)
             /\ far[i].modelRequested = CsvCell(log[i].modelRequested) /\ far[i].provider = CsvCell(log[i].provider)
    BY DEF FetchRemoteRecords, CellTexts, CellAmounts
<1>3. \A value, otherwise : Or(CsvCell(value), otherwise) = Or(value, otherwise)
    BY DEF Or, CsvCell
<1>4. ASSUME NEW i \in DOMAIN log PROVE KeyOf(far[i]) = KeyOf(log[i])
  <2>1. ModelOf(far[i]) = ModelOf(log[i])
      BY <1>2, <1>3, <1>4 DEF ModelOf
  <2> HIDE DEF far
  <2>2. QED
      BY <1>2, <1>3, <1>4, <2>1 DEF KeyOf
<1>5. ASSUME NEW i \in DOMAIN log, NEW f \in CellAmounts PROVE Amount(far[i][f]) = Amount(log[i][f])
  <2>1. log[i][f] \in Nat \cup {None}
      BY LogIsFinite, AuditAssumption
  <2>2. Amount(Amount(CsvCell(log[i][f]))) = Amount(log[i][f])
      BY <2>1 DEF Amount, CsvCell
  <2>3. QED
      BY <1>2, <2>2
<1> HIDE DEF far
<1>6. QED
    BY <1>1, <1>4, <1>5 DEF far

LEMMA AuditedAlike ==
    ASSUME NEW log, ALog(log), NEW cheap
    PROVE  RunAudit(FetchRemoteRecords(log), cheap) = RunAudit(log, cheap)
<1> DEFINE far == FetchRemoteRecords(log)
<1>1. /\ DOMAIN far = DOMAIN log
      /\ \A i \in DOMAIN log : KeyOf(far[i]) = KeyOf(log[i])
      /\ \A i \in DOMAIN log, f \in CellAmounts : Amount(far[i][f]) = Amount(log[i][f])
    BY ExportedAlike
<1> HIDE DEF far
<1>2. ASSUME NEW lines \in SUBSET DOMAIN log, NEW f \in CellAmounts
      PROVE  AddedUp(far, f, lines) = AddedUp(log, f, lines)
  <2>1. [i \in lines |-> Amount(far[i][f])] = [i \in lines |-> Amount(log[i][f])]
      BY <1>1
  <2>2. QED
      BY <2>1 DEF AddedUp
<1>3. {"promptTokens", "completionTokens", "totalCost"} = CellAmounts
    BY DEF CellAmounts
<1>4. ASSUME NEW lines \in SUBSET DOMAIN log PROVE Group(far, lines) = Group(log, lines)
    BY <1>2, <1>3 DEF Group
<1>5. {KeyOf(far[i]) : i \in DOMAIN far} = {KeyOf(log[i]) : i \in DOMAIN log}
    BY <1>1
<1>6. \A k : {i \in DOMAIN far : KeyOf(far[i]) = k} = {i \in DOMAIN log : KeyOf(log[i]) = k}
    BY <1>1
<1>7. AggregateGroups(far) = AggregateGroups(log)
  <2>1. \A k : Group(far, {i \in DOMAIN far : KeyOf(far[i]) = k}) = Group(log, {i \in DOMAIN log : KeyOf(log[i]) = k})
      BY <1>4, <1>6
  <2>2. QED
      BY <1>5, <2>1 DEF AggregateGroups
<1>8. AddedUp(far, "totalCost", DOMAIN far) = AddedUp(log, "totalCost", DOMAIN log)
    BY <1>1, <1>2, <1>3
<1>9. QED
    BY <1>1, <1>7, <1>8 DEF RunAudit, far

LEMMA ExportHolds ==
    ASSUME NEW log, ALog(log), NEW cheap
    PROVE  ExportAuditsAlike(log, cheap)
<1> DEFINE world == [answers |-> TRUE, records |-> log, sample |-> <<>>,
                     file |-> [exists |-> TRUE, json |-> TRUE, log |-> log]]
           args(url) == [help |-> FALSE, url |-> url, key |-> TRUE, demo |-> FALSE, cheap |-> cheap]
           shown(l) == [status |-> 0, report |-> RenderReport(RunAudit(l, cheap), "audit")]
<1>1. RunAuditCommand(args(TRUE), world) = shown(FetchRemoteRecords(log))
    BY DEF RunAuditCommand
<1>2. RunAuditCommand(args(FALSE), world) = shown(log)
    BY DEF RunAuditCommand
<1>3. shown(FetchRemoteRecords(log)) = shown(log)
    BY AuditedAlike
<1> HIDE DEF shown
<1>4. QED
    BY <1>1, <1>2, <1>3 DEF ExportAuditsAlike

LEMMA StreamsHold ==
    ASSUME NEW n \in Nat \ {0}, NEW events \in [1..n -> [{"in", "out"} -> 0..MaxTokens]]
    PROVE  StreamCountsAlike(events)
<1> SUFFICES ASSUME \A f \in {"in", "out"}, i, j \in DOMAIN events : i <= j => events[i][f] <= events[j][f],
                    NEW wire \in {"anthropic", "openai"}
             PROVE  UsageOfStream(wire, events) = UsageOfBody(events[Len(events)])
    BY DEF StreamCountsAlike
<1>1. DOMAIN events = 1..n /\ Len(events) = n /\ n \in 1..n
    OBVIOUS
<1>2. ASSUME NEW f \in {"in", "out"}
      PROVE  /\ Largest({0} \cup {events[i][f] : i \in DOMAIN events}) = events[n][f]
             /\ Latest(events, f) = events[n][f]
  <2>1. \A i \in 1..n : events[i][f] \in Nat /\ events[i][f] <= events[n][f] /\ i <= n
    <3> TAKE i \in 1..n
    <3>1. events[i][f] \in 0..MaxTokens /\ i <= n
        BY <1>2
    <3>2. events[i][f] <= events[n][f]
        BY <1>1, <1>2, <3>1
    <3>3. QED
        BY <3>1, <3>2, AuditAssumption
  <2>2. Largest({0} \cup {events[i][f] : i \in DOMAIN events}) = events[n][f]
    <3> DEFINE N == {0} \cup {events[i][f] : i \in DOMAIN events}
    <3>1. N \subseteq Nat /\ events[n][f] \in N /\ \A m \in N : m <= events[n][f]
        BY <1>1, <2>1
    <3> HIDE DEF N
    <3>2. PICK x \in Nat : x = events[n][f]
        BY <3>1
    <3>3. \A y \in N : (\A m \in N : m <= y) => y = x
        BY <3>1, <3>2
    <3>4. QED
        BY <3>1, <3>2, <3>3 DEF Largest, N
  <2>3. Latest(events, f) = events[n][f]
    <3> DEFINE said == {i \in DOMAIN events : events[i][f] # 0}
    <3>1. CASE said = {}
      <4>1. events[n][f] = 0
          BY <1>1, <3>1
      <4>2. QED
          BY <3>1, <4>1 DEF Latest
    <3>2. CASE said # {}
      <4>1. n \in said
          BY <1>1, <2>1, <3>2
      <4>2. \A m \in said : m <= n /\ m \in Nat
          BY <1>1, <2>1
      <4>3. Latest(events, f) = events[Largest(said)][f]
          BY <3>2 DEF Latest
      <4> HIDE DEF said
      <4>4. \A y \in said : (\A m \in said : m <= y) => y = n
          BY <4>1, <4>2
      <4>5. Largest(said) = n
          BY <4>1, <4>2, <4>4 DEF Largest
      <4>6. QED
          BY <4>3, <4>5
    <3>3. QED
        BY <3>1, <3>2
  <2>4. QED
      BY <2>2, <2>3
<1>3. QED
    BY <1>1, <1>2 DEF UsageOfStream, UsageOfBody

\* The audit of a log is sound whatever is in it.
LEMMA AuditHolds == AuditIsSound
<1>1. ASSUME NEW log \in Logs PROVE ALog(log)
    BY <1>1, AuditAssumption DEF Logs, ALog
<1>2. ASSUME NEW log \in Logs, NEW cheap
      PROVE  /\ ReportAddsUp(log, RunAudit(log, cheap), "audit") /\ SavingsAreReal(RunAudit(log, cheap))
             /\ ExportAuditsAlike(log, cheap)
  <2>1. /\ RunAudit(log, cheap).groups = AggregateGroups(log)
        /\ RunAudit(log, cheap).totalRequests = Cardinality(DOMAIN log)
        /\ RunAudit(log, cheap).totalCost = AddedUp(log, "totalCost", DOMAIN log)
      BY DEF RunAudit
  <2>2. ReportAddsUp(log, RunAudit(log, cheap), "audit")
      BY <1>1, <2>1, ReportsAddUp
  <2>3. QED
      BY <1>1, <2>2, SavingsHold, ExportHolds
<1>3. ASSUME NEW log \in Logs PROVE ReportAddsUp(log, WrapResult(log), "wrap")
  <2>1. /\ WrapResult(log).groups = AggregateGroups(log)
        /\ WrapResult(log).totalRequests = Cardinality(DOMAIN log)
        /\ WrapResult(log).totalCost = AddedUp(log, "totalCost", DOMAIN log)
      BY DEF WrapResult
  <2>2. QED
      BY <1>1, <2>1, ReportsAddUp
<1>4. ASSUME NEW events \in Streams PROVE StreamCountsAlike(events)
  <2>1. PICK n \in 1..MaxLines : events \in [1..n -> [{"in", "out"} -> 0..MaxTokens]]
      BY DEF Streams
  <2>2. n \in Nat \ {0}
      BY AuditAssumption
  <2>3. QED
      BY <2>1, <2>2, StreamsHold
<1>5. QED
    BY <1>2, <1>3, <1>4 DEF AuditIsSound

\* Whatever log is audited, its groups add up and its savings are real, the export of an
\* instance is audited like the log itself, and of a stream the proxy counts what the same
\* answer says in one piece, for any prices and lines (audit.js:38-97, wrap.js:26-68).
THEOREM AuditAlwaysSound == AuditIsSound
BY AuditHolds

-----------------------------------------------------------------------------
(* Sessions of arbr wrap. *)

\* Where the writing of the user is while sessions hold the file.
CopiesKeep ==
    "edit" \notin spoilt /\ written.exists =>
      /\ written \in copies \cup {config}
      /\ \A w \in Wraps : wrap[w].step = "read" => wrap[w].found = written \/ written \in copies
      /\ \A w \in Wraps : Holds(w) /\ wrap[w].step # "read" => written \in copies

\* While nothing went wrong one session has the file, which it found as the user left it.
OneHolds ==
    spoilt = {} =>
      /\ \A w, v \in Wraps : Holds(w) /\ Holds(v) => w = v
      /\ \A w \in Wraps : Holds(w) => wrap[w].found = written
      /\ written.tables = <<>>
      /\ \A w \in Wraps : Holds(w) /\ wrap[w].step \in {"patched", "running"} => config = PatchedFile(written, w)
      /\ (\A w \in Wraps : Holds(w) => wrap[w].step \in {"read", "saved"}) => config = written
      /\ \A w \in Wraps : wrap[w].step = "running" => wrap[w].to = w
      /\ \A c \in WrapCalls : passing[c].state # "none" => passing[c].by = passing[c].to

\* A process that has not reported has counted nothing.
ReportsKeep ==
    \A w \in Wraps :
      /\ wrap[w].step = "reported" => report[w] = CountedAt(w) /\ OpenAt(w) = {}
      /\ wrap[w].step # "reported" => report[w] = {}


WrapInv == WrapTypeOK /\ CopiesKeep /\ OneHolds /\ ReportsKeep

WrapsTyped(f) ==
    /\ f \in [Wraps -> Wrapping]
    /\ \A w \in Wraps : f[w].step \in {"read", "saved", "patched"} => f[w].agent = "codex"
FilesTyped(a, b, c) == a \in Files /\ b \in Files /\ c \subseteq Files
CallsTyped(f, g) == f \in [WrapCalls -> Passing] /\ g \in [Wraps -> SUBSET WrapCalls]
SpoiltTyped(s) == s \subseteq {"edit", "overlap", "launch", "restore", "death"}

LEMMA WrapTypes ==
    WrapTypeOK <=> WrapsTyped(wrap) /\ FilesTyped(config, written, copies) /\ CallsTyped(passing, report) /\ SpoiltTyped(spoilt)
BY DEF WrapTypeOK, WrapsTyped, FilesTyped, CallsTyped, SpoiltTyped

\* One process changes, the others stay as they are.
LEMMA WrapsChange ==
    ASSUME NEW f, WrapsTyped(f), NEW w \in Wraps, NEW r \in Wrapping,
           r.step \in {"read", "saved", "patched"} => r.agent = "codex"
    PROVE  WrapsTyped([f EXCEPT ![w] = r])
BY DEF WrapsTyped

\* What a step makes of the process that takes it, and of no other.
LEMMA OneMoves ==
    ASSUME NEW f, WrapsTyped(f), NEW w \in Wraps, NEW to \in WrapSteps,
           to \in {"read", "saved", "patched"} => f[w].agent = "codex"
    PROVE  LET g == [f EXCEPT ![w].step = to]
           IN  /\ WrapsTyped(g)
               /\ g[w].step = to /\ g[w].agent = f[w].agent /\ g[w].found = f[w].found /\ g[w].to = f[w].to
               /\ \A v \in Wraps \ {w} : g[v] = f[v]
<1> DEFINE r == [f[w] EXCEPT !.step = to]
<1>1. f[w] \in Wrapping
    BY DEF WrapsTyped
<1>2. r \in Wrapping /\ r.step = to /\ r.agent = f[w].agent /\ r.found = f[w].found /\ r.to = f[w].to
    BY <1>1 DEF Wrapping
<1>3. [f EXCEPT ![w].step = to] = [f EXCEPT ![w] = r]
    OBVIOUS
<1>4. f \in [Wraps -> Wrapping]
    BY DEF WrapsTyped
<1> HIDE DEF r
<1>5. WrapsTyped([f EXCEPT ![w] = r])
    BY <1>2, WrapsChange
<1>6. QED
    BY <1>2, <1>3, <1>4, <1>5

LEMMA FilesAre ==
    /\ Missing \in Files
    /\ \A t \in Writings \cup {None}, s \in Seq(Wraps) : File(t, s) \in Files
    /\ \A f \in Files : f.tables \in Seq(Wraps) /\ f.text \in Writings \cup {None}
    /\ \A f \in Files, w \in Wraps : PatchedFile(f, w) \in Files
<1>1. <<>> \in Seq(Wraps)
    OBVIOUS
<1>2. \A t \in Writings \cup {None}, s \in Seq(Wraps) : File(t, s) \in Files
    BY DEF File, Files
<1>3. \A f \in Files : f.tables \in Seq(Wraps) /\ f.text \in Writings \cup {None}
    BY DEF Files
<1>4. ASSUME NEW f \in Files, NEW w \in Wraps PROVE PatchedFile(f, w) \in Files
  <2>1. Append(f.tables, w) \in Seq(Wraps)
      BY <1>3
  <2>2. QED
      BY <1>2, <1>3, <2>1 DEF PatchedFile
<1>5. Missing \in Files
    BY <1>1 DEF Missing, Files
<1>6. QED
    BY <1>2, <1>3, <1>4, <1>5

LEMMA FirstFiles ==
    ASSUME NEW f \in {Missing} \cup {File(t, <<>>) : t \in Writings}
    PROVE  f \in Files /\ f.tables = <<>>
<1>1. <<>> \in Seq(Wraps)
    OBVIOUS
<1>2. CASE f = Missing
    BY <1>2, FilesAre DEF Missing
<1>3. ASSUME NEW t \in Writings, f = File(t, <<>>) PROVE f \in Files /\ f.tables = <<>>
    BY <1>1, <1>3, FilesAre DEF File
<1>4. QED
    BY <1>2, <1>3

LEMMA WrapStarts == WrapInit => WrapInv
<1> SUFFICES ASSUME WrapInit PROVE WrapInv
    OBVIOUS
<1>1. \A w \in Wraps : wrap[w] = NotWrapped
    BY DEF WrapInit
<1>2. written \in Files /\ written.tables = <<>> /\ config = written
    BY FirstFiles DEF WrapInit
<1>3. WrapTypeOK
  <2>1. NotWrapped \in Wrapping /\ NotWrapped.step = "none"
      BY FilesAre DEF NotWrapped, Wrapping, WrapSteps
  <2>2. NoPassing \in Passing
      BY DEF NoPassing, Passing
  <2>3. wrap \in [Wraps -> Wrapping] /\ passing \in [WrapCalls -> Passing]
      BY <2>1, <2>2 DEF WrapInit
  <2>4. QED
      BY <1>1, <1>2, <2>1, <2>3 DEF WrapInit, WrapTypeOK
<1>4. \A w \in Wraps : ~Holds(w) /\ wrap[w].step = "none"
    BY <1>1 DEF Holds, NotWrapped
<1>5. \A c \in WrapCalls : passing[c].state = "none"
    BY DEF WrapInit, NoPassing
<1>6. CopiesKeep
    BY <1>2, <1>4 DEF CopiesKeep
<1>7. OneHolds
    BY <1>2, <1>4, <1>5 DEF OneHolds
<1>8. ReportsKeep
    BY <1>4 DEF ReportsKeep, WrapInit
<1>9. QED
    BY <1>3, <1>6, <1>7, <1>8 DEF WrapInv

\* A step of a session keeps what processes, files and calls are.
LEMMA WrapStepTyped ==
    ASSUME WrapTypeOK, NEW w \in Wraps, WrapStep(w)
    PROVE  WrapTypeOK'
<1>1. /\ WrapsTyped(wrap) /\ FilesTyped(config, written, copies)
      /\ CallsTyped(passing, report) /\ SpoiltTyped(spoilt)
    BY WrapTypes
<1>2. wrap[w] \in Wrapping /\ wrap[w].found \in Files
    BY <1>1 DEF WrapsTyped, Wrapping
<1>3. ASSUME NEW to \in WrapSteps, to \in {"read", "saved", "patched"} => wrap[w].agent = "codex",
             wrap' = [wrap EXCEPT ![w].step = to]
      PROVE  WrapsTyped(wrap')
    BY <1>1, <1>3, OneMoves
<1>4. ASSUME NEW r \in Wrapping, r.step \in {"read", "saved", "patched"} => r.agent = "codex",
             wrap' = [wrap EXCEPT ![w] = r]
      PROVE  WrapsTyped(wrap')
    BY <1>1, <1>4, WrapsChange
<1>5. WrapsTyped(wrap')
  <2>1. ASSUME NEW agent \in AgentNames, StartProxy(w, agent) PROVE WrapsTyped(wrap')
    <3> DEFINE r == [NotWrapped EXCEPT !.step = "listening", !.agent = agent]
    <3>1. r \in Wrapping /\ r.step = "listening"
        BY FilesAre DEF NotWrapped, Wrapping, WrapSteps
    <3>2. wrap' = [wrap EXCEPT ![w] = r]
        BY <2>1 DEF StartProxy
    <3> HIDE DEF r
    <3>3. QED
        BY <1>4, <3>1, <3>2
  <2>2. CASE LaunchDirectly(w)
    <3> DEFINE r == [wrap[w] EXCEPT !.step = "running", !.to = w]
    <3>1. r \in Wrapping /\ r.step = "running"
        BY <1>2 DEF Wrapping, WrapSteps
    <3>2. wrap' = [wrap EXCEPT ![w] = r]
        BY <2>2 DEF LaunchDirectly
    <3> HIDE DEF r
    <3>3. QED
        BY <1>4, <3>1, <3>2
  <2>3. CASE ReadConfig(w)
    <3> DEFINE r == [wrap[w] EXCEPT !.step = "read", !.found = config]
    <3>1. r \in Wrapping /\ r.step = "read" /\ r.agent = wrap[w].agent
        BY <1>1, <1>2 DEF Wrapping, WrapSteps, FilesTyped
    <3>2. wrap' = [wrap EXCEPT ![w] = r] /\ wrap[w].agent = "codex"
        BY <2>3 DEF ReadConfig
    <3> HIDE DEF r
    <3>3. QED
        BY <1>4, <3>1, <3>2
  <2>4. CASE Launch(w)
    <3> DEFINE r == [wrap[w] EXCEPT !.step = "running", !.to = ProxyIn(config)]
    <3>1. ProxyIn(config) \in Wraps \cup {None}
      <4>1. config.tables \in Seq(Wraps)
          BY <1>1, FilesAre DEF FilesTyped
      <4>2. QED
          BY <4>1 DEF ProxyIn
    <3>2. r \in Wrapping /\ r.step = "running"
        BY <1>2, <3>1 DEF Wrapping, WrapSteps
    <3>3. wrap' = [wrap EXCEPT ![w] = r]
        BY <2>4 DEF Launch
    <3> HIDE DEF r
    <3>4. QED
        BY <1>4, <3>2, <3>3
  <2>5. CASE BackUp(w) \/ WritePatched(w)
    <3>1. PICK to \in {"saved", "patched"} : wrap' = [wrap EXCEPT ![w].step = to]
        BY <2>5 DEF BackUp, WritePatched, Step
    <3>2. wrap[w].agent = "codex"
        BY <1>1, <2>5 DEF WrapsTyped, BackUp, WritePatched, Step
    <3>3. QED
        BY <1>3, <3>1, <3>2 DEF WrapSteps
  <2>6. CASE LaunchFails(w) \/ AgentEnds(w) \/ ServerCloses(w) \/ OnSignal(w) \/ Killed(w)
    <3>1. PICK to \in {"failing", "closing", "reported", "dead"} : wrap' = [wrap EXCEPT ![w].step = to]
        BY <2>6 DEF LaunchFails, AgentEnds, Step, ServerCloses, OnSignal, Killed, Dies
    <3>2. QED
        BY <1>3, <3>1 DEF WrapSteps
  <2>7. QED
      BY <2>1, <2>2, <2>3, <2>4, <2>5, <2>6 DEF WrapStep
<1>6. FilesTyped(config', written', copies')
  <2>1. CASE BackUp(w)
      BY <1>1, <1>2, <2>1 DEF BackUp, Kept, FilesTyped
  <2>2. CASE WritePatched(w)
      BY <1>1, <1>2, <2>2, FilesAre DEF WritePatched, FilesTyped
  <2>3. CASE AgentEnds(w)
      BY <1>1, <1>2, <2>3 DEF AgentEnds, Cleanup, Restored, FilesTyped
  <2>4. CASE OnSignal(w)
      BY <1>1, <1>2, <2>4 DEF OnSignal, Dies, Cleanup, Restored, FilesTyped
  <2>5. QED
      BY <1>1, <2>1, <2>2, <2>3, <2>4
      DEF WrapStep, StartProxy, LaunchDirectly, ReadConfig, Launch, LaunchFails, ServerCloses, Killed, Dies
<1>7. CallsTyped(passing', report')
  <2>1. ASSUME NEW c \in WrapCalls, NEW s \in {"abandoned", "failed"}
        PROVE  [passing[c] EXCEPT !.state = s] \in Passing
    <3>1. passing[c] \in Passing
        BY <1>1 DEF CallsTyped
    <3>2. QED
        BY <3>1 DEF Passing
  <2>2. \A c \in WrapCalls : passing[c] \in Passing
      BY <1>1 DEF CallsTyped
  <2>3. ASSUME NEW c \in WrapCalls PROVE Abandoned(c) \in Passing
    <3>1. CASE passing[c].state = "open"
      <4>1. Abandoned(c) = [passing[c] EXCEPT !.state = "abandoned"]
          BY <3>1 DEF Abandoned
      <4>2. QED
          BY <2>1, <4>1
    <3>2. CASE passing[c].state # "open"
      <4>1. Abandoned(c) = passing[c]
          BY <2>2, <3>2 DEF Abandoned, Passing
      <4>2. QED
          BY <2>2, <4>1
    <3>3. QED
        BY <3>1, <3>2
  <2>4. passing' \in [WrapCalls -> Passing]
    <3>1. CASE AgentEnds(w)
        BY <2>2, <2>3, <3>1 DEF AgentEnds
    <3>2. CASE ServerCloses(w)
        BY <2>1, <2>2, <3>2 DEF ServerCloses
    <3>3. CASE OnSignal(w) \/ Killed(w)
        BY <2>1, <2>2, <3>3 DEF OnSignal, Killed, Dies
    <3>4. QED
        BY <1>1, <3>1, <3>2, <3>3
        DEF CallsTyped, WrapStep, StartProxy, LaunchDirectly, ReadConfig, BackUp, WritePatched, Launch, LaunchFails
  <2>5. report' \in [Wraps -> SUBSET WrapCalls]
    <3>1. CASE ServerCloses(w)
        BY <1>1, <3>1 DEF ServerCloses, CountedAt, CallsTyped
    <3>2. QED
        BY <1>1, <3>1
        DEF CallsTyped, WrapStep, StartProxy, LaunchDirectly, ReadConfig, BackUp, WritePatched, Launch, LaunchFails,
            AgentEnds, OnSignal, Killed, Dies
  <2>6. QED
      BY <2>4, <2>5 DEF CallsTyped
<1>8. SpoiltTyped(spoilt')
    BY <1>1
    DEF SpoiltTyped, Spoils, WrapStep, StartProxy, LaunchDirectly, ReadConfig, BackUp, WritePatched, Launch, LaunchFails,
        AgentEnds, Cleanup, ServerCloses, OnSignal, Killed, Dies
<1>9. QED
    BY <1>5, <1>6, <1>7, <1>8 DEF WrapTypeOK, WrapsTyped, FilesTyped, CallsTyped, SpoiltTyped
\* Calls and the user keep them too.
LEMMA WrapTyped ==
    ASSUME WrapTypeOK, WrapNext
    PROVE  WrapTypeOK'
<1>1. CASE \E w \in Wraps : WrapStep(w)
    BY <1>1, WrapStepTyped
<1>2. /\ WrapsTyped(wrap) /\ FilesTyped(config, written, copies)
      /\ CallsTyped(passing, report) /\ SpoiltTyped(spoilt)
    BY WrapTypes
<1>3. \A c \in WrapCalls : passing[c] \in Passing
    BY <1>2 DEF CallsTyped
<1>4. ASSUME NEW c \in WrapCalls, CallAbandoned(c) \/ CallRecorded(c) \/ CallFails(c)
      PROVE  WrapTypeOK'
  <2>1. PICK s \in {"abandoned", "recorded", "late", "failed"} :
            passing' = [passing EXCEPT ![c] = [passing[c] EXCEPT !.state = s]]
    <3>1. CASE CallAbandoned(c)
      <4>1. Abandoned(c) = [passing[c] EXCEPT !.state = "abandoned"]
          BY <3>1 DEF CallAbandoned, Abandoned
      <4>2. QED
          BY <3>1, <4>1 DEF CallAbandoned
    <3>2. CASE CallRecorded(c)
        BY <3>2 DEF CallRecorded
    <3>3. CASE CallFails(c)
        BY <3>3 DEF CallFails
    <3>4. QED
        BY <1>4, <3>1, <3>2, <3>3
  <2>2. [passing[c] EXCEPT !.state = s] \in Passing
      BY <1>3 DEF Passing
  <2>3. passing' \in [WrapCalls -> Passing]
      BY <1>2, <2>1, <2>2 DEF CallsTyped
  <2>4. UNCHANGED <<wrap, config, copies, report, written, spoilt>>
      BY <1>4 DEF CallAbandoned, CallRecorded, CallFails
  <2>5. QED
      BY <2>3, <2>4 DEF WrapTypeOK
<1>5. ASSUME NEW w \in Wraps, NEW c \in WrapCalls, CallArrives(w, c)
      PROVE  WrapTypeOK'
  <2>1. PICK q \in Wraps : passing' = [passing EXCEPT ![c] = [state |-> "open", by |-> w, to |-> q]]
      BY <1>5 DEF CallArrives
  <2>2. [state |-> "open", by |-> w, to |-> q] \in Passing
      BY DEF Passing
  <2>3. passing' \in [WrapCalls -> Passing]
      BY <1>2, <2>1, <2>2 DEF CallsTyped
  <2>4. QED
      BY <1>5, <2>3 DEF CallArrives, WrapTypeOK
<1>6. ASSUME NEW t \in Writings, Edit(t)
      PROVE  WrapTypeOK'
  <2>1. config' \in Files /\ written' \in Files
      BY <1>2, <1>6, FilesAre DEF Edit, FilesTyped
  <2>2. SpoiltTyped(spoilt')
      BY <1>2, <1>6 DEF Edit, Spoils, SpoiltTyped
  <2>3. QED
      BY <1>6, <2>1, <2>2 DEF Edit, WrapTypeOK, SpoiltTyped
<1>7. QED
    BY <1>1, <1>4, <1>5, <1>6 DEF WrapNext

\* What each step makes of the processes, as far as copies and files are concerned.
LEMMA WrapMoves ==
    ASSUME WrapTypeOK, NEW w \in Wraps, WrapStep(w)
    PROVE  /\ \A v \in Wraps \ {w} : wrap'[v] = wrap[v]
           /\ wrap'[w].agent = wrap[w].agent \/ wrap[w].step = "none"
           /\ \/ wrap[w].step = "none" /\ wrap'[w].step = "listening" /\ UNCHANGED <<config, copies, spoilt>>
              \/ /\ wrap[w].step = "listening" /\ wrap[w].agent # "codex" /\ wrap'[w].step = "running"
                 /\ wrap'[w].to = w /\ UNCHANGED <<config, copies, spoilt>>
              \/ /\ wrap[w].step = "listening" /\ wrap'[w].step = "read" /\ wrap'[w].found = config
                 /\ UNCHANGED <<config, copies>>
                 /\ spoilt' = spoilt \cup IF \E v \in Wraps : Holds(v) THEN {"overlap"} ELSE {}
              \/ /\ wrap[w].step = "read" /\ wrap'[w].step = "saved" /\ wrap'[w].found = wrap[w].found
                 /\ copies' = copies \cup Kept(wrap[w].found) /\ UNCHANGED <<config, spoilt>>
              \/ /\ wrap[w].step = "saved" /\ wrap'[w].step = "patched" /\ wrap'[w].found = wrap[w].found
                 /\ config' = PatchedFile(wrap[w].found, w) /\ UNCHANGED <<copies, spoilt>>
              \/ /\ wrap[w].step = "patched" /\ wrap'[w].step = "running" /\ wrap'[w].found = wrap[w].found
                 /\ wrap'[w].to = ProxyIn(config) /\ UNCHANGED <<config, copies, spoilt>>
              \/ /\ wrap'[w].step \in {"closing", "failing", "reported", "dead"} /\ UNCHANGED copies
                 /\ config' # config => /\ wrap[w].step = "running" /\ wrap[w].agent = "codex"
                                        /\ config' = wrap[w].found
                 /\ spoilt \subseteq spoilt'
                 /\ spoilt' = {} /\ Holds(w) =>
                       (wrap[w].step \in {"read", "saved"} /\ UNCHANGED config) \/ config' = wrap[w].found
<1>1. WrapsTyped(wrap) /\ wrap \in [Wraps -> Wrapping] /\ wrap[w] \in Wrapping
    BY WrapTypes DEF WrapsTyped
<1>2. ASSUME NEW agent \in AgentNames, StartProxy(w, agent)
      PROVE  /\ \A v \in Wraps \ {w} : wrap'[v] = wrap[v]
             /\ wrap[w].step = "none" /\ wrap'[w].step = "listening"
    BY <1>1, <1>2 DEF StartProxy, NotWrapped
<1>3. CASE LaunchDirectly(w)
  <2>1. /\ \A v \in Wraps \ {w} : wrap'[v] = wrap[v]
        /\ wrap'[w].step = "running" /\ wrap'[w].to = w /\ wrap'[w].agent = wrap[w].agent
      BY <1>1, <1>3 DEF LaunchDirectly, Wrapping
  <2>2. QED
      BY <1>3, <2>1 DEF LaunchDirectly
<1>4. CASE ReadConfig(w)
  <2>1. /\ \A v \in Wraps \ {w} : wrap'[v] = wrap[v]
        /\ wrap'[w].step = "read" /\ wrap'[w].found = config /\ wrap'[w].agent = wrap[w].agent
      BY <1>1, <1>4 DEF ReadConfig, Wrapping
  <2>2. QED
      BY <1>4, <2>1 DEF ReadConfig, Spoils
<1>5. CASE Launch(w)
  <2>1. /\ \A v \in Wraps \ {w} : wrap'[v] = wrap[v]
        /\ wrap'[w].step = "running" /\ wrap'[w].to = ProxyIn(config) /\ wrap'[w].agent = wrap[w].agent
        /\ wrap'[w].found = wrap[w].found
      BY <1>1, <1>5 DEF Launch, Wrapping
  <2>2. QED
      BY <1>5, <2>1 DEF Launch
<1>6. ASSUME NEW to \in WrapSteps, wrap' = [wrap EXCEPT ![w].step = to]
      PROVE  /\ \A v \in Wraps \ {w} : wrap'[v] = wrap[v]
             /\ wrap'[w].step = to /\ wrap'[w].agent = wrap[w].agent /\ wrap'[w].found = wrap[w].found
    BY <1>1, <1>6 DEF Wrapping
<1>7. CASE BackUp(w)
    BY <1>6, <1>7 DEF BackUp, Step, WrapSteps
<1>8. CASE WritePatched(w)
    BY <1>6, <1>8 DEF WritePatched, Step, WrapSteps
<1>9. CASE LaunchFails(w)
  <2>1. wrap' = [wrap EXCEPT ![w].step = "failing"] /\ UNCHANGED <<config, copies>> /\ spoilt \subseteq spoilt'
      BY <1>9 DEF LaunchFails, Spoils
  <2>2. spoilt' = {} => wrap[w].agent # "codex"
      BY <1>9 DEF LaunchFails, Spoils
  <2>3. QED
      BY <1>6, <2>1, <2>2 DEF WrapSteps, Holds
<1>10. CASE AgentEnds(w)
  <2>1. wrap' = [wrap EXCEPT ![w].step = "closing"] /\ UNCHANGED copies /\ wrap[w].step = "running"
      BY <1>10 DEF AgentEnds, Step
  <2>2. /\ config' # config => wrap[w].agent = "codex" /\ config' = wrap[w].found
        /\ spoilt \subseteq spoilt'
        /\ spoilt' = {} /\ wrap[w].agent = "codex" => config' = wrap[w].found
      BY <1>10 DEF AgentEnds, Cleanup, Restored, Spoils
  <2>3. QED
      BY <1>6, <2>1, <2>2 DEF WrapSteps, Holds
<1>11. CASE ServerCloses(w)
  <2>1. /\ wrap' = [wrap EXCEPT ![w].step = IF wrap[w].step = "closing" THEN "reported" ELSE "dead"]
        /\ UNCHANGED <<config, copies, spoilt>> /\ wrap[w].step \in {"closing", "failing"}
      BY <1>11 DEF ServerCloses
  <2>2. QED
      BY <1>6, <2>1 DEF WrapSteps, Holds
<1>12. CASE OnSignal(w)
  <2>1. wrap' = [wrap EXCEPT ![w].step = "dead"] /\ UNCHANGED copies /\ wrap[w].step = "running" /\ wrap[w].agent = "codex"
      BY <1>12 DEF OnSignal, Dies
  <2>2. /\ config' # config => config' = wrap[w].found
        /\ spoilt \subseteq spoilt'
        /\ spoilt' = {} => config' = wrap[w].found
      BY <1>12, <2>1 DEF OnSignal, Cleanup, Restored, Spoils
  <2>3. QED
      BY <1>6, <2>1, <2>2 DEF WrapSteps, Holds
<1>13. CASE Killed(w)
  <2>1. wrap' = [wrap EXCEPT ![w].step = "dead"] /\ UNCHANGED <<copies, config>>
      BY <1>13 DEF Killed, Dies
  <2>2. /\ spoilt \subseteq spoilt'
        /\ spoilt' = {} => wrap[w].agent # "codex" \/ wrap[w].step \notin {"patched", "running"}
      BY <1>13 DEF Killed, Spoils
  <2>3. QED
      BY <1>6, <2>1, <2>2 DEF WrapSteps, Holds
<1>14. QED
    BY <1>2, <1>3, <1>4, <1>5, <1>7, <1>8, <1>9, <1>10, <1>11, <1>12, <1>13 DEF WrapStep, StartProxy

\* Calls and the user leave the processes alone.
LEMMA OthersMove ==
    ASSUME WrapNext, ~\E w \in Wraps : WrapStep(w)
    PROVE  /\ UNCHANGED <<wrap, copies, report>>
           /\ \/ UNCHANGED <<config, written, spoilt>>
              \/ /\ written' = config' /\ config'.tables = config.tables /\ UNCHANGED passing
                 /\ spoilt' = spoilt \cup IF \E w \in Wraps : Holds(w) THEN {"edit"} ELSE {}
BY DEF WrapNext, CallArrives, CallAbandoned, CallRecorded, CallFails, Edit, Spoils, File

LEMMA SessionsWriteNot ==
    ASSUME NEW w \in Wraps, WrapStep(w)
    PROVE  UNCHANGED written
BY DEF WrapStep, StartProxy, LaunchDirectly, ReadConfig, BackUp, WritePatched, Launch, LaunchFails,
       AgentEnds, ServerCloses, OnSignal, Killed, Dies

LEMMA CopiesStep ==
    ASSUME WrapTypeOK, CopiesKeep, WrapNext
    PROVE  CopiesKeep'
<1> SUFFICES ASSUME "edit" \notin spoilt', written'.exists PROVE CopiesKeep'
    BY DEF CopiesKeep
<1>1. CASE ~\E w \in Wraps : WrapStep(w)
  <2>1. UNCHANGED <<wrap, copies>>
      BY <1>1, OthersMove
  <2>2. CASE UNCHANGED <<config, written, spoilt>>
      BY <2>1, <2>2 DEF CopiesKeep, Holds
  <2>3. CASE /\ written' = config'
             /\ spoilt' = spoilt \cup IF \E w \in Wraps : Holds(w) THEN {"edit"} ELSE {}
    <3>1. \A w \in Wraps : ~Holds(w)
        BY <2>3
    <3>2. \A w \in Wraps : wrap[w].step # "read"
        BY <3>1 DEF Holds, WrapTypeOK
    <3>3. QED
        BY <2>1, <2>3, <3>1, <3>2 DEF CopiesKeep, Holds
  <2>4. QED
      BY <1>1, <2>2, <2>3, OthersMove
<1>2. ASSUME NEW w \in Wraps, WrapStep(w) PROVE CopiesKeep'
  <2>1. UNCHANGED written /\ "edit" \notin spoilt /\ copies \subseteq copies'
      BY <1>2, SessionsWriteNot, WrapMoves
  <2>2. /\ written \in copies \cup {config}
        /\ \A v \in Wraps : wrap[v].step = "read" => wrap[v].found = written \/ written \in copies
        /\ \A v \in Wraps : Holds(v) /\ wrap[v].step # "read" => written \in copies
      BY <2>1 DEF CopiesKeep
  <2>3. \A v \in Wraps \ {w} : wrap'[v] = wrap[v]
      BY <1>2, WrapMoves
  <2>4. wrap[w].step = "saved" => written \in copies
      BY <2>2 DEF Holds, WrapTypeOK
  <2>5. wrap[w].step = "patched" => written \in copies
      BY <2>2 DEF Holds, WrapTypeOK
  <2>6. wrap[w].step = "running" /\ wrap[w].agent = "codex" => written \in copies
      BY <2>2 DEF Holds
  <2>7. written' \in copies' \cup {config'}
      BY <1>2, <2>1, <2>2, <2>4, <2>6, WrapMoves
  <2>8. wrap'[w].step = "read" => wrap'[w].found = written \/ written \in copies
      BY <1>2, <2>2, WrapMoves
  <2>9. Holds(w)' /\ wrap'[w].step # "read" => written \in copies'
    <3>1. CASE wrap[w].step = "read" /\ wrap'[w].step = "saved" /\ copies' = copies \cup Kept(wrap[w].found)
        BY <2>1, <2>2, <3>1 DEF Kept
    <3>2. QED
        BY <1>2, <2>1, <2>4, <2>5, <3>1, WrapMoves DEF Holds
  <2>10. QED
      BY <2>1, <2>2, <2>3, <2>7, <2>8, <2>9 DEF CopiesKeep, Holds
<1>3. QED
    BY <1>1, <1>2

\* A session opens no call, counts none as recorded, and moves none to another proxy.
LEMMA CallsMove ==
    ASSUME WrapTypeOK, NEW w \in Wraps, WrapStep(w), NEW c \in WrapCalls
    PROVE  /\ passing'[c].by = passing[c].by /\ passing'[c].to = passing[c].to
           /\ \/ passing'[c].state = passing[c].state
              \/ passing[c].state \in {"open", "abandoned"} /\ passing'[c].state \in {"abandoned", "failed"}
<1>1. passing \in [WrapCalls -> Passing] /\ passing[c] \in Passing
    BY DEF WrapTypeOK
<1>2. \/ passing'[c] = passing[c]
      \/ /\ passing[c].state \in {"open", "abandoned"}
         /\ \E s \in {"abandoned", "failed"} : passing'[c] = [passing[c] EXCEPT !.state = s]
  <2>1. CASE AgentEnds(w)
    <3>1. passing'[c] = passing[c] \/ passing'[c] = Abandoned(c)
        BY <2>1 DEF AgentEnds
    <3>2. CASE passing[c].state = "open"
      <4>1. Abandoned(c) = [passing[c] EXCEPT !.state = "abandoned"]
          BY <3>2 DEF Abandoned
      <4>2. QED
          BY <3>1, <3>2, <4>1
    <3>3. CASE passing[c].state # "open"
      <4>1. Abandoned(c) = passing[c]
          BY <1>1, <3>3 DEF Abandoned, Passing
      <4>2. QED
          BY <3>1, <4>1
    <3>4. QED
        BY <3>2, <3>3
  <2>2. CASE ServerCloses(w)
      BY <2>2 DEF ServerCloses
  <2>3. CASE OnSignal(w) \/ Killed(w)
      BY <2>3 DEF OnSignal, Killed, Dies
  <2>4. QED
      BY <2>1, <2>2, <2>3
      DEF WrapStep, StartProxy, LaunchDirectly, ReadConfig, BackUp, WritePatched, Launch, LaunchFails
<1>3. QED
    BY <1>1, <1>2 DEF Passing

\* The steps of others than sessions, on a call.
LEMMA CallsGoOn ==
    ASSUME WrapTypeOK, WrapNext, ~\E w \in Wraps : WrapStep(w), NEW c \in WrapCalls
    PROVE  \/ passing'[c] = passing[c]
           \/ /\ passing[c].state \in {"open", "abandoned"}
              /\ passing'[c].by = passing[c].by /\ passing'[c].to = passing[c].to
              /\ passing'[c].state \in {"abandoned", "recorded", "late", "failed"}
              /\ passing'[c].state = "recorded" =>
                    \A w \in Wraps : w = passing[c].to => wrap[w].step # "reported"
           \/ /\ passing[c].state = "none" /\ passing'[c].state = "open"
              /\ \E w, q \in Wraps : /\ wrap[w].step = "running" /\ q = wrap[w].to /\ Listens(q)
                                     /\ passing'[c].by = w /\ passing'[c].to = q
<1>1. passing \in [WrapCalls -> Passing] /\ passing[c] \in Passing
    BY DEF WrapTypeOK
<1>2. ASSUME NEW d \in WrapCalls, CallAbandoned(d) PROVE passing'[c] = passing[c] \/ (c = d /\ passing[c].state = "open" /\ passing'[c] = [passing[c] EXCEPT !.state = "abandoned"])
    BY <1>1, <1>2 DEF CallAbandoned, Abandoned
<1>3. ASSUME NEW d \in WrapCalls, CallFails(d) PROVE passing'[c] = passing[c] \/ (passing[c].state \in {"open", "abandoned"} /\ passing'[c] = [passing[c] EXCEPT !.state = "failed"])
    BY <1>1, <1>3 DEF CallFails
<1>4. ASSUME NEW d \in WrapCalls, CallRecorded(d)
      PROVE  \/ passing'[c] = passing[c]
             \/ passing[c].state \in {"open", "abandoned"} /\ passing'[c] = [passing[c] EXCEPT !.state = "late"]
             \/ /\ passing[c].state \in {"open", "abandoned"} /\ passing'[c] = [passing[c] EXCEPT !.state = "recorded"]
                /\ \A w \in Wraps : w = passing[c].to => wrap[w].step # "reported"
    BY <1>1, <1>4 DEF CallRecorded
<1>5. ASSUME NEW w \in Wraps, NEW d \in WrapCalls, CallArrives(w, d)
      PROVE  \/ passing'[c] = passing[c]
             \/ /\ passing[c].state = "none" /\ wrap[w].step = "running"
                /\ \E q \in Wraps : /\ q = wrap[w].to /\ Listens(q)
                                    /\ passing'[c] = [state |-> "open", by |-> w, to |-> q]
    BY <1>1, <1>5 DEF CallArrives
<1>6. ASSUME NEW t \in Writings, Edit(t) PROVE passing'[c] = passing[c]
    BY <1>6 DEF Edit
<1>7. \A s \in {"abandoned", "recorded", "late", "failed"} :
          LET d == [passing[c] EXCEPT !.state = s]
          IN  d.by = passing[c].by /\ d.to = passing[c].to /\ d.state = s
    BY <1>1 DEF Passing
<1>8. CASE \E d \in WrapCalls : CallAbandoned(d) \/ CallRecorded(d) \/ CallFails(d)
    BY <1>2, <1>3, <1>4, <1>7, <1>8
<1>9. CASE \E w \in Wraps, d \in WrapCalls : CallArrives(w, d)
  <2>1. PICK w \in Wraps, d \in WrapCalls : CallArrives(w, d)
      BY <1>9
  <2>2. CASE /\ passing[c].state = "none" /\ wrap[w].step = "running"
             /\ \E q \in Wraps : /\ q = wrap[w].to /\ Listens(q)
                                 /\ passing'[c] = [state |-> "open", by |-> w, to |-> q]
    <3>1. PICK q \in Wraps : /\ q = wrap[w].to /\ Listens(q)
                             /\ passing'[c] = [state |-> "open", by |-> w, to |-> q]
        BY <2>2
    <3>2. passing'[c].state = "open" /\ passing'[c].by = w /\ passing'[c].to = q
        BY <3>1
    <3>3. QED
        BY <2>2, <3>1, <3>2
  <2>3. QED
      BY <1>5, <2>1, <2>2
<1>10. QED
    BY <1>6, <1>8, <1>9 DEF WrapNext

LEMMA ReportsStep ==
    ASSUME WrapTypeOK, ReportsKeep, WrapNext
    PROVE  ReportsKeep'
<1>1. CASE ~\E w \in Wraps : WrapStep(w)
  <2>1. UNCHANGED <<wrap, report>>
      BY <1>1, OthersMove
  <2>2. ASSUME NEW w \in Wraps, wrap[w].step = "reported"
        PROVE  CountedAt(w)' = CountedAt(w) /\ OpenAt(w)' = {}
    <3>1. \A c \in WrapCalls : passing[c].to = w => passing[c].state # "open"
        BY <2>2 DEF ReportsKeep, OpenAt
    <3>2. ~Listens(w)
        BY <2>2 DEF Listens
    <3>3. \A c \in WrapCalls : /\ (passing'[c].to = w /\ passing'[c].state = "recorded") = (passing[c].to = w /\ passing[c].state = "recorded")
                               /\ ~(passing'[c].to = w /\ passing'[c].state = "open")
      <4> TAKE c \in WrapCalls
      <4>1. CASE passing'[c] = passing[c]
          BY <3>1, <4>1
      <4>2. CASE passing'[c] # passing[c]
          BY <1>1, <2>2, <3>1, <3>2, <4>2, CallsGoOn
      <4>3. QED
          BY <4>1, <4>2
    <3>4. QED
        BY <3>3 DEF CountedAt, OpenAt
  <2>3. QED
      BY <2>1, <2>2 DEF ReportsKeep
<1>2. ASSUME NEW w \in Wraps, WrapStep(w) PROVE ReportsKeep'
  <2>1. \A v \in Wraps \ {w} : wrap'[v] = wrap[v]
      BY <1>2, WrapMoves
  <2>2. \A c \in WrapCalls :
          /\ passing'[c].to = passing[c].to
          /\ (passing'[c].state = "recorded") = (passing[c].state = "recorded")
          /\ passing'[c].state = "open" => passing[c].state = "open"
    <3> TAKE c \in WrapCalls
    <3>1. QED
        BY <1>2, CallsMove
  <2>3. \A v \in Wraps : CountedAt(v)' = CountedAt(v) /\ (OpenAt(v) = {} => OpenAt(v)' = {})
      BY <2>2 DEF CountedAt, OpenAt
  <2>4. CASE ServerCloses(w)
    <3>1. OpenAt(w) = {} /\ report' = [report EXCEPT ![w] = IF wrap[w].step = "closing" THEN CountedAt(w) ELSE {}]
        BY <2>4 DEF ServerCloses, Closable
    <3>2. wrap'[w].step = IF wrap[w].step = "closing" THEN "reported" ELSE "dead"
        BY <2>4 DEF ServerCloses, WrapTypeOK, Wrapping
    <3>3. report \in [Wraps -> SUBSET WrapCalls]
        BY DEF WrapTypeOK
    <3>4. \A v \in Wraps : report'[v] = IF v # w THEN report[v] ELSE IF wrap[w].step = "closing" THEN CountedAt(w) ELSE {}
        BY <3>1, <3>3
    <3>5. wrap[w].step \in {"closing", "failing"}
        BY <2>4 DEF ServerCloses
    <3>6. QED
        BY <2>1, <2>3, <3>1, <3>2, <3>4, <3>5 DEF ReportsKeep
  <2>5. CASE ~ServerCloses(w)
    <3>1. UNCHANGED report
        BY <1>2, <2>5
        DEF WrapStep, StartProxy, LaunchDirectly, ReadConfig, BackUp, WritePatched, Launch, LaunchFails,
            AgentEnds, OnSignal, Killed, Dies
    <3>2. wrap[w].step # "reported" /\ wrap'[w].step # "reported"
      <4>1. wrap \in [Wraps -> Wrapping]
          BY DEF WrapTypeOK
      <4>2. ASSUME NEW agent \in AgentNames, StartProxy(w, agent) PROVE wrap'[w].step = "listening" /\ wrap[w].step = "none"
          BY <4>1, <4>2 DEF StartProxy, NotWrapped
      <4>3. CASE LaunchDirectly(w) \/ ReadConfig(w) \/ Launch(w)
          BY <4>1, <4>3 DEF LaunchDirectly, ReadConfig, Launch, Wrapping
      <4>4. CASE BackUp(w) \/ WritePatched(w) \/ LaunchFails(w) \/ AgentEnds(w)
          BY <4>1, <4>4 DEF BackUp, WritePatched, LaunchFails, AgentEnds, Step, Wrapping, WrapTypeOK
      <4>5. CASE OnSignal(w) \/ Killed(w)
          BY <4>1, <4>5 DEF OnSignal, Killed, Dies, Listens, Wrapping
      <4>6. QED
          BY <1>2, <2>5, <4>2, <4>3, <4>4, <4>5 DEF WrapStep
    <3>3. QED
        BY <2>1, <2>3, <3>1, <3>2 DEF ReportsKeep
  <2>6. QED
      BY <2>4, <2>5
<1>3. QED
    BY <1>1, <1>2

LEMMA HoldsStep ==
    ASSUME WrapTypeOK, OneHolds, WrapNext
    PROVE  OneHolds'
<1> SUFFICES ASSUME spoilt' = {} PROVE OneHolds'
    BY DEF OneHolds
<1>1. CASE ~\E w \in Wraps : WrapStep(w)
  <2>1. UNCHANGED <<wrap, copies>>
      BY <1>1, OthersMove
  <2>2. spoilt = {}
      BY <1>1, OthersMove
  <2>3. \A c \in WrapCalls : passing'[c].state # "none" => passing'[c].by = passing'[c].to
    <3> TAKE c \in WrapCalls
    <3>1. \A w \in Wraps : wrap[w].step = "running" => wrap[w].to = w
        BY <2>2 DEF OneHolds
    <3>2. passing[c].state # "none" => passing[c].by = passing[c].to
        BY <2>2 DEF OneHolds
    <3>3. QED
        BY <1>1, <3>1, <3>2, CallsGoOn
  <2>4. CASE UNCHANGED <<config, written, spoilt>>
      BY <2>1, <2>2, <2>3, <2>4 DEF OneHolds, Holds
  <2>5. CASE /\ written' = config' /\ config'.tables = config.tables
             /\ spoilt' = spoilt \cup IF \E w \in Wraps : Holds(w) THEN {"edit"} ELSE {}
    <3>1. \A w \in Wraps : ~Holds(w)
        BY <2>5
    <3>2. config = written /\ written.tables = <<>>
        BY <2>2, <3>1 DEF OneHolds
    <3>3. \A w \in Wraps : wrap[w].step = "running" => wrap[w].to = w
        BY <2>2 DEF OneHolds
    <3>4. QED
        BY <2>1, <2>3, <2>5, <3>1, <3>2, <3>3 DEF OneHolds, Holds
  <2>6. QED
      BY <1>1, <2>4, <2>5, OthersMove
<1>2. ASSUME NEW w \in Wraps, WrapStep(w) PROVE OneHolds'
  <2>1. UNCHANGED written /\ spoilt = {}
    <3>1. spoilt \subseteq spoilt'
        BY <1>2, WrapMoves
    <3>2. QED
        BY <1>2, <3>1, SessionsWriteNot
  <2>2. /\ \A u, v \in Wraps : Holds(u) /\ Holds(v) => u = v
        /\ \A v \in Wraps : Holds(v) => wrap[v].found = written
        /\ written.tables = <<>>
        /\ \A v \in Wraps : Holds(v) /\ wrap[v].step \in {"patched", "running"} => config = PatchedFile(written, v)
        /\ (\A v \in Wraps : Holds(v) => wrap[v].step \in {"read", "saved"}) => config = written
        /\ \A v \in Wraps : wrap[v].step = "running" => wrap[v].to = v
      BY <2>1 DEF OneHolds
  <2>3. \A v \in Wraps \ {w} : wrap'[v] = wrap[v] /\ (Holds(v)' = Holds(v))
      BY <1>2, WrapMoves DEF Holds
  <2>4. \A c \in WrapCalls : passing'[c].state # "none" => passing'[c].by = passing'[c].to
    <3> TAKE c \in WrapCalls
    <3>1. passing[c].state # "none" => passing[c].by = passing[c].to
        BY <2>1 DEF OneHolds
    <3>2. QED
        BY <1>2, <3>1, CallsMove
  <2> DEFINE Fine == /\ \A u, v \in Wraps : Holds(u)' /\ Holds(v)' => u = v
                     /\ \A v \in Wraps : Holds(v)' => wrap'[v].found = written
                     /\ \A v \in Wraps : Holds(v)' /\ wrap'[v].step \in {"patched", "running"} => config' = PatchedFile(written, v)
                     /\ (\A v \in Wraps : Holds(v)' => wrap'[v].step \in {"read", "saved"}) => config' = written
                     /\ \A v \in Wraps : wrap'[v].step = "running" => wrap'[v].to = v
  <2>5. CASE wrap[w].step = "none" /\ wrap'[w].step = "listening" /\ UNCHANGED <<config, copies, spoilt>>
    <3>1. ~Holds(w) /\ ~Holds(w)'
        BY <2>5 DEF Holds
    <3>2. Fine
        BY <2>2, <2>3, <2>5, <3>1
    <3>3. QED
        BY <2>1, <2>2, <2>4, <3>2 DEF OneHolds
  <2>6. CASE /\ wrap[w].step = "listening" /\ wrap[w].agent # "codex" /\ wrap'[w].step = "running"
             /\ wrap'[w].to = w /\ UNCHANGED <<config, copies, spoilt>>
    <3>1. ~Holds(w) /\ ~Holds(w)'
        BY <1>2, <2>6, WrapMoves DEF Holds
    <3>2. Fine
        BY <2>2, <2>3, <2>6, <3>1
    <3>3. QED
        BY <2>1, <2>2, <2>4, <3>2 DEF OneHolds
  <2>7. CASE /\ wrap[w].step = "listening" /\ wrap'[w].step = "read" /\ wrap'[w].found = config
             /\ UNCHANGED <<config, copies>>
             /\ spoilt' = spoilt \cup IF \E v \in Wraps : Holds(v) THEN {"overlap"} ELSE {}
    <3>1. \A v \in Wraps : ~Holds(v)
        BY <2>7
    <3>2. config = written
        BY <2>2, <3>1
    <3>3. Fine
        BY <2>2, <2>3, <2>7, <3>1, <3>2 DEF Holds
    <3>4. QED
        BY <2>1, <2>2, <2>4, <3>3 DEF OneHolds
  <2>8. CASE /\ wrap[w].step = "read" /\ wrap'[w].step = "saved" /\ wrap'[w].found = wrap[w].found
             /\ UNCHANGED <<config, spoilt>>
    <3>1. Holds(w) /\ (\A v \in Wraps : Holds(v)' => v = w)
        BY <2>2, <2>3, <2>8 DEF Holds, WrapTypeOK
    <3>2. config = written /\ wrap[w].found = written
        BY <2>2, <2>8, <3>1
    <3>3. Fine
        BY <2>2, <2>3, <2>8, <3>1, <3>2
    <3>4. QED
        BY <2>1, <2>2, <2>4, <3>3 DEF OneHolds
  <2>9. CASE /\ wrap[w].step = "saved" /\ wrap'[w].step = "patched" /\ wrap'[w].found = wrap[w].found
             /\ config' = PatchedFile(wrap[w].found, w)
    <3>1. Holds(w) /\ (\A v \in Wraps : Holds(v)' => v = w) /\ Holds(w)'
        BY <1>2, <2>2, <2>3, <2>9, WrapMoves DEF Holds, WrapTypeOK
    <3>2. wrap[w].found = written
        BY <2>2, <3>1
    <3>3. Fine
        BY <2>2, <2>3, <2>9, <3>1, <3>2
    <3>4. QED
        BY <2>1, <2>2, <2>4, <3>3 DEF OneHolds
  <2>10. CASE /\ wrap[w].step = "patched" /\ wrap'[w].step = "running" /\ wrap'[w].found = wrap[w].found
              /\ wrap'[w].to = ProxyIn(config) /\ UNCHANGED <<config, copies, spoilt>>
    <3>1. Holds(w) /\ (\A v \in Wraps : Holds(v)' => v = w) /\ Holds(w)'
        BY <1>2, <2>2, <2>3, <2>10, WrapMoves DEF Holds, WrapTypeOK
    <3>2. wrap[w].found = written /\ config = PatchedFile(written, w)
        BY <2>2, <2>10, <3>1
    <3>3. ProxyIn(config) = w
      <4>1. Append(<<>>, w) = <<w>>
          OBVIOUS
      <4>2. config.tables = <<w>>
          BY <2>2, <3>2, <4>1 DEF PatchedFile, File
      <4>3. QED
          BY <4>2 DEF ProxyIn
    <3>4. Fine
        BY <2>2, <2>3, <2>10, <3>1, <3>2, <3>3
    <3>5. QED
        BY <2>1, <2>2, <2>4, <3>4 DEF OneHolds
  <2>11. CASE /\ wrap'[w].step \in {"closing", "failing", "reported", "dead"}
              /\ config' # config => /\ wrap[w].step = "running" /\ wrap[w].agent = "codex"
                                     /\ config' = wrap[w].found
              /\ spoilt' = {} /\ Holds(w) =>
                       (wrap[w].step \in {"read", "saved"} /\ UNCHANGED config) \/ config' = wrap[w].found
    <3>1. ~Holds(w)'
        BY <2>11 DEF Holds
    <3>2. CASE Holds(w)
      <4>1. \A v \in Wraps : ~Holds(v)'
          BY <2>2, <2>3, <3>1, <3>2
      <4>2. config' = written
        <5>1. CASE wrap[w].step \in {"read", "saved"} /\ UNCHANGED config
          <6>1. \A v \in Wraps : Holds(v) => wrap[v].step \in {"read", "saved"}
              BY <2>2, <3>2, <5>1
          <6>2. QED
              BY <2>2, <5>1, <6>1
        <5>2. QED
            BY <2>2, <2>11, <3>2, <5>1
      <4>3. Fine
          BY <2>2, <2>3, <2>11, <4>1, <4>2
      <4>4. QED
          BY <2>1, <2>2, <2>4, <4>3 DEF OneHolds
    <3>3. CASE ~Holds(w)
      <4>1. config' = config
          BY <2>11, <3>3 DEF Holds
      <4>2. Fine
          BY <2>2, <2>3, <2>11, <3>1, <3>3, <4>1
      <4>3. QED
          BY <2>1, <2>2, <2>4, <4>2 DEF OneHolds
    <3>4. QED
        BY <3>2, <3>3
  <2> HIDE DEF Fine
  <2>12. QED
      BY <1>2, <2>5, <2>6, <2>7, <2>8, <2>9, <2>10, <2>11, WrapMoves
<1>3. QED
    BY <1>1, <1>2

LEMMA WrapInvHolds == WrapInv /\ [WrapNext]_WrapVars => WrapInv'
<1> SUFFICES ASSUME WrapInv, [WrapNext]_WrapVars PROVE WrapInv'
    OBVIOUS
<1>1. CASE WrapNext
    BY <1>1, WrapTyped, CopiesStep, HoldsStep, ReportsStep DEF WrapInv
<1>2. CASE UNCHANGED WrapVars
    BY <1>2
    DEF WrapVars, WrapInv, WrapTypeOK, CopiesKeep, OneHolds, ReportsKeep, Holds, CountedAt, OpenAt
<1>3. QED
    BY <1>1, <1>2

LEMMA WrapInvTells == WrapInv => SessionsBehave
<1> SUFFICES ASSUME WrapInv PROVE SessionsBehave
    OBVIOUS
<1>1. WritingIsKept
    BY DEF WrapInv, CopiesKeep, WritingIsKept
<1>2. FileGoesBack
    BY DEF WrapInv, OneHolds, FileGoesBack
<1>3. ReportIsWhole
    BY DEF WrapInv, ReportsKeep, ReportIsWhole, CountedAt
<1>4. ReportIsOwn
  <2>1. SUFFICES ASSUME spoilt = {}, NEW w \in Wraps, NEW c \in report[w] PROVE passing[c].by = w
      BY DEF ReportIsOwn
  <2>2. c \in CountedAt(w)
      BY <2>1 DEF WrapInv, ReportsKeep
  <2>3. c \in WrapCalls /\ passing[c].state # "none" /\ passing[c].to = w
      BY <2>2 DEF CountedAt
  <2>4. QED
      BY <2>1, <2>3 DEF WrapInv, OneHolds
<1>5. QED
    BY <1>1, <1>2, <1>3, <1>4 DEF SessionsBehave

\* What a user wrote in the configuration is never lost, it is there again after an exit or a
\* handled signal when no two sessions overlapped, and a report counts each recorded call of
\* its own proxy once, for any processes, agents and calls (wrapAgents.js:94-117,
\* wrap.js:137-195).
THEOREM SessionsAlwaysBehave == WrapSpec => [](WrapTypeOK /\ SessionsBehave)
<1>1. WrapInv => WrapTypeOK /\ SessionsBehave
    BY WrapInvTells DEF WrapInv
<1>2. QED
    BY <1>1, WrapStarts, WrapInvHolds, PTL DEF WrapSpec

-----------------------------------------------------------------------------
(* All of them side by side. *)

\* A step is one of a component, and leaves the others alone.
LEMMA OneComponentMoves ==
    ASSUME [ControlNext]_AllVars
    PROVE  /\ [ShadowNext]_ShadowVars /\ [AlertNext]_AlertVars /\ [KeysNext]_KeyVars
           /\ [FxNext]_FxVars /\ [LifeNext]_LifeVars /\ [ConnNext]_ConnVars
           /\ [RegistryNext]_RegistryVars /\ [SdkNext]_SdkVars /\ [ConsoleNext]_ConsoleVars
           /\ [WrapNext]_WrapVars
<1>1. ShadowNext \/ UNCHANGED ShadowVars
    BY DEF ControlNext, AllVars
<1>2. AlertNext \/ UNCHANGED AlertVars
    BY DEF ControlNext, AllVars
<1>3. KeysNext \/ UNCHANGED KeyVars
    BY DEF ControlNext, AllVars
<1>4. FxNext \/ UNCHANGED FxVars
    BY DEF ControlNext, AllVars
<1>5. LifeNext \/ UNCHANGED LifeVars
    BY DEF ControlNext, AllVars
<1>6. ConnNext \/ UNCHANGED ConnVars
    BY DEF ControlNext, AllVars
<1>7. RegistryNext \/ UNCHANGED RegistryVars
    BY DEF ControlNext, AllVars
<1>8. SdkNext \/ UNCHANGED SdkVars
    BY DEF ControlNext, AllVars
<1>9. ConsoleNext \/ UNCHANGED ConsoleVars
    BY DEF ControlNext, AllVars
<1>10. WrapNext \/ UNCHANGED WrapVars
    BY DEF ControlNext, AllVars
<1>11. QED
    BY <1>1, <1>2, <1>3, <1>4, <1>5, <1>6, <1>7, <1>8, <1>9, <1>10

\* What is proved of each component holds of all of them side by side.
LEMMA ControlImplies ==
    ControlSpec => /\ ShadowSpec /\ AlertSpec /\ KeysSpec /\ FxSpec /\ LifeSpec /\ ConnSpec
                   /\ RegistrySpec /\ SdkSpec /\ ConsoleSpec /\ WrapSpec
<1>1. ControlInit => /\ ShadowInit /\ AlertInit /\ KeysInit /\ FxInit /\ LifeInit /\ ConnInit
                     /\ RegistryInit /\ SdkInit /\ ConsoleInit /\ WrapInit
    BY DEF ControlInit
<1>2. [ControlNext]_AllVars => /\ [ShadowNext]_ShadowVars /\ [AlertNext]_AlertVars /\ [KeysNext]_KeyVars
                               /\ [FxNext]_FxVars /\ [LifeNext]_LifeVars /\ [ConnNext]_ConnVars
                               /\ [RegistryNext]_RegistryVars /\ [SdkNext]_SdkVars
                               /\ [ConsoleNext]_ConsoleVars /\ [WrapNext]_WrapVars
    BY OneComponentMoves
<1>3. QED
    BY <1>1, <1>2, PTL DEF ControlSpec, ShadowSpec, AlertSpec, KeysSpec, FxSpec, LifeSpec, ConnSpec,
       RegistrySpec, SdkSpec, ConsoleSpec, WrapSpec

\* Campaigns, alerts, keys, credentials and wrapped agents keep to the states the code can be
\* in, for any deployment and whatever credentials end in.
THEOREM ControlTypeCorrect == ControlSpec => []ControlTypeOK
<1>1. AlertInvariant => AlertTypeOK
    BY DEF AlertInvariant, OneSender, OnceInHalfAnHour, AlertTypeOK
<1>2. AlertSpec => []AlertTypeOK
    BY <1>1, AlertInitial, AlertStep, PTL DEF AlertSpec
<1>3. KeysSpec => []KeysTypeOK
    BY KeysImplied, KeysInitial, KeysStep, PTL DEF KeysSpec
<1>4. ConnSpec => []ConnTypeOK
    BY ConnTypeCorrect, PTL
<1>5. ShadowSpec => []ShadowTypeOK
    BY ShadowTypeCorrect
<1>6. WrapSpec => []WrapTypeOK
    BY SessionsAlwaysBehave, PTL
<1>7. QED
    BY <1>2, <1>3, <1>4, <1>5, <1>6, ControlImplies, PTL DEF ControlTypeOK

\* What administrators and jobs write is kept, of models, rules, budgets and settings, for
\* any deployment (registry.js, litellm/sync.js, rules.js, governance.js, ops.js).
THEOREM DataAlwaysKept == ControlSpec => []DataIsKept
BY ControlImplies, RowsAlwaysKept, ConsoleAlwaysKeeps, PTL DEF DataIsKept

\* The client libraries and the command line behave, whatever clients, calls, processes of
\* arbr wrap, logs and prices there are.
THEOREM ClientsAlwaysBehave == ControlSpec => []ClientsBehave
<1>1. LibrariesBehave /\ SessionsBehave => ClientsBehave
    BY AuditAlwaysSound DEF ClientsBehave, CommandLineBehaves
<1>2. QED
    BY <1>1, ControlImplies, LibrariesAlwaysBehave, SessionsAlwaysBehave, PTL

\* The properties of the components hold of the run that explores them side by side, and
\* with them that keys leave for their own host alone and a live provider keeps a default.
THEOREM ControlAlwaysSafe ==
    ControlSpec => [](/\ CampaignsAreBounded /\ AlertsAreFew /\ KeysAreKept
                      /\ NothingIsLost /\ RateFitsAlone /\ KeyGoesHome /\ StaysLive
                      /\ DataIsKept /\ ClientsBehave)
BY ControlImplies, CampaignsAlwaysBounded, AlertsAlwaysFew, KeysAlwaysKept, NothingIsEverLost,
   RateFitsAlways, ConnTypeCorrect, DataAlwaysKept, ClientsAlwaysBehave, PTL
=============================================================================
