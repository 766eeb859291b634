------------------------------ MODULE ReplicaPool ------------------------------
(***************************************************************************)
(* One pool of replicas behind POST /v1/chat/completions, in one gateway   *)
(* process: the member health kept by gateway/replicaPool.js and the       *)
(* failover loop of proxyOpenAICompat (gateway/openaiCompat.js) that reads *)
(* and updates it.  A step is one run of the event loop: what the code     *)
(* does between two awaits.                                                *)
(*                                                                         *)
(* Times are kept as the time LEFT (downUntil - now and so on, never below *)
(* zero), so the state is finite without bounding the clock.  The counter  *)
(* of consecutive failures stops at FailThreshold, the only value it is    *)
(* compared with.  The rotation that breaks ties between equally loaded    *)
(* members is a free choice.                                               *)
(***************************************************************************)
EXTENDS Integers, Sequences, FiniteSets, SequencesExt

CONSTANTS
    N,              \* number of members of the pool; ids sort like numbers
    Requests,       \* concurrent client requests; each one can be used again
    FailThreshold,  \* config.replicaFailThreshold
    Cooldown,       \* config.replicaCooldownMs, in ticks
    TrialHold,      \* TRIAL_MS, in ticks
    RecentOk,       \* RECENT_OK_MS, in ticks
    Settling,       \* bound: the members whose host ends up well for good
    Drainable,      \* bound: the members an administrator drains
    MaxDepartures   \* bound: clients that go away in one behaviour

ASSUME PoolAssumption ==
    /\ N \in Nat \ {0}
    /\ IsFiniteSet(Requests)
    /\ FailThreshold \in Nat \ {0}
    /\ Cooldown \in Nat \ {0}
    /\ TrialHold \in Nat \ {0}
    /\ RecentOk \in Nat
    /\ Settling \subseteq 1..N
    /\ Drainable \subseteq 1..N
    /\ MaxDepartures \in Nat

Members == 1..N

\* Where the history of claims stops counting.
Longest == IF Cooldown > TrialHold THEN Cooldown ELSE TrialHold

\* members.length > 1, the flag that turns on probing and the in-flight watch.
Pooled == N > 1

VARIABLES
    inFlight,     \* member -> the counter new requests are balanced on
    health,       \* member -> [fails, down, cooldown, trial, recent]
    draining,     \* member -> draining, as this process sees it
    well,         \* member -> its host answers from now on; FALSE: anything goes
    req,          \* request -> where its handler is
    departures,   \* clients gone so far
    sinceClaim    \* history: ticks since the member's trial was last claimed

vars == <<inFlight, health, draining, well, req, departures, sinceClaim>>

-----------------------------------------------------------------------------
(* Member health: entry, recovering, reportSuccess, reportFailure.          *)

Fresh == [fails |-> 0, down |-> FALSE, cooldown |-> 0, trial |-> 0, recent |-> 0]

\* "down" stands for downUntil > 0, "cooldown" for how far it is ahead of now.
Recovering(h) == h.down /\ h.cooldown = 0 /\ h.fails >= FailThreshold

Healthy(h) == h.cooldown = 0 /\ ~Recovering(h)

\* Mutant: a success that forgets to clear the failures.
Succeeded_KeepsFailures(h) == [h EXCEPT !.trial = 0, !.recent = RecentOk]

Succeeded(h) == [fails |-> 0, down |-> FALSE, cooldown |-> 0, trial |-> 0,
                 recent |-> RecentOk]

\* Mutant: a failure that leaves the trial claimed.
Failed_KeepsTrial(h) ==
    [fails |-> FailThreshold, down |-> TRUE, cooldown |-> Cooldown,
     trial |-> h.trial, recent |-> h.recent]

\* Mutant: a failed trial that does not start a fresh cooldown.
Failed_KeepsCooldown(h) ==
    [fails |-> FailThreshold, down |-> TRUE,
     cooldown |-> IF h.down THEN h.cooldown ELSE Cooldown,
     trial |-> 0, recent |-> h.recent]

Failed(h) ==
    LET fails == IF h.fails < FailThreshold THEN h.fails + 1 ELSE h.fails
        trips == fails >= FailThreshold
    IN  [fails    |-> fails,
         down     |-> h.down \/ trips,
         cooldown |-> IF trips THEN Cooldown ELSE h.cooldown,
         trial    |-> 0,
         recent   |-> h.recent]

Less(t) == IF t = 0 THEN 0 ELSE t - 1

Later(h) == [fails |-> h.fails, down |-> h.down, cooldown |-> Less(h.cooldown),
             trial |-> Less(h.trial), recent |-> Less(h.recent)]

-----------------------------------------------------------------------------
(* The order in which dispatch tries the members (order).                   *)

\* Mutant: the draining flag is not looked at.
Live_Draining == Members

Live == {m \in Members : ~draining[m]}

Claimable == {m \in Live : Recovering(health[m]) /\ health[m].trial = 0}

\* The first claimable member, in the order of the sorted ids: at most one.
Claimed == {m \in Claimable : \A n \in Claimable : m <= n}

Rank(m) == IF m \in Claimed THEN 0 ELSE IF Healthy(health[m]) THEN 1 ELSE 2

Precedes(a, b) ==
    \/ Rank(a) < Rank(b)
    \/ /\ Rank(a) = Rank(b)
       /\ Rank(a) = 1 => inFlight[a] <= inFlight[b]
       /\ Rank(a) = 2 => health[a].cooldown <= health[b].cooldown

Orders == {q \in SetToSeqs(Live) :
              \A i, j \in DOMAIN q : i < j => Precedes(q[i], q[j])}

-----------------------------------------------------------------------------
(* One request.  pc: "probing" waits for the TCP check, "passed" skips it,  *)
(* "waiting" for response headers, "cancelling" for the cancelled body of a *)
(* retryable answer, "body" for the response body, "closing" for the        *)
(* client's connection to finish.  The head of queue is the member being    *)
(* tried.  slot: this request's acquire has not been matched by a release.  *)
(* open: the client is there.  trial: it claimed the trial and has not      *)
(* reported yet (history).                                                  *)

Idle == [pc |-> "idle", queue |-> <<>>, status |-> "none", slot |-> FALSE,
         open |-> TRUE, trial |-> FALSE]

Current(r) == Head(req[r].queue)

\* reachable() answers at once for a member that answered recently, and a
\* provider that is alone in its pool is never probed.
Entry(m) == IF ~Pooled \/ health[m].recent > 0 THEN "passed" ELSE "probing"

Init ==
    /\ inFlight = [m \in Members |-> 0]
    /\ health = [m \in Members |-> Fresh]
    /\ draining = [m \in Members |-> FALSE]
    /\ well = [m \in Members |-> FALSE]
    /\ req = [r \in Requests |-> Idle]
    /\ departures = 0
    /\ sinceClaim = [m \in Members |-> Longest]

\* A request arrives: order() may claim a trial, then the first candidate is
\* entered.  With every member draining the answer is 503 and nothing changes.
Arrive(r) ==
    /\ req[r].pc = "idle"
    /\ Live # {}
    /\ \E q \in Orders :
          req' = [req EXCEPT ![r] =
                    [Idle EXCEPT !.pc = Entry(q[1]), !.queue = q,
                                 !.trial = (Claimed # {})]]
    /\ health' = [m \in Members |->
                    IF m \in Claimed THEN [health[m] EXCEPT !.trial = TrialHold]
                                     ELSE health[m]]
    /\ sinceClaim' = [m \in Members |-> IF m \in Claimed THEN 0 ELSE sinceClaim[m]]
    /\ UNCHANGED <<inFlight, draining, well, departures>>

Release(m) == inFlight' = [inFlight EXCEPT ![m] = IF @ > 0 THEN @ - 1 ELSE 0]

\* Mutant: the failover stays on the member that failed.
MoveOn_SameMember(r) ==
    /\ health' = [health EXCEPT ![Current(r)] = Failed(@)]
    /\ req' = [req EXCEPT ![r] =
                 [@ EXCEPT !.pc = "probing", !.slot = FALSE, !.trial = FALSE]]
    /\ UNCHANGED <<draining, well, departures, sinceClaim>>

\* Mutant: past the last candidate the response is finished without an answer.
MoveOn_PastTheLast(r) ==
    /\ health' = [health EXCEPT ![Current(r)] = Failed(@)]
    /\ req' = [req EXCEPT ![r] =
                 [@ EXCEPT !.pc = IF Len(req[r].queue) > 1 THEN "probing" ELSE "closing",
                           !.queue = Tail(@),
                           !.slot = FALSE, !.trial = FALSE]]
    /\ UNCHANGED <<draining, well, departures, sinceClaim>>

\* The current member failed before anything reached the client: report it
\* and enter the next candidate, or answer 502 when it was the last.
MoveOn(r) ==
    LET rest == Tail(req[r].queue)
    IN  /\ health' = [health EXCEPT ![Current(r)] = Failed(@)]
        /\ req' = [req EXCEPT ![r] =
                     IF rest = <<>> THEN Idle
                     ELSE [@ EXCEPT !.pc = Entry(Head(rest)), !.queue = rest,
                                    !.slot = FALSE, !.trial = FALSE]]
        /\ UNCHANGED <<draining, well, departures, sinceClaim>>

ProbeFails(r) ==
    /\ req[r].pc = "probing"
    /\ ~well[Current(r)]
    /\ MoveOn(r)
    /\ UNCHANGED inFlight

Send(r) ==
    /\ req[r].pc \in {"probing", "passed"}
    /\ inFlight' = [inFlight EXCEPT ![Current(r)] = @ + 1]
    /\ req' = [req EXCEPT ![r] = [@ EXCEPT !.pc = "waiting", !.slot = TRUE]]
    /\ UNCHANGED <<health, draining, well, departures, sinceClaim>>

\* fetch rejects: a connection error, or the in-flight watch aborted it.
FetchFails(r) ==
    /\ req[r].pc = "waiting"
    /\ ~well[Current(r)]
    /\ Release(Current(r))
    /\ MoveOn(r)

\* Response headers arrive.  The last candidate's answer is relayed whatever
\* it is; from here on the listeners on the client's response are in place.
Headers(r, status) ==
    /\ req[r].pc = "waiting"
    /\ status = "retryable" => ~well[Current(r)]
    /\ req' = [req EXCEPT ![r] =
                 IF status = "retryable" /\ Len(@.queue) > 1
                 THEN [@ EXCEPT !.pc = "cancelling"]
                 ELSE [@ EXCEPT !.pc = "body", !.status = status]]
    /\ UNCHANGED <<inFlight, health, draining, well, departures, sinceClaim>>

Cancelled(r) ==
    /\ req[r].pc = "cancelling"
    /\ Release(Current(r))
    /\ MoveOn(r)

\* The body is complete, broken off or unreadable.  A client error (4xx other
\* than 429) is reported neither as a success nor as a failure.
BodyEnds(r) ==
    /\ req[r].pc = "body"
    /\ \/ /\ req[r].status = "ok"
          /\ health' = [health EXCEPT ![Current(r)] = Succeeded(@)]
       \/ /\ \/ req[r].status = "retryable"
             \/ req[r].status = "ok" /\ ~well[Current(r)]
          /\ health' = [health EXCEPT ![Current(r)] = Failed(@)]
       \/ /\ req[r].status = "client_error"
          /\ UNCHANGED health
    /\ req' = [req EXCEPT ![r] =
                 [@ EXCEPT !.pc = "closing",
                           !.trial = req[r].trial /\ req[r].status = "client_error"]]
    /\ UNCHANGED <<inFlight, draining, well, departures, sinceClaim>>

\* Mutant: both listeners release the slot (no "released" flag).
ResponseOver_ReleasesTwice(r) ==
    /\ req[r].pc = "closing"
    /\ Release(Current(r))
    /\ req' = [req EXCEPT ![r] = Idle]
    /\ UNCHANGED <<health, draining, well, departures, sinceClaim>>

\* The response has ended.  "finish" releases the slot; on a connection that
\* was destroyed it is never emitted, and "close" has been emitted already.
ResponseOver(r) ==
    /\ req[r].pc = "closing"
    /\ IF req[r].open /\ req[r].slot THEN Release(Current(r)) ELSE UNCHANGED inFlight
    /\ req' = [req EXCEPT ![r] = Idle]
    /\ UNCHANGED <<health, draining, well, departures, sinceClaim>>

\* The client goes away: "close" is emitted once, now, and is heard only when
\* the listeners are in place.  The handler itself carries on.
ClientGone(r) ==
    /\ req[r].pc # "idle"
    /\ req[r].open
    /\ departures < MaxDepartures
    /\ departures' = departures + 1
    /\ IF req[r].pc \in {"body", "closing"}
       THEN /\ Release(Current(r))
            /\ req' = [req EXCEPT ![r] = [@ EXCEPT !.open = FALSE, !.slot = FALSE]]
       ELSE /\ UNCHANGED inFlight
            /\ req' = [req EXCEPT ![r] = [@ EXCEPT !.open = FALSE]]
    /\ UNCHANGED <<health, draining, well, sinceClaim>>

-----------------------------------------------------------------------------
(* The surroundings: hosts, the administrator's drain switch, time.         *)

\* While a host is not known to be well it may answer, fail, overload or drop
\* off the network at every step; the step below ends that for good.
HostSettles(m) ==
    /\ m \in Settling
    /\ ~well[m]
    /\ well' = [well EXCEPT ![m] = TRUE]
    /\ UNCHANGED <<inFlight, health, draining, req, departures, sinceClaim>>

Drain(m) ==
    /\ m \in Drainable
    /\ draining' = [draining EXCEPT ![m] = ~@]
    /\ UNCHANGED <<inFlight, health, well, req, departures, sinceClaim>>

Tick ==
    /\ health' = [m \in Members |-> Later(health[m])]
    /\ sinceClaim' = [m \in Members |->
                        IF sinceClaim[m] < Longest
                        THEN sinceClaim[m] + 1 ELSE sinceClaim[m]]
    /\ UNCHANGED <<inFlight, draining, well, req, departures>>

\* What the handler of r does by itself once the request has arrived.
Serve(r) ==
    \/ ProbeFails(r)
    \/ Send(r)
    \/ FetchFails(r)
    \/ \E s \in {"ok", "retryable", "client_error"} : Headers(r, s)
    \/ Cancelled(r)
    \/ BodyEnds(r)
    \/ ResponseOver(r)

Next ==
    \/ \E r \in Requests : Arrive(r) \/ Serve(r) \/ ClientGone(r)
    \/ \E m \in Members : HostSettles(m) \/ Drain(m)
    \/ Tick

Spec == Init /\ [][Next]_vars

\* The handler always goes on: the probe has a timeout, the watch or fetch's
\* own limit ends a fetch, and a body that stalls is ended by the HTTP client.
\* Time passes, requests keep coming, and not every request sent to a healthy
\* host for ever is malformed.
Fairness ==
    /\ WF_vars(Tick)
    /\ \A r \in Requests : WF_vars(Serve(r)) /\ WF_vars(Arrive(r))
    /\ \A m \in Members :
          SF_vars(\E r \in Requests : Headers(r, "ok") /\ Current(r) = m /\ well[m])

FairSpec == Spec /\ Fairness

-----------------------------------------------------------------------------
(* Properties.                                                              *)

Holders(m) == {r \in Requests : req[r].slot /\ Current(r) = m}

HealthType == [fails : 0..FailThreshold, down : BOOLEAN, cooldown : 0..Cooldown,
               trial : 0..TrialHold, recent : 0..RecentOk]

RequestType ==
    [pc : {"idle", "probing", "passed", "waiting", "cancelling", "body", "closing"},
     queue : Seq(Members),
     status : {"none", "ok", "retryable", "client_error"},
     slot : BOOLEAN, open : BOOLEAN, trial : BOOLEAN]

\* Every variable stays in its type, and only an idle handler has no member.
TypeOK ==
    /\ inFlight \in [Members -> Nat]
    /\ health \in [Members -> HealthType]
    /\ draining \in [Members -> BOOLEAN]
    /\ well \in [Members -> BOOLEAN]
    /\ req \in [Requests -> RequestType]
    /\ \A r \in Requests : req[r].pc # "idle" => req[r].queue # <<>>
    /\ departures \in 0..MaxDepartures
    /\ sinceClaim \in [Members -> 0..Longest]

\* The load a member is balanced on never falls below the number of requests
\* that hold a slot on it, whatever the order of failovers, responses and
\* clients going away: the clamp at zero in release() is never needed.
NeverUndercounted ==
    \A m \in Members : inFlight[m] >= Cardinality(Holders(m))

\* A member carries a cooldown mark exactly while it has FailThreshold
\* consecutive failures, and a trial is held only for a recovering member:
\* no report, in any order, leaves a healthy or a cooling member reserved.
TrialsAreForTheRecovering ==
    \A m \in Members :
        /\ health[m].down <=> health[m].fails >= FailThreshold
        /\ health[m].trial > 0 => Recovering(health[m])

\* The storm protection of the half-open state: the trial of one member is
\* never claimed twice within both the cooldown and the trial's time limit,
\* even when stale reports of older requests clear the first claim.
ClaimsAreSpaced ==
    [][\A m \in Members : health[m].trial = 0 /\ health'[m].trial > 0 =>
          sinceClaim[m] >= Cooldown \/ sinceClaim[m] >= TrialHold]_vars

\* A request is always answered, however its members fail (the caller never
\* waits for ever in the failover loop).
RequestsEnd ==
    \A r \in Requests : []<>(req[r].pc = "idle")

\* Once every host stays well, no member is left out for ever: each comes
\* back as healthy again and again, unless it is being drained.
MembersComeBack ==
    (\A n \in Members : <>[]well[n]) =>
        \A m \in Members : []<>(Healthy(health[m]) \/ draining[m])

\* Draining a member for good empties it: in the end no request is waiting
\* for it or streaming from it.
DrainEmpties ==
    \A m \in Members :
        <>[]draining[m] =>
            <>[](\A r \in Requests :
                    req[r].pc \in {"waiting", "cancelling", "body"} => Current(r) # m)
=============================================================================
