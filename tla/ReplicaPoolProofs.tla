-------------------------- MODULE ReplicaPoolProofs --------------------------
(***************************************************************************)
(* Proofs about ReplicaPool, for every pool size, set of requests and      *)
(* timing constants.                                                       *)
(***************************************************************************)
EXTENDS ReplicaPool, FiniteSetTheorems, TLAPS

\* What the order of candidates consists of: a non-empty sequence of members,
\* as soon as one member is not draining.
LEMMA OrdersAreQueues ==
    ASSUME TypeOK, Live # {}, NEW q \in Orders
    PROVE  q \in Seq(Members) /\ q # <<>> /\ q[1] \in Members
<1>1. Live \subseteq Members
    BY DEF Live
<1>2. IsFiniteSet(Members)
    BY FS_Interval, PoolAssumption DEF Members, PoolAssumption
<1>3. IsFiniteSet(Live) /\ Cardinality(Live) \in Nat /\ Cardinality(Live) # 0
    BY <1>1, <1>2, FS_Subset, FS_CardinalityType, FS_EmptySet
<1>4. q \in [1..Cardinality(Live) -> Live]
    BY DEF Orders, SetToSeqs
<1>5. q \in Seq(Live) /\ Len(q) = Cardinality(Live)
    BY <1>3, <1>4
<1>6. QED
    BY <1>1, <1>3, <1>5

\* The health transitions stay within the bounds of the timers and counters.
LEMMA HealthTransitions ==
    ASSUME NEW h \in HealthType
    PROVE  /\ Succeeded(h) \in HealthType
           /\ Failed(h) \in HealthType
           /\ Later(h) \in HealthType
           /\ [h EXCEPT !.trial = TrialHold] \in HealthType
BY PoolAssumption
   DEF PoolAssumption, HealthType, Succeeded, Failed, Later, Less

LEMMA InitTypeOK == Init => TypeOK
BY PoolAssumption
   DEF PoolAssumption, Init, TypeOK, HealthType, RequestType, Fresh, Idle, Longest

\* A request that is not idle has a member it is at.
LEMMA CurrentIsMember ==
    ASSUME TypeOK, NEW r \in Requests, req[r].pc # "idle"
    PROVE  /\ Current(r) \in Members
           /\ req[r].queue \in Seq(Members)
           /\ Tail(req[r].queue) \in Seq(Members)
           /\ Tail(req[r].queue) # <<>> => Head(Tail(req[r].queue)) \in Members
<1>1. req[r].queue \in Seq(Members) /\ req[r].queue # <<>>
    BY DEF TypeOK, RequestType
<1>2. QED
    BY <1>1 DEF Current

LEMMA ReleaseType ==
    ASSUME TypeOK, NEW m \in Members, Release(m)
    PROVE  inFlight' \in [Members -> Nat]
BY DEF TypeOK, Release

LEMMA MoveOnType ==
    ASSUME TypeOK, NEW r \in Requests, req[r].pc # "idle", MoveOn(r)
    PROVE  /\ health' \in [Members -> HealthType]
           /\ req' \in [Requests -> RequestType]
           /\ \A s \in Requests : req'[s].pc # "idle" => req'[s].queue # <<>>
<1>1. health' \in [Members -> HealthType]
    BY CurrentIsMember, HealthTransitions DEF MoveOn, TypeOK
<1>2. req[r] \in RequestType
    BY DEF TypeOK
<1>3. CASE Tail(req[r].queue) = <<>>
    BY <1>1, <1>3 DEF MoveOn, TypeOK, RequestType, Idle
<1>4. CASE Tail(req[r].queue) # <<>>
    <2> DEFINE rest == Tail(req[r].queue)
               new == [req[r] EXCEPT !.pc = Entry(Head(rest)), !.queue = rest,
                                     !.slot = FALSE, !.trial = FALSE]
    <2>1. req' = [req EXCEPT ![r] = new]
        BY <1>4 DEF MoveOn
    <2>2. Entry(Head(rest)) \in {"probing", "passed"}
        BY DEF Entry
    <2>3. rest \in Seq(Members)
        BY CurrentIsMember
    <2>4. new \in RequestType /\ new.queue # <<>>
        BY <1>2, <1>4, <2>2, <2>3 DEF RequestType
    <2> HIDE DEF new
    <2>5. QED
        BY <1>1, <2>1, <2>4 DEF TypeOK
<1>5. QED
    BY <1>3, <1>4

LEMMA NextTypeOK == TypeOK /\ [Next]_vars => TypeOK'
<1> SUFFICES ASSUME TypeOK, [Next]_vars PROVE TypeOK'
    OBVIOUS
<1> USE DEF TypeOK
<1>1. ASSUME NEW r \in Requests, Arrive(r) PROVE TypeOK'
    <2>1. PICK q \in Orders :
            req' = [req EXCEPT ![r] =
                      [Idle EXCEPT !.pc = Entry(q[1]), !.queue = q,
                                   !.trial = (Claimed # {})]]
        BY <1>1 DEF Arrive
    <2>2. q \in Seq(Members) /\ q # <<>>
        BY <1>1, OrdersAreQueues DEF Arrive
    <2>3. [Idle EXCEPT !.pc = Entry(q[1]), !.queue = q, !.trial = (Claimed # {})]
             \in RequestType
        BY <2>2 DEF Idle, RequestType, Entry
    <2>4. req' \in [Requests -> RequestType]
        BY <2>1, <2>3
    <2>5. \A s \in Requests : req'[s].pc # "idle" => req'[s].queue # <<>>
        BY <2>1, <2>2 DEF Idle
    <2>6. health' \in [Members -> HealthType]
        BY <1>1, HealthTransitions DEF Arrive
    <2>7. sinceClaim' \in [Members -> 0..Longest]
        BY <1>1, PoolAssumption DEF Arrive, PoolAssumption, Longest
    <2>8. QED
        BY <1>1, <2>4, <2>5, <2>6, <2>7 DEF Arrive
<1>2. ASSUME NEW r \in Requests, ProbeFails(r) PROVE TypeOK'
    BY <1>2, MoveOnType DEF ProbeFails, MoveOn
<1>3. ASSUME NEW r \in Requests, Send(r) PROVE TypeOK'
    <2>1. Current(r) \in Members
        BY <1>3, CurrentIsMember DEF Send
    <2>2. inFlight' \in [Members -> Nat]
        BY <1>3, <2>1 DEF Send
    <2>3. [req[r] EXCEPT !.pc = "waiting", !.slot = TRUE] \in RequestType
        BY DEF RequestType
    <2>4. req' \in [Requests -> RequestType]
        BY <1>3, <2>3 DEF Send
    <2>5. \A s \in Requests : req'[s].pc # "idle" => req'[s].queue # <<>>
        BY <1>3 DEF Send, RequestType
    <2>6. QED
        BY <1>3, <2>2, <2>4, <2>5 DEF Send
<1>4. ASSUME NEW r \in Requests, FetchFails(r) PROVE TypeOK'
    BY <1>4, MoveOnType, CurrentIsMember, ReleaseType DEF FetchFails, MoveOn
<1>5. ASSUME NEW r \in Requests, NEW s \in {"ok", "retryable", "client_error"},
             Headers(r, s)
      PROVE TypeOK'
    <2>1. /\ [req[r] EXCEPT !.pc = "cancelling"] \in RequestType
          /\ [req[r] EXCEPT !.pc = "body", !.status = s] \in RequestType
        BY DEF RequestType
    <2>2. \/ req' = [req EXCEPT ![r] = [req[r] EXCEPT !.pc = "cancelling"]]
          \/ req' = [req EXCEPT ![r] = [req[r] EXCEPT !.pc = "body", !.status = s]]
        BY <1>5 DEF Headers
    <2>3. req' \in [Requests -> RequestType] /\ req[r].pc = "waiting"
        BY <1>5, <2>1, <2>2 DEF Headers
    <2>4. \A t \in Requests \ {r} : req'[t] = req[t]
        BY <2>2
    <2>5. req'[r].queue = req[r].queue
        BY <2>2 DEF RequestType
    <2>6. \A t \in Requests : req'[t].pc # "idle" => req'[t].queue # <<>>
        BY <2>3, <2>4, <2>5
    <2>7. QED
        BY <1>5, <2>3, <2>6 DEF Headers
<1>6. ASSUME NEW r \in Requests, Cancelled(r) PROVE TypeOK'
    BY <1>6, MoveOnType, CurrentIsMember, ReleaseType DEF Cancelled, MoveOn
<1>7. ASSUME NEW r \in Requests, BodyEnds(r) PROVE TypeOK'
    <2>1. Current(r) \in Members
        BY <1>7, CurrentIsMember DEF BodyEnds
    <2>2. health[Current(r)] \in HealthType
        BY <2>1
    <2>3. health' \in [Members -> HealthType]
        BY <1>7, <2>1, <2>2, HealthTransitions DEF BodyEnds
    <2>4. req' \in [Requests -> RequestType]
        <3> DEFINE b == req[r].trial /\ req[r].status = "client_error"
        <3>1. b \in BOOLEAN
            BY DEF RequestType
        <3>2. [req[r] EXCEPT !.pc = "closing", !.trial = b] \in RequestType
            BY <3>1 DEF RequestType
        <3>3. req' = [req EXCEPT ![r] = [req[r] EXCEPT !.pc = "closing", !.trial = b]]
            BY <1>7 DEF BodyEnds
        <3> HIDE DEF b
        <3>4. QED
            BY <3>2, <3>3
    <2>5. \A s \in Requests : req'[s].pc # "idle" => req'[s].queue # <<>>
        BY <1>7 DEF BodyEnds, RequestType
    <2>6. QED
        BY <1>7, <2>3, <2>4, <2>5 DEF BodyEnds
<1>8. ASSUME NEW r \in Requests, ResponseOver(r) PROVE TypeOK'
    <2>1. inFlight' \in [Members -> Nat]
        BY <1>8, CurrentIsMember, ReleaseType DEF ResponseOver
    <2>2. QED
        BY <1>8, <2>1 DEF ResponseOver, RequestType, Idle
<1>9. ASSUME NEW r \in Requests, ClientGone(r) PROVE TypeOK'
    <2>1. inFlight' \in [Members -> Nat]
        BY <1>9, CurrentIsMember, ReleaseType DEF ClientGone
    <2>2. req' \in [Requests -> RequestType]
        <3>1. /\ [req[r] EXCEPT !.open = FALSE] \in RequestType
              /\ [req[r] EXCEPT !.open = FALSE, !.slot = FALSE] \in RequestType
            BY DEF RequestType
        <3>2. QED
            BY <1>9, <3>1 DEF ClientGone
    <2>3. \A s \in Requests : req'[s].pc # "idle" => req'[s].queue # <<>>
        BY <1>9 DEF ClientGone, RequestType
    <2>4. departures' \in 0..MaxDepartures
        BY <1>9, PoolAssumption DEF ClientGone, PoolAssumption
    <2>5. QED
        BY <1>9, <2>1, <2>2, <2>3, <2>4 DEF ClientGone
<1>10. ASSUME NEW m \in Members, HostSettles(m) \/ Drain(m) PROVE TypeOK'
    BY <1>10 DEF HostSettles, Drain
<1>11. ASSUME Tick PROVE TypeOK'
    <2>1. health' \in [Members -> HealthType]
        BY <1>11, HealthTransitions DEF Tick
    <2>2. sinceClaim' \in [Members -> 0..Longest]
        BY <1>11, PoolAssumption DEF Tick, PoolAssumption, Longest
    <2>3. QED
        BY <1>11, <2>1, <2>2 DEF Tick
<1>12. CASE UNCHANGED vars
    BY <1>12 DEF vars
<1>13. QED
    BY <1>1, <1>2, <1>3, <1>4, <1>5, <1>6, <1>7, <1>8, <1>9, <1>10, <1>11, <1>12
    DEF Next, Serve

\* Type correctness, for every pool and every number of requests.
THEOREM TypeCorrect == Spec => []TypeOK
<1>1. QED
    BY InitTypeOK, NextTypeOK, PTL DEF Spec

-----------------------------------------------------------------------------
(* The trial and the cooldown of one member.                                *)

OneOlder(t) == IF t < Longest THEN t + 1 ELSE t

\* Everything one step can do to one member.
LEMMA MemberStep ==
    ASSUME TypeOK, [Next]_vars, NEW m \in Members
    PROVE  \/ health'[m] = health[m] /\ sinceClaim'[m] = sinceClaim[m]
           \/ health'[m] = Failed(health[m]) /\ sinceClaim'[m] = sinceClaim[m]
           \/ health'[m] = Succeeded(health[m]) /\ sinceClaim'[m] = sinceClaim[m]
           \/ health'[m] = Later(health[m]) /\ sinceClaim'[m] = OneOlder(sinceClaim[m])
           \/ /\ Recovering(health[m]) /\ health[m].trial = 0
              /\ health'[m] = [health[m] EXCEPT !.trial = TrialHold]
              /\ sinceClaim'[m] = 0
<1> DEFINE Goal ==
           \/ health'[m] = health[m] /\ sinceClaim'[m] = sinceClaim[m]
           \/ health'[m] = Failed(health[m]) /\ sinceClaim'[m] = sinceClaim[m]
           \/ health'[m] = Succeeded(health[m]) /\ sinceClaim'[m] = sinceClaim[m]
           \/ health'[m] = Later(health[m]) /\ sinceClaim'[m] = OneOlder(sinceClaim[m])
           \/ /\ Recovering(health[m]) /\ health[m].trial = 0
              /\ health'[m] = [health[m] EXCEPT !.trial = TrialHold]
              /\ sinceClaim'[m] = 0
<1>1. ASSUME NEW r \in Requests, Arrive(r) PROVE Goal
    BY <1>1 DEF Arrive, Claimed, Claimable
<1>2. ASSUME NEW r \in Requests, MoveOn(r) PROVE Goal
    BY <1>2 DEF MoveOn, TypeOK
<1>3. ASSUME NEW r \in Requests, Serve(r) PROVE Goal
    <2>1. CASE ProbeFails(r) \/ FetchFails(r) \/ Cancelled(r)
        BY <1>2, <2>1 DEF ProbeFails, FetchFails, Cancelled
    <2>2. CASE BodyEnds(r)
        BY <2>2 DEF BodyEnds, TypeOK
    <2>3. CASE Send(r) \/ ResponseOver(r)
               \/ \E s \in {"ok", "retryable", "client_error"} : Headers(r, s)
        BY <2>3 DEF Send, ResponseOver, Headers
    <2>4. QED
        BY <1>3, <2>1, <2>2, <2>3 DEF Serve
<1>4. ASSUME NEW r \in Requests, ClientGone(r) PROVE Goal
    BY <1>4 DEF ClientGone
<1>5. ASSUME NEW n \in Members, HostSettles(n) \/ Drain(n) PROVE Goal
    BY <1>5 DEF HostSettles, Drain
<1>6. CASE Tick
    BY <1>6 DEF Tick, OneOlder
<1>7. CASE UNCHANGED vars
    BY <1>7 DEF vars
<1>8. QED
    BY <1>1, <1>3, <1>4, <1>5, <1>6, <1>7 DEF Next

\* The marks on a member are consistent: no report, in any order, leaves a
\* healthy or a cooling member reserved for a trial.
THEOREM TrialsCorrect == Spec => []TrialsAreForTheRecovering
<1>1. Init => TrialsAreForTheRecovering
    BY PoolAssumption
       DEF Init, TrialsAreForTheRecovering, Fresh, Recovering, PoolAssumption
<1>2. TypeOK /\ TrialsAreForTheRecovering /\ [Next]_vars
        => TrialsAreForTheRecovering'
    <2> SUFFICES ASSUME TypeOK, TrialsAreForTheRecovering, [Next]_vars,
                        NEW m \in Members
                 PROVE  /\ health'[m].down <=> health'[m].fails >= FailThreshold
                        /\ health'[m].trial > 0 => Recovering(health'[m])
        BY DEF TrialsAreForTheRecovering
    <2>1. /\ health[m] \in HealthType
          /\ health[m].down <=> health[m].fails >= FailThreshold
          /\ health[m].trial > 0 => Recovering(health[m])
        BY DEF TypeOK, TrialsAreForTheRecovering
    <2>2. QED
        <3>1. CASE health'[m] = health[m] /\ sinceClaim'[m] = sinceClaim[m]
            BY <2>1, <3>1, PoolAssumption
            DEF HealthType, Recovering, PoolAssumption
        <3>2. CASE health'[m] = Failed(health[m]) /\ sinceClaim'[m] = sinceClaim[m]
            <4>1. ~(health'[m].trial > 0)
                BY <3>2 DEF Failed
            <4>2. health'[m].down = (health[m].down \/ health'[m].fails >= FailThreshold)
                BY <3>2 DEF Failed
            <4>3. health[m].fails >= FailThreshold => health'[m].fails >= FailThreshold
                BY <2>1, <3>2, PoolAssumption DEF Failed, HealthType, PoolAssumption
            <4>4. QED
                BY <2>1, <4>1, <4>2, <4>3
        <3>3. CASE health'[m] = Succeeded(health[m]) /\ sinceClaim'[m] = sinceClaim[m]
            BY <2>1, <3>3, PoolAssumption
            DEF Succeeded, HealthType, Recovering, PoolAssumption
        <3>4. CASE health'[m] = Later(health[m]) /\ sinceClaim'[m] = OneOlder(sinceClaim[m])
            BY <2>1, <3>4, PoolAssumption
            DEF Later, Less, OneOlder, HealthType, Recovering, PoolAssumption
        <3>5. CASE /\ Recovering(health[m]) /\ health[m].trial = 0
                  /\ health'[m] = [health[m] EXCEPT !.trial = TrialHold]
                  /\ sinceClaim'[m] = 0
            BY <2>1, <3>5, PoolAssumption
            DEF HealthType, Recovering, PoolAssumption
        <3>6. QED
            BY <3>1, <3>2, <3>3, <3>4, <3>5, MemberStep
<1>3. QED
    BY <1>1, <1>2, TypeCorrect, PTL DEF Spec

\* Why claims are spaced: a member that could be claimed has, since its last
\* claim, either used up the whole hold of that trial or a whole cooldown.
ClaimNotDue ==
    \A m \in Members :
        \/ health[m].fails < FailThreshold
        \/ health[m].cooldown + sinceClaim[m] >= Cooldown
        \/ health[m].trial + sinceClaim[m] >= TrialHold

LEMMA ClaimNotDueStep == TypeOK /\ ClaimNotDue /\ [Next]_vars => ClaimNotDue'
<1> SUFFICES ASSUME TypeOK, ClaimNotDue, [Next]_vars, NEW m \in Members
             PROVE  \/ health'[m].fails < FailThreshold
                    \/ health'[m].cooldown + sinceClaim'[m] >= Cooldown
                    \/ health'[m].trial + sinceClaim'[m] >= TrialHold
    BY DEF ClaimNotDue
<1>1. /\ health[m] \in HealthType
      /\ sinceClaim[m] \in 0..Longest
      /\ \/ health[m].fails < FailThreshold
         \/ health[m].cooldown + sinceClaim[m] >= Cooldown
         \/ health[m].trial + sinceClaim[m] >= TrialHold
    BY DEF TypeOK, ClaimNotDue
<1>2. QED
    <2>1. CASE health'[m] = health[m] /\ sinceClaim'[m] = sinceClaim[m]
        BY <1>1, <2>1, PoolAssumption
        DEF HealthType, PoolAssumption
    <2>2. CASE health'[m] = Failed(health[m]) /\ sinceClaim'[m] = sinceClaim[m]
        BY <1>1, <2>2, PoolAssumption
        DEF Failed, HealthType, PoolAssumption
    <2>3. CASE health'[m] = Succeeded(health[m]) /\ sinceClaim'[m] = sinceClaim[m]
        BY <1>1, <2>3, PoolAssumption
        DEF Succeeded, HealthType, PoolAssumption
    <2>4. CASE health'[m] = Later(health[m]) /\ sinceClaim'[m] = OneOlder(sinceClaim[m])
        BY <1>1, <2>4, PoolAssumption
        DEF Later, Less, OneOlder, HealthType, PoolAssumption, Longest
    <2>5. CASE /\ Recovering(health[m]) /\ health[m].trial = 0
              /\ health'[m] = [health[m] EXCEPT !.trial = TrialHold]
              /\ sinceClaim'[m] = 0
        BY <1>1, <2>5, PoolAssumption
        DEF HealthType, PoolAssumption
    <2>6. QED
        BY <2>1, <2>2, <2>3, <2>4, <2>5, MemberStep

\* The storm protection: two claims of one member's trial are at least a
\* cooldown or a trial hold apart, whatever stale reports arrive in between.
THEOREM ClaimsSpaced == Spec => ClaimsAreSpaced
<1>1. Init => ClaimNotDue
    BY PoolAssumption DEF Init, ClaimNotDue, Fresh, PoolAssumption
<1>2. ASSUME TypeOK, ClaimNotDue, [Next]_vars, NEW m \in Members,
             health[m].trial = 0, health'[m].trial > 0
      PROVE  sinceClaim[m] >= Cooldown \/ sinceClaim[m] >= TrialHold
    <2>1. /\ health[m] \in HealthType
          /\ sinceClaim[m] \in 0..Longest
          /\ \/ health[m].fails < FailThreshold
             \/ health[m].cooldown + sinceClaim[m] >= Cooldown
             \/ health[m].trial + sinceClaim[m] >= TrialHold
        BY <1>2 DEF TypeOK, ClaimNotDue
    <2>2. Recovering(health[m])
        <3>1. CASE health'[m] = health[m] /\ sinceClaim'[m] = sinceClaim[m]
            BY <1>2, <2>1, <3>1, PoolAssumption
            DEF HealthType, PoolAssumption
        <3>2. CASE health'[m] = Failed(health[m]) /\ sinceClaim'[m] = sinceClaim[m]
            BY <1>2, <2>1, <3>2, PoolAssumption
            DEF Failed, HealthType, PoolAssumption
        <3>3. CASE health'[m] = Succeeded(health[m]) /\ sinceClaim'[m] = sinceClaim[m]
            BY <1>2, <2>1, <3>3, PoolAssumption
            DEF Succeeded, HealthType, PoolAssumption
        <3>4. CASE health'[m] = Later(health[m]) /\ sinceClaim'[m] = OneOlder(sinceClaim[m])
            BY <1>2, <2>1, <3>4, PoolAssumption
            DEF Later, Less, OneOlder, HealthType, PoolAssumption, Longest
        <3>5. CASE /\ Recovering(health[m]) /\ health[m].trial = 0
                  /\ health'[m] = [health[m] EXCEPT !.trial = TrialHold]
                  /\ sinceClaim'[m] = 0
            BY <1>2, <2>1, <3>5, PoolAssumption
            DEF HealthType, PoolAssumption
        <3>6. QED
            BY <3>1, <3>2, <3>3, <3>4, <3>5, MemberStep, <1>2
    <2>3. QED
        BY <1>2, <2>1, <2>2, PoolAssumption DEF HealthType, Recovering, PoolAssumption
<1>3. TypeOK /\ ClaimNotDue /\ [Next]_vars
        => [\A m \in Members : health[m].trial = 0 /\ health'[m].trial > 0 =>
               sinceClaim[m] >= Cooldown \/ sinceClaim[m] >= TrialHold]_vars
    BY <1>2
<1>4. QED
    BY <1>1, <1>3, ClaimNotDueStep, TypeCorrect, PTL DEF Spec, ClaimsAreSpaced
-----------------------------------------------------------------------------
(* The in-flight counters and the slots that requests hold.                 *)

\* Where the handler of a request stands decides whether it holds a slot.
SlotsMatchProgress ==
    \A r \in Requests :
        /\ req[r].pc \in {"waiting", "cancelling"} => req[r].slot
        /\ req[r].pc \in {"body", "closing"} /\ req[r].open => req[r].slot
        /\ req[r].slot => req[r].pc \in {"waiting", "cancelling", "body", "closing"}

LEMMA HoldersFinite ==
    ASSUME NEW m
    PROVE  IsFiniteSet(Holders(m)) /\ Cardinality(Holders(m)) \in Nat
BY PoolAssumption, FS_Subset, FS_CardinalityType DEF PoolAssumption, Holders

\* Three ways a step can touch the counters, and why none of them undercounts.
\* What the departure of a client does to its request.
LEMMA ClientGoneRequest ==
    ASSUME TypeOK, NEW r \in Requests, ClientGone(r)
    PROVE  /\ req'[r].pc = req[r].pc /\ req'[r].queue = req[r].queue
           /\ req'[r].open = FALSE
           /\ req[r].pc \in {"body", "closing"} => req'[r].slot = FALSE
           /\ req[r].pc \notin {"body", "closing"} => req'[r].slot = req[r].slot
           /\ \A s \in Requests : s # r => req'[s] = req[s]
<1>1. req[r] \in RequestType
    BY DEF TypeOK
<1>2. CASE req[r].pc \in {"body", "closing"}
    <2>1. req' = [req EXCEPT ![r] = [req[r] EXCEPT !.open = FALSE, !.slot = FALSE]]
        BY <1>2 DEF ClientGone
    <2>2. req'[r] = [req[r] EXCEPT !.open = FALSE, !.slot = FALSE]
        BY <2>1 DEF TypeOK
    <2>3. QED
        BY <1>1, <1>2, <2>1, <2>2 DEF TypeOK, RequestType
<1>3. CASE req[r].pc \notin {"body", "closing"}
    <2>1. req' = [req EXCEPT ![r] = [req[r] EXCEPT !.open = FALSE]]
        BY <1>3 DEF ClientGone
    <2>2. req'[r] = [req[r] EXCEPT !.open = FALSE]
        BY <2>1 DEF TypeOK
    <2>3. QED
        BY <1>1, <1>3, <2>1, <2>2 DEF TypeOK, RequestType
<1>4. QED
    BY <1>2, <1>3

LEMMA CountKept ==
    ASSUME TypeOK, NeverUndercounted, UNCHANGED inFlight,
           \A m \in Members : Holders(m)' \subseteq Holders(m)
    PROVE  NeverUndercounted'
<1>1. ASSUME NEW m \in Members PROVE inFlight'[m] >= Cardinality(Holders(m)')
    <2>1. /\ Cardinality(Holders(m)') <= Cardinality(Holders(m))
          /\ IsFiniteSet(Holders(m)')
        BY HoldersFinite, FS_Subset
    <2>2. Cardinality(Holders(m)') \in Nat /\ Cardinality(Holders(m)) \in Nat
        BY <2>1, HoldersFinite, FS_CardinalityType
    <2>3. QED
        BY <2>1, <2>2 DEF NeverUndercounted, TypeOK
<1>2. QED
    BY <1>1 DEF NeverUndercounted

LEMMA CountReleased ==
    ASSUME TypeOK, NeverUndercounted, NEW c \in Members, NEW r \in Holders(c),
           Release(c), r \notin Holders(c)',
           \A m \in Members : Holders(m)' \subseteq Holders(m)
    PROVE  NeverUndercounted'
<1>1. ASSUME NEW m \in Members PROVE inFlight'[m] >= Cardinality(Holders(m)')
    <2>1. /\ Cardinality(Holders(m)') <= Cardinality(Holders(m))
          /\ IsFiniteSet(Holders(m)')
        BY HoldersFinite, FS_Subset
    <2>2. Cardinality(Holders(m)') \in Nat /\ Cardinality(Holders(m)) \in Nat
        BY <2>1, HoldersFinite, FS_CardinalityType
    <2>3. CASE m = c
        <3>1. /\ Holders(c)' \subseteq Holders(c) \ {r}
              /\ IsFiniteSet(Holders(c) \ {r})
              /\ Cardinality(Holders(c) \ {r}) = Cardinality(Holders(c)) - 1
            BY HoldersFinite, FS_RemoveElement
        <3>2. Cardinality(Holders(c)') <= Cardinality(Holders(c)) - 1
            BY <3>1, FS_Subset
        <3>3. inFlight[c] \in Nat /\ inFlight[c] >= Cardinality(Holders(c))
            BY DEF TypeOK, NeverUndercounted
        <3>4. inFlight'[c] = IF inFlight[c] > 0 THEN inFlight[c] - 1 ELSE 0
            BY DEF Release, TypeOK
        <3>5. QED
            BY <2>2, <2>3, <3>2, <3>3, <3>4
    <2>4. CASE m # c
        BY <2>1, <2>2, <2>4 DEF Release, NeverUndercounted, TypeOK
    <2>5. QED
        BY <2>3, <2>4
<1>2. QED
    BY <1>1 DEF NeverUndercounted

LEMMA CountTaken ==
    ASSUME TypeOK, NeverUndercounted, NEW c \in Members, NEW r \in Requests,
           inFlight' = [inFlight EXCEPT ![c] = @ + 1],
           Holders(c)' \subseteq Holders(c) \cup {r},
           \A m \in Members \ {c} : Holders(m)' \subseteq Holders(m)
    PROVE  NeverUndercounted'
<1>1. ASSUME NEW m \in Members PROVE inFlight'[m] >= Cardinality(Holders(m)')
    <2>1. CASE m = c
        <3>1. /\ IsFiniteSet(Holders(c) \cup {r})
              /\ Cardinality(Holders(c) \cup {r}) \in Nat
              /\ Cardinality(Holders(c) \cup {r}) <= Cardinality(Holders(c)) + 1
            <4>1. /\ IsFiniteSet(Holders(c)) /\ Cardinality(Holders(c)) \in Nat
                  /\ Cardinality(Holders(c) \cup {r}) =
                        IF r \in Holders(c) THEN Cardinality(Holders(c))
                                            ELSE Cardinality(Holders(c)) + 1
                BY HoldersFinite, FS_AddElement
            <4>2. QED
                BY <4>1, FS_AddElement
        <3>2. /\ Cardinality(Holders(c)') <= Cardinality(Holders(c) \cup {r})
              /\ Cardinality(Holders(c)') \in Nat
            BY <3>1, FS_Subset, FS_CardinalityType
        <3>3. /\ inFlight[c] \in Nat /\ inFlight[c] >= Cardinality(Holders(c))
              /\ inFlight'[c] = inFlight[c] + 1
            BY DEF TypeOK, NeverUndercounted
        <3>4. QED
            BY <2>1, <3>1, <3>2, <3>3, HoldersFinite
    <2>2. CASE m # c
        <3>1. /\ Cardinality(Holders(m)') <= Cardinality(Holders(m))
              /\ IsFiniteSet(Holders(m)')
            BY <2>2, HoldersFinite, FS_Subset
        <3>2. Cardinality(Holders(m)') \in Nat /\ Cardinality(Holders(m)) \in Nat
            BY <3>1, HoldersFinite, FS_CardinalityType
        <3>3. QED
            BY <2>2, <3>1, <3>2 DEF NeverUndercounted, TypeOK
    <2>3. QED
        BY <2>1, <2>2
<1>2. QED
    BY <1>1 DEF NeverUndercounted

LEMMA SlotsStep == TypeOK /\ SlotsMatchProgress /\ [Next]_vars => SlotsMatchProgress'
<1> SUFFICES ASSUME TypeOK, SlotsMatchProgress, [Next]_vars PROVE SlotsMatchProgress'
    OBVIOUS
<1> USE DEF SlotsMatchProgress
<1>1. ASSUME NEW r \in Requests, Arrive(r) PROVE SlotsMatchProgress'
    BY <1>1 DEF Arrive, Idle, Entry, TypeOK
<1>2. ASSUME NEW r \in Requests, MoveOn(r) PROVE SlotsMatchProgress'
    <2>1. /\ req'[r].pc \in {"idle", "passed", "probing"}
          /\ req'[r].slot = FALSE
        BY <1>2 DEF MoveOn, Idle, Entry, TypeOK, RequestType
    <2>2. \A s \in Requests : s # r => req'[s] = req[s]
        BY <1>2 DEF MoveOn, TypeOK
    <2>3. QED
        BY <2>1, <2>2
<1>3. ASSUME NEW r \in Requests, Serve(r) PROVE SlotsMatchProgress'
    <2>1. CASE ProbeFails(r) \/ FetchFails(r) \/ Cancelled(r)
        BY <1>2, <2>1 DEF ProbeFails, FetchFails, Cancelled
    <2>2. CASE Send(r)
        BY <2>2 DEF Send, TypeOK, RequestType
    <2>3. CASE \E s \in {"ok", "retryable", "client_error"} : Headers(r, s)
        BY <2>3 DEF Headers, TypeOK, RequestType
    <2>4. CASE BodyEnds(r)
        BY <2>4 DEF BodyEnds, TypeOK, RequestType
    <2>5. CASE ResponseOver(r)
        BY <2>5 DEF ResponseOver, TypeOK, RequestType, Idle
    <2>6. QED
        BY <1>3, <2>1, <2>2, <2>3, <2>4, <2>5 DEF Serve
<1>4. ASSUME NEW r \in Requests, ClientGone(r) PROVE SlotsMatchProgress'
    BY <1>4, ClientGoneRequest
<1>5. ASSUME NEW m \in Members, HostSettles(m) \/ Drain(m) PROVE SlotsMatchProgress'
    BY <1>5 DEF HostSettles, Drain
<1>6. CASE Tick \/ UNCHANGED vars
    BY <1>6 DEF Tick, vars
<1>7. QED
    BY <1>1, <1>3, <1>4, <1>5, <1>6 DEF Next
\* A failover gives the slot back exactly when the request holds one.
LEMMA MoveOnHolders ==
    ASSUME TypeOK, NEW r \in Requests, req[r].pc # "idle", MoveOn(r)
    PROVE  \A m : Holders(m)' = Holders(m) \ {r}
<1>1. req'[r].slot = FALSE
    BY DEF MoveOn, Idle, TypeOK, RequestType
<1>2. \A s \in Requests : s # r => req'[s] = req[s]
    BY DEF MoveOn, TypeOK
<1>3. QED
    BY <1>1, <1>2 DEF Holders, Current

LEMMA CountStep ==
    TypeOK /\ SlotsMatchProgress /\ NeverUndercounted /\ [Next]_vars
        => NeverUndercounted'
<1> SUFFICES ASSUME TypeOK, SlotsMatchProgress, NeverUndercounted, [Next]_vars
             PROVE  NeverUndercounted'
    OBVIOUS
<1>1. ASSUME NEW r \in Requests, Arrive(r) PROVE NeverUndercounted'
    <2>1. \A m : Holders(m)' \subseteq Holders(m)
        BY <1>1 DEF Arrive, Holders, Current, Idle, TypeOK
    <2>2. QED
        BY <1>1, <2>1, CountKept DEF Arrive
<1>2. ASSUME NEW r \in Requests, ProbeFails(r) PROVE NeverUndercounted'
    <2>1. \A m : Holders(m)' \subseteq Holders(m)
        BY <1>2, MoveOnHolders DEF ProbeFails
    <2>2. QED
        BY <1>2, <2>1, CountKept DEF ProbeFails
<1>3. ASSUME NEW r \in Requests, Send(r) PROVE NeverUndercounted'
    <2>1. PICK c \in Members : c = Current(r)
        BY <1>3, CurrentIsMember DEF Send
    <2>2. inFlight' = [inFlight EXCEPT ![c] = @ + 1]
        BY <1>3, <2>1 DEF Send
    <2>3. \A s \in Requests : /\ req'[s].queue = req[s].queue
                              /\ s # r => req'[s].slot = req[s].slot
        BY <1>3 DEF Send, TypeOK, RequestType
    <2>4. /\ Holders(c)' \subseteq Holders(c) \cup {r}
          /\ \A m \in Members \ {c} : Holders(m)' \subseteq Holders(m)
        BY <2>1, <2>3 DEF Holders, Current
    <2>5. QED
        BY <2>2, <2>4, CountTaken, Zenon
<1>4. ASSUME NEW r \in Requests, FetchFails(r) \/ Cancelled(r)
      PROVE  NeverUndercounted'
    <2>1. /\ req[r].pc \in {"waiting", "cancelling"}
          /\ Release(Current(r)) /\ MoveOn(r)
        BY <1>4 DEF FetchFails, Cancelled
    <2>2. Current(r) \in Members /\ r \in Holders(Current(r))
        BY <2>1, CurrentIsMember DEF SlotsMatchProgress, Holders
    <2>3. \A m : Holders(m)' = Holders(m) \ {r}
        BY <2>1, MoveOnHolders
    <2>4. QED
        BY <2>1, <2>2, <2>3, CountReleased
<1>5. ASSUME NEW r \in Requests, NEW s \in {"ok", "retryable", "client_error"},
             Headers(r, s)
      PROVE NeverUndercounted'
    <2>1. \A m : Holders(m)' \subseteq Holders(m)
        BY <1>5 DEF Headers, Holders, Current, TypeOK, RequestType
    <2>2. QED
        BY <1>5, <2>1, CountKept DEF Headers
<1>6. ASSUME NEW r \in Requests, BodyEnds(r) PROVE NeverUndercounted'
    <2>1. \A m : Holders(m)' \subseteq Holders(m)
        BY <1>6 DEF BodyEnds, Holders, Current, TypeOK, RequestType
    <2>2. QED
        BY <1>6, <2>1, CountKept DEF BodyEnds
<1>7. ASSUME NEW r \in Requests, ResponseOver(r) PROVE NeverUndercounted'
    <2>1. \A m : Holders(m)' \subseteq Holders(m) \ {r}
        BY <1>7 DEF ResponseOver, Holders, Current, TypeOK, Idle
    <2>2. CASE req[r].open /\ req[r].slot
        <3>1. Current(r) \in Members /\ r \in Holders(Current(r))
            BY <1>7, <2>2, CurrentIsMember DEF ResponseOver, Holders
        <3>2. PICK c \in Members : c = Current(r)
            BY <3>1
        <3>3. /\ r \in Holders(c) /\ r \notin Holders(c)' /\ Release(c)
              /\ \A m \in Members : Holders(m)' \subseteq Holders(m)
            BY <1>7, <2>1, <2>2, <3>1, <3>2 DEF ResponseOver
        <3>4. QED
            BY <3>3, CountReleased
    <2>3. CASE ~(req[r].open /\ req[r].slot)
        BY <1>7, <2>1, <2>3, CountKept DEF ResponseOver
    <2>4. QED
        BY <2>2, <2>3
<1>8. ASSUME NEW r \in Requests, ClientGone(r) PROVE NeverUndercounted'
    <2>1. \A m : Holders(m)' \subseteq Holders(m)
        <3>1. \A s \in Requests : /\ req'[s].queue = req[s].queue
                                  /\ req'[s].slot => req[s].slot
            BY <1>8, ClientGoneRequest
        <3>2. QED
            BY <3>1 DEF Holders, Current
    <2>2. CASE req[r].pc \in {"body", "closing"}
        <3>1. Current(r) \in Members /\ r \in Holders(Current(r))
            BY <1>8, <2>2, CurrentIsMember
            DEF ClientGone, SlotsMatchProgress, Holders
        <3>2. req'[r].slot = FALSE
            BY <1>8, <2>2, ClientGoneRequest
        <3>3. \A m : r \notin Holders(m)'
            BY <3>2 DEF Holders
        <3>4. QED
            BY <1>8, <2>1, <2>2, <3>1, <3>3, CountReleased DEF ClientGone
    <2>3. CASE req[r].pc \notin {"body", "closing"}
        BY <1>8, <2>1, <2>3, CountKept DEF ClientGone
    <2>4. QED
        BY <2>2, <2>3
<1>9. CASE \/ \E m \in Members : HostSettles(m) \/ Drain(m)
           \/ Tick \/ UNCHANGED vars
    <2>1. UNCHANGED <<inFlight, req>>
        BY <1>9 DEF HostSettles, Drain, Tick, vars
    <2>2. \A m : Holders(m)' \subseteq Holders(m)
        BY <2>1 DEF Holders, Current
    <2>3. QED
        BY <2>1, <2>2, CountKept
<1>10. QED
    BY <1>1, <1>2, <1>3, <1>4, <1>5, <1>6, <1>7, <1>8, <1>9 DEF Next, Serve

\* The load of a member is never below the number of requests that hold a slot
\* on it: the balancing may see too much load, never too little.
THEOREM NeverUndercountedAlways == Spec => []NeverUndercounted
<1>1. Init => NeverUndercounted /\ SlotsMatchProgress
    <2>1. ASSUME Init PROVE \A m : Holders(m) = {}
        BY <2>1 DEF Init, Holders, Idle
    <2>2. Init => NeverUndercounted
        BY <2>1, FS_EmptySet DEF Init, NeverUndercounted
    <2>3. Init => SlotsMatchProgress
        BY DEF Init, SlotsMatchProgress, Idle
    <2>4. QED
        BY <2>2, <2>3
<1>2. QED
    BY <1>1, SlotsStep, CountStep, TypeCorrect, PTL DEF Spec
=============================================================================
