----------------------------- MODULE Lifecycle -------------------------------
(* One server process from its boot to its exit: readiness as a balancer polls *)
(* it, requests and realtime sessions with the records that are written after   *)
(* them, and the shutdown that a signal begins.                                 *)
(* src/server/src: index.js, health/readiness.js, gateway/wsAuth.js,            *)
(* gateway/realtimeProxy.js, logging/logger.js.                                  *)
EXTENDS Deployment

CONSTANTS Requests,  \* connections with an HTTP request
          Sessions,  \* realtime sessions
          Grace,     \* READINESS_GRACE_MS, in units of time
          ForceAfter \* SHUTDOWN_FORCE_MS; a unit is more than SHUTDOWN_DRAIN_MS

\* The grace period gives the balancer the time for a poll (index.js:330-340), and exit
\* codes are values.
ASSUME LifeAssumption == Grace \in Nat /\ Grace >= 2 /\ ForceAfter \in Nat /\ None \notin {0, 1}

VARIABLES phase,    \* where start() or shutdown() has come to
          waited,    \* time since the signal
          left,     \* time left of the timeout that shutdown() awaits
          exit,     \* exit code, or None
          routed,   \* whether the balancer sends traffic here
          polled,   \* whether it has polled in this unit of time
          served,  \* "none", "answering", "writing" its record or "done"
          realtime, \* realtime sessions
          lost      \* records whose write was under way when the store was disconnected

LifeVars == <<phase, waited, left, exit, routed, polled, served, realtime, lost>>

NoSession == [client |-> "none", upstream |-> "none", torn |-> FALSE, writes |-> 0, written |-> 0]

LifeInit ==
    /\ phase = "boot" /\ waited = 0 /\ left = 0 /\ exit = None
    /\ routed = FALSE /\ polled = FALSE
    /\ served = [r \in Requests |-> "none"]
    /\ realtime = [s \in Sessions |-> NoSession]
    /\ lost = 0

Listening == phase \in {"serving", "grace"}
Connected == Listening \/ phase \in {"closing", "drain"}

-----------------------------------------------------------------------------
(* Boot and readiness. *)

\* start(): secrets, store, registry and migrations, forced keys, background jobs, and only
\* then the server listens.
Boot ==
    /\ phase = "boot"
    /\ phase' = "serving"
    /\ UNCHANGED <<waited, left, exit, routed, polled, served, realtime, lost>>

\* Any step of start() throws: nothing has listened yet.
BootFails ==
    /\ phase = "boot"
    /\ phase' = "ended" /\ exit' = 1
    /\ UNCHANGED <<waited, left, routed, polled, served, realtime, lost>>

\* Mutant: a process that drains reports not ready when it stops listening.
Ready_Late == Listening

\* GET /health/ready; the store stays connected until the end.
Ready == phase = "serving"

\* External: the balancer polls once in every unit of time, and a poll that nobody
\* answers takes this process out as well.
Poll ==
    /\ ~polled /\ exit = None
    /\ polled' = TRUE /\ routed' = Ready
    /\ UNCHANGED <<phase, waited, left, exit, served, realtime, lost>>

-----------------------------------------------------------------------------
(* Requests and realtime sessions; each leaves a record behind. *)

TakeRequest(r) ==
    /\ routed /\ Listening /\ served[r] = "none"
    /\ served' = [served EXCEPT ![r] = "answering"]
    /\ UNCHANGED <<phase, waited, left, exit, routed, polled, realtime, lost>>

\* The response is sent; its record is written from a detached callback.
Respond(r) ==
    /\ Connected /\ served[r] = "answering"
    /\ served' = [served EXCEPT ![r] = "writing"]
    /\ UNCHANGED <<phase, waited, left, exit, routed, polled, realtime, lost>>

\* logger.write(), which also swallows a failure.
Record(r) ==
    /\ Connected /\ served[r] = "writing"
    /\ served' = [served EXCEPT ![r] = "done"]
    /\ UNCHANGED <<phase, waited, left, exit, routed, polled, realtime, lost>>

\* handleUpgrade() and handleRealtimeSession(), once a credential is found.
Upgrade(s) ==
    /\ routed /\ Listening /\ realtime[s] = NoSession
    /\ realtime' = [realtime EXCEPT ![s].client = "open", ![s].upstream = "open"]
    /\ UNCHANGED <<phase, waited, left, exit, routed, polled, served, lost>>

Closing(end) == IF end = "open" THEN "closing" ELSE end

\* Mutant: every close event tears the session down.
Teardown_Again(session) ==
    [session EXCEPT !.torn = TRUE, !.client = Closing(@), !.upstream = Closing(@), !.writes = @ + 1]

\* teardown(): both ends are closed and one record is written, once.
Teardown(session) ==
    IF session.torn THEN session
    ELSE [session EXCEPT !.torn = TRUE, !.client = Closing(@), !.upstream = Closing(@), !.writes = @ + 1]

\* The close event of an end: the peer has gone, or has answered the close of this side.
EndCloses(s, end) ==
    /\ realtime[s][end] \in {"open", "closing"} /\ exit = None
    /\ realtime' = [realtime EXCEPT ![s] = Teardown([@ EXCEPT ![end] = "closed"])]
    /\ UNCHANGED <<phase, waited, left, exit, routed, polled, served, lost>>

\* An error on either end comes before its close event.
EndFails(s, end) ==
    /\ realtime[s][end] = "open" /\ exit = None
    /\ realtime' = [realtime EXCEPT ![s] = Teardown(@)]
    /\ UNCHANGED <<phase, waited, left, exit, routed, polled, served, lost>>

RecordSession(s) ==
    /\ Connected /\ realtime[s].writes > realtime[s].written
    /\ realtime' = [realtime EXCEPT ![s].written = @ + 1]
    /\ UNCHANGED <<phase, waited, left, exit, routed, polled, served, lost>>

ClientLeaves(session) ==
    session.client = "closed" /\ session.upstream = "closed" /\ session.writes = session.written

-----------------------------------------------------------------------------
(* shutdown(), which a second signal does not enter again. *)

Signal ==
    /\ phase = "serving"
    /\ phase' = "grace" /\ left' = Grace
    /\ UNCHANGED <<waited, exit, routed, polled, served, realtime, lost>>

\* The grace period is over: server.close().
StopListening ==
    /\ phase = "grace" /\ left = 0
    /\ phase' = "closing"
    /\ UNCHANGED <<waited, left, exit, routed, polled, served, realtime, lost>>

AllEnded ==
    /\ \A r \in Requests : served[r] # "answering"
    /\ \A s \in Sessions : realtime[s].client \in {"none", "closed"}

\* Mutant: once the last response is out the process tears down.
Closed_AtOnce ==
    /\ phase = "closing" /\ AllEnded
    /\ phase' = "drain" /\ left' = 0
    /\ UNCHANGED <<waited, exit, routed, polled, served, realtime, lost>>

\* The callback of server.close(): the last connection has ended, those that were upgraded
\* to a realtime session among them. Then closeRealtimeSessions(), and the drain window.
Closed ==
    /\ phase = "closing" /\ AllEnded
    /\ phase' = "drain" /\ left' = 1
    /\ UNCHANGED <<waited, exit, routed, polled, served, realtime, lost>>

Unwritten == {r \in Requests : served[r] = "writing"}
             \cup {s \in Sessions : realtime[s].writes > realtime[s].written}

\* Background jobs stop, telemetry is flushed, the store is disconnected: process.exit(0).
LeaveStore ==
    /\ phase = "drain" /\ left = 0
    /\ phase' = "ended" /\ exit' = 0
    /\ lost' = Cardinality(Unwritten)
    /\ UNCHANGED <<waited, left, routed, polled, served, realtime>>

\* Mutant: the timer is cleared with the first await.
ForceExit_Never == FALSE /\ UNCHANGED LifeVars

\* The force timer: process.exit(1).
ForceExit ==
    /\ waited = ForceAfter /\ exit = None
    /\ phase' = "ended" /\ exit' = 1
    /\ UNCHANGED <<waited, left, routed, polled, served, realtime, lost>>

\* A unit of time: the balancer has polled, due timers and callbacks have run, and the store
\* has taken the writes of the unit before; the next ones may come.
TimePasses ==
    /\ phase # "boot" /\ exit = None
    /\ polled /\ Unwritten = {}
    /\ phase \in {"grace", "drain"} => left > 0
    /\ ~(phase = "closing" /\ AllEnded)
    /\ polled' = FALSE
    /\ waited' = IF phase = "serving" \/ waited = ForceAfter THEN waited ELSE waited + 1
    /\ left' = IF left > 0 THEN left - 1 ELSE 0
    /\ served' = [r \in Requests |-> IF served[r] = "done" THEN "none" ELSE served[r]]
    /\ realtime' = [s \in Sessions |-> IF ClientLeaves(realtime[s]) THEN NoSession ELSE realtime[s]]
    /\ UNCHANGED <<phase, exit, routed, lost>>

\* External: the orchestrator starts the process again.
Restart ==
    /\ exit # None
    /\ phase' = "boot" /\ waited' = 0 /\ left' = 0 /\ exit' = None
    /\ routed' = FALSE /\ polled' = FALSE
    /\ served' = [r \in Requests |-> "none"]
    /\ realtime' = [s \in Sessions |-> NoSession]
    /\ lost' = 0

-----------------------------------------------------------------------------
Shutdown == StopListening \/ Closed \/ LeaveStore \/ ForceExit

LifeNext ==
    \/ Boot \/ BootFails \/ Poll \/ Signal \/ Shutdown \/ TimePasses \/ Restart
    \/ \E r \in Requests : TakeRequest(r) \/ Respond(r) \/ Record(r)
    \/ \E s \in Sessions : Upgrade(s) \/ RecordSession(s)
    \/ \E s \in Sessions, end \in {"client", "upstream"} : EndCloses(s, end) \/ EndFails(s, end)

LifeSpec == LifeInit /\ [][LifeNext]_LifeVars

-----------------------------------------------------------------------------
(* Properties. *)

\* A clean exit loses no record of a request or session that ended before it: the drain
\* window is longer than a write takes (index.js:322-327, 361-375).
RecordsLand == exit = 0 => lost = 0

\* By the time the process stops listening the balancer has learnt that it drains, and
\* sends nobody to a closed port (index.js:330-334, 353-358).
NobodyIsRefused == phase \in {"closing", "drain"} => ~routed

\* A realtime session leaves one record, whichever of its ends closes or fails first, and
\* although closing one end brings the close event of the other (realtimeProxy.js:89-118).
SessionRecordedOnce == \A s \in Sessions : realtime[s].writes <= 1

\* The shutdown ends the realtime sessions itself, "or they hold the process open until the
\* force-exit timer" (wsAuth.js:43-44, index.js:368-369): a process is forced out only while
\* a response is still being made.
ForcedOnlyByRequests ==
    exit = 1 /\ waited = ForceAfter => \E r \in Requests : served[r] = "answering"

\* A signal ends the process, whatever its requests do (index.js:345-349).
SignalEnds == phase = "grace" ~> exit # None

\* A shutdown loses no record, refuses no request that the balancer sends, and counts no
\* session twice (index.js, realtimeProxy.js).
NothingIsLost == RecordsLand /\ NobodyIsRefused /\ SessionRecordedOnce
=============================================================================
