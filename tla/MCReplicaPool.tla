---------------------------- MODULE MCReplicaPool ----------------------------
(* Model checking of ReplicaPool, and what the repository says of a slot and *)
(* the run finds violated.                                                   *)
EXTENDS ReplicaPool, TLC

Symmetry == Permutations(Requests)

\* openaiCompat.js:257 says a slot is held "until the client's response is
\* over, whether it completed or the client went away": with no request under
\* way, no slot is held.
SlotsReturned ==
    (\A r \in Requests : req[r].pc = "idle") => \A m \in Members : inFlight[m] = 0

\* For liveness: either no client leaves and every host may fail until it
\* settles, or all hosts are well and clients may leave.
LiveInit ==
    /\ inFlight = [m \in Members |-> 0]
    /\ health = [m \in Members |-> Fresh]
    /\ draining = [m \in Members |-> FALSE]
    /\ req = [r \in Requests |-> Idle]
    /\ sinceClaim = [m \in Members |-> Longest]
    /\ \/ departures = MaxDepartures /\ well = [m \in Members |-> FALSE]
       \/ departures = 0 /\ well = [m \in Members |-> TRUE]

LiveSpec == LiveInit /\ [][Next]_vars /\ Fairness
=============================================================================
