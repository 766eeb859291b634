----------------------------- MODULE Deployment ------------------------------
(* What the modules of the control plane share: the server processes that    *)
(* work on one document store, and how a Mongoose document is saved.         *)
EXTENDS Naturals, Sequences, FiniteSets

CONSTANTS Processes,     \* server processes
          None           \* no value

ASSUME DeploymentAssumption == IsFiniteSet(Processes) /\ Processes # {}

\* doc.save(): only the paths that were changed since the document was read are
\* written, over whatever the store holds by then.
Saved(stored, read, changed) ==
    [f \in DOMAIN stored |-> IF changed[f] # read[f] THEN changed[f] ELSE stored[f]]
=============================================================================
