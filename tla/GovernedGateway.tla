--------------------------- MODULE GovernedGateway ---------------------------
(* What the gateway promises about the model that answers, whatever decides  *)
(* and overrides on the way: a request is refused, or it is answered by a    *)
(* model its key may reach (or the answer is flagged), its application has    *)
(* not opted out of (unless the default itself is opted out) and that can see *)
(* its image (unless the client named a model). docs/routing-spec.md.         *)
EXTENDS Deployment

CONSTANTS Models, Vision

VARIABLES pending,   \* what the request under way is entitled to
          answer     \* the last answer given

Gateway == <<pending, answer>>

NothingPending == [open |-> FALSE]
NoAnswer == [status |-> "none"]

GatewayInit == pending = NothingPending /\ answer = NoAnswer

\* A request comes with the sets of its key and application, and a standing default.
Take ==
    /\ ~pending.open
    /\ pending' \in [open : {TRUE}, allowed : SUBSET Models, optOut : SUBSET Models,
                     standing : Models, image : BOOLEAN, named : BOOLEAN]
    /\ answer' = NoAnswer

\* No model answers: refused, blocked or failed.
Refuse ==
    /\ pending.open
    /\ pending' = NothingPending
    /\ answer' \in [status : {"none", "blocked", "failure"}]

Entitled(m, flagged) ==
    /\ pending.allowed = {} \/ m \in pending.allowed \/ flagged
    /\ m \in pending.optOut => pending.standing \in pending.optOut
    /\ pending.image /\ ~pending.named => m \in Vision

Serve ==
    /\ pending.open
    /\ pending' = NothingPending
    /\ answer' \in [status : {"success"}, model : Models, flagged : BOOLEAN]
    /\ Entitled(answer'.model, answer'.flagged)

GatewayNext == Take \/ Refuse \/ Serve

GatewaySpec == GatewayInit /\ [][GatewayNext]_Gateway
=============================================================================
