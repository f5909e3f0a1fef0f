--------------------------- MODULE MCPaymentLive ---------------------------
(***************************************************************************)
(* Three deployments of PaymentExecutor in one graph, for the properties   *)
(* that need fairness: the one the configuration describes, a provider     *)
(* without idempotent create with a worker of another provider in the      *)
(* pool; a provider with idempotent create; and two workers under the same *)
(* default worker id. Which one is deployed never changes.                 *)
(***************************************************************************)
EXTENDS PaymentExecutor

VARIABLE deployment

all == <<deployment, vars>>

Retried == INSTANCE PaymentExecutor WITH
    Routed <- Workers, Idempotent <- TRUE, MaxFaults <- 0, MaxLapses <- 0

Shared == INSTANCE PaymentExecutor WITH
    Routed <- Workers, SharedWorkerId <- TRUE, MaxFaults <- 0

DeployedInit ==
    \/ deployment = "mixed" /\ Init
    \/ deployment = "retried" /\ Retried!Init
    \/ deployment = "shared" /\ Shared!Init

DeployedNext ==
    /\ UNCHANGED deployment
    /\ \/ deployment = "mixed" /\ Next
       \/ deployment = "retried" /\ Retried!Next
       \/ deployment = "shared" /\ Shared!Next

(* The fairness of LiveSpec, in each deployment, and of ProviderAnswers in *)
(* the one that retries a create.                                          *)
DeployedStep(w) ==
    /\ UNCHANGED deployment
    /\ \/ deployment = "mixed" /\ Step(w)
       \/ deployment = "retried" /\ Retried!Step(w)
       \/ deployment = "shared" /\ Shared!Step(w)

Abandoned(e) ==
    /\ UNCHANGED deployment
    /\ \/ deployment = "mixed" /\ ~Held(e) /\ LeaseLapses(e)
       \/ deployment = "retried" /\ ~Retried!Held(e) /\ Retried!LeaseLapses(e)
       \/ deployment = "shared" /\ ~Shared!Held(e) /\ Shared!LeaseLapses(e)

DeployedSpec ==
    /\ DeployedInit /\ [][DeployedNext]_all
    /\ \A w \in Workers : WF_all(DeployedStep(w))
    /\ \A e \in Events : WF_all(Abandoned(e))
    /\ \A w \in Workers :
        /\ SF_all(/\ deployment = "retried" /\ UNCHANGED deployment /\ worker[w].pc = "preflight"
                  /\ Retried!get_payment(w) /\ worker'[w].answer.kind # "error")
        /\ SF_all(/\ deployment = "retried" /\ UNCHANGED deployment /\ Retried!create_payment(w)
                  /\ worker'[w].answer.kind = "ok")
=============================================================================
