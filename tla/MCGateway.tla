------------------------------ MODULE MCGateway ------------------------------
(* What a request meets before the license logic, in one run: the HTTP       *)
(* pipeline and the verification of the token it may carry.  The two share   *)
(* no state, so a behaviour moves one of them, chosen at its start, and      *)
(* leaves the other where it began.                                          *)
EXTENDS Pipeline, MCVerifier

VARIABLE part

gatewayVars == <<part, pipeVars, verifierVars>>

GatewayInit ==
    /\ part \in {"pipeline", "verifier"}
    /\ PipeInit /\ VerifierInit
    /\ part = "verifier" => pipe = "guard"
    /\ part = "pipeline" => focus = "replay"

GatewayNext ==
    \/ part = "pipeline" /\ PipeNext /\ UNCHANGED <<part, verifierVars>>
    \/ part = "verifier" /\ VerifierNext /\ UNCHANGED <<part, pipeVars>>

GatewaySpec == GatewayInit /\ [][GatewayNext]_gatewayVars /\ PipeFairness
=============================================================================
