---------------------------- MODULE MCVerifier ----------------------------
EXTENDS Verifier

\* kid3 is bound to another algorithm than its record has, kid4 is unknown.
MCRecords  == [k \in {"kid1", "kid2", "kid3"} |-> IF k = "kid2" THEN "rs256-pss" ELSE "ed25519"]
MCBindings == [k \in {"kid1", "kid2", "kid3"} |-> IF k = "kid1" THEN "ed25519" ELSE "rs256-pss"]
HmacRecords == ("kid1" :> "hs256")

MCSkew == [p \in Procs |-> IF p = "v1" THEN 1 ELSE 0]
===========================================================================
