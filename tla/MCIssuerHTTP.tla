---------------------------- MODULE MCIssuerHTTP ---------------------------
(* IssuerHTTP on small instances; usage rows, devices and processes are    *)
(* interchangeable.                                                        *)
EXTENDS IssuerHTTP, TLC

Symmetry == Permutations(UsageIds) \cup Permutations(Fingerprints)
            \cup Permutations(Procs)
=============================================================================
