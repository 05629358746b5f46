---------------------------- MODULE MCLicensing ----------------------------
(* Licensing on a small instance; rows and devices are interchangeable.    *)
EXTENDS Licensing, TLC

Symmetry == Permutations(UsageIds) \cup Permutations(Fingerprints)
=============================================================================
