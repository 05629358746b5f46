------------------------------- MODULE MCKeys -------------------------------
(* The keys of an issuer's database and those of a licensing-keys file, in   *)
(* one run: both are built from KeyHierarchy and share nothing else, so a    *)
(* behaviour moves one of them, chosen at its start.                         *)
EXTENDS ScopeKeys, KeyCli, TLC

VARIABLE site

Symmetry == Permutations(Kids) \cup Permutations(Procs)

KeysInit == site \in {"database", "file"} /\ Init /\ CliInit

KeysNext == \/ site = "database" /\ Next /\ UNCHANGED <<site, cliVars>>
            \/ site = "file" /\ CliNext /\ UNCHANGED <<site, vars>>

KeysSpec == KeysInit /\ [][KeysNext]_<<site, vars, cliVars>>
=============================================================================
