---------------------------- MODULE KeyHierarchy ----------------------------
(***************************************************************************)
(* typescript/src/key-hierarchy.ts: the key records and what its methods   *)
(* check and write, as operators on a table ks of keys.  ScopeKeys runs    *)
(* them in the issuer's transactions, KeyCli over the licensing-keys file. *)
(* Key material and signatures are abstract: an attestation is what it     *)
(* covers (root, not_after; kid, alg, public key and not_before of a key   *)
(* never change), a passphrase is right or wrong.                          *)
(***************************************************************************)
EXTENDS Naturals, FiniteSets

CONSTANTS Null,
          Kids,             \* key ids; bounds the keys ever made
          Scopes, Global,   \* Global is scope_id null
          Algs,
          Dates             \* the not_after dates an operator asks for

ASSUME KeyAssumption == /\ Global \in Scopes /\ Null \notin Kids
                        /\ Dates \subseteq Nat /\ Null \notin Nat

LicenseKey == [scope        : Scopes \cup {Null},
               alg          : Algs \cup {Null},
               role         : {"none", "root", "signing"},
               state        : {"-", "active", "retiring"},
               rotated_from : Kids \cup {Null},
               not_after    : Dates \cup {Null},
               root_kid     : Kids \cup {Null},     \* meta.root_attestation
               attested     : Dates \cup {Null}]    \* the not_after it covers

NoKey == [scope |-> Null, alg |-> Null, role |-> "none", state |-> "-",
          rotated_from |-> Null, not_after |-> Null, root_kid |-> Null,
          attested |-> Null]

Unused(ks) == {k \in Kids : ks[k].role = "none"}

----------------------------------------------------------------------------
(* Slips, as in Lifecycle.                                                 *)

linked_ToRoot(rec, from) == [rec EXCEPT !.rotated_from = rec.root_kid]
actives_None(ks, scope, alg) == {}
isRootFor_AnyScope(ks, r, scope, alg) ==
    r \in Kids /\ ks[r].role = "root" /\ ks[r].alg = alg

----------------------------------------------------------------------------
\* store.list({scope_id, alg, role: 'signing', state: 'active'})
actives(ks, scope, alg) ==
    {k \in Kids : /\ ks[k].role = "signing" /\ ks[k].state = "active"
                  /\ ks[k].scope = scope /\ ks[k].alg = alg}

\* #requireRoot
isRootFor(ks, r, scope, alg) ==
    r \in Kids /\ ks[r].role = "root" /\ ks[r].alg = alg /\ ks[r].scope = scope

\* The record generateRoot puts (nothing reads a root's not_after).
rootRecord(scope, alg) ==
    [NoKey EXCEPT !.scope = scope, !.alg = alg, !.role = "root",
                  !.state = "active"]

\* The record issueSigning puts, attested by root r.
signingRecord(scope, alg, r, not_after) ==
    [NoKey EXCEPT !.scope = scope, !.alg = alg, !.role = "signing",
                  !.state = "active", !.not_after = not_after,
                  !.root_kid = r, !.attested = not_after]

\* rotateSigning: the outgoing record.  retireAt Null: the option left out.
demoted(rec, retireAt) ==
    [rec EXCEPT !.state = "retiring",
                !.not_after = IF retireAt # Null THEN retireAt ELSE @]

\* rotateSigning: the incoming record, linked back.
linked(rec, from) == [rec EXCEPT !.rotated_from = from]

verifyAttestation(ks, k) ==
    /\ ks[k].role = "signing" /\ ks[k].root_kid # Null
    /\ ks[ks[k].root_kid].role = "root"
    /\ ks[ks[k].root_kid].alg = ks[k].alg
    /\ ks[k].attested = ks[k].not_after

----------------------------------------------------------------------------
(* What a table of keys should satisfy.                                    *)

OneActivePerScope(ks) ==
    \A j, k \in Kids :
        /\ ks[j].role = "signing" /\ ks[j].state = "active"
        /\ ks[k].role = "signing" /\ ks[k].state = "active"
        /\ ks[j].scope = ks[k].scope
        => j = k

\* A scope that has rotated still has a key to sign with.
RetiredHasSuccessor(ks) ==
    \A k \in Kids : ks[k].state = "retiring"
                      => actives(ks, ks[k].scope, ks[k].alg) # {}

AttestationsHold(ks) ==
    \A k \in Kids : ks[k].role = "signing" => verifyAttestation(ks, k)
=============================================================================
