------------------------------ MODULE ScopeKeys ------------------------------
(***************************************************************************)
(* The issuer's keys: generateRootKey, issueInitialSigningKey and          *)
(* rotateSigningKey of typescript/src/scope-service.ts (one withTransaction*)
(* each: it commits whole or not at all), the key routes of                *)
(* admin-handlers.ts, which look a root up first, and the key half of      *)
(* issueToken, which looks a signer up and signs with the record it read.  *)
(***************************************************************************)
EXTENDS KeyHierarchy

CONSTANTS Procs,            \* requests in flight together
          MaxTime           \* bound on the clock

ASSUME ClockAssumption == MaxTime \in Nat

VARIABLES now, keys,
          req,              \* per process: the request it serves
          tokens            \* [kid, scope] of the tokens issued

vars == <<now, keys, req, tokens>>

Request == [op    : {"idle", "create", "rotate", "issueToken"},
            scope : Scopes \cup {Null},
            alg   : Algs \cup {Null},
            root  : Kids \cup {Null},
            kid   : Kids \cup {Null},
            not_after : Dates \cup {Null}]
Idle == [op |-> "idle", scope |-> Null, alg |-> Null, root |-> Null,
         kid |-> Null, not_after |-> Null]

----------------------------------------------------------------------------
(* Slips, as in Lifecycle.                                                 *)

createKeyAllows_PerAlg(ks, rec) ==
    actives(ks, rec.scope, rec.alg) = {}
failed_KeepsDemotion(p) ==
    /\ keys' = [k \in Kids |-> IF req[p].op = "rotate"
                                  /\ k \in actives(keys, req[p].scope, req[p].alg)
                               THEN demoted(keys[k], Null) ELSE keys[k]]
    /\ req' = [req EXCEPT ![p] = Idle]

----------------------------------------------------------------------------
\* createKey's partial unique index: one active signing key per scope,
\* whatever its algorithm.
createKeyAllows(ks, rec) ==
    \A k \in Kids : ~(/\ ks[k].role = "signing" /\ ks[k].state = "active"
                      /\ ks[k].scope = rec.scope)

respond(p) == req' = [req EXCEPT ![p] = Idle]

\* A transaction that throws: nothing of it stays.
failed(p) == respond(p) /\ UNCHANGED keys

\* POST /admin/keys with role root.
CreateRoot(k, scope, alg) ==
    /\ k \in Unused(keys)
    /\ keys' = [keys EXCEPT ![k] = rootRecord(scope, alg)]
    /\ UNCHANGED <<req, tokens>>

\* POST /admin/keys with role signing: find the root, then issue.
CreateSigning(p, k, scope, alg, na) ==
    /\ req[p].op = "idle"
    /\ \E r \in Kids : /\ isRootFor(keys, r, scope, alg)
                       /\ req' = [req EXCEPT ![p] =
                            [op |-> "create", scope |-> scope, alg |-> alg,
                             root |-> r, kid |-> k, not_after |-> na]]
    /\ UNCHANGED <<keys, tokens>>

\* issueInitialSigningKey.  It throws when the kid is taken, when the scope
\* has an active signer, or when the passphrase does not open the root.
IssueSigning(p) ==
    LET r == req[p]
        rec == signingRecord(r.scope, r.alg, r.root, r.not_after) IN
    /\ r.op = "create"
    /\ \/ /\ actives(keys, r.scope, r.alg) = {}
          /\ isRootFor(keys, r.root, r.scope, r.alg)
          /\ r.kid \in Unused(keys)
          /\ createKeyAllows(keys, rec)
          /\ keys' = [keys EXCEPT ![r.kid] = rec]
          /\ respond(p)
       \/ failed(p)
    /\ UNCHANGED tokens

\* POST /admin/keys/:id/rotate: any signing key of the scope will do, the
\* active one is what gets rotated.
RotateKey(p, id) ==
    /\ req[p].op = "idle" /\ keys[id].role = "signing"
    /\ \E r \in Kids : /\ isRootFor(keys, r, keys[id].scope, keys[id].alg)
                       /\ req' = [req EXCEPT ![p] =
                            [Idle EXCEPT !.op = "rotate", !.scope = keys[id].scope,
                                         !.alg = keys[id].alg, !.root = r]]
    /\ UNCHANGED <<keys, tokens>>

\* rotateSigningKey: demote, issue, link.
RotateSigning(p) ==
    LET r == req[p] IN
    /\ r.op = "rotate"
    /\ \/ \E out \in actives(keys, r.scope, r.alg), new \in Unused(keys) :
            LET rec == signingRecord(r.scope, r.alg, r.root, Null)
                ks == [keys EXCEPT ![out] = demoted(@, Null)] IN
            /\ actives(keys, r.scope, r.alg) = {out}
            /\ isRootFor(ks, r.root, r.scope, r.alg)
            /\ createKeyAllows(ks, rec)
            /\ keys' = [ks EXCEPT ![new] = linked(rec, out)]
            /\ respond(p)
       \/ failed(p)
    /\ UNCHANGED tokens

\* findActiveSigningKey: the scope's signer, and in a second query the global
\* one.  kid Null: that second query is to come.
FindScoped(p, scope, alg) ==
    /\ req[p].op = "idle"
    /\ \E k \in IF scope # Global /\ actives(keys, scope, alg) # {}
              THEN actives(keys, scope, alg) ELSE {Null} :
          req' = [req EXCEPT ![p] = [Idle EXCEPT !.op = "issueToken",
                                !.scope = scope, !.alg = alg, !.kid = k]]
    /\ UNCHANGED <<keys, tokens>>

FindGlobal(p) ==
    /\ req[p].op = "issueToken" /\ req[p].kid = Null
    /\ IF actives(keys, Global, req[p].alg) = {} THEN respond(p)   \* UnknownKid
       ELSE \E k \in actives(keys, Global, req[p].alg) :
              req' = [req EXCEPT ![p].kid = k]
    /\ UNCHANGED <<keys, tokens>>

\* issueToken's scope drift guard and importSigningPrivate's role check.
maySign(k, scope) == keys[k].role = "signing" /\ keys[k].scope \in {scope, Global}

\* It may still fail: a passphrase, or a format without this algorithm.
Sign(p) ==
    /\ req[p].op = "issueToken" /\ req[p].kid # Null
    /\ \/ /\ maySign(req[p].kid, req[p].scope)
          /\ tokens' = tokens \cup {[kid |-> req[p].kid, scope |-> req[p].scope]}
       \/ UNCHANGED tokens
    /\ respond(p)
    /\ UNCHANGED keys

\* verifyClientToken: the kid must be known; state and not_after of the key
\* are not looked at.
accepts(t) == keys[t.kid].role # "none"

----------------------------------------------------------------------------
Init == /\ now = 0 /\ keys = [k \in Kids |-> NoKey]
        /\ req = [p \in Procs |-> Idle] /\ tokens = {}

Tick == now < MaxTime /\ now' = now + 1 /\ UNCHANGED <<keys, req, tokens>>

Serve(p) ==
    \/ \E k \in Kids, s \in Scopes, a \in Algs, na \in Dates \cup {Null} :
          CreateSigning(p, k, s, a, na)
    \/ \E k \in Kids : RotateKey(p, k)
    \/ \E s \in Scopes, a \in Algs : FindScoped(p, s, a)
    \/ IssueSigning(p) \/ RotateSigning(p) \/ FindGlobal(p) \/ Sign(p)

Next == \/ Tick
        \/ /\ UNCHANGED now
           /\ \/ \E k \in Kids, s \in Scopes, a \in Algs : CreateRoot(k, s, a)
              \/ \E p \in Procs : Serve(p)

Spec == Init /\ [][Next]_vars

----------------------------------------------------------------------------
\* The keys, the requests and the tokens are well formed.
KeysTypeOK == /\ now \in 0..MaxTime
              /\ keys \in [Kids -> LicenseKey]
              /\ req \in [Procs -> Request]
              /\ tokens \subseteq [kid : Kids, scope : Scopes]

\* security.md: at most one active signing key per scope, across algorithms,
\* however creations and rotations interleave.
OneActiveSigner == OneActivePerScope(keys)

\* security.md: "Rotation is atomic".  A scope that ever had a signer has
\* one, a rotation that fails half-way included.
SignerNeverLost == RetiredHasSuccessor(keys)

\* rotated_from is the key's predecessor: a retiring signing key of the same
\* scope and algorithm, which no other key succeeds (a rotation that is sent
\* twice makes a longer chain, never a fork).
RotationIsAChain ==
    \A k \in Kids : keys[k].rotated_from # Null =>
        LET from == keys[k].rotated_from IN
        /\ keys[from].role = "signing" /\ keys[from].state = "retiring"
        /\ keys[from].scope = keys[k].scope /\ keys[from].alg = keys[k].alg
        /\ \A j \in Kids : keys[j].rotated_from = from => j = k

\* Every token chains up inside its tenant: it was signed by a signing key of
\* its license's scope or by a global one, and that key is attested by a root
\* of the key's own scope, whatever was created or rotated between the
\* lookups and the signature.
TokensChainInScope ==
    \A t \in tokens :
        LET k == keys[t.kid] IN
        /\ k.role = "signing" /\ k.scope \in {t.scope, Global}
        /\ k.root_kid # Null /\ keys[k.root_kid].role = "root"
        /\ keys[k.root_kid].scope = k.scope

\* Each signing key's root attestation still verifies after rotations.
KeysAttested == AttestationsHold(keys)

\* key-hierarchy.ts: a retiring key is "still valid for verify ... until its
\* not_after".  Tokens of a key past its not_after are turned away.
NotAfterEnforced ==
    \A t \in tokens : /\ keys[t.kid].state = "retiring"
                      /\ keys[t.kid].not_after # Null
                      /\ now >= keys[t.kid].not_after
                      => ~accepts(t)
=============================================================================
