----------------------------- MODULE KeyProofs -----------------------------
(***************************************************************************)
(* Theorems about the keys of the issuer (ScopeKeys) and of the            *)
(* licensing-keys file (KeyCli), for any key ids, scopes, algorithms,      *)
(* requests in flight and dates.                                           *)
(***************************************************************************)
EXTENDS ScopeKeys, KeyCli, TLAPS

\* The records KeyHierarchy writes, field by field.
LEMMA RootRecord ==
    ASSUME NEW s \in Scopes \cup {Null}, NEW a \in Algs \cup {Null}
    PROVE  /\ rootRecord(s, a) \in LicenseKey
           /\ rootRecord(s, a).scope = s /\ rootRecord(s, a).alg = a
           /\ rootRecord(s, a).role = "root"
           /\ rootRecord(s, a).state = "active"
           /\ rootRecord(s, a).rotated_from = Null
BY DEF rootRecord, NoKey, LicenseKey

LEMMA SigningRecord ==
    ASSUME NEW s \in Scopes, NEW a \in Algs, NEW r, NEW d,
           r \in Kids \cup {Null}, d \in Dates \cup {Null}
    PROVE  LET rec == signingRecord(s, a, r, d)
           IN  /\ rec \in LicenseKey /\ rec.scope = s /\ rec.alg = a
               /\ rec.role = "signing" /\ rec.state = "active"
               /\ rec.rotated_from = Null /\ rec.root_kid = r
               /\ rec.attested = rec.not_after
BY DEF signingRecord, NoKey, LicenseKey

\* rotateSigning demotes in place: only the state and, when a date is given,
\* not_after change.
LEMMA Demoted ==
    ASSUME NEW rec \in LicenseKey, NEW d \in Dates \cup {Null}
    PROVE  LET dem == demoted(rec, d)
           IN  /\ dem \in LicenseKey /\ dem.state = "retiring"
               /\ dem.scope = rec.scope /\ dem.alg = rec.alg
               /\ dem.role = rec.role /\ dem.rotated_from = rec.rotated_from
               /\ dem.root_kid = rec.root_kid /\ dem.attested = rec.attested
               /\ d = Null => dem.not_after = rec.not_after
BY DEF demoted, LicenseKey

LEMMA Linked ==
    ASSUME NEW rec \in LicenseKey, NEW from \in Kids \cup {Null}
    PROVE  LET lk == linked(rec, from)
           IN  /\ lk \in LicenseKey /\ lk.rotated_from = from
               /\ lk.state = rec.state /\ lk.scope = rec.scope
               /\ lk.alg = rec.alg /\ lk.role = rec.role
               /\ lk.root_kid = rec.root_kid /\ lk.attested = rec.attested
               /\ lk.not_after = rec.not_after
BY DEF linked, LicenseKey

----------------------------------------------------------------------------
(* The issuer's table.                                                     *)

\* Every signing key names a root of its own scope and algorithm that is in
\* the table.
Rooted(ks) ==
    \A k \in Kids : ks[k].role = "signing" =>
        isRootFor(ks, ks[k].root_kid, ks[k].scope, ks[k].alg)

\* What its attestation covers is what the record says.
Covered(ks) ==
    \A k \in Kids : ks[k].role = "signing" => ks[k].attested = ks[k].not_after

\* rotated_from, for any table: RotationIsAChain is Chained(keys).
Chained(ks) ==
    \A k \in Kids : ks[k].rotated_from # Null =>
        LET from == ks[k].rotated_from IN
        /\ ks[from].role = "signing" /\ ks[from].state = "retiring"
        /\ ks[from].scope = ks[k].scope /\ ks[from].alg = ks[k].alg
        /\ \A j \in Kids : ks[j].rotated_from = from => j = k

KeyTable(ks) == /\ ks \in [Kids -> LicenseKey]
                /\ OneActivePerScope(ks) /\ RetiredHasSuccessor(ks)
                /\ Chained(ks) /\ Rooted(ks) /\ Covered(ks)

\* No key leaves the table or changes what it is and whose it is.
KeysStay(ks, new) ==
    \A k \in Kids : ks[k].role # "none" =>
        /\ new[k].role = ks[k].role /\ new[k].scope = ks[k].scope
        /\ new[k].alg = ks[k].alg /\ new[k].root_kid = ks[k].root_kid

\* Putting a new record under an unused kid keeps the table sound when it is
\* a root, or a signing key the unique index lets in and a root attests.
LEMMA PutKeeps ==
    ASSUME NEW ks, KeyTable(ks), NEW new \in Unused(ks), NEW rec \in LicenseKey,
           rec.rotated_from = Null, rec.state = "active",
           \/ rec.role = "root"
           \/ /\ rec.role = "signing" /\ createKeyAllows(ks, rec)
              /\ isRootFor(ks, rec.root_kid, rec.scope, rec.alg)
              /\ rec.attested = rec.not_after
    PROVE  /\ KeyTable([ks EXCEPT ![new] = rec])
           /\ KeysStay(ks, [ks EXCEPT ![new] = rec])
<1> DEFINE kt == [ks EXCEPT ![new] = rec]
<1>1. /\ new \in Kids /\ ks[new].role = "none"
      /\ ks \in [Kids -> LicenseKey] /\ kt \in [Kids -> LicenseKey]
      /\ kt[new] = rec /\ \A k \in Kids : k # new => kt[k] = ks[k]
  BY DEF KeyTable, Unused
<1> HIDE DEF kt
<1>2. OneActivePerScope(kt)
  BY <1>1 DEF KeyTable, OneActivePerScope, createKeyAllows
<1>3. RetiredHasSuccessor(kt)
  <2> SUFFICES ASSUME NEW k \in Kids, kt[k].state = "retiring"
               PROVE  actives(kt, kt[k].scope, kt[k].alg) # {}
    BY DEF RetiredHasSuccessor
  <2>1. k # new /\ kt[k] = ks[k]
    BY <1>1
  <2>2. PICK j \in actives(ks, ks[k].scope, ks[k].alg) : TRUE
    BY <2>1 DEF KeyTable, RetiredHasSuccessor
  <2>3. j \in Kids /\ j # new
    BY <1>1, <2>2 DEF actives
  <2> QED
    BY <1>1, <2>1, <2>2, <2>3 DEF actives
<1>4. Chained(kt)
  BY <1>1, KeyAssumption DEF KeyTable, Chained, LicenseKey
<1>5. Rooted(kt)
  BY <1>1 DEF KeyTable, Rooted, isRootFor
<1>6. Covered(kt)
  BY <1>1 DEF KeyTable, Covered
<1>7. KeysStay(ks, kt)
  BY <1>1 DEF KeysStay
<1> QED
  BY <1>1, <1>2, <1>3, <1>4, <1>5, <1>6, <1>7 DEF KeyTable, kt

\* rotateSigningKey's three writes, taken together, keep the table sound:
\* the successor is active in the scope and algorithm of the key it retires.
LEMMA RotateKeeps ==
    ASSUME NEW ks, KeyTable(ks), NEW s, NEW a,
           NEW out \in actives(ks, s, a), NEW new \in Unused(ks),
           NEW mid, mid = [ks EXCEPT ![out] = demoted(@, Null)],
           NEW rec \in LicenseKey, rec.state = "active", rec.role = "signing",
           rec.scope = s, rec.alg = a, rec.attested = rec.not_after,
           createKeyAllows(mid, rec), isRootFor(mid, rec.root_kid, s, a)
    PROVE  /\ KeyTable([mid EXCEPT ![new] = linked(rec, out)])
           /\ KeysStay(ks, [mid EXCEPT ![new] = linked(rec, out)])
<1> DEFINE lk == linked(rec, out)
           dem == demoted(ks[out], Null)
           kt == [mid EXCEPT ![new] = lk]
<1>1. /\ out \in Kids /\ ks[out].role = "signing" /\ ks[out].state = "active"
      /\ ks[out].scope = s /\ ks[out].alg = a
      /\ new \in Kids /\ ks[new].role = "none"
      /\ ks \in [Kids -> LicenseKey] /\ ks[out] \in LicenseKey
  BY DEF actives, Unused, KeyTable
<1>2. /\ dem \in LicenseKey /\ dem.state = "retiring" /\ dem.role = "signing"
      /\ dem.scope = s /\ dem.alg = a
      /\ dem.rotated_from = ks[out].rotated_from
      /\ dem.root_kid = ks[out].root_kid
      /\ dem.attested = ks[out].attested /\ dem.not_after = ks[out].not_after
  BY <1>1, Demoted
<1>3. /\ lk \in LicenseKey /\ lk.rotated_from = out /\ lk.state = "active"
      /\ lk.scope = s /\ lk.alg = a /\ lk.role = "signing"
      /\ lk.root_kid = rec.root_kid /\ lk.attested = lk.not_after
  BY <1>1, Linked
<1>4. mid = [ks EXCEPT ![out] = dem]
  OBVIOUS
<1> HIDE DEF lk, dem
<1>5. /\ kt \in [Kids -> LicenseKey] /\ kt[new] = lk /\ kt[out] = dem
      /\ \A k \in Kids \ {new, out} : kt[k] = ks[k]
      /\ \A k \in Kids \ {out} : mid[k] = ks[k]
      /\ out # new /\ mid[out] = dem
  BY <1>1, <1>2, <1>3, <1>4
<1> HIDE DEF kt
<1>6. OneActivePerScope(kt)
  BY <1>2, <1>3, <1>5 DEF KeyTable, OneActivePerScope, createKeyAllows
<1>7. RetiredHasSuccessor(kt)
  <2> SUFFICES ASSUME NEW k \in Kids, kt[k].state = "retiring"
               PROVE  actives(kt, kt[k].scope, kt[k].alg) # {}
    BY DEF RetiredHasSuccessor
  <2>1. CASE k = out
    BY <1>1, <1>2, <1>3, <1>5, <2>1 DEF actives
  <2>2. CASE k # out
    <3>1. k # new /\ kt[k] = ks[k]
      BY <1>3, <1>5, <2>2
    <3>2. PICK j \in actives(ks, ks[k].scope, ks[k].alg) : TRUE
      BY <3>1 DEF KeyTable, RetiredHasSuccessor
    <3>3. CASE j = out
      BY <1>1, <1>3, <1>5, <3>1, <3>2, <3>3 DEF actives
    <3>4. CASE j # out
      BY <1>1, <1>5, <3>1, <3>2, <3>4 DEF actives
    <3> QED
      BY <3>3, <3>4
  <2> QED
    BY <2>1, <2>2
<1>8. Chained(kt)
  <2>1. \A k \in Kids : ks[k].rotated_from # out
    BY <1>1, KeyAssumption DEF KeyTable, Chained
  <2>2. \A k \in Kids : ks[k].rotated_from # new
    BY <1>1, KeyAssumption DEF KeyTable, Chained
  <2>3. kt[out].rotated_from = ks[out].rotated_from /\ kt[new].rotated_from = out
    BY <1>2, <1>3, <1>5
  <2>4. \A k \in Kids : ks[k].rotated_from \in Kids \cup {Null}
    BY <1>1 DEF LicenseKey
  <2> QED
    BY <1>1, <1>2, <1>3, <1>5, <2>1, <2>2, <2>3, <2>4 DEF KeyTable, Chained
<1>9. Rooted(kt)
  BY <1>1, <1>2, <1>3, <1>5 DEF KeyTable, Rooted, isRootFor
<1>10. Covered(kt)
  BY <1>1, <1>2, <1>3, <1>5 DEF KeyTable, Covered
<1>11. KeysStay(ks, kt)
  BY <1>1, <1>2, <1>5 DEF KeysStay
<1> QED
  BY <1>5, <1>6, <1>7, <1>8, <1>9, <1>10, <1>11 DEF KeyTable, kt, lk

----------------------------------------------------------------------------
(* The issuer's requests.                                                  *)

\* What a request carries between its lookups and its writes.
RequestShape ==
    \A p \in Procs :
        /\ req[p].op = "create" => req[p].root \in Kids /\ req[p].kid \in Kids
        /\ req[p].op \in {"create", "rotate", "issueToken"} =>
              req[p].scope \in Scopes /\ req[p].alg \in Algs

\* A key that exists belongs to a scope.
KeysHaveScope ==
    \A k \in Kids : keys[k].role # "none" =>
        keys[k].scope \in Scopes /\ keys[k].alg \in Algs

\* The inductive invariant: Rooted makes TokensChainInScope inductive, and
\* the table's clauses need each other in the rotation.
KeysInv == /\ KeysTypeOK /\ RequestShape /\ KeysHaveScope /\ KeyTable(keys)
           /\ TokensChainInScope

\* Tokens keep chaining up while keys stay and the table stays rooted.
LEMMA TokensFollowKeys ==
    ASSUME KeysInv, KeyTable(keys)', KeysStay(keys, keys'), UNCHANGED tokens
    PROVE  TokensChainInScope'
<1> SUFFICES ASSUME NEW t \in tokens
             PROVE  LET k == keys'[t.kid] IN
                    /\ k.role = "signing" /\ k.scope \in {t.scope, Global}
                    /\ k.root_kid # Null /\ keys'[k.root_kid].role = "root"
                    /\ keys'[k.root_kid].scope = k.scope
  BY DEF TokensChainInScope
<1>1. t.kid \in Kids
  BY DEF KeysInv, KeysTypeOK
<1>2. keys[t.kid].role = "signing" /\ keys[t.kid].scope \in {t.scope, Global}
  BY DEF KeysInv, TokensChainInScope
<1>3. keys'[t.kid].role = "signing" /\ keys'[t.kid].scope \in {t.scope, Global}
  BY <1>1, <1>2 DEF KeysStay
<1>4. isRootFor(keys', keys'[t.kid].root_kid, keys'[t.kid].scope, keys'[t.kid].alg)
  BY <1>1, <1>3 DEF KeyTable, Rooted
<1> QED
  BY <1>3, <1>4, KeyAssumption DEF isRootFor

\* A step that leaves the keys and the tokens alone and the requests sound.
LEMMA LookupKeeps ==
    ASSUME KeysInv, UNCHANGED <<keys, tokens>>, now' \in 0..MaxTime,
           req' \in [Procs -> Request], RequestShape'
    PROVE  KeysInv'
<1>1. TokensChainInScope' /\ KeyTable(keys)' /\ KeysHaveScope'
  BY DEF KeysInv, TokensChainInScope, KeyTable, KeysHaveScope
<1> QED
  BY <1>1 DEF KeysInv, KeysTypeOK

\* Responding, whatever the request was.
LEMMA RespondKeeps ==
    ASSUME KeysInv, NEW p \in Procs, respond(p)
    PROVE  req' \in [Procs -> Request] /\ RequestShape'
BY DEF KeysInv, KeysTypeOK, RequestShape, respond, Idle, Request

\* A step that writes keys and keeps the table sound.
LEMMA WriteKeeps ==
    ASSUME KeysInv, KeyTable(keys)', KeysStay(keys, keys'), KeysHaveScope',
           UNCHANGED <<now, tokens>>, req' \in [Procs -> Request], RequestShape'
    PROVE  KeysInv'
<1>1. TokensChainInScope'
  BY TokensFollowKeys
<1>2. KeysTypeOK'
  BY DEF KeysInv, KeysTypeOK, KeyTable
<1> QED
  BY <1>1, <1>2 DEF KeysInv

\* POST /admin/keys with role root.
LEMMA CreateRootKeeps ==
    ASSUME KeysInv, NEW k \in Kids, NEW s \in Scopes, NEW a \in Algs,
           CreateRoot(k, s, a), UNCHANGED now
    PROVE  KeysInv'
<1> DEFINE rec == rootRecord(s, a)
<1>1. /\ rec \in LicenseKey /\ rec.role = "root" /\ rec.state = "active"
      /\ rec.rotated_from = Null /\ rec.scope = s /\ rec.alg = a
  BY RootRecord
<1>2. k \in Unused(keys) /\ keys' = [keys EXCEPT ![k] = rec]
  BY DEF CreateRoot
<1> HIDE DEF rec
<1>3. KeyTable(keys)' /\ KeysStay(keys, keys')
  <2>1. KeyTable(keys)
    BY DEF KeysInv
  <2> QED
    BY <1>1, <1>2, <2>1, PutKeeps DEF KeyTable
<1>4. KeysHaveScope'
  BY <1>1, <1>2 DEF KeysInv, KeysTypeOK, KeysHaveScope
<1>5. req' \in [Procs -> Request] /\ RequestShape' /\ UNCHANGED tokens
  BY DEF CreateRoot, KeysInv, KeysTypeOK, RequestShape
<1> QED
  BY <1>3, <1>4, <1>5, WriteKeeps

\* issueInitialSigningKey: the index is consulted in the transaction that
\* writes, so an earlier lookup that went stale does no harm.
LEMMA IssueSigningKeeps ==
    ASSUME KeysInv, NEW p \in Procs, IssueSigning(p), UNCHANGED now
    PROVE  KeysInv'
<1> DEFINE r == req[p]
           rec == signingRecord(r.scope, r.alg, r.root, r.not_after)
<1>1. respond(p) /\ UNCHANGED tokens /\ r.op = "create"
  BY DEF IssueSigning, failed
<1>2. req' \in [Procs -> Request] /\ RequestShape'
  BY <1>1, RespondKeeps
<1>3. CASE UNCHANGED keys
  BY <1>1, <1>2, <1>3, LookupKeeps DEF KeysInv, KeysTypeOK
<1>4. CASE /\ isRootFor(keys, r.root, r.scope, r.alg)
           /\ r.kid \in Unused(keys) /\ createKeyAllows(keys, rec)
           /\ keys' = [keys EXCEPT ![r.kid] = rec]
  <2>1. r \in Request
    BY DEF KeysInv, KeysTypeOK
  <2>2. /\ r.scope \in Scopes /\ r.alg \in Algs /\ r.root \in Kids
        /\ r.kid \in Kids /\ r.not_after \in Dates \cup {Null}
    BY <1>1, <2>1 DEF KeysInv, RequestShape, Request
  <2>3. /\ rec \in LicenseKey /\ rec.role = "signing" /\ rec.state = "active"
        /\ rec.rotated_from = Null /\ rec.scope = r.scope /\ rec.alg = r.alg
        /\ rec.root_kid = r.root /\ rec.attested = rec.not_after
    BY <2>2, SigningRecord
  <2> HIDE DEF rec
  <2>4. KeyTable(keys)' /\ KeysStay(keys, keys')
    <3>1. KeyTable(keys)
      BY DEF KeysInv
    <3>2. isRootFor(keys, rec.root_kid, rec.scope, rec.alg)
      BY <1>4, <2>3
    <3> HIDE DEF r
    <3> QED
      BY <1>4, <2>3, <3>1, <3>2, PutKeeps DEF KeyTable
  <2>5. KeysHaveScope'
    BY <1>4, <2>2, <2>3 DEF KeysInv, KeysTypeOK, KeysHaveScope
  <2> QED
    BY <1>1, <1>2, <2>4, <2>5, WriteKeeps
<1> QED
  BY <1>3, <1>4 DEF IssueSigning, failed

\* rotateSigningKey commits its three writes or none.
LEMMA RotateSigningKeeps ==
    ASSUME KeysInv, NEW p \in Procs, RotateSigning(p), UNCHANGED now
    PROVE  KeysInv'
<1> DEFINE r == req[p]
           rec == signingRecord(r.scope, r.alg, r.root, Null)
<1>1. respond(p) /\ UNCHANGED tokens /\ r.op = "rotate"
  BY DEF RotateSigning, failed
<1>2. req' \in [Procs -> Request] /\ RequestShape'
  BY <1>1, RespondKeeps
<1>3. CASE UNCHANGED keys
  BY <1>1, <1>2, <1>3, LookupKeeps DEF KeysInv, KeysTypeOK
<1>4. ASSUME NEW out \in actives(keys, r.scope, r.alg), NEW new \in Unused(keys),
             NEW ks, ks = [keys EXCEPT ![out] = demoted(@, Null)],
             isRootFor(ks, r.root, r.scope, r.alg), createKeyAllows(ks, rec),
             keys' = [ks EXCEPT ![new] = linked(rec, out)]
      PROVE  KeysInv'
  <2>1. r \in Request /\ KeyTable(keys)
    BY DEF KeysInv, KeysTypeOK
  <2>2. /\ r.scope \in Scopes /\ r.alg \in Algs /\ r.root \in Kids \cup {Null}
        /\ Null \in Dates \cup {Null}
    BY <1>1, <2>1 DEF KeysInv, RequestShape, Request
  <2>3. /\ rec \in LicenseKey /\ rec.role = "signing" /\ rec.state = "active"
        /\ rec.scope = r.scope /\ rec.alg = r.alg
        /\ rec.root_kid = r.root /\ rec.attested = rec.not_after
    BY <2>2, SigningRecord
  <2> HIDE DEF rec, r
  <2>4. KeyTable(keys)' /\ KeysStay(keys, keys')
    BY <1>4, <2>1, <2>3, RotateKeeps DEF KeyTable
  <2>5. KeysHaveScope'
    <3>1. out \in Kids /\ new \in Kids /\ out # new /\ keys[out].role = "signing"
      BY <1>4 DEF actives, Unused
    <3>2. \A k \in Kids : k # new /\ k # out => keys'[k] = keys[k]
      BY <1>4, <3>1 DEF KeysInv, KeysTypeOK
    <3>3. keys'[out].scope = keys[out].scope /\ keys'[out].alg = keys[out].alg
      BY <2>4, <3>1 DEF KeysStay
    <3>4. keys'[new] = linked(rec, out)
      BY <1>4, <3>1 DEF KeysInv, KeysTypeOK
    <3>5. keys'[new].scope \in Scopes /\ keys'[new].alg \in Algs
      BY <2>2, <2>3, <3>1, <3>4, Linked
    <3> QED
      BY <3>1, <3>2, <3>3, <3>5 DEF KeysInv, KeysHaveScope
  <2> QED
    BY <1>1, <1>2, <2>4, <2>5, WriteKeeps
<1> QED
  BY <1>3, <1>4 DEF RotateSigning, failed

\* The lookups that precede a write, and issueToken's two queries.
LEMMA LookupsKeep ==
    ASSUME KeysInv, NEW p \in Procs, UNCHANGED now,
           \/ \E k \in Kids, s \in Scopes, a \in Algs, na \in Dates \cup {Null} :
                 CreateSigning(p, k, s, a, na)
           \/ \E k \in Kids : RotateKey(p, k)
           \/ \E s \in Scopes, a \in Algs : FindScoped(p, s, a)
           \/ FindGlobal(p)
    PROVE  KeysInv'
<1> DEFINE Good == req' \in [Procs -> Request] /\ RequestShape'
<1>1. ASSUME NEW k \in Kids, NEW s \in Scopes, NEW a \in Algs,
             NEW na \in Dates \cup {Null}, CreateSigning(p, k, s, a, na)
      PROVE  Good
  BY <1>1 DEF CreateSigning, isRootFor, KeysInv, KeysTypeOK, RequestShape, Request
<1>2. ASSUME NEW k \in Kids, RotateKey(p, k) PROVE Good
  <2>1. keys[k].scope \in Scopes /\ keys[k].alg \in Algs
    BY <1>2 DEF RotateKey, KeysInv, KeysHaveScope
  <2>2. PICK r \in Kids :
          req' = [req EXCEPT ![p] = [Idle EXCEPT !.op = "rotate",
                    !.scope = keys[k].scope, !.alg = keys[k].alg, !.root = r]]
    BY <1>2 DEF RotateKey
  <2> QED
    BY <2>1, <2>2 DEF KeysInv, KeysTypeOK, RequestShape, Request, Idle
<1>3. ASSUME NEW s \in Scopes, NEW a \in Algs, FindScoped(p, s, a) PROVE Good
  <2>1. PICK k \in Kids \cup {Null} :
          req' = [req EXCEPT ![p] = [Idle EXCEPT !.op = "issueToken",
                                !.scope = s, !.alg = a, !.kid = k]]
    BY <1>3 DEF FindScoped, actives
  <2> QED
    BY <2>1 DEF KeysInv, KeysTypeOK, RequestShape, Request, Idle
<1>4. ASSUME FindGlobal(p) PROVE Good
  <2>1. CASE respond(p)
    BY <2>1, RespondKeeps
  <2>2. CASE \E k \in Kids : req' = [req EXCEPT ![p].kid = k]
    BY <1>4, <2>2 DEF FindGlobal, KeysInv, KeysTypeOK, RequestShape, Request
  <2> QED
    BY <1>4, <2>1, <2>2 DEF FindGlobal, actives
<1>5. Good
  BY <1>1, <1>2, <1>3, <1>4
<1>6. UNCHANGED <<keys, tokens>>
  BY DEF CreateSigning, RotateKey, FindScoped, FindGlobal
<1> QED
  BY <1>5, <1>6, LookupKeeps DEF KeysInv, KeysTypeOK

\* issueToken signs with the record it looked up: its kid still names a
\* signing key of the scope, because keys stay.
LEMMA SignKeeps ==
    ASSUME KeysInv, NEW p \in Procs, Sign(p), UNCHANGED now
    PROVE  KeysInv'
<1>1. req' \in [Procs -> Request] /\ RequestShape'
  BY RespondKeeps DEF Sign
<1>2. CASE UNCHANGED tokens
  BY <1>1, <1>2, LookupKeeps DEF Sign, KeysInv, KeysTypeOK
<1>3. CASE /\ maySign(req[p].kid, req[p].scope)
           /\ tokens' = tokens \cup {[kid |-> req[p].kid, scope |-> req[p].scope]}
  <2> DEFINE t == [kid |-> req[p].kid, scope |-> req[p].scope]
  <2>1. req[p] \in Request
    BY DEF KeysInv, KeysTypeOK
  <2>2. t.kid \in Kids /\ t.scope \in Scopes
    BY <2>1 DEF Sign, KeysInv, RequestShape, Request
  <2>3. keys[t.kid].role = "signing" /\ keys[t.kid].scope \in {t.scope, Global}
    BY <1>3 DEF maySign
  <2>4. isRootFor(keys, keys[t.kid].root_kid, keys[t.kid].scope, keys[t.kid].alg)
    BY <2>2, <2>3 DEF KeysInv, KeyTable, Rooted
  <2>5. UNCHANGED keys
    BY DEF Sign
  <2>6. t \in [kid : Kids, scope : Scopes]
    BY <2>2
  <2>7. tokens' = tokens \cup {t}
    BY <1>3
  <2> HIDE DEF t
  <2>8. TokensChainInScope'
    BY <2>3, <2>4, <2>5, <2>7, KeyAssumption
       DEF KeysInv, TokensChainInScope, isRootFor
  <2>9. KeysTypeOK'
    BY <1>1, <2>5, <2>6, <2>7 DEF KeysInv, KeysTypeOK
  <2>10. KeyTable(keys)' /\ KeysHaveScope'
    BY <2>5 DEF KeysInv, KeyTable, KeysHaveScope
  <2> QED
    BY <1>1, <2>8, <2>9, <2>10 DEF KeysInv
<1> QED
  BY <1>2, <1>3 DEF Sign

\* The inductive invariant of the issuer's keys.
THEOREM KeysInvariant == Spec => []KeysInv
<1>1. Init => KeysInv
  <2> SUFFICES ASSUME Init PROVE KeysInv
    OBVIOUS
  <2>1. /\ keys \in [Kids -> LicenseKey]
        /\ \A k \in Kids : /\ keys[k].role = "none" /\ keys[k].state = "-"
                           /\ keys[k].rotated_from = Null
    BY DEF Init, NoKey, LicenseKey
  <2>2. KeyTable(keys) /\ KeysHaveScope
    BY <2>1 DEF KeyTable, OneActivePerScope, RetiredHasSuccessor, Chained,
       Rooted, Covered, KeysHaveScope
  <2>3. KeysTypeOK
    BY <2>1, ClockAssumption DEF Init, KeysTypeOK, Request, Idle
  <2>4. RequestShape /\ TokensChainInScope
    BY DEF Init, RequestShape, Idle, TokensChainInScope
  <2> QED
    BY <2>2, <2>3, <2>4 DEF KeysInv
<1>2. KeysInv /\ [Next]_vars => KeysInv'
  <2> SUFFICES ASSUME KeysInv, [Next]_vars PROVE KeysInv'
    OBVIOUS
  <2>1. CASE UNCHANGED vars
    BY <2>1, LookupKeeps DEF vars, KeysInv, KeysTypeOK, RequestShape
  <2>2. CASE Tick
    <3>1. now' \in 0..MaxTime
      BY <2>2, ClockAssumption DEF Tick, KeysInv, KeysTypeOK
    <3> QED
      BY <2>2, <3>1, LookupKeeps DEF Tick, KeysInv, KeysTypeOK, RequestShape
  <2>3. ASSUME NEW k \in Kids, NEW s \in Scopes, NEW a \in Algs,
               CreateRoot(k, s, a), UNCHANGED now
        PROVE  KeysInv'
    BY <2>3, CreateRootKeeps
  <2>4. ASSUME NEW p \in Procs, Serve(p), UNCHANGED now
        PROVE  KeysInv'
    BY <2>4, LookupsKeep, IssueSigningKeeps, RotateSigningKeeps, SignKeeps
       DEF Serve
  <2> QED
    BY <2>1, <2>2, <2>3, <2>4 DEF Next
<1> QED
  BY <1>1, <1>2, PTL DEF Spec

\* At most one active signing key per scope, across algorithms.
THEOREM OneSigner == Spec => []OneActiveSigner
<1>1. KeysInv => OneActiveSigner
  BY DEF KeysInv, KeyTable, OneActiveSigner
<1> QED
  BY <1>1, KeysInvariant, PTL

\* A scope and algorithm that ever had a signer has one: rotation is atomic.
THEOREM SignerStays == Spec => []SignerNeverLost
<1>1. KeysInv => SignerNeverLost
  BY DEF KeysInv, KeyTable, SignerNeverLost
<1> QED
  BY <1>1, KeysInvariant, PTL

\* rotated_from never forks and never crosses a scope or an algorithm.
THEOREM RotationChains == Spec => []RotationIsAChain
<1>1. KeysInv => RotationIsAChain
  BY DEF KeysInv, KeyTable, Chained, RotationIsAChain
<1> QED
  BY <1>1, KeysInvariant, PTL

\* Every token's signer is attested by a root of the signer's own scope.
THEOREM TokensChain == Spec => []TokensChainInScope
<1>1. KeysInv => TokensChainInScope
  BY DEF KeysInv
<1> QED
  BY <1>1, KeysInvariant, PTL

\* Attestations still verify after rotations: the issuer never passes a
\* retire-at date, so what the root signed is what the record says.
THEOREM AttestationsStay == Spec => []KeysAttested
<1>1. KeysInv => KeysAttested
  <2> SUFFICES ASSUME KeysInv, NEW k \in Kids, keys[k].role = "signing"
               PROVE  verifyAttestation(keys, k)
    BY DEF KeysAttested, AttestationsHold
  <2>1. isRootFor(keys, keys[k].root_kid, keys[k].scope, keys[k].alg)
    BY DEF KeysInv, KeyTable, Rooted
  <2>2. keys[k].attested = keys[k].not_after
    BY DEF KeysInv, KeyTable, Covered
  <2> QED
    BY <2>1, <2>2, KeyAssumption DEF verifyAttestation, isRootFor
<1> QED
  BY <1>1, KeysInvariant, PTL

----------------------------------------------------------------------------
(* The licensing-keys file.                                                *)

\* Two active signing keys of one scope and algorithm are one key, for any
\* table: CliOneActivePerScopeAlg is OnePerScopeAlg(file).
OnePerScopeAlg(ks) ==
    \A j, k \in Kids :
        /\ ks[j].role = "signing" /\ ks[j].state = "active"
        /\ ks[k].role = "signing" /\ ks[k].state = "active"
        /\ ks[j].scope = ks[k].scope /\ ks[j].alg = ks[k].alg
        => j = k

\* A command's copy is the file it loaded and has flushed since: the
\* operator runs one command at a time.
CopyIsFile == cmd.op # "idle" => cmd.mem = file

\* rotate goes on past its first update with the key it demoted in hand, and
\* to its second with both.
LinkHasKeys == /\ cmd.op = "rotate" /\ cmd.at # "demote" => cmd.out \in Kids
               /\ cmd.at = "link" => cmd.op = "rotate" /\ cmd.new \in Kids

\* The command names a scope and an algorithm.
CommandNames == cmd.op # "idle" => cmd.scope \in Scopes /\ cmd.alg \in Algs

CliInv == /\ CliTypeOK /\ CopyIsFile /\ LinkHasKeys /\ CommandNames
          /\ OnePerScopeAlg(file)

\* No command drops a key or changes whose it is.
FileKeysStay(ks, new) ==
    \A k \in Kids : ks[k].role # "none" =>
        /\ new[k].role = ks[k].role /\ new[k].scope = ks[k].scope
        /\ new[k].alg = ks[k].alg

\* What a step of the command line has to keep.
CliStep == CliInv' /\ FileKeysStay(file, file')

\* The command that is not running.
LEMMA NoCommandShape ==
    /\ NoCommand \in Command /\ NoCommand.op = "idle" /\ NoCommand.at = "-"
BY DEF NoCommand, Command, NoKey, LicenseKey

\* A command ends without writing: it finished, threw or was killed.
LEMMA ExitKeeps ==
    ASSUME CliInv, exit, kills' \in 0..MaxKills
    PROVE  CliStep
BY NoCommandShape
   DEF exit, CliInv, CliTypeOK, CopyIsFile, LinkHasKeys, CommandNames,
       OnePerScopeAlg, CliStep, FileKeysStay

\* loaded, Run: the copy is the file.
LEMMA RunKeeps ==
    ASSUME CliInv, NEW op \in {"make-root", "issue-signing", "rotate"},
           NEW s \in Scopes, NEW a \in Algs, NEW r \in Kids \cup {Null},
           NEW d \in Dates \cup {Null}, Run(op, s, a, r, d), UNCHANGED kills
    PROVE  CliStep
<1>1. /\ cmd' = [NoCommand EXCEPT !.op = op, !.mem = file, !.scope = s,
                           !.alg = a, !.root = r, !.date = d,
                           !.at = IF op = "rotate" THEN "demote" ELSE "put"]
      /\ file' = file
  BY DEF Run, loaded
<1>2. NoCommand \in Command /\ file \in [Kids -> LicenseKey]
  BY NoCommandShape DEF CliInv, CliTypeOK
<1>3. /\ cmd' \in Command /\ cmd'.op = op /\ cmd'.mem = file
      /\ cmd'.scope = s /\ cmd'.alg = a /\ cmd'.at # "link"
      /\ op = "rotate" => cmd'.at = "demote"
  BY <1>1, <1>2 DEF Command
<1> QED
  BY <1>1, <1>3 DEF CliInv, CliTypeOK, CopyIsFile, LinkHasKeys,
     CommandNames, OnePerScopeAlg, CliStep, FileKeysStay

\* flush of a table that keeps the keys and has no second active signer.
LEMMA FlushKeeps ==
    ASSUME CliInv, NEW ks \in [Kids -> LicenseKey], NEW c \in Command,
           flush(ks, c), UNCHANGED kills, OnePerScopeAlg(ks),
           FileKeysStay(file, ks), c.op # "idle" => c.mem = ks,
           c.op = "rotate" /\ c.at # "demote" => c.out \in Kids,
           c.at = "link" => c.op = "rotate" /\ c.new \in Kids,
           c.op # "idle" => c.scope \in Scopes /\ c.alg \in Algs
    PROVE  CliStep
BY DEF flush, CliInv, CliTypeOK, CopyIsFile, LinkHasKeys, CommandNames, CliStep

\* generateRoot
LEMMA MakeRootKeeps ==
    ASSUME CliInv, MakeRoot, UNCHANGED kills
    PROVE  CliStep
<1>1. /\ cmd.mem = file /\ file \in [Kids -> LicenseKey]
      /\ cmd.scope \in Scopes /\ cmd.alg \in Algs /\ OnePerScopeAlg(file)
  BY DEF MakeRoot, CliInv, CliTypeOK, CopyIsFile, CommandNames
<1> DEFINE rec == rootRecord(cmd.scope, cmd.alg)
<1>2. rec \in LicenseKey /\ rec.role = "root"
  BY <1>1, RootRecord
<1>3. PICK k \in Unused(file) : flush([file EXCEPT ![k] = rec], NoCommand)
  BY <1>1 DEF MakeRoot
<1> HIDE DEF rec
<1> DEFINE ks == [file EXCEPT ![k] = rec]
<1>4. /\ k \in Kids /\ file[k].role = "none" /\ ks[k] = rec
      /\ \A j \in Kids : j # k => ks[j] = file[j]
      /\ ks \in [Kids -> LicenseKey]
  BY <1>1, <1>2 DEF Unused
<1>5. flush(ks, NoCommand)
  BY <1>3
<1> HIDE DEF ks
<1>6. OnePerScopeAlg(ks) /\ FileKeysStay(file, ks)
  BY <1>1, <1>2, <1>4 DEF OnePerScopeAlg, FileKeysStay
<1> QED
  BY <1>4, <1>5, <1>6, NoCommandShape, FlushKeeps

\* rotateSigning's first update: an active key stops being active.
LEMMA DemoteKeeps ==
    ASSUME CliInv, Demote, UNCHANGED kills
    PROVE  CliStep
<1>1. /\ cmd.mem = file /\ file \in [Kids -> LicenseKey] /\ cmd \in Command
      /\ cmd.scope \in Scopes /\ cmd.alg \in Algs /\ OnePerScopeAlg(file)
      /\ cmd.date \in Dates \cup {Null} /\ cmd.op = "rotate"
  BY DEF Demote, CliInv, CliTypeOK, CopyIsFile, CommandNames, Command
<1>2. CASE exit
  BY <1>2, ExitKeeps DEF CliInv, CliTypeOK
<1>3. ASSUME NEW k \in actives(file, cmd.scope, cmd.alg), NEW ks,
             ks = [file EXCEPT ![k] = demoted(@, cmd.date)],
             flush(ks, [cmd EXCEPT !.at = "put", !.mem = ks, !.out = k])
      PROVE  CliStep
  <2> DEFINE dem == demoted(file[k], cmd.date)
             c == [cmd EXCEPT !.at = "put", !.mem = ks, !.out = k]
  <2>1. k \in Kids
    BY DEF actives
  <2>2. /\ dem \in LicenseKey /\ dem.state = "retiring"
        /\ dem.scope = file[k].scope /\ dem.alg = file[k].alg
        /\ dem.role = file[k].role
    BY <1>1, <2>1, Demoted
  <2>3. ks = [file EXCEPT ![k] = dem]
    BY <1>3
  <2> HIDE DEF dem
  <2>4. /\ ks[k] = dem /\ \A j \in Kids : j # k => ks[j] = file[j]
        /\ ks \in [Kids -> LicenseKey]
    BY <1>1, <2>1, <2>2, <2>3
  <2>5. OnePerScopeAlg(ks) /\ FileKeysStay(file, ks)
    BY <1>1, <2>1, <2>2, <2>4 DEF OnePerScopeAlg, FileKeysStay
  <2>6. /\ c \in Command /\ c.mem = ks /\ c.at = "put" /\ c.out = k
        /\ c.scope = cmd.scope /\ c.alg = cmd.alg
    BY <1>1, <2>1, <2>4 DEF Command
  <2>7. flush(ks, c)
    BY <1>3
  <2> HIDE DEF c
  <2> QED
    BY <1>1, <2>1, <2>4, <2>5, <2>6, <2>7, FlushKeeps
<1> QED
  BY <1>1, <1>2, <1>3 DEF Demote

\* issueSigning refuses a second active key of the scope and algorithm.
LEMMA CliIssueSigningKeeps ==
    ASSUME CliInv, CliIssueSigning, UNCHANGED kills
    PROVE  CliStep
<1> DEFINE date == IF cmd.op = "rotate" THEN Null ELSE cmd.date
           rec == signingRecord(cmd.scope, cmd.alg, cmd.root, date)
           c(ks, k) == IF cmd.op = "issue-signing" THEN NoCommand
                       ELSE [cmd EXCEPT !.at = "link", !.mem = ks, !.new = k]
<1>1. /\ cmd.mem = file /\ file \in [Kids -> LicenseKey] /\ cmd \in Command
      /\ cmd.scope \in Scopes /\ cmd.alg \in Algs /\ OnePerScopeAlg(file)
      /\ cmd.op \in {"issue-signing", "rotate"}
  BY DEF CliIssueSigning, CliInv, CliTypeOK, CopyIsFile, CommandNames
<1>2. CASE exit
  BY <1>2, ExitKeeps DEF CliInv, CliTypeOK
<1>3. ASSUME actives(file, cmd.scope, cmd.alg) = {}, NEW k \in Unused(file),
             NEW ks, ks = [file EXCEPT ![k] = rec], flush(ks, c(ks, k))
      PROVE  CliStep
  <2>1. date \in Dates \cup {Null} /\ cmd.root \in Kids \cup {Null}
    BY <1>1 DEF Command
  <2>2. /\ rec \in LicenseKey /\ rec.scope = cmd.scope /\ rec.alg = cmd.alg
        /\ rec.role = "signing" /\ rec.state = "active"
    <3> HIDE DEF date
    <3> QED
      BY <1>1, <2>1, SigningRecord
  <2> HIDE DEF rec
  <2>3. /\ k \in Kids /\ file[k].role = "none" /\ ks[k] = rec
        /\ \A j \in Kids : j # k => ks[j] = file[j]
        /\ ks \in [Kids -> LicenseKey]
    BY <1>1, <1>3, <2>2 DEF Unused
  <2>4. \A j \in Kids : /\ file[j].role = "signing" /\ file[j].state = "active"
                       => file[j].scope # cmd.scope \/ file[j].alg # cmd.alg
    BY <1>3 DEF actives
  <2>5. OnePerScopeAlg(ks)
    BY <1>1, <2>2, <2>3, <2>4 DEF OnePerScopeAlg
  <2>6. FileKeysStay(file, ks)
    BY <2>3 DEF FileKeysStay
  <2>7. CASE cmd.op = "issue-signing"
    <3>1. flush(ks, NoCommand)
      BY <1>3, <2>7
    <3> QED
      BY <2>3, <2>5, <2>6, <3>1, NoCommandShape, FlushKeeps
  <2>8. CASE cmd.op = "rotate"
    <3> DEFINE d == [cmd EXCEPT !.at = "link", !.mem = ks, !.new = k]
    <3>1. flush(ks, d)
      BY <1>3, <2>8
    <3>2. /\ d \in Command /\ d.mem = ks /\ d.new = k /\ d.out = cmd.out
          /\ d.op = "rotate" /\ d.scope = cmd.scope /\ d.alg = cmd.alg
      BY <1>1, <2>3, <2>8 DEF Command
    <3>3. cmd.out \in Kids
      BY <2>8 DEF CliIssueSigning, CliInv, LinkHasKeys
    <3> HIDE DEF d
    <3> QED
      BY <1>1, <2>3, <2>5, <2>6, <3>1, <3>2, <3>3, FlushKeeps
  <2> QED
    BY <1>1, <2>7, <2>8
<1> QED
  BY <1>1, <1>2, <1>3 DEF CliIssueSigning

\* rotateSigning's second update only links.
LEMMA LinkKeeps ==
    ASSUME CliInv, Link, UNCHANGED kills
    PROVE  CliStep
<1>1. /\ cmd.mem = file /\ file \in [Kids -> LicenseKey]
      /\ cmd.out \in Kids /\ cmd.new \in Kids /\ OnePerScopeAlg(file)
  BY DEF Link, CliInv, CliTypeOK, CopyIsFile, LinkHasKeys
<1> DEFINE lk == linked(file[cmd.new], cmd.out)
           ks == [file EXCEPT ![cmd.new] = lk]
<1>2. /\ lk \in LicenseKey /\ lk.state = file[cmd.new].state
      /\ lk.scope = file[cmd.new].scope /\ lk.alg = file[cmd.new].alg
      /\ lk.role = file[cmd.new].role
  BY <1>1, Linked
<1>3. flush(ks, NoCommand)
  BY <1>1 DEF Link
<1> HIDE DEF lk
<1>4. /\ ks[cmd.new] = lk /\ \A j \in Kids : j # cmd.new => ks[j] = file[j]
      /\ ks \in [Kids -> LicenseKey]
  BY <1>1, <1>2
<1> HIDE DEF ks
<1>5. OnePerScopeAlg(ks) /\ FileKeysStay(file, ks)
  BY <1>1, <1>2, <1>4 DEF OnePerScopeAlg, FileKeysStay
<1> QED
  BY <1>3, <1>4, <1>5, NoCommandShape, FlushKeeps

\* Every step of the command line, a killed one included.
LEMMA CliStepKeeps ==
    ASSUME CliInv, [CliNext]_cliVars
    PROVE  CliStep
<1>1. CASE UNCHANGED cliVars
  BY <1>1 DEF cliVars, CliStep, CliInv, CliTypeOK, CopyIsFile, LinkHasKeys,
     CommandNames, OnePerScopeAlg, FileKeysStay
<1>2. CASE Kill
  <2>1. kills' \in 0..MaxKills
    BY <1>2, KillsAssumption DEF Kill, CliInv, CliTypeOK
  <2> QED
    BY <1>2, <2>1, ExitKeeps DEF Kill
<1> QED
  BY <1>1, <1>2, RunKeeps, MakeRootKeeps, DemoteKeeps, CliIssueSigningKeeps,
     LinkKeeps DEF CliNext

\* The inductive invariant of the file.
THEOREM CliInvariant == CliSpec => []CliInv
<1>1. CliInit => CliInv
  BY NoCommandShape, KillsAssumption
     DEF CliInit, CliInv, CliTypeOK, CopyIsFile, LinkHasKeys, CommandNames,
         OnePerScopeAlg, NoKey, LicenseKey
<1>2. CliInv /\ [CliNext]_cliVars => CliInv'
  BY CliStepKeeps DEF CliStep
<1> QED
  BY <1>1, <1>2, PTL DEF CliSpec

\* No sequence of commands, failed or killed ones included, leaves two active
\* signing keys of one scope and algorithm in the file.
THEOREM CliOneActive == CliSpec => []CliOneActivePerScopeAlg
<1>1. CliInv => CliOneActivePerScopeAlg
  BY DEF CliInv, OnePerScopeAlg, CliOneActivePerScopeAlg
<1> QED
  BY <1>1, CliInvariant, PTL

\* No step of a command, finished or not, drops a key from the file or changes
\* its role, scope or algorithm.
THEOREM CliKeysStayForever == CliSpec => CliKeysStay
<1>1. CliInv /\ [CliNext]_cliVars =>
        [\A k \in Kids :
           file[k].role # "none" =>
             /\ file'[k].role = file[k].role /\ file'[k].scope = file[k].scope
             /\ file'[k].alg = file[k].alg]_cliVars
  BY CliStepKeeps DEF CliStep, FileKeysStay
<1> QED
  BY <1>1, CliInvariant, PTL DEF CliSpec, CliKeysStay
=============================================================================
