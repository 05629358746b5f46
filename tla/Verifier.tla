------------------------------ MODULE Verifier ------------------------------
(* Offline validation of tokens and the replay ledger of online verifiers.   *)
(* validate() awaits the signature backend and the ledger; verifiers that    *)
(* share a ledger interleave there with one another, with the clock and with *)
(* the operator's pruneExpired.  `focus` keeps a run to one concern:         *)
(* "envelopes" (both formats, damaged and mixed-up tokens), "claims" (every  *)
(* mix of claim values), "replay" (several verifiers of the same tokens).    *)
EXTENDS Tokens, TLC

CONSTANTS Procs, Focuses,
          Skew,        \* skewSec of each verifier
          Kids,        \* kids tokens are issued under, trusted or not
          Jtis,
          MaxNow, MaxCalls,
          MaxLosses    \* ledger answers lost after the row was written

ASSUME SkewAssumption == Skew \in [Procs -> Nat]

VARIABLES focus, now, ledger, check, log, losses
verifierVars == <<focus, now, ledger, check, log, losses>>

Fingerprint == "dev"
Pins == {"none", "A"}

-----------------------------------------------------------------------------
(* Tokens the issuer hands out, and what reaches a verifier.                 *)

payload(jti, nbf, exp, status, fp, rest) ==
    <<member("jti", str(jti)), member("nbf", num(nbf)), member("exp", num(exp)),
      member("status", str(status)), member("usage_fingerprint", str(fp)),
      member("license_id", str("lic"))>> \o rest

optional(k, v) == IF typeof(v) = "absent" THEN <<>> ELSE <<member(k, v)>>
Absent == <<"absent">>
Null   == <<"null">>
obj    == <<"obj">>

\* The claims of which only the shape is checked.
standing == <<member("iat", num(0)), member("scope", str("s")), member("usage_id", str("u")),
              member("max_usages", num(1))>>

PlainPayloads == {payload(j, 0, 2, "active", Fingerprint, standing) : j \in Jtis}

ClaimMixes ==
    {payload("j1", nbf, exp, status, fp,
             standing \o optional("force_online_after", foa) \o optional("aud", aud) \o optional("iss", iss)) :
        nbf \in {0, 2}, exp \in {1, 3},
        status \in {"active", "suspended", "expired", "odd"}, fp \in {Fingerprint, "other"},
        foa \in {Absent, num(2), Null, str("2")},
        aud \in {Absent, str("A"), arr({"A", "B"}), arr({"B"}), num(1)}, iss \in {Absent, str("A"), str("B")}}

\* Claims that are missing or of another type than the issuer writes.
ShapeMixes ==
    {payload("j1", 0, 3, "active", Fingerprint,
             optional("iat", iat) \o optional("scope", scope) \o optional("usage_id", usage)
             \o optional("max_usages", max) \o optional("entitlements", ent)) :
        iat \in {Absent, num(0), str("0")}, scope \in {str("s"), num(1)}, usage \in {Absent, str("u")},
        max \in {num(1), Null}, ent \in {Absent, Null, obj, arr({"A"}), str("A")}}

\* One of the payloads holds a number canonical JSON cannot write.
Issued == {[format |-> f, kid |-> k, alg |-> a, object |-> o] :
               f \in {"LIC1", "LIC2"}, k \in Kids, a \in KeyAlgs,
               o \in PlainPayloads \cup {<<member("extra", <<"fraction">>)>>}}

tokenOf(i) == encode(i.format, i.alg, i.kid, i.object)

\* Ways a stored or transmitted token differs from the issued one.
edited(i, f(_)) == IF i.format = "LIC1" THEN [tokenOf(i).token EXCEPT !.segs[2].pairs = f(@)]
                   ELSE [tokenOf(i).token EXCEPT !.segs[1].message.pairs = f(@)]
relabelled(i, kid) == IF i.format = "LIC1" THEN [tokenOf(i).token EXCEPT !.segs[1].pairs[2] = member("kid", str(kid))]
                      ELSE [tokenOf(i).token EXCEPT !.segs[2].pairs[1] = member("kid", str(kid))]
reprefixed(t) == {[t EXCEPT !.prefix = p] : p \in {LIC1_PREFIX, LIC2_PREFIX, "LIC9."}}
resized(t) == {[t EXCEPT !.segs = SubSeq(@, 1, Len(@) - 1)], [t EXCEPT !.segs = Append(@, json(<<>>))]}
withSegment(t, n, kind) == [t EXCEPT !.segs[n] = [kind |-> kind]]
garbled(t) == {withSegment(t, n, k) : n \in DOMAIN t.segs, k \in {"badB64", "notJson"}}
edits(i) == {edited(i, LAMBDA s : Append(s, member("status", str("active")))),
             edited(i, LAMBDA s : Reverse(s)),
             edited(i, LAMBDA s : SelectSeq(s, LAMBDA m : m[1] # "jti")),
             edited(i, LAMBDA s : [s EXCEPT ![1] = member("exp", num(9))])}
reheaded(t) == {[t EXCEPT !.segs[1].pairs[1] = member("alg", str(a))] : a \in KeyAlgs \cup {"none"}}
               \cup {[t EXCEPT !.segs[1].pairs = Append(@, member("extra", num(1)))]}

variants(i) ==
    LET t == tokenOf(i).token IN
    {t} \cup reprefixed(t) \cup resized(t) \cup garbled(t)
    \cup {relabelled(i, k) : k \in Kids \cup {""}} \cup edits(i)
    \cup (IF i.format = "LIC1" THEN reheaded(t) ELSE {})

EnvelopeTokens == UNION {variants(i) : i \in {j \in Issued : tokenOf(j).ok}}
ClaimTokens == {encode("LIC1", "ed25519", "kid1", o).token : o \in ClaimMixes \cup ShapeMixes}
PlainTokens == {encode("LIC1", "ed25519", "kid1", o).token : o \in PlainPayloads}

\* What is presented in each focus.
Presented ==
    CASE focus = "envelopes" -> EnvelopeTokens
      [] focus = "claims"    -> ClaimTokens
      [] focus = "replay"    -> PlainTokens

-----------------------------------------------------------------------------
(* validate.ts                                                               *)

NumberClaims   == {"iat", "nbf", "exp", "max_usages"}
StringClaims   == {"jti", "scope", "license_id", "usage_id", "usage_fingerprint", "status"}
RequiredClaims == NumberClaims \cup StringClaims
asString(v) == typeof(v) = "str"
\* A finite number: canonical JSON writes integers only.
asNumber(v) == typeof(v) = "num" /\ content(v) \in Int
optionalOf(p, k) == IF k \in keysOf(p) THEN valueOf(p, k) ELSE Null

assertClaimShape(p) ==
    /\ RequiredClaims \subseteq keysOf(p)
    /\ \A k \in NumberClaims : asNumber(valueOf(p, k))
    /\ \A k \in StringClaims : asString(valueOf(p, k))
    /\ typeof(optionalOf(p, "entitlements")) \in {"null", "obj"}
    /\ LET foa == optionalOf(p, "force_online_after") IN typeof(foa) = "null" \/ asNumber(foa)
    /\ typeof(optionalOf(p, "aud")) \in {"null", "str", "arr"}
    /\ typeof(optionalOf(p, "iss")) \in {"null", "str"}

claim(p, k) == content(valueOf(p, k))

audMatches(p, pin) == LET aud == optionalOf(p, "aud") IN
    CASE typeof(aud) = "str" -> content(aud) = pin [] typeof(aud) = "arr" -> pin \in content(aud) [] OTHER -> FALSE

mustRefresh_Skewed(foa, nowSec, skew) == typeof(foa) = "num" /\ content(foa) + skew <= nowSec
\* The deadline is hard: skew does not apply to it.
mustRefresh(foa, nowSec, skew) == typeof(foa) = "num" /\ content(foa) <= nowSec

\* Everything between the signature and the ledger, in the code's order.
checkClaims(p, nowSec, skew, pin) ==
    IF ~assertClaimShape(p) THEN "InvalidTokenFormat" ELSE
    LET status == claim(p, "status")
        foa    == optionalOf(p, "force_online_after") IN
    IF claim(p, "nbf") > nowSec + skew THEN "TokenNotYetValid"
    ELSE IF claim(p, "exp") + skew < nowSec THEN "TokenExpired"
    ELSE IF status = "suspended" THEN "LicenseSuspended"
    ELSE IF status = "revoked" THEN "LicenseRevoked"
    ELSE IF status = "expired" THEN "TokenExpired"
    ELSE IF status \notin {"active", "grace"} THEN "InvalidTokenFormat"
    ELSE IF mustRefresh(foa, nowSec, skew) THEN "RequiresOnlineRefresh"
    ELSE IF claim(p, "usage_fingerprint") # Fingerprint THEN "FingerprintMismatch"
    ELSE IF pin # "none" /\ ~audMatches(p, pin) THEN "AudienceMismatch"
    ELSE IF pin # "none" /\ optionalOf(p, "iss") # str(pin) THEN "IssuerMismatch"
    ELSE "ok"

translateVerifyError(code) ==
    IF code \in {"UnknownKid", "AlgorithmMismatch", "UnsupportedAlgorithm"}
    THEN code ELSE "InvalidTokenFormat"

peek_LIC1Only(token) ==
    IF token.prefix # LIC1_PREFIX THEN failed("InvalidTokenFormat") ELSE
    LET parts == decodeLIC1(token.segs) IN
    [ok |-> TRUE, kid |-> parts.kid, alg |-> parts.alg, exp |-> claim(parts.payload, "exp"),
     forceOnlineAfter |-> optionalOf(parts.payload, "force_online_after")]

\* peek(): the same decoding and shape, no signature.
peek(token) ==
    LET parts == decodeUnverified(token) IN
    IF ~parts.ok \/ ~assertClaimShape(parts.payload) THEN failed("InvalidTokenFormat")
    ELSE [ok |-> TRUE, kid |-> parts.kid, alg |-> parts.alg, exp |-> claim(parts.payload, "exp"),
          forceOnlineAfter |-> optionalOf(parts.payload, "force_online_after")]

idle == [pc |-> "idle"]

\* A finished call: what the caller was told, and when.
verdict(p, c, code) ==
    /\ check' = [check EXCEPT ![p] = idle]
    /\ log' = log \cup {[n |-> Cardinality(log), proc |-> p, token |-> c.token, pin |-> c.pin,
                         nowSec |-> c.nowSec, at |-> now, code |-> code]}

\* The caller takes the time, validate parses and looks the key up.
Present(p, token, pin) ==
    /\ check[p].pc = "idle"
    /\ Cardinality(log) + Cardinality({q \in Procs : check[q].pc # "idle"}) < MaxCalls
    /\ LET parts == verifyStart(token)
           c == [pc |-> "verifying", token |-> token, pin |-> pin, nowSec |-> now] IN
       IF parts.ok THEN check' = [check EXCEPT ![p] = c] /\ UNCHANGED log
       ELSE verdict(p, c, translateVerifyError(parts.code))
    /\ UNCHANGED <<focus, now, ledger, losses>>

Verified_RecordsFirst(p) ==
    /\ check[p].pc = "verifying"
    /\ LET c     == check[p]
           parts == verifyFinish(decodeUnverified(c.token))
           code  == IF parts.ok THEN checkClaims(parts.payload, c.nowSec, Skew[p], c.pin)
                    ELSE translateVerifyError(parts.code) IN
       /\ IF code = "ok" THEN check' = [check EXCEPT ![p].pc = "recording"] /\ UNCHANGED log
          ELSE verdict(p, c, code)
       /\ ledger' = IF parts.ok /\ code = "FingerprintMismatch"
                    THEN (claim(parts.payload, "jti") :> claim(parts.payload, "exp")) @@ ledger ELSE ledger
    /\ UNCHANGED <<focus, now, losses>>

\* The backend answers; the claims are checked against the time taken before.
Verified(p) ==
    /\ check[p].pc = "verifying"
    /\ LET c     == check[p]
           parts == verifyFinish(decodeUnverified(c.token))
           code  == IF parts.ok THEN checkClaims(parts.payload, c.nowSec, Skew[p], c.pin)
                    ELSE translateVerifyError(parts.code) IN
       IF code = "ok" THEN check' = [check EXCEPT ![p].pc = "recording"] /\ UNCHANGED log
       ELSE verdict(p, c, code)
    /\ UNCHANGED <<focus, now, ledger, losses>>

jtiOf(token) == claim(decodeUnverified(token).payload, "jti")
expOf(token) == claim(decodeUnverified(token).payload, "exp")
pruneAt_NoSkew(p, token) == expOf(token)
pruneAt(p, token) == expOf(token) + Skew[p]

\* recordJtiUse: one insert that either writes the row or finds it.
recordJtiUse(p) ==
    /\ check[p].pc = "recording"
    /\ LET c == check[p]  jti == jtiOf(c.token)  first == jti \notin DOMAIN ledger IN
       /\ ledger' = IF first THEN [j \in DOMAIN ledger \cup {jti} |->
                                      IF j = jti THEN pruneAt(p, c.token) ELSE ledger[j]]
                    ELSE ledger
       /\ \/ verdict(p, c, IF first THEN "ok" ELSE "TokenReplayed") /\ UNCHANGED losses
          \/ \* the row is written and the answer never arrives
             /\ focus = "replay" /\ losses < MaxLosses /\ losses' = losses + 1
             /\ verdict(p, c, "ledger error")
    /\ UNCHANGED <<focus, now>>

\* pruneExpired(nowSec), from the operator's scheduler.
pruneExpired ==
    /\ ledger' = [j \in {k \in DOMAIN ledger : ledger[k] > now} |-> ledger[j]]
    /\ UNCHANGED <<focus, now, check, log, losses>>

(* Tick advances the wall clock.                                             *)
Tick == /\ now < MaxNow /\ now' = now + 1
        /\ UNCHANGED <<focus, ledger, check, log, losses>>

VerifierInit ==
    /\ focus \in Focuses /\ now \in IF focus = "claims" THEN 0..MaxNow ELSE {0}
    /\ ledger = <<>> /\ log = {} /\ losses = 0
    /\ check = [p \in Procs |-> idle]

\* Only "replay" needs the clock to move and several calls.
VerifierNext ==
    \/ /\ focus # "replay" => log = {} /\ \A q \in Procs : check[q].pc = "idle"
       /\ \E p \in Procs, pin \in (IF focus = "claims" THEN Pins ELSE {"none"}), t \in Presented :
            Present(p, t, pin)
    \/ \E p \in Procs : Verified(p) \/ recordJtiUse(p)
    \/ focus = "replay" /\ (pruneExpired \/ Tick)

VerifierSpec == VerifierInit /\ [][VerifierNext]_verifierVars
-----------------------------------------------------------------------------
(* Properties.                                                               *)

ClientCodes == {"ok", "InvalidTokenFormat", "UnknownKid", "AlgorithmMismatch", "UnsupportedAlgorithm",
                "TokenNotYetValid", "TokenExpired", "LicenseSuspended", "LicenseRevoked",
                "RequiresOnlineRefresh", "FingerprintMismatch", "AudienceMismatch", "IssuerMismatch",
                "TokenReplayed", "ledger error"}

\* Types: every verdict is a code of the client's taxonomy, and a call that
\* waits for the backend or the ledger holds a token the parser accepted.
VerifierTypeOK ==
    /\ focus \in Focuses /\ now \in 0..MaxNow /\ losses \in 0..MaxLosses
    /\ DOMAIN ledger \subseteq Jtis /\ \A j \in DOMAIN ledger : ledger[j] \in Nat
    /\ \A p \in Procs : check[p].pc # "idle" =>
         /\ check[p].pc \in {"verifying", "recording"}
         /\ decodeUnverified(check[p].token).ok /\ check[p].nowSec \in 0..now
    /\ \A e \in log : e.code \in ClientCodes /\ e.nowSec <= e.at

accepted == {e \in log : e.code = "ok"}
trusted(i) == /\ tokenOf(i).ok /\ i.kid \in DOMAIN Records \cap DOMAIN Bindings
              /\ i.alg = Records[i.kid] /\ i.alg = Bindings[i.kid] /\ i.alg \in Registry

\* verify() in lic1.ts accepts what a trusted key issued and nothing else: a
\* token of either format that was damaged, relabelled, re-prefixed or edited
\* on its way is refused, whichever codec it is routed to.
AcceptedWasIssued == focus = "envelopes" =>
    \A e \in accepted : \E i \in Issued : trusted(i) /\ e.token = tokenOf(i).token

\* The other direction: what a trusted key issued, through either codec's
\* encode, passes validate() unchanged while its window is open.
IssuedIsAccepted == focus = "envelopes" =>
    \A e \in log : (\E i \in Issued : trusted(i) /\ e.token = tokenOf(i).token) => e.code = "ok"

\* A signature backend only ever sees a key it was registered, bound and
\* recorded for, also when bindings and records disagree on a kid
\* (the algorithm-confusion guard of lic1.ts).
BackendMatchesKey == \A p \in Procs : check[p].pc # "idle" =>
    LET parts == decodeUnverified(check[p].token) IN
    /\ parts.alg \in Registry
    /\ parts.alg = Records[parts.kid] /\ parts.alg = Bindings[parts.kid]

\* validate() accepts exactly the claims its options allow, and of several
\* defects reports the one its header comment ranks first: an expired token is
\* TokenExpired even when the fingerprint also differs, and a claim that is
\* missing or of the wrong type is InvalidTokenFormat whatever else is wrong.
VerdictsExact == focus = "claims" => \A e \in log :
    LET p     == decodeUnverified(e.token).payload
        open  == claim(p, "nbf") - Skew[e.proc] <= e.nowSec /\ e.nowSec <= claim(p, "exp") + Skew[e.proc]
        foa   == optionalOf(p, "force_online_after")
        late  == typeof(foa) = "num" /\ content(foa) <= e.nowSec IN
    /\ ~assertClaimShape(p) => e.code = "InvalidTokenFormat"
    /\ assertClaimShape(p) =>
        /\ (e.code = "ok") <=>
              /\ open /\ ~late /\ claim(p, "status") \in {"active", "grace"}
              /\ claim(p, "usage_fingerprint") = Fingerprint
              /\ e.pin = "none" \/ (audMatches(p, e.pin) /\ optionalOf(p, "iss") = str(e.pin))
        /\ ~open => e.code \in {"TokenExpired", "TokenNotYetValid"}
        /\ e.code = "FingerprintMismatch" => open /\ ~late

\* peek() reads every token validate() accepts, in both formats, and reports
\* the key and the deadlines validate() decided on: refresh scheduling relies
\* on it.
PeekAgrees == \A e \in accepted : LET parts == decodeUnverified(e.token) IN
    peek(e.token) = [ok |-> TRUE, kid |-> parts.kid, alg |-> parts.alg,
                     exp |-> claim(parts.payload, "exp"),
                     forceOnlineAfter |-> optionalOf(parts.payload, "force_online_after")]

\* A jti is accepted once per ledger until the instant its first verifier's
\* window closes, whatever the verifiers' skews, the order their awaits resolve
\* in, and however often the operator prunes.
OneUsePerWindow == \A a, b \in accepted :
    (a.n < b.n /\ jtiOf(a.token) = jtiOf(b.token)) => b.at >= expOf(a.token) + Skew[a.proc]

\* Only a token that passed every other check takes a ledger entry, and a
\* TokenReplayed verdict always has such an earlier call behind it.
LedgerOnlyForPassed ==
    LET passed == {e \in log : e.code \in {"ok", "ledger error"}} IN
    /\ \A j \in DOMAIN ledger : \E e \in passed : jtiOf(e.token) = j
    /\ \A r \in log : r.code = "TokenReplayed" =>
         \E e \in passed : e.n < r.n /\ jtiOf(e.token) = jtiOf(r.token)

encodesAlike == \A i \in Issued : tokenOf(i).ok =>
    /\ encode(i.format, i.alg, i.kid, Reverse(i.object)) = tokenOf(i)
    /\ ToSet(decodeUnverified(tokenOf(i).token).payload) = ToSet(i.object)

\* Canonical JSON: the order a caller built a payload in never reaches the
\* wire, and decoding returns the members that were encoded.
EncodingIsCanonical == focus = "envelopes" => encodesAlike

Pieces  == UNION {[1..n -> 0..1] : n \in 0..2}
Vectors == UNION {[1..n -> Pieces] : n \in 0..3}
encodesApart == Cardinality({pae(v) : v \in Vectors}) = Cardinality(Vectors)

\* Pre-authentication encoding is unambiguous: no two vectors of pieces have
\* the same encoding, so nothing can move between payload and footer (lic2.ts).
PaeInjective == focus = "envelopes" => encodesApart

\* Encoding and verify() together (lic1.ts, lic2.ts, canonical-json.ts): exactly
\* what a trusted key issued is accepted, by the backend of that key, and no two
\* contents share an encoding.
CodecsExact ==
    /\ AcceptedWasIssued /\ IssuedIsAccepted /\ BackendMatchesKey
    /\ EncodingIsCanonical /\ PaeInjective

\* validate() and peek() decide on the same claims (validate.ts).
ValidateExact == VerdictsExact /\ PeekAgrees

\* The replay ledger of jti-ledger.ts takes every token that passed, once.
LedgerExact == OneUsePerWindow /\ LedgerOnlyForPassed

\* jti-ledger.ts promises more than OneUsePerWindow: a second validate of the
\* same token surfaces TokenReplayed.
SecondUseReplayed == \A a, b \in accepted : jtiOf(a.token) = jtiOf(b.token) => a = b

\* Every algorithm LIC1 lists as one it can carry verifies.
Lic1AlgsVerify == \A e \in log : \A i \in Issued :
    (trusted(i) /\ e.token = tokenOf(i).token) => e.code = "ok"
=============================================================================
