------------------------------- MODULE Tokens -------------------------------
(* Token envelopes: canonical JSON, the strict parser, the LIC1 and LIC2     *)
(* codecs behind the prefix router, and verify().  Text is abstracted to     *)
(* its structure: a JSON object is the sequence of its members, in the order *)
(* they are written, duplicates possible; a value is the pair of its JSON   *)
(* type and its content.  Bytes that are no JSON object, or no base64url,   *)
(* have a kind of their own.  Signatures are ideal: one verifies exactly     *)
(* under the key, algorithm and input it was made with.                      *)
EXTENDS Integers, Sequences, FiniteSets, SequencesExt

CONSTANTS Records,    \* kid -> alg of the trusted KeyRecords
          Bindings,   \* kid -> alg, the KeyAlgBindings
          Registry    \* the algorithms registered

KeyAlgs == {"ed25519", "rs256-pss", "hs256"}
failed(code) == [ok |-> FALSE, code |-> code]

str(s) == <<"str", s>>
num(n) == <<"num", n>>
arr(S) == <<"arr", S>>
typeof(v) == v[1]
content(v) == v[2]

member(k, v) == <<k, v>>
keysOf(pairs) == {pairs[i][1] : i \in DOMAIN pairs}
valueOf(pairs, k) == pairs[CHOOSE i \in DOMAIN pairs : pairs[i][1] = k][2]
json(pairs) == [kind |-> "json", pairs |-> pairs]

-----------------------------------------------------------------------------
(* Canonical JSON and its strict parser.                                     *)

\* UTF-16 order of the member names in use.
KeyOrder == <<"alg", "aud", "entitlements", "exp", "extra", "force_online_after", "iat", "iss", "jti", "kid",
              "license_id", "max_usages", "nbf", "scope", "status", "typ", "usage_fingerprint", "usage_id", "v">>
rank(k) == CHOOSE i \in DOMAIN KeyOrder : KeyOrder[i] = k
compareUtf16(a, b) == rank(a[1]) < rank(b[1])

\* What writeValue refuses: fractions, unsafe integers, lone surrogates.
writable(v) == typeof(v) # "fraction"

canonicalize_InsertionOrder(object) ==
    IF \A i \in DOMAIN object : writable(object[i][2])
    THEN [ok |-> TRUE, pairs |-> object]
    ELSE failed("CanonicalJSONInvalidNumber")

\* The members in that order: the n-th is the one with n - 1 before it.
ordered(object) ==
    LET members == ToSet(object) IN
    [n \in DOMAIN object |->
        CHOOSE m \in members : Cardinality({k \in members : compareUtf16(k, m)}) = n - 1]

canonicalize(object) ==
    IF \A i \in DOMAIN object : writable(object[i][2])
    THEN [ok |-> TRUE, pairs |-> ordered(object)]
    ELSE failed("CanonicalJSONInvalidNumber")

strictParse(bytes) ==
    IF bytes.kind # "json" THEN failed("TokenMalformed")
    ELSE IF Cardinality(keysOf(bytes.pairs)) # Len(bytes.pairs) THEN failed("CanonicalJSONDuplicateKey")
    ELSE [ok |-> TRUE, pairs |-> bytes.pairs]

-----------------------------------------------------------------------------
(* Pre-authentication encoding, over bytes 0..Base-1 and lengths of Width    *)
(* digits, of which the code has 256 and 8.                                  *)

Base  == 4
Width == 2
le64(n) == [i \in 1..Width |->
    LET digit == (n \div (IF i = 1 THEN 1 ELSE Base)) % Base IN
    IF i = Width THEN digit % (Base \div 2) ELSE digit]
pae_NoLengths(pieces) == le64(Len(pieces)) \o FlattenSeq(pieces)

pae(pieces) == le64(Len(pieces))
               \o FlattenSeq([i \in DOMAIN pieces |-> le64(Len(pieces[i])) \o pieces[i]])

-----------------------------------------------------------------------------
(* The codecs.                                                               *)

LIC1_PREFIX == "LIC1."
LIC2_PREFIX == "v4.public."
sign(kid, alg, input) == [kind |-> "sig", kid |-> kid, alg |-> alg, input |-> input]

\* What a signature covers.
lic1Input(header, payload) == <<"dotted", header, payload>>
signingInputFor(message, footer) == <<"pae", LIC2_PREFIX, message, footer>>

lic1Encode(alg, kid, object) ==
    LET payload == canonicalize(object)
        header  == canonicalize(<<member("v", num(1)), member("typ", str("lic")),
                                  member("alg", str(alg)), member("kid", str(kid))>>) IN
    IF ~payload.ok THEN payload ELSE
    LET h == json(header.pairs)  p == json(payload.pairs) IN
    [ok |-> TRUE, token |-> [prefix |-> LIC1_PREFIX,
                             segs |-> <<h, p, sign(kid, alg, lic1Input(h, p))>>]]

lic2Encode_NoFooter(alg, kid, object) ==
    LET message == canonicalize(object)
        footer  == canonicalize(<<member("kid", str(kid))>>) IN
    IF alg # "ed25519" THEN failed("UnsupportedAlgorithm") ELSE
    IF ~message.ok THEN message ELSE
    LET m == json(message.pairs)  f == json(footer.pairs) IN
    [ok |-> TRUE, token |-> [prefix |-> LIC2_PREFIX,
        segs |-> <<[kind |-> "body", message |-> m,
                    signature |-> sign(kid, alg, <<"pae", LIC2_PREFIX, m>>)], f>>]]

lic2Encode(alg, kid, object) ==
    LET message == canonicalize(object)
        footer  == canonicalize(<<member("kid", str(kid))>>) IN
    IF alg # "ed25519" THEN failed("UnsupportedAlgorithm") ELSE
    IF ~message.ok THEN message ELSE
    LET m == json(message.pairs)  f == json(footer.pairs) IN
    [ok |-> TRUE, token |-> [prefix |-> LIC2_PREFIX,
        segs |-> <<[kind |-> "body", message |-> m,
                    signature |-> sign(kid, alg, signingInputFor(m, f))], f>>]]

\* codecForFormat(...).encode(...), as token-service.ts calls it.
encode(format, alg, kid, object) ==
    IF format = "LIC1" THEN lic1Encode(alg, kid, object) ELSE lic2Encode(alg, kid, object)

HEADER_REQUIRED == {"v", "typ", "alg", "kid"}

parseHeader(bytes) ==
    LET obj == strictParse(bytes) IN
    IF ~obj.ok THEN obj
    ELSE IF keysOf(obj.pairs) # HEADER_REQUIRED THEN failed("TokenMalformed")
    ELSE IF valueOf(obj.pairs, "v") # num(1) \/ valueOf(obj.pairs, "typ") # str("lic") THEN
          failed("TokenMalformed")
    ELSE IF content(valueOf(obj.pairs, "alg")) \notin KeyAlgs THEN failed("UnsupportedAlgorithm")
    ELSE IF content(valueOf(obj.pairs, "kid")) = "" THEN failed("TokenMalformed")
    ELSE [ok |-> TRUE, alg |-> content(valueOf(obj.pairs, "alg")), kid |-> content(valueOf(obj.pairs, "kid"))]

envelope(alg, kid, pairs, input, signature) ==
    [ok |-> TRUE, alg |-> alg, kid |-> kid, payload |-> pairs,
     input |-> input, signature |-> signature]

decodeLIC1(segs) ==
    IF Len(segs) # 3 \/ \E i \in DOMAIN segs : segs[i].kind \in {"badB64", "body"}
    THEN failed("TokenMalformed")
    ELSE LET header  == parseHeader(segs[1])
             payload == strictParse(segs[2]) IN
         IF ~header.ok THEN header
         ELSE IF ~payload.ok THEN payload
         ELSE envelope(header.alg, header.kid, payload.pairs,
                              lic1Input(segs[1], segs[2]), segs[3])

parseFooter(bytes) ==
    LET obj == strictParse(bytes) IN
    IF ~obj.ok THEN obj
    ELSE IF "kid" \notin keysOf(obj.pairs) THEN failed("TokenMalformed")
    ELSE IF typeof(valueOf(obj.pairs, "kid")) # "str" \/ content(valueOf(obj.pairs, "kid")) = "" THEN failed("TokenMalformed")
    ELSE [ok |-> TRUE, kid |-> content(valueOf(obj.pairs, "kid"))]

\* A body of another kind is too short to hold a signature.
decodeLIC2(segs) ==
    IF Len(segs) # 2 \/ segs[1].kind # "body" \/ segs[Len(segs)].kind = "badB64"
    THEN failed("TokenMalformed")
    ELSE LET footer  == parseFooter(segs[2])
             payload == strictParse(segs[1].message) IN
         IF ~footer.ok THEN footer
         ELSE IF ~payload.ok THEN payload
         ELSE envelope("ed25519", footer.kid, payload.pairs,
                              signingInputFor(segs[1].message, segs[2]), segs[1].signature)

\* codecFor routes on the prefix; decodeUnverified is the chosen codec's decode.
codecFor(token) == CASE token.prefix = LIC1_PREFIX -> decodeLIC1(token.segs)
                     [] token.prefix = LIC2_PREFIX -> decodeLIC2(token.segs)
                     [] OTHER -> failed("UnsupportedTokenFormat")
decodeUnverified(token) == codecFor(token)

-----------------------------------------------------------------------------
(* verify(): what runs before the first await, and the backend's part.       *)

\* KeyAlgBindings.expect
expect(kid, alg) ==
    IF kid \notin DOMAIN Bindings THEN failed("UnknownKid")
    ELSE IF Bindings[kid] # alg THEN failed("AlgorithmMismatch")
    ELSE [ok |-> TRUE]

verifyStart_TrustsBinding(token) ==
    LET parts == decodeUnverified(token) IN
    IF ~parts.ok THEN parts ELSE
    LET bound == expect(parts.kid, parts.alg) IN
    IF ~bound.ok THEN bound
    ELSE IF parts.alg \notin Registry THEN failed("UnsupportedAlgorithm")
    ELSE IF parts.kid \notin DOMAIN Records THEN failed("UnknownKid")
    ELSE parts

verifyStart(token) ==
    LET parts == decodeUnverified(token) IN
    IF ~parts.ok THEN parts ELSE
    LET bound == expect(parts.kid, parts.alg) IN
    IF ~bound.ok THEN bound
    ELSE IF parts.alg \notin Registry THEN failed("UnsupportedAlgorithm")
    ELSE IF parts.kid \notin DOMAIN Records THEN failed("UnknownKid")
    ELSE IF Records[parts.kid] # parts.alg THEN failed("AlgorithmMismatch")
    ELSE parts

\* backend.importPublic(record): a KeyRecord carries PEM at its top level,
\* which the HMAC backend refuses.
importPublic(alg) == alg # "hs256"

backendVerify(parts) ==
    /\ parts.signature.kind = "sig"
    /\ parts.signature.kid = parts.kid
    /\ parts.signature.alg = parts.alg
    /\ parts.signature.input = parts.input

verifyFinish_Unchecked(parts) ==
    IF ~importPublic(parts.alg) THEN failed("TokenMalformed") ELSE parts

verifyFinish(parts) ==
    IF ~importPublic(parts.alg) THEN failed("TokenMalformed")
    ELSE IF ~backendVerify(parts) THEN failed("TokenSignatureInvalid")
    ELSE parts
=============================================================================
