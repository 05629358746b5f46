--------------------------- MODULE GatewayProofs ----------------------------
(* Theorems about what a request meets before the license logic: the replay  *)
(* ledger of verifiers that share it (Verifier), for any tokens, verifiers,  *)
(* skews and number of calls; the pipeline and its rate limiter (Pipeline),  *)
(* for any callers, addresses, burst and refill rate; the codecs, canonical  *)
(* JSON and the claim checks (Tokens, Verifier), for any kids, key records   *)
(* and bindings.                                                             *)
EXTENDS Verifier, Pipeline, FiniteSetTheorems, TLAPS

-----------------------------------------------------------------------------
(* The replay ledger.                                                        *)

\* The instant the window of an accepted call closes.
Closes(e) == expOf(e.token) + Skew[e.proc]

\* A call is at rest, or holds a token; one that waits for the ledger holds a
\* token whose exp is a number.
Waiting(k) ==
    \/ k = idle
    \/ /\ k = [pc |-> k.pc, token |-> k.token, pin |-> k.pin, nowSec |-> k.nowSec]
       /\ k.pc \in {"verifying", "recording"}
       /\ k.pc = "recording" => expOf(k.token) \in Int

CallsWait == DOMAIN check = Procs /\ \A p \in Procs : Waiting(check[p])

\* The verdicts are numbered in the order they were given, none in the future.
LogOrdered ==
    /\ now \in Int /\ IsFiniteSet(log)
    /\ \A e \in log : /\ e.n \in Nat /\ e.n < Cardinality(log)
                      /\ e.at \in Int /\ e.at <= now /\ e.proc \in Procs
                      /\ e.code = "ok" => expOf(e.token) \in Int

\* While the window of an accepted call is open its jti is in the ledger, with
\* an instant that pruning does not reach before the window closes.
EntryHolds ==
    /\ \A j \in DOMAIN ledger : ledger[j] \in Int
    /\ \A e \in accepted :
         \/ now >= Closes(e)
         \/ jtiOf(e.token) \in DOMAIN ledger /\ ledger[jtiOf(e.token)] >= Closes(e)

LedgerInv == CallsWait /\ LogOrdered /\ EntryHolds /\ LedgerExact

-----------------------------------------------------------------------------
\* A claim set that passed every check has a number for its exp.
LEMMA PassedHasExp ==
    ASSUME NEW token, NEW nowSec, NEW skew, NEW pin,
           checkClaims(decodeUnverified(token).payload, nowSec, skew, pin) = "ok"
    PROVE  expOf(token) \in Int
  <1> DEFINE q == decodeUnverified(token).payload
  <1>1. assertClaimShape(q)
    BY DEF checkClaims
  <1>2. asNumber(valueOf(q, "exp"))
    BY <1>1 DEF assertClaimShape, NumberClaims
  <1> QED
    BY <1>2 DEF asNumber, expOf, claim

\* A verdict adds one entry, numbered after all there are; those stay.
LEMMA VerdictAppends ==
    ASSUME LogOrdered, NEW p \in Procs, NEW c, NEW code, verdict(p, c, code)
    PROVE  \E e : /\ e \notin log /\ log' = log \cup {e}
                  /\ e.n = Cardinality(log) /\ e.proc = p /\ e.token = c.token
                  /\ e.at = now /\ e.code = code
  <1> DEFINE e == [n |-> Cardinality(log), proc |-> p, token |-> c.token, pin |-> c.pin,
                   nowSec |-> c.nowSec, at |-> now, code |-> code]
  <1>1. log' = log \cup {e}
    BY DEF verdict
  <1>2. Cardinality(log) \in Nat
    BY FS_CardinalityType DEF LogOrdered
  <1>3. e \notin log
    BY <1>2 DEF LogOrdered
  <1> QED
    BY <1>1, <1>3

LEMMA LogStaysOrdered ==
    ASSUME LogOrdered, NEW e, e \notin log, log' = log \cup {e}, now' = now,
           e.n = Cardinality(log), e.at = now, e.proc \in Procs,
           e.code = "ok" => expOf(e.token) \in Int
    PROVE  LogOrdered'
  <1>1. Cardinality(log) \in Nat
    BY FS_CardinalityType DEF LogOrdered
  <1>2. IsFiniteSet(log') /\ Cardinality(log') = Cardinality(log) + 1
    BY FS_AddElement DEF LogOrdered
  <1> QED
    BY <1>1, <1>2, SMTT(30) DEF LogOrdered

\* A call that returns to rest, or moves on, leaves the others where they are.
LEMMA VerdictRests ==
    ASSUME CallsWait, NEW p \in Procs, NEW c, NEW code, verdict(p, c, code)
    PROVE  CallsWait'
  BY DEF verdict, CallsWait, Waiting

\* A verdict that neither accepts nor reports a replay disturbs nothing.
LEMMA RefusalKeeps ==
    ASSUME LedgerInv, NEW p \in Procs, NEW c, NEW code, verdict(p, c, code),
           code \notin {"ok", "TokenReplayed"}, UNCHANGED <<now, ledger>>
    PROVE  LedgerInv'
  <1>1. PICK e : /\ e \notin log /\ log' = log \cup {e}
                 /\ e.n = Cardinality(log) /\ e.proc = p /\ e.token = c.token
                 /\ e.at = now /\ e.code = code
    BY VerdictAppends DEF LedgerInv
  <1>2. CallsWait'
    BY VerdictRests DEF LedgerInv
  <1>3. LogOrdered'
    BY <1>1, LogStaysOrdered DEF LedgerInv
  <1>4. accepted' = accepted
    BY <1>1 DEF accepted
  <1>5. EntryHolds' /\ OneUsePerWindow'
    BY <1>4 DEF LedgerInv, LedgerExact, EntryHolds, OneUsePerWindow, Closes
  <1>6. LedgerOnlyForPassed'
    BY <1>1 DEF LedgerInv, LedgerExact, LedgerOnlyForPassed
  <1> QED
    BY <1>2, <1>3, <1>5, <1>6 DEF LedgerInv, LedgerExact

\* The codes of the parser and of the claim checks are not the ledger's.
LEMMA EarlyCodes ==
    /\ \A code : translateVerifyError(code) \notin {"ok", "TokenReplayed"}
    /\ \A q, nowSec, skew, pin : checkClaims(q, nowSec, skew, pin) # "TokenReplayed"
  BY DEF translateVerifyError, checkClaims

LEMMA PresentKeeps ==
    ASSUME LedgerInv, NEW p \in Procs, NEW token, NEW pin, Present(p, token, pin)
    PROVE  LedgerInv'
  <1> DEFINE parts == verifyStart(token)
             c == [pc |-> "verifying", token |-> token, pin |-> pin, nowSec |-> now]
  <1>1. CASE ~parts.ok
    <2>1. verdict(p, c, translateVerifyError(parts.code)) /\ UNCHANGED <<now, ledger>>
      BY <1>1 DEF Present
    <2> HIDE DEF parts, c
    <2> QED
      BY <2>1, RefusalKeeps, EarlyCodes
  <1>2. CASE parts.ok
    <2>1. check' = [check EXCEPT ![p] = c] /\ UNCHANGED <<now, ledger, log>>
      BY <1>2 DEF Present
    <2>2. Waiting(c)
      BY DEF Waiting
    <2>3. CallsWait'
      BY <2>1, <2>2 DEF LedgerInv, CallsWait
    <2> QED
      BY <2>1, <2>3 DEF LedgerInv, LogOrdered, EntryHolds, LedgerExact, accepted,
                        OneUsePerWindow, LedgerOnlyForPassed, Closes
  <1> QED
    BY <1>1, <1>2

LEMMA VerifiedKeeps ==
    ASSUME LedgerInv, NEW p \in Procs, Verified(p)
    PROVE  LedgerInv'
  <1> DEFINE c == check[p]
             parts == verifyFinish(decodeUnverified(c.token))
             code == IF parts.ok THEN checkClaims(parts.payload, c.nowSec, Skew[p], c.pin)
                     ELSE translateVerifyError(parts.code)
  <1>1. code # "TokenReplayed"
    BY EarlyCodes
  <1>2. CASE code # "ok"
    <2>1. verdict(p, c, code) /\ UNCHANGED <<now, ledger>>
      BY <1>2 DEF Verified
    <2> HIDE DEF c, parts, code
    <2> QED
      BY <1>1, <1>2, <2>1, RefusalKeeps
  <1>3. CASE code = "ok"
    <2>1. /\ check[p].pc = "verifying" /\ check' = [check EXCEPT ![p].pc = "recording"]
          /\ UNCHANGED <<now, ledger, log>>
      BY <1>3 DEF Verified
    <2>2. parts.ok
      BY <1>3, EarlyCodes
    <2>3. parts = decodeUnverified(c.token)
      BY <2>2 DEF verifyFinish, failed
    <2>4. expOf(c.token) \in Int
      BY <1>3, <2>2, <2>3, PassedHasExp
    <2>5. check'[p] = [pc |-> "recording", token |-> c.token, pin |-> c.pin, nowSec |-> c.nowSec]
      BY <2>1 DEF LedgerInv, CallsWait, Waiting, idle
    <2>6. Waiting(check'[p])
      BY <2>4, <2>5 DEF Waiting
    <2>7. CallsWait'
      BY <2>1, <2>6 DEF LedgerInv, CallsWait
    <2> QED
      BY <2>1, <2>7 DEF LedgerInv, LogOrdered, EntryHolds, LedgerExact, accepted,
                        OneUsePerWindow, LedgerOnlyForPassed, Closes
  <1> QED
    BY <1>2, <1>3

\* recordJtiUse with the answer the caller gets: the row is written first.
RowThenVerdict(p, jti, code) ==
    /\ check[p].pc = "recording" /\ now' = now /\ verdict(p, check[p], code)
    /\ code \in {"ok", "TokenReplayed", "ledger error"}
    /\ code = "ok" => jti \notin DOMAIN ledger
    /\ code = "TokenReplayed" => jti \in DOMAIN ledger
    /\ ledger' = IF jti \notin DOMAIN ledger
                 THEN [j \in DOMAIN ledger \cup {jti} |->
                         IF j = jti THEN pruneAt(p, check[p].token) ELSE ledger[j]]
                 ELSE ledger

\* Whatever the caller is told, an accepted token is in the ledger until its
\* window closes.
LEMMA RowKeeps ==
    ASSUME LedgerInv, NEW p \in Procs, NEW code, RowThenVerdict(p, jtiOf(check[p].token), code)
    PROVE  LedgerInv'
  <1> DEFINE c == check[p]
             jti == jtiOf(c.token)
             first == jti \notin DOMAIN ledger
  <1>1. c.pc = "recording" /\ now' = now /\ verdict(p, c, code)
    BY DEF RowThenVerdict
  <1>2. expOf(c.token) \in Int
    BY <1>1 DEF LedgerInv, CallsWait, Waiting, idle
  <1>3. ledger' = IF first THEN [j \in DOMAIN ledger \cup {jti} |->
                                    IF j = jti THEN pruneAt(p, c.token) ELSE ledger[j]]
                  ELSE ledger
    BY DEF RowThenVerdict
  <1>4. /\ code \in {"ok", "TokenReplayed", "ledger error"}
        /\ code = "ok" => first
        /\ code = "TokenReplayed" => ~first
    BY DEF RowThenVerdict
  <1>5. PICK e : /\ e \notin log /\ log' = log \cup {e}
                 /\ e.n = Cardinality(log) /\ e.proc = p /\ e.token = c.token
                 /\ e.at = now /\ e.code = code
    BY <1>1, VerdictAppends DEF LedgerInv
  <1>6. CallsWait'
    BY <1>1, VerdictRests DEF LedgerInv
  <1>7. LogOrdered'
    BY <1>1, <1>2, <1>5, LogStaysOrdered DEF LedgerInv
  <1>8. pruneAt(p, c.token) = Closes(e) /\ Closes(e) \in Int
    <2>1. e.token = c.token /\ e.proc = p
      BY <1>5
    <2> HIDE DEF c
    <2>2. Closes(e) = expOf(c.token) + Skew[p]
      BY <2>1, Zenon DEF Closes
    <2> QED
      BY <1>2, <2>2, SkewAssumption DEF pruneAt
  <1> HIDE DEF c, jti, first
  <1>9. /\ DOMAIN ledger \subseteq DOMAIN ledger'
        /\ \A j \in DOMAIN ledger : ledger'[j] = ledger[j]
        /\ \A j \in DOMAIN ledger' : j \in DOMAIN ledger \/ (j = jti /\ ledger'[j] = Closes(e))
        /\ first => jti \in DOMAIN ledger' /\ ledger'[jti] = Closes(e)
    BY <1>3, <1>8 DEF first
  <1>10. accepted' = IF code = "ok" THEN accepted \cup {e} ELSE accepted
    BY <1>5 DEF accepted
  <1>11. jtiOf(e.token) = jti
    BY <1>5 DEF jti
  <1>12. EntryHolds'
    <2>1. \A j \in DOMAIN ledger' : ledger'[j] \in Int
      BY <1>8, <1>9 DEF LedgerInv, EntryHolds
    <2>2. ASSUME NEW a \in accepted'
          PROVE  \/ now' >= Closes(a)
                 \/ jtiOf(a.token) \in DOMAIN ledger' /\ ledger'[jtiOf(a.token)] >= Closes(a)
      <3>1. CASE a \in accepted
        BY <1>1, <1>9, <3>1 DEF LedgerInv, EntryHolds
      <3>2. CASE a = e /\ code = "ok"
        BY <1>4, <1>8, <1>9, <1>11, <3>2
      <3> QED
        BY <1>10, <3>1, <3>2
    <2> QED
      BY <2>1, <2>2 DEF EntryHolds, Closes
  <1>13. OneUsePerWindow'
    <2> SUFFICES ASSUME NEW a \in accepted', NEW b \in accepted',
                        a.n < b.n, jtiOf(a.token) = jtiOf(b.token)
                 PROVE  b.at >= expOf(a.token) + Skew[a.proc]
      BY DEF OneUsePerWindow
    <2>1. CASE a \in accepted /\ b \in accepted
      BY <2>1 DEF LedgerInv, LedgerExact, OneUsePerWindow
    <2>2. CASE a \in accepted /\ b = e /\ code = "ok"
      <3>1. jtiOf(a.token) \notin DOMAIN ledger
        BY <1>4, <1>11, <2>2 DEF first
      <3>2. now >= Closes(a)
        BY <2>2, <3>1 DEF LedgerInv, EntryHolds
      <3> QED
        BY <1>5, <2>2, <3>2 DEF Closes
    <2>3. CASE a = e
      <3>1. b \in log \cup {e}
        BY <1>5 DEF accepted
      <3>2. b.n \in Nat /\ Cardinality(log) \in Nat /\ ~(Cardinality(log) < b.n)
        <4>1. Cardinality(log) \in Nat
          BY FS_CardinalityType DEF LedgerInv, LogOrdered
        <4>2. CASE b \in log
          BY <4>1, <4>2 DEF LedgerInv, LogOrdered
        <4>3. CASE b = e
          BY <1>5, <4>1, <4>3
        <4> QED
          BY <3>1, <4>2, <4>3
      <3> QED
        BY <1>5, <2>3, <3>2
    <2> QED
      BY <1>10, <2>1, <2>2, <2>3
  <1>14. LedgerOnlyForPassed'
    <2> DEFINE passed == {x \in log : x.code \in {"ok", "ledger error"}}
               after == {x \in log' : x.code \in {"ok", "ledger error"}}
    <2>1. passed \subseteq after /\ (code # "TokenReplayed" => e \in after)
      BY <1>4, <1>5
    <2>2. ASSUME NEW j \in DOMAIN ledger'
          PROVE  \E x \in after : jtiOf(x.token) = j
      <3>1. CASE j \in DOMAIN ledger
        BY <2>1, <3>1 DEF LedgerInv, LedgerExact, LedgerOnlyForPassed
      <3>2. CASE j \notin DOMAIN ledger
        BY <1>4, <1>9, <1>11, <2>1, <3>2 DEF first
      <3> QED
        BY <3>1, <3>2
    <2>3. ASSUME NEW r \in log', r.code = "TokenReplayed"
          PROVE  \E x \in after : x.n < r.n /\ jtiOf(x.token) = jtiOf(r.token)
      <3>1. CASE r \in log
        BY <2>1, <2>3, <3>1 DEF LedgerInv, LedgerExact, LedgerOnlyForPassed
      <3>2. CASE r = e
        <4>1. jti \in DOMAIN ledger
          BY <1>4, <1>5, <2>3, <3>2 DEF first
        <4>2. PICK x \in passed : jtiOf(x.token) = jti
          BY <4>1 DEF LedgerInv, LedgerExact, LedgerOnlyForPassed
        <4>3. x.n < e.n
          BY <1>5, <4>2 DEF LedgerInv, LogOrdered
        <4> QED
          BY <1>11, <2>1, <3>2, <4>2, <4>3
      <3> QED
        BY <1>5, <3>1, <3>2
    <2> QED
      BY <2>2, <2>3 DEF LedgerOnlyForPassed
  <1> QED
    BY <1>6, <1>7, <1>12, <1>13, <1>14 DEF LedgerInv, LedgerExact

LEMMA RecordKeeps ==
    ASSUME LedgerInv, NEW p \in Procs, recordJtiUse(p)
    PROVE  LedgerInv'
  <1> DEFINE jti == jtiOf(check[p].token)
  <1>1. /\ check[p].pc = "recording" /\ now' = now
        /\ ledger' = IF jti \notin DOMAIN ledger
                     THEN [j \in DOMAIN ledger \cup {jti} |->
                             IF j = jti THEN pruneAt(p, check[p].token) ELSE ledger[j]]
                     ELSE ledger
    BY DEF recordJtiUse
  <1>2. \/ verdict(p, check[p], IF jti \notin DOMAIN ledger THEN "ok" ELSE "TokenReplayed")
        \/ verdict(p, check[p], "ledger error")
    BY DEF recordJtiUse
  <1>3. CASE jti \notin DOMAIN ledger /\ verdict(p, check[p], "ok")
    BY <1>1, <1>3, RowKeeps DEF RowThenVerdict
  <1>4. CASE jti \in DOMAIN ledger /\ verdict(p, check[p], "TokenReplayed")
    BY <1>1, <1>4, RowKeeps DEF RowThenVerdict
  <1>5. CASE verdict(p, check[p], "ledger error")
    BY <1>1, <1>5, RowKeeps DEF RowThenVerdict
  <1> QED
    BY <1>2, <1>3, <1>4, <1>5

\* The operator removes only entries whose window is over.
LEMMA PruneKeeps ==
    ASSUME LedgerInv, pruneExpired
    PROVE  LedgerInv'
  <1>1. /\ DOMAIN ledger' = {k \in DOMAIN ledger : ledger[k] > now}
        /\ \A j \in DOMAIN ledger' : ledger'[j] = ledger[j]
        /\ UNCHANGED <<now, check, log>>
    BY DEF pruneExpired
  <1>2. CallsWait' /\ LogOrdered' /\ OneUsePerWindow'
    BY <1>1 DEF LedgerInv, CallsWait, LogOrdered, LedgerExact, OneUsePerWindow, accepted
  <1>3. EntryHolds'
    <2>1. \A j \in DOMAIN ledger' : ledger'[j] \in Int
      BY <1>1 DEF LedgerInv, EntryHolds
    <2>2. ASSUME NEW a \in accepted
          PROVE  \/ now >= Closes(a)
                 \/ jtiOf(a.token) \in DOMAIN ledger' /\ ledger'[jtiOf(a.token)] >= Closes(a)
      <3>1. Closes(a) \in Int /\ now \in Int
        BY SkewAssumption DEF LedgerInv, LogOrdered, accepted, Closes
      <3> QED
        BY <1>1, <3>1 DEF LedgerInv, EntryHolds
    <2> QED
      BY <1>1, <2>1, <2>2 DEF EntryHolds, accepted, Closes
  <1>4. LedgerOnlyForPassed'
    BY <1>1 DEF LedgerInv, LedgerExact, LedgerOnlyForPassed
  <1> QED
    BY <1>2, <1>3, <1>4 DEF LedgerInv, LedgerExact

LEMMA TickKeeps ==
    ASSUME LedgerInv, Tick
    PROVE  LedgerInv'
  <1>1. now' = now + 1 /\ UNCHANGED <<ledger, check, log>>
    BY DEF Tick
  <1>2. CallsWait' /\ LedgerExact'
    BY <1>1 DEF LedgerInv, CallsWait, LedgerExact, OneUsePerWindow, LedgerOnlyForPassed, accepted
  <1>3. LogOrdered'
    BY <1>1 DEF LedgerInv, LogOrdered
  <1>4. \A a \in accepted : Closes(a) \in Int
    BY SkewAssumption DEF LedgerInv, LogOrdered, accepted, Closes
  <1>5. EntryHolds'
    BY <1>1, <1>4 DEF LedgerInv, LogOrdered, EntryHolds, accepted, Closes
  <1> QED
    BY <1>2, <1>3, <1>5 DEF LedgerInv

-----------------------------------------------------------------------------
\* The ledger's invariant: an accepted token's entry outlives its window.
THEOREM LedgerInvariant == VerifierSpec => []LedgerInv
  <1>1. VerifierInit => LedgerInv
    <2> SUFFICES ASSUME VerifierInit PROVE LedgerInv
      OBVIOUS
    <2>1. CallsWait /\ IsFiniteSet(log) /\ log = {} /\ now \in Int
      BY FS_EmptySet DEF VerifierInit, CallsWait, Waiting
    <2>2. DOMAIN ledger = {}
      BY DEF VerifierInit
    <2> QED
      BY <2>1, <2>2 DEF LedgerInv, LogOrdered, EntryHolds, LedgerExact, accepted,
                        OneUsePerWindow, LedgerOnlyForPassed
  <1>2. LedgerInv /\ [VerifierNext]_verifierVars => LedgerInv'
    <2> SUFFICES ASSUME LedgerInv, [VerifierNext]_verifierVars PROVE LedgerInv'
      OBVIOUS
    <2>1. ASSUME NEW p \in Procs, NEW pin, NEW t, Present(p, t, pin) PROVE LedgerInv'
      BY <2>1, PresentKeeps
    <2>2. ASSUME NEW p \in Procs, Verified(p) \/ recordJtiUse(p) PROVE LedgerInv'
      BY <2>2, VerifiedKeeps, RecordKeeps
    <2>3. CASE pruneExpired \/ Tick
      BY <2>3, PruneKeeps, TickKeeps
    <2>4. CASE UNCHANGED verifierVars
      BY <2>4 DEF verifierVars, LedgerInv, CallsWait, LogOrdered, EntryHolds, LedgerExact,
                  accepted, OneUsePerWindow, LedgerOnlyForPassed, Closes
    <2> QED
      BY <2>1, <2>2, <2>3, <2>4 DEF VerifierNext
  <1> QED
    BY <1>1, <1>2, PTL DEF VerifierSpec

\* A jti is accepted once until its window closes, and TokenReplayed is only
\* said of a jti that was taken (jti-ledger.ts), whatever tokens are presented.
THEOREM LedgerIsExact == VerifierSpec => []LedgerExact
  <1>1. LedgerInv => LedgerExact
    BY DEF LedgerInv
  <1> QED
    BY <1>1, LedgerInvariant, PTL

-----------------------------------------------------------------------------
(* The pipeline.                                                             *)

Stages == {"idle", "auth", "verify", "limit", "get", "set", "handler", "thrown",
           "guard", "onSuccess", "route", "answered"}

\* The records the callers' requests go through.
CallRecords ==
    [at : Stages, wire : Wire, route : 0..8, subject : {None}, authSubject : {None, "shared-secret"},
     start : Int, seen : [tokens : Int, lastRefillMs : Int], status : Int, retryAfter : Int,
     ran : BOOLEAN, actorId : {None}, passed : SUBSET {"fingerprint", "license", "hook"}]

\* The request carries the public header, or the verifier accepted its
\* credential.
Cleared(k) ==
    \/ Routes[k.route].public \/ k.wire.routePublic
    \/ k.authSubject = "shared-secret" /\ k.wire.authorization = "secret"

\* What is known of a request at each stage of the pipeline.
Staged(k, guarding) ==
    /\ k.at # "answered" => k.status = 0
    /\ k.at \notin {"thrown", "answered"} => ~k.ran
    /\ k.at \in {"auth", "verify"} => k.route # 0
    /\ k.at \in {"limit", "get", "set", "handler", "thrown"} => k.route # 0 /\ Cleared(k)
    /\ k.at \in {"guard", "onSuccess", "route"} => guarding
    /\ k.at = "guard" => k.passed = {"fingerprint"}
    /\ k.at = "onSuccess" => k.passed = {"fingerprint", "license"}
    /\ k.at = "route" => k.passed = {"fingerprint", "license", "hook"}

\* What HandlerBehindChecks says of one request.
BehindChecks(k, guarding) ==
    /\ k.ran => \/ guarding /\ k.passed = {"fingerprint", "license", "hook"}
                \/ k.route # 0 /\ Cleared(k)
    /\ k.status \in {401, 404, 405, 429} /\ ~guarding => ~k.ran

RequestOK(k, guarding) == k \in CallRecords /\ Staged(k, guarding) /\ BehindChecks(k, guarding)

PipeInv == DOMAIN call = Callers /\ \A c \in Callers : RequestOK(call[c], pipe = "guard")

-----------------------------------------------------------------------------
LEMMA EightRoutes == DOMAIN Routes = 1..8
  BY DEF Routes, clientRoutes, adminRoutes

\* The least of the routes that stop the router is one of them.
LEMMA LeastStop ==
    ASSUME NEW stops, stops \subseteq 1..8, stops # {}
    PROVE  Min(stops) \in stops
  <1> SUFFICES \E x \in stops : \A y \in stops : x <= y
    BY DEF Min
  <1>1. CASE 1 \in stops
    BY <1>1
  <1>2. CASE 1 \notin stops /\ 2 \in stops
    BY <1>2
  <1>3. CASE 1 \notin stops /\ 2 \notin stops /\ 3 \in stops
    BY <1>3
  <1>4. CASE 1 \notin stops /\ 2 \notin stops /\ 3 \notin stops /\ 4 \in stops
    BY <1>4
  <1>5. CASE 1 \notin stops /\ 2 \notin stops /\ 3 \notin stops /\ 4 \notin stops /\ 5 \in stops
    BY <1>5
  <1>6. CASE 1 \notin stops /\ 2 \notin stops /\ 3 \notin stops /\ 4 \notin stops /\ 5 \notin stops /\ 6 \in stops
    BY <1>6
  <1>7. CASE stops \cap 1..6 = {} /\ 7 \in stops
    BY <1>7
  <1>8. CASE stops \cap 1..7 = {} /\ 8 \in stops
    BY <1>8
  <1>9. \/ 1 \in stops \/ 2 \in stops \/ 3 \in stops \/ 4 \in stops \/ 5 \in stops \/ 6 \in stops
        \/ stops \cap 1..6 = {} /\ 7 \in stops
        \/ stops \cap 1..7 = {} /\ 8 \in stops
    <2>1. PICK x : x \in stops
      OBVIOUS
    <2>2. \/ x = 1 \/ x = 2 \/ x = 3 \/ x = 4 \/ x = 5 \/ x = 6 \/ x = 7 \/ x = 8
      BY <2>1
    <2>3. \A y \in 1..6 : y = 1 \/ y = 2 \/ y = 3 \/ y = 4 \/ y = 5 \/ y = 6
      OBVIOUS
    <2>4. \A y \in 1..7 : y \in 1..6 \/ y = 7
      OBVIOUS
    <2> QED
      BY <2>1, <2>2, <2>3, <2>4, SMTT(30)
  <1> QED
    BY <1>1, <1>2, <1>3, <1>4, <1>5, <1>6, <1>7, <1>8, <1>9

\* The router answers by itself or names one of its routes.
LEMMA DispatchResult ==
    ASSUME NEW method, NEW path
    PROVE  LET d == dispatch(method, path)
           IN  IF "status" \in DOMAIN d THEN d.status \in {404, 405, 500} ELSE d.index \in 1..8
  <1> DEFINE stops == {i \in DOMAIN Routes :
                         \/ matchSegments(Routes[i].path, path) = "URIError"
                         \/ /\ matchSegments(Routes[i].path, path) = "params"
                            /\ Routes[i].method = method}
             d == dispatch(method, path)
  <1>1. stops \subseteq 1..8
    BY EightRoutes
  <1>2. stops = {} => "status" \in DOMAIN d /\ d.status \in {404, 405}
    BY DEF dispatch
  <1>3. stops # {} => \/ "status" \in DOMAIN d /\ d.status = 500
                      \/ d = [index |-> Min(stops)]
    BY DEF dispatch
  <1> HIDE DEF stops, d
  <1>4. stops # {} => Min(stops) \in stops
    BY <1>1, LeastStop
  <1>5. CASE stops = {}
    BY <1>2, <1>5 DEF d
  <1>6. CASE stops # {}
    <2>1. CASE d = [index |-> Min(stops)]
      <3>1. "status" \notin DOMAIN d /\ d.index = Min(stops)
        BY <2>1
      <3> QED
        BY <1>1, <1>4, <1>6, <3>1 DEF d
    <2> QED
      BY <1>3, <1>6, <2>1 DEF d
  <1> QED
    BY <1>5, <1>6

LEMMA SteadyIsWire == Steady \in Wire
  BY PipeAssumption DEF Steady, Wire, Paths, Json, None

LEMMA IdleIsOK == \A guarding \in BOOLEAN : RequestOK(NoCall, guarding)
  <1>1. NoCall \in CallRecords
    BY SteadyIsWire DEF NoCall, CallRecords, NoBucket, None, Stages
  <1>2. NoCall.at = "idle" /\ ~NoCall.ran /\ NoCall.status = 0
    BY DEF NoCall
  <1>3. Staged(NoCall, TRUE) /\ Staged(NoCall, FALSE)
    BY <1>2 DEF Staged
  <1>4. BehindChecks(NoCall, TRUE) /\ BehindChecks(NoCall, FALSE)
    BY <1>2 DEF BehindChecks
  <1> QED
    BY <1>1, <1>3, <1>4 DEF RequestOK

LEMMA OneMoves ==
    ASSUME PipeInv, NEW c \in Callers, DOMAIN call' = Callers, pipe' = pipe,
           \A d \in Callers : d # c => call'[d] = call[d],
           RequestOK(call'[c], pipe = "guard")
    PROVE  PipeInv'
  BY DEF PipeInv

\* What a step that leaves a request's identity alone carries over.
Same(k, m) ==
    /\ m.wire = k.wire /\ m.route = k.route /\ m.authSubject = k.authSubject /\ m.passed = k.passed

\* A request is answered; `ran` says whether a handler has run by then.
LEMMA AnswerKeeps ==
    ASSUME PipeInv, NEW c \in Callers, NEW s \in Int, pipe' = pipe, call' = answer(c, s),
           ~call[c].ran \/ pipe = "guard" \/ s \notin {401, 404, 405, 429}
    PROVE  PipeInv'
  <1>1. call[c] \in CallRecords /\ BehindChecks(call[c], pipe = "guard")
    BY DEF PipeInv, RequestOK
  <1>2. DOMAIN call' = Callers /\ \A d \in Callers : d # c => call'[d] = call[d]
    BY DEF PipeInv, answer
  <1>3. call'[c] \in CallRecords
    BY <1>1 DEF PipeInv, answer, CallRecords, Stages
  <1>4. /\ call'[c].at = "answered" /\ call'[c].status = s /\ call'[c].ran = call[c].ran
        /\ Same(call[c], call'[c])
    BY <1>1 DEF PipeInv, answer, CallRecords, Same
  <1>5. Staged(call'[c], pipe = "guard")
    BY <1>4 DEF Staged
  <1>6. BehindChecks(call'[c], pipe = "guard")
    BY <1>1, <1>4 DEF BehindChecks, Same, Cleared
  <1> QED
    BY <1>2, <1>3, <1>5, <1>6, OneMoves DEF RequestOK

\* A request moves on before any handler has run.
LEMMA StageKeeps ==
    ASSUME PipeInv, NEW c \in Callers, pipe' = pipe,
           DOMAIN call' = Callers, \A d \in Callers : d # c => call'[d] = call[d],
           call'[c] \in CallRecords, ~call'[c].ran, Staged(call'[c], pipe = "guard")
    PROVE  PipeInv'
  <1>1. BehindChecks(call'[c], pipe = "guard")
    BY DEF BehindChecks
  <1> QED
    BY <1>1, OneMoves DEF RequestOK

LEMMA ReceiveKeeps ==
    ASSUME PipeInv, NEW c \in Callers, Receive(c)
    PROVE  PipeInv'
  <1>1. pipe \in {"routes", "limits"} /\ pipe' = pipe
    BY DEF Receive
  <1>2. Wires \subseteq Wire
    BY <1>1, SteadyIsWire DEF Wires, Wire
  <1>3. PICK w \in Wires :
          LET d == dispatch(w.method, w.path) IN
          call' = [call EXCEPT ![c] =
                     IF frameworkRefuses(server, w) THEN turnedAway(w, 400)
                     ELSE IF ~isKnownMethod(w.method) THEN turnedAway(w, 405)
                     ELSE IF "status" \in DOMAIN d THEN turnedAway(w, d.status)
                     ELSE routed(w, d.index)]
    BY DEF Receive
  <1>4. DOMAIN call' = Callers /\ \A d \in Callers : d # c => call'[d] = call[d]
    BY <1>3 DEF PipeInv
  <1>5. NoCall \in CallRecords /\ ~NoCall.ran /\ NoCall.status = 0
    BY IdleIsOK DEF RequestOK, NoCall
  <1> DEFINE d == dispatch(w.method, w.path)
  <1>6. IF "status" \in DOMAIN d THEN d.status \in {404, 405, 500} ELSE d.index \in 1..8
    BY DispatchResult
  <1>7. \/ call'[c] = turnedAway(w, 400)
        \/ call'[c] = turnedAway(w, 405)
        \/ "status" \in DOMAIN d /\ call'[c] = turnedAway(w, d.status)
        \/ "status" \notin DOMAIN d /\ call'[c] = routed(w, d.index)
    BY <1>3 DEF PipeInv
  <1> HIDE DEF d
  <1>8. ASSUME NEW s \in Int, call'[c] = turnedAway(w, s)
        PROVE  PipeInv'
    <2>1. call'[c] \in CallRecords /\ ~call'[c].ran /\ call'[c].at = "answered"
      BY <1>2, <1>5, <1>8, ZenonT(30) DEF CallRecords, Stages, turnedAway
    <2>2. Staged(call'[c], pipe = "guard")
      BY <2>1 DEF Staged
    <2> QED
      BY <1>1, <1>4, <2>1, <2>2, StageKeeps
  <1>9. ASSUME NEW i \in 1..8, call'[c] = routed(w, i)
        PROVE  PipeInv'
    <2>1. call'[c] \in CallRecords
      <3>1. i \in 0..8 /\ w \in Wire
        BY <1>2
      <3> QED
        BY <1>5, <1>9, <3>1, ZenonT(30) DEF CallRecords, Stages, routed
    <2>2. /\ ~call'[c].ran /\ call'[c].at = "auth"
          /\ call'[c].route = i /\ call'[c].status = 0
      BY <1>5, <1>9 DEF CallRecords, routed
    <2>3. Staged(call'[c], pipe = "guard")
      BY <2>2 DEF Staged
    <2> QED
      BY <1>1, <1>4, <2>1, <2>2, <2>3, StageKeeps
  <1>10. d.status \in {404, 405, 500} => d.status \in Int
    OBVIOUS
  <1> QED
    BY <1>6, <1>7, <1>8, <1>9, <1>10

LEMMA BearerAuthKeeps ==
    ASSUME PipeInv, NEW c \in Callers, bearerAuth(c)
    PROVE  PipeInv'
  <1>1. /\ call[c].at = "auth" /\ pipe' = pipe /\ call[c] \in CallRecords
        /\ Staged(call[c], pipe = "guard")
    BY DEF bearerAuth, PipeInv, RequestOK
  <1>2. CASE call' = answer(c, 401)
    BY <1>1, <1>2, AnswerKeeps DEF Staged
  <1>3. ASSUME NEW at \in {"limit", "verify"}, call' = goto(c, at),
               at = "limit" => flagged(c)
        PROVE  PipeInv'
    <2>1. /\ DOMAIN call' = Callers /\ \A d \in Callers : d # c => call'[d] = call[d]
          /\ call'[c] \in CallRecords
      BY <1>1, <1>3 DEF PipeInv, goto, CallRecords, Stages
    <2>2. /\ call'[c].at = at /\ call'[c].ran = call[c].ran /\ call'[c].status = call[c].status
          /\ Same(call[c], call'[c])
      BY <1>1, <1>3 DEF PipeInv, goto, CallRecords, Same
    <2>3. ~call'[c].ran /\ Staged(call'[c], pipe = "guard")
      BY <1>1, <1>3, <2>2 DEF Staged, Same, Cleared, flagged
    <2> QED
      BY <1>1, <2>1, <2>3, StageKeeps
  <1> QED
    BY <1>2, <1>3 DEF bearerAuth

LEMMA VerifyKeeps ==
    ASSUME PipeInv, NEW c \in Callers, verify(c)
    PROVE  PipeInv'
  <1>1. /\ call[c].at = "verify" /\ pipe' = pipe /\ call[c] \in CallRecords
        /\ Staged(call[c], pipe = "guard")
    BY DEF verify, PipeInv, RequestOK
  <1>2. PICK identity \in {sharedSecretVerifier(parseBearer(call[c].wire)), "throws"} :
          call' = IF identity \in {None, "throws"} THEN answer(c, 401)
                  ELSE [call EXCEPT ![c].at = "limit", ![c].authSubject = identity]
    BY DEF verify
  <1>3. CASE identity \in {None, "throws"}
    BY <1>1, <1>2, <1>3, AnswerKeeps DEF Staged
  <1>4. CASE identity \notin {None, "throws"}
    <2>1. identity = "shared-secret" /\ call[c].wire.authorization = "secret"
      BY <1>2, <1>4 DEF sharedSecretVerifier, parseBearer, None
    <2>2. call' = [call EXCEPT ![c].at = "limit", ![c].authSubject = "shared-secret"]
      BY <1>2, <1>4, <2>1
    <2>3. DOMAIN call' = Callers /\ \A d \in Callers : d # c => call'[d] = call[d]
      BY <2>2 DEF PipeInv
    <2>4. call'[c] \in CallRecords
      BY <1>1, <2>2 DEF PipeInv, CallRecords, Stages
    <2>5. /\ call'[c].at = "limit" /\ call'[c].ran = call[c].ran /\ call'[c].status = call[c].status
          /\ call'[c].wire = call[c].wire /\ call'[c].route = call[c].route
          /\ call'[c].authSubject = "shared-secret"
      BY <1>1, <2>2 DEF PipeInv, CallRecords
    <2>6. ~call'[c].ran /\ Staged(call'[c], pipe = "guard")
      BY <1>1, <2>1, <2>5 DEF Staged, Cleared
    <2> QED
      BY <1>1, <2>3, <2>4, <2>6, StageKeeps
  <1> QED
    BY <1>3, <1>4

-----------------------------------------------------------------------------
Buckets == [tokens : Int, lastRefillMs : Int]

BucketsTyped == time \in Int /\ bucket \in [Keys -> Buckets]

LEMMA MinOfTwo ==
    ASSUME NEW a \in Int, NEW b \in Int
    PROVE  Min({a, b}) = IF a <= b THEN a ELSE b
  BY DEF Min

LEMMA MaxOfTwo ==
    ASSUME NEW a \in Int, NEW b \in Int
    PROVE  Max({a, b}) = IF a >= b THEN a ELSE b
  BY DEF Max

\* The key of a request is one the store knows.
LEMMA KeyIsKey ==
    ASSUME PipeInv, NEW c \in Callers
    PROVE  keyOf(c) \in Keys
  BY DEF PipeInv, RequestOK, CallRecords, Wire, keyOf, remoteAddr, remoteAddrFrom,
         clientIpFromHeaders, ip, Keys

LEMMA OneType == One \in Nat \ {0} /\ Burst * One \in Nat
  BY PipeAssumption DEF One

\* What one refill yields.
LEMMA RefillValue ==
    ASSUME NEW b \in Buckets, NEW nowMs \in Int, b.lastRefillMs <= nowMs
    PROVE  refill(b, nowMs) = IF Burst * One <= b.tokens + (nowMs - b.lastRefillMs) * RefillNum
                              THEN Burst * One ELSE b.tokens + (nowMs - b.lastRefillMs) * RefillNum
  <1>1. Max({0, nowMs - b.lastRefillMs}) = nowMs - b.lastRefillMs
    BY MaxOfTwo DEF Buckets
  <1> DEFINE x == b.tokens + (nowMs - b.lastRefillMs) * RefillNum
  <1>2. x \in Int /\ Burst * One \in Int
    BY OneType, PipeAssumption DEF Buckets
  <1>3. refill(b, nowMs) = Min({Burst * One, x})
    BY <1>1 DEF refill
  <1> HIDE DEF x
  <1>4. Min({Burst * One, x}) = IF Burst * One <= x THEN Burst * One ELSE x
    BY <1>2, MinOfTwo
  <1> QED
    BY <1>3, <1>4 DEF x

LEMMA RefillType ==
    ASSUME NEW b \in Buckets, NEW nowMs \in Int
    PROVE  refill(b, nowMs) \in Int
  <1> DEFINE m == Max({0, nowMs - b.lastRefillMs})
             x == b.tokens + m * RefillNum
  <1>1. m \in Int
    BY MaxOfTwo DEF Buckets
  <1> HIDE DEF m
  <1>2. x \in Int /\ Burst * One \in Int
    BY <1>1, OneType, PipeAssumption DEF Buckets
  <1>3. refill(b, nowMs) = Min({Burst * One, x})
    BY DEF refill, m
  <1> HIDE DEF x
  <1> QED
    BY <1>2, <1>3, MinOfTwo

\* Retry-After, in seconds, is long enough for one token to come back.
LEMMA RetryAfterSuffices ==
    ASSUME NEW credit \in Int
    PROVE  /\ retryAfter(credit) \in Int /\ retryAfter(credit) >= 1
           /\ credit + Second * retryAfter(credit) * RefillNum >= One
  <1> DEFINE sr == Second * RefillNum
             n == One - credit
             q == (n + sr - 1) \div sr
  <1>1. sr \in Nat /\ sr > 0 /\ n \in Int
    BY PipeAssumption, OneType
  <1>2. retryAfter(credit) = Max({1, q})
    BY DEF retryAfter
  <1> HIDE DEF sr, n
  <1>3. q \in Int /\ sr * q >= n
    BY <1>1
  <1> HIDE DEF q
  <1>4. retryAfter(credit) = IF 1 >= q THEN 1 ELSE q
    BY <1>2, <1>3, MaxOfTwo
  <1>5. retryAfter(credit) \in Int /\ retryAfter(credit) >= 1 /\ retryAfter(credit) >= q
    BY <1>3, <1>4
  <1>6. sr * retryAfter(credit) >= n
    BY <1>1, <1>3, <1>5
  <1> QED
    BY <1>5, <1>6, PipeAssumption, OneType DEF sr, n

\* A request that stays cleared on its way through the limiter.
LEMMA LimiterStage ==
    ASSUME PipeInv, NEW c \in Callers, pipe' = pipe,
           DOMAIN call' = Callers, \A d \in Callers : d # c => call'[d] = call[d],
           call'[c] \in CallRecords, call[c].at \in {"limit", "get", "set"},
           call'[c].at \in {"get", "set", "handler"},
           call'[c].ran = call[c].ran, call'[c].status = call[c].status, Same(call[c], call'[c])
    PROVE  PipeInv'
  <1>1. Staged(call[c], pipe = "guard")
    BY DEF PipeInv, RequestOK
  <1>2. ~call'[c].ran /\ call'[c].status = 0 /\ call'[c].route # 0 /\ Cleared(call'[c])
    BY <1>1 DEF Staged, Same, Cleared
  <1>3. Staged(call'[c], pipe = "guard")
    BY <1>2 DEF Staged
  <1> QED
    BY <1>2, <1>3, StageKeeps

LEMMA SkipPublicKeeps ==
    ASSUME PipeInv, NEW c \in Callers, skipPublic(c)
    PROVE  PipeInv'
  <1>1. /\ call[c].at = "limit" /\ pipe' = pipe /\ call[c] \in CallRecords
        /\ call' = [call EXCEPT ![c].at = "handler"]
    BY DEF skipPublic, PipeInv, RequestOK, goto
  <1>2. DOMAIN call' = Callers /\ \A d \in Callers : d # c => call'[d] = call[d]
    BY <1>1 DEF PipeInv
  <1>3. call'[c] \in CallRecords
    BY <1>1 DEF PipeInv, CallRecords, Stages
  <1>4. /\ call'[c].at = "handler" /\ call'[c].ran = call[c].ran /\ call'[c].status = call[c].status
        /\ Same(call[c], call'[c])
    BY <1>1 DEF PipeInv, CallRecords, Same
  <1> QED
    BY <1>1, <1>2, <1>3, <1>4, LimiterStage

LEMMA RateLimitKeeps ==
    ASSUME PipeInv, BucketsTyped, NEW c \in Callers, rateLimit(c)
    PROVE  PipeInv'
  <1>1. /\ call[c].at = "limit" /\ pipe' = pipe /\ call[c] \in CallRecords /\ time \in Int
        /\ call' = [call EXCEPT ![c].at = "get", ![c].start = time]
    BY DEF rateLimit, PipeInv, RequestOK, BucketsTyped
  <1>2. DOMAIN call' = Callers /\ \A d \in Callers : d # c => call'[d] = call[d]
    BY <1>1 DEF PipeInv
  <1>3. call'[c] \in CallRecords
    BY <1>1 DEF PipeInv, CallRecords, Stages
  <1>4. /\ call'[c].at = "get" /\ call'[c].ran = call[c].ran /\ call'[c].status = call[c].status
        /\ Same(call[c], call'[c])
    BY <1>1 DEF PipeInv, CallRecords, Same
  <1> QED
    BY <1>1, <1>2, <1>3, <1>4, LimiterStage

LEMMA StoreGetKeeps ==
    ASSUME PipeInv, BucketsTyped, NEW c \in Callers, storeGet(c)
    PROVE  PipeInv'
  <1> DEFINE b == IF bucket[keyOf(c)] = NoBucket
                  THEN [tokens |-> Burst * One, lastRefillMs |-> call[c].start]
                  ELSE bucket[keyOf(c)]
  <1>1. /\ call[c].at = "get" /\ pipe' = pipe /\ call[c] \in CallRecords
        /\ call' = [call EXCEPT ![c].at = "set", ![c].seen = b]
    BY DEF storeGet, PipeInv, RequestOK
  <1>2. b \in Buckets
    BY <1>1, KeyIsKey, OneType DEF BucketsTyped, Buckets, CallRecords
  <1> HIDE DEF b
  <1>3. DOMAIN call' = Callers /\ \A d \in Callers : d # c => call'[d] = call[d]
    BY <1>1 DEF PipeInv
  <1>4. call'[c] \in CallRecords
    BY <1>1, <1>2 DEF PipeInv, CallRecords, Stages, Buckets
  <1>5. /\ call'[c].at = "set" /\ call'[c].ran = call[c].ran /\ call'[c].status = call[c].status
        /\ Same(call[c], call'[c])
    BY <1>1 DEF PipeInv, CallRecords, Same
  <1> QED
    BY <1>1, <1>3, <1>4, <1>5, LimiterStage

LEMMA AdmitKeeps ==
    ASSUME PipeInv, NEW c \in Callers, Admit(c)
    PROVE  PipeInv'
  <1>1. /\ call[c].at = "set" /\ pipe' = pipe /\ call[c] \in CallRecords
        /\ call' = [call EXCEPT ![c].at = "handler"]
    BY DEF Admit, PipeInv, RequestOK, goto
  <1>2. DOMAIN call' = Callers /\ \A d \in Callers : d # c => call'[d] = call[d]
    BY <1>1 DEF PipeInv
  <1>3. call'[c] \in CallRecords
    BY <1>1 DEF PipeInv, CallRecords, Stages
  <1>4. /\ call'[c].at = "handler" /\ call'[c].ran = call[c].ran /\ call'[c].status = call[c].status
        /\ Same(call[c], call'[c])
    BY <1>1 DEF PipeInv, CallRecords, Same
  <1> QED
    BY <1>1, <1>2, <1>3, <1>4, LimiterStage

\* What the limiter counts with is a bucket with numbers in it.
LEMMA RefilledType ==
    ASSUME PipeInv, NEW c \in Callers
    PROVE  refilled(c) \in Int /\ call[c].seen \in Buckets /\ call[c].start \in Int
  BY RefillType DEF PipeInv, RequestOK, CallRecords, Buckets, refilled

LEMMA AnsweredRecord ==
    ASSUME NEW k \in CallRecords, NEW s \in Int
    PROVE  [k EXCEPT !.at = "answered", !.status = s] \in CallRecords
  BY DEF CallRecords, Stages

LEMMA WaitRecord ==
    ASSUME NEW k \in CallRecords, NEW s \in Int
    PROVE  [k EXCEPT !.retryAfter = s] \in CallRecords
  BY DEF CallRecords

LEMMA RanRecord ==
    ASSUME NEW k \in CallRecords
    PROVE  [k EXCEPT !.ran = TRUE] \in CallRecords
  BY DEF CallRecords

LEMMA GuardRecord ==
    ASSUME NEW k \in CallRecords
    PROVE  [k EXCEPT !.at = "guard", !.passed = {"fingerprint"}] \in CallRecords
  BY DEF CallRecords, Stages

LEMMA RefuseKeeps ==
    ASSUME PipeInv, NEW c \in Callers, Refuse(c)
    PROVE  PipeInv'
  <1> DEFINE wait == retryAfter(refilled(c))
  <1>1. /\ call[c].at = "set" /\ pipe' = pipe /\ call[c] \in CallRecords
        /\ call' = [call EXCEPT ![c].at = "answered", ![c].status = 429, ![c].retryAfter = wait]
        /\ Staged(call[c], pipe = "guard")
    BY DEF Refuse, PipeInv, RequestOK
  <1>2. wait \in Int
    BY RefilledType, RetryAfterSuffices
  <1> HIDE DEF wait
  <1>3. DOMAIN call' = Callers /\ \A d \in Callers : d # c => call'[d] = call[d]
    BY <1>1 DEF PipeInv
  <1>4. call'[c] \in CallRecords
    <2> DEFINE m == [call[c] EXCEPT !.at = "answered", !.status = 429]
    <2>1. m \in CallRecords
      <3>1. 429 \in Int
        OBVIOUS
      <3> QED
        BY <1>1, <3>1, AnsweredRecord, Zenon
    <2>2. call'[c] = [m EXCEPT !.retryAfter = wait]
      BY <1>1 DEF PipeInv
    <2> HIDE DEF m
    <2> QED
      BY <1>2, <2>1, <2>2, WaitRecord
  <1>5. call'[c].at = "answered" /\ call'[c].ran = call[c].ran
    BY <1>1 DEF PipeInv, CallRecords
  <1>6. ~call'[c].ran /\ Staged(call'[c], pipe = "guard")
    BY <1>1, <1>5 DEF Staged
  <1> QED
    BY <1>1, <1>3, <1>4, <1>6, StageKeeps

\* A handler has run: its request was cleared.
LEMMA RanKeeps ==
    ASSUME PipeInv, NEW c \in Callers, pipe' = pipe,
           DOMAIN call' = Callers, \A d \in Callers : d # c => call'[d] = call[d],
           call'[c] \in CallRecords, call[c].at = "handler", Same(call[c], call'[c]),
           \/ call'[c].at = "answered" /\ call'[c].status \in {200, 400, 409}
           \/ call'[c].at = "thrown" /\ call'[c].status = call[c].status
    PROVE  PipeInv'
  <1>1. Staged(call[c], pipe = "guard")
    BY DEF PipeInv, RequestOK
  <1>2. call'[c].route # 0 /\ Cleared(call'[c]) /\ call[c].status = 0
    BY <1>1 DEF Staged, Same, Cleared
  <1>3. Staged(call'[c], pipe = "guard")
    BY <1>2 DEF Staged
  <1>4. BehindChecks(call'[c], pipe = "guard")
    BY <1>2 DEF BehindChecks
  <1> QED
    BY <1>3, <1>4, OneMoves DEF RequestOK

LEMMA HandlerKeeps ==
    ASSUME PipeInv, NEW c \in Callers, handler(c)
    PROVE  PipeInv'
  <1>1. /\ call[c].at = "handler" /\ pipe' = pipe /\ call[c] \in CallRecords
        /\ \/ call' = [answer(c, 400) EXCEPT ![c].ran = TRUE]
           \/ \E s \in {200, 409} :
                call' = [answer(c, s) EXCEPT ![c].ran = TRUE, ![c].actorId = call[c].subject]
           \/ call' = [goto(c, "thrown") EXCEPT ![c].ran = TRUE]
    BY DEF handler, PipeInv, RequestOK, adminActor
  <1>2. /\ DOMAIN call' = Callers /\ \A d \in Callers : d # c => call'[d] = call[d]
    BY <1>1 DEF PipeInv, answer, goto
  <1>3. CASE call' = [answer(c, 400) EXCEPT ![c].ran = TRUE]
    <2>1. call'[c] \in CallRecords
      <3> DEFINE m == [call[c] EXCEPT !.at = "answered", !.status = 400]
      <3>1. m \in CallRecords
        <4>1. 400 \in Int
          OBVIOUS
        <4> QED
          BY <1>1, <4>1, AnsweredRecord, ZenonT(30)
      <3>2. call'[c] = [m EXCEPT !.ran = TRUE]
        BY <1>1, <1>3 DEF PipeInv, answer
      <3> HIDE DEF m
      <3> QED
        BY <3>1, <3>2, RanRecord
    <2>2. /\ Same(call[c], call'[c]) /\ call'[c].at = "answered" /\ call'[c].status = 400
      BY <1>1, <1>3 DEF PipeInv, answer, CallRecords, Same
    <2> QED
      BY <1>1, <1>2, <2>1, <2>2, RanKeeps
  <1>4. ASSUME NEW s \in {200, 409},
               call' = [answer(c, s) EXCEPT ![c].ran = TRUE, ![c].actorId = call[c].subject]
        PROVE  PipeInv'
    <2>1. call'[c] \in CallRecords
      BY <1>1, <1>4 DEF PipeInv, answer, CallRecords, Stages
    <2>2. /\ Same(call[c], call'[c]) /\ call'[c].at = "answered" /\ call'[c].status = s
      BY <1>1, <1>4 DEF PipeInv, answer, CallRecords, Same
    <2> QED
      BY <1>1, <1>2, <2>1, <2>2, RanKeeps
  <1>5. CASE call' = [goto(c, "thrown") EXCEPT ![c].ran = TRUE]
    <2>1. call'[c] \in CallRecords
      BY <1>1, <1>5 DEF PipeInv, goto, CallRecords, Stages
    <2>2. /\ Same(call[c], call'[c]) /\ call'[c].at = "thrown" /\ call'[c].status = call[c].status
      BY <1>1, <1>5 DEF PipeInv, goto, CallRecords, Same
    <2> QED
      BY <1>1, <1>2, <2>1, <2>2, RanKeeps
  <1> QED
    BY <1>1, <1>3, <1>4, <1>5, ZenonT(30)

LEMMA LastResortKeeps ==
    ASSUME PipeInv, NEW c \in Callers, lastResort(c)
    PROVE  PipeInv'
  BY AnswerKeeps DEF lastResort

LEMMA LicenseGuardKeeps ==
    ASSUME PipeInv, NEW c \in Callers, licenseGuard(c)
    PROVE  PipeInv'
  <1>1. /\ pipe = "guard" /\ pipe' = pipe
        /\ \/ call' = [call EXCEPT ![c] = [NoCall EXCEPT !.at = "answered", !.status = 400]]
           \/ call' = [call EXCEPT ![c] = [NoCall EXCEPT !.at = "guard", !.passed = {"fingerprint"}]]
    BY DEF licenseGuard
  <1>2. /\ DOMAIN call' = Callers /\ \A d \in Callers : d # c => call'[d] = call[d]
    BY <1>1 DEF PipeInv
  <1>3. NoCall \in CallRecords /\ ~NoCall.ran /\ NoCall.status = 0
    BY IdleIsOK DEF RequestOK, NoCall
  <1>4. CASE call'[c] = [NoCall EXCEPT !.at = "answered", !.status = 400]
    <2>1. call'[c] \in CallRecords
      <3>1. 400 \in Int
        OBVIOUS
      <3>2. [NoCall EXCEPT !.at = "answered", !.status = 400] \in CallRecords
        BY <1>3, <3>1, AnsweredRecord, Zenon
      <3> QED
        BY <1>4, <3>2, Zenon
    <2>2. ~call'[c].ran /\ call'[c].at = "answered"
      BY <1>3, <1>4 DEF CallRecords
    <2>3. Staged(call'[c], pipe = "guard")
      BY <2>2 DEF Staged
    <2> QED
      BY <1>1, <1>2, <2>1, <2>2, <2>3, StageKeeps
  <1>5. CASE call'[c] = [NoCall EXCEPT !.at = "guard", !.passed = {"fingerprint"}]
    <2>1. call'[c] \in CallRecords
      <3>1. [NoCall EXCEPT !.at = "guard", !.passed = {"fingerprint"}] \in CallRecords
        BY <1>3, GuardRecord, Zenon
      <3> QED
        BY <1>5, <3>1, Zenon
    <2>2. /\ ~call'[c].ran /\ call'[c].at = "guard" /\ call'[c].passed = {"fingerprint"}
          /\ call'[c].status = 0
      BY <1>3, <1>5 DEF CallRecords
    <2>3. Staged(call'[c], pipe = "guard")
      BY <1>1, <2>2 DEF Staged
    <2> QED
      BY <1>1, <1>2, <2>1, <2>2, <2>3, StageKeeps
  <1> QED
    BY <1>1, <1>4, <1>5 DEF PipeInv

\* The license and then the hook are added to what the request has passed.
LEMMA PassKeeps ==
    ASSUME PipeInv, NEW c \in Callers, pipe' = pipe, ~call[c].ran, call[c].status = 0, pipe = "guard",
           NEW at \in {"onSuccess", "route"}, NEW what \in {"license", "hook"},
           call' = [call EXCEPT ![c].at = at, ![c].passed = call[c].passed \cup {what}],
           at = "onSuccess" => call[c].passed \cup {what} = {"fingerprint", "license"},
           at = "route" => call[c].passed \cup {what} = {"fingerprint", "license", "hook"}
    PROVE  PipeInv'
  <1>1. call[c] \in CallRecords
    BY DEF PipeInv, RequestOK
  <1>2. /\ DOMAIN call' = Callers /\ \A d \in Callers : d # c => call'[d] = call[d]
    BY DEF PipeInv
  <1>3. call'[c] \in CallRecords
    BY <1>1 DEF PipeInv, CallRecords, Stages
  <1>4. /\ call'[c].at = at /\ call'[c].passed = call[c].passed \cup {what}
        /\ call'[c].ran = call[c].ran /\ call'[c].status = call[c].status
    BY <1>1 DEF PipeInv, CallRecords
  <1>5. ~call'[c].ran /\ Staged(call'[c], pipe = "guard")
    BY <1>4 DEF Staged
  <1> QED
    BY <1>2, <1>3, <1>5, StageKeeps

LEMMA ClientGuardKeeps ==
    ASSUME PipeInv, NEW c \in Callers, clientGuard(c)
    PROVE  PipeInv'
  <1>1. /\ call[c].at = "guard" /\ pipe' = pipe /\ Staged(call[c], pipe = "guard")
    BY DEF clientGuard, PipeInv, RequestOK
  <1>2. /\ ~call[c].ran /\ call[c].status = 0 /\ pipe = "guard" /\ call[c].passed = {"fingerprint"}
    BY <1>1 DEF Staged
  <1>3. ASSUME NEW code \in Codes, call' = answer(c, STATUS_BY_CODE(code)) PROVE PipeInv'
    <2>1. STATUS_BY_CODE(code) \in Int
      BY DEF STATUS_BY_CODE
    <2> QED
      BY <1>1, <1>2, <1>3, <2>1, AnswerKeeps
  <1>4. CASE call' = [call EXCEPT ![c].at = "onSuccess", ![c].passed = call[c].passed \cup {"license"}]
    BY <1>1, <1>2, <1>4, PassKeeps
  <1> QED
    BY <1>3, <1>4 DEF clientGuard

LEMMA OnSuccessKeeps ==
    ASSUME PipeInv, NEW c \in Callers, onSuccess(c)
    PROVE  PipeInv'
  <1>1. /\ call[c].at = "onSuccess" /\ pipe' = pipe /\ Staged(call[c], pipe = "guard")
    BY DEF onSuccess, PipeInv, RequestOK
  <1>2. /\ ~call[c].ran /\ call[c].status = 0 /\ pipe = "guard"
        /\ call[c].passed = {"fingerprint", "license"}
    BY <1>1 DEF Staged
  <1>3. CASE call' = answer(c, 500)
    BY <1>1, <1>2, <1>3, AnswerKeeps
  <1>4. CASE call' = [call EXCEPT ![c].at = "route", ![c].passed = call[c].passed \cup {"hook"}]
    BY <1>1, <1>2, <1>4, PassKeeps
  <1> QED
    BY <1>3, <1>4 DEF onSuccess

LEMMA GuardedKeeps ==
    ASSUME PipeInv, NEW c \in Callers, guarded(c)
    PROVE  PipeInv'
  <1>1. /\ call[c].at = "route" /\ pipe' = pipe /\ Staged(call[c], pipe = "guard")
        /\ call[c] \in CallRecords /\ call' = [answer(c, 200) EXCEPT ![c].ran = TRUE]
    BY DEF guarded, PipeInv, RequestOK
  <1>2. pipe = "guard" /\ call[c].passed = {"fingerprint", "license", "hook"}
    BY <1>1 DEF Staged
  <1>3. /\ DOMAIN call' = Callers /\ \A d \in Callers : d # c => call'[d] = call[d]
    BY <1>1 DEF PipeInv, answer
  <1>4. call'[c] \in CallRecords
    <2> DEFINE m == [call[c] EXCEPT !.at = "answered", !.status = 200]
    <2>1. m \in CallRecords
      <3>1. 200 \in Int
        OBVIOUS
      <3> QED
        BY <1>1, <3>1, AnsweredRecord, Zenon
    <2>2. call'[c] = [m EXCEPT !.ran = TRUE]
      BY <1>1 DEF PipeInv, answer
    <2> HIDE DEF m
    <2> QED
      BY <2>1, <2>2, RanRecord
  <1>5. call'[c].at = "answered" /\ call'[c].passed = call[c].passed
    BY <1>1 DEF PipeInv, answer, CallRecords
  <1>6. Staged(call'[c], pipe = "guard") /\ BehindChecks(call'[c], pipe = "guard")
    BY <1>2, <1>5 DEF Staged, BehindChecks
  <1> QED
    BY <1>1, <1>3, <1>4, <1>6, OneMoves, ZenonT(30) DEF RequestOK

LEMMA DoneKeeps ==
    ASSUME PipeInv, NEW c \in Callers, Done(c)
    PROVE  PipeInv'
  <1>1. call' = [call EXCEPT ![c] = NoCall] /\ pipe' = pipe
    BY DEF Done
  <1>2. /\ DOMAIN call' = Callers /\ \A d \in Callers : d # c => call'[d] = call[d]
        /\ call'[c] = NoCall
    BY <1>1 DEF PipeInv
  <1>3. RequestOK(NoCall, pipe = "guard")
    BY IdleIsOK
  <1> QED
    BY <1>1, <1>2, <1>3, OneMoves

-----------------------------------------------------------------------------
LEMMA BucketsStayTyped ==
    ASSUME PipeInv, BucketsTyped, [PipeNext]_pipeVars
    PROVE  BucketsTyped'
  <1>1. ASSUME NEW c \in Callers, Refuse(c) PROVE BucketsTyped'
    <2>1. keyOf(c) \in Keys /\ refilled(c) \in Int /\ call[c].start \in Int
      BY KeyIsKey, RefilledType
    <2> QED
      BY <1>1, <2>1 DEF Refuse, BucketsTyped, Buckets
  <1>2. ASSUME NEW c \in Callers, Admit(c) PROVE BucketsTyped'
    <2>1. keyOf(c) \in Keys /\ refilled(c) - One \in Int /\ call[c].start \in Int
      BY KeyIsKey, RefilledType, OneType
    <2> QED
      BY <1>2, <2>1 DEF Admit, BucketsTyped, Buckets
  <1>3. CASE TickTime
    BY <1>3 DEF TickTime, BucketsTyped, limiterState
  <1>4. CASE UNCHANGED <<time, bucket>>
    BY <1>4 DEF BucketsTyped
  <1> QED
    BY <1>1, <1>2, <1>3, <1>4, ZenonT(30) DEF PipeNext, Serve, pipeVars, limiterState, Receive, licenseGuard,
       bearerAuth, verify, skipPublic, rateLimit, storeGet, handler, lastResort, clientGuard, onSuccess,
       guarded, Done

\* The pipeline's invariant: what each stage knows of its request.
THEOREM PipeInvariant == PipeSpec => [](PipeInv /\ BucketsTyped)
  <1>1. PipeInit => PipeInv /\ BucketsTyped
    <2> SUFFICES ASSUME PipeInit PROVE PipeInv /\ BucketsTyped
      OBVIOUS
    <2>1. PipeInv
      BY IdleIsOK DEF PipeInit, PipeInv
    <2>2. BucketsTyped
      BY DEF PipeInit, BucketsTyped, Buckets, NoBucket
    <2> QED
      BY <2>1, <2>2
  <1>2. PipeInv /\ BucketsTyped /\ [PipeNext]_pipeVars => PipeInv' /\ BucketsTyped'
    <2> SUFFICES ASSUME PipeInv, BucketsTyped, [PipeNext]_pipeVars PROVE PipeInv' /\ BucketsTyped'
      OBVIOUS
    <2>1. BucketsTyped'
      BY BucketsStayTyped
    <2>2. ASSUME NEW c \in Callers, Receive(c) \/ licenseGuard(c) \/ Serve(c) \/ Done(c)
          PROVE  PipeInv'
      BY <2>2, ReceiveKeeps, LicenseGuardKeeps, BearerAuthKeeps, VerifyKeeps, SkipPublicKeeps, RateLimitKeeps,
         StoreGetKeeps, RefuseKeeps, AdmitKeeps, HandlerKeeps, LastResortKeeps, ClientGuardKeeps,
         OnSuccessKeeps, GuardedKeeps, DoneKeeps DEF Serve
    <2>3. CASE TickTime \/ UNCHANGED pipeVars
      <3>1. UNCHANGED <<pipe, call>>
        BY <2>3 DEF TickTime, pipeVars
      <3> QED
        BY <2>1, <3>1 DEF PipeInv
    <2> QED
      BY <2>1, <2>2, <2>3 DEF PipeNext
  <1> QED
    BY <1>1, <1>2, PTL DEF PipeSpec

\* The routes whose handlers read a body are reached with POST and PATCH only.
LEMMA BodyRoutes ==
    ASSUME NEW w, readsBody(w)
    PROVE  w.method \in {"POST", "PATCH"}
  <1> DEFINE stops == {i \in DOMAIN Routes :
                         \/ matchSegments(Routes[i].path, w.path) = "URIError"
                         \/ /\ matchSegments(Routes[i].path, w.path) = "params"
                            /\ Routes[i].method = w.method}
             d == dispatch(w.method, w.path)
             URI == stops # {} /\ matchSegments(Routes[Min(stops)].path, w.path) = "URIError"
  <1>1. "index" \in DOMAIN d /\ Routes[d.index].body
    BY DEF readsBody
  <1>2. /\ stops = {} => DOMAIN d = {"status"}
        /\ URI => DOMAIN d = {"status"}
        /\ stops # {} /\ ~URI => d = [index |-> Min(stops)]
    BY DEF dispatch
  <1>3. stops # {} /\ ~URI /\ d.index = Min(stops)
    <2> HIDE DEF d, stops, URI
    <2>1. DOMAIN d # {"status"}
      BY <1>1
    <2>2. d = [index |-> Min(stops)] => d.index = Min(stops)
      OBVIOUS
    <2> QED
      BY <1>2, <2>1, <2>2, Zenon
  <1>4. d.index \in 1..8
    <2>1. "status" \notin DOMAIN d
      BY <1>2, <1>3
    <2> QED
      BY <2>1, DispatchResult
  <1>5. Min(stops) \in stops
    <2>1. stops \subseteq 1..8
      BY EightRoutes
    <2> HIDE DEF stops
    <2> QED
      BY <1>3, <2>1, LeastStop
  <1>6. Routes[d.index].method = w.method
    BY <1>3, <1>5
  <1> HIDE DEF d
  <1>7. \A i \in 1..8 : Routes[i].body => Routes[i].method \in {"POST", "PATCH"}
    BY DEF Routes, clientRoutes, adminRoutes, route
  <1> QED
    BY <1>1, <1>4, <1>6, <1>7

\* The adapters agree on whether such a request brings a JSON object.
LEMMA BodiesAgree ==
    ASSUME NEW w \in Wire, NEW a \in Adapters, readsBody(w)
    PROVE  takesObject(a, w) <=> w.body = "object"
  <1>1. w.method \in {"POST", "PATCH"} /\ w.body \in Json \cup {"none", "text"}
    BY BodyRoutes DEF Wire
  <1> QED
    BY <1>1 DEF Adapters, Json, bodyOf, readBody, readJsonBody, readHonoBody, bodyOrUndefined,
                requireJsonObject, takesObject, frameworkRefuses

\* A handler runs only behind its checks, and what it is given does not depend
\* on the framework in front of it (node.ts, express.ts, fastify.ts, hono.ts).
THEOREM PipelineIsExact == PipeSpec => []PipelineExact
  <1>1. PipeInv => PipelineExact
    <2> SUFFICES ASSUME PipeInv PROVE PipelineExact
      OBVIOUS
    <2>1. HandlerBehindChecks
      BY DEF PipeInv, RequestOK, BehindChecks, Cleared, HandlerBehindChecks, flagged
    <2>2. BodiesReadAlike
      BY BodiesAgree DEF PipeInv, RequestOK, CallRecords, BodiesReadAlike
    <2> QED
      BY <2>1, <2>2 DEF PipelineExact
  <1> QED
    BY <1>1, PipeInvariant, PTL

-----------------------------------------------------------------------------
(* The rate limiter.                                                         *)

\* Every window that ends with the last refill leaves the credit that is left.
Spent(b, adm) ==
    \A i \in DOMAIN adm :
        (Len(adm) - i + 1) * One + b.tokens <= Burst * One + (b.lastRefillMs - adm[i]) * RefillNum

\* The wait that was promised brings one token back.
Promised(b, pr) ==
    pr = -1 \/ (pr >= b.lastRefillMs /\ b.tokens + (pr - b.lastRefillMs) * RefillNum >= One)

Budget(b, adm, pr) == b.tokens >= 0 /\ Spent(b, adm) /\ Promised(b, pr)

\* withinBurst, of a history.
Within(adm) ==
    \A i, j \in DOMAIN adm : i <= j =>
        (j - i + 1) * One <= Burst * One + (adm[j] - adm[i]) * RefillNum

InLimiter(k) == k.at \in {"get", "set"}

\* The bucket a request works on: the first request finds a full one.
Effective(b, s) == IF b = NoBucket THEN [tokens |-> Burst * One, lastRefillMs |-> s] ELSE b

\* The books of one address agree at time t.
Account(b, adm, pr, t) ==
    /\ Within(adm)
    /\ IF b = NoBucket THEN adm = <<>> /\ pr = -1 ELSE b.lastRefillMs <= t /\ Budget(b, adm, pr)

\* What a request inside the limiter knows is still so.
Visit(k, b, t) ==
    InLimiter(k) => /\ k.start <= t
                    /\ b # NoBucket => b.lastRefillMs <= k.start
                    /\ k.at = "set" => k.seen = Effective(b, k.start)

LimiterTyped == admitted \in [Keys -> Seq(Int)] /\ promise \in [Keys -> Int]

\* Requests of an address that never overlapped are in the limiter one by one.
Alone ==
    \A c, d \in Callers :
        InLimiter(call[c]) /\ InLimiter(call[d]) /\ keyOf(c) = keyOf(d) /\ keyOf(c) \notin overlapped
            => c = d

Accounts == \A k \in Keys : k \notin overlapped => Account(bucket[k], admitted[k], promise[k], time)

Visits == \A c \in Callers : keyOf(c) \notin overlapped => Visit(call[c], bucket[keyOf(c)], time)

LimiterInv == LimiterTyped /\ Alone /\ Accounts /\ Visits

LEMMA RefillBounds ==
    ASSUME NEW b \in Buckets, NEW s \in Int, b.lastRefillMs <= s, b.tokens >= 0
    PROVE  /\ refill(b, s) \in Int /\ refill(b, s) >= 0 /\ refill(b, s) <= Burst * One
           /\ refill(b, s) <= b.tokens + (s - b.lastRefillMs) * RefillNum
  <1> DEFINE x == b.tokens + (s - b.lastRefillMs) * RefillNum
  <1>1. refill(b, s) = IF Burst * One <= x THEN Burst * One ELSE x
    BY RefillValue
  <1>2. (s - b.lastRefillMs) * RefillNum \in Nat
    BY PipeAssumption DEF Buckets
  <1>3. x \in Int /\ x >= 0 /\ Burst * One \in Nat
    BY <1>2, OneType DEF Buckets
  <1> HIDE DEF x
  <1>4. /\ refill(b, s) \in Int /\ refill(b, s) >= 0 /\ refill(b, s) <= Burst * One
        /\ refill(b, s) <= x
    BY <1>1, <1>3
  <1> QED
    BY <1>4 DEF x

\* A refill at a later instant keeps the account of every window.
LEMMA SpentLater ==
    ASSUME NEW b \in Buckets, NEW s \in Int, b.lastRefillMs <= s, b.tokens >= 0,
           NEW adm \in Seq(Int), Spent(b, adm), NEW i \in DOMAIN adm
    PROVE  (Len(adm) - i + 1) * One + refill(b, s) <= Burst * One + (s - adm[i]) * RefillNum
  <1> DEFINE r == refill(b, s)
             n == (Len(adm) - i + 1) * One
             full == Burst * One
  <1>1. r \in Int /\ r <= b.tokens + (s - b.lastRefillMs) * RefillNum
    BY RefillBounds
  <1>2. n + b.tokens <= full + (b.lastRefillMs - adm[i]) * RefillNum
    BY DEF Spent
  <1>3. n \in Int /\ full \in Int /\ adm[i] \in Int /\ b.tokens \in Int /\ b.lastRefillMs \in Int
    BY OneType DEF Buckets
  <1> HIDE DEF r, n, full
  <1>4. (b.lastRefillMs - adm[i]) * RefillNum + (s - b.lastRefillMs) * RefillNum
          = (s - adm[i]) * RefillNum
    BY <1>3, PipeAssumption
  <1>5. n + r <= full + (s - adm[i]) * RefillNum
    <2> DEFINE u == (b.lastRefillMs - adm[i]) * RefillNum
               v == (s - b.lastRefillMs) * RefillNum
               z == (s - adm[i]) * RefillNum
    <2>1. u \in Int /\ v \in Int /\ z \in Int
      BY <1>3, PipeAssumption
    <2>2. u + v = z /\ r <= b.tokens + v /\ n + b.tokens <= full + u
      BY <1>1, <1>2, <1>4
    <2> HIDE DEF u, v, z
    <2>3. n + r <= full + z
      BY <1>1, <1>3, <2>1, <2>2
    <2> QED
      BY <2>3 DEF z
  <1> QED
    BY <1>5 DEF r, n, full

LEMMA RefuseBudget ==
    ASSUME NEW b \in Buckets, NEW s \in Int, b.lastRefillMs <= s,
           NEW adm \in Seq(Int), NEW pr, Budget(b, adm, pr)
    PROVE  Budget([tokens |-> refill(b, s), lastRefillMs |-> s], adm,
                  s + Second * retryAfter(refill(b, s)))
  <1> DEFINE r == refill(b, s)
             m == [tokens |-> r, lastRefillMs |-> s]
             wait == Second * retryAfter(r)
  <1>1. r \in Int /\ r >= 0
    BY RefillBounds DEF Budget
  <1>2. Spent(m, adm)
    BY SpentLater DEF Budget, Spent
  <1> HIDE DEF r
  <1>3. wait \in Nat /\ r + wait * RefillNum >= One
    <2>1. /\ retryAfter(r) \in Int /\ retryAfter(r) >= 1
          /\ r + Second * retryAfter(r) * RefillNum >= One
      BY <1>1, RetryAfterSuffices
    <2>2. Second * retryAfter(r) \in Nat
      <3> DEFINE a == retryAfter(r)
      <3> HIDE DEF a
      <3>1. a \in Nat
        BY <2>1 DEF a
      <3>2. Second * a \in Nat
        BY <3>1, PipeAssumption
      <3> QED
        BY <3>2 DEF a
    <2> QED
      BY <2>1, <2>2
  <1> HIDE DEF wait
  <1>4. Promised(m, s + wait)
    <2>1. (s + wait) - s = wait /\ s + wait >= s
      BY <1>3
    <2> QED
      BY <1>3, <2>1 DEF Promised
  <1> QED
    BY <1>1, <1>2, <1>4 DEF Budget, r, wait

LEMMA AdmitBudget ==
    ASSUME NEW b \in Buckets, NEW s \in Int, b.lastRefillMs <= s, refill(b, s) >= One,
           NEW adm \in Seq(Int), NEW pr, Budget(b, adm, pr), Within(adm)
    PROVE  /\ Budget([tokens |-> refill(b, s) - One, lastRefillMs |-> s], Append(adm, s), -1)
           /\ Within(Append(adm, s))
  <1> DEFINE r == refill(b, s)
             m == [tokens |-> r - One, lastRefillMs |-> s]
             more == Append(adm, s)
  <1>1. r \in Int /\ r >= One /\ r <= Burst * One
    BY RefillBounds DEF Budget
  <1>2. /\ more \in Seq(Int) /\ Len(more) = Len(adm) + 1 /\ more[Len(adm) + 1] = s
        /\ DOMAIN more = DOMAIN adm \cup {Len(adm) + 1}
        /\ \A i \in DOMAIN adm : more[i] = adm[i] /\ i \in 1..Len(adm)
    OBVIOUS
  <1>3. \A i \in DOMAIN adm : (Len(adm) - i + 1) * One + r <= Burst * One + (s - adm[i]) * RefillNum
    BY SpentLater DEF Budget
  <1>4. \A i \in DOMAIN more :
          (Len(more) - i + 1) * One + (r - One) <= Burst * One + (s - more[i]) * RefillNum
    <2> SUFFICES ASSUME NEW i \in DOMAIN more
                 PROVE  (Len(more) - i + 1) * One + (r - One) <= Burst * One + (s - more[i]) * RefillNum
      OBVIOUS
    <2> HIDE DEF r, more
    <2>1. CASE i \in DOMAIN adm
      <3>1. (Len(more) - i + 1) * One = (Len(adm) - i + 1) * One + One
        BY <1>2, <2>1, OneType
      <3>2. (Len(adm) - i + 1) * One \in Int
        BY <1>2, <2>1, OneType
      <3>3. (Len(adm) - i + 1) * One + r <= Burst * One + (s - more[i]) * RefillNum
        BY <1>2, <1>3, <2>1
      <3>4. (Len(more) - i + 1) * One + (r - One) = (Len(adm) - i + 1) * One + r
        <4> DEFINE u == (Len(adm) - i + 1) * One
                   v == (Len(more) - i + 1) * One
        <4>1. v = u + One /\ u \in Int
          BY <3>1, <3>2
        <4> HIDE DEF u, v
        <4>2. v + (r - One) = u + r
          BY <1>1, <4>1, OneType
        <4> QED
          BY <4>2 DEF u, v
      <3> QED
        BY <3>3, <3>4
    <2>2. CASE i = Len(adm) + 1
      <3>1. (Len(more) - i + 1) * One = One /\ (s - more[i]) * RefillNum = 0
        BY <1>2, <2>2, OneType, PipeAssumption
      <3> QED
        BY <1>1, <3>1, OneType
    <2> QED
      BY <1>2, <2>1, <2>2
  <1>5. Budget(m, more, -1)
    <2>1. Promised(m, -1)
      BY DEF Promised
    <2> HIDE DEF r, more
    <2>2. m.tokens = r - One /\ m.lastRefillMs = s /\ m.tokens >= 0
      BY <1>1, OneType
    <2>3. Spent(m, more)
      BY <1>4, <2>2 DEF Spent
    <2> QED
      BY <2>1, <2>2, <2>3 DEF Budget
  <1>6. Within(more)
    <2> HIDE DEF r, more
    <2> SUFFICES ASSUME NEW i \in DOMAIN more, NEW j \in DOMAIN more, i <= j
                 PROVE  (j - i + 1) * One <= Burst * One + (more[j] - more[i]) * RefillNum
      BY DEF Within
    <2>1. CASE j \in DOMAIN adm
      BY <1>2, <2>1, SMTT(30) DEF Within
    <2>2. CASE j = Len(adm) + 1
      <3>1. (Len(more) - i + 1) * One + (r - One) <= Burst * One + (s - more[i]) * RefillNum
        BY <1>4
      <3>2. (Len(more) - i + 1) * One \in Int /\ (s - more[i]) * RefillNum \in Int /\ Burst * One \in Int
        BY <1>2, OneType, PipeAssumption
      <3>3. Len(more) = j /\ more[j] = s
        BY <1>2, <2>2
      <3> QED
        BY <1>1, <3>1, <3>2, <3>3, OneType
    <2> QED
      BY <1>2, <2>1, <2>2
  <1> QED
    BY <1>5, <1>6

\* The key of a request depends on the adapter and on what the client sent.
LEMMA KeyStays ==
    ASSUME NEW d \in Callers, server' = server, call'[d].wire = call[d].wire
    PROVE  keyOf(d)' = keyOf(d)
  BY DEF keyOf, remoteAddr, remoteAddrFrom, clientIpFromHeaders, ip

\* A request outside the limiter moves, and the limiter's books stay.
LEMMA Elsewhere ==
    ASSUME LimiterInv, NEW c \in Callers, UNCHANGED <<server, time>>, UNCHANGED limiterState,
           \A d \in Callers : d # c => call'[d] = call[d], ~InLimiter(call'[c])
    PROVE  LimiterInv'
  <1>1. UNCHANGED <<bucket, admitted, overlapped, promise>>
    BY DEF limiterState
  <1>2. LimiterTyped' /\ Accounts'
    BY <1>1 DEF LimiterInv, LimiterTyped, Accounts
  <1>3. \A d \in Callers : d # c => call'[d] = call[d] /\ keyOf(d)' = keyOf(d)
    BY KeyStays
  <1>4. Alone'
    BY <1>1, <1>3 DEF LimiterInv, Alone
  <1>5. Visits'
    BY <1>1, <1>3 DEF LimiterInv, Visits, Visit
  <1> QED
    BY <1>2, <1>4, <1>5 DEF LimiterInv

Outside(c) == \/ Receive(c) \/ licenseGuard(c) \/ bearerAuth(c) \/ verify(c) \/ skipPublic(c) \/ handler(c)
              \/ lastResort(c) \/ clientGuard(c) \/ onSuccess(c) \/ guarded(c) \/ Done(c)

\* These steps leave the limiter's state alone and no request inside it.
LEMMA OutsideLeaves ==
    ASSUME PipeInv, NEW c \in Callers, Outside(c)
    PROVE  /\ UNCHANGED <<server, time>> /\ UNCHANGED limiterState
           /\ \A d \in Callers : d # c => call'[d] = call[d]
           /\ ~InLimiter(call'[c])
  <1>1. NoCall \in CallRecords /\ NoCall.at = "idle" /\ DOMAIN call = Callers /\ call[c] \in CallRecords
    BY IdleIsOK DEF RequestOK, NoCall, PipeInv
  <1>2. UNCHANGED <<server, time>> /\ UNCHANGED limiterState
    BY DEF Outside, Receive, licenseGuard, bearerAuth, verify, skipPublic, handler, lastResort, clientGuard,
           onSuccess, guarded, Done
  <1>3. \A d \in Callers : d # c => call'[d] = call[d]
    BY <1>1 DEF Outside, Receive, licenseGuard, bearerAuth, verify, skipPublic, handler, lastResort, clientGuard,
           onSuccess, guarded, Done, answer, goto
  <1>4. ~InLimiter(call'[c])
    <2>1. CASE Receive(c)
      <3>1. PICK w : \/ \E s : call'[c] = turnedAway(w, s)
                     \/ \E i : call'[c] = routed(w, i)
        BY <1>1, <2>1 DEF Receive
      <3>2. ASSUME NEW s PROVE ~InLimiter(turnedAway(w, s))
        BY <1>1 DEF turnedAway, InLimiter, CallRecords
      <3>3. ASSUME NEW i PROVE ~InLimiter(routed(w, i))
        BY <1>1 DEF routed, InLimiter, CallRecords
      <3> QED
        BY <3>1, <3>2, <3>3
    <2>2. CASE licenseGuard(c)
      <3>1. \/ call'[c] = [NoCall EXCEPT !.at = "answered", !.status = 400]
            \/ call'[c] = [NoCall EXCEPT !.at = "guard", !.passed = {"fingerprint"}]
        BY <1>1, <2>2 DEF licenseGuard
      <3>2. CASE call'[c] = [NoCall EXCEPT !.at = "answered", !.status = 400]
        BY <1>1, <3>2 DEF CallRecords, InLimiter
      <3>3. CASE call'[c] = [NoCall EXCEPT !.at = "guard", !.passed = {"fingerprint"}]
        BY <1>1, <3>3 DEF CallRecords, InLimiter
      <3> QED
        BY <3>1, <3>2, <3>3
    <2>3. CASE bearerAuth(c)
      BY <1>1, <2>3 DEF bearerAuth, goto, answer, InLimiter, CallRecords
    <2>4. CASE verify(c)
      BY <1>1, <2>4 DEF verify, answer, InLimiter, CallRecords
    <2>5. CASE handler(c)
      <3>1. call'[c].at \in {"answered", "thrown"}
        BY <1>1, <2>5 DEF handler, goto, answer, CallRecords
      <3> QED
        BY <3>1 DEF InLimiter
    <2>6. CASE lastResort(c)
      BY <1>1, <2>6 DEF lastResort, answer, InLimiter, CallRecords
    <2>7. CASE clientGuard(c)
      BY <1>1, <2>7 DEF clientGuard, answer, InLimiter, CallRecords
    <2>8. CASE onSuccess(c)
      BY <1>1, <2>8 DEF onSuccess, answer, InLimiter, CallRecords
    <2>9. CASE guarded(c)
      BY <1>1, <2>9 DEF guarded, answer, InLimiter, CallRecords
    <2>10. CASE Done(c)
      BY <1>1, <2>10 DEF Done, InLimiter
    <2>11. CASE skipPublic(c)
      BY <1>1, <2>11 DEF skipPublic, goto, InLimiter, CallRecords
    <2> QED
      BY <2>1, <2>2, <2>3, <2>4, <2>5, <2>6, <2>7, <2>8, <2>9, <2>10, <2>11 DEF Outside
  <1> QED
    BY <1>2, <1>3, <1>4

LEMMA OutsideStays ==
    ASSUME PipeInv, LimiterInv, NEW c \in Callers, Outside(c)
    PROVE  LimiterInv'
  BY OutsideLeaves, Elsewhere

\* A request enters the limiter: its instant is after every refill of its key,
\* and an address with a request already inside is marked.
LEMMA RateLimitBooks ==
    ASSUME PipeInv, BucketsTyped, LimiterInv, NEW c \in Callers, rateLimit(c)
    PROVE  LimiterInv'
  <1>1. /\ call[c].at = "limit" /\ UNCHANGED <<server, time, bucket, admitted, promise>>
        /\ call' = [call EXCEPT ![c].at = "get", ![c].start = time]
        /\ overlapped \subseteq overlapped'
        /\ (\E d \in Callers : InLimiter(call[d]) /\ keyOf(d) = keyOf(c)) => keyOf(c) \in overlapped'
    BY DEF rateLimit, InLimiter
  <1>2. call[c] \in CallRecords /\ DOMAIN call = Callers /\ keyOf(c) \in Keys
    BY KeyIsKey DEF PipeInv, RequestOK
  <1>3. /\ call'[c].at = "get" /\ call'[c].start = time /\ call'[c].wire = call[c].wire
        /\ \A d \in Callers : d # c => call'[d] = call[d]
    BY <1>1, <1>2 DEF CallRecords
  <1>4. \A d \in Callers : keyOf(d)' = keyOf(d)
    BY <1>1, <1>3, KeyStays
  <1>5. LimiterTyped' /\ Accounts'
    BY <1>1 DEF LimiterInv, LimiterTyped, Accounts
  <1>6. Alone'
    BY <1>1, <1>3, <1>4 DEF LimiterInv, Alone
  <1>7. Visits'
    <2> SUFFICES ASSUME NEW d \in Callers, keyOf(d) \notin overlapped'
                 PROVE  Visit(call'[d], bucket[keyOf(d)], time)
      BY <1>1, <1>4 DEF Visits
    <2>1. CASE d # c
      BY <1>1, <1>3, <2>1 DEF LimiterInv, Visits
    <2>2. CASE d = c
      <3>1. bucket[keyOf(c)] # NoBucket => bucket[keyOf(c)].lastRefillMs <= time
        BY <1>1, <1>2, <2>2 DEF LimiterInv, Accounts, Account
      <3> QED
        BY <1>3, <2>2, <3>1 DEF Visit, BucketsTyped
    <2> QED
      BY <2>1, <2>2
  <1> QED
    BY <1>5, <1>6, <1>7 DEF LimiterInv

LEMMA StoreGetBooks ==
    ASSUME PipeInv, BucketsTyped, LimiterInv, NEW c \in Callers, storeGet(c)
    PROVE  LimiterInv'
  <1> DEFINE b == Effective(bucket[keyOf(c)], call[c].start)
  <1>1. /\ call[c].at = "get" /\ UNCHANGED <<server, time, bucket, admitted, promise, overlapped>>
        /\ call' = [call EXCEPT ![c].at = "set", ![c].seen = b]
    BY DEF storeGet, limiterState, Effective
  <1> HIDE DEF b
  <1>2. call[c] \in CallRecords /\ DOMAIN call = Callers
    BY DEF PipeInv, RequestOK
  <1>3. /\ call'[c].at = "set" /\ call'[c].start = call[c].start /\ call'[c].wire = call[c].wire
        /\ call'[c].seen = b
        /\ \A d \in Callers : d # c => call'[d] = call[d]
    BY <1>1, <1>2 DEF CallRecords
  <1>4. \A d \in Callers : keyOf(d)' = keyOf(d)
    BY <1>1, <1>3, KeyStays
  <1>5. LimiterTyped' /\ Accounts'
    BY <1>1 DEF LimiterInv, LimiterTyped, Accounts
  <1>6. \A d \in Callers : InLimiter(call'[d]) <=> InLimiter(call[d])
    BY <1>1, <1>3 DEF InLimiter
  <1>7. Alone'
    BY <1>1, <1>4, <1>6 DEF LimiterInv, Alone
  <1>8. Visits'
    <2> SUFFICES ASSUME NEW d \in Callers, keyOf(d) \notin overlapped
                 PROVE  Visit(call'[d], bucket[keyOf(d)], time)
      BY <1>1, <1>4 DEF Visits
    <2>1. CASE d # c
      BY <1>3, <2>1 DEF LimiterInv, Visits
    <2>2. CASE d = c
      BY <1>1, <1>3, <1>6, <2>2 DEF LimiterInv, Visits, Visit, b
    <2> QED
      BY <2>1, <2>2
  <1> QED
    BY <1>5, <1>7, <1>8 DEF LimiterInv

\* The bucket a lone request holds when it decides, and the books it is for.
LEMMA Deciding ==
    ASSUME PipeInv, BucketsTyped, LimiterInv, NEW c \in Callers, call[c].at = "set",
           keyOf(c) \notin overlapped
    PROVE  /\ call[c].seen \in Buckets /\ call[c].start \in Int /\ call[c].start <= time
           /\ call[c].seen.lastRefillMs <= call[c].start
           /\ admitted[keyOf(c)] \in Seq(Int) /\ promise[keyOf(c)] \in Int
           /\ Within(admitted[keyOf(c)])
           /\ Budget(call[c].seen, admitted[keyOf(c)], promise[keyOf(c)])
           /\ \A d \in Callers : d # c /\ keyOf(d) = keyOf(c) => ~InLimiter(call[d])
  <1> DEFINE k == keyOf(c)
             b == bucket[k]
             s == call[c].start
  <1>1. k \in Keys /\ call[c].seen \in Buckets /\ s \in Int
    BY KeyIsKey, RefilledType
  <1>2. admitted[k] \in Seq(Int) /\ promise[k] \in Int /\ b \in Buckets
    BY <1>1 DEF LimiterInv, LimiterTyped, BucketsTyped
  <1>3. Account(b, admitted[k], promise[k], time)
    BY <1>1 DEF LimiterInv, Accounts
  <1>4. /\ s <= time /\ (b # NoBucket => b.lastRefillMs <= s)
        /\ call[c].seen = Effective(b, s)
    BY DEF LimiterInv, Visits, Visit, InLimiter
  <1>5. \A d \in Callers : d # c /\ keyOf(d) = k => ~InLimiter(call[d])
    BY DEF LimiterInv, Alone, InLimiter
  <1> HIDE DEF k, b, s
  <1>6. CASE b = NoBucket
    <2>1. call[c].seen = [tokens |-> Burst * One, lastRefillMs |-> s]
      BY <1>4, <1>6 DEF Effective
    <2>2. call[c].seen.tokens >= 0 /\ call[c].seen.lastRefillMs = s
      BY <2>1, OneType
    <2>3. admitted[k] = <<>> /\ promise[k] = -1
      BY <1>3, <1>6 DEF Account
    <2>4. Spent(call[c].seen, admitted[k]) /\ Promised(call[c].seen, promise[k])
      BY <2>3 DEF Spent, Promised
    <2>5. Budget(call[c].seen, admitted[k], promise[k])
      BY <2>2, <2>4 DEF Budget
    <2> QED
      BY <1>1, <1>2, <1>3, <1>4, <1>5, <2>2, <2>5 DEF Account, k, s
  <1>7. CASE b # NoBucket
    <2>1. call[c].seen = b
      BY <1>4, <1>7 DEF Effective
    <2> QED
      BY <1>1, <1>2, <1>3, <1>4, <1>5, <1>7, <2>1 DEF Account, k, s
  <1> QED
    BY <1>6, <1>7

\* The limiter's verdict on one request: its bucket is written, its caller
\* leaves, and the books of its key agree again if they are kept.
LEMMA Decided ==
    ASSUME PipeInv, LimiterInv, NEW c \in Callers, call[c].at = "set",
           UNCHANGED <<server, time, overlapped>>,
           \A d \in Callers : d # c => call'[d] = call[d],
           ~InLimiter(call'[c]), call'[c].wire = call[c].wire,
           NEW b, bucket' = [bucket EXCEPT ![keyOf(c)] = b],
           NEW adm \in Seq(Int), admitted' = [admitted EXCEPT ![keyOf(c)] = adm],
           NEW pr \in Int, promise' = [promise EXCEPT ![keyOf(c)] = pr],
           BucketsTyped,
           keyOf(c) \notin overlapped => Account(b, adm, pr, time)
    PROVE  LimiterInv'
  <1>1. keyOf(c) \in Keys
    BY KeyIsKey
  <1>2. LimiterTyped'
    BY <1>1 DEF LimiterInv, LimiterTyped
  <1>3. \A d \in Callers : keyOf(d)' = keyOf(d)
    BY KeyStays
  <1>4. Alone'
    BY <1>3 DEF LimiterInv, Alone
  <1>5. Accounts'
    <2> SUFFICES ASSUME NEW k \in Keys, k \notin overlapped
                 PROVE  Account(bucket'[k], admitted'[k], promise'[k], time)
      BY DEF Accounts
    <2>1. CASE k = keyOf(c)
      BY <2>1 DEF LimiterInv, LimiterTyped, BucketsTyped
    <2>2. CASE k # keyOf(c)
      <3>1. bucket'[k] = bucket[k] /\ admitted'[k] = admitted[k] /\ promise'[k] = promise[k]
        BY <2>2 DEF LimiterInv, LimiterTyped, BucketsTyped
      <3> QED
        BY <3>1 DEF LimiterInv, Accounts
    <2> QED
      BY <2>1, <2>2
  <1>6. Visits'
    <2> SUFFICES ASSUME NEW d \in Callers, keyOf(d) \notin overlapped
                 PROVE  Visit(call'[d], bucket'[keyOf(d)], time)
      BY <1>3 DEF Visits
    <2>1. CASE ~InLimiter(call'[d])
      BY <2>1 DEF Visit
    <2>2. CASE InLimiter(call'[d])
      <3>1. d # c /\ call'[d] = call[d] /\ InLimiter(call[d])
        BY <2>2
      <3>2. keyOf(d) # keyOf(c)
        BY <3>1 DEF LimiterInv, Alone, InLimiter
      <3>3. bucket'[keyOf(d)] = bucket[keyOf(d)]
        BY <3>2, KeyIsKey DEF BucketsTyped
      <3> QED
        BY <3>1, <3>3 DEF LimiterInv, Visits
    <2> QED
      BY <2>1, <2>2
  <1> QED
    BY <1>2, <1>4, <1>5, <1>6 DEF LimiterInv

LEMMA RefuseBooks ==
    ASSUME PipeInv, BucketsTyped, LimiterInv, NEW c \in Callers, Refuse(c)
    PROVE  LimiterInv'
  <1> DEFINE k == keyOf(c)
             s == call[c].start
             r == refilled(c)
             b == [tokens |-> r, lastRefillMs |-> s]
             pr == s + Second * retryAfter(r)
  <1>1. /\ call[c].at = "set" /\ UNCHANGED <<server, time, overlapped>>
        /\ bucket' = [bucket EXCEPT ![k] = b] /\ admitted' = admitted
        /\ promise' = [promise EXCEPT ![k] = pr]
        /\ call' = [call EXCEPT ![c].at = "answered", ![c].status = 429, ![c].retryAfter = retryAfter(r)]
    BY DEF Refuse
  <1>2. call[c] \in CallRecords /\ DOMAIN call = Callers /\ k \in Keys /\ r \in Int /\ s \in Int
    BY KeyIsKey, RefilledType DEF PipeInv, RequestOK
  <1>3. /\ call'[c].at = "answered" /\ call'[c].wire = call[c].wire
        /\ \A d \in Callers : d # c => call'[d] = call[d]
    BY <1>1, <1>2 DEF CallRecords
  <1>4. ~InLimiter(call'[c])
    BY <1>3 DEF InLimiter
  <1>5. admitted[k] \in Seq(Int) /\ admitted' = [admitted EXCEPT ![k] = admitted[k]]
    BY <1>1, <1>2 DEF LimiterInv, LimiterTyped
  <1>6. pr \in Int
    <2>1. retryAfter(r) \in Int
      BY <1>2, RetryAfterSuffices
    <2> QED
      BY <1>2, <2>1, PipeAssumption
  <1>7. k \notin overlapped => Account(b, admitted[k], pr, time)
    <2> SUFFICES ASSUME k \notin overlapped PROVE Account(b, admitted[k], pr, time)
      OBVIOUS
    <2>1. /\ call[c].seen \in Buckets /\ s <= time /\ call[c].seen.lastRefillMs <= s
          /\ Within(admitted[k]) /\ Budget(call[c].seen, admitted[k], promise[k])
      BY <1>1, Deciding
    <2>2. Budget(b, admitted[k], pr)
      BY <1>2, <1>5, <2>1, RefuseBudget DEF refilled
    <2>3. b # NoBucket
      BY <2>2 DEF Budget, NoBucket
    <2> QED
      BY <2>1, <2>2, <2>3 DEF Account
  <1> HIDE DEF b, pr
  <1> QED
    BY <1>1, <1>3, <1>4, <1>5, <1>6, <1>7, Decided

LEMMA AdmitBooks ==
    ASSUME PipeInv, BucketsTyped, LimiterInv, NEW c \in Callers, Admit(c)
    PROVE  LimiterInv'
  <1> DEFINE k == keyOf(c)
             s == call[c].start
             r == refilled(c)
             b == [tokens |-> r - One, lastRefillMs |-> s]
             adm == Append(admitted[k], s)
  <1>1. /\ call[c].at = "set" /\ r >= One /\ UNCHANGED <<server, time, overlapped>>
        /\ bucket' = [bucket EXCEPT ![k] = b]
        /\ promise' = [promise EXCEPT ![k] = -1]
        /\ call' = [call EXCEPT ![c].at = "handler"]
    BY DEF Admit, goto
  <1>2. call[c] \in CallRecords /\ DOMAIN call = Callers /\ k \in Keys /\ r \in Int /\ s \in Int
    BY KeyIsKey, RefilledType DEF PipeInv, RequestOK
  <1>3. /\ call'[c].at = "handler" /\ call'[c].wire = call[c].wire
        /\ \A d \in Callers : d # c => call'[d] = call[d]
    BY <1>1, <1>2 DEF CallRecords
  <1>4. ~InLimiter(call'[c])
    BY <1>3 DEF InLimiter
  <1>5. admitted[k] \in Seq(Int) /\ adm \in Seq(Int)
    BY <1>2 DEF LimiterInv, LimiterTyped
  <1>6. admitted' = [admitted EXCEPT ![k] = adm]
    BY DEF Admit
  <1>7. k \notin overlapped => Account(b, adm, -1, time)
    <2> SUFFICES ASSUME k \notin overlapped PROVE Account(b, adm, -1, time)
      OBVIOUS
    <2>1. /\ call[c].seen \in Buckets /\ s <= time /\ call[c].seen.lastRefillMs <= s
          /\ Within(admitted[k]) /\ Budget(call[c].seen, admitted[k], promise[k])
      BY <1>1, Deciding
    <2>2. Budget(b, adm, -1) /\ Within(adm)
      BY <1>1, <1>2, <1>5, <2>1, AdmitBudget DEF refilled
    <2>3. b # NoBucket
      BY <2>2 DEF Budget, NoBucket
    <2> QED
      BY <2>1, <2>2, <2>3 DEF Account
  <1> HIDE DEF b, adm
  <1>8. -1 \in Int
    OBVIOUS
  <1> QED
    BY <1>1, <1>3, <1>4, <1>5, <1>6, <1>7, <1>8, Decided

LEMMA TickBooks ==
    ASSUME PipeInv, BucketsTyped, LimiterInv, TickTime
    PROVE  LimiterInv'
  <1>1. time' = time + 1 /\ time \in Int /\ UNCHANGED <<server, call, bucket, admitted, overlapped, promise>>
    BY DEF TickTime, limiterState, BucketsTyped
  <1>2. \A d \in Callers : keyOf(d)' = keyOf(d)
    BY <1>1, KeyStays
  <1>3. LimiterTyped' /\ Alone'
    BY <1>1, <1>2 DEF LimiterInv, LimiterTyped, Alone
  <1>4. Accounts'
    <2> SUFFICES ASSUME NEW k \in Keys, k \notin overlapped
                 PROVE  Account(bucket[k], admitted[k], promise[k], time + 1)
      BY <1>1 DEF Accounts
    <2>1. Account(bucket[k], admitted[k], promise[k], time) /\ bucket[k].lastRefillMs \in Int
      BY DEF LimiterInv, Accounts, BucketsTyped, Buckets
    <2>2. bucket[k].lastRefillMs <= time => bucket[k].lastRefillMs <= time + 1
      BY <1>1, <2>1
    <2> QED
      BY <2>1, <2>2 DEF Account
  <1>5. Visits'
    <2> SUFFICES ASSUME NEW d \in Callers, keyOf(d) \notin overlapped
                 PROVE  Visit(call[d], bucket[keyOf(d)], time + 1)
      BY <1>1, <1>2 DEF Visits
    <2>1. Visit(call[d], bucket[keyOf(d)], time) /\ call[d].start \in Int
      BY RefilledType DEF LimiterInv, Visits
    <2>2. call[d].start <= time => call[d].start <= time + 1
      BY <1>1, <2>1
    <2> QED
      BY <2>1, <2>2 DEF Visit
  <1> QED
    BY <1>3, <1>4, <1>5 DEF LimiterInv

\* The limiter's invariant: as long as the requests of an address follow one
\* another, its bucket, the instants it let requests through and the wait it
\* promised agree (rate-limit.ts, read and write of a bucket two steps).
THEOREM LimiterInvariant == PipeSpec => []LimiterInv
  <1>1. PipeInit => LimiterInv
    <2> SUFFICES ASSUME PipeInit PROVE LimiterInv
      OBVIOUS
    <2>1. LimiterTyped
      BY DEF PipeInit, LimiterTyped
    <2>2. \A c \in Callers : ~InLimiter(call[c])
      BY DEF PipeInit, NoCall, InLimiter
    <2>3. Alone /\ Visits
      BY <2>2 DEF Alone, Visits, Visit
    <2>4. Within(<<>>)
      BY DEF Within
    <2>5. Accounts
      BY <2>4 DEF PipeInit, Accounts, Account
    <2> QED
      BY <2>1, <2>3, <2>5 DEF LimiterInv
  <1>2. PipeInv /\ BucketsTyped /\ LimiterInv /\ [PipeNext]_pipeVars => LimiterInv'
    <2> SUFFICES ASSUME PipeInv, BucketsTyped, LimiterInv, [PipeNext]_pipeVars PROVE LimiterInv'
      OBVIOUS
    <2>1. ASSUME NEW c \in Callers, Receive(c) \/ licenseGuard(c) \/ Serve(c) \/ Done(c)
          PROVE  LimiterInv'
      BY <2>1, OutsideStays, RateLimitBooks, StoreGetBooks, RefuseBooks, AdmitBooks DEF Serve, Outside
    <2>2. CASE TickTime
      BY <2>2, TickBooks
    <2>3. CASE UNCHANGED pipeVars
      BY <2>3 DEF pipeVars, LimiterInv, LimiterTyped, Alone, Accounts, Visits, keyOf, remoteAddr
    <2> QED
      BY <2>1, <2>2, <2>3 DEF PipeNext
  <1> QED
    BY <1>1, <1>2, PipeInvariant, PTL DEF PipeSpec

\* A caller is refused only before the wait it was promised is over.
LEMMA RefusedInTime ==
    ASSUME PipeInv, BucketsTyped, LimiterInv, NEW c \in Callers, Refuse(c)
    PROVE  \/ keyOf(c) \in overlapped
           \/ promise[keyOf(c)] = -1
           \/ call[c].start < promise[keyOf(c)]
  <1> DEFINE b == call[c].seen
             s == call[c].start
             pr == promise[keyOf(c)]
  <1> SUFFICES ASSUME keyOf(c) \notin overlapped, pr # -1, ~(s < pr)
               PROVE  FALSE
    OBVIOUS
  <1>1. call[c].at = "set" /\ refill(b, s) < One
    BY DEF Refuse, refilled
  <1>2. /\ b \in Buckets /\ s \in Int /\ b.lastRefillMs <= s /\ pr \in Int
        /\ Budget(b, admitted[keyOf(c)], pr)
    BY <1>1, Deciding
  <1> HIDE DEF b, s, pr
  <1>3. pr <= s /\ b.tokens + (pr - b.lastRefillMs) * RefillNum >= One
    BY <1>2 DEF Budget, Promised
  <1>4. b.tokens \in Int /\ b.lastRefillMs \in Int
    BY <1>2 DEF Buckets
  <1>5. b.tokens + (s - b.lastRefillMs) * RefillNum >= One
    <2> DEFINE u == (pr - b.lastRefillMs) * RefillNum
               v == (s - b.lastRefillMs) * RefillNum
    <2>1. u \in Int /\ v \in Int /\ u <= v
      BY <1>2, <1>3, <1>4, PipeAssumption
    <2> HIDE DEF u, v
    <2>2. b.tokens + u >= One
      BY <1>3 DEF u
    <2>3. b.tokens + v >= One
      BY <1>4, <2>1, <2>2, OneType
    <2> QED
      BY <2>3 DEF v
  <1>6. Burst * One >= One
    BY OneType, PipeAssumption
  <1>7. refill(b, s) >= One
    BY <1>2, <1>5, <1>6, RefillValue
  <1>8. refill(b, s) \in Int
    BY <1>2, RefillType
  <1> QED
    BY <1>1, <1>7, <1>8, OneType

\* No request that skipPublic lets by is in the limiter.
Unspared == \A c \in Callers : InLimiter(call[c]) => ~(server \in Skipping /\ flagged(c))

LEMMA UnsparedStays ==
    ASSUME PipeInv, Unspared, [PipeNext]_pipeVars
    PROVE  Unspared'
  <1>1. ASSUME NEW c \in Callers, Outside(c) PROVE Unspared'
    BY <1>1, OutsideLeaves DEF Unspared, flagged
  <1>2. ASSUME NEW c \in Callers, rateLimit(c) PROVE Unspared'
    <2>1. call[c] \in CallRecords /\ DOMAIN call = Callers
      BY DEF PipeInv, RequestOK
    <2>2. /\ call'[c].wire = call[c].wire /\ call'[c].route = call[c].route
          /\ \A d \in Callers : d # c => call'[d] = call[d]
      BY <1>2, <2>1 DEF rateLimit, CallRecords
    <2>3. server' = server /\ ~(server \in Skipping /\ flagged(c))
      BY <1>2 DEF rateLimit
    <2> QED
      BY <2>2, <2>3 DEF Unspared, flagged
  <1>3. ASSUME NEW c \in Callers, storeGet(c) PROVE Unspared'
    <2>1. call[c] \in CallRecords /\ DOMAIN call = Callers
      BY DEF PipeInv, RequestOK
    <2>2. /\ call'[c].wire = call[c].wire /\ call'[c].route = call[c].route
          /\ \A d \in Callers : d # c => call'[d] = call[d]
      BY <1>3, <2>1 DEF storeGet, CallRecords
    <2>3. server' = server /\ InLimiter(call[c])
      BY <1>3 DEF storeGet, InLimiter
    <2> QED
      BY <2>2, <2>3 DEF Unspared, flagged
  <1>4. ASSUME NEW c \in Callers, Refuse(c) \/ Admit(c) PROVE Unspared'
    <2>1. call[c] \in CallRecords /\ DOMAIN call = Callers
      BY DEF PipeInv, RequestOK
    <2>2. /\ call'[c].at \in {"answered", "handler"}
          /\ \A d \in Callers : d # c => call'[d] = call[d]
      BY <1>4, <2>1 DEF Refuse, Admit, goto, CallRecords
    <2>3. server' = server
      BY <1>4 DEF Refuse, Admit
    <2> QED
      BY <2>2, <2>3 DEF Unspared, InLimiter, flagged
  <1>5. CASE UNCHANGED <<server, call>>
    BY <1>5 DEF Unspared, flagged
  <1> QED
    BY <1>1, <1>2, <1>3, <1>4, <1>5 DEF PipeNext, Serve, Outside, TickTime, pipeVars

\* For any burst, rate and number of requests: no window admits more than the
\* burst and its refill, a caller that waits out Retry-After is let in, and a
\* refused credential, or a request skipPublic lets by, costs its address
\* nothing (rate-limit.ts, auth.ts).
THEOREM LimiterIsHonest == PipeSpec => LimiterHonest
  <1>1. LimiterInv => SerialBurstRespected
    BY DEF LimiterInv, Accounts, Account, Within, SerialBurstRespected, withinBurst
  <1>2. PipeInv /\ BucketsTyped /\ LimiterInv /\ [PipeNext]_pipeVars =>
          [\A c \in Callers : Refuse(c) => \/ keyOf(c) \in overlapped
                                           \/ promise[keyOf(c)] = -1
                                           \/ call[c].start < promise[keyOf(c)]]_pipeVars
    BY RefusedInTime
  <1>3. PipeInv /\ BucketsTyped /\ Unspared /\ [PipeNext]_pipeVars =>
          [\A k \in Keys : bucket'[k] # bucket[k] =>
             \E c \in Callers : /\ call[c].at = "set" /\ keyOf(c) = k
                                /\ \/ server \notin Skipping /\ flagged(c)
                                   \/ ~flagged(c) /\ call[c].authSubject # None]_pipeVars
    <2> SUFFICES ASSUME PipeInv, BucketsTyped, Unspared, PipeNext, NEW k \in Keys, bucket'[k] # bucket[k]
                 PROVE  \E c \in Callers : /\ call[c].at = "set" /\ keyOf(c) = k
                                           /\ \/ server \notin Skipping /\ flagged(c)
                                              \/ ~flagged(c) /\ call[c].authSubject # None
      OBVIOUS
    <2>1. PICK c \in Callers : Refuse(c) \/ Admit(c)
      BY ZenonT(30) DEF PipeNext, Serve, limiterState, Receive, licenseGuard, bearerAuth, verify,
             skipPublic, rateLimit, storeGet, handler, lastResort, clientGuard, onSuccess, guarded, Done, TickTime
    <2>2. call[c].at = "set" /\ keyOf(c) = k
      BY <2>1 DEF Refuse, Admit, BucketsTyped
    <2>3. Cleared(call[c])
      BY <2>2 DEF PipeInv, RequestOK, Staged
    <2>4. ~(server \in Skipping /\ flagged(c))
      BY <2>2 DEF Unspared, InLimiter
    <2> QED
      BY <2>2, <2>3, <2>4 DEF Cleared, flagged, None
  <1>4. PipeInit => Unspared
    BY DEF PipeInit, NoCall, Unspared, InLimiter
  <1>5. PipeInv /\ Unspared /\ [PipeNext]_pipeVars => Unspared'
    BY UnsparedStays
  <1> QED
    BY <1>1, <1>2, <1>3, <1>4, <1>5, PipeInvariant, LimiterInvariant, PTL
       DEF PipeSpec, LimiterHonest, RetryAfterHonest, RefusedCallersSpendNothing

-----------------------------------------------------------------------------
(* Canonical JSON.                                                           *)

\* The member names canonical JSON orders.
Names == {KeyOrder[i] : i \in DOMAIN KeyOrder}

\* A member with a known name.
Member(m) == m = <<m[1], m[2]>> /\ m[1] \in Names

\* An object as callers build one: members with distinct, known names.
Object(o) ==
    /\ o \in Seq(ToSet(o)) /\ Len(o) \in Nat /\ DOMAIN o = 1..Len(o)
    /\ \A i \in DOMAIN o : Member(o[i])
    /\ \A i, j \in DOMAIN o : o[i][1] = o[j][1] => i = j

\* The same members, perhaps in another order.
SameMembers(s, o) == Object(s) /\ DOMAIN s = DOMAIN o /\ ToSet(s) = ToSet(o)

\* The canonical order tells two member names apart.
LEMMA RankSeparates ==
    /\ \A k \in Names : rank(k) \in Int
    /\ \A k, l \in Names : rank(k) = rank(l) => k = l
  <1>1. DOMAIN KeyOrder \subseteq Int
    BY DEF KeyOrder
  <1>2. ASSUME NEW k \in Names PROVE rank(k) \in DOMAIN KeyOrder /\ KeyOrder[rank(k)] = k
    BY DEF Names, rank
  <1> QED
    BY <1>1, <1>2

\* The members before m in canonical order.
before(ms, m) == {k \in ms : compareUtf16(k, m)}

\* As many members as positions.
LEMMA MembersCounted ==
    ASSUME NEW o, Object(o)
    PROVE  IsFiniteSet(ToSet(o)) /\ Cardinality(ToSet(o)) = Len(o)
  <1> DEFINE n == Len(o)
             f == [i \in 1..n |-> o[i]]
  <1>0. n \in Nat /\ DOMAIN o = 1..n
    BY DEF Object
  <1>1. f \in [1..n -> ToSet(o)] /\ \A i \in 1..n : f[i] = o[i]
    BY <1>0 DEF ToSet
  <1>2. \A i, j \in 1..n : f[i] = f[j] => i = j
    BY <1>0, <1>1 DEF Object
  <1>3. \A m \in ToSet(o) : \E i \in 1..n : f[i] = m
    BY <1>0, <1>1 DEF ToSet
  <1> HIDE DEF f, n
  <1>4. f \in Bijection(1..n, ToSet(o))
    <2>1. DOMAIN f = 1..n
      BY <1>1
    <2> QED
      BY <1>1, <1>2, <1>3, <2>1 DEF Bijection, Injection, Surjection, IsInjective
  <1>5. ExistsBijection(1..n, ToSet(o))
    BY <1>4 DEF ExistsBijection
  <1>6. IsFiniteSet(1..n) /\ Cardinality(1..n) = n
    <2>1. 1 \in Int /\ n \in Int /\ (IF 1 > n THEN 0 ELSE n - 1 + 1) = n
      BY <1>0
    <2> QED
      BY <2>1, FS_Interval
  <1>7. IsFiniteSet(ToSet(o)) /\ Cardinality(ToSet(o)) = n
    BY <1>5, <1>6, FS_Bijection, Zenon
  <1> QED
    BY <1>7 DEF n

\* Each position belongs to exactly one member.
LEMMA PositionsFilled ==
    ASSUME NEW o, Object(o)
    PROVE  /\ \A m \in ToSet(o) : Cardinality(before(ToSet(o), m)) \in 0..Len(o) - 1
           /\ \A m, k \in ToSet(o) :
                Cardinality(before(ToSet(o), m)) = Cardinality(before(ToSet(o), k)) => m = k
           /\ \A i \in 0..Len(o) - 1 : \E m \in ToSet(o) : Cardinality(before(ToSet(o), m)) = i
  <1> DEFINE n == Len(o)
             ms == ToSet(o)
             f == [m \in ms |-> Cardinality(before(ms, m))]
  <1>0. n \in Nat /\ IsFiniteSet(ms) /\ Cardinality(ms) = n
    <2>1. n \in Nat
      BY DEF Object
    <2> QED
      BY <2>1, MembersCounted, Zenon
  <1>1. ASSUME NEW m \in ms PROVE m[1] \in Names
    BY DEF Object, ToSet, Member
  <1>2. \A m, k \in ms : m[1] = k[1] => m = k
    BY DEF Object, ToSet
  <1>3. \A m \in ms : rank(m[1]) \in Int
    BY <1>1, RankSeparates
  <1>4. \A m, k \in ms : rank(m[1]) = rank(k[1]) => m = k
    BY <1>1, <1>2, RankSeparates
  <1> HIDE DEF ms, n
  <1>5. ASSUME NEW m \in ms
        PROVE  /\ before(ms, m) \in SUBSET ms /\ m \notin before(ms, m)
               /\ IsFiniteSet(before(ms, m)) /\ Cardinality(before(ms, m)) \in 0..n-1
    <2>1. before(ms, m) \in SUBSET ms
      BY DEF before
    <2>2. m \notin before(ms, m)
      BY <1>3 DEF before, compareUtf16
    <2>3. before(ms, m) # ms
      BY <2>2
    <2>4. /\ IsFiniteSet(before(ms, m))
          /\ Cardinality(before(ms, m)) <= Cardinality(ms)
          /\ Cardinality(ms) = Cardinality(before(ms, m)) => ms = before(ms, m)
      BY <1>0, <2>1, FS_Subset, Zenon
    <2>5. Cardinality(before(ms, m)) \in Nat
      BY <2>4, FS_CardinalityType, Zenon
    <2> DEFINE c == Cardinality(before(ms, m))
    <2>6. c \in Nat /\ c <= n /\ c # n
      BY <1>0, <2>3, <2>4, <2>5, Zenon
    <2> HIDE DEF c
    <2>7. c \in 0..n-1
      BY <1>0, <2>6
    <2> QED
      BY <2>1, <2>2, <2>4, <2>7 DEF c
  <1>6. ASSUME NEW m \in ms, NEW k \in ms, rank(m[1]) < rank(k[1])
        PROVE  Cardinality(before(ms, m)) # Cardinality(before(ms, k))
    <2>1. before(ms, m) \in SUBSET before(ms, k)
      BY <1>3, <1>6 DEF before, compareUtf16
    <2>2. m \in before(ms, k)
      BY <1>6 DEF before, compareUtf16
    <2>3. before(ms, m) # before(ms, k)
      BY <1>5, <2>2, Zenon
    <2> QED
      BY <1>5, <2>1, <2>3, FS_Subset, Zenon
  <1>7. ASSUME NEW m \in ms, NEW k \in ms, Cardinality(before(ms, m)) = Cardinality(before(ms, k))
        PROVE  m = k
    <2>1. ~(rank(m[1]) < rank(k[1])) /\ ~(rank(k[1]) < rank(m[1]))
      BY <1>6, <1>7, Zenon
    <2> QED
      BY <1>3, <1>4, <2>1
  <1>8. f \in [ms -> 0..n-1]
    BY <1>5
  <1>9. \A m \in ms : f[m] = Cardinality(before(ms, m))
    OBVIOUS
  <1>10. DOMAIN f = ms
    OBVIOUS
  <1> HIDE DEF f
  <1>11. \A m, k \in ms : f[m] = f[k] => m = k
    BY <1>7, <1>9, Zenon
  <1>12. f \in Injection(ms, 0..n-1)
    BY <1>8, <1>10, <1>11, Zenon DEF Injection, IsInjective
  <1>13. IsFiniteSet(0..n-1) /\ Cardinality(0..n-1) = n
    <2>1. 0 \in Int /\ n-1 \in Int /\ (IF 0 > n-1 THEN 0 ELSE (n-1) - 0 + 1) = n
      BY <1>0
    <2> QED
      BY <2>1, FS_Interval
  <1>14. f \in Surjection(ms, 0..n-1)
    BY <1>0, <1>12, <1>13, FS_Injection, Zenon
  <1>15. \A i \in 0..n-1 : \E m \in ms : f[m] = i
    BY <1>14, Zenon DEF Surjection
  <1>16. \A i \in 0..n-1 : \E m \in ms : Cardinality(before(ms, m)) = i
    BY <1>9, <1>15, Zenon
  <1>17. \A m \in ms : Cardinality(before(ms, m)) \in 0..n-1
    BY <1>5
  <1> QED
    BY <1>7, <1>16, <1>17 DEF ms, n

\* Writing an object loses no member and repeats none.
LEMMA OrderedMembers ==
    ASSUME NEW o, Object(o)
    PROVE  SameMembers(ordered(o), o)
  <1> DEFINE n == Len(o)
             ms == ToSet(o)
             s == ordered(o)
             c(m) == Cardinality(before(ms, m))
  <1>0. n \in Nat /\ DOMAIN o = 1..n
    BY DEF Object
  <1>1. s = [i \in 1..n |-> CHOOSE m \in ms : c(m) = i - 1]
    BY <1>0 DEF ordered, before
  <1>2. \A m, k \in ms : c(m) = c(k) => m = k
    BY PositionsFilled, Zenon
  <1>3. \A m \in ms : c(m) \in 0..n-1
    BY PositionsFilled
  <1>4. \A i \in 0..n-1 : \E m \in ms : c(m) = i
    BY PositionsFilled, Zenon
  <1>5. /\ \A m \in ms : Member(m)
        /\ \A m, k \in ms : m[1] = k[1] => m = k
    BY DEF Object, ToSet
  <1> HIDE DEF n, ms, c
  <1>6. ASSUME NEW i \in 1..n PROVE s[i] \in ms /\ c(s[i]) = i - 1
    <2>1. i - 1 \in 0..n-1
      BY <1>0
    <2>2. \E m \in ms : c(m) = i - 1
      BY <1>4, <2>1, Zenon
    <2>3. s[i] = CHOOSE m \in ms : c(m) = i - 1
      BY <1>1
    <2> QED
      BY <2>2, <2>3, Zenon
  <1>14. s \in Seq(ms)
    BY <1>0, <1>1, <1>6
  <1>7. DOMAIN s = 1..n /\ Len(s) = n
    <2>1. DOMAIN s = 1..n
      BY <1>1
    <2> QED
      BY <1>0, <1>14, <2>1
  <1> HIDE DEF s
  <1>8. \A i, j \in 1..n : s[i] = s[j] => i = j
    BY <1>6
  <1>9. \A i \in 1..n : Member(s[i])
    BY <1>5, <1>6
  <1>10. \A i, j \in 1..n : s[i][1] = s[j][1] => i = j
    BY <1>5, <1>6, <1>8
  <1>12. ASSUME NEW m \in ms PROVE \E i \in 1..n : s[i] = m
    <2> DEFINE i == c(m) + 1
    <2>1. i \in 1..n /\ i - 1 = c(m)
      BY <1>0, <1>3
    <2>2. c(s[i]) = c(m) /\ s[i] \in ms
      BY <1>6, <2>1
    <2>3. s[i] = m
      BY <1>2, <2>2, Zenon
    <2> QED
      BY <2>1, <2>3
  <1>13. ToSet(s) = ms
    BY <1>6, <1>7, <1>12 DEF ToSet
  <1>15. s \in Seq(ToSet(s))
    BY <1>13, <1>14, Zenon
  <1>16. Object(s)
    BY <1>0, <1>7, <1>9, <1>10, <1>15 DEF Object
  <1> QED
    BY <1>0, <1>7, <1>13, <1>16 DEF SameMembers, ms, s, n

\* A member can be looked up by its name.
LEMMA LookUp ==
    ASSUME NEW s, Object(s), NEW k, NEW v, <<k, v>> \in ToSet(s)
    PROVE  k \in keysOf(s) /\ valueOf(s, k) = v
  <1>1. PICK i \in DOMAIN s : s[i] = <<k, v>>
    BY DEF ToSet
  <1>2. s[i][1] = k /\ s[i][2] = v
    BY <1>1
  <1>3. \A j \in DOMAIN s : s[j][1] = k => j = i
    BY <1>2 DEF Object
  <1>4. (CHOOSE j \in DOMAIN s : s[j][1] = k) = i
    BY <1>2, <1>3
  <1>5. valueOf(s, k) = s[i][2]
    BY <1>4, Zenon DEF valueOf
  <1> QED
    BY <1>2, <1>5 DEF keysOf

\* What a lookup returns is a member.
LEMMA LookedUp ==
    ASSUME NEW s, Object(s), NEW k \in keysOf(s)
    PROVE  <<k, valueOf(s, k)>> \in ToSet(s)
  <1>1. PICK i \in DOMAIN s : s[i][1] = k
    BY DEF keysOf
  <1>2. s[i] = <<k, s[i][2]>> /\ s[i] \in ToSet(s)
    BY <1>1 DEF Object, ToSet, Member
  <1>3. <<k, s[i][2]>> \in ToSet(s)
    BY <1>2, Zenon
  <1>4. valueOf(s, k) = s[i][2]
    BY <1>3, LookUp, Zenon
  <1> QED
    BY <1>3, <1>4, Zenon

\* The keys of an object, from its members.
LEMMA KeysAreNames == ASSUME NEW s PROVE keysOf(s) = {m[1] : m \in ToSet(s)}
  BY DEF keysOf, ToSet

\* The strict parser returns an object as it was written.
LEMMA ObjectParses ==
    ASSUME NEW s, Object(s)
    PROVE  strictParse(json(s)) = [ok |-> TRUE, pairs |-> s]
  <1> DEFINE n == Len(s)
             f == [i \in 1..n |-> s[i][1]]
  <1>0. n \in Nat /\ DOMAIN s = 1..n
    BY DEF Object
  <1>1. f \in [1..n -> keysOf(s)] /\ \A i \in 1..n : f[i] = s[i][1]
    BY <1>0 DEF keysOf
  <1>2. \A i, j \in 1..n : f[i] = f[j] => i = j
    BY <1>0, <1>1 DEF Object
  <1>3. \A k \in keysOf(s) : \E i \in 1..n : f[i] = k
    BY <1>0, <1>1 DEF keysOf
  <1> HIDE DEF f, n
  <1>4. f \in Bijection(1..n, keysOf(s))
    <2>1. DOMAIN f = 1..n
      BY <1>1
    <2> QED
      BY <1>1, <1>2, <1>3, <2>1 DEF Bijection, Injection, Surjection, IsInjective
  <1>5. ExistsBijection(1..n, keysOf(s))
    BY <1>4 DEF ExistsBijection
  <1>6. IsFiniteSet(1..n) /\ Cardinality(1..n) = n
    <2>1. 1 \in Int /\ n \in Int /\ (IF 1 > n THEN 0 ELSE n - 1 + 1) = n
      BY <1>0
    <2> QED
      BY <2>1, FS_Interval
  <1>7. Cardinality(keysOf(s)) = n
    BY <1>5, <1>6, FS_Bijection, Zenon
  <1>8. json(s).kind = "json" /\ json(s).pairs = s
    BY DEF json
  <1>9. Cardinality(keysOf(json(s).pairs)) = Len(json(s).pairs)
    BY <1>7, <1>8, Zenon DEF n
  <1> HIDE DEF json
  <1> QED
    BY <1>8, <1>9, Zenon DEF strictParse

-----------------------------------------------------------------------------
(* What the codecs write, they read.                                         *)

\* What canonicalize accepts, and what the codecs write.
writableObject(o) == \A i \in DOMAIN o : writable(o[i][2])
headerOf(alg, kid) == <<member("v", num(1)), member("typ", str("lic")),
                        member("alg", str(alg)), member("kid", str(kid))>>
footerOf(kid) == <<member("kid", str(kid))>>
written(o) == json(ordered(o))
\* The codecs refuse to decode an empty kid.
Named(kid) == kid # ""

\* A LIC1 header is an object canonical JSON can write.
LEMMA HeaderIsObject ==
    ASSUME NEW alg, NEW kid
    PROVE  Object(headerOf(alg, kid)) /\ writableObject(headerOf(alg, kid))
  <1> DEFINE o == headerOf(alg, kid)
  <1>1. {"v", "typ", "alg", "kid"} \subseteq Names
    <2>1. /\ KeyOrder[19] = "v" /\ KeyOrder[16] = "typ" /\ KeyOrder[1] = "alg" /\ KeyOrder[10] = "kid"
          /\ 1..19 = DOMAIN KeyOrder
      BY DEF KeyOrder
    <2> QED
      BY <2>1 DEF Names
  <1>2. Len(o) = 4 /\ DOMAIN o = 1..4
    BY DEF headerOf
  <1>10. o \in Seq(ToSet(o))
    BY DEF headerOf, ToSet
  <1>3. o[1] = <<"v", num(1)>> /\ o[2] = <<"typ", str("lic")>>
        /\ o[3] = <<"alg", str(alg)>> /\ o[4] = <<"kid", str(kid)>>
    BY DEF headerOf, member
  <1> HIDE DEF o
  <1>4. \A i \in 1..4 : i = 1 \/ i = 2 \/ i = 3 \/ i = 4
    OBVIOUS
  <1>5. \A i \in 1..4 : Member(o[i])
    BY <1>1, <1>3, <1>4 DEF Member
  <1>6. \A i, j \in 1..4 : o[i][1] = o[j][1] => i = j
    BY <1>3, <1>4
  <1>7. \A i \in 1..4 : writable(o[i][2])
    BY <1>3, <1>4 DEF writable, typeof, num, str
  <1>8. Object(o)
    BY <1>2, <1>5, <1>6, <1>10 DEF Object
  <1>9. writableObject(o)
    BY <1>2, <1>7 DEF writableObject
  <1> QED
    BY <1>8, <1>9 DEF o

\* So is a LIC2 footer.
LEMMA FooterIsObject ==
    ASSUME NEW kid
    PROVE  Object(footerOf(kid)) /\ writableObject(footerOf(kid))
  <1> DEFINE o == footerOf(kid)
  <1>1. "kid" \in Names
    <2>1. KeyOrder[10] = "kid" /\ 10 \in DOMAIN KeyOrder
      BY DEF KeyOrder
    <2> QED
      BY <2>1 DEF Names
  <1>2. Len(o) = 1 /\ DOMAIN o = 1..1 /\ o[1] = <<"kid", str(kid)>>
    BY DEF footerOf, member
  <1>6. o \in Seq(ToSet(o))
    BY DEF footerOf, ToSet
  <1> HIDE DEF o
  <1>3. \A i \in 1..1 : i = 1
    OBVIOUS
  <1>4. Object(o)
    BY <1>1, <1>2, <1>3, <1>6 DEF Object, Member
  <1>5. writableObject(o)
    BY <1>2, <1>3 DEF writableObject, writable, typeof, str
  <1> QED
    BY <1>4, <1>5 DEF o

\* The header a codec writes is the header it reads.
LEMMA HeaderParses ==
    ASSUME NEW alg \in KeyAlgs, NEW kid, Named(kid)
    PROVE  parseHeader(written(headerOf(alg, kid))) = [ok |-> TRUE, alg |-> alg, kid |-> kid]
  <1> DEFINE o == headerOf(alg, kid)
             s == ordered(o)
             p == strictParse(json(s))
  <1>1. Object(o)
    BY HeaderIsObject
  <1>2. Object(s) /\ ToSet(s) = ToSet(o)
    BY <1>1, OrderedMembers, Zenon DEF SameMembers
  <1>3. ToSet(o) = {<<"v", num(1)>>, <<"typ", str("lic")>>, <<"alg", str(alg)>>, <<"kid", str(kid)>>}
    <2>1. DOMAIN o = 1..4
      BY DEF headerOf
    <2>2. o[1] = <<"v", num(1)>> /\ o[2] = <<"typ", str("lic")>>
          /\ o[3] = <<"alg", str(alg)>> /\ o[4] = <<"kid", str(kid)>>
      BY DEF headerOf, member
    <2>3. (\A i \in 1..4 : i = 1 \/ i = 2 \/ i = 3 \/ i = 4)
          /\ 1 \in 1..4 /\ 2 \in 1..4 /\ 3 \in 1..4 /\ 4 \in 1..4
      OBVIOUS
    <2> HIDE DEF o
    <2> QED
      BY <2>1, <2>2, <2>3, ZenonT(30) DEF ToSet
  <1> HIDE DEF o, s
  <1>4. /\ valueOf(s, "v") = num(1) /\ valueOf(s, "typ") = str("lic")
        /\ valueOf(s, "alg") = str(alg) /\ valueOf(s, "kid") = str(kid)
    BY <1>2, <1>3, LookUp, Zenon
  <1>5. keysOf(s) = HEADER_REQUIRED
    <2>1. \A k \in keysOf(s) : \E m \in ToSet(s) : m[1] = k
      BY KeysAreNames, Zenon
    <2>2. \A m \in ToSet(s) : m[1] \in HEADER_REQUIRED
      BY <1>2, <1>3 DEF HEADER_REQUIRED
    <2>3. "v" \in keysOf(s) /\ "typ" \in keysOf(s) /\ "alg" \in keysOf(s) /\ "kid" \in keysOf(s)
      BY <1>2, <1>3, LookUp, Zenon
    <2> QED
      BY <2>1, <2>2, <2>3 DEF HEADER_REQUIRED
  <1>6. p = [ok |-> TRUE, pairs |-> s]
    BY <1>2, ObjectParses
  <1>7. p.ok = TRUE /\ p.pairs = s
    BY <1>6
  <1> HIDE DEF p
  <1>8. content(str(alg)) = alg /\ content(str(kid)) = kid
    BY DEF content, str
  <1>9. parseHeader(json(s)) = [ok |-> TRUE, alg |-> alg, kid |-> kid]
    BY <1>4, <1>5, <1>7, <1>8, Zenon DEF parseHeader, p, Named
  <1> QED
    BY <1>9, Zenon DEF written, s, o

\* parseFooter reads the kid back from the footer encode wrote.
LEMMA FooterParses ==
    ASSUME NEW kid, Named(kid)
    PROVE  parseFooter(written(footerOf(kid))) = [ok |-> TRUE, kid |-> kid]
  <1> DEFINE o == footerOf(kid)
             s == ordered(o)
             p == strictParse(json(s))
  <1>1. Object(o)
    BY FooterIsObject
  <1>2. Object(s) /\ ToSet(s) = ToSet(o)
    BY <1>1, OrderedMembers, Zenon DEF SameMembers
  <1>3. <<"kid", str(kid)>> \in ToSet(o)
    <2>1. 1 \in DOMAIN o
      BY DEF footerOf
    <2>2. o[1] = <<"kid", str(kid)>>
      BY DEF footerOf, member
    <2> HIDE DEF o
    <2> QED
      BY <2>1, <2>2, Zenon DEF ToSet
  <1> HIDE DEF o, s
  <1>4. "kid" \in keysOf(s) /\ valueOf(s, "kid") = str(kid)
    BY <1>2, <1>3, LookUp, Zenon
  <1>6. p = [ok |-> TRUE, pairs |-> s]
    BY <1>2, ObjectParses
  <1>7. p.ok = TRUE /\ p.pairs = s
    BY <1>6
  <1> HIDE DEF p
  <1>8. content(str(kid)) = kid /\ typeof(str(kid)) = "str"
    BY DEF content, str, typeof
  <1>9. parseFooter(json(s)) = [ok |-> TRUE, kid |-> kid]
    BY <1>4, <1>7, <1>8, Zenon DEF parseFooter, p, Named
  <1> QED
    BY <1>9, Zenon DEF written, s, o

\* What the codecs sign and hand out for an object.
inputOf1(alg, kid, o) == lic1Input(written(headerOf(alg, kid)), written(o))
inputOf2(kid, o) == signingInputFor(written(o), written(footerOf(kid)))
lic1Token(alg, kid, o) ==
    [prefix |-> LIC1_PREFIX,
     segs |-> <<written(headerOf(alg, kid)), written(o), sign(kid, alg, inputOf1(alg, kid, o))>>]
lic2Token(kid, o) ==
    [prefix |-> LIC2_PREFIX,
     segs |-> <<[kind |-> "body", message |-> written(o),
                 signature |-> sign(kid, "ed25519", inputOf2(kid, o))], written(footerOf(kid))>>]

\* canonicalize orders an object it can write, and refuses any other.
LEMMA Canonical ==
    ASSUME NEW o
    PROVE  /\ writableObject(o) => canonicalize(o) = [ok |-> TRUE, pairs |-> ordered(o)]
           /\ ~writableObject(o) => ~canonicalize(o).ok
  <1>1. CASE writableObject(o)
    BY <1>1, Zenon DEF canonicalize, writableObject
  <1>2. CASE ~writableObject(o)
    <2>1. canonicalize(o) = failed("CanonicalJSONInvalidNumber")
      BY <1>2, Zenon DEF canonicalize, writableObject
    <2> QED
      BY <1>2, <2>1 DEF failed
  <1> QED
    BY <1>1, <1>2, Zenon

\* What the LIC1 codec encodes, and when it refuses.
LEMMA Lic1Writes ==
    ASSUME NEW alg, NEW kid, NEW o
    PROVE  /\ writableObject(o) =>
                lic1Encode(alg, kid, o) = [ok |-> TRUE, token |-> lic1Token(alg, kid, o)]
           /\ ~writableObject(o) => ~lic1Encode(alg, kid, o).ok
  <1> DEFINE payl == canonicalize(o)
             hd == canonicalize(headerOf(alg, kid))
  <1>1. hd = [ok |-> TRUE, pairs |-> ordered(headerOf(alg, kid))]
    BY HeaderIsObject, Canonical, Zenon
  <1>2. hd.pairs = ordered(headerOf(alg, kid))
    BY <1>1
  <1>3. CASE writableObject(o)
    <2>1. payl = [ok |-> TRUE, pairs |-> ordered(o)]
      BY <1>3, Canonical, Zenon
    <2>2. payl.ok = TRUE /\ payl.pairs = ordered(o)
      BY <2>1
    <2>3. lic1Encode(alg, kid, o) =
            IF ~payl.ok THEN payl
            ELSE [ok |-> TRUE, token |-> [prefix |-> LIC1_PREFIX,
                    segs |-> <<json(hd.pairs), json(payl.pairs),
                               sign(kid, alg, lic1Input(json(hd.pairs), json(payl.pairs)))>>]]
      BY Zenon DEF lic1Encode, headerOf
    <2> HIDE DEF payl, hd
    <2> QED
      BY <1>2, <1>3, <2>2, <2>3, Zenon DEF lic1Token, written, inputOf1
  <1>4. CASE ~writableObject(o)
    <2>1. ~payl.ok
      BY <1>4, Canonical, Zenon
    <2>2. lic1Encode(alg, kid, o) = payl
      BY <2>1, Zenon DEF lic1Encode
    <2> QED
      BY <1>4, <2>1, <2>2, Zenon
  <1> QED
    BY <1>3, <1>4, Zenon

\* What the LIC2 codec encodes, and when it refuses.
LEMMA Lic2Writes ==
    ASSUME NEW alg, NEW kid, NEW o
    PROVE  /\ alg = "ed25519" /\ writableObject(o) =>
                lic2Encode(alg, kid, o) = [ok |-> TRUE, token |-> lic2Token(kid, o)]
           /\ ~(alg = "ed25519" /\ writableObject(o)) => ~lic2Encode(alg, kid, o).ok
  <1> DEFINE payl == canonicalize(o)
             ft == canonicalize(footerOf(kid))
             body == [kind |-> "body", message |-> json(payl.pairs),
                      signature |-> sign(kid, alg, signingInputFor(json(payl.pairs), json(ft.pairs)))]
  <1>1. ft = [ok |-> TRUE, pairs |-> ordered(footerOf(kid))]
    BY FooterIsObject, Canonical, Zenon
  <1>2. ft.pairs = ordered(footerOf(kid))
    BY <1>1
  <1>0. lic2Encode(alg, kid, o) =
            IF alg # "ed25519" THEN failed("UnsupportedAlgorithm") ELSE
            IF ~payl.ok THEN payl
            ELSE [ok |-> TRUE, token |-> [prefix |-> LIC2_PREFIX, segs |-> <<body, json(ft.pairs)>>]]
      BY Zenon DEF lic2Encode, footerOf
  <1>3. CASE alg = "ed25519" /\ writableObject(o)
    <2>1. payl = [ok |-> TRUE, pairs |-> ordered(o)]
      BY <1>3, Canonical, Zenon
    <2>2. payl.ok = TRUE /\ payl.pairs = ordered(o)
      BY <2>1
    <2> HIDE DEF payl, ft
    <2>3. body = [kind |-> "body", message |-> written(o),
                  signature |-> sign(kid, "ed25519", inputOf2(kid, o))]
      BY <1>2, <1>3, <2>2, Zenon DEF written, inputOf2
    <2> HIDE DEF body
    <2> QED
      BY <1>0, <1>2, <1>3, <2>2, <2>3, Zenon DEF lic2Token, written
  <1>4. CASE alg # "ed25519"
    <2>1. lic2Encode(alg, kid, o) = failed("UnsupportedAlgorithm")
      BY <1>0, <1>4, Zenon
    <2>2. ~lic2Encode(alg, kid, o).ok
      BY <2>1 DEF failed
    <2> QED
      BY <1>4, <2>2, Zenon
  <1>5. CASE alg = "ed25519" /\ ~writableObject(o)
    <2>1. ~payl.ok
      BY <1>5, Canonical, Zenon
    <2>2. lic2Encode(alg, kid, o) = payl
      BY <1>0, <1>5, <2>1, Zenon
    <2> QED
      BY <1>5, <2>1, <2>2, Zenon
  <1> QED
    BY <1>3, <1>4, <1>5, Zenon

\* The LIC1 codec decodes what it encoded.
LEMMA Lic1Reads ==
    ASSUME NEW alg \in KeyAlgs, NEW kid, Named(kid), NEW o, Object(o)
    PROVE  decodeUnverified(lic1Token(alg, kid, o)) =
             envelope(alg, kid, ordered(o), inputOf1(alg, kid, o), sign(kid, alg, inputOf1(alg, kid, o)))
  <1> DEFINE t == lic1Token(alg, kid, o)
             h == written(headerOf(alg, kid))
             p == written(o)
             g == sign(kid, alg, inputOf1(alg, kid, o))
             head == parseHeader(h)
             payl == strictParse(p)
  <1>1. t.prefix = LIC1_PREFIX /\ t.segs = <<h, p, g>>
    BY DEF lic1Token
  <1>2. decodeUnverified(t) = decodeLIC1(<<h, p, g>>)
    <2>1. decodeUnverified(t) = decodeLIC1(t.segs)
      BY <1>1 DEF decodeUnverified, codecFor, LIC1_PREFIX, LIC2_PREFIX
    <2> HIDE DEF t, h, p, g
    <2> QED
      BY <1>1, <2>1, Zenon
  <1>3. h.kind = "json" /\ p.kind = "json" /\ g.kind = "sig"
    BY DEF written, json, sign
  <1>4. head = [ok |-> TRUE, alg |-> alg, kid |-> kid]
    BY HeaderParses, Zenon
  <1>5. head.ok = TRUE /\ head.alg = alg /\ head.kid = kid
    BY <1>4
  <1>6. payl = [ok |-> TRUE, pairs |-> ordered(o)]
    BY OrderedMembers, ObjectParses DEF SameMembers, written
  <1>7. payl.ok = TRUE /\ payl.pairs = ordered(o)
    BY <1>6
  <1> DEFINE segs == <<h, p, g>>
  <1>8. Len(segs) = 3 /\ segs[1] = h /\ segs[2] = p /\ segs[3] = g
    OBVIOUS
  <1>9. \A i \in DOMAIN segs : i = 1 \/ i = 2 \/ i = 3
    OBVIOUS
  <1>10. lic1Input(h, p) = inputOf1(alg, kid, o)
    BY Zenon DEF inputOf1
  <1> HIDE DEF h, p, g, segs
  <1>11. \A i \in DOMAIN segs : segs[i].kind \notin {"badB64", "body"}
    BY <1>3, <1>8, <1>9
  <1>12. decodeLIC1(segs) = envelope(head.alg, head.kid, payl.pairs, lic1Input(h, p), g)
    <2> HIDE DEF head, payl
    <2>1. head.ok /\ payl.ok
      BY <1>5, <1>7
    <2>2. ~(Len(segs) # 3 \/ \E i \in DOMAIN segs : segs[i].kind \in {"badB64", "body"})
      BY <1>8, <1>11, Zenon
    <2>3. head = parseHeader(segs[1]) /\ payl = strictParse(segs[2])
      BY <1>8, Zenon DEF head, payl
    <2> QED
      BY <1>8, <2>1, <2>2, <2>3, Zenon DEF decodeLIC1
  <1>13. decodeLIC1(segs) = envelope(alg, kid, ordered(o), inputOf1(alg, kid, o), g)
    BY <1>5, <1>7, <1>10, <1>12, Zenon
  <1> QED
    BY <1>2, <1>13, Zenon DEF segs, g

\* The LIC2 codec decodes what it encoded.
LEMMA Lic2Reads ==
    ASSUME NEW kid, Named(kid), NEW o, Object(o)
    PROVE  decodeUnverified(lic2Token(kid, o)) =
             envelope("ed25519", kid, ordered(o), inputOf2(kid, o), sign(kid, "ed25519", inputOf2(kid, o)))
  <1> DEFINE t == lic2Token(kid, o)
             f == written(footerOf(kid))
             p == written(o)
             g == sign(kid, "ed25519", inputOf2(kid, o))
             b == [kind |-> "body", message |-> p, signature |-> g]
             foot == parseFooter(f)
             payl == strictParse(p)
  <1>1. t.prefix = LIC2_PREFIX /\ t.segs = <<b, f>>
    BY DEF lic2Token
  <1>2. decodeUnverified(t) = decodeLIC2(<<b, f>>)
    <2>1. decodeUnverified(t) = decodeLIC2(t.segs)
      BY <1>1 DEF decodeUnverified, codecFor, LIC1_PREFIX, LIC2_PREFIX
    <2> HIDE DEF t, b, f
    <2> QED
      BY <1>1, <2>1, Zenon
  <1>3. b.kind = "body" /\ b.message = p /\ b.signature = g /\ f.kind = "json"
    BY DEF written, json
  <1>4. foot = [ok |-> TRUE, kid |-> kid]
    BY FooterParses, Zenon
  <1>5. foot.ok = TRUE /\ foot.kid = kid
    BY <1>4
  <1>6. payl = [ok |-> TRUE, pairs |-> ordered(o)]
    BY OrderedMembers, ObjectParses DEF SameMembers, written
  <1>7. payl.ok = TRUE /\ payl.pairs = ordered(o)
    BY <1>6
  <1> DEFINE segs == <<b, f>>
  <1>8. Len(segs) = 2 /\ segs[1] = b /\ segs[2] = f
    OBVIOUS
  <1>10. signingInputFor(p, f) = inputOf2(kid, o)
    BY Zenon DEF inputOf2
  <1> HIDE DEF f, p, g, b, segs
  <1>12. decodeLIC2(segs) = envelope("ed25519", foot.kid, payl.pairs, signingInputFor(p, f), g)
    <2> HIDE DEF foot, payl
    <2>1. foot.ok /\ payl.ok
      BY <1>5, <1>7
    <2>2. segs[Len(segs)] = f
      BY <1>8
    <2>3. ~(Len(segs) # 2 \/ segs[1].kind # "body" \/ segs[Len(segs)].kind = "badB64")
      BY <1>3, <1>8, <2>2
    <2>4. foot = parseFooter(segs[2]) /\ payl = strictParse(segs[1].message)
      BY <1>3, <1>8, Zenon DEF foot, payl
    <2> QED
      BY <1>3, <1>8, <2>1, <2>3, <2>4, Zenon DEF decodeLIC2
  <1>13. decodeLIC2(segs) = envelope("ed25519", kid, ordered(o), inputOf2(kid, o), g)
    BY <1>5, <1>7, <1>10, <1>12, Zenon
  <1> QED
    BY <1>2, <1>13, Zenon DEF segs, g

\* What verify() decides on a token whose parts are known.
LEMMA VerifyAccepts ==
    ASSUME NEW token, NEW alg, NEW kid, NEW pairs, NEW input,
           decodeUnverified(token) = envelope(alg, kid, pairs, input, sign(kid, alg, input)),
           kid \in DOMAIN Records, kid \in DOMAIN Bindings, Records[kid] = alg, Bindings[kid] = alg,
           alg \in Registry, alg # "hs256"
    PROVE  /\ verifyStart(token).ok
           /\ verifyFinish(decodeUnverified(token)) = decodeUnverified(token)
           /\ decodeUnverified(token).ok /\ decodeUnverified(token).payload = pairs
  <1> DEFINE parts == decodeUnverified(token)
             g == sign(kid, alg, input)
  <1>1. /\ parts.ok = TRUE /\ parts.alg = alg /\ parts.kid = kid /\ parts.payload = pairs
        /\ parts.input = input /\ parts.signature = g
    <2> DEFINE e == envelope(alg, kid, pairs, input, g)
    <2>1. /\ e.ok = TRUE /\ e.alg = alg /\ e.kid = kid /\ e.payload = pairs
          /\ e.input = input /\ e.signature = g
      BY DEF envelope
    <2>2. parts = e
      OBVIOUS
    <2> HIDE DEF e, g, parts
    <2> QED
      BY <2>1, <2>2, Zenon
  <1>2. g.kind = "sig" /\ g.kid = kid /\ g.alg = alg /\ g.input = input
    BY DEF sign
  <1> HIDE DEF g
  <1>3. backendVerify(parts)
    BY <1>1, <1>2, Zenon DEF backendVerify
  <1>4. expect(kid, alg) = [ok |-> TRUE]
    BY Zenon DEF expect
  <1>5. expect(kid, alg).ok
    BY <1>4
  <1> HIDE DEF parts
  <1>6. verifyStart(token) = parts
    BY <1>1, <1>5, Zenon DEF verifyStart, parts
  <1>7. verifyFinish(parts) = parts
    BY <1>1, <1>3, Zenon DEF verifyFinish, importPublic
  <1> QED
    BY <1>1, <1>6, <1>7, Zenon DEF parts

-----------------------------------------------------------------------------
(* What a call reports.                                                      *)

\* validate() as a function of its inputs: everything but the ledger.
Outcome(token, nowSec, skew, pin) ==
    LET parts == verifyFinish(decodeUnverified(token)) IN
    IF ~verifyStart(token).ok THEN translateVerifyError(verifyStart(token).code)
    ELSE IF parts.ok THEN checkClaims(parts.payload, nowSec, skew, pin)
    ELSE translateVerifyError(parts.code)

\* A call or a verdict was given a token of its focus, outside "claims" without
\* pins, and in "envelopes" at the first instant.
Given(f, r) ==
    /\ r.nowSec \in Int
    /\ f = "claims" => r.token \in ClaimTokens
    /\ f = "envelopes" => r.token \in EnvelopeTokens /\ r.pin = "none" /\ r.nowSec = 0

\* What a waiting call was given, and what it has passed.
CallsGiven == \A p \in Procs : check[p].pc # "idle" =>
    /\ Given(focus, check[p]) /\ verifyStart(check[p].token).ok
    /\ check[p].pc = "recording" =>
         Outcome(check[p].token, check[p].nowSec, Skew[p], check[p].pin) = "ok"

\* What a verdict was given on, and that it is the outcome of the checks.
VerdictsGiven == \A e \in log :
    /\ Given(focus, e)
    /\ e.code = "ok" => Outcome(e.token, e.nowSec, Skew[e.proc], e.pin) = "ok"
    /\ focus # "replay" => e.code = Outcome(e.token, e.nowSec, Skew[e.proc], e.pin)

\* Outside "replay" there is one call, and the ledger is empty before it ends.
OneCall == focus # "replay" =>
    /\ log = {} => DOMAIN ledger = {}
    /\ log # {} => \A p \in Procs : check[p].pc = "idle"
    /\ \A p, q \in Procs : check[p].pc # "idle" /\ check[q].pc # "idle" => p = q

\* The inductive invariant: every verdict is the outcome for its own token.
VerdictInv ==
    /\ now \in Int /\ (focus = "envelopes" => now = 0)
    /\ CallsGiven /\ VerdictsGiven /\ OneCall

\* A presented token keeps the invariant, refused or not.
LEMMA PresentGives ==
    ASSUME CallsWait, VerdictInv, NEW p \in Procs, NEW token, NEW pin, Present(p, token, pin),
           focus = "claims" => token \in ClaimTokens,
           focus = "envelopes" => token \in EnvelopeTokens /\ pin = "none",
           focus # "replay" => log = {} /\ \A q \in Procs : check[q].pc = "idle"
    PROVE  VerdictInv'
  <1> DEFINE parts == verifyStart(token)
             c == [pc |-> "verifying", token |-> token, pin |-> pin, nowSec |-> now]
  <1>0. /\ c.pc = "verifying" /\ c.token = token /\ c.pin = pin /\ c.nowSec = now
        /\ focus' = focus /\ now' = now /\ ledger' = ledger
    BY DEF Present
  <1>1. CASE parts.ok
    <2>1. check' = [check EXCEPT ![p] = c] /\ log' = log
      BY <1>1 DEF Present
    <2> HIDE DEF c
    <2>2. check'[p] = c /\ \A q \in Procs : q # p => check'[q] = check[q]
      BY <2>1 DEF CallsWait
    <2>3. CallsGiven'
      <3> SUFFICES ASSUME NEW q \in Procs, check'[q].pc # "idle"
                   PROVE  /\ Given(focus', check'[q]) /\ verifyStart(check'[q].token).ok
                          /\ check'[q].pc = "recording" =>
                               Outcome(check'[q].token, check'[q].nowSec, Skew[q], check'[q].pin) = "ok"
        BY DEF CallsGiven
      <3>1. CASE q = p
        BY <1>0, <1>1, <2>2, <3>1 DEF Given, VerdictInv
      <3>2. CASE q # p
        BY <1>0, <2>2, <3>2 DEF Given, VerdictInv, CallsGiven
      <3> QED
        BY <3>1, <3>2
    <2>4. VerdictsGiven'
      BY <1>0, <2>1 DEF VerdictInv, VerdictsGiven, Given
    <2>5. OneCall'
      BY <1>0, <2>1, <2>2 DEF VerdictInv, OneCall
    <2> QED
      BY <1>0, <2>3, <2>4, <2>5 DEF VerdictInv
  <1>2. CASE ~parts.ok
    <2> DEFINE code == translateVerifyError(parts.code)
               e == [n |-> Cardinality(log), proc |-> p, token |-> c.token, pin |-> c.pin,
                     nowSec |-> c.nowSec, at |-> now, code |-> code]
    <2>1. check' = [check EXCEPT ![p] = idle] /\ log' = log \cup {e}
      BY <1>2 DEF Present, verdict
    <2>2. code # "ok"
      BY EarlyCodes
    <2>3. e.proc = p /\ e.token = token /\ e.pin = pin /\ e.nowSec = now /\ e.code = code
      OBVIOUS
    <2>4. Outcome(token, now, Skew[p], pin) = code
      BY <1>2, Zenon DEF Outcome
    <2> HIDE DEF c, code, e
    <2>5. check'[p] = idle /\ \A q \in Procs : q # p => check'[q] = check[q]
      BY <2>1 DEF CallsWait
    <2>6. CallsGiven'
      BY <1>0, <2>5 DEF VerdictInv, CallsGiven, Given, idle
    <2>7. VerdictsGiven'
      <3>1. \A x \in log : Given(focus', x)
        BY <1>0 DEF VerdictInv, VerdictsGiven, Given
      <3>2. Given(focus', e)
        BY <1>0, <2>3 DEF VerdictInv, Given
      <3> QED
        BY <1>0, <2>1, <2>2, <2>3, <2>4, <3>1, <3>2 DEF VerdictInv, VerdictsGiven
    <2>8. OneCall'
      BY <1>0, <2>1, <2>5 DEF VerdictInv, OneCall, idle
    <2> QED
      BY <1>0, <2>6, <2>7, <2>8 DEF VerdictInv
  <1> QED
    BY <1>1, <1>2

\* A call that ends with the outcome of its inputs, or that never promised one.
LEMMA VerdictGives ==
    ASSUME CallsWait, VerdictInv, NEW p \in Procs, check[p].pc # "idle", NEW code,
           verdict(p, check[p], code), UNCHANGED <<focus, now>>,
           code = "ok" => Outcome(check[p].token, check[p].nowSec, Skew[p], check[p].pin) = "ok",
           focus # "replay" => code = Outcome(check[p].token, check[p].nowSec, Skew[p], check[p].pin)
    PROVE  VerdictInv'
  <1> DEFINE c == check[p]
             e == [n |-> Cardinality(log), proc |-> p, token |-> c.token, pin |-> c.pin,
                   nowSec |-> c.nowSec, at |-> now, code |-> code]
  <1>1. check' = [check EXCEPT ![p] = idle] /\ log' = log \cup {e}
    BY DEF verdict
  <1>2. e.proc = p /\ e.token = c.token /\ e.pin = c.pin /\ e.nowSec = c.nowSec /\ e.code = code
    OBVIOUS
  <1> HIDE DEF e
  <1>3. check'[p] = idle /\ \A q \in Procs : q # p => check'[q] = check[q]
    BY <1>1 DEF CallsWait
  <1>4. CallsGiven'
    BY <1>3 DEF VerdictInv, CallsGiven, Given, idle
  <1>5. VerdictsGiven'
    <2>1. \A x \in log : Given(focus', x)
      BY DEF VerdictInv, VerdictsGiven, Given
    <2>2. Given(focus, c)
      BY DEF VerdictInv, CallsGiven
    <2>3. Given(focus', e)
      BY <1>2, <2>2 DEF Given
    <2>4. Outcome(e.token, e.nowSec, Skew[e.proc], e.pin) = Outcome(c.token, c.nowSec, Skew[p], c.pin)
      BY <1>2, Zenon
    <2> HIDE DEF c
    <2>5. e.code = "ok" => Outcome(e.token, e.nowSec, Skew[e.proc], e.pin) = "ok"
      BY <1>2, <2>4 DEF c
    <2>6. focus # "replay" => e.code = Outcome(e.token, e.nowSec, Skew[e.proc], e.pin)
      BY <1>2, <2>4 DEF c
    <2> QED
      BY <1>1, <2>1, <2>3, <2>5, <2>6 DEF VerdictInv, VerdictsGiven
  <1>6. OneCall'
    <2>1. log' # {}
      BY <1>1
    <2>2. focus # "replay" => \A q \in Procs : check'[q].pc = "idle"
      BY <1>3 DEF VerdictInv, OneCall, idle
    <2> QED
      BY <2>1, <2>2 DEF OneCall
  <1> QED
    BY <1>4, <1>5, <1>6 DEF VerdictInv

\* The backend's answer keeps the invariant.
LEMMA VerifiedGives ==
    ASSUME CallsWait, VerdictInv, NEW p \in Procs, Verified(p)
    PROVE  VerdictInv'
  <1> DEFINE c == check[p]
             parts == verifyFinish(decodeUnverified(c.token))
             code == IF parts.ok THEN checkClaims(parts.payload, c.nowSec, Skew[p], c.pin)
                     ELSE translateVerifyError(parts.code)
  <1>0. c.pc = "verifying" /\ UNCHANGED <<focus, now, ledger>>
    BY DEF Verified
  <1>1. verifyStart(c.token).ok
    BY <1>0 DEF VerdictInv, CallsGiven
  <1>2. Outcome(c.token, c.nowSec, Skew[p], c.pin) = code
    BY <1>1, Zenon DEF Outcome
  <1>3. CASE code # "ok"
    <2>1. verdict(p, c, code)
      BY <1>3 DEF Verified
    <2> HIDE DEF code
    <2> QED
      BY <1>0, <1>2, <1>3, <2>1, VerdictGives
  <1>4. CASE code = "ok"
    <2>1. check' = [check EXCEPT ![p].pc = "recording"] /\ log' = log
      BY <1>4 DEF Verified
    <2>2. c = [pc |-> c.pc, token |-> c.token, pin |-> c.pin, nowSec |-> c.nowSec]
      BY <1>0 DEF CallsWait, Waiting, idle
    <2>3. check'[p] = [pc |-> "recording", token |-> c.token, pin |-> c.pin, nowSec |-> c.nowSec]
      BY <2>1, <2>2 DEF CallsWait
    <2>4. /\ check'[p].pc = "recording" /\ check'[p].token = c.token
          /\ check'[p].pin = c.pin /\ check'[p].nowSec = c.nowSec
      BY <2>3
    <2>5. \A q \in Procs : q # p => check'[q] = check[q]
      BY <2>1 DEF CallsWait
    <2>6. Given(focus, c)
      BY <1>0 DEF VerdictInv, CallsGiven
    <2>7. Given(focus', check'[p])
      BY <1>0, <2>4, <2>6 DEF Given
    <2>8. Outcome(check'[p].token, check'[p].nowSec, Skew[p], check'[p].pin) = "ok"
      BY <1>2, <1>4, <2>4, Zenon
    <2>9. verifyStart(check'[p].token).ok
      BY <1>1, <2>4, Zenon
    <2> HIDE DEF c, code, parts
    <2>10. CallsGiven'
      <3> SUFFICES ASSUME NEW q \in Procs, check'[q].pc # "idle"
                   PROVE  /\ Given(focus', check'[q]) /\ verifyStart(check'[q].token).ok
                          /\ check'[q].pc = "recording" =>
                               Outcome(check'[q].token, check'[q].nowSec, Skew[q], check'[q].pin) = "ok"
        BY DEF CallsGiven
      <3>1. CASE q = p
        BY <2>7, <2>8, <2>9, <3>1, Zenon
      <3>2. CASE q # p
        BY <1>0, <2>5, <3>2 DEF Given, VerdictInv, CallsGiven
      <3> QED
        BY <3>1, <3>2
    <2>11. VerdictsGiven'
      BY <1>0, <2>1 DEF VerdictInv, VerdictsGiven, Given
    <2>12. OneCall'
      <3>1. \A q \in Procs : check'[q].pc # "idle" => check[q].pc # "idle"
        BY <1>0, <2>4, <2>5 DEF c
      <3> QED
        BY <1>0, <2>1, <3>1 DEF VerdictInv, OneCall
    <2> QED
      BY <1>0, <2>10, <2>11, <2>12 DEF VerdictInv
  <1> QED
    BY <1>3, <1>4

\* The ledger's answer, arrived or lost, keeps the invariant.
LEMMA RecordGives ==
    ASSUME CallsWait, VerdictInv, NEW p \in Procs, recordJtiUse(p)
    PROVE  VerdictInv'
  <1> DEFINE c == check[p]
             first == jtiOf(c.token) \notin DOMAIN ledger
             code == IF first THEN "ok" ELSE "TokenReplayed"
  <1>0. c.pc = "recording" /\ UNCHANGED <<focus, now>>
    BY DEF recordJtiUse
  <1>1. Outcome(c.token, c.nowSec, Skew[p], c.pin) = "ok"
    BY <1>0 DEF VerdictInv, CallsGiven
  <1>2. focus # "replay" => first
    BY <1>0 DEF VerdictInv, OneCall
  <1>3. \/ verdict(p, c, code)
        \/ focus = "replay" /\ verdict(p, c, "ledger error")
    BY DEF recordJtiUse
  <1> HIDE DEF first
  <1>4. CASE verdict(p, c, code)
    <2>1. focus # "replay" => code = "ok"
      BY <1>2
    <2> HIDE DEF code
    <2> QED
      BY <1>0, <1>1, <1>4, <2>1, VerdictGives
  <1>5. CASE focus = "replay" /\ verdict(p, c, "ledger error")
    BY <1>0, <1>1, <1>5, VerdictGives
  <1> QED
    BY <1>3, <1>4, <1>5

\* What every call reports is what validate() makes of its inputs.
THEOREM VerdictInvariant == VerifierSpec => []VerdictInv
  <1>1. VerifierInit => VerdictInv
    <2> SUFFICES ASSUME VerifierInit PROVE VerdictInv
      OBVIOUS
    <2>1. log = {} /\ DOMAIN ledger = {} /\ \A p \in Procs : check[p].pc = "idle"
      BY DEF VerifierInit, idle
    <2>2. now \in Int /\ (focus = "envelopes" => now = 0)
      BY DEF VerifierInit
    <2> QED
      BY <2>1, <2>2 DEF VerdictInv, CallsGiven, VerdictsGiven, OneCall
  <1>2. CallsWait /\ VerdictInv /\ [VerifierNext]_verifierVars => VerdictInv'
    <2> SUFFICES ASSUME CallsWait, VerdictInv, [VerifierNext]_verifierVars PROVE VerdictInv'
      OBVIOUS
    <2>1. CASE /\ focus # "replay" => log = {} /\ \A q \in Procs : check[q].pc = "idle"
               /\ \E p \in Procs, pin \in (IF focus = "claims" THEN Pins ELSE {"none"}), t \in Presented :
                     Present(p, t, pin)
      <3>1. PICK p \in Procs, pin \in (IF focus = "claims" THEN Pins ELSE {"none"}), t \in Presented :
                     Present(p, t, pin)
        BY <2>1
      <3>2. focus = "claims" => t \in ClaimTokens
        BY DEF Presented
      <3>3. focus = "envelopes" => t \in EnvelopeTokens /\ pin = "none"
        BY DEF Presented
      <3> QED
        BY <2>1, <3>1, <3>2, <3>3, PresentGives
    <2>2. ASSUME NEW p \in Procs, Verified(p) \/ recordJtiUse(p) PROVE VerdictInv'
      BY <2>2, VerifiedGives, RecordGives
    <2>3. CASE focus = "replay" /\ pruneExpired
      BY <2>3 DEF pruneExpired, VerdictInv, CallsGiven, VerdictsGiven, OneCall, Given
    <2>4. CASE focus = "replay" /\ Tick
      BY <2>4 DEF Tick, VerdictInv, CallsGiven, VerdictsGiven, OneCall, Given
    <2>5. CASE UNCHANGED verifierVars
      BY <2>5 DEF verifierVars, VerdictInv, CallsGiven, VerdictsGiven, OneCall, Given
    <2> QED
      BY <2>1, <2>2, <2>3, <2>4, <2>5 DEF VerifierNext
  <1>3. LedgerInv => CallsWait
    BY DEF LedgerInv
  <1> QED
    BY <1>1, <1>2, <1>3, LedgerInvariant, PTL DEF VerifierSpec

-----------------------------------------------------------------------------
(* The payloads presented are objects.                                       *)

\* Two objects with no key in common make one.
LEMMA ObjectsJoin ==
    ASSUME NEW a, NEW b, Object(a), Object(b), \A k \in keysOf(a) : k \notin keysOf(b)
    PROVE  /\ Object(a \o b) /\ keysOf(a \o b) = keysOf(a) \cup keysOf(b)
           /\ ToSet(a \o b) = ToSet(a) \cup ToSet(b)
           /\ writableObject(a) /\ writableObject(b) => writableObject(a \o b)
  <1> DEFINE c == a \o b
             n == Len(a)
             l == Len(b)
  <1>1. n \in Nat /\ l \in Nat /\ DOMAIN a = 1..n /\ DOMAIN b = 1..l
    BY DEF Object
  <1>2. a \in Seq(ToSet(a) \cup ToSet(b)) /\ b \in Seq(ToSet(a) \cup ToSet(b))
    BY DEF Object
  <1>3. /\ c \in Seq(ToSet(a) \cup ToSet(b)) /\ Len(c) = n + l /\ DOMAIN c = 1..n+l
        /\ \A i \in 1..n+l : c[i] = IF i <= n THEN a[i] ELSE b[i - n]
    BY <1>1, <1>2
  <1> HIDE DEF c, n, l
  <1>4. /\ \A i \in 1..n : c[i] = a[i] /\ i \in 1..n+l
        /\ \A i \in 1..l : c[n + i] = b[i] /\ n + i \in 1..n+l
        /\ \A i \in 1..n+l : i \in 1..n \/ (i - n \in 1..l /\ c[i] = b[i - n])
    BY <1>1, <1>3
  <1>5. ToSet(c) = ToSet(a) \cup ToSet(b)
    BY <1>1, <1>3, <1>4 DEF ToSet
  <1>6. keysOf(c) = keysOf(a) \cup keysOf(b)
    BY <1>1, <1>3, <1>4, SMTT(30) DEF keysOf
  <1>7. \A i \in 1..n+l : Member(c[i])
    BY <1>1, <1>4 DEF Object
  <1>8. ASSUME NEW i \in 1..n+l, NEW j \in 1..n+l, c[i][1] = c[j][1] PROVE i = j
    <2>1. CASE i \in 1..n /\ j \in 1..n
      BY <1>1, <1>4, <1>8, <2>1 DEF Object
    <2>2. CASE i \in 1..n /\ j \notin 1..n
      <3>1. c[i][1] \in keysOf(a)
        BY <1>1, <1>4, <2>2 DEF keysOf
      <3>2. c[j][1] \in keysOf(b)
        BY <1>1, <1>4, <2>2 DEF keysOf
      <3> QED
        BY <1>8, <3>1, <3>2
    <2>3. CASE i \notin 1..n /\ j \in 1..n
      <3>1. c[j][1] \in keysOf(a)
        BY <1>1, <1>4, <2>3 DEF keysOf
      <3>2. c[i][1] \in keysOf(b)
        BY <1>1, <1>4, <2>3 DEF keysOf
      <3> QED
        BY <1>8, <3>1, <3>2
    <2>4. CASE i \notin 1..n /\ j \notin 1..n
      <3>1. i - n \in 1..l /\ j - n \in 1..l /\ b[i - n][1] = b[j - n][1]
        BY <1>4, <1>8, <2>4
      <3>2. i - n = j - n
        BY <1>1, <3>1 DEF Object
      <3> QED
        BY <1>1, <3>2
    <2> QED
      BY <2>1, <2>2, <2>3, <2>4
  <1>9. c \in Seq(ToSet(c))
    BY <1>3, <1>5, Zenon
  <1>10. Object(c)
    BY <1>1, <1>3, <1>7, <1>8, <1>9 DEF Object
  <1>11. ASSUME writableObject(a), writableObject(b) PROVE writableObject(c)
    BY <1>1, <1>3, <1>4, <1>11, ZenonT(30) DEF writableObject
  <1> QED
    BY <1>5, <1>6, <1>10, <1>11 DEF c

\* One member is an object.
LEMMA OneMember ==
    ASSUME NEW k \in Names, NEW v, typeof(v) # "fraction"
    PROVE  /\ Object(<<member(k, v)>>) /\ writableObject(<<member(k, v)>>)
           /\ keysOf(<<member(k, v)>>) = {k}
  <1> DEFINE o == <<member(k, v)>>
  <1>1. Len(o) = 1 /\ DOMAIN o = 1..1
    OBVIOUS
  <1>2. o[1] = <<k, v>>
    BY DEF member
  <1>3. o \in Seq(ToSet(o))
    BY DEF ToSet
  <1>4. 1 \in 1..1 /\ \A i \in 1..1 : i = 1
    OBVIOUS
  <1> HIDE DEF o
  <1>5. Object(o)
    BY <1>1, <1>2, <1>3, <1>4 DEF Object, Member
  <1>6. keysOf(o) = {k}
    BY <1>1, <1>2, <1>4 DEF keysOf
  <1>7. writableObject(o)
    BY <1>1, <1>2, <1>4 DEF writableObject, writable
  <1> QED
    BY <1>5, <1>6, <1>7 DEF o

\* No members are an object.
LEMMA EmptyObject == Object(<<>>) /\ writableObject(<<>>) /\ keysOf(<<>>) = {}
  <1>1. Object(<<>>)
    BY DEF Object, ToSet
  <1>2. writableObject(<<>>)
    BY DEF writableObject
  <1>3. keysOf(<<>>) = {}
    BY DEF keysOf
  <1> QED
    BY <1>1, <1>2, <1>3

\* An optional claim is an object, present or absent.
LEMMA OptionalObject ==
    ASSUME NEW k \in Names, NEW v, typeof(v) # "fraction"
    PROVE  Object(optional(k, v)) /\ writableObject(optional(k, v)) /\ keysOf(optional(k, v)) \subseteq {k}
  <1>1. CASE typeof(v) = "absent"
    <2>1. optional(k, v) = <<>>
      BY <1>1, Zenon DEF optional
    <2> QED
      BY <2>1, EmptyObject
  <1>2. CASE typeof(v) # "absent"
    <2>1. optional(k, v) = <<member(k, v)>>
      BY <1>2, Zenon DEF optional
    <2> QED
      BY <2>1, OneMember
  <1> QED
    BY <1>1, <1>2

\* A claim after others, present or absent.
LEMMA OptionalJoins ==
    ASSUME NEW a, Object(a), writableObject(a), NEW k \in Names, k \notin keysOf(a),
           NEW v, typeof(v) # "fraction"
    PROVE  /\ Object(a \o optional(k, v)) /\ writableObject(a \o optional(k, v))
           /\ keysOf(a \o optional(k, v)) \subseteq keysOf(a) \cup {k}
  <1> DEFINE b == optional(k, v)
  <1>1. Object(b) /\ writableObject(b) /\ keysOf(b) \subseteq {k}
    BY OptionalObject
  <1> HIDE DEF b
  <1>2. \A x \in keysOf(a) : x \notin keysOf(b)
    BY <1>1
  <1>3. Object(a \o b) /\ writableObject(a \o b) /\ keysOf(a \o b) = keysOf(a) \cup keysOf(b)
    BY <1>1, <1>2, ObjectsJoin, Zenon
  <1>4. keysOf(a \o b) \subseteq keysOf(a) \cup {k}
    BY <1>1, <1>3
  <1> QED
    BY <1>3, <1>4 DEF b

\* The claims the checks after the shape read.
BaseClaims == {"jti", "nbf", "exp", "status", "usage_fingerprint", "license_id"}

base(jti, nbf, exp, status, fp) ==
    <<member("jti", str(jti)), member("nbf", num(nbf)), member("exp", num(exp)),
      member("status", str(status)), member("usage_fingerprint", str(fp)),
      member("license_id", str("lic"))>>

\* Every claim name has a rank.
LEMMA ClaimNames == RequiredClaims \cup {"entitlements", "force_online_after", "aud", "iss", "extra"} \subseteq Names
  <1>1. /\ KeyOrder[9] = "jti" /\ KeyOrder[13] = "nbf" /\ KeyOrder[4] = "exp" /\ KeyOrder[15] = "status"
        /\ KeyOrder[17] = "usage_fingerprint" /\ KeyOrder[11] = "license_id" /\ KeyOrder[3] = "entitlements"
        /\ KeyOrder[6] = "force_online_after" /\ KeyOrder[2] = "aud" /\ KeyOrder[8] = "iss" /\ KeyOrder[5] = "extra"
        /\ KeyOrder[7] = "iat" /\ KeyOrder[14] = "scope" /\ KeyOrder[18] = "usage_id" /\ KeyOrder[12] = "max_usages"
        /\ DOMAIN KeyOrder = 1..19
    BY DEF KeyOrder
  <1> QED
    BY <1>1 DEF Names, RequiredClaims, NumberClaims, StringClaims

\* They are an object.
LEMMA BaseObject ==
    ASSUME NEW jti, NEW nbf, NEW exp, NEW status, NEW fp
    PROVE  /\ Object(base(jti, nbf, exp, status, fp)) /\ writableObject(base(jti, nbf, exp, status, fp))
           /\ keysOf(base(jti, nbf, exp, status, fp)) = BaseClaims
           /\ ToSet(base(jti, nbf, exp, status, fp)) =
                {<<"jti", str(jti)>>, <<"nbf", num(nbf)>>, <<"exp", num(exp)>>, <<"status", str(status)>>,
                 <<"usage_fingerprint", str(fp)>>, <<"license_id", str("lic")>>}
  <1> DEFINE o == base(jti, nbf, exp, status, fp)
  <1>1. Len(o) = 6 /\ DOMAIN o = 1..6
    BY DEF base
  <1>2. /\ o[1] = <<"jti", str(jti)>> /\ o[2] = <<"nbf", num(nbf)>> /\ o[3] = <<"exp", num(exp)>>
        /\ o[4] = <<"status", str(status)>> /\ o[5] = <<"usage_fingerprint", str(fp)>>
        /\ o[6] = <<"license_id", str("lic")>>
    BY DEF base, member
  <1>3. o \in Seq(ToSet(o))
    BY DEF base, ToSet
  <1>4. /\ \A i \in 1..6 : i = 1 \/ i = 2 \/ i = 3 \/ i = 4 \/ i = 5 \/ i = 6
        /\ 1 \in 1..6 /\ 2 \in 1..6 /\ 3 \in 1..6 /\ 4 \in 1..6 /\ 5 \in 1..6 /\ 6 \in 1..6
    OBVIOUS
  <1> HIDE DEF o
  <1>5. /\ o[1][1] = "jti" /\ o[2][1] = "nbf" /\ o[3][1] = "exp"
        /\ o[4][1] = "status" /\ o[5][1] = "usage_fingerprint" /\ o[6][1] = "license_id"
    BY <1>2
  <1>6. \A i \in 1..6 : Member(o[i])
    BY <1>2, <1>4, ClaimNames DEF RequiredClaims, NumberClaims, StringClaims, Member
  <1>7. \A i, j \in 1..6 : o[i][1] = o[j][1] => i = j
    BY <1>4, <1>5
  <1>8. keysOf(o) = BaseClaims
    BY <1>1, <1>4, <1>5 DEF keysOf, BaseClaims
  <1>9. \A i \in 1..6 : writable(o[i][2])
    BY <1>2, <1>4 DEF writable, typeof, str, num
  <1>10. Object(o)
    BY <1>1, <1>3, <1>6, <1>7 DEF Object
  <1>11. writableObject(o)
    BY <1>1, <1>9 DEF writableObject
  <1>12. ToSet(o) =
                {<<"jti", str(jti)>>, <<"nbf", num(nbf)>>, <<"exp", num(exp)>>, <<"status", str(status)>>,
                 <<"usage_fingerprint", str(fp)>>, <<"license_id", str("lic")>>}
    <2> DEFINE S == {<<"jti", str(jti)>>, <<"nbf", num(nbf)>>, <<"exp", num(exp)>>, <<"status", str(status)>>,
                     <<"usage_fingerprint", str(fp)>>, <<"license_id", str("lic")>>}
    <2>1. \A i \in 1..6 : o[i] \in S
      BY <1>2, <1>4, Zenon
    <2>2. \A m \in S : \E i \in 1..6 : o[i] = m
      BY <1>2, <1>4, Zenon
    <2> HIDE DEF S
    <2>3. ToSet(o) = S
      BY <1>1, <2>1, <2>2 DEF ToSet
    <2> QED
      BY <2>3 DEF S
  <1> QED
    BY <1>8, <1>10, <1>11, <1>12 DEF o

\* So are the claims of which only the shape is checked.
LEMMA StandingObject ==
    /\ Object(standing) /\ writableObject(standing)
    /\ keysOf(standing) = {"iat", "scope", "usage_id", "max_usages"}
    /\ ToSet(standing) = {<<"iat", num(0)>>, <<"scope", str("s")>>, <<"usage_id", str("u")>>, <<"max_usages", num(1)>>}
  <1> DEFINE o == standing
  <1>1. Len(o) = 4 /\ DOMAIN o = 1..4
    BY DEF standing
  <1>2. /\ o[1] = <<"iat", num(0)>> /\ o[2] = <<"scope", str("s")>> /\ o[3] = <<"usage_id", str("u")>>
        /\ o[4] = <<"max_usages", num(1)>>
    BY DEF standing, member
  <1>3. o \in Seq(ToSet(o))
    BY DEF standing, ToSet
  <1>4. /\ \A i \in 1..4 : i = 1 \/ i = 2 \/ i = 3 \/ i = 4
        /\ 1 \in 1..4 /\ 2 \in 1..4 /\ 3 \in 1..4 /\ 4 \in 1..4
    OBVIOUS
  <1> HIDE DEF o
  <1>5. o[1][1] = "iat" /\ o[2][1] = "scope" /\ o[3][1] = "usage_id" /\ o[4][1] = "max_usages"
    BY <1>2
  <1>6. \A i \in 1..4 : Member(o[i])
    BY <1>2, <1>4, ClaimNames DEF RequiredClaims, NumberClaims, StringClaims, Member
  <1>7. \A i, j \in 1..4 : o[i][1] = o[j][1] => i = j
    BY <1>4, <1>5
  <1>8. keysOf(o) = {"iat", "scope", "usage_id", "max_usages"}
    BY <1>1, <1>4, <1>5 DEF keysOf
  <1>9. \A i \in 1..4 : writable(o[i][2])
    BY <1>2, <1>4 DEF writable, typeof, str, num
  <1>10. Object(o)
    BY <1>1, <1>3, <1>6, <1>7 DEF Object
  <1>11. writableObject(o)
    BY <1>1, <1>9 DEF writableObject
  <1>12. ToSet(o) = {<<"iat", num(0)>>, <<"scope", str("s")>>, <<"usage_id", str("u")>>, <<"max_usages", num(1)>>}
    <2> DEFINE S == {<<"iat", num(0)>>, <<"scope", str("s")>>, <<"usage_id", str("u")>>, <<"max_usages", num(1)>>}
    <2>1. \A i \in 1..4 : o[i] \in S
      BY <1>2, <1>4, Zenon
    <2>2. \A m \in S : \E i \in 1..4 : o[i] = m
      BY <1>2, <1>4, Zenon
    <2> HIDE DEF S
    <2>3. ToSet(o) = S
      BY <1>1, <2>1, <2>2 DEF ToSet
    <2> QED
      BY <2>3 DEF S
  <1> QED
    BY <1>8, <1>10, <1>11, <1>12 DEF o

\* kid1 is not the empty string.
LEMMA Kid1Named == Named("kid1")
  BY Zenon DEF Named

\* The required claims with others after them are an object.
LEMMA PayloadObject ==
    ASSUME NEW jti, NEW nbf, NEW exp, NEW status, NEW fp, NEW rest, Object(rest), writableObject(rest),
           \A k \in BaseClaims : k \notin keysOf(rest)
    PROVE  Object(payload(jti, nbf, exp, status, fp, rest)) /\ writableObject(payload(jti, nbf, exp, status, fp, rest))
  <1> DEFINE b == base(jti, nbf, exp, status, fp)
  <1>1. payload(jti, nbf, exp, status, fp, rest) = b \o rest
    BY Zenon DEF payload, base
  <1>2. Object(b) /\ writableObject(b) /\ keysOf(b) = BaseClaims
    BY BaseObject, Zenon
  <1> HIDE DEF b
  <1>3. \A k \in keysOf(b) : k \notin keysOf(rest)
    BY <1>2, Zenon
  <1>4. Object(b \o rest) /\ writableObject(b \o rest)
    BY <1>2, <1>3, ObjectsJoin, ZenonT(30)
  <1> QED
    BY <1>1, <1>4, Zenon

\* Every mix of claims is an object canonical JSON can write.
LEMMA ClaimMixObject ==
    ASSUME NEW o \in ClaimMixes
    PROVE  Object(o) /\ writableObject(o)
  <1>1. PICK nbf \in {0, 2}, exp \in {1, 3},
             status \in {"active", "suspended", "expired", "odd"}, fp \in {Fingerprint, "other"},
             foa \in {Absent, num(2), Null, str("2")},
             aud \in {Absent, str("A"), arr({"A", "B"}), arr({"B"}), num(1)},
             iss \in {Absent, str("A"), str("B")} :
           o = payload("j1", nbf, exp, status, fp,
                  standing \o optional("force_online_after", foa) \o optional("aud", aud) \o optional("iss", iss))
    BY DEF ClaimMixes
  <1>2. typeof(foa) # "fraction"
    BY DEF typeof, Absent, num, Null, str
  <1>3. typeof(aud) # "fraction"
    BY DEF typeof, Absent, num, str, arr
  <1>4. typeof(iss) # "fraction"
    BY DEF typeof, Absent, str
  <1> DEFINE a == standing \o optional("force_online_after", foa)
             b == a \o optional("aud", aud)
             rest == b \o optional("iss", iss)
  <1>5. "force_online_after" \in Names /\ "aud" \in Names /\ "iss" \in Names
    BY ClaimNames
  <1>6. o = payload("j1", nbf, exp, status, fp, rest)
    BY <1>1
  <1>7. /\ Object(a) /\ writableObject(a)
        /\ keysOf(a) \subseteq {"iat", "scope", "usage_id", "max_usages", "force_online_after"}
    BY <1>2, <1>5, StandingObject, OptionalJoins
  <1> HIDE DEF a
  <1>8. /\ Object(b) /\ writableObject(b)
        /\ keysOf(b) \subseteq {"iat", "scope", "usage_id", "max_usages", "force_online_after", "aud"}
    BY <1>3, <1>5, <1>7, OptionalJoins
  <1> HIDE DEF b
  <1>9. /\ Object(rest) /\ writableObject(rest)
        /\ keysOf(rest) \subseteq {"iat", "scope", "usage_id", "max_usages", "force_online_after", "aud", "iss"}
    BY <1>4, <1>5, <1>8, OptionalJoins
  <1> HIDE DEF rest
  <1>10. \A k \in BaseClaims : k \notin keysOf(rest)
    BY <1>9 DEF BaseClaims
  <1> QED
    BY <1>6, <1>9, <1>10, PayloadObject, Zenon

\* So is every payload with claims missing or of another type.
LEMMA ShapeMixObject ==
    ASSUME NEW o \in ShapeMixes
    PROVE  Object(o) /\ writableObject(o)
  <1>1. PICK iat \in {Absent, num(0), str("0")}, scope \in {str("s"), num(1)}, usage \in {Absent, str("u")},
             max \in {num(1), Null}, ent \in {Absent, Null, obj, arr({"A"}), str("A")} :
           o = payload("j1", 0, 3, "active", Fingerprint,
                  optional("iat", iat) \o optional("scope", scope) \o optional("usage_id", usage)
                  \o optional("max_usages", max) \o optional("entitlements", ent))
    BY DEF ShapeMixes
  <1>2. typeof(iat) # "fraction"
    BY DEF typeof, Absent, num, str
  <1>3. typeof(scope) # "fraction"
    BY DEF typeof, num, str
  <1>4. typeof(usage) # "fraction"
    BY DEF typeof, Absent, str
  <1>5. typeof(max) # "fraction"
    BY DEF typeof, num, Null
  <1>6. typeof(ent) # "fraction"
    BY DEF typeof, Absent, Null, obj, arr, str
  <1> DEFINE a == optional("iat", iat)
             b == a \o optional("scope", scope)
             c == b \o optional("usage_id", usage)
             d == c \o optional("max_usages", max)
             rest == d \o optional("entitlements", ent)
  <1>7. /\ "iat" \in Names /\ "scope" \in Names /\ "usage_id" \in Names /\ "max_usages" \in Names
        /\ "entitlements" \in Names
    BY ClaimNames DEF RequiredClaims, NumberClaims, StringClaims
  <1>8. o = payload("j1", 0, 3, "active", Fingerprint, rest)
    BY <1>1
  <1>9. Object(a) /\ writableObject(a) /\ keysOf(a) \subseteq {"iat"}
    BY <1>2, <1>7, OptionalObject
  <1> HIDE DEF a
  <1>10. Object(b) /\ writableObject(b) /\ keysOf(b) \subseteq {"iat", "scope"}
    BY <1>3, <1>7, <1>9, OptionalJoins
  <1> HIDE DEF b
  <1>11. Object(c) /\ writableObject(c) /\ keysOf(c) \subseteq {"iat", "scope", "usage_id"}
    BY <1>4, <1>7, <1>10, OptionalJoins
  <1> HIDE DEF c
  <1>12. Object(d) /\ writableObject(d) /\ keysOf(d) \subseteq {"iat", "scope", "usage_id", "max_usages"}
    BY <1>5, <1>7, <1>11, OptionalJoins
  <1> HIDE DEF d
  <1>13. /\ Object(rest) /\ writableObject(rest)
         /\ keysOf(rest) \subseteq {"iat", "scope", "usage_id", "max_usages", "entitlements"}
    BY <1>6, <1>7, <1>12, OptionalJoins
  <1> HIDE DEF rest
  <1>14. \A k \in BaseClaims : k \notin keysOf(rest)
    BY <1>13 DEF BaseClaims
  <1> QED
    BY <1>8, <1>13, <1>14, PayloadObject, Zenon

\* The key that signs the tokens of the "claims" focus is one the verifier trusts.
Kid1Trusted ==
    /\ "kid1" \in DOMAIN Records /\ "kid1" \in DOMAIN Bindings
    /\ Records["kid1"] = "ed25519" /\ Bindings["kid1"] = "ed25519" /\ "ed25519" \in Registry

\* With the key trusted, the verdict on a mix of claims is that of checkClaims.
LEMMA ClaimsDecide ==
    ASSUME Kid1Trusted, NEW t \in ClaimTokens, NEW nowSec, NEW skew, NEW pin
    PROVE  /\ Outcome(t, nowSec, skew, pin) = checkClaims(decodeUnverified(t).payload, nowSec, skew, pin)
  <1>1. PICK o \in ClaimMixes \cup ShapeMixes : t = encode("LIC1", "ed25519", "kid1", o).token
    BY DEF ClaimTokens
  <1>2. Object(o) /\ writableObject(o)
    BY ClaimMixObject, ShapeMixObject, Zenon
  <1>3. encode("LIC1", "ed25519", "kid1", o) = lic1Encode("ed25519", "kid1", o)
    BY Zenon DEF encode
  <1>4. lic1Encode("ed25519", "kid1", o) = [ok |-> TRUE, token |-> lic1Token("ed25519", "kid1", o)]
    BY <1>2, Lic1Writes, Zenon
  <1>5. t = lic1Token("ed25519", "kid1", o)
    <2> DEFINE e == encode("LIC1", "ed25519", "kid1", o)
               w == lic1Token("ed25519", "kid1", o)
    <2>1. e = [ok |-> TRUE, token |-> w]
      BY <1>3, <1>4, Zenon
    <2>2. t = e.token
      BY <1>1
    <2> HIDE DEF e, w
    <2>3. t = w
      BY <2>1, <2>2
    <2> QED
      BY <2>3 DEF w
  <1>6. "ed25519" \in KeyAlgs
    BY DEF KeyAlgs
  <1>7. decodeUnverified(t) =
          envelope("ed25519", "kid1", ordered(o), inputOf1("ed25519", "kid1", o),
                   sign("kid1", "ed25519", inputOf1("ed25519", "kid1", o)))
    BY <1>2, <1>5, <1>6, Lic1Reads, Kid1Named, Zenon
  <1>8. /\ verifyStart(t).ok
        /\ verifyFinish(decodeUnverified(t)) = decodeUnverified(t)
        /\ decodeUnverified(t).ok
    BY <1>7, VerifyAccepts, Zenon DEF Kid1Trusted
  <1> QED
    BY <1>8, Zenon DEF Outcome

\* The verdict the options allow on a set of claims, as VerdictsExact states it.
RightVerdict(p, nowSec, skew, pin, code) ==
    LET open == claim(p, "nbf") - skew <= nowSec /\ nowSec <= claim(p, "exp") + skew
        foa  == optionalOf(p, "force_online_after")
        late == typeof(foa) = "num" /\ content(foa) <= nowSec IN
    /\ (code = "ok") <=>
          /\ open /\ ~late /\ claim(p, "status") \in {"active", "grace"}
          /\ claim(p, "usage_fingerprint") = Fingerprint
          /\ pin = "none" \/ (audMatches(p, pin) /\ optionalOf(p, "iss") = str(pin))
    /\ ~open => code \in {"TokenExpired", "TokenNotYetValid"}
    /\ code = "FingerprintMismatch" => open /\ ~late

\* The claim checks, in the order the header comment of validate.ts ranks them.
LEMMA ChecksExact ==
    ASSUME NEW p, NEW nowSec \in Int, NEW skew \in Int, NEW pin, assertClaimShape(p)
    PROVE  RightVerdict(p, nowSec, skew, pin, checkClaims(p, nowSec, skew, pin))
  <1> DEFINE nbf == claim(p, "nbf")
             exp == claim(p, "exp")
             status == claim(p, "status")
             foa == optionalOf(p, "force_online_after")
             iss == optionalOf(p, "iss")
             fp == claim(p, "usage_fingerprint")
             aud == audMatches(p, pin)
             wanted == str(pin)
             late == typeof(foa) = "num" /\ content(foa) <= nowSec
             code == checkClaims(p, nowSec, skew, pin)
  <1>1. asNumber(valueOf(p, "nbf")) /\ asNumber(valueOf(p, "exp"))
    BY DEF assertClaimShape, NumberClaims
  <1>2. nbf \in Int /\ exp \in Int
    BY <1>1 DEF asNumber, claim
  <1>3. code = IF nbf > nowSec + skew THEN "TokenNotYetValid"
               ELSE IF exp + skew < nowSec THEN "TokenExpired"
               ELSE IF status = "suspended" THEN "LicenseSuspended"
               ELSE IF status = "revoked" THEN "LicenseRevoked"
               ELSE IF status = "expired" THEN "TokenExpired"
               ELSE IF status \notin {"active", "grace"} THEN "InvalidTokenFormat"
               ELSE IF late THEN "RequiresOnlineRefresh"
               ELSE IF fp # Fingerprint THEN "FingerprintMismatch"
               ELSE IF pin # "none" /\ ~aud THEN "AudienceMismatch"
               ELSE IF pin # "none" /\ iss # wanted THEN "IssuerMismatch"
               ELSE "ok"
    BY Zenon DEF checkClaims, mustRefresh
  <1> HIDE DEF nbf, exp, status, foa, iss, fp, aud, wanted, late, code
  <1> DEFINE open == nbf - skew <= nowSec /\ nowSec <= exp + skew
  <1>5. open <=> ~(nbf > nowSec + skew) /\ ~(exp + skew < nowSec)
    BY <1>2
  <1>6. /\ (code = "ok") <=>
             /\ open /\ ~late /\ status \in {"active", "grace"} /\ fp = Fingerprint
             /\ pin = "none" \/ (aud /\ iss = wanted)
        /\ ~open => code \in {"TokenExpired", "TokenNotYetValid"}
        /\ code = "FingerprintMismatch" => open /\ ~late
    BY <1>3, <1>5
  <1> QED
    BY <1>6, Zenon DEF RightVerdict, nbf, exp, status, foa, iss, fp, aud, wanted, late, code

\* validate() accepts exactly the claims its options allow, and peek() reads
\* every token it accepts (validate.ts), for any skews, when the key that signs
\* the tokens is trusted.
THEOREM ValidateIsExact ==
    ASSUME Kid1Trusted
    PROVE  VerifierSpec => []ValidateExact
  <1>1. LedgerInv /\ VerdictInv => ValidateExact
    <2> SUFFICES ASSUME LedgerInv, VerdictInv PROVE VerdictsExact /\ PeekAgrees
      BY DEF ValidateExact
    <2>1. VerdictsExact
      <3> SUFFICES ASSUME focus = "claims", NEW e \in log
                   PROVE  /\ ~assertClaimShape(decodeUnverified(e.token).payload) => e.code = "InvalidTokenFormat"
                          /\ assertClaimShape(decodeUnverified(e.token).payload) =>
                               RightVerdict(decodeUnverified(e.token).payload, e.nowSec, Skew[e.proc], e.pin, e.code)
        BY Zenon DEF VerdictsExact, RightVerdict
      <3>1. e.nowSec \in Int /\ e.token \in ClaimTokens
        BY DEF VerdictInv, VerdictsGiven, Given
      <3>2. e.code = Outcome(e.token, e.nowSec, Skew[e.proc], e.pin)
        BY DEF VerdictInv, VerdictsGiven
      <3>3. Skew[e.proc] \in Int
        BY SkewAssumption DEF LedgerInv, LogOrdered
      <3> DEFINE t == e.token
                 s == e.nowSec
                 k == Skew[e.proc]
                 n == e.pin
      <3>4. t \in ClaimTokens /\ s \in Int /\ k \in Int /\ e.code = Outcome(t, s, k, n)
        BY <3>1, <3>2, <3>3, Zenon
      <3> HIDE DEF t, s, k, n
      <3>5. Outcome(t, s, k, n) = checkClaims(decodeUnverified(t).payload, s, k, n)
        BY <3>4, ClaimsDecide
      <3>6. e.code = checkClaims(decodeUnverified(t).payload, s, k, n)
        BY <3>4, <3>5, Zenon
      <3> DEFINE p == decodeUnverified(t).payload
      <3> HIDE DEF p
      <3>7. ~assertClaimShape(p) => checkClaims(p, s, k, n) = "InvalidTokenFormat"
        BY Zenon DEF checkClaims
      <3>8. assertClaimShape(p) => RightVerdict(p, s, k, n, checkClaims(p, s, k, n))
        BY <3>4, ChecksExact, Zenon
      <3> QED
        BY <3>6, <3>7, <3>8, Zenon DEF p, t, s, k, n
    <2>2. PeekAgrees
      <3> SUFFICES ASSUME NEW e \in accepted
                   PROVE  LET parts == decodeUnverified(e.token) IN
                          peek(e.token) = [ok |-> TRUE, kid |-> parts.kid, alg |-> parts.alg,
                             exp |-> claim(parts.payload, "exp"),
                             forceOnlineAfter |-> optionalOf(parts.payload, "force_online_after")]
        BY Zenon DEF PeekAgrees
      <3> DEFINE parts == decodeUnverified(e.token)
                 fin == verifyFinish(parts)
      <3>1. Outcome(e.token, e.nowSec, Skew[e.proc], e.pin) = "ok"
        BY DEF VerdictInv, VerdictsGiven, accepted
      <3>2. fin.ok /\ checkClaims(fin.payload, e.nowSec, Skew[e.proc], e.pin) = "ok"
        BY <3>1, EarlyCodes DEF Outcome
      <3>3. fin = parts
        BY <3>2 DEF verifyFinish, failed
      <3> HIDE DEF parts, fin
      <3>4. parts.ok /\ assertClaimShape(parts.payload)
        BY <3>2, <3>3 DEF checkClaims
      <3> QED
        BY <3>4, Zenon DEF peek, parts
    <2> QED
      BY <2>1, <2>2
  <1> QED
    BY <1>1, LedgerInvariant, VerdictInvariant, PTL

-----------------------------------------------------------------------------
(* What verify() accepts.                                                    *)

\* A token that gets as far as the backend names a key that is registered,
\* bound and recorded for its algorithm.
LEMMA StartedMatches ==
    ASSUME NEW token, verifyStart(token).ok
    PROVE  LET parts == decodeUnverified(token) IN
           /\ parts.ok /\ parts.alg \in Registry
           /\ parts.kid \in DOMAIN Bindings /\ Bindings[parts.kid] = parts.alg
           /\ parts.kid \in DOMAIN Records /\ Records[parts.kid] = parts.alg
  <1> DEFINE parts == decodeUnverified(token)
             bound == expect(parts.kid, parts.alg)
  <1>0. ~failed("UnsupportedAlgorithm").ok /\ ~failed("UnknownKid").ok /\ ~failed("AlgorithmMismatch").ok
    BY DEF failed
  <1>1. parts.ok
    BY Zenon DEF verifyStart
  <1>2. bound.ok
    BY <1>1, Zenon DEF verifyStart
  <1>3. parts.alg \in Registry
    BY <1>0, <1>1, <1>2, Zenon DEF verifyStart
  <1>4. parts.kid \in DOMAIN Records
    BY <1>0, <1>1, <1>2, <1>3, Zenon DEF verifyStart
  <1>5. Records[parts.kid] = parts.alg
    BY <1>0, <1>1, <1>2, <1>3, <1>4, Zenon DEF verifyStart
  <1>6. parts.kid \in DOMAIN Bindings
    BY <1>0, <1>2, Zenon DEF expect
  <1>7. Bindings[parts.kid] = parts.alg
    BY <1>0, <1>2, <1>6, Zenon DEF expect
  <1> QED
    BY <1>1, <1>3, <1>4, <1>5, <1>6, <1>7

\* An accepted token passed the backend.
LEMMA OutcomeOk ==
    ASSUME NEW token, NEW nowSec, NEW skew, NEW pin, Outcome(token, nowSec, skew, pin) = "ok"
    PROVE  /\ verifyStart(token).ok /\ backendVerify(decodeUnverified(token))
  <1> DEFINE fin == verifyFinish(decodeUnverified(token))
  <1>1. verifyStart(token).ok
    BY EarlyCodes DEF Outcome
  <1>2. fin.ok
    BY <1>1, EarlyCodes DEF Outcome
  <1>3. ~failed("TokenMalformed").ok /\ ~failed("TokenSignatureInvalid").ok
    BY DEF failed
  <1>4. backendVerify(decodeUnverified(token))
    BY <1>2, <1>3, Zenon DEF verifyFinish
  <1> QED
    BY <1>1, <1>4

\* What the backend's answer says of a LIC1 token.
LEMMA Lic1Signed ==
    ASSUME NEW r, r.prefix = LIC1_PREFIX, decodeUnverified(r).ok, backendVerify(decodeUnverified(r))
    PROVE  Len(r.segs) = 3 /\ r.segs[3].kind = "sig" /\ r.segs[3].input = lic1Input(r.segs[1], r.segs[2])
  <1> DEFINE segs == r.segs
             d == decodeLIC1(segs)
             head == parseHeader(segs[1])
             payl == strictParse(segs[2])
  <1>1. decodeUnverified(r) = d
    BY DEF decodeUnverified, codecFor, LIC1_PREFIX, LIC2_PREFIX
  <1>2. d.ok /\ backendVerify(d)
    BY <1>1, Zenon
  <1>3. ~failed("TokenMalformed").ok
    BY DEF failed
  <1>4. Len(segs) = 3
    BY <1>2, <1>3, Zenon DEF decodeLIC1
  <1>5. ~(Len(segs) # 3 \/ \E i \in DOMAIN segs : segs[i].kind \in {"badB64", "body"})
    BY <1>2, <1>3, Zenon DEF decodeLIC1
  <1>6. d = IF ~head.ok THEN head ELSE IF ~payl.ok THEN payl
            ELSE envelope(head.alg, head.kid, payl.pairs, lic1Input(segs[1], segs[2]), segs[3])
    BY <1>5, Zenon DEF decodeLIC1
  <1>7. d = envelope(head.alg, head.kid, payl.pairs, lic1Input(segs[1], segs[2]), segs[3])
    BY <1>2, <1>6, Zenon
  <1>8. d.signature = segs[3] /\ d.input = lic1Input(segs[1], segs[2])
    <2> HIDE DEF d, segs, head, payl
    <2> QED
      BY <1>7 DEF envelope
  <1> QED
    BY <1>2, <1>4, <1>8, Zenon DEF backendVerify

\* A LIC2 token that verifies carries a signature over its message and footer.
LEMMA Lic2Signed ==
    ASSUME NEW r, r.prefix = LIC2_PREFIX, decodeUnverified(r).ok, backendVerify(decodeUnverified(r))
    PROVE  /\ Len(r.segs) = 2 /\ r.segs[1].kind = "body"
           /\ r.segs[1].signature.input = signingInputFor(r.segs[1].message, r.segs[2])
  <1> DEFINE segs == r.segs
             d == decodeLIC2(segs)
             foot == parseFooter(segs[2])
             payl == strictParse(segs[1].message)
  <1>1. decodeUnverified(r) = d
    BY DEF decodeUnverified, codecFor, LIC1_PREFIX, LIC2_PREFIX
  <1>2. d.ok /\ backendVerify(d)
    BY <1>1, Zenon
  <1>3. ~failed("TokenMalformed").ok
    BY DEF failed
  <1>4. ~(Len(segs) # 2 \/ segs[1].kind # "body" \/ segs[Len(segs)].kind = "badB64")
    BY <1>2, <1>3, Zenon DEF decodeLIC2
  <1>6. d = IF ~foot.ok THEN foot ELSE IF ~payl.ok THEN payl
            ELSE envelope("ed25519", foot.kid, payl.pairs, signingInputFor(segs[1].message, segs[2]), segs[1].signature)
    BY <1>4, Zenon DEF decodeLIC2
  <1>7. d = envelope("ed25519", foot.kid, payl.pairs, signingInputFor(segs[1].message, segs[2]), segs[1].signature)
    BY <1>2, <1>6, Zenon
  <1>8. d.signature = segs[1].signature /\ d.input = signingInputFor(segs[1].message, segs[2])
    <2> HIDE DEF d, segs, foot, payl
    <2> QED
      BY <1>7 DEF envelope
  <1> QED
    BY <1>2, <1>4, <1>8, Zenon DEF backendVerify

\* A prefix no codec has.
LEMMA NoCodec ==
    ASSUME NEW r, r.prefix # LIC1_PREFIX, r.prefix # LIC2_PREFIX
    PROVE  ~decodeUnverified(r).ok
  BY DEF decodeUnverified, codecFor, failed

\* Tokens no codec accepts: no such prefix, or the wrong number or kind of segments.
Broken(r) ==
    /\ r.prefix = LIC1_PREFIX => Len(r.segs) # 3 \/ r.segs[3].kind # "sig"
    /\ r.prefix = LIC2_PREFIX => Len(r.segs) # 2 \/ r.segs[1].kind # "body"

\* A broken token does not verify.
LEMMA BrokenRefused ==
    ASSUME NEW r, Broken(r), decodeUnverified(r).ok, backendVerify(decodeUnverified(r))
    PROVE  FALSE
  BY Lic1Signed, Lic2Signed, NoCodec, Zenon DEF Broken

\* A token with the segments of an issued one, around its signature.
Around1(t, r) ==
    /\ r = [prefix |-> LIC1_PREFIX, segs |-> <<r.segs[1], r.segs[2], r.segs[3]>>]
    /\ r.segs[3] = t.segs[3]

\* The same of LIC2.
Around2(t, r) ==
    /\ r = [prefix |-> LIC2_PREFIX, segs |-> <<r.segs[1], r.segs[2]>>]
    /\ r.segs[1] = [kind |-> r.segs[1].kind, message |-> r.segs[1].message, signature |-> r.segs[1].signature]
    /\ r.segs[1].signature = t.segs[1].signature

\* A LIC1 token with the signature of an issued one verifies only unchanged.
LEMMA Around1Same ==
    ASSUME NEW alg, NEW kid, NEW o, NEW r, Around1(lic1Token(alg, kid, o), r),
           decodeUnverified(r).ok, backendVerify(decodeUnverified(r))
    PROVE  r = lic1Token(alg, kid, o)
  <1> DEFINE h == written(headerOf(alg, kid))
             p == written(o)
             g == sign(kid, alg, inputOf1(alg, kid, o))
             t == lic1Token(alg, kid, o)
             x == r.segs[1]
             y == r.segs[2]
             z == r.segs[3]
  <1>1. t = [prefix |-> LIC1_PREFIX, segs |-> <<h, p, g>>]
    BY Zenon DEF lic1Token
  <1>2. t.segs[3] = g
    <2> HIDE DEF h, p, g
    <2> QED
      BY <1>1
  <1>3. g.input = <<"dotted", h, p>>
    BY DEF sign, inputOf1, lic1Input
  <1>4. r = [prefix |-> LIC1_PREFIX, segs |-> <<x, y, z>>] /\ z = g
    BY <1>2, Zenon DEF Around1
  <1>5. r.prefix = LIC1_PREFIX
    <2> HIDE DEF x, y, z, g
    <2> QED
      BY <1>4
  <1>6. z.input = <<"dotted", x, y>>
    BY <1>5, Lic1Signed, Zenon DEF lic1Input
  <1>7. <<"dotted", x, y>> = <<"dotted", h, p>>
    BY <1>3, <1>4, <1>6, Zenon
  <1> HIDE DEF x, y, z, h, p, g
  <1>8. x = h /\ y = p
    BY <1>7
  <1>9. r = [prefix |-> LIC1_PREFIX, segs |-> <<h, p, g>>]
    BY <1>4, <1>8, Zenon
  <1> QED
    BY <1>1, <1>9, Zenon

\* The same of LIC2.
LEMMA Around2Same ==
    ASSUME NEW kid, NEW o, NEW r, Around2(lic2Token(kid, o), r),
           decodeUnverified(r).ok, backendVerify(decodeUnverified(r))
    PROVE  r = lic2Token(kid, o)
  <1> DEFINE f == written(footerOf(kid))
             p == written(o)
             g == sign(kid, "ed25519", inputOf2(kid, o))
             b == [kind |-> "body", message |-> p, signature |-> g]
             t == lic2Token(kid, o)
             x == r.segs[1]
             y == r.segs[2]
             m == x.message
             s == x.signature
  <1>1. t = [prefix |-> LIC2_PREFIX, segs |-> <<b, f>>]
    BY Zenon DEF lic2Token
  <1>2. t.segs[1].signature = g
    <2> HIDE DEF f, p, g
    <2> QED
      BY <1>1
  <1>3. g.input = <<"pae", LIC2_PREFIX, p, f>>
    BY DEF sign, inputOf2, signingInputFor
  <1>4. /\ r = [prefix |-> LIC2_PREFIX, segs |-> <<x, y>>] /\ s = g
        /\ x = [kind |-> x.kind, message |-> m, signature |-> s]
    BY <1>2, Zenon DEF Around2
  <1>5. r.prefix = LIC2_PREFIX
    <2> HIDE DEF x, y, g
    <2> QED
      BY <1>4
  <1>6. s.input = <<"pae", LIC2_PREFIX, m, y>> /\ x.kind = "body"
    BY <1>5, Lic2Signed, Zenon DEF signingInputFor
  <1>7. <<"pae", LIC2_PREFIX, m, y>> = <<"pae", LIC2_PREFIX, p, f>>
    BY <1>3, <1>4, <1>6, Zenon
  <1> HIDE DEF f, p, g, m, y, s
  <1>8. m = p /\ y = f
    BY <1>7
  <1>9. x = b
    BY <1>4, <1>6, <1>8, Zenon
  <1>10. r = [prefix |-> LIC2_PREFIX, segs |-> <<b, f>>]
    BY <1>4, <1>8, <1>9, Zenon
  <1> QED
    BY <1>1, <1>10, Zenon

\* Changes of a LIC1 token that leave its third segment.
LEMMA Touched1 ==
    ASSUME NEW h, NEW p, NEW g, NEW t, t = [prefix |-> LIC1_PREFIX, segs |-> <<h, p, g>>], NEW v, NEW n
    PROVE  /\ Around1(t, t)
           /\ Around1(t, [t EXCEPT !.segs[1].pairs = v])
           /\ Around1(t, [t EXCEPT !.segs[2].pairs = v])
           /\ Around1(t, [t EXCEPT !.segs[1].pairs[n] = v])
           /\ Around1(t, [t EXCEPT !.segs[1] = v]) /\ Around1(t, [t EXCEPT !.segs[2] = v])
  <1>1. Around1(t, t)
    BY DEF Around1
  <1>2. Around1(t, [t EXCEPT !.segs[1] = v])
    BY DEF Around1
  <1>3. Around1(t, [t EXCEPT !.segs[2] = v])
    BY DEF Around1
  <1>4. Around1(t, [t EXCEPT !.segs[1].pairs = v])
    BY DEF Around1
  <1>5. Around1(t, [t EXCEPT !.segs[2].pairs = v])
    BY DEF Around1
  <1>6. Around1(t, [t EXCEPT !.segs[1].pairs[n] = v])
    BY DEF Around1
  <1> QED
    BY <1>1, <1>2, <1>3, <1>4, <1>5, <1>6

\* A LIC1 token re-prefixed, resized or with another third segment is broken.
LEMMA Damaged1 ==
    ASSUME NEW h, NEW p, NEW g, NEW t, t = [prefix |-> LIC1_PREFIX, segs |-> <<h, p, g>>], NEW v
    PROVE  /\ Broken([t EXCEPT !.prefix = LIC2_PREFIX]) /\ Broken([t EXCEPT !.prefix = "LIC9."])
           /\ Broken([t EXCEPT !.segs = SubSeq(@, 1, Len(@) - 1)])
           /\ Broken([t EXCEPT !.segs = Append(@, v)])
           /\ v.kind # "sig" => Broken([t EXCEPT !.segs[3] = v])
  <1>1. Broken([t EXCEPT !.prefix = LIC2_PREFIX])
    BY DEF Broken, LIC1_PREFIX, LIC2_PREFIX
  <1>2. Broken([t EXCEPT !.prefix = "LIC9."])
    BY DEF Broken, LIC1_PREFIX, LIC2_PREFIX
  <1>3. Broken([t EXCEPT !.segs = SubSeq(@, 1, Len(@) - 1)])
    BY DEF Broken, LIC1_PREFIX, LIC2_PREFIX
  <1>4. Broken([t EXCEPT !.segs = Append(@, v)])
    BY DEF Broken, LIC1_PREFIX, LIC2_PREFIX
  <1>5. v.kind # "sig" => Broken([t EXCEPT !.segs[3] = v])
    BY DEF Broken, LIC1_PREFIX, LIC2_PREFIX
  <1> QED
    BY <1>1, <1>2, <1>3, <1>4, <1>5

\* The same for LIC2: the edits that keep the signature.
LEMMA Touched2 ==
    ASSUME NEW f, NEW p, NEW g, NEW t, NEW v, NEW n,
           t = [prefix |-> LIC2_PREFIX,
                segs |-> <<[kind |-> "body", message |-> p, signature |-> g], f>>]
    PROVE  /\ Around2(t, t)
           /\ Around2(t, [t EXCEPT !.segs[1].message.pairs = v])
           /\ Around2(t, [t EXCEPT !.segs[2].pairs[n] = v])
           /\ Around2(t, [t EXCEPT !.segs[2] = v])
  <1>1. Around2(t, t)
    BY DEF Around2
  <1>2. Around2(t, [t EXCEPT !.segs[1].message.pairs = v])
    BY DEF Around2
  <1>3. Around2(t, [t EXCEPT !.segs[2].pairs[n] = v])
    BY DEF Around2
  <1>4. Around2(t, [t EXCEPT !.segs[2] = v])
    BY DEF Around2
  <1> QED
    BY <1>1, <1>2, <1>3, <1>4

\* A LIC2 token re-prefixed, resized or with another first segment is broken.
LEMMA Damaged2 ==
    ASSUME NEW f, NEW p, NEW g, NEW t, NEW v,
           t = [prefix |-> LIC2_PREFIX,
                segs |-> <<[kind |-> "body", message |-> p, signature |-> g], f>>]
    PROVE  /\ Broken([t EXCEPT !.prefix = LIC1_PREFIX]) /\ Broken([t EXCEPT !.prefix = "LIC9."])
           /\ Broken([t EXCEPT !.segs = SubSeq(@, 1, Len(@) - 1)])
           /\ Broken([t EXCEPT !.segs = Append(@, v)])
           /\ v.kind # "body" => Broken([t EXCEPT !.segs[1] = v])
  <1>1. Broken([t EXCEPT !.prefix = LIC1_PREFIX])
    BY DEF Broken, LIC1_PREFIX, LIC2_PREFIX
  <1>2. Broken([t EXCEPT !.prefix = "LIC9."])
    BY DEF Broken, LIC1_PREFIX, LIC2_PREFIX
  <1>3. Broken([t EXCEPT !.segs = SubSeq(@, 1, Len(@) - 1)])
    BY DEF Broken, LIC1_PREFIX, LIC2_PREFIX
  <1>4. Broken([t EXCEPT !.segs = Append(@, v)])
    BY DEF Broken, LIC1_PREFIX, LIC2_PREFIX
  <1>5. v.kind # "body" => Broken([t EXCEPT !.segs[1] = v])
    BY DEF Broken, LIC1_PREFIX, LIC2_PREFIX
  <1> QED
    BY <1>1, <1>2, <1>3, <1>4, <1>5

\* However a LIC1 token is changed, it is broken or keeps its signature.
LEMMA Variants1 ==
    ASSUME NEW i, i.format = "LIC1", NEW h, NEW c, NEW g,
           tokenOf(i).token = [prefix |-> LIC1_PREFIX, segs |-> <<h, c, g>>],
           NEW r \in variants(i)
    PROVE  Around1(tokenOf(i).token, r) \/ Broken(r)
  <1> DEFINE t == tokenOf(i).token
  <1>1. \/ r = t \/ r \in reprefixed(t) \/ r \in resized(t) \/ r \in garbled(t)
        \/ (\E k : r = relabelled(i, k)) \/ r \in edits(i)
        \/ (i.format = "LIC1" /\ r \in reheaded(t))
    BY Zenon DEF variants
  <1>2. t = [prefix |-> LIC1_PREFIX, segs |-> <<h, c, g>>]
    OBVIOUS
  <1>11. i.format = "LIC1"
    OBVIOUS
  <1>4. CASE r = t
    BY <1>2, <1>4, Touched1, Zenon
  <1>5. CASE r \in reprefixed(t)
    <2>1. PICK q \in {LIC1_PREFIX, LIC2_PREFIX, "LIC9."} : r = [t EXCEPT !.prefix = q]
      BY <1>5, Zenon DEF reprefixed
    <2>2. CASE q = LIC1_PREFIX
      <3>1. r = t
        BY <1>2, <2>1, <2>2
      <3> QED
        BY <1>2, <3>1, Touched1, Zenon
    <2>3. CASE q = LIC2_PREFIX
      BY <1>2, <2>1, <2>3, Damaged1, Zenon
    <2>4. CASE q = "LIC9."
      BY <1>2, <2>1, <2>4, Damaged1, Zenon
    <2> QED
      BY <2>1, <2>2, <2>3, <2>4, Zenon
  <1>6. CASE r \in resized(t)
    <2>1. \/ r = [t EXCEPT !.segs = SubSeq(@, 1, Len(@) - 1)]
          \/ r = [t EXCEPT !.segs = Append(@, json(<<>>))]
      BY <1>6, Zenon DEF resized
    <2> DEFINE w == json(<<>>)
    <2> HIDE DEF w
    <2>2. CASE r = [t EXCEPT !.segs = SubSeq(@, 1, Len(@) - 1)]
      BY <1>2, <2>2, Damaged1
    <2>3. CASE r = [t EXCEPT !.segs = Append(@, w)]
      BY <1>2, <2>3, Damaged1, Zenon
    <2> QED
      BY <2>1, <2>2, <2>3, Zenon DEF w
  <1>7. CASE r \in garbled(t)
    <2>1. PICK n \in DOMAIN t.segs, k \in {"badB64", "notJson"} : r = withSegment(t, n, k)
      BY <1>7 DEF garbled
    <2>2. n = 1 \/ n = 2 \/ n = 3
      BY <1>2
    <2> DEFINE w == [kind |-> k]
    <2>3. w.kind # "sig" /\ w.kind # "body"
      OBVIOUS
    <2>4. r = [t EXCEPT !.segs[n] = w]
      BY <2>1, Zenon DEF withSegment
    <2> HIDE DEF w
    <2>5. CASE n = 1
      BY <1>2, <2>4, <2>5, Touched1, Zenon
    <2>6. CASE n = 2
      BY <1>2, <2>4, <2>6, Touched1, Zenon
    <2>7. CASE n = 3
      BY <1>2, <2>3, <2>4, <2>7, Damaged1, ZenonT(30)
    <2> QED
      BY <2>2, <2>5, <2>6, <2>7, Zenon
  <1>8. CASE \E k : r = relabelled(i, k)
    <2>1. PICK k : r = relabelled(i, k)
      BY <1>8, Zenon
    <2>2. r = [t EXCEPT !.segs[1].pairs[2] = member("kid", str(k))]
      BY <1>11, <2>1, Zenon DEF relabelled
    <2> QED
      BY <1>2, <2>2, Touched1, Zenon
  <1>9. CASE r \in edits(i)
    <2>2. \/ r = edited(i, LAMBDA s : Append(s, member("status", str("active"))))
          \/ r = edited(i, LAMBDA s : Reverse(s))
          \/ r = edited(i, LAMBDA s : SelectSeq(s, LAMBDA m : m[1] # "jti"))
          \/ r = edited(i, LAMBDA s : [s EXCEPT ![1] = member("exp", num(9))])
      BY <1>9, Zenon DEF edits
    <2>3. CASE r = edited(i, LAMBDA s : Append(s, member("status", str("active"))))
      BY <1>2, <1>11, <2>3, Touched1, Zenon DEF edited
    <2>4. CASE r = edited(i, LAMBDA s : Reverse(s))
      BY <1>2, <1>11, <2>4, Touched1, Zenon DEF edited
    <2>5. CASE r = edited(i, LAMBDA s : SelectSeq(s, LAMBDA m : m[1] # "jti"))
      BY <1>2, <1>11, <2>5, Touched1, Zenon DEF edited
    <2>6. CASE r = edited(i, LAMBDA s : [s EXCEPT ![1] = member("exp", num(9))])
      BY <1>2, <1>11, <2>6, Touched1, Zenon DEF edited
    <2> QED
      BY <2>2, <2>3, <2>4, <2>5, <2>6, Zenon
  <1>10. CASE i.format = "LIC1" /\ r \in reheaded(t)
    <2> DEFINE W1 == {[t EXCEPT !.segs[1].pairs[1] = member("alg", str(a))] : a \in KeyAlgs \cup {"none"}}
               W2 == {[t EXCEPT !.segs[1].pairs = Append(@, member("extra", num(1)))]}
    <2>1. reheaded(t) = W1 \cup W2
      BY Zenon DEF reheaded
    <2> HIDE DEF W1, W2
    <2>2. CASE r \in W1
      <3>1. PICK a \in KeyAlgs \cup {"none"} : r = [t EXCEPT !.segs[1].pairs[1] = member("alg", str(a))]
        BY <2>2, Zenon DEF W1
      <3> QED
        BY <1>2, <3>1, Touched1, Zenon
    <2>3. CASE r \in W2
      <3>1. r = [t EXCEPT !.segs[1].pairs = Append(@, member("extra", num(1)))]
        BY <2>3, Zenon DEF W2
      <3> QED
        BY <1>2, <3>1, Touched1, Zenon
    <2> QED
      BY <1>10, <2>1, <2>2, <2>3, Zenon
  <1> QED
    BY <1>1, <1>4, <1>5, <1>6, <1>7, <1>8, <1>9, <1>10, Zenon

\* The same of LIC2.
LEMMA Variants2 ==
    ASSUME NEW i, i.format = "LIC2", NEW f, NEW c, NEW g,
           tokenOf(i).token = [prefix |-> LIC2_PREFIX,
                               segs |-> <<[kind |-> "body", message |-> c, signature |-> g], f>>],
           NEW r \in variants(i)
    PROVE  Around2(tokenOf(i).token, r) \/ Broken(r)
  <1> DEFINE t == tokenOf(i).token
  <1>1. \/ r = t \/ r \in reprefixed(t) \/ r \in resized(t) \/ r \in garbled(t)
        \/ (\E k : r = relabelled(i, k)) \/ r \in edits(i)
        \/ (i.format = "LIC1" /\ r \in reheaded(t))
    BY Zenon DEF variants
  <1>2. t = [prefix |-> LIC2_PREFIX, segs |-> <<[kind |-> "body", message |-> c, signature |-> g], f>>]
    OBVIOUS
  <1>11. i.format # "LIC1"
    OBVIOUS
  <1>4. CASE r = t
    BY <1>2, <1>4, Touched2, Zenon
  <1>5. CASE r \in reprefixed(t)
    <2>1. PICK q \in {LIC1_PREFIX, LIC2_PREFIX, "LIC9."} : r = [t EXCEPT !.prefix = q]
      BY <1>5, Zenon DEF reprefixed
    <2>2. CASE q = LIC2_PREFIX
      <3>1. r = t
        BY <1>2, <2>1, <2>2
      <3> QED
        BY <1>2, <3>1, Touched2, Zenon
    <2>3. CASE q = LIC1_PREFIX
      BY <1>2, <2>1, <2>3, Damaged2, Zenon
    <2>4. CASE q = "LIC9."
      BY <1>2, <2>1, <2>4, Damaged2, Zenon
    <2> QED
      BY <2>1, <2>2, <2>3, <2>4, Zenon
  <1>6. CASE r \in resized(t)
    <2>1. \/ r = [t EXCEPT !.segs = SubSeq(@, 1, Len(@) - 1)]
          \/ r = [t EXCEPT !.segs = Append(@, json(<<>>))]
      BY <1>6, Zenon DEF resized
    <2> DEFINE w == json(<<>>)
    <2> HIDE DEF w
    <2>2. CASE r = [t EXCEPT !.segs = SubSeq(@, 1, Len(@) - 1)]
      BY <1>2, <2>2, Damaged2
    <2>3. CASE r = [t EXCEPT !.segs = Append(@, w)]
      BY <1>2, <2>3, Damaged2, Zenon
    <2> QED
      BY <2>1, <2>2, <2>3, Zenon DEF w
  <1>7. CASE r \in garbled(t)
    <2>1. PICK n \in DOMAIN t.segs, k \in {"badB64", "notJson"} : r = withSegment(t, n, k)
      BY <1>7 DEF garbled
    <2>2. n = 1 \/ n = 2
      BY <1>2
    <2> DEFINE w == [kind |-> k]
    <2>3. w.kind # "sig" /\ w.kind # "body"
      OBVIOUS
    <2>4. r = [t EXCEPT !.segs[n] = w]
      BY <2>1, Zenon DEF withSegment
    <2> HIDE DEF w
    <2>5. CASE n = 1
      BY <1>2, <2>3, <2>4, <2>5, Damaged2, Zenon
    <2>6. CASE n = 2
      BY <1>2, <2>4, <2>6, Touched2, Zenon
    <2> QED
      BY <2>2, <2>5, <2>6, Zenon
  <1>8. CASE \E k : r = relabelled(i, k)
    <2>1. PICK k : r = relabelled(i, k)
      BY <1>8, Zenon
    <2>2. r = [t EXCEPT !.segs[2].pairs[1] = member("kid", str(k))]
      BY <1>11, <2>1, Zenon DEF relabelled
    <2> QED
      BY <1>2, <2>2, Touched2, Zenon
  <1>9. CASE r \in edits(i)
    <2>2. \/ r = edited(i, LAMBDA s : Append(s, member("status", str("active"))))
          \/ r = edited(i, LAMBDA s : Reverse(s))
          \/ r = edited(i, LAMBDA s : SelectSeq(s, LAMBDA m : m[1] # "jti"))
          \/ r = edited(i, LAMBDA s : [s EXCEPT ![1] = member("exp", num(9))])
      BY <1>9, Zenon DEF edits
    <2>3. CASE r = edited(i, LAMBDA s : Append(s, member("status", str("active"))))
      BY <1>2, <1>11, <2>3, Touched2, Zenon DEF edited
    <2>4. CASE r = edited(i, LAMBDA s : Reverse(s))
      BY <1>2, <1>11, <2>4, Touched2, Zenon DEF edited
    <2>5. CASE r = edited(i, LAMBDA s : SelectSeq(s, LAMBDA m : m[1] # "jti"))
      BY <1>2, <1>11, <2>5, Touched2, Zenon DEF edited
    <2>6. CASE r = edited(i, LAMBDA s : [s EXCEPT ![1] = member("exp", num(9))])
      BY <1>2, <1>11, <2>6, Touched2, Zenon DEF edited
    <2> QED
      BY <2>2, <2>3, <2>4, <2>5, <2>6, Zenon
  <1>10. CASE i.format = "LIC1" /\ r \in reheaded(t)
    BY <1>10, <1>11, Zenon
  <1> QED
    BY <1>1, <1>4, <1>5, <1>6, <1>7, <1>8, <1>9, <1>10, Zenon

\* A plain payload.
plain(j) == base(j, 0, 2, "active", Fingerprint) \o standing

LEMMA PlainIsBase ==
    ASSUME NEW j PROVE payload(j, 0, 2, "active", Fingerprint, standing) = plain(j)
  BY Zenon DEF payload, plain, base

\* It has the required claims and no other.
LEMMA PlainObject ==
    ASSUME NEW j
    PROVE  /\ Object(plain(j)) /\ keysOf(plain(j)) = RequiredClaims
           /\ ToSet(plain(j)) =
                {<<"jti", str(j)>>, <<"nbf", num(0)>>, <<"exp", num(2)>>, <<"status", str("active")>>,
                 <<"usage_fingerprint", str(Fingerprint)>>, <<"license_id", str("lic")>>}
                \cup {<<"iat", num(0)>>, <<"scope", str("s")>>, <<"usage_id", str("u")>>, <<"max_usages", num(1)>>}
  <1> DEFINE b == base(j, 0, 2, "active", Fingerprint)
             c == standing
  <1>1. /\ Object(b) /\ keysOf(b) = BaseClaims
        /\ ToSet(b) = {<<"jti", str(j)>>, <<"nbf", num(0)>>, <<"exp", num(2)>>, <<"status", str("active")>>,
                       <<"usage_fingerprint", str(Fingerprint)>>, <<"license_id", str("lic")>>}
    BY BaseObject, Zenon
  <1>2. /\ Object(c) /\ keysOf(c) = {"iat", "scope", "usage_id", "max_usages"}
        /\ ToSet(c) = {<<"iat", num(0)>>, <<"scope", str("s")>>, <<"usage_id", str("u")>>, <<"max_usages", num(1)>>}
    BY StandingObject, Zenon
  <1>3. plain(j) = b \o c
    BY Zenon DEF plain
  <1> HIDE DEF b, c
  <1>4. \A k \in keysOf(b) : k \notin keysOf(c)
    BY <1>1, <1>2 DEF BaseClaims
  <1>5. Object(b \o c) /\ keysOf(b \o c) = keysOf(b) \cup keysOf(c) /\ ToSet(b \o c) = ToSet(b) \cup ToSet(c)
    BY <1>1, <1>2, <1>4, ObjectsJoin, Zenon
  <1>6. BaseClaims \cup {"iat", "scope", "usage_id", "max_usages"} = RequiredClaims
    BY DEF BaseClaims, RequiredClaims, NumberClaims, StringClaims
  <1> QED
    BY <1>1, <1>2, <1>3, <1>5, <1>6, Zenon

\* The payload with a number canonical JSON cannot write.
Unwritable == <<member("extra", <<"fraction">>)>>

\* What the issuer's tokens are made of.
LEMMA IssuedFields ==
    ASSUME NEW i \in Issued
    PROVE  /\ i.format \in {"LIC1", "LIC2"} /\ i.kid \in Kids /\ i.alg \in KeyAlgs
           /\ i.object = Unwritable \/ \E j \in Jtis : i.object = plain(j)
  <1>1. PICK f \in {"LIC1", "LIC2"}, k \in Kids, a \in KeyAlgs,
             o \in PlainPayloads \cup {Unwritable} :
               i = [format |-> f, kid |-> k, alg |-> a, object |-> o]
    BY DEF Issued, Unwritable
  <1> HIDE DEF PlainPayloads
  <1>2. i.format = f /\ i.kid = k /\ i.alg = a /\ i.object = o
    BY <1>1
  <1>3. o = Unwritable \/ \E j \in Jtis : o = payload(j, 0, 2, "active", Fingerprint, standing)
    BY DEF PlainPayloads
  <1>4. o = Unwritable \/ \E j \in Jtis : o = plain(j)
    BY <1>3, PlainIsBase, Zenon
  <1> QED
    BY <1>2, <1>4, Zenon

\* The payload with a fraction cannot be written.
LEMMA UnwritableIsNot == ~writableObject(Unwritable)
  <1>1. 1 \in DOMAIN Unwritable /\ Unwritable[1][2] = <<"fraction">>
    BY DEF Unwritable, member
  <1>2. ~writable(<<"fraction">>)
    BY DEF writable, typeof
  <1> QED
    BY <1>1, <1>2, Zenon DEF writableObject

\* What an issued token is made of.
Made(i) ==
    \/ i.format = "LIC1" /\ tokenOf(i) = [ok |-> TRUE, token |-> lic1Token(i.alg, i.kid, i.object)]
    \/ /\ i.format = "LIC2" /\ i.alg = "ed25519"
       /\ tokenOf(i) = [ok |-> TRUE, token |-> lic2Token(i.kid, i.object)]

\* A token that was encoded holds a plain payload, through one of the codecs.
LEMMA IssuedMade ==
    ASSUME NEW i \in Issued, tokenOf(i).ok
    PROVE  Made(i) /\ \E j \in Jtis : i.object = plain(j)
  <1>1. i.format \in {"LIC1", "LIC2"}
    BY IssuedFields, Zenon
  <1>2. CASE i.format = "LIC1"
    <2>1. tokenOf(i) = lic1Encode(i.alg, i.kid, i.object)
      BY <1>2, Zenon DEF tokenOf, encode
    <2>2. writableObject(i.object)
      BY <2>1, Lic1Writes, Zenon
    <2>3. tokenOf(i) = [ok |-> TRUE, token |-> lic1Token(i.alg, i.kid, i.object)]
      BY <2>1, <2>2, Lic1Writes, Zenon
    <2> QED
      BY <1>2, <2>2, <2>3, IssuedFields, UnwritableIsNot, Zenon DEF Made
  <1>3. CASE i.format = "LIC2"
    <2>0. i.format # "LIC1"
      BY <1>3
    <2>1. tokenOf(i) = lic2Encode(i.alg, i.kid, i.object)
      BY <2>0, Zenon DEF tokenOf, encode
    <2>4. lic2Encode(i.alg, i.kid, i.object).ok
      BY <2>1, Zenon
    <2>2. i.alg = "ed25519" /\ writableObject(i.object)
      BY <2>4, Lic2Writes
    <2>5. lic2Encode(i.alg, i.kid, i.object) = [ok |-> TRUE, token |-> lic2Token(i.kid, i.object)]
      BY <2>2, Lic2Writes, ZenonT(30)
    <2>3. tokenOf(i) = [ok |-> TRUE, token |-> lic2Token(i.kid, i.object)]
      BY <2>1, <2>5, Zenon
    <2> QED
      BY <1>3, <2>2, <2>3, IssuedFields, UnwritableIsNot, Zenon DEF Made
  <1> QED
    BY <1>1, <1>2, <1>3, Zenon

\* The two shapes of an encoded token.
LEMMA MadeToken ==
    ASSUME NEW i, Made(i)
    PROVE  \/ i.format = "LIC1" /\ tokenOf(i).token = lic1Token(i.alg, i.kid, i.object)
           \/ i.format = "LIC2" /\ i.alg = "ed25519" /\ tokenOf(i).token = lic2Token(i.kid, i.object)
  <1> DEFINE t == tokenOf(i)
             l == lic1Token(i.alg, i.kid, i.object)
             m == lic2Token(i.kid, i.object)
  <1>1. \/ i.format = "LIC1" /\ t = [ok |-> TRUE, token |-> l]
        \/ i.format = "LIC2" /\ i.alg = "ed25519" /\ t = [ok |-> TRUE, token |-> m]
    BY Zenon DEF Made
  <1> HIDE DEF t, l, m
  <1>2. \/ i.format = "LIC1" /\ t.token = l
        \/ i.format = "LIC2" /\ i.alg = "ed25519" /\ t.token = m
    BY <1>1
  <1> QED
    BY <1>2 DEF t, l, m

\* What the codecs read in an issued token.
LEMMA IssuedReads ==
    ASSUME \A k \in Kids : Named(k), NEW i \in Issued, tokenOf(i).ok
    PROVE  \E input : decodeUnverified(tokenOf(i).token) =
             envelope(i.alg, i.kid, ordered(i.object), input, sign(i.kid, i.alg, input))
  <1>1. Made(i) /\ \E j \in Jtis : i.object = plain(j)
    BY IssuedMade, Zenon
  <1>2. Object(i.object)
    BY <1>1, PlainObject, Zenon
  <1>3. Named(i.kid) /\ i.alg \in KeyAlgs
    BY IssuedFields, Zenon
  <1>4. CASE i.format = "LIC1" /\ tokenOf(i).token = lic1Token(i.alg, i.kid, i.object)
    <2> DEFINE in == inputOf1(i.alg, i.kid, i.object)
    <2>1. decodeUnverified(lic1Token(i.alg, i.kid, i.object)) =
            envelope(i.alg, i.kid, ordered(i.object), in, sign(i.kid, i.alg, in))
      BY <1>2, <1>3, Lic1Reads, Zenon
    <2> QED
      BY <1>4, <2>1, Zenon
  <1>5. CASE i.format = "LIC2" /\ i.alg = "ed25519" /\ tokenOf(i).token = lic2Token(i.kid, i.object)
    <2> DEFINE in == inputOf2(i.kid, i.object)
    <2>1. decodeUnverified(lic2Token(i.kid, i.object)) =
            envelope("ed25519", i.kid, ordered(i.object), in, sign(i.kid, "ed25519", in))
      BY <1>2, <1>3, Lic2Reads, Zenon
    <2> QED
      BY <1>5, <2>1, Zenon
  <1> QED
    BY <1>1, <1>4, <1>5, MadeToken, Zenon

\* A verified token is one that was issued.
LEMMA VerifiedWasIssued ==
    ASSUME \A k \in Kids : Named(k), NEW r \in EnvelopeTokens, verifyStart(r).ok, backendVerify(decodeUnverified(r))
    PROVE  \E i \in Issued : trusted(i) /\ r = tokenOf(i).token
  <1>1. PICK i \in Issued : tokenOf(i).ok /\ r \in variants(i)
    BY DEF EnvelopeTokens
  <1>2. decodeUnverified(r).ok
    BY StartedMatches, Zenon
  <1>3. Made(i)
    BY <1>1, IssuedMade, Zenon
  <1>4. ~Broken(r)
    BY <1>2, BrokenRefused, Zenon
  <1>5. r = tokenOf(i).token
    <2>1. CASE i.format = "LIC1" /\ tokenOf(i).token = lic1Token(i.alg, i.kid, i.object)
      <3>0. PICK h, c, g : tokenOf(i).token = [prefix |-> LIC1_PREFIX, segs |-> <<h, c, g>>]
        BY <2>1, Zenon DEF lic1Token
      <3>1. Around1(tokenOf(i).token, r)
        BY <1>1, <1>4, <2>1, <3>0, Variants1, Zenon
      <3>2. Around1(lic1Token(i.alg, i.kid, i.object), r)
        BY <2>1, <3>1, Zenon
      <3>3. r = lic1Token(i.alg, i.kid, i.object)
        BY <1>2, <3>2, Around1Same, Zenon
      <3> QED
        BY <2>1, <3>3, Zenon
    <2>2. CASE i.format = "LIC2" /\ i.alg = "ed25519" /\ tokenOf(i).token = lic2Token(i.kid, i.object)
      <3>0. PICK f, c, g : tokenOf(i).token =
              [prefix |-> LIC2_PREFIX, segs |-> <<[kind |-> "body", message |-> c, signature |-> g], f>>]
        BY <2>2, Zenon DEF lic2Token
      <3>1. Around2(tokenOf(i).token, r)
        BY <1>1, <1>4, <2>2, <3>0, Variants2, Zenon
      <3>2. Around2(lic2Token(i.kid, i.object), r)
        BY <2>2, <3>1, Zenon
      <3>3. r = lic2Token(i.kid, i.object)
        BY <1>2, <3>2, Around2Same, Zenon
      <3> QED
        BY <2>2, <3>3, Zenon
    <2> QED
      BY <1>3, <2>1, <2>2, MadeToken, Zenon
  <1>6. decodeUnverified(r).alg = i.alg /\ decodeUnverified(r).kid = i.kid
    <2> DEFINE d == decodeUnverified(r)
    <2>1. PICK input : d = envelope(i.alg, i.kid, ordered(i.object), input, sign(i.kid, i.alg, input))
      BY <1>1, <1>5, IssuedReads, Zenon
    <2> HIDE DEF d
    <2>2. d.alg = i.alg /\ d.kid = i.kid
      BY <2>1 DEF envelope
    <2> QED
      BY <2>2 DEF d
  <1>7. trusted(i)
    <2>1. /\ i.alg \in Registry /\ i.kid \in DOMAIN Bindings /\ Bindings[i.kid] = i.alg
          /\ i.kid \in DOMAIN Records /\ Records[i.kid] = i.alg
      BY <1>6, StartedMatches, Zenon
    <2> QED
      BY <1>1, <2>1, Zenon DEF trusted
  <1> QED
    BY <1>5, <1>7, Zenon

\* What an issuer writes by default passes every check while its window is open.
LEMMA PlainPasses ==
    ASSUME NEW j, NEW s, SameMembers(s, plain(j)), NEW skew \in Nat
    PROVE  checkClaims(s, 0, skew, "none") = "ok"
  <1> DEFINE b == plain(j)
  <1>1. /\ keysOf(b) = RequiredClaims
        /\ ToSet(b) = {<<"jti", str(j)>>, <<"nbf", num(0)>>, <<"exp", num(2)>>, <<"status", str("active")>>,
                       <<"usage_fingerprint", str(Fingerprint)>>, <<"license_id", str("lic")>>}
              \cup {<<"iat", num(0)>>, <<"scope", str("s")>>, <<"usage_id", str("u")>>, <<"max_usages", num(1)>>}
    BY PlainObject, Zenon
  <1> HIDE DEF b
  <1>2. Object(s) /\ ToSet(s) = ToSet(b)
    BY Zenon DEF SameMembers, b
  <1>3. keysOf(s) = RequiredClaims
    <2>1. keysOf(s) = {m[1] : m \in ToSet(s)} /\ keysOf(b) = {m[1] : m \in ToSet(b)}
      BY KeysAreNames, Zenon
    <2> QED
      BY <1>1, <1>2, <2>1, Zenon
  <1>4. /\ valueOf(s, "jti") = str(j) /\ valueOf(s, "nbf") = num(0) /\ valueOf(s, "exp") = num(2)
        /\ valueOf(s, "status") = str("active") /\ valueOf(s, "license_id") = str("lic")
        /\ valueOf(s, "usage_fingerprint") = str(Fingerprint)
        /\ valueOf(s, "iat") = num(0) /\ valueOf(s, "scope") = str("s")
        /\ valueOf(s, "usage_id") = str("u") /\ valueOf(s, "max_usages") = num(1)
    <2>1. /\ <<"jti", str(j)>> \in ToSet(s) /\ <<"nbf", num(0)>> \in ToSet(s)
          /\ <<"exp", num(2)>> \in ToSet(s) /\ <<"status", str("active")>> \in ToSet(s)
          /\ <<"license_id", str("lic")>> \in ToSet(s)
          /\ <<"usage_fingerprint", str(Fingerprint)>> \in ToSet(s)
          /\ <<"iat", num(0)>> \in ToSet(s) /\ <<"scope", str("s")>> \in ToSet(s)
          /\ <<"usage_id", str("u")>> \in ToSet(s) /\ <<"max_usages", num(1)>> \in ToSet(s)
      BY <1>1, <1>2
    <2> QED
      BY <1>2, <2>1, LookUp, Zenon
  <1>5. /\ "force_online_after" \notin keysOf(s) /\ "aud" \notin keysOf(s) /\ "iss" \notin keysOf(s)
        /\ "entitlements" \notin keysOf(s)
    BY <1>3 DEF RequiredClaims, NumberClaims, StringClaims
  <1>6. /\ optionalOf(s, "force_online_after") = Null /\ optionalOf(s, "aud") = Null
        /\ optionalOf(s, "iss") = Null /\ optionalOf(s, "entitlements") = Null
    BY <1>5, Zenon DEF optionalOf
  <1>7. typeof(Null) = "null"
    BY DEF typeof, Null
  <1>8. assertClaimShape(s)
    <2>1. asNumber(num(0)) /\ asNumber(num(1)) /\ asNumber(num(2))
      BY DEF asNumber, num, typeof, content
    <2>2. \A v : asString(str(v))
      BY DEF asString, str, typeof
    <2>3. \A k \in NumberClaims : asNumber(valueOf(s, k))
      BY <1>4, <2>1 DEF NumberClaims
    <2>4. \A k \in StringClaims : asString(valueOf(s, k))
      BY <1>4, <2>2 DEF StringClaims
    <2> QED
      BY <1>3, <1>6, <1>7, <2>3, <2>4 DEF assertClaimShape
  <1>9. /\ claim(s, "nbf") = 0 /\ claim(s, "exp") = 2 /\ claim(s, "status") = "active"
        /\ claim(s, "usage_fingerprint") = Fingerprint
    BY <1>4 DEF claim, content, num, str
  <1>10. ~mustRefresh(Null, 0, skew)
    BY <1>7 DEF mustRefresh
  <1>11. ~(0 > 0 + skew) /\ ~(2 + skew < 0)
    OBVIOUS
  <1>12. "active" \in {"active", "grace"} /\ "active" # "suspended" /\ "active" # "revoked" /\ "active" # "expired"
    OBVIOUS
  <1> QED
    BY <1>6, <1>8, <1>9, <1>10, <1>11, <1>12, Zenon DEF checkClaims

\* What a trusted key issued is accepted.
LEMMA IssuedAccepted ==
    ASSUME \A k \in Kids : Named(k), "hs256" \notin Registry,
           NEW i \in Issued, trusted(i), NEW skew \in Nat
    PROVE  Outcome(tokenOf(i).token, 0, skew, "none") = "ok"
  <1> DEFINE t == tokenOf(i).token
  <1>1. /\ tokenOf(i).ok /\ i.kid \in DOMAIN Records /\ i.kid \in DOMAIN Bindings
        /\ Records[i.kid] = i.alg /\ Bindings[i.kid] = i.alg /\ i.alg \in Registry
    BY DEF trusted
  <1>2. PICK j \in Jtis : i.object = plain(j)
    BY <1>1, IssuedMade, Zenon
  <1>3. SameMembers(ordered(i.object), i.object)
    BY <1>2, PlainObject, OrderedMembers, Zenon
  <1>4. PICK input : decodeUnverified(t) =
             envelope(i.alg, i.kid, ordered(i.object), input, sign(i.kid, i.alg, input))
    BY <1>1, IssuedReads, Zenon
  <1>5. i.alg # "hs256"
    BY <1>1
  <1>6. /\ verifyStart(t).ok
        /\ verifyFinish(decodeUnverified(t)) = decodeUnverified(t)
        /\ decodeUnverified(t).ok /\ decodeUnverified(t).payload = ordered(i.object)
    <2> DEFINE a == i.alg
               k == i.kid
               q == ordered(i.object)
    <2>1. /\ k \in DOMAIN Records /\ k \in DOMAIN Bindings /\ Records[k] = a /\ Bindings[k] = a
          /\ a \in Registry /\ a # "hs256"
          /\ decodeUnverified(t) = envelope(a, k, q, input, sign(k, a, input))
      BY <1>1, <1>4, <1>5, Zenon
    <2> HIDE DEF t, a, k, q
    <2>2. /\ verifyStart(t).ok
          /\ verifyFinish(decodeUnverified(t)) = decodeUnverified(t)
          /\ decodeUnverified(t).ok /\ decodeUnverified(t).payload = q
      BY <2>1, VerifyAccepts
    <2> QED
      BY <2>2 DEF q
  <1>7. checkClaims(ordered(i.object), 0, skew, "none") = "ok"
    BY <1>2, <1>3, PlainPasses, Zenon
  <1> QED
    BY <1>6, <1>7, Zenon DEF Outcome

-----------------------------------------------------------------------------
(* Canonical JSON does not depend on the order of insertion.                 *)

\* Reversing an object keeps its members.
LEMMA ReversedSame ==
    ASSUME NEW o, Object(o)
    PROVE  /\ DOMAIN Reverse(o) = DOMAIN o /\ ToSet(Reverse(o)) = ToSet(o)
           /\ writableObject(Reverse(o)) <=> writableObject(o)
  <1> DEFINE n == Len(o)
             s == Reverse(o)
  <1>1. n \in Nat /\ DOMAIN o = 1..n
    BY DEF Object
  <1>2. s = [i \in 1..n |-> o[(n - i) + 1]]
    BY Zenon DEF Reverse
  <1> HIDE DEF n
  <1>3. DOMAIN s = 1..n /\ \A i \in 1..n : s[i] = o[(n - i) + 1]
    BY <1>2
  <1> HIDE DEF s
  <1>4. \A i \in 1..n : (n - i) + 1 \in 1..n /\ (n - ((n - i) + 1)) + 1 = i
    BY <1>1
  <1>5. \A i \in 1..n : s[(n - i) + 1] = o[i]
    BY <1>3, <1>4
  <1>6. ToSet(s) = ToSet(o)
    <2>1. \A x \in ToSet(s) : x \in ToSet(o)
      BY <1>1, <1>3, <1>4 DEF ToSet
    <2>2. \A x \in ToSet(o) : x \in ToSet(s)
      BY <1>1, <1>3, <1>4, <1>5 DEF ToSet
    <2> QED
      BY <2>1, <2>2
  <1>7. writableObject(s) <=> writableObject(o)
    <2>1. writableObject(o) => writableObject(s)
      BY <1>1, <1>3, <1>4 DEF writableObject
    <2>2. writableObject(s) => writableObject(o)
      BY <1>1, <1>3, <1>4, <1>5 DEF writableObject
    <2> QED
      BY <2>1, <2>2
  <1> QED
    BY <1>1, <1>3, <1>6, <1>7 DEF s

\* ordered(), of the positions and members it depends on.
inOrder(D, ms) ==
    [n \in D |-> CHOOSE m \in ms : Cardinality({k \in ms : compareUtf16(k, m)}) = n - 1]

\* canonicalize does not see the order of its input.
LEMMA ReversedWrites ==
    ASSUME NEW o, Object(o)
    PROVE  canonicalize(Reverse(o)) = canonicalize(o)
  <1>1. ordered(Reverse(o)) = ordered(o)
    <2>1. \A x : ordered(x) = inOrder(DOMAIN x, ToSet(x))
      BY Zenon DEF ordered, inOrder
    <2>2. DOMAIN Reverse(o) = DOMAIN o /\ ToSet(Reverse(o)) = ToSet(o)
      BY ReversedSame, Zenon
    <2> QED
      BY <2>1, <2>2, Zenon
  <1>2. CASE writableObject(o)
    BY <1>1, <1>2, ReversedSame, Canonical, Zenon
  <1>3. CASE ~writableObject(o)
    <2>1. ~writableObject(Reverse(o))
      BY <1>3, ReversedSame, Zenon
    <2> QED
      BY <1>3, <2>1, Zenon DEF canonicalize, writableObject
  <1> QED
    BY <1>2, <1>3, Zenon

\* Encoding is canonical: reordering changes nothing, decoding returns the members.
LEMMA EncodesAlike ==
    ASSUME \A k \in Kids : Named(k)
    PROVE  encodesAlike
  <1> SUFFICES ASSUME NEW i \in Issued, tokenOf(i).ok
               PROVE  /\ encode(i.format, i.alg, i.kid, Reverse(i.object)) = tokenOf(i)
                      /\ ToSet(decodeUnverified(tokenOf(i).token).payload) = ToSet(i.object)
    BY Zenon DEF encodesAlike
  <1>1. Object(i.object)
    BY IssuedMade, PlainObject, Zenon
  <1>2. canonicalize(Reverse(i.object)) = canonicalize(i.object)
    BY <1>1, ReversedWrites, Zenon
  <1>3. /\ lic1Encode(i.alg, i.kid, Reverse(i.object)) = lic1Encode(i.alg, i.kid, i.object)
        /\ lic2Encode(i.alg, i.kid, Reverse(i.object)) = lic2Encode(i.alg, i.kid, i.object)
    BY <1>2, Zenon DEF lic1Encode, lic2Encode
  <1>4. encode(i.format, i.alg, i.kid, Reverse(i.object)) = tokenOf(i)
    BY <1>3, Zenon DEF encode, tokenOf
  <1>5. decodeUnverified(tokenOf(i).token).payload = ordered(i.object)
    <2> DEFINE d == decodeUnverified(tokenOf(i).token)
    <2>1. PICK input : d = envelope(i.alg, i.kid, ordered(i.object), input, sign(i.kid, i.alg, input))
      BY IssuedReads, Zenon
    <2> HIDE DEF d
    <2>2. d.payload = ordered(i.object)
      BY <2>1 DEF envelope
    <2> QED
      BY <2>2 DEF d
  <1>6. ToSet(ordered(i.object)) = ToSet(i.object)
    BY <1>1, OrderedMembers, Zenon DEF SameMembers
  <1> QED
    BY <1>4, <1>5, <1>6, Zenon

-----------------------------------------------------------------------------
(* Pre-authentication encoding.                                              *)

\* There are finitely many tuples of bounded length over a finite set.
LEMMA BoundedTuplesFinite ==
    ASSUME NEW S, IsFiniteSet(S), NEW k \in Nat, NEW V,
           \A v \in V : \E n \in 0..k : v \in [1..n -> S]
    PROVE  IsFiniteSet(V)
  <1> DEFINE graph(v) == {<<i, v[i]>> : i \in DOMAIN v}
             U == (1..k) \X S
             f == [v \in V |-> graph(v)]
  <1>1. IsFiniteSet(SUBSET U)
    <2>1. IsFiniteSet(1..k)
      BY FS_Interval
    <2> QED
      BY <2>1, FS_Product, FS_SUBSET, Zenon
  <1>2. ASSUME NEW v \in V PROVE graph(v) \in SUBSET U
    <2>1. PICK n \in 0..k : v \in [1..n -> S]
      OBVIOUS
    <2>2. DOMAIN v = 1..n
      BY <2>1
    <2>3. ASSUME NEW i \in DOMAIN v PROVE <<i, v[i]>> \in U
      BY <2>1, <2>2, <2>3
    <2> QED
      BY <2>3
  <1>3. ASSUME NEW v \in V, NEW w \in V, graph(v) = graph(w) PROVE v = w
    <2>1. PICK n \in 0..k : v \in [1..n -> S]
      OBVIOUS
    <2>2. PICK l \in 0..k : w \in [1..l -> S]
      OBVIOUS
    <2>3. DOMAIN v = 1..n /\ DOMAIN w = 1..l
      BY <2>1, <2>2
    <2>4. ASSUME NEW i \in DOMAIN v PROVE i \in DOMAIN w /\ w[i] = v[i]
      <3>1. <<i, v[i]>> \in graph(w)
        BY <1>3
      <3>2. PICK m \in DOMAIN w : <<i, v[i]>> = <<m, w[m]>>
        BY <3>1
      <3> QED
        BY <3>2
    <2>5. ASSUME NEW i \in DOMAIN w PROVE i \in DOMAIN v
      <3>1. <<i, w[i]>> \in graph(v)
        BY <1>3
      <3>2. PICK m \in DOMAIN v : <<i, w[i]>> = <<m, v[m]>>
        BY <3>1
      <3> QED
        BY <3>2
    <2>6. DOMAIN v = DOMAIN w
      BY <2>4, <2>5
    <2>7. w \in [1..n -> S]
      BY <2>2, <2>3, <2>6
    <2> QED
      BY <2>1, <2>3, <2>4, <2>7
  <1> HIDE DEF graph, U
  <1>4. f \in [V -> SUBSET U] /\ \A v \in V : f[v] = graph(v)
    BY <1>2
  <1> HIDE DEF f
  <1>5. \A v, w \in V : f[v] = f[w] => v = w
    BY <1>3, <1>4, Zenon
  <1>6. f \in Injection(V, SUBSET U)
    BY <1>4, <1>5 DEF Injection, IsInjective
  <1> QED
    BY <1>1, <1>6, FS_Injection, Zenon

\* Equations on sequences, named so that a step can cite them.
Joined(c, s, t) == c = s \o t
SameLen(s, t) == Len(s) = Len(t)

\* Where the elements of a concatenation come from.
LEMMA ConcatAt ==
    ASSUME NEW s \in Seq(Nat), NEW t \in Seq(Nat)
    PROVE  /\ s \o t \in Seq(Nat) /\ Len(s \o t) = Len(s) + Len(t)
           /\ \A i \in 1..Len(s) : (s \o t)[i] = s[i]
           /\ \A i \in 1..Len(t) : (s \o t)[i + Len(s)] = t[i]
  <1> DEFINE c == s \o t
             n == Len(s)
             l == Len(t)
  <1>1. n \in Nat /\ l \in Nat
    OBVIOUS
  <1>2. /\ c \in Seq(Nat) /\ Len(c) = n + l
        /\ \A i \in 1..n+l : c[i] = IF i <= n THEN s[i] ELSE t[i - n]
    OBVIOUS
  <1> HIDE DEF c, n, l
  <1>3. \A i \in 1..n : c[i] = s[i]
    BY <1>1, <1>2
  <1>4. ASSUME NEW i \in 1..l PROVE c[i + n] = t[i]
    <2>1. i + n \in 1..n+l /\ ~(i + n <= n) /\ (i + n) - n = i
      BY <1>1
    <2> QED
      BY <1>2, <2>1
  <1> QED
    BY <1>2, <1>3, <1>4 DEF c, n, l

\* The same of a sequence known to be a concatenation.
LEMMA JoinedAt ==
    ASSUME NEW s \in Seq(Nat), NEW t \in Seq(Nat), NEW c, Joined(c, s, t)
    PROVE  /\ Len(c) = Len(s) + Len(t)
           /\ \A i \in 1..Len(s) : c[i] = s[i]
           /\ \A i \in 1..Len(t) : c[i + Len(s)] = t[i]
  <1>1. c = s \o t
    BY DEF Joined
  <1> QED
    BY <1>1, ConcatAt, Zenon

\* Sequences of the same length with the same elements are equal.
LEMMA SameElements ==
    ASSUME NEW s \in Seq(Nat), NEW t \in Seq(Nat), Len(s) = Len(t), \A i \in 1..Len(s) : s[i] = t[i]
    PROVE  s = t
  <1>1. s \in [1..Len(s) -> Nat] /\ t \in [1..Len(t) -> Nat]
    OBVIOUS
  <1> QED
    BY <1>1

\* A piece is a sequence of at most two bytes.
LEMMA PieceIs ==
    ASSUME NEW a \in Pieces
    PROVE  a \in Seq(0..1) /\ Len(a) \in 0..2 /\ DOMAIN a = 1..Len(a) /\ a \in [1..Len(a) -> 0..1]
  <1>1. PICK n \in 0..2 : a \in [1..n -> 0..1]
    BY DEF Pieces
  <1>2. a \in Seq(0..1) /\ Len(a) = n
    BY <1>1
  <1> QED
    BY <1>1, <1>2

\* A vector is a sequence of at most three pieces.
LEMMA VectorIs ==
    ASSUME NEW v \in Vectors
    PROVE  v \in Seq(Pieces) /\ Len(v) \in 0..3 /\ DOMAIN v = 1..Len(v) /\ v \in [1..Len(v) -> Pieces]
  <1>1. PICK n \in 0..3 : v \in [1..n -> Pieces]
    BY DEF Vectors
  <1>2. v \in Seq(Pieces) /\ Len(v) = n
    BY <1>1
  <1> QED
    BY <1>1, <1>2

\* There are finitely many vectors.
LEMMA VectorsFinite == IsFiniteSet(Vectors)
  <1>1. IsFiniteSet(0..1)
    <2>1. 0 \in Int /\ 1 \in Int
      OBVIOUS
    <2> QED
      BY <2>1, FS_Interval, Zenon
  <1>2. IsFiniteSet(Pieces)
    <2>1. \A a \in Pieces : \E n \in 0..2 : a \in [1..n -> 0..1]
      BY DEF Pieces
    <2> QED
      BY <1>1, <2>1, BoundedTuplesFinite
  <1>3. \A v \in Vectors : \E n \in 0..3 : v \in [1..n -> Pieces]
    BY DEF Vectors
  <1> QED
    BY <1>2, <1>3, BoundedTuplesFinite

\* A length that fits its first digit is read back from it.
LEMMA Le64 ==
    ASSUME NEW n \in 0..3
    PROVE  le64(n) \in Seq(Nat) /\ Len(le64(n)) = 2 /\ le64(n)[1] = n
  <1> DEFINE d(i) == LET digit == (n \div (IF i = 1 THEN 1 ELSE Base)) % Base IN
                     IF i = Width THEN digit % (Base \div 2) ELSE digit
  <1>1. le64(n) = [i \in 1..2 |-> d(i)]
    BY DEF le64, Width
  <1>2. d(1) = n /\ d(1) \in Nat
    BY DEF Width, Base
  <1>3. d(2) \in Nat
    BY DEF Width, Base
  <1>4. \A i \in 1..2 : i = 1 \/ i = 2
    OBVIOUS
  <1> HIDE DEF d
  <1>5. \A i \in 1..2 : d(i) \in Nat
    BY <1>2, <1>3, <1>4
  <1>6. le64(n) \in [1..2 -> Nat]
    BY <1>1, <1>5
  <1> QED
    BY <1>1, <1>2, <1>6

\* A piece with its length before it.
framed(a) == le64(Len(a)) \o a

\* The parts of a framed piece.
LEMMA FramedIs ==
    ASSUME NEW a \in Pieces
    PROVE  /\ framed(a) \in Seq(Nat) /\ Len(framed(a)) = 2 + Len(a) /\ framed(a)[1] = Len(a)
           /\ \A i \in 1..Len(a) : framed(a)[i + 2] = a[i]
  <1>1. a \in Seq(0..1) /\ Len(a) \in 0..2
    BY PieceIs
  <1>2. Len(a) \in 0..3 /\ a \in Seq(Nat)
    BY <1>1
  <1> DEFINE l == le64(Len(a))
  <1>3. l \in Seq(Nat) /\ Len(l) = 2 /\ l[1] = Len(a)
    BY <1>2, Le64
  <1> HIDE DEF l
  <1>5. /\ l \o a \in Seq(Nat) /\ Len(l \o a) = Len(l) + Len(a)
        /\ \A i \in 1..Len(l) : (l \o a)[i] = l[i]
        /\ \A i \in 1..Len(a) : (l \o a)[i + Len(l)] = a[i]
    BY <1>2, <1>3, ConcatAt, Zenon
  <1>4. /\ l \o a \in Seq(Nat) /\ Len(l \o a) = 2 + Len(a) /\ (l \o a)[1] = Len(a)
        /\ \A i \in 1..Len(a) : (l \o a)[i + 2] = a[i]
    <2> DEFINE c == l \o a
    <2> HIDE DEF c
    <2>1. /\ c \in Seq(Nat) /\ Len(c) = 2 + Len(a) /\ c[1] = Len(a)
          /\ \A i \in 1..Len(a) : c[i + 2] = a[i]
      BY <1>3, <1>5 DEF c
    <2> QED
      BY <2>1 DEF c
  <1> QED
    BY <1>4 DEF framed, l

\* Sequences that agree on their first Len(F) elements and after.
LEMMA ConcatApart ==
    ASSUME NEW F \in Seq(Nat), NEW G \in Seq(Nat), NEW x \in Seq(Nat), NEW y \in Seq(Nat),
           SameLen(F, G), NEW c, Joined(c, F, x), Joined(c, G, y)
    PROVE  F = G /\ x = y
  <1>1. /\ Len(c) = Len(F) + Len(x)
        /\ \A i \in 1..Len(F) : c[i] = F[i]
        /\ \A i \in 1..Len(x) : c[i + Len(F)] = x[i]
    BY JoinedAt
  <1>8. /\ Len(c) = Len(G) + Len(y)
        /\ \A i \in 1..Len(G) : c[i] = G[i]
        /\ \A i \in 1..Len(y) : c[i + Len(G)] = y[i]
    BY JoinedAt
  <1>2. Len(F) \in Nat /\ Len(x) \in Nat /\ Len(y) \in Nat
    OBVIOUS
  <1>3. Len(x) = Len(y)
    BY <1>1, <1>2, <1>8 DEF SameLen
  <1>4. ASSUME NEW i \in 1..Len(F) PROVE F[i] = G[i]
    BY <1>1, <1>8 DEF SameLen
  <1>5. ASSUME NEW i \in 1..Len(x) PROVE x[i] = y[i]
    BY <1>1, <1>3, <1>8 DEF SameLen
  <1>6. F = G
    BY <1>4, SameElements DEF SameLen
  <1>7. x = y
    BY <1>3, <1>5, SameElements
  <1> QED
    BY <1>6, <1>7

\* What follows a framed piece can be told from it.
LEMMA FramedApart ==
    ASSUME NEW a \in Pieces, NEW b \in Pieces, NEW x \in Seq(Nat), NEW y \in Seq(Nat),
           NEW c, Joined(c, framed(a), x), Joined(c, framed(b), y)
    PROVE  a = b /\ x = y
  <1> DEFINE F == framed(a)
             G == framed(b)
             n == Len(a)
             m == Len(b)
  <1>1. /\ F \in Seq(Nat) /\ Len(F) = 2 + n /\ F[1] = n /\ \A i \in 1..n : F[i + 2] = a[i]
        /\ G \in Seq(Nat) /\ Len(G) = 2 + m /\ G[1] = m /\ \A i \in 1..m : G[i + 2] = b[i]
    BY FramedIs
  <1>2. n \in 0..2 /\ m \in 0..2 /\ a \in [1..n -> 0..1] /\ b \in [1..m -> 0..1]
    BY PieceIs
  <1>3. Joined(c, F, x) /\ Joined(c, G, y)
    OBVIOUS
  <1> HIDE DEF F, G, n, m
  <1>4. \A i \in 1..Len(F) : c[i] = F[i]
    BY <1>1, <1>3, JoinedAt
  <1>9. \A i \in 1..Len(G) : c[i] = G[i]
    BY <1>1, <1>3, JoinedAt
  <1>5. n = m
    <2>0. 1 \in 1..Len(F) /\ 1 \in 1..Len(G) /\ F[1] = n /\ G[1] = m
      BY <1>1, <1>2
    <2>1. c[1] = n
      BY <1>4, <2>0, Zenon
    <2>2. c[1] = m
      BY <1>9, <2>0, Zenon
    <2> QED
      BY <2>1, <2>2
  <1>6. F = G /\ x = y
    <2>1. SameLen(F, G)
      BY <1>1, <1>5 DEF SameLen
    <2> QED
      BY <1>1, <1>3, <2>1, ConcatApart, Zenon
  <1>7. ASSUME NEW i \in 1..n PROVE a[i] = b[i]
    BY <1>1, <1>5, <1>6
  <1>8. a = b
    BY <1>2, <1>5, <1>7
  <1> QED
    BY <1>6, <1>8

\* What flattening n sequences unfolds.
then(s, t) == s \o t
flattening(f, S) == f = [i \in 1..Len(S) |-> IF i = 1 THEN S[i] ELSE then(f[i - 1], S[i])]

\* FlattenSeq of up to three sequences concatenates them.
LEMMA FlattenIs ==
    ASSUME NEW S, Len(S) \in 1..3
    PROVE  \/ Len(S) = 1 /\ FlattenSeq(S) = S[1]
           \/ Len(S) = 2 /\ FlattenSeq(S) = S[1] \o S[2]
           \/ Len(S) = 3 /\ FlattenSeq(S) = (S[1] \o S[2]) \o S[3]
  <1> DEFINE n == Len(S)
             a == S[1]
             b == S[2]
             c == S[3]
             ab == then(a, b)
             abc == then(ab, c)
             g == CHOOSE f : flattening(f, S)
             w == [i \in 1..n |-> IF i = 1 THEN a ELSE IF i = 2 THEN ab ELSE abc]
  <1>1. FlattenSeq(S) = g[n]
    <2>1. FlattenSeq(S) = IF n = 0 THEN S ELSE g[n]
      BY Zenon DEF FlattenSeq, flattening, then
    <2> QED
      BY <2>1
  <1>2. flattening(w, S)
    <2>1. ASSUME NEW i \in 1..n PROVE w[i] = IF i = 1 THEN S[i] ELSE then(w[i - 1], S[i])
      <3>0. n \in 1..3 /\ i \in 1..n
        OBVIOUS
      <3>1. i = 1 \/ (i = 2 /\ n >= 2) \/ (i = 3 /\ n = 3)
        <4> HIDE DEF n, w
        <4> QED
          BY <3>0
      <3>2. CASE i = 1
        BY <3>2
      <3>3. CASE i = 2 /\ n >= 2
        <4>1. w[2] = ab /\ w[1] = a
          BY <3>3
        <4> QED
          BY <3>3, <4>1
      <3>4. CASE i = 3 /\ n = 3
        <4>1. w[2] = ab /\ w[3] = abc
          BY <3>4
        <4> QED
          BY <3>4, <4>1
      <3> QED
        BY <3>1, <3>2, <3>3, <3>4
    <2>2. w = [i \in 1..n |-> w[i]]
      OBVIOUS
    <2> HIDE DEF w
    <2>3. w = [i \in 1..n |-> IF i = 1 THEN S[i] ELSE then(w[i - 1], S[i])]
      BY <2>1, <2>2, Zenon
    <2> QED
      BY <2>3 DEF flattening
  <1> HIDE DEF w
  <1>3. flattening(g, S)
    BY <1>2, Zenon
  <1> HIDE DEF g
  <1>4. \A i \in 1..n : g[i] = IF i = 1 THEN S[i] ELSE then(g[i - 1], S[i])
    <2>1. g = [i \in 1..n |-> IF i = 1 THEN S[i] ELSE then(g[i - 1], S[i])]
      BY <1>3 DEF flattening
    <2> DEFINE e(i) == IF i = 1 THEN S[i] ELSE then(g[i - 1], S[i])
    <2>2. g = [i \in 1..n |-> e(i)]
      BY <2>1, Zenon
    <2> HIDE DEF e
    <2>3. \A i \in 1..n : g[i] = e(i)
      BY <2>2, Zenon
    <2> QED
      BY <2>3 DEF e
  <1>5. g[1] = a
    BY <1>4
  <1>6. n >= 2 => g[2] = ab
    <2>1. n >= 2 => g[2] = then(g[1], S[2])
      BY <1>4
    <2> QED
      BY <2>1, <1>5
  <1>7. n = 3 => g[3] = abc
    <2>1. n = 3 => g[3] = then(g[2], S[3])
      BY <1>4
    <2> QED
      BY <2>1, <1>6
  <1>8. FlattenSeq(S) = g[n] /\ (n = 1 \/ n = 2 \/ n = 3)
    <2>1. n \in 1..3
      OBVIOUS
    <2> HIDE DEF n
    <2> QED
      BY <1>1, <2>1
  <1>9. /\ n = 1 => FlattenSeq(S) = a
        /\ n = 2 => FlattenSeq(S) = then(a, b)
        /\ n = 3 => FlattenSeq(S) = then(then(a, b), c)
    <2>1. g[1] = a /\ (n = 2 => g[2] = then(a, b)) /\ (n = 3 => g[3] = then(then(a, b), c))
      BY <1>5, <1>6, <1>7
    <2> HIDE DEF n, a, b, c
    <2> QED
      BY <1>8, <2>1
  <1>10. /\ n = 1 => FlattenSeq(S) = a
         /\ n = 2 => FlattenSeq(S) = a \o b
         /\ n = 3 => FlattenSeq(S) = (a \o b) \o c
    BY <1>9, Zenon DEF then
  <1> QED
    BY <1>8, <1>10, Zenon

\* The framed pieces of a vector, one after the other.
frames(v) == [i \in DOMAIN v |-> framed(v[i])]

\* A sequence followed by nothing.
LEMMA JoinedNone ==
    ASSUME NEW s \in Seq(Nat) PROVE Joined(s, s, <<>>)
  BY DEF Joined

\* Concatenation is associative.
LEMMA JoinedThrice ==
    ASSUME NEW s \in Seq(Nat), NEW t \in Seq(Nat), NEW u \in Seq(Nat)
    PROVE  Joined((s \o t) \o u, s, t \o u)
  <1> DEFINE st == s \o t
             tu == t \o u
             a == st \o u
             b == s \o tu
             k == Len(s)
             l == Len(t)
             m == Len(u)
  <1>1. k \in Nat /\ l \in Nat /\ m \in Nat
    OBVIOUS
  <1>2. st \in Seq(Nat) /\ Len(st) = k + l /\ (\A i \in 1..k : st[i] = s[i]) /\ \A i \in 1..l : st[i + k] = t[i]
    BY ConcatAt, Zenon
  <1>3. tu \in Seq(Nat) /\ Len(tu) = l + m /\ (\A i \in 1..l : tu[i] = t[i]) /\ \A i \in 1..m : tu[i + l] = u[i]
    BY ConcatAt, Zenon
  <1> HIDE DEF st, tu
  <1>4. a \in Seq(Nat) /\ Len(a) = Len(st) + m /\ (\A i \in 1..Len(st) : a[i] = st[i]) /\ \A i \in 1..m : a[i + Len(st)] = u[i]
    BY <1>2, ConcatAt, Zenon
  <1>5. b \in Seq(Nat) /\ Len(b) = k + Len(tu) /\ (\A i \in 1..k : b[i] = s[i]) /\ \A i \in 1..Len(tu) : b[i + k] = tu[i]
    BY <1>3, ConcatAt, Zenon
  <1> HIDE DEF a, b, k, l, m
  <1>6. Len(a) = Len(b) /\ Len(a) = k + l + m
    BY <1>1, <1>2, <1>3, <1>4, <1>5
  <1>7. ASSUME NEW i \in 1..Len(a) PROVE a[i] = b[i]
    <2>1. CASE i \in 1..k
      BY <2>1, <1>1, <1>2, <1>4, <1>5
    <2>2. CASE i \in k+1..k+l
      <3> DEFINE j == i - k
      <3>1. j \in 1..l /\ i = j + k /\ i \in 1..k+l /\ j \in 1..l+m
        BY <2>2, <1>1
      <3> HIDE DEF j
      <3>2. st[i] = t[j] /\ a[i] = st[i] /\ tu[j] = t[j] /\ b[i] = tu[j]
        BY <3>1, <1>2, <1>3, <1>4, <1>5
      <3> QED
        BY <3>2
    <2>3. CASE i \in k+l+1..k+l+m
      <3> DEFINE j == i - (k + l)
                 h == i - k
      <3>1. j \in 1..m /\ i = j + (k + l) /\ h = j + l /\ i = h + k /\ h \in 1..l+m
        BY <2>3, <1>1
      <3> HIDE DEF j, h
      <3>2. a[i] = u[j] /\ tu[h] = u[j] /\ b[i] = tu[h]
        BY <3>1, <1>2, <1>3, <1>4, <1>5, SMTT(30)
      <3> QED
        BY <3>2
    <2> QED
      BY <1>1, <1>6, <2>1, <2>2, <2>3
  <1>8. a = b
    BY <1>4, <1>5, <1>6, <1>7, SameElements
  <1> QED
    BY <1>8, Zenon DEF Joined, a, b, st, tu

\* pae is the number of pieces and then each piece framed.
LEMMA PaeIs ==
    ASSUME NEW v \in Vectors, NEW n, n = Len(v)
    PROVE  /\ pae(v) = le64(n) \o FlattenSeq(frames(v))
           /\ n = 0 => FlattenSeq(frames(v)) = <<>>
           /\ n = 1 => FlattenSeq(frames(v)) = framed(v[1])
           /\ n = 2 => FlattenSeq(frames(v)) = framed(v[1]) \o framed(v[2])
           /\ n = 3 => FlattenSeq(frames(v)) = (framed(v[1]) \o framed(v[2])) \o framed(v[3])
  <1>1. n \in 0..3 /\ DOMAIN v = 1..n
    BY VectorIs
  <1>2. pae(v) = le64(n) \o FlattenSeq(frames(v))
    BY Zenon DEF pae, frames, framed
  <1> DEFINE S == frames(v)
             f(i) == framed(v[i])
  <1>3. S = [i \in 1..n |-> f(i)]
    BY <1>1, Zenon DEF frames
  <1> HIDE DEF S, f
  <1>4. Len(S) = n /\ \A i \in 1..n : S[i] = f(i)
    BY <1>1, <1>3
  <1>5. n = 0 => FlattenSeq(S) = <<>>
    <2>1. SUFFICES ASSUME n = 0 PROVE FlattenSeq(S) = <<>>
      OBVIOUS
    <2>2. FlattenSeq(S) = S
      BY <2>1, <1>4, Zenon DEF FlattenSeq
    <2>3. S = <<>>
      BY <2>1, <1>3
    <2> QED
      BY <2>2, <2>3
  <1>6. n \in 1..3 => \/ n = 1 /\ FlattenSeq(S) = S[1]
                      \/ n = 2 /\ FlattenSeq(S) = S[1] \o S[2]
                      \/ n = 3 /\ FlattenSeq(S) = (S[1] \o S[2]) \o S[3]
    BY <1>4, FlattenIs, Zenon
  <1>7. (n >= 1 => S[1] = f(1)) /\ (n >= 2 => S[2] = f(2)) /\ (n = 3 => S[3] = f(3))
    BY <1>1, <1>4
  <1>8. n = 1 => FlattenSeq(S) = f(1)
    <2>1. n = 1 => n \in 1..3 /\ n # 2 /\ n # 3 /\ S[1] = f(1)
      BY <1>7
    <2> QED
      BY <1>6, <2>1, Zenon
  <1>9. n = 2 => FlattenSeq(S) = f(1) \o f(2)
    <2>1. n = 2 => n \in 1..3 /\ n # 1 /\ n # 3 /\ S[1] = f(1) /\ S[2] = f(2)
      BY <1>7
    <2> QED
      BY <1>6, <2>1, Zenon
  <1>10. n = 3 => FlattenSeq(S) = (f(1) \o f(2)) \o f(3)
    <2>1. n = 3 => n \in 1..3 /\ n # 1 /\ n # 2 /\ S[1] = f(1) /\ S[2] = f(2) /\ S[3] = f(3)
      BY <1>7
    <2> QED
      BY <1>6, <2>1, Zenon
  <1> QED
    BY <1>2, <1>5, <1>8, <1>9, <1>10, Zenon DEF S, f

\* The frames of a vector are byte sequences.
LEMMA FramesIn ==
    ASSUME NEW v \in Vectors
    PROVE  /\ \A i \in 1..Len(v) : framed(v[i]) \in Seq(Nat) /\ v[i] \in Pieces
           /\ FlattenSeq(frames(v)) \in Seq(Nat)
  <1> DEFINE n == Len(v)
             T == FlattenSeq(frames(v))
  <1>1. n \in 0..3 /\ v \in [1..n -> Pieces]
    BY VectorIs
  <1>2. ASSUME NEW i \in 1..n PROVE framed(v[i]) \in Seq(Nat) /\ v[i] \in Pieces
    <2>1. v[i] \in Pieces
      BY <1>1
    <2> QED
      BY <2>1, FramedIs, Zenon
  <1>3. /\ n = 0 => T = <<>>
        /\ n = 1 => T = framed(v[1])
        /\ n = 2 => T = framed(v[1]) \o framed(v[2])
        /\ n = 3 => T = (framed(v[1]) \o framed(v[2])) \o framed(v[3])
    BY PaeIs, Zenon
  <1> HIDE DEF n, T
  <1>4. T \in Seq(Nat)
    <2>1. CASE n = 0
      BY <1>3, <2>1
    <2>2. CASE n = 1
      <3>1. 1 \in 1..n
        BY <2>2
      <3> QED
        BY <1>2, <1>3, <2>2, <3>1, Zenon
    <2>3. CASE n = 2
      <3>1. 1 \in 1..n /\ 2 \in 1..n
        BY <2>3
      <3> QED
        BY <1>2, <1>3, <2>3, <3>1, ConcatAt, Zenon
    <2>4. CASE n = 3
      <3>1. 1 \in 1..n /\ 2 \in 1..n /\ 3 \in 1..n
        BY <2>4
      <3>2. framed(v[1]) \o framed(v[2]) \in Seq(Nat)
        BY <1>2, <3>1, ConcatAt, Zenon
      <3> QED
        BY <1>2, <1>3, <2>4, <3>1, <3>2, ConcatAt, Zenon
    <2> QED
      BY <1>1, <2>1, <2>2, <2>3, <2>4
  <1> QED
    BY <1>2, <1>4 DEF n, T

\* A piece can be read back from its frame.
LEMMA FramedAlike ==
    ASSUME NEW a \in Pieces, NEW b \in Pieces, framed(a) = framed(b) PROVE a = b
  <1>1. framed(a) \in Seq(Nat)
    BY FramedIs, Zenon
  <1>2. Joined(framed(a), framed(a), <<>>)
    BY <1>1, JoinedNone, Zenon
  <1>3. Joined(framed(a), framed(b), <<>>)
    BY <1>2, Zenon
  <1>4. <<>> \in Seq(Nat)
    OBVIOUS
  <1> QED
    BY <1>2, <1>3, <1>4, FramedApart, Zenon

\* A vector can be read back from its encoding.
LEMMA PaeApart ==
    ASSUME NEW v \in Vectors, NEW w \in Vectors, pae(v) = pae(w)
    PROVE  v = w
  <1> DEFINE n == Len(v)
             m == Len(w)
             c == pae(v)
             T == FlattenSeq(frames(v))
             U == FlattenSeq(frames(w))
             f(i) == framed(v[i])
             g(i) == framed(w[i])
  <1>1. n \in 0..3 /\ v \in [1..n -> Pieces]
    BY VectorIs
  <1>2. m \in 0..3 /\ w \in [1..m -> Pieces]
    BY VectorIs
  <1>3. T \in Seq(Nat) /\ \A i \in 1..n : f(i) \in Seq(Nat) /\ v[i] \in Pieces
    BY FramesIn, Zenon
  <1>4. U \in Seq(Nat) /\ \A i \in 1..m : g(i) \in Seq(Nat) /\ w[i] \in Pieces
    BY FramesIn, Zenon
  <1>5. Joined(c, le64(n), T)
    BY PaeIs, Zenon DEF Joined
  <1>6. Joined(c, le64(m), U)
    BY PaeIs, Zenon DEF Joined
  <1>7. n = 1 => T = f(1)
    BY PaeIs, Zenon
  <1>8. n = 2 => T = f(1) \o f(2)
    BY PaeIs, Zenon
  <1>9. n = 3 => T = (f(1) \o f(2)) \o f(3)
    BY PaeIs, Zenon
  <1>10. m = 1 => U = g(1)
    BY PaeIs, Zenon
  <1>11. m = 2 => U = g(1) \o g(2)
    BY PaeIs, Zenon
  <1>12. m = 3 => U = (g(1) \o g(2)) \o g(3)
    BY PaeIs, Zenon
  <1> HIDE DEF n, m, c, T, U
  <1>13. le64(n) \in Seq(Nat) /\ Len(le64(n)) = 2 /\ le64(n)[1] = n
    BY <1>1, Le64
  <1>14. le64(m) \in Seq(Nat) /\ Len(le64(m)) = 2 /\ le64(m)[1] = m
    BY <1>2, Le64
  <1>15. le64(n) = le64(m) /\ T = U
    <2>1. SameLen(le64(n), le64(m))
      BY <1>13, <1>14 DEF SameLen
    <2> QED
      BY <1>3, <1>4, <1>5, <1>6, <1>13, <1>14, <2>1, ConcatApart, Zenon
  <1>16. n = m
    BY <1>13, <1>14, <1>15
  <1>17. SUFFICES \A i \in 1..n : v[i] = w[i]
    BY <1>1, <1>2, <1>16
  <1>19. CASE n = 0
    BY <1>19
  <1>20. CASE n = 1
    <2>1. 1 \in 1..n /\ 1 \in 1..m /\ m = 1
      BY <1>16, <1>20
    <2>2. f(1) \in Seq(Nat) /\ g(1) \in Seq(Nat) /\ v[1] \in Pieces /\ w[1] \in Pieces
      BY <1>3, <1>4, <2>1, Zenon
    <2> HIDE DEF f, g
    <2>3. f(1) = g(1)
      BY <1>7, <1>10, <1>15, <1>20, <2>1, Zenon
    <2>5. v[1] = w[1]
      BY <2>2, <2>3, FramedAlike, Zenon DEF f, g
    <2> QED
      BY <1>20, <2>5
  <1>21. CASE n = 2
    <2>1. 1 \in 1..n /\ 1 \in 1..m /\ 2 \in 1..n /\ 2 \in 1..m /\ m = 2
      BY <1>16, <1>21
    <2>2. /\ f(1) \in Seq(Nat) /\ g(1) \in Seq(Nat) /\ v[1] \in Pieces /\ w[1] \in Pieces
          /\ f(2) \in Seq(Nat) /\ g(2) \in Seq(Nat) /\ v[2] \in Pieces /\ w[2] \in Pieces
      BY <1>3, <1>4, <2>1, Zenon
    <2> HIDE DEF f, g
    <2>3. Joined(T, f(1), f(2))
      BY <1>8, <1>21, Zenon DEF Joined
    <2>4. Joined(T, g(1), g(2))
      BY <1>11, <1>15, <2>1, Zenon DEF Joined
    <2>5. v[1] = w[1] /\ f(2) = g(2)
      <3>1. Joined(T, framed(v[1]), f(2)) /\ Joined(T, framed(w[1]), g(2))
        BY <2>3, <2>4 DEF f, g
      <3> QED
        BY <2>2, <3>1, FramedApart
    <2>7. v[2] = w[2]
      BY <2>2, <2>5, FramedAlike, Zenon DEF f, g
    <2> QED
      BY <1>21, <2>5, <2>7
  <1>22. CASE n = 3
    <2>1. 1 \in 1..n /\ 1 \in 1..m /\ 2 \in 1..n /\ 2 \in 1..m /\ 3 \in 1..n /\ 3 \in 1..m /\ m = 3
      BY <1>16, <1>22
    <2>2. /\ f(1) \in Seq(Nat) /\ g(1) \in Seq(Nat) /\ v[1] \in Pieces /\ w[1] \in Pieces
          /\ f(2) \in Seq(Nat) /\ g(2) \in Seq(Nat) /\ v[2] \in Pieces /\ w[2] \in Pieces
          /\ f(3) \in Seq(Nat) /\ g(3) \in Seq(Nat) /\ v[3] \in Pieces /\ w[3] \in Pieces
      BY <1>3, <1>4, <2>1, Zenon
    <2> HIDE DEF f, g
    <2> DEFINE p == f(2) \o f(3)
               q == g(2) \o g(3)
    <2>3. p \in Seq(Nat) /\ q \in Seq(Nat)
      BY <2>2, ConcatAt, Zenon
    <2>4. Joined(T, f(1), p)
      BY <1>9, <1>22, <2>2, JoinedThrice, Zenon
    <2>5. Joined(T, g(1), q)
      BY <1>12, <1>15, <2>1, <2>2, JoinedThrice, Zenon
    <2>6. Joined(p, f(2), f(3)) /\ Joined(q, g(2), g(3))
      BY Zenon DEF Joined
    <2> HIDE DEF p, q
    <2>7. v[1] = w[1] /\ p = q
      <3>1. Joined(T, framed(v[1]), p) /\ Joined(T, framed(w[1]), q)
        BY <2>4, <2>5 DEF f, g
      <3> QED
        BY <2>2, <2>3, <3>1, FramedApart
    <2>8. v[2] = w[2] /\ f(3) = g(3)
      <3>1. Joined(p, framed(v[2]), f(3)) /\ Joined(p, framed(w[2]), g(3))
        BY <2>6, <2>7, Zenon DEF f, g
      <3> QED
        BY <2>2, <3>1, FramedApart
    <2>10. v[3] = w[3]
      BY <2>2, <2>8, FramedAlike, Zenon DEF f, g
    <2> QED
      BY <1>22, <2>7, <2>8, <2>10
  <1> QED
    BY <1>1, <1>19, <1>20, <1>21, <1>22

\* No two vectors share an encoding.
LEMMA EncodesApart == encodesApart
  <1> DEFINE E == {pae(v) : v \in Vectors}
             f == [v \in Vectors |-> pae(v)]
  <1>1. f \in [Vectors -> E] /\ (\A v \in Vectors : f[v] = pae(v)) /\ \A e \in E : \E v \in Vectors : e = pae(v)
    OBVIOUS
  <1>2. \A v, w \in Vectors : pae(v) = pae(w) => v = w
    BY PaeApart
  <1> HIDE DEF f, E
  <1>3. f \in Injection(Vectors, E)
    BY <1>1, <1>2 DEF Injection, IsInjective
  <1>4. f \in Surjection(Vectors, E)
    <2>1. \A e \in E : \E v \in Vectors : f[v] = e
      BY <1>1, Zenon
    <2> QED
      BY <1>1, <2>1 DEF Surjection
  <1>5. f \in Bijection(Vectors, E)
    BY <1>3, <1>4 DEF Bijection
  <1>6. Cardinality(Vectors) = Cardinality(E)
    BY <1>5, VectorsFinite, FS_Bijection, Zenon DEF ExistsBijection
  <1> QED
    BY <1>6, Zenon DEF encodesApart, E

\* The two codecs and verify() (lic1.ts, lic2.ts, canonical-json.ts), for any
\* kids, records and bindings: exactly what a trusted key issued is accepted, by
\* the backend of that key, and no two contents share an encoding.  No issued kid
\* is the empty string, which the codecs refuse to decode, and the HMAC backend,
\* which refuses a key record, is not registered.
THEOREM CodecsAreExact ==
    ASSUME \A k \in Kids : Named(k), "hs256" \notin Registry
    PROVE  VerifierSpec => []CodecsExact
  <1>1. LedgerInv /\ VerdictInv => CodecsExact
    <2> SUFFICES ASSUME LedgerInv, VerdictInv PROVE CodecsExact
      OBVIOUS
    <2>1. AcceptedWasIssued
      <3> SUFFICES ASSUME focus = "envelopes", NEW e \in accepted
                   PROVE  \E i \in Issued : trusted(i) /\ e.token = tokenOf(i).token
        BY Zenon DEF AcceptedWasIssued
      <3>1. e.token \in EnvelopeTokens /\ Outcome(e.token, e.nowSec, Skew[e.proc], e.pin) = "ok"
        BY DEF VerdictInv, VerdictsGiven, Given, accepted
      <3>2. verifyStart(e.token).ok /\ backendVerify(decodeUnverified(e.token))
        BY <3>1, OutcomeOk, Zenon
      <3> QED
        BY <3>1, <3>2, VerifiedWasIssued, Zenon
    <2>2. IssuedIsAccepted
      <3> SUFFICES ASSUME focus = "envelopes", NEW e \in log,
                          NEW i \in Issued, trusted(i), e.token = tokenOf(i).token
                   PROVE  e.code = "ok"
        BY Zenon DEF IssuedIsAccepted
      <3>1. e.code = Outcome(e.token, e.nowSec, Skew[e.proc], e.pin) /\ e.pin = "none" /\ e.nowSec = 0
        BY DEF VerdictInv, VerdictsGiven, Given
      <3>2. Skew[e.proc] \in Nat
        BY SkewAssumption DEF LedgerInv, LogOrdered
      <3>3. Outcome(tokenOf(i).token, 0, Skew[e.proc], "none") = "ok"
        BY <3>2, IssuedAccepted, Zenon
      <3> QED
        BY <3>1, <3>3, Zenon
    <2>3. BackendMatchesKey
      <3> SUFFICES ASSUME NEW p \in Procs, check[p].pc # "idle"
                   PROVE  LET parts == decodeUnverified(check[p].token) IN
                          /\ parts.alg \in Registry
                          /\ parts.alg = Records[parts.kid] /\ parts.alg = Bindings[parts.kid]
        BY Zenon DEF BackendMatchesKey
      <3>1. verifyStart(check[p].token).ok
        BY DEF VerdictInv, CallsGiven
      <3> QED
        BY <3>1, StartedMatches, Zenon
    <2>4. EncodingIsCanonical
      BY EncodesAlike, Zenon DEF EncodingIsCanonical
    <2>5. PaeInjective
      BY EncodesApart, Zenon DEF PaeInjective
    <2> QED
      BY <2>1, <2>2, <2>3, <2>4, <2>5, Zenon DEF CodecsExact
  <1> QED
    BY <1>1, LedgerInvariant, VerdictInvariant, PTL
=============================================================================
