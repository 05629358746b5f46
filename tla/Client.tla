------------------------------- MODULE Client -------------------------------
(***************************************************************************)
(* The device side: typescript/src/client/{refresh,heartbeat,activate,     *)
(* deactivate,validate,token-store,transport}.ts and the Client class of   *)
(* easy.ts, talking to the issuer over a link that may fail.               *)
(*                                                                         *)
(* One device, one license.  Each call the application makes is a process; *)
(* the heartbeat scheduler is one more.  A store read, a request, its      *)
(* processing by the issuer, its answer and a store write are steps of     *)
(* their own: every one of them is an await in the code.  The issuer is    *)
(* what the handlers of http/client-handlers.ts do with one request, each  *)
(* of their reads a step too (all requests together are IssuerHTTP).  The  *)
(* clock is shared.                                                        *)
(***************************************************************************)
EXTENDS Naturals, FiniteSets

CONSTANTS Null,
          Callers,          \* concurrent application calls
          Beat,             \* the heartbeat scheduler
          Ops,              \* what the application calls
          TTL,              \* tokenTtlSec: exp - iat
          ForceAfter,       \* force_online_after - iat, or Null
          Threshold,        \* proactiveThreshold of refresh, in quarters: the
                            \* default, which Client of easy.ts keeps, is 1
          Skew,             \* skewSec of validate
          GraceWindow,      \* gracePeriodSec
          Timeout,          \* timeoutMs of postJson, 0: none
          IssuerMatchesSDK, \* does the issuer speak activate.ts's and
                            \* deactivate.ts's dialect?  (ActivateApply)
          MaxTime, MaxTokens, MaxSeats, MaxCrashes           \* bounds

ASSUME ClientAssumption ==
    /\ TTL \in Nat \ {0} /\ Skew \in Nat /\ GraceWindow \in Nat /\ Timeout \in Nat
    /\ Threshold \in Nat
    /\ ForceAfter \in (Nat \ {0}) \cup {Null} /\ Null \notin Nat
    /\ Beat \notin Callers
    /\ Ops \subseteq {"refresh", "guard", "activate", "deactivate"}
    /\ IssuerMatchesSDK \in BOOLEAN

Calls == Callers \cup {Beat}

VARIABLES now,
          store,            \* the persisted StoredTokenState
          call,             \* per process: the call in progress
          up,               \* does the link to the issuer work?
          license,          \* the license's effective status at the issuer
          seat,             \* the device's live usage at the issuer, 0: none
          seats, issued,    \* usages and tokens created so far
          revokedAt,        \* auxiliary: when the license was revoked
          crashes

issuerVars == <<license, seat, seats, issued, revokedAt>>
vars == <<now, store, call, up, issuerVars, crashes>>

Time == 0..MaxTime
Token == [n : 1..MaxTokens, iat : Time, usage : 1..MaxSeats]
StoredTokenState == [token : Token \cup {Null}, graceStartSec : Time \cup {Null}]
EMPTY_STATE == [token |-> Null, graceStartSec |-> Null]

\* Statuses of a license; what comes back from postJson: success, an issuer code, or no answer.
LicenseStatus == {"active", "suspended", "revoked", "expired"}
Answer == {"-", "ok", "LicenseRevoked", "LicenseSuspended", "LicenseExpired",
           "SeatLimitExceeded", "TokenExpired", "BadRequest", "no answer"}

Call == [op     : {"idle", "refresh", "guard", "activate", "deactivate",
                   "heartbeat"},
         at     : {"-", "read", "post", "license", "usage", "issue", "answer",
                   "probe", "rollback", "validate", "reread", "write", "clear"},
         pre    : StoredTokenState,      \* Client.refresh's preState
         state  : StoredTokenState,      \* what the call read
         nowSec : Time,
         sentAt : Time,                  \* when the request was sent
         status : LicenseStatus \cup {"-"},  \* the license row its handler read
         usage  : 0..MaxSeats,           \* and the usage row
         answer : Answer,
         fresh  : Token \cup {Null}]     \* the token in the answer

Idle == [op |-> "idle", at |-> "-", pre |-> EMPTY_STATE, state |-> EMPTY_STATE,
         nowSec |-> 0, sentAt |-> 0, status |-> "-", usage |-> 0,
         answer |-> "-", fresh |-> Null]

----------------------------------------------------------------------------
(* Slips a change to the code could introduce; the mutated runs put them   *)
(* in the place of the definition they are named after.                    *)

\* a token for every license row that is there
issueAnswers_NoStatusCheck(status) == {"ok"}

\* the heartbeat keeps the token when the issuer says it was revoked
staleCodes_None == {}

\* entering grace also when the deadline has not passed
mayEnterGrace_Proactive(c) == TRUE

\* every unanswered forced refresh starts the window again
mayEnterGrace_Again(c) ==
    /\ ForceAfter # Null /\ GraceWindow # 0
    /\ call[c].state.token.iat + ForceAfter <= call[c].nowSec

\* a heartbeat does not end grace
clearsGrace_Never(c) == FALSE

----------------------------------------------------------------------------
(* Claims of a token and the offline checks on them.                       *)

exp(t) == t.iat + TTL
forced(t, nowSec) == ForceAfter # Null /\ t.iat + ForceAfter <= nowSec

\* remaining / lifetime < threshold, and an expired token is due as well
shouldProactiveRefresh(t, nowSec) ==
    /\ Threshold > 0
    /\ exp(t) <= nowSec \/ 4 * (exp(t) - nowSec) < Threshold * TTL

\* validate(), after the cryptographic checks
validate(t, nowSec) ==
    IF exp(t) + Skew < nowSec THEN "TokenExpired"
    ELSE IF forced(t, nowSec) THEN "RequiresOnlineRefresh"
    ELSE "ok"

graceExpired(s, nowSec) ==
    /\ s.graceStartSec # Null /\ GraceWindow > 0
    /\ nowSec > s.graceStartSec + GraceWindow

----------------------------------------------------------------------------
(* The issuer's answers.                                                   *)

\* The code a license status is refused with.
refusal(status) == CASE status = "suspended" -> "LicenseSuspended"
                     [] status = "revoked" -> "LicenseRevoked"
                     [] status = "expired" -> "LicenseExpired"

\* issueToken judges the row its request read by the clock of this moment: a
\* row that was active may have run out since.
issueAnswers(status) ==
    IF status # "active" THEN {refusal(status)}
    ELSE {"ok"} \cup (IF license = "active" THEN {} ELSE {"LicenseExpired"})

activateAnswers ==
    IF license # "active" THEN {refusal(license)}
    ELSE IF seat # 0 THEN {"ok"}
    ELSE IF seats = MaxSeats THEN {"SeatLimitExceeded"}              \* bound
    ELSE {"ok", "SeatLimitExceeded"}

\* ISSUER_CODE_MAP has no TokenExpired and no BadRequest, and a request that
\* got no usable answer is IssuerUnreachable in the first place.
fromIssuerCode(code) ==
    CASE code \in {"TokenExpired", "BadRequest", "no answer"} -> "IssuerUnreachable"
      [] code = "LicenseExpired" -> "TokenExpired"
      [] OTHER -> code

----------------------------------------------------------------------------
at(c, ops, label) == call[c].op \in ops /\ call[c].at = label
goto(c, label) == call' = [call EXCEPT ![c].at = label]
return(c) == call' = [call EXCEPT ![c] = Idle]

\* Bound: calls that may yet be answered with a token.
tokenBound ==
    issued + Cardinality({c \in Calls : call[c].op \in {"refresh", "guard", "activate"}})
        < MaxTokens

\* The first store.read of Client.refresh and Client.guard (which throws
\* NoToken here), and the instant both hand on.
Begin(c, op) ==
    /\ call[c].op = "idle" /\ op \in Ops \cap {"refresh", "guard"}
    /\ op = "guard" => store.token # Null
    /\ tokenBound
    /\ call' = [call EXCEPT ![c] = [Idle EXCEPT !.op = op, !.at = "read",
                     !.nowSec = now,
                     !.pre = IF op = "refresh" THEN store ELSE EMPTY_STATE]]
    /\ UNCHANGED <<store, issuerVars>>

\* The primitive refresh() is over without an exception.
refreshReturns(c, outcome) ==
    IF call[c].op = "guard"
    THEN call' = [call EXCEPT ![c] = [Idle EXCEPT !.op = "guard", !.at = "validate"]]
    ELSE IF outcome \in {"grace-entered", "grace-continued"} THEN goto(c, "probe")
    ELSE return(c)

\* refresh() up to its request: NoToken, GraceExpired, not-due, or post.
RefreshRead(c) ==
    LET nowSec == call[c].nowSec IN
    /\ at(c, {"refresh", "guard"}, "read")
    /\ IF store.token = Null \/ graceExpired(store, nowSec) THEN return(c)
       ELSE IF /\ ~forced(store.token, nowSec)
               /\ ~shouldProactiveRefresh(store.token, nowSec)
               /\ store.graceStartSec = Null
       THEN refreshReturns(c, "not-due")
       ELSE call' = [call EXCEPT ![c].at = "post", ![c].state = store,
                                 ![c].sentAt = now]
    /\ UNCHANGED <<store, issuerVars>>

\* handleUnreachable: the conditions under which it writes a grace start.
mayEnterGrace(c) == /\ forced(call[c].state.token, call[c].nowSec)
                    /\ GraceWindow # 0
                    /\ call[c].state.graceStartSec = Null

RefreshApply(c) ==
    LET r == call[c]
        code == fromIssuerCode(r.answer) IN
    /\ at(c, {"refresh", "guard"}, "answer")
    /\ UNCHANGED issuerVars
    /\ \/ /\ code = "ok"
          /\ store' = [token |-> r.fresh, graceStartSec |-> Null]
          /\ refreshReturns(c, "refreshed")
       \/ /\ code = "IssuerUnreachable" /\ mayEnterGrace(c)
          /\ store' = [token |-> r.state.token, graceStartSec |-> r.nowSec]
          /\ refreshReturns(c, "grace-entered")
       \/ /\ code = "IssuerUnreachable" /\ ~mayEnterGrace(c)
          /\ IF ~forced(r.state.token, r.nowSec) THEN refreshReturns(c, "not-due")
             ELSE IF GraceWindow = 0 THEN return(c)     \* RequiresOnlineRefresh
             ELSE refreshReturns(c, "grace-continued")
          /\ UNCHANGED store
       \/ /\ code \notin {"ok", "IssuerUnreachable"}
          /\ return(c)                                  \* throw err
          /\ UNCHANGED store

\* Client.refresh: GET /health tells an outage from a broken route.
ProbeHealth(c) ==
    /\ at(c, {"refresh"}, "probe")
    /\ \/ return(c)                                     \* not healthy
       \/ /\ up
          /\ IF call[c].state.graceStartSec = Null      \* grace-entered
             THEN goto(c, "rollback") ELSE return(c)
    /\ UNCHANGED <<store, issuerVars>>

Rollback(c) ==
    LET r == call[c] IN
    /\ at(c, {"refresh"}, "rollback")
    /\ store' = [token |-> IF r.pre.token # Null THEN r.pre.token ELSE r.state.token,
                 graceStartSec |-> r.pre.graceStartSec]
    /\ return(c)
    /\ UNCHANGED issuerVars

\* guard's last step re-reads the store and validates; it changes nothing.
GuardValidate(c) ==
    /\ at(c, {"guard"}, "validate")
    /\ return(c)
    /\ UNCHANGED <<store, issuerVars>>

----------------------------------------------------------------------------
(* activate() and deactivate().                                            *)

\* Neither reads the store before its request.
BeginPost(c, op) ==
    /\ call[c].op = "idle" /\ op \in Ops \cap {"activate", "deactivate"}
    /\ op = "activate" => tokenBound
    /\ call' = [call EXCEPT ![c] = [Idle EXCEPT !.op = op, !.at = "post",
                                                !.sentAt = now]]
    /\ UNCHANGED <<store, issuerVars>>

\* activate() insists on usage_id and license_id, which handleActivate does
\* not send.
ActivateApply(c) ==
    /\ at(c, {"activate"}, "answer")
    /\ IF call[c].answer = "ok" /\ IssuerMatchesSDK
       THEN store' = [token |-> call[c].fresh, graceStartSec |-> Null]
       ELSE UNCHANGED store
    /\ return(c)
    /\ UNCHANGED issuerVars

DeactivateApply(c) ==
    /\ at(c, {"deactivate"}, "answer")
    /\ IF call[c].answer \in {"ok", "LicenseRevoked"} THEN store' = EMPTY_STATE
       ELSE UNCHANGED store
    /\ return(c)
    /\ UNCHANGED issuerVars

----------------------------------------------------------------------------
(* The heartbeat: tickOnce, one tick at a time (#inflight).                *)

HeartbeatRead(c) ==
    /\ c = Beat /\ call[c].op = "idle" /\ store.token # Null
    /\ call' = [call EXCEPT ![c] = [Idle EXCEPT !.op = "heartbeat", !.at = "post",
                                                !.state.token = store.token,
                                                !.sentAt = now]]
    /\ UNCHANGED <<store, issuerVars>>

\* Codes upon which the heartbeat drops the stored token.
staleCodes == {"LicenseRevoked", "LicenseSuspended"}

HeartbeatAnswered(c) ==
    /\ at(c, {"heartbeat"}, "answer")
    /\ IF call[c].answer = "ok" \/ call[c].answer \in staleCodes
       THEN goto(c, "reread") ELSE return(c)
    /\ UNCHANGED <<store, issuerVars>>

clearsGrace(c) == store.graceStartSec # Null

\* The "CAS": read again, compare, and write in a later step.
HeartbeatReread(c) ==
    /\ at(c, {"heartbeat"}, "reread")
    /\ IF store.token # call[c].state.token THEN return(c)
       ELSE IF call[c].answer # "ok" THEN goto(c, "clear")
       ELSE IF clearsGrace(c) THEN goto(c, "write")
       ELSE return(c)
    /\ UNCHANGED <<store, issuerVars>>

HeartbeatWrite(c) ==
    /\ \/ /\ at(c, {"heartbeat"}, "write")
          /\ store' = [token |-> call[c].state.token, graceStartSec |-> Null]
       \/ /\ at(c, {"heartbeat"}, "clear")
          /\ store' = EMPTY_STATE
    /\ return(c)
    /\ UNCHANGED issuerVars

----------------------------------------------------------------------------
(* The link and the issuer's side of a request.                            *)

\* postJson has given up: its timer aborts a request that is not answered.
mayTimeOut(c) == Timeout > 0 /\ now >= call[c].sentAt + Timeout
tooLate(c) == Timeout > 0 /\ now > call[c].sentAt + Timeout

\* The handler is done.
responds(c, a, t) ==
    call' = [call EXCEPT ![c] = [@ EXCEPT
        !.at = "answer", !.sentAt = 0, !.status = "-", !.usage = 0,
        !.answer = IF tooLate(c) THEN "no answer" ELSE a,
        !.fresh = IF tooLate(c) THEN Null ELSE t]]
answered(c, a) == responds(c, a, Null)

\* verifyClientToken: /refresh takes a token that ran out within the TTL.
ServeVerify(c) ==
    LET t == call[c].state.token IN
    /\ at(c, {"refresh", "guard", "heartbeat"}, "post") /\ up
    /\ IF now >= exp(t) + (IF call[c].op = "heartbeat" THEN 0 ELSE TTL)
       THEN answered(c, "TokenExpired") ELSE goto(c, "license")
    /\ UNCHANGED <<store, issuerVars>>

ServeLicense(c) ==
    /\ at(c, {"refresh", "guard", "heartbeat"}, "license")
    /\ IF call[c].op = "heartbeat" /\ license \in {"revoked", "suspended"}
       THEN answered(c, refusal(license))
       ELSE call' = [call EXCEPT ![c].at = "usage", ![c].status = license]
    /\ UNCHANGED <<store, issuerVars>>

ServeUsage(c) ==
    LET u == call[c].state.token.usage IN
    /\ at(c, {"refresh", "guard", "heartbeat"}, "usage")
    /\ IF u # seat THEN answered(c, "LicenseRevoked")
       ELSE IF call[c].op = "heartbeat" THEN answered(c, "ok")
       ELSE call' = [call EXCEPT ![c].at = "issue", ![c].usage = u]
    /\ UNCHANGED <<store, issuerVars>>

\* registerUsage: the device's live seat, or a new one.
ServeActivate(c) ==
    /\ at(c, {"activate"}, "post") /\ up
    /\ \E a \in activateAnswers :
         IF a # "ok" THEN answered(c, a) /\ UNCHANGED <<seat, seats>>
         ELSE /\ IF seat # 0 THEN UNCHANGED <<seat, seats>>
                 ELSE seat' = seats + 1 /\ seats' = seats + 1
              /\ call' = [call EXCEPT ![c].at = "issue", ![c].status = license,
                                      ![c].usage = seat']
    /\ UNCHANGED <<store, license, issued, revokedAt>>

\* issueToken reads the clock, checks the row the handler holds and signs.
issueToken(c) ==
    /\ at(c, {"refresh", "guard", "activate"}, "issue")
    /\ \E a \in issueAnswers(call[c].status) :
         IF a # "ok" THEN answered(c, a) /\ UNCHANGED issued
         ELSE /\ issued' = issued + 1
              /\ responds(c, "ok", [n |-> issued + 1, iat |-> now,
                                    usage |-> call[c].usage])
    /\ UNCHANGED <<store, license, seat, seats, revokedAt>>

\* deactivate() sends {license_key, fingerprint, reason}; handleDeactivate
\* wants {token, reason} and answers 400.
ServeDeactivate(c) ==
    /\ at(c, {"deactivate"}, "post") /\ up
    /\ IF IssuerMatchesSDK THEN answered(c, "ok") /\ seat' = 0
       ELSE answered(c, "BadRequest") /\ UNCHANGED seat
    /\ UNCHANGED <<store, license, seats, issued, revokedAt>>

\* Transport failure, timeout, 5xx or garbled body: the request may or may
\* not have been processed, and what is left of it changes nothing.
Lose(c) ==
    /\ \/ call[c].at \in {"post", "license", "usage", "issue"} /\ (~up \/ mayTimeOut(c))
       \/ call[c].at = "answer" /\ ~up
    /\ call' = [call EXCEPT ![c] = [@ EXCEPT
           !.at = "answer", !.sentAt = 0, !.status = "-", !.usage = 0,
           !.answer = "no answer", !.fresh = Null]]
    /\ UNCHANGED <<store, issuerVars>>

----------------------------------------------------------------------------
(* The environment: the issuer's admin, sweeps, the clock, the process.    *)

LicenseChange ==
    /\ license # "revoked"
    /\ license' \in LicenseStatus \ {license}
    /\ revokedAt' = IF license' = "revoked" THEN now ELSE Null
    /\ UNCHANGED <<now, store, call, up, seat, seats, issued, crashes>>

SeatRevoked == /\ seat # 0 /\ seat' = 0
               /\ UNCHANGED <<now, store, call, up, license, seats, issued,
                              revokedAt, crashes>>

LinkChange == /\ up' = ~up
              /\ UNCHANGED <<now, store, call, issuerVars, crashes>>

Tick == /\ now < MaxTime /\ now' = now + 1
        /\ UNCHANGED <<store, call, up, issuerVars, crashes>>

\* The device's process dies and restarts; the store file is renamed into
\* place, so it holds the last complete write.
Crash == /\ crashes < MaxCrashes /\ crashes' = crashes + 1
         /\ call' = [c \in Calls |-> Idle]
         /\ UNCHANGED <<now, store, up, issuerVars>>

\* A device that is not activated, or one that was, at time 0.
Init ==
    /\ now = 0 /\ up = TRUE /\ license = "active" /\ revokedAt = Null
    /\ call = [c \in Calls |-> Idle] /\ crashes = 0
    /\ \/ store = EMPTY_STATE /\ seat = 0 /\ seats = 0 /\ issued = 0
       \/ /\ store = [token |-> [n |-> 1, iat |-> 0, usage |-> 1], graceStartSec |-> Null]
          /\ seat = 1 /\ seats = 1 /\ issued = 1

\* What a call in progress does next, whatever it is waiting for.
Continue(c) ==
    /\ \/ RefreshRead(c) \/ RefreshApply(c) \/ ProbeHealth(c) \/ Rollback(c)
       \/ GuardValidate(c) \/ ActivateApply(c) \/ DeactivateApply(c)
       \/ HeartbeatAnswered(c) \/ HeartbeatReread(c) \/ HeartbeatWrite(c)
       \/ ServeVerify(c) \/ ServeLicense(c) \/ ServeUsage(c)
       \/ ServeActivate(c) \/ issueToken(c) \/ ServeDeactivate(c) \/ Lose(c)
    /\ UNCHANGED <<now, up, crashes>>

Start(c) == /\ c \in Callers
            /\ \E op \in Ops : Begin(c, op) \/ BeginPost(c, op)
            /\ UNCHANGED <<now, up, crashes>>

Interval == HeartbeatRead(Beat) /\ UNCHANGED <<now, up, crashes>>

Next == \/ \E c \in Calls : Continue(c) \/ Start(c)
        \/ Interval
        \/ LicenseChange \/ SeatRevoked \/ LinkChange \/ Tick \/ Crash

Spec == Init /\ [][Next]_vars

\* Promises settle, fetch has a timeout and setInterval fires; nobody owes
\* the application another call, the device a working link or a tick.
FairSpec == Spec /\ WF_vars(Interval) /\ \A c \in Calls : WF_vars(Continue(c))

----------------------------------------------------------------------------
\* The store, the calls and the issuer's rows are well formed.
ClientTypeOK ==
    /\ now \in Time /\ up \in BOOLEAN /\ crashes \in 0..MaxCrashes
    /\ store \in StoredTokenState
    /\ call \in [Calls -> Call]
    /\ license \in LicenseStatus
    /\ seat \in 0..MaxSeats /\ seats \in 0..MaxSeats /\ issued \in 0..MaxTokens
    /\ revokedAt \in Time \cup {Null}

\* token-store.ts: no "token without its matching grace state".  Whatever
\* calls overlap, roll back or die, a stored grace start belongs to the
\* stored token: it lies past that token's force_online_after.
GracePastDeadline ==
    store.graceStartSec # Null
        => store.token # Null /\ forced(store.token, store.graceStartSec)

\* The grace window is not extended from inside: with one application call
\* at a time next to the heartbeat, a stored grace start never moves to a
\* later instant (a rollback may bring an earlier one back).
GraceNotExtended ==
    [][store.graceStartSec # Null /\ store'.graceStartSec # Null
         => store'.graceStartSec <= store.graceStartSec]_vars

\* How long a revoked license can be used offline.  A handler that read the
\* license before the revocation still signs a token after it, but a device
\* only takes one its request was answered with in time.  So, answers in
\* flight, retries and rollbacks included, validate() accepts nothing once
\* force_online_after seconds (or, without one, the token's lifetime and the
\* skew) and the request timeout have passed since the revocation.
RevokedUseIsBounded ==
    (/\ Timeout > 0 /\ license = "revoked"
     /\ store.token # Null /\ validate(store.token, now) = "ok")
        => /\ now <= revokedAt + Timeout + TTL + Skew
           /\ ForceAfter # Null => now < revokedAt + Timeout + ForceAfter

expired(t) == now >= exp(t)

\* Heartbeats bring a revocation home: once the link stays up, a device whose
\* license is revoked ends up without a token for good, or with one that has
\* run out.
RevocationSticks ==
    (<>[]up /\ <>(license = "revoked"))
        => <>[](store.token = Null \/ expired(store.token))

\* Heartbeats end grace: once the link stays up and the license usable, grace
\* ends (also after GraceExpired), unless the token has run out.
OutageEnds ==
    (<>[]up /\ <>[](license = "active"))
        => []<>(store.graceStartSec = Null \/ expired(store.token))

\* guard: in grace "fall through to validate against the stored token (still
\* valid offline within the grace window)".
GuardUsableInGrace ==
    /\ store.graceStartSec # Null /\ ~graceExpired(store, now)
    /\ ~expired(store.token)
    => validate(store.token, now) = "ok"

\* tickOnce: "a parallel Refresh that wrote a fresh token isn't clobbered".
HeartbeatNeverClobbers ==
    [][(\E c \in Calls : call[c].op = "heartbeat" /\ call'[c] # call[c])
         => \/ store' = store
            \/ store.token = call[Beat].state.token]_vars

\* deactivate: "clears its local store so a subsequent validate() returns
\* NoToken": only an activation puts a token into an empty store.
OnlyActivateFillsStore ==
    [][store.token = Null /\ store'.token # Null
         => \E c \in Calls : at(c, {"activate"}, "answer")]_vars

\* refresh: an issuer error "is an authoritative response we must NOT mask
\* with grace".  Grace is entered only when no answer came.
GraceOnlyWithoutAnswer ==
    [][store.graceStartSec = Null /\ store'.graceStartSec # Null
         => \E c \in Callers : call[c].answer = "no answer" /\ call'[c] # call[c]]_vars

\* activate: "On success, persists the returned token": an activation the
\* issuer granted and answered ends with that token in the store.
ActivationPersists ==
    [][\A c \in Callers :
         at(c, {"activate"}, "answer") /\ call[c].answer = "ok"
         /\ call'[c].op = "idle" /\ crashes' = crashes
         => store'.token = call[c].fresh]_vars
=============================================================================
