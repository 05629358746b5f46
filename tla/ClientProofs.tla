---------------------------- MODULE ClientProofs ----------------------------
(***************************************************************************)
(* Theorems about Client, for any number of concurrent application calls   *)
(* (one, where a theorem says so), any lifetimes, windows and skew, and    *)
(* with or without a force_online_after.  None of them uses the bounds     *)
(* MaxTime, MaxTokens, MaxSeats and MaxCrashes.                            *)
(***************************************************************************)
EXTENDS Client, TLAPS

\* The types without the bounds.
TokenT == [n : Nat, iat : Nat, usage : Nat]
StateT == [token : TokenT \cup {Null}, graceStartSec : Nat \cup {Null}]
CallT == [op     : {"idle", "refresh", "guard", "activate", "deactivate",
                    "heartbeat"},
          at     : {"-", "read", "post", "license", "usage", "issue", "answer",
                    "probe", "rollback", "validate", "reread", "write", "clear"},
          pre    : StateT,
          state  : StateT,
          nowSec : Nat,
          sentAt : Nat,
          status : LicenseStatus \cup {"-"},
          usage  : Nat,
          answer : Answer,
          fresh  : TokenT \cup {Null}]

\* From the request to its answer.
Asking == {"post", "license", "usage", "issue", "answer"}

\* GracePastDeadline, of any copy of the store.
GraceFits(s) == s.graceStartSec # Null
                  => s.token # Null /\ forced(s.token, s.graceStartSec)

\* The last instant at which a handler can have read a license that is not
\* revoked.  A token the device has was signed for such a reading, at most
\* Timeout seconds after its request was sent.
Last == IF license = "revoked" THEN revokedAt ELSE now
IssuedBy(t, b) == Timeout > 0 /\ t # Null => t.iat <= b + Timeout

StoreOK(s, b) == s \in StateT /\ GraceFits(s) /\ IssuedBy(s.token, b)

\* A call that is past its first read holds the token it read, and the copies
\* of the store it may write back are sound.  A request whose handler found
\* the license active was sent before the license was revoked.
CallOK(r, b) ==
    /\ r \in CallT
    /\ r.op \in {"refresh", "guard", "heartbeat"} /\ r.at \notin {"read", "validate"}
         => r.state.token # Null
    /\ StoreOK(r.pre, b)
    /\ IssuedBy(r.state.token, b)
    /\ IssuedBy(r.fresh, b)
    /\ r.at \in {"usage", "issue"}
         => r.status # "-" /\ (r.status = "active" => r.sentAt <= b)

IssuerOK ==
    /\ now \in Nat /\ seat \in Nat /\ seats \in Nat /\ issued \in Nat
    /\ license \in LicenseStatus
    /\ license = "revoked" => revokedAt \in Nat /\ revokedAt <= now

ClientInv == /\ IssuerOK
             /\ StoreOK(store, Last)
             /\ \A c \in Calls : CallOK(call[c], Last) /\ call[c].sentAt <= now
             /\ call \in [Calls -> CallT]

----------------------------------------------------------------------------
LEMMA LastType == ASSUME IssuerOK PROVE Last \in Nat
BY DEF IssuerOK, Last

\* The empty store and the idle call hold no token.
LEMMA EmptyOK ==
    ASSUME NEW b \in Nat
    PROVE  /\ EMPTY_STATE \in StateT /\ StoreOK(EMPTY_STATE, b)
           /\ Idle \in CallT /\ CallOK(Idle, b) /\ Idle.sentAt = 0
<1>1. EMPTY_STATE \in StateT
  BY DEF EMPTY_STATE, StateT
<1>2. StoreOK(EMPTY_STATE, b)
  BY <1>1 DEF EMPTY_STATE, StoreOK, GraceFits, IssuedBy
<1>3. Idle \in CallT
  BY <1>1 DEF Idle, CallT, Answer
<1> QED
  BY <1>1, <1>2, <1>3 DEF CallOK, Idle, EMPTY_STATE, IssuedBy

\* Time only helps: what was issued by b was issued by any later instant.
LEMMA LaterOK ==
    ASSUME NEW b \in Nat, NEW d \in Nat, b <= d
    PROVE  /\ \A t \in TokenT \cup {Null} : IssuedBy(t, b) => IssuedBy(t, d)
           /\ \A s : StoreOK(s, b) => StoreOK(s, d)
           /\ \A r : CallOK(r, b) => CallOK(r, d)
<1>1. \A t \in TokenT \cup {Null} : IssuedBy(t, b) => IssuedBy(t, d)
  BY ClientAssumption DEF TokenT, IssuedBy
<1>2. ASSUME NEW s, StoreOK(s, b) PROVE StoreOK(s, d)
  BY <1>1, <1>2 DEF StoreOK, StateT
<1>3. ASSUME NEW r, CallOK(r, b) PROVE CallOK(r, d)
  BY <1>1, <1>2, <1>3 DEF CallOK, CallT, StateT
<1> QED
  BY <1>1, <1>2, <1>3

\* A step of call c alone, under an unchanged or later Last.
LEMMA CallStep ==
    ASSUME ClientInv, IssuerOK', Last <= Last', StoreOK(store', Last'),
           UNCHANGED now, NEW c \in Calls, call' = [call EXCEPT ![c] = call'[c]],
           CallOK(call'[c], Last'), call'[c].sentAt <= now
    PROVE  ClientInv'
<1>1. Last \in Nat /\ Last' \in Nat
  BY LastType DEF ClientInv, IssuerOK, Last
<1>2. \A d \in Calls : CallOK(call[d], Last')
  BY <1>1, LaterOK DEF ClientInv
<1>3. call' \in [Calls -> CallT]
  BY DEF ClientInv, CallOK
<1>4. \A d \in Calls : CallOK(call'[d], Last') /\ call'[d].sentAt <= now'
  BY <1>2 DEF ClientInv
<1> QED
  BY <1>3, <1>4 DEF ClientInv

\* A step in which no call moves.
LEMMA EnvStep ==
    ASSUME ClientInv, IssuerOK', Last <= Last', now <= now', UNCHANGED <<store, call>>
    PROVE  ClientInv'
<1>1. Last \in Nat /\ Last' \in Nat
  BY LastType DEF ClientInv, IssuerOK, Last
<1>2. \A d \in Calls : CallOK(call[d], Last')
  BY <1>1, LaterOK DEF ClientInv
<1>3. StoreOK(store, Last')
  BY <1>1, LaterOK DEF ClientInv
<1>4. ASSUME NEW d \in Calls PROVE call[d].sentAt <= now'
  <2>1. call[d].sentAt \in Nat /\ call[d].sentAt <= now /\ now \in Nat /\ now' \in Nat
    BY DEF ClientInv, CallT, IssuerOK
  <2> QED
    BY <2>1
<1> QED
  BY <1>2, <1>3, <1>4 DEF ClientInv

\* Nothing at the issuer or on the clock moves.
Quiet == UNCHANGED <<now, issuerVars>>

LEMMA QuietLast ==
    ASSUME ClientInv, Quiet
    PROVE  IssuerOK' /\ Last' = Last /\ Last \in Nat /\ Last <= Last'
BY LastType DEF ClientInv, IssuerOK, Last, Quiet, issuerVars

LEMMA QuietStep ==
    ASSUME ClientInv, Quiet, StoreOK(store', Last), NEW c \in Calls,
           call' = [call EXCEPT ![c] = call'[c]], CallOK(call'[c], Last),
           call'[c].sentAt <= now
    PROVE  ClientInv'
BY QuietLast, CallStep DEF Quiet

\* The call returns, or only moves to its next statement.
LEMMA ReturnOK ==
    ASSUME ClientInv, NEW c \in Calls, return(c)
    PROVE  /\ call' = [call EXCEPT ![c] = call'[c]] /\ CallOK(call'[c], Last)
           /\ call'[c].sentAt <= now
<1>1. call'[c] = Idle /\ call' = [call EXCEPT ![c] = call'[c]]
  BY DEF ClientInv, return
<1> QED
  BY <1>1, EmptyOK, LastType DEF ClientInv, IssuerOK

LEMMA GotoOK ==
    ASSUME ClientInv, NEW c \in Calls,
           NEW label \in {"probe", "rollback", "reread", "write", "clear"},
           goto(c, label), call[c].state.token # Null
    PROVE  /\ call' = [call EXCEPT ![c] = call'[c]] /\ CallOK(call'[c], Last)
           /\ call'[c].sentAt <= now
<1> DEFINE r == [call[c] EXCEPT !.at = label]
<1>1. CallOK(call[c], Last) /\ call[c] \in CallT
  BY DEF ClientInv
<1>2. call'[c] = r /\ call' = [call EXCEPT ![c] = call'[c]]
  BY DEF ClientInv, goto
<1>3. r \in CallT
  BY <1>1 DEF CallT
<1>4. /\ r.op = call[c].op /\ r.pre = call[c].pre /\ r.state = call[c].state
      /\ r.fresh = call[c].fresh /\ r.sentAt = call[c].sentAt /\ r.at = label
  BY <1>1 DEF CallT
<1> HIDE DEF r
<1> QED
  BY <1>1, <1>2, <1>3, <1>4 DEF CallOK, ClientInv

LEMMA RefreshReturnsOK ==
    ASSUME ClientInv, NEW c \in Calls, NEW outcome, refreshReturns(c, outcome),
           call[c].state.token # Null \/ outcome = "not-due"
    PROVE  /\ call' = [call EXCEPT ![c] = call'[c]] /\ CallOK(call'[c], Last)
           /\ call'[c].sentAt <= now
<1>1. CASE return(c)
  BY <1>1, ReturnOK
<1>2. CASE goto(c, "probe") /\ outcome # "not-due"
  BY <1>2, GotoOK
<1>3. CASE call' = [call EXCEPT ![c] = [Idle EXCEPT !.op = "guard", !.at = "validate"]]
  <2> DEFINE r == [Idle EXCEPT !.op = "guard", !.at = "validate"]
  <2>1. call'[c] = r /\ call' = [call EXCEPT ![c] = call'[c]]
    BY <1>3 DEF ClientInv
  <2>2. CallOK(Idle, Last) /\ Idle \in CallT
    BY EmptyOK, LastType DEF ClientInv
  <2>3. r \in CallT
    BY <2>2 DEF CallT
  <2>4. /\ r.at = "validate" /\ r.pre = Idle.pre /\ r.state = Idle.state
        /\ r.fresh = Idle.fresh /\ r.sentAt = 0
    BY DEF Idle
  <2> HIDE DEF r
  <2> QED
    BY <2>1, <2>2, <2>3, <2>4 DEF CallOK, ClientInv, IssuerOK
<1> QED
  BY <1>1, <1>2, <1>3 DEF refreshReturns

----------------------------------------------------------------------------
(* One lemma per step.                                                     *)

\* The first store reads, and the requests that read nothing.
LEMMA BeginKeeps ==
    ASSUME ClientInv, NEW c \in Calls, NEW op, Begin(c, op), Quiet
    PROVE  ClientInv'
<1> DEFINE pre == IF op = "refresh" THEN store ELSE EMPTY_STATE
           r == [Idle EXCEPT !.op = op, !.at = "read", !.nowSec = now, !.pre = pre]
<1>1. /\ CallOK(Idle, Last) /\ Idle \in CallT /\ StoreOK(EMPTY_STATE, Last)
      /\ EMPTY_STATE \in StateT
  BY EmptyOK, LastType DEF ClientInv
<1>2. StoreOK(pre, Last) /\ pre \in StateT /\ now \in Nat
  BY <1>1 DEF ClientInv, StoreOK, IssuerOK
<1>3. op \in {"refresh", "guard"}
  BY DEF Begin
<1>4. call'[c] = r /\ call' = [call EXCEPT ![c] = call'[c]] /\ store' = store
  BY DEF ClientInv, Begin
<1> HIDE DEF pre
<1>5. r \in CallT
  BY <1>1, <1>2, <1>3 DEF CallT
<1>6. /\ r.at = "read" /\ r.pre = pre /\ r.state = Idle.state
      /\ r.fresh = Idle.fresh /\ r.sentAt = 0
  BY DEF Idle
<1> HIDE DEF r
<1>7. CallOK(r, Last)
  BY <1>1, <1>2, <1>5, <1>6 DEF CallOK
<1> QED
  BY <1>2, <1>4, <1>6, <1>7, QuietStep DEF ClientInv

LEMMA BeginPostKeeps ==
    ASSUME ClientInv, NEW c \in Calls, NEW op, BeginPost(c, op), Quiet
    PROVE  ClientInv'
<1> DEFINE r == [Idle EXCEPT !.op = op, !.at = "post", !.sentAt = now]
<1>1. CallOK(Idle, Last) /\ Idle \in CallT /\ now \in Nat
  BY EmptyOK, LastType DEF ClientInv, IssuerOK
<1>2. op \in {"activate", "deactivate"}
  BY DEF BeginPost
<1>3. call'[c] = r /\ call' = [call EXCEPT ![c] = call'[c]] /\ store' = store
  BY DEF ClientInv, BeginPost
<1>4. r \in CallT
  BY <1>1, <1>2 DEF CallT
<1>5. /\ r.op = op /\ r.pre = Idle.pre /\ r.state = Idle.state
      /\ r.fresh = Idle.fresh /\ r.sentAt = now /\ r.at = "post"
  BY DEF Idle
<1> HIDE DEF r
<1>6. CallOK(r, Last)
  BY <1>1, <1>2, <1>4, <1>5 DEF CallOK
<1> QED
  BY <1>1, <1>3, <1>5, <1>6, QuietStep DEF ClientInv

LEMMA HeartbeatReadKeeps ==
    ASSUME ClientInv, HeartbeatRead(Beat), Quiet
    PROVE  ClientInv'
<1> DEFINE c == Beat
           r == [Idle EXCEPT !.op = "heartbeat", !.at = "post",
                             !.state.token = store.token, !.sentAt = now]
<1>1. CallOK(Idle, Last) /\ Idle \in CallT /\ c \in Calls /\ now \in Nat
  BY EmptyOK, LastType DEF ClientInv, Calls, IssuerOK
<1>2. store \in StateT /\ IssuedBy(store.token, Last) /\ store.token # Null
  BY DEF ClientInv, StoreOK, HeartbeatRead
<1>3. call'[c] = r /\ call' = [call EXCEPT ![c] = call'[c]] /\ store' = store
  BY <1>1 DEF ClientInv, HeartbeatRead
<1>4. r \in CallT
  BY <1>1, <1>2 DEF CallT, StateT
<1>5. /\ r.pre = Idle.pre /\ r.state.token = store.token /\ r.fresh = Idle.fresh
      /\ r.sentAt = now /\ r.at = "post"
  BY DEF Idle, EMPTY_STATE
<1> HIDE DEF r
<1>6. CallOK(r, Last)
  BY <1>1, <1>2, <1>4, <1>5 DEF CallOK
<1> QED
  BY <1>1, <1>3, <1>5, <1>6, QuietStep DEF ClientInv

\* refresh() up to its request.
LEMMA RefreshReadKeeps ==
    ASSUME ClientInv, NEW c \in Calls, RefreshRead(c), Quiet
    PROVE  ClientInv'
<1> DEFINE r == [call[c] EXCEPT !.at = "post", !.state = store, !.sentAt = now]
<1>1. StoreOK(store', Last) /\ store' = store
  BY DEF ClientInv, RefreshRead
<1>2. CASE return(c)
  BY <1>1, <1>2, ReturnOK, QuietStep
<1>3. CASE refreshReturns(c, "not-due")
  BY <1>1, <1>3, RefreshReturnsOK, QuietStep
<1>4. CASE /\ store.token # Null
           /\ call' = [call EXCEPT ![c].at = "post", ![c].state = store,
                                   ![c].sentAt = now]
  <2>1. CallOK(call[c], Last) /\ call[c] \in CallT /\ StoreOK(store, Last) /\ now \in Nat
    BY DEF ClientInv, IssuerOK
  <2>2. call'[c] = r /\ call' = [call EXCEPT ![c] = call'[c]]
    BY <1>4 DEF ClientInv
  <2>3. r \in CallT
    BY <2>1 DEF CallT, StoreOK
  <2>4. /\ r.pre = call[c].pre /\ r.state = store /\ r.fresh = call[c].fresh
        /\ r.sentAt = now /\ r.at = "post"
    BY <2>1 DEF CallT
  <2> HIDE DEF r
  <2>5. CallOK(r, Last)
    BY <1>4, <2>1, <2>3, <2>4 DEF CallOK, StoreOK
  <2> QED
    BY <1>1, <2>1, <2>2, <2>4, <2>5, QuietStep
<1> QED
  BY <1>2, <1>3, <1>4 DEF RefreshRead

\* refresh() with its answer: a fresh token, grace, or nothing.
LEMMA RefreshApplyKeeps ==
    ASSUME ClientInv, NEW c \in Calls, RefreshApply(c), Quiet
    PROVE  ClientInv'
<1> DEFINE r == call[c]
<1>1. /\ r \in CallT /\ CallOK(r, Last) /\ StoreOK(store, Last)
      /\ r.state.token # Null
  BY DEF ClientInv, CallOK, RefreshApply, at
<1>2. r.state \in StateT /\ r.state.token \in TokenT \cup {Null}
      /\ r.fresh \in TokenT \cup {Null} /\ r.nowSec \in Nat
  BY <1>1 DEF CallT, StateT
<1>3. StoreOK(store', Last)
  <2>1. CASE store' = [token |-> r.fresh, graceStartSec |-> Null]
    BY <1>1, <1>2, <2>1 DEF StoreOK, CallOK, StateT, GraceFits
  <2>2. CASE /\ mayEnterGrace(c)
             /\ store' = [token |-> r.state.token, graceStartSec |-> r.nowSec]
    BY <1>1, <1>2, <2>2 DEF StoreOK, CallOK, StateT, GraceFits, mayEnterGrace
  <2> QED
    BY <1>1, <2>1, <2>2 DEF RefreshApply
<1>4. \/ return(c)
      \/ \E o \in {"refreshed", "grace-entered", "not-due", "grace-continued"} :
           refreshReturns(c, o)
  BY DEF RefreshApply
<1>5. /\ call' = [call EXCEPT ![c] = call'[c]] /\ CallOK(call'[c], Last)
      /\ call'[c].sentAt <= now
  BY <1>1, <1>4, ReturnOK, RefreshReturnsOK
<1> QED
  BY <1>3, <1>5, QuietStep

\* Client.refresh after grace: the health probe and the rollback.
LEMMA ProbeKeeps ==
    ASSUME ClientInv, NEW c \in Calls, ProbeHealth(c), Quiet
    PROVE  ClientInv'
<1>1. call[c].state.token # Null /\ StoreOK(store', Last)
  BY DEF ClientInv, CallOK, ProbeHealth, at
<1>2. /\ call' = [call EXCEPT ![c] = call'[c]] /\ CallOK(call'[c], Last)
      /\ call'[c].sentAt <= now
  BY <1>1, ReturnOK, GotoOK DEF ProbeHealth
<1> QED
  BY <1>1, <1>2, QuietStep

LEMMA RollbackKeeps ==
    ASSUME ClientInv, NEW c \in Calls, Rollback(c), Quiet
    PROVE  ClientInv'
<1> DEFINE r == call[c]
<1>1. /\ r \in CallT /\ CallOK(r, Last) /\ StoreOK(r.pre, Last)
      /\ r.state.token # Null /\ IssuedBy(r.state.token, Last)
  BY DEF ClientInv, CallOK, Rollback, at
<1>2. /\ r.state.token \in TokenT \cup {Null} /\ r.pre \in StateT
  BY <1>1 DEF CallT, StateT
<1>3. StoreOK(store', Last)
  BY <1>1, <1>2 DEF StoreOK, StateT, GraceFits, Rollback
<1> QED
  BY <1>3, ReturnOK, QuietStep DEF Rollback

\* activate, deactivate, guard and the heartbeat's answers write what they
\* were handed, or nothing.
LEMMA ApplyKeeps ==
    ASSUME ClientInv, NEW c \in Calls, Quiet,
           \/ GuardValidate(c) \/ ActivateApply(c) \/ DeactivateApply(c)
           \/ HeartbeatWrite(c)
    PROVE  ClientInv'
<1> DEFINE r == call[c]
<1>1. r \in CallT /\ CallOK(r, Last) /\ StoreOK(store, Last)
  BY DEF ClientInv
<1>2. /\ r.fresh \in TokenT \cup {Null} /\ IssuedBy(r.fresh, Last)
      /\ r.state.token \in TokenT \cup {Null} /\ IssuedBy(r.state.token, Last)
  BY <1>1 DEF CallOK, CallT, StateT
<1>3. StoreOK(EMPTY_STATE, Last)
  BY EmptyOK, LastType DEF ClientInv
<1>4. \A t \in {r.fresh, r.state.token} :
        StoreOK([token |-> t, graceStartSec |-> Null], Last)
  BY <1>2 DEF StoreOK, StateT, GraceFits
<1>5. StoreOK(store', Last) /\ return(c)
  BY <1>1, <1>3, <1>4
     DEF GuardValidate, ActivateApply, DeactivateApply, HeartbeatWrite
<1> QED
  BY <1>5, ReturnOK, QuietStep

LEMMA HeartbeatStepsKeep ==
    ASSUME ClientInv, NEW c \in Calls, Quiet,
           HeartbeatAnswered(c) \/ HeartbeatReread(c)
    PROVE  ClientInv'
<1>1. call[c].state.token # Null /\ StoreOK(store', Last)
  BY DEF ClientInv, CallOK, HeartbeatAnswered, HeartbeatReread, at
<1>2. return(c) \/ \E label \in {"reread", "write", "clear"} : goto(c, label)
  BY DEF HeartbeatAnswered, HeartbeatReread
<1>3. /\ call' = [call EXCEPT ![c] = call'[c]] /\ CallOK(call'[c], Last)
      /\ call'[c].sentAt <= now
  BY <1>1, <1>2, ReturnOK, GotoOK
<1> QED
  BY <1>1, <1>3, QuietStep

(* The issuer's side.  A handler changes nothing a call may write back, and *)
(* the token it signs is dated within the request's timeout.               *)

\* What a step of the issuer, or the loss of the exchange, keeps of call c.
Serves(c) == /\ call' = [call EXCEPT ![c] = call'[c]]
             /\ call'[c] \in CallT
             /\ call'[c].op = call[c].op /\ call'[c].pre = call[c].pre
             /\ call'[c].state = call[c].state /\ call'[c].nowSec = call[c].nowSec
             /\ call'[c].sentAt \in {call[c].sentAt, 0}
             /\ call[c].at \in Asking /\ call'[c].at \in Asking

LEMMA RespondsServes ==
    ASSUME ClientInv, NEW c \in Calls, NEW a \in Answer, NEW t \in TokenT \cup {Null},
           responds(c, a, t), call[c].at \in Asking
    PROVE  /\ Serves(c) /\ call'[c].at = "answer"
           /\ call'[c].fresh = IF tooLate(c) THEN Null ELSE t
<1> DEFINE r == [call[c] EXCEPT
                   !.at = "answer", !.sentAt = 0, !.status = "-", !.usage = 0,
                   !.answer = IF tooLate(c) THEN "no answer" ELSE a,
                   !.fresh = IF tooLate(c) THEN Null ELSE t]
<1>1. call[c] \in CallT
  BY DEF ClientInv
<1>2. call'[c] = r /\ call' = [call EXCEPT ![c] = call'[c]]
  BY DEF ClientInv, responds
<1>3. /\ (IF tooLate(c) THEN "no answer" ELSE a) \in Answer
      /\ (IF tooLate(c) THEN Null ELSE t) \in TokenT \cup {Null}
  BY DEF Answer
<1>4. r \in CallT
  BY <1>1, <1>3 DEF CallT
<1>5. /\ r.op = call[c].op /\ r.pre = call[c].pre /\ r.state = call[c].state
      /\ r.nowSec = call[c].nowSec /\ r.sentAt = 0 /\ r.at = "answer"
      /\ r.fresh = IF tooLate(c) THEN Null ELSE t
  BY <1>1 DEF CallT
<1> HIDE DEF r
<1> QED
  BY <1>2, <1>4, <1>5 DEF Serves, Asking

LEMMA LoseServes ==
    ASSUME ClientInv, NEW c \in Calls, Lose(c)
    PROVE  Serves(c) /\ call'[c].at = "answer" /\ call'[c].fresh = Null
<1> DEFINE r == [call[c] EXCEPT
                   !.at = "answer", !.sentAt = 0, !.status = "-", !.usage = 0,
                   !.answer = "no answer", !.fresh = Null]
<1>1. call[c] \in CallT
  BY DEF ClientInv
<1>2. call'[c] = r /\ call' = [call EXCEPT ![c] = call'[c]] /\ call[c].at \in Asking
  BY DEF ClientInv, Lose, Asking
<1>3. r \in CallT
  BY <1>1 DEF CallT, Answer
<1>4. /\ r.op = call[c].op /\ r.pre = call[c].pre /\ r.state = call[c].state
      /\ r.nowSec = call[c].nowSec /\ r.sentAt = 0 /\ r.at = "answer"
      /\ r.fresh = Null
  BY <1>1 DEF CallT
<1> HIDE DEF r
<1> QED
  BY <1>2, <1>3, <1>4 DEF Serves, Asking

\* The handler goes on to its next read.
LEMMA ReadServes ==
    ASSUME ClientInv, NEW c \in Calls, call[c].at \in Asking, NEW label \in Asking,
           NEW st \in LicenseStatus \cup {"-"}, NEW u \in Nat,
           call' = [call EXCEPT ![c] = [@ EXCEPT !.at = label, !.status = st,
                                                 !.usage = u]]
    PROVE  /\ Serves(c) /\ call'[c].at = label /\ call'[c].status = st
           /\ call'[c].fresh = call[c].fresh /\ call'[c].sentAt = call[c].sentAt
<1> DEFINE r == [call[c] EXCEPT !.at = label, !.status = st, !.usage = u]
<1>1. call[c] \in CallT
  BY DEF ClientInv
<1>2. call'[c] = r /\ call' = [call EXCEPT ![c] = call'[c]]
  BY DEF ClientInv
<1>3. r \in CallT
  BY <1>1 DEF CallT, Asking
<1>4. /\ r.op = call[c].op /\ r.pre = call[c].pre /\ r.state = call[c].state
      /\ r.nowSec = call[c].nowSec /\ r.sentAt = call[c].sentAt /\ r.at = label
      /\ r.fresh = call[c].fresh /\ r.status = st
  BY <1>1 DEF CallT
<1> HIDE DEF r
<1> QED
  BY <1>2, <1>3, <1>4 DEF Serves

\* What is left to show of such a step: the token, and the license row.
LEMMA ServesKeeps ==
    ASSUME ClientInv, NEW c \in Calls, Serves(c), UNCHANGED <<store, now, license, revokedAt>>,
           IssuerOK', IssuedBy(call'[c].fresh, Last),
           call'[c].at \in {"usage", "issue"}
             => /\ call'[c].status # "-"
                /\ call'[c].status = "active" => call'[c].sentAt <= Last
    PROVE  ClientInv'
<1>1. CallOK(call[c], Last) /\ call[c] \in CallT /\ StoreOK(store, Last)
      /\ Last \in Nat /\ Last' = Last /\ now \in Nat /\ call[c].sentAt <= now
  BY LastType DEF ClientInv, IssuerOK, Last
<1>2. CallOK(call'[c], Last)
  <2>1. call'[c].op \in {"refresh", "guard", "heartbeat"}
           => call'[c].state.token # Null
    BY <1>1 DEF CallOK, Serves, Asking
  <2>2. StoreOK(call'[c].pre, Last) /\ IssuedBy(call'[c].state.token, Last)
    BY <1>1 DEF CallOK, Serves
  <2> QED
    BY <2>1, <2>2 DEF CallOK, Serves
<1>3. call'[c].sentAt <= now
  BY <1>1 DEF Serves
<1>4. StoreOK(store', Last') /\ CallOK(call'[c], Last')
  BY <1>1, <1>2
<1>5. Last <= Last' /\ call' = [call EXCEPT ![c] = call'[c]]
  BY <1>1 DEF Serves
<1> QED
  BY <1>3, <1>4, <1>5, CallStep

\* Answers without a token.
LEMMA AnsweredKeeps ==
    ASSUME ClientInv, NEW c \in Calls, NEW a \in Answer, answered(c, a),
           call[c].at \in Asking,
           UNCHANGED <<store, now, license, revokedAt>>, IssuerOK'
    PROVE  ClientInv'
<1>1. responds(c, a, Null)
  BY DEF answered
<1>2. Serves(c) /\ call'[c].at = "answer" /\ call'[c].fresh = Null
  BY <1>1, RespondsServes
<1>3. IssuedBy(call'[c].fresh, Last)
  BY <1>2 DEF IssuedBy
<1> QED
  BY <1>2, <1>3, ServesKeeps

\* The issuer's rows after a handler's step.
LEMMA RowsKeep ==
    ASSUME ClientInv, UNCHANGED <<now, license, revokedAt>>,
           seat' \in {seat, seats + 1, 0}, seats' \in {seats, seats + 1},
           issued' \in {issued, issued + 1}
    PROVE  IssuerOK'
BY DEF ClientInv, IssuerOK

\* /refresh and /heartbeat up to the token: the reads of license and usage.
LEMMA ReadsKeep ==
    ASSUME ClientInv, NEW c \in Calls, UNCHANGED now,
           ServeVerify(c) \/ ServeLicense(c) \/ ServeUsage(c)
    PROVE  ClientInv'
<1> DEFINE r == call[c]
<1>1. /\ r \in CallT /\ CallOK(r, Last) /\ r.at \in {"post", "license", "usage"}
      /\ r.op \in {"refresh", "guard", "heartbeat"} /\ r.at \in Asking
      /\ now \in Nat /\ r.sentAt <= now /\ license \in LicenseStatus
  BY DEF ClientInv, IssuerOK, ServeVerify, ServeLicense, ServeUsage, at, Asking
<1>2. /\ r.state.token \in TokenT /\ IssuedBy(r.fresh, Last)
      /\ r.status \in LicenseStatus \cup {"-"} /\ r.usage \in Nat
  BY <1>1 DEF CallOK, CallT, StateT
<1>3. UNCHANGED <<store, now, issuerVars>> /\ UNCHANGED <<store, now, license, revokedAt>>
  BY DEF ServeVerify, ServeLicense, ServeUsage, issuerVars
<1>4. IssuerOK'
  BY <1>3, RowsKeep DEF issuerVars
<1>5. ASSUME NEW a \in Answer, answered(c, a) PROVE ClientInv'
  BY <1>1, <1>3, <1>4, <1>5, AnsweredKeeps
<1>6. CASE ServeVerify(c)
  <2>1. CASE goto(c, "license")
    <3>1. call' = [call EXCEPT ![c] = [@ EXCEPT !.at = "license", !.status = r.status,
                                                !.usage = r.usage]]
      BY <1>1, <2>1 DEF goto, ClientInv, CallT
    <3>2. Serves(c) /\ call'[c].at = "license" /\ call'[c].fresh = r.fresh
      BY <1>1, <1>2, <3>1, ReadServes DEF Asking
    <3> QED
      BY <1>2, <1>3, <1>4, <3>2, ServesKeeps
  <2> QED
    BY <1>5, <1>6, <2>1 DEF ServeVerify, Answer
<1>7. CASE ServeLicense(c)
  <2>1. CASE call' = [call EXCEPT ![c].at = "usage", ![c].status = license]
    <3>1. call' = [call EXCEPT ![c] = [@ EXCEPT !.at = "usage", !.status = license,
                                                !.usage = r.usage]]
      BY <1>1, <2>1 DEF ClientInv, CallT
    <3>2. /\ Serves(c) /\ call'[c].status = license /\ call'[c].fresh = r.fresh
          /\ call'[c].sentAt = r.sentAt
      BY <1>1, <1>2, <3>1, ReadServes DEF Asking
    <3>3. license # "-" /\ (license = "active" => r.sentAt <= Last)
      BY <1>1 DEF Last, LicenseStatus
    <3> QED
      BY <1>2, <1>3, <1>4, <3>2, <3>3, ServesKeeps
  <2>2. license \in {"revoked", "suspended"} => refusal(license) \in Answer
    BY DEF refusal, Answer
  <2> QED
    BY <1>5, <1>7, <2>1, <2>2 DEF ServeLicense
<1>8. CASE ServeUsage(c)
  <2>1. CASE call' = [call EXCEPT ![c].at = "issue", ![c].usage = r.state.token.usage]
    <3>0. r.state.token.usage \in Nat
      BY <1>2 DEF TokenT
    <3>1. call' = [call EXCEPT ![c] = [@ EXCEPT !.at = "issue", !.status = r.status,
                                                !.usage = r.state.token.usage]]
      BY <1>1, <2>1 DEF ClientInv, CallT
    <3>2. /\ Serves(c) /\ call'[c].status = r.status /\ call'[c].fresh = r.fresh
          /\ call'[c].sentAt = r.sentAt
      BY <1>1, <1>2, <3>0, <3>1, ReadServes DEF Asking
    <3>3. r.status # "-" /\ (r.status = "active" => r.sentAt <= Last)
      BY <1>1, <1>8 DEF CallOK, ServeUsage, at
    <3> QED
      BY <1>2, <1>3, <1>4, <3>2, <3>3, ServesKeeps
  <2> QED
    BY <1>5, <1>8, <2>1 DEF ServeUsage, Answer
<1> QED
  BY <1>6, <1>7, <1>8

\* /activate up to the token: the license it read is active, and it is now.
LEMMA ActivateKeeps ==
    ASSUME ClientInv, NEW c \in Calls, UNCHANGED now, ServeActivate(c)
    PROVE  ClientInv'
<1> DEFINE r == call[c]
<1>1. /\ r \in CallT /\ CallOK(r, Last) /\ r.at = "post" /\ r.at \in Asking
      /\ now \in Nat /\ r.sentAt <= now /\ seat \in Nat /\ seats \in Nat
      /\ license \in LicenseStatus
  BY DEF ClientInv, IssuerOK, ServeActivate, at, Asking
<1>2. UNCHANGED <<store, now, license, revokedAt>> /\ issued' = issued
  BY DEF ServeActivate
<1>3. PICK a \in activateAnswers :
         IF a # "ok" THEN answered(c, a) /\ UNCHANGED <<seat, seats>>
         ELSE /\ IF seat # 0 THEN UNCHANGED <<seat, seats>>
                 ELSE seat' = seats + 1 /\ seats' = seats + 1
              /\ call' = [call EXCEPT ![c].at = "issue", ![c].status = license,
                                      ![c].usage = seat']
  BY Zenon DEF ServeActivate
<1>4. seat' \in {seat, seats + 1, 0} /\ seats' \in {seats, seats + 1} /\ seat' \in Nat
  BY <1>1, <1>3
<1>5. IssuerOK'
  BY <1>2, <1>4, RowsKeep
<1>6. CASE a # "ok"
  <2>1. a \in Answer
    BY <1>1 DEF activateAnswers, refusal, Answer, LicenseStatus
  <2> QED
    BY <1>1, <1>2, <1>3, <1>5, <1>6, <2>1, AnsweredKeeps
<1>7. CASE a = "ok"
  <2>1. call' = [call EXCEPT ![c] = [@ EXCEPT !.at = "issue", !.status = license,
                                              !.usage = seat']]
    BY <1>1, <1>3, <1>7 DEF ClientInv, CallT
  <2>2. license \in LicenseStatus \cup {"-"} /\ "issue" \in Asking
    BY <1>1 DEF Asking
  <2>3. /\ Serves(c) /\ call'[c].status = license /\ call'[c].fresh = r.fresh
        /\ call'[c].sentAt = r.sentAt
    BY <1>1, <1>4, <2>1, <2>2, ReadServes
  <2>4. license # "-" /\ (license = "active" => r.sentAt <= Last)
    BY <1>1 DEF Last, LicenseStatus
  <2>5. IssuedBy(call'[c].fresh, Last)
    BY <1>1, <2>3 DEF CallOK
  <2> QED
    BY <1>2, <1>5, <2>3, <2>4, <2>5, ServesKeeps
<1> QED
  BY <1>6, <1>7

\* The token: its row was read before the revocation, if there was one, and
\* an answer that comes after the timeout is none.
LEMMA IssueKeeps ==
    ASSUME ClientInv, NEW c \in Calls, UNCHANGED now, issueToken(c)
    PROVE  ClientInv'
<1> DEFINE r == call[c]
           t == [n |-> issued + 1, iat |-> now, usage |-> call[c].usage]
<1>1. /\ r \in CallT /\ CallOK(r, Last) /\ r.at = "issue" /\ r.at \in Asking
      /\ now \in Nat /\ issued \in Nat /\ r.usage \in Nat /\ r.sentAt \in Nat
      /\ r.status \in LicenseStatus \cup {"-"} /\ Last \in Nat /\ Timeout \in Nat
  BY LastType, ClientAssumption DEF ClientInv, IssuerOK, issueToken, at, Asking, CallT
<1>2. UNCHANGED <<store, now, license, revokedAt>> /\ seat' = seat /\ seats' = seats
  BY DEF issueToken
<1>3. PICK a \in issueAnswers(r.status) :
         IF a # "ok" THEN answered(c, a) /\ UNCHANGED issued
         ELSE issued' = issued + 1 /\ responds(c, "ok", t)
  BY Zenon DEF issueToken
<1>4. IssuerOK'
  BY <1>2, <1>3, RowsKeep
<1>5. CASE a # "ok" /\ r.status # "-"
  <2>1. a \in Answer
    BY <1>1, <1>3, <1>5 DEF issueAnswers, refusal, Answer, LicenseStatus
  <2> QED
    BY <1>1, <1>2, <1>3, <1>4, <1>5, <2>1, AnsweredKeeps
<1>6. CASE a = "ok" /\ r.status # "-"
  <2>1. r.status = "active"
    BY <1>1, <1>3, <1>6 DEF issueAnswers, refusal, LicenseStatus
  <2>2. t \in TokenT \cup {Null} /\ t.iat = now
    BY <1>1 DEF TokenT
  <2>3. responds(c, "ok", t) /\ "ok" \in Answer
    BY <1>3, <1>6 DEF Answer
  <2> HIDE DEF t
  <2>4. /\ Serves(c) /\ call'[c].at = "answer"
        /\ call'[c].fresh = IF tooLate(c) THEN Null ELSE t
    BY <1>1, <2>2, <2>3, RespondsServes
  <2>5. IssuedBy(call'[c].fresh, Last)
    <3>1. CASE tooLate(c)
      BY <2>4, <3>1 DEF IssuedBy
    <3>2. CASE ~tooLate(c) /\ Timeout > 0
      <4>1. now <= r.sentAt + Timeout /\ r.sentAt <= Last
        BY <1>1, <2>1, <3>2 DEF tooLate, CallOK
      <4>2. now <= Last + Timeout
        BY <1>1, <4>1
      <4> QED
        BY <2>2, <2>4, <3>2, <4>2 DEF IssuedBy
    <3> QED
      BY <3>1, <3>2 DEF IssuedBy
  <2> QED
    BY <1>2, <1>4, <2>4, <2>5, ServesKeeps
<1>7. r.status # "-"
  BY <1>1 DEF CallOK
<1> QED
  BY <1>5, <1>6, <1>7

LEMMA ServeKeeps ==
    ASSUME ClientInv, NEW c \in Calls, UNCHANGED now,
           \/ ServeVerify(c) \/ ServeLicense(c) \/ ServeUsage(c) \/ ServeActivate(c)
           \/ issueToken(c) \/ ServeDeactivate(c) \/ Lose(c)
    PROVE  ClientInv'
<1>1. CASE ServeDeactivate(c)
  <2>1. /\ call[c].at \in Asking /\ "ok" \in Answer /\ "BadRequest" \in Answer
        /\ UNCHANGED <<store, now, license, revokedAt>>
    BY <1>1 DEF ServeDeactivate, at, Asking, Answer
  <2>2. IssuerOK'
    BY <1>1, <2>1, RowsKeep DEF ServeDeactivate
  <2> QED
    BY <1>1, <2>1, <2>2, AnsweredKeeps DEF ServeDeactivate
<1>2. CASE Lose(c)
  <2>1. UNCHANGED <<store, now, issuerVars>> /\ UNCHANGED <<store, now, license, revokedAt>>
    BY <1>2 DEF Lose, issuerVars
  <2>2. IssuerOK'
    BY <2>1, RowsKeep DEF issuerVars
  <2>3. Serves(c) /\ call'[c].at = "answer" /\ call'[c].fresh = Null
    BY <1>2, LoseServes
  <2>4. IssuedBy(call'[c].fresh, Last)
    BY <2>3 DEF IssuedBy
  <2> QED
    BY <2>1, <2>2, <2>3, <2>4, ServesKeeps
<1> QED
  BY <1>1, <1>2, ReadsKeep, ActivateKeeps, IssueKeeps

\* The admin, the sweep, the link and the clock; a restart loses the calls.
LEMMA EnvironmentKeeps ==
    ASSUME ClientInv, LicenseChange \/ SeatRevoked \/ LinkChange \/ Tick \/ Crash
    PROVE  ClientInv'
<1>1. IssuerOK
  BY DEF ClientInv
<1>2. IssuerOK' /\ Last <= Last' /\ now <= now'
  BY <1>1 DEF IssuerOK, LicenseStatus, Last, LicenseChange, SeatRevoked, LinkChange, Tick,
     Crash, issuerVars
<1>3. CASE UNCHANGED <<store, call>>
  BY <1>2, <1>3, EnvStep
<1>4. CASE Crash
  <2>1. Last' = Last /\ Last \in Nat /\ store' = store
    BY <1>1, <1>4, LastType DEF Crash, issuerVars, Last
  <2>2. \A c \in Calls : CallOK(call'[c], Last') /\ call'[c].sentAt <= now'
    BY <1>1, <1>2, <1>4, <2>1, EmptyOK DEF Crash, IssuerOK
  <2>3. call' \in [Calls -> CallT]
    BY <1>4, <2>1, EmptyOK DEF Crash
  <2> QED
    BY <1>2, <2>1, <2>2, <2>3 DEF ClientInv
<1> QED
  BY <1>3, <1>4 DEF LicenseChange, SeatRevoked, LinkChange, Tick

LEMMA ContinueKeeps ==
    ASSUME ClientInv, NEW c \in Calls, Continue(c)
    PROVE  ClientInv'
<1>1. UNCHANGED now
  BY DEF Continue
<1>2. ASSUME \/ RefreshRead(c) \/ RefreshApply(c) \/ ProbeHealth(c) \/ Rollback(c)
             \/ GuardValidate(c) \/ ActivateApply(c) \/ DeactivateApply(c)
             \/ HeartbeatAnswered(c) \/ HeartbeatReread(c) \/ HeartbeatWrite(c)
      PROVE  ClientInv'
  <2>1. Quiet
    BY <1>1, <1>2 DEF Quiet, RefreshRead, RefreshApply, ProbeHealth, Rollback,
       GuardValidate, ActivateApply, DeactivateApply, HeartbeatAnswered,
       HeartbeatReread, HeartbeatWrite
  <2> QED
    BY <1>2, <2>1, RefreshReadKeeps, RefreshApplyKeeps, ProbeKeeps,
       RollbackKeeps, ApplyKeeps, HeartbeatStepsKeep
<1> QED
  BY <1>1, <1>2, ServeKeeps DEF Continue

\* The inductive invariant of the client.
THEOREM ClientInvariant == Spec => []ClientInv
<1>1. Init => ClientInv
  <2> SUFFICES ASSUME Init PROVE ClientInv
    OBVIOUS
  <2>1. IssuerOK /\ Last = 0 /\ now = 0
    BY DEF Init, IssuerOK, Last, LicenseStatus
  <2>2. \A c \in Calls : call[c] = Idle /\ CallOK(call[c], 0) /\ call[c].sentAt = 0
    BY EmptyOK DEF Init
  <2>3. call \in [Calls -> CallT]
    BY EmptyOK DEF Init
  <2>4. StoreOK(store, 0)
    <3>1. CASE store = EMPTY_STATE
      BY <3>1, EmptyOK
    <3>2. CASE store = [token |-> [n |-> 1, iat |-> 0, usage |-> 1],
                        graceStartSec |-> Null]
      BY <3>2, ClientAssumption DEF StoreOK, StateT, TokenT, GraceFits, IssuedBy
    <3> QED
      BY <3>1, <3>2 DEF Init
  <2> QED
    BY <2>1, <2>2, <2>3, <2>4 DEF ClientInv
<1>2. ClientInv /\ [Next]_vars => ClientInv'
  <2> SUFFICES ASSUME ClientInv, [Next]_vars PROVE ClientInv'
    OBVIOUS
  <2>1. CASE UNCHANGED vars
    BY <2>1, QuietLast, EnvStep DEF vars, Quiet, issuerVars, ClientInv, IssuerOK
  <2>2. ASSUME NEW c \in Calls, Start(c) PROVE ClientInv'
    <3>1. PICK op \in Ops : Begin(c, op) \/ BeginPost(c, op)
      BY <2>2 DEF Start
    <3>2. Quiet
      BY <2>2, <3>1 DEF Start, Begin, BeginPost, Quiet
    <3> QED
      BY <3>1, <3>2, BeginKeeps, BeginPostKeeps
  <2>3. CASE Interval
    <3>1. HeartbeatRead(Beat) /\ Quiet
      BY <2>3 DEF Interval, HeartbeatRead, Quiet
    <3> QED
      BY <3>1, HeartbeatReadKeeps
  <2> QED
    BY <2>1, <2>2, <2>3, ContinueKeeps, EnvironmentKeeps DEF Next
<1> QED
  BY <1>1, <1>2, PTL DEF Spec

\* A stored grace start lies past the stored token's force_online_after,
\* whatever calls overlap, roll back or die.
THEOREM GraceFitsToken == Spec => []GracePastDeadline
<1>1. ClientInv => GracePastDeadline
  BY DEF ClientInv, StoreOK, GraceFits, GracePastDeadline
<1> QED
  BY <1>1, ClientInvariant, PTL

\* The offline use of a revoked license ends force_online_after, or the
\* lifetime and the skew, and the request timeout after the revocation.
THEOREM RevokedUseBounded == Spec => []RevokedUseIsBounded
<1>1. ClientInv => RevokedUseIsBounded
  <2> SUFFICES ASSUME ClientInv, Timeout > 0, license = "revoked", store.token # Null,
                      validate(store.token, now) = "ok"
               PROVE  /\ now <= revokedAt + Timeout + TTL + Skew
                      /\ ForceAfter # Null => now < revokedAt + Timeout + ForceAfter
    BY DEF RevokedUseIsBounded
  <2> DEFINE t == store.token
  <2>1. t \in TokenT /\ t.iat \in Nat /\ t.iat <= revokedAt + Timeout
        /\ revokedAt \in Nat /\ now \in Nat
    BY DEF ClientInv, StoreOK, StateT, TokenT, IssuedBy, Last, IssuerOK
  <2>2. ~(t.iat + TTL + Skew < now) /\ ~forced(t, now)
    BY DEF validate, exp
  <2> HIDE DEF t
  <2>3. TTL \in Nat /\ Skew \in Nat /\ Timeout \in Nat
    BY ClientAssumption
  <2>4. now <= revokedAt + Timeout + TTL + Skew
    BY <2>1, <2>2, <2>3
  <2>5. ASSUME ForceAfter # Null PROVE now < revokedAt + Timeout + ForceAfter
    <3>1. ForceAfter \in Nat /\ ~(t.iat + ForceAfter <= now)
      BY <2>2, <2>5, ClientAssumption DEF forced
    <3> QED
      BY <2>1, <2>3, <3>1
  <2> QED
    BY <2>4, <2>5
<1> QED
  BY <1>1, ClientInvariant, PTL

----------------------------------------------------------------------------
(* The grace window, with one application call at a time.                  *)

\* What a call knows of the grace start in store s at time t.  Up to its
\* answer a refresh that read no grace start finds none in the store; one
\* that has entered grace finds its own or none.
CallGrace(r, s, t) ==
    /\ r.nowSec <= t
    /\ r.pre.graceStartSec # Null => r.pre.graceStartSec <= r.nowSec
    /\ (/\ r.op \in {"refresh", "guard"} /\ r.at \in Asking
        /\ r.state.graceStartSec = Null)
         => s.graceStartSec = Null
    /\ (/\ r.op = "refresh" /\ r.at \in {"probe", "rollback"}
        /\ r.state.graceStartSec = Null /\ s.graceStartSec # Null)
         => s.graceStartSec = r.nowSec
    /\ r.at = "rollback" => r.state.graceStartSec = Null

GraceStarted(s, t) == s.graceStartSec # Null => s.graceStartSec <= t

GraceInv ==
    /\ GraceStarted(store, now)
    /\ \A c \in Calls : CallGrace(call[c], store, now)
    /\ call[Beat].op \in {"idle", "heartbeat"}

\* The application awaits each call before it makes the next.
OneCaller == \A c, d \in Callers : c = d

Shrinks == store.graceStartSec # Null /\ store'.graceStartSec # Null
             => store'.graceStartSec <= store.graceStartSec

\* A step of call c: the store changes only for the sole caller, or it loses
\* its grace start.
LEMMA GraceStep ==
    ASSUME OneCaller, ClientInv, GraceInv, NEW c \in Calls, UNCHANGED now,
           call' = [call EXCEPT ![c] = call'[c]],
           CallGrace(call'[c], store', now), GraceStarted(store', now),
           \/ call[c].op \in {"refresh", "guard"} \/ store' = store
           \/ store'.graceStartSec = Null,
           c = Beat => call'[c].op \in {"idle", "heartbeat"}
    PROVE  GraceInv'
<1>1. ASSUME NEW d \in Calls, d # c PROVE CallGrace(call'[d], store', now)
  <2>1. call'[d] = call[d] /\ CallGrace(call[d], store, now)
    BY <1>1 DEF ClientInv, GraceInv
  <2>2. CASE store' = store \/ store'.graceStartSec = Null
    BY <2>1, <2>2 DEF CallGrace
  <2>3. CASE call[c].op \in {"refresh", "guard"}
    <3>1. d = Beat
      BY <1>1, <2>3 DEF Calls, OneCaller, GraceInv
    <3>2. call[d].op \in {"idle", "heartbeat"}
      BY <3>1 DEF GraceInv
    <3> QED
      BY <2>1, <3>2 DEF CallGrace
  <2> QED
    BY <2>2, <2>3
<1>2. call'[Beat].op \in {"idle", "heartbeat"}
  BY DEF ClientInv, GraceInv, Calls
<1> QED
  BY <1>1, <1>2 DEF GraceInv

LEMMA IdleGrace ==
    ASSUME NEW s, NEW t \in Nat
    PROVE  CallGrace(Idle, s, t) /\ Idle.op = "idle"
BY DEF CallGrace, Idle, EMPTY_STATE

\* The ways a call goes on that leave its records alone.
LEMMA ReturnGrace ==
    ASSUME OneCaller, ClientInv, GraceInv, NEW c \in Calls, UNCHANGED now, return(c),
           GraceStarted(store', now),
           \/ call[c].op \in {"refresh", "guard"} \/ store' = store
           \/ store'.graceStartSec = Null
    PROVE  GraceInv'
<1>1. call'[c] = Idle /\ call' = [call EXCEPT ![c] = call'[c]] /\ now \in Nat
  BY DEF ClientInv, IssuerOK, return
<1> QED
  BY <1>1, IdleGrace, GraceStep

LEMMA GotoGrace ==
    ASSUME OneCaller, ClientInv, GraceInv, NEW c \in Calls, UNCHANGED now,
           NEW label \in {"probe", "rollback", "reread", "write", "clear"},
           goto(c, label), GraceStarted(store', now),
           \/ call[c].op \in {"refresh", "guard"} \/ store' = store,
           label = "rollback" => call[c].state.graceStartSec = Null,
           (/\ label \in {"probe", "rollback"} /\ store'.graceStartSec # Null
            /\ call[c].state.graceStartSec = Null)
              => store'.graceStartSec = call[c].nowSec
    PROVE  GraceInv'
<1> DEFINE r == [call[c] EXCEPT !.at = label]
<1>1. CallGrace(call[c], store, now) /\ call[c] \in CallT
  BY DEF ClientInv, GraceInv
<1>2. call'[c] = r /\ call' = [call EXCEPT ![c] = call'[c]]
  BY DEF ClientInv, goto
<1>3. /\ r.op = call[c].op /\ r.pre = call[c].pre /\ r.state = call[c].state
      /\ r.nowSec = call[c].nowSec /\ r.at = label
  BY <1>1 DEF CallT
<1> HIDE DEF r
<1>4. CallGrace(r, store', now)
  BY <1>1, <1>3 DEF CallGrace, Asking
<1>5. c = Beat => r.op \in {"idle", "heartbeat"}
  BY <1>3 DEF GraceInv
<1> QED
  BY <1>2, <1>4, <1>5, GraceStep

LEMMA RefreshReturnsGrace ==
    ASSUME OneCaller, ClientInv, GraceInv, NEW c \in Calls, UNCHANGED now,
           call[c].op \in {"refresh", "guard"},
           NEW outcome, refreshReturns(c, outcome), GraceStarted(store', now),
           (/\ outcome \in {"grace-entered", "grace-continued"}
            /\ store'.graceStartSec # Null /\ call[c].state.graceStartSec = Null)
              => store'.graceStartSec = call[c].nowSec
    PROVE  GraceInv'
<1>1. CASE return(c)
  BY <1>1, ReturnGrace
<1>2. CASE goto(c, "probe") /\ outcome \in {"grace-entered", "grace-continued"}
  BY <1>2, GotoGrace
<1>3. CASE call' = [call EXCEPT ![c] = [Idle EXCEPT !.op = "guard", !.at = "validate"]]
  <2> DEFINE r == [Idle EXCEPT !.op = "guard", !.at = "validate"]
  <2>1. call'[c] = r /\ call' = [call EXCEPT ![c] = call'[c]] /\ now \in Nat
    BY <1>3 DEF ClientInv, IssuerOK
  <2>2. CallGrace(r, store', now)
    BY <2>1 DEF CallGrace, Asking, Idle, EMPTY_STATE
  <2>3. c # Beat
    BY DEF GraceInv
  <2> HIDE DEF r
  <2> QED
    BY <2>1, <2>2, <2>3, GraceStep
<1> QED
  BY <1>1, <1>2, <1>3 DEF refreshReturns

LEMMA RefreshApplyGrace ==
    ASSUME OneCaller, ClientInv, GraceInv, NEW c \in Calls, UNCHANGED now,
           RefreshApply(c)
    PROVE  GraceInv' /\ Shrinks
<1> DEFINE r == call[c]
           code == fromIssuerCode(r.answer)
<1>1. /\ r \in CallT /\ CallGrace(r, store, now) /\ GraceStarted(store, now)
      /\ r.op \in {"refresh", "guard"} /\ r.at = "answer"
  BY DEF ClientInv, GraceInv, RefreshApply, at
<1>2. CASE code = "ok" /\ store' = [token |-> r.fresh, graceStartSec |-> Null]
           /\ refreshReturns(c, "refreshed")
  <2>1. store'.graceStartSec = Null
    BY <1>2
  <2> QED
    BY <1>1, <1>2, <2>1, RefreshReturnsGrace DEF Shrinks, GraceStarted
<1>3. CASE /\ mayEnterGrace(c) /\ refreshReturns(c, "grace-entered")
           /\ store' = [token |-> r.state.token, graceStartSec |-> r.nowSec]
  <2>1. store'.graceStartSec = r.nowSec /\ store.graceStartSec = Null
    BY <1>1, <1>3 DEF CallGrace, Asking, mayEnterGrace
  <2>2. GraceStarted(store', now)
    BY <1>1, <2>1 DEF GraceStarted, CallGrace
  <2> QED
    BY <1>1, <1>3, <2>1, <2>2, RefreshReturnsGrace DEF Shrinks
<1>4. CASE /\ ~mayEnterGrace(c) /\ UNCHANGED store
           /\ IF ~forced(r.state.token, r.nowSec) THEN refreshReturns(c, "not-due")
              ELSE IF GraceWindow = 0 THEN return(c)
              ELSE refreshReturns(c, "grace-continued")
  <2>1. Shrinks /\ GraceStarted(store', now)
    BY <1>1, <1>4 DEF Shrinks, GraceStarted, ClientInv, StoreOK, StateT
  <2>2. CASE return(c)
    BY <1>1, <1>4, <2>1, <2>2, ReturnGrace
  <2>3. CASE refreshReturns(c, "not-due")
    BY <1>1, <1>4, <2>1, <2>3, RefreshReturnsGrace
  <2>4. CASE refreshReturns(c, "grace-continued") /\ r.state.graceStartSec # Null
    BY <1>1, <1>4, <2>1, <2>4, RefreshReturnsGrace
  <2> QED
    BY <1>4, <2>2, <2>3, <2>4 DEF mayEnterGrace
<1>5. CASE return(c) /\ UNCHANGED store
  <2>1. Shrinks /\ GraceStarted(store', now)
    BY <1>1, <1>5 DEF Shrinks, GraceStarted, ClientInv, StoreOK, StateT
  <2> QED
    BY <1>1, <1>5, <2>1, ReturnGrace
<1> QED
  BY <1>2, <1>3, <1>4, <1>5 DEF RefreshApply

\* A rollback puts back what the call found at its start: nothing, or an
\* earlier instant than the one it entered grace at.
LEMMA RollbackGrace ==
    ASSUME OneCaller, ClientInv, GraceInv, NEW c \in Calls, UNCHANGED now,
           Rollback(c)
    PROVE  GraceInv' /\ Shrinks
<1> DEFINE r == call[c]
<1>1. /\ r \in CallT /\ CallGrace(r, store, now) /\ now \in Nat
      /\ r.op = "refresh" /\ r.at = "rollback" /\ return(c)
      /\ store'.graceStartSec = r.pre.graceStartSec
  BY DEF ClientInv, IssuerOK, GraceInv, Rollback, at
<1>2. r.pre.graceStartSec \in Nat \cup {Null} /\ r.nowSec \in Nat
  BY <1>1 DEF CallT, StateT
<1>3. GraceStarted(store', now)
  BY <1>1, <1>2 DEF CallGrace, GraceStarted
<1>4. Shrinks
  BY <1>1, <1>2 DEF CallGrace, Shrinks
<1> QED
  BY <1>1, <1>3, <1>4, ReturnGrace

LEMMA ProbeGrace ==
    ASSUME OneCaller, ClientInv, GraceInv, NEW c \in Calls, UNCHANGED now,
           ProbeHealth(c)
    PROVE  GraceInv'
<1>1. /\ CallGrace(call[c], store, now) /\ GraceStarted(store', now)
      /\ call[c].op = "refresh" /\ call[c].at = "probe" /\ store' = store
  BY DEF GraceInv, ProbeHealth, at
<1>2. CASE return(c)
  BY <1>1, <1>2, ReturnGrace
<1>3. CASE goto(c, "rollback") /\ call[c].state.graceStartSec = Null
  BY <1>1, <1>3, GotoGrace DEF CallGrace
<1> QED
  BY <1>2, <1>3 DEF ProbeHealth

\* Calls that end, writing no grace start, and the heartbeat's way to it.
LEMMA ApplyGrace ==
    ASSUME OneCaller, ClientInv, GraceInv, NEW c \in Calls, UNCHANGED now,
           \/ GuardValidate(c) \/ ActivateApply(c) \/ DeactivateApply(c)
           \/ HeartbeatWrite(c) \/ HeartbeatAnswered(c) \/ HeartbeatReread(c)
    PROVE  GraceInv' /\ (store' = store \/ store'.graceStartSec = Null)
<1>1. store' = store \/ store'.graceStartSec = Null
  BY DEF GuardValidate, ActivateApply, DeactivateApply, HeartbeatWrite,
     HeartbeatAnswered, HeartbeatReread, EMPTY_STATE
<1>2. GraceStarted(store', now)
  BY <1>1 DEF GraceInv, GraceStarted
<1>3. CASE return(c)
  BY <1>1, <1>2, <1>3, ReturnGrace
<1>4. ASSUME NEW label \in {"reread", "write", "clear"}, goto(c, label), store' = store
      PROVE  GraceInv'
  BY <1>2, <1>4, GotoGrace
<1> QED
  BY <1>1, <1>3, <1>4
     DEF GuardValidate, ActivateApply, DeactivateApply, HeartbeatWrite,
         HeartbeatAnswered, HeartbeatReread

LEMMA BeginGrace ==
    ASSUME OneCaller, ClientInv, GraceInv, NEW c \in Callers, UNCHANGED now,
           NEW op, Begin(c, op) \/ BeginPost(c, op)
    PROVE  GraceInv'
<1>1. /\ store' = store /\ GraceStarted(store, now) /\ now \in Nat
      /\ c # Beat /\ c \in Calls
  BY ClientAssumption DEF Begin, BeginPost, GraceInv, ClientInv, IssuerOK, Calls
<1>2. CASE Begin(c, op)
  <2> DEFINE pre == IF op = "refresh" THEN store ELSE EMPTY_STATE
             r == [Idle EXCEPT !.op = op, !.at = "read", !.nowSec = now, !.pre = pre]
  <2>1. call'[c] = r /\ call' = [call EXCEPT ![c] = call'[c]]
    BY <1>1, <1>2 DEF ClientInv, Begin
  <2>2. GraceStarted(pre, now)
    BY <1>1 DEF GraceStarted, EMPTY_STATE
  <2> HIDE DEF pre
  <2>3. r.nowSec = now /\ r.pre = pre /\ r.at = "read"
    BY DEF Idle
  <2> HIDE DEF r
  <2>4. CallGrace(r, store, now)
    BY <1>1, <2>2, <2>3 DEF CallGrace, Asking, GraceStarted
  <2> QED
    BY <1>1, <2>1, <2>4, GraceStep
<1>3. CASE BeginPost(c, op)
  <2> DEFINE r == [Idle EXCEPT !.op = op, !.at = "post", !.sentAt = now]
  <2>1. call'[c] = r /\ call' = [call EXCEPT ![c] = call'[c]]
    BY <1>1, <1>3 DEF ClientInv, BeginPost
  <2>2. op \in {"activate", "deactivate"}
    BY <1>3 DEF BeginPost
  <2>3. CallGrace(r, store, now)
    BY <1>1, <2>2 DEF CallGrace, Idle, EMPTY_STATE
  <2> HIDE DEF r
  <2> QED
    BY <1>1, <2>1, <2>3, GraceStep
<1> QED
  BY <1>2, <1>3

LEMMA RefreshReadGrace ==
    ASSUME OneCaller, ClientInv, GraceInv, NEW c \in Calls, UNCHANGED now,
           RefreshRead(c)
    PROVE  GraceInv'
<1>1. /\ CallGrace(call[c], store, now) /\ GraceStarted(store', now)
      /\ call[c].op \in {"refresh", "guard"} /\ store' = store
      /\ call[c] \in CallT /\ c # Beat /\ store \in StateT
  BY DEF ClientInv, StoreOK, GraceInv, RefreshRead, at
<1>2. CASE return(c)
  BY <1>1, <1>2, ReturnGrace
<1>3. CASE refreshReturns(c, "not-due")
  BY <1>1, <1>3, RefreshReturnsGrace
<1>4. CASE call' = [call EXCEPT ![c].at = "post", ![c].state = store, ![c].sentAt = now]
  <2>1. call' = [call EXCEPT ![c] = call'[c]]
    BY <1>4 DEF ClientInv
  <2>2. /\ call'[c].at = "post" /\ call'[c].state = store
        /\ call'[c].pre = call[c].pre /\ call'[c].nowSec = call[c].nowSec
        /\ call'[c].op = call[c].op
    BY <1>1, <1>4 DEF ClientInv, CallT
  <2>3. CallGrace(call'[c], store, now)
    BY <1>1, <2>2 DEF CallGrace, Asking
  <2> QED
    BY <1>1, <2>1, <2>3, GraceStep
<1> QED
  BY <1>2, <1>3, <1>4 DEF RefreshRead

\* What a step of the issuer or of the link does to call c.
LEMMA ServeMoves ==
    ASSUME ClientInv, NEW c \in Calls,
           \/ ServeVerify(c) \/ ServeLicense(c) \/ ServeUsage(c) \/ ServeActivate(c)
           \/ issueToken(c) \/ ServeDeactivate(c) \/ Lose(c)
    PROVE  /\ call' = [call EXCEPT ![c] = call'[c]]
           /\ call[c].at \in Asking /\ call'[c].at \in Asking
           /\ call'[c].op = call[c].op /\ call'[c].pre = call[c].pre
           /\ call'[c].state = call[c].state /\ call'[c].nowSec = call[c].nowSec
<1> DEFINE Moved == /\ call' = [call EXCEPT ![c] = call'[c]]
                    /\ call[c].at \in Asking /\ call'[c].at \in Asking
                    /\ call'[c].op = call[c].op /\ call'[c].pre = call[c].pre
                    /\ call'[c].state = call[c].state
                    /\ call'[c].nowSec = call[c].nowSec
<1>1. call \in [Calls -> CallT] /\ call[c] \in CallT
  BY DEF ClientInv
<1>2. call[c].at \in Asking
  BY DEF ServeVerify, ServeLicense, ServeUsage, ServeActivate, issueToken,
         ServeDeactivate, Lose, at, Asking
<1>3. ASSUME NEW a, NEW t, responds(c, a, t) PROVE Moved
  BY <1>1, <1>2, <1>3 DEF responds, CallT, Asking
<1>4. ASSUME NEW a, answered(c, a) PROVE Moved
  BY <1>3, <1>4 DEF answered
<1>5. ASSUME Lose(c) PROVE Moved
  BY <1>1, <1>2, <1>5 DEF Lose, CallT, Asking
<1>6. ASSUME NEW label \in Asking, goto(c, label) PROVE Moved
  BY <1>1, <1>2, <1>6 DEF goto, CallT
<1>7. ASSUME NEW label \in Asking, NEW st,
             call' = [call EXCEPT ![c].at = label, ![c].status = st]
      PROVE  Moved
  BY <1>1, <1>2, <1>7 DEF CallT
<1>8. ASSUME NEW label \in Asking, NEW u,
             call' = [call EXCEPT ![c].at = label, ![c].usage = u]
      PROVE  Moved
  BY <1>1, <1>2, <1>8 DEF CallT
<1>9. ASSUME NEW label \in Asking, NEW st, NEW u,
             call' = [call EXCEPT ![c].at = label, ![c].status = st, ![c].usage = u]
      PROVE  Moved
  BY <1>1, <1>2, <1>9 DEF CallT
<1>10. "license" \in Asking /\ "usage" \in Asking /\ "issue" \in Asking
  BY DEF Asking
<1> HIDE DEF Moved
<1>11. ASSUME ServeVerify(c) PROVE Moved
  BY <1>4, <1>6, <1>10, <1>11, Zenon DEF ServeVerify
<1>12. ASSUME ServeLicense(c) PROVE Moved
  BY <1>4, <1>7, <1>10, <1>12, Zenon DEF ServeLicense
<1>13. ASSUME ServeUsage(c) PROVE Moved
  BY <1>4, <1>8, <1>10, <1>13, Zenon DEF ServeUsage
<1>14. ASSUME ServeActivate(c) PROVE Moved
  BY <1>4, <1>9, <1>10, <1>14, Zenon DEF ServeActivate
<1>15. ASSUME issueToken(c) PROVE Moved
  BY <1>3, <1>4, <1>15, Zenon DEF issueToken
<1>16. ASSUME ServeDeactivate(c) PROVE Moved
  BY <1>4, <1>16, Zenon DEF ServeDeactivate
<1>17. Moved
  BY <1>5, <1>11, <1>12, <1>13, <1>14, <1>15, <1>16
<1> QED
  BY <1>17 DEF Moved

\* None of it touches what CallGrace speaks of.
LEMMA ServeGrace ==
    ASSUME OneCaller, ClientInv, GraceInv, NEW c \in Calls, UNCHANGED now,
           \/ ServeVerify(c) \/ ServeLicense(c) \/ ServeUsage(c) \/ ServeActivate(c)
           \/ issueToken(c) \/ ServeDeactivate(c) \/ Lose(c)
    PROVE  GraceInv' /\ store' = store
<1>1. /\ CallGrace(call[c], store, now) /\ GraceStarted(store, now)
      /\ c = Beat => call[c].op \in {"idle", "heartbeat"}
  BY DEF GraceInv
<1>2. store' = store
  BY DEF ServeVerify, ServeLicense, ServeUsage, ServeActivate, issueToken,
         ServeDeactivate, Lose
<1>3. /\ call' = [call EXCEPT ![c] = call'[c]]
      /\ call[c].at \in Asking /\ call'[c].at \in Asking
      /\ call'[c].op = call[c].op /\ call'[c].pre = call[c].pre
      /\ call'[c].state = call[c].state /\ call'[c].nowSec = call[c].nowSec
  BY ServeMoves
<1>4. CallGrace(call'[c], store', now)
  BY <1>1, <1>2, <1>3 DEF CallGrace, Asking
<1>5. GraceInv'
  BY <1>1, <1>2, <1>3, <1>4, GraceStep
<1> QED
  BY <1>2, <1>5

LEMMA EnvironmentGrace ==
    ASSUME ClientInv, GraceInv, NEW n \in Nat, now' = n, now <= n, store' = store,
           call' = call \/ call' = [c \in Calls |-> Idle]
    PROVE  GraceInv'
<1>1. now \in Nat /\ store \in StateT /\ call \in [Calls -> CallT]
  BY DEF ClientInv, IssuerOK, StoreOK
<1>2. GraceStarted(store, n)
  BY <1>1 DEF GraceInv, GraceStarted, StateT
<1>3. ASSUME NEW c \in Calls PROVE CallGrace(call'[c], store, n)
  <2>1. CASE call'[c] = call[c]
    <3>1. call[c].nowSec \in Nat /\ CallGrace(call[c], store, now)
      BY <1>1 DEF CallT, GraceInv
    <3> QED
      BY <1>1, <2>1, <3>1 DEF CallGrace
  <2>2. CASE call'[c] = Idle
    BY <2>2, IdleGrace
  <2> QED
    BY <2>1, <2>2
<1>4. call'[Beat].op \in {"idle", "heartbeat"}
  BY IdleGrace DEF GraceInv, Calls
<1> QED
  BY <1>2, <1>3, <1>4 DEF GraceInv

LEMMA GraceNext ==
    ASSUME OneCaller, ClientInv, GraceInv, [Next]_vars
    PROVE  GraceInv' /\ Shrinks
<1>1. store.graceStartSec \in Nat \cup {Null} /\ now \in Nat
  BY DEF ClientInv, IssuerOK, StoreOK, StateT
<1>2. store' = store \/ store'.graceStartSec = Null => Shrinks
  BY <1>1 DEF Shrinks
<1>3. ASSUME NEW c \in Calls, Continue(c) PROVE GraceInv' /\ Shrinks
  <2>1. UNCHANGED now
    BY <1>3 DEF Continue
  <2>2. CASE RefreshRead(c) \/ ProbeHealth(c)
    BY <1>2, <2>1, <2>2, RefreshReadGrace, ProbeGrace DEF RefreshRead, ProbeHealth
  <2> QED
    BY <1>2, <1>3, <2>1, <2>2, RefreshApplyGrace, RollbackGrace, ApplyGrace,
       ServeGrace DEF Continue
<1>4. ASSUME NEW c \in Calls, Start(c) PROVE GraceInv' /\ Shrinks
  <2>1. PICK op \in Ops : Begin(c, op) \/ BeginPost(c, op)
    BY <1>4 DEF Start
  <2>2. c \in Callers /\ UNCHANGED <<now, store>>
    BY <1>4, <2>1 DEF Start, Begin, BeginPost
  <2> QED
    BY <1>2, <2>1, <2>2, BeginGrace
<1>5. CASE Interval
  <2> DEFINE r == [Idle EXCEPT !.op = "heartbeat", !.at = "post",
                               !.state.token = store.token, !.sentAt = now]
  <2>1. /\ UNCHANGED <<now, store>> /\ Beat \in Calls
        /\ call'[Beat] = r /\ call' = [call EXCEPT ![Beat] = call'[Beat]]
    BY <1>5 DEF Interval, HeartbeatRead, ClientInv, Calls
  <2>2. r.op = "heartbeat" /\ r.at = "post" /\ r.nowSec = 0 /\ r.pre = EMPTY_STATE
    BY DEF Idle
  <2> HIDE DEF r
  <2>3. CallGrace(r, store, now) /\ GraceStarted(store, now)
    BY <1>1, <2>2 DEF CallGrace, EMPTY_STATE, GraceInv
  <2> QED
    BY <1>2, <2>1, <2>2, <2>3, GraceStep
<1>6. ASSUME store' = store, now' \in Nat, now <= now',
             call' = call \/ call' = [c \in Calls |-> Idle]
      PROVE  GraceInv' /\ Shrinks
  BY <1>2, <1>6, EnvironmentGrace
<1>7. CASE LicenseChange \/ SeatRevoked \/ LinkChange \/ Tick \/ Crash \/ UNCHANGED vars
  BY <1>1, <1>6, <1>7 DEF LicenseChange, SeatRevoked, LinkChange, Tick, Crash, vars
<1> QED
  BY <1>3, <1>4, <1>5, <1>7 DEF Next

\* With one application call at a time next to the heartbeat, no step moves a
\* stored grace start to a later instant: the window is never started anew
\* while it runs.
THEOREM GraceIsNotExtended ==
    ASSUME OneCaller
    PROVE  Spec => GraceNotExtended
<1>1. Init => GraceInv
  <2> SUFFICES ASSUME Init PROVE GraceInv
    OBVIOUS
  <2>1. now = 0 /\ store.graceStartSec = Null
    BY DEF Init, EMPTY_STATE
  <2>2. \A c \in Calls : call[c] = Idle
    BY DEF Init
  <2> QED
    BY <2>1, <2>2, IdleGrace DEF GraceInv, GraceStarted, Calls
<1>2. ClientInv /\ GraceInv /\ [Next]_vars => GraceInv' /\ Shrinks
  BY GraceNext
<1>3. ClientInv /\ GraceInv /\ [Next]_vars => [Shrinks]_vars
  BY <1>2
<1>4. GraceNotExtended <=> [][Shrinks]_vars
  BY PTL DEF GraceNotExtended, Shrinks
<1> QED
  BY <1>1, <1>2, <1>3, <1>4, ClientInvariant, PTL DEF Spec
=============================================================================
