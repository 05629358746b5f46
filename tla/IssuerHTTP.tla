---------------------------- MODULE IssuerHTTP -----------------------------
(***************************************************************************)
(* The request handlers of typescript/src/http/client-handlers.ts and of   *)
(* the license routes of admin-handlers.ts, and the sweep job of           *)
(* usage-service.ts, running concurrently over the store of Licensing.     *)
(* Every await on storage is a step of its own, so other requests run      *)
(* between the read of a row and the use of it; a withTransaction block is *)
(* one step (the storage contract of storage/types.ts).                    *)
(***************************************************************************)
EXTENDS Licensing

CONSTANTS Procs,            \* requests that may be in flight together
          Requests,         \* the kinds of request this instance receives
          TTL,              \* tokenTtlSec
          IdleFor           \* inactiveForSec of the sweep job

ASSUME HTTPAssumption == TTL \in Nat \ {0} /\ IdleFor \in Nat \ {0}

VARIABLES req,              \* per process: the request it is serving
          tokens,           \* the tokens ever handed out
          seenLive          \* auxiliary, see Observe

httpVars == <<now, license, usage, audit, seatAudit, req, tokens, seenLive>>

Token == [usage : UsageIds, exp : Instant]

\* A request in flight: where it is, its path and body parameters, and the
\* rows it has read (snap, todo).
Request == [op    : {"idle", "activate", "refresh", "heartbeat", "deactivate",
                     "suspend", "resume", "revoke", "renew", "delete",
                     "sweep"},
            at    : {"-", "register", "license", "usage", "issue", "write",
                     "seats", "tx"},
            l     : Licenses \cup {Null},
            f     : Fingerprints \cup {Null},
            u     : UsageIds \cup {Null},
            key   : Nat,
            snap  : License,
            todo  : SUBSET UsageIds]

Idle == [op |-> "idle", at |-> "-", l |-> Null, f |-> Null, u |-> Null,
         key |-> 0, snap |-> NoLicense, todo |-> {}]

\* Seats a token may be issued for right now.
Live == {u \in UsageIds :
           /\ usage[u].status = "active"
           /\ effectiveStatus(license[usage[u].license], now)
                \in {"active", "grace"}}

----------------------------------------------------------------------------
(* A slip, as in Lifecycle: /refresh without the check of the seat.        *)

GetUsage_NoCheck(p) ==
    /\ req[p].op \in {"refresh", "heartbeat", "deactivate"}
    /\ req[p].at = "usage"
    /\ req' = [req EXCEPT ![p].at = IF req[p].op = "refresh" THEN "issue"
                                    ELSE "write"]
    /\ UNCHANGED <<license, usage, audit, seatAudit, tokens>>

----------------------------------------------------------------------------
begin(p, r) == /\ req[p].op = "idle"
               /\ r.op \in Requests
               /\ req' = [req EXCEPT ![p] = r]
proceed(p, r) == req' = [req EXCEPT ![p] = r]
respond(p) == req' = [req EXCEPT ![p] = Idle]
at(p, ops, label) == req[p].op \in ops /\ req[p].at = label

unchangedStore == UNCHANGED storeVars

\* Signature and kid are taken as valid (KeyHierarchy); what is left is exp.
verifyClientToken(t, allowExpiredWithinSec) ==
    t \in tokens /\ now < t.exp + allowExpiredWithinSec

----------------------------------------------------------------------------
(* POST /activate: findLicenseByKey, registerUsage, issueToken.            *)

ActivateFind(p, l, f) ==
    /\ license[l].status # "absent"
    /\ begin(p, [Idle EXCEPT !.op = "activate", !.at = "register", !.l = l,
                             !.f = f, !.key = license[l].license_key])
    /\ unchangedStore /\ UNCHANGED tokens

ActivateRegister(p) ==
    LET r == req[p] IN
    /\ at(p, {"activate"}, "register")
    /\ UNCHANGED tokens
    /\ \/ \E u \in UsageIds :
            /\ registerUsage(r.l, r.f, u, r.key)
            /\ proceed(p, [r EXCEPT !.at = "issue", !.u = u,
                                    !.snap = license'[r.l]])
       \/ \E u \in findActiveUsage(r.l, r.f) :
            /\ assertUsable(license[r.l])
            /\ proceed(p, [r EXCEPT !.at = "issue", !.u = u,
                                    !.snap = license[r.l]])
            /\ unchangedStore
       \/ /\ \/ ~assertUsable(license[r.l])
             \/ /\ findActiveUsage(r.l, r.f) = {}
                /\ \/ countActiveUsages(r.l) >= license[r.l].max_usages
                   \/ \A u \in UsageIds : usage[u].status # "none" \* bound
          /\ respond(p)
          /\ unchangedStore

\* issueToken on the license the request holds; it may also fail for want of
\* a signing key or its passphrase.
issueToken(p) ==
    /\ at(p, {"activate", "refresh"}, "issue")
    /\ \/ /\ effectiveStatus(req[p].snap, now) \in {"active", "grace"}
          /\ tokens' = tokens \cup {[usage |-> req[p].u, exp |-> now + TTL]}
       \/ UNCHANGED tokens
    /\ respond(p)
    /\ unchangedStore

----------------------------------------------------------------------------
(* POST /refresh, /heartbeat, /deactivate: verify the token, then read.    *)

RefreshVerify(p, t) ==
    /\ verifyClientToken(t, TTL)
    /\ begin(p, [Idle EXCEPT !.op = "refresh", !.at = "license",
                             !.l = usage[t.usage].license, !.u = t.usage])
    /\ unchangedStore /\ UNCHANGED tokens

HeartbeatVerify(p, t) ==
    /\ verifyClientToken(t, 0)
    /\ begin(p, [Idle EXCEPT !.op = "heartbeat", !.at = "license",
                             !.l = usage[t.usage].license, !.u = t.usage])
    /\ unchangedStore /\ UNCHANGED tokens

DeactivateVerify(p, t) ==
    /\ verifyClientToken(t, 0)
    /\ begin(p, [Idle EXCEPT !.op = "deactivate", !.at = "usage",
                             !.u = t.usage])
    /\ unchangedStore /\ UNCHANGED tokens

GetLicense(p) ==
    LET r == req[p] IN
    /\ at(p, {"refresh", "heartbeat"}, "license")
    /\ IF r.op = "heartbeat" /\ license[r.l].status \in {"revoked", "suspended"}
       THEN respond(p)
       ELSE proceed(p, [r EXCEPT !.at = "usage", !.snap = license[r.l]])
    /\ unchangedStore /\ UNCHANGED tokens

GetUsage(p) ==
    LET r == req[p] IN
    /\ at(p, {"refresh", "heartbeat", "deactivate"}, "usage")
    /\ IF usage[r.u].status # "active"
       THEN respond(p)
       ELSE proceed(p, [r EXCEPT !.at = IF r.op = "refresh" THEN "issue"
                                        ELSE "write"])
    /\ unchangedStore /\ UNCHANGED tokens

\* storage.updateUsage(usageId, {last_seen_at}), no transaction.
HeartbeatWrite(p) ==
    /\ at(p, {"heartbeat"}, "write")
    /\ touchUsage(req[p].u)
    /\ respond(p)
    /\ UNCHANGED tokens

DeactivateWrite(p) ==
    /\ at(p, {"deactivate"}, "write")
    /\ \/ revokeUsage(req[p].u)
       \/ usage[req[p].u].status # "active" /\ unchangedStore
    /\ respond(p)
    /\ UNCHANGED tokens

----------------------------------------------------------------------------
(* The admin's license routes: getLicense first, then a transaction that   *)
(* is handed the row read before.                                          *)

AdminGetLicense(p, l) ==
    /\ license[l].status # "absent"
    /\ \E op \in {"suspend", "resume", "revoke", "renew", "delete"} :
          begin(p, [Idle EXCEPT !.op = op, !.l = l, !.snap = license[l],
                                !.at = IF op = "delete" THEN "seats" ELSE "tx"])
    /\ unchangedStore /\ UNCHANGED tokens

\* handleDeleteLicense: 409 while listUsages finds an active seat.
DeleteListUsages(p) ==
    /\ at(p, {"delete"}, "seats")
    /\ IF activeUsages(req[p].l) # {}
       THEN respond(p)
       ELSE proceed(p, [req[p] EXCEPT !.at = "tx"])
    /\ unchangedStore /\ UNCHANGED tokens

AdminTransaction(p) ==
    LET r == req[p] IN
    /\ \/ /\ at(p, {"suspend"}, "tx")
          /\ suspend(r.l, r.snap) \/ (~maySuspend(r.snap) /\ UNCHANGED <<license, audit>>)
       \/ /\ at(p, {"resume"}, "tx")
          /\ resume(r.l, r.snap) \/ (~mayResume(r.snap) /\ UNCHANGED <<license, audit>>)
       \/ /\ at(p, {"revoke", "delete"}, "tx")
          /\ revoke(r.l, r.snap) \/ (~mayRevoke(r.snap) /\ UNCHANGED <<license, audit>>)
       \/ /\ at(p, {"renew"}, "tx")
          /\ \/ \E exp \in Dates \ {Null},
                   grace \in (Dates \ {Null}) \cup {Undefined} :
                   renew(r.l, r.snap, exp, grace)
             \/ ~mayRenew(r.snap) /\ UNCHANGED <<license, audit>>
    /\ UNCHANGED <<usage, seatAudit, tokens>>
    /\ respond(p)

\* Routes that change the store in one step: handleCreateLicense,
\* handleUpdateLicense, handleRevokeUsage, handleRotateLicenseKey.
AdminDirect ==
    /\ \/ /\ "create" \in Requests
          /\ \E l \in Licenses, max \in 1..MaxUsages, exp, grace \in Dates :
                createLicense(l, max, exp, grace)
       \/ /\ "update" \in Requests
          /\ \E l \in Licenses :
                \/ \E max \in 1..MaxUsages :
                      updateLicense(l, max, Undefined, Undefined)
                \/ \E exp, grace \in Dates \cup {Undefined} :
                      updateLicense(l, Undefined, exp, grace)
       \/ "revokeUsage" \in Requests /\ \E u \in UsageIds : revokeUsage(u)
       \/ "rotate" \in Requests /\ \E l \in Licenses : rotateLicenseKey(l)
    /\ UNCHANGED <<req, tokens>>

----------------------------------------------------------------------------
(* Host jobs: the scheduled tick, and sweepInactiveUsages, which collects  *)
(* in one transaction and revokes each seat in one of its own.             *)

TickJob == /\ "tick" \in Requests
           /\ \E l \in Licenses : tick(l, license[l])
           /\ UNCHANGED <<usage, seatAudit, req, tokens>>

SweepCollect(p) ==
    /\ begin(p, [Idle EXCEPT !.op = "sweep", !.at = "write",
                             !.todo = staleUsages(IdleFor)])
    /\ req'[p].todo # {}
    /\ unchangedStore /\ UNCHANGED tokens

SweepRevoke(p) ==
    /\ at(p, {"sweep"}, "write")
    /\ \E u \in req[p].todo :
         /\ revokeUsage(u) \/ (usage[u].status # "active" /\ unchangedStore)
         /\ IF req[p].todo = {u} THEN respond(p)
            ELSE proceed(p, [req[p] EXCEPT !.todo = @ \ {u}])
    /\ UNCHANGED tokens

----------------------------------------------------------------------------
\* Auxiliary: the seats that were live at some moment of the request so far.
Observe ==
    seenLive' = [p \in Procs |->
        IF req'[p].op = "idle" THEN {}
        ELSE Live' \cup (IF req[p].op = "idle" THEN Live ELSE seenLive[p])]

HTTPInit == Init /\ req = [p \in Procs |-> Idle] /\ tokens = {}
                 /\ seenLive = [p \in Procs |-> {}]

Step(p) ==
    \/ \E l \in Licenses, f \in Fingerprints : ActivateFind(p, l, f)
    \/ ActivateRegister(p)
    \/ issueToken(p)
    \/ \E t \in tokens : \/ RefreshVerify(p, t)
                         \/ HeartbeatVerify(p, t)
                         \/ DeactivateVerify(p, t)
    \/ GetLicense(p) \/ GetUsage(p) \/ HeartbeatWrite(p) \/ DeactivateWrite(p)
    \/ \E l \in Licenses : AdminGetLicense(p, l)
    \/ DeleteListUsages(p) \/ AdminTransaction(p)
    \/ SweepCollect(p) \/ SweepRevoke(p)

HTTPAdvance == Advance /\ UNCHANGED <<req, tokens>>

HTTPNext ==
    /\ \/ HTTPAdvance
       \/ /\ UNCHANGED now
          /\ (\E p \in Procs : Step(p)) \/ AdminDirect \/ TickJob
    /\ Observe

HTTPSpec == HTTPInit /\ [][HTTPNext]_httpVars

----------------------------------------------------------------------------
\* The store's tables, the requests in flight and the tokens are well formed.
HTTPTypeOK ==
    /\ TypeOK
    /\ req \in [Procs -> Request]
    /\ tokens \subseteq Token
    /\ seenLive \in [Procs -> SUBSET UsageIds]

\* /activate and /refresh read the license, the seat and the clock at
\* different moments and issue from what they read.  Still, a token is only
\* ever issued for a seat that was live, on a license that was usable, at
\* one and the same moment of the request that issued it.
TokenHadLiveMoment ==
    [][\A t \in tokens' \ tokens :
         \E p \in Procs : /\ req[p].op \in {"activate", "refresh"}
                          /\ req[p].u = t.usage
                          /\ t.usage \in seenLive[p]]_httpVars

\* A revoked seat stays revoked, whatever heartbeat, deactivation, sweep or
\* re-activation of the same device is still in flight.
RevokedSeatStaysRevoked ==
    [][\A u \in UsageIds : usage[u].status = "revoked"
                            => usage'[u].status = "revoked"]_httpVars

\* rotateLicenseKey: "forcing each device to re-activate with the new key".
\* No live seat was obtained with a key that has been rotated away.
RotationEvictsOldKey ==
    \A u \in UsageIds :
        usage[u].status = "active"
        => usage[u].key = license[usage[u].license].license_key

\* sweepInactiveUsages: "Revokes active seats whose last heartbeat is older
\* than inactiveForSec".  A seat a sweep revokes is stale when it does.
SweepSparesLiveSeats ==
    [][\A p \in Procs, u \in UsageIds :
         /\ req[p].op = "sweep" /\ u \in req[p].todo \ req'[p].todo
         /\ usage[u].status = "active" /\ usage'[u].status = "revoked"
         => usage[u].last_seen_at < now - IdleFor]_httpVars

\* deleteLicense: "Fails with 409 if any usages are still active".  A delete
\* that goes through leaves no live seat behind.
DeleteLeavesNoSeat ==
    [][\A p \in Procs :
         /\ req[p].op = "delete" /\ req'[p].op = "idle"
         /\ license[req[p].l].status # "revoked"
         /\ license'[req[p].l].status = "revoked"
         => activeUsages(req[p].l) = {}]_httpVars
=============================================================================
