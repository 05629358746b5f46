----------------------------- MODULE Licensing -----------------------------
(***************************************************************************)
(* The issuer's license and seat store and the operations of               *)
(* license-service.ts, usage-service.ts and lifecycle.ts on it, each       *)
(* running alone: one operation is one step.  This is what the Go port's   *)
(* handlers get from WithTransaction (they read the row inside the         *)
(* transaction); IssuerHTTP takes the TypeScript handlers apart into the   *)
(* storage calls they really are.                                          *)
(***************************************************************************)
EXTENDS Lifecycle, FiniteSets

CONSTANTS Licenses,         \* one per licensable (type, id, scope)
          Fingerprints,     \* devices
          UsageIds,         \* ids of usage rows; bounds the rows ever made
          MaxUsages,        \* bound on the max_usages an admin asks for
          Dates,            \* the end dates an admin asks for
          MaxTime,          \* bound on the clock
          MaxRotations      \* bound on key rotations of a license

ASSUME BoundsAssumption == /\ MaxUsages \in Nat \ {0}
                           /\ Dates \subseteq OptInstant
                           /\ MaxTime \in Nat
                           /\ MaxRotations \in Nat

VARIABLES now,              \* the issuer's clock
          license,          \* the licenses table
          usage,            \* the license_usages table
          audit,            \* per license: its last lifecycle audit row
          seatAudit         \* per usage: audit rows telling of its end

storeVars == <<license, usage, audit, seatAudit>>
vars == <<now, license, usage, audit, seatAudit>>

\* A usage row.  key is auxiliary: the license key (rotation number) the
\* device presented; the code does not store it.
Usage == [license      : Licenses \cup {Null},
          fingerprint  : Fingerprints \cup {Null},
          status       : {"none", "active", "revoked"},
          last_seen_at : Instant,
          key          : Nat]

NoUsage == [license |-> Null, fingerprint |-> Null, status |-> "none",
            last_seen_at |-> 0, key |-> 0]

\* A lifecycle audit row: the status in prior_state and in new_state.
AuditRow == [prior : LicenseStatus \cup {"absent"},
             new   : LicenseStatus \cup {"absent"}]


----------------------------------------------------------------------------
(* Slips, as in Lifecycle.                                                 *)

findActiveUsage_NeverFinds(l, f) == {}
countActiveUsages_OneLess(l) ==
    Cardinality({u \in UsageIds : usage[u].license = l
                                  /\ usage[u].status = "active"}) - 1
transition_AuditsPriorTwice(l, snap, row) ==
    /\ license' = [license EXCEPT ![l] = row]
    /\ audit' = [audit EXCEPT ![l] = [prior |-> snap.status,
                                      new |-> snap.status]]
transition_AuditsNewTwice(l, snap, row) ==
    /\ license' = [license EXCEPT ![l] = row]
    /\ audit' = [audit EXCEPT ![l] = [prior |-> row.status,
                                      new |-> row.status]]
revokeUsage_AlsoRevoked(u) ==
    /\ usage[u].status # "none"
    /\ usage' = [usage EXCEPT ![u].status = "revoked"]
    /\ seatAudit' = [seatAudit EXCEPT ![u] = @ + 1]
    /\ UNCHANGED <<license, audit>>
touchUsage_WritesWholeRow(u) ==
    /\ usage[u].status # "none"
    /\ usage' = [usage EXCEPT ![u].last_seen_at = now, ![u].status = "active"]
    /\ UNCHANGED <<license, audit, seatAudit>>

----------------------------------------------------------------------------
\* listUsages({license_id, status: ['active']})
activeUsages(l) == {u \in UsageIds : usage[u].license = l
                                     /\ usage[u].status = "active"}
countActiveUsages(l) == Cardinality(activeUsages(l))

findActiveUsage(l, f) == {u \in activeUsages(l) : usage[u].fingerprint = f}

\* updateLicense + writeAudit: the shape of every lifecycle transition.
transition(l, snap, row) ==
    /\ license' = [license EXCEPT ![l] = row]
    /\ audit' = [audit EXCEPT ![l] = [prior |-> snap.status,
                                      new |-> row.status]]

----------------------------------------------------------------------------
(* lifecycle.ts.  A call whose guard fails returns or throws, and changes  *)
(* nothing.                                                                *)

activate(l, snap) == mayActivate(snap)
                     /\ transition(l, snap, activated(license[l]))
suspend(l, snap)  == maySuspend(snap)
                     /\ transition(l, snap, suspended(license[l]))
resume(l, snap)   == mayResume(snap)
                     /\ transition(l, snap, resumed(license[l]))
revoke(l, snap)   == mayRevoke(snap)
                     /\ transition(l, snap, revoked(license[l]))
expire(l, snap)   == mayExpire(snap)
                     /\ transition(l, snap, expired(license[l]))
tick(l, snap)     == mayTick(snap, now)
                     /\ transition(l, snap, ticked(snap, license[l], now))
renew(l, snap, exp, grace) ==
    mayRenew(snap) /\ transition(l, snap, renewed(license[l], exp, grace))

----------------------------------------------------------------------------
(* license-service.ts                                                      *)

\* createLicense as the admin route calls it: status defaults to pending.
createLicense(l, max, exp, grace) ==
    /\ license[l].status = "absent"
    /\ transition(l, license[l],
                  [status |-> "pending", max_usages |-> max,
                   license_key |-> 0, activated |-> FALSE,
                   expires_at |-> exp, grace_until |-> grace])
    /\ UNCHANGED <<usage, seatAudit>>

\* rotateLicenseKey: a new key, every live seat revoked, and one audit row with
\* the number of seats it ended, which seatAudit counts for each of them.
rotateLicenseKey(l) ==
    /\ license[l].status \notin {"absent", "revoked"}
    /\ license[l].license_key < MaxRotations
    /\ license' = [license EXCEPT ![l].license_key = @ + 1]
    /\ usage' = [u \in UsageIds |->
                   IF u \in activeUsages(l)
                   THEN [usage[u] EXCEPT !.status = "revoked"]
                   ELSE usage[u]]
    /\ seatAudit' = [u \in UsageIds |->
                       IF u \in activeUsages(l) THEN seatAudit[u] + 1
                       ELSE seatAudit[u]]
    /\ UNCHANGED audit

----------------------------------------------------------------------------
(* usage-service.ts                                                        *)

\* The first seat of a pending license activates it.
promote(l) == IF license[l].status = "pending"
              THEN activate(l, license[l])
              ELSE UNCHANGED <<license, audit>>

\* registerUsage by device f, which presented key k, taking row id u.  The
\* re-registration of a seated device and every rejection change nothing.
registerUsage(l, f, u, k) ==
    /\ assertUsable(license[l])
    /\ findActiveUsage(l, f) = {}
    /\ countActiveUsages(l) < license[l].max_usages
    /\ usage[u].status = "none"
    /\ usage' = [usage EXCEPT ![u] =
                   [license |-> l, fingerprint |-> f, status |-> "active",
                    last_seen_at |-> now, key |-> k]]
    /\ promote(l)
    /\ UNCHANGED seatAudit

\* revokeUsage: not found throws, already revoked returns.
revokeUsage(u) ==
    /\ usage[u].status = "active"
    /\ usage' = [usage EXCEPT ![u].status = "revoked"]
    /\ seatAudit' = [seatAudit EXCEPT ![u] = @ + 1]
    /\ UNCHANGED <<license, audit>>

\* Seats a sweep with inactiveForSec = idle finds stale.
staleUsages(idle) == {u \in UsageIds : usage[u].status = "active"
                                       /\ usage[u].last_seen_at < now - idle}

\* sweepInactiveUsages: collect the stale seats, then revoke each.
sweepInactiveUsages(idle) ==
    /\ usage' = [u \in UsageIds |->
                   IF u \in staleUsages(idle)
                   THEN [usage[u] EXCEPT !.status = "revoked"]
                   ELSE usage[u]]
    /\ seatAudit' = [u \in UsageIds |->
                       IF u \in staleUsages(idle) THEN seatAudit[u] + 1
                       ELSE seatAudit[u]]
    /\ UNCHANGED <<license, audit>>

----------------------------------------------------------------------------
(* Single storage writes the HTTP handlers make outside a transaction.     *)

\* storage.updateUsage(id, {last_seen_at})
touchUsage(u) ==
    /\ usage[u].status # "none"
    /\ usage' = [usage EXCEPT ![u].last_seen_at = now]
    /\ UNCHANGED <<license, audit, seatAudit>>

\* storage.updateLicense(id, patch) as PATCH /licenses/:id calls it, a
\* member the patch leaves out being Undefined; no audit row.
patched(row, max, exp, grace) ==
    [row EXCEPT !.max_usages  = IF max = Undefined THEN @ ELSE max,
                !.expires_at  = IF exp = Undefined THEN @ ELSE exp,
                !.grace_until = IF grace = Undefined THEN @ ELSE grace]

updateLicense(l, max, exp, grace) ==
    /\ license[l].status # "absent"
    /\ license' = [license EXCEPT ![l] = patched(@, max, exp, grace)]
    /\ UNCHANGED <<usage, audit, seatAudit>>

----------------------------------------------------------------------------
Init ==
    /\ now = 0
    /\ license = [l \in Licenses |-> NoLicense]
    /\ usage = [u \in UsageIds |-> NoUsage]
    /\ audit = [l \in Licenses |-> [prior |-> "absent", new |-> "absent"]]
    /\ seatAudit = [u \in UsageIds |-> 0]

Advance == now < MaxTime /\ now' = now + 1 /\ UNCHANGED storeVars

Transition(l) ==
    /\ \/ activate(l, license[l])
       \/ suspend(l, license[l])
       \/ resume(l, license[l])
       \/ revoke(l, license[l])
       \/ expire(l, license[l])
       \/ tick(l, license[l])
       \/ \E exp \in Dates, grace \in Dates \cup {Undefined} :
             renew(l, license[l], exp, grace)
    /\ UNCHANGED <<usage, seatAudit>>

Heartbeat(u) ==
    /\ usage[u].status = "active"
    /\ license[usage[u].license].status \notin {"revoked", "suspended"}
    /\ touchUsage(u)

Operation ==
    \/ \E l \in Licenses :
         \/ \E max \in 1..MaxUsages, exp, grace \in Dates :
               createLicense(l, max, exp, grace)
         \/ \E max \in 1..MaxUsages :
               updateLicense(l, max, Undefined, Undefined)
         \/ \E exp, grace \in Dates \cup {Undefined} :
               updateLicense(l, Undefined, exp, grace)
         \/ Transition(l)
         \/ rotateLicenseKey(l)
         \/ \E f \in Fingerprints, u \in UsageIds :
               registerUsage(l, f, u, license[l].license_key)
    \/ \E u \in UsageIds : revokeUsage(u) \/ Heartbeat(u)
    \/ \E idle \in 1..MaxTime : sweepInactiveUsages(idle)

Next == Advance \/ (Operation /\ UNCHANGED now)

Spec == Init /\ [][Next]_vars

----------------------------------------------------------------------------
\* Every table holds rows of its schema.
TypeOK ==
    /\ now \in Instant
    /\ license \in [Licenses -> License]
    /\ usage \in [UsageIds -> Usage]
    /\ audit \in [Licenses -> AuditRow]
    /\ seatAudit \in [UsageIds -> Nat]

\* However registrations, revocations, rotations and sweeps follow each
\* other, a device holds at most one live seat of a license
\* (usage-service.ts: re-registration is idempotent on the fingerprint).
OneSeatPerDevice ==
    \A u, v \in UsageIds :
        /\ usage[u].status = "active"
        /\ usage[v].status = "active"
        /\ usage[u].license = usage[v].license
        /\ usage[u].fingerprint = usage[v].fingerprint
        => u = v

\* The end of a seat is told exactly once by the audit log, whichever of
\* revokeUsage, rotateLicenseKey or a sweep ended it, and a live or unused
\* row is told of never.
SeatEndAuditedOnce ==
    \A u \in UsageIds :
        seatAudit[u] = IF usage[u].status = "revoked" THEN 1 ELSE 0

\* A license any device was ever seated on has left pending for good: the
\* first registerUsage promotes it and no later operation takes it back.
SeatedLeftPending ==
    \A u \in UsageIds :
        usage[u].status # "none" =>
            /\ usage[u].license \in Licenses
            /\ license[usage[u].license].status \notin {"absent", "pending"}

\* Replaying the lifecycle audit rows of a license gives its stored status.
AuditMatchesRow == \A l \in Licenses : audit[l].new = license[l].status

\* lifecycle.ts: revoked is terminal, no transition leaves it.
RevokedIsTerminal ==
    [][\A l \in Licenses : license[l].status = "revoked"
                            => license'[l].status = "revoked"]_vars

\* A new lifecycle audit row starts where the last one ended: the rows of a
\* license chain, so none tells of a transition that did not happen.
AuditChains ==
    [][\A l \in Licenses : audit'[l] # audit[l]
                            => audit'[l].prior = audit[l].new]_vars

\* An operation that adds a live seat leaves at most max_usages of them.
\* (A PATCH may lower max_usages below the seats already taken.)
SeatsWithinCap ==
    [][\A l \in Licenses :
         Cardinality(activeUsages(l)') > Cardinality(activeUsages(l))
         => Cardinality(activeUsages(l)') <= license'[l].max_usages]_vars

\* Persisting a status the clock already implies (tick, or expire once it
\* is due) is invisible: readers see the same effective status as before,
\* now and at every later instant.
PersistedLikeEffective ==
    [][\A l \in Licenses :
         /\ license'[l].status # license[l].status
         /\ license'[l].status = effectiveStatus(license[l], now)
         => \A t \in now..MaxTime :
               effectiveStatus(license'[l], t)
               = effectiveStatus(license[l], t)]_vars
=============================================================================
