-------------------------- MODULE LicensingProofs --------------------------
(***************************************************************************)
(* Theorems about Licensing, for any licenses, devices, usage rows and     *)
(* bounds; and, in the second half, about IssuerHTTP.  Its handlers        *)
(* interleave at every await and pass rows they read earlier to the        *)
(* operations of Licensing, so the theorems of the first half, where       *)
(* operations run alone, do not carry over by themselves.  Those that      *)
(* survive are proved there, for any number of requests in flight.         *)
(***************************************************************************)
EXTENDS IssuerHTTP, FiniteSetTheorems, TLAPS

\* What a reader sees is a status, for any row of the table.
LEMMA EffectiveStatusType ==
    ASSUME NEW lic \in License, NEW t \in Nat
    PROVE  effectiveStatus(lic, t) \in LicenseStatus \cup {"absent"}
BY DEF effectiveStatus, License, LicenseStatus

\* Each lifecycle patch turns a row into a row.
LEMMA PatchTypes ==
    ASSUME NEW row \in License, NEW snap \in License, NEW t \in Nat,
           NEW exp \in OptInstant, NEW grace \in OptInstant \cup {Undefined}
    PROVE  /\ activated(row) \in License
           /\ suspended(row) \in License
           /\ resumed(row) \in License
           /\ revoked(row) \in License
           /\ expired(row) \in License
           /\ ticked(snap, row, t) \in License
           /\ renewed(row, exp, grace) \in License
BY EffectiveStatusType
   DEF activated, suspended, resumed, revoked, expired, ticked, renewed,
       License, LicenseStatus

\* A transition keeps the license and audit tables well typed.
LEMMA TransitionType ==
    ASSUME TypeOK, NEW l \in Licenses, NEW snap \in License,
           NEW row \in License, transition(l, snap, row)
    PROVE  /\ license' \in [Licenses -> License]
           /\ audit' \in [Licenses -> AuditRow]
BY DEF transition, TypeOK, AuditRow, License

\* The lifecycle functions, called with the row in storage, keep the types.
LEMMA LifecycleType ==
    ASSUME TypeOK, NEW l \in Licenses, Transition(l)
    PROVE  /\ license' \in [Licenses -> License]
           /\ audit' \in [Licenses -> AuditRow]
<1>1. license[l] \in License /\ now \in Nat
  BY DEF TypeOK, Instant
<1>2. ASSUME NEW exp \in Dates, NEW grace \in Dates \cup {Undefined},
             renew(l, license[l], exp, grace)
      PROVE  /\ license' \in [Licenses -> License]
             /\ audit' \in [Licenses -> AuditRow]
  <2>1. exp \in OptInstant /\ grace \in OptInstant \cup {Undefined}
    BY BoundsAssumption
  <2>2. renewed(license[l], exp, grace) \in License
    BY <1>1, <2>1, PatchTypes
  <2> QED
    BY <1>1, <1>2, <2>2, TransitionType DEF renew
<1>3. /\ activated(license[l]) \in License
      /\ suspended(license[l]) \in License
      /\ resumed(license[l]) \in License
      /\ revoked(license[l]) \in License
      /\ expired(license[l]) \in License
      /\ ticked(license[l], license[l], now) \in License
  BY <1>1, PatchTypes DEF OptInstant, Instant
<1> QED
  BY <1>1, <1>2, <1>3, TransitionType
     DEF Transition, activate, suspend, resume, revoke, expire, tick

\* Type correctness: every table always holds rows of its schema.
THEOREM TypeCorrect == Spec => []TypeOK
<1>1. Init => TypeOK
  BY DEF Init, TypeOK, NoLicense, NoUsage, License, Usage, AuditRow,
         LicenseStatus, OptInstant, Instant
<1>2. TypeOK /\ [Next]_vars => TypeOK'
  <2> SUFFICES ASSUME TypeOK, [Next]_vars PROVE TypeOK'
    OBVIOUS
  <2>1. CASE UNCHANGED vars
    BY <2>1 DEF vars, TypeOK
  <2>2. CASE Advance
    BY <2>2 DEF Advance, storeVars, TypeOK, Instant
  <2>3. ASSUME NEW l \in Licenses, NEW max \in 1..MaxUsages,
               NEW exp \in Dates, NEW grace \in Dates,
               createLicense(l, max, exp, grace), UNCHANGED now
        PROVE  TypeOK'
    <3>1. license[l] \in License
      BY DEF TypeOK
    <3>2. [status |-> "pending", max_usages |-> max, license_key |-> 0,
           activated |-> FALSE, expires_at |-> exp, grace_until |-> grace]
             \in License
      BY BoundsAssumption DEF License, LicenseStatus
    <3> QED
      BY <2>3, <3>1, <3>2, TransitionType DEF createLicense, TypeOK
  <2>4. ASSUME NEW l \in Licenses, NEW max \in (1..MaxUsages) \cup {Undefined},
               NEW exp \in Dates \cup {Undefined},
               NEW grace \in Dates \cup {Undefined},
               updateLicense(l, max, exp, grace), UNCHANGED now
        PROVE  TypeOK'
    <3>1. /\ max \in (Nat \ {0}) \cup {Undefined}
          /\ exp \in OptInstant \cup {Undefined}
          /\ grace \in OptInstant \cup {Undefined}
      BY BoundsAssumption
    <3>2. license[l] \in License
      BY DEF TypeOK
    <3>3. patched(license[l], max, exp, grace) \in License
      BY <3>1, <3>2 DEF patched, License
    <3> QED
      BY <2>4, <3>3 DEF updateLicense, TypeOK
  <2>5. ASSUME NEW l \in Licenses, Transition(l), UNCHANGED now
        PROVE  TypeOK'
    BY <2>5, LifecycleType DEF Transition, TypeOK
  <2>6. ASSUME NEW l \in Licenses, rotateLicenseKey(l), UNCHANGED now
        PROVE  TypeOK'
    <3>1. license' \in [Licenses -> License]
      BY <2>6 DEF rotateLicenseKey, TypeOK, License
    <3>2. usage' \in [UsageIds -> Usage]
      BY <2>6 DEF rotateLicenseKey, TypeOK, Usage
    <3>3. seatAudit' \in [UsageIds -> Nat]
      BY <2>6 DEF rotateLicenseKey, TypeOK
    <3> QED
      BY <2>6, <3>1, <3>2, <3>3 DEF rotateLicenseKey, TypeOK
  <2>7. ASSUME NEW l \in Licenses, NEW f \in Fingerprints, NEW u \in UsageIds,
               registerUsage(l, f, u, license[l].license_key), UNCHANGED now
        PROVE  TypeOK'
    <3>1. license[l] \in License /\ activated(license[l]) \in License
      BY PatchTypes DEF TypeOK, Instant, OptInstant
    <3>2. /\ license' \in [Licenses -> License]
          /\ audit' \in [Licenses -> AuditRow]
      BY <2>7, <3>1, TransitionType
         DEF registerUsage, promote, activate, TypeOK
    <3>3. usage' \in [UsageIds -> Usage]
      BY <2>7, <3>1 DEF registerUsage, TypeOK, Usage, License
    <3> QED
      BY <2>7, <3>2, <3>3 DEF registerUsage, TypeOK
  <2>8. ASSUME NEW u \in UsageIds, revokeUsage(u), UNCHANGED now
        PROVE  TypeOK'
    BY <2>8 DEF revokeUsage, TypeOK, Usage
  <2>9. ASSUME NEW u \in UsageIds, Heartbeat(u), UNCHANGED now
        PROVE  TypeOK'
    BY <2>9 DEF Heartbeat, touchUsage, TypeOK, Usage
  <2>10. ASSUME NEW idle \in 1..MaxTime, sweepInactiveUsages(idle),
                UNCHANGED now
         PROVE  TypeOK'
    BY <2>10 DEF sweepInactiveUsages, TypeOK, Usage
  <2> QED
    BY <2>1, <2>2, <2>3, <2>4, <2>5, <2>6, <2>7, <2>8, <2>9, <2>10
       DEF Next, Operation
<1> QED
  BY <1>1, <1>2, PTL DEF Spec

----------------------------------------------------------------------------
\* One step moves a license's status only by a lifecycle transition or its
\* creation: it leaves no revoked row, writes the audit row of exactly that
\* change, and only a row that did not exist becomes pending.
StatusMoves(l) ==
    \/ license'[l].status = license[l].status /\ audit'[l] = audit[l]
    \/ /\ audit'[l] = [prior |-> license[l].status,
                       new |-> license'[l].status]
       /\ license[l].status # "revoked"
       /\ license'[l].status \in LicenseStatus
       /\ license'[l].status = "pending" => license[l].status = "absent"

\* The lifecycle functions, called with the row in storage.
LEMMA LifecycleMoves ==
    ASSUME TypeOK, NEW k \in Licenses, Transition(k), NEW l \in Licenses
    PROVE  StatusMoves(l)
<1> USE DEF StatusMoves, transition, TypeOK, License, LicenseStatus, AuditRow
<1>1. CASE activate(k, license[k])
  BY <1>1 DEF activate, mayActivate, activated
<1>2. CASE suspend(k, license[k])
  BY <1>2 DEF suspend, maySuspend, suspended
<1>3. CASE resume(k, license[k])
  BY <1>3 DEF resume, mayResume, resumed
<1>4. CASE revoke(k, license[k])
  BY <1>4 DEF revoke, mayRevoke, revoked
<1>5. CASE expire(k, license[k])
  BY <1>5 DEF expire, mayExpire, expired
<1>6. CASE tick(k, license[k])
  BY <1>6 DEF tick, mayTick, ticked, effectiveStatus
<1>7. ASSUME NEW exp \in Dates, NEW grace \in Dates \cup {Undefined},
             renew(k, license[k], exp, grace)
      PROVE  StatusMoves(l)
  BY <1>7 DEF renew, mayRenew, renewed
<1> QED
  BY <1>1, <1>2, <1>3, <1>4, <1>5, <1>6, <1>7 DEF Transition

LEMMA StatusStep ==
    ASSUME TypeOK, [Next]_vars, NEW l \in Licenses
    PROVE  StatusMoves(l)
<1>1. CASE UNCHANGED <<license, audit>>
  BY <1>1 DEF StatusMoves
<1>2. ASSUME NEW k \in Licenses, NEW max \in 1..MaxUsages,
             NEW exp \in Dates, NEW grace \in Dates,
             createLicense(k, max, exp, grace)
      PROVE  StatusMoves(l)
  BY <1>2 DEF createLicense, transition, StatusMoves, TypeOK, License,
              LicenseStatus, AuditRow
<1>3. ASSUME NEW k \in Licenses, NEW max, NEW exp, NEW grace,
             updateLicense(k, max, exp, grace)
      PROVE  StatusMoves(l)
  BY <1>3 DEF updateLicense, patched, StatusMoves, TypeOK, License
<1>4. ASSUME NEW k \in Licenses, Transition(k)
      PROVE  StatusMoves(l)
  BY <1>4, LifecycleMoves
<1>5. ASSUME NEW k \in Licenses, rotateLicenseKey(k)
      PROVE  StatusMoves(l)
  BY <1>5 DEF rotateLicenseKey, StatusMoves, TypeOK, License
<1>6. ASSUME NEW k \in Licenses, NEW f \in Fingerprints, NEW u \in UsageIds,
             registerUsage(k, f, u, license[k].license_key)
      PROVE  StatusMoves(l)
  <2>1. CASE license[k].status = "pending"
    <3>1. transition(k, license[k], activated(license[k]))
      BY <1>6, <2>1 DEF registerUsage, promote, activate
    <3> QED
      BY <2>1, <3>1 DEF transition, activated, StatusMoves, TypeOK, License,
                        LicenseStatus, AuditRow
  <2>2. CASE license[k].status # "pending"
    BY <1>6, <2>2 DEF registerUsage, promote, StatusMoves
  <2> QED
    BY <2>1, <2>2
<1> QED
  BY <1>1, <1>2, <1>3, <1>4, <1>5, <1>6
     DEF Next, Operation, Advance, storeVars, vars, revokeUsage, Heartbeat,
         touchUsage, sweepInactiveUsages

\* Revoked is terminal: no operation, run alone, takes a license out of it.
THEOREM RevokedTerminal == Spec => RevokedIsTerminal
<1>1. TypeOK /\ [Next]_vars =>
        [\A l \in Licenses : license[l].status = "revoked"
                              => license'[l].status = "revoked"]_vars
  BY StatusStep DEF StatusMoves
<1> QED
  BY <1>1, TypeCorrect, PTL DEF Spec, RevokedIsTerminal

\* Replaying a license's audit rows always gives its stored status.
THEOREM AuditAgrees == Spec => []AuditMatchesRow
<1>1. Init => AuditMatchesRow
  BY DEF Init, AuditMatchesRow, NoLicense
<1>2. TypeOK /\ AuditMatchesRow /\ [Next]_vars => AuditMatchesRow'
  <2> SUFFICES ASSUME TypeOK, AuditMatchesRow, [Next]_vars, NEW l \in Licenses
               PROVE  audit'[l].new = license'[l].status
    BY DEF AuditMatchesRow
  <2>1. StatusMoves(l) /\ audit[l].new = license[l].status
    BY StatusStep DEF AuditMatchesRow
  <2> QED
    BY <2>1 DEF StatusMoves
<1> QED
  BY <1>1, <1>2, TypeCorrect, PTL DEF Spec

\* Each audit row of a license starts where the one before it ended.
THEOREM AuditIsChain == Spec => AuditChains
<1>1. TypeOK /\ AuditMatchesRow /\ [Next]_vars =>
        [\A l \in Licenses : audit'[l] # audit[l]
                              => audit'[l].prior = audit[l].new]_vars
  <2> SUFFICES ASSUME TypeOK, AuditMatchesRow, [Next]_vars, NEW l \in Licenses,
                      audit'[l] # audit[l]
               PROVE  audit'[l].prior = audit[l].new
    OBVIOUS
  <2>1. StatusMoves(l) /\ audit[l].new = license[l].status
    BY StatusStep DEF AuditMatchesRow
  <2> QED
    BY <2>1 DEF StatusMoves
<1> QED
  BY <1>1, TypeCorrect, AuditAgrees, PTL DEF Spec, AuditChains

----------------------------------------------------------------------------
\* One step changes a usage row by seating a device in an unused row, by
\* ending a live seat, or only in columns no seat property reads.
Kept(u) == /\ usage'[u].status = usage[u].status
           /\ usage'[u].license = usage[u].license
           /\ usage'[u].fingerprint = usage[u].fingerprint
           /\ seatAudit'[u] = seatAudit[u]

Ended(u) == /\ usage[u].status = "active"
            /\ usage'[u].status = "revoked"
            /\ usage'[u].license = usage[u].license
            /\ usage'[u].fingerprint = usage[u].fingerprint
            /\ seatAudit'[u] = seatAudit[u] + 1

Seated(l, f, u) == /\ \E k \in Nat : registerUsage(l, f, u, k)
                   /\ usage'[u].status = "active"
                   /\ usage'[u].license = l
                   /\ usage'[u].fingerprint = f

\* A step either seats one device, or ends some live seats and no more.
SeatsMove ==
    \/ \E l \in Licenses, f \in Fingerprints, u \in UsageIds :
         Seated(l, f, u) /\ \A v \in UsageIds \ {u} : Kept(v)
    \/ \A u \in UsageIds : Kept(u) \/ Ended(u)

\* registerUsage seats one device, whichever key it presented.
LEMMA RegisterSeats ==
    ASSUME TypeOK, NEW l \in Licenses, NEW f \in Fingerprints,
           NEW u \in UsageIds, NEW k \in Nat, registerUsage(l, f, u, k)
    PROVE  SeatsMove
<1>1. Seated(l, f, u)
  BY DEF registerUsage, Seated, TypeOK
<1>2. \A v \in UsageIds \ {u} : Kept(v)
  BY DEF registerUsage, Kept, TypeOK
<1> QED
  BY <1>1, <1>2 DEF SeatsMove

LEMMA SeatStep ==
    ASSUME TypeOK, [Next]_vars
    PROVE  SeatsMove
<1>1. ASSUME NEW l \in Licenses, NEW f \in Fingerprints, NEW u \in UsageIds,
             registerUsage(l, f, u, license[l].license_key)
      PROVE  SeatsMove
  <2>1. license[l].license_key \in Nat
    BY DEF TypeOK, License
  <2> QED
    BY <1>1, <2>1, RegisterSeats
<1>2. CASE UNCHANGED <<usage, seatAudit>>
  BY <1>2 DEF SeatsMove, Kept
<1>3. ASSUME NEW l \in Licenses, rotateLicenseKey(l), NEW u \in UsageIds
      PROVE  Kept(u) \/ Ended(u)
  BY <1>3 DEF rotateLicenseKey, activeUsages, Kept, Ended, TypeOK, Usage
<1>4. ASSUME NEW v \in UsageIds, revokeUsage(v), NEW u \in UsageIds
      PROVE  Kept(u) \/ Ended(u)
  BY <1>4 DEF revokeUsage, Kept, Ended, TypeOK, Usage
<1>5. ASSUME NEW v \in UsageIds, Heartbeat(v), NEW u \in UsageIds
      PROVE  Kept(u)
  BY <1>5 DEF Heartbeat, touchUsage, Kept, TypeOK, Usage
<1>6. ASSUME NEW idle \in 1..MaxTime, sweepInactiveUsages(idle),
             NEW u \in UsageIds
      PROVE  Kept(u) \/ Ended(u)
  BY <1>6 DEF sweepInactiveUsages, staleUsages, Kept, Ended, TypeOK, Usage
<1>7. ASSUME NEW l \in Licenses, Transition(l)
      PROVE  UNCHANGED <<usage, seatAudit>>
  BY <1>7 DEF Transition
<1> QED
  BY <1>1, <1>2, <1>3, <1>4, <1>5, <1>6, <1>7
     DEF Next, Operation, Advance, storeVars, vars, createLicense,
         updateLicense, SeatsMove

\* No step that moves the seats this way gives a device a second one.
LEMMA OneSeatKept ==
    ASSUME TypeOK, OneSeatPerDevice, SeatsMove
    PROVE  OneSeatPerDevice'
<1> SUFFICES ASSUME NEW u \in UsageIds, NEW v \in UsageIds,
                    usage'[u].status = "active", usage'[v].status = "active",
                    usage'[u].license = usage'[v].license,
                    usage'[u].fingerprint = usage'[v].fingerprint
             PROVE  u = v
  BY DEF OneSeatPerDevice
<1>1. CASE \A w \in UsageIds : Kept(w) \/ Ended(w)
  BY <1>1 DEF OneSeatPerDevice, Kept, Ended
<1>2. ASSUME NEW l \in Licenses, NEW f \in Fingerprints, NEW w \in UsageIds,
             Seated(l, f, w), \A x \in UsageIds \ {w} : Kept(x)
      PROVE  u = v
  <2>1. findActiveUsage(l, f) = {}
    BY <1>2 DEF Seated, registerUsage
  <2>2. ASSUME NEW x \in UsageIds, usage[x].status = "active",
               usage[x].license = l
        PROVE  usage[x].fingerprint # f
    BY <2>1, <2>2 DEF findActiveUsage, activeUsages
  <2>3. CASE u # w /\ v # w
    BY <1>2, <2>3 DEF Kept, OneSeatPerDevice
  <2>4. CASE u = w /\ v # w
    BY <1>2, <2>2, <2>4 DEF Kept, Seated
  <2>5. CASE u # w /\ v = w
    BY <1>2, <2>2, <2>5 DEF Kept, Seated
  <2> QED
    BY <2>3, <2>4, <2>5
<1> QED
  BY <1>1, <1>2 DEF SeatsMove

\* A device never holds two live seats of one license.
THEOREM DeviceSeatedOnce == Spec => []OneSeatPerDevice
<1>1. Init => OneSeatPerDevice
  BY DEF Init, OneSeatPerDevice, NoUsage
<1>2. TypeOK /\ OneSeatPerDevice /\ [Next]_vars => OneSeatPerDevice'
  BY SeatStep, OneSeatKept
<1> QED
  BY <1>1, <1>2, TypeCorrect, PTL DEF Spec

\* Nor does such a step audit an end twice, or a live seat.
LEMMA AuditedOnceKept ==
    ASSUME TypeOK, SeatEndAuditedOnce, SeatsMove
    PROVE  SeatEndAuditedOnce'
<1> SUFFICES ASSUME NEW u \in UsageIds
             PROVE  seatAudit'[u] =
                      IF usage'[u].status = "revoked" THEN 1 ELSE 0
  BY DEF SeatEndAuditedOnce
<1>1. seatAudit[u] = IF usage[u].status = "revoked" THEN 1 ELSE 0
  BY DEF SeatEndAuditedOnce
<1>2. CASE Kept(u) \/ Ended(u)
  BY <1>1, <1>2 DEF Kept, Ended
<1>3. ASSUME NEW l \in Licenses, NEW f \in Fingerprints, Seated(l, f, u)
      PROVE  seatAudit'[u] = 0 /\ usage'[u].status = "active"
  BY <1>1, <1>3 DEF Seated, registerUsage
<1> QED
  BY <1>2, <1>3 DEF SeatsMove

\* The end of a seat is in the audit log exactly once.
THEOREM SeatEndsAudited == Spec => []SeatEndAuditedOnce
<1>1. Init => SeatEndAuditedOnce
  BY DEF Init, SeatEndAuditedOnce, NoUsage
<1>2. TypeOK /\ SeatEndAuditedOnce /\ [Next]_vars => SeatEndAuditedOnce'
  BY SeatStep, AuditedOnceKept
<1> QED
  BY <1>1, <1>2, TypeCorrect, PTL DEF Spec

\* A license some device was ever seated on never is pending again.
THEOREM SeatedIsNotPending == Spec => []SeatedLeftPending
<1>1. Init => SeatedLeftPending
  BY DEF Init, SeatedLeftPending, NoUsage
<1>2. TypeOK /\ SeatedLeftPending /\ [Next]_vars => SeatedLeftPending'
  <2> SUFFICES ASSUME TypeOK, SeatedLeftPending, [Next]_vars,
                      NEW u \in UsageIds, usage'[u].status # "none"
               PROVE  /\ usage'[u].license \in Licenses
                      /\ license'[usage'[u].license].status
                            \notin {"absent", "pending"}
    BY DEF SeatedLeftPending
  <2>1. CASE Kept(u) \/ Ended(u)
    <3>1. /\ usage[u].license \in Licenses
          /\ usage'[u].license = usage[u].license
          /\ license[usage[u].license].status \notin {"absent", "pending"}
      BY <2>1 DEF Kept, Ended, SeatedLeftPending
    <3>2. StatusMoves(usage[u].license)
      BY <3>1, StatusStep
    <3> QED
      BY <3>1, <3>2 DEF StatusMoves, LicenseStatus
  <2>2. ASSUME NEW l \in Licenses, NEW f \in Fingerprints, Seated(l, f, u)
        PROVE  /\ usage'[u].license \in Licenses
               /\ license'[usage'[u].license].status
                     \notin {"absent", "pending"}
    <3>1. usage'[u].license = l
      BY <2>2 DEF Seated
    <3>2. CASE license[l].status = "pending"
      <4>1. transition(l, license[l], activated(license[l]))
        BY <2>2, <3>2 DEF Seated, registerUsage, promote, activate
      <4>2. license'[l] = activated(license[l])
        BY <4>1 DEF transition, TypeOK
      <4>3. license[l] \in License
        BY DEF TypeOK
      <4>4. license'[l].status = "active"
        BY <4>2, <4>3 DEF activated, License
      <4> QED
        BY <3>1, <4>4
    <3>3. CASE license[l].status # "pending"
      BY <2>2, <3>1, <3>3 DEF Seated, registerUsage, promote, assertUsable
    <3> QED
      BY <3>2, <3>3
  <2> QED
    BY <2>1, <2>2, SeatStep DEF SeatsMove
<1> QED
  BY <1>1, <1>2, TypeCorrect, PTL DEF Spec

----------------------------------------------------------------------------
\* A license has finitely many live seats, which gives Cardinality a meaning.
FiniteSeats == \A l \in Licenses : IsFiniteSet(activeUsages(l))

\* How one step moves the set of live seats of a license.
LEMMA ActiveStep ==
    ASSUME SeatsMove, NEW l \in Licenses
    PROVE  \/ activeUsages(l)' \subseteq activeUsages(l)
           \/ \E f \in Fingerprints, u \in UsageIds :
                /\ Seated(l, f, u)
                /\ activeUsages(l)' = activeUsages(l) \cup {u}
<1>1. CASE \A u \in UsageIds : Kept(u) \/ Ended(u)
  BY <1>1 DEF Kept, Ended, activeUsages
<1>2. ASSUME NEW k \in Licenses, NEW f \in Fingerprints, NEW u \in UsageIds,
             Seated(k, f, u), \A v \in UsageIds \ {u} : Kept(v)
      PROVE  \/ activeUsages(l)' \subseteq activeUsages(l)
             \/ Seated(l, f, u) /\ activeUsages(l)' = activeUsages(l) \cup {u}
  <2>1. CASE k = l
    BY <1>2, <2>1 DEF Seated, Kept, activeUsages
  <2>2. CASE k # l
    BY <1>2, <2>2 DEF Seated, Kept, activeUsages
  <2> QED
    BY <2>1, <2>2
<1> QED
  BY <1>1, <1>2 DEF SeatsMove

LEMMA SeatsStartFinite == ASSUME Init PROVE FiniteSeats
<1> SUFFICES ASSUME NEW l \in Licenses PROVE IsFiniteSet(activeUsages(l))
  BY DEF FiniteSeats
<1>1. activeUsages(l) = {}
  BY DEF Init, activeUsages, NoUsage
<1> QED
  BY <1>1, FS_EmptySet

LEMMA SeatsStayFinite ==
    ASSUME FiniteSeats, SeatsMove
    PROVE  FiniteSeats'
<1> SUFFICES ASSUME NEW l \in Licenses PROVE IsFiniteSet(activeUsages(l)')
  BY DEF FiniteSeats
<1>1. IsFiniteSet(activeUsages(l))
  BY DEF FiniteSeats
<1>2. CASE activeUsages(l)' \subseteq activeUsages(l)
  BY <1>1, <1>2, FS_Subset
<1>3. ASSUME NEW u, activeUsages(l)' = activeUsages(l) \cup {u}
      PROVE  IsFiniteSet(activeUsages(l)')
  BY <1>1, <1>3, FS_AddElement
<1> QED
  BY <1>2, <1>3, ActiveStep

LEMMA SeatsFinite == Spec => []FiniteSeats
<1>1. Init => FiniteSeats
  BY SeatsStartFinite
<1>2. TypeOK /\ FiniteSeats /\ [Next]_vars => FiniteSeats'
  BY SeatStep, SeatsStayFinite
<1> QED
  BY <1>1, <1>2, TypeCorrect, PTL DEF Spec

\* A step that adds a seat found fewer than max_usages and adds one.
LEMMA CapKept ==
    ASSUME TypeOK, FiniteSeats, SeatsMove, NEW l \in Licenses,
           Cardinality(activeUsages(l)') > Cardinality(activeUsages(l))
    PROVE  Cardinality(activeUsages(l)') <= license'[l].max_usages
<1>1. IsFiniteSet(activeUsages(l)) /\ Cardinality(activeUsages(l)) \in Nat
  BY FS_CardinalityType DEF FiniteSeats
<1>2. CASE activeUsages(l)' \subseteq activeUsages(l)
  <2>1. Cardinality(activeUsages(l)') <= Cardinality(activeUsages(l))
        /\ Cardinality(activeUsages(l)') \in Nat
    BY <1>1, <1>2, FS_Subset, FS_CardinalityType
  <2> QED
    BY <1>1, <2>1
<1>3. ASSUME NEW f \in Fingerprints, NEW u \in UsageIds, Seated(l, f, u),
             activeUsages(l)' = activeUsages(l) \cup {u}
      PROVE  Cardinality(activeUsages(l)') <= license'[l].max_usages
  <2>1. Cardinality(activeUsages(l)) < license[l].max_usages /\ promote(l)
    BY <1>3 DEF Seated, registerUsage, countActiveUsages
  <2>2. license[l] \in License /\ license[l].max_usages \in Nat
    BY DEF TypeOK, License
  <2>3. license'[l].max_usages = license[l].max_usages
    <3>1. CASE license[l].status = "pending"
      <4>1. transition(l, license[l], activated(license[l]))
        BY <2>1, <3>1 DEF promote, activate
      <4>2. license'[l] = activated(license[l])
        BY <4>1 DEF transition, TypeOK
      <4> QED
        BY <2>2, <4>2 DEF activated, License
    <3>2. CASE license[l].status # "pending"
      BY <2>1, <3>2 DEF promote
    <3> QED
      BY <3>1, <3>2
  <2>4. Cardinality(activeUsages(l)') <= Cardinality(activeUsages(l)) + 1
    <3>1. Cardinality(activeUsages(l) \cup {u})
            = IF u \in activeUsages(l) THEN Cardinality(activeUsages(l))
              ELSE Cardinality(activeUsages(l)) + 1
      BY <1>1, FS_AddElement
    <3> QED
      BY <1>1, <1>3, <3>1
  <2>5. Cardinality(activeUsages(l)') \in Nat
    <3>1. IsFiniteSet(activeUsages(l) \cup {u})
      BY <1>1, FS_AddElement
    <3> QED
      BY <1>3, <3>1, FS_CardinalityType
  <2> QED
    BY <1>1, <2>1, <2>2, <2>3, <2>4, <2>5
<1> QED
  BY <1>2, <1>3, ActiveStep

\* The seat cap: whatever max_usages has been patched to, an operation that
\* adds a seat never leaves more than max_usages of them.
THEOREM CapHolds == Spec => SeatsWithinCap
<1>1. TypeOK /\ FiniteSeats /\ [Next]_vars =>
        [\A l \in Licenses :
           Cardinality(activeUsages(l)') > Cardinality(activeUsages(l))
           => Cardinality(activeUsages(l)') <= license'[l].max_usages]_vars
  BY SeatStep, CapKept
<1> QED
  BY <1>1, TypeCorrect, SeatsFinite, PTL DEF Spec, SeatsWithinCap

----------------------------------------------------------------------------
\* A stored status that the clock implies, written back, is what a reader
\* would have seen anyway, from that instant on.
LEMMA EffectiveIsStable ==
    ASSUME NEW lic \in License, NEW n \in Nat, NEW t \in Nat, t >= n,
           effectiveStatus(lic, n) # lic.status,
           NEW row \in License,
           row.status = effectiveStatus(lic, n),
           row.expires_at = lic.expires_at, row.grace_until = lic.grace_until
    PROVE  effectiveStatus(row, t) = effectiveStatus(lic, t)
<1>1. /\ lic.status \in {"active", "grace"}
      /\ lic.expires_at \in Nat
      /\ n >= lic.expires_at
  BY DEF effectiveStatus, License, OptInstant, Instant
<1>2. t >= lic.expires_at
  BY <1>1
<1>3. lic.grace_until \in Nat \cup {Null}
  BY DEF License, OptInstant, Instant
<1>4. CASE lic.grace_until # Null /\ n < lic.grace_until
  <2>1. row.status = "grace"
    BY <1>1, <1>4, NullAssumption DEF effectiveStatus
  <2> QED
    BY <1>1, <1>2, <2>1 DEF effectiveStatus
<1>5. CASE ~(lic.grace_until # Null /\ n < lic.grace_until)
  <2>1. row.status = "expired"
    BY <1>1, <1>5, NullAssumption DEF effectiveStatus
  <2>2. ~(lic.grace_until # Null /\ t < lic.grace_until)
    BY <1>3, <1>5
  <2> QED
    BY <1>1, <1>2, <2>1, <2>2, NullAssumption DEF effectiveStatus
<1> QED
  BY <1>4, <1>5

\* Only tick and expire store grace or expired, and they store nothing else.
Persists(l) ==
    /\ license'[l].status # license[l].status
    /\ license'[l].status \in {"grace", "expired"}
    => /\ license'[l].expires_at = license[l].expires_at
       /\ license'[l].grace_until = license[l].grace_until

LEMMA LifecyclePersists ==
    ASSUME TypeOK, NEW k \in Licenses, Transition(k), NEW l \in Licenses
    PROVE  Persists(l)
<1> USE DEF Persists, transition, TypeOK, License, LicenseStatus, AuditRow
<1>1. CASE activate(k, license[k])
  BY <1>1 DEF activate, activated
<1>2. CASE suspend(k, license[k])
  BY <1>2 DEF suspend, suspended
<1>3. CASE resume(k, license[k])
  BY <1>3 DEF resume, resumed
<1>4. CASE revoke(k, license[k])
  BY <1>4 DEF revoke, revoked
<1>5. CASE expire(k, license[k])
  BY <1>5 DEF expire, expired
<1>6. CASE tick(k, license[k])
  BY <1>6 DEF tick, ticked
<1>7. ASSUME NEW exp \in Dates, NEW grace \in Dates \cup {Undefined},
             renew(k, license[k], exp, grace)
      PROVE  Persists(l)
  BY <1>7 DEF renew, renewed
<1> QED
  BY <1>1, <1>2, <1>3, <1>4, <1>5, <1>6, <1>7 DEF Transition

LEMMA PersistStep ==
    ASSUME TypeOK, [Next]_vars, NEW l \in Licenses
    PROVE  Persists(l)
<1>1. CASE UNCHANGED license
  BY <1>1 DEF Persists
<1>2. ASSUME NEW k \in Licenses, NEW max \in 1..MaxUsages,
             NEW exp \in Dates, NEW grace \in Dates,
             createLicense(k, max, exp, grace)
      PROVE  Persists(l)
  BY <1>2 DEF createLicense, transition, Persists, TypeOK, License
<1>3. ASSUME NEW k \in Licenses, NEW max, NEW exp, NEW grace,
             updateLicense(k, max, exp, grace)
      PROVE  Persists(l)
  BY <1>3 DEF updateLicense, patched, Persists, TypeOK, License
<1>4. ASSUME NEW k \in Licenses, Transition(k)
      PROVE  Persists(l)
  BY <1>4, LifecyclePersists
<1>5. ASSUME NEW k \in Licenses, rotateLicenseKey(k)
      PROVE  Persists(l)
  BY <1>5 DEF rotateLicenseKey, Persists, TypeOK, License
<1>6. ASSUME NEW k \in Licenses, NEW f \in Fingerprints, NEW u \in UsageIds,
             registerUsage(k, f, u, license[k].license_key)
      PROVE  Persists(l)
  <2>1. CASE license[k].status = "pending"
    <3>1. transition(k, license[k], activated(license[k]))
      BY <1>6, <2>1 DEF registerUsage, promote, activate
    <3> QED
      BY <3>1 DEF transition, activated, Persists, TypeOK, License
  <2>2. CASE license[k].status # "pending"
    BY <1>6, <2>2 DEF registerUsage, promote, Persists
  <2> QED
    BY <2>1, <2>2
<1> QED
  BY <1>1, <1>2, <1>3, <1>4, <1>5, <1>6
     DEF Next, Operation, Advance, storeVars, vars, revokeUsage, Heartbeat,
         touchUsage, sweepInactiveUsages

\* Persisting a status the clock already implies is invisible to readers,
\* now and later: running the tick job late, early or twice changes nothing
\* a client can see.
THEOREM PersistenceInvisible == Spec => PersistedLikeEffective
<1>1. TypeOK /\ TypeOK' /\ [Next]_vars =>
        [\A l \in Licenses :
           /\ license'[l].status # license[l].status
           /\ license'[l].status = effectiveStatus(license[l], now)
           => \A t \in now..MaxTime :
                 effectiveStatus(license'[l], t)
                 = effectiveStatus(license[l], t)]_vars
  <2> SUFFICES ASSUME TypeOK, TypeOK', [Next]_vars, NEW l \in Licenses,
                      license'[l].status # license[l].status,
                      license'[l].status = effectiveStatus(license[l], now),
                      NEW t \in now..MaxTime
               PROVE  effectiveStatus(license'[l], t)
                      = effectiveStatus(license[l], t)
    OBVIOUS
  <2>1. license[l] \in License /\ license'[l] \in License /\ now \in Nat
    BY DEF TypeOK, Instant
  <2>2. t \in Nat /\ t >= now
    BY <2>1, BoundsAssumption
  <2>3. license'[l].status \in {"grace", "expired"}
    BY DEF effectiveStatus
  <2>4. /\ license'[l].expires_at = license[l].expires_at
        /\ license'[l].grace_until = license[l].grace_until
    BY <2>3, PersistStep DEF Persists
  <2> QED
    BY <2>1, <2>2, <2>4, EffectiveIsStable
<1> QED
  BY <1>1, TypeCorrect, PTL DEF Spec, PersistedLikeEffective

-----------------------------------------------------------------------------
(* The handlers of IssuerHTTP, interleaved. *)

\* A lifecycle function handed a row that was read some time ago.
StaleTransition(l, snap) ==
    /\ \/ suspend(l, snap) \/ resume(l, snap) \/ revoke(l, snap)
       \/ tick(l, snap)
       \/ \E exp \in Dates, grace \in Dates \cup {Undefined} :
             renew(l, snap, exp, grace)
    /\ UNCHANGED <<usage, seatAudit>>

\* What one step of any handler or job may do to the store.
StoreOp ==
    \/ UNCHANGED storeVars
    \/ \E l \in Licenses, snap \in License : StaleTransition(l, snap)
    \/ \E l \in Licenses, max \in 1..MaxUsages, exp, grace \in Dates :
          createLicense(l, max, exp, grace)
    \/ \E l \in Licenses, max \in (1..MaxUsages) \cup {Undefined},
          exp, grace \in Dates \cup {Undefined} :
          updateLicense(l, max, exp, grace)
    \/ \E l \in Licenses : rotateLicenseKey(l)
    \/ \E l \in Licenses, f \in Fingerprints, u \in UsageIds, k \in Nat :
          registerUsage(l, f, u, k)
    \/ \E u \in UsageIds : revokeUsage(u) \/ touchUsage(u)

----------------------------------------------------------------------------
\* A stale row still gives the patch of a row and an audit row of statuses.
LEMMA StaleTransitionType ==
    ASSUME TypeOK, NEW l \in Licenses, NEW snap \in License,
           StaleTransition(l, snap)
    PROVE  /\ license' \in [Licenses -> License]
           /\ audit' \in [Licenses -> AuditRow]
<1>1. license[l] \in License /\ now \in Nat
  BY DEF TypeOK, Instant
<1>2. ASSUME NEW exp \in Dates, NEW grace \in Dates \cup {Undefined},
             renew(l, snap, exp, grace)
      PROVE  /\ license' \in [Licenses -> License]
             /\ audit' \in [Licenses -> AuditRow]
  <2>1. exp \in OptInstant /\ grace \in OptInstant \cup {Undefined}
    BY BoundsAssumption
  <2>2. renewed(license[l], exp, grace) \in License
    BY <1>1, <2>1, PatchTypes
  <2> QED
    BY <1>1, <1>2, <2>2, TransitionType DEF renew
<1>3. /\ suspended(license[l]) \in License
      /\ resumed(license[l]) \in License
      /\ revoked(license[l]) \in License
      /\ ticked(snap, license[l], now) \in License
  BY <1>1, PatchTypes DEF OptInstant, Instant
<1> QED
  BY <1>1, <1>2, <1>3, TransitionType
     DEF StaleTransition, suspend, resume, revoke, tick

\* The store stays well typed under every operation of a handler.
LEMMA StoreOpType ==
    ASSUME TypeOK, StoreOp, now' \in Instant
    PROVE  TypeOK'
<1>1. CASE UNCHANGED storeVars
  BY <1>1 DEF storeVars, TypeOK
<1>2. ASSUME NEW l \in Licenses, NEW snap \in License, StaleTransition(l, snap)
      PROVE  TypeOK'
  BY <1>2, StaleTransitionType DEF StaleTransition, TypeOK
<1>3. ASSUME NEW l \in Licenses, NEW max \in 1..MaxUsages,
             NEW exp \in Dates, NEW grace \in Dates,
             createLicense(l, max, exp, grace)
      PROVE  TypeOK'
  <2>1. license[l] \in License
    BY DEF TypeOK
  <2>2. [status |-> "pending", max_usages |-> max, license_key |-> 0,
         activated |-> FALSE, expires_at |-> exp, grace_until |-> grace]
           \in License
    BY BoundsAssumption DEF License, LicenseStatus
  <2> QED
    BY <1>3, <2>1, <2>2, TransitionType DEF createLicense, TypeOK
<1>4. ASSUME NEW l \in Licenses, NEW max \in (1..MaxUsages) \cup {Undefined},
             NEW exp \in Dates \cup {Undefined},
             NEW grace \in Dates \cup {Undefined},
             updateLicense(l, max, exp, grace)
      PROVE  TypeOK'
  <2>1. /\ max \in (Nat \ {0}) \cup {Undefined}
        /\ exp \in OptInstant \cup {Undefined}
        /\ grace \in OptInstant \cup {Undefined}
    BY BoundsAssumption
  <2>2. license[l] \in License
    BY DEF TypeOK
  <2>3. patched(license[l], max, exp, grace) \in License
    BY <2>1, <2>2 DEF patched, License
  <2> QED
    BY <1>4, <2>3 DEF updateLicense, TypeOK
<1>5. ASSUME NEW l \in Licenses, rotateLicenseKey(l)
      PROVE  TypeOK'
  <2>1. license' \in [Licenses -> License]
    BY <1>5 DEF rotateLicenseKey, TypeOK, License
  <2>2. usage' \in [UsageIds -> Usage]
    BY <1>5 DEF rotateLicenseKey, TypeOK, Usage
  <2>3. seatAudit' \in [UsageIds -> Nat]
    BY <1>5 DEF rotateLicenseKey, TypeOK
  <2> QED
    BY <1>5, <2>1, <2>2, <2>3 DEF rotateLicenseKey, TypeOK
<1>6. ASSUME NEW l \in Licenses, NEW f \in Fingerprints, NEW u \in UsageIds,
             NEW k \in Nat, registerUsage(l, f, u, k)
      PROVE  TypeOK'
  <2>1. license[l] \in License /\ activated(license[l]) \in License
    BY PatchTypes DEF TypeOK, Instant, OptInstant
  <2>2. /\ license' \in [Licenses -> License]
        /\ audit' \in [Licenses -> AuditRow]
    BY <1>6, <2>1, TransitionType DEF registerUsage, promote, activate, TypeOK
  <2>3. usage' \in [UsageIds -> Usage]
    BY <1>6 DEF registerUsage, TypeOK, Usage
  <2> QED
    BY <1>6, <2>2, <2>3 DEF registerUsage, TypeOK
<1>7. ASSUME NEW u \in UsageIds, revokeUsage(u) \/ touchUsage(u)
      PROVE  TypeOK'
  BY <1>7 DEF revokeUsage, touchUsage, TypeOK, Usage
<1> QED
  BY <1>1, <1>2, <1>3, <1>4, <1>5, <1>6, <1>7 DEF StoreOp

\* Every operation moves seats as SeatsMove says.
LEMMA StoreOpSeats ==
    ASSUME TypeOK, StoreOp
    PROVE  SeatsMove
<1>1. CASE UNCHANGED <<usage, seatAudit>>
  BY <1>1 DEF SeatsMove, Kept
<1>2. ASSUME NEW l \in Licenses, rotateLicenseKey(l)
      PROVE  SeatsMove
  <2>1. \A u \in UsageIds : Kept(u) \/ Ended(u)
    BY <1>2 DEF rotateLicenseKey, activeUsages, Kept, Ended, TypeOK, Usage
  <2> QED
    BY <2>1 DEF SeatsMove
<1>3. ASSUME NEW v \in UsageIds, revokeUsage(v)
      PROVE  SeatsMove
  <2>1. \A u \in UsageIds : Kept(u) \/ Ended(u)
    BY <1>3 DEF revokeUsage, Kept, Ended, TypeOK, Usage
  <2> QED
    BY <2>1 DEF SeatsMove
<1>4. ASSUME NEW v \in UsageIds, touchUsage(v)
      PROVE  SeatsMove
  <2>1. \A u \in UsageIds : Kept(u)
    BY <1>4 DEF touchUsage, Kept, TypeOK, Usage
  <2> QED
    BY <2>1 DEF SeatsMove
<1>5. ASSUME NEW l \in Licenses, NEW f \in Fingerprints, NEW u \in UsageIds,
             NEW k \in Nat, registerUsage(l, f, u, k)
      PROVE  SeatsMove
  BY <1>5, RegisterSeats
<1> QED
  BY <1>1, <1>2, <1>3, <1>4, <1>5
     DEF StoreOp, storeVars, StaleTransition, createLicense, updateLicense

\* Whatever row a transition was handed, the audit row's new_state is the
\* status it stores.
LEMMA StoreOpAudit ==
    ASSUME TypeOK, AuditMatchesRow, StoreOp
    PROVE  AuditMatchesRow'
<1> SUFFICES ASSUME NEW l \in Licenses
             PROVE  audit'[l].new = license'[l].status
  BY DEF AuditMatchesRow
<1>1. audit[l].new = license[l].status
  BY DEF AuditMatchesRow
<1>2. ASSUME NEW k \in Licenses, NEW snap, NEW row, transition(k, snap, row)
      PROVE  audit'[l].new = license'[l].status
  BY <1>1, <1>2 DEF transition, TypeOK
<1>3. CASE UNCHANGED <<license, audit>>
  BY <1>1, <1>3
<1>4. ASSUME NEW k \in Licenses, NEW snap \in License, StaleTransition(k, snap)
      PROVE  audit'[l].new = license'[l].status
  BY <1>2, <1>4 DEF StaleTransition, suspend, resume, revoke, tick, renew
<1>5. ASSUME NEW k \in Licenses, NEW max, NEW exp, NEW grace,
             updateLicense(k, max, exp, grace)
      PROVE  audit'[l].new = license'[l].status
  BY <1>1, <1>5 DEF updateLicense, patched, TypeOK, License
<1>6. ASSUME NEW k \in Licenses, rotateLicenseKey(k)
      PROVE  audit'[l].new = license'[l].status
  BY <1>1, <1>6 DEF rotateLicenseKey, TypeOK, License
<1>7. ASSUME NEW k \in Licenses, promote(k)
      PROVE  audit'[l].new = license'[l].status
  BY <1>2, <1>3, <1>7 DEF promote, activate
<1> QED
  BY <1>2, <1>3, <1>4, <1>5, <1>6, <1>7
     DEF StoreOp, storeVars, createLicense, registerUsage, revokeUsage,
         touchUsage

----------------------------------------------------------------------------
(* The requests in flight.                                                 *)

\* What a request r carries fits the route it serves, us being the usage
\* table: a seat it was given a token for, or has registered, is a row.
ReqOK(r, us) ==
    /\ r.op \in {"activate", "suspend", "resume", "revoke", "renew", "delete"}
         => r.l \in Licenses
    /\ r.op = "activate" => r.f \in Fingerprints
    /\ (\/ r.op \in {"refresh", "heartbeat", "deactivate"}
        \/ r.op = "activate" /\ r.at = "issue")
         => r.u \in UsageIds /\ us[r.u].status # "none"
    /\ r.op \in {"refresh", "heartbeat"} =>
         r.l \in Licenses /\ us[r.u].license = r.l

\* The license row a request holds would let issueToken sign at t.
Signable(r, t) == effectiveStatus(r.snap, t) \in {"active", "grace"}

\* A request about to issue from what it read has seen its seat live: either
\* it checks nothing more, or it checks the seat next (refresh at getUsage).
LiveOK(r, us, t, seen) ==
    /\ r.op \in {"activate", "refresh"} /\ r.at = "issue" /\ Signable(r, t)
         => r.u \in seen
    /\ (/\ r.op = "refresh" /\ r.at = "usage" /\ Signable(r, t)
        /\ us[r.u].status = "active")
         => r.u \in seen

InFlight == \A p \in Procs : ReqOK(req[p], usage)
LiveSeen == \A p \in Procs : LiveOK(req[p], usage, now, seenLive[p])
TokensHaveSeat == \A t \in tokens : usage[t.usage].status # "none"
SeatsHaveLicense ==
    \A u \in UsageIds : usage[u].status # "none" => usage[u].license \in Licenses

HTTPInv == /\ HTTPTypeOK /\ InFlight /\ LiveSeen /\ TokensHaveSeat
           /\ SeatsHaveLicense

\* How a step of process p leaves its own request.
Served(p) ==
    /\ req' = [req EXCEPT ![p] = req'[p]]
    /\ req'[p] \in Request
    /\ ReqOK(req'[p], usage')
    /\ LiveOK(req'[p], usage', now',
              Live' \cup (IF req[p].op = "idle" THEN {} ELSE seenLive[p]))

\* An idle request is well formed and promises nothing.
LEMMA IdleOK ==
    /\ Idle \in Request
    /\ \A us : ReqOK(Idle, us)
    /\ \A us, t, seen : LiveOK(Idle, us, t, seen)
<1>1. NoLicense \in License
  BY DEF NoLicense, License, LicenseStatus, OptInstant
<1>2. Idle \in Request
  BY <1>1 DEF Idle, Request
<1> QED
  BY <1>2 DEF Idle, ReqOK, LiveOK

LEMMA RespondServes ==
    ASSUME HTTPInv, NEW p \in Procs, respond(p)
    PROVE  Served(p)
<1>1. req'[p] = Idle /\ req' = [req EXCEPT ![p] = req'[p]]
  BY DEF HTTPInv, HTTPTypeOK, respond
<1> QED
  BY <1>1, IdleOK DEF Served

\* A license row that can still be signed from could be at any earlier
\* moment: an expiry never goes away by waiting.
LEMMA SignableEarlier ==
    ASSUME NEW r \in Request, NEW n \in Nat, NEW t \in Nat, t >= n,
           Signable(r, t)
    PROVE  Signable(r, n)
<1>1. r.snap \in License
  BY DEF Request
<1>2. r.snap.expires_at \in Nat \cup {Null} /\ r.snap.grace_until \in Nat \cup {Null}
  BY <1>1 DEF License, OptInstant, Instant
<1> QED
  BY <1>2, NullAssumption DEF Signable, effectiveStatus

\* A row stays on its license, and a seat that ended does not come back.
LEMMA SeatsRemain ==
    ASSUME SeatsMove, NEW u \in UsageIds, usage[u].status # "none"
    PROVE  /\ usage'[u].status # "none"
           /\ usage'[u].license = usage[u].license
           /\ usage'[u].status = "active" => usage[u].status = "active"
           /\ usage[u].status = "revoked" => usage'[u].status = "revoked"
<1>1. Kept(u) \/ Ended(u)
  BY DEF SeatsMove, Seated, registerUsage
<1> QED
  BY <1>1 DEF Kept, Ended

\* The requests of the other processes are untouched and stay sound.
LEMMA OthersKeep ==
    ASSUME HTTPInv, SeatsMove, Observe, now' \in Nat, now' >= now,
           NEW q \in Procs, req'[q] = req[q]
    PROVE  /\ ReqOK(req'[q], usage')
           /\ LiveOK(req'[q], usage', now', seenLive'[q])
<1> DEFINE r == req[q]
<1>1. r \in Request /\ ReqOK(r, usage) /\ LiveOK(r, usage, now, seenLive[q])
  BY DEF HTTPInv, HTTPTypeOK, InFlight, LiveSeen
<1>2. now \in Nat
  BY DEF HTTPInv, HTTPTypeOK, TypeOK, Instant
<1>3. Signable(r, now') => Signable(r, now)
  BY <1>1, <1>2, SignableEarlier
<1>4. r.op # "idle" => seenLive[q] \subseteq seenLive'[q]
  BY DEF Observe
<1> HIDE DEF r
<1>5. r.u \in UsageIds /\ usage[r.u].status # "none" =>
        /\ usage'[r.u].status # "none"
        /\ usage'[r.u].license = usage[r.u].license
        /\ usage'[r.u].status = "active" => usage[r.u].status = "active"
  BY SeatsRemain
<1>6. ReqOK(r, usage')
  BY <1>1, <1>5 DEF ReqOK
<1>7. LiveOK(r, usage', now', seenLive'[q])
  BY <1>1, <1>3, <1>4, <1>5 DEF LiveOK, ReqOK
<1> QED
  BY <1>6, <1>7 DEF r

\* The step of p, with what it left in the store, keeps the invariant.
LEMMA ServedKeeps ==
    ASSUME HTTPInv, StoreOp, Observe, now' \in Nat, now' >= now,
           UNCHANGED req \/ (\E p \in Procs : Served(p)),
           tokens' \subseteq Token, \A t \in tokens' \ tokens : usage'[t.usage].status # "none"
    PROVE  HTTPInv'
<1>1. TypeOK /\ TypeOK' /\ SeatsMove
  BY StoreOpType, StoreOpSeats DEF HTTPInv, HTTPTypeOK, Instant
<1>2. req \in [Procs -> Request] /\ tokens \subseteq Token
  BY DEF HTTPInv, HTTPTypeOK
<1>3. seenLive' \in [Procs -> SUBSET UsageIds]
  <2>1. Live' \subseteq UsageIds /\ Live \subseteq UsageIds
    BY DEF Live
  <2> QED
    BY <2>1 DEF Observe, HTTPInv, HTTPTypeOK
<1>4. SeatsHaveLicense'
  <2> SUFFICES ASSUME NEW u \in UsageIds, usage'[u].status # "none"
               PROVE  usage'[u].license \in Licenses
    BY DEF SeatsHaveLicense
  <2>1. CASE usage[u].status # "none"
    BY <1>1, <2>1, SeatsRemain DEF HTTPInv, SeatsHaveLicense
  <2>2. CASE usage[u].status = "none"
    BY <1>1, <2>2 DEF SeatsMove, Seated, Kept, Ended
  <2> QED
    BY <2>1, <2>2
<1>5. TokensHaveSeat'
  <2> SUFFICES ASSUME NEW t \in tokens' PROVE usage'[t.usage].status # "none"
    BY DEF TokensHaveSeat
  <2>1. CASE t \in tokens
    <3>1. t.usage \in UsageIds /\ usage[t.usage].status # "none"
      BY <1>2, <2>1 DEF HTTPInv, TokensHaveSeat, Token
    <3> QED
      BY <1>1, <3>1, SeatsRemain
  <2> QED
    BY <2>1
<1>6. CASE UNCHANGED req
  <2>1. \A q \in Procs : /\ ReqOK(req'[q], usage')
                         /\ LiveOK(req'[q], usage', now', seenLive'[q])
    BY <1>1, <1>6, OthersKeep
  <2> QED
    BY <1>1, <1>2, <1>3, <1>4, <1>5, <1>6, <2>1
       DEF HTTPInv, HTTPTypeOK, InFlight, LiveSeen
<1>7. ASSUME NEW p \in Procs, Served(p) PROVE HTTPInv'
  <2>1. \A q \in Procs \ {p} : req'[q] = req[q]
    BY <1>2, <1>7 DEF Served
  <2>2. \A q \in Procs \ {p} : /\ ReqOK(req'[q], usage')
                               /\ LiveOK(req'[q], usage', now', seenLive'[q])
    BY <1>1, <2>1, OthersKeep
  <2>3. req'[p].op # "idle" =>
          Live' \cup (IF req[p].op = "idle" THEN {} ELSE seenLive[p])
            \subseteq seenLive'[p]
    BY DEF Observe
  <2>4. LiveOK(req'[p], usage', now', seenLive'[p])
    <3>1. CASE req'[p].op = "idle"
      BY <3>1 DEF LiveOK
    <3>2. CASE req'[p].op # "idle"
      BY <1>7, <2>3, <3>2 DEF Served, LiveOK
    <3> QED
      BY <3>1, <3>2
  <2>5. req' \in [Procs -> Request]
    BY <1>2, <1>7 DEF Served
  <2>6. ReqOK(req'[p], usage')
    BY <1>7 DEF Served
  <2>7. InFlight' /\ LiveSeen'
    BY <2>2, <2>4, <2>6 DEF InFlight, LiveSeen
  <2> QED
    BY <1>1, <1>3, <1>4, <1>5, <2>5, <2>7 DEF HTTPInv, HTTPTypeOK
<1> QED
  BY <1>6, <1>7

----------------------------------------------------------------------------
(* One lemma per handler: what it writes, and how it leaves its request.   *)

\* A step: the store operation, the request, the tokens.
Handled(p) == StoreOp /\ Served(p) /\ UNCHANGED tokens

\* The first step of a request: r is well formed, carries what its route
\* needs and has yet to read what it would issue from.
LEMMA BeginServes ==
    ASSUME HTTPInv, NEW p \in Procs, NEW r \in Request, begin(p, r),
           ReqOK(r, usage), r.at # "issue", ~(r.op = "refresh" /\ r.at = "usage"),
           UNCHANGED usage
    PROVE  Served(p)
<1>1. req'[p] = r /\ req' = [req EXCEPT ![p] = req'[p]]
  BY DEF HTTPInv, HTTPTypeOK, begin
<1> QED
  BY <1>1 DEF Served, LiveOK

\* A later step that leaves the store alone.
LEMMA ProceedServes ==
    ASSUME HTTPInv, NEW p \in Procs, req[p].op # "idle", NEW r \in Request,
           proceed(p, r), ReqOK(r, usage'),
           LiveOK(r, usage', now', Live' \cup seenLive[p])
    PROVE  Served(p)
<1>1. req'[p] = r /\ req' = [req EXCEPT ![p] = req'[p]]
  BY DEF HTTPInv, HTTPTypeOK, proceed
<1> QED
  BY <1>1 DEF Served

LEMMA ActivateFindHandled ==
    ASSUME HTTPInv, NEW p \in Procs, NEW l \in Licenses, NEW f \in Fingerprints,
           ActivateFind(p, l, f)
    PROVE  Handled(p)
<1> DEFINE r == [Idle EXCEPT !.op = "activate", !.at = "register", !.l = l,
                             !.f = f, !.key = license[l].license_key]
<1>1. license[l].license_key \in Nat
  BY DEF HTTPInv, HTTPTypeOK, TypeOK, License
<1>2. r \in Request
  BY <1>1, IdleOK DEF Request
<1>3. r.op = "activate" /\ r.at = "register" /\ r.l = l /\ r.f = f
  BY DEF Idle
<1>4. begin(p, r) /\ UNCHANGED storeVars /\ UNCHANGED tokens
  BY DEF ActivateFind, unchangedStore
<1> HIDE DEF r
<1>5. ReqOK(r, usage) /\ UNCHANGED usage
  BY <1>3, <1>4 DEF ReqOK, storeVars
<1> QED
  BY <1>2, <1>3, <1>4, <1>5, BeginServes DEF Handled, StoreOp

\* Both ways of obtaining a seat leave the request with the row it seats on.
LEMMA SeatedServes ==
    ASSUME HTTPInv, NEW p \in Procs, req[p].op = "activate", TypeOK',
           NEW u \in UsageIds, usage'[u].status = "active",
           usage'[u].license = req[p].l, now' = now,
           proceed(p, [req[p] EXCEPT !.at = "issue", !.u = u,
                                     !.snap = license'[req[p].l]])
    PROVE  Served(p)
<1> DEFINE q == req[p]
           r == [q EXCEPT !.at = "issue", !.u = u, !.snap = license'[q.l]]
<1>1. q \in Request /\ q.l \in Licenses /\ q.f \in Fingerprints
  BY DEF HTTPInv, HTTPTypeOK, InFlight, ReqOK
<1>2. license'[q.l] \in License
  BY <1>1 DEF TypeOK
<1>3. r \in Request
  BY <1>1, <1>2 DEF Request
<1>4. /\ r.op = "activate" /\ r.at = "issue" /\ r.u = u /\ r.l = q.l
      /\ r.f = q.f /\ r.snap = license'[q.l]
  BY <1>1 DEF Request
<1>5. proceed(p, r)
  OBVIOUS
<1> HIDE DEF r
<1>6. ReqOK(r, usage')
  BY <1>1, <1>4 DEF ReqOK
<1>7. Signable(r, now') => u \in Live'
  BY <1>4 DEF Signable, Live
<1>8. LiveOK(r, usage', now', Live' \cup seenLive[p])
  BY <1>4, <1>7 DEF LiveOK
<1> QED
  BY <1>3, <1>5, <1>6, <1>8, ProceedServes

LEMMA ActivateRegisterHandled ==
    ASSUME HTTPInv, NEW p \in Procs, ActivateRegister(p), UNCHANGED now
    PROVE  Handled(p)
<1> DEFINE q == req[p]
<1>1. /\ q \in Request /\ q.op = "activate" /\ q.l \in Licenses
      /\ q.f \in Fingerprints /\ q.key \in Nat
  BY DEF HTTPInv, HTTPTypeOK, InFlight, ReqOK, Request, ActivateRegister, at
<1>2. TypeOK /\ now \in Instant
  BY DEF HTTPInv, HTTPTypeOK, TypeOK
<1>3. ASSUME NEW u \in UsageIds, registerUsage(q.l, q.f, u, q.key),
             proceed(p, [q EXCEPT !.at = "issue", !.u = u,
                                  !.snap = license'[q.l]])
      PROVE  StoreOp /\ Served(p)
  <2>1. StoreOp
    BY <1>1, <1>3 DEF StoreOp
  <2>2. TypeOK'
    BY <1>2, <2>1, StoreOpType
  <2>3. usage'[u].status = "active" /\ usage'[u].license = q.l
    BY <1>2, <1>3 DEF registerUsage, TypeOK
  <2> QED
    BY <1>1, <1>3, <2>1, <2>2, <2>3, SeatedServes
<1>4. ASSUME NEW u \in findActiveUsage(q.l, q.f),
             proceed(p, [q EXCEPT !.at = "issue", !.u = u,
                                  !.snap = license[q.l]]), unchangedStore
      PROVE  StoreOp /\ Served(p)
  <2>1. StoreOp /\ license' = license /\ usage' = usage
    BY <1>4 DEF StoreOp, unchangedStore, storeVars
  <2>2. TypeOK'
    BY <1>2, <2>1, StoreOpType
  <2>3. u \in UsageIds /\ usage'[u].status = "active" /\ usage'[u].license = q.l
    BY <1>4, <2>1 DEF findActiveUsage, activeUsages
  <2>4. proceed(p, [q EXCEPT !.at = "issue", !.u = u, !.snap = license'[q.l]])
    BY <1>4, <2>1
  <2> QED
    BY <1>1, <2>1, <2>2, <2>3, <2>4, SeatedServes
<1>5. CASE respond(p) /\ unchangedStore
  BY <1>5, RespondServes DEF ActivateRegister, Handled, StoreOp, unchangedStore
<1> QED
  BY <1>3, <1>4, <1>5 DEF ActivateRegister, Handled

\* The three routes that present a token start from the seat it was issued
\* for.
LEMMA VerifyHandled ==
    ASSUME HTTPInv, NEW p \in Procs, NEW t \in tokens,
           RefreshVerify(p, t) \/ HeartbeatVerify(p, t) \/ DeactivateVerify(p, t)
    PROVE  Handled(p)
<1> DEFINE s == usage[t.usage].license
           rr == [Idle EXCEPT !.op = "refresh", !.at = "license", !.l = s, !.u = t.usage]
           rh == [Idle EXCEPT !.op = "heartbeat", !.at = "license", !.l = s, !.u = t.usage]
           rd == [Idle EXCEPT !.op = "deactivate", !.at = "usage", !.u = t.usage]
<1>1. t.usage \in UsageIds /\ usage[t.usage].status # "none" /\ s \in Licenses
  BY DEF HTTPInv, HTTPTypeOK, Token, TokensHaveSeat, SeatsHaveLicense
<1>2. UNCHANGED storeVars /\ UNCHANGED tokens /\ UNCHANGED usage
  BY DEF RefreshVerify, HeartbeatVerify, DeactivateVerify, unchangedStore, storeVars
<1>3. begin(p, rr) \/ begin(p, rh) \/ begin(p, rd)
  BY DEF RefreshVerify, HeartbeatVerify, DeactivateVerify
<1>4. rr \in Request /\ rh \in Request /\ rd \in Request
  BY <1>1, IdleOK DEF Request
<1>5. /\ rr.op = "refresh" /\ rr.at = "license" /\ rr.l = s /\ rr.u = t.usage
      /\ rh.op = "heartbeat" /\ rh.at = "license" /\ rh.l = s /\ rh.u = t.usage
      /\ rd.op = "deactivate" /\ rd.at = "usage" /\ rd.u = t.usage
  BY DEF Idle
<1> HIDE DEF rr, rh, rd
<1>6. ReqOK(rr, usage) /\ ReqOK(rh, usage) /\ ReqOK(rd, usage)
  BY <1>1, <1>5 DEF ReqOK
<1>7. Served(p)
  BY <1>2, <1>3, <1>4, <1>5, <1>6, BeginServes
<1> QED
  BY <1>2, <1>7 DEF Handled, StoreOp

\* getLicense of /refresh and /heartbeat: a refresh whose seat is live here
\* has seen it live on the license it will sign from.
LEMMA GetLicenseHandled ==
    ASSUME HTTPInv, NEW p \in Procs, GetLicense(p), UNCHANGED now
    PROVE  Handled(p)
<1> DEFINE q == req[p]
           r == [q EXCEPT !.at = "usage", !.snap = license[q.l]]
<1>1. /\ q \in Request /\ q.op \in {"refresh", "heartbeat"}
      /\ q.l \in Licenses /\ q.u \in UsageIds /\ usage[q.u].status # "none"
      /\ usage[q.u].license = q.l
  BY DEF HTTPInv, HTTPTypeOK, InFlight, ReqOK, GetLicense, at
<1>2. UNCHANGED <<license, usage, now, tokens>> /\ UNCHANGED storeVars
  BY DEF GetLicense, unchangedStore, storeVars
<1>3. respond(p) => Served(p)
  BY RespondServes
<1>4. ASSUME proceed(p, r) PROVE Served(p)
  <2>1. license[q.l] \in License
    BY <1>1 DEF HTTPInv, HTTPTypeOK, TypeOK
  <2>2. r \in Request
    BY <1>1, <2>1 DEF Request
  <2>3. /\ r.op = q.op /\ r.at = "usage" /\ r.u = q.u /\ r.l = q.l
        /\ r.snap = license[q.l]
    BY <1>1 DEF Request
  <2> HIDE DEF r
  <2>4. ReqOK(r, usage')
    BY <1>1, <1>2, <2>3 DEF ReqOK
  <2>5. Signable(r, now') /\ usage'[q.u].status = "active" => q.u \in Live'
    BY <1>1, <1>2, <2>3 DEF Signable, Live
  <2>6. LiveOK(r, usage', now', Live' \cup seenLive[p])
    BY <2>3, <2>5 DEF LiveOK
  <2> QED
    BY <1>1, <1>4, <2>2, <2>4, <2>6, ProceedServes
<1> QED
  BY <1>2, <1>3, <1>4 DEF GetLicense, Handled, StoreOp

\* getUsage: the check that makes a refresh's earlier read of the license
\* good enough.
LEMMA GetUsageHandled ==
    ASSUME HTTPInv, NEW p \in Procs, GetUsage(p), UNCHANGED now
    PROVE  Handled(p)
<1> DEFINE q == req[p]
           r == [q EXCEPT !.at = IF q.op = "refresh" THEN "issue" ELSE "write"]
<1>1. /\ q \in Request /\ q.op \in {"refresh", "heartbeat", "deactivate"}
      /\ q.at = "usage" /\ ReqOK(q, usage)
      /\ LiveOK(q, usage, now, seenLive[p])
  BY DEF HTTPInv, HTTPTypeOK, InFlight, LiveSeen, GetUsage, at
<1>2. UNCHANGED <<license, usage, now, tokens>> /\ UNCHANGED storeVars
  BY DEF GetUsage, unchangedStore, storeVars
<1>3. respond(p) => Served(p)
  BY RespondServes
<1>4. ASSUME proceed(p, r), usage[q.u].status = "active" PROVE Served(p)
  <2>1. r \in Request
    BY <1>1 DEF Request
  <2>2. /\ r.op = q.op /\ r.u = q.u /\ r.l = q.l /\ r.snap = q.snap
        /\ r.at = "issue" => q.op = "refresh"
        /\ r.at # "usage"
    BY <1>1 DEF Request
  <2> HIDE DEF r
  <2>3. ReqOK(r, usage')
    BY <1>1, <1>2, <2>2 DEF ReqOK
  <2>4. Signable(r, now') /\ q.op = "refresh" => q.u \in seenLive[p]
    BY <1>1, <1>2, <1>4, <2>2 DEF Signable, LiveOK
  <2>5. LiveOK(r, usage', now', Live' \cup seenLive[p])
    BY <2>2, <2>4 DEF LiveOK
  <2> QED
    BY <1>1, <1>4, <2>1, <2>3, <2>5, ProceedServes
<1> QED
  BY <1>2, <1>3, <1>4 DEF GetUsage, Handled, StoreOp

\* The writes of /heartbeat and /deactivate.
LEMMA ClientWriteHandled ==
    ASSUME HTTPInv, NEW p \in Procs, HeartbeatWrite(p) \/ DeactivateWrite(p)
    PROVE  Handled(p)
<1>1. req[p].u \in UsageIds
  BY DEF HTTPInv, InFlight, ReqOK, HeartbeatWrite, DeactivateWrite, at
<1>2. StoreOp
  BY <1>1 DEF StoreOp, HeartbeatWrite, DeactivateWrite, unchangedStore
<1>3. Served(p)
  BY RespondServes DEF HeartbeatWrite, DeactivateWrite
<1> QED
  BY <1>2, <1>3 DEF Handled, HeartbeatWrite, DeactivateWrite

\* The admin's routes read the license first.
LEMMA AdminReadHandled ==
    ASSUME HTTPInv, NEW p \in Procs,
           (\E l \in Licenses : AdminGetLicense(p, l)) \/ DeleteListUsages(p)
    PROVE  Handled(p)
<1>1. UNCHANGED storeVars /\ UNCHANGED <<usage, tokens>>
  BY DEF AdminGetLicense, DeleteListUsages, unchangedStore, storeVars
<1>2. ASSUME NEW l \in Licenses, AdminGetLicense(p, l)
      PROVE  Served(p)
  <2>1. PICK op \in {"suspend", "resume", "revoke", "renew", "delete"} :
          begin(p, [Idle EXCEPT !.op = op, !.l = l, !.snap = license[l],
                                !.at = IF op = "delete" THEN "seats" ELSE "tx"])
    BY <1>2 DEF AdminGetLicense
  <2> DEFINE r == [Idle EXCEPT !.op = op, !.l = l, !.snap = license[l],
                               !.at = IF op = "delete" THEN "seats" ELSE "tx"]
  <2>2. license[l] \in License
    BY DEF HTTPInv, HTTPTypeOK, TypeOK
  <2>3. r \in Request
    BY <2>2, IdleOK DEF Request
  <2>4. r.op = op /\ r.l = l /\ r.at \in {"seats", "tx"}
    BY DEF Idle
  <2>5. begin(p, r)
    BY <2>1
  <2> HIDE DEF r
  <2>6. ReqOK(r, usage)
    BY <2>4 DEF ReqOK
  <2> QED
    BY <1>1, <2>3, <2>4, <2>5, <2>6, BeginServes
<1>3. ASSUME DeleteListUsages(p) PROVE Served(p)
  <2>1. CASE respond(p)
    BY <2>1, RespondServes
  <2>2. CASE proceed(p, [req[p] EXCEPT !.at = "tx"])
    <3> DEFINE q == req[p]
               r == [q EXCEPT !.at = "tx"]
    <3>1. q \in Request /\ q.op = "delete" /\ q.l \in Licenses
      BY <1>3 DEF DeleteListUsages, at, HTTPInv, HTTPTypeOK, InFlight, ReqOK
    <3>2. r \in Request /\ r.op = "delete" /\ r.l = q.l /\ r.at = "tx"
      BY <3>1 DEF Request
    <3>3. proceed(p, r)
      BY <2>2
    <3> HIDE DEF r
    <3>4. ReqOK(r, usage') /\ LiveOK(r, usage', now', Live' \cup seenLive[p])
      BY <3>1, <3>2 DEF ReqOK, LiveOK
    <3> QED
      BY <3>1, <3>2, <3>3, <3>4, ProceedServes
  <2> QED
    BY <1>3, <2>1, <2>2 DEF DeleteListUsages
<1> QED
  BY <1>1, <1>2, <1>3 DEF Handled, StoreOp

\* Then they run a transaction that is handed the row read before.
LEMMA AdminTransactionHandled ==
    ASSUME HTTPInv, NEW p \in Procs, AdminTransaction(p)
    PROVE  Handled(p)
<1> DEFINE q == req[p]
<1>1. q \in Request /\ q.l \in Licenses /\ q.snap \in License
  BY DEF HTTPInv, HTTPTypeOK, InFlight, ReqOK, Request, AdminTransaction, at
<1>2. UNCHANGED <<usage, seatAudit, tokens>> /\ respond(p)
  BY DEF AdminTransaction
<1>3. ASSUME UNCHANGED <<license, audit>> PROVE StoreOp
  BY <1>2, <1>3 DEF StoreOp, storeVars
<1>4. ASSUME suspend(q.l, q.snap) \/ resume(q.l, q.snap) \/ revoke(q.l, q.snap)
      PROVE  StoreOp
  <2>1. StaleTransition(q.l, q.snap)
    BY <1>2, <1>4 DEF StaleTransition
  <2> QED
    BY <1>1, <2>1 DEF StoreOp
<1>5. ASSUME NEW exp \in Dates \ {Null},
             NEW grace \in (Dates \ {Null}) \cup {Undefined},
             renew(q.l, q.snap, exp, grace)
      PROVE  StoreOp
  <2>1. StaleTransition(q.l, q.snap)
    BY <1>2, <1>5 DEF StaleTransition
  <2> QED
    BY <1>1, <2>1 DEF StoreOp
<1>6. StoreOp
  BY <1>3, <1>4, <1>5 DEF AdminTransaction
<1> QED
  BY <1>2, <1>6, RespondServes DEF Handled

\* The sweep collects in one transaction and revokes each seat in another.
LEMMA SweepHandled ==
    ASSUME HTTPInv, NEW p \in Procs, SweepCollect(p) \/ SweepRevoke(p)
    PROVE  Handled(p)
<1>1. CASE SweepCollect(p)
  <2> DEFINE r == [Idle EXCEPT !.op = "sweep", !.at = "write",
                               !.todo = staleUsages(IdleFor)]
  <2>1. r \in Request
    BY IdleOK DEF Request, staleUsages
  <2>2. r.op = "sweep" /\ r.at = "write"
    BY DEF Idle
  <2>3. begin(p, r) /\ UNCHANGED storeVars /\ UNCHANGED <<usage, tokens>>
    BY <1>1 DEF SweepCollect, unchangedStore, storeVars
  <2> HIDE DEF r
  <2>4. ReqOK(r, usage)
    BY <2>2 DEF ReqOK
  <2> QED
    BY <2>1, <2>2, <2>3, <2>4, BeginServes DEF Handled, StoreOp
<1>2. CASE SweepRevoke(p)
  <2> DEFINE q == req[p]
  <2>1. q \in Request /\ q.op = "sweep" /\ q.at = "write" /\ q.todo \subseteq UsageIds
    BY <1>2 DEF HTTPInv, HTTPTypeOK, Request, SweepRevoke, at
  <2>2. PICK u \in q.todo :
          /\ revokeUsage(u) \/ (usage[u].status # "active" /\ unchangedStore)
          /\ IF q.todo = {u} THEN respond(p)
             ELSE proceed(p, [q EXCEPT !.todo = @ \ {u}])
    BY <1>2 DEF SweepRevoke
  <2>3. StoreOp
    BY <2>1, <2>2 DEF StoreOp, unchangedStore
  <2>4. CASE respond(p)
    BY <1>2, <2>3, <2>4, RespondServes DEF Handled, SweepRevoke
  <2>5. CASE proceed(p, [q EXCEPT !.todo = @ \ {u}])
    <3> DEFINE r == [q EXCEPT !.todo = @ \ {u}]
    <3>1. r \in Request /\ r.op = "sweep" /\ r.at = "write"
      BY <2>1 DEF Request
    <3>2. proceed(p, r)
      BY <2>5
    <3> HIDE DEF r
    <3>3. ReqOK(r, usage') /\ LiveOK(r, usage', now', Live' \cup seenLive[p])
      BY <3>1 DEF ReqOK, LiveOK
    <3> QED
      BY <1>2, <2>1, <2>3, <3>1, <3>2, <3>3, ProceedServes DEF Handled, SweepRevoke
  <2> QED
    BY <2>2, <2>4, <2>5
<1> QED
  BY <1>1, <1>2

\* issueToken leaves the store alone and answers; the seat it names is a row.
LEMMA IssueTokenStep ==
    ASSUME HTTPInv, NEW p \in Procs, issueToken(p)
    PROVE  /\ StoreOp /\ Served(p) /\ UNCHANGED usage
           /\ tokens' \subseteq Token
           /\ \A t \in tokens' \ tokens :
                /\ t.usage = req[p].u /\ usage'[t.usage].status # "none"
                /\ req[p].op \in {"activate", "refresh"}
                /\ t.usage \in seenLive[p]
<1> DEFINE q == req[p]
           n == [usage |-> q.u, exp |-> now + TTL]
<1>1. /\ q.op \in {"activate", "refresh"} /\ q.at = "issue" /\ respond(p)
      /\ UNCHANGED storeVars /\ UNCHANGED usage
  BY DEF issueToken, at, unchangedStore, storeVars
<1>2. /\ q.u \in UsageIds /\ usage[q.u].status # "none"
      /\ LiveOK(q, usage, now, seenLive[p])
  BY <1>1 DEF HTTPInv, InFlight, LiveSeen, ReqOK
<1>3. tokens' = tokens \/ (Signable(q, now) /\ tokens' = tokens \cup {n})
  BY DEF issueToken, Signable
<1>4. n \in Token /\ n.usage = q.u
  BY <1>2, HTTPAssumption DEF Token, HTTPInv, HTTPTypeOK, TypeOK, Instant
<1>5. tokens \subseteq Token
  BY DEF HTTPInv, HTTPTypeOK
<1> HIDE DEF n
<1>6. Signable(q, now) => q.u \in seenLive[p]
  BY <1>1, <1>2 DEF LiveOK
<1>7. StoreOp /\ Served(p)
  BY <1>1, RespondServes DEF StoreOp
<1> QED
  BY <1>1, <1>2, <1>3, <1>4, <1>5, <1>6, <1>7

\* The routes and jobs that touch the store in one step and hold no request.
LEMMA DirectStoreOp ==
    ASSUME HTTPInv, AdminDirect \/ TickJob
    PROVE  StoreOp /\ UNCHANGED <<req, tokens>>
<1>1. CASE AdminDirect
  BY <1>1 DEF AdminDirect, StoreOp
<1>2. CASE TickJob
  <2>1. PICK l \in Licenses : tick(l, license[l])
    BY <1>2 DEF TickJob
  <2>2. license[l] \in License
    BY DEF HTTPInv, HTTPTypeOK, TypeOK
  <2>3. StaleTransition(l, license[l])
    BY <1>2, <2>1 DEF TickJob, StaleTransition
  <2> QED
    BY <1>2, <2>2, <2>3 DEF TickJob, StoreOp
<1> QED
  BY <1>1, <1>2

\* What any step does: one store operation, at most one request served, and
\* a token only from issueToken.
LEMMA HTTPStep ==
    ASSUME HTTPInv, HTTPNext
    PROVE  /\ StoreOp /\ Observe /\ now' \in Nat /\ now' >= now
           /\ UNCHANGED req \/ (\E p \in Procs : Served(p))
           /\ UNCHANGED tokens \/ (\E p \in Procs : issueToken(p))
<1>1. now \in Nat /\ Observe
  BY DEF HTTPInv, HTTPTypeOK, TypeOK, Instant, HTTPNext
<1>2. CASE HTTPAdvance
  BY <1>1, <1>2 DEF HTTPAdvance, Advance, StoreOp
<1>3. CASE UNCHANGED now /\ (AdminDirect \/ TickJob)
  BY <1>1, <1>3, DirectStoreOp
<1>4. ASSUME NEW p \in Procs, Step(p), UNCHANGED now
      PROVE  StoreOp /\ Served(p) /\ (UNCHANGED tokens \/ issueToken(p))
  <2>1. CASE issueToken(p)
    BY <2>1, IssueTokenStep
  <2>2. CASE Handled(p)
    BY <2>2 DEF Handled
  <2>3. Handled(p) \/ issueToken(p)
    BY <1>4, ActivateFindHandled, ActivateRegisterHandled, VerifyHandled,
       GetLicenseHandled, GetUsageHandled, ClientWriteHandled,
       AdminReadHandled, AdminTransactionHandled, SweepHandled DEF Step
  <2> QED
    BY <2>1, <2>2, <2>3
<1> QED
  BY <1>1, <1>2, <1>3, <1>4 DEF HTTPNext

----------------------------------------------------------------------------
\* The inductive invariant of the handlers: the tables, the requests and the
\* tokens are well formed, and a request that may still issue has seen its
\* seat live.
THEOREM HTTPInvariant == HTTPSpec => []HTTPInv
<1>1. HTTPInit => HTTPInv
  <2> SUFFICES ASSUME HTTPInit PROVE HTTPInv
    OBVIOUS
  <2>1. TypeOK
    BY DEF HTTPInit, Init, TypeOK, NoLicense, NoUsage, License, Usage,
           AuditRow, LicenseStatus, OptInstant, Instant
  <2>2. \A p \in Procs : req[p] = Idle
    BY DEF HTTPInit
  <2>3. req \in [Procs -> Request]
    BY IdleOK DEF HTTPInit
  <2>4. InFlight /\ LiveSeen
    BY <2>2, IdleOK DEF InFlight, LiveSeen
  <2>5. SeatsHaveLicense /\ TokensHaveSeat
    BY DEF HTTPInit, Init, NoUsage, SeatsHaveLicense, TokensHaveSeat
  <2> QED
    BY <2>1, <2>3, <2>4, <2>5 DEF HTTPInit, HTTPInv, HTTPTypeOK
<1>2. HTTPInv /\ [HTTPNext]_httpVars => HTTPInv'
  <2> SUFFICES ASSUME HTTPInv, [HTTPNext]_httpVars PROVE HTTPInv'
    OBVIOUS
  <2>1. CASE UNCHANGED httpVars
    BY <2>1 DEF httpVars, HTTPInv, HTTPTypeOK, TypeOK, InFlight, LiveSeen,
       TokensHaveSeat, SeatsHaveLicense
  <2>2. CASE HTTPNext
    <3>1. /\ tokens' \subseteq Token
          /\ \A t \in tokens' \ tokens : usage'[t.usage].status # "none"
      <4>1. CASE UNCHANGED tokens
        BY <4>1 DEF HTTPInv, HTTPTypeOK
      <4>2. CASE \E p \in Procs : issueToken(p)
        BY <4>2, IssueTokenStep
      <4> QED
        BY <2>2, <4>1, <4>2, HTTPStep
    <3> QED
      BY <2>2, <3>1, HTTPStep, ServedKeeps
  <2> QED
    BY <2>1, <2>2
<1> QED
  BY <1>1, <1>2, PTL DEF HTTPSpec

\* Every step, a stuttering one included, moves seats as SeatsMove says.
LEMMA HTTPSeatsMove ==
    ASSUME HTTPInv, [HTTPNext]_httpVars
    PROVE  TypeOK /\ SeatsMove /\ (AuditMatchesRow => AuditMatchesRow')
<1>1. TypeOK
  BY DEF HTTPInv, HTTPTypeOK
<1>2. StoreOp
  BY HTTPStep DEF StoreOp, httpVars, storeVars
<1> QED
  BY <1>1, <1>2, StoreOpSeats, StoreOpAudit

\* Types, for every interleaving.
THEOREM HTTPTypes == HTTPSpec => []HTTPTypeOK
<1>1. HTTPInv => HTTPTypeOK
  BY DEF HTTPInv
<1> QED
  BY <1>1, HTTPInvariant, PTL

\* A device holds at most one live seat of a license, however activations,
\* deactivations, rotations and sweeps interleave.
THEOREM HTTPOneSeat == HTTPSpec => []OneSeatPerDevice
<1>1. HTTPInit => OneSeatPerDevice
  BY DEF HTTPInit, Init, OneSeatPerDevice, NoUsage
<1>2. HTTPInv /\ OneSeatPerDevice /\ [HTTPNext]_httpVars => OneSeatPerDevice'
  BY HTTPSeatsMove, OneSeatKept
<1> QED
  BY <1>1, <1>2, HTTPInvariant, PTL DEF HTTPSpec

\* The end of a seat is audited once, whichever requests race to end it.
THEOREM HTTPSeatEndsAudited == HTTPSpec => []SeatEndAuditedOnce
<1>1. HTTPInit => SeatEndAuditedOnce
  BY DEF HTTPInit, Init, SeatEndAuditedOnce, NoUsage
<1>2. HTTPInv /\ SeatEndAuditedOnce /\ [HTTPNext]_httpVars => SeatEndAuditedOnce'
  BY HTTPSeatsMove, AuditedOnceKept
<1> QED
  BY <1>1, <1>2, HTTPInvariant, PTL DEF HTTPSpec

\* The last audit row's new_state is the stored status, although the routes
\* hand their transactions rows that may be stale.
THEOREM HTTPAuditAgrees == HTTPSpec => []AuditMatchesRow
<1>1. HTTPInit => AuditMatchesRow
  BY DEF HTTPInit, Init, AuditMatchesRow, NoLicense
<1>2. HTTPInv /\ AuditMatchesRow /\ [HTTPNext]_httpVars => AuditMatchesRow'
  BY HTTPSeatsMove
<1> QED
  BY <1>1, <1>2, HTTPInvariant, PTL DEF HTTPSpec

\* No request in flight brings a revoked seat back.
THEOREM RevokedStaysRevoked == HTTPSpec => RevokedSeatStaysRevoked
<1>1. HTTPInv /\ [HTTPNext]_httpVars =>
        [\A u \in UsageIds : usage[u].status = "revoked"
                              => usage'[u].status = "revoked"]_httpVars
  BY HTTPSeatsMove, SeatsRemain
<1> QED
  BY <1>1, HTTPInvariant, PTL DEF HTTPSpec, RevokedSeatStaysRevoked

\* Seats stay finite, so that the cap is about a number.
LEMMA HTTPSeatsFinite == HTTPSpec => []FiniteSeats
<1>1. HTTPInit => FiniteSeats
  BY SeatsStartFinite DEF HTTPInit
<1>2. HTTPInv /\ FiniteSeats /\ [HTTPNext]_httpVars => FiniteSeats'
  BY HTTPSeatsMove, SeatsStayFinite
<1> QED
  BY <1>1, <1>2, HTTPInvariant, PTL DEF HTTPSpec

\* The seat cap holds when registrations, which count and insert in one
\* transaction, interleave with everything else.
THEOREM HTTPCapHolds == HTTPSpec => SeatsWithinCap
<1>1. HTTPInv /\ FiniteSeats /\ [HTTPNext]_httpVars =>
        [\A l \in Licenses :
           Cardinality(activeUsages(l)') > Cardinality(activeUsages(l))
           => Cardinality(activeUsages(l)') <= license'[l].max_usages]_vars
  BY HTTPSeatsMove, CapKept
<1> QED
  BY <1>1, HTTPInvariant, HTTPSeatsFinite, PTL DEF HTTPSpec, SeatsWithinCap

\* A token is issued only for a seat that was live on a usable license at
\* one moment of the request that issued it, although the license, the seat
\* and the clock are read at three.
THEOREM TokensHadLiveMoment == HTTPSpec => TokenHadLiveMoment
<1>1. HTTPInv /\ [HTTPNext]_httpVars =>
        [\A t \in tokens' \ tokens :
           \E p \in Procs : /\ req[p].op \in {"activate", "refresh"}
                            /\ req[p].u = t.usage
                            /\ t.usage \in seenLive[p]]_httpVars
  <2> SUFFICES ASSUME HTTPInv, HTTPNext, NEW t \in tokens' \ tokens
               PROVE  \E p \in Procs : /\ req[p].op \in {"activate", "refresh"}
                                       /\ req[p].u = t.usage
                                       /\ t.usage \in seenLive[p]
    OBVIOUS
  <2>1. PICK p \in Procs : issueToken(p)
    BY HTTPStep
  <2> QED
    BY <2>1, IssueTokenStep
<1> QED
  BY <1>1, HTTPInvariant, PTL DEF HTTPSpec, TokenHadLiveMoment
=============================================================================
