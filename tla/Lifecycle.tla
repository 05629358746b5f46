----------------------------- MODULE Lifecycle -----------------------------
(***************************************************************************)
(* The license state machine of typescript/src/lifecycle.ts (and of        *)
(* licensing/lifecycle.go, which agrees with it line by line): a license   *)
(* row, the status a reader sees at an instant, and for each transition    *)
(* the condition under which it writes and the row it writes.              *)
(*                                                                         *)
(* Every transition function of the code takes a license the CALLER read   *)
(* ("snap" below) and patches the row that is in storage ("row").  The     *)
(* guards look at snap only, the write changes only the patched columns of *)
(* row; whether snap is still what row holds is the caller's business.     *)
(***************************************************************************)
EXTENDS Integers

CONSTANTS Null,             \* SQL NULL / JavaScript null
          Undefined         \* an option the caller left out

ASSUME NullAssumption == /\ Null \notin Nat
                         /\ Undefined \notin Nat \cup {Null}

LicenseStatus ==
    {"pending", "active", "grace", "expired", "suspended", "revoked"}

\* An instant (clock.nowIso()); the code compares ISO-8601 strings of one
\* fixed format, whose order is the order of the instants.
Instant == Nat
OptInstant == Instant \cup {Null}

\* A license row.  "absent" is a row that does not exist yet.  license_key
\* is the number of key rotations; activated stands for activated_at # null.
License == [status       : LicenseStatus \cup {"absent"},
            max_usages   : Nat \ {0},
            license_key  : Nat,
            activated    : BOOLEAN,
            expires_at   : OptInstant,
            grace_until  : OptInstant]

NoLicense == [status |-> "absent", max_usages |-> 1, license_key |-> 0,
              activated |-> FALSE, expires_at |-> Null, grace_until |-> Null]

----------------------------------------------------------------------------
\* What a reader sees at instant t: only active and grace depend on time.
effectiveStatus(lic, t) ==
    IF /\ lic.status \in {"active", "grace"}
       /\ lic.expires_at # Null
       /\ t >= lic.expires_at
    THEN IF lic.grace_until # Null /\ t < lic.grace_until
         THEN "grace" ELSE "expired"
    ELSE lic.status

----------------------------------------------------------------------------
(* Slips a change of this code could make.  No specification uses them:    *)
(* each stands in for the definition of the same name without its suffix,  *)
(* to show that a property notices.                                        *)

mayRenew_RevokedToo(snap) == snap.status \notin {"absent", "suspended"}
suspended_Misspelt(row) == [row EXCEPT !.status = "paused"]
ticked_DropsGrace(snap, row, t) ==
    [row EXCEPT !.status = effectiveStatus(snap, t), !.grace_until = Null]

----------------------------------------------------------------------------
(* The guards: the early returns and throws before the first write.        *)

mayActivate(snap) == snap.status = "pending"
maySuspend(snap)  == snap.status \notin {"absent", "revoked", "suspended"}
mayResume(snap)   == snap.status = "suspended"
mayRevoke(snap)   == snap.status \notin {"absent", "revoked"}
mayExpire(snap)   == snap.status \in {"active", "grace"}
mayRenew(snap)    == snap.status \notin {"absent", "revoked", "suspended"}
mayTick(snap, t)  == /\ snap.status \in LicenseStatus
                     /\ effectiveStatus(snap, t) # snap.status
                     /\ effectiveStatus(snap, t) \in {"grace", "expired"}

(* The patches, applied to the row in storage.                             *)

activated(row) == [row EXCEPT !.status = "active", !.activated = TRUE]
suspended(row) == [row EXCEPT !.status = "suspended"]
resumed(row)   == [row EXCEPT !.status = "active"]
revoked(row)   == [row EXCEPT !.status = "revoked"]
expired(row)   == [row EXCEPT !.status = "expired"]
ticked(snap, row, t) == [row EXCEPT !.status = effectiveStatus(snap, t)]

\* opts.grace_until left undefined keeps the old value.
renewed(row, exp, grace) ==
    [row EXCEPT !.status = "active",
                !.expires_at = exp,
                !.grace_until = IF grace = Undefined THEN @ ELSE grace]

\* usage-service.ts assertUsable: the STORED status, no clock involved.
assertUsable(snap) == snap.status \in {"active", "pending", "grace"}
=============================================================================
