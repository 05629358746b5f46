---------------------------- MODULE LicenseStats ----------------------------
(* storage/stats.ts: the roll-up the dashboard shows, shared by the adapters.*)
EXTENDS StorageRows

AddedEvents == {"license.created", "license.activated"}
RemovedEvents == {"license.revoked", "license.expired", "license.suspended"}

\* An expires_at as an ISO string is "soon" (within 30 days from now) or
\* "later" (or past); compared with a string, a Date is neither.
within30d(expiresAt) == expiresAt = "soon"

\* `expiresAt` is the value of that column in each row the adapter hands over,
\* `seats` the active usage rows it selected; one entry per row.  A seat total
\* is the size of a set of seats.  The top-10 lists are orderings of the same
\* per-license counts.
computeLicenseStats(licenses, expiresAt, seats, events) ==
    LET live == {l \in licenses : l.status = "active"}
        of(l) == Cardinality({u \in seats : u.license = l.id})
    IN  [counts   |-> [s \in {l.status : l \in licenses} |-> Cardinality({l \in licenses : l.status = s})],
         expiring |-> Cardinality({l \in live : within30d(expiresAt[l])}),
         added    |-> Cardinality({a \in events : a.event \in AddedEvents}),
         removed  |-> Cardinality({a \in events : a.event \in RemovedEvents}),
         used     |-> Cardinality({u \in seats : \E l \in live : l.id = u.license}),
         maxUsages  |-> Cardinality(UNION {{l.id} \X (1..l.max) : l \in live}),
         perLicense |-> {<<l.id, l.max, of(l)>> : l \in live},
         templates  |-> {<<t, Cardinality({l \in licenses : l.template = t})>> :
                           t \in {l.template : l \in licenses} \ {Null}}]
=============================================================================
