------------------------------ MODULE AdminApi ------------------------------
(* The admin routes (typescript/src/http/admin-handlers.ts) as functions of  *)
(* the database: what each accepts, what it writes and what it answers.  A   *)
(* request is served in two steps, because the handlers read the row they    *)
(* decide on before the transaction they write it in: `row` is what that     *)
(* first read returned (Null: no such row).  Their later reads are taken     *)
(* with the write; IssuerHTTP, PostgresTx and ScopeKeys split those where    *)
(* it matters.  Rows are numbered in the order of their creation, and        *)
(* lists are newest first.                                                   *)
EXTENDS Lifecycle, Sequences, FiniteSets, FiniteSetsExt, TLC

CONSTANT Unit           \* database rows of the program per row of the model

ASSUME UnitAssumption == Unit \in 1..25

-----------------------------------------------------------------------------
(* JSON values as the validators tell them apart; "empty" is the string ''.  *)

plain(t)  == [t |-> t]
string(s) == [t |-> "string", v |-> s]
number(n) == [t |-> "number", v |-> n]
object(o) == [t |-> "object", v |-> o]
BadValues == {plain(t) : t \in {"undefined", "null", "empty", "fraction", "array"}}
                 \cup {number(-1), number(0)}

requireString(j)  == j.t = "string"
optionalString(j) == j.t \in {"undefined", "null", "empty", "string"}
requireInt(j, min) == j.t = "number" /\ j.v >= min
optionalObject(j) == j.t \in {"undefined", "null", "object"}
nullableInt(j)    == j.t \in {"undefined", "null"} \/ requireInt(j, 0)

accepts(rule, j) == CASE rule = "text"     -> requireString(j)
                      [] rule = "text?"    -> j.t = "null" \/ requireString(j)
                      [] rule = "optional" -> optionalString(j)
                      [] rule = "positive" -> requireInt(j, 1)
                      [] rule = "natural"  -> requireInt(j, 0)
                      [] rule = "natural?" -> nullableInt(j)
                      [] rule = "object"   -> optionalObject(j)
stored(rule, j) == CASE j.t \in {"string", "number", "object"} -> j.v
                     [] j.t \notin {"string", "number", "object"} -> IF rule = "object" THEN "{}" ELSE Null

valid(rules, b)  == \A f \in DOMAIN rules : accepts(rules[f], b[f])
values(rules, b) == [f \in DOMAIN rules |-> stored(rules[f], b[f])]

\* A PATCH takes the fields that are there and leaves the others alone.
present(rules, b) == {f \in DOMAIN rules : b[f].t # "undefined"}
validPatch(rules, b) == \A f \in present(rules, b) : accepts(rules[f], b[f])
patched(rules, r, b) ==
    [f \in DOMAIN r |-> IF f \in present(rules, b) THEN stored(rules[f], b[f]) ELSE r[f]]

\* parseLimit: absent (0) is 25, more than 100 is refused.
pageOf(n) == n \div Unit
parseLimit(limit) == limit \in 0 .. pageOf(100)
limitValue(limit) == IF limit = 0 THEN pageOf(25) ELSE limit

-----------------------------------------------------------------------------
(* Answers.                                                                  *)

ok(d, data)  == [status |-> 200, db |-> d, data |-> data]
created(d, id) == [status |-> 201, db |-> d, data |-> id]
noContent(d) == [status |-> 204, db |-> d, data |-> Null]
err(d, code) == [status |-> code, db |-> d, data |-> Null]

exists(rows, id) == id \in DOMAIN rows
audited(d, event, id, license) ==
    [d EXCEPT !.audit = Append(@, [event |-> event, id |-> id, license_id |-> license])]
\* Every write moves the database on to its next revision.
wrote(d) == [d EXCEPT !.rev = @ + 1]

page(rows, ids, cursor, limit) ==
    LET rest  == {i \in ids : cursor = Null \/ i < cursor}
        shown == {i \in rest : Cardinality({k \in rest : k > i}) < limit}
    IN [items |-> [i \in shown |-> rows[i]],
        next_cursor |-> IF shown = rest THEN Null ELSE Min(shown)]

\* Unknown values of an enumeration are no filter at all.
parseEnum(filter, allowed) ==
    [f \in {g \in DOMAIN filter : g # "status" \/ filter[g] \in allowed} |-> filter[f]]
matching(rows, filter) == {i \in DOMAIN rows : \A f \in DOMAIN filter : rows[i][f] = filter[f]}

listed(d, q, rows, ids) ==
    IF parseLimit(q.limit) THEN ok(d, page(rows, ids, q.cursor, limitValue(q.limit))) ELSE err(d, 400)

handleListLicenses(d, q)  == listed(d, q, d.licenses, matching(d.licenses, parseEnum(q.filter, LicenseStatus)))
handleListScopes(d, q)    == listed(d, q, d.scopes, DOMAIN d.scopes)
handleListTemplates(d, q) == listed(d, q, d.templates, matching(d.templates, q.filter))
handleListUsages(d, q)    == listed(d, q, d.usages, matching(d.usages, parseEnum(q.filter, {"active", "revoked"})))
handleListKeys(d, q)      == listed(d, q, d.keys, matching(d.keys, q.filter))
handleListAudit(d, q)     == listed(d, q, d.audit, matching(d.audit, q.filter))
handleGetLicenseStats(d, q) ==
    ok(d, [s \in LicenseStatus |-> Cardinality({i \in DOMAIN d.licenses : d.licenses[i].status = s})])

handleGetLicense(d, q, row)  == IF row = Null THEN err(d, 404) ELSE ok(d, row)
handleGetScope(d, q, row)    == handleGetLicense(d, q, row)
handleGetTemplate(d, q, row) == handleGetLicense(d, q, row)
handleGetUsage(d, q, row)    == handleGetLicense(d, q, row)

-----------------------------------------------------------------------------
(* Licenses.                                                                 *)

licenseRules == [licensable_type |-> "text", licensable_id |-> "text", max_usages |-> "positive",
                 scope_id |-> "optional", template_id |-> "optional", license_key |-> "optional",
                 expires_at |-> "optional", grace_until |-> "optional", meta |-> "object"]
licensePatchRules == [max_usages |-> "positive", expires_at |-> "optional",
                      grace_until |-> "optional", meta |-> "object"]

newKey(d) == 1 + Max({0} \cup {d.licenses[i].license_key : i \in DOMAIN d.licenses})

handleCreateLicense(d, q) ==
    LET v == values(licenseRules, q.body)
        key == IF v.license_key = Null THEN newKey(d) ELSE v.license_key
        id == Len(d.licenses) + 1
    IN CASE ~valid(licenseRules, q.body) -> err(d, 400)
         [] /\ valid(licenseRules, q.body)
            /\ \E i \in DOMAIN d.licenses : d.licenses[i].license_key = key -> err(d, 409)
         [] OTHER -> created(audited([wrote(d) EXCEPT !.licenses = Append(@,
                        [status |-> "pending", max_usages |-> v.max_usages, license_key |-> key, activated |-> FALSE,
                         expires_at |-> v.expires_at, grace_until |-> v.grace_until,
                         scope_id |-> v.scope_id, template_id |-> v.template_id, meta |-> v.meta])],
                        "license.created", id, id), id)

putLicense(d, id, row, event) == audited([wrote(d) EXCEPT !.licenses[id] = row], event, id, id)

\* The row that was read is written back, the patch with it.
handleUpdateLicense_WritesReadRow(d, q, row) ==
    CASE row = Null -> err(d, 404)
      [] row # Null /\ ~validPatch(licensePatchRules, q.body) -> err(d, 400)
      [] OTHER -> IF present(licensePatchRules, q.body) = {} THEN ok(d, row)
                  ELSE LET new == patched(licensePatchRules, row, q.body)
                       IN ok([wrote(d) EXCEPT !.licenses[q.id] = new], new)

handleUpdateLicense(d, q, row) ==
    CASE row = Null -> err(d, 404)
      [] row # Null /\ ~validPatch(licensePatchRules, q.body) -> err(d, 400)
      [] OTHER -> IF present(licensePatchRules, q.body) = {} THEN ok(d, row)
                  ELSE LET new == patched(licensePatchRules, d.licenses[q.id], q.body)
                       IN ok([wrote(d) EXCEPT !.licenses[q.id] = new], new)

\* Suspending and revoking twice are no-ops.
lifecycleTransition(d, q, row) ==
    LET stays == <<q.op, row.status>> \in {<<"suspend", "suspended">>, <<"revoke", "revoked">>}
        may == [suspend |-> maySuspend(row), resume |-> mayResume(row), revoke |-> mayRevoke(row)][q.op]
        old == d.licenses[q.id]
        new == [suspend |-> suspended(old), resume |-> resumed(old), revoke |-> revoked(old)][q.op]
        event == [suspend |-> "license.suspended", resume |-> "license.resumed", revoke |-> "license.revoked"][q.op]
    IN CASE row = Null -> err(d, 404)
         [] row # Null /\ stays -> ok(d, row)
         [] OTHER -> IF may THEN ok(putLicense(d, q.id, new, event), new)
                     ELSE err(d, IF row.status = "revoked" THEN 403 ELSE 409)

handleRenewLicense(d, q, row) ==
    CASE q.body.expires_at.t # "string" \/ ~optionalString(q.body.grace_until) -> err(d, 400)
      [] q.body.expires_at.t = "string" /\ optionalString(q.body.grace_until) /\ row = Null -> err(d, 404)
      [] OTHER -> IF ~mayRenew(row) THEN err(d, IF row.status = "revoked" THEN 403 ELSE 409)
                  ELSE LET g == stored("optional", q.body.grace_until)
                           new == renewed(d.licenses[q.id], q.body.expires_at.v,
                                          IF g = Null THEN Undefined ELSE g)
                       IN ok(putLicense(d, q.id, new, "license.renewed"), new)

seatsOf(d, id) == {u \in DOMAIN d.usages : d.usages[u].license_id = id /\ d.usages[u].status = "active"}

handleDeleteLicense(d, q, row) ==
    CASE row = Null -> err(d, 404)
      [] row # Null /\ seatsOf(d, q.id) # {} -> err(d, 409)
      [] OTHER -> IF mayRevoke(row) THEN noContent(putLicense(d, q.id, revoked(d.licenses[q.id]), "license.revoked"))
                  ELSE noContent(d)

handleRotateLicenseKey(d, q) ==
    CASE ~exists(d.licenses, q.id) -> err(d, 404)
      [] exists(d.licenses, q.id) /\ d.licenses[q.id].status = "revoked" -> err(d, 403)
      [] OTHER -> LET new == [d.licenses[q.id] EXCEPT !.license_key = newKey(d)]
                      seats == [u \in DOMAIN d.usages |-> IF u \in seatsOf(d, q.id)
                                   THEN [d.usages[u] EXCEPT !.status = "revoked"] ELSE d.usages[u]]
                  IN ok(putLicense([d EXCEPT !.usages = seats], q.id, new, "license.key_rotated"), new)

handleRevokeUsage(d, q, row) ==
    CASE row = Null -> err(d, 404)
      [] row # Null /\ row.status = "revoked" -> ok(d, d.usages[q.id])
      [] OTHER -> ok(IF d.usages[q.id].status = "revoked" THEN d
                     ELSE audited([wrote(d) EXCEPT !.usages[q.id].status = "revoked"], "usage.revoked", q.id,
                                  d.usages[q.id].license_id), row)

-----------------------------------------------------------------------------
(* Scopes, templates and keys.  Slugs are "bad" or within the pattern.       *)

handleCreateScope(d, q) ==
    CASE \/ ~requireString(q.body.slug) \/ ~requireString(q.body.name) \/ ~optionalObject(q.body.meta)
         \/ q.body.slug.v = "bad" -> err(d, 400)
      [] OTHER -> IF \E i \in DOMAIN d.scopes : d.scopes[i].slug = q.body.slug.v THEN err(d, 409)
                  ELSE created(audited([wrote(d) EXCEPT !.scopes = Append(@,
                                  [slug |-> q.body.slug.v, name |-> q.body.name.v,
                                   meta |-> stored("object", q.body.meta)])],
                                  "scope.created", Len(d.scopes) + 1, Null), Len(d.scopes) + 1)

scopePatchRules == [name |-> "text", meta |-> "object"]
handleUpdateScope(d, q, row) ==
    CASE row = Null -> err(d, 404)
      [] row # Null /\ ~validPatch(scopePatchRules, q.body) -> err(d, 400)
      [] OTHER -> LET new == patched(scopePatchRules, d.scopes[q.id], q.body)
                  IN IF present(scopePatchRules, q.body) = {} THEN ok(d, row)
                     ELSE ok([wrote(d) EXCEPT !.scopes[q.id] = new], new)

\* 204 once nothing refers to the row, which stays.
handleDeleteScope(d, q, row) ==
    CASE row = Null -> err(d, 404)
      [] row # Null /\ (\/ matching(d.licenses, [scope_id |-> q.id]) # {}
                       \/ matching(d.templates, [scope_id |-> q.id]) # {}) -> err(d, 409)
      [] OTHER -> noContent(d)

templateRules == [name |-> "text", max_usages |-> "positive", trial_duration_sec |-> "natural",
                  grace_duration_sec |-> "natural", scope_id |-> "optional", parent_id |-> "optional",
                  entitlements |-> "object", meta |-> "object",
                  force_online_after_sec |-> "natural?", trial_cooldown_sec |-> "natural?"]
templatePatchRules == [[f \in DOMAIN templateRules \ {"scope_id"} |-> templateRules[f]]
                          EXCEPT !.parent_id = "text?"]

nameTaken(d, scope, name, id) ==
    \E i \in DOMAIN d.templates \ {id} : d.templates[i].scope_id = scope /\ d.templates[i].name = name
\* The templates at or above one; two generations are all the model has.
ancestry(d, id) ==
    LET up(S) == S \cup ({d.templates[i].parent_id : i \in S} \ {Null}) IN up(up({id}))

handleCreateTemplate(d, q) ==
    LET v == values(templateRules, q.body) IN
    CASE ~valid(templateRules, q.body) -> err(d, 400)
      [] valid(templateRules, q.body) /\ nameTaken(d, v.scope_id, v.name, 0) -> err(d, 409)
      [] OTHER -> created(audited([wrote(d) EXCEPT !.templates = Append(@, v)],
                                  "template.created", Len(d.templates) + 1, Null), Len(d.templates) + 1)

handleUpdateTemplate(d, q, row) ==
    CASE row = Null -> err(d, 404)
      [] row # Null /\ ~validPatch(templatePatchRules, q.body) -> err(d, 400)
      [] OTHER ->
           LET new == patched(templatePatchRules, d.templates[q.id], q.body) IN
           IF present(templatePatchRules, q.body) = {} THEN ok(d, row)
           ELSE IF \/ nameTaken(d, new.scope_id, new.name, q.id)
                   \/ new.parent_id # Null /\ q.id \in ancestry(d, new.parent_id)
           THEN err(d, 409)
           ELSE ok([wrote(d) EXCEPT !.templates[q.id] = new], new)

handleDeleteTemplate(d, q, row) ==
    CASE row = Null -> err(d, 404)
      [] row # Null /\ matching(d.licenses, [template_id |-> q.id]) # {} -> err(d, 409)
      [] OTHER -> noContent(d)

\* Keys of one scope and algorithm; `secrets` are the passphrases configured.
activeKeys(d, role) == matching(d.keys, [role |-> role, state |-> "active"])

handleCreateKey(d, q, secrets) ==
    LET role == q.body.role.v
        id == Len(d.keys) + 1
        new == [role |-> role, state |-> "active"]
        issue(event) == created(audited([wrote(d) EXCEPT !.keys = Append(@, new)], event, id, Null), id)
    IN CASE \/ ~requireString(q.body.kid) \/ ~requireString(q.body.role)
            \/ role \notin {"root", "signing"} \/ "root" \notin secrets
            \/ role = "signing" /\ "signing" \notin secrets -> err(d, 400)
         [] OTHER -> IF role = "root" THEN issue("key.root.issued")
                     ELSE IF activeKeys(d, "root") = {} \/ activeKeys(d, "signing") # {} THEN err(d, 409)
                     ELSE issue("key.signing.issued")

handleRotateKey(d, q, row, secrets) ==
    CASE row = Null -> err(d, 404)
      [] row # Null /\ (row.role # "signing" \/ secrets # {"root", "signing"}) -> err(d, 400)
      [] OTHER ->
           IF activeKeys(d, "root") = {} THEN err(d, 409)
           ELSE IF activeKeys(d, "signing") = {} THEN err(d, 400)
           ELSE LET old == Max(activeKeys(d, "signing")) IN
                ok(audited([wrote(d) EXCEPT !.keys = Append([@ EXCEPT ![old].state = "retiring"],
                               [role |-> "signing", state |-> "active"])], "key.rotated", old, Null),
                   [retiring |-> old, active |-> Len(d.keys) + 1])
=============================================================================
