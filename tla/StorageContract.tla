-------------------------- MODULE StorageContract --------------------------
(* What storage/types.ts promises its callers, whatever the adapter: rows of *)
(* a table never share a unique key, references resolve, template parents    *)
(* form a forest, natural keys never change, audit rows are write-once, and  *)
(* only a trial issuance can be deleted.  The adapters are checked to be     *)
(* implementations of this specification.                                    *)
EXTENDS StorageRows

VARIABLES db,
          enforcesReferences   \* fixed; the memory adapter has no foreign keys

\* The unique groups of describeSchema(): constraint name, then the columns,
\* a null column being a value like any other.
claims(t, r) ==
    CASE t = "scopes"    -> {<<"slug", r.slug>>}
      [] t = "templates" -> {<<"scope_name", r.scope, r.name>>}
      [] t = "licenses"  -> {<<"license_key", r.key>>, <<"licensable_scope", r.who, r.scope>>}
      [] t = "usages"    -> {<<"license_fingerprint_active", r.license, r.fp>> : s \in {r.status} \cap {"active"}}
      [] t = "keys"      -> {<<"kid", r.kid>>} \cup
                            {<<"scope_active_signing", r.scope>> :
                                s \in {<<r.role, r.state>>} \cap {<<"signing", "active">>}}
      [] t = "trials"    -> {<<"template_fingerprint", r.template, r.fp>>}
      [] OTHER           -> {}

\* Natural keys, which no patch shape contains (design note 2).
naturalKey(t, r) ==
    CASE t = "scopes" -> <<r.slug>>
      [] t = "usages" -> <<r.license, r.fp>>
      [] t = "keys"   -> <<r.kid, r.scope, r.role>>
      [] OTHER        -> <<>>

references(t, r) ==
    LET all == CASE t = "templates" -> {<<"scopes", r.scope>>, <<"templates", r.parent>>}
                 [] t = "licenses"  -> {<<"scopes", r.scope>>, <<"templates", r.template>>}
                 [] t = "usages"    -> {<<"licenses", r.license>>}
                 [] t = "keys"      -> {<<"scopes", r.scope>>, <<"keys", r.from>>}
                 [] t = "audit"     -> {<<"licenses", r.license>>, <<"scopes", r.scope>>}
                 [] t = "trials"    -> {<<"templates", r.template>>}
                 [] OTHER           -> {}
    IN  {x \in all : x[2] # Null}

NoSharedClaim(d) ==
    \A t \in Tables : \A r, q \in d[t] :
        r # q => r.id # q.id /\ claims(t, r) \cap claims(t, q) = {}

ReferencesResolve(d) ==
    \A t \in Tables : \A r \in d[t] : \A x \in references(t, r) : has(d, x[1], x[2])

Forest(d) ==
    \A r \in d.templates : \A n \in 1..Cardinality(d.templates) : ancestor(d, r.id, n) # r.id

Consistent(d) ==
    NoSharedClaim(d) /\ (enforcesReferences => ReferencesResolve(d)) /\ Forest(d)

Create(t) == \E r \in db'[t] :
    ~has(db, t, r.id) /\ db' = [db EXCEPT ![t] = @ \cup {r}]

Update(t) == \E r \in db[t], s \in db'[t] :
    /\ t \notin {"audit", "trials"}
    /\ s.id = r.id /\ naturalKey(t, s) = naturalKey(t, r)
    /\ db' = [db EXCEPT ![t] = (@ \ {r}) \cup {s}]

DeleteTrial == \E r \in db.trials : db' = [db EXCEPT !.trials = @ \ {r}]

Init == Consistent(db)

Next ==
    /\ (\E t \in Tables : Create(t) \/ Update(t)) \/ DeleteTrial
    /\ Consistent(db') /\ UNCHANGED enforcesReferences

Spec == Init /\ [][Next]_<<db, enforcesReferences>>
=============================================================================
