------------------------------ MODULE Issuance ------------------------------
(* The high-level Issuer of easy.ts next to the admin's template routes:     *)
(* issue() with template inheritance and trial cooldowns, license creation   *)
(* from a template, and ensureSigningKey().  Calls are processes; every      *)
(* awaited storage call is a step.  `focus` keeps a run to one concern:      *)
(* "templates" (inheritance under edits), "terms" (end dates from template   *)
(* defaults), "trials" (cooldowns), "signers" (issuers starting up).         *)
EXTENDS Templates

CONSTANTS Procs, Focuses,
          Unset,               \* an argument the caller left out
          TemplateIds, EntSets, Fps,
          Depths,              \* values tried for MAX_TEMPLATE_DEPTH
          MaxEdits,            \* template edits during one call
          Scopes,              \* scopes of the "signers" focus, Null among them
          Algs,                \* algorithms an issuer may be configured for
          Cooldown,            \* the issuer's default trial cooldown
          TrialCooldowns,      \* trial_cooldown_sec of templates, Null among them
          MaxTime, MaxLicenses, MaxKeys, MaxFails

ASSUME DepthsAssumption == Depths \subseteq Nat \ {0}
ASSUME TemplatesAssumption ==
    TemplateIds \subseteq Nat /\ \A e \in EntSets : JSONObject(e)
ASSUME CooldownAssumption ==
    Cooldown \in Nat /\ TrialCooldowns \subseteq Nat \cup {Null} /\ Null \notin Nat

VARIABLES focus, now,
          cap,        \* MAX_TEMPLATE_DEPTH, fixed
          templates,  \* id -> template, the ids created so far
          licenses,   \* set of licenses
          trials,     \* set of trial_issuances rows
          granted,    \* trials whose issue() returned (auxiliary)
          keys,       \* license_keys rows
          cache,      \* #signingKey of each issuer
          fails,      \* storage failures so far
          call        \* the calls in progress

issuanceVars == <<focus, cap, now, templates, licenses, trials, granted, keys, cache, fails, call>>
catalogue == <<templates, licenses>>
trialVars == <<trials, granted>>
keyVars == <<keys, cache>>

idle == [pc |-> "idle"]
ended(r) == IF r = "ok" THEN idle ELSE [pc |-> "idle", result |-> r]
lostRace(c) == [pc |-> "idle", result |-> "lost", scope |-> c.scope, alg |-> c.alg]

Init ==
    /\ focus \in Focuses /\ now = 0
    /\ cap \in IF focus = "templates" THEN Depths ELSE {2}
    /\ templates = <<>> /\ licenses = {} /\ trials = {} /\ granted = {}
    /\ keys = {} /\ cache = [p \in Procs |-> Null] /\ fails = 0
    /\ call = [p \in Procs |-> idle]

step(p, rec) == call' = [call EXCEPT ![p] = rec]

\* Edits during a call are counted (a bound, and what makes a walk quiet).
walking == {p \in Procs : call[p].pc \in {"walk", "trial", "purge", "create"}}

edit ==
    call' = [p \in Procs |->
        IF p \in walking THEN [call[p] EXCEPT !.edits = @ + 1] ELSE call[p]]

-----------------------------------------------------------------------------
(* Admin routes on templates.  The forest stays acyclic (StorageMachine).    *)

Terms ==
    IF focus = "templates"
    THEN [ents : EntSets, trial : {0}, grace : {0}, cooldown : {Null}, force : {Null}]
    ELSE [ents : {<<>>}, trial : IF focus = "terms" THEN {0, 1} ELSE {0},
          grace : IF focus = "terms" THEN {0, 1} ELSE {0},
          cooldown : IF focus = "trials" THEN TrialCooldowns ELSE {Null}, force : {Null}]

above(t) == {u \in DOMAIN templates :
                \E n \in 1..Cardinality(DOMAIN templates) : ancestor(templates, t, n) = u}

\* `trial_cooldown_sec ?? this.#trialCooldownSec`
effective(cooldown) == IF cooldown = Null THEN Cooldown ELSE cooldown

\* The row with the columns of `terms`; `low` is auxiliary, the shortest
\* cooldown the template has had.
withTerms(t, par, terms, low) ==
    [id |-> t, parent |-> par, ents |-> terms.ents, trial |-> terms.trial, grace |-> terms.grace,
     cooldown |-> terms.cooldown, force |-> terms.force,
     low |-> IF low < effective(terms.cooldown) THEN low ELSE effective(terms.cooldown)]

handleCreateTemplate ==
    \E t \in (IF focus = "templates" THEN TemplateIds ELSE {1}) \ DOMAIN templates, par \in {Null} \cup DOMAIN templates, terms \in Terms :
        /\ focus # "signers" /\ (focus = "templates" => walking = {})
        /\ \A u \in TemplateIds : u < t => u \in DOMAIN templates
        /\ templates' = [u \in {t} \cup DOMAIN templates |->
               IF u # t THEN templates[u] ELSE withTerms(t, par, terms, effective(terms.cooldown))]
        /\ UNCHANGED <<focus, cap, now, licenses, trialVars, keyVars, fails, call>>

\* PATCH: another parent (the storage refuses a cycle), or other columns.
\* Bounds: an edit changes something, and outside the "trials" focus it comes
\* during a call, where it can matter.
handleUpdateTemplate ==
    /\ focus # "signers" /\ (focus # "trials" => walking # {})
    /\ \A p \in walking : call[p].edits < IF focus = "trials" THEN 1 ELSE MaxEdits
    /\ \E t \in DOMAIN templates :
        \/ \E par \in {Null} \cup DOMAIN templates :
              /\ par # t /\ t \notin above(par)
              /\ templates' = [templates EXCEPT ![t].parent = par]
        \/ \E terms \in Terms :
              templates' = [templates EXCEPT ![t] = withTerms(t, @.parent, terms, @.low)]
    /\ templates' # templates
    /\ edit
    /\ UNCHANGED <<focus, cap, now, licenses, trialVars, keyVars, fails>>

-----------------------------------------------------------------------------
(* issue()                                                                   *)

\* Bounds: calls overlap where they compete, which is for trials.
mayCall(p) ==
    /\ call[p].pc = "idle"
    /\ IF focus = "trials" THEN Cardinality(licenses) < MaxLicenses
       ELSE licenses = {} /\ \A q \in Procs : call[q].pc = "idle"

\* Getting the leaf; without a template the walk is skipped.
issue(p) ==
    /\ mayCall(p) /\ focus # "signers"
    /\ \E t \in {Null} \cup DOMAIN templates, fp \in IF focus = "trials" THEN Fps ELSE {Null} :
        /\ t = Null => focus = "trials"
        /\ step(p, [pc |-> IF t = Null THEN "trial" ELSE "walk", op |-> "issue", fp |-> fp, tpl |-> t,
                    leaf |-> IF t = Null THEN Null ELSE templates[t], chain |-> <<>>,
                    cursor |-> IF t = Null THEN Null ELSE templates[t].parent,
                    found |-> Null, edits |-> 0])
    /\ UNCHANGED <<focus, cap, now, catalogue, trialVars, keyVars, fails>>

visited(c) == {c.leaf.id} \cup {c.chain[i].id : i \in DOMAIN c.chain}

\* Mistake: no guard against a revisit.
resolveTemplate_NoVisited(p) ==
    /\ call[p].pc = "walk"
    /\ LET c == call[p]
       IN  IF c.cursor = Null \/ Len(c.chain) >= cap
           THEN step(p, [c EXCEPT !.pc = IF c.fp = Null THEN "create" ELSE "trial"])
           ELSE LET node == templates[c.cursor]
                IN  step(p, [c EXCEPT !.chain = Append(@, node), !.cursor = node.parent])
    /\ UNCHANGED <<focus, cap, now, catalogue, trialVars, keyVars, fails>>

\* One loader call, or the end of the walk: root, depth cap or a revisit.
resolveTemplate(p) ==
    /\ call[p].pc = "walk"
    /\ LET c == call[p]
       IN  IF c.cursor = Null \/ Len(c.chain) >= cap \/ c.cursor \in visited(c)
           THEN step(p, [c EXCEPT !.pc = IF c.fp = Null THEN "create" ELSE "trial"])
           ELSE LET node == templates[c.cursor]
                IN  step(p, [c EXCEPT !.chain = Append(@, node), !.cursor = node.parent])
    /\ UNCHANGED <<focus, cap, now, catalogue, trialVars, keyVars, fails>>

cooldownOf(c) == IF c.tpl = Null THEN Cooldown ELSE effective(c.leaf.cooldown)

eligible(c, row) == now >= row.at + cooldownOf(c)

\* Mistake: the trial is recorded when it is asked for.
checkTrial_RecordsFirst(p) ==
    /\ call[p].pc = "trial"
    /\ LET c == call[p]
       IN  IF \E r \in trials : r.tpl = c.tpl /\ r.fp = c.fp
           THEN step(p, ended("TrialAlreadyIssued")) /\ UNCHANGED trials
           ELSE /\ trials' = trials \cup {[id |-> 1 + Cardinality(trials), tpl |-> c.tpl, fp |-> c.fp, at |-> now]}
                /\ step(p, [c EXCEPT !.pc = "create"])
    /\ UNCHANGED <<focus, cap, now, catalogue, granted, keyVars, fails>>

\* findTrialIssuance: refused inside the cooldown, else the stale row is due.
checkTrial(p) ==
    /\ call[p].pc = "trial"
    /\ LET c == call[p]
           rows == {r \in trials : r.tpl = c.tpl /\ r.fp = c.fp}
       IN  CASE rows = {} -> step(p, [c EXCEPT !.pc = "create"])
             [] \E r \in rows : ~eligible(c, r) -> step(p, ended("TrialAlreadyIssued"))
             [] OTHER -> step(p, [c EXCEPT !.pc = "purge", !.found = CHOOSE r \in rows : TRUE])
    /\ UNCHANGED <<focus, cap, now, catalogue, trialVars, keyVars, fails>>

\* Mistake: the stale row is deleted by what it is about, not by its id.
deleteTrialIssuance_ByKey(p) ==
    /\ call[p].pc = "purge"
    /\ trials' = {r \in trials : ~(r.tpl = call[p].tpl /\ r.fp = call[p].fp)}
    /\ step(p, [call[p] EXCEPT !.pc = "create"])
    /\ UNCHANGED <<focus, cap, now, catalogue, granted, keyVars, fails>>

deleteTrialIssuance(p) ==
    /\ call[p].pc = "purge"
    /\ trials' = trials \ {call[p].found}
    /\ step(p, [call[p] EXCEPT !.pc = "create"])
    /\ UNCHANGED <<focus, cap, now, catalogue, granted, keyVars, fails>>

\* What issue() passes to createLicense when the caller overrides nothing: the
\* expiry from the template's trial duration, no grace_until.
issueTerms(c) ==
    [expires |-> IF c.leaf = Null THEN Null ELSE computeExpiresAt(now, c.leaf.trial),
     grace   |-> Null,
     ents    |-> IF c.leaf = Null THEN <<>> ELSE resolvedEntitlements(c.leaf, c.chain)]

\* createLicense in its transaction.
createLicense(p) ==
    /\ call[p].pc = "create" /\ call[p].op = "issue"
    /\ LET c == call[p]
           terms == issueTerms(c)
       IN  /\ licenses' = licenses \cup {
                  [n |-> Cardinality(licenses) + 1, tpl |-> c.tpl, fp |-> c.fp, at |-> now, via |-> "issue", given |-> Unset,
                   expires |-> terms.expires, grace |-> terms.grace, ents |-> terms.ents,
                   want |-> IF focus = "templates" /\ c.edits = 0 /\ c.leaf # Null
                            THEN expectedEntitlements(templates, c.leaf, cap) ELSE Null]}
           /\ step(p, IF c.fp = Null THEN ended("ok") ELSE [c EXCEPT !.pc = "record"])
    /\ UNCHANGED <<focus, cap, now, templates, trialVars, keyVars, fails>>

\* recordTrialIssuance, after the license is committed: the unique index
\* refuses a second row, and issue() rejects although the license exists.
recordTrialIssuance(p) ==
    /\ call[p].pc = "record"
    /\ LET c == call[p]
       IN  IF \E r \in trials : r.tpl = c.tpl /\ r.fp = c.fp
           THEN step(p, ended("UniqueConstraintViolation")) /\ UNCHANGED trialVars
           ELSE /\ trials' = trials \cup {[id |-> Cardinality(licenses), tpl |-> c.tpl, fp |-> c.fp, at |-> now]}
                /\ granted' = granted \cup {[n |-> Cardinality(granted), tpl |-> c.tpl, fp |-> c.fp, at |-> now]}
                /\ step(p, ended("ok"))
    /\ UNCHANGED <<focus, cap, now, catalogue, keyVars, fails>>

-----------------------------------------------------------------------------
(* createLicenseFromTemplate(): the template is read, then the license is    *)
(* created; an end date the caller gives, null included, beats the computed. *)

createLicenseFromTemplate(p) ==
    /\ mayCall(p) /\ focus = "terms"
    /\ \E t \in DOMAIN templates :
         step(p, [pc |-> "create", op |-> "template", leaf |-> templates[t], tpl |-> t, edits |-> 0])
    /\ UNCHANGED <<focus, cap, now, catalogue, trialVars, keyVars, fails>>

override(given, computed) == IF given = Unset THEN computed ELSE given

\* Mistake: grace counted from the template although the caller gave no expiry.
createFromTemplate_GraceAnyway(p) ==
    /\ call[p].pc = "create" /\ call[p].op = "template"
    /\ \E e, g \in {Unset, Null, 2} :
         LET c == call[p]
             expires == override(e, computeExpiresAt(now, c.leaf.trial))
             grace   == override(g, computeGraceUntil(now, c.leaf.grace))
         IN  licenses' = licenses \cup {[n |-> Cardinality(licenses) + 1, tpl |-> c.tpl, fp |-> Null,
                 at |-> now, via |-> "template", expires |-> expires, grace |-> grace, given |-> g,
                 ents |-> c.leaf.ents, want |-> Null]}
    /\ step(p, ended("ok"))
    /\ UNCHANGED <<focus, cap, now, templates, trialVars, keyVars, fails>>

\* The CHECK licenses_grace_after_expiry refuses grace_until <= expires_at.
createFromTemplate(p) ==
    /\ call[p].pc = "create" /\ call[p].op = "template"
    /\ \E e, g \in {Unset, Null, 2} :
         LET c == call[p]
             expires == override(e, computeExpiresAt(now, c.leaf.trial))
             grace   == override(g, computeGraceUntil(expires, c.leaf.grace))
         IN  IF grace # Null /\ expires # Null /\ grace <= expires
             THEN step(p, ended("check")) /\ UNCHANGED licenses
             ELSE /\ licenses' = licenses \cup {[n |-> Cardinality(licenses) + 1, tpl |-> c.tpl, fp |-> Null,
                         at |-> now, via |-> "template", expires |-> expires, grace |-> grace, given |-> g,
                         ents |-> c.leaf.ents, want |-> Null]}
                  /\ step(p, ended("ok"))
    /\ UNCHANGED <<focus, cap, now, templates, trialVars, keyVars, fails>>

-----------------------------------------------------------------------------
(* ensureSigningKey(): issuers that share a database start up, while the     *)
(* admin rotates keys.  Keys are numbered in creation order.                 *)

activeIn(scopes) == {k \in keys : k.role = "signing" /\ k.state = "active" /\ k.scope \in scopes}

newest(S) == CHOOSE k \in S : \A q \in S : q.n <= k.n

addKey(scope, role, alg) ==
    [n |-> Cardinality(keys) + 1, scope |-> scope, role |-> role, alg |-> alg, state |-> "active"]

\* listKeys filtered by algorithm and default scope; with no default scope the
\* filter has no scope_id, and any scope's key will do.
listed(scope, alg) == {k \in activeIn(IF scope = Null THEN Scopes ELSE {scope}) : k.alg = alg}

\* The newest key listed; the cached key is returned without asking.
ensureSigningKey(p) ==
    /\ focus = "signers" /\ call[p].pc = "idle" /\ cache[p] = Null
    /\ \E s \in Scopes, alg \in Algs :
         IF listed(s, alg) # {}
         THEN /\ cache' = [cache EXCEPT ![p] = [key |-> newest(listed(s, alg)).n, scope |-> s]]
              /\ step(p, ended("ok"))
         ELSE step(p, [pc |-> "root", scope |-> s, alg |-> alg]) /\ UNCHANGED cache
    /\ UNCHANGED <<focus, cap, now, catalogue, trialVars, keys, fails>>

\* generateRootKey: nothing keeps a scope from having several roots.
generateRootKey(p) ==
    /\ call[p].pc = "root" /\ Cardinality(keys) < MaxKeys
    /\ keys' = keys \cup {addKey(call[p].scope, "root", call[p].alg)}
    /\ step(p, [call[p] EXCEPT !.pc = "signing"])
    /\ UNCHANGED <<focus, cap, now, catalogue, trialVars, cache, fails>>

\* Mistake: the initial key is inserted without looking for an active one.
issueInitialSigningKey_Unchecked(p) ==
    /\ call[p].pc = "signing" /\ Cardinality(keys) < MaxKeys
    /\ LET k == addKey(call[p].scope, "signing", call[p].alg)
       IN  /\ keys' = keys \cup {k}
           /\ cache' = [cache EXCEPT ![p] = [key |-> k.n, scope |-> call[p].scope]]
           /\ step(p, ended("ok"))
    /\ UNCHANGED <<focus, cap, now, catalogue, trialVars, fails>>

\* Refused when the scope has an active signer: of the same algorithm by the
\* check in issueSigning, of another by the unique index, which is per scope.
issueInitialSigningKey(p) ==
    /\ call[p].pc = "signing" /\ Cardinality(keys) < MaxKeys
    /\ IF activeIn({call[p].scope}) # {}
       THEN step(p, lostRace(call[p])) /\ UNCHANGED keyVars
       ELSE LET k == addKey(call[p].scope, "signing", call[p].alg)
            IN  /\ keys' = keys \cup {k}
                /\ cache' = [cache EXCEPT ![p] = [key |-> k.n, scope |-> call[p].scope]]
                /\ step(p, ended("ok"))
    /\ UNCHANGED <<focus, cap, now, catalogue, trialVars, fails>>

\* POST /admin/keys/:id/rotate, one transaction.
rotateSigningKey ==
    /\ focus = "signers" /\ Cardinality(keys) < MaxKeys
    /\ \E k \in activeIn(Scopes) :
         keys' = (keys \ {k}) \cup {[k EXCEPT !.state = "retiring"], addKey(k.scope, "signing", k.alg)}
    /\ UNCHANGED <<focus, cap, now, catalogue, trialVars, cache, fails, call>>

\* The storage fails, or the process restarts: the call ends where it is.  A
\* restarted issuer has an empty cache.
Fail(p) ==
    /\ fails < MaxFails /\ fails' = fails + 1 /\ focus \in {"trials", "signers"}
    /\ step(p, ended("failed")) /\ cache' = [cache EXCEPT ![p] = Null]
    /\ UNCHANGED <<focus, cap, now, catalogue, trialVars, keys>>

Tick ==
    /\ now < MaxTime /\ focus \in {"trials", "terms"}
    /\ now' = now + 1
    /\ UNCHANGED <<focus, cap, catalogue, trialVars, keyVars, fails, call>>

-----------------------------------------------------------------------------
Proceed(p) ==
    \/ resolveTemplate(p) \/ checkTrial(p) \/ deleteTrialIssuance(p) \/ createLicense(p)
    \/ recordTrialIssuance(p) \/ createFromTemplate(p)
    \/ generateRootKey(p) \/ issueInitialSigningKey(p)

Next ==
    \/ Tick \/ rotateSigningKey
    \/ handleCreateTemplate \/ handleUpdateTemplate
    \/ \E p \in Procs :
        issue(p) \/ createLicenseFromTemplate(p) \/ ensureSigningKey(p) \/ Proceed(p) \/ Fail(p)

Spec == Init /\ [][Next]_issuanceVars

-----------------------------------------------------------------------------
(* Properties *)

\* Type of the state.
IssuanceTypeOK ==
    /\ focus \in Focuses /\ now \in 0..MaxTime /\ fails \in 0..MaxFails
    /\ DOMAIN templates \subseteq TemplateIds
    /\ \A t \in DOMAIN templates : templates[t].parent \in {Null} \cup DOMAIN templates
    /\ \A p \in Procs : call[p].pc \in {"idle", "walk", "trial", "purge", "create", "record", "root", "signing"}
    /\ Cardinality(keys) <= MaxKeys

\* The shortest cooldown that trials of template t have had.
lowest(T, t) == IF t = Null THEN Cooldown ELSE T[t].low

\* Of two trials of one device and template that issue() granted, the later
\* was recorded a cooldown after the earlier, the shortest the template has
\* had, whatever calls and edits of the cooldown overlapped: the stale row is
\* deleted by id and the unique index stops the loser.
GrantedTrialsSpaced ==
    \A g, h \in granted :
        g # h /\ g.tpl = h.tpl /\ g.fp = h.fp =>
            \/ g.at + lowest(templates, g.tpl) <= h.at
            \/ h.at + lowest(templates, g.tpl) <= g.at

\* A trial row tells of a license that was created: refusing a device a trial
\* it never got would need a row without one.
TrialRowsHaveLicense ==
    \A r \in trials : \E l \in licenses : l.tpl = r.tpl /\ l.fp = r.fp /\ l.at <= r.at

\* The walk merges no template twice and stops at the cap, even when an admin
\* re-parents the chain under it.
WalkIsBounded ==
    \A p \in Procs : call[p].pc = "walk" =>
        LET ids == <<call[p].leaf.id>> \o [i \in DOMAIN call[p].chain |-> call[p].chain[i].id]
        IN  IsInjective(ids) /\ Len(call[p].chain) <= cap

\* If no template was edited during the call, the license carries what the
\* inheritance rules give its template, key by key (resolveTemplate, deepMergeJson).
InheritanceExact ==
    \A l \in licenses : l.via = "issue" /\ l.want # Null => l.ents = l.want

\* A grace period the template implies starts after an expiry.
GraceFollowsExpiry ==
    \A l \in licenses : l.grace # Null =>
        \/ l.given # Unset
        \/ l.expires # Null /\ l.expires < l.grace

\* What a template stands for: its chain is walked without a cycle and within
\* the cap, and a license takes exactly what it implies.
TemplatesExact == WalkIsBounded /\ InheritanceExact /\ GraceFollowsExpiry

lost == {p \in Procs : "result" \in DOMAIN call[p] /\ call[p].result = "lost"}

\* Issuers that start together leave one active signer per scope, and the key
\* that beat a loser, or its successor by rotation, is there for it: the next
\* attempt lists it, unless it is of another algorithm.
StartupRaceSettles ==
    /\ \A s \in Scopes : Cardinality(activeIn({s})) <= 1
    /\ \A p \in lost : \E k \in activeIn({call[p].scope}) :
          k.alg = call[p].alg => k \in listed(call[p].scope, call[p].alg)

-----------------------------------------------------------------------------
(* What comments promise and the code does not keep.                         *)

\* "Re-issuing a trial within the cooldown window fails": a device gets one
\* trial license per cooldown.
OneTrialLicensePerCooldown ==
    \A l, m \in licenses : l.n < m.n /\ l.tpl = m.tpl /\ l.fp = m.fp /\ l.fp # Null =>
        l.at + Cooldown <= m.at

\* "Null = no cooldown enforced" on a template.
NullCooldownNeverRefuses ==
    [][\A p \in Procs : call[p].pc = "trial" /\ call[p].leaf # Null /\ call[p].leaf.cooldown = Null
            => call'[p] # ended("TrialAlreadyIssued")]_issuanceVars

\* "`graceUntil`, and other inheritable fields default from the resolved template".
IssueTakesTemplateGrace ==
    \A l \in licenses : l.via = "issue" /\ l.tpl # Null /\ l.expires # Null =>
        l.grace = computeGraceUntil(l.expires, templates[l.tpl].grace)

\* "Returns the active signing key" for "the configured algorithm + scope".
CachedSignerIsActive ==
    \A p \in Procs : cache[p] # Null => \E k \in keys : k.n = cache[p].key /\ k.state = "active"

\* "Ensure an active signing key exists for the configured algorithm + scope":
\* an issuer that lost the race finds one when it asks again.
LoserFindsSigner == \A p \in lost : listed(call[p].scope, call[p].alg) # {}

CachedSignerInScope ==
    \A p \in Procs : cache[p] # Null => \E k \in keys : k.n = cache[p].key /\ k.scope = cache[p].scope
=============================================================================
