---------------------------- MODULE AdminConsole ----------------------------
(* The admin UI (admin/): browser tabs that read and change the database     *)
(* through the session proxy, next to each other and next to other callers   *)
(* of the admin routes.  A tab sends a request with the cookie of that       *)
(* moment, the proxy authenticates it and the handler reads its row, the     *)
(* handler writes and answers, and the tab goes on with the answer or with   *)
(* an error if it is lost.  `focus` keeps a behaviour to one page: "api"     *)
(* (direct callers, any field values), "list" (the licenses table), "pages"  *)
(* (the detail pages), "form" (the template editor), "session" (sign-in).    *)
EXTENDS AdminApi, SequencesExt

CONSTANTS Focuses,
          Tabs,
          Bearers,      \* tokens an operator may paste at sign-in
          MaxClicks,    \* what the operators do
          PageClicks,   \* ... and on the detail pages
          MaxLosses     \* answers that get lost

VARIABLES focus, db, secrets,
          accepted,     \* the bearer tokens the upstream API accepts
          session,      \* the token sealed into the browser's cookie
          tab, wire,
          proven,       \* tokens a probe found accepted
          sent          \* direct callers heard, clicks and losses so far

ASSUME ConsoleAssumption ==
    /\ Focuses \subseteq {"api", "list", "pages", "form", "session"}
    /\ Tabs # {} /\ "api" \notin Tabs /\ Bearers # {}
    /\ MaxClicks \in Nat /\ PageClicks \in Nat /\ MaxLosses \in Nat

consoleVars == <<focus, db, secrets, accepted, session, tab, wire, proven, sent>>

AuthRoutes == {"signIn", "signOut", "session"}
\* The requests a tab has under way side by side; a bulk action has one for
\* each of the three licenses there are.
Lanes == {"a", "b", "load", "more"}
BulkLanes == {"a", "b", "more"}
bulkLane(id) == IF id = 1 THEN "a" ELSE IF id = 2 THEN "b" ELSE "more"
Slots == (Tabs \X Lanes) \cup ({"api"} \X {"a", "b"})
Operator == CHOOSE t \in Tabs : TRUE

-----------------------------------------------------------------------------
(* Requests.                                                                 *)

get(route_, id)  == [route |-> route_, id |-> id]
post(route_, id, body) == [route |-> route_, id |-> id, body |-> body]
transition(op, id) == [route |-> "transition", id |-> id, op |-> op]
list(route_, limit, cursor, filter) ==
    [route |-> route_, limit |-> limit, cursor |-> cursor, filter |-> filter]
NoFilter == [f \in {} |-> Null]

\* The row a handler reads first.
tableOf(r) == CASE r \in {"getLicense", "updateLicense", "deleteLicense", "transition", "renew"} -> "licenses"
                [] r \in {"getScope", "updateScope", "deleteScope"} -> "scopes"
                [] r \in {"getTemplate", "updateTemplate", "deleteTemplate"} -> "templates"
                [] r \in {"getUsage", "revokeUsage"} -> "usages"
                [] r = "rotateKey" -> "keys"
                [] OTHER -> "none"
load(d, q) == IF tableOf(q.route) # "none" /\ exists(d[tableOf(q.route)], q.id)
              THEN d[tableOf(q.route)][q.id] ELSE Null

serve(d, q, row) ==
    CASE q.route = "listLicenses" -> handleListLicenses(d, q) [] q.route = "listScopes" -> handleListScopes(d, q)
      [] q.route = "listTemplates" -> handleListTemplates(d, q) [] q.route = "listUsages" -> handleListUsages(d, q)
      [] q.route = "listKeys" -> handleListKeys(d, q) [] q.route = "listAudit" -> handleListAudit(d, q)
      [] q.route = "stats" -> handleGetLicenseStats(d, q)
      [] q.route = "getLicense" -> handleGetLicense(d, q, row) [] q.route = "getScope" -> handleGetScope(d, q, row)
      [] q.route = "getTemplate" -> handleGetTemplate(d, q, row) [] q.route = "getUsage" -> handleGetUsage(d, q, row)
      [] q.route = "createLicense" -> handleCreateLicense(d, q) [] q.route = "createScope" -> handleCreateScope(d, q)
      [] q.route = "createTemplate" -> handleCreateTemplate(d, q) [] q.route = "createKey" -> handleCreateKey(d, q, secrets)
      [] q.route = "updateLicense" -> handleUpdateLicense(d, q, row) [] q.route = "updateScope" -> handleUpdateScope(d, q, row)
      [] q.route = "updateTemplate" -> handleUpdateTemplate(d, q, row)
      [] q.route = "deleteLicense" -> handleDeleteLicense(d, q, row) [] q.route = "deleteScope" -> handleDeleteScope(d, q, row)
      [] q.route = "deleteTemplate" -> handleDeleteTemplate(d, q, row)
      [] q.route = "transition" -> lifecycleTransition(d, q, row) [] q.route = "renew" -> handleRenewLicense(d, q, row)
      [] q.route = "rotateLicenseKey" -> handleRotateLicenseKey(d, q) [] q.route = "revokeUsage" -> handleRevokeUsage(d, q, row)
      [] q.route = "rotateKey" -> handleRotateKey(d, q, row, secrets)

NoRequest == [at |-> "free", q |-> Null, cookie |-> Null, row |-> Null, status |-> 0, data |-> Null,
              use |-> "none", rev |-> 0, changed |-> {}]
request(q, use) == [NoRequest EXCEPT !.at = "sent", !.q = q, !.cookie = session, !.use = use]

free(s) == wire[s].at = "free"
busy(t, lanes) == \E l \in lanes : ~free(<<t, l>>)
click == /\ sent.clicks < IF focus = "pages" THEN PageClicks ELSE MaxClicks
         /\ sent' = [sent EXCEPT !.clicks = @ + 1]
others == <<focus, secrets, accepted, proven>>

\* What a page reads when it opens, by the name of its data.
firstPage(route_) == list(route_, pageOf(50), Null, NoFilter)
licenseReads(id)  == [license |-> get("getLicense", id),
                      usages |-> list("listUsages", pageOf(50), Null, [license_id |-> id]),
                      audit |-> list("listAudit", pageOf(50), Null, [license_id |-> id])]
keysReads         == [keys |-> firstPage("listKeys")]
scopeReads(id)    == [scope |-> get("getScope", id), keys |-> firstPage("listKeys")]
usagesReads       == [usages |-> firstPage("listUsages")]
templateReads(id) == [template |-> get("getTemplate", id),
                      all |-> list("listTemplates", pageOf(200), Null, NoFilter)]
scopesReads       == [rows |-> firstPage("listScopes")]
templatesReads    == [rows |-> firstPage("listTemplates")]
pageQueries(tb) ==
    CASE tb.page = "license" -> licenseReads(tb.id) [] tb.page = "keys" -> keysReads
      [] tb.page = "scope" -> scopeReads(tb.id) [] tb.page = "usages" -> usagesReads
      [] tb.page = "template" -> templateReads(tb.id) [] tb.page = "scopes" -> scopesReads
      [] tb.page = "templates" -> templatesReads [] OTHER -> NoFilter
laneOf(name) == IF name \in {"license", "scope", "template", "rows"} THEN "load"
                ELSE IF name = "audit" THEN "b" ELSE "more"
\* The audit timeline is a component of its own: it reads when it appears,
\* which is with the license, and no button makes it read again.
byPage(tb) == DOMAIN tb.data \ {"audit"}

-----------------------------------------------------------------------------
(* The way of a request.                                                     *)

\* The session proxy, the upstream's authentication and the handler's read.
proxy(s) ==
    /\ wire[s].at = "sent" /\ wire[s].q.route \notin AuthRoutes
    /\ wire' = [wire EXCEPT ![s] = IF s[1] # "api" /\ @.cookie \notin accepted
                                   THEN [@ EXCEPT !.at = "answered", !.status = 401]
                                   ELSE [@ EXCEPT !.at = "loaded", !.row = load(db, wire[s].q)]]
    /\ UNCHANGED <<db, session, tab, sent>> /\ UNCHANGED others

result(d, q) == serve(d, q, load(d, q)).data
handle(s) ==
    /\ wire[s].at = "loaded"
    /\ LET r == serve(db, wire[s].q, wire[s].row)
           reads == IF s[1] = "api" THEN NoFilter ELSE pageQueries(tab[s[1]])
       IN /\ db' = r.db
          /\ wire' = [wire EXCEPT ![s].at = "answered", ![s].status = r.status, ![s].data = r.data,
                        ![s].rev = r.db.rev,
                        ![s].changed = {n \in DOMAIN reads : result(db, reads[n]) # result(r.db, reads[n])}]
    /\ tab' = IF wire[s].use = "bulk" /\ serve(db, wire[s].q, wire[s].row).status = 200
              THEN [tab EXCEPT ![s[1]].committed = @ \cup {wire[s].q.id}] ELSE tab
    /\ UNCHANGED <<session, sent>> /\ UNCHANGED others

lose(s) ==
    /\ s[1] # "api" /\ wire[s].at = "answered" /\ wire[s].status \notin {0, 401} /\ sent.losses < MaxLosses
    /\ wire' = [wire EXCEPT ![s].status = 0]
    /\ sent' = [sent EXCEPT !.losses = @ + 1]
    /\ UNCHANGED <<db, session, tab>> /\ UNCHANGED others

answeredTo(s, use) == wire[s].at = "answered" /\ wire[s].use = use /\ wire[s].status # 401
good(s) == wire[s].status \in 200..204
quiet(s) == [wire EXCEPT ![s] = NoRequest]

-----------------------------------------------------------------------------
(* Direct callers: any of the routes, one field of any value.                *)

goodLicense == [licensable_type |-> string("User"), licensable_id |-> string("u1"), max_usages |-> number(1),
                scope_id |-> plain("null"), template_id |-> plain("undefined"), license_key |-> plain("undefined"),
                expires_at |-> string(5), grace_until |-> plain("null"), meta |-> object("{}")]
goodTemplate == [name |-> string("new"), max_usages |-> number(2), trial_duration_sec |-> number(0),
                 grace_duration_sec |-> number(0), scope_id |-> string(1), parent_id |-> string(2),
                 entitlements |-> object("{e}"), meta |-> plain("undefined"),
                 force_online_after_sec |-> number(3), trial_cooldown_sec |-> plain("null")]
oneOff(b) == {b} \cup {[b EXCEPT ![f] = j] : f \in DOMAIN b, j \in BadValues}
goodScope == [slug |-> string("s3"), name |-> string("new"), meta |-> plain("undefined")]
goodKey == [kid |-> string("k"), role |-> string("signing")]

Ids == {1, 2}
renewal(id) == post("renew", id, [expires_at |-> string(9), grace_until |-> plain("undefined")])
DirectRequests ==
    {post("createLicense", 0, b) : b \in oneOff(goodLicense)} \cup {post("updateLicense", i, b) : i \in Ids, b \in oneOff(goodLicense)}
    \cup {post("createTemplate", 0, b) : b \in oneOff(goodTemplate)}
    \cup {post("updateTemplate", i, b) : i \in {2, 9}, b \in oneOff([goodTemplate EXCEPT !.parent_id = string(1)])
                                                                    \cup {[goodTemplate EXCEPT !.parent_id = string(2)]}}
    \cup {post("createScope", 0, b) : b \in oneOff(goodScope) \cup {[goodScope EXCEPT !.slug = string("bad")]}}
    \cup {post("updateScope", i, b) : i \in {1, 9}, b \in oneOff(goodScope)}
    \cup {post("createKey", 0, b) : b \in oneOff(goodKey) \cup {[goodKey EXCEPT !.role = string("root")]}}
    \cup {renewal(i) : i \in Ids} \cup {[renewal(1) EXCEPT !.body.expires_at = plain("null")]}
    \cup {transition(op, i) : op \in {"suspend", "resume", "revoke"}, i \in Ids \cup {9}}
    \cup {get(r, i) : r \in {"getLicense", "getScope", "getTemplate", "getUsage", "deleteLicense", "deleteScope",
                             "deleteTemplate", "rotateLicenseKey", "revokeUsage", "rotateKey"}, i \in Ids \cup {3, 9}}
    \cup {list(r, l, Null, NoFilter) : r \in {"listLicenses", "listScopes", "listTemplates", "listUsages",
                                              "listKeys", "listAudit", "stats"}, l \in {0, pageOf(100) + 1}}

\* Beside the pages, what another operator does to the rows they show.
Meddling == CASE focus = "list"  -> {transition("suspend", 3), transition("revoke", 2), renewal(3)}
              [] focus \in {"api", "pages"} -> {transition("suspend", 1), transition("revoke", 2), renewal(1),
                                                get("rotateKey", 2), get("rotateLicenseKey", 1)}
              [] OTHER -> {}
Asked(s) == IF s[2] = "b" THEN Meddling ELSE IF focus = "api" THEN DirectRequests ELSE {}

callDirectly(s) ==
    /\ s[1] = "api" /\ free(s) /\ s[2] \notin sent.direct
    /\ \E q \in Asked(s) : wire' = [wire EXCEPT ![s] = request(q, "direct")]
    /\ sent' = [sent EXCEPT !.direct = @ \cup {s[2]}]
    /\ UNCHANGED <<db, session, tab>> /\ UNCHANGED others
hangUp(s) ==
    /\ answeredTo(s, "direct")
    /\ wire' = quiet(s)
    /\ UNCHANGED <<db, session, tab, sent>> /\ UNCHANGED others

-----------------------------------------------------------------------------
(* The licenses table: pages/licenses/index.vue, DataTable.vue and           *)
(* BulkActionsMenu.vue.  The other tables page in the same way.              *)

listQuery(tb) == list("listLicenses", pageOf(25), tb.cursor, tb.filter)
\* A later fetch of the same data cancels the one under way.
fetchList(w, tb) == [w EXCEPT ![<<Operator, "load">>] = request(listQuery(tb), "rows")]
\* The table takes no clicks behind a modal dialog.
usable == focus = "list" /\ tab[Operator].page = "licenses" /\ tab[Operator].dialog = "none"

navigate(tb) ==
    /\ usable /\ click
    /\ tab' = [tab EXCEPT ![Operator] =
                  [tb EXCEPT !.history = Append(@, [cursor |-> tab[Operator].cursor, filter |-> tab[Operator].filter])]]
    /\ wire' = fetchList(wire, tb)
    /\ UNCHANGED <<db, session>> /\ UNCHANGED others

\* The history of cursors survives a change of the filter.
applyServerFilter_KeepsStack ==
    \E f \in {NoFilter, [status |-> "active"]} :
        navigate([tab[Operator] EXCEPT !.cursor = Null, !.filter = f])
applyServerFilter ==
    \E f \in {NoFilter, [status |-> "active"]} :
        navigate([tab[Operator] EXCEPT !.stack = <<>>, !.cursor = Null, !.filter = f])
goNext == /\ tab[Operator].next # Null
          /\ navigate([tab[Operator] EXCEPT !.stack = Append(@, tab[Operator].cursor),
                                            !.cursor = tab[Operator].next])
goPrev == /\ tab[Operator].mounted /\ tab[Operator].stack # <<>>
          /\ navigate([tab[Operator] EXCEPT !.stack = SubSeq(@, 1, Len(@) - 1), !.cursor = Last(tab[Operator].stack)])

\* The browser's back button changes the address and nothing else.
goBack ==
    /\ usable /\ tab[Operator].history # <<>> /\ click
    /\ LET h == Last(tab[Operator].history)
           tb == [tab[Operator] EXCEPT !.cursor = h.cursor, !.filter = h.filter,
                                       !.history = SubSeq(@, 1, Len(@) - 1), !.wentBack = TRUE]
       IN tab' = [tab EXCEPT ![Operator] = tb] /\ wire' = fetchList(wire, tb)
    /\ UNCHANGED <<db, session>> /\ UNCHANGED others

refreshList ==
    /\ usable /\ click
    /\ wire' = fetchList(wire, tab[Operator])
    /\ UNCHANGED <<db, session, tab>> /\ UNCHANGED others

\* Selection is kept by row index and dropped with the data it was made on.
rowAt(items, i) == CHOOSE k \in DOMAIN items : Cardinality({m \in DOMAIN items : m > k}) = i - 1
\* The indices stay behind when the rows change.
newRows_KeepsSelection(tb, items, next) == [tb EXCEPT !.items = items, !.next = next, !.ticked = {}]
newRows(tb, items, next) ==
    [tb EXCEPT !.items = items, !.next = next, !.picked = {}, !.selected = <<>>, !.ticked = {}, !.stale = FALSE]
\* An error takes the table's place on the page, and with the table go its
\* indices; what the page itself remembers as selected stays.
noRows(tb) == [tb EXCEPT !.items = <<>>, !.next = Null, !.picked = {}, !.ticked = {}, !.mounted = FALSE,
                         !.stale = @ \/ tb.selected # <<>>]
\* A new table starts with no index ticked and says nothing of it.
newTable(tb, items, next) ==
    [tb EXCEPT !.items = items, !.next = next, !.picked = {}, !.ticked = {}, !.mounted = TRUE]

rowsArrive(s) ==
    /\ answeredTo(s, "rows")
    /\ LET d == wire[s].data IN
       tab' = [tab EXCEPT ![s[1]] = IF ~good(s) THEN noRows(@)
                                    ELSE IF @.mounted THEN newRows(@, d.items, d.next_cursor)
                                    ELSE newTable(@, d.items, d.next_cursor)]
    /\ wire' = quiet(s)
    /\ UNCHANGED <<db, session, sent>> /\ UNCHANGED others

toggleSelected(i) ==
    /\ usable /\ i \in 1..Cardinality(DOMAIN tab[Operator].items) /\ click
    /\ LET tb == tab[Operator]
           picked == IF i \in tb.picked THEN tb.picked \ {i} ELSE tb.picked \cup {i}
           id == rowAt(tb.items, i)
           ids == {rowAt(tb.items, k) : k \in picked \cap 1..Cardinality(DOMAIN tb.items)}
       IN tab' = [tab EXCEPT ![Operator].picked = picked,
                             ![Operator].ticked = IF i \in tb.picked THEN @ \ {id} ELSE @ \cup {id},
                             ![Operator].selected = [k \in ids |-> tb.items[k]], ![Operator].stale = FALSE]
    /\ UNCHANGED <<db, session, wire>> /\ UNCHANGED others

\* ACTIONS: which of the selected licenses a bulk action is offered for.
applicable(action, l) == CASE action = "revoke" -> l.status # "revoked"
                           [] action = "suspend" -> l.status \in {"active", "grace", "expired"}
                           [] action = "resume" -> l.status = "suspended"
                           [] action = "extend" -> l.status # "revoked" /\ l.expires_at # Null
targetsOf(tb, action) == {i \in DOMAIN tb.selected : applicable(action, tb.selected[i])}
Days == 2

\* One request per target, side by side.
fanOut(tb, action) ==
    LET ts == targetsOf(tb, action)
        q(i) == IF action = "extend"
                THEN post("renew", i, [expires_at |-> string(tb.selected[i].expires_at + Days),
                                       grace_until |-> plain("undefined")])
                ELSE transition(action, i)
    IN [s \in Slots |-> IF s[1] = Operator /\ \E i \in ts : s[2] = bulkLane(i)
                        THEN request(q(CHOOSE i \in ts : s[2] = bulkLane(i)), "bulk") ELSE wire[s]]
runBulk(action) ==
    /\ usable /\ ~busy(Operator, BulkLanes) /\ targetsOf(tab[Operator], action) # {} /\ click
    /\ wire' = fanOut(tab[Operator], action)
    /\ tab' = [tab EXCEPT ![Operator].dialog = action, ![Operator].targets = targetsOf(tab[Operator], action),
                          ![Operator].done = 0, ![Operator].failed = 0, ![Operator].committed = {},
                          ![Operator].reported = FALSE]
    /\ UNCHANGED <<db, session>> /\ UNCHANGED others
runLifecycleVerb == \E v \in {"revoke", "suspend", "resume"} : runBulk(v)
runExtend == runBulk("extend")

\* The confirmation dialog stays while its requests are under way, the
\* extension's plain dialog can be dismissed.
dismiss ==
    /\ tab[Operator].dialog = "extend" /\ click
    /\ tab' = [tab EXCEPT ![Operator].dialog = "none"]
    /\ UNCHANGED <<db, session, wire>> /\ UNCHANGED others

\* Every answer counts as a success.
tally_AllSucceed(tb, s) == [tb EXCEPT !.done = @ + 1]
tally(tb, s) == IF good(s) THEN [tb EXCEPT !.done = @ + 1] ELSE [tb EXCEPT !.failed = @ + 1]

bulkAnswered(s) ==
    /\ answeredTo(s, "bulk") /\ \E o \in Slots \ {s} : wire[o].use = "bulk"
    /\ tab' = [tab EXCEPT ![s[1]] = tally(@, s)]
    /\ wire' = quiet(s)
    /\ UNCHANGED <<db, session, sent>> /\ UNCHANGED others
\* The last answer; the list is read again if the menu is still there.
finishAction(s) ==
    /\ answeredTo(s, "bulk") /\ \A o \in Slots \ {s} : wire[o].use # "bulk"
    /\ LET tb == [tally(tab[s[1]], s) EXCEPT !.dialog = "none"]
           mounted == tb.selected # <<>>
       IN /\ tab' = [tab EXCEPT ![s[1]] = [tb EXCEPT !.reported = TRUE,
                                              !.selected = IF mounted THEN <<>> ELSE @,
                                              !.stale = IF mounted THEN FALSE ELSE @]]
          /\ wire' = IF mounted THEN fetchList(quiet(s), tb) ELSE quiet(s)
    /\ UNCHANGED <<db, session, sent>> /\ UNCHANGED others

-----------------------------------------------------------------------------
(* The detail pages: licenses/[id].vue, keys/index.vue, scopes/, usages/ and *)
(* templates/.  Each button sends its request, then reads again what the     *)
(* page says the request changed, or leaves the page.                        *)

offer(q, reload) == [q |-> q, reload |-> reload, leave |-> "stay"]
leaving(q, there) == [q |-> q, reload |-> {}, leave |-> there]

\* Only the license is read again, whatever the button changed.
onConfirm_LicenseOnly(kind) == {"license"}
onConfirm(kind) == IF kind = "revoke-license" THEN {"license"} ELSE {"license", "usages"}

renewForm(tb) == offer(post("renew", tb.id, [expires_at |-> string(8), grace_until |-> plain("undefined")]), {"license"})
licenseOffers(tb) ==
    LET l == tb.data.license IN
    {offer(transition(op, tb.id), {"license"}) : op \in {o \in {"suspend", "resume"} : applicable(o, l)}}
    \cup IF l.status = "revoked" THEN {}
         ELSE {offer(transition("revoke", tb.id), onConfirm("revoke-license")),
               offer(get("rotateLicenseKey", tb.id), onConfirm("rotate-key")), renewForm(tb)}
    \cup IF tb.data.usages = Null THEN {}
         ELSE {offer(get("revokeUsage", u), onConfirm("revoke-usage")) :
                  u \in matching(tb.data.usages.items, [status |-> "active"])}
onConfirmRotate(tb) ==
    {offer(get("rotateKey", k), {"keys"}) : k \in matching(tb.data.keys.items, [role |-> "signing", state |-> "active"])}
createKeyForm == offer(post("createKey", 0, goodKey), {"keys"})
keyOffers(tb) == onConfirmRotate(tb) \cup {createKeyForm}
scopeOffers(tb) ==
    {offer(post("updateScope", tb.id, [name |-> string("n2"), meta |-> object("{}")]), {"scope"}), leaving(get("deleteScope", tb.id), "scopes")}
    \cup IF tb.data.keys = Null THEN {} ELSE keyOffers(tb)
usageOffers(tb) ==
    {offer(get("revokeUsage", u), {"usages"}) : u \in matching(tb.data.usages.items, [status |-> "active"])}
issueForm(tb) == leaving(post("createLicense", 0, [goodLicense EXCEPT !.template_id = string(tb.id)]), "license")
templateOffers(tb) == {leaving(get("deleteTemplate", tb.id), "templates"), issueForm(tb)}
createScopeForm    == leaving(post("createScope", 0, goodScope), "scope")
createTemplateForm == leaving(post("createTemplate", 0, goodTemplate), "template")
offers(tb) == CASE tb.page = "license" -> licenseOffers(tb) [] tb.page = "keys" -> keyOffers(tb)
                [] tb.page = "scope" -> scopeOffers(tb) [] tb.page = "usages" -> usageOffers(tb)
                [] tb.page = "template" -> templateOffers(tb)
                [] tb.page = "scopes" -> {createScopeForm} [] tb.page = "templates" -> {createTemplateForm}
\* What a page must have read to offer anything.
mainData == [license |-> "license", keys |-> "keys", scope |-> "scope", usages |-> "usages",
             template |-> "template", scopes |-> "rows", templates |-> "rows"]

reading(w, t, tb, names) ==
    [s \in Slots |-> IF s[1] = t /\ \E n \in names : s[2] = laneOf(n)
                     THEN request(pageQueries(tb)[CHOOSE n \in names : s[2] = laneOf(n)], "reload") ELSE w[s]]
nameIn(tb, lane) == CHOOSE n \in DOMAIN pageQueries(tb) : laneOf(n) = lane
unread(tb) == [n \in DOMAIN pageQueries(tb) |-> Null]
opened(tb, there, id) ==
    LET new == [tb EXCEPT !.page = there, !.id = id]
    IN [new EXCEPT !.data = unread(new), !.seen = [n \in DOMAIN unread(new) |-> 0],
                   !.own = [n \in DOMAIN unread(new) |-> 0]]

act(t) ==
    /\ focus = "pages" /\ ~busy(t, Lanes) /\ tab[t].data[mainData[tab[t].page]] # Null /\ click
    /\ \E o \in offers(tab[t]) :
          /\ wire' = [wire EXCEPT ![<<t, "a">>] = request(o.q, "act")]
          /\ tab' = [tab EXCEPT ![t].reload = o.reload, ![t].leave = o.leave]
    /\ UNCHANGED <<db, session>> /\ UNCHANGED others

actAnswered(s) ==
    /\ answeredTo(s, "act")
    /\ LET t == s[1]
           tb == tab[t]
           own == [n \in DOMAIN tb.own |-> IF n \in wire[s].changed THEN wire[s].rev ELSE tb.own[n]]
           there == opened([tb EXCEPT !.deleted = IF wire[s].status = 204 THEN @ \cup {<<tableOf(wire[s].q.route), wire[s].q.id>>}
                                                  ELSE @],
                           tb.leave, wire[s].data)
       IN CASE ~good(s) -> tab' = tab /\ wire' = quiet(s)
            [] good(s) /\ tb.leave = "stay" -> /\ tab' = [tab EXCEPT ![t].own = own]
                                               /\ wire' = reading(quiet(s), t, tb, tb.reload)
            [] good(s) /\ tb.leave # "stay" -> /\ tab' = [tab EXCEPT ![t] = there]
                                               /\ wire' = reading([o \in Slots |-> IF o[1] = t THEN NoRequest ELSE wire[o]],
                                                                  t, there, byPage(there))
    /\ UNCHANGED <<db, session, sent>> /\ UNCHANGED others

refreshPage(t) ==
    /\ focus = "pages" /\ click
    /\ \E n \in byPage(tab[t]) : free(<<t, laneOf(n)>>) /\ wire' = reading(wire, t, tab[t], {n})
    /\ UNCHANGED <<db, session, tab>> /\ UNCHANGED others

\* useLicensing keeps nothing when a read fails, and without a license the
\* page shows nothing else.
shown(data, n, got) ==
    [m \in DOMAIN data |-> IF m = n THEN got
                           ELSE IF m = "audit" /\ n = "license" /\ got = Null THEN Null ELSE data[m]]
\* The timeline comes and goes with the license.
timeline(tb, got, r) == IF got = Null THEN NoRequest
                        ELSE IF tb.data.license = Null THEN request(pageQueries(tb).audit, "reload") ELSE r
pageArrives(s) ==
    /\ answeredTo(s, "reload")
    /\ LET t == s[1]
           n == nameIn(tab[t], s[2])
           got == IF good(s) THEN wire[s].data ELSE Null
           log == <<t, laneOf("audit")>>
       IN /\ tab' = [tab EXCEPT ![t].data = shown(@, n, got), ![t].seen[n] = wire[s].rev]
          /\ wire' = IF tab[t].page = "license" /\ n = "license"
                     THEN [quiet(s) EXCEPT ![log] = timeline(tab[t], got, @)] ELSE quiet(s)
    /\ UNCHANGED <<db, session, sent>> /\ UNCHANGED others

-----------------------------------------------------------------------------
(* The template editor of templates/[id].vue.  It sends every field of its   *)
(* form, whichever were typed in.                                            *)

formOf(row) == [f \in DOMAIN templatePatchRules |-> row[f]]
kindOf(rule) == IF rule = "object" THEN "object" ELSE IF rule \in {"text", "text?"} THEN "string" ELSE "number"
patchBody(form) == [f \in DOMAIN form |-> IF form[f] = Null THEN plain("null")
                                          ELSE [t |-> kindOf(templatePatchRules[f]), v |-> form[f]]]
Typing == {<<"max_usages", 3>>, <<"force_online_after_sec", 4>>, <<"max_usages", 1>>}

type(t) ==
    /\ focus = "form" /\ tab[t].data.template # Null /\ click
    /\ \E e \in Typing :
          tab' = [tab EXCEPT ![t].form[e[1]] = e[2],
                             ![t].typed = [f \in DOMAIN @ \cup {e[1]} |-> IF f = e[1] THEN e[2] ELSE @[f]]]
    /\ UNCHANGED <<db, session, wire>> /\ UNCHANGED others
submit(t) ==
    /\ focus = "form" /\ ~tab[t].saving /\ tab[t].data.template # Null /\ click
    /\ tab' = [tab EXCEPT ![t].saving = TRUE, ![t].typed = <<>>]
    /\ wire' = [wire EXCEPT ![<<t, "a">>] = request(post("updateTemplate", 1, patchBody(tab[t].form)), "save")]
    /\ UNCHANGED <<db, session>> /\ UNCHANGED others
refreshTemplate(t) ==
    /\ focus = "form" /\ free(<<t, "load">>) /\ click
    /\ wire' = [wire EXCEPT ![<<t, "load">>] = request(get("getTemplate", 1), "template")]
    /\ UNCHANGED <<db, session, tab>> /\ UNCHANGED others

saved(s) ==
    /\ answeredTo(s, "save")
    /\ IF good(s) THEN /\ wire' = [quiet(s) EXCEPT ![<<s[1], "load">>] = request(get("getTemplate", 1), "template")]
                       /\ tab' = tab
       ELSE wire' = quiet(s) /\ tab' = [tab EXCEPT ![s[1]].saving = FALSE, ![s[1]].typed = tab[s[1]].form]
    /\ UNCHANGED <<db, session, sent>> /\ UNCHANGED others

\* The form follows the template while a save is under way too.
synced_Clobbers(tb, row) == [tb EXCEPT !.data.template = row, !.form = IF row = Null THEN @ ELSE formOf(row),
                                       !.typed = IF tb.saving THEN @ ELSE <<>>]
synced(tb, row) ==
    IF row = Null \/ tb.saving THEN [tb EXCEPT !.data.template = row]
    ELSE [tb EXCEPT !.data.template = row, !.form = formOf(row), !.typed = <<>>]

templateArrives(s) ==
    /\ answeredTo(s, "template")
    /\ LET tb == tab[s[1]] IN
       /\ tab' = [tab EXCEPT ![s[1]] = synced(@, IF good(s) THEN wire[s].data ELSE Null)]
       /\ wire' = IF tb.saving /\ ~busy(s[1], {"a", "more"})
                  THEN [quiet(s) EXCEPT ![<<s[1], "more">>] = request(pageQueries(tb).all, "all")] ELSE quiet(s)
    /\ UNCHANGED <<db, session, sent>> /\ UNCHANGED others
allArrive(s) ==
    /\ answeredTo(s, "all")
    /\ tab' = [tab EXCEPT ![s[1]].data.all = IF good(s) THEN wire[s].data ELSE Null, ![s[1]].saving = FALSE,
                          ![s[1]].reported = wire[s].status # 0]
    /\ wire' = quiet(s)
    /\ UNCHANGED <<db, session, sent>> /\ UNCHANGED others

-----------------------------------------------------------------------------
(* Signing in and out: sign-in.vue, server/api/auth/, useSignOut.ts and the  *)
(* 401 hook of fetch-errors.client.ts.  The cookie is the browser's, the     *)
(* knowledge of being signed in each tab's own.                              *)

\* The sign-in route asks upstream before it seals (the 401 of its refusal is
\* not one the hook sees: 400 here); the cookie of the moment answers whether
\* there is a session.
authServe(s) ==
    /\ wire[s].at = "sent" /\ wire[s].q.route \in AuthRoutes
    /\ LET refused == wire[s].q.route = "signIn" /\ wire[s].q.token \notin accepted
       IN wire' = [wire EXCEPT ![s].at = "answered", ![s].status = IF refused THEN 400 ELSE 200]
    /\ proven' = proven \cup ({wire[s].q.token : r \in {"signIn"} \cap {wire[s].q.route}} \cap accepted)
    /\ UNCHANGED <<focus, secrets, accepted, db, session, tab, sent>>

\* The cookie is sealed before the probe has answered.
sealed_Unchecked(s) == wire[s].q.token
sealed(s) == IF good(s) THEN wire[s].q.token ELSE session

askSession(s, use, cookie) == [wire EXCEPT ![s] = [request([route |-> "session"], use) EXCEPT !.cookie = cookie]]

signIn(t) ==
    /\ focus = "session" /\ tab[t].page = "sign-in" /\ ~busy(t, {"a"}) /\ click
    /\ \E b \in Bearers : wire' = [wire EXCEPT ![<<t, "a">>] = request([route |-> "signIn", token |-> b], "signIn")]
    /\ UNCHANGED <<db, session, tab>> /\ UNCHANGED others
signedIn(s) ==
    /\ answeredTo(s, "signIn")
    /\ session' = sealed(s)
    /\ wire' = IF good(s) THEN askSession(s, "enter", sealed(s)) ELSE quiet(s)
    /\ UNCHANGED <<db, tab, sent>> /\ UNCHANGED others
signOut(t) ==
    /\ focus = "session" /\ tab[t].page # "sign-in" /\ ~busy(t, {"a"}) /\ click
    /\ wire' = [wire EXCEPT ![<<t, "a">>] = request([route |-> "signOut"], "signOut")]
    /\ UNCHANGED <<db, session, tab>> /\ UNCHANGED others
\* Answered or not, the tab asks for the session and goes on.
signedOut(s) ==
    /\ answeredTo(s, "signOut")
    /\ session' = IF good(s) THEN Null ELSE session
    /\ wire' = askSession(s, "forget", IF good(s) THEN Null ELSE session)
    /\ UNCHANGED <<db, tab, sent>> /\ UNCHANGED others

\* The route guard sends a tab with a session on and one without to sign-in.
routeGuard(tb, loggedIn) == [tb EXCEPT !.loggedIn = loggedIn, !.page = IF loggedIn THEN "licenses" ELSE "sign-in"]
sessionRead(s) ==
    /\ wire[s].at = "answered" /\ wire[s].use \in {"enter", "forget"}
    /\ tab' = [tab EXCEPT ![s[1]] = routeGuard(@, good(s) /\ wire[s].cookie # Null)]
    /\ wire' = quiet(s)
    /\ UNCHANGED <<db, session, sent>> /\ UNCHANGED others

browse(t) ==
    /\ focus = "session" /\ tab[t].page = "licenses" /\ free(<<t, "load">>) /\ click
    /\ wire' = [wire EXCEPT ![<<t, "load">>] = request(listQuery(tab[t]), "rows")]
    /\ UNCHANGED <<db, session, tab>> /\ UNCHANGED others
\* A 401 ends the browser's session, whichever session the request was of.
expelled(s) ==
    /\ wire[s].at = "answered" /\ wire[s].status = 401
    /\ session' = Null
    /\ tab' = [tab EXCEPT ![s[1]] = routeGuard(@, FALSE)]
    /\ wire' = quiet(s)
    /\ UNCHANGED <<db, sent>> /\ UNCHANGED others
revokeBearer ==
    /\ focus = "session" /\ click
    /\ \E b \in accepted : accepted' = accepted \ {b}
    /\ UNCHANGED <<focus, secrets, db, session, tab, wire, proven>>

-----------------------------------------------------------------------------

aLicense(status, key, scope, template) ==
    [status |-> status, max_usages |-> 1, license_key |-> key, activated |-> FALSE,
     expires_at |-> 5, grace_until |-> Null, scope_id |-> scope, template_id |-> template, meta |-> "{}"]
aScope(slug) == [slug |-> slug, name |-> "n1", meta |-> "{}"]
StartDb ==
    [scopes |-> <<aScope("s1"), aScope("s2"), aScope("s0")>>,
     templates |-> << [values(templateRules, goodTemplate) EXCEPT !.name = "base", !.parent_id = Null],
                      [values(templateRules, goodTemplate) EXCEPT !.name = "child", !.parent_id = 1] >>,
     licenses |-> << aLicense("active", 1, Null, 1), aLicense("suspended", 2, Null, Null), aLicense("active", 3, 3, Null) >>,
     usages |-> << [license_id |-> 1, status |-> "active"], [license_id |-> 3, status |-> "active"] >>,
     keys |-> << [role |-> "root", state |-> "active"], [role |-> "signing", state |-> "active"] >>,
     audit |-> <<>>, rev |-> 0]

NoTab == [page |-> "licenses", id |-> 0, items |-> <<>>, next |-> Null, cursor |-> Null, stack |-> <<>>,
          filter |-> NoFilter, history |-> <<>>, wentBack |-> FALSE, mounted |-> TRUE, picked |-> {}, selected |-> <<>>, ticked |-> {}, stale |-> FALSE, dialog |-> "none",
          targets |-> {}, done |-> 0, failed |-> 0, committed |-> {}, reported |-> FALSE, data |-> NoFilter,
          seen |-> NoFilter, own |-> NoFilter, reload |-> {}, leave |-> "stay", deleted |-> {},
          form |-> NoFilter, typed |-> <<>>, saving |-> FALSE, loggedIn |-> TRUE]
\* A page as it is once its first reads are done.
pageOn(name, id) ==
    LET tb == opened(NoTab, name, id)
    IN [tb EXCEPT !.data = [n \in DOMAIN tb.data |-> result(StartDb, pageQueries(tb)[n])]]
firstTab(f) ==
    CASE f = "api" -> {NoTab}
      [] f = "list" -> {newRows(NoTab, result(StartDb, listQuery(NoTab)).items, result(StartDb, listQuery(NoTab)).next_cursor)}
      [] f = "pages" -> {pageOn(p[1], p[2]) : p \in {<<"license", 1>>, <<"license", 2>>, <<"keys", 0>>, <<"scope", 1>>, <<"scope", 2>>,
                                                    <<"usages", 0>>, <<"template", 1>>, <<"template", 2>>}}
      [] f = "form" -> {[pageOn("template", 1) EXCEPT !.form = formOf(StartDb.templates[1])]}
      [] f = "session" -> {[NoTab EXCEPT !.page = "sign-in", !.loggedIn = FALSE]}

ConsoleInit ==
    /\ focus \in Focuses
    /\ db = StartDb
    /\ secrets \in IF focus = "api" THEN {{"root", "signing"}, {"root"}} ELSE {{"root", "signing"}}
    /\ accepted = Bearers
    /\ \E tb \in firstTab(focus) : tab = [t \in Tabs |-> tb]
    /\ session = IF focus = "session" THEN Null ELSE CHOOSE b \in Bearers : TRUE
    /\ wire = [s \in Slots |-> NoRequest]
    /\ proven = {session} \ {Null}
    /\ sent = [direct |-> {}, clicks |-> 0, losses |-> 0]

ConsoleNext ==
    \/ \E s \in Slots : \/ proxy(s) \/ handle(s) \/ lose(s) \/ callDirectly(s) \/ hangUp(s)
                        \/ rowsArrive(s) \/ bulkAnswered(s) \/ finishAction(s)
                        \/ actAnswered(s) \/ pageArrives(s)
                        \/ saved(s) \/ templateArrives(s) \/ allArrive(s)
                        \/ authServe(s) \/ signedIn(s) \/ signedOut(s) \/ sessionRead(s) \/ expelled(s)
    \/ applyServerFilter \/ goNext \/ goPrev \/ goBack \/ refreshList
    \/ \E i \in 1..pageOf(25) : toggleSelected(i)
    \/ runLifecycleVerb \/ runExtend \/ dismiss
    \/ \E t \in IF focus = "pages" THEN {Operator} ELSE Tabs :
          \/ act(t) \/ refreshPage(t)
          \/ type(t) \/ submit(t) \/ refreshTemplate(t)
          \/ signIn(t) \/ signOut(t) \/ browse(t)
    \/ revokeBearer

ConsoleSpec == ConsoleInit /\ [][ConsoleNext]_consoleVars

-----------------------------------------------------------------------------
(* Properties.                                                               *)

\* Types, with the bounds the validators give the rows: seats are positive,
\* durations are not negative, keys stay unique, parents exist.
ConsoleTypeOK ==
    /\ focus \in Focuses /\ accepted \subseteq Bearers /\ session \in Bearers \cup {Null}
    /\ \A i \in DOMAIN db.licenses :
          /\ db.licenses[i].status \in LicenseStatus /\ db.licenses[i].max_usages >= 1
          /\ \A k \in DOMAIN db.licenses \ {i} : db.licenses[k].license_key # db.licenses[i].license_key
    /\ \A i \in DOMAIN db.templates :
          LET r == db.templates[i] IN
          /\ r.max_usages >= 1 /\ r.trial_duration_sec >= 0 /\ r.grace_duration_sec >= 0
          /\ r.force_online_after_sec = Null \/ r.force_online_after_sec >= 0
          /\ r.parent_id = Null \/ r.parent_id \in DOMAIN db.templates \ {i}
    /\ \A s \in Slots : wire[s].at \in {"free", "sent", "loaded", "answered"} /\ wire[s].status \in 0..409

\* A PATCH changes the columns it names and no other, to exactly what it
\* says (an explicit null clears), also when another writer changed the row
\* after the handler read it.
PatchExact ==
    [][\A s \in Slots : \A table \in {"licenses", "templates"} :
         LET q == wire[s].q IN
         /\ wire[s].at = "loaded" /\ wire'[s].at = "answered" /\ wire'[s].status = 200
         /\ q.route = [licenses |-> "updateLicense", templates |-> "updateTemplate"][table]
         => \A f \in DOMAIN db[table][q.id] :
              LET new == db'[table][q.id][f]
                  named == f \in DOMAIN q.body \ {"scope_id", "template_id", "license_key"} /\ q.body[f].t # "undefined"
              IN CASE ~named -> new = db[table][q.id][f]
                   [] named /\ q.body[f].t \in {"null", "empty"} -> new = IF f \in {"meta", "entitlements"} THEN "{}" ELSE Null
                   [] OTHER -> new = q.body[f].v]_consoleVars

selectionSeen(tb) ==
    /\ DOMAIN tb.selected \subseteq tb.ticked \cap DOMAIN tb.items
    /\ \A i \in DOMAIN tb.selected : tb.selected[i] = tb.items[i]
\* A bulk action reaches only licenses the operator ticked on the rows that
\* are on the screen: a tick is kept by row number, and the rows under it
\* change with every page, filter and refresh.  A selection that outlives its
\* table does so after a read of the list has failed, and in no other way.
SelectionMeansSeen ==
    LET tb == tab[Operator] IN
    IF focus = "list" /\ tb.stale THEN sent.losses > 0 ELSE selectionSeen(tb)

\* What a bulk action reports once it is over: every target is counted once,
\* a success was written, and only a lost answer makes a written one a failure.
TallyExact ==
    LET tb == tab[Operator] IN
    focus = "list" /\ tb.reported =>
        /\ tb.done + tb.failed = Cardinality(tb.targets)
        /\ tb.done <= Cardinality(tb.committed)
        /\ Cardinality(tb.committed) - tb.done <= sent.losses

cursorsInOrder ==
    LET path == Append(tab[Operator].stack, tab[Operator].cursor)
        at(i) == IF path[i] = Null THEN Len(db.licenses) + 1 ELSE path[i]
    IN /\ path[1] = Null
       /\ \A i \in 1..Len(path) - 1 : at(i) >= at(i + 1)
\* The way back: the remembered cursors never run ahead of the page that is
\* shown, so "Previous" goes back through them to the first page, as long as
\* the browser's own back button is left alone.
PagerReturns == tab[Operator].wentBack \/ cursorsInOrder

ownShown(tb, n) == tb.data[n] = Null \/ tb.seen[n] >= tb.own[n]
\* Once a button's request is answered and its reads are done, the page shows
\* every change that request made to what the page itself reads; the audit
\* timeline beside it is read by its own component (TimelineFollows).
OwnWriteShown ==
    \A t \in Tabs : ~busy(t, Lanes) => \A n \in byPage(tab[t]) : ownShown(tab[t], n)

\* What the operator types while a save is under way stays in the form,
\* whatever the reads that follow the save bring back.
EditsKept ==
    \A t \in Tabs : tab[t].saving => \A f \in DOMAIN tab[t].typed : tab[t].form[f] = tab[t].typed[f]

\* The licenses table (licenses/index.vue, BulkActionsMenu.vue): ticks, bulk
\* actions and pages mean what the operator saw.
ListExact == SelectionMeansSeen /\ TallyExact /\ PagerReturns

\* The detail pages: what the operator did or typed is what they show.
DetailExact == OwnWriteShown /\ EditsKept

\* The cookie holds only a token the upstream API was seen to accept.
SealedTokenWasAccepted == session \in proven \cup {Null}

-----------------------------------------------------------------------------
(* What the code's comments say and the code does not do.                    *)

\* templates/[id].vue: the picker's list of templates is there to pick from.
PickerFilled == \A t \in Tabs : focus = "form" /\ tab[t].reported => tab[t].data.all # Null

\* DataTable.vue: new rows reset the selection, so that what is selected is
\* what was ticked on the rows that are shown.
SelectionResets == selectionSeen(tab[Operator])

\* LicenseAuditTimeline.vue: the timeline holds what the operator just did.
TimelineFollows ==
    \A t \in Tabs : ~busy(t, Lanes) => \A n \in DOMAIN tab[t].data \cap {"audit"} : ownShown(tab[t], n)

\* licenses/index.vue: the back button works.
BackButtonWorks == cursorsInOrder

\* BulkActionsMenu.vue: extending adds the days to the existing expiry.
ExtensionAdds ==
    [][\A s \in Slots : wire[s].use = "bulk" /\ wire[s].at = "loaded" /\ wire'[s].at = "answered"
                        /\ wire[s].q.route = "renew" /\ wire'[s].status = 200
         => db'.licenses[wire[s].q.id].expires_at = db.licenses[wire[s].q.id].expires_at + Days]_consoleVars

\* licenses/index.vue: the table re-reads its rows when a bulk action is over.
BulkRefetches ==
    [][tab'[Operator].reported /\ ~tab[Operator].reported /\ focus = "list"
         => wire'[<<Operator, "load">>].use = "rows"]_consoleVars

\* scopes/[id].vue and templates/[id].vue: what was deleted is gone.
DeletedIsGone == \A t \in Tabs : \A x \in tab[t].deleted : ~exists(db[x[1]], x[2])

\* keys/index.vue: rotating marks this key as retiring.
RotatesThisKey ==
    [][\A s \in Slots : wire[s].at = "loaded" /\ wire'[s].at = "answered" /\ wire[s].use = "act"
                        /\ wire[s].q.route = "rotateKey" /\ wire'[s].status = 200
         => db.keys[wire[s].q.id].state = "active" /\ db'.keys[wire[s].q.id].state = "retiring"]_consoleVars

\* templates/[id].vue: the form is in step with the template that was read.
FormFollowsTemplate ==
    \A t \in Tabs : focus = "form" /\ ~tab[t].saving /\ tab[t].typed = <<>> /\ tab[t].data.template # Null
        => tab[t].form = formOf(tab[t].data.template)

\* audit/index.vue: every state-changing operation is in the audit log.
ChangesAudited == [][db'.rev # db.rev => Len(db'.audit) > Len(db.audit)]_consoleVars

\* useSignOut.ts: whatever became of the call, the tab forgets the session.
SignOutForgets ==
    [][\A s \in Slots : wire[s].use = "forget" /\ wire'[s].at = "free" => ~tab'[s[1]].loggedIn]_consoleVars
=============================================================================
