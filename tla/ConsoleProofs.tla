--------------------------- MODULE ConsoleProofs ----------------------------
(* Theorems about AdminConsole, for any tabs and bearer tokens, with          *)
(* requests of every page in flight, answers lost and tokens revoked          *)
(* upstream: what the browser's cookie may hold, what a PATCH writes, what    *)
(* the detail pages and the template editor show, and what a tick, a bulk     *)
(* action and a page of the licenses table mean. They rest on ConsoleInv,     *)
(* which holds of every page at once: the database's tables keep their        *)
(* columns and their rows, each request in flight is one its page sends in    *)
(* that lane, and each tab has the fields of its page.                        *)
EXTENDS AdminConsole, TLAPS, SequenceTheorems, FiniteSetTheorems

-----------------------------------------------------------------------------
RequestFields == {"at", "q", "cookie", "row", "status", "data", "use", "rev", "changed"}

\* A sign-in that was answered with success carries a token that was probed.
SlotOK(r, P) ==
    /\ DOMAIN r = RequestFields
    /\ r.use = "signIn" => /\ r.q.route = "signIn" /\ r.at \in {"sent", "answered"}
                           /\ r.at = "answered" /\ r.status \in 200..204 => r.q.token \in P

\* A request that is not a sign-in.
Other(r) == DOMAIN r = RequestFields /\ r.use # "signIn"

SessionInv ==
    /\ DOMAIN wire = Slots
    /\ \A s \in Slots : SlotOK(wire[s], proven)
    /\ SealedTokenWasAccepted

-----------------------------------------------------------------------------
LEMMA NoRequestIsOther == Other(NoRequest)
  BY DEF Other, NoRequest, RequestFields

LEMMA RequestShape ==
    ASSUME NEW q, NEW use
    PROVE  /\ DOMAIN request(q, use) = RequestFields
           /\ request(q, use).use = use /\ request(q, use).q = q /\ request(q, use).at = "sent"
  BY DEF request, NoRequest, RequestFields

LEMMA RequestIsOther ==
    ASSUME NEW q, NEW use, use # "signIn"
    PROVE  Other(request(q, use))
  BY RequestShape DEF Other

LEMMA OtherIsOK ==
    ASSUME NEW r, NEW P, Other(r)
    PROVE  SlotOK(r, P)
  BY DEF Other, SlotOK

\* What is probed stays probed.
LEMMA ProvenGrows ==
    ASSUME NEW r, NEW P, NEW Q, P \subseteq Q, SlotOK(r, P)
    PROVE  SlotOK(r, Q)
  BY DEF SlotOK

\* A step that writes requests of other kinds, and keeps or drops the cookie.
Bystander ==
    /\ DOMAIN wire' = Slots
    /\ \A s \in Slots : wire'[s] = wire[s] \/ Other(wire'[s])
    /\ session' \in {session, Null} /\ proven' = proven

LEMMA BystanderKeeps ==
    ASSUME SessionInv, Bystander
    PROVE  SessionInv'
  <1>1. \A s \in Slots : SlotOK(wire'[s], proven')
    BY OtherIsOK DEF SessionInv, Bystander
  <1>2. SealedTokenWasAccepted'
    BY DEF SessionInv, Bystander, SealedTokenWasAccepted
  <1> QED
    BY <1>1, <1>2 DEF SessionInv, Bystander

\* Writing one slot, clearing it, or reading pages again, keeps the others.
LEMMA WriteOther ==
    ASSUME NEW w, DOMAIN w = Slots, NEW s, NEW r, Other(r)
    PROVE  /\ DOMAIN [w EXCEPT ![s] = r] = Slots
           /\ \A o \in Slots : [w EXCEPT ![s] = r][o] = w[o] \/ Other([w EXCEPT ![s] = r][o])
  OBVIOUS

LEMMA QuietOther ==
    ASSUME SessionInv, NEW s
    PROVE  /\ DOMAIN quiet(s) = Slots
           /\ \A o \in Slots : quiet(s)[o] = wire[o] \/ Other(quiet(s)[o])
  BY NoRequestIsOther, WriteOther DEF quiet, SessionInv

LEMMA ReadingOther ==
    ASSUME NEW w, NEW t, NEW tb, NEW names
    PROVE  /\ DOMAIN reading(w, t, tb, names) = Slots
           /\ \A o \in Slots : reading(w, t, tb, names)[o] = w[o] \/ Other(reading(w, t, tb, names)[o])
  <1> DEFINE ask(o) == pageQueries(tb)[CHOOSE n \in names : o[2] = laneOf(n)]
  <1>1. \A o \in Slots : Other(request(ask(o), "reload"))
    BY RequestIsOther
  <1> HIDE DEF ask
  <1>2. reading(w, t, tb, names) =
          [o \in Slots |-> IF o[1] = t /\ \E n \in names : o[2] = laneOf(n)
                           THEN request(ask(o), "reload") ELSE w[o]]
    BY DEF reading, ask
  <1> QED
    BY <1>1, <1>2

-----------------------------------------------------------------------------
(* The way of a request.                                                     *)

LEMMA ProxyKeeps ==
    ASSUME SessionInv, NEW s \in Slots, proxy(s)
    PROVE  SessionInv'
  <1>1. wire[s].use # "signIn" /\ DOMAIN wire[s] = RequestFields
    BY DEF proxy, SessionInv, SlotOK, AuthRoutes
  <1>2. wire'[s] \in {[wire[s] EXCEPT !.at = "answered", !.status = 401],
                      [wire[s] EXCEPT !.at = "loaded", !.row = load(db, wire[s].q)]}
    BY DEF proxy, SessionInv
  <1>3. Other(wire'[s])
    BY <1>1, <1>2 DEF Other, RequestFields
  <1>4. Bystander
    BY <1>3 DEF proxy, SessionInv, Bystander, others
  <1> QED
    BY <1>4, BystanderKeeps

LEMMA HandleKeeps ==
    ASSUME SessionInv, NEW s \in Slots, handle(s)
    PROVE  SessionInv'
  <1>1. wire[s].use # "signIn" /\ DOMAIN wire[s] = RequestFields
    BY DEF handle, SessionInv, SlotOK
  <1>2. PICK st, da, re, ch :
          wire' = [wire EXCEPT ![s].at = "answered", ![s].status = st, ![s].data = da,
                               ![s].rev = re, ![s].changed = ch]
    BY DEF handle
  <1>3. Other(wire'[s])
    BY <1>1, <1>2 DEF Other, RequestFields, SessionInv
  <1>4. DOMAIN wire' = Slots /\ \A o \in Slots : o # s => wire'[o] = wire[o]
    BY <1>2 DEF SessionInv
  <1>5. Bystander
    BY <1>3, <1>4 DEF handle, Bystander, others
  <1> QED
    BY <1>5, BystanderKeeps

LEMMA LoseKeeps ==
    ASSUME SessionInv, NEW s \in Slots, lose(s)
    PROVE  SessionInv'
  <1>1. SlotOK(wire[s], proven) /\ wire[s].at = "answered" /\ wire' = [wire EXCEPT ![s].status = 0]
    BY DEF lose, SessionInv
  <1>2. /\ DOMAIN wire'[s] = RequestFields /\ wire'[s].use = wire[s].use /\ wire'[s].q = wire[s].q
        /\ wire'[s].at = wire[s].at /\ wire'[s].status = 0
    BY <1>1 DEF SlotOK, RequestFields, SessionInv
  <1>3. SlotOK(wire'[s], proven)
    BY <1>1, <1>2 DEF SlotOK
  <1>4. DOMAIN wire' = Slots /\ \A o \in Slots : o # s => wire'[o] = wire[o]
    BY <1>1 DEF SessionInv
  <1>5. UNCHANGED <<session, proven>>
    BY DEF lose, others
  <1> QED
    BY <1>3, <1>4, <1>5 DEF SessionInv, SealedTokenWasAccepted

-----------------------------------------------------------------------------
(* Signing in.                                                               *)

LEMMA AuthServeKeeps ==
    ASSUME SessionInv, NEW s \in Slots, authServe(s)
    PROVE  SessionInv'
  <1>1. SlotOK(wire[s], proven)
    BY DEF SessionInv
  <1>2. proven \subseteq proven' /\ session' = session
    BY DEF authServe
  <1>3. PICK st : /\ wire' = [wire EXCEPT ![s].at = "answered", ![s].status = st]
                  /\ st \in {200, 400}
                  /\ wire[s].q.route = "signIn" /\ wire[s].q.token \notin accepted => st = 400
    BY ZenonT(30) DEF authServe
  <1>4. /\ DOMAIN wire'[s] = RequestFields /\ wire'[s].use = wire[s].use /\ wire'[s].q = wire[s].q
        /\ wire'[s].at = "answered" /\ wire'[s].status = st
    BY <1>1, <1>3 DEF SlotOK, RequestFields, SessionInv
  <1>5. SlotOK(wire'[s], proven')
    <2>1. CASE wire[s].use # "signIn"
      BY <1>4, <2>1 DEF SlotOK
    <2>2. CASE wire[s].use = "signIn"
      <3>1. wire[s].q.route = "signIn"
        BY <1>1, <2>2 DEF SlotOK
      <3>2. wire[s].q.token \in accepted => wire[s].q.token \in proven'
        BY <3>1 DEF authServe
      <3>3. wire[s].q.token \notin accepted => ~(wire'[s].status \in 200..204)
        BY <1>3, <1>4, <3>1
      <3> QED
        BY <1>4, <3>1, <3>2, <3>3 DEF SlotOK
    <2> QED
      BY <2>1, <2>2
  <1>6. DOMAIN wire' = Slots /\ \A o \in Slots : o # s => wire'[o] = wire[o]
    BY <1>3 DEF SessionInv
  <1>7. \A o \in Slots : SlotOK(wire'[o], proven')
    BY <1>2, <1>5, <1>6, ProvenGrows DEF SessionInv
  <1> QED
    BY <1>2, <1>6, <1>7 DEF SessionInv, SealedTokenWasAccepted

LEMMA SignInKeeps ==
    ASSUME SessionInv, NEW t, signIn(t)
    PROVE  SessionInv'
  <1>1. PICK b \in Bearers :
          wire' = [wire EXCEPT ![<<t, "a">>] = request([route |-> "signIn", token |-> b], "signIn")]
    BY DEF signIn
  <1> DEFINE q == [route |-> "signIn", token |-> b]
  <1>2. q.route = "signIn"
    OBVIOUS
  <1> HIDE DEF q
  <1>3. SlotOK(request(q, "signIn"), proven)
    BY <1>2, RequestShape DEF SlotOK
  <1>4. DOMAIN wire' = Slots /\ \A o \in Slots : wire'[o] = wire[o] \/ wire'[o] = request(q, "signIn")
    BY <1>1 DEF SessionInv, q
  <1>5. UNCHANGED <<session, proven>>
    BY DEF signIn, others
  <1> QED
    BY <1>3, <1>4, <1>5 DEF SessionInv, SealedTokenWasAccepted

LEMMA AskSessionOther ==
    ASSUME SessionInv, NEW s, NEW use, use # "signIn", NEW cookie
    PROVE  /\ DOMAIN askSession(s, use, cookie) = Slots
           /\ \A o \in Slots : askSession(s, use, cookie)[o] = wire[o] \/ Other(askSession(s, use, cookie)[o])
  <1> DEFINE r == [request([route |-> "session"], use) EXCEPT !.cookie = cookie]
  <1>1. Other(request([route |-> "session"], use))
    BY RequestIsOther
  <1>2. Other(r)
    BY <1>1 DEF Other, RequestFields
  <1> HIDE DEF r
  <1>3. askSession(s, use, cookie) = [wire EXCEPT ![s] = r]
    BY DEF askSession, r
  <1> QED
    BY <1>2, <1>3, WriteOther DEF SessionInv

LEMMA SignedInKeeps ==
    ASSUME SessionInv, NEW s \in Slots, signedIn(s)
    PROVE  SessionInv'
  <1>1. SlotOK(wire[s], proven) /\ wire[s].use = "signIn" /\ wire[s].at = "answered"
    BY DEF signedIn, answeredTo, SessionInv
  <1>2. session' \in proven \cup {Null} /\ proven' = proven
    BY <1>1 DEF signedIn, sealed, good, SlotOK, SessionInv, SealedTokenWasAccepted, others
  <1>3. DOMAIN wire' = Slots /\ \A o \in Slots : wire'[o] = wire[o] \/ Other(wire'[o])
    BY QuietOther, AskSessionOther DEF signedIn
  <1>4. \A o \in Slots : SlotOK(wire'[o], proven')
    BY <1>2, <1>3, OtherIsOK DEF SessionInv
  <1> QED
    BY <1>2, <1>3, <1>4 DEF SessionInv, SealedTokenWasAccepted

LEMMA SignedOutKeeps ==
    ASSUME SessionInv, NEW s \in Slots, signedOut(s)
    PROVE  SessionInv'
  <1>1. Bystander
    BY AskSessionOther DEF signedOut, Bystander, others
  <1> QED
    BY <1>1, BystanderKeeps

-----------------------------------------------------------------------------
(* The pages.                                                                *)

\* Both the cookie and the probes are left alone.
Idle == UNCHANGED <<session, proven>>

\* A step that puts one request of another kind on the wire, or clears a slot.
LEMMA AskKeeps ==
    ASSUME SessionInv, Idle, NEW s, NEW q, NEW use, use # "signIn",
           wire' = [wire EXCEPT ![s] = request(q, use)]
    PROVE  SessionInv'
  <1>1. Bystander
    BY RequestIsOther, WriteOther DEF SessionInv, Bystander, Idle
  <1> QED
    BY <1>1, BystanderKeeps

LEMMA QuietKeeps ==
    ASSUME SessionInv, session' \in {session, Null}, proven' = proven, NEW s, wire' = quiet(s)
    PROVE  SessionInv'
  <1>1. Bystander
    BY QuietOther DEF Bystander
  <1> QED
    BY <1>1, BystanderKeeps

LEMMA QuietAskKeeps ==
    ASSUME SessionInv, Idle, NEW s, NEW o, NEW q, NEW use, use # "signIn",
           wire' = [quiet(s) EXCEPT ![o] = request(q, use)]
    PROVE  SessionInv'
  <1>1. /\ DOMAIN quiet(s) = Slots
        /\ \A x \in Slots : quiet(s)[x] = wire[x] \/ Other(quiet(s)[x])
    BY QuietOther
  <1>2. Other(request(q, use))
    BY RequestIsOther
  <1>3. DOMAIN wire' = Slots /\ \A x \in Slots : wire'[x] = quiet(s)[x] \/ Other(wire'[x])
    BY <1>1, <1>2
  <1>4. Bystander
    BY <1>1, <1>3 DEF Bystander, Idle
  <1> QED
    BY <1>4, BystanderKeeps

LEMMA StillKeeps ==
    ASSUME SessionInv, UNCHANGED <<wire, session, proven>>
    PROVE  SessionInv'
  BY DEF SessionInv, SealedTokenWasAccepted

\* The licenses table.
LEMMA TableKeeps ==
    ASSUME SessionInv,
           \/ applyServerFilter \/ goNext \/ goPrev \/ goBack \/ refreshList
           \/ \E i \in 1..pageOf(25) : toggleSelected(i)
           \/ runLifecycleVerb \/ runExtend \/ dismiss
    PROVE  SessionInv'
  <1>1. ASSUME NEW tb, navigate(tb) PROVE SessionInv'
    BY <1>1, AskKeeps DEF navigate, fetchList, others, Idle
  <1>2. CASE goBack
    <2>1. PICK tb : wire' = fetchList(wire, tb)
      BY <1>2 DEF goBack
    <2> QED
      BY <1>2, <2>1, AskKeeps DEF goBack, fetchList, others, Idle
  <1>3. CASE refreshList
    BY <1>3, AskKeeps DEF refreshList, fetchList, others, Idle
  <1>4. ASSUME NEW i, toggleSelected(i) PROVE SessionInv'
    BY <1>4, StillKeeps DEF toggleSelected, others
  <1>5. CASE dismiss
    BY <1>5, StillKeeps DEF dismiss, others
  <1>6. ASSUME NEW action, runBulk(action) PROVE SessionInv'
    <2>1. DOMAIN wire' = Slots /\ \A o \in Slots : wire'[o] = wire[o] \/ \E q : wire'[o] = request(q, "bulk")
      BY <1>6 DEF runBulk, fanOut
    <2>2. \A q : Other(request(q, "bulk"))
      BY RequestIsOther
    <2>3. Bystander
      BY <1>6, <2>1, <2>2 DEF runBulk, SessionInv, Bystander, others
    <2> QED
      BY <2>3, BystanderKeeps
  <1> QED
    BY <1>1, <1>2, <1>3, <1>4, <1>5, <1>6
       DEF applyServerFilter, goNext, goPrev, runLifecycleVerb, runExtend

\* Answers that arrive, and the direct callers.
LEMMA ArrivalKeeps ==
    ASSUME SessionInv, NEW s \in Slots,
           \/ callDirectly(s) \/ hangUp(s) \/ rowsArrive(s) \/ bulkAnswered(s) \/ finishAction(s)
           \/ pageArrives(s) \/ saved(s) \/ templateArrives(s) \/ allArrive(s)
           \/ sessionRead(s) \/ expelled(s)
    PROVE  SessionInv'
  <1>1. CASE callDirectly(s)
    <2>1. PICK q : wire' = [wire EXCEPT ![s] = request(q, "direct")]
      BY <1>1 DEF callDirectly
    <2> QED
      BY <1>1, <2>1, AskKeeps DEF callDirectly, others, Idle
  <1>2. CASE hangUp(s) \/ rowsArrive(s) \/ bulkAnswered(s) \/ allArrive(s) \/ sessionRead(s)
    BY <1>2, QuietKeeps DEF hangUp, rowsArrive, bulkAnswered, allArrive, sessionRead, others, Idle
  <1>7. CASE pageArrives(s)
    <2> DEFINE log == <<s[1], laneOf("audit")>>
    <2>1. Idle
      BY <1>7 DEF pageArrives, others, Idle
    <2>2. \/ wire' = quiet(s)
          \/ \E tb, got : wire' = [quiet(s) EXCEPT ![log] = timeline(tb, got, @)]
      BY <1>7 DEF pageArrives
    <2>3. CASE wire' = quiet(s)
      BY <2>1, <2>3, QuietKeeps DEF Idle
    <2>4. ASSUME NEW tb, NEW got, wire' = [quiet(s) EXCEPT ![log] = timeline(tb, got, @)]
          PROVE  SessionInv'
      <3>1. DOMAIN quiet(s) = Slots /\ \A o \in Slots : quiet(s)[o] = wire[o] \/ Other(quiet(s)[o])
        BY QuietOther
      <3>2. \A q : Other(request(q, "reload"))
        BY RequestIsOther
      <3>3. \A o \in Slots : wire'[o] = quiet(s)[o] \/ Other(wire'[o])
        BY <2>4, <3>1, <3>2, NoRequestIsOther DEF timeline
      <3>4. Bystander
        BY <2>1, <2>4, <3>1, <3>3 DEF Bystander, Idle
      <3> QED
        BY <3>4, BystanderKeeps
    <2> QED
      BY <2>2, <2>3, <2>4
  <1>3. CASE expelled(s)
    BY <1>3, QuietKeeps DEF expelled, others
  <1>4. CASE finishAction(s)
    <2>1. Idle
      BY <1>4 DEF finishAction, others, Idle
    <2>2. PICK tb : wire' = fetchList(quiet(s), tb) \/ wire' = quiet(s)
      BY <1>4 DEF finishAction
    <2> QED
      BY <2>1, <2>2, QuietKeeps, QuietAskKeeps DEF fetchList, Idle
  <1>5. CASE saved(s)
    BY <1>5, QuietKeeps, QuietAskKeeps DEF saved, others, Idle
  <1>6. CASE templateArrives(s)
    <2>1. Idle
      BY <1>6 DEF templateArrives, others, Idle
    <2>2. PICK q : wire' = [quiet(s) EXCEPT ![<<s[1], "more">>] = request(q, "all")] \/ wire' = quiet(s)
      BY <1>6 DEF templateArrives
    <2> QED
      BY <2>1, <2>2, QuietKeeps, QuietAskKeeps DEF Idle
  <1> QED
    BY <1>1, <1>2, <1>3, <1>4, <1>5, <1>6, <1>7

\* A detail page's answer: the page reads again, or another one opens.
LEMMA ActAnsweredKeeps ==
    ASSUME SessionInv, NEW s \in Slots, actAnswered(s)
    PROVE  SessionInv'
  <1>1. Idle
    BY DEF actAnswered, others, Idle
  <1> DEFINE tb == tab[s[1]]
             there == opened([tb EXCEPT !.deleted = IF wire[s].status = 204
                                                    THEN @ \cup {<<tableOf(wire[s].q.route), wire[s].q.id>>}
                                                    ELSE @],
                             tb.leave, wire[s].data)
             names == tb.reload
             all == byPage(there)
  <1>2. \/ wire' = quiet(s)
        \/ wire' = reading(quiet(s), s[1], tb, names)
        \/ wire' = reading([o \in Slots |-> IF o[1] = s[1] THEN NoRequest ELSE wire[o]],
                           s[1], there, all)
    BY DEF actAnswered
  <1> HIDE DEF tb, there, names, all
  <1>3. CASE wire' = quiet(s)
    BY <1>1, <1>3, QuietKeeps DEF Idle
  <1>4. CASE wire' = reading(quiet(s), s[1], tb, names)
    <2>1. /\ DOMAIN wire' = Slots
          /\ \A o \in Slots : wire'[o] = quiet(s)[o] \/ Other(wire'[o])
      BY <1>4, ReadingOther
    <2>2. \A o \in Slots : quiet(s)[o] = wire[o] \/ Other(quiet(s)[o])
      BY QuietOther
    <2>3. Bystander
      BY <1>1, <2>1, <2>2 DEF Bystander, Idle
    <2> QED
      BY <2>3, BystanderKeeps
  <1>5. CASE wire' = reading([o \in Slots |-> IF o[1] = s[1] THEN NoRequest ELSE wire[o]],
                             s[1], there, all)
    <2> DEFINE w == [o \in Slots |-> IF o[1] = s[1] THEN NoRequest ELSE wire[o]]
    <2>1. \A o \in Slots : w[o] = wire[o] \/ Other(w[o])
      BY NoRequestIsOther
    <2> HIDE DEF w
    <2>2. wire' = reading(w, s[1], there, all)
      BY <1>5 DEF w
    <2>3. /\ DOMAIN wire' = Slots
          /\ \A o \in Slots : wire'[o] = w[o] \/ Other(wire'[o])
      BY <2>2, ReadingOther
    <2>4. Bystander
      BY <1>1, <2>1, <2>3 DEF Bystander, Idle
    <2> QED
      BY <2>4, BystanderKeeps
  <1> QED
    BY <1>2, <1>3, <1>4, <1>5

\* What an operator does in a tab, and a token that is revoked upstream.
LEMMA TabKeeps ==
    ASSUME SessionInv, NEW t,
           \/ act(t) \/ refreshPage(t) \/ type(t) \/ submit(t) \/ refreshTemplate(t)
           \/ signOut(t) \/ browse(t) \/ revokeBearer
    PROVE  SessionInv'
  <1>1. CASE act(t)
    <2>1. PICK q : wire' = [wire EXCEPT ![<<t, "a">>] = request(q, "act")]
      BY <1>1 DEF act
    <2> QED
      BY <1>1, <2>1, AskKeeps DEF act, others, Idle
  <1>2. CASE refreshPage(t)
    <2>1. PICK n : wire' = reading(wire, t, tab[t], {n})
      BY <1>2 DEF refreshPage
    <2>2. Bystander
      BY <1>2, <2>1, ReadingOther DEF refreshPage, Bystander, others
    <2> QED
      BY <2>2, BystanderKeeps
  <1>3. CASE type(t) \/ revokeBearer
    BY <1>3, StillKeeps DEF type, revokeBearer, others
  <1>4. CASE submit(t)
    BY <1>4, AskKeeps DEF submit, others, Idle
  <1>5. CASE refreshTemplate(t)
    BY <1>5, AskKeeps DEF refreshTemplate, others, Idle
  <1>6. CASE signOut(t)
    BY <1>6, AskKeeps DEF signOut, others, Idle
  <1>7. CASE browse(t)
    BY <1>7, AskKeeps DEF browse, others, Idle
  <1> QED
    BY <1>1, <1>2, <1>3, <1>4, <1>5, <1>6, <1>7

-----------------------------------------------------------------------------
\* The inductive invariant: a sign-in answered with success, however long its
\* answer is under way, carries a token a probe found accepted.
THEOREM SessionInvariant == ConsoleSpec => []SessionInv
  <1>1. ConsoleInit => SessionInv
    <2> SUFFICES ASSUME ConsoleInit PROVE SessionInv
      OBVIOUS
    <2>1. DOMAIN wire = Slots /\ \A s \in Slots : SlotOK(wire[s], proven)
      BY NoRequestIsOther, OtherIsOK DEF ConsoleInit
    <2>2. SealedTokenWasAccepted
      BY DEF ConsoleInit, SealedTokenWasAccepted
    <2> QED
      BY <2>1, <2>2 DEF SessionInv
  <1>2. SessionInv /\ [ConsoleNext]_consoleVars => SessionInv'
    <2> SUFFICES ASSUME SessionInv, [ConsoleNext]_consoleVars PROVE SessionInv'
      OBVIOUS
    <2>1. CASE UNCHANGED consoleVars
      BY <2>1, StillKeeps DEF consoleVars
    <2>2. CASE ConsoleNext
      BY <2>2, ProxyKeeps, HandleKeeps, LoseKeeps, ArrivalKeeps, ActAnsweredKeeps, AuthServeKeeps,
         SignedInKeeps, SignedOutKeeps, TableKeeps, TabKeeps, SignInKeeps DEF ConsoleNext
    <2> QED
      BY <2>1, <2>2
  <1> QED
    BY <1>1, <1>2, PTL DEF ConsoleSpec

\* The browser's cookie never holds a token the upstream API was not seen to
\* accept, although tabs share it and answers of earlier sessions arrive late
\* (server/api/auth/sign-in.post.ts).
THEOREM CookieWasProbed == ConsoleSpec => []SealedTokenWasAccepted
  <1>1. SessionInv => SealedTokenWasAccepted
    BY DEF SessionInv
  <1> QED
    BY <1>1, SessionInvariant, PTL

-----------------------------------------------------------------------------
(* The database, whatever is asked of it.                                    *)

\* A table: a sequence of rows with the same columns.
Table(rows, columns) ==
    /\ rows \in Seq({rows[i] : i \in DOMAIN rows})
    /\ \A i \in DOMAIN rows : DOMAIN rows[i] = columns

DbFields == {"scopes", "templates", "licenses", "usages", "keys", "audit", "rev"}
LicenseColumns == {"status", "max_usages", "license_key", "activated", "expires_at", "grace_until",
                   "scope_id", "template_id", "meta"}
TemplateColumns == {"name", "max_usages", "trial_duration_sec", "grace_duration_sec", "scope_id", "parent_id",
                    "entitlements", "meta", "force_online_after_sec", "trial_cooldown_sec"}
EditableColumns == TemplateColumns \ {"scope_id"}

DbOK(d) ==
    /\ DOMAIN d = DbFields /\ d.rev \in Nat
    /\ Table(d.licenses, LicenseColumns) /\ Table(d.templates, TemplateColumns)

\* Rows are never deleted and revisions never go back.
Moves(d, e) ==
    /\ DbOK(e) /\ e.rev >= d.rev
    /\ DOMAIN d.licenses \subseteq DOMAIN e.licenses /\ DOMAIN d.templates \subseteq DOMAIN e.templates

Served(d, r) == Moves(d, r.db) /\ r.status \in {200, 201, 204, 400, 403, 404, 409}

LEMMA TableDomain ==
    ASSUME NEW rows, NEW columns, Table(rows, columns)
    PROVE  Len(rows) \in Nat /\ DOMAIN rows = 1..Len(rows)
  BY LenProperties DEF Table

LEMMA TableAppend ==
    ASSUME NEW rows, NEW columns, Table(rows, columns), NEW r, DOMAIN r = columns
    PROVE  /\ Table(Append(rows, r), columns)
           /\ DOMAIN rows \subseteq DOMAIN Append(rows, r)
  <1> DEFINE S == {rows[i] : i \in DOMAIN rows} \cup {r}
             new == Append(rows, r)
  <1>1. rows \in Seq(S)
    <2>1. rows \in Seq({rows[i] : i \in DOMAIN rows})
      BY DEF Table
    <2> QED
      BY <2>1, SeqMonotonic
  <1>2. Len(rows) \in Nat /\ DOMAIN rows = 1..Len(rows)
    BY TableDomain
  <1>3. r \in S
    OBVIOUS
  <1> HIDE DEF S, new
  <1>4. /\ new \in Seq(S) /\ Len(new) = Len(rows) + 1
        /\ \A i \in 1..Len(rows) : new[i] = rows[i]
        /\ new[Len(rows) + 1] = r
    BY <1>1, <1>3, AppendProperties DEF new
  <1>5. DOMAIN new = 1..Len(rows) + 1
    BY <1>4, LenProperties
  <1>6. \A i \in DOMAIN new : DOMAIN new[i] = columns
    <2> TAKE i \in DOMAIN new
    <2>1. CASE i \in 1..Len(rows)
      BY <2>1, <1>2, <1>4 DEF Table
    <2>2. CASE i = Len(rows) + 1
      BY <2>2, <1>4
    <2> QED
      BY <2>1, <2>2, <1>2, <1>5
  <1>7. new \in Seq({new[i] : i \in DOMAIN new})
    <2>1. \A i \in 1..Len(new) : new[i] \in {new[j] : j \in DOMAIN new}
      BY <1>2, <1>4, <1>5
    <2>2. new = [i \in 1..Len(new) |-> new[i]]
      BY <1>4, LenProperties
    <2>3. Len(new) \in Nat
      BY <1>2, <1>4
    <2> QED
      BY <2>1, <2>2, <2>3, IsASeq
  <1> QED
    BY <1>2, <1>5, <1>6, <1>7 DEF Table, new

LEMMA TablePut ==
    ASSUME NEW rows, NEW columns, Table(rows, columns), NEW id, NEW r,
           id \in DOMAIN rows => DOMAIN r = columns
    PROVE  /\ Table([rows EXCEPT ![id] = r], columns)
           /\ DOMAIN [rows EXCEPT ![id] = r] = DOMAIN rows
  <1> DEFINE new == [rows EXCEPT ![id] = r]
  <1>1. Len(rows) \in Nat /\ DOMAIN rows = 1..Len(rows)
    BY TableDomain
  <1>2. /\ DOMAIN new = 1..Len(rows) /\ new = [i \in 1..Len(rows) |-> new[i]]
        /\ \A i \in DOMAIN new : DOMAIN new[i] = columns
    BY <1>1 DEF Table
  <1> HIDE DEF new
  <1>3. new \in Seq({new[i] : i \in DOMAIN new})
    BY <1>1, <1>2, IsASeq
  <1> QED
    BY <1>1, <1>2, <1>3 DEF Table, new

-----------------------------------------------------------------------------
LEMMA StaysPut ==
    ASSUME NEW d, DbOK(d)
    PROVE  Moves(d, d)
  BY DEF Moves, DbOK

\* A write to a table that is neither the licenses nor the templates.
LEMMA WritesElsewhere ==
    ASSUME NEW d, DbOK(d), NEW e, DOMAIN e = DbFields, e.rev \in {d.rev, d.rev + 1},
           e.licenses = d.licenses, e.templates = d.templates
    PROVE  Moves(d, e)
  BY DEF Moves, DbOK

LEMMA WritesLicenses ==
    ASSUME NEW d, DbOK(d), NEW e, DOMAIN e = DbFields, e.rev \in {d.rev, d.rev + 1},
           Table(e.licenses, LicenseColumns), DOMAIN d.licenses \subseteq DOMAIN e.licenses,
           e.templates = d.templates
    PROVE  Moves(d, e)
  BY DEF Moves, DbOK

LEMMA WritesTemplates ==
    ASSUME NEW d, DbOK(d), NEW e, DOMAIN e = DbFields, e.rev \in {d.rev, d.rev + 1},
           Table(e.templates, TemplateColumns), DOMAIN d.templates \subseteq DOMAIN e.templates,
           e.licenses = d.licenses
    PROVE  Moves(d, e)
  BY DEF Moves, DbOK

LEMMA Answers ==
    ASSUME NEW d, DbOK(d), NEW e, Moves(d, e), NEW data, NEW code \in {400, 403, 404, 409}
    PROVE  Served(d, ok(e, data)) /\ Served(d, created(e, data)) /\ Served(d, noContent(e))
           /\ Served(d, err(d, code)) /\ Served(d, ok(d, data)) /\ Served(d, noContent(d))
  BY StaysPut DEF Served, ok, created, noContent, err

LEMMA PutLicenseMoves ==
    ASSUME NEW d, DbOK(d), NEW id, NEW row, id \in DOMAIN d.licenses => DOMAIN row = LicenseColumns,
           NEW event
    PROVE  Moves(d, putLicense(d, id, row, event))
  <1> DEFINE e == putLicense(d, id, row, event)
  <1>1. /\ DOMAIN e = DbFields /\ e.rev = d.rev + 1 /\ e.templates = d.templates
        /\ e.licenses = [d.licenses EXCEPT ![id] = row]
    BY DEF putLicense, audited, wrote, DbOK, DbFields
  <1> HIDE DEF e
  <1>2. /\ Table(e.licenses, LicenseColumns) /\ DOMAIN e.licenses = DOMAIN d.licenses
    BY <1>1, TablePut DEF DbOK
  <1>3. Moves(d, e)
    BY <1>1, <1>2, WritesLicenses
  <1> QED
    BY <1>3 DEF e

LEMMA PatchedColumns ==
    ASSUME NEW rules, NEW r, NEW b
    PROVE  DOMAIN patched(rules, r, b) = DOMAIN r
  BY DEF patched

LEMMA LicenseRow ==
    ASSUME NEW d, DbOK(d), NEW id \in DOMAIN d.licenses
    PROVE  DOMAIN d.licenses[id] = LicenseColumns
  BY DEF DbOK, Table

LEMMA TransitionServed ==
    ASSUME NEW d, DbOK(d), NEW q, NEW row, q.op \in {"suspend", "resume", "revoke"}
    PROVE  Served(d, lifecycleTransition(d, q, row))
  <1> DEFINE old == d.licenses[q.id]
             new == [suspend |-> suspended(old), resume |-> resumed(old), revoke |-> revoked(old)][q.op]
             event == [suspend |-> "license.suspended", resume |-> "license.resumed", revoke |-> "license.revoked"][q.op]
  <1>1. q.id \in DOMAIN d.licenses => DOMAIN new = LicenseColumns
    <2> HAVE q.id \in DOMAIN d.licenses
    <2>1. DOMAIN old = LicenseColumns
      BY LicenseRow
    <2>2. new \in {suspended(old), resumed(old), revoked(old)}
      OBVIOUS
    <2> QED
      BY <2>1, <2>2 DEF suspended, resumed, revoked
  <1> HIDE DEF new, event
  <1>2. Moves(d, putLicense(d, q.id, new, event))
    BY <1>1, PutLicenseMoves
  <1>3. lifecycleTransition(d, q, row) \in {err(d, 404), ok(d, row), ok(putLicense(d, q.id, new, event), new),
                                           err(d, 403), err(d, 409)}
    BY DEF lifecycleTransition, new, event
  <1> QED
    BY <1>2, <1>3, Answers, StaysPut

LEMMA RenewServed ==
    ASSUME NEW d, DbOK(d), NEW q, NEW row
    PROVE  Served(d, handleRenewLicense(d, q, row))
  <1> DEFINE g == stored("optional", q.body.grace_until)
             old == d.licenses[q.id]
             new == renewed(old, q.body.expires_at.v, IF g = Null THEN Undefined ELSE g)
  <1>1. q.id \in DOMAIN d.licenses => DOMAIN new = LicenseColumns
    BY LicenseRow DEF renewed
  <1>3. handleRenewLicense(d, q, row) \in {err(d, 400), err(d, 404), err(d, 403), err(d, 409),
                                          ok(putLicense(d, q.id, new, "license.renewed"), new)}
    BY DEF handleRenewLicense
  <1> HIDE DEF new
  <1>2. Moves(d, putLicense(d, q.id, new, "license.renewed"))
    BY <1>1, PutLicenseMoves
  <1> QED
    BY <1>2, <1>3, Answers, StaysPut

LEMMA DeleteLicenseServed ==
    ASSUME NEW d, DbOK(d), NEW q, NEW row
    PROVE  Served(d, handleDeleteLicense(d, q, row))
  <1> DEFINE new == revoked(d.licenses[q.id])
  <1>1. q.id \in DOMAIN d.licenses => DOMAIN new = LicenseColumns
    BY LicenseRow DEF revoked
  <1> HIDE DEF new
  <1>2. Moves(d, putLicense(d, q.id, new, "license.revoked"))
    BY <1>1, PutLicenseMoves
  <1>3. handleDeleteLicense(d, q, row) \in {err(d, 404), err(d, 409), noContent(d),
                                           noContent(putLicense(d, q.id, new, "license.revoked"))}
    BY DEF handleDeleteLicense, new
  <1> QED
    BY <1>2, <1>3, Answers, StaysPut

LEMMA UpdateLicenseServed ==
    ASSUME NEW d, DbOK(d), NEW q, NEW row
    PROVE  Served(d, handleUpdateLicense(d, q, row))
  <1> DEFINE new == patched(licensePatchRules, d.licenses[q.id], q.body)
             e == [wrote(d) EXCEPT !.licenses[q.id] = new]
  <1>1. q.id \in DOMAIN d.licenses => DOMAIN new = LicenseColumns
    BY LicenseRow, PatchedColumns
  <1> HIDE DEF new
  <1>2. /\ DOMAIN e = DbFields /\ e.rev = d.rev + 1 /\ e.templates = d.templates
        /\ e.licenses = [d.licenses EXCEPT ![q.id] = new]
    BY DEF wrote, DbOK, DbFields
  <1>3. handleUpdateLicense(d, q, row) \in {err(d, 404), err(d, 400), ok(d, row), ok(e, new)}
    BY DEF handleUpdateLicense, new
  <1> HIDE DEF e
  <1>4. Table(e.licenses, LicenseColumns) /\ DOMAIN e.licenses = DOMAIN d.licenses
    BY <1>1, <1>2, TablePut DEF DbOK
  <1>5. Moves(d, e)
    BY <1>2, <1>4, WritesLicenses
  <1> QED
    BY <1>3, <1>5, Answers, StaysPut

LEMMA CreateLicenseServed ==
    ASSUME NEW d, DbOK(d), NEW q
    PROVE  Served(d, handleCreateLicense(d, q))
  <1> DEFINE v == values(licenseRules, q.body)
             key == IF v.license_key = Null THEN newKey(d) ELSE v.license_key
             id == Len(d.licenses) + 1
             new == [status |-> "pending", max_usages |-> v.max_usages, license_key |-> key, activated |-> FALSE,
                     expires_at |-> v.expires_at, grace_until |-> v.grace_until,
                     scope_id |-> v.scope_id, template_id |-> v.template_id, meta |-> v.meta]
             e == audited([wrote(d) EXCEPT !.licenses = Append(@, new)], "license.created", id, id)
  <1>3. handleCreateLicense(d, q) \in {err(d, 400), err(d, 409), created(e, id)}
    BY DEF handleCreateLicense
  <1>1. DOMAIN new = LicenseColumns
    BY DEF LicenseColumns
  <1> HIDE DEF new, id
  <1>2. /\ DOMAIN e = DbFields /\ e.rev = d.rev + 1 /\ e.templates = d.templates
        /\ e.licenses = Append(d.licenses, new)
    BY DEF wrote, audited, DbOK, DbFields
  <1> HIDE DEF e
  <1>4. Table(e.licenses, LicenseColumns) /\ DOMAIN d.licenses \subseteq DOMAIN e.licenses
    BY <1>1, <1>2, TableAppend DEF DbOK
  <1>5. Moves(d, e)
    BY <1>2, <1>4, WritesLicenses
  <1> QED
    BY <1>3, <1>5, Answers, StaysPut

LEMMA RotateLicenseKeyServed ==
    ASSUME NEW d, DbOK(d), NEW q
    PROVE  Served(d, handleRotateLicenseKey(d, q))
  <1> DEFINE new == [d.licenses[q.id] EXCEPT !.license_key = newKey(d)]
             seats == [u \in DOMAIN d.usages |-> IF u \in seatsOf(d, q.id)
                                   THEN [d.usages[u] EXCEPT !.status = "revoked"] ELSE d.usages[u]]
             c == [d EXCEPT !.usages = seats]
             e == putLicense(c, q.id, new, "license.key_rotated")
  <1>3. handleRotateLicenseKey(d, q) \in {err(d, 404), err(d, 403), ok(e, new)}
    BY DEF handleRotateLicenseKey
  <1>1. q.id \in DOMAIN d.licenses => DOMAIN new = LicenseColumns
    BY LicenseRow
  <1> HIDE DEF new, seats
  <1>2. DOMAIN c = DbFields /\ c.rev = d.rev /\ c.licenses = d.licenses /\ c.templates = d.templates
    BY DEF DbOK, DbFields
  <1> HIDE DEF c
  <1>4. DbOK(c)
    BY <1>2 DEF DbOK
  <1>5. Moves(c, e)
    BY <1>1, <1>2, <1>4, PutLicenseMoves
  <1>6. Moves(d, e)
    BY <1>2, <1>5 DEF Moves
  <1> QED
    BY <1>3, <1>6, Answers, StaysPut

LEMMA ReadsServed ==
    ASSUME NEW d, DbOK(d), NEW q, NEW row
    PROVE  /\ Served(d, handleListLicenses(d, q)) /\ Served(d, handleListScopes(d, q))
           /\ Served(d, handleListTemplates(d, q)) /\ Served(d, handleListUsages(d, q))
           /\ Served(d, handleListKeys(d, q)) /\ Served(d, handleListAudit(d, q))
           /\ Served(d, handleGetLicenseStats(d, q))
           /\ Served(d, handleGetLicense(d, q, row)) /\ Served(d, handleGetScope(d, q, row))
           /\ Served(d, handleGetTemplate(d, q, row)) /\ Served(d, handleGetUsage(d, q, row))
  <1>1. ASSUME NEW rows, NEW ids PROVE Served(d, listed(d, q, rows, ids))
    BY Answers, StaysPut DEF listed
  <1>2. ASSUME NEW data PROVE Served(d, ok(d, data)) /\ Served(d, err(d, 404))
    BY Answers, StaysPut
  <1>3. Served(d, handleGetLicense(d, q, row))
    BY <1>2 DEF handleGetLicense
  <1>4. Served(d, handleGetLicenseStats(d, q))
    BY <1>2 DEF handleGetLicenseStats
  <1>5. /\ Served(d, handleListLicenses(d, q)) /\ Served(d, handleListScopes(d, q))
        /\ Served(d, handleListTemplates(d, q)) /\ Served(d, handleListUsages(d, q))
        /\ Served(d, handleListKeys(d, q)) /\ Served(d, handleListAudit(d, q))
    BY <1>1, Zenon DEF handleListLicenses, handleListScopes, handleListTemplates, handleListUsages, handleListKeys,
                handleListAudit
  <1> QED
    BY <1>3, <1>4, <1>5 DEF handleGetScope, handleGetTemplate, handleGetUsage

LEMMA DeletesServed ==
    ASSUME NEW d, DbOK(d), NEW q, NEW row
    PROVE  Served(d, handleDeleteScope(d, q, row)) /\ Served(d, handleDeleteTemplate(d, q, row))
  <1>1. Served(d, noContent(d)) /\ Served(d, err(d, 404)) /\ Served(d, err(d, 409))
    BY Answers, StaysPut
  <1>2. handleDeleteScope(d, q, row) \in {noContent(d), err(d, 404), err(d, 409)}
    BY DEF handleDeleteScope
  <1>3. handleDeleteTemplate(d, q, row) \in {noContent(d), err(d, 404), err(d, 409)}
    BY DEF handleDeleteTemplate
  <1> QED
    BY <1>1, <1>2, <1>3

LEMMA RevokeUsageServed ==
    ASSUME NEW d, DbOK(d), NEW q, NEW row
    PROVE  Served(d, handleRevokeUsage(d, q, row))
  <1> DEFINE e == audited([wrote(d) EXCEPT !.usages[q.id].status = "revoked"], "usage.revoked", q.id,
                       d.usages[q.id].license_id)
  <1>1. DOMAIN e = DbFields /\ e.rev = d.rev + 1 /\ e.licenses = d.licenses /\ e.templates = d.templates
    BY DEF audited, wrote, DbOK, DbFields
  <1>2. handleRevokeUsage(d, q, row) \in {err(d, 404), ok(d, d.usages[q.id]), ok(d, row), ok(e, row)}
    BY DEF handleRevokeUsage
  <1> HIDE DEF e
  <1>3. Moves(d, e)
    BY <1>1, WritesElsewhere
  <1> QED
    BY <1>2, <1>3, Answers, StaysPut

LEMMA ScopesServed ==
    ASSUME NEW d, DbOK(d), NEW q, NEW row
    PROVE  Served(d, handleCreateScope(d, q)) /\ Served(d, handleUpdateScope(d, q, row))
  <1> DEFINE id == Len(d.scopes) + 1
             e == audited([wrote(d) EXCEPT !.scopes = Append(@, [slug |-> q.body.slug.v, name |-> q.body.name.v,
                                                                 meta |-> stored("object", q.body.meta)])],
                          "scope.created", id, Null)
             new == patched(scopePatchRules, d.scopes[q.id], q.body)
             c == [wrote(d) EXCEPT !.scopes[q.id] = new]
  <1>1. handleCreateScope(d, q) \in {err(d, 400), err(d, 409), created(e, id)}
    BY DEF handleCreateScope
  <1>2. handleUpdateScope(d, q, row) \in {err(d, 404), err(d, 400), ok(d, row), ok(c, new)}
    BY DEF handleUpdateScope
  <1> HIDE DEF id, new
  <1>3. DOMAIN e = DbFields /\ e.rev = d.rev + 1 /\ e.licenses = d.licenses /\ e.templates = d.templates
    BY DEF audited, wrote, DbOK, DbFields
  <1>4. DOMAIN c = DbFields /\ c.rev = d.rev + 1 /\ c.licenses = d.licenses /\ c.templates = d.templates
    BY DEF wrote, DbOK, DbFields
  <1> HIDE DEF e, c
  <1>5. Moves(d, e) /\ Moves(d, c)
    BY <1>3, <1>4, WritesElsewhere
  <1> QED
    BY <1>1, <1>2, <1>5, Answers, StaysPut

LEMMA RuleColumns ==
    /\ DOMAIN templateRules = TemplateColumns
    /\ DOMAIN templatePatchRules = EditableColumns
    /\ DOMAIN goodTemplate = TemplateColumns
  <1>1. DOMAIN templateRules = TemplateColumns
    BY DEF templateRules, TemplateColumns
  <1>2. DOMAIN goodTemplate = TemplateColumns
    BY DEF goodTemplate, TemplateColumns
  <1>3. DOMAIN templatePatchRules = DOMAIN templateRules \ {"scope_id"}
    BY DEF templatePatchRules
  <1> QED
    BY <1>1, <1>2, <1>3 DEF EditableColumns

LEMMA TemplatesServed ==
    ASSUME NEW d, DbOK(d), NEW q, NEW row
    PROVE  Served(d, handleCreateTemplate(d, q)) /\ Served(d, handleUpdateTemplate(d, q, row))
  <1> DEFINE id == Len(d.templates) + 1
             v == values(templateRules, q.body)
             e == audited([wrote(d) EXCEPT !.templates = Append(@, v)], "template.created", id, Null)
             new == patched(templatePatchRules, d.templates[q.id], q.body)
             c == [wrote(d) EXCEPT !.templates[q.id] = new]
  <1>1. handleCreateTemplate(d, q) \in {err(d, 400), err(d, 409), created(e, id)}
    BY DEF handleCreateTemplate
  <1>2. handleUpdateTemplate(d, q, row) \in {err(d, 404), err(d, 400), err(d, 409), ok(d, row), ok(c, new)}
    BY DEF handleUpdateTemplate
  <1>3. DOMAIN v = TemplateColumns
    BY RuleColumns DEF values
  <1>4. q.id \in DOMAIN d.templates => DOMAIN new = TemplateColumns
    BY PatchedColumns DEF DbOK, Table
  <1> HIDE DEF id, new, v
  <1>5. /\ DOMAIN e = DbFields /\ e.rev = d.rev + 1 /\ e.licenses = d.licenses
        /\ e.templates = Append(d.templates, v)
    BY DEF audited, wrote, DbOK, DbFields
  <1>6. /\ DOMAIN c = DbFields /\ c.rev = d.rev + 1 /\ c.licenses = d.licenses
        /\ c.templates = [d.templates EXCEPT ![q.id] = new]
    BY DEF wrote, DbOK, DbFields
  <1> HIDE DEF e, c
  <1>7. /\ Table(e.templates, TemplateColumns) /\ DOMAIN d.templates \subseteq DOMAIN e.templates
    BY <1>3, <1>5, TableAppend DEF DbOK
  <1>8. /\ Table(c.templates, TemplateColumns) /\ DOMAIN d.templates \subseteq DOMAIN c.templates
    BY <1>4, <1>6, TablePut DEF DbOK
  <1>9. Moves(d, e) /\ Moves(d, c)
    BY <1>5, <1>6, <1>7, <1>8, WritesTemplates
  <1> QED
    BY <1>1, <1>2, <1>9, Answers, StaysPut

LEMMA KeysServed ==
    ASSUME NEW d, DbOK(d), NEW q, NEW row, NEW S
    PROVE  Served(d, handleCreateKey(d, q, S)) /\ Served(d, handleRotateKey(d, q, row, S))
  <1> DEFINE id == Len(d.keys) + 1
             old == Max(activeKeys(d, "signing"))
             issued(event) == audited([wrote(d) EXCEPT !.keys = Append(@, [role |-> q.body.role.v, state |-> "active"])],
                                      event, id, Null)
             keys == Append([d.keys EXCEPT ![old].state = "retiring"], [role |-> "signing", state |-> "active"])
             c == audited([wrote(d) EXCEPT !.keys = keys], "key.rotated", old, Null)
             both == [retiring |-> old, active |-> id]
  <1>1. handleCreateKey(d, q, S) \in {err(d, 400), err(d, 409), created(issued("key.root.issued"), id),
                                      created(issued("key.signing.issued"), id)}
    BY DEF handleCreateKey
  <1>2. handleRotateKey(d, q, row, S) \in {err(d, 404), err(d, 400), err(d, 409), ok(c, both)}
    <2>1. c = audited([wrote(d) EXCEPT !.keys = Append([@ EXCEPT ![old].state = "retiring"],
                               [role |-> "signing", state |-> "active"])], "key.rotated", old, Null)
      BY DEF wrote, DbOK, DbFields
    <2> HIDE DEF c
    <2> QED
      BY <2>1 DEF handleRotateKey
  <1> HIDE DEF id, old, keys, both
  <1>3. \A event : LET e == issued(event) IN
          DOMAIN e = DbFields /\ e.rev = d.rev + 1 /\ e.licenses = d.licenses /\ e.templates = d.templates
    BY DEF audited, wrote, DbOK, DbFields
  <1>4. DOMAIN c = DbFields /\ c.rev = d.rev + 1 /\ c.licenses = d.licenses /\ c.templates = d.templates
    BY DEF audited, wrote, DbOK, DbFields
  <1> HIDE DEF issued, c
  <1>5. \A event : Moves(d, issued(event))
    BY <1>3, WritesElsewhere
  <1>6. Moves(d, c)
    BY <1>4, WritesElsewhere
  <1>7. Served(d, handleCreateKey(d, q, S))
    BY <1>1, <1>5, Answers, StaysPut
  <1>8. Served(d, handleRotateKey(d, q, row, S))
    BY <1>2, <1>6, Answers, StaysPut
  <1> QED
    BY <1>7, <1>8

-----------------------------------------------------------------------------
ListRoutes == {"listLicenses", "listScopes", "listTemplates", "listUsages", "listKeys", "listAudit", "stats"}
AdminRoutes ==
    ListRoutes \cup
    {"getLicense", "getScope", "getTemplate", "getUsage", "createLicense", "createScope", "createTemplate",
     "createKey", "updateLicense", "updateScope", "updateTemplate", "deleteLicense", "deleteScope",
     "deleteTemplate", "transition", "renew", "rotateLicenseKey", "revokeUsage", "rotateKey"}

\* What a request holds that the pages and the direct callers send: a PATCH
\* of a license or a template names every field of its form.
Asks(q) ==
    /\ q.route \in AdminRoutes
    /\ q.route = "transition" => q.op \in {"suspend", "resume", "revoke"}
    /\ q.route = "updateLicense" => DOMAIN q.body = DOMAIN goodLicense
    /\ q.route = "updateTemplate" => DOMAIN q.body \in {TemplateColumns, EditableColumns}

LEMMA ServeCases ==
    ASSUME NEW d, NEW q, NEW row
    PROVE  /\ q.route = "listLicenses" => serve(d, q, row) = handleListLicenses(d, q)
           /\ q.route = "listScopes" => serve(d, q, row) = handleListScopes(d, q)
           /\ q.route = "listTemplates" => serve(d, q, row) = handleListTemplates(d, q)
           /\ q.route = "listUsages" => serve(d, q, row) = handleListUsages(d, q)
           /\ q.route = "listKeys" => serve(d, q, row) = handleListKeys(d, q)
           /\ q.route = "listAudit" => serve(d, q, row) = handleListAudit(d, q)
           /\ q.route = "stats" => serve(d, q, row) = handleGetLicenseStats(d, q)
           /\ q.route = "getLicense" => serve(d, q, row) = handleGetLicense(d, q, row)
           /\ q.route = "getScope" => serve(d, q, row) = handleGetScope(d, q, row)
           /\ q.route = "getTemplate" => serve(d, q, row) = handleGetTemplate(d, q, row)
           /\ q.route = "getUsage" => serve(d, q, row) = handleGetUsage(d, q, row)
           /\ q.route = "createLicense" => serve(d, q, row) = handleCreateLicense(d, q)
           /\ q.route = "createScope" => serve(d, q, row) = handleCreateScope(d, q)
           /\ q.route = "createTemplate" => serve(d, q, row) = handleCreateTemplate(d, q)
           /\ q.route = "createKey" => serve(d, q, row) = handleCreateKey(d, q, secrets)
           /\ q.route = "updateLicense" => serve(d, q, row) = handleUpdateLicense(d, q, row)
           /\ q.route = "updateScope" => serve(d, q, row) = handleUpdateScope(d, q, row)
           /\ q.route = "updateTemplate" => serve(d, q, row) = handleUpdateTemplate(d, q, row)
           /\ q.route = "deleteLicense" => serve(d, q, row) = handleDeleteLicense(d, q, row)
           /\ q.route = "deleteScope" => serve(d, q, row) = handleDeleteScope(d, q, row)
           /\ q.route = "deleteTemplate" => serve(d, q, row) = handleDeleteTemplate(d, q, row)
           /\ q.route = "transition" => serve(d, q, row) = lifecycleTransition(d, q, row)
           /\ q.route = "renew" => serve(d, q, row) = handleRenewLicense(d, q, row)
           /\ q.route = "rotateLicenseKey" => serve(d, q, row) = handleRotateLicenseKey(d, q)
           /\ q.route = "revokeUsage" => serve(d, q, row) = handleRevokeUsage(d, q, row)
           /\ q.route = "rotateKey" => serve(d, q, row) = handleRotateKey(d, q, row, secrets)
  BY DEF serve

\* Every route answers with a status of its own and leaves a database whose
\* rows are all still there.
LEMMA ServeServed ==
    ASSUME NEW d, DbOK(d), NEW q, Asks(q), NEW row
    PROVE  Served(d, serve(d, q, row))
  BY ServeCases, ReadsServed, DeletesServed, RevokeUsageServed, ScopesServed, TemplatesServed, KeysServed,
     TransitionServed, RenewServed, DeleteLicenseServed, UpdateLicenseServed, CreateLicenseServed,
     RotateLicenseKeyServed
     DEF Asks, AdminRoutes, ListRoutes

\* What PatchExact says of one column.
Named(body, f) == f \in DOMAIN body \ {"scope_id", "template_id", "license_key"} /\ body[f].t # "undefined"
ColumnExact(body, f, old, new) ==
    CASE ~Named(body, f) -> new = old
      [] Named(body, f) /\ body[f].t \in {"null", "empty"} -> new = IF f \in {"meta", "entitlements"} THEN "{}" ELSE Null
      [] OTHER -> new = body[f].v

Rules == {"text", "text?", "optional", "positive", "natural", "natural?", "object"}

\* A value a rule lets through is stored as it is, or cleared.
LEMMA StoredExact ==
    ASSUME NEW rule \in Rules, NEW j, accepts(rule, j), j.t # "undefined"
    PROVE  /\ j.t \in {"null", "empty"} => stored(rule, j) = IF rule = "object" THEN "{}" ELSE Null
           /\ j.t \notin {"null", "empty"} => stored(rule, j) = j.v
  <1>1. j.t \in {"null", "empty", "string", "number", "object"}
    BY DEF accepts, Rules, requireString, optionalString, requireInt, optionalObject, nullableInt
  <1> QED
    BY <1>1 DEF stored

LEMMA PatchedExact ==
    ASSUME NEW rules, NEW body, NEW r, validPatch(rules, body), NEW f \in DOMAIN r,
           f \in DOMAIN rules => rules[f] \in Rules /\ (rules[f] = "object" <=> f \in {"meta", "entitlements"}),
           Named(body, f) <=> f \in present(rules, body)
    PROVE  ColumnExact(body, f, r[f], patched(rules, r, body)[f])
  <1> DEFINE new == patched(rules, r, body)[f]
  <1>1. new = IF f \in present(rules, body) THEN stored(rules[f], body[f]) ELSE r[f]
    BY DEF patched
  <1> HIDE DEF new
  <1>2. CASE f \notin present(rules, body)
    BY <1>1, <1>2 DEF ColumnExact, new
  <1>3. CASE f \in present(rules, body)
    <2>1. f \in DOMAIN rules /\ body[f].t # "undefined" /\ accepts(rules[f], body[f])
      BY <1>3 DEF present, validPatch
    <2> DEFINE j == body[f]
               rule == rules[f]
    <2>2. rule \in Rules /\ (rule = "object" <=> f \in {"meta", "entitlements"})
      BY <2>1
    <2>3. j.t # "undefined" /\ accepts(rule, j)
      BY <2>1
    <2> HIDE DEF j, rule
    <2>4. /\ j.t \in {"null", "empty"} => stored(rule, j) = IF rule = "object" THEN "{}" ELSE Null
          /\ j.t \notin {"null", "empty"} => stored(rule, j) = j.v
      BY <2>2, <2>3, StoredExact
    <2>5. new = stored(rule, j)
      BY <1>1, <1>3 DEF rule, j
    <2> QED
      BY <1>3, <2>2, <2>4, <2>5 DEF ColumnExact, new, j
  <1> QED
    BY <1>2, <1>3

LEMMA LicensePatch ==
    ASSUME NEW d, DbOK(d), NEW q, NEW row, q.id \in DOMAIN d.licenses, DOMAIN q.body = DOMAIN goodLicense,
           handleUpdateLicense(d, q, row).status = 200,
           NEW f \in DOMAIN d.licenses[q.id]
    PROVE  ColumnExact(q.body, f, d.licenses[q.id][f], handleUpdateLicense(d, q, row).db.licenses[q.id][f])
  <1> DEFINE r == handleUpdateLicense(d, q, row)
             old == d.licenses[q.id]
             new == patched(licensePatchRules, old, q.body)
  <1>1. /\ validPatch(licensePatchRules, q.body)
        /\ \/ present(licensePatchRules, q.body) = {} /\ r = ok(d, row)
           \/ r = ok([wrote(d) EXCEPT !.licenses[q.id] = new], new)
    BY DEF handleUpdateLicense, err, ok
  <1>2. DOMAIN old = LicenseColumns
    BY LicenseRow
  <1>3. Named(q.body, f) <=> f \in present(licensePatchRules, q.body)
    BY <1>2 DEF Named, present, licensePatchRules, goodLicense, LicenseColumns
  <1>4. f \in DOMAIN licensePatchRules =>
          licensePatchRules[f] \in Rules /\ (licensePatchRules[f] = "object" <=> f \in {"meta", "entitlements"})
    BY DEF licensePatchRules, Rules
  <1>5. ColumnExact(q.body, f, old[f], new[f])
    BY <1>1, <1>3, <1>4, PatchedExact
  <1> HIDE DEF new, r
  <1>6. CASE present(licensePatchRules, q.body) = {} /\ r = ok(d, row)
    <2>1. ~Named(q.body, f) /\ r.db = d
      BY <1>3, <1>6 DEF ok
    <2> QED
      BY <2>1 DEF ColumnExact, r
  <1>7. CASE r = ok([wrote(d) EXCEPT !.licenses[q.id] = new], new)
    <2>1. r.db.licenses = [d.licenses EXCEPT ![q.id] = new]
      BY <1>7 DEF ok, wrote, DbOK, DbFields
    <2>2. r.db.licenses[q.id] = new
      BY <2>1
    <2> QED
      BY <1>5, <2>2 DEF r
  <1> QED
    BY <1>1, <1>6, <1>7

LEMMA TemplatePatchRules ==
    /\ \A f \in EditableColumns :
          /\ templatePatchRules[f] \in Rules
          /\ templatePatchRules[f] = "object" <=> f \in {"meta", "entitlements"}
  <1>1. \A f \in TemplateColumns : /\ templateRules[f] \in Rules
                                   /\ templateRules[f] = "object" <=> f \in {"meta", "entitlements"}
    BY DEF templateRules, TemplateColumns, Rules
  <1>2. \A f \in EditableColumns : templatePatchRules[f] = IF f = "parent_id" THEN "text?" ELSE templateRules[f]
    BY RuleColumns DEF templatePatchRules, EditableColumns
  <1> QED
    BY <1>1, <1>2 DEF EditableColumns, Rules

LEMMA TemplatePatch ==
    ASSUME NEW d, DbOK(d), NEW q, NEW row, q.id \in DOMAIN d.templates,
           DOMAIN q.body \in {TemplateColumns, EditableColumns},
           handleUpdateTemplate(d, q, row).status = 200,
           NEW f \in DOMAIN d.templates[q.id]
    PROVE  ColumnExact(q.body, f, d.templates[q.id][f], handleUpdateTemplate(d, q, row).db.templates[q.id][f])
  <1> DEFINE r == handleUpdateTemplate(d, q, row)
             old == d.templates[q.id]
             new == patched(templatePatchRules, old, q.body)
  <1>1. /\ validPatch(templatePatchRules, q.body)
        /\ \/ present(templatePatchRules, q.body) = {} /\ r = ok(d, row)
           \/ r = ok([wrote(d) EXCEPT !.templates[q.id] = new], new)
    BY DEF handleUpdateTemplate, err, ok
  <1>2. DOMAIN old = TemplateColumns
    BY DEF DbOK, Table
  <1>3. Named(q.body, f) <=> f \in present(templatePatchRules, q.body)
    <2>1. present(templatePatchRules, q.body) = {g \in EditableColumns : q.body[g].t # "undefined"}
      BY RuleColumns DEF present
    <2>2. f \in TemplateColumns
      BY <1>2
    <2> HIDE DEF new, r, old
    <2> QED
      BY <2>1, <2>2 DEF Named, TemplateColumns, EditableColumns
  <1>4. f \in DOMAIN templatePatchRules =>
          templatePatchRules[f] \in Rules /\ (templatePatchRules[f] = "object" <=> f \in {"meta", "entitlements"})
    BY TemplatePatchRules, RuleColumns
  <1>5. ColumnExact(q.body, f, old[f], new[f])
    BY <1>1, <1>3, <1>4, PatchedExact
  <1> HIDE DEF new, r
  <1>6. CASE present(templatePatchRules, q.body) = {} /\ r = ok(d, row)
    <2>1. ~Named(q.body, f) /\ r.db = d
      BY <1>3, <1>6 DEF ok
    <2> QED
      BY <2>1 DEF ColumnExact, r
  <1>7. CASE r = ok([wrote(d) EXCEPT !.templates[q.id] = new], new)
    <2>1. r.db.templates = [d.templates EXCEPT ![q.id] = new]
      BY <1>7 DEF ok, wrote, DbOK, DbFields
    <2>2. r.db.templates[q.id] = new
      BY <2>1
    <2> QED
      BY <1>5, <2>2 DEF r
  <1> QED
    BY <1>1, <1>6, <1>7

-----------------------------------------------------------------------------
(* Requests in flight and tabs, on every page.                               *)

AuthUses == {"signIn", "signOut", "enter", "forget"}

\* Which requests a page sends, and in which lane.
Placed(f, s, use) ==
    \/ use = "direct" /\ f \in {"api", "list", "pages"} /\ s[1] = "api"
    \/ /\ s[1] # "api"
       /\ \/ use = "rows" /\ s[2] = "load" /\ (f = "session" \/ (f = "list" /\ s[1] = Operator))
          \/ use = "bulk" /\ f = "list" /\ s[1] = Operator /\ s[2] \in {"a", "b", "more"}
          \/ use = "act" /\ f = "pages" /\ s[2] = "a"
          \/ use = "reload" /\ f = "pages" /\ s[2] \in {"load", "more", "b"}
          \/ use = "save" /\ f = "form" /\ s[2] = "a"
          \/ use = "template" /\ f = "form" /\ s[2] = "load"
          \/ use = "all" /\ f = "form" /\ s[2] = "more"
          \/ use \in AuthUses /\ f = "session" /\ s[2] = "a"

\* What a page of the focus asks for.
AsksIn(f, q) == Asks(q) /\ (f = "list" => q.route \in {"listLicenses", "transition", "renew"})

\* The row an update was read from is still there.
Held(d, q) ==
    /\ q.route = "updateLicense" => q.id \in DOMAIN d.licenses
    /\ q.route = "updateTemplate" => q.id \in DOMAIN d.templates

InFlight(f, A, d, s, r) ==
    /\ DOMAIN r = RequestFields
    /\ r.at \in {"free", "sent", "loaded", "answered"} /\ (r.at = "free" <=> r.use = "none")
    /\ r.rev \in Nat /\ r.rev <= d.rev
    /\ r.use # "none" => Placed(f, s, r.use)
    /\ r.use \notin AuthUses \cup {"none"} => AsksIn(f, r.q)
    /\ r.use \in AuthUses => r.q.route \in AuthRoutes /\ r.at # "loaded"
    /\ f # "session" => r.status # 401 /\ (r.use # "none" /\ s[1] # "api" => r.cookie \in A)
    /\ r.at = "loaded" /\ r.row # Null => Held(d, r.q)

TabFields ==
    {"page", "id", "items", "next", "cursor", "stack", "filter", "history", "wentBack", "mounted", "picked", "selected",
     "ticked", "stale", "dialog", "targets", "done", "failed", "committed", "reported", "data", "seen", "own", "reload",
     "leave", "deleted", "form", "typed", "saving", "loggedIn"}
Pages == {"license", "keys", "scope", "usages", "template", "scopes", "templates"}

\* A detail page has its data, the revision of each part it shows and the
\* revision of the operator's last change of it.
DetailTab(tb) ==
    /\ DOMAIN tb.data = DOMAIN pageQueries(tb)
    /\ DOMAIN tb.seen = DOMAIN tb.data /\ DOMAIN tb.own = DOMAIN tb.data

\* The form holds what was typed since the save that is under way.
FormKept(tb) == tb.saving => \A c \in DOMAIN tb.typed : tb.form[c] = tb.typed[c]

TabOK(f, tb) ==
    /\ DOMAIN tb = TabFields
    /\ f \in {"pages", "form"} => DetailTab(tb)
    /\ f = "pages" => /\ tb.page \in Pages /\ tb.leave \in Pages \cup {"stay"}
                      /\ tb.leave = "stay" => tb.reload \subseteq DOMAIN tb.data
    /\ f = "form" => tb.page = "template" /\ DOMAIN tb.form = EditableColumns
    /\ f \notin {"pages", "form"} => DOMAIN tb.data = {}
    /\ f # "pages" => \A n \in DOMAIN tb.data : tb.seen[n] = 0 /\ tb.own[n] = 0
    /\ f # "list" => tb.selected = <<>> /\ tb.stack = <<>> /\ tb.cursor = Null
    /\ f # "form" => ~tb.saving
    /\ FormKept(tb)

Wired(w) == DOMAIN w = Slots /\ \A s \in Slots : InFlight(focus, accepted, db, s, w[s])

ConsoleInv ==
    /\ focus \in {"api", "list", "pages", "form", "session"}
    /\ DbOK(db)
    /\ focus # "session" => session \in accepted
    /\ Wired(wire)
    /\ DOMAIN tab = Tabs /\ \A t \in Tabs : TabOK(focus, tab[t])

-----------------------------------------------------------------------------
LEMMA OperatorTab == Operator \in Tabs /\ Operator # "api"
  BY ConsoleAssumption DEF Operator

LEMMA SlotShape ==
    /\ \A s \in Slots : s = <<s[1], s[2]>> /\ (s[1] # "api" => s[1] \in Tabs /\ s[2] \in Lanes)
    /\ \A t \in Tabs : \A l \in Lanes : <<t, l>> \in Slots
  BY DEF Slots, Lanes

LEMMA FreeInFlight ==
    ASSUME ConsoleInv, NEW s
    PROVE  InFlight(focus, accepted, db, s, NoRequest)
  <1> DEFINE r == NoRequest
  <1>1. DOMAIN r = RequestFields /\ r.at = "free" /\ r.use = "none" /\ r.rev = 0 /\ r.status = 0
    BY DEF NoRequest, RequestFields
  <1> HIDE DEF r
  <1>2. InFlight(focus, accepted, db, s, r)
    BY <1>1 DEF InFlight, AuthUses, ConsoleInv, DbOK
  <1> QED
    BY <1>2 DEF r

LEMMA AskedInFlight ==
    ASSUME ConsoleInv, NEW s, NEW q, NEW use, use # "none", use \notin AuthUses, Placed(focus, s, use), AsksIn(focus, q)
    PROVE  InFlight(focus, accepted, db, s, request(q, use))
  <1> DEFINE r == request(q, use)
  <1>1. /\ DOMAIN r = RequestFields /\ r.at = "sent" /\ r.use = use /\ r.rev = 0 /\ r.status = 0 /\ r.q = q
        /\ r.cookie = session
    BY DEF NoRequest, RequestFields, request
  <1> HIDE DEF r
  <1>2. InFlight(focus, accepted, db, s, r)
    BY <1>1 DEF InFlight, ConsoleInv, DbOK
  <1> QED
    BY <1>2 DEF r

LEMMA WiredPut ==
    ASSUME ConsoleInv, NEW w, Wired(w), NEW s, NEW r, s \in Slots => InFlight(focus, accepted, db, s, r)
    PROVE  Wired([w EXCEPT ![s] = r])
  BY DEF Wired

LEMMA WiredAsk ==
    ASSUME ConsoleInv, NEW w, Wired(w), NEW s, NEW q, NEW use, use # "none", use \notin AuthUses,
           Placed(focus, s, use), AsksIn(focus, q)
    PROVE  Wired([w EXCEPT ![s] = request(q, use)])
  BY WiredPut, AskedInFlight

LEMMA WiredQuiet ==
    ASSUME ConsoleInv, NEW s
    PROVE  Wired(quiet(s))
  BY WiredPut, FreeInFlight DEF quiet, ConsoleInv

\* The reads of a page: one lane each, and none of them a write.
LEMMA PageReads ==
    ASSUME NEW tb
    PROVE  /\ \A n \in DOMAIN pageQueries(tb) : Asks(pageQueries(tb)[n]) /\ laneOf(n) \in {"load", "more", "b"}
           /\ \A m, n \in DOMAIN pageQueries(tb) : laneOf(m) = laneOf(n) => m = n
  <1>2. ASSUME NEW r \in {"getLicense", "getScope", "getTemplate"}, NEW id PROVE Asks(get(r, id))
    <2>1. get(r, id).route = r
      BY DEF get
    <2> QED
      BY <2>1 DEF Asks, AdminRoutes
  <1>3. ASSUME NEW r \in ListRoutes, NEW l, NEW c, NEW g PROVE Asks(list(r, l, c, g))
    <2>1. list(r, l, c, g).route = r
      BY DEF list
    <2> QED
      BY <2>1 DEF Asks, AdminRoutes, ListRoutes
  <1>4. ASSUME NEW r \in ListRoutes PROVE Asks(firstPage(r))
    BY <1>3 DEF firstPage
  <1> DEFINE Fine(Q) == /\ \A n \in DOMAIN Q : Asks(Q[n]) /\ laneOf(n) \in {"load", "more", "b"}
                        /\ \A m, n \in DOMAIN Q : laneOf(m) = laneOf(n) => m = n
  <1>5. Fine(licenseReads(tb.id))
    <2> DEFINE u == list("listUsages", pageOf(50), Null, [license_id |-> tb.id])
               a == list("listAudit", pageOf(50), Null, [license_id |-> tb.id])
               g == get("getLicense", tb.id)
    <2>1. Asks(u) /\ Asks(g) /\ Asks(a)
      BY <1>2, <1>3 DEF ListRoutes
    <2> HIDE DEF u, g, a
    <2>2. licenseReads(tb.id) = [license |-> g, usages |-> u, audit |-> a]
      BY DEF licenseReads, u, g, a
    <2> QED
      BY <2>1, <2>2 DEF laneOf
  <1>6. Fine(keysReads) /\ Fine(usagesReads) /\ Fine(scopesReads) /\ Fine(templatesReads)
    <2>1. /\ Asks(firstPage("listKeys")) /\ Asks(firstPage("listUsages")) /\ Asks(firstPage("listScopes"))
          /\ Asks(firstPage("listTemplates"))
      BY <1>4 DEF ListRoutes
    <2> QED
      BY <2>1 DEF keysReads, usagesReads, scopesReads, templatesReads, laneOf
  <1>7. Fine(scopeReads(tb.id))
    <2> DEFINE u == firstPage("listKeys")
               g == get("getScope", tb.id)
    <2>1. Asks(u) /\ Asks(g)
      BY <1>2, <1>4 DEF ListRoutes
    <2> HIDE DEF u, g
    <2>2. scopeReads(tb.id) = [scope |-> g, keys |-> u]
      BY DEF scopeReads, u, g
    <2> QED
      BY <2>1, <2>2 DEF laneOf
  <1>8. Fine(templateReads(tb.id))
    <2> DEFINE u == list("listTemplates", pageOf(200), Null, NoFilter)
               g == get("getTemplate", tb.id)
    <2>1. Asks(u) /\ Asks(g)
      BY <1>2, <1>3 DEF ListRoutes
    <2> HIDE DEF u, g
    <2>2. templateReads(tb.id) = [template |-> g, all |-> u]
      BY DEF templateReads, u, g
    <2> QED
      BY <2>1, <2>2 DEF laneOf
  <1>9. Fine(NoFilter)
    BY DEF NoFilter
  <1>10. pageQueries(tb) \in {licenseReads(tb.id), keysReads, scopeReads(tb.id), usagesReads, templateReads(tb.id),
                              scopesReads, templatesReads, NoFilter}
    BY DEF pageQueries
  <1>11. Fine(pageQueries(tb))
    <2> HIDE DEF Fine
    <2> QED
      BY <1>5, <1>6, <1>7, <1>8, <1>9, <1>10
  <1> QED
    BY <1>11

LEMMA SameQueries ==
    ASSUME NEW tb, NEW ub, ub.page = tb.page, ub.id = tb.id
    PROVE  pageQueries(ub) = pageQueries(tb)
  BY DEF pageQueries

LEMMA WiredReading ==
    ASSUME ConsoleInv, focus = "pages", NEW w, Wired(w), NEW t \in Tabs, NEW tb,
           NEW names, names \subseteq DOMAIN pageQueries(tb)
    PROVE  Wired(reading(w, t, tb, names))
  <1> DEFINE pick(s) == CHOOSE n \in names : s[2] = laneOf(n)
             asking(s) == s[1] = t /\ \E n \in names : s[2] = laneOf(n)
             v == reading(w, t, tb, names)
  <1>1. v = [s \in Slots |-> IF asking(s) THEN request(pageQueries(tb)[pick(s)], "reload") ELSE w[s]]
    BY DEF reading
  <1>2. ASSUME NEW s \in Slots, asking(s)
        PROVE  InFlight(focus, accepted, db, s, request(pageQueries(tb)[pick(s)], "reload"))
    <2>1. pick(s) \in names /\ s[2] = laneOf(pick(s))
      BY <1>2
    <2>2. s[1] = t
      BY <1>2
    <2> HIDE DEF pick, asking
    <2>3. Asks(pageQueries(tb)[pick(s)]) /\ s[2] \in {"load", "more", "b"}
      BY <2>1, PageReads
    <2>4. Placed(focus, s, "reload") /\ AsksIn(focus, pageQueries(tb)[pick(s)])
      BY <2>2, <2>3, ConsoleAssumption DEF Placed, AsksIn
    <2> QED
      BY <2>4, AskedInFlight DEF AuthUses
  <1> HIDE DEF v, pick, asking
  <1>3. Wired(v)
    BY <1>1, <1>2 DEF Wired
  <1> QED
    BY <1>3 DEF v

LEMMA GetAsks ==
    ASSUME NEW r \in AdminRoutes \ {"transition", "updateLicense", "updateTemplate"}, NEW id
    PROVE  Asks(get(r, id))
  <1>1. get(r, id).route = r
    BY DEF get
  <1> QED
    BY <1>1 DEF Asks

LEMMA PostAsks ==
    ASSUME NEW r \in AdminRoutes \ {"transition", "updateLicense", "updateTemplate"}, NEW id, NEW b
    PROVE  Asks(post(r, id, b))
  <1>1. post(r, id, b).route = r
    BY DEF post
  <1> QED
    BY <1>1 DEF Asks

LEMMA TransitionAsks ==
    ASSUME NEW op \in {"suspend", "resume", "revoke"}, NEW id
    PROVE  Asks(transition(op, id)) /\ transition(op, id).route = "transition"
  BY DEF Asks, transition, AdminRoutes

LEMMA ListAsks ==
    ASSUME NEW r \in ListRoutes, NEW l, NEW c, NEW g
    PROVE  Asks(list(r, l, c, g)) /\ list(r, l, c, g).route = r
  BY DEF Asks, list, AdminRoutes, ListRoutes

LEMMA RenewalAsks ==
    ASSUME NEW id
    PROVE  Asks(renewal(id)) /\ renewal(id).route = "renew"
  BY PostAsks DEF renewal, post, AdminRoutes

LEMMA OneOffColumns ==
    ASSUME NEW b, NEW c \in oneOff(b)
    PROVE  DOMAIN c = DOMAIN b
  BY DEF oneOff

LEMMA UpdateAsks ==
    ASSUME NEW id, NEW b
    PROVE  /\ DOMAIN b = DOMAIN goodLicense => Asks(post("updateLicense", id, b))
           /\ DOMAIN b \in {TemplateColumns, EditableColumns} => Asks(post("updateTemplate", id, b))
  <1> DEFINE q(r) == post(r, id, b)
  <1>1. \A r : q(r).route = r /\ q(r).body = b
    BY DEF post
  <1> HIDE DEF q
  <1>2. DOMAIN b = DOMAIN goodLicense => Asks(q("updateLicense"))
    BY <1>1 DEF Asks, AdminRoutes
  <1>3. DOMAIN b \in {TemplateColumns, EditableColumns} => Asks(q("updateTemplate"))
    BY <1>1 DEF Asks, AdminRoutes
  <1> QED
    BY <1>2, <1>3 DEF q

LEMMA DirectAsk ==
    ASSUME NEW q \in DirectRequests
    PROVE  Asks(q)
  <1>1. \A i : \A b \in oneOff(goodLicense) : Asks(post("createLicense", i, b)) /\ Asks(post("updateLicense", i, b))
    <2> TAKE i
    <2> TAKE b \in oneOff(goodLicense)
    <2>1. DOMAIN b = DOMAIN goodLicense
      BY OneOffColumns
    <2>2. Asks(post("createLicense", i, b))
      BY PostAsks DEF AdminRoutes
    <2>3. Asks(post("updateLicense", i, b))
      BY <2>1, UpdateAsks
    <2> QED
      BY <2>2, <2>3
  <1> DEFINE child == [goodTemplate EXCEPT !.parent_id = string(1)]
             own == [goodTemplate EXCEPT !.parent_id = string(2)]
  <1>2. \A i : \A b \in oneOff(child) \cup {own} : Asks(post("updateTemplate", i, b))
    <2>1. DOMAIN child = TemplateColumns /\ DOMAIN own = TemplateColumns
      BY RuleColumns
    <2> HIDE DEF child, own
    <2> TAKE i
    <2> TAKE b \in oneOff(child) \cup {own}
    <2>2. DOMAIN b = TemplateColumns
      BY <2>1, OneOffColumns
    <2> QED
      BY <2>2, UpdateAsks
  <1>3. \A i, b : /\ Asks(post("createTemplate", i, b)) /\ Asks(post("createScope", i, b))
                  /\ Asks(post("updateScope", i, b)) /\ Asks(post("createKey", i, b))
    BY PostAsks DEF AdminRoutes
  <1> DEFINE early == [renewal(1) EXCEPT !.body.expires_at = plain("null")]
  <1>4. Asks(early)
    <2>1. early.route = "renew"
      BY DEF renewal, post
    <2> HIDE DEF early
    <2> QED
      BY <2>1 DEF Asks, AdminRoutes
  <1> DEFINE getRoutes == {"getLicense", "getScope", "getTemplate", "getUsage", "deleteLicense", "deleteScope",
                           "deleteTemplate", "rotateLicenseKey", "revokeUsage", "rotateKey"}
  <1>5. \A r \in getRoutes : \A i : Asks(get(r, i))
    BY GetAsks DEF AdminRoutes
  <1>6. \A r \in ListRoutes : \A l, c, g : Asks(list(r, l, c, g))
    BY ListAsks
  <1> DEFINE S1 == {post("createLicense", 0, b) : b \in oneOff(goodLicense)}
             S2 == {post("updateLicense", i, b) : i \in Ids, b \in oneOff(goodLicense)}
             S3 == {post("createTemplate", 0, b) : b \in oneOff(goodTemplate)}
             S4 == {post("updateTemplate", i, b) : i \in {2, 9}, b \in oneOff(child) \cup {own}}
             S5 == {post("createScope", 0, b) : b \in oneOff(goodScope) \cup {[goodScope EXCEPT !.slug = string("bad")]}}
             S6 == {post("updateScope", i, b) : i \in {1, 9}, b \in oneOff(goodScope)}
             S7 == {post("createKey", 0, b) : b \in oneOff(goodKey) \cup {[goodKey EXCEPT !.role = string("root")]}}
             S8 == {renewal(i) : i \in Ids} \cup {early}
             S9 == {transition(op, i) : op \in {"suspend", "resume", "revoke"}, i \in Ids \cup {9}}
             S10 == {get(r, i) : r \in getRoutes, i \in Ids \cup {3, 9}}
             S11 == {list(r, l, Null, NoFilter) : r \in ListRoutes, l \in {0, pageOf(100) + 1}}
  <1>7. DirectRequests = S1 \cup S2 \cup S3 \cup S4 \cup S5 \cup S6 \cup S7 \cup S8 \cup S9 \cup S10 \cup S11
    BY DEF DirectRequests, ListRoutes
  <1>8. /\ \A p \in S1 : Asks(p)
        /\ \A p \in S2 : Asks(p)
        /\ \A p \in S3 : Asks(p)
    <2> HIDE DEF child, own, early, getRoutes
    <2> QED
      BY <1>1, <1>3
  <1>9. \A p \in S4 : Asks(p)
    <2> HIDE DEF child, own
    <2> QED
      BY <1>2
  <1>10. /\ \A p \in S5 : Asks(p)
         /\ \A p \in S6 : Asks(p)
         /\ \A p \in S7 : Asks(p)
    BY <1>3
  <1>11. \A p \in S8 : Asks(p)
    <2> HIDE DEF early
    <2> QED
      BY <1>4, RenewalAsks
  <1>12. \A p \in S9 : Asks(p)
    BY TransitionAsks
  <1>13. \A p \in S10 : Asks(p)
    <2> HIDE DEF getRoutes
    <2> QED
      BY <1>5
  <1>14. \A p \in S11 : Asks(p)
    BY <1>6
  <1> HIDE DEF S1, S2, S3, S4, S5, S6, S7, S8, S9, S10, S11
  <1> QED
    BY <1>7, <1>8, <1>9, <1>10, <1>11, <1>12, <1>13, <1>14

LEMMA AskedAsks ==
    ASSUME ConsoleInv, NEW s, NEW q \in Asked(s)
    PROVE  AsksIn(focus, q) /\ focus \in {"api", "list", "pages"}
  <1>1. CASE s[2] # "b"
    <2>1. focus = "api" /\ q \in DirectRequests
      BY <1>1 DEF Asked
    <2> QED
      BY <2>1, DirectAsk DEF AsksIn
  <1>2. CASE s[2] = "b"
    <2>1. q \in Meddling
      BY <1>2 DEF Asked
    <2>2. CASE focus = "list"
      <3>1. q \in {transition("suspend", 3), transition("revoke", 2), renewal(3)}
        BY <2>1, <2>2 DEF Meddling
      <3>2. Asks(q) /\ q.route \in {"transition", "renew"}
        BY <3>1, TransitionAsks, RenewalAsks
      <3> QED
        BY <2>2, <3>2 DEF AsksIn
    <2>3. CASE focus \in {"api", "pages"}
      <3>1. q \in {transition("suspend", 1), transition("revoke", 2), renewal(1),
                   get("rotateKey", 2), get("rotateLicenseKey", 1)}
        BY <2>1, <2>3 DEF Meddling
      <3>2. Asks(get("rotateKey", 2)) /\ Asks(get("rotateLicenseKey", 1))
        BY GetAsks DEF AdminRoutes
      <3>3. Asks(q)
        BY <3>1, <3>2, TransitionAsks, RenewalAsks
      <3> QED
        BY <2>3, <3>3 DEF AsksIn
    <2>4. CASE focus \notin {"list", "api", "pages"}
      BY <2>1, <2>4 DEF Meddling
    <2> QED
      BY <2>2, <2>3, <2>4
  <1> QED
    BY <1>1, <1>2

-----------------------------------------------------------------------------
\* The requests that leave a part of the page as it is.
Apart == {<<"transition", "usages">>, <<"renew", "usages">>, <<"updateScope", "keys">>,
          <<"rotateKey", "scope">>, <<"createKey", "scope">>}

\* What a button sends, and that the page reads again whatever it changes of
\* what the page reads itself.
Offered(tb, q, reload, leave) ==
    /\ Asks(q)
    /\ leave \in Pages \cup {"stay"}
    /\ leave = "stay" => /\ reload \subseteq DOMAIN pageQueries(tb)
                         /\ \A n \in DOMAIN pageQueries(tb) \ (reload \cup {"audit"}) : <<q.route, n>> \in Apart

LEMMA OffersOffered ==
    ASSUME NEW tb, tb.page \in Pages, NEW o \in offers(tb)
    PROVE  Offered(tb, o.q, o.reload, o.leave)
  <1> DEFINE OK(p) == Offered(tb, p.q, p.reload, p.leave)
  <1>1. ASSUME NEW q, NEW reload, Asks(q), reload \subseteq DOMAIN pageQueries(tb),
               \A n \in DOMAIN pageQueries(tb) \ (reload \cup {"audit"}) : <<q.route, n>> \in Apart
        PROVE  OK(offer(q, reload))
    BY <1>1 DEF Offered, offer
  <1>2. ASSUME NEW q, Asks(q), NEW there \in Pages
        PROVE  OK(leaving(q, there))
    <2>1. leaving(q, there).q = q /\ leaving(q, there).leave = there /\ there # "stay"
      BY DEF leaving, Pages
    <2> QED
      BY <1>2, <2>1 DEF Offered
  <1> HIDE DEF OK
  <1>3. \A r \in {"revokeUsage", "rotateKey", "rotateLicenseKey", "deleteScope", "deleteTemplate"} : \A i :
           Asks(get(r, i)) /\ get(r, i).route = r
    <2>1. \A r, i : get(r, i).route = r
      BY DEF get
    <2> QED
      BY <2>1, GetAsks DEF AdminRoutes
  <1>4. \A r \in {"renew", "createKey", "updateScope", "createLicense", "createScope", "createTemplate"} : \A i, b :
           Asks(post(r, i, b)) /\ post(r, i, b).route = r
    <2>1. \A r, i, b : post(r, i, b).route = r
      BY DEF post
    <2> QED
      BY <2>1, PostAsks DEF AdminRoutes
  <1>5. tb.page \in {"keys", "scope"} => \A p \in keyOffers(tb) : OK(p)
    <2> HAVE tb.page \in {"keys", "scope"}
    <2>1. /\ "keys" \in DOMAIN pageQueries(tb)
          /\ \A n \in DOMAIN pageQueries(tb) \ {"keys"} : n = "scope"
      BY DEF pageQueries, keysReads, scopeReads
    <2>2. \A k : OK(offer(get("rotateKey", k), {"keys"}))
      BY <1>1, <1>3, <2>1 DEF Apart
    <2>3. OK(createKeyForm)
      BY <1>1, <1>4, <2>1 DEF Apart, createKeyForm
    <2> QED
      BY <2>2, <2>3 DEF keyOffers, onConfirmRotate
  <1>6. CASE tb.page = "license"
    <2>1. DOMAIN pageQueries(tb) = {"license", "usages", "audit"}
      BY <1>6 DEF pageQueries, licenseReads
    <2>2. \A op \in {"suspend", "resume", "revoke"} : OK(offer(transition(op, tb.id), {"license"}))
      BY <1>1, <2>1, TransitionAsks DEF Apart
    <2>3. OK(renewForm(tb))
      BY <1>1, <1>4, <2>1 DEF Apart, renewForm
    <2>4. \A r \in {"revokeUsage", "rotateLicenseKey"} : \A i : OK(offer(get(r, i), {"license", "usages"}))
      BY <1>1, <1>3, <2>1
    <2>5. /\ onConfirm("revoke-license") = {"license"} /\ onConfirm("rotate-key") = {"license", "usages"}
          /\ onConfirm("revoke-usage") = {"license", "usages"}
      BY DEF onConfirm
    <2>6. o \in licenseOffers(tb)
      BY <1>6 DEF offers
    <2>7. \/ \E op \in {"suspend", "resume", "revoke"} : o = offer(transition(op, tb.id), {"license"})
          \/ o = renewForm(tb)
          \/ \E r \in {"revokeUsage", "rotateLicenseKey"} : \E i : o = offer(get(r, i), {"license", "usages"})
      BY <2>5, <2>6 DEF licenseOffers
    <2>8. OK(o)
      BY <2>2, <2>3, <2>4, <2>7
    <2> QED
      BY <2>8 DEF OK
  <1>7. CASE tb.page = "keys"
    BY <1>5, <1>7 DEF offers, OK
  <1>8. CASE tb.page = "scope"
    <2>1. DOMAIN pageQueries(tb) = {"scope", "keys"}
      BY <1>8 DEF pageQueries, scopeReads
    <2>2. OK(offer(post("updateScope", tb.id, [name |-> string("n2"), meta |-> object("{}")]), {"scope"}))
      BY <1>1, <1>4, <2>1 DEF Apart
    <2>3. OK(leaving(get("deleteScope", tb.id), "scopes"))
      BY <1>2, <1>3 DEF Pages
    <2>4. \/ o = offer(post("updateScope", tb.id, [name |-> string("n2"), meta |-> object("{}")]), {"scope"})
          \/ o = leaving(get("deleteScope", tb.id), "scopes") \/ o \in keyOffers(tb)
      BY <1>8 DEF offers, scopeOffers
    <2>5. OK(o)
      BY <1>5, <1>8, <2>2, <2>3, <2>4
    <2> QED
      BY <2>5 DEF OK
  <1>9. CASE tb.page = "usages"
    <2>1. DOMAIN pageQueries(tb) = {"usages"}
      BY <1>9 DEF pageQueries, usagesReads
    <2>2. \A u : OK(offer(get("revokeUsage", u), {"usages"}))
      BY <1>1, <1>3, <2>1
    <2> QED
      BY <1>9, <2>2 DEF offers, usageOffers, OK
  <1>10. CASE tb.page = "template"
    <2>1. OK(leaving(get("deleteTemplate", tb.id), "templates"))
      BY <1>2, <1>3 DEF Pages
    <2>2. OK(issueForm(tb))
      BY <1>2, <1>4 DEF Pages, issueForm
    <2> QED
      BY <1>10, <2>1, <2>2 DEF offers, templateOffers, OK
  <1>11. CASE tb.page \in {"scopes", "templates"}
    <2>1. OK(createScopeForm) /\ OK(createTemplateForm)
      BY <1>2, <1>4 DEF Pages, createScopeForm, createTemplateForm
    <2> QED
      BY <1>11, <2>1 DEF offers, OK
  <1> QED
    BY <1>6, <1>7, <1>8, <1>9, <1>10, <1>11 DEF Pages

\* The parts of a tab that only the detail pages and the editor change.
SameDetail(tb, ub) ==
    /\ DOMAIN ub = TabFields
    /\ ub.page = tb.page /\ ub.id = tb.id /\ ub.data = tb.data /\ ub.seen = tb.seen /\ ub.own = tb.own
    /\ ub.reload = tb.reload /\ ub.leave = tb.leave /\ ub.form = tb.form /\ ub.typed = tb.typed
    /\ ub.saving = tb.saving

LEMMA DetailTabKept ==
    ASSUME NEW tb, NEW ub, DetailTab(tb), ub.page = tb.page, ub.id = tb.id,
           DOMAIN ub.data = DOMAIN tb.data, DOMAIN ub.seen = DOMAIN tb.seen, DOMAIN ub.own = DOMAIN tb.own
    PROVE  DetailTab(ub)
  BY SameQueries DEF DetailTab

LEMMA TabKept ==
    ASSUME NEW f, NEW tb, NEW ub, TabOK(f, tb), SameDetail(tb, ub),
           f # "list" => ub.selected = <<>> /\ ub.stack = <<>> /\ ub.cursor = Null
    PROVE  TabOK(f, ub)
  <1>1. FormKept(ub)
    BY DEF TabOK, SameDetail, FormKept
  <1>2. f \in {"pages", "form"} => DetailTab(ub)
    BY DetailTabKept DEF TabOK, SameDetail
  <1> QED
    BY <1>1, <1>2 DEF TabOK, SameDetail

LEMMA TabsPut ==
    ASSUME ConsoleInv, NEW t, NEW ub, t \in Tabs => TabOK(focus, ub), tab' = [tab EXCEPT ![t] = ub]
    PROVE  DOMAIN tab' = Tabs /\ \A u \in Tabs : TabOK(focus, tab'[u])
  BY DEF ConsoleInv

\* A step that leaves the database alone.
LEMMA Settles ==
    ASSUME ConsoleInv, UNCHANGED <<focus, accepted, db>>, session' = session \/ focus = "session",
           Wired(wire'), DOMAIN tab' = Tabs, \A t \in Tabs : TabOK(focus, tab'[t])
    PROVE  ConsoleInv'
  BY DEF ConsoleInv, Wired

LEMMA TabsStay ==
    ASSUME ConsoleInv, UNCHANGED tab
    PROVE  DOMAIN tab' = Tabs /\ \A t \in Tabs : TabOK(focus, tab'[t])
  BY DEF ConsoleInv

LEMMA TheSlot ==
    ASSUME ConsoleInv, NEW s \in Slots
    PROVE  InFlight(focus, accepted, db, s, wire[s]) /\ DOMAIN wire = Slots
  BY DEF ConsoleInv, Wired

LEMMA TheTab ==
    ASSUME ConsoleInv, NEW t \in Tabs
    PROVE  TabOK(focus, tab[t]) /\ DOMAIN tab[t] = TabFields
  BY DEF ConsoleInv, TabOK

-----------------------------------------------------------------------------
(* The way of a request.                                                     *)

LEMMA LoadHolds ==
    ASSUME NEW d, NEW q, load(d, q) # Null
    PROVE  Held(d, q)
  BY DEF load, tableOf, exists, Held

LEMMA ProxyInv ==
    ASSUME ConsoleInv, NEW s \in Slots, proxy(s)
    PROVE  ConsoleInv'
  <1> DEFINE r == wire[s]
             refused == [r EXCEPT !.at = "answered", !.status = 401]
             row == load(db, r.q)
             read == [r EXCEPT !.at = "loaded", !.row = row]
  <1>1. InFlight(focus, accepted, db, s, r) /\ DOMAIN wire = Slots
    BY TheSlot
  <1>2. r.at = "sent" /\ r.q.route \notin AuthRoutes
    BY DEF proxy
  <1>3. r.use # "none" /\ r.use \notin AuthUses
    BY <1>1, <1>2 DEF InFlight
  <1>4. wire' = [wire EXCEPT ![s] = IF s[1] # "api" /\ r.cookie \notin accepted THEN refused ELSE read]
    BY DEF proxy
  <1>5. s[1] # "api" /\ r.cookie \notin accepted => InFlight(focus, accepted, db, s, refused)
    <2> HAVE s[1] # "api" /\ r.cookie \notin accepted
    <2>1. focus = "session"
      BY <1>1, <1>3 DEF InFlight
    <2>2. /\ DOMAIN refused = RequestFields /\ refused.at = "answered" /\ refused.use = r.use
          /\ refused.q = r.q /\ refused.rev = r.rev
      BY <1>1 DEF InFlight, RequestFields
    <2> HIDE DEF refused
    <2> QED
      BY <1>1, <1>3, <2>1, <2>2 DEF InFlight
  <1>6. InFlight(focus, accepted, db, s, read)
    <2>1. /\ DOMAIN read = RequestFields /\ read.at = "loaded" /\ read.use = r.use /\ read.row = row
          /\ read.q = r.q /\ read.rev = r.rev /\ read.status = r.status /\ read.cookie = r.cookie
      BY <1>1 DEF InFlight, RequestFields
    <2>2. row # Null => Held(db, r.q)
      BY LoadHolds
    <2> HIDE DEF read, row
    <2> QED
      BY <1>1, <1>3, <2>1, <2>2 DEF InFlight
  <1>7. Wired(wire')
    <2> DEFINE v == IF s[1] # "api" /\ r.cookie \notin accepted THEN refused ELSE read
    <2>1. InFlight(focus, accepted, db, s, v)
      BY <1>5, <1>6
    <2> HIDE DEF v
    <2>2. Wired([wire EXCEPT ![s] = v])
      BY <2>1, WiredPut DEF ConsoleInv
    <2> QED
      BY <1>4, <2>2 DEF v
  <1> QED
    BY <1>7, Settles, TabsStay DEF proxy, others

LEMMA InFlightMoves ==
    ASSUME NEW f, NEW A, NEW d, NEW e, NEW s, NEW r, DbOK(d), Moves(d, e), InFlight(f, A, d, s, r)
    PROVE  InFlight(f, A, e, s, r)
  <1>1. r.at = "loaded" /\ r.row # Null => Held(e, r.q)
    BY DEF InFlight, Held, Moves
  <1>2. d.rev \in Nat /\ e.rev \in Nat /\ e.rev >= d.rev /\ r.rev \in Nat /\ r.rev <= d.rev
    BY DEF DbOK, Moves, InFlight
  <1>3. r.rev <= e.rev
    BY <1>2
  <1> QED
    BY <1>1, <1>3 DEF InFlight

\* What a handler's step does to its slot.
LEMMA HandleSlot ==
    ASSUME ConsoleInv, NEW s \in Slots, handle(s)
    PROVE  LET r == serve(db, wire[s].q, wire[s].row) IN
           /\ AsksIn(focus, wire[s].q) /\ wire[s].use \notin AuthUses \cup {"none"}
           /\ Served(db, r) /\ db' = r.db
           /\ DOMAIN wire' = Slots /\ \A o \in Slots \ {s} : wire'[o] = wire[o]
           /\ DOMAIN wire'[s] = RequestFields
           /\ wire'[s].at = "answered" /\ wire'[s].status = r.status /\ wire'[s].data = r.data
           /\ wire'[s].rev = r.db.rev /\ wire'[s].use = wire[s].use /\ wire'[s].q = wire[s].q
           /\ wire'[s].cookie = wire[s].cookie
           /\ UNCHANGED <<focus, accepted, session, sent>>
  <1> DEFINE r == serve(db, wire[s].q, wire[s].row)
  <1>1. InFlight(focus, accepted, db, s, wire[s]) /\ DOMAIN wire = Slots
    BY TheSlot
  <1>2. wire[s].at = "loaded"
    BY DEF handle
  <1>3. wire[s].use \notin AuthUses \cup {"none"} /\ AsksIn(focus, wire[s].q)
    BY <1>1, <1>2 DEF InFlight
  <1>4. Served(db, r)
    BY <1>3, ServeServed DEF ConsoleInv, AsksIn
  <1>5. PICK ch : wire' = [wire EXCEPT ![s].at = "answered", ![s].status = r.status, ![s].data = r.data,
                                       ![s].rev = r.db.rev, ![s].changed = ch]
    BY DEF handle
  <1>6. db' = r.db /\ UNCHANGED <<focus, accepted, session, sent>>
    BY DEF handle, others
  <1> HIDE DEF r
  <1>7. /\ DOMAIN wire' = Slots /\ \A o \in Slots \ {s} : wire'[o] = wire[o]
        /\ wire'[s] = [wire[s] EXCEPT !.at = "answered", !.status = r.status, !.data = r.data,
                                      !.rev = r.db.rev, !.changed = ch]
    BY <1>1, <1>5
  <1>8. /\ DOMAIN wire'[s] = RequestFields
        /\ wire'[s].at = "answered" /\ wire'[s].status = r.status /\ wire'[s].data = r.data
        /\ wire'[s].rev = r.db.rev /\ wire'[s].use = wire[s].use /\ wire'[s].q = wire[s].q
        /\ wire'[s].cookie = wire[s].cookie
    BY <1>1, <1>7 DEF InFlight, RequestFields
  <1> QED
    BY <1>3, <1>4, <1>6, <1>7, <1>8 DEF r

LEMMA HandleTabs ==
    ASSUME ConsoleInv, NEW s \in Slots, handle(s)
    PROVE  /\ DOMAIN tab' = Tabs
           /\ focus # "list" => tab' = tab
           /\ wire[s].use # "bulk" => tab' = tab
           /\ \A t \in Tabs : SameDetail(tab[t], tab'[t]) /\ TabOK(focus, tab'[t])
  <1>1. InFlight(focus, accepted, db, s, wire[s])
    BY TheSlot
  <1>2. wire[s].at = "loaded"
    BY DEF handle
  <1>3. CASE tab' = tab
    BY <1>3, TabsStay DEF SameDetail, TabOK
  <1>4. CASE wire[s].use = "bulk" /\ tab' # tab
    <2> DEFINE t == s[1]
               ub == [tab[t] EXCEPT !.committed = @ \cup {wire[s].q.id}]
    <2>1. focus = "list" /\ t = Operator
      BY <1>1, <1>4 DEF InFlight, Placed, AuthUses
    <2>2. t \in Tabs
      BY <2>1, OperatorTab
    <2>3. tab' = [tab EXCEPT ![t] = ub]
      BY <1>4 DEF handle
    <2>4. SameDetail(tab[t], ub)
      BY <2>2, TheTab DEF SameDetail, TabFields
    <2> HIDE DEF ub
    <2>5. TabOK(focus, ub)
      BY <2>1, <2>2, <2>4, TheTab, TabKept
    <2>6. DOMAIN tab' = Tabs /\ tab'[t] = ub /\ \A u \in Tabs \ {t} : tab'[u] = tab[u]
      BY <2>2, <2>3 DEF ConsoleInv
    <2>7. \A u \in Tabs : SameDetail(tab[u], tab[u])
      BY TheTab DEF SameDetail
    <2> QED
      BY <1>4, <2>1, <2>4, <2>5, <2>6, <2>7, TheTab
  <1> QED
    BY <1>3, <1>4 DEF handle

LEMMA HandleInv ==
    ASSUME ConsoleInv, NEW s \in Slots, handle(s)
    PROVE  ConsoleInv'
  <1> DEFINE r == serve(db, wire[s].q, wire[s].row)
  <1>1. /\ AsksIn(focus, wire[s].q) /\ wire[s].use \notin AuthUses \cup {"none"}
        /\ Served(db, r) /\ db' = r.db
        /\ DOMAIN wire' = Slots /\ \A o \in Slots \ {s} : wire'[o] = wire[o]
        /\ DOMAIN wire'[s] = RequestFields
        /\ wire'[s].at = "answered" /\ wire'[s].status = r.status /\ wire'[s].data = r.data
        /\ wire'[s].rev = r.db.rev /\ wire'[s].use = wire[s].use /\ wire'[s].q = wire[s].q
        /\ wire'[s].cookie = wire[s].cookie
        /\ UNCHANGED <<focus, accepted, session, sent>>
    BY HandleSlot
  <1> HIDE DEF r
  <1>2. Moves(db, db') /\ DbOK(db) /\ DbOK(db') /\ r.status # 401
    BY <1>1 DEF Served, Moves, ConsoleInv
  <1>3. \A o \in Slots \ {s} : InFlight(focus, accepted, db', o, wire'[o])
    BY <1>1, <1>2, InFlightMoves, TheSlot
  <1>4. InFlight(focus, accepted, db', s, wire'[s])
    <2>1. r.db.rev \in Nat /\ r.db.rev <= db'.rev
      BY <1>1, <1>2 DEF DbOK
    <2>2. InFlight(focus, accepted, db, s, wire[s])
      BY TheSlot
    <2> QED
      BY <1>1, <1>2, <2>1, <2>2 DEF InFlight
  <1>5. Wired(wire)'
    BY <1>1, <1>3, <1>4 DEF Wired
  <1>6. DOMAIN tab' = Tabs /\ \A t \in Tabs : TabOK(focus', tab'[t])
    BY <1>1, HandleTabs
  <1> QED
    BY <1>1, <1>2, <1>5, <1>6 DEF ConsoleInv

LEMMA LoseInv ==
    ASSUME ConsoleInv, NEW s \in Slots, lose(s)
    PROVE  ConsoleInv'
  <1> DEFINE r == wire[s]
             lost == [r EXCEPT !.status = 0]
  <1>1. InFlight(focus, accepted, db, s, r)
    BY TheSlot
  <1>2. /\ DOMAIN lost = RequestFields /\ lost.at = r.at /\ lost.use = r.use /\ lost.row = r.row
        /\ lost.q = r.q /\ lost.rev = r.rev /\ lost.status = 0 /\ lost.cookie = r.cookie
    BY <1>1 DEF InFlight, RequestFields
  <1>3. wire' = [wire EXCEPT ![s] = lost]
    BY DEF lose
  <1> HIDE DEF lost
  <1>4. InFlight(focus, accepted, db, s, lost)
    BY <1>1, <1>2 DEF InFlight
  <1>5. Wired(wire')
    BY <1>3, <1>4, WiredPut DEF ConsoleInv
  <1> QED
    BY <1>5, Settles, TabsStay DEF lose, others

LEMMA CallDirectlyInv ==
    ASSUME ConsoleInv, NEW s \in Slots, callDirectly(s)
    PROVE  ConsoleInv'
  <1>1. PICK q \in Asked(s) : wire' = [wire EXCEPT ![s] = request(q, "direct")]
    BY DEF callDirectly
  <1>2. AsksIn(focus, q) /\ focus \in {"api", "list", "pages"}
    BY AskedAsks
  <1>3. Placed(focus, s, "direct")
    BY <1>2 DEF callDirectly, Placed
  <1>4. Wired(wire')
    BY <1>1, <1>2, <1>3, WiredAsk DEF ConsoleInv, AuthUses
  <1> QED
    BY <1>4, Settles, TabsStay DEF callDirectly, others

\* An answer of a use that belongs to a page.
LEMMA AnswerOf ==
    ASSUME ConsoleInv, NEW s \in Slots, wire[s].at = "answered"
    PROVE  Placed(focus, s, wire[s].use)
  BY TheSlot DEF InFlight

LEMMA HangUpInv ==
    ASSUME ConsoleInv, NEW s \in Slots, hangUp(s)
    PROVE  ConsoleInv'
  BY WiredQuiet, Settles, TabsStay DEF hangUp, others

-----------------------------------------------------------------------------
(* The licenses table.                                                       *)

\* A tab of the licenses table: only the table's own fields change.
LEMMA ListTab ==
    ASSUME ConsoleInv, focus = "list", NEW ub, SameDetail(tab[Operator], ub),
           tab' = [tab EXCEPT ![Operator] = ub]
    PROVE  DOMAIN tab' = Tabs /\ \A t \in Tabs : TabOK(focus, tab'[t])
  <1>1. TabOK(focus, ub)
    BY OperatorTab, TheTab, TabKept
  <1> QED
    BY <1>1, TabsPut

LEMMA WiredFetch ==
    ASSUME ConsoleInv, focus = "list", NEW w, Wired(w), NEW tb
    PROVE  Wired(fetchList(w, tb))
  <1> DEFINE q == listQuery(tb)
  <1>1. Asks(q) /\ q.route = "listLicenses"
    BY ListAsks DEF listQuery, ListRoutes
  <1> HIDE DEF q
  <1>2. AsksIn(focus, q)
    BY <1>1 DEF AsksIn
  <1>3. Placed(focus, <<Operator, "load">>, "rows")
    BY OperatorTab DEF Placed
  <1>4. Wired([w EXCEPT ![<<Operator, "load">>] = request(q, "rows")])
    BY <1>2, <1>3, WiredAsk DEF AuthUses
  <1> QED
    BY <1>4 DEF fetchList, q

LEMMA NavigateInv ==
    ASSUME ConsoleInv, NEW tb, SameDetail(tab[Operator], tb), navigate(tb)
    PROVE  ConsoleInv'
  <1> DEFINE ub == [tb EXCEPT !.history = Append(@, [cursor |-> tab[Operator].cursor, filter |-> tab[Operator].filter])]
  <1>1. focus = "list" /\ tab' = [tab EXCEPT ![Operator] = ub] /\ wire' = fetchList(wire, tb)
        /\ UNCHANGED <<db, session, focus, accepted>>
    BY DEF navigate, usable, others
  <1>2. SameDetail(tab[Operator], ub)
    BY DEF SameDetail, TabFields
  <1> HIDE DEF ub
  <1>3. Wired(wire')
    BY <1>1, WiredFetch DEF ConsoleInv
  <1> QED
    BY <1>1, <1>2, <1>3, ListTab, Settles

LEMMA PagerInv ==
    ASSUME ConsoleInv, applyServerFilter \/ goNext \/ goPrev \/ goBack \/ refreshList
    PROVE  ConsoleInv'
  <1> USE DEF SameDetail
  <1>1. DOMAIN tab[Operator] = TabFields
    BY OperatorTab, TheTab
  <1>2. CASE applyServerFilter
    <2>1. PICK f : navigate([tab[Operator] EXCEPT !.stack = <<>>, !.cursor = Null, !.filter = f])
      BY <1>2 DEF applyServerFilter
    <2> DEFINE tb == [tab[Operator] EXCEPT !.stack = <<>>, !.cursor = Null, !.filter = f]
    <2>2. SameDetail(tab[Operator], tb)
      BY <1>1 DEF TabFields
    <2> HIDE DEF SameDetail
    <2> QED
      BY <2>1, <2>2, NavigateInv
  <1>3. CASE goNext
    <2> DEFINE tb == [tab[Operator] EXCEPT !.stack = Append(@, tab[Operator].cursor),
                                           !.cursor = tab[Operator].next]
    <2>1. navigate(tb)
      BY <1>3 DEF goNext
    <2>2. SameDetail(tab[Operator], tb)
      BY <1>1 DEF TabFields
    <2> HIDE DEF SameDetail, tb
    <2> QED
      BY <2>1, <2>2, NavigateInv
  <1>4. CASE goPrev
    <2> DEFINE tb == [tab[Operator] EXCEPT !.stack = SubSeq(@, 1, Len(@) - 1), !.cursor = Last(tab[Operator].stack)]
    <2>1. navigate(tb)
      BY <1>4 DEF goPrev
    <2>2. SameDetail(tab[Operator], tb)
      BY <1>1 DEF TabFields
    <2> HIDE DEF SameDetail, tb
    <2> QED
      BY <2>1, <2>2, NavigateInv
  <1>5. CASE goBack
    <2> DEFINE h == Last(tab[Operator].history)
               tb == [tab[Operator] EXCEPT !.cursor = h.cursor, !.filter = h.filter,
                                       !.history = SubSeq(@, 1, Len(@) - 1), !.wentBack = TRUE]
    <2>1. focus = "list" /\ tab' = [tab EXCEPT ![Operator] = tb] /\ wire' = fetchList(wire, tb)
          /\ UNCHANGED <<db, session, focus, accepted>>
      BY <1>5 DEF goBack, usable, others
    <2>2. SameDetail(tab[Operator], tb)
      BY <1>1 DEF TabFields
    <2> HIDE DEF SameDetail, tb
    <2>3. Wired(wire')
      BY <2>1, WiredFetch DEF ConsoleInv
    <2> QED
      BY <2>1, <2>2, <2>3, ListTab, Settles
  <1>6. CASE refreshList
    <2>1. focus = "list" /\ wire' = fetchList(wire, tab[Operator]) /\ UNCHANGED <<db, session, focus, accepted, tab>>
      BY <1>6 DEF refreshList, usable, others
    <2>2. Wired(wire')
      BY <2>1, WiredFetch DEF ConsoleInv
    <2> QED
      BY <2>1, <2>2, TabsStay, Settles
  <1> QED
    BY <1>2, <1>3, <1>4, <1>5, <1>6

\* The tab once the rows have arrived, or failed to.
Rows(tb, code, items, next) == IF code \notin 200..204 THEN noRows(tb)
                              ELSE IF tb.mounted THEN newRows(tb, items, next) ELSE newTable(tb, items, next)

LEMMA RowsTab ==
    ASSUME NEW tb, NEW code, NEW items, NEW next, DOMAIN tb = TabFields
    PROVE  LET ub == Rows(tb, code, items, next) IN
           /\ SameDetail(tb, ub)
           /\ code \in 200..204 => ub.items = items /\ ub.next = next
           /\ code \notin 200..204 => ub.items = <<>> /\ ub.next = Null /\ (~ub.stale => tb.selected = <<>>)
           /\ code \in 200..204 /\ ~tb.mounted => (ub.stale <=> tb.stale)
           /\ code \in 200..204 /\ tb.mounted => ub.selected = <<>> /\ ~ub.stale
           /\ code \notin 200..204 \/ ~tb.mounted => ub.selected = tb.selected
           /\ ub.selected \in {<<>>, tb.selected}
           /\ code \in 200..204 => ub.mounted
           /\ code \notin 200..204 => ~ub.mounted
           /\ ub.picked = {} /\ ub.ticked = {}
           /\ ub.cursor = tb.cursor /\ ub.stack = tb.stack /\ ub.wentBack = tb.wentBack
           /\ ub.targets = tb.targets /\ ub.done = tb.done /\ ub.failed = tb.failed
           /\ ub.committed = tb.committed /\ ub.reported = tb.reported
  <1> DEFINE a == noRows(tb)
             b == newRows(tb, items, next)
             c == newTable(tb, items, next)
             Kept(ub) == /\ SameDetail(tb, ub) /\ ub.picked = {} /\ ub.ticked = {}
                         /\ ub.cursor = tb.cursor /\ ub.stack = tb.stack /\ ub.wentBack = tb.wentBack
                         /\ ub.targets = tb.targets /\ ub.done = tb.done /\ ub.failed = tb.failed
                         /\ ub.committed = tb.committed /\ ub.reported = tb.reported
  <1>1. /\ Kept(a) /\ a.items = <<>> /\ a.next = Null /\ (~a.stale => tb.selected = <<>>)
        /\ a.selected = tb.selected /\ ~a.mounted
    BY DEF noRows, SameDetail, TabFields
  <1>2. /\ Kept(b) /\ b.items = items /\ b.next = next /\ ~b.stale /\ b.selected = <<>> /\ (b.mounted <=> tb.mounted)
    BY DEF newRows, SameDetail, TabFields
  <1>3. /\ Kept(c) /\ c.items = items /\ c.next = next /\ (c.stale <=> tb.stale)
        /\ c.selected = tb.selected /\ c.mounted
    BY DEF newTable, SameDetail, TabFields
  <1>4. Rows(tb, code, items, next) = IF code \notin 200..204 THEN a ELSE IF tb.mounted THEN b ELSE c
    BY DEF Rows
  <1> HIDE DEF a, b, c
  <1> QED
    BY <1>1, <1>2, <1>3, <1>4

LEMMA RowsArriveInv ==
    ASSUME ConsoleInv, NEW s \in Slots, rowsArrive(s)
    PROVE  ConsoleInv'
  <1> DEFINE t == s[1]
  <1>1. Placed(focus, s, "rows")
    BY AnswerOf DEF rowsArrive, answeredTo
  <1>2. t \in Tabs
    BY <1>1, SlotShape DEF Placed, AuthUses
  <1>3. PICK items, next : tab' = [tab EXCEPT ![t] = Rows(tab[t], wire[s].status, items, next)]
    <2>1. tab' = [tab EXCEPT ![t] = Rows(tab[t], wire[s].status, wire[s].data.items, wire[s].data.next_cursor)]
      BY DEF rowsArrive, Rows, good
    <2> QED
      BY <2>1
  <1> DEFINE ub == Rows(tab[t], wire[s].status, items, next)
  <1>4. /\ SameDetail(tab[t], ub) /\ ub.cursor = tab[t].cursor /\ ub.stack = tab[t].stack
        /\ ub.selected \in {<<>>, tab[t].selected}
    <2>1. DOMAIN tab[t] = TabFields
      BY <1>2, TheTab
    <2> QED
      BY <2>1, RowsTab
  <1> HIDE DEF ub
  <1>5. TabOK(focus, ub)
    <2>1. TabOK(focus, tab[t])
      BY <1>2, TheTab
    <2>2. focus # "list" => ub.selected = <<>> /\ ub.stack = <<>> /\ ub.cursor = Null
      BY <1>4, <2>1 DEF TabOK
    <2> QED
      BY <1>4, <2>1, <2>2, TabKept
  <1>6. DOMAIN tab' = Tabs /\ \A u \in Tabs : TabOK(focus, tab'[u])
    BY <1>3, <1>5, TabsPut DEF ub
  <1> QED
    BY <1>6, WiredQuiet, Settles DEF rowsArrive, others

LEMMA ToggleInv ==
    ASSUME ConsoleInv, NEW i, toggleSelected(i)
    PROVE  ConsoleInv'
  <1>1. DOMAIN tab[Operator] = TabFields
    BY OperatorTab, TheTab
  <1>2. focus = "list" /\ UNCHANGED <<db, session, wire, focus, accepted>>
    BY DEF toggleSelected, usable, others
  <1>3. PICK p, k, v : tab' = [tab EXCEPT ![Operator].picked = p, ![Operator].ticked = k, ![Operator].selected = v,
                                          ![Operator].stale = FALSE]
    BY DEF toggleSelected
  <1> DEFINE ub == [tab[Operator] EXCEPT !.picked = p, !.ticked = k, !.selected = v, !.stale = FALSE]
  <1>4. tab' = [tab EXCEPT ![Operator] = ub]
    BY <1>3
  <1>5. SameDetail(tab[Operator], ub)
    BY <1>1 DEF SameDetail, TabFields
  <1> HIDE DEF ub
  <1>6. DOMAIN tab' = Tabs /\ \A t \in Tabs : TabOK(focus, tab'[t])
    BY <1>2, <1>4, <1>5, ListTab
  <1> QED
    BY <1>2, <1>6, Settles DEF ConsoleInv

LEMMA DismissInv ==
    ASSUME ConsoleInv, dismiss
    PROVE  ConsoleInv'
  <1> DEFINE ub == [tab[Operator] EXCEPT !.dialog = "none"]
  <1>1. TabOK(focus, tab[Operator]) /\ DOMAIN tab[Operator] = TabFields
    BY OperatorTab, TheTab
  <1>2. tab' = [tab EXCEPT ![Operator] = ub]
    BY DEF dismiss
  <1>3. /\ SameDetail(tab[Operator], ub) /\ ub.selected = tab[Operator].selected
        /\ ub.stack = tab[Operator].stack /\ ub.cursor = tab[Operator].cursor
    BY <1>1 DEF SameDetail, TabFields
  <1> HIDE DEF ub
  <1>4. focus # "list" => ub.selected = <<>> /\ ub.stack = <<>> /\ ub.cursor = Null
    BY <1>1, <1>3 DEF TabOK
  <1>5. TabOK(focus, ub)
    BY <1>1, <1>3, <1>4, TabKept
  <1>6. DOMAIN tab' = Tabs /\ \A t \in Tabs : TabOK(focus, tab'[t])
    BY <1>2, <1>5, TabsPut
  <1> QED
    BY <1>6, Settles DEF dismiss, others, ConsoleInv

Bulk == {"revoke", "suspend", "resume", "extend"}

\* The request a bulk action sends for one of its targets.
bulkQuery(tb, action, i) ==
    IF action = "extend" THEN post("renew", i, [expires_at |-> string(tb.selected[i].expires_at + Days),
                                                grace_until |-> plain("undefined")])
    ELSE transition(action, i)

LEMMA FanOutQuery ==
    ASSUME NEW action \in Bulk, NEW tb
    PROVE  /\ \A i : LET q == bulkQuery(tb, action, i)
                     IN AsksIn("list", q) /\ q.id = i /\ q.route \in {"transition", "renew"}
           /\ fanOut(tb, action) =
                [s \in Slots |-> IF s[1] = Operator /\ \E i \in targetsOf(tb, action) : s[2] = bulkLane(i)
                                 THEN request(bulkQuery(tb, action, CHOOSE i \in targetsOf(tb, action) : s[2] = bulkLane(i)),
                                              "bulk")
                                 ELSE wire[s]]
  <1> DEFINE q(i) == bulkQuery(tb, action, i)
  <1>1. \A i : AsksIn("list", q(i)) /\ q(i).id = i /\ q(i).route \in {"transition", "renew"}
    <2> TAKE i
    <2>1. CASE action = "extend"
      <3> DEFINE b == [expires_at |-> string(tb.selected[i].expires_at + Days), grace_until |-> plain("undefined")]
      <3>1. q(i) = post("renew", i, b)
        BY <2>1 DEF bulkQuery
      <3> HIDE DEF b, q
      <3>2. Asks(post("renew", i, b))
        BY PostAsks DEF AdminRoutes
      <3>3. q(i).id = i /\ q(i).route = "renew"
        BY <3>1 DEF post
      <3> QED
        BY <3>1, <3>2, <3>3 DEF AsksIn
    <2>2. CASE action # "extend"
      <3>1. q(i) = transition(action, i) /\ action \in {"suspend", "resume", "revoke"}
        BY <2>2 DEF Bulk, bulkQuery
      <3> HIDE DEF q
      <3>2. Asks(transition(action, i)) /\ transition(action, i).route = "transition"
        BY <3>1, TransitionAsks
      <3>3. transition(action, i).id = i
        BY DEF transition
      <3> QED
        BY <3>1, <3>2, <3>3 DEF AsksIn
    <2> QED
      BY <2>1, <2>2
  <1>2. fanOut(tb, action) =
          [s \in Slots |-> IF s[1] = Operator /\ \E i \in targetsOf(tb, action) : s[2] = bulkLane(i)
                           THEN request(bulkQuery(tb, action, CHOOSE i \in targetsOf(tb, action) : s[2] = bulkLane(i)),
                                        "bulk")
                           ELSE wire[s]]
    BY DEF fanOut, bulkQuery
  <1> QED
    BY <1>1, <1>2

LEMMA RunBulkInv ==
    ASSUME ConsoleInv, NEW action \in Bulk, runBulk(action)
    PROVE  ConsoleInv'
  <1> DEFINE tb == tab[Operator]
             ts == targetsOf(tb, action)
             ub == [tb EXCEPT !.dialog = action, !.targets = ts, !.done = 0, !.failed = 0,
                              !.committed = {}, !.reported = FALSE]
  <1>1. DOMAIN tb = TabFields
    BY OperatorTab, TheTab
  <1>2. focus = "list" /\ wire' = fanOut(tb, action) /\ UNCHANGED <<db, session, focus, accepted>>
    BY DEF runBulk, usable, others
  <1>3. tab' = [tab EXCEPT ![Operator] = ub]
    BY DEF runBulk
  <1>4. SameDetail(tb, ub)
    BY <1>1 DEF SameDetail, TabFields
  <1> HIDE DEF ub
  <1>5. DOMAIN tab' = Tabs /\ \A t \in Tabs : TabOK(focus, tab'[t])
    BY <1>2, <1>3, <1>4, ListTab
  <1> DEFINE asked(o) == o[1] = Operator /\ \E i \in ts : o[2] = bulkLane(i)
             pick(o) == CHOOSE i \in ts : o[2] = bulkLane(i)
             q(o) == bulkQuery(tb, action, pick(o))
  <1>6. wire' = [o \in Slots |-> IF asked(o) THEN request(q(o), "bulk") ELSE wire[o]]
    BY <1>2, FanOutQuery
  <1>7. ASSUME NEW o \in Slots, asked(o) PROVE InFlight(focus, accepted, db, o, request(q(o), "bulk"))
    <2>1. pick(o) \in ts /\ o[2] = bulkLane(pick(o)) /\ o[1] = Operator
      BY <1>7
    <2>2. AsksIn("list", q(o))
      BY FanOutQuery
    <2> HIDE DEF pick, q, ts
    <2>3. o[2] \in {"a", "b", "more"}
      BY <2>1 DEF bulkLane
    <2>4. Placed(focus, o, "bulk")
      BY <1>2, <2>1, <2>3, OperatorTab DEF Placed
    <2> QED
      BY <1>2, <2>2, <2>4, AskedInFlight DEF AuthUses
  <1> HIDE DEF asked, q, pick
  <1>8. Wired(wire')
    BY <1>6, <1>7 DEF Wired, ConsoleInv
  <1> QED
    BY <1>2, <1>5, <1>8, Settles

LEMMA TallyTab ==
    ASSUME NEW tb, NEW s, DOMAIN tb = TabFields
    PROVE  /\ SameDetail(tb, tally(tb, s))
           /\ tally(tb, s).done = IF good(s) THEN tb.done + 1 ELSE tb.done
           /\ tally(tb, s).failed = IF good(s) THEN tb.failed ELSE tb.failed + 1
           /\ \A f \in {"items", "next", "cursor", "stack", "wentBack", "picked", "selected", "mounted", "ticked", "stale", "targets",
                        "committed", "reported"} : tally(tb, s)[f] = tb[f]
  <1>1. CASE good(s)
    <2> DEFINE ub == [tb EXCEPT !.done = @ + 1]
    <2>1. tally(tb, s) = ub
      BY <1>1 DEF tally
    <2>2. /\ SameDetail(tb, ub) /\ ub.done = tb.done + 1 /\ ub.failed = tb.failed
          /\ \A f \in {"items", "next", "cursor", "stack", "wentBack", "picked", "selected", "mounted", "ticked", "stale", "targets",
                       "committed", "reported"} : ub[f] = tb[f]
      BY DEF SameDetail, TabFields
    <2> HIDE DEF ub
    <2> QED
      BY <1>1, <2>1, <2>2
  <1>2. CASE ~good(s)
    <2> DEFINE ub == [tb EXCEPT !.failed = @ + 1]
    <2>1. tally(tb, s) = ub
      BY <1>2 DEF tally
    <2>2. /\ SameDetail(tb, ub) /\ ub.done = tb.done /\ ub.failed = tb.failed + 1
          /\ \A f \in {"items", "next", "cursor", "stack", "wentBack", "picked", "selected", "mounted", "ticked", "stale", "targets",
                       "committed", "reported"} : ub[f] = tb[f]
      BY DEF SameDetail, TabFields
    <2> HIDE DEF ub
    <2> QED
      BY <1>2, <2>1, <2>2
  <1> QED
    BY <1>1, <1>2

LEMMA BulkAnsweredInv ==
    ASSUME ConsoleInv, NEW s \in Slots, bulkAnswered(s)
    PROVE  ConsoleInv'
  <1>1. Placed(focus, s, "bulk")
    BY AnswerOf DEF bulkAnswered, answeredTo
  <1>2. focus = "list" /\ s[1] = Operator
    BY <1>1 DEF Placed, AuthUses
  <1>3. tab' = [tab EXCEPT ![Operator] = tally(tab[Operator], s)]
    BY <1>2 DEF bulkAnswered
  <1>4. SameDetail(tab[Operator], tally(tab[Operator], s))
    BY OperatorTab, TheTab, TallyTab
  <1>5. DOMAIN tab' = Tabs /\ \A t \in Tabs : TabOK(focus, tab'[t])
    BY <1>2, <1>3, <1>4, ListTab
  <1> QED
    BY <1>5, WiredQuiet, Settles DEF bulkAnswered, others

\* The tab once the last answer is counted.
Finished(tb, s) ==
    [[tally(tb, s) EXCEPT !.dialog = "none"] EXCEPT !.reported = TRUE,
        !.selected = IF [tally(tb, s) EXCEPT !.dialog = "none"].selected # <<>> THEN <<>> ELSE @,
        !.stale = IF [tally(tb, s) EXCEPT !.dialog = "none"].selected # <<>> THEN FALSE ELSE @]

LEMMA FinishedTab ==
    ASSUME NEW tb, NEW s, DOMAIN tb = TabFields
    PROVE  LET ub == Finished(tb, s) IN
           /\ SameDetail(tb, ub)
           /\ ub.done = tally(tb, s).done /\ ub.failed = tally(tb, s).failed
           /\ ub.reported = TRUE /\ ub.selected = <<>>
           /\ ub.items = tb.items /\ ub.next = tb.next /\ ub.cursor = tb.cursor /\ ub.stack = tb.stack
           /\ ub.wentBack = tb.wentBack /\ ub.picked = tb.picked /\ ub.ticked = tb.ticked /\ ub.mounted = tb.mounted
           /\ ub.targets = tb.targets /\ ub.committed = tb.committed /\ ub.stale \in {FALSE, tb.stale}
  <1> DEFINE y == tally(tb, s)
             mid == [y EXCEPT !.dialog = "none"]
             sel == IF mid.selected # <<>> THEN <<>> ELSE mid.selected
             old == IF mid.selected # <<>> THEN FALSE ELSE mid.stale
             ub == [mid EXCEPT !.reported = TRUE, !.selected = sel, !.stale = old]
  <1>1. /\ SameDetail(tb, y)
        /\ y.items = tb.items /\ y.next = tb.next /\ y.cursor = tb.cursor /\ y.stack = tb.stack
        /\ y.wentBack = tb.wentBack /\ y.picked = tb.picked /\ y.ticked = tb.ticked /\ y.mounted = tb.mounted
        /\ y.stale = tb.stale
        /\ y.targets = tb.targets /\ y.committed = tb.committed
    BY TallyTab
  <1>2. Finished(tb, s) = ub
    BY DEF Finished
  <1> HIDE DEF y
  <1>3. sel = <<>>
    OBVIOUS
  <1>4. DOMAIN mid = TabFields /\ \A f \in TabFields \ {"dialog"} : mid[f] = y[f]
    BY <1>1 DEF SameDetail
  <1>8. old \in {FALSE, tb.stale}
    BY <1>1, <1>4 DEF TabFields
  <1> HIDE DEF mid, sel, old
  <1>5. /\ DOMAIN ub = TabFields /\ \A f \in TabFields \ {"dialog", "reported", "selected", "stale"} : ub[f] = y[f]
        /\ ub.reported = TRUE /\ ub.selected = sel /\ ub.stale = old
    BY <1>4 DEF TabFields
  <1> HIDE DEF ub
  <1>6. SameDetail(tb, ub)
    BY <1>1, <1>5 DEF SameDetail, TabFields
  <1>7. /\ ub.done = y.done /\ ub.failed = y.failed
        /\ ub.items = tb.items /\ ub.next = tb.next /\ ub.cursor = tb.cursor /\ ub.stack = tb.stack
        /\ ub.wentBack = tb.wentBack /\ ub.picked = tb.picked /\ ub.ticked = tb.ticked /\ ub.mounted = tb.mounted
        /\ ub.targets = tb.targets /\ ub.committed = tb.committed
    BY <1>1, <1>5 DEF TabFields
  <1> QED
    BY <1>2, <1>3, <1>5, <1>6, <1>7, <1>8 DEF y

LEMMA FinishActionStep ==
    ASSUME ConsoleInv, NEW s \in Slots, finishAction(s)
    PROVE  /\ focus = "list" /\ s[1] = Operator
           /\ tab' = [tab EXCEPT ![Operator] = Finished(tab[Operator], s)]
           /\ \/ wire' = quiet(s)
              \/ \E tb : tb.cursor = tab[Operator].cursor /\ wire' = fetchList(quiet(s), tb)
  <1>1. Placed(focus, s, "bulk")
    BY AnswerOf DEF finishAction, answeredTo
  <1>2. focus = "list" /\ s[1] = Operator
    BY <1>1 DEF Placed, AuthUses
  <1> DEFINE tb == [tally(tab[Operator], s) EXCEPT !.dialog = "none"]
  <1>3. /\ tab' = [tab EXCEPT ![Operator] = [tb EXCEPT !.reported = TRUE,
                                              !.selected = IF tb.selected # <<>> THEN <<>> ELSE @,
                                              !.stale = IF tb.selected # <<>> THEN FALSE ELSE @]]
        /\ wire' = quiet(s) \/ wire' = fetchList(quiet(s), tb)
    BY <1>2 DEF finishAction
  <1>4. tb.cursor = tab[Operator].cursor
    <2>1. DOMAIN tally(tab[Operator], s) = TabFields /\ tally(tab[Operator], s).cursor = tab[Operator].cursor
      BY OperatorTab, TheTab, TallyTab DEF SameDetail
    <2> QED
      BY <2>1 DEF TabFields
  <1> QED
    BY <1>2, <1>3, <1>4 DEF Finished

LEMMA FinishActionInv ==
    ASSUME ConsoleInv, NEW s \in Slots, finishAction(s)
    PROVE  ConsoleInv'
  <1>1. /\ focus = "list" /\ s[1] = Operator
        /\ tab' = [tab EXCEPT ![Operator] = Finished(tab[Operator], s)]
        /\ \/ wire' = quiet(s)
           \/ \E tb : tb.cursor = tab[Operator].cursor /\ wire' = fetchList(quiet(s), tb)
    BY FinishActionStep
  <1>2. Wired(wire')
    BY <1>1, WiredQuiet, WiredFetch
  <1>3. SameDetail(tab[Operator], Finished(tab[Operator], s))
    BY OperatorTab, TheTab, FinishedTab
  <1>4. DOMAIN tab' = Tabs /\ \A t \in Tabs : TabOK(focus, tab'[t])
    BY <1>1, <1>3, ListTab
  <1> QED
    BY <1>2, <1>4, Settles DEF finishAction, others

-----------------------------------------------------------------------------
(* The detail pages.                                                         *)

LEMMA ActInv ==
    ASSUME ConsoleInv, NEW t \in Tabs, act(t)
    PROVE  ConsoleInv'
  <1> DEFINE tb == tab[t]
  <1>1. TabOK("pages", tb) /\ focus = "pages"
    BY TheTab DEF act
  <1>2. PICK o \in offers(tb) : /\ wire' = [wire EXCEPT ![<<t, "a">>] = request(o.q, "act")]
                                /\ tab' = [tab EXCEPT ![t].reload = o.reload, ![t].leave = o.leave]
    BY DEF act
  <1>3. Offered(tb, o.q, o.reload, o.leave)
    BY <1>1, OffersOffered DEF TabOK
  <1>4. AsksIn(focus, o.q) /\ Placed(focus, <<t, "a">>, "act")
    BY <1>1, <1>3, ConsoleAssumption DEF AsksIn, Offered, Placed
  <1>5. Wired(wire')
    BY <1>2, <1>4, WiredAsk DEF ConsoleInv, AuthUses
  <1> DEFINE ub == [tb EXCEPT !.reload = o.reload, !.leave = o.leave]
  <1>6. tab' = [tab EXCEPT ![t] = ub]
    BY <1>2
  <1>7. /\ DOMAIN ub = TabFields /\ ub.reload = o.reload /\ ub.leave = o.leave
        /\ \A f \in TabFields \ {"reload", "leave"} : ub[f] = tb[f]
    BY <1>1 DEF TabOK, TabFields
  <1> HIDE DEF ub
  <1>8. DetailTab(ub)
    <2>1. ub.page = tb.page /\ ub.id = tb.id /\ ub.data = tb.data /\ ub.seen = tb.seen /\ ub.own = tb.own
      BY <1>7 DEF TabFields
    <2> QED
      BY <1>1, <2>1, DetailTabKept DEF TabOK
  <1>9. TabOK(focus, ub)
    BY <1>1, <1>3, <1>7, <1>8 DEF TabOK, Offered, TabFields, FormKept, DetailTab
  <1>10. DOMAIN tab' = Tabs /\ \A u \in Tabs : TabOK(focus, tab'[u])
    BY <1>6, <1>9, TabsPut
  <1> QED
    BY <1>5, <1>10, Settles DEF act, others

LEMMA OpenedTab ==
    ASSUME NEW tb, NEW there, NEW id, DOMAIN tb = TabFields
    PROVE  LET ub == opened(tb, there, id) IN
           /\ DOMAIN ub = TabFields /\ DetailTab(ub) /\ ub.page = there /\ ub.id = id
           /\ \A n \in DOMAIN ub.data : ub.data[n] = Null /\ ub.seen[n] = 0 /\ ub.own[n] = 0
           /\ \A f \in TabFields \ {"page", "id", "data", "seen", "own"} : ub[f] = tb[f]
  <1> DEFINE new == [tb EXCEPT !.page = there, !.id = id]
             blank == unread(new)
             zero == [n \in DOMAIN blank |-> 0]
             ub == [new EXCEPT !.data = blank, !.seen = zero, !.own = zero]
  <1>1. opened(tb, there, id) = ub
    BY DEF opened
  <1>2. /\ DOMAIN new = TabFields /\ new.page = there /\ new.id = id
        /\ \A f \in TabFields \ {"page", "id"} : new[f] = tb[f]
    BY DEF TabFields
  <1>3. DOMAIN blank = DOMAIN pageQueries(new) /\ \A n \in DOMAIN blank : blank[n] = Null
    BY DEF unread
  <1> HIDE DEF new, blank
  <1>4. DOMAIN zero = DOMAIN blank /\ \A n \in DOMAIN blank : zero[n] = 0
    OBVIOUS
  <1> HIDE DEF zero
  <1>5. /\ DOMAIN ub = TabFields /\ ub.data = blank /\ ub.seen = zero /\ ub.own = zero
        /\ \A f \in TabFields \ {"data", "seen", "own"} : ub[f] = new[f]
    BY <1>2 DEF TabFields
  <1> HIDE DEF ub
  <1>6. ub.page = new.page /\ ub.id = new.id
    BY <1>5 DEF TabFields
  <1>7. DetailTab(ub)
    BY <1>3, <1>4, <1>5, <1>6, SameQueries DEF DetailTab
  <1> QED
    BY <1>1, <1>2, <1>3, <1>4, <1>5, <1>6, <1>7

\* What an answered button does: nothing, a reload, or another page.
There(s) ==
    opened([tab[s[1]] EXCEPT !.deleted = IF wire[s].status = 204
                                         THEN @ \cup {<<tableOf(wire[s].q.route), wire[s].q.id>>} ELSE @],
           tab[s[1]].leave, wire[s].data)
Own(s) == [n \in DOMAIN tab[s[1]].own |-> IF n \in wire[s].changed THEN wire[s].rev ELSE tab[s[1]].own[n]]
Blank(t) == [o \in Slots |-> IF o[1] = t THEN NoRequest ELSE wire[o]]

LEMMA ActAnsweredStep ==
    ASSUME ConsoleInv, NEW s \in Slots, actAnswered(s)
    PROVE  /\ focus = "pages" /\ s[1] \in Tabs /\ s = <<s[1], "a">>
           /\ \/ tab' = tab /\ wire' = quiet(s)
              \/ /\ tab[s[1]].leave = "stay"
                 /\ tab' = [tab EXCEPT ![s[1]].own = Own(s)]
                 /\ wire' = reading(quiet(s), s[1], tab[s[1]], tab[s[1]].reload)
              \/ /\ tab[s[1]].leave # "stay"
                 /\ tab' = [tab EXCEPT ![s[1]] = There(s)]
                 /\ wire' = reading(Blank(s[1]), s[1], There(s), byPage(There(s)))
  <1>1. Placed(focus, s, "act")
    BY AnswerOf DEF actAnswered, answeredTo
  <1>2. focus = "pages" /\ s[1] \in Tabs /\ s = <<s[1], "a">>
    BY <1>1, SlotShape DEF Placed, AuthUses
  <1>3. CASE ~good(s)
    <2>1. tab' = tab /\ wire' = quiet(s)
      BY <1>3 DEF actAnswered
    <2> QED
      BY <1>2, <2>1
  <1>4. CASE good(s) /\ tab[s[1]].leave = "stay"
    <2>1. /\ tab' = [tab EXCEPT ![s[1]].own = Own(s)]
          /\ wire' = reading(quiet(s), s[1], tab[s[1]], tab[s[1]].reload)
      BY <1>4 DEF actAnswered, Own
    <2> QED
      BY <1>2, <1>4, <2>1
  <1>5. CASE good(s) /\ tab[s[1]].leave # "stay"
    <2>1. /\ tab' = [tab EXCEPT ![s[1]] = There(s)]
          /\ wire' = reading(Blank(s[1]), s[1], There(s), byPage(There(s)))
      BY <1>5 DEF actAnswered, There, Blank
    <2> QED
      BY <1>2, <1>5, <2>1
  <1> QED
    BY <1>3, <1>4, <1>5

LEMMA ThereTab ==
    ASSUME ConsoleInv, focus = "pages", NEW s, s[1] \in Tabs, tab[s[1]].leave # "stay"
    PROVE  /\ TabOK(focus, There(s)) /\ There(s).leave # "stay"
           /\ \A n \in DOMAIN There(s).data : There(s).data[n] = Null /\ There(s).seen[n] = 0 /\ There(s).own[n] = 0
  <1> DEFINE tb == tab[s[1]]
             new == [tb EXCEPT !.deleted = IF wire[s].status = 204
                                           THEN @ \cup {<<tableOf(wire[s].q.route), wire[s].q.id>>} ELSE @]
             ub == opened(new, tb.leave, wire[s].data)
  <1>1. TabOK("pages", tb) /\ There(s) = ub
    BY TheTab DEF There
  <1>2. DOMAIN new = TabFields /\ \A f \in TabFields \ {"deleted"} : new[f] = tb[f]
    BY <1>1 DEF TabOK
  <1> HIDE DEF new
  <1>3. /\ DOMAIN ub = TabFields /\ DetailTab(ub) /\ ub.page = tb.leave
        /\ \A n \in DOMAIN ub.data : ub.data[n] = Null /\ ub.seen[n] = 0 /\ ub.own[n] = 0
        /\ \A f \in TabFields \ {"page", "id", "data", "seen", "own"} : ub[f] = new[f]
    BY <1>2, OpenedTab
  <1> HIDE DEF ub
  <1>4. /\ ub.leave = tb.leave /\ ub.selected = tb.selected /\ ub.stack = tb.stack /\ ub.cursor = tb.cursor
        /\ ub.saving = tb.saving /\ ub.form = tb.form /\ ub.typed = tb.typed
    BY <1>2, <1>3 DEF TabFields
  <1>5. TabOK("pages", ub)
    BY <1>1, <1>3, <1>4 DEF TabOK, FormKept
  <1> QED
    BY <1>1, <1>3, <1>4, <1>5

LEMMA WiredBlank ==
    ASSUME ConsoleInv, NEW t
    PROVE  Wired(Blank(t))
  BY FreeInFlight DEF Blank, Wired, ConsoleInv

LEMMA ActAnsweredInv ==
    ASSUME ConsoleInv, NEW s \in Slots, actAnswered(s)
    PROVE  ConsoleInv'
  <1>0. UNCHANGED <<focus, accepted, db, session>>
    BY DEF actAnswered, others
  <1>1. focus = "pages" /\ s[1] \in Tabs
    BY ActAnsweredStep
  <1> DEFINE t == s[1]
             tb == tab[t]
  <1>2. TabOK("pages", tb)
    BY <1>1, TheTab
  <1>3. CASE tab' = tab /\ wire' = quiet(s)
    BY <1>0, <1>3, WiredQuiet, TabsStay, Settles
  <1>4. CASE /\ tb.leave = "stay" /\ tab' = [tab EXCEPT ![t].own = Own(s)]
             /\ wire' = reading(quiet(s), t, tb, tb.reload)
    <2> DEFINE ub == [tb EXCEPT !.own = Own(s)]
    <2>1. tab' = [tab EXCEPT ![t] = ub]
      BY <1>4
    <2>2. /\ DOMAIN ub = TabFields /\ ub.own = Own(s)
          /\ \A f \in TabFields \ {"own"} : ub[f] = tb[f]
      BY <1>2 DEF TabOK, TabFields
    <2>3. DOMAIN Own(s) = DOMAIN tb.own
      BY DEF Own
    <2> HIDE DEF ub
    <2>4. DetailTab(ub)
      <3>1. ub.page = tb.page /\ ub.id = tb.id /\ ub.data = tb.data /\ ub.seen = tb.seen
        BY <2>2 DEF TabFields
      <3> QED
        BY <1>2, <2>2, <2>3, <3>1, DetailTabKept DEF TabOK
    <2>5. TabOK(focus, ub)
      BY <1>1, <1>2, <2>2, <2>4 DEF TabOK, TabFields, FormKept
    <2>6. DOMAIN tab' = Tabs /\ \A u \in Tabs : TabOK(focus, tab'[u])
      BY <2>1, <2>5, TabsPut
    <2>7. tb.reload \subseteq DOMAIN pageQueries(tb)
      BY <1>2, <1>4 DEF TabOK, DetailTab
    <2>8. Wired(wire')
      BY <1>1, <1>4, <2>7, WiredQuiet, WiredReading
    <2> QED
      BY <1>0, <2>6, <2>8, Settles
  <1>5. CASE /\ tb.leave # "stay" /\ tab' = [tab EXCEPT ![t] = There(s)]
             /\ wire' = reading(Blank(t), t, There(s), byPage(There(s)))
    <2>1. TabOK(focus, There(s))
      BY <1>1, <1>5, ThereTab
    <2>2. DOMAIN tab' = Tabs /\ \A u \in Tabs : TabOK(focus, tab'[u])
      BY <1>5, <2>1, TabsPut
    <2>3. byPage(There(s)) \subseteq DOMAIN pageQueries(There(s))
      BY <1>1, <2>1 DEF TabOK, DetailTab, byPage
    <2>4. Wired(wire')
      BY <1>1, <1>5, <2>3, WiredBlank, WiredReading
    <2> QED
      BY <1>0, <2>2, <2>4, Settles
  <1> QED
    BY <1>3, <1>4, <1>5, ActAnsweredStep

LEMMA RefreshPageInv ==
    ASSUME ConsoleInv, NEW t \in Tabs, refreshPage(t)
    PROVE  ConsoleInv'
  <1>1. PICK n \in DOMAIN tab[t].data : wire' = reading(wire, t, tab[t], {n})
    BY DEF refreshPage, byPage
  <1>2. focus = "pages" /\ {n} \subseteq DOMAIN pageQueries(tab[t])
    BY TheTab DEF refreshPage, TabOK, DetailTab
  <1>3. Wired(wire')
    BY <1>1, <1>2, WiredReading DEF ConsoleInv
  <1> QED
    BY <1>3, Settles, TabsStay DEF refreshPage, others

\* The tab once a read has arrived.
Arrived(tb, n, data, rev) == [tb EXCEPT !.data = shown(@, n, data), !.seen[n] = rev]

LEMMA ArrivedTab ==
    ASSUME NEW tb, TabOK("pages", tb), NEW n, NEW data, NEW rev
    PROVE  LET ub == Arrived(tb, n, data, rev) IN
           /\ TabOK("pages", ub) /\ ub.page = tb.page /\ ub.id = tb.id /\ ub.own = tb.own
           /\ ub.reload = tb.reload /\ ub.leave = tb.leave
           /\ ub.data = shown(tb.data, n, data) /\ ub.seen = [tb.seen EXCEPT ![n] = rev]
  <1> DEFINE da == shown(tb.data, n, data)
             se == [tb.seen EXCEPT ![n] = rev]
             ub == [tb EXCEPT !.data = da, !.seen = se]
  <1>1. Arrived(tb, n, data, rev) = ub
    BY DEF Arrived, TabOK, TabFields
  <1>2. DOMAIN da = DOMAIN tb.data /\ DOMAIN se = DOMAIN tb.seen
    BY DEF shown
  <1> HIDE DEF da, se
  <1>3. /\ DOMAIN ub = TabFields /\ ub.data = da /\ ub.seen = se
        /\ \A f \in TabFields \ {"data", "seen"} : ub[f] = tb[f]
    BY DEF TabOK, TabFields
  <1> HIDE DEF ub
  <1>4. /\ ub.page = tb.page /\ ub.id = tb.id /\ ub.own = tb.own /\ ub.reload = tb.reload /\ ub.leave = tb.leave
    BY <1>3 DEF TabFields
  <1>5. DetailTab(ub)
    BY <1>2, <1>3, <1>4, DetailTabKept DEF TabOK
  <1>6. TabOK("pages", ub)
    BY <1>2, <1>3, <1>5 DEF TabOK, TabFields, FormKept
  <1> QED
    BY <1>1, <1>3, <1>4, <1>6 DEF da, se

ArrivedFrom(ub, tb, n, rev) ==
    /\ ub.page = tb.page /\ ub.id = tb.id /\ ub.own = tb.own
    /\ ub.reload = tb.reload /\ ub.leave = tb.leave
    /\ DOMAIN ub.data = DOMAIN tb.data /\ ub.seen = [tb.seen EXCEPT ![n] = rev]

LEMMA ArrivedFields ==
    ASSUME NEW tb, TabOK("pages", tb), NEW n, NEW data, NEW rev
    PROVE  ArrivedFrom(Arrived(tb, n, data, rev), tb, n, rev)
  <1>1. DOMAIN shown(tb.data, n, data) = DOMAIN tb.data
    BY DEF shown
  <1> QED
    BY <1>1, ArrivedTab DEF ArrivedFrom

\* What an answer leaves on the wire: nothing, or the timeline's read.
LEMMA PageArrivesStep ==
    ASSUME ConsoleInv, NEW s \in Slots, pageArrives(s)
    PROVE  LET n == nameIn(tab[s[1]], s[2])
               got == IF good(s) THEN wire[s].data ELSE Null
           IN /\ focus = "pages" /\ s[1] \in Tabs /\ s[2] \in {"load", "more", "b"}
              /\ tab' = [tab EXCEPT ![s[1]] = Arrived(tab[s[1]], n, got, wire[s].rev)]
              /\ \/ wire' = quiet(s)
                 \/ \E r : /\ r \in {wire[<<s[1], "b">>], NoRequest, request(pageQueries(tab[s[1]]).audit, "reload")}
                          /\ wire' = [quiet(s) EXCEPT ![<<s[1], "b">>] = r] /\ tab[s[1]].page = "license"
  <1>1. Placed(focus, s, "reload")
    BY AnswerOf DEF pageArrives, answeredTo
  <1>2. focus = "pages" /\ s[1] \in Tabs /\ s[2] \in {"load", "more", "b"}
    BY <1>1, SlotShape DEF Placed, AuthUses
  <1> DEFINE n == nameIn(tab[s[1]], s[2])
             da == IF good(s) THEN wire[s].data ELSE Null
  <1>3. tab' = [tab EXCEPT ![s[1]].data = shown(@, n, da), ![s[1]].seen[n] = wire[s].rev]
    BY DEF pageArrives
  <1>5. \/ wire' = quiet(s)
        \/ \E r : /\ r \in {wire[<<s[1], "b">>], NoRequest, request(pageQueries(tab[s[1]]).audit, "reload")}
                 /\ wire' = [quiet(s) EXCEPT ![<<s[1], "b">>] = r] /\ tab[s[1]].page = "license"
    <2>1. laneOf("audit") = "b"
      BY DEF laneOf
    <2> DEFINE log == <<s[1], "b">>
               r == timeline(tab[s[1]], da, quiet(s)[log])
    <2>2. wire' = IF tab[s[1]].page = "license" /\ n = "license" THEN [quiet(s) EXCEPT ![log] = r] ELSE quiet(s)
      BY <2>1 DEF pageArrives
    <2>3. quiet(s)[log] \in {wire[log], NoRequest}
      BY <1>2, SlotShape DEF quiet, ConsoleInv, Wired, Lanes
    <2>4. r \in {wire[log], NoRequest, request(pageQueries(tab[s[1]]).audit, "reload")}
      BY <2>3 DEF timeline
    <2> HIDE DEF r, n
    <2> QED
      BY <2>2, <2>4
  <1> HIDE DEF n, da
  <1>4. tab' = [tab EXCEPT ![s[1]] = Arrived(tab[s[1]], n, da, wire[s].rev)]
    BY <1>2, <1>3 DEF Arrived, ConsoleInv
  <1> QED
    BY <1>2, <1>4, <1>5 DEF n, da

LEMMA PageArrivesInv ==
    ASSUME ConsoleInv, NEW s \in Slots, pageArrives(s)
    PROVE  ConsoleInv'
  <1> DEFINE t == s[1]
             log == <<t, "b">>
             ask == request(pageQueries(tab[t]).audit, "reload")
  <1>1. focus = "pages" /\ t \in Tabs
    BY PageArrivesStep
  <1>2. PICK n, da, rev : tab' = [tab EXCEPT ![t] = Arrived(tab[t], n, da, rev)]
    <2>1. tab' = [tab EXCEPT ![t] = Arrived(tab[t], nameIn(tab[t], s[2]), IF good(s) THEN wire[s].data ELSE Null,
                                            wire[s].rev)]
      BY PageArrivesStep
    <2> QED
      BY <2>1, Zenon
  <1>3. TabOK(focus, Arrived(tab[t], n, da, rev))
    BY <1>1, TheTab, ArrivedTab
  <1>4. DOMAIN tab' = Tabs /\ \A u \in Tabs : TabOK(focus, tab'[u])
    BY <1>2, <1>3, TabsPut
  <1>5. \/ wire' = quiet(s)
        \/ \E r : r \in {wire[log], NoRequest, ask} /\ wire' = [quiet(s) EXCEPT ![log] = r] /\ tab[t].page = "license"
    BY PageArrivesStep
  <1>6. Wired(quiet(s))
    BY WiredQuiet
  <1>7. CASE wire' = quiet(s)
    BY <1>4, <1>6, <1>7, Settles DEF pageArrives, others
  <1>8. ASSUME NEW r, r \in {wire[log], NoRequest, ask}, wire' = [quiet(s) EXCEPT ![log] = r], tab[t].page = "license"
        PROVE  ConsoleInv'
    <2>1. log \in Slots
      BY <1>1, SlotShape DEF Lanes
    <2>2. "audit" \in DOMAIN pageQueries(tab[t])
      BY <1>8 DEF pageQueries, licenseReads
    <2>3. Placed(focus, log, "reload") /\ AsksIn(focus, pageQueries(tab[t]).audit)
      BY <1>1, <2>2, PageReads, ConsoleAssumption DEF Placed, AsksIn
    <2>4. InFlight(focus, accepted, db, log, ask)
      BY <2>3, AskedInFlight DEF AuthUses
    <2>5. InFlight(focus, accepted, db, log, wire[log]) /\ InFlight(focus, accepted, db, log, NoRequest)
      BY <2>1, FreeInFlight DEF ConsoleInv, Wired
    <2> HIDE DEF log, ask
    <2>6. InFlight(focus, accepted, db, log, r)
      BY <1>8, <2>4, <2>5
    <2>7. Wired(wire')
      BY <1>6, <1>8, <2>6, WiredPut
    <2> QED
      BY <1>4, <2>7, Settles DEF pageArrives, others
  <1> QED
    BY <1>5, <1>7, <1>8

-----------------------------------------------------------------------------
(* The template editor.                                                      *)

\* An editor's tab: the form has every field the editor shows.
LEMMA EditorTab ==
    ASSUME NEW tb, TabOK("form", tb), NEW ub, DOMAIN ub = TabFields,
           \A f \in TabFields \ {"data", "form", "typed", "saving", "reported"} : ub[f] = tb[f],
           DOMAIN ub.data = DOMAIN tb.data, DOMAIN ub.form = EditableColumns, FormKept(ub)
    PROVE  TabOK("form", ub)
  <1>1. /\ ub.page = tb.page /\ ub.id = tb.id /\ ub.seen = tb.seen /\ ub.own = tb.own
        /\ ub.selected = tb.selected /\ ub.stack = tb.stack /\ ub.cursor = tb.cursor
    BY DEF TabFields
  <1>2. DetailTab(ub)
    BY <1>1, DetailTabKept DEF TabOK
  <1> QED
    BY <1>1, <1>2 DEF TabOK

LEMMA TypeInv ==
    ASSUME ConsoleInv, NEW t \in Tabs, type(t)
    PROVE  ConsoleInv'
  <1> DEFINE tb == tab[t]
  <1>1. focus = "form" /\ TabOK("form", tb)
    BY TheTab DEF type
  <1>2. PICK e \in Typing :
          tab' = [tab EXCEPT ![t].form[e[1]] = e[2],
                             ![t].typed = [f \in DOMAIN @ \cup {e[1]} |-> IF f = e[1] THEN e[2] ELSE @[f]]]
    BY DEF type
  <1> DEFINE form == [tb.form EXCEPT ![e[1]] = e[2]]
             typed == [f \in DOMAIN tb.typed \cup {e[1]} |-> IF f = e[1] THEN e[2] ELSE tb.typed[f]]
             ub == [tb EXCEPT !.form = form, !.typed = typed]
  <1>3. tab' = [tab EXCEPT ![t] = ub]
    BY <1>1, <1>2 DEF TabOK, TabFields, ConsoleInv
  <1>4. e[1] \in EditableColumns
    BY DEF Typing, EditableColumns, TemplateColumns
  <1>5. /\ DOMAIN form = EditableColumns
        /\ FormKept(tb) /\ tb.saving => \A f \in DOMAIN typed : form[f] = typed[f]
    BY <1>1, <1>4 DEF TabOK, FormKept
  <1> HIDE DEF form, typed
  <1>6. /\ DOMAIN ub = TabFields /\ ub.form = form /\ ub.typed = typed
        /\ \A f \in TabFields \ {"form", "typed"} : ub[f] = tb[f]
    BY <1>1 DEF TabOK, TabFields
  <1> HIDE DEF ub
  <1>7. ub.data = tb.data /\ ub.saving = tb.saving
    BY <1>6 DEF TabFields
  <1>8. FormKept(ub)
    BY <1>1, <1>5, <1>6, <1>7 DEF FormKept, TabOK
  <1>9. TabOK(focus, ub)
    BY <1>1, <1>5, <1>6, <1>7, <1>8, EditorTab
  <1>10. DOMAIN tab' = Tabs /\ \A u \in Tabs : TabOK(focus, tab'[u])
    BY <1>3, <1>9, TabsPut
  <1> QED
    BY <1>10, Settles DEF type, others, ConsoleInv

LEMMA SubmitInv ==
    ASSUME ConsoleInv, NEW t \in Tabs, submit(t)
    PROVE  ConsoleInv'
  <1> DEFINE tb == tab[t]
             body == patchBody(tb.form)
             q == post("updateTemplate", 1, body)
             ub == [tb EXCEPT !.saving = TRUE, !.typed = <<>>]
  <1>1. focus = "form" /\ TabOK("form", tb)
    BY TheTab DEF submit
  <1>2. DOMAIN body = EditableColumns
    BY <1>1 DEF patchBody, TabOK
  <1>3. Asks(q)
    BY <1>2, UpdateAsks
  <1>4. wire' = [wire EXCEPT ![<<t, "a">>] = request(q, "save")] /\ tab' = [tab EXCEPT ![t] = ub]
    BY DEF submit
  <1>5. Placed(focus, <<t, "a">>, "save") /\ AsksIn(focus, q)
    BY <1>1, <1>3, ConsoleAssumption DEF Placed, AsksIn
  <1> HIDE DEF q
  <1>6. Wired(wire')
    BY <1>4, <1>5, WiredAsk DEF ConsoleInv, AuthUses
  <1>7. /\ DOMAIN ub = TabFields /\ ub.saving = TRUE /\ ub.typed = <<>>
        /\ \A f \in TabFields \ {"saving", "typed"} : ub[f] = tb[f]
    BY <1>1 DEF TabOK, TabFields
  <1> HIDE DEF ub
  <1>8. ub.data = tb.data /\ ub.form = tb.form /\ FormKept(ub)
    BY <1>7 DEF TabFields, FormKept
  <1>9. TabOK(focus, ub)
    BY <1>1, <1>7, <1>8, EditorTab DEF TabOK
  <1>10. DOMAIN tab' = Tabs /\ \A u \in Tabs : TabOK(focus, tab'[u])
    BY <1>4, <1>9, TabsPut
  <1> QED
    BY <1>6, <1>10, Settles DEF submit, others

LEMMA TemplateRead ==
    ASSUME ConsoleInv, focus = "form", NEW w, Wired(w), NEW t \in Tabs
    PROVE  Wired([w EXCEPT ![<<t, "load">>] = request(get("getTemplate", 1), "template")])
  <1>1. Asks(get("getTemplate", 1))
    BY GetAsks DEF AdminRoutes
  <1>2. Placed(focus, <<t, "load">>, "template") /\ AsksIn(focus, get("getTemplate", 1))
    BY <1>1, ConsoleAssumption DEF Placed, AsksIn
  <1> QED
    BY <1>2, WiredAsk DEF AuthUses

LEMMA RefreshTemplateInv ==
    ASSUME ConsoleInv, NEW t \in Tabs, refreshTemplate(t)
    PROVE  ConsoleInv'
  <1>1. Wired(wire')
    BY TemplateRead DEF refreshTemplate, ConsoleInv
  <1> QED
    BY <1>1, Settles, TabsStay DEF refreshTemplate, others

LEMMA SavedInv ==
    ASSUME ConsoleInv, NEW s \in Slots, saved(s)
    PROVE  ConsoleInv'
  <1>0. UNCHANGED <<focus, accepted, db, session>>
    BY DEF saved, others
  <1>1. Placed(focus, s, "save")
    BY AnswerOf DEF saved, answeredTo
  <1>2. focus = "form" /\ s[1] \in Tabs
    BY <1>1, SlotShape DEF Placed, AuthUses
  <1>3. CASE good(s)
    <2>1. Wired(wire')
      BY <1>2, <1>3, WiredQuiet, TemplateRead DEF saved
    <2> QED
      BY <1>0, <1>3, <2>1, Settles, TabsStay DEF saved
  <1>4. CASE ~good(s)
    <2> DEFINE tb == tab[s[1]]
               ub == [tb EXCEPT !.saving = FALSE, !.typed = tb.form]
    <2>1. wire' = quiet(s) /\ tab' = [tab EXCEPT ![s[1]] = ub]
      BY <1>4 DEF saved
    <2>2. TabOK("form", tb)
      BY <1>2, TheTab
    <2>3. /\ DOMAIN ub = TabFields /\ ub.saving = FALSE
          /\ \A f \in TabFields \ {"saving", "typed"} : ub[f] = tb[f]
      BY <2>2 DEF TabOK, TabFields
    <2> HIDE DEF ub
    <2>4. ub.data = tb.data /\ ub.form = tb.form /\ FormKept(ub)
      BY <2>3 DEF TabFields, FormKept
    <2>5. TabOK(focus, ub)
      BY <1>2, <2>2, <2>3, <2>4, EditorTab DEF TabOK
    <2>6. DOMAIN tab' = Tabs /\ \A u \in Tabs : TabOK(focus, tab'[u])
      BY <2>1, <2>5, TabsPut
    <2> QED
      BY <1>0, <2>1, <2>6, WiredQuiet, Settles
  <1> QED
    BY <1>3, <1>4

LEMMA SyncedTab ==
    ASSUME NEW tb, TabOK("form", tb), NEW row
    PROVE  TabOK("form", synced(tb, row))
  <1> DEFINE da == [tb.data EXCEPT !.template = row]
  <1>1. DOMAIN da = DOMAIN tb.data
    OBVIOUS
  <1>2. CASE row = Null \/ tb.saving
    <2> DEFINE ub == [tb EXCEPT !.data = da]
    <2>1. synced(tb, row) = ub
      BY <1>2 DEF synced, TabOK, TabFields
    <2> HIDE DEF da
    <2>2. /\ DOMAIN ub = TabFields /\ ub.data = da
          /\ \A f \in TabFields \ {"data"} : ub[f] = tb[f]
      BY DEF TabOK, TabFields
    <2> HIDE DEF ub
    <2>3. ub.form = tb.form /\ ub.typed = tb.typed /\ ub.saving = tb.saving
      BY <2>2 DEF TabFields
    <2>4. FormKept(ub)
      BY <2>3 DEF FormKept, TabOK
    <2>5. TabOK("form", ub)
      BY <1>1, <2>2, <2>3, <2>4, EditorTab DEF TabOK
    <2> QED
      BY <2>1, <2>5
  <1>3. CASE ~(row = Null \/ tb.saving)
    <2> DEFINE form == formOf(row)
               ub == [tb EXCEPT !.data = da, !.form = form, !.typed = <<>>]
    <2>1. synced(tb, row) = ub
      BY <1>3 DEF synced, TabOK, TabFields
    <2>2. DOMAIN form = EditableColumns
      BY RuleColumns DEF formOf
    <2> HIDE DEF da, form
    <2>3. /\ DOMAIN ub = TabFields /\ ub.data = da /\ ub.form = form /\ ub.typed = <<>>
          /\ \A f \in TabFields \ {"data", "form", "typed"} : ub[f] = tb[f]
      BY DEF TabOK, TabFields
    <2> HIDE DEF ub
    <2>4. FormKept(ub)
      BY <2>3 DEF FormKept
    <2>5. TabOK("form", ub)
      BY <1>1, <2>2, <2>3, <2>4, EditorTab
    <2> QED
      BY <2>1, <2>5
  <1> QED
    BY <1>2, <1>3

LEMMA TemplateArrivesInv ==
    ASSUME ConsoleInv, NEW s \in Slots, templateArrives(s)
    PROVE  ConsoleInv'
  <1>1. Placed(focus, s, "template")
    BY AnswerOf DEF templateArrives, answeredTo
  <1>2. focus = "form" /\ s[1] \in Tabs
    BY <1>1, SlotShape DEF Placed, AuthUses
  <1> DEFINE tb == tab[s[1]]
             row == IF good(s) THEN wire[s].data ELSE Null
             q == pageQueries(tb).all
  <1>3. TabOK("form", tb)
    BY <1>2, TheTab
  <1>4. tab' = [tab EXCEPT ![s[1]] = synced(tb, row)]
    BY DEF templateArrives
  <1>5. wire' = quiet(s) \/ wire' = [quiet(s) EXCEPT ![<<s[1], "more">>] = request(q, "all")]
    BY DEF templateArrives
  <1>6. Asks(q)
    <2>1. pageQueries(tb) = templateReads(tb.id)
      BY <1>3 DEF pageQueries, TabOK
    <2>2. q = list("listTemplates", pageOf(200), Null, NoFilter)
      BY <2>1 DEF templateReads
    <2> QED
      BY <2>2, ListAsks DEF ListRoutes
  <1> HIDE DEF row, q
  <1>7. Placed(focus, <<s[1], "more">>, "all") /\ AsksIn(focus, q)
    BY <1>2, <1>6, ConsoleAssumption DEF Placed, AsksIn
  <1>8. Wired(wire')
    BY <1>5, <1>7, WiredQuiet, WiredAsk, SMTT(30) DEF AuthUses
  <1>9. TabOK(focus, synced(tb, row))
    BY <1>2, <1>3, SyncedTab
  <1>10. DOMAIN tab' = Tabs /\ \A u \in Tabs : TabOK(focus, tab'[u])
    BY <1>4, <1>9, TabsPut
  <1> QED
    BY <1>8, <1>10, Settles DEF templateArrives, others

LEMMA AllArriveInv ==
    ASSUME ConsoleInv, NEW s \in Slots, allArrive(s)
    PROVE  ConsoleInv'
  <1>1. Placed(focus, s, "all")
    BY AnswerOf DEF allArrive, answeredTo
  <1>2. focus = "form" /\ s[1] \in Tabs
    BY <1>1, SlotShape DEF Placed, AuthUses
  <1> DEFINE tb == tab[s[1]]
             da == [tb.data EXCEPT !.all = IF good(s) THEN wire[s].data ELSE Null]
             rep == wire[s].status # 0
             ub == [tb EXCEPT !.data = da, !.saving = FALSE, !.reported = rep]
  <1>3. TabOK("form", tb)
    BY <1>2, TheTab
  <1>4. tab' = [tab EXCEPT ![s[1]] = ub]
    BY <1>2, <1>3 DEF allArrive, TabOK, TabFields, ConsoleInv
  <1>5. DOMAIN da = DOMAIN tb.data
    OBVIOUS
  <1> HIDE DEF da, rep
  <1>6. /\ DOMAIN ub = TabFields /\ ub.data = da /\ ub.saving = FALSE
        /\ \A f \in TabFields \ {"data", "saving", "reported"} : ub[f] = tb[f]
    BY <1>3 DEF TabOK, TabFields
  <1> HIDE DEF ub
  <1>7. ub.form = tb.form /\ FormKept(ub)
    BY <1>6 DEF TabFields, FormKept
  <1>8. TabOK(focus, ub)
    BY <1>2, <1>3, <1>5, <1>6, <1>7, EditorTab DEF TabOK
  <1>9. DOMAIN tab' = Tabs /\ \A u \in Tabs : TabOK(focus, tab'[u])
    BY <1>4, <1>8, TabsPut
  <1> QED
    BY <1>9, WiredQuiet, Settles DEF allArrive, others

-----------------------------------------------------------------------------
(* Signing in and out.                                                       *)

LEMMA AuthInFlight ==
    ASSUME ConsoleInv, focus = "session", NEW s, NEW r, DOMAIN r = RequestFields, r.at \in {"sent", "answered"},
           r.use \in AuthUses, r.q.route \in AuthRoutes, r.rev = 0, Placed(focus, s, r.use)
    PROVE  InFlight(focus, accepted, db, s, r)
  BY DEF InFlight, AuthUses, ConsoleInv, DbOK

LEMMA AuthServeInv ==
    ASSUME ConsoleInv, NEW s \in Slots, authServe(s)
    PROVE  ConsoleInv'
  <1> DEFINE r == wire[s]
  <1>1. InFlight(focus, accepted, db, s, r) /\ r.at = "sent" /\ r.q.route \in AuthRoutes
    BY TheSlot DEF authServe
  <1>2. r.use \in AuthUses
    BY <1>1 DEF InFlight, AsksIn, Asks, AuthRoutes, AdminRoutes, ListRoutes
  <1>3. focus = "session"
    BY <1>1, <1>2 DEF InFlight, Placed, AuthUses
  <1>4. PICK st : wire' = [wire EXCEPT ![s].at = "answered", ![s].status = st]
    BY DEF authServe
  <1> DEFINE v == [r EXCEPT !.at = "answered", !.status = st]
  <1>5. wire' = [wire EXCEPT ![s] = v]
    BY <1>4
  <1>6. /\ DOMAIN v = RequestFields /\ v.at = "answered" /\ v.use = r.use /\ v.q = r.q /\ v.rev = r.rev
    BY <1>1 DEF InFlight, RequestFields
  <1> HIDE DEF v
  <1>7. InFlight(focus, accepted, db, s, v)
    BY <1>1, <1>2, <1>3, <1>6 DEF InFlight
  <1>8. Wired(wire')
    BY <1>5, <1>7, WiredPut DEF ConsoleInv
  <1> QED
    BY <1>8, Settles, TabsStay DEF authServe

LEMMA SignRequests ==
    ASSUME ConsoleInv, focus = "session", NEW t, t # "api", NEW q, q.route \in AuthRoutes, NEW use \in AuthUses,
           NEW w, Wired(w)
    PROVE  Wired([w EXCEPT ![<<t, "a">>] = request(q, use)])
  <1> DEFINE r == request(q, use)
  <1>1. DOMAIN r = RequestFields /\ r.at = "sent" /\ r.use = use /\ r.q = q /\ r.rev = 0
    BY DEF request, NoRequest, RequestFields
  <1> HIDE DEF r
  <1>2. Placed(focus, <<t, "a">>, use)
    BY DEF Placed
  <1>3. InFlight(focus, accepted, db, <<t, "a">>, r)
    BY <1>1, <1>2, AuthInFlight
  <1>4. Wired([w EXCEPT ![<<t, "a">>] = r])
    BY <1>3, WiredPut
  <1> QED
    BY <1>4 DEF r

LEMMA SignInOutInv ==
    ASSUME ConsoleInv, NEW t \in Tabs, signIn(t) \/ signOut(t) \/ browse(t)
    PROVE  ConsoleInv'
  <1>1. focus = "session" /\ t # "api"
    BY ConsoleAssumption DEF signIn, signOut, browse
  <1>2. CASE signIn(t)
    <2>1. PICK b \in Bearers : wire' = [wire EXCEPT ![<<t, "a">>] = request([route |-> "signIn", token |-> b], "signIn")]
      BY <1>2 DEF signIn
    <2> DEFINE q == [route |-> "signIn", token |-> b]
    <2>2. q.route \in AuthRoutes /\ "signIn" \in AuthUses
      BY DEF AuthRoutes, AuthUses
    <2> HIDE DEF q
    <2>3. Wired([wire EXCEPT ![<<t, "a">>] = request(q, "signIn")])
      BY <1>1, <2>2, SignRequests DEF ConsoleInv
    <2>4. Wired(wire')
      BY <2>1, <2>3 DEF q
    <2> QED
      BY <1>2, <2>4, Settles, TabsStay DEF signIn, others
  <1>3. CASE signOut(t)
    <2> DEFINE q == [route |-> "signOut"]
    <2>1. wire' = [wire EXCEPT ![<<t, "a">>] = request(q, "signOut")]
      BY <1>3 DEF signOut
    <2>2. q.route \in AuthRoutes /\ "signOut" \in AuthUses
      BY DEF AuthRoutes, AuthUses
    <2> HIDE DEF q
    <2>5. Wired(wire)
      BY DEF ConsoleInv
    <2>3. Wired([wire EXCEPT ![<<t, "a">>] = request(q, "signOut")])
      BY <1>1, <2>2, <2>5, SignRequests
    <2>4. Wired(wire')
      BY <2>1, <2>3
    <2> QED
      BY <1>3, <2>4, <2>3, Settles, TabsStay DEF signOut, others
  <1>4. CASE browse(t)
    <2> DEFINE q == listQuery(tab[t])
    <2>1. wire' = [wire EXCEPT ![<<t, "load">>] = request(q, "rows")]
      BY <1>4 DEF browse
    <2>2. Asks(q)
      BY ListAsks DEF listQuery, ListRoutes
    <2> HIDE DEF q
    <2>3. Placed(focus, <<t, "load">>, "rows") /\ AsksIn(focus, q)
      BY <1>1, <2>2 DEF Placed, AsksIn
    <2>4. Wired(wire')
      BY <2>1, <2>3, WiredAsk DEF ConsoleInv, AuthUses
    <2> QED
      BY <1>4, <2>4, Settles, TabsStay DEF browse, others
  <1> QED
    BY <1>2, <1>3, <1>4

LEMMA AskSessionWired ==
    ASSUME ConsoleInv, focus = "session", NEW s \in Slots, s[1] # "api", s[2] = "a",
           NEW use \in AuthUses, NEW cookie
    PROVE  Wired(askSession(s, use, cookie))
  <1> DEFINE q == [route |-> "session"]
             r == [request(q, use) EXCEPT !.cookie = cookie]
  <1>1. askSession(s, use, cookie) = [wire EXCEPT ![s] = r]
    BY DEF askSession
  <1>2. q.route \in AuthRoutes
    BY DEF AuthRoutes
  <1> HIDE DEF q
  <1>3. DOMAIN r = RequestFields /\ r.at = "sent" /\ r.use = use /\ r.q = q /\ r.rev = 0
    BY DEF request, NoRequest, RequestFields
  <1> HIDE DEF r
  <1>4. Placed(focus, s, r.use)
    BY <1>3 DEF Placed
  <1>5. InFlight(focus, accepted, db, s, r)
    BY <1>2, <1>3, <1>4, AuthInFlight
  <1>6. Wired([wire EXCEPT ![s] = r])
    BY <1>5, WiredPut DEF ConsoleInv
  <1> QED
    BY <1>1, <1>6

LEMMA SignedInv ==
    ASSUME ConsoleInv, NEW s \in Slots, signedIn(s) \/ signedOut(s)
    PROVE  ConsoleInv'
  <1>1. wire[s].use \in {"signIn", "signOut"} /\ wire[s].at = "answered"
    BY DEF signedIn, signedOut, answeredTo
  <1>2. focus = "session" /\ s[1] # "api" /\ s[2] = "a"
    BY <1>1, AnswerOf DEF Placed, AuthUses
  <1>3. "enter" \in AuthUses /\ "forget" \in AuthUses
    BY DEF AuthUses
  <1>4. CASE signedIn(s)
    <2>1. wire' = quiet(s) \/ wire' = askSession(s, "enter", sealed(s))
      BY <1>4 DEF signedIn
    <2>2. Wired(wire')
      BY <1>2, <1>3, <2>1, WiredQuiet, AskSessionWired
    <2> QED
      BY <1>2, <1>4, <2>2, Settles, TabsStay DEF signedIn, others
  <1>5. CASE signedOut(s)
    <2>1. PICK c : wire' = askSession(s, "forget", c)
      BY <1>5 DEF signedOut
    <2>2. Wired(wire')
      BY <1>2, <1>3, <2>1, AskSessionWired
    <2> QED
      BY <1>2, <1>5, <2>2, Settles, TabsStay DEF signedOut, others
  <1> QED
    BY <1>4, <1>5

LEMMA GuardTab ==
    ASSUME NEW tb, TabOK("session", tb), NEW in
    PROVE  TabOK("session", routeGuard(tb, in))
  <1> DEFINE there == IF in THEN "licenses" ELSE "sign-in"
             ub == [tb EXCEPT !.loggedIn = in, !.page = there]
  <1>1. routeGuard(tb, in) = ub
    BY DEF routeGuard
  <1> HIDE DEF there
  <1>2. /\ DOMAIN ub = TabFields /\ \A f \in TabFields \ {"loggedIn", "page"} : ub[f] = tb[f]
    BY DEF TabOK, TabFields
  <1> HIDE DEF ub
  <1>3. TabOK("session", ub)
    BY <1>2 DEF TabOK, TabFields, FormKept
  <1> QED
    BY <1>1, <1>3

LEMMA GuardedInv ==
    ASSUME ConsoleInv, NEW s \in Slots, sessionRead(s) \/ expelled(s)
    PROVE  ConsoleInv'
  <1>1. wire[s].at = "answered" /\ (wire[s].use \in {"enter", "forget"} \/ wire[s].status = 401)
    BY DEF sessionRead, expelled
  <1>2. focus = "session"
    BY <1>1, AnswerOf, TheSlot DEF InFlight, Placed, AuthUses
  <1>3. PICK in : tab' = [tab EXCEPT ![s[1]] = routeGuard(tab[s[1]], in)]
    BY DEF sessionRead, expelled
  <1>4. s[1] \in Tabs => TabOK(focus, routeGuard(tab[s[1]], in))
    BY <1>2, TheTab, GuardTab
  <1>5. DOMAIN tab' = Tabs /\ \A u \in Tabs : TabOK(focus, tab'[u])
    BY <1>3, <1>4, TabsPut
  <1>6. wire' = quiet(s) /\ UNCHANGED <<focus, accepted, db>>
    BY DEF sessionRead, expelled, others
  <1>7. Wired(wire')
    BY <1>6, WiredQuiet
  <1> QED
    BY <1>2, <1>5, <1>6, <1>7, Settles

LEMMA RevokeBearerInv ==
    ASSUME ConsoleInv, revokeBearer
    PROVE  ConsoleInv'
  <1>1. focus = "session" /\ UNCHANGED <<focus, db, session, tab, wire>>
    BY DEF revokeBearer
  <1>2. \A s \in Slots : InFlight(focus, accepted', db, s, wire[s])
    BY <1>1, TheSlot DEF InFlight
  <1> QED
    BY <1>1, <1>2 DEF ConsoleInv, Wired

-----------------------------------------------------------------------------
LEMMA StartTable ==
    ASSUME NEW columns, NEW a, NEW b, NEW c, DOMAIN a = columns, DOMAIN b = columns, DOMAIN c = columns
    PROVE  /\ Table(<<a, b>>, columns) /\ Table(<<a, b, c>>, columns)
           /\ DOMAIN <<a, b>> = 1..2 /\ DOMAIN <<a, b, c>> = 1..3
  <1>1. ASSUME NEW rows, NEW n \in Nat, DOMAIN rows = 1..n, rows = [i \in 1..n |-> rows[i]],
               \A i \in 1..n : DOMAIN rows[i] = columns
        PROVE  Table(rows, columns)
    BY <1>1, IsASeq DEF Table
  <1>2. Table(<<a, b>>, columns)
    <2> DEFINE rows == <<a, b>>
    <2>1. /\ DOMAIN rows = 1..2 /\ rows = [i \in 1..2 |-> rows[i]]
          /\ \A i \in 1..2 : DOMAIN rows[i] = columns
      OBVIOUS
    <2> HIDE DEF rows
    <2>2. Table(rows, columns)
      BY <1>1, <2>1
    <2> QED
      BY <2>2 DEF rows
  <1>3. Table(<<a, b, c>>, columns)
    <2> DEFINE rows == <<a, b, c>>
    <2>1. /\ DOMAIN rows = 1..3 /\ rows = [i \in 1..3 |-> rows[i]]
          /\ \A i \in 1..3 : DOMAIN rows[i] = columns
      OBVIOUS
    <2> HIDE DEF rows
    <2>2. Table(rows, columns)
      BY <1>1, <2>1
    <2> QED
      BY <2>2 DEF rows
  <1> QED
    BY <1>2, <1>3

LEMMA StartDbOK == DbOK(StartDb) /\ StartDb.rev = 0 /\ DOMAIN StartDb.licenses = 1..3
  <1> DEFINE L1 == aLicense("active", 1, Null, 1)
             L2 == aLicense("suspended", 2, Null, Null)
             L3 == aLicense("active", 3, 3, Null)
             v == values(templateRules, goodTemplate)
             T1 == [v EXCEPT !.name = "base", !.parent_id = Null]
             T2 == [v EXCEPT !.name = "child", !.parent_id = 1]
  <1>1. DOMAIN L1 = LicenseColumns /\ DOMAIN L2 = LicenseColumns /\ DOMAIN L3 = LicenseColumns
    BY DEF aLicense, LicenseColumns
  <1>2. DOMAIN T1 = TemplateColumns /\ DOMAIN T2 = TemplateColumns
    BY RuleColumns DEF values
  <1> DEFINE scopes == <<aScope("s1"), aScope("s2"), aScope("s0")>>
             usages == << [license_id |-> 1, status |-> "active"], [license_id |-> 3, status |-> "active"] >>
             keys == << [role |-> "root", state |-> "active"], [role |-> "signing", state |-> "active"] >>
  <1>5. StartDb = [scopes |-> scopes, templates |-> <<T1, T2>>, licenses |-> <<L1, L2, L3>>,
                   usages |-> usages, keys |-> keys, audit |-> <<>>, rev |-> 0]
    BY DEF StartDb
  <1> HIDE DEF L1, L2, L3, T1, T2, scopes, usages, keys
  <1>3. /\ StartDb.licenses = <<L1, L2, L3>> /\ StartDb.templates = <<T1, T2>> /\ StartDb.rev = 0
        /\ DOMAIN StartDb = DbFields
    BY <1>5 DEF DbFields
  <1>4. Table(<<L1, L2, L3>>, LicenseColumns)
    BY <1>1, StartTable, Zenon
  <1>6. Table(<<T1, T2>>, TemplateColumns)
    BY <1>2, StartTable, Zenon
  <1>7. DOMAIN <<L1, L2, L3>> = 1..3
    OBVIOUS
  <1> QED
    BY <1>3, <1>4, <1>6, <1>7 DEF DbOK

LEMMA NoTabFields ==
    /\ DOMAIN NoTab = TabFields
    /\ NoTab.data = NoFilter /\ NoTab.seen = NoFilter /\ NoTab.own = NoFilter /\ NoTab.saving = FALSE
    /\ NoTab.selected = <<>> /\ NoTab.stack = <<>> /\ NoTab.cursor = Null /\ NoTab.leave = "stay" /\ NoTab.reload = {}
    /\ NoTab.typed = <<>> /\ NoTab.page = "licenses" /\ NoTab.next = Null /\ NoTab.items = <<>>
    /\ NoTab.picked = {} /\ NoTab.ticked = {} /\ NoTab.wentBack = FALSE /\ NoTab.reported = FALSE
    /\ NoTab.committed = {} /\ NoTab.targets = {} /\ NoTab.done = 0 /\ NoTab.failed = 0
    /\ NoTab.mounted = TRUE /\ NoTab.stale = FALSE
  BY DEF NoTab, TabFields

LEMMA NoTabOK ==
    ASSUME NEW f \in {"api", "list", "session"}
    PROVE  TabOK(f, NoTab)
  BY NoTabFields DEF TabOK, FormKept, NoFilter

LEMMA PageOnTab ==
    ASSUME NEW name, NEW id
    PROVE  LET ub == pageOn(name, id) IN
           /\ DOMAIN ub = TabFields /\ DetailTab(ub) /\ ub.page = name /\ ub.id = id
           /\ \A n \in DOMAIN ub.data : ub.seen[n] = 0 /\ ub.own[n] = 0
           /\ \A f \in TabFields \ {"page", "id", "data", "seen", "own"} : ub[f] = NoTab[f]
  <1> DEFINE tb == opened(NoTab, name, id)
             da == [n \in DOMAIN tb.data |-> result(StartDb, pageQueries(tb)[n])]
             ub == [tb EXCEPT !.data = da]
  <1>1. pageOn(name, id) = ub
    BY DEF pageOn
  <1>2. /\ DOMAIN tb = TabFields /\ DetailTab(tb) /\ tb.page = name /\ tb.id = id
        /\ \A n \in DOMAIN tb.data : tb.data[n] = Null /\ tb.seen[n] = 0 /\ tb.own[n] = 0
        /\ \A f \in TabFields \ {"page", "id", "data", "seen", "own"} : tb[f] = NoTab[f]
    BY NoTabFields, OpenedTab
  <1>3. DOMAIN da = DOMAIN tb.data
    OBVIOUS
  <1> HIDE DEF tb, da
  <1>4. /\ DOMAIN ub = TabFields /\ ub.data = da /\ \A f \in TabFields \ {"data"} : ub[f] = tb[f]
    BY <1>2 DEF TabFields
  <1> HIDE DEF ub
  <1>5. ub.page = tb.page /\ ub.id = tb.id /\ ub.seen = tb.seen /\ ub.own = tb.own
    BY <1>4 DEF TabFields
  <1>6. DetailTab(ub)
    BY <1>2, <1>3, <1>4, <1>5, DetailTabKept
  <1> QED
    BY <1>1, <1>2, <1>3, <1>4, <1>5, <1>6

LEMMA FirstTabOK ==
    ASSUME NEW f \in {"api", "list", "pages", "form", "session"}, NEW tb \in firstTab(f)
    PROVE  TabOK(f, tb)
  <1>1. CASE f = "api"
    BY <1>1, NoTabOK DEF firstTab
  <1>2. CASE f = "list"
    <2>1. PICK items, next : tb = newRows(NoTab, items, next)
      BY <1>2 DEF firstTab
    <2>2. SameDetail(NoTab, tb)
      BY <2>1, NoTabFields DEF newRows, SameDetail, TabFields
    <2> QED
      BY <1>2, <2>2, NoTabOK, TabKept
  <1>3. CASE f = "pages"
    <2>1. PICK name, id : name \in Pages /\ tb = pageOn(name, id)
      BY <1>3 DEF firstTab, Pages
    <2>2. /\ DOMAIN tb = TabFields /\ DetailTab(tb) /\ tb.page = name
          /\ \A g \in TabFields \ {"page", "id", "data", "seen", "own"} : tb[g] = NoTab[g]
      BY <2>1, PageOnTab
    <2>3. /\ tb.saving = FALSE /\ tb.selected = <<>> /\ tb.stack = <<>> /\ tb.cursor = Null
          /\ tb.leave = "stay" /\ tb.reload = {}
      BY <2>2, NoTabFields DEF TabFields
    <2>4. name \in Pages
      BY <2>1
    <2> QED
      BY <1>3, <2>2, <2>3, <2>4 DEF TabOK, FormKept
  <1>4. CASE f = "form"
    <2> DEFINE po == pageOn("template", 1)
               form == formOf(StartDb.templates[1])
               ub == [po EXCEPT !.form = form]
    <2>1. tb = ub
      BY <1>4 DEF firstTab
    <2>2. /\ DOMAIN po = TabFields /\ DetailTab(po) /\ po.page = "template"
          /\ \A n \in DOMAIN po.data : po.seen[n] = 0 /\ po.own[n] = 0
          /\ \A g \in TabFields \ {"page", "id", "data", "seen", "own"} : po[g] = NoTab[g]
      BY PageOnTab
    <2>3. DOMAIN form = EditableColumns
      BY RuleColumns DEF formOf
    <2> HIDE DEF po, form
    <2>4. DOMAIN ub = TabFields /\ ub.form = form /\ \A g \in TabFields \ {"form"} : ub[g] = po[g]
      BY <2>2 DEF TabFields
    <2> HIDE DEF ub
    <2>5. /\ ub.page = po.page /\ ub.id = po.id /\ ub.data = po.data /\ ub.seen = po.seen /\ ub.own = po.own
          /\ ub.saving = FALSE /\ ub.selected = <<>> /\ ub.stack = <<>> /\ ub.cursor = Null
      BY <2>2, <2>4, NoTabFields DEF TabFields
    <2>6. DetailTab(ub)
      BY <2>2, <2>5, DetailTabKept
    <2>7. TabOK("form", ub)
      BY <2>2, <2>3, <2>4, <2>5, <2>6 DEF TabOK, FormKept
    <2> QED
      BY <1>4, <2>1, <2>7
  <1>5. CASE f = "session"
    <2> DEFINE ub == [NoTab EXCEPT !.page = "sign-in", !.loggedIn = FALSE]
    <2>1. tb = ub
      BY <1>5 DEF firstTab
    <2>2. DOMAIN ub = TabFields /\ \A g \in TabFields \ {"page", "loggedIn"} : ub[g] = NoTab[g]
      BY NoTabFields DEF TabFields
    <2> HIDE DEF ub
    <2>3. /\ ub.data = NoFilter /\ ub.saving = FALSE /\ ub.selected = <<>> /\ ub.stack = <<>> /\ ub.cursor = Null
      BY <2>2, NoTabFields DEF TabFields
    <2>4. TabOK("session", ub)
      BY <2>2, <2>3 DEF TabOK, FormKept, NoFilter
    <2> QED
      BY <1>5, <2>1, <2>4
  <1> QED
    BY <1>1, <1>2, <1>3, <1>4, <1>5

LEMMA ConsoleInitInv ==
    ASSUME ConsoleInit
    PROVE  ConsoleInv
  <1>1. focus \in {"api", "list", "pages", "form", "session"}
    BY ConsoleAssumption DEF ConsoleInit
  <1>2. DbOK(db)
    BY StartDbOK DEF ConsoleInit
  <1>3. focus # "session" => session \in accepted
    BY ConsoleAssumption DEF ConsoleInit
  <1>4. DOMAIN tab = Tabs /\ \A t \in Tabs : TabOK(focus, tab[t])
    <2>1. PICK tb \in firstTab(focus) : tab = [t \in Tabs |-> tb]
      BY DEF ConsoleInit
    <2>2. TabOK(focus, tb)
      BY <1>1, FirstTabOK
    <2> QED
      BY <2>1, <2>2
  <1>5. Wired(wire)
    <2> DEFINE r == NoRequest
    <2>1. DOMAIN r = RequestFields /\ r.at = "free" /\ r.use = "none" /\ r.rev = 0 /\ r.status = 0
      BY DEF NoRequest, RequestFields
    <2>2. wire = [s \in Slots |-> r]
      BY DEF ConsoleInit
    <2> HIDE DEF r
    <2>3. \A s \in Slots : InFlight(focus, accepted, db, s, r)
      BY <1>2, <2>1 DEF InFlight, AuthUses, DbOK
    <2> QED
      BY <2>2, <2>3 DEF Wired
  <1> QED
    BY <1>1, <1>2, <1>3, <1>4, <1>5 DEF ConsoleInv

\* The steps of a behaviour, by what they are about.
RequestStep(s) == proxy(s) \/ handle(s) \/ lose(s) \/ callDirectly(s) \/ hangUp(s)
TableAnswer(s) == rowsArrive(s) \/ bulkAnswered(s) \/ finishAction(s)
TableStep == \/ applyServerFilter \/ goNext \/ goPrev \/ goBack \/ refreshList
             \/ (\E i \in 1..pageOf(25) : toggleSelected(i))
             \/ runLifecycleVerb \/ runExtend \/ dismiss
PageAnswer(s) == actAnswered(s) \/ pageArrives(s)
PageStep(t) == act(t) \/ refreshPage(t)
FormAnswer(s) == saved(s) \/ templateArrives(s) \/ allArrive(s)
FormStep(t) == type(t) \/ submit(t) \/ refreshTemplate(t)
SessionAnswer(s) == authServe(s) \/ signedIn(s) \/ signedOut(s) \/ sessionRead(s) \/ expelled(s)
SessionStep(t) == signIn(t) \/ signOut(t) \/ browse(t)

LEMMA StepKinds ==
    ASSUME ConsoleNext
    PROVE  \/ \E s \in Slots : RequestStep(s) \/ TableAnswer(s) \/ PageAnswer(s) \/ FormAnswer(s) \/ SessionAnswer(s)
           \/ TableStep
           \/ \E t \in Tabs : PageStep(t) \/ FormStep(t) \/ SessionStep(t)
           \/ revokeBearer
  BY OperatorTab DEF ConsoleNext, RequestStep, TableAnswer, TableStep, PageAnswer, PageStep, FormAnswer, FormStep,
                     SessionAnswer, SessionStep

LEMMA TableStepInv ==
    ASSUME ConsoleInv, TableStep
    PROVE  ConsoleInv'
  <1>1. \A v \in Bulk : runBulk(v) => ConsoleInv'
    BY RunBulkInv
  <1>2. runLifecycleVerb \/ runExtend => \E v \in Bulk : runBulk(v)
    BY DEF runLifecycleVerb, runExtend, Bulk
  <1> QED
    BY <1>1, <1>2, PagerInv, ToggleInv, DismissInv DEF TableStep

LEMMA ConsoleNextInv ==
    ASSUME ConsoleInv, [ConsoleNext]_consoleVars
    PROVE  ConsoleInv'
  <1>1. CASE UNCHANGED consoleVars
    BY <1>1 DEF consoleVars, ConsoleInv, Wired
  <1>2. ASSUME NEW s \in Slots,
               RequestStep(s) \/ TableAnswer(s) \/ PageAnswer(s) \/ FormAnswer(s) \/ SessionAnswer(s)
        PROVE  ConsoleInv'
    BY <1>2, ProxyInv, HandleInv, LoseInv, CallDirectlyInv, HangUpInv, RowsArriveInv, BulkAnsweredInv,
       FinishActionInv, ActAnsweredInv, PageArrivesInv, SavedInv, TemplateArrivesInv, AllArriveInv, AuthServeInv,
       SignedInv, GuardedInv
       DEF RequestStep, TableAnswer, PageAnswer, FormAnswer, SessionAnswer
  <1>3. ASSUME NEW t \in Tabs, PageStep(t) \/ FormStep(t) \/ SessionStep(t)
        PROVE  ConsoleInv'
    BY <1>3, ActInv, RefreshPageInv, TypeInv, SubmitInv, RefreshTemplateInv, SignInOutInv
       DEF PageStep, FormStep, SessionStep
  <1>4. CASE ConsoleNext
    BY <1>2, <1>3, <1>4, StepKinds, TableStepInv, RevokeBearerInv
  <1> QED
    BY <1>1, <1>4

\* The requests in flight are of the page they were sent from, in its lane
\* and with its cookie, the database keeps every row, and the tabs keep what
\* their pages show: the facts every property of the admin UI rests on.
THEOREM ConsoleInvariant == ConsoleSpec => []ConsoleInv
  <1>1. ConsoleInit => ConsoleInv
    BY ConsoleInitInv
  <1>2. ConsoleInv /\ [ConsoleNext]_consoleVars => ConsoleInv'
    BY ConsoleNextInv
  <1> QED
    BY <1>1, <1>2, PTL DEF ConsoleSpec

-----------------------------------------------------------------------------
(* PATCH.                                                                    *)

\* A wire on which every slot is as it was, free or newly asked.
Steady(w) == DOMAIN w = Slots /\ \A s \in Slots : w[s] = wire[s] \/ w[s].at \in {"free", "sent"}

Fresh(r) == r.at \in {"free", "sent"}

LEMMA SteadyPut ==
    ASSUME NEW w, Steady(w), NEW s, NEW r, Fresh(r)
    PROVE  Steady([w EXCEPT ![s] = r])
  BY DEF Steady, Fresh

LEMMA SteadyAsk ==
    ASSUME NEW w, Steady(w), NEW s, NEW q, NEW use
    PROVE  Steady([w EXCEPT ![s] = request(q, use)])
  <1>1. Fresh(request(q, use))
    BY RequestShape DEF Fresh
  <1> QED
    BY <1>1, SteadyPut, Zenon

LEMMA NoRequestFree == NoRequest.at = "free" /\ Fresh(NoRequest)
  BY DEF NoRequest, Fresh

LEMMA SteadyWire ==
    ASSUME ConsoleInv
    PROVE  Steady(wire)
  BY DEF Steady, ConsoleInv, Wired

LEMMA SteadyQuiet ==
    ASSUME ConsoleInv, NEW s
    PROVE  Steady(quiet(s))
  BY SteadyWire, SteadyPut, NoRequestFree, Zenon DEF quiet

LEMMA SteadyReading ==
    ASSUME NEW w, Steady(w), NEW t, NEW tb, NEW names
    PROVE  Steady(reading(w, t, tb, names))
  <1> DEFINE pick(s) == CHOOSE n \in names : s[2] = laneOf(n)
             asking(s) == s[1] = t /\ \E n \in names : s[2] = laneOf(n)
  <1>1. reading(w, t, tb, names) =
          [s \in Slots |-> IF asking(s) THEN request(pageQueries(tb)[pick(s)], "reload") ELSE w[s]]
    BY DEF reading
  <1> HIDE DEF pick, asking
  <1>2. \A s \in Slots : request(pageQueries(tb)[pick(s)], "reload").at = "sent"
    BY RequestShape
  <1> QED
    BY <1>1, <1>2 DEF Steady

LEMMA SteadyBlank ==
    ASSUME ConsoleInv, NEW t
    PROVE  Steady(Blank(t))
  BY NoRequestFree DEF Blank, Steady

LEMMA SteadyFetch ==
    ASSUME NEW w, Steady(w), NEW tb
    PROVE  Steady(fetchList(w, tb))
  BY SteadyAsk DEF fetchList

LEMMA SteadyTableStep ==
    ASSUME ConsoleInv, TableStep
    PROVE  Steady(wire')
  <1>1. ASSUME NEW tb, navigate(tb) PROVE Steady(wire')
    BY <1>1, SteadyWire, SteadyFetch DEF navigate
  <1>2. CASE goBack \/ refreshList
    <2>1. PICK tb : wire' = fetchList(wire, tb)
      BY <1>2 DEF goBack, refreshList
    <2> QED
      BY <2>1, SteadyWire, SteadyFetch
  <1>3. ASSUME NEW i, toggleSelected(i) PROVE Steady(wire')
    BY <1>3, SteadyWire DEF toggleSelected
  <1>4. CASE dismiss
    BY <1>4, SteadyWire DEF dismiss
  <1>5. ASSUME NEW action, runBulk(action) PROVE Steady(wire')
    <2>1. DOMAIN wire' = Slots /\ \A o \in Slots : wire'[o] = wire[o] \/ \E q : wire'[o] = request(q, "bulk")
      BY <1>5 DEF runBulk, fanOut
    <2>2. \A q : request(q, "bulk").at = "sent"
      BY RequestShape
    <2> QED
      BY <2>1, <2>2 DEF Steady
  <1> QED
    BY <1>1, <1>2, <1>3, <1>4, <1>5
       DEF TableStep, applyServerFilter, goNext, goPrev, runLifecycleVerb, runExtend

LEMMA SteadyAnswer ==
    ASSUME ConsoleInv, NEW s \in Slots,
           \/ callDirectly(s) \/ hangUp(s) \/ TableAnswer(s) \/ PageAnswer(s) \/ FormAnswer(s)
           \/ signedIn(s) \/ signedOut(s) \/ sessionRead(s) \/ expelled(s)
    PROVE  Steady(wire')
  <1>1. CASE callDirectly(s)
    <2>1. PICK q : wire' = [wire EXCEPT ![s] = request(q, "direct")]
      BY <1>1 DEF callDirectly
    <2> QED
      BY <2>1, SteadyWire, SteadyAsk
  <1>2. CASE hangUp(s) \/ rowsArrive(s) \/ bulkAnswered(s) \/ allArrive(s) \/ sessionRead(s) \/ expelled(s)
    <2>1. wire' = quiet(s)
      BY <1>2 DEF hangUp, rowsArrive, bulkAnswered, allArrive, sessionRead, expelled
    <2>2. Steady(quiet(s))
      BY SteadyQuiet
    <2> QED
      BY <2>1, <2>2
  <1>3. CASE finishAction(s)
    BY <1>3, FinishActionStep, SteadyQuiet, SteadyFetch
  <1>4. CASE actAnswered(s)
    <2>1. \/ wire' = quiet(s)
          \/ wire' = reading(quiet(s), s[1], tab[s[1]], tab[s[1]].reload)
          \/ wire' = reading(Blank(s[1]), s[1], There(s), byPage(There(s)))
      BY <1>4, ActAnsweredStep
    <2>2. Steady(quiet(s)) /\ Steady(Blank(s[1]))
      BY SteadyQuiet, SteadyBlank, Zenon
    <2>3. /\ Steady(reading(quiet(s), s[1], tab[s[1]], tab[s[1]].reload))
          /\ Steady(reading(Blank(s[1]), s[1], There(s), byPage(There(s))))
      BY <2>2, SteadyReading, Zenon
    <2> QED
      BY <2>1, <2>2, <2>3
  <1>5. CASE saved(s)
    BY <1>5, SteadyQuiet, SteadyAsk DEF saved
  <1>6. CASE templateArrives(s)
    <2>1. PICK q : wire' = [quiet(s) EXCEPT ![<<s[1], "more">>] = request(q, "all")] \/ wire' = quiet(s)
      BY <1>6 DEF templateArrives
    <2> QED
      BY <2>1, SteadyQuiet, SteadyAsk
  <1>7. CASE signedIn(s) \/ signedOut(s)
    <2>1. PICK use, cookie : wire' = quiet(s) \/ wire' = askSession(s, use, cookie)
      BY <1>7 DEF signedIn, signedOut
    <2> DEFINE r == [request([route |-> "session"], use) EXCEPT !.cookie = cookie]
    <2>2. Fresh(r)
      BY DEF request, NoRequest, Fresh
    <2>3. askSession(s, use, cookie) = [wire EXCEPT ![s] = r]
      BY DEF askSession
    <2> HIDE DEF r
    <2>4. Steady([wire EXCEPT ![s] = r])
      BY <2>2, SteadyWire, SteadyPut, Zenon
    <2>5. Steady(quiet(s))
      BY SteadyQuiet
    <2> QED
      BY <2>1, <2>3, <2>4, <2>5
  <1>8. CASE pageArrives(s)
    <2> DEFINE log == <<s[1], "b">>
    <2>1. \/ wire' = quiet(s)
          \/ \E r : /\ r \in {wire[log], NoRequest, request(pageQueries(tab[s[1]]).audit, "reload")}
                   /\ wire' = [quiet(s) EXCEPT ![log] = r]
      BY <1>8, PageArrivesStep
    <2>2. Steady(quiet(s))
      BY SteadyQuiet
    <2>3. ASSUME NEW r, r \in {wire[log], NoRequest, request(pageQueries(tab[s[1]]).audit, "reload")}
          PROVE  Steady([quiet(s) EXCEPT ![log] = r])
      <3>1. CASE r = wire[log]
        BY <2>2, <3>1 DEF Steady
      <3>2. CASE r # wire[log]
        <4>1. Fresh(r)
          BY <2>3, <3>2, NoRequestFree, RequestShape DEF Fresh
        <4> QED
          BY <2>2, <4>1, SteadyPut, Zenon
      <3> QED
        BY <3>1, <3>2
    <2> QED
      BY <2>1, <2>2, <2>3
  <1> QED
    BY <1>1, <1>2, <1>3, <1>4, <1>5, <1>6, <1>7, <1>8 DEF TableAnswer, PageAnswer, FormAnswer

LEMMA SteadyTabStep ==
    ASSUME ConsoleInv, NEW t \in Tabs, PageStep(t) \/ FormStep(t) \/ SessionStep(t)
    PROVE  Steady(wire')
  <1>1. CASE refreshPage(t)
    <2>1. PICK n : wire' = reading(wire, t, tab[t], {n})
      BY <1>1 DEF refreshPage
    <2>2. Steady(reading(wire, t, tab[t], {n}))
      BY SteadyWire, SteadyReading, Zenon
    <2> QED
      BY <2>1, <2>2
  <1>2. CASE type(t)
    BY <1>2, SteadyWire DEF type
  <1>3. CASE act(t) \/ submit(t) \/ refreshTemplate(t) \/ SessionStep(t)
    <2>1. PICK o, q, use : wire' = [wire EXCEPT ![o] = request(q, use)]
      <3>1. CASE act(t)
        <4>1. PICK o \in offers(tab[t]) : wire' = [wire EXCEPT ![<<t, "a">>] = request(o.q, "act")]
          BY <3>1 DEF act
        <4> QED
          BY <4>1, Zenon
      <3>2. CASE submit(t)
        BY <3>2, Zenon DEF submit
      <3>3. CASE refreshTemplate(t)
        BY <3>3, Zenon DEF refreshTemplate
      <3>4. CASE SessionStep(t)
        <4>1. CASE signIn(t)
          <5>1. PICK b \in Bearers :
                  wire' = [wire EXCEPT ![<<t, "a">>] = request([route |-> "signIn", token |-> b], "signIn")]
            BY <4>1 DEF signIn
          <5> DEFINE q == [route |-> "signIn", token |-> b]
          <5>2. wire' = [wire EXCEPT ![<<t, "a">>] = request(q, "signIn")]
            BY <5>1
          <5> HIDE DEF q
          <5> QED
            BY <5>2, Zenon
        <4>2. CASE signOut(t)
          BY <4>2, Zenon DEF signOut
        <4>3. CASE browse(t)
          BY <4>3, Zenon DEF browse
        <4> QED
          BY <3>4, <4>1, <4>2, <4>3, Zenon DEF SessionStep
      <3> QED
        BY <1>3, <3>1, <3>2, <3>3, <3>4, Zenon
    <2> QED
      BY <2>1, SteadyWire, SteadyAsk
  <1> QED
    BY <1>1, <1>2, <1>3 DEF PageStep, FormStep

\* Only its handler takes a request from read to answered.
LEMMA OnlyHandleAnswers ==
    ASSUME ConsoleInv, ConsoleNext, NEW s \in Slots, wire[s].at = "loaded", wire'[s].at = "answered"
    PROVE  handle(s)
  <1>1. CASE Steady(wire')
    BY <1>1 DEF Steady
  <1>2. CASE UNCHANGED wire
    BY <1>2
  <1>3. ASSUME NEW o \in Slots, proxy(o) \/ lose(o) \/ authServe(o) PROVE FALSE
    <2>1. wire'[s] = wire[s] \/ s = o
      BY <1>3 DEF proxy, lose, authServe, ConsoleInv, Wired
    <2> QED
      BY <1>3, <2>1 DEF proxy, lose, authServe
  <1>4. ASSUME NEW o \in Slots, handle(o) PROVE handle(s)
    <2>1. s # o => wire'[s] = wire[s]
      BY <1>4, HandleSlot
    <2> QED
      BY <1>4, <2>1
  <1>5. CASE revokeBearer
    BY <1>5 DEF revokeBearer
  <1> QED
    BY <1>1, <1>3, <1>4, <1>5, StepKinds, SteadyTableStep, SteadyAnswer, SteadyTabStep
       DEF RequestStep, SessionAnswer

PatchStep ==
    \A s \in Slots : \A table \in {"licenses", "templates"} :
         LET q == wire[s].q IN
         /\ wire[s].at = "loaded" /\ wire'[s].at = "answered" /\ wire'[s].status = 200
         /\ q.route = [licenses |-> "updateLicense", templates |-> "updateTemplate"][table]
         => \A f \in DOMAIN db[table][q.id] : ColumnExact(q.body, f, db[table][q.id][f], db'[table][q.id][f])

LEMMA PatchStepHolds ==
    ASSUME ConsoleInv, ConsoleNext
    PROVE  PatchStep
  <1> SUFFICES ASSUME NEW s \in Slots, NEW table \in {"licenses", "templates"},
                      wire[s].at = "loaded", wire'[s].at = "answered", wire'[s].status = 200,
                      wire[s].q.route = [licenses |-> "updateLicense", templates |-> "updateTemplate"][table],
                      NEW f \in DOMAIN db[table][wire[s].q.id]
               PROVE  ColumnExact(wire[s].q.body, f, db[table][wire[s].q.id][f], db'[table][wire[s].q.id][f])
    BY DEF PatchStep
  <1> DEFINE q == wire[s].q
             row == wire[s].row
             r == serve(db, q, row)
  <1>1. handle(s)
    BY OnlyHandleAnswers
  <1>2. AsksIn(focus, q) /\ db' = r.db /\ r.status = 200
    BY <1>1, HandleSlot
  <1>3. row # Null => Held(db, q)
    BY TheSlot DEF InFlight
  <1>4. DbOK(db)
    BY DEF ConsoleInv
  <1>5. CASE table = "licenses"
    <2>1. q.route = "updateLicense"
      BY <1>5
    <2> HIDE DEF q, row
    <2>2. r = handleUpdateLicense(db, q, row)
      BY <2>1, ServeCases
    <2>3. row # Null
      BY <1>2, <2>2 DEF handleUpdateLicense, err
    <2>4. q.id \in DOMAIN db.licenses /\ DOMAIN q.body = DOMAIN goodLicense
      BY <1>2, <1>3, <2>1, <2>3 DEF Held, AsksIn, Asks
    <2>5. f \in DOMAIN db.licenses[q.id]
      BY <1>5 DEF q
    <2>6. ColumnExact(q.body, f, db.licenses[q.id][f], handleUpdateLicense(db, q, row).db.licenses[q.id][f])
      BY <1>2, <1>4, <2>2, <2>4, <2>5, LicensePatch
    <2> QED
      BY <1>2, <1>5, <2>2, <2>6 DEF q
  <1>6. CASE table = "templates"
    <2>1. q.route = "updateTemplate"
      BY <1>6
    <2> HIDE DEF q, row
    <2>2. r = handleUpdateTemplate(db, q, row)
      BY <2>1, ServeCases
    <2>3. row # Null
      BY <1>2, <2>2 DEF handleUpdateTemplate, err
    <2>4. q.id \in DOMAIN db.templates /\ DOMAIN q.body \in {TemplateColumns, EditableColumns}
      BY <1>2, <1>3, <2>1, <2>3 DEF Held, AsksIn, Asks
    <2>5. f \in DOMAIN db.templates[q.id]
      BY <1>6 DEF q
    <2>6. ColumnExact(q.body, f, db.templates[q.id][f], handleUpdateTemplate(db, q, row).db.templates[q.id][f])
      BY <1>2, <1>4, <2>2, <2>4, <2>5, TemplatePatch
    <2> QED
      BY <1>2, <1>6, <2>2, <2>6 DEF q
  <1> QED
    BY <1>5, <1>6

\* A PATCH of a license or a template changes the columns it names and no
\* other, to what it says, although the row was read before the write and
\* others wrote it in between (admin-handlers.ts).
THEOREM PatchesAreExact == ConsoleSpec => PatchExact
  <1> DEFINE A == \A s \in Slots : \A table \in {"licenses", "templates"} :
         LET q == wire[s].q IN
         /\ wire[s].at = "loaded" /\ wire'[s].at = "answered" /\ wire'[s].status = 200
         /\ q.route = [licenses |-> "updateLicense", templates |-> "updateTemplate"][table]
         => \A f \in DOMAIN db[table][q.id] :
              LET new == db'[table][q.id][f]
                  named == f \in DOMAIN q.body \ {"scope_id", "template_id", "license_key"} /\ q.body[f].t # "undefined"
              IN CASE ~named -> new = db[table][q.id][f]
                   [] named /\ q.body[f].t \in {"null", "empty"} -> new = IF f \in {"meta", "entitlements"} THEN "{}" ELSE Null
                   [] OTHER -> new = q.body[f].v
  <1>1. ConsoleInv /\ [ConsoleNext]_consoleVars => [A]_consoleVars
    <2> SUFFICES ASSUME ConsoleInv, ConsoleNext PROVE A
      OBVIOUS
    <2>1. PatchStep
      BY PatchStepHolds
    <2> QED
      BY <2>1, Zenon DEF PatchStep, ColumnExact, Named
  <1>2. PatchExact <=> [][A]_consoleVars
    BY DEF PatchExact
  <1> HIDE DEF A
  <1> QED
    BY <1>1, <1>2, ConsoleInvariant, PTL DEF ConsoleSpec

-----------------------------------------------------------------------------
(* What a page shows of its own changes.                                     *)

\* A write to one table leaves the tables it does not name alone.
LEMMA LeavesOthers ==
    ASSUME NEW d, DbOK(d), NEW q, NEW row
    PROVE  /\ q.route \in {"transition", "renew"} => serve(d, q, row).db.usages = d.usages
           /\ q.route = "updateScope" => serve(d, q, row).db.keys = d.keys
           /\ q.route \in {"rotateKey", "createKey"} => serve(d, q, row).db.scopes = d.scopes
  <1>1. \A c, data : ok(c, data).db = c /\ created(c, data).db = c /\ err(c, data).db = c
    BY DEF ok, created, err
  <1>2. ASSUME NEW new, NEW event PROVE putLicense(d, q.id, new, event).usages = d.usages
    BY DEF putLicense, audited, wrote, DbOK, DbFields
  <1>3. q.route = "transition" => serve(d, q, row).db.usages = d.usages
    <2> DEFINE old == d.licenses[q.id]
               new == [suspend |-> suspended(old), resume |-> resumed(old), revoke |-> revoked(old)][q.op]
               event == [suspend |-> "license.suspended", resume |-> "license.resumed", revoke |-> "license.revoked"][q.op]
    <2>1. lifecycleTransition(d, q, row) \in {err(d, 404), ok(d, row), ok(putLicense(d, q.id, new, event), new),
                                             err(d, 403), err(d, 409)}
      BY DEF lifecycleTransition
    <2> HIDE DEF new, event
    <2>2. lifecycleTransition(d, q, row).db.usages = d.usages
      BY <1>1, <1>2, <2>1
    <2> QED
      BY <2>2, ServeCases
  <1>4. q.route = "renew" => serve(d, q, row).db.usages = d.usages
    <2> DEFINE g == stored("optional", q.body.grace_until)
               new == renewed(d.licenses[q.id], q.body.expires_at.v, IF g = Null THEN Undefined ELSE g)
    <2>1. handleRenewLicense(d, q, row) \in {err(d, 400), err(d, 404), err(d, 403), err(d, 409),
                                            ok(putLicense(d, q.id, new, "license.renewed"), new)}
      BY DEF handleRenewLicense
    <2> HIDE DEF new
    <2>2. handleRenewLicense(d, q, row).db.usages = d.usages
      BY <1>1, <1>2, <2>1
    <2> QED
      BY <2>2, ServeCases
  <1>5. q.route = "updateScope" => serve(d, q, row).db.keys = d.keys
    <2> DEFINE new == patched(scopePatchRules, d.scopes[q.id], q.body)
               c == [wrote(d) EXCEPT !.scopes[q.id] = new]
    <2>1. handleUpdateScope(d, q, row) \in {err(d, 404), err(d, 400), ok(d, row), ok(c, new)}
      BY DEF handleUpdateScope
    <2> HIDE DEF new
    <2>2. c.keys = d.keys
      BY DEF wrote, DbOK, DbFields
    <2> HIDE DEF c
    <2>3. handleUpdateScope(d, q, row).db.keys = d.keys
      BY <1>1, <2>1, <2>2
    <2> QED
      BY <2>3, ServeCases
  <1> DEFINE id == Len(d.keys) + 1
             kept == Max(activeKeys(d, "signing"))
             issued(event) == audited([wrote(d) EXCEPT !.keys = Append(@, [role |-> q.body.role.v, state |-> "active"])],
                                      event, id, Null)
             keys == Append([d.keys EXCEPT ![kept].state = "retiring"], [role |-> "signing", state |-> "active"])
             c == audited([wrote(d) EXCEPT !.keys = keys], "key.rotated", kept, Null)
             both == [retiring |-> kept, active |-> id]
  <1>6. q.route = "createKey" => serve(d, q, row).db.scopes = d.scopes
    <2>1. handleCreateKey(d, q, secrets) \in {err(d, 400), err(d, 409), created(issued("key.root.issued"), id),
                                        created(issued("key.signing.issued"), id)}
      BY DEF handleCreateKey
    <2> HIDE DEF id
    <2>2. \A event : issued(event).scopes = d.scopes
      BY DEF audited, wrote, DbOK, DbFields
    <2> HIDE DEF issued
    <2>3. handleCreateKey(d, q, secrets).db.scopes = d.scopes
      BY <1>1, <2>1, <2>2
    <2> QED
      BY <2>3, ServeCases
  <1>7. q.route = "rotateKey" => serve(d, q, row).db.scopes = d.scopes
    <2>1. c = audited([wrote(d) EXCEPT !.keys = Append([@ EXCEPT ![kept].state = "retiring"],
                               [role |-> "signing", state |-> "active"])], "key.rotated", kept, Null)
      BY DEF wrote, DbOK, DbFields
    <2> HIDE DEF c
    <2>2. handleRotateKey(d, q, row, secrets) \in {err(d, 404), err(d, 400), err(d, 409), ok(c, both)}
      BY <2>1 DEF handleRotateKey
    <2> HIDE DEF id, kept, keys, both
    <2>3. c.scopes = d.scopes
      BY DEF c, audited, wrote, DbOK, DbFields
    <2>4. handleRotateKey(d, q, row, secrets).db.scopes = d.scopes
      BY <1>1, <2>2, <2>3
    <2> QED
      BY <2>4, ServeCases
  <1> QED
    BY <1>3, <1>4, <1>5, <1>6, <1>7

\* What a page reads under these names comes from one table.
LEMMA NamedReads ==
    ASSUME NEW tb
    PROVE  /\ "usages" \in DOMAIN pageQueries(tb) => pageQueries(tb)["usages"].route = "listUsages"
           /\ "keys" \in DOMAIN pageQueries(tb) => pageQueries(tb)["keys"].route = "listKeys"
           /\ "scope" \in DOMAIN pageQueries(tb) => pageQueries(tb)["scope"].route = "getScope"
  BY DEF pageQueries, licenseReads, keysReads, scopeReads, usagesReads, templateReads, scopesReads, templatesReads,
         firstPage, get, list, NoFilter

LEMMA SameRead ==
    ASSUME NEW d, NEW e, NEW q
    PROVE  /\ q.route = "listUsages" /\ d.usages = e.usages => result(d, q) = result(e, q)
           /\ q.route = "listKeys" /\ d.keys = e.keys => result(d, q) = result(e, q)
           /\ q.route = "getScope" /\ d.scopes = e.scopes => result(d, q) = result(e, q)
  <1>1. \A c, code, data : ok(c, data).data = data /\ err(c, code).data = Null
    BY DEF ok, err
  <1>2. ASSUME NEW rows, NEW ids PROVE listed(d, q, rows, ids).data = listed(e, q, rows, ids).data
    BY <1>1 DEF listed
  <1>3. ASSUME q.route = "listUsages", d.usages = e.usages PROVE result(d, q) = result(e, q)
    <2>1. handleListUsages(d, q).data = handleListUsages(e, q).data
      BY <1>2, <1>3 DEF handleListUsages
    <2> QED
      BY <1>3, <2>1, ServeCases DEF result
  <1>4. ASSUME q.route = "listKeys", d.keys = e.keys PROVE result(d, q) = result(e, q)
    <2>1. handleListKeys(d, q).data = handleListKeys(e, q).data
      BY <1>2, <1>4 DEF handleListKeys
    <2> QED
      BY <1>4, <2>1, ServeCases DEF result
  <1>5. ASSUME q.route = "getScope", d.scopes = e.scopes PROVE result(d, q) = result(e, q)
    <2>1. load(d, q) = load(e, q)
      BY <1>5 DEF load, tableOf
    <2>2. \A row : handleGetScope(d, q, row).data = handleGetScope(e, q, row).data
      BY <1>1 DEF handleGetScope, handleGetLicense
    <2> QED
      BY <1>5, <2>1, <2>2, ServeCases DEF result
  <1> QED
    BY <1>3, <1>4, <1>5

\* What a request's page does not read again, the request does not change.
LEMMA ApartUnchanged ==
    ASSUME NEW d, DbOK(d), NEW q, NEW row, NEW tb, NEW n \in DOMAIN pageQueries(tb), <<q.route, n>> \in Apart
    PROVE  result(d, pageQueries(tb)[n]) = result(serve(d, q, row).db, pageQueries(tb)[n])
  <1> DEFINE e == serve(d, q, row).db
             p == pageQueries(tb)[n]
  <1>1. \/ n = "usages" /\ p.route = "listUsages" /\ d.usages = e.usages
        \/ n = "keys" /\ p.route = "listKeys" /\ d.keys = e.keys
        \/ n = "scope" /\ p.route = "getScope" /\ d.scopes = e.scopes
    BY NamedReads, LeavesOthers DEF Apart
  <1> HIDE DEF e, p
  <1>2. result(d, p) = result(e, p)
    BY <1>1, SameRead
  <1> QED
    BY <1>2 DEF e, p

\* Each part of a page was last changed by its operator at or before the
\* revision the page shows of it, or the one that is about to arrive; and
\* only its parts are read.
Part(tb, l) == \E n \in DOMAIN tb.data : laneOf(n) = l
Shown(t, tb, w, rev) ==
    /\ \A l \in {"load", "more", "b"} : w[<<t, l>>].at # "free" => Part(tb, l)
    /\ \A n \in byPage(tb) :
           /\ tb.own[n] \in Nat /\ tb.own[n] <= rev
           /\ w[<<t, laneOf(n)>>].at = "free" => tb.seen[n] \in Nat /\ tb.own[n] <= tb.seen[n]
           /\ w[<<t, laneOf(n)>>].at = "answered" => tb.own[n] <= w[<<t, laneOf(n)>>].rev

\* A button that stays on its page reads again whatever its request changes.
Acting(tb, r) ==
    tb.leave = "stay" /\ r.at # "free" =>
        /\ Offered(tb, r.q, tb.reload, "stay")
        /\ r.at = "answered" => r.changed \subseteq tb.reload \cup {"audit"}

PagesInv == focus = "pages" => \A t \in Tabs : Shown(t, tab[t], wire, db.rev) /\ Acting(tab[t], wire[<<t, "a">>])

-----------------------------------------------------------------------------
LEMMA LaneShape == \A n : laneOf(n) \in {"load", "more", "b"} /\ laneOf(n) \in Lanes /\ laneOf(n) # "a" /\ (laneOf(n) = "b" <=> n = "audit")
  BY DEF laneOf, Lanes

\* A tab whose lanes are left alone is as it was.
LEMMA ShownStays ==
    ASSUME NEW t, NEW tb, NEW w, NEW v, NEW rev \in Nat, NEW up \in Nat, rev <= up, Shown(t, tb, w, rev),
           \A l \in {"load", "more", "b"} :
              LET r == w[<<t, l>>]  q == v[<<t, l>>] IN
              \/ q = r
              \/ q.at \in {"sent", "loaded"} /\ (r.at # "free" \/ Part(tb, l))
              \/ q.at = "answered" /\ r.at = "answered" /\ q.rev = r.rev
              \/ q.at = "answered" /\ r.at # "free" /\ q.rev \in Nat /\ rev <= q.rev
    PROVE  Shown(t, tb, v, up)
  <1>0. \A l \in {"load", "more", "b"} : v[<<t, l>>].at # "free" => Part(tb, l)
    BY DEF Shown
  <1> SUFFICES ASSUME NEW n \in byPage(tb)
               PROVE  /\ tb.own[n] \in Nat /\ tb.own[n] <= up
                      /\ v[<<t, laneOf(n)>>].at = "free" => tb.seen[n] \in Nat /\ tb.own[n] <= tb.seen[n]
                      /\ v[<<t, laneOf(n)>>].at = "answered" => tb.own[n] <= v[<<t, laneOf(n)>>].rev
    BY <1>0 DEF Shown
  <1> DEFINE r == w[<<t, laneOf(n)>>]
             q == v[<<t, laneOf(n)>>]
  <1>1. \/ q = r
        \/ q.at \in {"sent", "loaded"}
        \/ q.at = "answered" /\ r.at = "answered" /\ q.rev = r.rev
        \/ q.at = "answered" /\ q.rev \in Nat /\ rev <= q.rev
    BY LaneShape
  <1>2. /\ tb.own[n] \in Nat /\ tb.own[n] <= rev
        /\ r.at = "free" => tb.seen[n] \in Nat /\ tb.own[n] <= tb.seen[n]
        /\ r.at = "answered" => tb.own[n] <= r.rev
    BY DEF Shown
  <1> HIDE DEF r, q
  <1>3. /\ q.at = "free" => tb.seen[n] \in Nat /\ tb.own[n] <= tb.seen[n]
        /\ q.at = "answered" => tb.own[n] <= q.rev
    BY <1>1, <1>2
  <1> QED
    BY <1>2, <1>3 DEF q

LEMMA ActingStays ==
    ASSUME NEW tb, NEW r, NEW q, Acting(tb, r),
           \/ q = r \/ q.at = "free"
           \/ r.at # "free" /\ q.q = r.q /\ (q.at = "answered" => r.at = "answered" /\ q.changed = r.changed)
    PROVE  Acting(tb, q)
  BY DEF Acting

\* Requests of other tabs and callers, and the way of one's own.
LEMMA PagesStep ==
    ASSUME ConsoleInv, PagesInv, focus = "pages", UNCHANGED <<focus, tab>>, db'.rev \in Nat, db.rev <= db'.rev,
           \A t \in Tabs : \A l \in Lanes :
              LET r == wire[<<t, l>>]  q == wire'[<<t, l>>] IN
              \/ q = r
              \/ /\ r.at # "free" /\ q.q = r.q
                 /\ q.at = "loaded" \/ (q.at = "answered" /\ r.at = "answered" /\ q.rev = r.rev /\ q.changed = r.changed)
              \/ l = "a" /\ q.at = "free"
              \/ l \in {"load", "more", "b"} /\ q.at = "sent" /\ Part(tab[t], l)
    PROVE  PagesInv'
  <1> SUFFICES ASSUME NEW t \in Tabs
               PROVE  Shown(t, tab[t], wire', db'.rev) /\ Acting(tab[t], wire'[<<t, "a">>])
    BY DEF PagesInv
  <1>1. Shown(t, tab[t], wire, db.rev) /\ Acting(tab[t], wire[<<t, "a">>]) /\ db.rev \in Nat
    BY DEF PagesInv, ConsoleInv, DbOK
  <1>2. \A l \in {"load", "more", "b"} :
              LET r == wire[<<t, l>>]  q == wire'[<<t, l>>] IN
              \/ q = r
              \/ q.at \in {"sent", "loaded"} /\ (r.at # "free" \/ Part(tab[t], l))
              \/ q.at = "answered" /\ r.at = "answered" /\ q.rev = r.rev
              \/ q.at = "answered" /\ r.at # "free" /\ q.rev \in Nat /\ db.rev <= q.rev
    BY DEF Lanes
  <1>3. Shown(t, tab[t], wire', db'.rev)
    BY <1>1, <1>2, ShownStays
  <1> DEFINE r == wire[<<t, "a">>]
             q == wire'[<<t, "a">>]
  <1>4. \/ q = r \/ q.at = "free"
        \/ r.at # "free" /\ q.q = r.q /\ (q.at = "answered" => r.at = "answered" /\ q.changed = r.changed)
    BY DEF Lanes
  <1> HIDE DEF r, q
  <1>5. Acting(tab[t], r)
    BY <1>1 DEF r
  <1>6. Acting(tab[t], q)
    BY <1>4, <1>5, ActingStays
  <1> QED
    BY <1>3, <1>6 DEF q

LEMMA PagesProxy ==
    ASSUME ConsoleInv, PagesInv, focus = "pages", NEW s \in Slots, proxy(s) \/ lose(s)
    PROVE  PagesInv'
  <1>1. InFlight(focus, accepted, db, s, wire[s]) /\ DOMAIN wire = Slots
    BY TheSlot
  <1>2. UNCHANGED <<focus, tab, db>>
    BY DEF proxy, lose, others
  <1>3. \A o \in Slots \ {s} : wire'[o] = wire[o]
    BY <1>1 DEF proxy, lose
  <1>4. /\ wire[s].at # "free" /\ wire'[s].q = wire[s].q
        /\ \/ wire'[s].at = "loaded"
           \/ /\ wire'[s].at = "answered" /\ wire[s].at = "answered"
              /\ wire'[s].rev = wire[s].rev /\ wire'[s].changed = wire[s].changed
    <2>1. CASE proxy(s)
      <3>1. wire[s].at = "sent" /\ (s[1] = "api" \/ wire[s].cookie \in accepted)
        BY <1>1, <2>1 DEF proxy, InFlight
      <3>2. wire'[s] = [wire[s] EXCEPT !.at = "loaded", !.row = load(db, wire[s].q)]
        BY <1>1, <2>1, <3>1 DEF proxy
      <3> QED
        BY <1>1, <3>1, <3>2 DEF InFlight, RequestFields
    <2>2. CASE lose(s)
      <3>1. wire[s].at = "answered" /\ wire'[s] = [wire[s] EXCEPT !.status = 0]
        BY <1>1, <2>2 DEF lose
      <3> QED
        BY <1>1, <3>1 DEF InFlight, RequestFields
    <2> QED
      BY <2>1, <2>2
  <1>5. \A t \in Tabs : \A l \in Lanes :
              LET r == wire[<<t, l>>]  q == wire'[<<t, l>>] IN
              \/ q = r
              \/ /\ r.at # "free" /\ q.q = r.q
                 /\ q.at = "loaded" \/ (q.at = "answered" /\ r.at = "answered" /\ q.rev = r.rev /\ q.changed = r.changed)
    BY <1>3, <1>4, SlotShape
  <1>6. db.rev \in Nat
    BY DEF ConsoleInv, DbOK
  <1> QED
    BY <1>2, <1>5, <1>6, PagesStep

\* A direct caller's request is no tab's.
LEMMA PagesDirect ==
    ASSUME ConsoleInv, PagesInv, focus = "pages", NEW s \in Slots, callDirectly(s) \/ hangUp(s)
    PROVE  PagesInv'
  <1>1. s[1] = "api"
    <2>1. CASE hangUp(s)
      BY <2>1, AnswerOf DEF hangUp, answeredTo, Placed, AuthUses
    <2> QED
      BY <2>1 DEF callDirectly
  <1>2. UNCHANGED <<focus, tab, db>>
    BY DEF callDirectly, hangUp, others
  <1>3. DOMAIN wire = Slots
    BY TheSlot
  <1>4. \A o \in Slots \ {s} : wire'[o] = wire[o]
    BY <1>3 DEF callDirectly, hangUp, quiet
  <1>5. \A t \in Tabs : \A l \in Lanes : wire'[<<t, l>>] = wire[<<t, l>>]
    <2> SUFFICES ASSUME NEW t \in Tabs, NEW l \in Lanes PROVE wire'[<<t, l>>] = wire[<<t, l>>]
      OBVIOUS
    <2>1. <<t, l>> \in Slots /\ <<t, l>>[1] = t /\ t # "api"
      BY SlotShape, ConsoleAssumption
    <2>2. <<t, l>> # s
      BY <1>1, <2>1
    <2> QED
      BY <1>4, <2>1, <2>2
  <1>6. db.rev \in Nat
    BY DEF ConsoleInv, DbOK
  <1> QED
    BY <1>2, <1>5, <1>6, PagesStep

\* What a handler is seen to change of a page.
LEMMA HandleChanged ==
    ASSUME ConsoleInv, focus = "pages", NEW s \in Slots, s[1] \in Tabs, handle(s)
    PROVE  LET reads == pageQueries(tab[s[1]])  e == serve(db, wire[s].q, wire[s].row).db IN
           wire'[s].changed = {n \in DOMAIN reads : result(db, reads[n]) # result(e, reads[n])}
  <1>1. InFlight(focus, accepted, db, s, wire[s]) /\ DOMAIN wire = Slots
    BY TheSlot
  <1>2. s[1] # "api"
    BY ConsoleAssumption
  <1> DEFINE reads == pageQueries(tab[s[1]])
             r == serve(db, wire[s].q, wire[s].row)
             changed == {n \in DOMAIN reads : result(db, reads[n]) # result(r.db, reads[n])}
  <1>3. wire' = [wire EXCEPT ![s].at = "answered", ![s].status = r.status, ![s].data = r.data,
                        ![s].rev = r.db.rev, ![s].changed = changed]
    BY <1>2 DEF handle
  <1>4. DOMAIN wire[s] = RequestFields
    BY <1>1 DEF InFlight
  <1> HIDE DEF changed, r
  <1>5. wire'[s].changed = changed
    BY <1>1, <1>3, <1>4 DEF RequestFields
  <1> QED
    BY <1>5 DEF changed, r

LEMMA PagesHandle ==
    ASSUME ConsoleInv, PagesInv, focus = "pages", NEW s \in Slots, handle(s)
    PROVE  PagesInv'
  <1> DEFINE e == serve(db, wire[s].q, wire[s].row).db
  <1>1. /\ UNCHANGED <<focus, tab>> /\ db' = e /\ Moves(db, e)
        /\ \A o \in Slots \ {s} : wire'[o] = wire[o]
        /\ wire'[s].at = "answered" /\ wire'[s].rev = e.rev /\ wire'[s].q = wire[s].q
        /\ wire[s].at = "loaded"
    <2>1. tab' = tab
      BY HandleTabs
    <2>2. wire[s].at = "loaded"
      BY DEF handle
    <2> QED
      BY <2>1, <2>2, HandleSlot DEF Served
  <1>2. db.rev \in Nat /\ e.rev \in Nat /\ db.rev <= e.rev /\ DbOK(db)
    BY <1>1 DEF Moves, DbOK, ConsoleInv
  <1>3. ASSUME s[1] \in Tabs
        PROVE  wire'[s].changed = {n \in DOMAIN pageQueries(tab[s[1]]) :
                                      result(db, pageQueries(tab[s[1]])[n]) # result(e, pageQueries(tab[s[1]])[n])}
    BY <1>3, HandleChanged
  <1> SUFFICES ASSUME NEW t \in Tabs
               PROVE  Shown(t, tab[t], wire', e.rev) /\ Acting(tab[t], wire'[<<t, "a">>])
    BY <1>1 DEF PagesInv
  <1>4. Shown(t, tab[t], wire, db.rev) /\ Acting(tab[t], wire[<<t, "a">>])
    BY DEF PagesInv
  <1>5. ASSUME NEW n \in DOMAIN pageQueries(tab[t]), <<wire[s].q.route, n>> \in Apart
        PROVE  result(db, pageQueries(tab[t])[n]) = result(e, pageQueries(tab[t])[n])
    BY <1>2, <1>5, ApartUnchanged
  <1> HIDE DEF e
  <1>6. Shown(t, tab[t], wire', e.rev)
    <2>1. \A l \in {"load", "more", "b"} :
              LET r == wire[<<t, l>>]  q == wire'[<<t, l>>] IN
              \/ q = r
              \/ q.at \in {"sent", "loaded"} /\ (r.at # "free" \/ Part(tab[t], l))
              \/ q.at = "answered" /\ r.at = "answered" /\ q.rev = r.rev
              \/ q.at = "answered" /\ r.at # "free" /\ q.rev \in Nat /\ db.rev <= q.rev
      BY <1>1, <1>2, SlotShape DEF Lanes
    <2> QED
      BY <1>2, <1>4, <2>1, ShownStays
  <1>7. CASE s # <<t, "a">>
    <2>1. wire'[<<t, "a">>] = wire[<<t, "a">>]
      BY <1>1, <1>7, SlotShape DEF Lanes
    <2> QED
      BY <1>4, <1>6, <2>1
  <1>8. CASE s = <<t, "a">>
    <2>1. s[1] = t
      BY <1>8
    <2>2. tab[t].leave = "stay" => /\ Offered(tab[t], wire[s].q, tab[t].reload, "stay")
                                   /\ wire'[s].changed \subseteq tab[t].reload \cup {"audit"}
      <3> HAVE tab[t].leave = "stay"
      <3>1. Offered(tab[t], wire[s].q, tab[t].reload, "stay")
        BY <1>1, <1>4, <1>8 DEF Acting
      <3>2. \A n \in DOMAIN pageQueries(tab[t]) \ (tab[t].reload \cup {"audit"}) : <<wire[s].q.route, n>> \in Apart
        BY <3>1 DEF Offered
      <3>3. \A n \in DOMAIN pageQueries(tab[t]) \ (tab[t].reload \cup {"audit"}) :
               result(db, pageQueries(tab[t])[n]) = result(e, pageQueries(tab[t])[n])
        BY <1>5, <3>2
      <3>4. wire'[s].changed = {n \in DOMAIN pageQueries(tab[t]) :
                                   result(db, pageQueries(tab[t])[n]) # result(e, pageQueries(tab[t])[n])}
        BY <1>3, <2>1
      <3> QED
        BY <3>1, <3>3, <3>4, Zenon
    <2>3. Acting(tab[t], wire'[s])
      BY <1>1, <2>2 DEF Acting
    <2> QED
      BY <1>6, <1>8, <2>3
  <1> QED
    BY <1>7, <1>8

\* A button is pressed while the page is at rest.
LEMMA PagesAct ==
    ASSUME ConsoleInv, PagesInv, focus = "pages", NEW u \in Tabs, act(u)
    PROVE  PagesInv'
  <1>1. PICK o \in offers(tab[u]) : /\ wire' = [wire EXCEPT ![<<u, "a">>] = request(o.q, "act")]
                                   /\ tab' = [tab EXCEPT ![u].reload = o.reload, ![u].leave = o.leave]
    BY DEF act
  <1>2. UNCHANGED <<focus, db>>
    BY DEF act, others
  <1>3. DOMAIN wire = Slots /\ DOMAIN tab = Tabs /\ TabOK(focus, tab[u]) /\ DOMAIN tab[u] = TabFields
    BY TheTab DEF ConsoleInv, Wired
  <1>4. Offered(tab[u], o.q, o.reload, o.leave)
    BY <1>3, OffersOffered DEF TabOK
  <1> DEFINE ub == [tab[u] EXCEPT !.reload = o.reload, !.leave = o.leave]
             r == request(o.q, "act")
  <1>5. tab' = [tab EXCEPT ![u] = ub] /\ wire' = [wire EXCEPT ![<<u, "a">>] = r]
    BY <1>1
  <1>6. /\ ub.page = tab[u].page /\ ub.id = tab[u].id /\ ub.data = tab[u].data /\ ub.own = tab[u].own
        /\ ub.seen = tab[u].seen /\ ub.reload = o.reload /\ ub.leave = o.leave
    BY <1>3 DEF TabFields
  <1>7. r.at = "sent" /\ r.q = o.q
    BY RequestShape
  <1> HIDE DEF ub, r
  <1>8. /\ \A t \in Tabs : \A l \in {"load", "more", "b"} : wire'[<<t, l>>] = wire[<<t, l>>]
        /\ \A t \in Tabs : \A n : wire'[<<t, laneOf(n)>>] = wire[<<t, laneOf(n)>>]
    BY <1>3, <1>5, LaneShape, SlotShape DEF Lanes
  <1>9. pageQueries(ub) = pageQueries(tab[u])
    BY <1>6, SameQueries
  <1> SUFFICES ASSUME NEW t \in Tabs
               PROVE  Shown(t, tab'[t], wire', db.rev) /\ Acting(tab'[t], wire'[<<t, "a">>])
    BY <1>2 DEF PagesInv
  <1>10. Shown(t, tab[t], wire, db.rev) /\ Acting(tab[t], wire[<<t, "a">>])
    BY DEF PagesInv
  <1>11. CASE t = u
    <2>1. tab'[t] = ub /\ wire'[<<t, "a">>] = r
      BY <1>3, <1>5, <1>11, SlotShape DEF Lanes
    <2>2. Shown(t, ub, wire', db.rev)
      BY <1>6, <1>8, <1>10, <1>11 DEF Shown, Part, byPage
    <2>3. ub.leave = "stay" => Offered(ub, r.q, ub.reload, "stay")
      BY <1>4, <1>6, <1>7, <1>9 DEF Offered
    <2>4. Acting(ub, r)
      BY <1>7, <2>3 DEF Acting
    <2> QED
      BY <2>1, <2>2, <2>4
  <1>12. CASE t # u
    <2>1. tab'[t] = tab[t] /\ wire'[<<t, "a">>] = wire[<<t, "a">>]
      BY <1>3, <1>5, <1>12, SlotShape DEF Lanes
    <2>2. Shown(t, tab[t], wire', db.rev)
      BY <1>8, <1>10 DEF Shown
    <2> QED
      BY <1>10, <2>1, <2>2
  <1> QED
    BY <1>11, <1>12

\* What reading does to the lanes of a tab.
ReadIn(v, w, u, names, t) ==
    /\ v[<<t, "a">>] = w[<<t, "a">>]
    /\ \A l \in {"load", "more", "b"} :
          \/ t = u /\ (\E n \in names : l = laneOf(n)) /\ v[<<t, l>>].at = "sent"
          \/ (t = u => \A n \in names : l # laneOf(n)) /\ v[<<t, l>>] = w[<<t, l>>]

LEMMA ReadingLanes ==
    ASSUME NEW w, NEW u, NEW tb, NEW names, NEW t \in Tabs
    PROVE  ReadIn(reading(w, u, tb, names), w, u, names, t)
  <1> DEFINE pick(s) == CHOOSE n \in names : s[2] = laneOf(n)
             asking(s) == s[1] = u /\ \E n \in names : s[2] = laneOf(n)
             q(s) == request(pageQueries(tb)[pick(s)], "reload")
  <1>1. \A s \in Slots : reading(w, u, tb, names)[s] = IF asking(s) THEN q(s) ELSE w[s]
    BY DEF reading
  <1>2. \A s \in Slots : q(s).at = "sent"
    BY RequestShape
  <1> HIDE DEF q
  <1>3. \A l \in {"a", "load", "more", "b"} : <<t, l>> \in Slots /\ <<t, l>>[1] = t /\ <<t, l>>[2] = l
    BY SlotShape DEF Lanes
  <1>4. ~asking(<<t, "a">>)
    BY <1>3, LaneShape
  <1>5. \A l \in {"load", "more", "b"} : asking(<<t, l>>) <=> t = u /\ (\E n \in names : l = laneOf(n))
    BY <1>3
  <1> DEFINE v == reading(w, u, tb, names)
  <1> HIDE DEF asking, v
  <1>6. ReadIn(v, w, u, names, t)
    BY <1>1, <1>2, <1>3, <1>4, <1>5 DEF v, ReadIn
  <1> QED
    BY <1>6 DEF v

LEMMA PagesRefresh ==
    ASSUME ConsoleInv, PagesInv, focus = "pages", NEW u \in Tabs, refreshPage(u)
    PROVE  PagesInv'
  <1>1. PICK n \in DOMAIN tab[u].data : wire' = reading(wire, u, tab[u], {n})
    BY DEF refreshPage, byPage
  <1>2. UNCHANGED <<focus, tab, db>>
    BY DEF refreshPage, others
  <1>3. \A t \in Tabs : \A l \in Lanes :
              LET r == wire[<<t, l>>]  q == wire'[<<t, l>>] IN
              \/ q = r
              \/ l \in {"load", "more", "b"} /\ q.at = "sent" /\ Part(tab[t], l)
    <2> TAKE t \in Tabs
    <2> DEFINE w == reading(wire, u, tab[u], {n})
    <2>3. /\ w[<<t, "a">>] = wire[<<t, "a">>]
          /\ \A l \in {"load", "more", "b"} : w[<<t, l>>] = wire[<<t, l>>] \/ (w[<<t, l>>].at = "sent" /\ Part(tab[t], l))
      <3>1. ReadIn(w, wire, u, {n}, t)
        BY ReadingLanes, Zenon
      <3> HIDE DEF w
      <3> QED
        BY <3>1 DEF ReadIn, Part
    <2> HIDE DEF w
    <2>1. /\ wire'[<<t, "a">>] = wire[<<t, "a">>]
          /\ \A l \in {"load", "more", "b"} : wire'[<<t, l>>] = wire[<<t, l>>]
                                         \/ (wire'[<<t, l>>].at = "sent" /\ Part(tab[t], l))
      BY <1>1, <2>3 DEF w
    <2> QED
      BY <2>1 DEF Lanes
  <1>4. db.rev \in Nat
    BY DEF ConsoleInv, DbOK
  <1> QED
    BY <1>2, <1>3, <1>4, PagesStep

\* A button's answer that stays on its page.
LEMMA PagesStayed ==
    ASSUME ConsoleInv, PagesInv, focus = "pages", NEW u \in Tabs, NEW s, s = <<u, "a">>, wire[s].at = "answered",
           tab[u].leave = "stay", UNCHANGED <<focus, db>>,
           tab' = [tab EXCEPT ![u].own = Own(s)],
           wire' = reading(quiet(s), u, tab[u], tab[u].reload)
    PROVE  PagesInv'
  <1>1. /\ s \in Slots /\ s[1] = u /\ DOMAIN wire = Slots /\ InFlight(focus, accepted, db, s, wire[s])
        /\ DOMAIN tab = Tabs /\ DOMAIN tab[u] = TabFields /\ TabOK(focus, tab[u])
    <2>1. s \in Slots /\ s[1] = u
      BY SlotShape DEF Lanes
    <2> QED
      BY <2>1, TheSlot, TheTab DEF ConsoleInv
  <1> DEFINE tb == tab[u]
             ub == [tb EXCEPT !.own = Own(s)]
  <1>2. tab' = [tab EXCEPT ![u] = ub]
    OBVIOUS
  <1>3. /\ ub.data = tb.data /\ ub.seen = tb.seen /\ ub.own = Own(s) /\ ub.leave = tb.leave
    BY <1>1 DEF TabFields
  <1>4. \A n \in DOMAIN tb.data : Own(s)[n] = IF n \in wire[s].changed THEN wire[s].rev ELSE tb.own[n]
    BY <1>1 DEF Own, TabOK, DetailTab
  <1> HIDE DEF ub
  <1>5. wire[s].changed \subseteq tb.reload \cup {"audit"} /\ tb.reload \subseteq DOMAIN tb.data
    BY <1>1 DEF PagesInv, Acting, TabOK
  <1>6. wire[s].rev \in Nat /\ wire[s].rev <= db.rev /\ db.rev \in Nat
    BY <1>1 DEF InFlight, ConsoleInv, DbOK
  <1>7. /\ quiet(s)[s].at = "free"
        /\ \A t \in Tabs : \A l \in {"load", "more", "b"} : quiet(s)[<<t, l>>] = wire[<<t, l>>]
        /\ \A t \in Tabs \ {u} : quiet(s)[<<t, "a">>] = wire[<<t, "a">>]
    BY <1>1, SlotShape, NoRequestFree DEF quiet, Lanes
  <1>8. \A t \in Tabs :
           /\ wire'[<<t, "a">>] = quiet(s)[<<t, "a">>]
           /\ \A l \in {"load", "more", "b"} :
                 \/ t = u /\ (\E n \in tb.reload : l = laneOf(n)) /\ wire'[<<t, l>>].at = "sent"
                 \/ (t = u => \A n \in tb.reload : l # laneOf(n)) /\ wire'[<<t, l>>] = wire[<<t, l>>]
    <2> SUFFICES ASSUME NEW t \in Tabs
                 PROVE  /\ wire'[<<t, "a">>] = quiet(s)[<<t, "a">>]
                        /\ \A l \in {"load", "more", "b"} :
                              \/ t = u /\ (\E n \in tb.reload : l = laneOf(n)) /\ wire'[<<t, l>>].at = "sent"
                              \/ (t = u => \A n \in tb.reload : l # laneOf(n)) /\ wire'[<<t, l>>] = wire[<<t, l>>]
      OBVIOUS
    <2> DEFINE v == quiet(s)
               w == reading(v, u, tb, tb.reload)
    <2>1. ReadIn(w, v, u, tb.reload, t)
      BY ReadingLanes, Zenon
    <2>2. wire' = w
      OBVIOUS
    <2>3. \A l \in {"load", "more", "b"} : v[<<t, l>>] = wire[<<t, l>>]
      BY <1>7
    <2> HIDE DEF v, w
    <2> QED
      BY <2>1, <2>2, <2>3 DEF ReadIn, v
  <1> SUFFICES ASSUME NEW t \in Tabs
               PROVE  Shown(t, tab'[t], wire', db.rev) /\ Acting(tab'[t], wire'[<<t, "a">>])
    BY DEF PagesInv
  <1>9. Shown(t, tab[t], wire, db.rev) /\ Acting(tab[t], wire[<<t, "a">>])
    BY DEF PagesInv
  <1>10. CASE t # u
    <2>1. tab'[t] = tab[t] /\ wire'[<<t, "a">>] = wire[<<t, "a">>]
      BY <1>1, <1>2, <1>7, <1>8, <1>10, ZenonT(30)
    <2>2. \A l \in {"load", "more", "b"} : wire'[<<t, l>>] = wire[<<t, l>>]
      BY <1>8, <1>10
    <2>3. Shown(t, tab[t], wire', db.rev)
      BY <1>9, <2>2, LaneShape DEF Shown
    <2> QED
      BY <1>9, <2>1, <2>3
  <1>11. CASE t = u
    <2>1. tab'[t] = ub /\ wire'[<<t, "a">>].at = "free"
      BY <1>1, <1>2, <1>7, <1>8, <1>11
    <2>2. \A l \in {"load", "more", "b"} : wire'[<<t, l>>].at # "free" => Part(ub, l)
      BY <1>3, <1>5, <1>8, <1>9, <1>11 DEF Shown, Part
    <2>3. ASSUME NEW n \in byPage(ub)
          PROVE  /\ ub.own[n] \in Nat /\ ub.own[n] <= db.rev
                 /\ wire'[<<t, laneOf(n)>>].at = "free" => ub.seen[n] \in Nat /\ ub.own[n] <= ub.seen[n]
                 /\ wire'[<<t, laneOf(n)>>].at = "answered" => ub.own[n] <= wire'[<<t, laneOf(n)>>].rev
      <3>1. /\ tb.own[n] \in Nat /\ tb.own[n] <= db.rev
            /\ wire[<<t, laneOf(n)>>].at = "free" => tb.seen[n] \in Nat /\ tb.own[n] <= tb.seen[n]
            /\ wire[<<t, laneOf(n)>>].at = "answered" => tb.own[n] <= wire[<<t, laneOf(n)>>].rev
            /\ n \in DOMAIN tb.data /\ n # "audit"
        BY <1>3, <1>9, <1>11, <2>3 DEF Shown, byPage
      <3>2. CASE n \in wire[s].changed
        <4>0. laneOf(n) \in {"load", "more", "b"} /\ n \in tb.reload
          BY <1>5, <3>1, <3>2, LaneShape
        <4>1. wire'[<<t, laneOf(n)>>].at = "sent"
          BY <1>8, <1>11, <4>0
        <4>2. ub.own[n] = wire[s].rev
          BY <1>3, <1>4, <3>1, <3>2
        <4> QED
          BY <1>6, <4>1, <4>2
      <3>3. CASE n \notin wire[s].changed
        <4>1. wire'[<<t, laneOf(n)>>].at = "sent" \/ wire'[<<t, laneOf(n)>>] = wire[<<t, laneOf(n)>>]
          <5>1. laneOf(n) \in {"load", "more", "b"}
            BY LaneShape
          <5> QED
            BY <1>8, <5>1
        <4>2. ub.own[n] = tb.own[n] /\ ub.seen[n] = tb.seen[n]
          BY <1>3, <1>4, <3>1, <3>3
        <4> QED
          BY <3>1, <4>1, <4>2
      <3> QED
        BY <3>2, <3>3
    <2>4. Shown(t, ub, wire', db.rev)
      BY <2>2, <2>3 DEF Shown
    <2>5. Acting(ub, wire'[<<t, "a">>])
      BY <2>1 DEF Acting
    <2> QED
      BY <2>1, <2>4, <2>5
  <1> QED
    BY <1>10, <1>11

\* A button's answer that leads to another page.
LEMMA PagesLeft ==
    ASSUME ConsoleInv, PagesInv, focus = "pages", NEW u \in Tabs, NEW s, s = <<u, "a">>,
           tab[u].leave # "stay", UNCHANGED <<focus, db>>,
           tab' = [tab EXCEPT ![u] = There(s)],
           wire' = reading(Blank(u), u, There(s), byPage(There(s)))
    PROVE  PagesInv'
  <1>1. s[1] = u /\ DOMAIN tab = Tabs
    BY DEF ConsoleInv
  <1>2. /\ There(s).leave # "stay"
        /\ \A n \in DOMAIN There(s).data : There(s).seen[n] = 0 /\ There(s).own[n] = 0
    BY <1>1, ThereTab
  <1> DEFINE ub == There(s)
             w == Blank(u)
  <1>3. /\ \A t \in Tabs \ {u} : \A l \in Lanes : w[<<t, l>>] = wire[<<t, l>>]
        /\ \A l \in Lanes : w[<<u, l>>].at = "free"
    BY SlotShape, NoRequestFree DEF Blank
  <1> HIDE DEF ub, w
  <1>4. \A t \in Tabs :
           /\ wire'[<<t, "a">>] = w[<<t, "a">>]
           /\ \A l \in {"load", "more", "b"} :
                 \/ t = u /\ (\E n \in byPage(ub) : l = laneOf(n)) /\ wire'[<<t, l>>].at = "sent"
                 \/ (t = u => \A n \in byPage(ub) : l # laneOf(n)) /\ wire'[<<t, l>>] = w[<<t, l>>]
    <2> DEFINE v == reading(w, u, ub, byPage(ub))
    <2>1. wire' = v
      BY DEF ub, w
    <2>2. \A t \in Tabs : ReadIn(v, w, u, byPage(ub), t)
      BY ReadingLanes, Zenon
    <2> HIDE DEF v
    <2> QED
      BY <2>1, <2>2 DEF ReadIn
  <1>5. tab' = [tab EXCEPT ![u] = ub]
    BY DEF ub
  <1>6. ub.leave # "stay" /\ \A n \in DOMAIN ub.data : ub.seen[n] = 0 /\ ub.own[n] = 0
    BY <1>2 DEF ub
  <1>7. db.rev \in Nat
    BY DEF ConsoleInv, DbOK
  <1> SUFFICES ASSUME NEW t \in Tabs
               PROVE  Shown(t, tab'[t], wire', db.rev) /\ Acting(tab'[t], wire'[<<t, "a">>])
    BY DEF PagesInv
  <1>9. Shown(t, tab[t], wire, db.rev) /\ Acting(tab[t], wire[<<t, "a">>])
    BY DEF PagesInv
  <1>10. CASE t # u
    <2>1. tab'[t] = tab[t]
      BY <1>1, <1>5, <1>10
    <2>2. wire'[<<t, "a">>] = wire[<<t, "a">>] /\ \A l \in {"load", "more", "b"} : wire'[<<t, l>>] = wire[<<t, l>>]
      BY <1>3, <1>4, <1>10, ZenonT(30) DEF Lanes
    <2>3. Shown(t, tab[t], wire', db.rev)
      BY <1>9, <2>2, LaneShape DEF Shown
    <2> QED
      BY <1>9, <2>1, <2>2, <2>3
  <1>11. CASE t = u
    <2>1. tab'[t] = ub
      BY <1>1, <1>5, <1>11
    <2>2. \A l \in {"load", "more", "b"} : wire'[<<t, l>>].at # "free" => Part(ub, l)
      <3> TAKE l \in {"load", "more", "b"}
      <3>1. \/ (\E n \in byPage(ub) : l = laneOf(n)) /\ wire'[<<t, l>>].at = "sent"
            \/ wire'[<<t, l>>] = w[<<t, l>>]
        BY <1>4, <1>11
      <3>2. w[<<t, l>>].at = "free"
        BY <1>3, <1>11 DEF Lanes
      <3> QED
        BY <3>1, <3>2 DEF Part, byPage
    <2>3. \A n \in byPage(ub) : wire'[<<t, laneOf(n)>>].at = "sent"
      <3> TAKE n \in byPage(ub)
      <3>1. laneOf(n) \in {"load", "more", "b"}
        BY LaneShape
      <3> QED
        BY <1>4, <1>11, <3>1
    <2>4. Shown(t, ub, wire', db.rev)
      <3>1. \A n \in byPage(ub) : ub.seen[n] = 0 /\ ub.own[n] = 0
        BY <1>6 DEF byPage
      <3> QED
        BY <1>7, <2>2, <2>3, <3>1 DEF Shown
    <2>5. Acting(ub, wire'[<<t, "a">>])
      BY <1>6 DEF Acting
    <2> QED
      BY <2>1, <2>4, <2>5
  <1> QED
    BY <1>10, <1>11

LEMMA PagesActAnswered ==
    ASSUME ConsoleInv, PagesInv, focus = "pages", NEW s \in Slots, actAnswered(s)
    PROVE  PagesInv'
  <1>1. s[1] \in Tabs /\ s = <<s[1], "a">> /\ UNCHANGED <<focus, db>> /\ wire[s].at = "answered"
    BY ActAnsweredStep DEF actAnswered, others, answeredTo
  <1>2. CASE tab' = tab /\ wire' = quiet(s)
    <2>1. DOMAIN wire = Slots
      BY TheSlot
    <2>2. \A t \in Tabs : \A l \in Lanes : wire'[<<t, l>>] = wire[<<t, l>>] \/ (l = "a" /\ wire'[<<t, l>>].at = "free")
      <3> SUFFICES ASSUME NEW t \in Tabs, NEW l \in Lanes
                   PROVE  wire'[<<t, l>>] = wire[<<t, l>>] \/ (l = "a" /\ wire'[<<t, l>>].at = "free")
        OBVIOUS
      <3>1. <<t, l>> \in Slots /\ (<<t, l>> = s => l = "a")
        BY <1>1, SlotShape
      <3>2. wire'[<<t, l>>] = IF <<t, l>> = s THEN NoRequest ELSE wire[<<t, l>>]
        BY <1>2, <2>1, <3>1 DEF quiet
      <3> QED
        BY <3>1, <3>2, NoRequestFree
    <2>3. db.rev \in Nat
      BY DEF ConsoleInv, DbOK
    <2> QED
      BY <1>1, <1>2, <2>2, <2>3, PagesStep
  <1>3. CASE tab[s[1]].leave = "stay" /\ tab' = [tab EXCEPT ![s[1]].own = Own(s)]
             /\ wire' = reading(quiet(s), s[1], tab[s[1]], tab[s[1]].reload)
    BY <1>1, <1>3, PagesStayed
  <1>4. CASE tab[s[1]].leave # "stay" /\ tab' = [tab EXCEPT ![s[1]] = There(s)]
             /\ wire' = reading(Blank(s[1]), s[1], There(s), byPage(There(s)))
    BY <1>1, <1>4, PagesLeft
  <1> QED
    BY <1>2, <1>3, <1>4, ActAnsweredStep

LEMMA PagesArrive ==
    ASSUME ConsoleInv, PagesInv, focus = "pages", NEW s \in Slots, pageArrives(s)
    PROVE  PagesInv'
  <1> DEFINE u == s[1]
             tb == tab[u]
             m == nameIn(tb, s[2])
             data == IF good(s) THEN wire[s].data ELSE Null
             ub == Arrived(tb, m, data, wire[s].rev)
             log == <<u, "b">>
  <1>0. \/ wire' = quiet(s)
        \/ \E r : /\ r \in {wire[log], NoRequest, request(pageQueries(tb).audit, "reload")}
                 /\ wire' = [quiet(s) EXCEPT ![log] = r] /\ tb.page = "license"
    BY PageArrivesStep
  <1>1. /\ u \in Tabs /\ s[2] \in {"load", "more", "b"} /\ s = <<u, s[2]>>
        /\ tab' = [tab EXCEPT ![u] = ub] /\ UNCHANGED <<focus, db>> /\ wire[s].at = "answered"
    <2>1. UNCHANGED <<focus, db>> /\ wire[s].at = "answered"
      BY DEF pageArrives, others, answeredTo
    <2> QED
      BY <2>1, PageArrivesStep, SlotShape
  <1>2. /\ DOMAIN wire = Slots /\ InFlight(focus, accepted, db, s, wire[s])
        /\ DOMAIN tab = Tabs /\ TabOK("pages", tb) /\ DetailTab(tb)
    BY <1>1, TheSlot, TheTab DEF ConsoleInv, TabOK
  <1>3. /\ ub.page = tb.page /\ ub.id = tb.id /\ ub.own = tb.own
        /\ ub.reload = tb.reload /\ ub.leave = tb.leave
        /\ DOMAIN ub.data = DOMAIN tb.data /\ ub.seen = [tb.seen EXCEPT ![m] = wire[s].rev]
    <2>1. TabOK("pages", tb)
      BY <1>2
    <2> DEFINE rev == wire[s].rev
    <2> HIDE DEF tb, m, data, rev
    <2>2. ArrivedFrom(Arrived(tb, m, data, rev), tb, m, rev)
      BY <2>1, ArrivedFields, Zenon
    <2> QED
      BY <2>2 DEF ArrivedFrom, rev
  <1>4. Part(tb, s[2])
    BY <1>1 DEF PagesInv, Shown
  <1>5. m \in DOMAIN tb.data /\ laneOf(m) = s[2] /\ \A n \in DOMAIN tb.data : laneOf(n) = s[2] => n = m
    <2>1. \E n \in DOMAIN pageQueries(tb) : laneOf(n) = s[2]
      BY <1>2, <1>4 DEF Part, DetailTab
    <2>2. m \in DOMAIN pageQueries(tb) /\ laneOf(m) = s[2]
      BY <2>1 DEF nameIn
    <2>3. DOMAIN tb.data = DOMAIN pageQueries(tb)
      BY <1>2 DEF DetailTab
    <2> HIDE DEF m, tb
    <2>4. \A n \in DOMAIN pageQueries(tb) : laneOf(n) = laneOf(m) => n = m
      BY <2>2, PageReads
    <2> QED
      BY <2>2, <2>3, <2>4
  <1>6. wire[s].rev \in Nat
    BY <1>2 DEF InFlight
  <1>7. DOMAIN tb.seen = DOMAIN tb.data
    BY <1>2 DEF DetailTab
  <1> HIDE DEF m, data, ub
  <1>14. tb.page = "license" => Part(tb, "b")
    <2> HAVE tb.page = "license"
    <2>1. "audit" \in DOMAIN pageQueries(tb)
      BY DEF pageQueries, licenseReads
    <2> QED
      BY <1>2, <2>1, LaneShape DEF Part, DetailTab
  <1>15. log \in Slots /\ s \in Slots /\ log[1] = u /\ log[2] = "b"
    BY <1>1, SlotShape DEF Lanes
  <1>16. /\ \A o \in Slots \ {s, log} : wire'[o] = wire[o]
         /\ s # log => wire'[s].at = "free"
         /\ wire'[log].at # "free" => Part(tb, "b")
    <2>1. request(pageQueries(tb).audit, "reload").at = "sent"
      BY RequestShape
    <2> DEFINE rq == request(pageQueries(tb).audit, "reload")
    <2> HIDE DEF rq
    <2>2. rq.at = "sent"
      BY <2>1 DEF rq
    <2>3. DOMAIN quiet(s) = Slots /\ quiet(s)[s].at = "free" /\ \A o \in Slots \ {s} : quiet(s)[o] = wire[o]
      BY <1>2, NoRequestFree DEF quiet
    <2>6. wire[log].at # "free" => Part(tb, "b")
      BY <1>1 DEF PagesInv, Shown
    <2>4. CASE wire' = quiet(s)
      BY <1>15, <2>3, <2>4, <2>6
    <2>5. CASE \E r : r \in {wire[log], NoRequest, rq} /\ wire' = [quiet(s) EXCEPT ![log] = r] /\ Part(tb, "b")
      <3>0. PICK r : r \in {wire[log], NoRequest, rq} /\ wire' = [quiet(s) EXCEPT ![log] = r] /\ Part(tb, "b")
        BY <2>5
      <3> HIDE DEF log
      <3>1. \A o \in Slots \ {log} : wire'[o] = quiet(s)[o]
        BY <1>15, <2>3, <3>0
      <3> QED
        BY <1>15, <2>3, <3>0, <3>1
    <2> QED
      BY <1>0, <1>14, <2>4, <2>5 DEF rq
  <1> SUFFICES ASSUME NEW t \in Tabs
               PROVE  Shown(t, tab'[t], wire', db.rev) /\ Acting(tab'[t], wire'[<<t, "a">>])
    BY <1>1 DEF PagesInv
  <1>10. Shown(t, tab[t], wire, db.rev) /\ Acting(tab[t], wire[<<t, "a">>])
    BY DEF PagesInv
  <1>11. wire'[<<t, "a">>] = wire[<<t, "a">>]
    <2>1. <<t, "a">> \notin {s, log} /\ <<t, "a">> \in Slots
      BY <1>1, SlotShape DEF Lanes
    <2> QED
      BY <1>16, <2>1
  <1>12. CASE t # u
    <2>1. tab'[t] = tab[t]
      BY <1>1, <1>2, <1>12
    <2>4. \A l \in {"load", "more", "b"} : <<t, l>> \notin {s, log} /\ <<t, l>> \in Slots
      BY <1>1, <1>12, SlotShape DEF Lanes
    <2>2. \A l \in {"load", "more", "b"} : wire'[<<t, l>>] = wire[<<t, l>>]
      BY <1>16, <2>4
    <2>3. Shown(t, tab[t], wire', db.rev)
      BY <1>10, <2>2, LaneShape DEF Shown
    <2> QED
      BY <1>10, <1>11, <2>1, <2>3
  <1>13. CASE t = u
    <2>1. tab'[t] = ub
      BY <1>1, <1>2, <1>13
    <2>2. DOMAIN ub.data = DOMAIN tb.data /\ ub.reload = tb.reload /\ pageQueries(ub) = pageQueries(tb)
      <3>1. ub.page = tb.page /\ ub.id = tb.id
        BY <1>3
      <3> QED
        BY <1>3, <3>1, SameQueries
    <2>3. Acting(ub, wire'[<<t, "a">>])
      BY <1>3, <1>10, <1>11, <1>13, <2>2 DEF Acting, Offered
    <2>4. \A l \in {"load", "more", "b"} : wire'[<<t, l>>].at # "free" => Part(ub, l)
      <3> SUFFICES ASSUME NEW l \in {"load", "more", "b"}, wire'[<<t, l>>].at # "free" PROVE Part(ub, l)
        OBVIOUS
      <3>1. CASE <<t, l>> = log
        BY <1>13, <1>16, <2>2, <3>1 DEF Part
      <3>2. CASE <<t, l>> # log
        <4>1. <<t, l>> \in Slots
          BY SlotShape DEF Lanes
        <4>2. <<t, l>> # s
          BY <1>16, <3>2
        <4>3. wire'[<<t, l>>] = wire[<<t, l>>]
          BY <1>16, <3>2, <4>1, <4>2
        <4> QED
          BY <1>10, <1>13, <2>2, <4>3 DEF Shown, Part
      <3> QED
        BY <3>1, <3>2
    <2>5. ASSUME NEW n \in byPage(ub)
          PROVE  /\ ub.own[n] \in Nat /\ ub.own[n] <= db.rev
                 /\ wire'[<<t, laneOf(n)>>].at = "free" => ub.seen[n] \in Nat /\ ub.own[n] <= ub.seen[n]
                 /\ wire'[<<t, laneOf(n)>>].at = "answered" => ub.own[n] <= wire'[<<t, laneOf(n)>>].rev
      <3>1. /\ tb.own[n] \in Nat /\ tb.own[n] <= db.rev
            /\ wire[<<t, laneOf(n)>>].at = "free" => tb.seen[n] \in Nat /\ tb.own[n] <= tb.seen[n]
            /\ wire[<<t, laneOf(n)>>].at = "answered" => tb.own[n] <= wire[<<t, laneOf(n)>>].rev
            /\ n \in DOMAIN tb.data /\ n # "audit" /\ laneOf(n) # "b"
        BY <1>10, <1>13, <2>2, <2>5, LaneShape DEF Shown, byPage
      <3>2. CASE n = m
        <4>1. <<t, laneOf(n)>> = s
          BY <1>1, <1>5, <1>13, <3>2
        <4>0. s # log /\ wire'[s].at = "free"
          <5>1. s[2] # "b"
            BY <1>5, <3>1, <3>2
          <5> QED
            BY <1>15, <1>16, <5>1
        <4>2. ub.seen[n] = wire[s].rev
          BY <1>3, <1>5, <1>7, <3>2
        <4>3. tb.own[n] <= wire[s].rev
          BY <1>1, <3>1, <4>1
        <4> QED
          BY <1>3, <1>6, <3>1, <4>0, <4>1, <4>2, <4>3
      <3>3. CASE n # m
        <4>1. laneOf(n) # s[2]
          BY <1>5, <3>1, <3>3
        <4>2. <<t, laneOf(n)>> \notin {s, log} /\ <<t, laneOf(n)>> \in Slots
          BY <1>1, <3>1, <4>1, LaneShape, SlotShape
        <4>3. wire'[<<t, laneOf(n)>>] = wire[<<t, laneOf(n)>>]
          BY <1>16, <4>2
        <4>4. ub.seen[n] = tb.seen[n]
          BY <1>3, <1>7, <3>1, <3>3
        <4> QED
          BY <1>3, <3>1, <4>3, <4>4
      <3> QED
        BY <3>2, <3>3
    <2>6. Shown(t, ub, wire', db.rev)
      BY <2>4, <2>5 DEF Shown
    <2> QED
      BY <2>1, <2>3, <2>6
  <1> QED
    BY <1>12, <1>13

LEMMA PagesInitInv ==
    ASSUME ConsoleInit
    PROVE  PagesInv
  <1> SUFFICES ASSUME focus = "pages", NEW t \in Tabs
               PROVE  Shown(t, tab[t], wire, db.rev) /\ Acting(tab[t], wire[<<t, "a">>])
    BY DEF PagesInv
  <1>1. \A l \in Lanes : wire[<<t, l>>].at = "free"
    BY SlotShape, NoRequestFree DEF ConsoleInit
  <1>2. PICK tb \in firstTab("pages") : tab[t] = tb
    BY DEF ConsoleInit
  <1>3. \E p : tb = pageOn(p[1], p[2])
    BY <1>2 DEF firstTab
  <1>4. \A n \in DOMAIN tb.data : tb.seen[n] = 0 /\ tb.own[n] = 0
    BY <1>3, PageOnTab
  <1>5. db.rev = 0
    BY StartDbOK DEF ConsoleInit
  <1>6. Shown(t, tab[t], wire, db.rev)
    BY <1>1, <1>2, <1>4, <1>5, LaneShape DEF Shown, Lanes, byPage
  <1>7. Acting(tab[t], wire[<<t, "a">>])
    BY <1>1 DEF Acting, Lanes
  <1> QED
    BY <1>6, <1>7

\* On a detail page no other page's step is taken.
LEMMA PagesSteps ==
    ASSUME ConsoleInv, focus = "pages", ConsoleNext
    PROVE  \/ \E s \in Slots : RequestStep(s) \/ PageAnswer(s)
           \/ \E t \in Tabs : PageStep(t)
           \/ dismiss
  <1>1. ASSUME NEW s \in Slots, TableAnswer(s) \/ FormAnswer(s) \/ SessionAnswer(s) PROVE FALSE
    <2>1. wire[s].at = "answered" => Placed(focus, s, wire[s].use)
      BY AnswerOf
    <2>2. InFlight(focus, accepted, db, s, wire[s])
      BY TheSlot
    <2>3. CASE rowsArrive(s) \/ bulkAnswered(s) \/ finishAction(s)
      BY <2>1, <2>3 DEF rowsArrive, bulkAnswered, finishAction, answeredTo, Placed, AuthUses
    <2>4. CASE FormAnswer(s)
      BY <2>1, <2>4 DEF FormAnswer, saved, templateArrives, allArrive, answeredTo, Placed, AuthUses
    <2>5. CASE authServe(s)
      <3>1. wire[s].use # "none" /\ wire[s].q.route \in AuthRoutes /\ Placed(focus, s, wire[s].use)
        BY <2>2, <2>5 DEF authServe, InFlight
      <3>2. wire[s].use \notin AuthUses
        BY <3>1 DEF Placed, AuthUses
      <3>3. Asks(wire[s].q)
        BY <2>2, <3>1, <3>2 DEF InFlight, AsksIn
      <3> QED
        BY <3>1, <3>3 DEF Asks, AdminRoutes, ListRoutes, AuthRoutes
    <2>6. CASE signedIn(s) \/ signedOut(s) \/ sessionRead(s)
      BY <2>1, <2>6 DEF signedIn, signedOut, sessionRead, answeredTo, Placed, AuthUses
    <2>7. CASE expelled(s)
      BY <2>2, <2>7 DEF expelled, InFlight
    <2> QED
      BY <1>1, <2>3, <2>4, <2>5, <2>6, <2>7 DEF TableAnswer, SessionAnswer
  <1>2. ASSUME NEW t \in Tabs, FormStep(t) \/ SessionStep(t) PROVE FALSE
    BY <1>2 DEF FormStep, SessionStep, type, submit, refreshTemplate, signIn, signOut, browse
  <1>3. CASE TableStep
    <2>1. \A tb : ~navigate(tb)
      BY DEF navigate, usable
    <2>2. \A i : ~toggleSelected(i)
      BY DEF toggleSelected, usable
    <2>3. \A a : ~runBulk(a)
      BY DEF runBulk, usable
    <2>4. ~goBack /\ ~refreshList
      BY DEF goBack, refreshList, usable
    <2> QED
      BY <1>3, <2>1, <2>2, <2>3, <2>4, Zenon
         DEF TableStep, applyServerFilter, goNext, goPrev, runLifecycleVerb, runExtend
  <1>4. ~revokeBearer
    BY DEF revokeBearer
  <1> QED
    BY <1>1, <1>2, <1>3, <1>4, StepKinds, Zenon

LEMMA FocusStays ==
    ASSUME ConsoleNext
    PROVE  focus' = focus
  <1>1. ASSUME NEW tb, navigate(tb) PROVE focus' = focus
    BY <1>1 DEF navigate, others
  <1>2. ASSUME NEW a, runBulk(a) PROVE focus' = focus
    BY <1>2 DEF runBulk, others
  <1>3. CASE TableStep
    BY <1>1, <1>2, <1>3 DEF TableStep, applyServerFilter, goNext, goPrev, runLifecycleVerb, runExtend,
                            goBack, refreshList, toggleSelected, dismiss, others
  <1>4. ASSUME NEW s \in Slots, RequestStep(s) \/ TableAnswer(s) \/ PageAnswer(s) PROVE focus' = focus
    BY <1>4 DEF RequestStep, TableAnswer, PageAnswer, proxy, handle, lose, callDirectly, hangUp, rowsArrive,
                bulkAnswered, finishAction, actAnswered, pageArrives, others
  <1>5. ASSUME NEW s \in Slots, FormAnswer(s) \/ SessionAnswer(s) PROVE focus' = focus
    BY <1>5 DEF FormAnswer, SessionAnswer, saved, templateArrives, allArrive, authServe, signedIn, signedOut,
                sessionRead, expelled, others
  <1>6. ASSUME NEW t \in Tabs, PageStep(t) \/ FormStep(t) \/ SessionStep(t) PROVE focus' = focus
    BY <1>6 DEF PageStep, FormStep, SessionStep, act, refreshPage, type, submit, refreshTemplate, signIn, signOut,
                browse, others
  <1> QED
    BY <1>3, <1>4, <1>5, <1>6, StepKinds DEF revokeBearer

LEMMA PagesDismiss ==
    ASSUME ConsoleInv, PagesInv, focus = "pages", dismiss
    PROVE  PagesInv'
  <1>1. UNCHANGED <<focus, db, wire>> /\ tab' = [tab EXCEPT ![Operator].dialog = "none"]
    BY DEF dismiss, others
  <1>2. DOMAIN tab = Tabs /\ \A t \in Tabs : DOMAIN tab[t] = TabFields
    BY TheTab DEF ConsoleInv
  <1>3. \A t \in Tabs : /\ tab'[t].data = tab[t].data /\ tab'[t].own = tab[t].own /\ tab'[t].seen = tab[t].seen
                        /\ tab'[t].leave = tab[t].leave /\ tab'[t].reload = tab[t].reload
                        /\ tab'[t].page = tab[t].page /\ tab'[t].id = tab[t].id
    BY <1>1, <1>2 DEF TabFields
  <1> SUFFICES ASSUME NEW t \in Tabs
               PROVE  Shown(t, tab'[t], wire, db.rev) /\ Acting(tab'[t], wire[<<t, "a">>])
    BY <1>1 DEF PagesInv
  <1>4. Shown(t, tab[t], wire, db.rev) /\ Acting(tab[t], wire[<<t, "a">>])
    BY DEF PagesInv
  <1> DEFINE ub == tab'[t]
  <1>5. /\ ub.data = tab[t].data /\ ub.own = tab[t].own /\ ub.seen = tab[t].seen
        /\ ub.leave = tab[t].leave /\ ub.reload = tab[t].reload /\ ub.page = tab[t].page /\ ub.id = tab[t].id
    BY <1>3
  <1> HIDE DEF ub
  <1>6. pageQueries(ub) = pageQueries(tab[t])
    BY <1>5, SameQueries
  <1>7. Shown(t, ub, wire, db.rev)
    BY <1>4, <1>5 DEF Shown, Part, byPage
  <1>8. Acting(ub, wire[<<t, "a">>])
    BY <1>4, <1>5, <1>6 DEF Acting, Offered
  <1> QED
    BY <1>7, <1>8 DEF ub

LEMMA PagesNextInv ==
    ASSUME ConsoleInv, PagesInv, [ConsoleNext]_consoleVars
    PROVE  PagesInv'
  <1>1. CASE UNCHANGED consoleVars
    BY <1>1 DEF consoleVars, PagesInv
  <1>2. CASE ConsoleNext /\ focus # "pages"
    <2>1. focus' = focus
      BY <1>2, FocusStays
    <2> QED
      BY <1>2, <2>1 DEF PagesInv
  <1>3. CASE ConsoleNext /\ focus = "pages"
    BY <1>3, PagesSteps, PagesProxy, PagesHandle, PagesDirect, PagesActAnswered, PagesArrive, PagesAct, PagesRefresh,
       PagesDismiss DEF RequestStep, PageAnswer, PageStep
  <1> QED
    BY <1>1, <1>2, <1>3

LEMMA DetailFollows ==
    ASSUME ConsoleInv, PagesInv
    PROVE  DetailExact
  <1>1. EditsKept
    BY TheTab DEF EditsKept, TabOK, FormKept
  <1>2. OwnWriteShown
    <2> SUFFICES ASSUME NEW t \in Tabs, ~busy(t, Lanes), NEW n \in byPage(tab[t])
                 PROVE  tab[t].seen[n] >= tab[t].own[n]
      BY DEF OwnWriteShown, ownShown
    <2>1. CASE focus = "pages"
      <3>1. wire[<<t, laneOf(n)>>].at = "free"
        BY LaneShape DEF busy, free
      <3> QED
        BY <2>1, <3>1 DEF PagesInv, Shown
    <2>2. CASE focus # "pages"
      BY <2>2, TheTab DEF TabOK, byPage
    <2> QED
      BY <2>1, <2>2
  <1> QED
    BY <1>1, <1>2 DEF DetailExact

\* Once a button's request is answered and its reads are done, the page shows
\* every change that request made to what the page itself reads, and what is typed
\* while a save is under way stays in the form (the detail pages of admin/).
THEOREM DetailIsExact == ConsoleSpec => []DetailExact
  <1>1. ConsoleInit => PagesInv
    BY PagesInitInv
  <1>2. ConsoleInv /\ PagesInv /\ [ConsoleNext]_consoleVars => PagesInv'
    BY PagesNextInv
  <1>3. ConsoleInv /\ PagesInv => DetailExact
    BY DetailFollows
  <1> QED
    BY <1>1, <1>2, <1>3, ConsoleInvariant, PTL DEF ConsoleSpec

-----------------------------------------------------------------------------
(* The licenses table.  Its rows are three, and so are the lanes a bulk      *)
(* action has.                                                               *)

\* Some rows of the three.
FewRows(S) == S \subseteq 1..3
Cursors == {Null} \cup 1..3
place(c) == IF c = Null THEN 4 ELSE c

LEMMA PageSize == pageOf(25) \in Nat /\ pageOf(25) >= 1 /\ parseLimit(pageOf(25)) /\ limitValue(pageOf(25)) = pageOf(25)
  <1>1. Unit \in 1..25
    BY UnitAssumption
  <1>2. 25 \div Unit \in Nat /\ 25 \div Unit >= 1 /\ 100 \div Unit \in Nat /\ 25 \div Unit <= 100 \div Unit
    BY <1>1, SMTT(30)
  <1> QED
    BY <1>2 DEF pageOf, parseLimit, limitValue

LEMMA SmallSets ==
    /\ IsFiniteSet({}) /\ Cardinality({}) = 0
    /\ \A a : IsFiniteSet({a}) /\ Cardinality({a}) = 1
    /\ \A a, b : a # b => IsFiniteSet({a, b}) /\ Cardinality({a, b}) = 2
    /\ IsFiniteSet({3, 2, 1}) /\ Cardinality({3, 2, 1}) = 3
  <1>1. IsFiniteSet({}) /\ Cardinality({}) = 0
    BY FS_EmptySet
  <1>2. \A a : IsFiniteSet({a}) /\ Cardinality({a}) = 1
    BY FS_Singleton
  <1>3. ASSUME NEW a, NEW b, a # b PROVE IsFiniteSet({a, b}) /\ Cardinality({a, b}) = 2
    <2>1. {a, b} = {a} \cup {b} /\ b \notin {a}
      BY <1>3
    <2>2. Cardinality({a} \cup {b}) = Cardinality({a}) + 1 /\ IsFiniteSet({a} \cup {b})
      BY <1>2, <2>1, FS_AddElement
    <2>3. Cardinality({a}) + 1 = 2
      <3>1. Cardinality({a}) = 1
        BY <1>2, Zenon
      <3> QED
        BY <3>1
    <2> QED
      BY <2>1, <2>2, <2>3, Zenon
  <1>4. IsFiniteSet({3, 2, 1}) /\ Cardinality({3, 2, 1}) = 3
    <2>1. {3, 2, 1} = {3, 2} \cup {1} /\ 1 \notin {3, 2} /\ 3 # 2
      OBVIOUS
    <2>2. IsFiniteSet({3, 2}) /\ Cardinality({3, 2}) = 2
      BY <1>3, <2>1, Zenon
    <2>3. Cardinality({3, 2} \cup {1}) = Cardinality({3, 2}) + 1 /\ IsFiniteSet({3, 2} \cup {1})
      BY <2>1, <2>2, FS_AddElement
    <2>4. Cardinality({3, 2}) + 1 = 3
      BY <2>2
    <2> QED
      BY <2>1, <2>3, <2>4, Zenon
  <1> QED
    BY <1>1, <1>2, <1>3, <1>4, Zenon

LEMMA FewShape ==
    ASSUME NEW S, FewRows(S)
    PROVE  \/ S = {}
           \/ \E a \in 1..3 : S = {a}
           \/ \E a, b \in 1..3 : a > b /\ S = {a, b}
           \/ S = {3, 2, 1}
  <1>1. S \subseteq {1, 2} \/ S \subseteq {1, 3} \/ S \subseteq {2, 3} \/ S = {3, 2, 1}
    <2>1. \A x \in S : x = 1 \/ x = 2 \/ x = 3
      BY DEF FewRows
    <2>2. CASE 1 \in S /\ 2 \in S /\ 3 \in S
      BY <2>1, <2>2
    <2>3. CASE ~(1 \in S /\ 2 \in S /\ 3 \in S)
      BY <2>1, <2>3
    <2> QED
      BY <2>2, <2>3
  <1>2. ASSUME NEW a \in 1..3, NEW b \in 1..3, a > b, S \subseteq {b, a}
        PROVE  S = {} \/ S = {a} \/ S = {b} \/ S = {a, b}
    BY <1>2
  <1> QED
    BY <1>1, <1>2

LEMMA FewFinite ==
    ASSUME NEW S, FewRows(S)
    PROVE  IsFiniteSet(S) /\ Cardinality(S) \in 0..3
  <1>1. CASE S = {}
    BY <1>1, SmallSets
  <1>2. ASSUME NEW a \in 1..3, S = {a} PROVE IsFiniteSet(S) /\ Cardinality(S) = 1
    BY <1>2, SmallSets, Zenon
  <1>3. ASSUME NEW a \in 1..3, NEW b \in 1..3, a > b, S = {a, b} PROVE IsFiniteSet(S) /\ Cardinality(S) = 2
    <2>1. a # b
      BY <1>3
    <2> QED
      BY <1>3, <2>1, SmallSets, Zenon
  <1>4. CASE S = {3, 2, 1}
    <2>1. IsFiniteSet(S) /\ Cardinality(S) = 3
      BY <1>4, SmallSets, Zenon
    <2> QED
      BY <2>1
  <1> QED
    BY <1>1, <1>2, <1>3, <1>4, FewShape

\* The rows of a page by their number: each number has a row of its own.
LEMMA RowNumbers ==
    ASSUME NEW items, FewRows(DOMAIN items)
    PROVE  /\ \A k \in 1..Cardinality(DOMAIN items) : rowAt(items, k) \in DOMAIN items
           /\ \A j, k \in 1..Cardinality(DOMAIN items) : rowAt(items, j) = rowAt(items, k) => j = k
  <1> DEFINE S == DOMAIN items
             above(x) == {m \in S : m > x}
  <1>1. \A k \in 1..Cardinality(S) : \E x \in S : Cardinality(above(x)) = k - 1
    <2>1. CASE S = {}
      BY <2>1, SmallSets
    <2>2. ASSUME NEW a \in 1..3, S = {a} PROVE \A k \in 1..Cardinality(S) : \E x \in S : Cardinality(above(x)) = k - 1
      <3>1. above(a) = {}
        BY <2>2
      <3>2. Cardinality(S) = 1 /\ Cardinality(above(a)) = 0
        BY <2>2, <3>1, SmallSets
      <3> HIDE DEF above
      <3> QED
        BY <2>2, <3>2
    <2>3. ASSUME NEW a \in 1..3, NEW b \in 1..3, a > b, S = {a, b}
          PROVE  \A k \in 1..Cardinality(S) : \E x \in S : Cardinality(above(x)) = k - 1
      <3>1. above(a) = {} /\ above(b) = {a} /\ a # b
        BY <2>3
      <3>2. Cardinality(S) = 2 /\ Cardinality(above(a)) = 0 /\ Cardinality(above(b)) = 1
        <4>1. Cardinality(S) = 2
          <5>1. a # b
            BY <3>1
          <5>2. Cardinality({a, b}) = 2
            BY <5>1, SmallSets, Zenon
          <5>3. S = {a, b}
            BY <2>3
          <5> HIDE DEF S
          <5> QED
            BY <5>2, <5>3
        <4> HIDE DEF above
        <4>2. Cardinality(above(a)) = 0 /\ Cardinality(above(b)) = 1
          BY <3>1, SmallSets, Zenon
        <4> QED
          BY <4>1, <4>2
      <3> HIDE DEF above, S
      <3> SUFFICES ASSUME NEW k \in 1..2 PROVE \E x \in S : Cardinality(above(x)) = k - 1
        BY <3>2
      <3>3. CASE k = 1
        BY <2>3, <3>2, <3>3
      <3>4. CASE k = 2
        BY <2>3, <3>2, <3>4
      <3> QED
        BY <3>3, <3>4
    <2>4. CASE S = {3, 2, 1}
      <3>1. above(3) = {} /\ above(2) = {3} /\ above(1) = {3, 2} /\ 3 # 2
        BY <2>4
      <3>2. Cardinality(S) = 3
        <4> HIDE DEF S
        <4> QED
          BY <2>4, SmallSets, Zenon
      <3> HIDE DEF above
      <3>3. Cardinality(above(3)) = 0 /\ Cardinality(above(2)) = 1 /\ Cardinality(above(1)) = 2
        <4>1. Cardinality({}) = 0 /\ Cardinality({3}) = 1 /\ Cardinality({3, 2}) = 2
          BY <3>1, SmallSets, Zenon
        <4> QED
          BY <3>1, <4>1, Zenon
      <3> HIDE DEF S
      <3> SUFFICES ASSUME NEW k \in 1..3 PROVE \E x \in S : Cardinality(above(x)) = k - 1
        BY <3>2
      <3>4. 1 \in S /\ 2 \in S /\ 3 \in S
        BY <2>4
      <3>5. k = 1 \/ k = 2 \/ k = 3
        OBVIOUS
      <3> QED
        BY <3>3, <3>4, <3>5
    <2> QED
      BY <2>1, <2>2, <2>3, <2>4, FewShape
  <1>2. \A k : rowAt(items, k) = CHOOSE x \in S : Cardinality(above(x)) = k - 1
    BY DEF rowAt
  <1> HIDE DEF above, S
  <1>3. \A k \in 1..Cardinality(S) : rowAt(items, k) \in S /\ Cardinality(above(rowAt(items, k))) = k - 1
    BY <1>1, <1>2
  <1>4. Cardinality(S) \in 0..3
    BY FewFinite DEF S
  <1> QED
    BY <1>3, <1>4 DEF S

\* A few rows are counted one by one.
has(S, i) == IF i \in S THEN 1 ELSE 0
LEMMA FewCount ==
    ASSUME NEW S, FewRows(S)
    PROVE  Cardinality(S) = has(S, 1) + has(S, 2) + has(S, 3)
  <1>1. CASE S = {}
    <2>1. has(S, 1) = 0 /\ has(S, 2) = 0 /\ has(S, 3) = 0
      BY <1>1 DEF has
    <2>2. Cardinality(S) = 0
      BY <1>1, SmallSets, Zenon
    <2> QED
      BY <2>1, <2>2
  <1>2. ASSUME NEW a \in 1..3, S = {a} PROVE Cardinality(S) = has(S, 1) + has(S, 2) + has(S, 3)
    <2>1. has(S, 1) + has(S, 2) + has(S, 3) = 1
      BY <1>2 DEF has
    <2>2. Cardinality(S) = 1
      BY <1>2, SmallSets, Zenon
    <2> QED
      BY <2>1, <2>2
  <1>3. ASSUME NEW a \in 1..3, NEW b \in 1..3, a > b, S = {a, b}
        PROVE  Cardinality(S) = has(S, 1) + has(S, 2) + has(S, 3)
    <2>1. has(S, 1) + has(S, 2) + has(S, 3) = 2
      BY <1>3 DEF has
    <2>2. a # b
      BY <1>3
    <2>3. Cardinality(S) = 2
      BY <1>3, <2>2, SmallSets, Zenon
    <2> QED
      BY <2>1, <2>3
  <1>4. CASE S = {3, 2, 1}
    <2>1. has(S, 1) = 1 /\ has(S, 2) = 1 /\ has(S, 3) = 1
      BY <1>4 DEF has
    <2>2. Cardinality(S) = 3
      BY <1>4, SmallSets, Zenon
    <2> QED
      BY <2>1, <2>2
  <1> QED
    BY <1>1, <1>2, <1>3, <1>4, FewShape

LEMMA FewEnds ==
    ASSUME NEW S, FewRows(S), S # {}
    PROVE  Min(S) \in S
  <1>1. \E a \in S : \A b \in S : a <= b
    <2>1. 1 \in S \/ 2 \in S \/ 3 \in S
      <3>1. PICK x : x \in S
        BY Zenon
      <3>2. x = 1 \/ x = 2 \/ x = 3
        BY <3>1 DEF FewRows
      <3> QED
        BY <3>1, <3>2
    <2> QED
      BY <2>1 DEF FewRows
  <1> QED
    BY <1>1 DEF Min

-----------------------------------------------------------------------------
\* What a page of the table holds, and where the next one starts.
RowsOK(data, cursor) ==
    /\ FewRows(DOMAIN data.items)
    /\ cursor \in Cursors => data.next_cursor = Null \/ (data.next_cursor \in 1..3 /\ data.next_cursor <= place(cursor))

LEMMA PageRows ==
    ASSUME NEW rows, NEW ids, ids \subseteq 1..3, NEW cursor
    PROVE  RowsOK(page(rows, ids, cursor, pageOf(25)), cursor)
  <1> DEFINE n == pageOf(25)
             rest == {i \in ids : cursor = Null \/ i < cursor}
             above(i) == {k \in rest : k > i}
             onPage == {i \in rest : Cardinality(above(i)) < n}
             p == page(rows, ids, cursor, n)
  <1>1. DOMAIN p.items = onPage /\ p.next_cursor = IF onPage = rest THEN Null ELSE Min(onPage)
    BY DEF page
  <1>2. n \in Nat /\ n >= 1
    BY PageSize
  <1>3. rest \subseteq 1..3 /\ onPage \subseteq rest
    OBVIOUS
  <1>4. cursor \in Cursors => \A i \in rest : i <= place(cursor)
    <2> SUFFICES ASSUME cursor \in Cursors, NEW i \in rest PROVE i <= place(cursor)
      OBVIOUS
    <2>1. i \in 1..3 /\ (cursor = Null \/ i < cursor)
      OBVIOUS
    <2> HIDE DEF rest
    <2>2. CASE cursor = Null
      BY <2>1, <2>2 DEF place
    <2>3. CASE cursor # Null
      BY <2>1, <2>3 DEF place, Cursors
    <2> QED
      BY <2>2, <2>3
  <1> HIDE DEF rest
  <1>5. \A i \in rest : (\A k \in rest : k <= i) => Cardinality(above(i)) = 0
    <2> SUFFICES ASSUME NEW i \in rest, \A k \in rest : k <= i PROVE Cardinality(above(i)) = 0
      OBVIOUS
    <2>3. \A k \in rest : ~(k > i)
      <3> SUFFICES ASSUME NEW k \in rest PROVE ~(k > i)
        OBVIOUS
      <3>1. k \in 1..3 /\ i \in 1..3 /\ k <= i
        BY <1>3
      <3> QED
        BY <3>1
    <2>1. above(i) = {}
      BY <2>3
    <2>2. Cardinality({}) = 0
      BY SmallSets
    <2> HIDE DEF above
    <2> QED
      BY <2>1, <2>2, Zenon
  <1> HIDE DEF n, above
  <1>7. FewRows(onPage)
    BY <1>3 DEF FewRows
  <1>8. rest # {} => onPage # {}
    <2> HAVE rest # {}
    <2>1. \E i \in rest : \A k \in rest : k <= i
      <3>1. 3 \in rest \/ 2 \in rest \/ 1 \in rest
        <4>1. PICK i : i \in rest
          BY Zenon
        <4>2. i \in 1..3
          BY <1>3, <4>1
        <4>3. i = 1 \/ i = 2 \/ i = 3
          BY <4>2
        <4> QED
          BY <4>1, <4>3
      <3> QED
        BY <1>3, <3>1
    <2>2. PICK i \in rest : \A k \in rest : k <= i
      BY <2>1
    <2>3. Cardinality(above(i)) = 0
      BY <1>5, <2>2
    <2> QED
      BY <1>2, <2>3
  <1> HIDE DEF onPage, p
  <1>9. onPage # rest => Min(onPage) \in onPage
    BY <1>3, <1>7, <1>8, FewEnds
  <1>10. RowsOK(p, cursor)
    BY <1>1, <1>3, <1>4, <1>7, <1>9 DEF RowsOK
  <1> QED
    BY <1>10 DEF p, n

LEMMA ListedRows ==
    ASSUME NEW d, DOMAIN d.licenses = 1..3, NEW q, NEW row, q.route = "listLicenses", q.limit = pageOf(25)
    PROVE  serve(d, q, row).status = 200 /\ RowsOK(serve(d, q, row).data, q.cursor)
  <1> DEFINE ids == matching(d.licenses, parseEnum(q.filter, LicenseStatus))
  <1>1. ids \subseteq 1..3
    BY DEF matching
  <1> HIDE DEF ids
  <1>2. serve(d, q, row) = listed(d, q, d.licenses, ids)
    BY ServeCases DEF handleListLicenses, ids
  <1>3. parseLimit(q.limit) /\ limitValue(q.limit) = pageOf(25)
    BY PageSize
  <1>4. listed(d, q, d.licenses, ids) = ok(d, page(d.licenses, ids, q.cursor, pageOf(25)))
    BY <1>3 DEF listed
  <1>5. RowsOK(page(d.licenses, ids, q.cursor, pageOf(25)), q.cursor)
    BY <1>1, PageRows
  <1> QED
    BY <1>2, <1>4, <1>5 DEF ok

\* The ticks are row numbers of the rows shown, and what is selected was ticked;
\* a selection that outlived its table did so after a lost answer.
SelectionOK(tb, losses) ==
    /\ FewRows(DOMAIN tb.items) /\ FewRows(DOMAIN tb.selected)
    /\ tb.picked \subseteq 1..Cardinality(DOMAIN tb.items)
    /\ tb.ticked = {rowAt(tb.items, k) : k \in tb.picked}
    /\ tb.stale => losses > 0
    /\ ~tb.stale => /\ DOMAIN tb.selected \subseteq tb.ticked \cap DOMAIN tb.items
                    /\ \A i \in DOMAIN tb.selected : tb.selected[i] = tb.items[i]
    /\ ~tb.mounted => DOMAIN tb.items = {} /\ (~tb.stale => tb.selected = <<>>)

\* A bulk action's books: requests under way, answers won and not yet counted,
\* what was counted, and what was written.
pending(r) == IF r.use = "bulk" THEN 1 ELSE 0
won(r) == IF r.use = "bulk" /\ r.at = "answered" /\ r.status \in 200..204 THEN 1 ELSE 0
BulkOK(r, committed) ==
    r.use = "bulk" => r.q.route \in {"transition", "renew"} /\ (r.at # "answered" => r.q.id \notin committed)
OtherIds(r, o) == r.use = "bulk" /\ o.use = "bulk" => r.q.id # o.q.id
TallyOK(tb, ra, rb, rm, losses) ==
    /\ tb.done \in Nat /\ tb.failed \in Nat /\ losses \in Nat
    /\ IsFiniteSet(tb.targets) /\ IsFiniteSet(tb.committed)
    /\ tb.done + tb.failed + pending(ra) + pending(rb) + pending(rm) = Cardinality(tb.targets)
    /\ tb.done + won(ra) + won(rb) + won(rm) <= Cardinality(tb.committed)
    /\ Cardinality(tb.committed) <= tb.done + won(ra) + won(rb) + won(rm) + losses
    /\ tb.reported => ra.use # "bulk" /\ rb.use # "bulk" /\ rm.use # "bulk"
    /\ BulkOK(ra, tb.committed) /\ BulkOK(rb, tb.committed) /\ BulkOK(rm, tb.committed)
    /\ OtherIds(ra, rb) /\ OtherIds(rb, rm) /\ OtherIds(rm, ra)

\* The remembered cursors lead back to the first page, and the next page is
\* behind the one that is shown.
InOrder(path) ==
    /\ path \in Seq(Cursors) /\ Len(path) >= 1 /\ path[1] = Null
    /\ \A i \in 1..Len(path) - 1 : place(path[i]) >= place(path[i + 1])
PagerOK(tb) ==
    ~tb.wentBack =>
        /\ tb.stack \in Seq(Cursors) /\ tb.cursor \in Cursors
        /\ InOrder(Append(tb.stack, tb.cursor))
        /\ tb.next = Null \/ (tb.next \in 1..3 /\ tb.next <= place(tb.cursor))

\* The rows under way are those of the page the address names, and only a
\* lost answer brings none.
LoadOK(tb, r, losses) ==
    r.use = "rows" =>
        /\ r.q.route = "listLicenses" /\ r.q.limit = pageOf(25) /\ r.q.cursor = tb.cursor
        /\ r.at = "answered" =>
             IF r.status \in 200..204 THEN RowsOK(r.data, r.q.cursor) ELSE losses > 0

\* The table of the operator with its requests.
Lane(l) == <<Operator, l>>
TallyOn(tb, w, losses) == TallyOK(tb, w[Lane("a")], w[Lane("b")], w[Lane("more")], losses)
ListOK(tb, w, losses) ==
    SelectionOK(tb, losses) /\ TallyOn(tb, w, losses) /\ PagerOK(tb) /\ LoadOK(tb, w[Lane("load")], losses)
ListInv ==
    focus = "list" =>
        /\ DOMAIN db.licenses = 1..3 /\ DOMAIN sent = {"direct", "clicks", "losses"}
        /\ ListOK(tab[Operator], wire, sent.losses)

-----------------------------------------------------------------------------
SameSelection(tb, ub) ==
    /\ ub.items = tb.items /\ ub.picked = tb.picked /\ ub.ticked = tb.ticked /\ (ub.mounted <=> tb.mounted)
    /\ \/ ub.selected = tb.selected /\ (ub.stale <=> tb.stale)
       \/ ub.selected = <<>> /\ (ub.stale => tb.stale)
LEMMA SelectionSame ==
    ASSUME NEW tb, NEW ub, NEW n, SelectionOK(tb, n), SameSelection(tb, ub)
    PROVE  SelectionOK(ub, n)
  <1>1. CASE ub.selected = tb.selected /\ (ub.stale <=> tb.stale)
    BY <1>1 DEF SelectionOK, SameSelection
  <1>2. CASE ub.selected = <<>> /\ (ub.stale => tb.stale)
    BY <1>2 DEF SelectionOK, SameSelection, FewRows
  <1> QED
    BY <1>1, <1>2 DEF SameSelection

LEMMA SelectionMore ==
    ASSUME NEW tb, NEW n \in Nat, SelectionOK(tb, n)
    PROVE  SelectionOK(tb, n + 1)
  BY DEF SelectionOK

\* What rows that arrive make of the selection.
LEMMA SelectionRows ==
    ASSUME NEW tb, NEW n \in Nat, SelectionOK(tb, n), NEW code, NEW items, NEW next, DOMAIN tb = TabFields,
           IF code \in 200..204 THEN FewRows(DOMAIN items) ELSE n > 0
    PROVE  SelectionOK(Rows(tb, code, items, next), n)
  <1> DEFINE ub == Rows(tb, code, items, next)
  <1>1. /\ code \in 200..204 => ub.items = items
        /\ code \notin 200..204 => ub.items = <<>> /\ (~ub.stale => tb.selected = <<>>)
        /\ code \in 200..204 /\ ~tb.mounted => (ub.stale <=> tb.stale)
        /\ code \in 200..204 /\ tb.mounted => ub.selected = <<>> /\ ~ub.stale
        /\ code \notin 200..204 \/ ~tb.mounted => ub.selected = tb.selected
        /\ code \in 200..204 => ub.mounted
        /\ code \notin 200..204 => ~ub.mounted
        /\ ub.picked = {} /\ ub.ticked = {}
    BY RowsTab
  <1> HIDE DEF ub
  <1>2. FewRows(DOMAIN ub.items) /\ (code \notin 200..204 => DOMAIN ub.items = {})
    BY <1>1 DEF FewRows
  <1>3. ub.ticked = {rowAt(ub.items, k) : k \in ub.picked} /\ ub.picked \subseteq 1..Cardinality(DOMAIN ub.items)
    BY <1>1
  <1>4. FewRows(DOMAIN <<>>) /\ DOMAIN <<>> = {}
    BY DEF FewRows
  <1>5. FewRows(DOMAIN ub.selected)
    BY <1>1, <1>4 DEF SelectionOK
  <1>6. ~ub.stale => ub.selected = <<>>
    BY <1>1 DEF SelectionOK
  <1>7. ub.stale => n > 0
    BY <1>1 DEF SelectionOK
  <1>8. ~ub.mounted => DOMAIN ub.items = {}
    BY <1>1, <1>2
  <1>9. SelectionOK(ub, n)
    <2>1. ~ub.stale => /\ DOMAIN ub.selected \subseteq ub.ticked \cap DOMAIN ub.items
                       /\ \A i \in DOMAIN ub.selected : ub.selected[i] = ub.items[i]
      BY <1>4, <1>6
    <2> QED
      BY <1>2, <1>3, <1>5, <1>6, <1>7, <1>8, <2>1 DEF SelectionOK
  <1> QED
    BY <1>9 DEF ub

LEMMA SelectionToggle ==
    ASSUME NEW tb, NEW ub, NEW n, SelectionOK(tb, n), NEW i \in 1..Cardinality(DOMAIN tb.items), ub.items = tb.items,
           ub.picked = IF i \in tb.picked THEN tb.picked \ {i} ELSE tb.picked \cup {i},
           ub.ticked = IF i \in tb.picked THEN tb.ticked \ {rowAt(tb.items, i)} ELSE tb.ticked \cup {rowAt(tb.items, i)},
           ub.selected = [k \in {rowAt(tb.items, k) : k \in ub.picked \cap 1..Cardinality(DOMAIN tb.items)} |-> tb.items[k]],
           ~ub.stale, ub.mounted <=> tb.mounted
    PROVE  SelectionOK(ub, n)
  <1> DEFINE c == Cardinality(DOMAIN tb.items)
             row(k) == rowAt(tb.items, k)
             ids == {row(k) : k \in ub.picked}
  <1>1. /\ \A k \in 1..c : row(k) \in DOMAIN tb.items
        /\ \A j, k \in 1..c : row(j) = row(k) => j = k
    BY RowNumbers DEF SelectionOK
  <1>2. tb.picked \subseteq 1..c /\ ub.picked \subseteq 1..c /\ tb.ticked = {row(k) : k \in tb.picked}
    BY DEF SelectionOK
  <1>3. ub.picked \cap 1..c = ub.picked
    BY <1>2
  <1>4. ub.selected = [k \in ids |-> tb.items[k]]
    BY <1>3
  <1>10. ub.mounted
    <2>1. DOMAIN tb.items # {}
      BY <1>1
    <2> QED
      BY <2>1 DEF SelectionOK
  <1> HIDE DEF c, row
  <1>5. ub.ticked = ids
    <2>1. CASE i \in tb.picked
      <3>1. ub.picked = tb.picked \ {i} /\ ub.ticked = tb.ticked \ {row(i)}
        BY <2>1 DEF row
      <3>2. \A k \in tb.picked : row(k) = row(i) => k = i
        BY <1>1, <1>2 DEF c
      <3> QED
        BY <1>2, <3>1, <3>2
    <2>2. CASE i \notin tb.picked
      <3>1. ub.picked = tb.picked \cup {i} /\ ub.ticked = tb.ticked \cup {row(i)}
        BY <2>2 DEF row
      <3> QED
        BY <1>2, <3>1
    <2> QED
      BY <2>1, <2>2
  <1>6. ids \subseteq DOMAIN tb.items
    BY <1>1, <1>2
  <1>7. DOMAIN ub.selected = ids /\ \A k \in ids : ub.selected[k] = tb.items[k]
    BY <1>4
  <1>8. ub.ticked = {rowAt(ub.items, k) : k \in ub.picked}
    BY <1>5 DEF row
  <1> HIDE DEF ids
  <1>9. FewRows(DOMAIN ub.items) /\ FewRows(ids)
    BY <1>6 DEF SelectionOK, FewRows
  <1> QED
    BY <1>2, <1>5, <1>6, <1>7, <1>8, <1>9, <1>10 DEF SelectionOK, c

-----------------------------------------------------------------------------
LEMMA TallyTurn ==
    ASSUME NEW tb, NEW ra, NEW rb, NEW rm, NEW n, TallyOK(tb, ra, rb, rm, n)
    PROVE  TallyOK(tb, rb, rm, ra, n)
  <1>1. \A r \in {ra, rb, rm} : pending(r) \in {0, 1} /\ won(r) \in {0, 1}
    BY DEF pending, won
  <1>2. Cardinality(tb.targets) \in Nat /\ Cardinality(tb.committed) \in Nat
    BY FS_CardinalityType DEF TallyOK
  <1> QED
    BY <1>1, <1>2 DEF TallyOK

SameTally(tb, ub) ==
    /\ ub.done = tb.done /\ ub.failed = tb.failed /\ ub.targets = tb.targets
    /\ ub.committed = tb.committed /\ ub.reported = tb.reported

\* A request goes on and is not yet won or lost.
LEMMA TallyGoesOn ==
    ASSUME NEW tb, NEW ub, NEW ra, NEW rb, NEW rm, NEW n, TallyOK(tb, ra, rb, rm, n), SameTally(tb, ub), NEW rc,
           rc.use = ra.use, rc.use = "bulk" => rc.q = ra.q, won(rc) = won(ra), rc.at # "answered" => ra.at # "answered"
    PROVE  TallyOK(ub, rc, rb, rm, n)
  <1>1. pending(rc) = pending(ra)
    BY DEF pending
  <1>2. BulkOK(rc, tb.committed)
    BY DEF TallyOK, BulkOK
  <1>3. OtherIds(rc, rb) /\ OtherIds(rm, rc)
    BY DEF TallyOK, OtherIds
  <1> QED
    BY <1>1, <1>2, <1>3 DEF TallyOK, SameTally

\* An answer is lost, or a loss elsewhere.
LEMMA TallyLost ==
    ASSUME NEW tb, NEW ra, NEW rb, NEW rm, NEW n, TallyOK(tb, ra, rb, rm, n), NEW rc,
           \/ rc = ra
           \/ rc.use = ra.use /\ rc.q = ra.q /\ ra.at = "answered" /\ rc.at = "answered" /\ rc.status = 0
    PROVE  TallyOK(tb, rc, rb, rm, n + 1)
  <1>1. /\ pending(rc) = pending(ra) /\ won(rc) \in {0, 1} /\ won(ra) \in {0, 1} /\ won(rb) \in {0, 1} /\ won(rm) \in {0, 1}
        /\ won(rc) <= won(ra) /\ won(ra) <= won(rc) + 1
    BY DEF pending, won
  <1>2. BulkOK(rc, tb.committed) /\ OtherIds(rc, rb) /\ OtherIds(rm, rc)
    BY DEF TallyOK, BulkOK, OtherIds
  <1>3. Cardinality(tb.committed) \in Nat
    BY FS_CardinalityType DEF TallyOK
  <1>4. rc.use = ra.use
    OBVIOUS
  <1> QED
    BY <1>1, <1>2, <1>3, <1>4 DEF TallyOK

\* A request of the action is written and answered.
LEMMA TallyWritten ==
    ASSUME NEW tb, NEW ub, NEW ra, NEW rb, NEW rm, NEW n, TallyOK(tb, ra, rb, rm, n), NEW rc,
           ub.done = tb.done, ub.failed = tb.failed, ub.targets = tb.targets, ub.reported = tb.reported,
           ub.committed = tb.committed \cup {ra.q.id},
           ra.use = "bulk", ra.at # "answered", rc.use = "bulk", rc.q = ra.q, rc.at = "answered", rc.status = 200
    PROVE  TallyOK(ub, rc, rb, rm, n)
  <1>1. pending(rc) = pending(ra) /\ won(rc) = 1 /\ won(ra) = 0 /\ won(rb) \in {0, 1} /\ won(rm) \in {0, 1}
    BY DEF pending, won
  <1>2. ra.q.id \notin tb.committed /\ IsFiniteSet(tb.committed)
    BY DEF TallyOK, BulkOK
  <1>3. IsFiniteSet(ub.committed) /\ Cardinality(ub.committed) = Cardinality(tb.committed) + 1
    BY <1>2, FS_AddElement, SMTT(30)
  <1>4. Cardinality(tb.committed) \in Nat
    BY <1>2, FS_CardinalityType
  <1>5. BulkOK(rc, ub.committed) /\ BulkOK(rb, ub.committed) /\ BulkOK(rm, ub.committed)
    BY DEF TallyOK, BulkOK, OtherIds
  <1>7. OtherIds(rc, rb) /\ OtherIds(rm, rc)
    BY DEF TallyOK, OtherIds
  <1> HIDE DEF pending, won
  <1>6. /\ ub.done + won(rc) + won(rb) + won(rm) <= Cardinality(ub.committed)
        /\ Cardinality(ub.committed) <= ub.done + won(rc) + won(rb) + won(rm) + n
    BY <1>1, <1>3, <1>4 DEF TallyOK
  <1> QED
    BY <1>1, <1>3, <1>5, <1>6, <1>7 DEF TallyOK

\* A bulk request is handled: written and won, or refused.
LEMMA TallyHandled ==
    ASSUME NEW tb, NEW ub, NEW ra, NEW rb, NEW rm, NEW n, TallyOK(tb, ra, rb, rm, n), NEW rc,
           ub.done = tb.done, ub.failed = tb.failed, ub.targets = tb.targets, ub.reported = tb.reported,
           ub.committed = IF rc.status = 200 THEN tb.committed \cup {ra.q.id} ELSE tb.committed,
           ra.use = "bulk", ra.at = "loaded", rc.use = "bulk", rc.q = ra.q, rc.at = "answered",
           rc.status \in {200, 400, 403, 404, 409}
    PROVE  TallyOK(ub, rc, rb, rm, n)
  <1>1. CASE rc.status = 200
    <2>1. ub.committed = tb.committed \cup {ra.q.id} /\ ra.at # "answered"
      BY <1>1
    <2> QED
      BY <1>1, <2>1, TallyWritten
  <1>2. CASE rc.status # 200
    <2>1. SameTally(tb, ub)
      BY <1>2 DEF SameTally
    <2>2. won(rc) = 0 /\ won(ra) = 0
      BY <1>2 DEF won
    <2> QED
      BY <2>1, <2>2, TallyGoesOn
  <1> QED
    BY <1>1, <1>2

\* An answer is counted.
LEMMA TallyCounted ==
    ASSUME NEW tb, NEW ub, NEW ra, NEW rb, NEW rm, NEW n, TallyOK(tb, ra, rb, rm, n), NEW rc,
           ra.use = "bulk", ra.at = "answered", rc.use = "none",
           ub.done = IF ra.status \in 200..204 THEN tb.done + 1 ELSE tb.done,
           ub.failed = IF ra.status \in 200..204 THEN tb.failed ELSE tb.failed + 1,
           ub.targets = tb.targets, ub.committed = tb.committed,
           ub.reported => tb.reported \/ (rb.use # "bulk" /\ rm.use # "bulk")
    PROVE  TallyOK(ub, rc, rb, rm, n)
  <1>1. /\ pending(rc) = 0 /\ pending(ra) = 1 /\ won(rc) = 0 /\ won(ra) = IF ra.status \in 200..204 THEN 1 ELSE 0
        /\ won(rb) \in {0, 1} /\ pending(rb) \in {0, 1} /\ won(rm) \in {0, 1} /\ pending(rm) \in {0, 1}
    BY DEF pending, won
  <1>2. Cardinality(tb.committed) \in Nat
    BY FS_CardinalityType DEF TallyOK
  <1>3. BulkOK(rc, tb.committed) /\ OtherIds(rc, rb) /\ OtherIds(rm, rc)
    BY DEF BulkOK, OtherIds
  <1>4. ~tb.reported
    BY DEF TallyOK
  <1>5. CASE ra.status \in 200..204
    BY <1>1, <1>2, <1>3, <1>4, <1>5 DEF TallyOK
  <1>6. CASE ra.status \notin 200..204
    BY <1>1, <1>2, <1>3, <1>4, <1>6 DEF TallyOK
  <1> QED
    BY <1>5, <1>6

\* A bulk action starts, with a request for each of its targets.
SentFor(r, i) == r.use = "bulk" /\ r.at = "sent" /\ r.q.route \in {"transition", "renew"} /\ r.q.id = i
LEMMA TallyStarts ==
    ASSUME NEW ub, NEW n \in Nat, NEW T, FewRows(T), NEW ra, NEW rb, NEW rm,
           ub.done = 0, ub.failed = 0, ub.targets = T, ub.committed = {}, ub.reported = FALSE,
           IF 1 \in T THEN SentFor(ra, 1) ELSE ra.use # "bulk",
           IF 2 \in T THEN SentFor(rb, 2) ELSE rb.use # "bulk",
           IF 3 \in T THEN SentFor(rm, 3) ELSE rm.use # "bulk"
    PROVE  TallyOK(ub, ra, rb, rm, n)
  <1>1. Cardinality(T) = has(T, 1) + has(T, 2) + has(T, 3)
    BY FewCount
  <1>2. IsFiniteSet(T) /\ IsFiniteSet({}) /\ Cardinality({}) = 0
    BY FewFinite, SmallSets
  <1>3. /\ pending(ra) = has(T, 1) /\ pending(rb) = has(T, 2) /\ pending(rm) = has(T, 3)
        /\ won(ra) = 0 /\ won(rb) = 0 /\ won(rm) = 0
    BY DEF pending, won, has, SentFor
  <1>4. BulkOK(ra, {}) /\ BulkOK(rb, {}) /\ BulkOK(rm, {})
    BY DEF BulkOK, SentFor
  <1>5. OtherIds(ra, rb) /\ OtherIds(rb, rm) /\ OtherIds(rm, ra)
    BY DEF OtherIds, SentFor
  <1>6. /\ IsFiniteSet(ub.committed) /\ Cardinality(ub.committed) = 0 /\ IsFiniteSet(ub.targets)
        /\ BulkOK(ra, ub.committed) /\ BulkOK(rb, ub.committed) /\ BulkOK(rm, ub.committed)
    BY <1>2, <1>4, Zenon
  <1>7. \A i \in 1..3 : has(T, i) \in {0, 1}
    BY DEF has
  <1> HIDE DEF pending, won, has
  <1>8. 0 + 0 + pending(ra) + pending(rb) + pending(rm) = Cardinality(ub.targets)
    BY <1>1, <1>3, <1>7
  <1> QED
    BY <1>3, <1>5, <1>6, <1>8 DEF TallyOK

\* A step that concerns one lane's request.
OneLane(tb, ub, w, v, l, n, m) ==
    /\ \A k \in BulkLanes \ {l} : v[Lane(k)] = w[Lane(k)]
    /\ \A j, k \in BulkLanes \ {l} :
          TallyOK(tb, w[Lane(l)], w[Lane(j)], w[Lane(k)], n) => TallyOK(ub, v[Lane(l)], w[Lane(j)], w[Lane(k)], m)
LEMMA TallyLane ==
    ASSUME NEW tb, NEW ub, NEW w, NEW v, NEW n, NEW m, NEW l \in BulkLanes, TallyOn(tb, w, n),
           OneLane(tb, ub, w, v, l, n, m)
    PROVE  TallyOn(ub, v, m)
  <1> DEFINE a == w[Lane("a")]  b == w[Lane("b")]  c == w[Lane("more")]
             pa == v[Lane("a")]  pb == v[Lane("b")]  pc == v[Lane("more")]
  <1>1. TallyOK(tb, a, b, c, n)
    BY DEF TallyOn
  <1>2. TallyOK(tb, b, c, a, n)
    BY <1>1, TallyTurn
  <1>3. TallyOK(tb, c, a, b, n)
    BY <1>2, TallyTurn
  <1>4. \/ l = "a" /\ pb = b /\ pc = c /\ TallyOK(ub, pa, b, c, m)
        \/ l = "b" /\ pc = c /\ pa = a /\ TallyOK(ub, pb, c, a, m)
        \/ l = "more" /\ pa = a /\ pb = b /\ TallyOK(ub, pc, a, b, m)
    BY <1>1, <1>2, <1>3 DEF BulkLanes, OneLane
  <1> HIDE DEF a, b, c, pa, pb, pc
  <1>5. TallyOK(ub, pa, pb, pc, m)
    <2>1. CASE TallyOK(ub, pa, pb, pc, m)
      BY <2>1
    <2>2. CASE TallyOK(ub, pb, pc, pa, m)
      BY <2>2, TallyTurn
    <2>3. CASE TallyOK(ub, pc, pa, pb, m)
      BY <2>3, TallyTurn
    <2> QED
      BY <1>4, <2>1, <2>2, <2>3
  <1> QED
    BY <1>5 DEF TallyOn, pa, pb, pc

LEMMA TallyOnSame ==
    ASSUME NEW tb, NEW ub, NEW w, NEW v, NEW n, TallyOn(tb, w, n), SameTally(tb, ub),
           \A k \in BulkLanes : v[Lane(k)] = w[Lane(k)]
    PROVE  TallyOn(ub, v, n)
  <1>1. v[Lane("a")] = w[Lane("a")] /\ v[Lane("b")] = w[Lane("b")] /\ v[Lane("more")] = w[Lane("more")]
    BY DEF BulkLanes
  <1> QED
    BY <1>1, TallyGoesOn DEF TallyOn

-----------------------------------------------------------------------------
(* The pager, and the rows under way.                                        *)

LEMMA PagerSame ==
    ASSUME NEW tb, NEW ub, PagerOK(tb), ub.stack = tb.stack, ub.cursor = tb.cursor, ub.next = tb.next, ub.wentBack = tb.wentBack
    PROVE  PagerOK(ub)
  BY DEF PagerOK

LEMMA PagerFiltered ==
    ASSUME NEW tb, NEW ub, PagerOK(tb), ub.stack = <<>>, ub.cursor = Null, ub.next = tb.next, ub.wentBack = tb.wentBack
    PROVE  PagerOK(ub)
  <1> SUFFICES ASSUME ~tb.wentBack PROVE PagerOK(ub)
    BY DEF PagerOK
  <1>1. place(tb.cursor) <= 4 /\ place(tb.cursor) \in Int /\ place(Null) = 4
    BY DEF PagerOK, place, Cursors
  <1>2. <<>> \in Seq(Cursors) /\ Null \in Cursors
    BY DEF Cursors
  <1>3. InOrder(Append(<<>>, Null))
    BY <1>2 DEF InOrder
  <1> QED
    BY <1>1, <1>2, <1>3 DEF PagerOK

LEMMA PagerForth ==
    ASSUME NEW tb, NEW ub, PagerOK(tb), tb.next # Null, ub.stack = Append(tb.stack, tb.cursor), ub.cursor = tb.next,
           ub.next = tb.next, ub.wentBack = tb.wentBack
    PROVE  PagerOK(ub)
  <1> SUFFICES ASSUME ~tb.wentBack PROVE PagerOK(ub)
    BY DEF PagerOK
  <1> DEFINE p == Append(tb.stack, tb.cursor)
             z == Append(p, tb.next)
             n == Len(p)
  <1>1. /\ tb.next \in 1..3 /\ tb.next <= place(tb.cursor) /\ place(tb.next) = tb.next
        /\ tb.stack \in Seq(Cursors) /\ tb.cursor \in Cursors /\ InOrder(p)
    BY DEF PagerOK, place
  <1>2. p[n] = tb.cursor
    BY <1>1
  <1> HIDE DEF p
  <1>3. p \in Seq(Cursors) /\ n \in Nat /\ n >= 1 /\ tb.next \in Cursors /\ p[1] = Null
    BY <1>1 DEF InOrder, Cursors
  <1>4. z \in Seq(Cursors) /\ Len(z) = n + 1 /\ z[n + 1] = tb.next /\ \A i \in 1..n : z[i] = p[i]
    BY <1>3
  <1> HIDE DEF z, n
  <1>5. ASSUME NEW i \in 1..(n + 1) - 1 PROVE place(z[i]) >= place(z[i + 1])
    <2>1. CASE i = n
      BY <1>1, <1>2, <1>3, <1>4, <2>1
    <2>2. CASE i # n
      <3>1. i \in 1..n - 1 /\ i \in 1..n /\ i + 1 \in 1..n
        BY <1>3, <2>2
      <3>2. place(p[i]) >= place(p[i + 1])
        BY <1>1, <3>1 DEF InOrder, n
      <3> QED
        BY <1>4, <3>1, <3>2
    <2> QED
      BY <2>1, <2>2
  <1>6. InOrder(z)
    BY <1>3, <1>4, <1>5 DEF InOrder
  <1>7. /\ ub.stack = p /\ ub.cursor = tb.next /\ ub.next = tb.next
    BY DEF p
  <1> QED
    BY <1>1, <1>3, <1>6, <1>7 DEF PagerOK, z

LEMMA PagerBack ==
    ASSUME NEW tb, NEW ub, PagerOK(tb), tb.stack # <<>>, ub.stack = SubSeq(tb.stack, 1, Len(tb.stack) - 1),
           ub.cursor = Last(tb.stack), ub.next = tb.next, ub.wentBack = tb.wentBack
    PROVE  PagerOK(ub)
  <1> SUFFICES ASSUME ~tb.wentBack PROVE PagerOK(ub)
    BY DEF PagerOK
  <1> DEFINE s == tb.stack
             n == Len(s)
             p == Append(s, tb.cursor)
             u == SubSeq(s, 1, n - 1)
             z == Append(u, s[n])
  <1>1. /\ s \in Seq(Cursors) /\ tb.cursor \in Cursors /\ InOrder(p) /\ s # <<>>
        /\ tb.next = Null \/ (tb.next \in 1..3 /\ tb.next <= place(tb.cursor))
    BY DEF PagerOK
  <1> HIDE DEF s
  <1>2. n \in Nat /\ n >= 1 /\ Len(p) = n + 1 /\ p[n + 1] = tb.cursor /\ \A i \in 1..n : p[i] = s[i]
    BY <1>1
  <1>3. u \in Seq(Cursors) /\ Len(u) = n - 1 /\ \A i \in 1..(n - 1) : u[i] = s[i]
    <2>1. u = [i \in 1..(n - 1) |-> s[i]] /\ n - 1 \in Nat
      BY <1>1, <1>2
    <2>2. \A i \in 1..(n - 1) : s[i] \in Cursors
      BY <1>1, <1>2
    <2> HIDE DEF u, n
    <2> QED
      BY <2>1, <2>2
  <1>4. s[n] \in Cursors
    BY <1>1, <1>2
  <1> HIDE DEF u, n, p
  <1>5. z \in Seq(Cursors) /\ Len(z) = n /\ \A i \in 1..n : z[i] = s[i]
    BY <1>2, <1>3, <1>4
  <1> HIDE DEF z
  <1>6. \A i \in 1..n : place(p[i]) >= place(p[i + 1])
    BY <1>1, <1>2 DEF InOrder
  <1>7. p[1] = Null
    BY <1>1 DEF InOrder
  <1>8. ASSUME NEW i \in 1..n - 1 PROVE place(z[i]) >= place(z[i + 1])
    <2>1. i \in 1..n /\ i + 1 \in 1..n
      BY <1>2
    <2> QED
      BY <1>2, <1>5, <1>6, <2>1
  <1>9. InOrder(z)
    BY <1>2, <1>5, <1>7, <1>8 DEF InOrder
  <1>10. place(s[n]) >= place(tb.cursor)
    BY <1>2, <1>6
  <1>11. place(s[n]) \in Int /\ place(tb.cursor) \in Int
    BY <1>1, <1>4 DEF place, Cursors
  <1>12. ub.stack = u /\ ub.cursor = s[n] /\ ub.next = tb.next
    BY DEF s, u, n, Last
  <1>13. ub.next = Null \/ (ub.next \in 1..3 /\ ub.next <= place(ub.cursor))
    BY <1>1, <1>10, <1>11, <1>12
  <1>14. InOrder(Append(ub.stack, ub.cursor))
    BY <1>9, <1>12, Zenon DEF z
  <1> QED
    BY <1>3, <1>4, <1>12, <1>13, <1>14 DEF PagerOK

LEMMA PagerRows ==
    ASSUME NEW tb, NEW ub, PagerOK(tb), ub.stack = tb.stack, ub.cursor = tb.cursor, ub.wentBack = tb.wentBack,
           tb.cursor \in Cursors => ub.next = Null \/ (ub.next \in 1..3 /\ ub.next <= place(tb.cursor))
    PROVE  PagerOK(ub)
  BY DEF PagerOK

LEMMA LoadNone ==
    ASSUME NEW tb, NEW r, NEW n, r.use # "rows"
    PROVE  LoadOK(tb, r, n)
  BY DEF LoadOK

LEMMA RequestIs ==
    ASSUME NEW q, NEW use
    PROVE  request(q, use).at = "sent" /\ request(q, use).use = use /\ request(q, use).q = q
  BY DEF request, NoRequest

LEMMA NoRequestIs == NoRequest.use = "none" /\ NoRequest.at = "free"
  BY DEF NoRequest

LEMMA LoadFresh ==
    ASSUME NEW tb, NEW ub, NEW n, ub.cursor = tb.cursor
    PROVE  LoadOK(tb, request(listQuery(ub), "rows"), n)
  <1> DEFINE q == listQuery(ub)
  <1>1. q.route = "listLicenses" /\ q.limit = pageOf(25) /\ q.cursor = tb.cursor
    BY DEF listQuery, list
  <1> HIDE DEF q
  <1> DEFINE r == request(q, "rows")
  <1>2. r.at = "sent" /\ r.q = q
    BY RequestIs
  <1> HIDE DEF r
  <1>3. LoadOK(tb, r, n)
    BY <1>1, <1>2 DEF LoadOK
  <1> QED
    BY <1>3 DEF r, q

LEMMA LoadSame ==
    ASSUME NEW tb, NEW ub, NEW r, NEW n, LoadOK(tb, r, n), ub.cursor = tb.cursor
    PROVE  LoadOK(ub, r, n)
  BY DEF LoadOK

LEMMA LoadMoves ==
    ASSUME NEW tb, NEW ub, NEW r, NEW rc, NEW n, LoadOK(tb, r, n), ub.cursor = tb.cursor, rc.use = r.use, rc.q = r.q,
           rc.use = "rows" /\ rc.at = "answered" => rc.status \in 200..204 /\ RowsOK(rc.data, rc.q.cursor)
    PROVE  LoadOK(ub, rc, n)
  BY DEF LoadOK

LEMMA LaneSlots ==
    /\ \A l \in Lanes : Lane(l) \in Slots /\ Lane(l)[1] = Operator /\ Lane(l)[2] = l
    /\ \A s \in Slots : s[1] = Operator => s = Lane(s[2]) /\ s[2] \in Lanes
    /\ \A k, l \in Lanes : Lane(k) = Lane(l) => k = l
  BY OperatorTab, SlotShape DEF Lane, Lanes

\* What the table's requests do to the licenses, and what they answer.
LEMMA ListServed ==
    ASSUME NEW d, DbOK(d), NEW q, NEW row, q.route \in {"listLicenses", "transition", "renew"}
    PROVE  /\ DOMAIN serve(d, q, row).db.licenses = DOMAIN d.licenses
           /\ q.route # "listLicenses" => serve(d, q, row).status \in {200, 400, 403, 404, 409}
  <1>1. \A c, x : ok(c, x).db = c /\ err(c, x).db = c /\ ok(c, x).status = 200 /\ err(c, x).status = x
    BY DEF ok, err
  <1>2. ASSUME NEW new, NEW event PROVE DOMAIN putLicense(d, q.id, new, event).licenses = DOMAIN d.licenses
    BY DEF putLicense, audited, wrote, DbOK, DbFields
  <1>3. CASE q.route = "transition"
    <2> DEFINE old == d.licenses[q.id]
               new == [suspend |-> suspended(old), resume |-> resumed(old), revoke |-> revoked(old)][q.op]
               event == [suspend |-> "license.suspended", resume |-> "license.resumed", revoke |-> "license.revoked"][q.op]
    <2>1. lifecycleTransition(d, q, row) \in {err(d, 404), ok(d, row), ok(putLicense(d, q.id, new, event), new),
                                             err(d, 403), err(d, 409)}
      BY DEF lifecycleTransition
    <2> HIDE DEF new, event
    <2>2. /\ DOMAIN lifecycleTransition(d, q, row).db.licenses = DOMAIN d.licenses
          /\ lifecycleTransition(d, q, row).status \in {200, 400, 403, 404, 409}
      BY <1>1, <1>2, <2>1
    <2> QED
      BY <1>3, <2>2, ServeCases
  <1>4. CASE q.route = "renew"
    <2> DEFINE g == stored("optional", q.body.grace_until)
               new == renewed(d.licenses[q.id], q.body.expires_at.v, IF g = Null THEN Undefined ELSE g)
    <2>1. handleRenewLicense(d, q, row) \in {err(d, 400), err(d, 404), err(d, 403), err(d, 409),
                                            ok(putLicense(d, q.id, new, "license.renewed"), new)}
      BY DEF handleRenewLicense
    <2> HIDE DEF new
    <2>2. /\ DOMAIN handleRenewLicense(d, q, row).db.licenses = DOMAIN d.licenses
          /\ handleRenewLicense(d, q, row).status \in {200, 400, 403, 404, 409}
      BY <1>1, <1>2, <2>1
    <2> QED
      BY <1>4, <2>2, ServeCases
  <1>5. CASE q.route = "listLicenses"
    <2>1. serve(d, q, row) = handleListLicenses(d, q)
      BY <1>5, ServeCases
    <2>2. handleListLicenses(d, q).db = d
      BY <1>1 DEF handleListLicenses, listed
    <2> QED
      BY <1>5, <2>1, <2>2
  <1> QED
    BY <1>3, <1>4, <1>5

\* Who uses the operator's lanes.
LEMMA LaneUses ==
    ASSUME ConsoleInv, focus = "list"
    PROVE  /\ \A s \in Slots : wire[s].use = "bulk" => \E l \in BulkLanes : s = Lane(l)
           /\ \A s \in Slots : wire[s].use = "rows" => s = Lane("load")
           /\ \A l \in BulkLanes : wire[Lane(l)].use \in {"none", "bulk"}
           /\ wire[Lane("load")].use \in {"none", "rows"}
           /\ \A s \in Slots : wire[s].at # "free" <=> wire[s].use # "none"
  <1>1. \A s \in Slots : wire[s].use = "none" \/ Placed("list", s, wire[s].use)
    BY TheSlot DEF InFlight
  <1>2. \A s \in Slots : wire[s].at # "free" <=> wire[s].use # "none"
    BY TheSlot DEF InFlight
  <1>3. \A l \in BulkLanes \cup {"load"} : Lane(l) \in Slots /\ Lane(l)[1] = Operator /\ Lane(l)[2] = l
    BY LaneSlots DEF Lanes, BulkLanes
  <1>4. \A s \in Slots : wire[s].use = "bulk" => \E l \in BulkLanes : s = Lane(l)
    BY <1>1, LaneSlots DEF Placed, AuthUses, BulkLanes
  <1>5. \A s \in Slots : wire[s].use = "rows" => s = Lane("load")
    BY <1>1, LaneSlots DEF Placed, AuthUses
  <1>6. \A l \in BulkLanes : wire[Lane(l)].use \in {"none", "bulk"}
    BY <1>1, <1>3, OperatorTab DEF Placed, AuthUses, BulkLanes
  <1>7. wire[Lane("load")].use \in {"none", "rows"}
    BY <1>1, <1>3, OperatorTab DEF Placed, AuthUses
  <1> QED
    BY <1>2, <1>4, <1>5, <1>6, <1>7

LEMMA LanePut ==
    ASSUME NEW w, DOMAIN w = Slots, NEW s \in Slots, NEW r, NEW v, v = [w EXCEPT ![s] = r]
    PROVE  DOMAIN v = Slots /\ \A l \in Lanes : v[Lane(l)] = IF s = Lane(l) THEN r ELSE w[Lane(l)]
  BY LaneSlots

LEMMA LanesDistinct ==
    /\ Lane("load") \in Slots
    /\ \A l \in BulkLanes : Lane(l) \in Slots /\ Lane(l) # Lane("load") /\ l \in Lanes
    /\ \A k, l \in BulkLanes : Lane(k) = Lane(l) => k = l
    /\ "load" \in Lanes
  BY LaneSlots DEF Lanes, BulkLanes

\* A step at one lane of the table, or at none of them.
LEMMA ListLanes ==
    ASSUME NEW s
    PROVE  \/ \E l \in BulkLanes : s = Lane(l)
           \/ s = Lane("load")
           \/ \A l \in Lanes : s # Lane(l)
  BY DEF Lanes, BulkLanes

LEMMA ListParts ==
    ASSUME ListInv, focus = "list"
    PROVE  /\ DOMAIN db.licenses = 1..3 /\ DOMAIN sent = {"direct", "clicks", "losses"} /\ sent.losses \in Nat
           /\ ListOK(tab[Operator], wire, sent.losses)
           /\ SelectionOK(tab[Operator], sent.losses) /\ TallyOn(tab[Operator], wire, sent.losses) /\ PagerOK(tab[Operator])
           /\ LoadOK(tab[Operator], wire[Lane("load")], sent.losses)
  <1>1. ListOK(tab[Operator], wire, sent.losses)
    BY DEF ListInv
  <1>2. TallyOn(tab[Operator], wire, sent.losses)
    BY <1>1 DEF ListOK
  <1>3. sent.losses \in Nat
    BY <1>2 DEF TallyOn, TallyOK
  <1> QED
    BY <1>1, <1>3 DEF ListInv, ListOK

LEMMA ListSettles ==
    ASSUME focus' = focus, DOMAIN db'.licenses = 1..3, DOMAIN sent' = {"direct", "clicks", "losses"},
           ListOK(tab'[Operator], wire', sent'.losses)
    PROVE  ListInv'
  <1>1. ListInv' <=> (focus' = "list" =>
            /\ DOMAIN db'.licenses = 1..3 /\ DOMAIN sent' = {"direct", "clicks", "losses"}
            /\ ListOK(tab'[Operator], wire', sent'.losses))
    BY DEF ListInv, ListOK, TallyOn, Lane
  <1> QED
    BY <1>1

LEMMA ListProxy ==
    ASSUME ConsoleInv, ListInv, focus = "list", NEW s \in Slots, proxy(s)
    PROVE  ListInv'
  <1> DEFINE rc == [wire[s] EXCEPT !.at = "loaded", !.row = load(db, wire[s].q)]
             tb == tab[Operator]  n == sent.losses  w == wire  v == wire'
  <1>1. wire[s].at = "sent" /\ UNCHANGED <<db, tab, sent, focus>>
    BY DEF proxy, others
  <1>2. wire' = [wire EXCEPT ![s] = rc]
    <2>1. s[1] = "api" \/ wire[s].cookie \in accepted
      BY <1>1, TheSlot DEF InFlight
    <2>2. wire' = [wire EXCEPT ![s] = IF s[1] # "api" /\ wire[s].cookie \notin accepted
                                   THEN [wire[s] EXCEPT !.at = "answered", !.status = 401] ELSE rc]
      BY DEF proxy
    <2> QED
      BY <2>1, <2>2
  <1>3. rc.use = wire[s].use /\ rc.q = wire[s].q /\ rc.at = "loaded"
    <2>1. DOMAIN wire[s] = RequestFields
      BY TheSlot DEF InFlight
    <2> QED
      BY <2>1 DEF RequestFields
  <1> HIDE DEF rc
  <1>4. DOMAIN wire = Slots
    BY TheSlot
  <1>5. \A l \in Lanes : v[Lane(l)] = IF s = Lane(l) THEN rc ELSE w[Lane(l)]
    BY <1>2, <1>4, LanePut
  <1>7. /\ SelectionOK(tb, n) /\ TallyOn(tb, w, n) /\ PagerOK(tb) /\ LoadOK(tb, w[Lane("load")], n)
        /\ DOMAIN db.licenses = 1..3 /\ DOMAIN sent = {"direct", "clicks", "losses"}
    BY ListParts
  <1>8. w[s].at = "sent" /\ rc.use = w[s].use /\ rc.q = w[s].q /\ rc.at = "loaded"
    BY <1>1, <1>3
  <1> HIDE DEF tb, w, v, n
  <1>9. SameTally(tb, tb) /\ won(rc) = won(w[s]) /\ (rc.at # "answered" => w[s].at # "answered")
    BY <1>8 DEF SameTally, won
  <1>10. TallyOn(tb, v, n) /\ LoadOK(tb, v[Lane("load")], n)
    <2>1. ASSUME NEW l \in BulkLanes, s = Lane(l) PROVE TallyOn(tb, v, n) /\ v[Lane("load")] = w[Lane("load")]
      <3>1. v[Lane(l)] = rc /\ v[Lane("load")] = w[Lane("load")] /\ \A k \in BulkLanes \ {l} : v[Lane(k)] = w[Lane(k)]
        BY <1>5, <2>1, LanesDistinct
      <3>2. \A rb, rm : TallyOK(tb, w[Lane(l)], rb, rm, n) => TallyOK(tb, v[Lane(l)], rb, rm, n)
        BY <1>8, <1>9, <2>1, <3>1, TallyGoesOn
      <3> QED
        BY <1>7, <3>1, <3>2, TallyLane DEF OneLane
    <2>2. ASSUME \A l \in BulkLanes : s # Lane(l) PROVE TallyOn(tb, v, n)
      <3>1. \A k \in BulkLanes : v[Lane(k)] = w[Lane(k)]
        BY <1>5, <2>2, LanesDistinct
      <3> QED
        BY <1>7, <1>9, <3>1, TallyOnSame
    <2>3. ASSUME s = Lane("load") PROVE LoadOK(tb, v[Lane("load")], n)
      <3>1. v[Lane("load")] = rc
        BY <1>5, <2>3, LanesDistinct
      <3> QED
        BY <1>7, <1>8, <2>3, <3>1, LoadMoves
    <2>4. ASSUME s # Lane("load") PROVE v[Lane("load")] = w[Lane("load")]
      BY <1>5, <2>4, LanesDistinct
    <2> QED
      BY <1>7, <2>1, <2>2, <2>3, <2>4
  <1>14. ListOK(tb, v, n)
    BY <1>7, <1>10 DEF ListOK
  <1>15. ListOK(tab'[Operator], wire', sent'.losses)
    BY <1>1, <1>14 DEF tb, v, n
  <1> QED
    BY <1>1, <1>7, <1>15, ListSettles

\* What handling a request leaves of the operator's table.
LEMMA ListHandleTab ==
    ASSUME ConsoleInv, focus = "list", NEW s \in Slots, handle(s)
    PROVE  LET tb == tab[Operator]  ub == tab'[Operator] IN
           /\ SameSelection(tb, ub)
           /\ PagerOK(tb) => PagerOK(ub)
           /\ ub.cursor = tb.cursor /\ ub.done = tb.done /\ ub.failed = tb.failed /\ ub.targets = tb.targets
           /\ ub.reported = tb.reported
           /\ ub.committed = IF wire[s].use = "bulk" /\ serve(db, wire[s].q, wire[s].row).status = 200
                             THEN tb.committed \cup {wire[s].q.id} ELSE tb.committed
  <1> DEFINE tb == tab[Operator]  ub == tab'[Operator]
             stored_ == wire[s].use = "bulk" /\ serve(db, wire[s].q, wire[s].row).status = 200
  <1>1. tab' = IF stored_ THEN [tab EXCEPT ![s[1]].committed = @ \cup {wire[s].q.id}] ELSE tab
    BY DEF handle
  <1>2. stored_ => s[1] = Operator
    BY LaneUses, LaneSlots, LanesDistinct
  <1>3. DOMAIN tb = TabFields /\ DOMAIN tab = Tabs /\ Operator \in Tabs
    BY OperatorTab, TheTab DEF ConsoleInv
  <1> HIDE DEF stored_
  <1>4. ub = IF stored_ THEN [tb EXCEPT !.committed = @ \cup {wire[s].q.id}] ELSE tb
    BY <1>1, <1>2, <1>3
  <1> HIDE DEF tb, ub
  <1>5. /\ ub.items = tb.items /\ ub.picked = tb.picked /\ ub.ticked = tb.ticked /\ ub.selected = tb.selected
        /\ ub.mounted = tb.mounted /\ ub.stale = tb.stale
        /\ ub.stack = tb.stack /\ ub.cursor = tb.cursor /\ ub.next = tb.next /\ ub.wentBack = tb.wentBack
        /\ ub.done = tb.done /\ ub.failed = tb.failed /\ ub.targets = tb.targets /\ ub.reported = tb.reported
        /\ ub.committed = IF stored_ THEN tb.committed \cup {wire[s].q.id} ELSE tb.committed
    BY <1>3, <1>4 DEF TabFields
  <1>6. SameSelection(tb, ub) /\ (PagerOK(tb) => PagerOK(ub))
    BY <1>5, PagerSame DEF SameSelection
  <1> QED
    BY <1>5, <1>6 DEF tb, ub, stored_

LEMMA ListHandle ==
    ASSUME ConsoleInv, ListInv, focus = "list", NEW s \in Slots, handle(s)
    PROVE  ListInv'
  <1> DEFINE tb == tab[Operator]  ub == tab'[Operator]  n == sent.losses  w == wire  v == wire'
             r == serve(db, wire[s].q, wire[s].row)
  <1>1. /\ AsksIn("list", wire[s].q) /\ db' = r.db
        /\ \A o \in Slots \ {s} : v[o] = w[o]
        /\ v[s].at = "answered" /\ v[s].status = r.status /\ v[s].data = r.data
        /\ v[s].use = w[s].use /\ v[s].q = w[s].q
        /\ UNCHANGED <<focus, sent>>
    BY HandleSlot
  <1>2. wire[s].at = "loaded" /\ wire[s].use # "none"
    BY LaneUses DEF handle
  <1>3. /\ SameSelection(tb, ub)
        /\ PagerOK(tb) => PagerOK(ub)
        /\ ub.cursor = tb.cursor /\ ub.done = tb.done /\ ub.failed = tb.failed /\ ub.targets = tb.targets
        /\ ub.reported = tb.reported
        /\ ub.committed = IF wire[s].use = "bulk" /\ r.status = 200 THEN tb.committed \cup {wire[s].q.id} ELSE tb.committed
    BY ListHandleTab
  <1>4. /\ SelectionOK(tb, n) /\ TallyOn(tb, w, n) /\ PagerOK(tb) /\ LoadOK(tb, w[Lane("load")], n)
        /\ DOMAIN db.licenses = 1..3 /\ DOMAIN sent = {"direct", "clicks", "losses"}
    BY ListParts
  <1>5. /\ DOMAIN r.db.licenses = 1..3
        /\ wire[s].q.route # "listLicenses" => r.status \in {200, 400, 403, 404, 409}
    BY <1>1, <1>4, ListServed DEF AsksIn, ConsoleInv
  <1>6. wire[s].use = "bulk" => \E l \in BulkLanes : s = Lane(l)
    BY LaneUses
  <1>8. ASSUME NEW l \in BulkLanes, s = Lane(l) PROVE wire[s].use = "bulk" /\ wire[s].q.route \in {"transition", "renew"}
    <2>1. wire[s].use = "bulk"
      BY <1>2, <1>8, LaneUses
    <2>2. \A k \in BulkLanes : BulkOK(wire[Lane(k)], tb.committed)
      BY <1>4 DEF TallyOn, TallyOK, BulkLanes
    <2> QED
      BY <1>8, <2>1, <2>2 DEF BulkOK
  <1>9. s = Lane("load") => r.status = 200 /\ RowsOK(r.data, wire[s].q.cursor)
    <2> HAVE s = Lane("load")
    <2>1. wire[s].use = "rows"
      BY <1>2, LaneUses
    <2>2. wire[s].q.route = "listLicenses" /\ wire[s].q.limit = pageOf(25)
      BY <1>4, <2>1 DEF LoadOK
    <2> QED
      BY <1>4, <2>2, ListedRows
  <1>11. ASSUME NEW l \in BulkLanes, s = Lane(l)
         PROVE  /\ w[s].use = "bulk" /\ w[s].at = "loaded" /\ v[s].use = "bulk" /\ v[s].q = w[s].q /\ v[s].at = "answered"
                /\ v[s].status \in {200, 400, 403, 404, 409}
                /\ ub.committed = IF v[s].status = 200 THEN tb.committed \cup {w[s].q.id} ELSE tb.committed
    <2>1. w[s].use = "bulk" /\ w[s].q.route \in {"transition", "renew"}
      BY <1>8, <1>11
    <2> QED
      BY <1>1, <1>2, <1>3, <1>5, <2>1
  <1>13. (\A l \in BulkLanes : s # Lane(l)) => ub.committed = tb.committed
    BY <1>3, <1>6
  <1>14. s = Lane("load") => v[s].use = w[s].use /\ v[s].q = w[s].q /\ v[s].status = 200 /\ RowsOK(v[s].data, v[s].q.cursor)
    BY <1>1, <1>9
  <1>15. UNCHANGED <<focus, sent>> /\ DOMAIN db'.licenses = 1..3
    BY <1>1, <1>5
  <1> HIDE DEF tb, ub, n, w, v, r
  <1>17. TallyOn(ub, v, n)
    <2>1. ASSUME NEW l \in BulkLanes, s = Lane(l) PROVE TallyOn(ub, v, n)
      <3>1. \A k \in BulkLanes \ {l} : v[Lane(k)] = w[Lane(k)]
        BY <1>1, <2>1, LanesDistinct
      <3>2. \A rb, rm : TallyOK(tb, w[s], rb, rm, n) => TallyOK(ub, v[s], rb, rm, n)
        BY <1>3, <1>11, <2>1, TallyHandled
      <3> QED
        BY <1>4, <2>1, <3>1, <3>2, TallyLane DEF OneLane
    <2>2. ASSUME \A l \in BulkLanes : s # Lane(l) PROVE TallyOn(ub, v, n)
      <3>1. \A k \in BulkLanes : v[Lane(k)] = w[Lane(k)]
        BY <1>1, <2>2, LanesDistinct
      <3>2. SameTally(tb, ub)
        BY <1>3, <1>13, <2>2 DEF SameTally
      <3> QED
        BY <1>4, <3>1, <3>2, TallyOnSame
    <2> QED
      BY <2>1, <2>2
  <1>18. LoadOK(ub, v[Lane("load")], n)
    <2>1. CASE s = Lane("load")
      <3>1. 200 \in 200..204
        OBVIOUS
      <3> QED
        BY <1>3, <1>4, <1>14, <2>1, <3>1, LoadMoves
    <2>2. CASE s # Lane("load")
      <3>1. v[Lane("load")] = w[Lane("load")]
        BY <1>1, <2>2, LanesDistinct
      <3> QED
        BY <1>3, <1>4, <3>1, LoadSame
    <2> QED
      BY <2>1, <2>2
  <1>19. ListOK(ub, v, n)
    BY <1>3, <1>4, <1>17, <1>18, SelectionSame DEF ListOK
  <1>20. ListOK(tab'[Operator], wire', sent'.losses)
    BY <1>15, <1>19 DEF ub, v, n
  <1> QED
    BY <1>4, <1>15, <1>20, ListSettles

LEMMA ListLose ==
    ASSUME ConsoleInv, ListInv, focus = "list", NEW s \in Slots, lose(s)
    PROVE  ListInv'
  <1> DEFINE tb == tab[Operator]  n == sent.losses  w == wire  v == wire'
             rc == [wire[s] EXCEPT !.status = 0]
  <1>1. /\ wire[s].at = "answered" /\ wire' = [wire EXCEPT ![s] = rc]
        /\ sent' = [sent EXCEPT !.losses = @ + 1] /\ UNCHANGED <<focus, db, tab>>
    BY DEF lose, others
  <1>2. /\ SelectionOK(tb, n) /\ TallyOn(tb, w, n) /\ PagerOK(tb) /\ LoadOK(tb, w[Lane("load")], n) /\ n \in Nat
        /\ DOMAIN db.licenses = 1..3 /\ DOMAIN sent = {"direct", "clicks", "losses"}
    BY ListParts
  <1>3. sent'.losses = n + 1 /\ DOMAIN sent' = {"direct", "clicks", "losses"}
    BY <1>1, <1>2
  <1>4. rc.use = wire[s].use /\ rc.q = wire[s].q /\ rc.at = "answered" /\ rc.status = 0
    <2>1. DOMAIN wire[s] = RequestFields
      BY TheSlot DEF InFlight
    <2> QED
      BY <1>1, <2>1 DEF RequestFields
  <1> HIDE DEF rc
  <1>5. DOMAIN wire = Slots
    BY TheSlot
  <1>6. \A l \in Lanes : v[Lane(l)] = IF s = Lane(l) THEN rc ELSE w[Lane(l)]
    BY <1>1, <1>5, LanePut
  <1>7. w[s].at = "answered" /\ rc.use = w[s].use /\ rc.q = w[s].q /\ rc.at = "answered" /\ rc.status = 0
    BY <1>1, <1>4
  <1> HIDE DEF tb, n, w, v
  <1>8. \A ra, rb, rm : TallyOK(tb, ra, rb, rm, n) => TallyOK(tb, ra, rb, rm, n + 1)
    BY TallyLost
  <1>10. TallyOn(tb, v, n + 1)
    <2>1. ASSUME NEW l \in BulkLanes, s = Lane(l) PROVE TallyOn(tb, v, n + 1)
      <3>1. v[Lane(l)] = rc /\ \A k \in BulkLanes \ {l} : v[Lane(k)] = w[Lane(k)]
        BY <1>6, <2>1, LanesDistinct
      <3>2. \A rb, rm : TallyOK(tb, w[s], rb, rm, n) => TallyOK(tb, rc, rb, rm, n + 1)
        BY <1>7, TallyLost
      <3> QED
        BY <1>2, <2>1, <3>1, <3>2, TallyLane DEF OneLane
    <2>2. ASSUME \A l \in BulkLanes : s # Lane(l) PROVE TallyOn(tb, v, n + 1)
      <3>1. v[Lane("a")] = w[Lane("a")] /\ v[Lane("b")] = w[Lane("b")] /\ v[Lane("more")] = w[Lane("more")]
        BY <1>6, <2>2 DEF BulkLanes, Lanes
      <3> QED
        BY <1>2, <1>8, <3>1 DEF TallyOn
    <2> QED
      BY <2>1, <2>2
  <1>11. LoadOK(tb, v[Lane("load")], n + 1)
    <2>1. n + 1 > 0 /\ 0 \notin 200..204
      BY <1>2
    <2>2. CASE s = Lane("load")
      <3>1. v[Lane("load")] = rc
        BY <1>6, <2>2, LanesDistinct
      <3> QED
        BY <1>2, <1>7, <2>1, <2>2, <3>1 DEF LoadOK
    <2>3. CASE s # Lane("load")
      <3>1. v[Lane("load")] = w[Lane("load")]
        BY <1>6, <2>3, LanesDistinct
      <3> QED
        BY <1>2, <2>1, <3>1 DEF LoadOK
    <2> QED
      BY <2>2, <2>3
  <1>12. ListOK(tb, v, n + 1)
    BY <1>2, <1>10, <1>11, SelectionMore DEF ListOK
  <1>13. ListOK(tab'[Operator], wire', sent'.losses)
    BY <1>1, <1>3, <1>12 DEF tb, v, n
  <1> QED
    BY <1>1, <1>2, <1>3, <1>13, ListSettles

\* Another caller's request is not one of the table's.
LEMMA ListDirect ==
    ASSUME ConsoleInv, ListInv, focus = "list", NEW s \in Slots, callDirectly(s) \/ hangUp(s)
    PROVE  ListInv'
  <1>1. s[1] = "api"
    <2>1. CASE hangUp(s)
      <3>1. wire[s].at = "answered" /\ wire[s].use = "direct"
        BY <2>1 DEF hangUp, answeredTo
      <3> QED
        BY <3>1, AnswerOf DEF Placed, AuthUses
    <2> QED
      BY <2>1 DEF callDirectly
  <1>2. \E r : wire' = [wire EXCEPT ![s] = r]
    BY DEF callDirectly, hangUp, quiet
  <1>3. UNCHANGED <<focus, db, tab>> /\ sent' \in {sent, [sent EXCEPT !.direct = sent.direct \cup {s[2]}]}
    BY DEF callDirectly, hangUp, others
  <1>4. /\ ListOK(tab[Operator], wire, sent.losses)
        /\ DOMAIN db.licenses = 1..3 /\ DOMAIN sent = {"direct", "clicks", "losses"}
    BY ListParts
  <1>5. sent'.losses = sent.losses /\ DOMAIN sent' = {"direct", "clicks", "losses"}
    BY <1>3, <1>4
  <1>6. \A l \in Lanes : wire'[Lane(l)] = wire[Lane(l)]
    <2>1. DOMAIN wire = Slots
      BY TheSlot
    <2>2. \A l \in Lanes : s # Lane(l)
      BY <1>1, OperatorTab, LaneSlots
    <2> QED
      BY <1>2, <2>1, <2>2, LanePut
  <1>7. /\ wire'[Lane("a")] = wire[Lane("a")] /\ wire'[Lane("b")] = wire[Lane("b")]
        /\ wire'[Lane("more")] = wire[Lane("more")] /\ wire'[Lane("load")] = wire[Lane("load")]
    BY <1>6 DEF Lanes
  <1>8. ListOK(tab'[Operator], wire', sent'.losses)
    BY <1>3, <1>4, <1>5, <1>7 DEF ListOK, TallyOn
  <1> QED
    BY <1>3, <1>4, <1>5, <1>8, ListSettles

LEMMA ListRowsArrive ==
    ASSUME ConsoleInv, ListInv, focus = "list", NEW s \in Slots, rowsArrive(s)
    PROVE  ListInv'
  <1> DEFINE tb == tab[Operator]  n == sent.losses  w == wire  v == wire'
             code == wire[s].status
             items == wire[s].data.items
             next == wire[s].data.next_cursor
             ub == Rows(tb, code, items, next)
  <1>1. s = Lane("load") /\ s[1] = Operator /\ wire[s].use = "rows" /\ wire[s].at = "answered"
    BY LaneUses, LaneSlots, LanesDistinct DEF rowsArrive, answeredTo
  <1>2. tab' = [tab EXCEPT ![Operator] = ub] /\ wire' = [wire EXCEPT ![s] = NoRequest] /\ UNCHANGED <<focus, db, sent>>
    BY <1>1 DEF rowsArrive, quiet, others, Rows, good
  <1>3. DOMAIN wire = Slots /\ DOMAIN tab = Tabs /\ Operator \in Tabs /\ DOMAIN tb = TabFields
    BY TheSlot, OperatorTab, TheTab DEF ConsoleInv
  <1>4. /\ SelectionOK(tb, n) /\ TallyOn(tb, w, n) /\ PagerOK(tb) /\ LoadOK(tb, w[s], n) /\ n \in Nat
        /\ DOMAIN db.licenses = 1..3 /\ DOMAIN sent = {"direct", "clicks", "losses"}
    BY <1>1, ListParts
  <1>5. tab'[Operator] = ub
    BY <1>2, <1>3
  <1>6. \A l \in Lanes : v[Lane(l)] = IF s = Lane(l) THEN NoRequest ELSE w[Lane(l)]
    BY <1>2, <1>3, LanePut
  <1>7. v[Lane("load")] = NoRequest /\ \A l \in BulkLanes : v[Lane(l)] = w[Lane(l)]
    BY <1>1, <1>6, LanesDistinct
  <1>8. /\ IF code \in 200..204 THEN FewRows(DOMAIN items) ELSE n > 0
        /\ code \in 200..204 /\ tb.cursor \in Cursors => next = Null \/ (next \in 1..3 /\ next <= place(tb.cursor))
    BY <1>1, <1>4 DEF LoadOK, RowsOK
  <1> HIDE DEF items, next, code, tb, n, w, v
  <1>9. /\ code \in 200..204 => ub.next = next
        /\ code \notin 200..204 => ub.next = Null
        /\ ub.cursor = tb.cursor /\ ub.stack = tb.stack /\ ub.wentBack = tb.wentBack
        /\ ub.targets = tb.targets /\ ub.done = tb.done /\ ub.failed = tb.failed
        /\ ub.committed = tb.committed /\ ub.reported = tb.reported
    BY <1>3, RowsTab
  <1>10. SelectionOK(ub, n)
    BY <1>3, <1>4, <1>8, SelectionRows
  <1> HIDE DEF ub
  <1>11. PagerOK(ub)
    BY <1>4, <1>8, <1>9, PagerRows
  <1>12. TallyOn(ub, v, n)
    <2>1. SameTally(tb, ub)
      BY <1>9 DEF SameTally
    <2> QED
      BY <1>4, <1>7, <2>1, TallyOnSame
  <1>13. LoadOK(ub, v[Lane("load")], n)
    BY <1>7, NoRequestIs, LoadNone
  <1>14. ListOK(ub, v, n)
    BY <1>10, <1>11, <1>12, <1>13 DEF ListOK
  <1>15. ListOK(tab'[Operator], wire', sent'.losses)
    BY <1>2, <1>5, <1>14 DEF n, v
  <1> QED
    BY <1>2, <1>4, <1>15, ListSettles

\* An answer of the bulk action leaves its lane and is counted.
LEMMA AnswerCounted ==
    ASSUME ConsoleInv, ListInv, focus = "list", NEW s \in Slots, answeredTo(s, "bulk"), NEW tb, tb = tab[Operator], NEW ub,
           ub.done = IF good(s) THEN tb.done + 1 ELSE tb.done,
           ub.failed = IF good(s) THEN tb.failed ELSE tb.failed + 1,
           ub.targets = tb.targets, ub.committed = tb.committed,
           ub.reported => tb.reported \/ \A o \in Slots \ {s} : wire[o].use # "bulk",
           NEW v, v = quiet(s)
    PROVE  /\ s[1] = Operator /\ DOMAIN v = Slots /\ v[Lane("load")] = wire[Lane("load")]
           /\ TallyOn(ub, v, sent.losses)
  <1> DEFINE n == sent.losses  w == wire
  <1>1. wire[s].at = "answered" /\ wire[s].use = "bulk"
    BY DEF answeredTo
  <1>2. PICK l \in BulkLanes : s = Lane(l)
    BY <1>1, LaneUses
  <1>3. DOMAIN wire = Slots /\ s[1] = Operator
    BY <1>2, TheSlot, LaneSlots, LanesDistinct
  <1>4. DOMAIN v = Slots /\ \A k \in Lanes : v[Lane(k)] = IF s = Lane(k) THEN NoRequest ELSE w[Lane(k)]
    BY <1>3, LanePut DEF quiet
  <1>5. v[Lane("load")] = w[Lane("load")] /\ v[Lane(l)] = NoRequest /\ \A k \in BulkLanes \ {l} : v[Lane(k)] = w[Lane(k)]
    BY <1>2, <1>4, LanesDistinct
  <1>6. TallyOn(tb, w, n)
    BY ListParts
  <1>7. /\ ub.done = IF w[s].status \in 200..204 THEN tb.done + 1 ELSE tb.done
        /\ ub.failed = IF w[s].status \in 200..204 THEN tb.failed ELSE tb.failed + 1
    BY DEF good
  <1>8. \A j, k \in BulkLanes \ {l} : ub.reported => tb.reported \/ (w[Lane(j)].use # "bulk" /\ w[Lane(k)].use # "bulk")
    BY <1>2, LanesDistinct
  <1>9. w[s].use = "bulk" /\ w[s].at = "answered" /\ NoRequest.use = "none"
    BY <1>1, NoRequestIs
  <1> HIDE DEF w, n
  <1>10. \A j, k \in BulkLanes \ {l} :
           TallyOK(tb, w[Lane(l)], w[Lane(j)], w[Lane(k)], n) => TallyOK(ub, v[Lane(l)], w[Lane(j)], w[Lane(k)], n)
    <2> SUFFICES ASSUME NEW j \in BulkLanes \ {l}, NEW k \in BulkLanes \ {l}, TallyOK(tb, w[s], w[Lane(j)], w[Lane(k)], n)
                 PROVE  TallyOK(ub, NoRequest, w[Lane(j)], w[Lane(k)], n)
      BY <1>2, <1>5
    <2>1. ub.reported => tb.reported \/ (w[Lane(j)].use # "bulk" /\ w[Lane(k)].use # "bulk")
      BY <1>8
    <2> DEFINE ra == w[s]  rb == w[Lane(j)]  rm == w[Lane(k)]  rc == NoRequest
    <2>2. /\ TallyOK(tb, ra, rb, rm, n) /\ ra.use = "bulk" /\ ra.at = "answered" /\ rc.use = "none"
          /\ ub.done = IF ra.status \in 200..204 THEN tb.done + 1 ELSE tb.done
          /\ ub.failed = IF ra.status \in 200..204 THEN tb.failed ELSE tb.failed + 1
          /\ ub.reported => tb.reported \/ (rb.use # "bulk" /\ rm.use # "bulk")
      BY <1>7, <1>9, <2>1
    <2> HIDE DEF ra, rb, rm, rc
    <2>3. TallyOK(ub, rc, rb, rm, n)
      BY <2>2, TallyCounted
    <2> QED
      BY <2>3 DEF rc, rb, rm
  <1>11. TallyOn(ub, v, n)
    <2>1. OneLane(tb, ub, w, v, l, n, n)
      BY <1>5, <1>10 DEF OneLane
    <2> QED
      BY <1>6, <2>1, TallyLane, Zenon
  <1> QED
    BY <1>3, <1>4, <1>5, <1>11 DEF w, n

LEMMA ListBulkAnswered ==
    ASSUME ConsoleInv, ListInv, focus = "list", NEW s \in Slots, bulkAnswered(s)
    PROVE  ListInv'
  <1> DEFINE tb == tab[Operator]  ub == tally(tb, s)  w == quiet(s)  n == sent.losses
  <1>1. answeredTo(s, "bulk") /\ tab' = [tab EXCEPT ![s[1]] = tally(tab[s[1]], s)] /\ wire' = w /\ UNCHANGED <<focus, db, sent>>
    BY DEF bulkAnswered, others
  <1>2. DOMAIN tab = Tabs /\ Operator \in Tabs /\ DOMAIN tb = TabFields
    BY OperatorTab, TheTab DEF ConsoleInv
  <1>3. /\ SelectionOK(tb, n) /\ PagerOK(tb) /\ LoadOK(tb, wire[Lane("load")], n)
        /\ DOMAIN db.licenses = 1..3 /\ DOMAIN sent = {"direct", "clicks", "losses"}
    BY ListParts
  <1> HIDE DEF tb, w
  <1>4. /\ ub.done = IF good(s) THEN tb.done + 1 ELSE tb.done
        /\ ub.failed = IF good(s) THEN tb.failed ELSE tb.failed + 1
        /\ ub.targets = tb.targets /\ ub.committed = tb.committed /\ ub.reported = tb.reported
        /\ ub.items = tb.items /\ ub.picked = tb.picked /\ ub.ticked = tb.ticked /\ ub.selected = tb.selected
        /\ ub.mounted = tb.mounted /\ ub.stale = tb.stale
        /\ ub.stack = tb.stack /\ ub.cursor = tb.cursor /\ ub.next = tb.next /\ ub.wentBack = tb.wentBack
    <2>1. /\ ub.done = IF good(s) THEN tb.done + 1 ELSE tb.done
          /\ ub.failed = IF good(s) THEN tb.failed ELSE tb.failed + 1
          /\ \A f \in {"items", "next", "cursor", "stack", "wentBack", "picked", "selected", "mounted", "ticked", "stale", "targets",
                        "committed", "reported"} : ub[f] = tb[f]
      BY <1>2, TallyTab
    <2> HIDE DEF ub
    <2> QED
      BY <2>1
  <1> HIDE DEF ub
  <1>5. s[1] = Operator /\ w[Lane("load")] = wire[Lane("load")] /\ TallyOn(ub, w, n)
    <2>1. tb = tab[Operator] /\ w = quiet(s)
      BY DEF tb, w
    <2> QED
      BY <1>1, <1>4, <2>1, AnswerCounted
  <1>6. tab'[Operator] = ub
    BY <1>1, <1>2, <1>5 DEF ub, tb
  <1> HIDE DEF n
  <1>7. SelectionOK(ub, n) /\ PagerOK(ub)
    <2>1. SameSelection(tb, ub)
      BY <1>4 DEF SameSelection
    <2> QED
      BY <1>3, <1>4, <2>1, SelectionSame, PagerSame
  <1>8. LoadOK(ub, w[Lane("load")], n)
    BY <1>3, <1>4, <1>5, LoadSame
  <1>9. ListOK(tab'[Operator], wire', sent'.losses)
    BY <1>1, <1>5, <1>6, <1>7, <1>8 DEF ListOK, n
  <1> QED
    BY <1>1, <1>3, <1>9, ListSettles

\* The table's rows are asked for anew.
LEMMA LaneFetch ==
    ASSUME NEW w, DOMAIN w = Slots, NEW tb, NEW v, v = fetchList(w, tb)
    PROVE  /\ \A l \in BulkLanes : v[Lane(l)] = w[Lane(l)]
           /\ v[Lane("load")] = request(listQuery(tb), "rows")
  <1> DEFINE r == request(listQuery(tb), "rows")  s == Lane("load")
  <1>1. v = [w EXCEPT ![s] = r]
    BY DEF fetchList, Lane
  <1>2. s \in Slots /\ \A l \in BulkLanes : s # Lane(l) /\ Lane(l) \in Slots
    BY LanesDistinct
  <1> HIDE DEF r, s
  <1>3. v[s] = r /\ \A l \in BulkLanes : v[Lane(l)] = w[Lane(l)]
    BY <1>1, <1>2
  <1> QED
    BY <1>3 DEF r, s

LEMMA ListFinish ==
    ASSUME ConsoleInv, ListInv, focus = "list", NEW s \in Slots, finishAction(s)
    PROVE  ListInv'
  <1> DEFINE tb == tab[Operator]  ub == Finished(tb, s)  w == quiet(s)  n == sent.losses
  <1>1. /\ answeredTo(s, "bulk") /\ (\A o \in Slots \ {s} : wire[o].use # "bulk") /\ UNCHANGED <<focus, db, sent>>
    BY DEF finishAction, others
  <1>2. /\ tab' = [tab EXCEPT ![Operator] = ub]
        /\ wire' = w \/ \E vb : vb.cursor = tb.cursor /\ wire' = fetchList(w, vb)
    BY FinishActionStep
  <1>3. DOMAIN tab = Tabs /\ Operator \in Tabs /\ DOMAIN tb = TabFields
    BY OperatorTab, TheTab DEF ConsoleInv
  <1>4. /\ SelectionOK(tb, n) /\ PagerOK(tb) /\ LoadOK(tb, wire[Lane("load")], n)
        /\ DOMAIN db.licenses = 1..3 /\ DOMAIN sent = {"direct", "clicks", "losses"}
    BY ListParts
  <1>5. tab'[Operator] = ub
    BY <1>2, <1>3
  <1> HIDE DEF tb, w
  <1>6. /\ ub.done = IF good(s) THEN tb.done + 1 ELSE tb.done
        /\ ub.failed = IF good(s) THEN tb.failed ELSE tb.failed + 1
        /\ ub.targets = tb.targets /\ ub.committed = tb.committed /\ ub.reported = TRUE
        /\ ub.items = tb.items /\ ub.picked = tb.picked /\ ub.ticked = tb.ticked /\ ub.selected = <<>>
        /\ ub.mounted = tb.mounted /\ ub.stale \in {FALSE, tb.stale}
        /\ ub.stack = tb.stack /\ ub.cursor = tb.cursor /\ ub.next = tb.next /\ ub.wentBack = tb.wentBack
    <2>1. /\ tally(tb, s).done = IF good(s) THEN tb.done + 1 ELSE tb.done
          /\ tally(tb, s).failed = IF good(s) THEN tb.failed ELSE tb.failed + 1
      BY <1>3, TallyTab
    <2>2. /\ ub.done = tally(tb, s).done /\ ub.failed = tally(tb, s).failed
          /\ ub.targets = tb.targets /\ ub.committed = tb.committed /\ ub.reported = TRUE
          /\ ub.items = tb.items /\ ub.picked = tb.picked /\ ub.ticked = tb.ticked /\ ub.selected = <<>>
          /\ ub.mounted = tb.mounted /\ ub.stale \in {FALSE, tb.stale}
          /\ ub.stack = tb.stack /\ ub.cursor = tb.cursor /\ ub.next = tb.next /\ ub.wentBack = tb.wentBack
      BY <1>3, FinishedTab, Zenon
    <2> HIDE DEF ub
    <2> QED
      BY <2>1, <2>2, Zenon
  <1> HIDE DEF ub
  <1>7. DOMAIN w = Slots /\ w[Lane("load")] = wire[Lane("load")] /\ TallyOn(ub, w, n)
    <2>1. tb = tab[Operator] /\ w = quiet(s)
      BY DEF tb, w
    <2> QED
      BY <1>1, <1>6, <2>1, AnswerCounted
  <1> HIDE DEF n
  <1>8. SelectionOK(ub, n) /\ PagerOK(ub)
    <2>1. ub.stale => tb.stale
      BY <1>6, Zenon
    <2>2. SameSelection(tb, ub)
      BY <1>6, <2>1 DEF SameSelection
    <2> QED
      BY <1>4, <1>6, <2>2, SelectionSame, PagerSame
  <1>9. TallyOn(ub, wire', n) /\ LoadOK(ub, wire'[Lane("load")], n)
    <2>1. CASE wire' = w
      <3>1. LoadOK(ub, wire[Lane("load")], n)
        BY <1>4, <1>6, LoadSame
      <3> QED
        BY <1>7, <2>1, <3>1
    <2>2. ASSUME NEW vb, NEW v, vb.cursor = tb.cursor, v = fetchList(w, vb)
          PROVE  TallyOn(ub, v, n) /\ LoadOK(ub, v[Lane("load")], n)
      <3>1. LoadOK(ub, request(listQuery(vb), "rows"), n)
        BY <1>6, <2>2, LoadFresh
      <3>2. v[Lane("load")] = request(listQuery(vb), "rows") /\ \A l \in BulkLanes : v[Lane(l)] = w[Lane(l)]
        BY <1>7, <2>2, LaneFetch
      <3>3. SameTally(ub, ub)
        BY DEF SameTally
      <3> QED
        BY <1>7, <3>1, <3>2, <3>3, TallyOnSame
    <2> QED
      BY <1>2, <2>1, <2>2
  <1>10. ListOK(tab'[Operator], wire', sent'.losses)
    BY <1>1, <1>5, <1>8, <1>9 DEF ListOK, n
  <1> QED
    BY <1>1, <1>4, <1>10, ListSettles

LEMMA ListClick ==
    ASSUME ListInv, focus = "list", click
    PROVE  sent'.losses = sent.losses /\ DOMAIN sent' = {"direct", "clicks", "losses"}
  BY ListParts DEF click

\* The rows are asked for under the address the tab now has.
LEMMA ListFetched ==
    ASSUME ConsoleInv, ListInv, focus = "list", click, UNCHANGED <<focus, db>>, NEW ub, NEW vb, vb.cursor = ub.cursor,
           tab' = [tab EXCEPT ![Operator] = ub] \/ (ub = tab[Operator] /\ tab' = tab),
           wire' = fetchList(wire, vb), SameSelection(tab[Operator], ub), PagerOK(ub), SameTally(tab[Operator], ub)
    PROVE  ListInv'
  <1> DEFINE n == sent.losses  w == wire  v == wire'  tb == tab[Operator]
  <1>1. tab'[Operator] = ub
    BY OperatorTab DEF ConsoleInv
  <1>2. sent'.losses = n /\ DOMAIN sent' = {"direct", "clicks", "losses"}
    BY ListClick
  <1>3. SelectionOK(tb, n) /\ TallyOn(tb, w, n) /\ DOMAIN db.licenses = 1..3
    BY ListParts
  <1>4. DOMAIN w = Slots /\ v = fetchList(w, vb) /\ SameSelection(tb, ub) /\ SameTally(tb, ub)
    BY DEF ConsoleInv, Wired
  <1> HIDE DEF n, w, v, tb
  <1>6. v[Lane("load")] = request(listQuery(vb), "rows") /\ \A l \in BulkLanes : v[Lane(l)] = w[Lane(l)]
    BY <1>4, LaneFetch
  <1>7. LoadOK(ub, request(listQuery(vb), "rows"), n)
    BY LoadFresh
  <1>8. TallyOn(ub, v, n)
    BY <1>3, <1>4, <1>6, TallyOnSame
  <1>9. ListOK(ub, v, n)
    BY <1>3, <1>4, <1>6, <1>7, <1>8, SelectionSame DEF ListOK
  <1>10. ListOK(tab'[Operator], wire', sent'.losses)
    BY <1>1, <1>2, <1>9 DEF v
  <1> QED
    BY <1>2, <1>3, <1>10, ListSettles

\* The way to another page or filter.
LEMMA ListNavigate ==
    ASSUME ConsoleInv, ListInv, NEW vb, navigate(vb), DOMAIN vb = TabFields, PagerOK(vb), NEW tb, tb = tab[Operator],
           \A f \in TabFields \ {"stack", "cursor", "filter"} : vb[f] = tb[f]
    PROVE  ListInv'
  <1> DEFINE ub == [vb EXCEPT !.history = Append(@, [cursor |-> tab[Operator].cursor, filter |-> tab[Operator].filter])]
  <1>1. focus = "list" /\ click /\ tab' = [tab EXCEPT ![Operator] = ub] /\ wire' = fetchList(wire, vb)
        /\ UNCHANGED <<db, focus>>
    BY DEF navigate, usable, others
  <1>2. \A f \in TabFields \ {"history"} : ub[f] = vb[f]
    OBVIOUS
  <1> HIDE DEF ub
  <1>3. /\ ub.items = tb.items /\ ub.picked = tb.picked /\ ub.ticked = tb.ticked /\ ub.selected = tb.selected
        /\ ub.mounted = tb.mounted /\ ub.stale = tb.stale
        /\ ub.done = tb.done /\ ub.failed = tb.failed /\ ub.targets = tb.targets /\ ub.reported = tb.reported
        /\ ub.committed = tb.committed
        /\ ub.stack = vb.stack /\ ub.cursor = vb.cursor /\ ub.next = vb.next /\ ub.wentBack = vb.wentBack
    BY <1>2 DEF TabFields
  <1>5. SameSelection(tab[Operator], ub) /\ SameTally(tab[Operator], ub)
    BY <1>3 DEF SameSelection, SameTally
  <1>6. PagerOK(ub)
    BY <1>3, PagerSame
  <1>8. vb.cursor = ub.cursor
    BY <1>3
  <1> QED
    BY <1>1, <1>5, <1>6, <1>8, ListFetched

LEMMA ListPages ==
    ASSUME ConsoleInv, ListInv, focus = "list", applyServerFilter \/ goNext \/ goPrev
    PROVE  ListInv'
  <1> DEFINE tb == tab[Operator]
  <1>1. DOMAIN tb = TabFields
    BY OperatorTab, TheTab
  <1>2. PagerOK(tb)
    BY ListParts
  <1>3. CASE applyServerFilter
    <2>1. PICK f : navigate([tb EXCEPT !.stack = <<>>, !.cursor = Null, !.filter = f])
      BY <1>3 DEF applyServerFilter
    <2> DEFINE vb == [tb EXCEPT !.stack = <<>>, !.cursor = Null, !.filter = f]
    <2> HIDE DEF tb
    <2>2. /\ DOMAIN vb = TabFields /\ (\A g \in TabFields \ {"stack", "cursor", "filter"} : vb[g] = tb[g])
          /\ vb.stack = <<>> /\ vb.cursor = Null /\ vb.next = tb.next /\ vb.wentBack = tb.wentBack
      BY <1>1 DEF TabFields
    <2>3. navigate(vb)
      BY <2>1
    <2> HIDE DEF vb
    <2>4. PagerOK(vb)
      BY <1>2, <2>2, PagerFiltered
    <2> QED
      BY <2>2, <2>3, <2>4, ListNavigate DEF tb
  <1>4. CASE goNext
    <2> DEFINE vb == [tb EXCEPT !.stack = Append(tb.stack, tb.cursor), !.cursor = tb.next]
    <2>1. navigate(vb) /\ tb.next # Null
      BY <1>4 DEF goNext
    <2> HIDE DEF tb
    <2>2. /\ DOMAIN vb = TabFields /\ (\A g \in TabFields \ {"stack", "cursor", "filter"} : vb[g] = tb[g])
          /\ vb.stack = Append(tb.stack, tb.cursor) /\ vb.cursor = tb.next /\ vb.next = tb.next /\ vb.wentBack = tb.wentBack
      BY <1>1 DEF TabFields
    <2> HIDE DEF vb
    <2>3. PagerOK(vb)
      BY <1>2, <2>1, <2>2, PagerForth
    <2> QED
      BY <2>1, <2>2, <2>3, ListNavigate DEF tb
  <1>5. CASE goPrev
    <2> DEFINE vb == [tb EXCEPT !.stack = SubSeq(tb.stack, 1, Len(tb.stack) - 1), !.cursor = Last(tb.stack)]
    <2>1. navigate(vb) /\ tb.stack # <<>>
      BY <1>5 DEF goPrev
    <2> HIDE DEF tb
    <2>2. /\ DOMAIN vb = TabFields /\ (\A g \in TabFields \ {"stack", "cursor", "filter"} : vb[g] = tb[g])
          /\ vb.stack = SubSeq(tb.stack, 1, Len(tb.stack) - 1) /\ vb.cursor = Last(tb.stack)
          /\ vb.next = tb.next /\ vb.wentBack = tb.wentBack
      BY <1>1 DEF TabFields
    <2> HIDE DEF vb
    <2>3. PagerOK(vb)
      BY <1>2, <2>1, <2>2, PagerBack
    <2> QED
      BY <2>1, <2>2, <2>3, ListNavigate DEF tb
  <1> QED
    BY <1>3, <1>4, <1>5

LEMMA ListBackOrRefresh ==
    ASSUME ConsoleInv, ListInv, focus = "list", goBack \/ refreshList
    PROVE  ListInv'
  <1> DEFINE tb == tab[Operator]
  <1>1. DOMAIN tb = TabFields
    BY OperatorTab, TheTab
  <1>2. PagerOK(tb)
    BY ListParts
  <1>3. CASE refreshList
    <2>1. click /\ wire' = fetchList(wire, tb) /\ UNCHANGED <<focus, db>> /\ tab' = tab
      BY <1>3 DEF refreshList, others
    <2>2. SameTally(tb, tb) /\ SameSelection(tb, tb) /\ tb = tab[Operator]
      BY DEF SameTally, SameSelection
    <2> HIDE DEF tb
    <2> QED
      BY <1>2, <2>1, <2>2, ListFetched
  <1>4. CASE goBack
    <2> DEFINE h == Last(tb.history)
               ub == [tb EXCEPT !.cursor = h.cursor, !.filter = h.filter,
                                !.history = SubSeq(@, 1, Len(@) - 1), !.wentBack = TRUE]
    <2>1. click /\ tab' = [tab EXCEPT ![Operator] = ub] /\ wire' = fetchList(wire, ub) /\ UNCHANGED <<focus, db>>
      BY <1>4 DEF goBack, others
    <2> HIDE DEF h
    <2>2. /\ ub.items = tb.items /\ ub.picked = tb.picked /\ ub.ticked = tb.ticked /\ ub.selected = tb.selected
          /\ ub.mounted = tb.mounted /\ ub.stale = tb.stale
          /\ ub.done = tb.done /\ ub.failed = tb.failed /\ ub.targets = tb.targets /\ ub.reported = tb.reported
          /\ ub.committed = tb.committed /\ ub.wentBack = TRUE
      BY <1>1 DEF TabFields
    <2> HIDE DEF ub
    <2>4. PagerOK(ub)
      BY <2>2 DEF PagerOK
    <2>5. SameTally(tab[Operator], ub) /\ SameSelection(tab[Operator], ub)
      BY <2>2 DEF SameTally, SameSelection
    <2> QED
      BY <2>1, <2>4, <2>5, ListFetched
  <1> QED
    BY <1>3, <1>4

\* A click that sends nothing.
LEMMA ListStill ==
    ASSUME ConsoleInv, ListInv, focus = "list", click, UNCHANGED <<focus, db, wire>>, NEW ub,
           tab' = [tab EXCEPT ![Operator] = ub], SelectionOK(ub, sent.losses), SameTally(tab[Operator], ub),
           ub.stack = tab[Operator].stack, ub.cursor = tab[Operator].cursor, ub.next = tab[Operator].next,
           ub.wentBack = tab[Operator].wentBack
    PROVE  ListInv'
  <1> DEFINE n == sent.losses  w == wire  tb == tab[Operator]
  <1>1. tab'[Operator] = ub
    BY OperatorTab DEF ConsoleInv
  <1>2. sent'.losses = n /\ DOMAIN sent' = {"direct", "clicks", "losses"}
    BY ListClick
  <1>3. TallyOn(tb, w, n) /\ PagerOK(tb) /\ LoadOK(tb, w[Lane("load")], n) /\ DOMAIN db.licenses = 1..3
    BY ListParts
  <1>4. /\ SelectionOK(ub, n) /\ SameTally(tb, ub) /\ ub.stack = tb.stack /\ ub.cursor = tb.cursor /\ ub.next = tb.next
        /\ ub.wentBack = tb.wentBack
    OBVIOUS
  <1> HIDE DEF n, w, tb
  <1>5. TallyOn(ub, w, n) /\ PagerOK(ub) /\ LoadOK(ub, w[Lane("load")], n)
    BY <1>3, <1>4, TallyOnSame, PagerSame, LoadSame
  <1>6. ListOK(ub, w, n)
    BY <1>4, <1>5 DEF ListOK
  <1>7. ListOK(tab'[Operator], wire', sent'.losses)
    BY <1>1, <1>2, <1>6 DEF w
  <1> QED
    BY <1>2, <1>3, <1>7, ListSettles

LEMMA ListToggle ==
    ASSUME ConsoleInv, ListInv, focus = "list", NEW i, toggleSelected(i)
    PROVE  ListInv'
  <1> DEFINE tb == tab[Operator]
             rows == 1..Cardinality(DOMAIN tb.items)
             p == IF i \in tb.picked THEN tb.picked \ {i} ELSE tb.picked \cup {i}
             k == IF i \in tb.picked THEN tb.ticked \ {rowAt(tb.items, i)} ELSE tb.ticked \cup {rowAt(tb.items, i)}
             v == [m \in {rowAt(tb.items, m) : m \in p \cap rows} |-> tb.items[m]]
             ub == [tb EXCEPT !.picked = p, !.ticked = k, !.selected = v, !.stale = FALSE]
             n == sent.losses
  <1>1. i \in rows /\ click /\ UNCHANGED <<focus, db, wire>>
    BY DEF toggleSelected, others
  <1>2. tab' = [tab EXCEPT ![Operator].picked = p, ![Operator].ticked = k, ![Operator].selected = v,
                           ![Operator].stale = FALSE]
    BY DEF toggleSelected
  <1>3. tab' = [tab EXCEPT ![Operator] = ub]
    <2> HIDE DEF p, k, v
    <2> QED
      BY <1>2
  <1>4. DOMAIN tb = TabFields
    BY OperatorTab, TheTab
  <1>5. SelectionOK(tb, n)
    BY ListParts
  <1>6. /\ ub.items = tb.items /\ ub.picked = p /\ ub.ticked = k /\ ub.selected = v /\ ub.stale = FALSE
        /\ ub.mounted = tb.mounted
        /\ ub.done = tb.done /\ ub.failed = tb.failed /\ ub.targets = tb.targets /\ ub.reported = tb.reported
        /\ ub.committed = tb.committed
        /\ ub.stack = tb.stack /\ ub.cursor = tb.cursor /\ ub.next = tb.next /\ ub.wentBack = tb.wentBack
    <2> HIDE DEF p, k, v, tb
    <2> QED
      BY <1>4 DEF TabFields
  <1> HIDE DEF ub, tb, n
  <1>7. ub.selected = [m \in {rowAt(tb.items, m) : m \in ub.picked \cap rows} |-> tb.items[m]]
    BY <1>6
  <1>8. /\ ub.picked = IF i \in tb.picked THEN tb.picked \ {i} ELSE tb.picked \cup {i}
        /\ ub.ticked = IF i \in tb.picked THEN tb.ticked \ {rowAt(tb.items, i)} ELSE tb.ticked \cup {rowAt(tb.items, i)}
    BY <1>6
  <1> HIDE DEF p, k, v
  <1>9. SelectionOK(ub, n)
    <2>1. ~ub.stale /\ (ub.mounted <=> tb.mounted)
      BY <1>6
    <2> QED
      BY <1>1, <1>5, <1>6, <1>7, <1>8, <2>1, SelectionToggle
  <1>10. SameTally(tb, ub)
    BY <1>6 DEF SameTally
  <1> QED
    BY <1>1, <1>3, <1>6, <1>9, <1>10, ListStill DEF tb, n

LEMMA ListDismiss ==
    ASSUME ConsoleInv, ListInv, focus = "list", dismiss
    PROVE  ListInv'
  <1> DEFINE tb == tab[Operator]
             ub == [tb EXCEPT !.dialog = "none"]
             n == sent.losses
  <1>1. click /\ UNCHANGED <<focus, db, wire>> /\ tab' = [tab EXCEPT ![Operator] = ub]
    BY DEF dismiss, others
  <1>2. DOMAIN tb = TabFields /\ SelectionOK(tb, n)
    BY OperatorTab, TheTab, ListParts
  <1>3. /\ ub.items = tb.items /\ ub.picked = tb.picked /\ ub.ticked = tb.ticked /\ ub.selected = tb.selected
        /\ ub.mounted = tb.mounted /\ ub.stale = tb.stale
        /\ ub.done = tb.done /\ ub.failed = tb.failed /\ ub.targets = tb.targets /\ ub.reported = tb.reported
        /\ ub.committed = tb.committed
        /\ ub.stack = tb.stack /\ ub.cursor = tb.cursor /\ ub.next = tb.next /\ ub.wentBack = tb.wentBack
    BY <1>2 DEF TabFields
  <1> HIDE DEF ub, tb, n
  <1>4. SelectionOK(ub, n)
    <2>1. SameSelection(tb, ub)
      BY <1>3 DEF SameSelection
    <2> QED
      BY <1>2, <2>1, SelectionSame
  <1>5. SameTally(tb, ub)
    BY <1>3 DEF SameTally
  <1> QED
    BY <1>1, <1>3, <1>4, <1>5, ListStill DEF tb, n

LEMMA ListRunBulk ==
    ASSUME ConsoleInv, ListInv, focus = "list", NEW action \in Bulk, runBulk(action)
    PROVE  ListInv'
  <1> DEFINE tb == tab[Operator]  ts == targetsOf(tb, action)  n == sent.losses  w == wire  v == wire'
             ub == [tb EXCEPT !.dialog = action, !.targets = ts, !.done = 0, !.failed = 0,
                              !.committed = {}, !.reported = FALSE]
             asked(o) == o[1] = Operator /\ \E i \in ts : o[2] = bulkLane(i)
             pick(o) == CHOOSE i \in ts : o[2] = bulkLane(i)
             q(i) == bulkQuery(tb, action, i)
  <1>1. click /\ wire' = fanOut(tb, action) /\ UNCHANGED <<db, focus>> /\ ~busy(Operator, BulkLanes)
    BY DEF runBulk, others
  <1>2. tab' = [tab EXCEPT ![Operator] = ub]
    BY DEF runBulk
  <1>3. DOMAIN tb = TabFields /\ tab'[Operator] = ub
    BY <1>2, OperatorTab, TheTab DEF ConsoleInv
  <1>4. /\ SelectionOK(tb, n) /\ PagerOK(tb) /\ LoadOK(tb, w[Lane("load")], n) /\ n \in Nat
        /\ DOMAIN db.licenses = 1..3
    BY ListParts
  <1>5. sent'.losses = n /\ DOMAIN sent' = {"direct", "clicks", "losses"}
    BY <1>1, ListClick
  <1>6. v = [o \in Slots |-> IF asked(o) THEN request(q(pick(o)), "bulk") ELSE w[o]]
    BY <1>1, FanOutQuery
  <1>7. \A i : q(i).id = i /\ q(i).route \in {"transition", "renew"}
    <2> HIDE DEF tb
    <2>1. \A i : /\ AsksIn("list", bulkQuery(tb, action, i)) /\ bulkQuery(tb, action, i).id = i
                /\ bulkQuery(tb, action, i).route \in {"transition", "renew"}
      BY FanOutQuery, Zenon
    <2> QED
      BY <2>1, Zenon
  <1>8. FewRows(ts)
    <2>1. FewRows(DOMAIN tb.selected)
      BY <1>4 DEF SelectionOK
    <2>2. ts \subseteq DOMAIN tb.selected
      BY DEF targetsOf
    <2> HIDE DEF ts, tb
    <2> QED
      BY <2>1, <2>2 DEF FewRows
  <1>9. \A l \in BulkLanes : w[Lane(l)].use # "bulk"
    <2>1. \A l \in BulkLanes : w[Lane(l)].at = "free"
      BY <1>1 DEF busy, free, Lane
    <2> QED
      BY <2>1, LaneUses, LanesDistinct
  <1> HIDE DEF ts, tb, n, w, v, q
  <1>10. ASSUME NEW i \in 1..3
         PROVE  /\ Lane(bulkLane(i)) \in Slots /\ (asked(Lane(bulkLane(i))) <=> i \in ts)
                /\ i \in ts => pick(Lane(bulkLane(i))) = i
    <2>1. bulkLane(i) \in BulkLanes /\ \A k \in ts : bulkLane(k) = bulkLane(i) => k = i
      BY <1>8, <1>10 DEF bulkLane, BulkLanes, FewRows
    <2>2. Lane(bulkLane(i)) \in Slots /\ Lane(bulkLane(i))[1] = Operator /\ Lane(bulkLane(i))[2] = bulkLane(i)
      BY <2>1, LanesDistinct, LaneSlots
    <2>3. asked(Lane(bulkLane(i))) <=> i \in ts
      BY <2>1, <2>2
    <2>4. i \in ts => pick(Lane(bulkLane(i))) = i
      BY <2>1, <2>2
    <2> QED
      BY <2>2, <2>3, <2>4
  <1>11. ASSUME NEW i \in 1..3
         PROVE  IF i \in ts THEN SentFor(v[Lane(bulkLane(i))], i) ELSE v[Lane(bulkLane(i))].use # "bulk"
    <2> DEFINE o == Lane(bulkLane(i))
    <2>1. o \in Slots /\ (asked(o) <=> i \in ts) /\ (i \in ts => pick(o) = i)
      BY <1>10
    <2>2. w[o].use # "bulk"
      <3>1. bulkLane(i) \in BulkLanes
        BY DEF bulkLane, BulkLanes
      <3> QED
        BY <1>9, <3>1
    <2> HIDE DEF o, asked, pick
    <2>3. i \in ts => v[o] = request(q(i), "bulk")
      BY <1>6, <2>1
    <2>4. i \notin ts => v[o] = w[o]
      BY <1>6, <2>1
    <2>5. SentFor(request(q(i), "bulk"), i)
      BY <1>7, RequestIs DEF SentFor
    <2>6. IF i \in ts THEN SentFor(v[o], i) ELSE v[o].use # "bulk"
      BY <2>2, <2>3, <2>4, <2>5
    <2> QED
      BY <2>6 DEF o
  <1>12. v[Lane("load")] = w[Lane("load")]
    <2>1. ~asked(Lane("load")) /\ Lane("load") \in Slots
      <3>1. Lane("load") \in Slots /\ Lane("load")[2] = "load"
        BY LanesDistinct, LaneSlots
      <3>2. \A i : bulkLane(i) # "load"
        BY DEF bulkLane
      <3> QED
        BY <3>1, <3>2
    <2> HIDE DEF asked, pick
    <2> QED
      BY <1>6, <2>1
  <1> HIDE DEF asked, pick
  <1>13. /\ ub.items = tb.items /\ ub.picked = tb.picked /\ ub.ticked = tb.ticked /\ ub.selected = tb.selected
         /\ ub.mounted = tb.mounted /\ ub.stale = tb.stale
         /\ ub.done = 0 /\ ub.failed = 0 /\ ub.targets = ts /\ ub.reported = FALSE /\ ub.committed = {}
         /\ ub.stack = tb.stack /\ ub.cursor = tb.cursor /\ ub.next = tb.next /\ ub.wentBack = tb.wentBack
    BY <1>3 DEF TabFields
  <1> HIDE DEF ub
  <1>14. TallyOn(ub, v, n)
    <2> DEFINE ra == v[Lane("a")]  rb == v[Lane("b")]  rm == v[Lane("more")]
    <2>1. bulkLane(1) = "a" /\ bulkLane(2) = "b" /\ bulkLane(3) = "more"
      BY DEF bulkLane
    <2>2. /\ IF 1 \in ts THEN SentFor(ra, 1) ELSE ra.use # "bulk"
          /\ IF 2 \in ts THEN SentFor(rb, 2) ELSE rb.use # "bulk"
          /\ IF 3 \in ts THEN SentFor(rm, 3) ELSE rm.use # "bulk"
      <3>1. 1 \in 1..3 /\ 2 \in 1..3 /\ 3 \in 1..3
        OBVIOUS
      <3> QED
        BY <1>11, <2>1, <3>1
    <2> HIDE DEF ra, rb, rm
    <2>3. TallyOK(ub, ra, rb, rm, n)
      BY <1>4, <1>8, <1>13, <2>2, TallyStarts
    <2> QED
      BY <2>3 DEF TallyOn, ra, rb, rm
  <1>15. SelectionOK(ub, n) /\ PagerOK(ub) /\ LoadOK(ub, v[Lane("load")], n)
    <2>1. SameSelection(tb, ub)
      BY <1>13 DEF SameSelection
    <2> QED
      BY <1>4, <1>12, <1>13, <2>1, SelectionSame, PagerSame, LoadSame
  <1>16. ListOK(tab'[Operator], wire', sent'.losses)
    BY <1>3, <1>5, <1>14, <1>15 DEF ListOK, v
  <1> QED
    BY <1>1, <1>4, <1>5, <1>16, ListSettles

\* On the licenses table no other page's step is taken.
LEMMA ListSteps ==
    ASSUME ConsoleInv, focus = "list", ConsoleNext
    PROVE  (\E s \in Slots : RequestStep(s) \/ TableAnswer(s)) \/ TableStep
  <1>1. ASSUME NEW s \in Slots, PageAnswer(s) \/ FormAnswer(s) \/ SessionAnswer(s) PROVE FALSE
    <2>1. wire[s].at = "answered" => Placed(focus, s, wire[s].use)
      BY AnswerOf
    <2>2. InFlight(focus, accepted, db, s, wire[s])
      BY TheSlot
    <2>3. CASE PageAnswer(s)
      BY <2>1, <2>3 DEF PageAnswer, actAnswered, pageArrives, answeredTo, Placed, AuthUses
    <2>4. CASE FormAnswer(s)
      BY <2>1, <2>4 DEF FormAnswer, saved, templateArrives, allArrive, answeredTo, Placed, AuthUses
    <2>5. CASE authServe(s)
      <3>1. wire[s].use # "none" /\ wire[s].q.route \in AuthRoutes /\ Placed(focus, s, wire[s].use)
        BY <2>2, <2>5 DEF authServe, InFlight
      <3>2. wire[s].use \notin AuthUses
        BY <3>1 DEF Placed, AuthUses
      <3>3. Asks(wire[s].q)
        BY <2>2, <3>1, <3>2 DEF InFlight, AsksIn
      <3> QED
        BY <3>1, <3>3 DEF Asks, AdminRoutes, ListRoutes, AuthRoutes
    <2>6. CASE signedIn(s) \/ signedOut(s) \/ sessionRead(s)
      BY <2>1, <2>6 DEF signedIn, signedOut, sessionRead, answeredTo, Placed, AuthUses
    <2>7. CASE expelled(s)
      BY <2>2, <2>7 DEF expelled, InFlight
    <2> QED
      BY <1>1, <2>3, <2>4, <2>5, <2>6, <2>7 DEF SessionAnswer
  <1>2. ASSUME NEW t \in Tabs, PageStep(t) \/ FormStep(t) \/ SessionStep(t) PROVE FALSE
    BY <1>2 DEF PageStep, FormStep, SessionStep, act, refreshPage, type, submit, refreshTemplate, signIn, signOut, browse
  <1>3. ~revokeBearer
    BY DEF revokeBearer
  <1> QED
    BY <1>1, <1>2, <1>3, StepKinds, Zenon

LEMMA ListTableStep ==
    ASSUME ConsoleInv, ListInv, focus = "list", TableStep
    PROVE  ListInv'
  <1>1. CASE applyServerFilter \/ goNext \/ goPrev
    BY <1>1, ListPages
  <1>2. CASE goBack \/ refreshList
    BY <1>2, ListBackOrRefresh
  <1>3. CASE runLifecycleVerb \/ runExtend
    <2>1. \E a \in Bulk : runBulk(a)
      BY <1>3 DEF runLifecycleVerb, runExtend, Bulk
    <2> QED
      BY <2>1, ListRunBulk
  <1>4. CASE \E i \in 1..pageOf(25) : toggleSelected(i)
    BY <1>4, ListToggle
  <1> QED
    BY <1>1, <1>2, <1>3, <1>4, ListDismiss DEF TableStep

LEMMA ListNextInv ==
    ASSUME ConsoleInv, ListInv, [ConsoleNext]_consoleVars
    PROVE  ListInv'
  <1>1. CASE UNCHANGED consoleVars
    BY <1>1 DEF consoleVars, ListInv, ListOK, TallyOn, Lane
  <1>2. CASE ConsoleNext /\ focus # "list"
    <2>1. focus' = focus
      BY <1>2, FocusStays
    <2> QED
      BY <1>2, <2>1 DEF ListInv
  <1>3. CASE ConsoleNext /\ focus = "list"
    BY <1>3, ListSteps, ListProxy, ListHandle, ListLose, ListDirect, ListRowsArrive, ListBulkAnswered, ListFinish,
       ListTableStep DEF RequestStep, TableAnswer
  <1> QED
    BY <1>1, <1>2, <1>3

LEMMA ListInitInv ==
    ASSUME ConsoleInit
    PROVE  ListInv
  <1> SUFFICES ASSUME focus = "list" PROVE ListInv
    BY DEF ListInv
  <1> DEFINE q == listQuery(NoTab)
             data == serve(StartDb, q, load(StartDb, q)).data
             ub == newRows(NoTab, data.items, data.next_cursor)
             w == wire
  <1>1. Operator \in Tabs /\ tab[Operator] = ub
    BY OperatorTab DEF ConsoleInit, firstTab, result
  <1>2. q.route = "listLicenses" /\ q.limit = pageOf(25) /\ q.cursor = Null
    BY NoTabFields DEF listQuery, list
  <1>3. RowsOK(data, Null)
    <2> HIDE DEF q
    <2> QED
      BY <1>2, StartDbOK, ListedRows
  <1>4. DOMAIN db.licenses = 1..3 /\ DOMAIN sent = {"direct", "clicks", "losses"} /\ sent.losses = 0
    BY StartDbOK DEF ConsoleInit
  <1>5. w[Lane("load")] = NoRequest /\ \A l \in BulkLanes : w[Lane(l)] = NoRequest
    BY LanesDistinct DEF ConsoleInit
  <1> HIDE DEF data
  <1>6. /\ ub.items = data.items /\ ub.next = data.next_cursor /\ ub.picked = {} /\ ub.selected = <<>> /\ ub.ticked = {}
        /\ ub.stale = FALSE /\ ub.mounted = TRUE
        /\ ub.cursor = Null /\ ub.stack = <<>> /\ ub.targets = {} /\ ub.committed = {} /\ ub.done = 0 /\ ub.failed = 0
        /\ ub.reported = FALSE
    BY NoTabFields DEF newRows, TabFields
  <1> HIDE DEF ub, w
  <1>8. SelectionOK(ub, 0)
    <2>1. FewRows(DOMAIN ub.items) /\ DOMAIN <<>> = {}
      BY <1>3, <1>6 DEF RowsOK
    <2>2. FewRows(DOMAIN ub.selected) /\ DOMAIN ub.selected = {}
      BY <1>6, <2>1 DEF FewRows
    <2>3. ub.ticked = {rowAt(ub.items, k) : k \in ub.picked} /\ ub.picked \subseteq 1..Cardinality(DOMAIN ub.items)
      BY <1>6
    <2>4. ~ub.stale /\ ub.mounted
      BY <1>6
    <2> QED
      BY <2>1, <2>2, <2>3, <2>4 DEF SelectionOK
  <1>9. PagerOK(ub)
    <2>1. <<>> \in Seq(Cursors) /\ Null \in Cursors
      BY DEF Cursors
    <2>2. InOrder(Append(<<>>, Null))
      BY <2>1 DEF InOrder
    <2>3. ub.next = Null \/ (ub.next \in 1..3 /\ ub.next <= place(Null))
      BY <1>3, <1>6, <2>1 DEF RowsOK
    <2> QED
      BY <1>6, <2>1, <2>2, <2>3 DEF PagerOK
  <1>10. TallyOn(ub, w, 0)
    <2> DEFINE r == NoRequest
    <2>1. r.use # "bulk"
      BY NoRequestIs
    <2>2. w[Lane("a")] = r /\ w[Lane("b")] = r /\ w[Lane("more")] = r
      BY <1>5 DEF BulkLanes
    <2> HIDE DEF r
    <2>3. FewRows({}) /\ 0 \in Nat
      BY DEF FewRows
    <2>4. TallyOK(ub, r, r, r, 0)
      BY <1>6, <2>1, <2>3, TallyStarts
    <2> QED
      BY <2>2, <2>4 DEF TallyOn
  <1>11. LoadOK(ub, w[Lane("load")], 0)
    BY <1>5, NoRequestIs, LoadNone
  <1>12. ListOK(ub, w, 0)
    BY <1>8, <1>9, <1>10, <1>11 DEF ListOK
  <1> QED
    BY <1>1, <1>4, <1>12 DEF ListInv, w

LEMMA ListFollows ==
    ASSUME ConsoleInv, ListInv
    PROVE  ListExact
  <1> DEFINE tb == tab[Operator]  n == sent.losses
  <1>1. TabOK(focus, tb)
    BY OperatorTab, TheTab
  <1>2. focus = "list" => SelectionOK(tb, n) /\ PagerOK(tb) /\ DOMAIN db.licenses = 1..3 /\ TallyOn(tb, wire, n)
    BY ListParts
  <1>3. focus # "list" => tb.selected = <<>> /\ tb.stack = <<>> /\ tb.cursor = Null
    BY <1>1 DEF TabOK
  <1>4. SelectionMeansSeen
    <2>1. CASE focus = "list"
      <3>1. (tb.stale => n > 0) /\ (~tb.stale => selectionSeen(tb))
        BY <1>2, <2>1 DEF SelectionOK, selectionSeen
      <3> QED
        BY <2>1, <3>1 DEF SelectionMeansSeen
    <2>2. CASE focus # "list"
      <3>1. selectionSeen(tb)
        BY <1>3, <2>2 DEF selectionSeen
      <3> QED
        BY <2>2, <3>1 DEF SelectionMeansSeen
    <2> QED
      BY <2>1, <2>2
  <1>5. TallyExact
    <2> SUFFICES ASSUME focus = "list", tb.reported
                 PROVE  /\ tb.done + tb.failed = Cardinality(tb.targets)
                        /\ tb.done <= Cardinality(tb.committed)
                        /\ Cardinality(tb.committed) - tb.done <= n
      BY DEF TallyExact
    <2> DEFINE ra == wire[Lane("a")]  rb == wire[Lane("b")]  rm == wire[Lane("more")]
    <2>1. TallyOK(tb, ra, rb, rm, n)
      BY <1>2 DEF TallyOn
    <2> HIDE DEF ra, rb, rm, n, tb
    <2>2. /\ pending(ra) = 0 /\ pending(rb) = 0 /\ pending(rm) = 0
          /\ won(ra) = 0 /\ won(rb) = 0 /\ won(rm) = 0
      BY <2>1 DEF TallyOK, pending, won
    <2>3. Cardinality(tb.committed) \in Nat
      BY <2>1, FS_CardinalityType DEF TallyOK
    <2> HIDE DEF pending, won
    <2> QED
      BY <2>1, <2>2, <2>3 DEF TallyOK
  <1>6. PagerReturns
    <2> DEFINE path == Append(tb.stack, tb.cursor)
               at(i) == IF path[i] = Null THEN Len(db.licenses) + 1 ELSE path[i]
    <2> SUFFICES ASSUME ~tb.wentBack
                 PROVE  path[1] = Null /\ \A i \in 1..Len(path) - 1 : at(i) >= at(i + 1)
      BY DEF PagerReturns, cursorsInOrder
    <2>1. CASE focus = "list"
      <3>1. Len(db.licenses) = 3
        <4>1. Len(db.licenses) \in Nat /\ 1..Len(db.licenses) = 1..3
          <5>1. Table(db.licenses, LicenseColumns)
            BY DEF ConsoleInv, DbOK
          <5> QED
            BY <1>2, <2>1, <5>1, TableDomain
        <4> DEFINE k == Len(db.licenses)
        <4> HIDE DEF k
        <4>2. k \in Nat /\ 1..k = 1..3
          BY <4>1 DEF k
        <4>3. 3 \in 1..k /\ 4 \notin 1..k
          BY <4>2
        <4>4. k = 3
          BY <4>2, <4>3
        <4> QED
          BY <4>4 DEF k
      <3>2. InOrder(path)
        BY <1>2, <2>1 DEF PagerOK
      <3> HIDE DEF path
      <3>3. \A i : at(i) = place(path[i])
        BY <3>1 DEF place
      <3> HIDE DEF at
      <3> QED
        BY <3>2, <3>3 DEF InOrder
    <2>2. CASE focus # "list"
      <3>1. tb.stack = <<>> /\ tb.cursor = Null
        BY <1>3, <2>2
      <3> HIDE DEF tb
      <3>2. path = <<Null>>
        BY <3>1
      <3>3. path[1] = Null /\ Len(path) = 1
        BY <3>2
      <3> HIDE DEF path, at
      <3> QED
        BY <3>3
    <2> QED
      BY <2>1, <2>2
  <1> QED
    BY <1>4, <1>5, <1>6 DEF ListExact

\* A bulk action reaches only licenses ticked on the rows that are shown, as long
\* as no answer has been lost since the selection could outlive its table; its
\* report counts every target once and a success only when it was written,
\* and the way back leads through the pages to the first one, whatever is
\* clicked, lost and answered in whatever order (licenses/index.vue,
\* DataTable.vue and BulkActionsMenu.vue of admin/).
THEOREM ListIsExact == ConsoleSpec => []ListExact
  <1>1. ConsoleInit => ListInv
    BY ListInitInv
  <1>2. ConsoleInv /\ ListInv /\ [ConsoleNext]_consoleVars => ListInv'
    BY ListNextInv
  <1>3. ConsoleInv /\ ListInv => ListExact
    BY ListFollows
  <1> QED
    BY <1>1, <1>2, <1>3, ConsoleInvariant, PTL DEF ConsoleSpec
=============================================================================
