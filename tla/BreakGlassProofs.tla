---------------------------- MODULE BreakGlassProofs ----------------------------
(***************************************************************************)
(* Proofs of the properties of BreakGlass.  A token that is not live never *)
(* is again, since a new one has a later generation; so a request that     *)
(* finds its token live began when it was.  A request remembers whether    *)
(* its target was allowed since it began, which the two checks make so     *)
(* before a grant.  A notice is about to be sent, or was, for each time    *)
(* the process remembers, and what it remembers is the latest.             *)
(***************************************************************************)
EXTENDS BreakGlass, TLAPS

\* A token that was made: of a card that exists, and not of a later generation.
KnownIn(cs, c, g) == cs[c].status # "absent" /\ g <= cs[c].gen

Numbered(cs) == \A c \in Card : cs[c].status # "absent" => cs[c].gen > 0

TokensInv ==
    /\ Numbered(cards)
    /\ making.card # None => cards[making.card].status = "absent"
    /\ \A code \in printed : KnownIn(cards, code.card, code.gen)
    /\ \A b \in Browser : offer[b].card # None => KnownIn(cards, offer[b].card, offer[b].gen)

\* An offer that was answered is gone.
OffersInv == \A b \in Browser : offer[b].answered => offer[b].card = None

\* A request, with the cards, the groups refused and the clock.
ReqOK(r, cs, rs, n) ==
    r.pc # "idle" =>
        /\ r.card \in Card /\ KnownIn(cs, r.card, r.gen)
        /\ r.at <= n /\ n <= r.at + MaxLate
        /\ cs[r.card].status = "active" /\ cs[r.card].gen = r.gen => r.live
        /\ cs[r.card].group \notin rs => r.open
        /\ ~r.spent
        /\ r.pc \in {"screen", "session", "check", "audit", "issue"} => r.live /\ r.found = r.gen
        /\ r.pc \in {"audit", "issue"} => r.open
        /\ r.pc = "issue" => r.row

RequestsInv == \A q \in Request : ReqOK(req[q], cards, RefusedTargets, now)

GrantsInv == \A g \in grants : g.same /\ g.live /\ g.open /\ ~g.spent /\ g.row

\* A notice of a card, sent or about to be.
Announced(ts, rs, c, t) == t \in ts[c] \/ \E q \in Request : rs[q].pc = "tell" /\ rs[q].card = c /\ rs[q].at = t

\* What the process remembers is the latest of the notices, which keep apart.
NoticesInv ==
    \A c \in Card :
        /\ \A l \in last[c] : l <= now /\ Announced(told, req, c, l)
        /\ \A t \in Time : Announced(told, req, c, t) => \E l \in last[c] : t <= l
        /\ \A t, u \in Time : Announced(told, req, c, t) /\ Announced(told, req, c, u) /\ t # u => ~Within(t, u)
        /\ \A t \in refusedAt[c] : \E u \in Time : Announced(told, req, c, u) /\ Within(t, u)

\* The inductive invariant.
BreakGlassInv == TypeOK /\ TokensInv /\ OffersInv /\ RequestsInv /\ GrantsInv /\ NoticesInv

-----------------------------------------------------------------------------

\* The numbers.
LEMMA NumbersAre ==
    ASSUME BreakGlassAssumption, TypeOK
    PROVE  /\ now \in Nat /\ now <= MaxTime /\ now \in Time /\ MaxTime \in Nat /\ MaxLate \in Nat /\ Hour \in Nat
           /\ MaxLate < Hour /\ 0 < Hour /\ MaxGen \in Nat /\ OfferTTL \in Nat /\ MaxRestarts \in Nat
  <1>1. {Hour, OfferTTL, MaxGen, MaxTime, MaxLate, MaxRestarts} \subseteq Nat /\ 0 < MaxLate /\ MaxLate < Hour
    BY DEF BreakGlassAssumption
  <1>2. now \in Time
    BY DEF TypeOK
  <1> QED BY <1>1, <1>2 DEF Time

\* A request that goes on.
LEMMA AtIs ==
    ASSUME NEW r \in Req, NEW pc \in PC
    PROVE  /\ At(r, pc) \in Req /\ At(r, pc).pc = pc
           /\ At(r, pc).by = r.by /\ At(r, pc).tap = r.tap /\ At(r, pc).at = r.at /\ At(r, pc).card = r.card
           /\ At(r, pc).gen = r.gen /\ At(r, pc).session = r.session /\ At(r, pc).spent = r.spent
           /\ At(r, pc).found = r.found /\ At(r, pc).live = r.live /\ At(r, pc).open = r.open /\ At(r, pc).row = r.row
  BY DEF At, Req

\* What a request is when it is over.
LEMMA IdleIs == ASSUME BreakGlassAssumption PROVE Idle \in Req /\ Idle.pc = "idle"
  <1>1. (CHOOSE b \in Browser : TRUE) \in Browser
    BY DEF BreakGlassAssumption
  <1>2. 0 \in Time /\ 0 \in 0..MaxGen
    BY DEF BreakGlassAssumption, Time
  <1> QED BY <1>1, <1>2 DEF Idle, Req, PC, Session

\* A step that moves a card on: a card that exists stays, with its group, and a
\* token that is not live is not brought back.
CardsMoveOn(cs, ds) ==
    \A c \in Card : cs[c].status # "absent" =>
        /\ ds[c].status # "absent" /\ ds[c].group = cs[c].group
        /\ \/ ds[c].gen > cs[c].gen
           \/ ds[c].gen = cs[c].gen /\ (ds[c].status = "active" => cs[c].status = "active")

\* A token is known for good.
LEMMA KnownStays ==
    ASSUME NEW cs \in [Card -> CardRow], NEW ds \in [Card -> CardRow], CardsMoveOn(cs, ds),
           NEW c \in Card, NEW g \in Nat, BreakGlassAssumption, KnownIn(cs, c, g)
    PROVE  KnownIn(ds, c, g)
  <1>1. cs[c].gen \in Nat /\ ds[c].gen \in Nat
    BY DEF CardRow, BreakGlassAssumption
  <1> QED BY <1>1 DEF CardsMoveOn, KnownIn

\* A request is as good when cards move on.
LEMMA ReqCards ==
    ASSUME NEW cs \in [Card -> CardRow], NEW ds \in [Card -> CardRow], CardsMoveOn(cs, ds),
           NEW r \in Req, NEW rs, NEW n, BreakGlassAssumption, ReqOK(r, cs, rs, n)
    PROVE  ReqOK(r, ds, rs, n)
  <1>1. SUFFICES ASSUME r.pc # "idle" PROVE ReqOK(r, ds, rs, n)
    BY DEF ReqOK
  <1>2. r.card \in Card /\ KnownIn(cs, r.card, r.gen) /\ r.gen \in Nat
    BY <1>1 DEF ReqOK, Req, BreakGlassAssumption
  <1>3. KnownIn(ds, r.card, r.gen)
    BY <1>2, KnownStays
  <1>4. cs[r.card].gen \in Nat /\ ds[r.card].gen \in Nat
    BY <1>2 DEF CardRow, BreakGlassAssumption
  <1>5. ds[r.card].status = "active" /\ ds[r.card].gen = r.gen => cs[r.card].status = "active" /\ cs[r.card].gen = r.gen
    BY <1>2, <1>4 DEF CardsMoveOn, KnownIn
  <1>6. ds[r.card].group = cs[r.card].group
    BY <1>2 DEF CardsMoveOn, KnownIn
  <1> QED BY <1>1, <1>2, <1>3, <1>5, <1>6 DEF ReqOK

\* Notices are kept by a step that sends none.
LEMMA NoticesKept ==
    ASSUME BreakGlassAssumption, TypeOK, NoticesInv, UNCHANGED <<last, told, refusedAt>>, now <= now', now' \in Nat,
           \A q \in Request : req[q].pc = "tell" <=> req'[q].pc = "tell",
           \A q \in Request : req[q].pc = "tell" => req'[q].card = req[q].card /\ req'[q].at = req[q].at
    PROVE  NoticesInv'
  <1>1. \A c \in Card : \A t : Announced(told', req', c, t) <=> Announced(told, req, c, t)
    BY DEF Announced
  <1>2. \A c \in Card : \A l \in last[c] : l \in Nat /\ (l <= now => l <= now')
    <2>1. \A c \in Card : last[c] \subseteq Time
      BY DEF TypeOK
    <2>2. now \in Nat /\ Time \subseteq Nat
      BY NumbersAre DEF Time
    <2>3. ASSUME NEW c \in Card, NEW l \in last[c] PROVE l \in Nat /\ (l <= now => l <= now')
      <3>1. l \in Nat
        BY <2>1, <2>2
      <3> QED BY <2>2, <3>1
    <2> QED BY <2>3
  <1> QED BY <1>1, <1>2 DEF NoticesInv

\* Cards that stay as they are.
LEMMA CardsStay == ASSUME UNCHANGED cards PROVE CardsMoveOn(cards, cards')
  BY DEF CardsMoveOn

\* Tokens are known after a step that moves cards on.
LEMMA TokensKept ==
    ASSUME BreakGlassAssumption, TypeOK, TypeOK', TokensInv, CardsMoveOn(cards, cards'),
           Numbered(cards'), making'.card # None => cards'[making'.card].status = "absent",
           \A code \in printed' : code \in printed \/ KnownIn(cards', code.card, code.gen),
           \A b \in Browser : \/ offer'[b].card = None
                              \/ offer'[b].card = offer[b].card /\ offer'[b].gen = offer[b].gen
                              \/ KnownIn(cards', offer'[b].card, offer'[b].gen)
    PROVE  TokensInv'
  <1>1. cards \in [Card -> CardRow] /\ cards' \in [Card -> CardRow] /\ printed \subseteq Code /\ offer \in [Browser -> Offer]
    BY DEF TypeOK
  <1>2. ASSUME NEW code \in printed PROVE KnownIn(cards', code.card, code.gen)
    <2>1. code.card \in Card /\ code.gen \in Nat /\ KnownIn(cards, code.card, code.gen)
      BY <1>1 DEF Code, TokensInv, BreakGlassAssumption
    <2> QED BY <1>1, <2>1, KnownStays
  <1>3. ASSUME NEW b \in Browser, offer[b].card # None PROVE KnownIn(cards', offer[b].card, offer[b].gen)
    <2>1. offer[b].card \in Card /\ offer[b].gen \in Nat /\ KnownIn(cards, offer[b].card, offer[b].gen)
      BY <1>1, <1>3 DEF Offer, TokensInv, BreakGlassAssumption
    <2> QED BY <1>1, <2>1, KnownStays
  <1> QED BY <1>2, <1>3 DEF TokensInv

\* A step that grants nothing, tells nothing and refuses no target.
LEMMA InvQuiet ==
    ASSUME BreakGlassAssumption, BreakGlassInv, TypeOK', TokensInv', OffersInv', RequestsInv',
           UNCHANGED <<now, last, grants, told, refusedAt>>,
           \A q \in Request : req[q].pc = "tell" <=> req'[q].pc = "tell",
           \A q \in Request : req[q].pc = "tell" => req'[q].card = req[q].card /\ req'[q].at = req[q].at
    PROVE  BreakGlassInv'
  <1>1. TypeOK /\ NoticesInv /\ GrantsInv
    BY DEF BreakGlassInv
  <1>2. now <= now' /\ now' \in Nat
    BY <1>1, NumbersAre
  <1>3. NoticesInv'
    BY <1>1, <1>2, NoticesKept
  <1>4. GrantsInv'
    BY <1>1 DEF GrantsInv
  <1> QED BY <1>3, <1>4 DEF BreakGlassInv

\* A step of the administrators.
LEMMA InvCards ==
    ASSUME BreakGlassAssumption, BreakGlassInv, CardsMoveOn(cards, cards'),
           cards' \in [Card -> CardRow], making' \in [card : Card \cup {None}, group : Group], printed' \subseteq Code,
           printed \subseteq printed',
           UNCHANGED <<now, routes, last, browsers, req, history>>,
           Numbered(cards'), making'.card # None => cards'[making'.card].status = "absent",
           \A code \in printed' : code \in printed \/ KnownIn(cards', code.card, code.gen)
    PROVE  BreakGlassInv'
  <1>1. TypeOK /\ TokensInv /\ OffersInv /\ RequestsInv
    BY DEF BreakGlassInv
  <1>2. UNCHANGED <<pages, session, offer, page, restarts, grants, told, refusedAt>>
    BY DEF browsers, history
  <1>3. TypeOK'
    BY <1>1, <1>2 DEF TypeOK
  <1>4. TokensInv'
    BY <1>1, <1>2, <1>3, TokensKept
  <1>5. OffersInv'
    BY <1>1, <1>2 DEF OffersInv
  <1>6. RequestsInv'
    <2>1. ASSUME NEW q \in Request PROVE ReqOK(req'[q], cards', RefusedTargets', now')
      <3>1. /\ cards \in [Card -> CardRow] /\ req[q] \in Req /\ ReqOK(req[q], cards, RefusedTargets, now)
            /\ RefusedTargets' = RefusedTargets
        BY <1>1 DEF TypeOK, RequestsInv, RefusedTargets
      <3>2. ReqOK(req[q], cards', RefusedTargets, now)
        BY <3>1, ReqCards
      <3> QED BY <3>1, <3>2
    <2> QED BY <2>1 DEF RequestsInv
  <1> QED BY <1>2, <1>3, <1>4, <1>5, <1>6, InvQuiet

\* Cards are made, revoked, re-minted and printed.
LEMMA InvAdmin ==
    ASSUME BreakGlassAssumption, BreakGlassInv,
           \/ \E c \in Card, g \in Group : CreateCheck(c, g)
           \/ CreateInsert
           \/ \E c \in Card : Revoke(c) \/ Remint(c) \/ CodeImage(c)
    PROVE  BreakGlassInv'
  <1>1. /\ TypeOK /\ TokensInv /\ cards \in [Card -> CardRow] /\ printed \subseteq Code
        /\ making \in [card : Card \cup {None}, group : Group] /\ MaxGen \in Nat /\ 0 < MaxGen
        /\ Numbered(cards)
    BY NumbersAre DEF BreakGlassInv, TypeOK, TokensInv, BreakGlassAssumption
  <1>2. ASSUME NEW c \in Card, NEW g \in Group, CreateCheck(c, g) PROVE BreakGlassInv'
    <2>1. /\ UNCHANGED <<now, cards, routes, printed, last, browsers, req, history>>
          /\ making' = [card |-> c, group |-> g] /\ cards[c].status = "absent"
      BY <1>2 DEF CreateCheck
    <2> QED BY <1>1, <2>1, CardsStay, InvCards
  <1>3. CASE CreateInsert
    <2> DEFINE c == making.card
    <2>1. /\ UNCHANGED <<now, routes, printed, last, browsers, req, history>>
          /\ c \in Card /\ cards[c].status = "absent" /\ making' = [making EXCEPT !.card = None]
          /\ \/ cards' = [cards EXCEPT ![c] = [gen |-> 1, status |-> "active", group |-> making.group]]
             \/ UNCHANGED cards
      BY <1>1, <1>3 DEF CreateInsert, TokensInv
    <2>2. making' \in [card : Card \cup {None}, group : Group] /\ making'.card = None /\ making.group \in Group
      BY <1>1, <2>1
    <2>3. CASE UNCHANGED cards
      BY <1>1, <2>1, <2>2, <2>3, CardsStay, InvCards
    <2>4. CASE cards' = [cards EXCEPT ![c] = [gen |-> 1, status |-> "active", group |-> making.group]]
      <3>1. cards' \in [Card -> CardRow]
        BY <1>1, <2>1, <2>2, <2>4 DEF CardRow
      <3>2. CardsMoveOn(cards, cards')
        BY <1>1, <2>1, <2>4 DEF CardsMoveOn
      <3>3. Numbered(cards')
        BY <1>1, <2>1, <2>4 DEF Numbered
      <3> QED BY <1>1, <2>1, <2>2, <3>1, <3>2, <3>3, InvCards
    <2> QED BY <2>1, <2>3, <2>4
  <1>4. ASSUME NEW c \in Card, Revoke(c) PROVE BreakGlassInv'
    <2>1. /\ UNCHANGED <<now, routes, making, printed, last, browsers, req, history>>
          /\ cards[c].status = "active" /\ cards' = [cards EXCEPT ![c].status = "revoked"]
      BY <1>4 DEF Revoke, RevokeBreakGlassCode
    <2>2. cards' \in [Card -> CardRow] /\ CardsMoveOn(cards, cards') /\ Numbered(cards')
      BY <1>1, <2>1 DEF CardRow, CardsMoveOn, Numbered
    <2>3. making'.card # None => cards'[making'.card].status = "absent"
      BY <1>1, <2>1 DEF TokensInv
    <2> QED BY <1>1, <2>1, <2>2, <2>3, InvCards
  <1>5. ASSUME NEW c \in Card, Remint(c) PROVE BreakGlassInv'
    <2>1. /\ UNCHANGED <<now, routes, making, printed, last, browsers, req, history>>
          /\ cards[c].status # "absent" /\ cards[c].gen < MaxGen
          /\ cards' = [cards EXCEPT ![c] = [gen |-> @.gen + 1, status |-> "active", group |-> @.group]]
      BY <1>5 DEF Remint, RemintBreakGlassCode
    <2>2. cards[c].gen \in Nat /\ cards[c].gen + 1 \in 0..MaxGen /\ cards[c].gen + 1 > cards[c].gen /\ cards[c].group \in Group
      BY <1>1, <2>1 DEF CardRow
    <2>3. cards' \in [Card -> CardRow] /\ CardsMoveOn(cards, cards') /\ Numbered(cards')
      BY <1>1, <2>1, <2>2 DEF CardRow, CardsMoveOn, Numbered
    <2>4. making'.card # None => cards'[making'.card].status = "absent"
      BY <1>1, <2>1 DEF TokensInv
    <2> QED BY <1>1, <2>1, <2>3, <2>4, InvCards
  <1>6. ASSUME NEW c \in Card, CodeImage(c) PROVE BreakGlassInv'
    <2>1. /\ UNCHANGED <<now, cards, routes, making, last, browsers, req, history>>
          /\ cards[c].status = "active" /\ printed' = printed \cup {[card |-> c, gen |-> cards[c].gen]}
      BY <1>6 DEF CodeImage
    <2>2. cards[c].gen \in 1..MaxGen
      BY <1>1, <2>1 DEF CardRow, Numbered
    <2>3. making'.card # None => cards'[making'.card].status = "absent"
      BY <1>1, <2>1 DEF TokensInv
    <2>4. printed' \subseteq Code /\ printed \subseteq printed'
      BY <1>1, <2>1, <2>2 DEF Code
    <2>5. \A code \in printed' : code \in printed \/ KnownIn(cards', code.card, code.gen)
      BY <1>1, <2>1, <2>2 DEF KnownIn
    <2>6. making' \in [card : Card \cup {None}, group : Group] /\ cards' = cards
      BY <1>1, <2>1
    <2> QED BY <1>1, <2>1, <2>3, <2>4, <2>5, <2>6, CardsStay, InvCards
  <1> QED BY <1>2, <1>3, <1>4, <1>5, <1>6

\* A step of the person at the browser that sends no request.
LEMMA InvBrowser ==
    ASSUME BreakGlassAssumption, BreakGlassInv,
           \/ \E code \in Code : HandleBreakGlassScan(code)
           \/ \E b \in Browser : (\E to \in Session : ChangeSession(b, to)) \/ HandleDenied(b)
    PROVE  BreakGlassInv'
  <1>1. TypeOK /\ TokensInv /\ OffersInv /\ RequestsInv
    BY DEF BreakGlassInv
  <1>2. UNCHANGED <<now, server, offer, req, history>>
    BY DEF HandleBreakGlassScan, ChangeSession, HandleDenied
  <1>3. UNCHANGED <<now, cards, routes, making, printed, last, offer, req, restarts, grants, told, refusedAt>>
    BY <1>2 DEF server, history
  <1>4. pages' \subseteq printed /\ session' \in [Browser -> Session] /\ page' \in [Browser -> BOOLEAN]
    <2>1. pages \subseteq printed /\ session \in [Browser -> Session] /\ page \in [Browser -> BOOLEAN]
      BY <1>1 DEF TypeOK
    <2>2. ASSUME NEW code \in Code, HandleBreakGlassScan(code) PROVE <1>4!:
      BY <2>1, <2>2 DEF HandleBreakGlassScan
    <2>3. ASSUME NEW b \in Browser, NEW to \in Session, ChangeSession(b, to) PROVE <1>4!:
      BY <2>1, <2>3 DEF ChangeSession
    <2>4. ASSUME NEW b \in Browser, HandleDenied(b) PROVE <1>4!:
      BY <2>1, <2>4 DEF HandleDenied, EnsureCSRF
    <2> QED BY <2>2, <2>3, <2>4
  <1>5. TypeOK'
    BY <1>1, <1>3, <1>4 DEF TypeOK
  <1>6. TokensInv' /\ OffersInv' /\ RequestsInv'
    BY <1>1, <1>3 DEF TokensInv, OffersInv, RequestsInv, RefusedTargets
  <1> QED BY <1>3, <1>5, <1>6, InvQuiet

\* A step that changes what requests remember of routes and sessions.
LEMMA InvRemember ==
    ASSUME BreakGlassAssumption, BreakGlassInv,
           routes' \subseteq Group, session' \in [Browser -> Session], req' \in [Request -> Req],
           UNCHANGED <<now, cards, making, printed, last, pages, offer, page, history>>,
           RequestsInv',
           \A q \in Request : req'[q].pc = req[q].pc /\ req'[q].card = req[q].card /\ req'[q].at = req[q].at
    PROVE  BreakGlassInv'
  <1>1. TypeOK /\ TokensInv /\ OffersInv
    BY DEF BreakGlassInv
  <1>2. UNCHANGED <<restarts, grants, told, refusedAt>>
    BY DEF history
  <1>3. TypeOK'
    BY <1>1, <1>2 DEF TypeOK
  <1>4. TokensInv' /\ OffersInv'
    BY <1>1 DEF TokensInv, OffersInv
  <1> QED BY <1>2, <1>3, <1>4, InvQuiet

\* The route files change.
LEMMA InvRoutes ==
    ASSUME BreakGlassAssumption, BreakGlassInv, NEW to \in SUBSET Group, RoutesChange(to)
    PROVE  BreakGlassInv'
  <1> DEFINE opened(r) == [r EXCEPT !.open = @ \/ cards[r.card].group \notin to \cup FeedGroup]
  <1>1. /\ routes' = to /\ UNCHANGED <<now, cards, making, printed, last, browsers, history>>
        /\ req' = [q \in Request |-> IF req[q].pc = "idle" THEN req[q] ELSE opened(req[q])]
    BY DEF RoutesChange
  <1>2. UNCHANGED <<pages, session, offer, page>> /\ session \in [Browser -> Session] /\ req \in [Request -> Req]
    BY <1>1 DEF browsers, BreakGlassInv, TypeOK
  <1>3. ASSUME NEW r \in Req
        PROVE  /\ opened(r) \in Req /\ opened(r).pc = r.pc /\ opened(r).card = r.card /\ opened(r).at = r.at
               /\ opened(r).gen = r.gen /\ opened(r).spent = r.spent /\ opened(r).found = r.found
               /\ opened(r).live = r.live /\ opened(r).row = r.row
               /\ r.open => opened(r).open
               /\ cards[r.card].group \notin to \cup FeedGroup => opened(r).open
    <2> DEFINE w == r.open \/ cards[r.card].group \notin to \cup FeedGroup
    <2>1. w \in BOOLEAN /\ (r.open => w) /\ (cards[r.card].group \notin to \cup FeedGroup => w)
      BY Zenon
    <2>2. opened(r) = [r EXCEPT !.open = w]
      BY Zenon
    <2> HIDE DEF w, opened
    <2> QED BY <1>3, <2>1, <2>2 DEF Req
  <1>4. ASSUME NEW q \in Request
        PROVE  /\ req'[q] \in Req /\ req'[q].pc = req[q].pc /\ req'[q].card = req[q].card /\ req'[q].at = req[q].at
               /\ ReqOK(req'[q], cards', RefusedTargets', now')
    <2>1. req[q] \in Req /\ ReqOK(req[q], cards, RefusedTargets, now) /\ RefusedTargets' = to \cup FeedGroup
      BY <1>1, <1>2 DEF BreakGlassInv, RequestsInv, RefusedTargets
    <2>2. CASE req[q].pc = "idle"
      BY <1>1, <2>1, <2>2 DEF ReqOK
    <2>3. CASE req[q].pc # "idle"
      <3>1. req'[q] = opened(req[q])
        BY <1>1, <2>3
      <3> HIDE DEF opened
      <3>2. ReqOK(req'[q], cards, to \cup FeedGroup, now)
        BY <1>3, <2>1, <2>3, <3>1 DEF ReqOK
      <3> QED BY <1>1, <1>3, <2>1, <3>1, <3>2
    <2> QED BY <2>2, <2>3
  <1>5. req' \in [Request -> Req] /\ RequestsInv'
    BY <1>1, <1>4 DEF RequestsInv
  <1> QED BY <1>1, <1>2, <1>4, <1>5, InvRemember

\* The person's sessions end.
LEMMA InvEndSessions ==
    ASSUME BreakGlassAssumption, BreakGlassInv, NEW b \in Browser, EndSessions(b)
    PROVE  BreakGlassInv'
  <1> DEFINE over(r) == [r EXCEPT !.session = "ended"]
  <1>1. /\ session' = [session EXCEPT ![b] = "ended"]
        /\ req' = [q \in Request |-> IF req[q].pc # "idle" /\ req[q].by = b /\ req[q].session = "normal"
                                     THEN over(req[q]) ELSE req[q]]
        /\ UNCHANGED <<now, server, pages, offer, page, history>>
    BY DEF EndSessions
  <1>2. /\ UNCHANGED <<cards, routes, making, printed, last>> /\ req \in [Request -> Req]
        /\ session' \in [Browser -> Session] /\ routes' \subseteq Group
    BY <1>1 DEF server, BreakGlassInv, TypeOK, Session
  <1>3. ASSUME NEW r \in Req
        PROVE  /\ over(r) \in Req /\ over(r).pc = r.pc /\ over(r).card = r.card /\ over(r).at = r.at
               /\ over(r).gen = r.gen /\ over(r).spent = r.spent /\ over(r).found = r.found
               /\ over(r).live = r.live /\ over(r).row = r.row /\ over(r).open = r.open
    BY <1>3 DEF Req, Session
  <1>4. ASSUME NEW q \in Request
        PROVE  /\ req'[q] \in Req /\ req'[q].pc = req[q].pc /\ req'[q].card = req[q].card /\ req'[q].at = req[q].at
               /\ ReqOK(req'[q], cards', RefusedTargets', now')
    <2>1. req[q] \in Req /\ ReqOK(req[q], cards, RefusedTargets, now) /\ RefusedTargets' = RefusedTargets
      BY <1>2 DEF BreakGlassInv, RequestsInv, RefusedTargets
    <2>2. req'[q] = req[q] \/ req'[q] = over(req[q])
      BY <1>1
    <2> HIDE DEF over
    <2>3. ReqOK(req'[q], cards, RefusedTargets, now)
      BY <1>3, <2>1, <2>2 DEF ReqOK
    <2> QED BY <1>1, <1>2, <1>3, <2>1, <2>2, <2>3
  <1>5. req' \in [Request -> Req] /\ RequestsInv'
    BY <1>1, <1>4 DEF RequestsInv
  <1> QED BY <1>1, <1>2, <1>4, <1>5, InvRemember

-----------------------------------------------------------------------------

\* A step of one request, with what it leaves of offers, grants and notices.
LEMMA InvRequest ==
    ASSUME BreakGlassAssumption, BreakGlassInv, NEW q \in Request, NEW r \in Req, req' = [req EXCEPT ![q] = r],
           ReqOK(r, cards, RefusedTargets, now),
           UNCHANGED <<now, cards, routes, making, printed, pages, page, restarts>>,
           session' \in [Browser -> Session], offer' \in [Browser -> Offer],
           \A b \in Browser : \/ offer'[b] = offer[b]
                              \/ offer'[b].card = None
                              \/ ~offer'[b].answered /\ KnownIn(cards, offer'[b].card, offer'[b].gen),
           last' \in [Card -> SUBSET Time], told' \in [Card -> SUBSET Time], refusedAt' \in [Card -> SUBSET Time],
           grants' \subseteq Grant, GrantsInv', NoticesInv'
    PROVE  BreakGlassInv'
  <1>1. TypeOK /\ TokensInv /\ OffersInv /\ RequestsInv
    BY DEF BreakGlassInv
  <1>2. req \in [Request -> Req] /\ req' \in [Request -> Req]
    BY <1>1 DEF TypeOK
  <1>3. TypeOK'
    BY <1>1, <1>2 DEF TypeOK
  <1>4. TokensInv'
    <2>1. Numbered(cards') /\ (making'.card # None => cards'[making'.card].status = "absent")
      BY <1>1 DEF TokensInv
    <2>2. CardsMoveOn(cards, cards')
      BY CardsStay
    <2> QED BY <1>1, <1>3, <2>1, <2>2, TokensKept
  <1>5. OffersInv'
    BY <1>1 DEF OffersInv
  <1>6. RequestsInv'
    BY <1>1, <1>2 DEF RequestsInv, RefusedTargets
  <1> QED BY <1>3, <1>4, <1>5, <1>6 DEF BreakGlassInv

\* ... that grants and tells nothing.
LEMMA InvQuietRequest ==
    ASSUME BreakGlassAssumption, BreakGlassInv, NEW q \in Request, NEW r \in Req, req' = [req EXCEPT ![q] = r],
           ReqOK(r, cards, RefusedTargets, now), req[q].pc # "tell", r.pc # "tell",
           UNCHANGED <<now, server, pages, session, page, history>>, offer' \in [Browser -> Offer],
           \A b \in Browser : \/ offer'[b] = offer[b]
                              \/ offer'[b].card = None
                              \/ ~offer'[b].answered /\ KnownIn(cards, offer'[b].card, offer'[b].gen)
    PROVE  BreakGlassInv'
  <1>1. UNCHANGED <<cards, routes, making, printed, last, restarts, grants, told, refusedAt>>
    BY DEF server, history
  <1>2. /\ TypeOK /\ NoticesInv /\ GrantsInv /\ req \in [Request -> Req] /\ session \in [Browser -> Session]
        /\ last \in [Card -> SUBSET Time] /\ told \in [Card -> SUBSET Time] /\ refusedAt \in [Card -> SUBSET Time]
        /\ grants \subseteq Grant
    BY DEF BreakGlassInv, TypeOK
  <1>3. NoticesInv'
    <2>1. now <= now' /\ now' \in Nat
      BY <1>2, NumbersAre
    <2>2. \A p \in Request : req[p].pc = "tell" <=> req'[p].pc = "tell"
      BY <1>2
    <2>3. \A p \in Request : req[p].pc = "tell" => req'[p].card = req[p].card /\ req'[p].at = req[p].at
      BY <1>2
    <2> QED BY <1>1, <1>2, <2>1, <2>2, <2>3, NoticesKept
  <1>4. GrantsInv'
    BY <1>1, <1>2 DEF GrantsInv
  <1> QED BY <1>1, <1>2, <1>3, <1>4, InvRequest

\* An answer ends the request, and an activation takes its offer with it.
LEMMA AnswerIs ==
    ASSUME BreakGlassAssumption, TypeOK, NEW q \in Request, Answer(q)
    PROVE  /\ req' = [req EXCEPT ![q] = Idle] /\ offer' \in [Browser -> Offer]
           /\ \A b \in Browser : offer'[b] = offer[b] \/ offer'[b].card = None
           /\ \A rs, n : ReqOK(Idle, cards, rs, n)
  <1>1. req[q].by \in Browser /\ req[q].tap \in BOOLEAN /\ offer \in [Browser -> Offer] /\ NoOffer \in Offer
    <2>1. 0 \in 0..(MaxTime + OfferTTL) /\ 0 \in 0..MaxGen
      BY DEF BreakGlassAssumption
    <2> QED BY <2>1 DEF TypeOK, Req, NoOffer, Offer
  <1> DEFINE b == req[q].by
             w == offer[b].answered \/ req[q].tap
             o == [OfferAfter(q) EXCEPT !.answered = w]
  <1>2. req' = [req EXCEPT ![q] = Idle] /\ offer' = [offer EXCEPT ![b] = o]
    BY DEF Answer
  <1>3. o \in Offer /\ (o = offer[b] \/ o.card = None)
    <2>1. w \in BOOLEAN /\ (~req[q].tap => w = offer[b].answered)
      BY <1>1, Zenon DEF Offer
    <2>2. OfferAfter(q) = NoOffer \/ (OfferAfter(q) = offer[b] /\ ~req[q].tap)
      BY DEF OfferAfter
    <2> HIDE DEF w, b
    <2>3. \A x \in Offer : [x EXCEPT !.answered = w] \in Offer /\ [x EXCEPT !.answered = w].card = x.card
      BY <2>1 DEF Offer
    <2>4. \A x \in Offer : [x EXCEPT !.answered = x.answered] = x
      BY DEF Offer
    <2>5. CASE OfferAfter(q) = NoOffer
      BY <1>1, <2>3, <2>5 DEF NoOffer
    <2>6. CASE OfferAfter(q) = offer[b] /\ ~req[q].tap
      <3>1. offer[b] \in Offer
        BY <1>1 DEF b
      <3> QED BY <2>1, <2>4, <2>6, <3>1
    <2> QED BY <2>2, <2>5, <2>6
  <1>4. \A rs, n : ReqOK(Idle, cards, rs, n)
    BY IdleIs DEF ReqOK
  <1> HIDE DEF o
  <1> QED BY <1>1, <1>2, <1>3, <1>4

\* A request begins with a token that was made, and an offer that is not spent.
LEMMA InvBegin ==
    ASSUME BreakGlassAssumption, BreakGlassInv, NEW q \in Request, NEW b \in Browser, NEW tap \in BOOLEAN,
           NEW c \in Card, NEW g \in 0..MaxGen, NEW pc \in {"lookup", "tapSession"},
           Begin(q, b, tap, c, g, pc), KnownIn(cards, c, g), ~(tap /\ offer[b].answered),
           UNCHANGED <<now, server, browsers, history>>
    PROVE  BreakGlassInv'
  <1> DEFINE live == Live(c, g)
             open == cards[c].group \notin RefusedTargets
             r == [pc |-> pc, by |-> b, tap |-> tap, at |-> now, card |-> c, gen |-> g, session |-> session[b],
                   spent |-> FALSE, found |-> 0, live |-> live, open |-> open, row |-> FALSE]
  <1>1. (tap /\ offer[b].answered) = FALSE
    BY Zenon
  <1>2. req[q].pc = "idle" /\ req' = [req EXCEPT ![q] = r]
    BY <1>1 DEF Begin
  <1>3. live \in BOOLEAN /\ open \in BOOLEAN
    BY DEF Live
  <1>4. session[b] \in Session /\ offer \in [Browser -> Offer] /\ now \in Time /\ 0 \in 0..MaxGen
    BY NumbersAre DEF BreakGlassInv, TypeOK
  <1>5. UNCHANGED <<pages, session, page, offer>>
    BY DEF browsers
  <1>6. r \in Req /\ r.pc # "tell"
    <2> HIDE DEF live, open
    <2> QED BY <1>3, <1>4 DEF Req, PC
  <1>7. ReqOK(r, cards, RefusedTargets, now)
    <2>1. now <= now /\ now <= now + MaxLate
      BY NumbersAre DEF BreakGlassInv
    <2>2. (cards[c].status = "active" /\ cards[c].gen = g => live) /\ (cards[c].group \notin RefusedTargets => open)
      BY DEF Live
    <2> HIDE DEF live, open
    <2> QED BY <2>1, <2>2 DEF ReqOK
  <1> HIDE DEF r
  <1> QED BY <1>2, <1>4, <1>5, <1>6, <1>7, InvQuietRequest

\* A button is pressed.
LEMMA InvButtons ==
    ASSUME BreakGlassAssumption, BreakGlassInv, NEW q \in Request, NEW b \in Browser,
           HandleActivate(q, b) \/ \E code \in Code : HandleBreakGlass(q, b, code)
    PROVE  BreakGlassInv'
  <1>1. TokensInv /\ OffersInv /\ offer \in [Browser -> Offer] /\ pages \subseteq printed
    BY DEF BreakGlassInv, TypeOK
  <1>2. CASE HandleActivate(q, b)
    <2>1. /\ Begin(q, b, TRUE, offer[b].card, offer[b].gen, "tapSession") /\ offer[b].card # None
          /\ UNCHANGED <<now, server, browsers, history>>
      BY <1>2 DEF HandleActivate, Unexpired
    <2>2. offer[b].card \in Card /\ offer[b].gen \in 0..MaxGen
      BY <1>1, <2>1 DEF Offer
    <2>3. KnownIn(cards, offer[b].card, offer[b].gen) /\ ~offer[b].answered
      BY <1>1, <2>1 DEF TokensInv, OffersInv
    <2> QED BY <2>1, <2>2, <2>3, InvBegin
  <1>3. ASSUME NEW code \in Code, HandleBreakGlass(q, b, code) PROVE BreakGlassInv'
    <2>1. code \in printed /\ Begin(q, b, FALSE, code.card, code.gen, "lookup") /\ UNCHANGED <<now, server, browsers, history>>
      BY <1>1, <1>3 DEF HandleBreakGlass
    <2>2. code.card \in Card /\ code.gen \in 0..MaxGen
      BY DEF Code, BreakGlassAssumption
    <2>3. KnownIn(cards, code.card, code.gen)
      BY <1>1, <2>1 DEF TokensInv
    <2> QED BY <2>1, <2>2, <2>3, InvBegin
  <1> QED BY <1>2, <1>3

-----------------------------------------------------------------------------

\* A request that is answered, and leaves no grant or notice.
LEMMA InvAnswer ==
    ASSUME BreakGlassAssumption, BreakGlassInv, NEW q \in Request, Answer(q), req[q].pc # "tell",
           UNCHANGED <<now, server, pages, session, page, history>>
    PROVE  BreakGlassInv'
  <1>1. TypeOK
    BY DEF BreakGlassInv
  <1>2. Idle \in Req /\ Idle.pc # "tell"
    BY IdleIs
  <1> QED BY <1>1, <1>2, AnswerIs, InvQuietRequest

\* A request that goes on, unless to a notice.
LEMMA InvGoto ==
    ASSUME BreakGlassAssumption, BreakGlassInv, NEW q \in Request, NEW pc \in PC, req' = [req EXCEPT ![q] = At(@, pc)],
           pc # "tell", req[q].pc \notin {"tell", "idle"},
           pc \in {"screen", "session", "check", "audit", "issue"} => req[q].live /\ req[q].found = req[q].gen,
           pc \in {"audit", "issue"} => req[q].open,
           pc = "issue" => req[q].row,
           UNCHANGED <<now, server, pages, session, page, offer, history>>
    PROVE  BreakGlassInv'
  <1>1. req[q] \in Req /\ ReqOK(req[q], cards, RefusedTargets, now) /\ offer \in [Browser -> Offer]
    BY DEF BreakGlassInv, TypeOK, RequestsInv
  <1>2. At(req[q], pc) \in Req /\ At(req[q], pc).pc = pc
    BY <1>1, AtIs
  <1>3. ReqOK(At(req[q], pc), cards, RefusedTargets, now)
    BY <1>1, AtIs DEF ReqOK
  <1> QED BY <1>1, <1>2, <1>3, InvQuietRequest

\* A request that found a card.
LEMMA InvFinds ==
    ASSUME BreakGlassAssumption, BreakGlassInv, NEW q \in Request, NEW g \in 0..MaxGen, NEW pc \in {"screen", "check"},
           Finds(q, g, pc), req[q].pc \in {"lookup", "tapLookup"}, req[q].live, g = req[q].gen,
           UNCHANGED <<now, server, pages, session, page, history>>
    PROVE  BreakGlassInv'
  <1> DEFINE f == [req[q] EXCEPT !.found = g]
  <1>1. req[q] \in Req /\ ReqOK(req[q], cards, RefusedTargets, now) /\ offer \in [Browser -> Offer]
    BY DEF BreakGlassInv, TypeOK, RequestsInv
  <1>2. req' = [req EXCEPT ![q] = At(f, pc)] /\ UNCHANGED offer
    BY DEF Finds
  <1>3. /\ f \in Req /\ f.card = req[q].card /\ f.gen = req[q].gen /\ f.at = req[q].at /\ f.spent = req[q].spent
        /\ f.live = req[q].live /\ f.open = req[q].open /\ f.found = g
    BY <1>1 DEF Req
  <1>4. pc \in PC
    BY DEF PC
  <1> HIDE DEF f
  <1>5. At(f, pc) \in Req /\ At(f, pc).pc = pc
    BY <1>3, <1>4, AtIs
  <1>6. ReqOK(At(f, pc), cards, RefusedTargets, now)
    <2>1. ReqOK(f, cards, RefusedTargets, now) /\ f.pc \notin {"tell", "idle"} /\ f.live /\ f.found = f.gen
      <3>1. f.pc = req[q].pc
        BY <1>1 DEF f, Req
      <3> QED BY <1>1, <1>3, <3>1 DEF ReqOK
    <2>2. pc \notin {"audit", "issue"} /\ pc # "idle"
      OBVIOUS
    <2> QED BY <1>3, <1>4, <2>1, <2>2, AtIs DEF ReqOK
  <1> QED BY <1>1, <1>2, <1>5, <1>6, InvQuietRequest

\* The lookups of the card.
LEMMA InvLookups ==
    ASSUME BreakGlassAssumption, BreakGlassInv, NEW q \in Request, ActiveCard(q) \/ TapLookup(q)
    PROVE  BreakGlassInv'
  <1>1. req[q] \in Req /\ ReqOK(req[q], cards, RefusedTargets, now)
    BY DEF BreakGlassInv, TypeOK, RequestsInv
  <1>2. UNCHANGED <<now, server, pages, session, page, history>> /\ req[q].pc \in {"lookup", "tapLookup"}
    BY DEF ActiveCard, TapLookup
  <1>3. CASE Answer(q)
    BY <1>2, <1>3, InvAnswer
  <1>4. req[q].gen \in 0..MaxGen /\ (Live(req[q].card, req[q].gen) => req[q].live)
    BY <1>1, <1>2 DEF ReqOK, Live, Req
  <1>5. CASE Live(req[q].card, req[q].gen) /\ Finds(q, req[q].gen, "screen")
    BY <1>2, <1>4, <1>5, InvFinds
  <1>6. CASE OfferHolds(q) /\ Finds(q, cards[req[q].card].gen, "check")
    <2>1. Live(req[q].card, req[q].gen) /\ cards[req[q].card].gen = req[q].gen
      BY <1>6 DEF OfferHolds, Live
    <2> QED BY <1>2, <1>4, <1>6, <2>1, InvFinds
  <1> QED BY <1>3, <1>5, <1>6 DEF ActiveCard, TapLookup

\* The checks of the target, and the reads of the session.
LEMMA InvChecks ==
    ASSUME BreakGlassAssumption, BreakGlassInv, NEW q \in Request,
           RefuseRetargetedCard(q) \/ TapSession(q) \/ GrantCheck(q)
    PROVE  BreakGlassInv'
  <1>1. req[q] \in Req /\ ReqOK(req[q], cards, RefusedTargets, now)
    BY DEF BreakGlassInv, TypeOK, RequestsInv
  <1>2. UNCHANGED <<now, server, pages, session, page, history>>
    BY DEF RefuseRetargetedCard, TapSession, GrantCheck
  <1>3. {"due", "session", "tapLookup", "audit"} \subseteq PC
    BY DEF PC
  <1>4. CASE RefuseRetargetedCard(q)
    <2>1. PICK pc \in {"due", "session"} : Goto(q, pc) /\ req[q].pc = "screen"
      BY <1>4 DEF RefuseRetargetedCard
    <2>2. req[q].live /\ req[q].found = req[q].gen
      BY <1>1, <2>1 DEF ReqOK
    <2> QED BY <1>2, <1>3, <2>1, <2>2, InvGoto DEF Goto
  <1>5. CASE TapSession(q)
    <2>1. req[q].pc = "tapSession" /\ (Answer(q) \/ Goto(q, "tapLookup"))
      BY <1>5 DEF TapSession
    <2> QED BY <1>2, <1>3, <2>1, InvAnswer, InvGoto DEF Goto
  <1>6. CASE GrantCheck(q)
    <2>1. PICK pc \in {"due", "audit"} : Goto(q, pc) /\ req[q].pc = "check" /\ (pc = "audit" => ~TargetRefused(q))
      BY <1>6 DEF GrantCheck
    <2>2. req[q].live /\ req[q].found = req[q].gen /\ (pc = "audit" => req[q].open)
      BY <1>1, <2>1 DEF ReqOK, TargetRefused
    <2> QED BY <1>2, <1>3, <2>1, <2>2, InvGoto DEF Goto
  <1> QED BY <1>4, <1>5, <1>6

\* A normal session is kept, and the card offered.
LEMMA InvOffer ==
    ASSUME BreakGlassAssumption, BreakGlassInv, NEW q \in Request, ReadSession(q)
    PROVE  BreakGlassInv'
  <1> DEFINE o == [card |-> req[q].card, gen |-> req[q].found, until |-> req[q].at + OfferTTL, answered |-> FALSE]
  <1>1. req[q] \in Req /\ ReqOK(req[q], cards, RefusedTargets, now) /\ offer \in [Browser -> Offer]
    BY DEF BreakGlassInv, TypeOK, RequestsInv
  <1>2. UNCHANGED <<now, server, pages, session, page, history>> /\ req[q].pc = "session"
    BY DEF ReadSession
  <1>3. req[q].live /\ req[q].found = req[q].gen /\ req[q].card \in Card /\ KnownIn(cards, req[q].card, req[q].gen)
    BY <1>1, <1>2 DEF ReqOK
  <1>4. CASE req' = [req EXCEPT ![q] = Idle] /\ offer' = [offer EXCEPT ![req[q].by] = o]
    <2>1. req[q].at + OfferTTL \in 0..(MaxTime + OfferTTL) /\ req[q].found \in 0..MaxGen /\ req[q].by \in Browser
      <3>1. req[q].at \in 0..MaxTime /\ OfferTTL \in Nat /\ MaxTime \in Nat
        BY <1>1 DEF Req, Time, BreakGlassAssumption
      <3>2. req[q].found \in 0..MaxGen /\ req[q].by \in Browser
        BY <1>1 DEF Req
      <3> QED BY <3>1, <3>2
    <2>2. o \in Offer
      BY <1>3, <2>1 DEF Offer
    <2>3. ~o.answered /\ KnownIn(cards, o.card, o.gen)
      BY <1>3
    <2> HIDE DEF o
    <2>4. /\ offer' \in [Browser -> Offer]
          /\ \A b \in Browser :
               offer'[b] = offer[b] \/ (~offer'[b].answered /\ KnownIn(cards, offer'[b].card, offer'[b].gen))
      BY <1>1, <1>4, <2>1, <2>2, <2>3
    <2>5. Idle \in Req /\ Idle.pc = "idle" /\ ReqOK(Idle, cards, RefusedTargets, now)
      BY IdleIs DEF ReqOK
    <2> QED BY <1>2, <1>4, <2>4, <2>5, InvQuietRequest
  <1>5. CASE Goto(q, "check")
    <2>1. "check" \in PC
      BY DEF PC
    <2> QED BY <1>2, <1>3, <1>5, <2>1, InvGoto DEF Goto
  <1> QED BY <1>4, <1>5 DEF ReadSession

\* The audit row.
LEMMA InvAudit ==
    ASSUME BreakGlassAssumption, BreakGlassInv, NEW q \in Request, Audit(q)
    PROVE  BreakGlassInv'
  <1> DEFINE f == [req[q] EXCEPT !.row = TRUE]
  <1>1. req[q] \in Req /\ ReqOK(req[q], cards, RefusedTargets, now) /\ offer \in [Browser -> Offer]
    BY DEF BreakGlassInv, TypeOK, RequestsInv
  <1>2. UNCHANGED <<now, server, pages, session, page, history>> /\ req[q].pc = "audit"
    BY DEF Audit
  <1>3. CASE Answer(q)
    BY <1>2, <1>3, InvAnswer
  <1>4. CASE req' = RecordBreakGlassEvent(q) /\ UNCHANGED offer
    <2>1. req' = [req EXCEPT ![q] = At(f, "issue")]
      BY <1>4 DEF RecordBreakGlassEvent
    <2>2. /\ f \in Req /\ f.row /\ f.pc = "audit"
          /\ f.card = req[q].card /\ f.gen = req[q].gen /\ f.at = req[q].at /\ f.spent = req[q].spent
          /\ f.live = req[q].live /\ f.open = req[q].open /\ f.found = req[q].found
      BY <1>1, <1>2 DEF Req
    <2> HIDE DEF f
    <2>3. "issue" \in PC
      BY DEF PC
    <2>4. ReqOK(f, cards, RefusedTargets, now) /\ f.live /\ f.open /\ f.found = f.gen
      BY <1>1, <1>2, <2>2 DEF ReqOK
    <2>5. ReqOK(At(f, "issue"), cards, RefusedTargets, now) /\ At(f, "issue") \in Req /\ At(f, "issue").pc = "issue"
      BY <2>2, <2>3, <2>4, AtIs DEF ReqOK
    <2> QED BY <1>1, <1>2, <1>4, <2>1, <2>5, InvQuietRequest
  <1> QED BY <1>3, <1>4 DEF Audit

\* The grant.
LEMMA InvIssue ==
    ASSUME BreakGlassAssumption, BreakGlassInv, NEW q \in Request, IssueGrant(q)
    PROVE  BreakGlassInv'
  <1> DEFINE new == [same |-> req[q].found = req[q].gen, live |-> req[q].live, open |-> req[q].open,
                     spent |-> req[q].spent, row |-> req[q].row]
  <1>1. /\ req[q] \in Req /\ ReqOK(req[q], cards, RefusedTargets, now) /\ req \in [Request -> Req]
        /\ TypeOK /\ NoticesInv /\ GrantsInv
    BY DEF BreakGlassInv, TypeOK, RequestsInv
  <1>2. /\ req[q].pc = "issue" /\ grants' = grants \cup {new} /\ session' = [session EXCEPT ![req[q].by] = "other"]
        /\ Answer(q) /\ UNCHANGED <<now, server, pages, page, restarts, told, refusedAt>>
    BY DEF IssueGrant
  <1>3. req[q].found = req[q].gen /\ req[q].live /\ req[q].open /\ ~req[q].spent /\ req[q].row
    BY <1>1, <1>2 DEF ReqOK
  <1>4. new \in Grant /\ new.same /\ new.live /\ new.open /\ ~new.spent /\ new.row
    BY <1>1, <1>3 DEF Grant, Req
  <1> HIDE DEF new
  <1>5. GrantsInv' /\ grants' \subseteq Grant
    BY <1>1, <1>2, <1>4 DEF GrantsInv, TypeOK
  <1>6. UNCHANGED <<cards, routes, making, printed, last>>
    BY <1>2 DEF server
  <1>7. /\ last \in [Card -> SUBSET Time] /\ told \in [Card -> SUBSET Time] /\ refusedAt \in [Card -> SUBSET Time]
        /\ session' \in [Browser -> Session]
    BY <1>1, <1>2 DEF TypeOK, Session
  <1>8. req' = [req EXCEPT ![q] = Idle] /\ Idle \in Req /\ Idle.pc = "idle" /\ ReqOK(Idle, cards, RefusedTargets, now)
    BY <1>1, <1>2, AnswerIs, IdleIs
  <1>9. NoticesInv'
    <2>1. now <= now' /\ now' \in Nat
      BY <1>1, <1>2, NumbersAre
    <2>2. \A p \in Request : req[p].pc = "tell" <=> req'[p].pc = "tell"
      BY <1>1, <1>2, <1>8
    <2>3. \A p \in Request : req[p].pc = "tell" => req'[p].card = req[p].card /\ req'[p].at = req[p].at
      BY <1>1, <1>2, <1>8
    <2> QED BY <1>1, <1>2, <1>6, <2>1, <2>2, <2>3, NoticesKept
  <1> QED BY <1>1, <1>2, <1>5, <1>6, <1>7, <1>8, <1>9, AnswerIs, InvRequest

-----------------------------------------------------------------------------

\* A step that changes no grant, and gives the request it answers or sends on a
\* place in the notices.
LEMMA InvNotices ==
    ASSUME BreakGlassAssumption, BreakGlassInv, NEW q \in Request, NEW r \in Req, req' = [req EXCEPT ![q] = r],
           ReqOK(r, cards, RefusedTargets, now),
           UNCHANGED <<now, cards, routes, making, printed, pages, session, page, restarts, grants>>,
           offer' \in [Browser -> Offer], \A b \in Browser : offer'[b] = offer[b] \/ offer'[b].card = None,
           last' \in [Card -> SUBSET Time], told' \in [Card -> SUBSET Time], refusedAt' \in [Card -> SUBSET Time],
           NoticesInv'
    PROVE  BreakGlassInv'
  <1>1. session \in [Browser -> Session] /\ grants \subseteq Grant /\ GrantsInv
    BY DEF BreakGlassInv, TypeOK
  <1>2. GrantsInv'
    BY <1>1 DEF GrantsInv
  <1> QED BY <1>1, <1>2, InvRequest

\* A notice becomes due.
LEMMA InvDue ==
    ASSUME BreakGlassAssumption, BreakGlassInv, NEW q \in Request, req[q].pc = "due", Due(req[q].card, req[q].at),
           last' = [last EXCEPT ![req[q].card] = {req[q].at}], Goto(q, "tell"),
           UNCHANGED <<now, cards, routes, making, printed, pages, session, page, restarts, grants, told, refusedAt>>
    PROVE  BreakGlassInv'
  <1> DEFINE at == req[q].at
             k == req[q].card
             r == At(req[q], "tell")
  <1>1. /\ req[q] \in Req /\ ReqOK(req[q], cards, RefusedTargets, now) /\ req \in [Request -> Req] /\ TypeOK /\ NoticesInv
        /\ last \in [Card -> SUBSET Time] /\ told \in [Card -> SUBSET Time] /\ refusedAt \in [Card -> SUBSET Time]
        /\ offer \in [Browser -> Offer]
    BY DEF BreakGlassInv, TypeOK, RequestsInv
  <1>2. k \in Card /\ at \in Time /\ at <= now
    BY <1>1 DEF ReqOK, Req
  <1>3. Time \subseteq Nat /\ now \in Nat /\ Hour \in Nat /\ 0 < Hour
    BY <1>1, NumbersAre DEF Time
  <1>4. "tell" \in PC
    BY DEF PC
  <1>5. r \in Req /\ r.pc = "tell" /\ r.card = k /\ r.at = at /\ ReqOK(r, cards, RefusedTargets, now)
    BY <1>1, <1>4, AtIs DEF ReqOK
  <1>6. req' = [req EXCEPT ![q] = r] /\ UNCHANGED offer
    BY DEF Goto
  <1> HIDE DEF r, at, k
  <1>7. last' = [last EXCEPT ![k] = {at}] /\ \A l \in last[k] : at >= l + Hour
    BY DEF Due, k, at
  <1>8. last' \in [Card -> SUBSET Time]
    <2>1. {at} \in SUBSET Time
      BY <1>2
    <2>2. \A x \in SUBSET Time : [last EXCEPT ![k] = x] \in [Card -> SUBSET Time]
      BY <1>1
    <2> QED BY <1>7, <2>1, <2>2
  <1>9. \A c \in Card : \A t : Announced(told', req', c, t) <=> Announced(told, req, c, t) \/ (c = k /\ t = at)
    <2>1. req[q].pc # "tell" /\ req'[q] = r /\ \A p \in Request : p # q => req'[p] = req[p]
      BY <1>1, <1>6
    <2> QED BY <1>5, <2>1 DEF Announced
  <1>10. ASSUME NEW c \in Card
         PROVE  /\ \A l \in last'[c] : l <= now' /\ Announced(told', req', c, l)
                /\ \A t \in Time : Announced(told', req', c, t) => \E l \in last'[c] : t <= l
                /\ \A t, u \in Time : Announced(told', req', c, t) /\ Announced(told', req', c, u) /\ t # u => ~Within(t, u)
                /\ \A t \in refusedAt'[c] : \E u \in Time : Announced(told', req', c, u) /\ Within(t, u)
    <2> DEFINE A(t) == Announced(told, req, c, t)
               B(t) == Announced(told', req', c, t)
    <2>1. \A t : B(t) <=> A(t) \/ (c = k /\ t = at)
      BY <1>9
    <2>2. /\ \A l \in last[c] : l <= now /\ A(l)
          /\ \A t \in Time : A(t) => \E l \in last[c] : t <= l
          /\ \A t, u \in Time : A(t) /\ A(u) /\ t # u => ~Within(t, u)
          /\ \A t \in refusedAt[c] : \E u \in Time : A(u) /\ Within(t, u)
      BY <1>1 DEF NoticesInv
    <2>3. \A t \in refusedAt'[c] : \E u \in Time : B(u) /\ Within(t, u)
      BY <2>1, <2>2
    <2>4. last'[c] = IF c = k THEN {at} ELSE last[c]
      BY <1>1, <1>7
    <2> HIDE DEF A, B
    <2>5. CASE c # k
      BY <2>1, <2>2, <2>3, <2>4, <2>5 DEF B
    <2>6. CASE c = k
      <3>1. \A t \in Time : A(t) => t <= at /\ ~Within(t, at) /\ ~Within(at, t)
        <4>1. ASSUME NEW t \in Time, A(t) PROVE t <= at /\ ~Within(t, at) /\ ~Within(at, t)
          <5>1. PICK l \in last[c] : t <= l
            BY <2>2, <4>1
          <5>2. l \in Nat /\ t \in Nat /\ at \in Nat /\ at >= l + Hour
            BY <1>1, <1>2, <1>3, <1>7, <2>6
          <5> QED BY <1>3, <5>1, <5>2 DEF Within
        <4> QED BY <4>1
      <3>2. \A l \in last'[c] : l <= now' /\ B(l)
        BY <1>2, <2>1, <2>4, <2>6
      <3>3. \A t \in Time : B(t) => \E l \in last'[c] : t <= l
        BY <1>2, <1>3, <2>1, <2>4, <2>6, <3>1
      <3>4. \A t, u \in Time : B(t) /\ B(u) /\ t # u => ~Within(t, u)
        BY <2>1, <2>2, <2>6, <3>1
      <3> QED BY <2>3, <3>2, <3>3, <3>4 DEF B
    <2> QED BY <2>5, <2>6
  <1>11. NoticesInv'
    BY <1>10 DEF NoticesInv
  <1> QED BY <1>1, <1>5, <1>6, <1>8, <1>11, InvNotices

\* A refusal that has its notice is answered.
LEMMA InvTold ==
    ASSUME BreakGlassAssumption, BreakGlassInv, NEW q \in Request, RefusedAnswer(q),
           UNCHANGED <<now, cards, routes, making, printed, last, pages, session, page, restarts, grants>>,
           told' \in [Card -> SUBSET Time],
           \A c \in Card : \A t \in Time : Announced(told', req', c, t) <=> Announced(told, req, c, t),
           req[q].pc # "idle",
           \E u \in Time : Announced(told, req, req[q].card, u) /\ Within(req[q].at, u)
    PROVE  BreakGlassInv'
  <1> DEFINE at == req[q].at
             k == req[q].card
  <1>1. /\ req[q] \in Req /\ ReqOK(req[q], cards, RefusedTargets, now) /\ TypeOK /\ NoticesInv
        /\ last \in [Card -> SUBSET Time] /\ refusedAt \in [Card -> SUBSET Time]
    BY DEF BreakGlassInv, TypeOK, RequestsInv
  <1>2. k \in Card /\ at \in Time
    BY <1>1 DEF ReqOK, Req
  <1>3. refusedAt' = [refusedAt EXCEPT ![k] = @ \cup {at}] /\ Answer(q)
    BY DEF RefusedAnswer
  <1>4. refusedAt' \in [Card -> SUBSET Time]
    BY <1>1, <1>2, <1>3
  <1>5. req' = [req EXCEPT ![q] = Idle] /\ Idle \in Req /\ ReqOK(Idle, cards, RefusedTargets, now)
    BY <1>1, <1>3, AnswerIs, IdleIs
  <1>6. NoticesInv'
    <2>1. ASSUME NEW c \in Card
          PROVE  /\ \A l \in last'[c] : l <= now' /\ Announced(told', req', c, l)
                 /\ \A t \in Time : Announced(told', req', c, t) => \E l \in last'[c] : t <= l
                 /\ \A t, u \in Time : Announced(told', req', c, t) /\ Announced(told', req', c, u) /\ t # u => ~Within(t, u)
                 /\ \A t \in refusedAt'[c] : \E u \in Time : Announced(told', req', c, u) /\ Within(t, u)
      <3> DEFINE A(t) == Announced(told, req, c, t)
                 B(t) == Announced(told', req', c, t)
      <3>1. \A t \in Time : A(t) <=> B(t)
        OBVIOUS
      <3>2. /\ \A l \in last[c] : l <= now /\ A(l)
            /\ \A t \in Time : A(t) => \E l \in last[c] : t <= l
            /\ \A t, u \in Time : A(t) /\ A(u) /\ t # u => ~Within(t, u)
            /\ \A t \in refusedAt[c] : \E u \in Time : A(u) /\ Within(t, u)
        BY <1>1 DEF NoticesInv
      <3>3. last'[c] = last[c] /\ last[c] \subseteq Time /\ now' = now
        BY <1>1
      <3>4. \A t \in refusedAt'[c] : t \in refusedAt[c] \/ (c = k /\ t = at)
        BY <1>1, <1>3
      <3>5. c = k => \E u \in Time : A(u) /\ Within(at, u)
        OBVIOUS
      <3> HIDE DEF A, B, at, k
      <3> QED BY <3>1, <3>2, <3>3, <3>4, <3>5 DEF B
    <2> QED BY <2>1 DEF NoticesInv
  <1> QED BY <1>1, <1>3, <1>4, <1>5, <1>6, AnswerIs, InvNotices

\* A refusal.
LEMMA InvRefused ==
    ASSUME BreakGlassAssumption, BreakGlassInv, NEW q \in Request, RefusedDue(q) \/ NotifyRefused(q)
    PROVE  BreakGlassInv'
  <1> DEFINE at == req[q].at
             k == req[q].card
  <1>1. /\ req[q] \in Req /\ ReqOK(req[q], cards, RefusedTargets, now) /\ req \in [Request -> Req] /\ TypeOK /\ NoticesInv
        /\ last \in [Card -> SUBSET Time] /\ told \in [Card -> SUBSET Time]
    BY DEF BreakGlassInv, TypeOK, RequestsInv
  <1>2. req[q].pc \in {"due", "tell"}
    BY DEF RefusedDue, NotifyRefused
  <1>3. k \in Card /\ at \in Time /\ at <= now /\ now <= at + MaxLate
    BY <1>1, <1>2 DEF ReqOK, Req
  <1>4. Time \subseteq Nat /\ now \in Nat /\ Hour \in Nat /\ 0 < Hour /\ MaxLate \in Nat /\ MaxLate < Hour
    BY <1>1, NumbersAre DEF Time
  <1>5. CASE RefusedDue(q) /\ Due(k, at)
    BY <1>5, InvDue DEF RefusedDue
  <1>6. CASE RefusedDue(q) /\ ~Due(k, at)
    <2>1. /\ req[q].pc = "due" /\ RefusedAnswer(q)
          /\ UNCHANGED <<now, cards, routes, making, printed, last, pages, session, page, restarts, grants, told>>
      BY <1>6 DEF RefusedDue
    <2>2. PICK l \in last[k] : ~(at >= l + Hour)
      BY <1>6 DEF Due
    <2>3. l \in Time /\ l <= now /\ Announced(told, req, k, l)
      BY <1>1, <1>3 DEF NoticesInv
    <2>4. Within(at, l)
      <3> HIDE DEF at
      <3>1. at \in Nat /\ l \in Nat
        BY <1>3, <1>4, <2>3
      <3> QED BY <1>3, <1>4, <2>2, <2>3, <3>1 DEF Within
    <2>5. req' = [req EXCEPT ![q] = Idle] /\ Idle.pc = "idle"
      BY <1>1, <2>1, AnswerIs, IdleIs DEF RefusedAnswer
    <2>6. \A c \in Card : \A t \in Time : Announced(told', req', c, t) <=> Announced(told, req, c, t)
      BY <1>1, <2>1, <2>5 DEF Announced
    <2> QED BY <1>1, <2>1, <2>3, <2>4, <2>6, InvTold
  <1>7. CASE NotifyRefused(q)
    <2>1. /\ req[q].pc = "tell" /\ RefusedAnswer(q) /\ told' = [told EXCEPT ![k] = @ \cup {at}]
          /\ UNCHANGED <<now, server, pages, session, page, restarts, grants>>
      BY <1>7 DEF NotifyRefused
    <2>2. UNCHANGED <<cards, routes, making, printed, last>>
      BY <2>1 DEF server
    <2>3. req' = [req EXCEPT ![q] = Idle] /\ Idle.pc = "idle"
      BY <1>1, <2>1, AnswerIs, IdleIs DEF RefusedAnswer
    <2>4. told' \in [Card -> SUBSET Time]
      BY <1>1, <1>3, <2>1
    <2>5. \A c \in Card : \A t : Announced(told', req', c, t) <=> Announced(told, req, c, t)
      <3>1. req'[q].pc # "tell" /\ \A p \in Request : p # q => req'[p] = req[p]
        BY <1>1, <2>3
      <3>2. \A c \in Card : \A t : t \in told'[c] <=> t \in told[c] \/ (c = k /\ t = at)
        BY <1>1, <1>3, <2>1
      <3> QED BY <2>1, <3>1, <3>2 DEF Announced
    <2>6. Announced(told, req, k, at) /\ Within(at, at)
      <3>1. Announced(told, req, k, at)
        BY <2>1 DEF Announced
      <3>2. at \in Nat
        BY <1>3, <1>4
      <3> HIDE DEF at
      <3> QED BY <1>4, <3>1, <3>2 DEF Within
    <2> QED BY <1>3, <2>1, <2>2, <2>4, <2>5, <2>6, InvTold
  <1> QED BY <1>5, <1>6, <1>7

-----------------------------------------------------------------------------

\* Time passes, no further than the server's timeouts let a request last.
LEMMA InvTick ==
    ASSUME BreakGlassAssumption, BreakGlassInv, Tick
    PROVE  BreakGlassInv'
  <1>1. /\ TypeOK /\ TokensInv /\ OffersInv /\ RequestsInv /\ GrantsInv /\ NoticesInv
        /\ req \in [Request -> Req]
    BY DEF BreakGlassInv, TypeOK
  <1>2. /\ UNCHANGED <<cards, routes, making, printed, last, pages, session, offer, page, req>>
        /\ UNCHANGED <<restarts, grants, told, refusedAt>>
    BY DEF Tick, server, browsers, history
  <1>3. /\ now \in Nat /\ now' = now + 1 /\ now' \in Time /\ now <= now' /\ now' \in Nat
    <2>1. now \in 0..MaxTime /\ MaxTime \in Nat /\ now < MaxTime /\ now' = now + 1
      BY <1>1, NumbersAre DEF Tick, Time
    <2> QED BY <2>1 DEF Time
  <1>4. TypeOK'
    BY <1>1, <1>2, <1>3 DEF TypeOK
  <1>5. TokensInv' /\ OffersInv' /\ GrantsInv'
    BY <1>1, <1>2 DEF TokensInv, OffersInv, GrantsInv
  <1>6. NoticesInv'
    BY <1>1, <1>2, <1>3, NoticesKept
  <1>7. RequestsInv'
    <2>1. ASSUME NEW q \in Request PROVE ReqOK(req[q], cards, RefusedTargets, now')
      <3>1. req[q] \in Req /\ ReqOK(req[q], cards, RefusedTargets, now)
        BY <1>1 DEF RequestsInv
      <3>2. req[q].pc = "idle" \/ now < req[q].at + MaxLate
        BY DEF Tick
      <3>3. req[q].at \in Nat /\ MaxLate \in Nat
        BY <1>1, <3>1, NumbersAre DEF Req, Time
      <3>4. req[q].pc # "idle" => req[q].at <= now' /\ now' <= req[q].at + MaxLate
        BY <1>3, <3>1, <3>2, <3>3 DEF ReqOK
      <3> QED BY <3>1, <3>4 DEF ReqOK
    <2> QED BY <1>2, <2>1 DEF RequestsInv, RefusedTargets
  <1> QED BY <1>4, <1>5, <1>6, <1>7 DEF BreakGlassInv

\* A restart.
LEMMA InvRestart ==
    ASSUME BreakGlassAssumption, BreakGlassInv, Restart
    PROVE  BreakGlassInv'
  <1>1. TypeOK /\ TokensInv /\ OffersInv /\ GrantsInv /\ making \in [card : Card \cup {None}, group : Group]
    BY DEF BreakGlassInv, TypeOK
  <1>2. /\ UNCHANGED <<now, cards, routes, printed, pages, session, offer, page, grants>>
        /\ restarts < MaxRestarts /\ restarts' = restarts + 1
        /\ making' = [making EXCEPT !.card = None] /\ req' = [q \in Request |-> Idle]
        /\ last' = [c \in Card |-> {}] /\ told' = [c \in Card |-> {}] /\ refusedAt' = [c \in Card |-> {}]
    BY DEF Restart, browsers
  <1>3. Idle \in Req /\ Idle.pc = "idle"
    BY IdleIs
  <1>4. making' \in [card : Card \cup {None}, group : Group] /\ making'.card = None
    BY <1>1, <1>2
  <1>5. restarts' \in 0..MaxRestarts
    <2>1. restarts \in 0..MaxRestarts /\ MaxRestarts \in Nat
      BY <1>1, NumbersAre DEF TypeOK
    <2> QED BY <1>2, <2>1
  <1>6. req' \in [Request -> Req]
    BY <1>2, <1>3
  <1>7. TypeOK'
    BY <1>1, <1>2, <1>4, <1>5, <1>6 DEF TypeOK
  <1>8. TokensInv' /\ OffersInv' /\ GrantsInv'
    BY <1>1, <1>2, <1>4 DEF TokensInv, OffersInv, GrantsInv
  <1>9. RequestsInv'
    BY <1>2, <1>3 DEF RequestsInv, ReqOK
  <1>10. NoticesInv'
    <2>1. \A c \in Card : \A t : ~Announced(told', req', c, t)
      BY <1>2, <1>3 DEF Announced
    <2> QED BY <1>2, <2>1 DEF NoticesInv
  <1> QED BY <1>7, <1>8, <1>9, <1>10 DEF BreakGlassInv

\* Initially.
LEMMA InvInit ==
    ASSUME BreakGlassAssumption, Init
    PROVE  BreakGlassInv
  <1>1. AnyGroup \in Group /\ NoOffer \in Offer /\ 0 \in Time /\ 0 \in 0..MaxGen /\ 0 \in 0..MaxRestarts
    <2>1. 0 \in Time /\ 0 \in 0..MaxGen /\ 0 \in 0..MaxRestarts /\ 0 \in 0..(MaxTime + OfferTTL)
      BY DEF BreakGlassAssumption, Time
    <2>2. AnyGroup \in Group
      BY DEF BreakGlassAssumption, AnyGroup
    <2> QED BY <2>1, <2>2 DEF NoOffer, Offer
  <1>2. Idle \in Req /\ Idle.pc = "idle"
    BY IdleIs
  <1>3. TypeOK
    BY <1>1, <1>2 DEF Init, TypeOK, CardRow, Session
  <1>4. TokensInv /\ OffersInv /\ GrantsInv
    BY DEF Init, TokensInv, Numbered, OffersInv, GrantsInv, NoOffer
  <1>5. RequestsInv
    BY <1>2 DEF Init, RequestsInv, ReqOK
  <1>6. NoticesInv
    BY <1>2 DEF Init, NoticesInv, Announced
  <1> QED BY <1>3, <1>4, <1>5, <1>6 DEF BreakGlassInv

\* Every step keeps the invariant.
LEMMA InvNext ==
    ASSUME BreakGlassAssumption, BreakGlassInv, [Next]_vars
    PROVE  BreakGlassInv'
  <1>1. CASE UNCHANGED vars
    <2>1. /\ UNCHANGED <<now, cards, routes, making, printed, last, pages, session, offer, page, req>>
          /\ UNCHANGED <<restarts, grants, told, refusedAt>>
      BY <1>1 DEF vars, server, browsers, history
    <2>2. TypeOK' /\ TokensInv' /\ OffersInv'
      BY <2>1 DEF BreakGlassInv, TypeOK, TokensInv, OffersInv
    <2>3. RequestsInv'
      BY <2>1 DEF BreakGlassInv, RequestsInv, RefusedTargets
    <2> QED BY <2>1, <2>2, <2>3, InvQuiet
  <1>2. CASE \/ \E c \in Card, g \in Group : CreateCheck(c, g)
             \/ CreateInsert
             \/ \E c \in Card : Revoke(c) \/ Remint(c) \/ CodeImage(c)
    BY <1>2, InvAdmin
  <1>3. CASE \E to \in SUBSET Group : RoutesChange(to)
    BY <1>3, InvRoutes
  <1>4. CASE \/ \E code \in Code : HandleBreakGlassScan(code)
             \/ \E b \in Browser : (\E to \in Session : ChangeSession(b, to)) \/ HandleDenied(b)
    BY <1>4, InvBrowser
  <1>5. CASE \E b \in Browser : EndSessions(b)
    BY <1>5, InvEndSessions
  <1>6. CASE \E q \in Request, b \in Browser : \/ HandleActivate(q, b)
                                               \/ \E code \in Code : HandleBreakGlass(q, b, code)
    BY <1>6, InvButtons
  <1>7. ASSUME NEW q \in Request, RequestSteps(q) PROVE BreakGlassInv'
    BY <1>7, InvLookups, InvChecks, InvOffer, InvAudit, InvIssue, InvRefused DEF RequestSteps
  <1>8. CASE Tick
    BY <1>8, InvTick
  <1>9. CASE Restart
    BY <1>9, InvRestart
  <1> QED BY <1>1, <1>2, <1>3, <1>4, <1>5, <1>6, <1>7, <1>8, <1>9 DEF Next

\* The invariant holds.
LEMMA BreakGlassInvariant == Spec => []BreakGlassInv
  <1>1. Init => BreakGlassInv
    BY InvInit, BreakGlassAssumption
  <1>2. BreakGlassInv /\ [Next]_vars => BreakGlassInv'
    BY InvNext, BreakGlassAssumption
  <1> QED BY <1>1, <1>2, PTL DEF Spec

-----------------------------------------------------------------------------

\* The state is well formed, whatever order the handlers of break-glass cards
\* run in.
THEOREM CardsTypeCorrect == Spec => []TypeOK
  <1>1. BreakGlassInv => TypeOK
    BY DEF BreakGlassInv
  <1> QED BY <1>1, BreakGlassInvariant, PTL

\* A session is granted on the code that was scanned or offered, never on a
\* token the card was given since (handleBreakGlassActivate).
THEOREM GrantsKeepToTheirCode == Spec => []GrantsFollowTheirCode
  <1>1. BreakGlassInv => GrantsFollowTheirCode
    BY DEF BreakGlassInv, GrantsInv, GrantsFollowTheirCode
  <1> QED BY <1>1, BreakGlassInvariant, PTL

\* A request that began after its code was revoked or re-minted grants nothing
\* (activeCard, handleBreakGlassActivate).
THEOREM RetiredCodesAreDead == Spec => []RetiredCodesGrantNothing
  <1>1. BreakGlassInv => RetiredCodesGrantNothing
    BY DEF BreakGlassInv, GrantsInv, RetiredCodesGrantNothing
  <1> QED BY <1>1, BreakGlassInvariant, PTL

\* A card grants nothing while its group is refused all through the request
\* (refuseRetargetedCard, grantBreakGlass).
THEOREM RefusedTargetsAreDead == Spec => []RefusedTargetsGrantNothing
  <1>1. BreakGlassInv => RefusedTargetsGrantNothing
    BY DEF BreakGlassInv, GrantsInv, RefusedTargetsGrantNothing
  <1> QED BY <1>1, BreakGlassInvariant, PTL

\* An activation made after another with the same offer was answered grants
\* nothing (handleBreakGlassActivate consumes the offer).
THEOREM OffersAreSpent == Spec => []AnsweredOffersStaySpent
  <1>1. BreakGlassInv => AnsweredOffersStaySpent
    BY DEF BreakGlassInv, GrantsInv, AnsweredOffersStaySpent
  <1> QED BY <1>1, BreakGlassInvariant, PTL

\* No session without its row in the audit log (grantBreakGlass).
THEOREM GrantsHaveTheirRow == Spec => []GrantsAreRecorded
  <1>1. BreakGlassInv => GrantsAreRecorded
    BY DEF BreakGlassInv, GrantsInv, GrantsAreRecorded
  <1> QED BY <1>1, BreakGlassInvariant, PTL

\* Every answered refusal has a notice less than an hour from it (hourlyOnce).
THEOREM NoRefusalIsSilent == Spec => []RefusalsAreTold
  <1>1. BreakGlassInv => RefusalsAreTold
    <2>1. SUFFICES ASSUME NoticesInv, NEW c \in Card, NEW t \in refusedAt[c]
                   PROVE  \/ \E u \in told[c] : Within(t, u)
                          \/ \E q \in Request : req[q].pc = "tell" /\ req[q].card = c /\ Within(t, req[q].at)
      BY DEF BreakGlassInv, RefusalsAreTold
    <2>2. PICK u \in Time : Announced(told, req, c, u) /\ Within(t, u)
      BY <2>1 DEF NoticesInv
    <2> QED BY <2>2 DEF Announced
  <1> QED BY <1>1, BreakGlassInvariant, PTL

\* No two notices of a card are less than an hour apart (hourlyOnce).
THEOREM NoticesAreApart == Spec => []NoticesKeepApart
  <1>1. BreakGlassInv => NoticesKeepApart
    <2>1. SUFFICES ASSUME NoticesInv, TypeOK, NEW c \in Card, NEW t \in told[c], NEW u \in told[c], t # u
                   PROVE  ~Within(t, u)
      BY DEF BreakGlassInv, NoticesKeepApart
    <2>2. t \in Time /\ u \in Time
      BY <2>1 DEF TypeOK
    <2> QED BY <2>1, <2>2 DEF NoticesInv, Announced
  <1> QED BY <1>1, BreakGlassInvariant, PTL
=============================================================================
