------------------------------ MODULE BreakGlass ------------------------------
(***************************************************************************)
(* Break-glass cards between the scan and the grant.  Pressing the button  *)
(* of a scanned card (handleBreakGlass) grants a session, or, in a browser *)
(* that is signed in, leaves an offer cookie which the denial page takes   *)
(* (handleBreakGlassActivate).  Both read the card, the route files and    *)
(* the session in separate steps, while administrators make, revoke and    *)
(* re-mint cards and the route files change.                               *)
(*                                                                         *)
(* A code is a card and the generation of its token; tokens are random, so *)
(* no two generations share one.  What becomes of a session once granted   *)
(* is SessionEnds' part.  The per-address limiters, and the audit rows     *)
(* other than those of grants, which are written without a check, are left *)
(* out.                                                                    *)
(***************************************************************************)
EXTENDS Naturals

CONSTANTS
    Card, Group, Browser, Request,
    FeedGroup,   \* the groups filled from a feed; one that becomes so at a restart is as one the files name
    None,
    Hour, OfferTTL,        \* an hour and OTP_TTL, in ticks
    MaxGen,                \* bound on the tokens of a card
    MaxTime,               \* bound on the clock
    MaxLate,               \* bound on the ticks a request takes, by the server's timeouts
    MaxRestarts            \* bound on restarts

ASSUME BreakGlassAssumption ==
    /\ FeedGroup \subseteq Group /\ None \notin Card /\ Group # {} /\ Browser # {}
    /\ {Hour, OfferTTL, MaxGen, MaxTime, MaxLate, MaxRestarts} \subseteq Nat
    /\ 0 < MaxLate /\ MaxLate < Hour /\ 0 < MaxGen

VARIABLES
    now,
    cards,      \* database: break_glass_codes
    routes,     \* external: the groups the route files name as application roles; {} if unreadable
    making,     \* a card that an administrator is creating
    printed,    \* the codes on paper
    pages,      \* the codes whose scan's page is open somewhere
    last,       \* memory: refusedNotices
    session,    \* session[b]: the session cookie of a browser
    offer,      \* offer[b]: its offer cookie
    page,       \* page[b]: it holds the CSRF token of a denial page with an offer
    req,        \* req[q]: a request being handled
    restarts,   \* history: restarts
    grants,     \* history: how sessions were granted
    told,       \* history: the times of the notices of refused scans, since the process started
    refusedAt   \* history: the times of the refused scans answered since then

server == <<cards, routes, making, printed, last>>
browsers == <<pages, session, offer, page>>
history == <<restarts, grants, told, refusedAt>>
vars == <<now, server, browsers, req, history>>

Time == 0..MaxTime
Code == [card : Card, gen : 1..MaxGen]

CardRow == [gen : 0..MaxGen, status : {"absent", "active", "revoked"}, group : Group]

\* "ended" is a normal session that a cutoff has ended since; "other" a guest's
\* or a card's session.
Session == {"none", "normal", "ended", "other"}

\* answered is history: an activation that carried the offer has been answered.
Offer == [card : Card \cup {None}, gen : 0..MaxGen, until : 0..(MaxTime + OfferTTL), answered : BOOLEAN]
NoOffer == [card |-> None, gen |-> 0, until |-> 0, answered |-> FALSE]

PC == {"idle", "lookup", "screen", "session", "tapSession", "tapLookup", "check", "audit", "issue", "due", "tell"}

\* A request: the code it was made with and the cookies it carries, then the
\* card it found.  live, open and row are history: whether its code was live
\* when it began, its target was allowed at some moment since, and its grant
\* is in the audit log.
Req == [pc : PC, by : Browser, tap : BOOLEAN, at : Time, card : Card \cup {None}, gen : 0..MaxGen,
        session : Session, spent : BOOLEAN, found : 0..MaxGen,
        live : BOOLEAN, open : BOOLEAN, row : BOOLEAN]

Idle == [pc |-> "idle", by |-> CHOOSE b \in Browser : TRUE, tap |-> FALSE, at |-> 0, card |-> None, gen |-> 0,
         session |-> "none", spent |-> FALSE, found |-> 0, live |-> FALSE, open |-> FALSE, row |-> FALSE]

\* How a session was granted: whether the code found is the one the request
\* was made with, and the request's history.
Grant == [same : BOOLEAN, live : BOOLEAN, open : BOOLEAN, spent : BOOLEAN, row : BOOLEAN]

TypeOK ==
    /\ now \in Time
    /\ cards \in [Card -> CardRow] /\ routes \subseteq Group
    /\ making \in [card : Card \cup {None}, group : Group]
    /\ printed \subseteq Code /\ pages \subseteq printed
    /\ last \in [Card -> SUBSET Time]
    /\ session \in [Browser -> Session] /\ offer \in [Browser -> Offer] /\ page \in [Browser -> BOOLEAN]
    /\ req \in [Request -> Req]
    /\ restarts \in 0..MaxRestarts /\ grants \subseteq Grant
    /\ told \in [Card -> SUBSET Time] /\ refusedAt \in [Card -> SUBSET Time]

AnyGroup == CHOOSE g \in Group : TRUE

Init ==
    /\ now = 0
    /\ cards = [c \in Card |-> [gen |-> 0, status |-> "absent", group |-> AnyGroup]]
    /\ routes = {}
    /\ making = [card |-> None, group |-> AnyGroup]
    /\ printed = {} /\ pages = {}
    /\ last = [c \in Card |-> {}]
    /\ session = [b \in Browser |-> "none"]
    /\ offer = [b \in Browser |-> NoOffer]
    /\ page = [b \in Browser |-> FALSE]
    /\ req = [q \in Request |-> Idle]
    /\ restarts = 0 /\ grants = {}
    /\ told = [c \in Card |-> {}] /\ refusedAt = [c \in Card |-> {}]

Live(c, g) == cards[c].status = "active" /\ cards[c].gen = g

-----------------------------------------------------------------------------
(* Administrators and the route files.                                     *)

\* targetRefusal: a file that cannot be read refuses nothing.
RefusedTargets == routes \cup FeedGroup

CreateCheck(c, g) ==
    /\ making.card = None /\ cards[c].status = "absent" /\ g \notin RefusedTargets
    /\ making' = [card |-> c, group |-> g]
    /\ UNCHANGED <<now, cards, routes, printed, last, browsers, req, history>>

\* The insert fails, or the card is there.
CreateInsert ==
    LET c == making.card IN
    /\ c # None
    /\ making' = [making EXCEPT !.card = None]
    /\ \/ cards' = [cards EXCEPT ![c] = [gen |-> 1, status |-> "active", group |-> making.group]]
       \/ UNCHANGED cards
    /\ UNCHANGED <<now, routes, printed, last, browsers, req, history>>

RevokeBreakGlassCode(c) == [cards EXCEPT ![c].status = "revoked"]

\* A new token makes a card active, whatever its status was.
RemintBreakGlassCode(c) == [cards EXCEPT ![c] = [gen |-> @.gen + 1, status |-> "active", group |-> @.group]]

Revoke(c) ==
    /\ cards[c].status = "active"
    /\ cards' = RevokeBreakGlassCode(c)
    /\ UNCHANGED <<now, routes, making, printed, last, browsers, req, history>>

Remint(c) ==
    /\ cards[c].status # "absent" /\ cards[c].gen < MaxGen
    /\ cards' = RemintBreakGlassCode(c)
    /\ UNCHANGED <<now, routes, making, printed, last, browsers, req, history>>

\* The image of a card is drawn only while it is active.
CodeImage(c) ==
    /\ cards[c].status = "active"
    /\ printed' = printed \cup {[card |-> c, gen |-> cards[c].gen]}
    /\ UNCHANGED <<now, cards, routes, making, last, browsers, req, history>>

\* Routes change, and with them the history of the requests whose target is
\* no longer refused.
RoutesChange(to) ==
    /\ to # routes
    /\ routes' = to
    /\ req' = [q \in Request |->
                 IF req[q].pc = "idle" THEN req[q]
                 ELSE [req[q] EXCEPT !.open = @ \/ cards[req[q].card].group \notin to \cup FeedGroup]]
    /\ UNCHANGED <<now, cards, making, printed, last, browsers, history>>

-----------------------------------------------------------------------------
(* The person at the browser.                                              *)

\* Scanning a card opens a page, if the code is live and its target allowed,
\* and grants nothing.
HandleBreakGlassScan(code) ==
    /\ code \in printed \ pages
    /\ Live(code.card, code.gen) /\ cards[code.card].group \notin RefusedTargets
    /\ pages' = pages \cup {code}
    /\ UNCHANGED <<now, server, session, offer, page, req, history>>

\* Signing in, here or as a guest, and signing out.
ChangeSession(b, to) ==
    /\ to \in {"none", "normal", "other"} /\ to # session[b]
    /\ session' = [session EXCEPT ![b] = to]
    /\ UNCHANGED <<now, server, pages, offer, page, req, history>>

\* The person's sessions are ended elsewhere: the cookies stay, also those
\* that requests carry.
EndSessions(b) ==
    /\ session[b] = "normal"
    /\ session' = [session EXCEPT ![b] = "ended"]
    /\ req' = [q \in Request |-> IF req[q].pc # "idle" /\ req[q].by = b /\ req[q].session = "normal"
                                 THEN [req[q] EXCEPT !.session = "ended"] ELSE req[q]]
    /\ UNCHANGED <<now, server, pages, offer, page, history>>

Unexpired(o) == o.card # None /\ now <= o.until

\* The CSRF token of the pages the browser has shown.
EnsureCSRF(b) == [page EXCEPT ![b] = TRUE]

\* It is bound to the person of the session cookie, ended or not.
VerifyCSRF(b) == page[b] /\ session[b] \in {"normal", "ended"}

\* The denial page shows the button, with its CSRF token.
HandleDenied(b) ==
    /\ session[b] = "normal" /\ Unexpired(offer[b]) /\ ~page[b]
    /\ page' = EnsureCSRF(b)
    /\ UNCHANGED <<now, server, pages, session, offer, req, history>>

Begin(q, b, tap, c, g, pc) ==
    /\ req[q].pc = "idle"
    /\ req' = [req EXCEPT ![q] =
          [pc |-> pc, by |-> b, tap |-> tap, at |-> now, card |-> c, gen |-> g, session |-> session[b],
           spent |-> tap /\ offer[b].answered, found |-> 0, live |-> Live(c, g),
           open |-> cards[c].group \notin RefusedTargets, row |-> FALSE]]

\* The button of the scan's page, which posts the token.
HandleBreakGlass(q, b, code) ==
    /\ code \in pages
    /\ Begin(q, b, FALSE, code.card, code.gen, "lookup")
    /\ UNCHANGED <<now, server, browsers, history>>

\* The button of the denial page.
HandleActivate(q, b) ==
    /\ VerifyCSRF(b)
    /\ Unexpired(offer[b])
    /\ Begin(q, b, TRUE, offer[b].card, offer[b].gen, "tapSession")
    /\ UNCHANGED <<now, server, browsers, history>>

-----------------------------------------------------------------------------
(* A request.                                                              *)

\* A slip: the offer cleared only by a grant.
OfferClearedByGrant(q) == IF req[q].tap /\ req[q].pc = "issue" THEN NoOffer ELSE offer[req[q].by]

\* What an answer does to the offer cookie of the browser: an activation
\* clears it, whatever came of it.
OfferAfter(q) == IF req[q].tap THEN NoOffer ELSE offer[req[q].by]

Answer(q) ==
    LET b == req[q].by IN
    /\ req' = [req EXCEPT ![q] = Idle]
    /\ offer' = [offer EXCEPT ![b] = [OfferAfter(q) EXCEPT !.answered = offer[b].answered \/ req[q].tap]]

At(r, pc) == [r EXCEPT !.pc = pc]

Goto(q, pc) == req' = [req EXCEPT ![q] = At(@, pc)] /\ UNCHANGED offer

Finds(q, g, pc) == req' = [req EXCEPT ![q] = At([@ EXCEPT !.found = g], pc)] /\ UNCHANGED offer

\* activeCard: by the token, then the status.  A failed read is an answer too.
ActiveCard(q) ==
    /\ req[q].pc = "lookup"
    /\ \/ Live(req[q].card, req[q].gen) /\ Finds(q, req[q].gen, "screen")
       \/ Answer(q)
    /\ UNCHANGED <<now, server, pages, session, page, history>>

\* The first check of the target, before the session is read.
RefuseRetargetedCard(q) ==
    /\ req[q].pc = "screen"
    /\ Goto(q, IF cards[req[q].card].group \in RefusedTargets THEN "due" ELSE "session")
    /\ UNCHANGED <<now, server, pages, session, page, history>>

\* A normal session is kept, and the card offered; any other is replaced.
ReadSession(q) ==
    LET b == req[q].by IN
    /\ req[q].pc = "session"
    /\ \/ /\ req[q].session = "normal"
          /\ req' = [req EXCEPT ![q] = Idle]
          /\ offer' = [offer EXCEPT ![b] = [card |-> req[q].card, gen |-> req[q].found,
                                            until |-> req[q].at + OfferTTL, answered |-> FALSE]]
       \/ req[q].session # "normal" /\ Goto(q, "check")
    /\ UNCHANGED <<now, server, pages, session, page, history>>

TapSession(q) ==
    /\ req[q].pc = "tapSession"
    /\ IF req[q].session = "normal" THEN Goto(q, "tapLookup") ELSE Answer(q)
    /\ UNCHANGED <<now, server, pages, session, page, history>>

\* A slip: without the status of the card.
OfferHoldsRevoked(q) == cards[req[q].card].gen = req[q].gen

\* The card of the offer, by its id.
OfferHolds(q) == Live(req[q].card, req[q].gen)

TapLookup(q) ==
    /\ req[q].pc = "tapLookup"
    /\ \/ OfferHolds(q) /\ Finds(q, cards[req[q].card].gen, "check")
       \/ Answer(q)
    /\ UNCHANGED <<now, server, pages, session, page, history>>

\* A slip: the activation trusting the check at the scan.
TargetCheckedAtScan(q) == ~req[q].tap /\ cards[req[q].card].group \in RefusedTargets

\* grantBreakGlass checks the target again, for both ways to it.
TargetRefused(q) == cards[req[q].card].group \in RefusedTargets

GrantCheck(q) ==
    /\ req[q].pc = "check"
    /\ Goto(q, IF TargetRefused(q) THEN "due" ELSE "audit")
    /\ UNCHANGED <<now, server, pages, session, page, history>>

RecordBreakGlassEvent(q) == [req EXCEPT ![q] = At([@ EXCEPT !.row = TRUE], "issue")]

\* The audit row is written before the session is issued.
Audit(q) ==
    /\ req[q].pc = "audit"
    /\ \/ req' = RecordBreakGlassEvent(q) /\ UNCHANGED offer
       \/ Answer(q)
    /\ UNCHANGED <<now, server, pages, session, page, history>>

IssueGrant(q) ==
    /\ req[q].pc = "issue"
    /\ session' = [session EXCEPT ![req[q].by] = "other"]
    /\ grants' = grants \cup {[same |-> req[q].found = req[q].gen, live |-> req[q].live, open |-> req[q].open,
                               spent |-> req[q].spent, row |-> req[q].row]}
    /\ Answer(q)
    /\ UNCHANGED <<now, server, pages, page, restarts, told, refusedAt>>

\* A slip: one notice for each card, however long ago.
DueOnce(c, t) == last[c] = {}

\* hourlyOnce.due, with the time the request began.
Due(c, t) == \A l \in last[c] : t >= l + Hour

RefusedAnswer(q) ==
    /\ refusedAt' = [refusedAt EXCEPT ![req[q].card] = @ \cup {req[q].at}]
    /\ Answer(q)

RefusedDue(q) ==
    LET c == req[q].card IN
    /\ req[q].pc = "due"
    /\ \/ /\ Due(c, req[q].at)
          /\ last' = [last EXCEPT ![c] = {req[q].at}]
          /\ Goto(q, "tell") /\ UNCHANGED refusedAt
       \/ ~Due(c, req[q].at) /\ RefusedAnswer(q) /\ UNCHANGED last
    /\ UNCHANGED <<now, cards, routes, making, printed, pages, session, page, restarts, grants, told>>

\* Notifier.Notify; what the goroutines it starts deliver is up to the mail
\* server and the webhook.
NotifyRefused(q) ==
    /\ req[q].pc = "tell"
    /\ told' = [told EXCEPT ![req[q].card] = @ \cup {req[q].at}]
    /\ RefusedAnswer(q)
    /\ UNCHANGED <<now, server, pages, session, page, restarts, grants>>

RequestSteps(q) ==
    \/ ActiveCard(q) \/ RefuseRetargetedCard(q) \/ ReadSession(q)
    \/ TapSession(q) \/ TapLookup(q)
    \/ GrantCheck(q) \/ Audit(q) \/ IssueGrant(q)
    \/ RefusedDue(q) \/ NotifyRefused(q)

-----------------------------------------------------------------------------

Tick ==
    /\ now < MaxTime
    /\ \A q \in Request : req[q].pc = "idle" \/ now < req[q].at + MaxLate
    /\ now' = now + 1
    /\ UNCHANGED <<server, browsers, req, history>>

\* A restart drops the requests and refusedNotices; cookies, cards and paper stay.
Restart ==
    /\ restarts < MaxRestarts
    /\ restarts' = restarts + 1
    /\ making' = [making EXCEPT !.card = None]
    /\ last' = [c \in Card |-> {}]
    /\ req' = [q \in Request |-> Idle]
    /\ told' = [c \in Card |-> {}] /\ refusedAt' = [c \in Card |-> {}]
    /\ UNCHANGED <<now, cards, routes, printed, browsers, grants>>

Next ==
    \/ \E c \in Card, g \in Group : CreateCheck(c, g)
    \/ CreateInsert
    \/ \E c \in Card : Revoke(c) \/ Remint(c) \/ CodeImage(c)
    \/ \E to \in SUBSET Group : RoutesChange(to)
    \/ \E code \in Code : HandleBreakGlassScan(code)
    \/ \E b \in Browser : \/ \E to \in Session : ChangeSession(b, to)
                          \/ EndSessions(b) \/ HandleDenied(b)
    \/ \E q \in Request, b \in Browser : \/ HandleActivate(q, b)
                                         \/ \E code \in Code : HandleBreakGlass(q, b, code)
    \/ \E q \in Request : RequestSteps(q)
    \/ Tick \/ Restart

Spec == Init /\ [][Next]_vars
-----------------------------------------------------------------------------
(* Properties.                                                             *)

\* A session is granted on the very code that was scanned: an offer made from
\* one token grants nothing on the next, however long it was under way
\* (handleBreakGlassActivate compares the offer's generation).
GrantsFollowTheirCode == \A g \in grants : g.same

\* A request that began after its code was revoked or re-minted grants
\* nothing, scanned or offered, and whatever was re-minted since.
RetiredCodesGrantNothing == \A g \in grants : g.live

\* A card grants nothing while its group is refused all through the request
\* (refuseRetargetedCard, on the scan and again on the grant), though the
\* files change between the card's making, the scan and the tap.
RefusedTargetsGrantNothing == \A g \in grants : g.open

\* An activation made after another with the same offer was answered grants
\* nothing, even if that one was refused and its reason is gone ("consume the
\* offer regardless of the outcome").
AnsweredOffersStaySpent == \A g \in grants : ~g.spent

\* No session without a "granted" row in the audit log, though the database
\* may fail at any step (grantBreakGlass writes it before it grants).
GrantsAreRecorded == \A g \in grants : g.row

Within(t, u) == t < u + Hour /\ u < t + Hour

\* Every answered refusal of a retargeted card has a notice to the
\* administrators less than an hour from it, sent or about to be: two requests
\* that meet, or times out of order, lose none (hourlyOnce).
RefusalsAreTold ==
    \A c \in Card : \A t \in refusedAt[c] :
        \/ \E u \in told[c] : Within(t, u)
        \/ \E q \in Request : req[q].pc = "tell" /\ req[q].card = c /\ Within(t, req[q].at)

\* ... and no two notices of a card are less than an hour apart, between
\* restarts.
NoticesKeepApart == \A c \in Card : \A t, u \in told[c] : t # u => ~Within(t, u)

=============================================================================
