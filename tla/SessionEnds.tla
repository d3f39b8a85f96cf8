----------------------------- MODULE SessionEnds -----------------------------
(***************************************************************************)
(* Signed-cookie sessions and how they end early: the cutoffs of           *)
(* internal/server/session_cutoffs.go, and every handler that reads,       *)
(* issues or renews a session cookie or ends sessions.  Handlers run       *)
(* concurrently; each captures the clock, then takes one step per access   *)
(* to the database or to shared memory.  The gateway may stop and start    *)
(* again between any two steps.  What a session's groups are, and when     *)
(* that makes it due for renewal, is the business of SessionGroups: here   *)
(* "stale" stands for any of those reasons.                                *)
(***************************************************************************)
EXTENDS Naturals, FiniteSets

CONSTANTS
    Proc,         \* the handlers running at once
    Person,       \* addresses that sign in
    Passkey,      \* passkey row IDs, never reused
    Card,         \* break-glass card IDs
    None,
    Owner,        \* Owner[k] = the person passkey k was added by
    SessionTTLs,  \* lifetimes a normal sign-in may choose (SESSION_TTL, remember-me)
    CardTTL,      \* lifetime of a break-glass session
    RenewAfter,   \* SESSION_RENEW
    MaxAge,       \* SESSION_MAX_AGE, at least SESSION_REMEMBER_TTL
    Start,        \* the first second: long after the epoch
    MaxClock,     \* bound on the clock
    MaxGen,       \* bound on how often a card is re-minted
    MaxCookies,   \* bound on how many different cookies are issued
    Outstanding   \* cookies earlier builds left in browsers

Key == Person \cup Passkey \cup Card

ASSUME ConstantsAssumption ==
    /\ None \notin Key
    /\ Person \cap Passkey = {} /\ Person \cap Card = {} /\ Passkey \cap Card = {}
    /\ Owner \in [Passkey -> Person]
    /\ SessionTTLs \subseteq 0..MaxAge
    /\ Start \in Nat /\ Start > MaxAge + 1 /\ Start <= MaxClock
    /\ {CardTTL, RenewAfter, MaxAge, MaxClock, MaxGen, MaxCookies} \subseteq Nat

VARIABLES
    clock,      \* Unix seconds
    passkeys,   \* database: passkeys[k] = "unused", "live" or "removed"
    cards,      \* database: cards[c] = its code's generation and whether it is active
    dbEnded,    \* database: table session_cutoffs, 0 for no row
    ended,      \* memory: sessionCutoffs.ended, 0 for no entry
    cookies,    \* every session cookie ever issued; a browser may keep any of them
    req,        \* req[p] = the handler p is running
    promised,   \* history: the latest cutoff whose endSessions has returned
    retired,    \* history: the latest card generation a revoke or re-mint has ended
    removedAt   \* history: when each passkey row was deleted, 0 for not yet

vars == <<clock, passkeys, cards, dbEnded, ended, cookies, req, promised, retired, removedAt>>
dbVars == <<passkeys, cards, dbEnded>>
history == <<promised, retired, removedAt>>

-----------------------------------------------------------------------------
(* Sessions *)

Kind == {"normal", "card", "other"}

\* The fields of session.Identity this module needs, and two the program does
\* not have: born, when the person really signed in (0 if before this build),
\* and gen, the generation of the card's code.  No action reads them.
Session == [who : Person \cup {None}, kind : Kind, iat : Nat, auth : Nat, ttl : Nat,
            pk : Passkey \cup {None}, card : Card \cup {None}, gen : Nat, born : Nat]

NoSession == [who |-> None, kind |-> "other", iat |-> 0, auth |-> 0, ttl |-> 0,
              pk |-> None, card |-> None, gen |-> 0, born |-> 0]

ASSUME OutstandingAssumption ==
    /\ Outstanding \subseteq Session
    /\ \A s \in Outstanding : s.iat < Start /\ s.auth \in {0, 1} /\ s.pk = None /\ s.card = None /\ s.born = 0

NormalSession(w, now, ttl, k) ==
    [who |-> w, kind |-> "normal", iat |-> now, auth |-> now, ttl |-> ttl,
     pk |-> k, card |-> None, gen |-> 0, born |-> now]

CardSession(c, g, now) ==
    [who |-> None, kind |-> "card", iat |-> now, auth |-> now, ttl |-> CardTTL,
     pk |-> None, card |-> c, gen |-> g, born |-> now]

RenewedAsSignIn(s, now) == [s EXCEPT !.iat = now, !.auth = now]

\* A renewal or a step-up moves iat; the sign-in time is carried, and an
\* unknown one becomes 1, never now.
Renewed(s, now) == [s EXCEPT !.iat = now, !.auth = IF @ = 0 THEN 1 ELSE @]

AuthTime(s) == IF s.auth <= 1 THEN 0 ELSE s.auth

CoveredStrictly(s, c) ==
    \/ s.who \in Person /\ c[s.who] # 0 /\ AuthTime(s) < c[s.who]
    \/ s.pk \in Passkey /\ c[s.pk] # 0
    \/ s.kind = "card" /\ s.card \in Card /\ c[s.card] # 0 /\ AuthTime(s) < c[s.card]

\* The cutoffs c refuse session s.
Covered(s, c) ==
    \/ s.who \in Person /\ c[s.who] # 0 /\ AuthTime(s) <= c[s.who]
    \/ s.pk \in Passkey /\ c[s.pk] # 0
    \/ s.kind = "card" /\ s.card \in Card /\ c[s.card] # 0 /\ AuthTime(s) <= c[s.card]

Expired(s, now) == now > s.iat + s.ttl

SessionEnded(s, now) ==
    \/ MaxAge > 0 /\ now > AuthTime(s) + MaxAge
    \/ Covered(s, ended)

Readable(s, now) == ~Expired(s, now) /\ ~SessionEnded(s, now)

NeedsRenew(s, now) == s.kind # "card" /\ now > s.iat + RenewAfter

PasskeyNeverRead(s) == TRUE

PasskeyStillValid(s) ==
    s.pk \in Passkey => passkeys[s.pk] = "live" /\ Owner[s.pk] = s.who

-----------------------------------------------------------------------------
(* Handlers.  pc is the next access a handler makes; now is the time it    *)
(* captured; sess the session it read or will issue; todo, key and at the  *)
(* keys it still has to end, the one it is ending and the cutoff; op says  *)
(* whose sessions it ends.                                                 *)

PC == {"idle", "verifyRead", "verifyDecide", "renewCheck", "renewIssue", "verifyAnswer",
       "stepRead", "stepCheck", "stepIssue", "signOutRead", "passkeyLookup", "grantLookup",
       "issue", "deletePasskeys", "endArg", "endDB", "endMemory"}

Op == {"none", "person", "passkey", "passkeys", "card"}

Handler == [pc : PC, op : Op, now : Nat, sess : Session, todo : SUBSET Key,
            key : Key \cup {None}, at : Nat, gen : Nat]

Idle == [pc |-> "idle", op |-> "none", now |-> 0, sess |-> NoSession, todo |-> {},
         key |-> None, at |-> 0, gen |-> 0]

At(p, pc) == req[p].pc = pc
Become(p, h) == req' = [req EXCEPT ![p] = h]
Goto(p, pc) == Become(p, [req[p] EXCEPT !.pc = pc])
Stop(p) == Become(p, Idle)

\* IssueSessionGrant, which may fail and leave the browser's cookies as they are.
IssueSession(s) ==
    \/ Cardinality(cookies) < MaxCookies /\ cookies' = cookies \cup {s}
    \/ UNCHANGED cookies

Later(t, u) == IF t > u THEN t ELSE u
Raise(c, k, t) == [c EXCEPT ![k] = Later(t, @)]

\* What the next step of handler h relies on.
ReadyForNextStep(h) ==
    /\ h.pc \in {"endDB", "endMemory"} => h.key \in h.todo
    /\ h.pc = "grantLookup" => h.key \in Card
    /\ h.op = "card" => h.todo \subseteq Card

TypeOK ==
    /\ clock \in Nat \ {0, 1}
    /\ passkeys \in [Passkey -> {"unused", "live", "removed"}]
    /\ cards \in [Card -> [gen : Nat, active : BOOLEAN]]
    /\ dbEnded \in [Key -> Nat]
    /\ ended \in [Key -> Nat]
    /\ cookies \subseteq Session
    /\ req \in [Proc -> Handler]
    /\ promised \in [Key -> Nat]
    /\ retired \in [Card -> Nat]
    /\ removedAt \in [Passkey -> Nat]
    /\ \A p \in Proc : ReadyForNextStep(req[p])

Init ==
    /\ clock = Start
    /\ passkeys = [k \in Passkey |-> "unused"]
    /\ cards = [c \in Card |-> [gen |-> 1, active |-> TRUE]]
    /\ dbEnded = [k \in Key |-> 0]
    /\ ended = [k \in Key |-> 0]
    /\ cookies \in SUBSET Outstanding
    /\ req = [p \in Proc |-> Idle]
    /\ promised = [k \in Key |-> 0]
    /\ retired = [c \in Card |-> 0]
    /\ removedAt = [k \in Passkey |-> 0]

-----------------------------------------------------------------------------
(* GET /verify *)

VerifyBegin(p, s) ==
    /\ At(p, "idle")
    /\ Become(p, [Idle EXCEPT !.pc = "verifyRead", !.now = clock, !.sess = s])
    /\ UNCHANGED <<clock, dbVars, ended, cookies, history>>

\* readSession, the kind check, and the decision whether to renew.
VerifyRead(p) ==
    LET h == req[p] IN
    /\ At(p, "verifyRead")
    /\ \/ /\ ~Readable(h.sess, h.now) \/ h.sess.kind = "other"
          /\ Stop(p)
       \/ /\ Readable(h.sess, h.now) /\ h.sess.kind # "other"
          /\ \E stale \in BOOLEAN :
               IF NeedsRenew(h.sess, h.now) \/ (stale /\ h.sess.kind = "normal")
               THEN Goto(p, "renewCheck")
               ELSE Goto(p, "verifyDecide")
    /\ UNCHANGED <<clock, dbVars, ended, cookies, history>>

\* Admitted as it is; refused; or refused on groups that have changed, which
\* renews a normal session and decides again.
VerifyDecide(p) ==
    /\ At(p, "verifyDecide")
    /\ \/ Goto(p, "verifyAnswer")
       \/ Stop(p)
       \/ req[p].sess.kind = "normal" /\ Goto(p, "renewCheck")
    /\ UNCHANGED <<clock, dbVars, ended, cookies, history>>

\* passkeyStillValid.  A refusal also stands for a database error and for a
\* person the policy no longer admits: each clears the session.
RenewCheck(p) ==
    /\ At(p, "renewCheck")
    /\ \/ PasskeyStillValid(req[p].sess) /\ Goto(p, "renewIssue")
       \/ Stop(p)
    /\ UNCHANGED <<clock, dbVars, ended, cookies, history>>

\* The renewed cookie is issued, unless it would be too large for a browser:
\* then the old one stays, and the request goes on all the same.
RenewIssue(p) ==
    /\ At(p, "renewIssue")
    /\ IssueSession(Renewed(req[p].sess, req[p].now))
    /\ \/ Goto(p, "verifyAnswer")
       \/ Stop(p)                    \* still refused by the route
    /\ UNCHANGED <<clock, dbVars, ended, history>>

VerifyAnswer(p) ==
    /\ At(p, "verifyAnswer")
    /\ Stop(p)
    /\ UNCHANGED <<clock, dbVars, ended, cookies, history>>

-----------------------------------------------------------------------------
(* Signing in, the admin door, and break-glass cards *)

\* An emailed code has been accepted.
LoginBegin(p, w, ttl) ==
    /\ At(p, "idle")
    /\ Become(p, [Idle EXCEPT !.pc = "issue", !.now = clock,
                              !.sess = NormalSession(w, clock, ttl, None)])
    /\ UNCHANGED <<clock, dbVars, ended, cookies, history>>

PasskeyLoginBegin(p, k, ttl) ==
    /\ At(p, "idle")
    /\ passkeys[k] # "unused"
    /\ Become(p, [Idle EXCEPT !.pc = "passkeyLookup", !.now = clock,
                              !.sess = NormalSession(Owner[k], clock, ttl, k)])
    /\ UNCHANGED <<clock, dbVars, ended, cookies, history>>

PasskeyLookup(p) ==
    /\ At(p, "passkeyLookup")
    /\ IF passkeys[req[p].sess.pk] = "live" THEN Goto(p, "issue") ELSE Stop(p)
    /\ UNCHANGED <<clock, dbVars, ended, cookies, history>>

\* A card's code of generation g is posted; g may be out of date.
GrantBegin(p, c, g) ==
    /\ At(p, "idle")
    /\ g \in 1..cards[c].gen
    /\ Become(p, [Idle EXCEPT !.pc = "grantLookup", !.now = clock, !.key = c, !.gen = g])
    /\ UNCHANGED <<clock, dbVars, ended, cookies, history>>

GrantLookup(p) ==
    LET h == req[p] IN
    /\ At(p, "grantLookup")
    /\ IF cards[h.key] = [gen |-> h.gen, active |-> TRUE]
       THEN Become(p, [h EXCEPT !.pc = "issue", !.sess = CardSession(h.key, h.gen, h.now)])
       ELSE Stop(p)
    /\ UNCHANGED <<clock, dbVars, ended, cookies, history>>

\* The session cookie is written, or an error (for a card, an audit row that
\* could not be written) leaves the person signed out.
Issue(p) ==
    /\ At(p, "issue")
    /\ IssueSession(req[p].sess)
    /\ Stop(p)
    /\ UNCHANGED <<clock, dbVars, ended, history>>

\* POST /totp: the code is entered on a session that may have ended meanwhile.
StepUpBegin(p, s) ==
    /\ At(p, "idle")
    /\ Become(p, [Idle EXCEPT !.pc = "stepRead", !.now = clock, !.sess = s])
    /\ UNCHANGED <<clock, dbVars, ended, cookies, history>>

StepUpRead(p) ==
    /\ At(p, "stepRead")
    /\ IF Readable(req[p].sess, clock) /\ req[p].sess.kind = "normal"
       THEN Goto(p, "stepCheck")
       ELSE Stop(p)
    /\ UNCHANGED <<clock, dbVars, ended, cookies, history>>

StepUpCheck(p) ==
    /\ At(p, "stepCheck")
    /\ \/ PasskeyStillValid(req[p].sess) /\ Goto(p, "stepIssue")
       \/ Stop(p)
    /\ UNCHANGED <<clock, dbVars, ended, cookies, history>>

StepUpIssue(p) ==
    /\ At(p, "stepIssue")
    /\ IssueSession(Renewed(req[p].sess, req[p].now))   \* or a wrong code
    /\ Stop(p)
    /\ UNCHANGED <<clock, dbVars, ended, history>>

RegisterPasskey(k) ==
    /\ passkeys[k] = "unused"
    /\ passkeys' = [passkeys EXCEPT ![k] = "live"]
    /\ UNCHANGED <<clock, cards, dbEnded, ended, cookies, req, history>>

-----------------------------------------------------------------------------
(* Ending sessions.  Each handler first makes its own database change, if  *)
(* it has one, and then calls endSessions for each key: database, memory.  *)

\* "Sign out on every device" uses the time its own request began.
SignOutBegin(p, s) ==
    /\ At(p, "idle")
    /\ Become(p, [Idle EXCEPT !.pc = "signOutRead", !.now = clock, !.sess = s])
    /\ UNCHANGED <<clock, dbVars, ended, cookies, history>>

SignOutRead(p) ==
    LET h == req[p] IN
    /\ At(p, "signOutRead")
    /\ IF Readable(h.sess, h.now) /\ h.sess.kind # "card" /\ h.sess.who \in Person
       THEN Become(p, [h EXCEPT !.pc = "endDB", !.op = "person", !.todo = {h.sess.who},
                                !.key = h.sess.who, !.at = h.now])
       ELSE Stop(p)
    /\ UNCHANGED <<clock, dbVars, ended, cookies, history>>

\* Sign out everywhere by an administrator, or an authenticator replaced or
\* removed.
AdminEndSessions(p, w) ==
    /\ At(p, "idle")
    /\ Become(p, [Idle EXCEPT !.pc = "endArg", !.op = "person", !.todo = {w}])
    /\ UNCHANGED <<clock, dbVars, ended, cookies, history>>

DeletedKeys(S) == [k \in Passkey |-> IF k \in S THEN "removed" ELSE passkeys[k]]
DeletedTimes(S) == [k \in Passkey |-> IF k \in S THEN clock ELSE removedAt[k]]
LiveOf(w) == {k \in Passkey : passkeys[k] = "live" /\ Owner[k] = w}

RemovePasskey(p, k) ==
    /\ At(p, "idle")
    /\ passkeys[k] = "live"
    /\ passkeys' = DeletedKeys({k})
    /\ removedAt' = DeletedTimes({k})
    /\ Become(p, [Idle EXCEPT !.pc = "endArg", !.op = "passkey", !.todo = {k}])
    /\ UNCHANGED <<clock, cards, dbEnded, ended, cookies, promised, retired>>

\* An administrator removes all of w's passkeys: list, delete, end each listed.
ListPasskeys(p, w) ==
    /\ At(p, "idle")
    /\ Become(p, [Idle EXCEPT !.pc = "deletePasskeys", !.op = "passkeys",
                              !.sess = NormalSession(w, 0, 0, None), !.todo = LiveOf(w)])
    /\ UNCHANGED <<clock, dbVars, ended, cookies, history>>

DeletePasskeys(p) ==
    LET h == req[p]
        gone == LiveOf(h.sess.who) IN
    /\ At(p, "deletePasskeys")
    /\ passkeys' = DeletedKeys(gone)
    /\ removedAt' = DeletedTimes(gone)
    /\ IF h.todo = {} THEN Stop(p) ELSE Goto(p, "endArg")
    /\ UNCHANGED <<clock, cards, dbEnded, ended, cookies, promised, retired>>

Revoke(p, c) ==
    /\ At(p, "idle")
    /\ cards' = [cards EXCEPT ![c].active = FALSE]
    /\ Become(p, [Idle EXCEPT !.pc = "endArg", !.op = "card", !.todo = {c}, !.gen = cards[c].gen])
    /\ UNCHANGED <<clock, passkeys, dbEnded, ended, cookies, history>>

Remint(p, c) ==
    /\ At(p, "idle")
    /\ cards[c].gen < MaxGen
    /\ cards' = [cards EXCEPT ![c] = [gen |-> @.gen + 1, active |-> TRUE]]
    /\ Become(p, [Idle EXCEPT !.pc = "endArg", !.op = "card", !.todo = {c}, !.gen = cards[c].gen])
    /\ UNCHANGED <<clock, passkeys, dbEnded, ended, cookies, history>>

\* The argument s.now() of endSessions.
EndArg(p) ==
    /\ At(p, "endArg")
    /\ \E k \in req[p].todo :
         Become(p, [req[p] EXCEPT !.pc = "endDB", !.key = k, !.at = clock])
    /\ UNCHANGED <<clock, dbVars, ended, cookies, history>>

EndSessionsOverwrites(p) ==
    LET h == req[p] IN
    /\ At(p, "endDB")
    /\ dbEnded' = [dbEnded EXCEPT ![h.key] = h.at]
    /\ Goto(p, "endMemory")
    /\ UNCHANGED <<clock, passkeys, cards, ended, cookies, history>>

EndSessionsBefore(p) ==
    LET h == req[p] IN
    /\ At(p, "endDB")
    /\ dbEnded' = Raise(dbEnded, h.key, h.at)
    /\ Goto(p, "endMemory")
    /\ UNCHANGED <<clock, passkeys, cards, ended, cookies, history>>

\* The write fails: the caller reports it and nothing has ended.  Removing
\* one's own passkey only logs it.
EndSessionsFails(p) ==
    /\ At(p, "endDB")
    /\ Stop(p)
    /\ UNCHANGED <<clock, dbVars, ended, cookies, history>>

\* Memory follows the database, and the call returns.
EndInMemory(p) ==
    LET h == req[p]
        rest == h.todo \ {h.key} IN
    /\ At(p, "endMemory")
    /\ ended' = Raise(ended, h.key, h.at)
    /\ promised' = [promised EXCEPT ![h.key] = Later(h.at, @)]
    /\ retired' = [c \in Card |-> IF h.op = "card" /\ c = h.key
                                 THEN Later(h.gen, retired[c]) ELSE retired[c]]
    /\ IF rest = {} THEN Stop(p) ELSE Become(p, [h EXCEPT !.pc = "endArg", !.todo = rest])
    /\ UNCHANGED <<clock, dbVars, cookies, removedAt>>

-----------------------------------------------------------------------------
(* Time, and a stop and start of the gateway *)

Tick ==
    /\ clock < MaxClock
    /\ clock' = clock + 1
    /\ UNCHANGED <<dbVars, ended, cookies, req, history>>

RestartForgets ==
    /\ req' = [p \in Proc |-> Idle]
    /\ ended' = [k \in Key |-> 0]
    /\ UNCHANGED <<clock, dbVars, cookies, history>>

\* Handlers are lost; newSessionCutoffs loads what the database holds.
Restart ==
    /\ req' = [p \in Proc |-> Idle]
    /\ ended' = dbEnded
    /\ UNCHANGED <<clock, dbVars, cookies, history>>

Begin(p) ==
    \/ \E s \in cookies : VerifyBegin(p, s) \/ StepUpBegin(p, s) \/ SignOutBegin(p, s)
    \/ \E w \in Person : \/ \E ttl \in SessionTTLs : LoginBegin(p, w, ttl)
                         \/ AdminEndSessions(p, w) \/ ListPasskeys(p, w)
    \/ \E k \in Passkey : \/ \E ttl \in SessionTTLs : PasskeyLoginBegin(p, k, ttl)
                          \/ RemovePasskey(p, k)
    \/ \E c \in Card : \/ \E g \in 1..MaxGen : GrantBegin(p, c, g)
                       \/ Revoke(p, c) \/ Remint(p, c)

Continue(p) ==
    \/ VerifyRead(p) \/ VerifyDecide(p) \/ RenewCheck(p) \/ RenewIssue(p) \/ VerifyAnswer(p)
    \/ PasskeyLookup(p) \/ GrantLookup(p) \/ Issue(p)
    \/ StepUpRead(p) \/ StepUpCheck(p) \/ StepUpIssue(p)
    \/ SignOutRead(p) \/ DeletePasskeys(p)
    \/ EndArg(p) \/ EndSessionsBefore(p) \/ EndSessionsFails(p) \/ EndInMemory(p)

Next ==
    \/ \E p \in Proc : Begin(p) \/ Continue(p)
    \/ \E k \in Passkey : RegisterPasskey(k)
    \/ Tick \/ Restart

Spec == Init /\ [][Next]_vars

-----------------------------------------------------------------------------
(* Properties *)

\* Request p is admitted by readSession in this step.
Admits(p) == At(p, "verifyRead") /\ req'[p].pc \in {"verifyDecide", "renewCheck"}

\* Session s really began at or before an end of sessions c records for its
\* person or card, or was started by a passkey c records.
BegunBefore(s, c) ==
    \/ s.who \in Person /\ c[s.who] # 0 /\ s.born <= c[s.who]
    \/ s.pk \in Passkey /\ c[s.pk] # 0
    \/ s.card \in Card /\ c[s.card] # 0 /\ s.born <= c[s.card]

\* Once endSessions has returned, no session that began at or before its
\* cutoff is admitted again: not after a restart, not under a cookie renewed
\* or stepped up meanwhile, not by a cutoff recorded out of order
\* (session_cutoffs.go, "ends every session for key that began at or before
\* now").
AckedEndsHold == [][\A p \in Proc : Admits(p) => ~BegunBefore(req[p].sess, promised)]_vars

\* Once revoking or re-minting a card has returned, no session granted by the
\* code it had before is admitted, although the grant, the revocation and the
\* call that ends its sessions are separate steps (handleAdminBreakRevoke,
\* handleAdminBreakRemint, grantBreakGlass).
RetiredCardsHold ==
    [][\A p \in Proc : Admits(p) /\ req[p].sess.card \in Card
            => req[p].sess.gen > retired[req[p].sess.card]]_vars

\* SESSION_MAX_AGE counts from the real sign-in, however often the session has
\* been renewed or stepped up since (sessionEnded, IssueSessionGrant's Auth).
MaxAgeHolds ==
    [][\A p \in Proc : Admits(p) /\ MaxAge > 0 => req[p].now <= req[p].sess.born + MaxAge]_vars

\* However removing a passkey goes wrong after its row is deleted (a crash, or
\* an endSessions error that handlePasskeyRemove only logs), no request of a
\* session it started is answered once a renewal has come due.
RemovedPasskeyWindow ==
    \A p \in Proc :
        LET h == req[p] IN
        h.pc = "verifyAnswer" /\ h.sess.pk \in Passkey /\ removedAt[h.sess.pk] # 0
            => h.now <= removedAt[h.sess.pk] + RenewAfter

-----------------------------------------------------------------------------
(* The signed cookies and cutoffs implement a table of sessions *)

SignInOf(s) == [who |-> s.who, auth |-> s.born, pk |-> s.pk, card |-> s.card]

SignIns == [who : Person \cup {None}, auth : {0} \cup Start..MaxClock,
            pk : Passkey \cup {None}, card : Card \cup {None}]

LiveRows == {SignInOf(s) : s \in {c \in cookies : ~Covered(c, ended)}}

AdmittedRows ==
    [p \in Proc |-> IF req[p].pc \in {"verifyDecide", "renewCheck", "renewIssue", "verifyAnswer"}
                    THEN SignInOf(req[p].sess) ELSE None]

Table == INSTANCE SessionTable WITH cut <- ended, live <- LiveRows, admitted <- AdmittedRows

\* Every behaviour of the gateway is one of a gateway that keeps a table of
\* sessions, deletes rows for good and admits only on a row still there.
ImplementsTable == Table!TableSpec
=============================================================================
