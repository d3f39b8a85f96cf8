---------------------------- MODULE SessionGroups ----------------------------
(***************************************************************************)
(* What a session's groups are and when a change of them is seen.  A       *)
(* session cookie carries the groups worked out when it was issued;        *)
(* /verify works them out again when the cookie is due for renewal, when   *)
(* membership has changed since (groupsChangedAt), when the admin tier no  *)
(* longer fits, and when a group rule refuses it (renewSession,            *)
(* groupRecheck).  Administrators change members and includes, feeds fill  *)
(* groups, the route files name application roles, and the policy changes  *)
(* at a restart.  Expiry, cutoffs and removed passkeys, which end sessions *)
(* outright, are in SessionEnds: here a session may end at any read.       *)
(***************************************************************************)
EXTENDS Naturals, FiniteSets

CONSTANTS
    Proc, Person, None,
    Group,         \* names of database groups
    FeedGroup,     \* those a feed fills; hand changes to them are refused
    Includable,    \* pairs <<g, h>>: an administrator may include h in g
    ChecksFail,    \* whether the check of a new include may refuse it or fail
    Legacy,        \* reserved names that manual SQL left in the group table
    Policies,      \* the policies a (re)start may read from the configuration
    RouteFiles,    \* what the route files may say
    Routes,        \* what a site's X-Auth-Policy may ask for
    TOTPEnabled,
    RenewAfter,    \* SESSION_RENEW
    RecheckTTL,    \* groupRecheckTTL
    StepMaxAge,    \* adminStepMaxAge
    Start, MaxClock,
    MaxCookies,    \* bound on how many different cookies are issued
    MaxGen,        \* bound on the membership changes between two restarts
    Outstanding    \* cookies in browsers at the start

Roles == {"admin", "user", "guest"}
HandGroup == Group \ FeedGroup

ASSUME GroupsAssumption ==
    /\ Group \cap Roles = {} /\ FeedGroup \subseteq Group /\ Legacy \subseteq Roles
    /\ Includable \subseteq HandGroup \X Group
    /\ Policies \subseteq [role : [Person -> {"deny", "user", "admin"}], guests : BOOLEAN]
    /\ RouteFiles \subseteq [roles : SUBSET Group, paired : SUBSET Group, readable : BOOLEAN]
    /\ Routes \subseteq [open : BOOLEAN, people : SUBSET Person, groups : SUBSET (Group \cup Roles), guests : BOOLEAN]
    /\ {TOTPEnabled, ChecksFail} \subseteq BOOLEAN
    /\ {RenewAfter, RecheckTTL, StepMaxAge, Start, MaxClock, MaxCookies, MaxGen} \subseteq Nat
    /\ Start > 1

\* step is the time of the admin second step, 0 for none.
Session == [who : Person \cup {None}, kind : {"normal", "guest", "card", "other"},
            groups : SUBSET (Group \cup Roles), iat : Nat, step : Nat]

\* What an earlier run of the program left in browsers: cards, which nobody owns,
\* cookies of a kind this build does not know, and sessions due for renewal.
ASSUME OutstandingAssumption ==
    /\ None \notin Person
    /\ \A s \in Outstanding :
         /\ s \in Session
         /\ s.kind = "card" => s.who = None /\ s.groups \subseteq Group
         /\ s.kind \in {"normal", "guest"} => s.who \in Person /\ s.iat + RenewAfter < Start

VARIABLES
    clock,
    direct,       \* database: group_members, by person
    includes,     \* database: group_includes, <<g, h>> when g includes h
    dbChanged,    \* database: the "groups" row of session_cutoffs, 0 for none
    changedAt,    \* memory: groupsChangedAt, 0 for never
    gen,          \* memory: groupRecheck.gen
    confirmed,    \* memory: groupRecheck.until
    policy,       \* the configuration this process started with
    routes,       \* the route files, read afresh each time
    cookies,      \* every session cookie issued
    req,          \* req[p] = the handler p is running
    adrift,       \* history: changes of membership no handler is left to announce
    unstored,     \* history: removals announced in memory only
    removedAt,    \* history: when each <<person, group>> was last removed, 0 for never
    ruledAt       \* history: when the policy or the route files last changed

db == <<direct, includes, dbChanged>>
memory == <<changedAt, gen, confirmed>>
rules == <<policy, routes, ruledAt>>
history == <<adrift, unstored, removedAt>>
vars == <<clock, db, memory, rules, cookies, req, history>>

-----------------------------------------------------------------------------
(* Working out groups *)

\* Whatever includes a group of S is in S.
ClosedUp(S) == \A i \in includes : i[2] \in S => i[1] \in S

\* The groups of G and every group that includes one of them, and so on up: the
\* recursive query stops at the least set that is closed.
Up(G) == G \cup {g \in Group : \A S \in SUBSET Group : G \cap Group \subseteq S /\ ClosedUp(S) => g \in S}

GroupsForEmail(w) == Up(direct[w])

Held(x) == x[2] \in GroupsForEmail(x[1])

ClosesCycle(i) == i[2] \in Up({i[1]})

Role(w) == policy.role[w]

NoSession == [who |-> None, kind |-> "other", groups |-> {}, iat |-> 0, step |-> 0]

RenewalRole(s) ==
    IF s.kind = "guest" THEN IF policy.guests THEN "guest" ELSE "deny" ELSE Role(s.who)

AdminStepFresh(s, t) == TOTPEnabled => s.kind = "normal" /\ s.step # 0 /\ t <= s.step + StepMaxAge

TierRole(s, role, t) == IF role = "admin" /\ ~AdminStepFresh(s, t) THEN "user" ELSE role

\* While a route file cannot be read, any hand-managed group may be a role.
AppRoleGroups == HandGroup \cap (IF routes.readable THEN routes.roles ELSE Group)
AdminPairedGroups == HandGroup \cap (IF routes.readable THEN routes.paired ELSE Group)

WithoutAppRolesForOutsider(w, G) == IF Role(w) = "deny" THEN G \ AppRoleGroups ELSE G

PairedGroupsKept(w, tier, G) == G

WithoutAdminPairedGroups(w, tier, G) ==
    IF tier = "user" /\ Role(w) = "admin" /\ TOTPEnabled THEN G \ AdminPairedGroups ELSE G

BuildGroups(role, G) == {role} \cup (G \ Roles)

\* The groups of w at the given tier, from the memberships the query returned.
ComputeGroups(w, tier, read) ==
    BuildGroups(tier, WithoutAdminPairedGroups(w, tier, WithoutAppRolesForOutsider(w, read)))

CanAccessApp(s, r) ==
    \/ s.kind = "guest" /\ r.guests
    \/ s.kind = "normal" /\ r.open
    \/ s.kind = "normal" /\ s.who \in r.people
    \/ s.groups \cap r.groups # {}

WantsAdminStep(s, r, t) ==
    /\ s.kind = "normal" /\ Role(s.who) = "admin" /\ ~AdminStepFresh(s, t)
    /\ r.groups \cap ({"admin"} \cup routes.paired) # {}

AdminTierHeld(s, t) == s.kind = "normal" /\ "admin" \in s.groups /\ AdminStepFresh(s, t)

NeedsRenewLate(s, now) == s.kind # "card" /\ now > s.iat + RenewAfter + 1

NeedsRenew(s, now) == s.kind # "card" /\ now > s.iat + RenewAfter

GroupsStaleStrictly(s) == s.kind # "card" /\ changedAt # 0 /\ s.iat < changedAt

GroupsStale(s) == s.kind # "card" /\ changedAt # 0 /\ s.iat <= changedAt

NeverTierStale(s, t) == FALSE

TierStale(s, t) ==
    s.kind = "normal" /\ ("admin" \in s.groups) # (TierRole(s, RenewalRole(s), t) = "admin")

PolicyWithdrawn(s) == s.kind \in {"normal", "guest"} /\ RenewalRole(s) = "deny"

GroupsKept(s) == s.groups

GuestGroupsNow(s) ==
    IF s.kind = "guest" THEN WithoutAppRolesForOutsider(s.who, s.groups) ELSE s.groups

-----------------------------------------------------------------------------
(* Handlers.  pc is the next step; why says what made a renewal due, or    *)
(* "sync" while the feeds' lock is held; read the groups worked out; at    *)
(* the time markGroupsChanged was called with.  had, gone and bar are      *)
(* history: the groups the person has held, those they have not, and the   *)
(* application roles in force, all the time since the request began;       *)
(* failed, whether the database failed it; lost and gained, the            *)
(* memberships this handler has changed.                                   *)

PC == {"idle", "verifyRead", "renewRead", "renewIssue", "decide", "recheck", "confirm",
       "ok", "denied", "loginRead", "loginIssue", "stepRead", "stepIssue", "adminRead",
       "adminDecide", "page", "markArg", "forget", "markDB", "markMemory", "includeCheck", "sync"}

Pair == Person \X Group

Handler == [pc : PC, now : Nat, sess : Session, route : Routes \cup {None},
            why : {"none", "due", "refused", "admin", "sync"}, read : SUBSET (Group \cup Roles),
            gen : Nat, at : Nat, had : SUBSET Group, gone : SUBSET Group, bar : SUBSET Group,
            failed : BOOLEAN, lost : SUBSET Pair, gained : SUBSET Pair,
            include : Includable \cup {None}]

Idle == [pc |-> "idle", now |-> 0, sess |-> NoSession, route |-> None, why |-> "none", read |-> {},
         gen |-> 0, at |-> 0, had |-> {}, gone |-> {}, bar |-> {}, failed |-> FALSE,
         lost |-> {}, gained |-> {}, include |-> None]

At(p, pc) == req[p].pc = pc
Become(p, h) == req' = [req EXCEPT ![p] = h]
Goto(p, pc) == Become(p, [req[p] EXCEPT !.pc = pc])
Stop(p) == Become(p, Idle)

IssueSession(s) ==
    \/ Cardinality(cookies) < MaxCookies /\ cookies' = cookies \cup {s}
    \/ UNCHANGED cookies

Later(t, u) == IF t > u THEN t ELSE u

\* A query of w's groups that fails may have returned some of them.
ReadGroups(w) == SUBSET GroupsForEmail(w)

Pending == adrift \cup UNION {req[p].lost \cup req[p].gained : p \in Proc}
Of(w, pairs) == {g \in Group : <<w, g>> \in pairs}

TypeOK ==
    /\ clock \in Nat \ {0, 1}
    /\ direct \in [Person -> SUBSET (Group \cup Roles)]
    /\ includes \subseteq Includable
    /\ {dbChanged, changedAt, gen, ruledAt} \subseteq Nat
    /\ confirmed \subseteq [who : Person, groups : SUBSET (Group \cup Roles), until : Nat]
    /\ policy \in Policies /\ routes \in RouteFiles
    /\ cookies \subseteq Session
    /\ req \in [Proc -> Handler]
    /\ adrift \subseteq Pair /\ unstored \subseteq Pair
    /\ removedAt \in [Pair -> Nat]

Init ==
    /\ clock = Start
    /\ direct \in [Person -> {Legacy \cup G : G \in SUBSET Group}]
    /\ includes = {}
    /\ dbChanged = 0 /\ changedAt = 0 /\ gen = 0 /\ confirmed = {}
    /\ policy \in Policies /\ routes \in RouteFiles /\ ruledAt = 0
    /\ cookies \in SUBSET Outstanding
    /\ req = [p \in Proc |-> Idle]
    /\ adrift = {} /\ unstored = {}
    /\ removedAt = [x \in Pair |-> 0]

-----------------------------------------------------------------------------
(* GET /verify *)

VerifyBegin(p, s, r) ==
    LET settled == IF s.who \in Person THEN Group \ Of(s.who, Pending) ELSE {}
        member == IF s.who \in Person THEN GroupsForEmail(s.who) ELSE {} IN
    /\ At(p, "idle")
    /\ Become(p, [Idle EXCEPT !.pc = "verifyRead", !.now = clock, !.sess = s, !.route = r,
                              !.had = settled \cap member, !.gone = settled \ member,
                              !.bar = AppRoleGroups])
    /\ UNCHANGED <<clock, db, memory, rules, cookies, history>>

\* readSession, the kind, and the four reasons to renew before deciding.
VerifyRead(p) ==
    LET h == req[p]
        due == \/ NeedsRenew(h.sess, h.now) \/ GroupsStale(h.sess)
               \/ TierStale(h.sess, clock) \/ PolicyWithdrawn(h.sess) IN
    /\ At(p, "verifyRead")
    /\ \/ Stop(p)                                     \* expired or ended
       \/ /\ h.sess.kind # "other"
          /\ IF due THEN Become(p, [h EXCEPT !.pc = "renewRead", !.why = "due"])
             ELSE Goto(p, "decide")
    /\ UNCHANGED <<clock, db, memory, rules, cookies, history>>

\* renewSession up to the cookie: policy, passkey, groups.  A failed query
\* still renews the session, with the groups that were read.
RenewRead(p) ==
    LET h == req[p]
        role == RenewalRole(h.sess) IN
    /\ At(p, "renewRead")
    /\ \/ Stop(p)                                     \* denied, or the passkey is gone
       \/ /\ role # "deny"
          /\ \E read \in ReadGroups(h.sess.who) :
               Become(p, [h EXCEPT !.pc = "renewIssue",
                                   !.read = ComputeGroups(h.sess.who, TierRole(h.sess, role, clock), read),
                                   !.failed = @ \/ read # GroupsForEmail(h.sess.who)])
    /\ UNCHANGED <<clock, db, memory, rules, cookies, history>>

\* The request goes on with the new groups even if the cookie was too large.
RenewIssue(p) ==
    LET h == req[p] IN
    /\ At(p, "renewIssue")
    /\ IssueSession([h.sess EXCEPT !.groups = h.read, !.iat = h.now])
    /\ Become(p, [h EXCEPT !.pc = IF h.why = "admin" THEN "adminDecide" ELSE "decide",
                           !.sess.groups = h.read])
    /\ UNCHANGED <<clock, db, memory, rules, history>>

Fresh(s, now) == \E c \in confirmed : c.who = s.who /\ c.groups = s.groups /\ now < c.until

\* CanAccessApp, the admin door, and whether a refusal reads the groups again.
Decide(p) ==
    LET h == req[p]
        s == [h.sess EXCEPT !.groups = IF h.why = "refused" THEN @ ELSE GuestGroupsNow(h.sess)] IN
    /\ At(p, "decide")
    /\ IF CanAccessApp(s, h.route) THEN Become(p, [h EXCEPT !.pc = "ok", !.sess = s])
       ELSE IF h.why # "refused" /\ WantsAdminStep(s, h.route, clock) THEN Stop(p)
       ELSE IF \/ h.why # "none" \/ s.kind \notin {"normal", "guest"} \/ h.route.groups = {}
               \/ Fresh(s, h.now)
            THEN Become(p, [h EXCEPT !.pc = "denied", !.sess = s])
       ELSE Become(p, [h EXCEPT !.pc = "recheck", !.sess = s, !.gen = gen])
    /\ UNCHANGED <<clock, db, memory, rules, cookies, history>>

\* currentGroups on the refusal path.
Recheck(p) ==
    LET h == req[p]
        role == RenewalRole(h.sess)
        current == ComputeGroups(h.sess.who, TierRole(h.sess, role, clock), GroupsForEmail(h.sess.who)) IN
    /\ At(p, "recheck")
    /\ \/ Become(p, [h EXCEPT !.pc = "denied", !.failed = TRUE])   \* the query failed
       \/ role = "deny" /\ Stop(p)
       \/ role # "deny" /\ current = h.sess.groups /\ Goto(p, "confirm")
       \/ /\ role # "deny" /\ current # h.sess.groups
          /\ \/ Become(p, [h EXCEPT !.pc = "renewIssue", !.why = "refused", !.read = current])
             \/ Stop(p)                                            \* the passkey is gone
    /\ UNCHANGED <<clock, db, memory, rules, cookies, history>>

Confirmation(h) == [who |-> h.sess.who, groups |-> h.sess.groups, until |-> h.now + RecheckTTL]

ConfirmAnyway(p) ==
    /\ At(p, "confirm")
    /\ confirmed' = confirmed \cup {Confirmation(req[p])}
    /\ Goto(p, "denied")
    /\ UNCHANGED <<clock, db, changedAt, gen, rules, cookies, history>>

Confirm(p) ==
    /\ At(p, "confirm")
    /\ confirmed' = IF req[p].gen = gen THEN confirmed \cup {Confirmation(req[p])} ELSE confirmed
    /\ Goto(p, "denied")
    /\ UNCHANGED <<clock, db, changedAt, gen, rules, cookies, history>>

\* The answer to /verify, or the admin page, is sent.
Finish(p) ==
    /\ req[p].pc \in {"ok", "denied", "page"}
    /\ Stop(p)
    /\ UNCHANGED <<clock, db, memory, rules, cookies, history>>

-----------------------------------------------------------------------------
(* Signing in, the admin door and the admin pages *)

\* completeLogin, after an emailed code or a passkey; open says whether the
\* page asked for admits guests, stepped whether an admin passkey was used.
LoginBegin(p, w, open, stepped) ==
    LET kind == IF Role(w) = "deny" THEN "guest" ELSE "normal" IN
    /\ At(p, "idle")
    /\ Role(w) = "deny" => open /\ policy.guests
    /\ stepped => Role(w) = "admin" /\ TOTPEnabled
    /\ Become(p, [Idle EXCEPT !.pc = "loginRead", !.now = clock,
                              !.sess = [who |-> w, kind |-> kind, groups |-> {}, iat |-> clock,
                                        step |-> IF stepped THEN clock ELSE 0]])
    /\ UNCHANGED <<clock, db, memory, rules, cookies, history>>

LoginRead(p) ==
    LET h == req[p]
        role == IF h.sess.kind = "guest" THEN "guest" ELSE Role(h.sess.who)
        tier == TierRole([h.sess EXCEPT !.kind = "normal"], role, clock) IN
    /\ At(p, "loginRead")
    /\ \E read \in ReadGroups(h.sess.who) :
         Become(p, [h EXCEPT !.pc = "loginIssue", !.sess.groups = ComputeGroups(h.sess.who, tier, read)])
    /\ UNCHANGED <<clock, db, memory, rules, cookies, history>>

LoginIssue(p) ==
    /\ At(p, "loginIssue")
    /\ IssueSession(req[p].sess)
    /\ Stop(p)
    /\ UNCHANGED <<clock, db, memory, rules, history>>

\* POST /totp by an administrator who does not hold the tier yet.  The code
\* entered is right: a wrong one changes nothing here.
StepUpBegin(p, s) ==
    /\ At(p, "idle")
    /\ s.kind = "normal" /\ Role(s.who) = "admin" /\ TOTPEnabled /\ ~AdminTierHeld(s, clock)
    /\ Become(p, [Idle EXCEPT !.pc = "stepRead", !.now = clock, !.sess = s])
    /\ UNCHANGED <<clock, db, memory, rules, cookies, history>>

StepUpRead(p) ==
    LET h == req[p] IN
    /\ At(p, "stepRead")
    /\ \E read \in ReadGroups(h.sess.who) :
         Become(p, [h EXCEPT !.pc = "stepIssue", !.sess.iat = h.now, !.sess.step = h.now,
                             !.sess.groups = ComputeGroups(h.sess.who, "admin", read)])
    /\ UNCHANGED <<clock, db, memory, rules, cookies, history>>

StepUpIssue(p) ==
    /\ At(p, "stepIssue")
    /\ IssueSession(req[p].sess)
    /\ Stop(p)
    /\ UNCHANGED <<clock, db, memory, rules, history>>

AdminBegin(p, s) ==
    /\ At(p, "idle")
    /\ Become(p, [Idle EXCEPT !.pc = "adminRead", !.now = clock, !.sess = s])
    /\ UNCHANGED <<clock, db, memory, rules, cookies, history>>

\* requireAdmin: the page, a renewal that may bring the admin tier, or the
\* login page or admin door.
AdminRead(p) ==
    LET h == req[p]
        admin == h.sess.kind = "normal" /\ Role(h.sess.who) = "admin" IN
    /\ At(p, "adminRead")
    /\ \/ Stop(p)                                     \* ended, or the passkey is gone
       \/ /\ admin
          /\ IF AdminTierHeld(h.sess, clock) THEN Goto(p, "page")
             ELSE IF AdminStepFresh(h.sess, clock)
                  THEN Become(p, [h EXCEPT !.pc = "renewRead", !.now = clock, !.why = "admin"])
             ELSE Stop(p)
       \/ ~admin /\ Stop(p)
    /\ UNCHANGED <<clock, db, memory, rules, cookies, history>>

AdminDecide(p) ==
    /\ At(p, "adminDecide")
    /\ IF AdminTierHeld(req[p].sess, clock) THEN Goto(p, "page") ELSE Stop(p)
    /\ UNCHANGED <<clock, db, memory, rules, cookies, history>>

-----------------------------------------------------------------------------
(* Changes of membership: the database, then markGroupsChanged *)

\* Handler p moves to h as the memberships become d and the includes i.  A
\* request under way no longer held, or did not hold, what changed meanwhile.
Change(p, h, d, i) ==
    LET before == [w \in Person |-> GroupsForEmail(w)]
        after == [w \in Person |-> GroupsForEmail(w)']
        lost == {x \in Pair : x[2] \in before[x[1]] \ after[x[1]]}
        gained == {x \in Pair : x[2] \in after[x[1]] \ before[x[1]]} IN
    /\ direct' = d /\ includes' = i
    /\ req' = [q \in Proc |->
         IF q = p THEN IF h = Idle THEN h ELSE [h EXCEPT !.lost = lost, !.gained = gained]
         ELSE [req[q] EXCEPT !.had = @ \ Of(req[q].sess.who, lost),
                             !.gone = @ \ Of(req[q].sess.who, gained)]]
    /\ removedAt' = [x \in Pair |-> IF x \in lost THEN clock ELSE removedAt[x]]
    /\ UNCHANGED <<clock, dbChanged, memory, rules, cookies>>

Announcing == [Idle EXCEPT !.pc = "markArg"]

AddGroupMembers(w, g) == [direct EXCEPT ![w] = @ \cup {g}]

RemoveGroupMember(w, g) == [direct EXCEPT ![w] = @ \ {g}]

\* The confirmation page refuses an outsider for a role; here the role may have
\* come to be one since.
AddMember(p, w, g) ==
    /\ At(p, "idle") /\ gen < MaxGen
    /\ g \in HandGroup
    /\ Change(p, Announcing, AddGroupMembers(w, g), includes)
    /\ UNCHANGED <<adrift, unstored>>

RemoveMember(p, w, g) ==
    /\ At(p, "idle") /\ gen < MaxGen
    /\ g \in HandGroup
    /\ Change(p, Announcing, RemoveGroupMember(w, g), includes)
    /\ UNCHANGED <<adrift, unstored>>

\* Its members and the includes of it and in it go with a group.
DeleteGroup(p, g) ==
    /\ At(p, "idle") /\ gen < MaxGen
    /\ g \in HandGroup
    /\ Change(p, Announcing, [w \in Person |-> direct[w] \ {g}],
              {i \in includes : g \notin {i[1], i[2]}})
    /\ UNCHANGED <<adrift, unstored>>

RemoveInclude(p, i) ==
    /\ At(p, "idle") /\ gen < MaxGen
    /\ i \in includes
    /\ Change(p, Announcing, direct, includes \ {i})
    /\ UNCHANGED <<adrift, unstored>>

\* An include that would close a cycle is refused (AddGroupInclude); one that
\* is there already is added again.
AddInclude(p, i) ==
    /\ At(p, "idle") /\ gen < MaxGen
    /\ i \in Includable /\ ~ClosesCycle(i)
    /\ Change(p, [Idle EXCEPT !.pc = "includeCheck", !.include = i], direct, includes \cup {i})
    /\ UNCHANGED <<adrift, unstored>>

\* appRoleOutsiders finds nothing wrong.
IncludeStands(p) ==
    /\ At(p, "includeCheck")
    /\ Goto(p, "markArg")
    /\ UNCHANGED <<clock, db, memory, rules, cookies, history>>

\* It finds an outsider, or fails: the include is undone, even one that was
\* there before, and nothing is announced.
UndoInclude(p) ==
    /\ At(p, "includeCheck") /\ ChecksFail
    /\ Change(p, Idle, direct, includes \ {req[p].include})
    /\ adrift' = adrift \cup {x \in req[p].gained : Held(x)'}
    /\ UNCHANGED unstored

\* Undoing fails too and is only logged.
UndoFails(p) ==
    /\ At(p, "includeCheck") /\ ChecksFail
    /\ adrift' = adrift \cup req[p].gained
    /\ Stop(p)
    /\ UNCHANGED <<clock, db, memory, rules, cookies, unstored, removedAt>>

\* A feed sync (one at a time, up to its mark) takes the time, fetches, and applies.
SyncBegin(p) ==
    /\ At(p, "idle") /\ gen < MaxGen
    /\ FeedGroup # {} /\ \A q \in Proc : req[q].why # "sync"
    /\ Become(p, [Idle EXCEPT !.pc = "sync", !.why = "sync", !.at = clock])
    /\ UNCHANGED <<clock, db, memory, rules, cookies, history>>

\* ApplyGroupSync, in one transaction, or nothing to apply.
SyncApply(p) ==
    /\ At(p, "sync")
    /\ \E g \in FeedGroup, members \in SUBSET Person :
         LET d == [w \in Person |-> IF w \in members THEN direct[w] \cup {g} ELSE direct[w] \ {g}] IN
         Change(p, IF d = direct THEN Idle ELSE [req[p] EXCEPT !.pc = "forget"], d, includes)
    /\ UNCHANGED <<adrift, unstored>>

\* The argument s.now() of markGroupsChanged.
MarkArg(p) ==
    /\ At(p, "markArg")
    /\ Become(p, [req[p] EXCEPT !.pc = "forget", !.at = clock])
    /\ UNCHANGED <<clock, db, memory, rules, cookies, history>>

ForgetAll(p) ==
    /\ At(p, "forget")
    /\ confirmed' = {} /\ gen' = gen + 1
    /\ adrift' = {x \in adrift : ~Held(x)}
    /\ Goto(p, "markDB")
    /\ UNCHANGED <<clock, db, changedAt, rules, cookies, unstored, removedAt>>

\* A write that fails is only logged.
MarkDB(p) ==
    LET h == req[p] IN
    /\ At(p, "markDB")
    /\ \/ /\ dbChanged' = Later(h.at, dbChanged)
          /\ unstored' = {x \in unstored : removedAt[x] > h.at}
       \/ /\ unstored' = unstored \cup adrift \cup h.lost
          /\ UNCHANGED dbChanged
    /\ Goto(p, "markMemory")
    /\ UNCHANGED <<clock, direct, includes, memory, rules, cookies, adrift, removedAt>>

\* The mark is in memory, and the administrator is told of the change.
MarkMemory(p) ==
    LET h == req[p] IN
    /\ At(p, "markMemory")
    /\ changedAt' = Later(h.at, changedAt)
    /\ adrift' = {x \in adrift : Held(x) \/ removedAt[x] > h.at}
    /\ Stop(p)
    /\ UNCHANGED <<clock, db, gen, confirmed, rules, cookies, unstored, removedAt>>

-----------------------------------------------------------------------------
(* Time, the route files, and a stop and start of the gateway *)

Tick ==
    /\ clock < MaxClock
    /\ clock' = clock + 1
    /\ UNCHANGED <<db, memory, rules, cookies, req, history>>

\* The route files are written by the deployment.
RoutesChange ==
    /\ routes' \in RouteFiles \ {routes}
    /\ ruledAt' = clock
    /\ req' = [p \in Proc |-> [req[p] EXCEPT !.bar = @ \cap AppRoleGroups']]
    /\ UNCHANGED <<clock, db, memory, policy, cookies, history>>

\* newSessionCutoffs and newGroupRecheck; the configuration may have changed.
Restart ==
    /\ req' = [p \in Proc |-> Idle]
    /\ changedAt' = dbChanged /\ gen' = 0 /\ confirmed' = {}
    /\ policy' \in Policies
    /\ ruledAt' = IF policy' = policy THEN ruledAt ELSE clock
    /\ adrift' = adrift \cup unstored \cup UNION {req[p].lost : p \in Proc}
    /\ unstored' = {}
    /\ UNCHANGED <<clock, db, routes, cookies, removedAt>>

Begin(p) ==
    \/ \E s \in cookies : (\E r \in Routes : VerifyBegin(p, s, r)) \/ StepUpBegin(p, s) \/ AdminBegin(p, s)
    \/ \E w \in Person : \/ \E open, stepped \in BOOLEAN : LoginBegin(p, w, open, stepped)
                         \/ \E g \in Group : AddMember(p, w, g) \/ RemoveMember(p, w, g)
    \/ \E g \in Group : DeleteGroup(p, g)
    \/ \E i \in Includable : AddInclude(p, i) \/ RemoveInclude(p, i)
    \/ SyncBegin(p)

Continue(p) ==
    \/ VerifyRead(p) \/ RenewRead(p) \/ RenewIssue(p) \/ Decide(p) \/ Recheck(p) \/ Confirm(p) \/ Finish(p)
    \/ LoginRead(p) \/ LoginIssue(p) \/ StepUpRead(p) \/ StepUpIssue(p) \/ AdminRead(p) \/ AdminDecide(p)
    \/ IncludeStands(p) \/ UndoInclude(p) \/ UndoFails(p) \/ SyncApply(p)
    \/ MarkArg(p) \/ ForgetAll(p) \/ MarkDB(p) \/ MarkMemory(p)

Next ==
    \/ \E p \in Proc : Begin(p) \/ Continue(p)
    \/ Tick \/ RoutesChange \/ Restart

Spec == Init /\ [][Next]_vars

-----------------------------------------------------------------------------
(* Properties *)

\* An announced removal reaches every later request: no request is answered
\* with a group its person has not held since the request began
\* (session_cutoffs.go: a removal "takes effect at once rather than at the
\* next scheduled renewal").
RemovalReachesAnswers ==
    \A p \in Proc : At(p, "ok") => req[p].sess.groups \cap req[p].gone = {}

\* However a removal goes wrong (the gateway stops before announcing it, or
\* its mark is lost, late, or never made), no request is answered with the
\* group once a renewal has come due.
RemovedGroupWindow ==
    \A p \in Proc :
        LET s == req[p].sess IN
        At(p, "ok") /\ s.kind # "card" =>
            \A g \in s.groups \cap Group :
                \/ g \in GroupsForEmail(s.who)
                \/ req[p].now <= removedAt[<<s.who, g>>] + RenewAfter

\* An ordinary user is never refused a route that names a group they have
\* held since before the request began, however the recheck cache, renewals
\* and membership changes interleave, unless the database failed the request
\* (group_recheck.go: a change "is seen on the very next request").
AdditionReachesAnswers ==
    \A p \in Proc :
        LET h == req[p] IN
        At(p, "denied") /\ h.sess.kind = "normal" /\ Role(h.sess.who) = "user" /\ ~h.failed
            => h.route.groups \cap h.had = {}

\* Apps and admin pages see the admin tier only on a normal session of a
\* current administrator whose second step is recent, and anybody only while
\* the policy admits them, although cookies outlive policy and step.
TierFollowsPolicy ==
    \A p \in Proc :
        LET h == req[p] IN
        h.pc \in {"ok", "page"} =>
            /\ "admin" \in h.sess.groups \/ h.pc = "page" =>
                 /\ h.sess.kind = "normal" /\ Role(h.sess.who) = "admin"
                 /\ AdminStepFresh(h.sess, h.now)
            /\ h.sess.kind \in {"normal", "guest"} => RenewalRole(h.sess) # "deny"

\* An administrator whose second step is not recent holds no application's
\* admin role, except that a change of the policy or the route files may take
\* until the next renewal to be felt (withoutAdminPairedGroups).
AdminRolesNeedStep ==
    \A p \in Proc :
        LET h == req[p] IN
        (/\ At(p, "ok") /\ h.sess.kind = "normal" /\ Role(h.sess.who) = "admin"
         /\ ~AdminStepFresh(h.sess, h.now))
            => \/ h.sess.groups \cap HandGroup \cap routes.paired = {}
               \/ ruledAt # 0 /\ h.now <= ruledAt + RenewAfter

\* A stranger is never answered with a group that has been an application's
\* role since the request began: not one it was in before the group became a
\* role, not one reached through an include, not while the route files cannot
\* be read (guestGroupsNow, withoutAppRolesForOutsider).
GuestsHoldNoAppRole ==
    \A p \in Proc :
        LET h == req[p] IN
        At(p, "ok") /\ h.sess.kind = "guest" /\ Role(h.sess.who) = "deny"
            => h.sess.groups \cap h.bar = {}
=============================================================================
