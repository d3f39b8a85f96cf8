------------------------- MODULE SessionGroupsProofs -------------------------
(***************************************************************************)
(* Proofs about SessionGroups.                                             *)
(*                                                                         *)
(* What each step does to a handler is said once, field by field; then one *)
(* invariant for each question, each resting on the ones before:           *)
(*   BaseInv   the types, the person each handler serves, the times;       *)
(*   DoorInv   sessions fit the policy and the route files in force;       *)
(*   HeldInv   sessions carry what was held, or lost within the period;    *)
(*   AddInv    what was settled when a request began is in its session or  *)
(*             waits to be announced, and remembered refusals leave out    *)
(*             nothing that was announced;                                 *)
(*   RemInv    every loss is marked in memory and in the database, or the  *)
(*             handler that made it is about to (HandsOnly).               *)
(***************************************************************************)
EXTENDS SessionGroups, TLAPS

\* The kinds of session the gateway issues to people, and what a policy says of one.
Kinds == {"normal", "guest"}
Deciders == {"deny", "user", "admin"}

\* What the configuration and the route files may say.
LEMMA Constants ==
    /\ Group \cap Roles = {} /\ HandGroup \subseteq Group /\ None \notin Person
    /\ Start \in Nat /\ Start > 1 /\ RenewAfter \in Nat /\ StepMaxAge \in Nat /\ TOTPEnabled \in BOOLEAN
    /\ RecheckTTL \in Nat
    /\ \A x \in Policies : x.role \in [Person -> Deciders] /\ x.guests \in BOOLEAN
    /\ \A x \in RouteFiles : x.roles \subseteq Group /\ x.paired \subseteq Group /\ x.readable \in BOOLEAN
  <1>1. /\ Start \in Nat /\ Start > 1 /\ RenewAfter \in Nat /\ StepMaxAge \in Nat /\ TOTPEnabled \in BOOLEAN
        /\ RecheckTTL \in Nat
    BY GroupsAssumption
  <1>2. Group \cap Roles = {} /\ HandGroup \subseteq Group /\ None \notin Person
    BY GroupsAssumption, OutstandingAssumption DEF HandGroup
  <1>3. \A x \in Policies : x.role \in [Person -> Deciders] /\ x.guests \in BOOLEAN
    BY GroupsAssumption DEF Deciders
  <1>4. \A x \in RouteFiles : x.roles \subseteq Group /\ x.paired \subseteq Group /\ x.readable \in BOOLEAN
    BY GroupsAssumption
  <1> QED BY <1>1, <1>2, <1>3, <1>4

-----------------------------------------------------------------------------
(* Working out groups *)

\* The groups of a person are the groups they are in and some groups above.
LEMMA UpTypes ==
    ASSUME NEW G \in SUBSET (Group \cup Roles)
    PROVE  G \subseteq Up(G) /\ Up(G) \in SUBSET (Group \cup Roles)
  BY DEF Up

\* Fewer includes reach no more groups.
LEMMA UpShrinks ==
    ASSUME NEW G, includes' \subseteq includes
    PROVE  Up(G)' \subseteq Up(G)
  BY DEF Up, ClosedUp

\* A person's groups are groups of the database, and reserved names left in it.
LEMMA HeldTypes ==
    ASSUME direct \in [Person -> SUBSET (Group \cup Roles)]
    PROVE  \A w \in Person : GroupsForEmail(w) \in SUBSET (Group \cup Roles)
  BY UpTypes DEF GroupsForEmail

\* What a session's groups are made of, and what is left out of them.
LEMMA Computed ==
    ASSUME policy \in Policies, routes \in RouteFiles, NEW w \in Person, NEW tier \in Roles,
           NEW read \in SUBSET (Group \cup Roles), NEW G, G = ComputeGroups(w, tier, read)
    PROVE  /\ G \in SUBSET (Group \cup Roles)
           /\ G \cap Group \subseteq read
           /\ "admin" \in G <=> tier = "admin"
           /\ Role(w) = "user" => read \cap Group \subseteq G
           /\ Role(w) = "deny" => G \cap AppRoleGroups = {}
           /\ Role(w) = "admin" /\ TOTPEnabled /\ tier = "user" => G \cap AdminPairedGroups = {}
  <1>1. Group \cap Roles = {} /\ AppRoleGroups \subseteq Group /\ AdminPairedGroups \subseteq Group
    BY Constants DEF AppRoleGroups, AdminPairedGroups
  <1> DEFINE R == WithoutAdminPairedGroups(w, tier, WithoutAppRolesForOutsider(w, read))
  <1>2. /\ R \subseteq read
        /\ Role(w) = "user" => R = read
        /\ Role(w) = "deny" => R \cap AppRoleGroups = {}
        /\ Role(w) = "admin" /\ TOTPEnabled /\ tier = "user" => R \cap AdminPairedGroups = {}
    BY DEF WithoutAdminPairedGroups, WithoutAppRolesForOutsider
  <1>3. G = {tier} \cup (R \ Roles)
    BY DEF ComputeGroups, BuildGroups
  <1> HIDE DEF R
  <1>4. "admin" \in Roles /\ tier \notin Group
    BY <1>1 DEF Roles
  <1> QED BY <1>1, <1>2, <1>3, <1>4

\* Whom the policy admits, and as what.
LEMMA RolesGiven ==
    ASSUME policy \in Policies, NEW s, s.who \in Person, s.kind \in Kinds, NEW t
    PROVE  /\ Role(s.who) \in Deciders
           /\ RenewalRole(s) # "deny" => RenewalRole(s) \in Roles /\ TierRole(s, RenewalRole(s), t) \in Roles
           /\ s.kind = "normal" => RenewalRole(s) = Role(s.who)
           /\ s.kind = "guest" => RenewalRole(s) \in {"guest", "deny"}
           /\ TierRole(s, RenewalRole(s), t) = "admin" =>
                s.kind = "normal" /\ Role(s.who) = "admin" /\ AdminStepFresh(s, t)
           /\ RenewalRole(s) = "admin" => TierRole(s, RenewalRole(s), t) \in {"admin", "user"}
  BY Constants DEF Role, RenewalRole, TierRole, Roles, Deciders, Kinds

-----------------------------------------------------------------------------
(* What each step does to a handler, field by field *)

\* A handler that answers a request, one that reads the cookie as it came, one
\* that has a person's session, and one that changes memberships.
Reading == {"verifyRead", "adminRead", "stepRead"}
Sitting == {"renewRead", "renewIssue", "recheck", "confirm", "loginRead", "loginIssue", "stepRead", "stepIssue"}
Answering == {"decide", "recheck", "confirm", "ok", "denied"}
Serving == Reading \cup Sitting \cup Answering \cup {"adminDecide", "page"}
Unmarked == {"includeCheck", "markArg", "forget"}
Changing == Unmarked \cup {"markDB", "markMemory", "sync"}

\* k is h as another handler's step leaves it: less is known of its person's groups.
Aside(h, k) ==
    /\ k.pc = h.pc /\ k.now = h.now /\ k.sess = h.sess /\ k.route = h.route /\ k.why = h.why
    /\ k.read = h.read /\ k.gen = h.gen /\ k.at = h.at /\ k.failed = h.failed
    /\ k.lost = h.lost /\ k.gained = h.gained /\ k.include = h.include
    /\ k.had \subseteq h.had /\ k.gone \subseteq h.gone /\ k.bar \subseteq h.bar

\* k is h further on in the same request.
Onward(h, k) ==
    /\ k.now = h.now /\ k.route = h.route /\ k.had = h.had /\ k.gone = h.gone /\ k.bar = h.bar
    /\ k.lost = h.lost /\ k.gained = h.gained

\* s is t with other groups.
SameSession(s, t) == s.who = t.who /\ s.kind = t.kind /\ s.iat = t.iat /\ s.step = t.step

\* The fields of a handler and of its session.
LEMMA Fields ==
    ASSUME TypeOK, NEW p \in Proc
    PROVE  /\ req[p] \in Handler /\ req[p].pc \in PC /\ req[p].now \in Nat /\ req[p].sess \in Session
           /\ req[p].read \in SUBSET (Group \cup Roles) /\ req[p].gen \in Nat /\ req[p].at \in Nat
           /\ req[p].had \in SUBSET Group /\ req[p].gone \in SUBSET Group /\ req[p].bar \in SUBSET Group
           /\ req[p].failed \in BOOLEAN /\ req[p].lost \in SUBSET Pair /\ req[p].gained \in SUBSET Pair
           /\ req[p].why \in {"none", "due", "refused", "admin", "sync"}
           /\ req[p].sess.who \in Person \cup {None} /\ req[p].sess.iat \in Nat /\ req[p].sess.step \in Nat
           /\ req[p].sess.groups \in SUBSET (Group \cup Roles)
           /\ req[p].sess.kind \in {"normal", "guest", "card", "other"}
           /\ req[p].include \in Includable \cup {None}
  BY DEF TypeOK, Handler, Session

\* The empty handler.
LEMMA IdleOK == Idle \in Handler /\ Idle.pc = "idle" /\ Idle.sess = NoSession /\ NoSession \in Session
                /\ Idle.had = {} /\ Idle.gone = {} /\ Idle.bar = {} /\ Idle.lost = {} /\ Idle.gained = {}
  BY DEF Idle, Handler, NoSession, Session, PC

\* One handler moves and no other does.
LEMMA Becomes ==
    ASSUME TypeOK, NEW p \in Proc, NEW k, Become(p, k)
    PROVE  req'[p] = k /\ \A q \in Proc \ {p} : req'[q] = req[q]
  BY DEF TypeOK, Become

\* The actions that answer people.
Serves(p) ==
    \/ \E s \in cookies : (\E r \in Routes : VerifyBegin(p, s, r)) \/ StepUpBegin(p, s) \/ AdminBegin(p, s)
    \/ \E w \in Person, open, stepped \in BOOLEAN : LoginBegin(p, w, open, stepped)
    \/ VerifyRead(p) \/ RenewRead(p) \/ RenewIssue(p) \/ Decide(p) \/ Recheck(p) \/ Confirm(p) \/ Finish(p)
    \/ LoginRead(p) \/ LoginIssue(p) \/ StepUpRead(p) \/ StepUpIssue(p) \/ AdminRead(p) \/ AdminDecide(p)

\* The actions that change memberships, and those that announce the change.
Changes(p) ==
    \/ \E w \in Person, g \in Group : AddMember(p, w, g) \/ RemoveMember(p, w, g)
    \/ \E g \in Group : DeleteGroup(p, g)
    \/ \E i \in Includable : AddInclude(p, i) \/ RemoveInclude(p, i)
    \/ UndoInclude(p) \/ SyncApply(p)

Announces(p) ==
    \/ SyncBegin(p) \/ IncludeStands(p) \/ UndoFails(p)
    \/ MarkArg(p) \/ ForgetAll(p) \/ MarkDB(p) \/ MarkMemory(p)

\* Every step but the passing of time and the rules' own serves, changes or announces.
LEMMA NextCases ==
    ASSUME Next
    PROVE  (\E p \in Proc : Serves(p) \/ Changes(p) \/ Announces(p)) \/ Tick \/ RoutesChange \/ Restart
  <1>1. ASSUME NEW p \in Proc, Begin(p)
        PROVE  Serves(p) \/ Changes(p) \/ Announces(p)
    BY <1>1 DEF Begin, Serves, Changes, Announces
  <1>2. ASSUME NEW p \in Proc, Continue(p)
        PROVE  Serves(p) \/ Changes(p) \/ Announces(p)
    BY <1>2 DEF Continue, Serves, Changes, Announces
  <1> QED BY <1>1, <1>2 DEF Next

\* Answering people changes no membership, no mark and no rule.
LEMMA ServesFrame ==
    ASSUME TypeOK, NEW p \in Proc, Serves(p)
    PROVE  /\ UNCHANGED <<clock, direct, includes, dbChanged, changedAt, gen>>
           /\ UNCHANGED <<policy, routes, ruledAt, adrift, unstored, removedAt>>
           /\ \A q \in Proc \ {p} : req'[q] = req[q]
           /\ req' = [req EXCEPT ![p] = req'[p]]
  <1>1. /\ UNCHANGED <<clock, direct, includes, dbChanged, changedAt, gen>>
        /\ UNCHANGED <<policy, routes, ruledAt, adrift, unstored, removedAt>>
    BY DEF Serves, VerifyBegin, StepUpBegin, AdminBegin, LoginBegin, VerifyRead, RenewRead, RenewIssue,
           Decide, Recheck, Confirm, Finish, LoginRead, LoginIssue, StepUpRead, StepUpIssue, AdminRead,
           AdminDecide, db, memory, rules, history
  <1>2. \E k : Become(p, k)
    <2>1. CASE \E s \in cookies : (\E r \in Routes : VerifyBegin(p, s, r)) \/ StepUpBegin(p, s) \/ AdminBegin(p, s)
      BY <2>1 DEF VerifyBegin, StepUpBegin, AdminBegin
    <2>2. CASE \E w \in Person, open, stepped \in BOOLEAN : LoginBegin(p, w, open, stepped)
      BY <2>2 DEF LoginBegin
    <2>3. CASE VerifyRead(p) \/ RenewRead(p) \/ RenewIssue(p) \/ Decide(p)
      BY <2>3 DEF VerifyRead, RenewRead, RenewIssue, Decide, Stop, Goto
    <2>4. CASE Recheck(p) \/ Confirm(p) \/ Finish(p)
      BY <2>4 DEF Recheck, Confirm, Finish, Stop, Goto
    <2>5. CASE LoginRead(p) \/ LoginIssue(p) \/ StepUpRead(p) \/ StepUpIssue(p) \/ AdminRead(p) \/ AdminDecide(p)
      BY <2>5 DEF LoginRead, LoginIssue, StepUpRead, StepUpIssue, AdminRead, AdminDecide, Stop, Goto
    <2> QED BY <2>1, <2>2, <2>3, <2>4, <2>5 DEF Serves
  <1> QED BY <1>1, <1>2, Becomes DEF Become, TypeOK

\* Announcing a change touches no cookie, no rule and no membership.
LEMMA AnnouncesFrame ==
    ASSUME TypeOK, NEW p \in Proc, Announces(p)
    PROVE  /\ UNCHANGED <<clock, direct, includes, cookies, policy, routes, ruledAt, removedAt>>
           /\ \A q \in Proc \ {p} : req'[q] = req[q]
           /\ req' = [req EXCEPT ![p] = req'[p]]
           /\ req[p].pc \in Changing \cup {"idle"} /\ req'[p].pc \in Changing \cup {"idle"}
           /\ req'[p] \in Handler
           /\ req'[p].had = {} \/ req'[p].had = req[p].had
           /\ req'[p].gone = {} \/ req'[p].gone = req[p].gone
           /\ req'[p].bar = {} \/ req'[p].bar = req[p].bar
           /\ req'[p].sess = NoSession \/ req'[p].sess = req[p].sess
  <1>0. req[p] \in Handler /\ clock \in Nat
    BY Fields DEF TypeOK
  <1>1. CASE SyncBegin(p)
    <2> DEFINE k == [Idle EXCEPT !.pc = "sync", !.why = "sync", !.at = clock]
    <2>1. k \in Handler /\ k.pc = "sync" /\ k.had = {} /\ k.gone = {} /\ k.bar = {} /\ k.sess = NoSession
      BY <1>0, IdleOK DEF Handler, PC
    <2>2. Become(p, k)
      BY <1>1 DEF SyncBegin
    <2> HIDE DEF k
    <2> QED BY <1>1, <2>1, <2>2, Becomes DEF SyncBegin, Become, At, Changing, db, memory, rules, history, TypeOK
  <1>2. CASE UndoFails(p) \/ MarkMemory(p)
    <2>1. Become(p, Idle)
      BY <1>2 DEF UndoFails, MarkMemory, Stop
    <2> QED BY <1>2, <2>1, IdleOK, Becomes DEF UndoFails, MarkMemory, Become, At, Changing, db, memory, rules, history, TypeOK,
                                              Unmarked
  <1>3. ASSUME NEW pc \in Changing, NEW t \in Nat, Become(p, [req[p] EXCEPT !.pc = pc, !.at = t])
               \/ Become(p, [req[p] EXCEPT !.pc = pc])
        PROVE  /\ \A q \in Proc \ {p} : req'[q] = req[q]
               /\ req' = [req EXCEPT ![p] = req'[p]] /\ req'[p].pc = pc
               /\ req'[p] \in Handler /\ req'[p].had = req[p].had /\ req'[p].gone = req[p].gone
               /\ req'[p].bar = req[p].bar /\ req'[p].sess = req[p].sess
    <2>1. CASE Become(p, [req[p] EXCEPT !.pc = pc, !.at = t])
      <3> DEFINE k == [req[p] EXCEPT !.pc = pc, !.at = t]
      <3>1. k \in Handler /\ k.had = req[p].had /\ k.gone = req[p].gone /\ k.pc = pc /\ k.bar = req[p].bar
            /\ k.sess = req[p].sess
        BY <1>0 DEF Handler, PC, Changing, Unmarked
      <3> HIDE DEF k
      <3> QED BY <2>1, <3>1, Becomes DEF Become, TypeOK, k
    <2>2. CASE Become(p, [req[p] EXCEPT !.pc = pc])
      <3> DEFINE k == [req[p] EXCEPT !.pc = pc]
      <3>1. k \in Handler /\ k.had = req[p].had /\ k.gone = req[p].gone /\ k.pc = pc /\ k.bar = req[p].bar
            /\ k.sess = req[p].sess
        BY <1>0 DEF Handler, PC, Changing, Unmarked
      <3> HIDE DEF k
      <3> QED BY <2>2, <3>1, Becomes DEF Become, TypeOK, k
    <2> QED BY <1>3, <2>1, <2>2
  <1>4. CASE IncludeStands(p)
    <2>1. Become(p, [req[p] EXCEPT !.pc = "markArg"]) /\ "markArg" \in Changing
      BY <1>4 DEF IncludeStands, Goto, Changing, Unmarked
    <2> QED BY <1>3, <1>4, <2>1, <1>0 DEF IncludeStands, At, Changing, Unmarked, db, memory, rules, history
  <1>5. CASE MarkArg(p)
    <2>1. Become(p, [req[p] EXCEPT !.pc = "forget", !.at = clock]) /\ "forget" \in Changing
      BY <1>5 DEF MarkArg, Changing, Unmarked
    <2> QED BY <1>3, <1>5, <2>1, <1>0 DEF MarkArg, At, Changing, Unmarked, db, memory, rules, history
  <1>6. CASE ForgetAll(p)
    <2>1. Become(p, [req[p] EXCEPT !.pc = "markDB"]) /\ "markDB" \in Changing
      BY <1>6 DEF ForgetAll, Goto, Changing
    <2> QED BY <1>3, <1>6, <2>1, <1>0 DEF ForgetAll, At, Changing, Unmarked, db, memory, rules, history
  <1>7. CASE MarkDB(p)
    <2>1. Become(p, [req[p] EXCEPT !.pc = "markMemory"]) /\ "markMemory" \in Changing
      BY <1>7 DEF MarkDB, Goto, Changing
    <2> QED BY <1>3, <1>7, <2>1, <1>0 DEF MarkDB, At, Changing, Unmarked, db, memory, rules, history
  <1> QED BY <1>1, <1>2, <1>4, <1>5, <1>6, <1>7 DEF Announces

-----------------------------------------------------------------------------
(* Changes of membership *)

\* The step ends or begins the membership x.
Ends(x) == Held(x) /\ ~Held(x)'
Begins(x) == ~Held(x) /\ Held(x)'

\* A change moves its own handler, takes what changed from the others, and
\* dates what was lost.
LEMMA ChangeDoes ==
    ASSUME TypeOK, NEW p \in Proc, NEW k \in Handler, NEW d, NEW i, Change(p, k, d, i)
    PROVE  /\ UNCHANGED <<clock, dbChanged, changedAt, gen, confirmed, policy, routes, ruledAt, cookies>>
           /\ direct' = d /\ includes' = i
           /\ \A x \in Pair : removedAt'[x] = IF Ends(x) THEN clock ELSE removedAt[x]
           /\ removedAt' \in [Pair -> Nat]
           /\ req' \in [Proc -> Handler]
           /\ k = Idle => req'[p] = Idle
           /\ k # Idle => /\ req'[p].lost = {x \in Pair : Ends(x)} /\ req'[p].gained = {x \in Pair : Begins(x)}
                          /\ req'[p].pc = k.pc /\ req'[p].at = k.at /\ req'[p].sess = k.sess
                          /\ req'[p].had = k.had /\ req'[p].gone = k.gone /\ req'[p].bar = k.bar
           /\ \A q \in Proc \ {p} :
                /\ Aside(req[q], req'[q]) /\ req'[q].bar = req[q].bar
                /\ \A w \in Person, g \in Group : w = req[q].sess.who =>
                     /\ g \in req'[q].had => ~Ends(<<w, g>>)
                     /\ g \in req'[q].gone => ~Begins(<<w, g>>)
  <1> DEFINE before == [w \in Person |-> GroupsForEmail(w)]
             after == [w \in Person |-> GroupsForEmail(w)']
             lost == {x \in Pair : x[2] \in before[x[1]] \ after[x[1]]}
             gained == {x \in Pair : x[2] \in after[x[1]] \ before[x[1]]}
  <1>1. /\ direct' = d /\ includes' = i
        /\ req' = [q \in Proc |->
             IF q = p THEN IF k = Idle THEN k ELSE [k EXCEPT !.lost = lost, !.gained = gained]
             ELSE [req[q] EXCEPT !.had = @ \ Of(req[q].sess.who, lost),
                                 !.gone = @ \ Of(req[q].sess.who, gained)]]
        /\ removedAt' = [x \in Pair |-> IF x \in lost THEN clock ELSE removedAt[x]]
        /\ UNCHANGED <<clock, dbChanged, memory, rules, cookies>>
    BY DEF Change
  <1>2. \A x \in Pair : x[1] \in Person /\ before[x[1]] = GroupsForEmail(x[1]) /\ after[x[1]] = GroupsForEmail(x[1])'
    BY DEF Pair
  <1>3. lost = {x \in Pair : Ends(x)} /\ gained = {x \in Pair : Begins(x)}
    <2>1. \A x \in Pair : (x \in lost <=> Ends(x)) /\ (x \in gained <=> Begins(x))
      BY <1>2 DEF Ends, Begins, Held
    <2>2. lost \subseteq Pair /\ gained \subseteq Pair
      OBVIOUS
    <2> HIDE DEF lost, gained
    <2> QED BY <2>1, <2>2
  <1>4. lost \subseteq Pair /\ gained \subseteq Pair
    OBVIOUS
  <1> HIDE DEF before, after, lost, gained
  <1>5. /\ UNCHANGED <<clock, dbChanged, changedAt, gen, confirmed, policy, routes, ruledAt, cookies>>
        /\ \A x \in Pair : removedAt'[x] = IF Ends(x) THEN clock ELSE removedAt[x]
        /\ removedAt' \in [Pair -> Nat]
    BY <1>1, <1>3 DEF memory, rules, TypeOK
  <1>6. /\ k = Idle => req'[p] = Idle
        /\ k # Idle => /\ req'[p].lost = lost /\ req'[p].gained = gained
                       /\ req'[p].pc = k.pc /\ req'[p].at = k.at /\ req'[p].sess = k.sess
                       /\ req'[p].had = k.had /\ req'[p].gone = k.gone /\ req'[p].bar = k.bar
        /\ req'[p] \in Handler
    <2>1. CASE k = Idle
      BY <1>1, <2>1
    <2>2. CASE k # Idle
      <3>1. req'[p] = [k EXCEPT !.lost = lost, !.gained = gained]
        BY <1>1, <2>2
      <3> QED BY <3>1, <2>2, <1>4 DEF Handler
    <2> QED BY <2>1, <2>2
  <1>7. ASSUME NEW q \in Proc \ {p}
        PROVE  /\ req'[q] \in Handler /\ Aside(req[q], req'[q]) /\ req'[q].bar = req[q].bar
               /\ req'[q].had = req[q].had \ Of(req[q].sess.who, lost)
               /\ req'[q].gone = req[q].gone \ Of(req[q].sess.who, gained)
    <2>1. req'[q] = [req[q] EXCEPT !.had = @ \ Of(req[q].sess.who, lost),
                                   !.gone = @ \ Of(req[q].sess.who, gained)]
      BY <1>1
    <2>2. req[q] \in Handler
      BY Fields
    <2>3. /\ req'[q].had = req[q].had \ Of(req[q].sess.who, lost)
          /\ req'[q].gone = req[q].gone \ Of(req[q].sess.who, gained)
      BY <2>1, <2>2 DEF Handler
    <2>4. /\ req'[q].pc = req[q].pc /\ req'[q].now = req[q].now /\ req'[q].sess = req[q].sess
          /\ req'[q].route = req[q].route /\ req'[q].why = req[q].why /\ req'[q].read = req[q].read
          /\ req'[q].gen = req[q].gen /\ req'[q].at = req[q].at /\ req'[q].failed = req[q].failed
          /\ req'[q].lost = req[q].lost /\ req'[q].gained = req[q].gained /\ req'[q].include = req[q].include
          /\ req'[q].bar = req[q].bar
      BY <2>1, <2>2 DEF Handler
    <2>5. req'[q] \in Handler
      BY <2>1, <2>2 DEF Handler
    <2> QED BY <2>3, <2>4, <2>5 DEF Aside
  <1>8. ASSUME NEW q \in Proc \ {p}, NEW w \in Person, NEW g \in Group, w = req[q].sess.who
        PROVE  /\ g \in req'[q].had => ~Ends(<<w, g>>)
               /\ g \in req'[q].gone => ~Begins(<<w, g>>)
    <2>1. <<w, g>> \in Pair
      BY DEF Pair
    <2> QED BY <1>3, <1>7, <1>8, <2>1 DEF Of
  <1>9. req' \in [Proc -> Handler]
    <2>1. \A q \in Proc : req'[q] \in Handler
      BY <1>6, <1>7
    <2>2. DOMAIN req' = Proc /\ req' = [q \in Proc |-> req'[q]]
      BY <1>1
    <2> QED BY <2>1, <2>2
  <1> QED BY <1>1, <1>3, <1>5, <1>6, <1>7, <1>8, <1>9

\* Every change of membership is dated, is taken from the requests under way, and
\* is remembered by the handler that will announce it; an undone include is
\* remembered by nobody, but what it leaves behind is adrift.
LEMMA ChangesDo ==
    ASSUME TypeOK, NEW p \in Proc, Changes(p)
    PROVE  /\ UNCHANGED <<clock, dbChanged, changedAt, gen, confirmed, policy, routes, ruledAt, cookies, unstored>>
           /\ direct' \in [Person -> SUBSET (Group \cup Roles)] /\ includes' \subseteq Includable
           /\ \A x \in Pair : removedAt'[x] = IF Ends(x) THEN clock ELSE removedAt[x]
           /\ removedAt' \in [Pair -> Nat] /\ req' \in [Proc -> Handler]
           /\ \A q \in Proc \ {p} :
                /\ Aside(req[q], req'[q]) /\ req'[q].bar = req[q].bar
                /\ \A w \in Person, g \in Group : w = req[q].sess.who =>
                     /\ g \in req'[q].had => ~Ends(<<w, g>>)
                     /\ g \in req'[q].gone => ~Begins(<<w, g>>)
           /\ req[p].pc \in {"idle", "includeCheck", "sync"}
           /\ \/ /\ req'[p].pc \in Unmarked /\ req'[p].bar \subseteq req[p].bar /\ adrift' = adrift
                 /\ req'[p].lost = {x \in Pair : Ends(x)} /\ req'[p].gained = {x \in Pair : Begins(x)}
                 /\ \/ req[p].pc = "idle" /\ req'[p].pc \in {"includeCheck", "markArg"}
                       /\ req'[p].sess = NoSession /\ req'[p].had = {} /\ req'[p].gone = {}
                    \/ req[p].pc = "sync" /\ req'[p].pc = "forget"
                       /\ req'[p].sess = req[p].sess /\ req'[p].had = req[p].had /\ req'[p].gone = req[p].gone
              \/ /\ req'[p] = Idle
                 /\ \A x \in Pair : ~Begins(x)
                 /\ \/ req[p].pc = "sync" /\ UNCHANGED <<adrift, direct, includes>>
                    \/ /\ req[p].pc = "includeCheck" /\ ChecksFail
                       /\ adrift' = adrift \cup {x \in req[p].gained : Held(x)'}
  <1> DEFINE Effect(k, d, i) ==
           /\ k \in Handler /\ Change(p, k, d, i)
           /\ d \in [Person -> SUBSET (Group \cup Roles)] /\ i \subseteq Includable /\ unstored' = unstored
           /\ \/ /\ k # Idle /\ k.pc \in Unmarked /\ k.bar \subseteq req[p].bar /\ adrift' = adrift
                 /\ \/ req[p].pc = "idle" /\ k.pc \in {"includeCheck", "markArg"} /\ k.sess = NoSession
                       /\ k.had = {} /\ k.gone = {}
                    \/ req[p].pc = "sync" /\ k.pc = "forget" /\ k.sess = req[p].sess /\ k.had = req[p].had
                       /\ k.gone = req[p].gone
              \/ k = Idle /\ req[p].pc = "sync" /\ d = direct /\ i = includes /\ adrift' = adrift
              \/ /\ k = Idle /\ req[p].pc = "includeCheck" /\ ChecksFail /\ d = direct /\ i \subseteq includes
                 /\ adrift' = adrift \cup {x \in req[p].gained : Held(x)'}
  <1>0. direct \in [Person -> SUBSET (Group \cup Roles)] /\ includes \subseteq Includable /\ req[p] \in Handler
    BY Fields DEF TypeOK
  <1>a. Announcing \in Handler /\ Announcing # Idle /\ Announcing.pc = "markArg" /\ Announcing.bar = {}
        /\ Announcing.sess = NoSession /\ Announcing.had = {} /\ Announcing.gone = {}
    <2>1. Announcing \in Handler /\ Announcing.pc = "markArg" /\ Announcing.bar = {} /\ Announcing.sess = NoSession
          /\ Announcing.had = {} /\ Announcing.gone = {}
      BY IdleOK DEF Announcing, Handler, PC
    <2> QED BY <2>1, IdleOK
  <1>1. ASSUME Changes(p)
        PROVE  \E k, d, i : Effect(k, d, i)
    <2>1. ASSUME NEW w \in Person, NEW g \in Group, AddMember(p, w, g) \/ RemoveMember(p, w, g)
          PROVE  \E k, d, i : Effect(k, d, i)
      <3>1. /\ AddGroupMembers(w, g) \in [Person -> SUBSET (Group \cup Roles)]
            /\ RemoveGroupMember(w, g) \in [Person -> SUBSET (Group \cup Roles)]
        BY <1>0 DEF AddGroupMembers, RemoveGroupMember
      <3>2. CASE AddMember(p, w, g)
        <4>1. Effect(Announcing, AddGroupMembers(w, g), includes)
          BY <3>1, <3>2, <1>0, <1>a DEF AddMember, At, Unmarked
        <4> QED BY <4>1
      <3>3. CASE RemoveMember(p, w, g)
        <4>1. Effect(Announcing, RemoveGroupMember(w, g), includes)
          BY <3>1, <3>3, <1>0, <1>a DEF RemoveMember, At, Unmarked
        <4> QED BY <4>1
      <3> QED BY <2>1, <3>2, <3>3
    <2>2. ASSUME NEW g \in Group, DeleteGroup(p, g)
          PROVE  \E k, d, i : Effect(k, d, i)
      <3>1. Effect(Announcing, [w \in Person |-> direct[w] \ {g}], {i \in includes : g \notin {i[1], i[2]}})
        BY <2>2, <1>0, <1>a DEF DeleteGroup, At, Unmarked
      <3> QED BY <3>1
    <2>3. ASSUME NEW i \in Includable, AddInclude(p, i)
          PROVE  \E k, d, j : Effect(k, d, j)
      <3> DEFINE k == [Idle EXCEPT !.pc = "includeCheck", !.include = i]
      <3>1. k \in Handler /\ k.pc = "includeCheck" /\ k.bar = {} /\ k.sess = NoSession /\ k.had = {} /\ k.gone = {}
        BY IdleOK DEF Handler, PC
      <3>2. k # Idle
        BY <3>1, IdleOK
      <3>3. Change(p, k, direct, includes \cup {i}) /\ At(p, "idle") /\ unstored' = unstored /\ adrift' = adrift
        BY <2>3 DEF AddInclude
      <3> HIDE DEF k
      <3>4. Effect(k, direct, includes \cup {i})
        BY <3>1, <3>2, <3>3, <1>0 DEF At, Unmarked
      <3> QED BY <3>4
    <2>4. ASSUME NEW i \in Includable, RemoveInclude(p, i)
          PROVE  \E k, d, j : Effect(k, d, j)
      <3>1. Effect(Announcing, direct, includes \ {i})
        BY <2>4, <1>0, <1>a DEF RemoveInclude, At, Unmarked
      <3> QED BY <3>1
    <2>5. CASE UndoInclude(p)
      <3>1. Effect(Idle, direct, includes \ {req[p].include})
        BY <2>5, <1>0, IdleOK DEF UndoInclude, At, Unmarked
      <3> QED BY <3>1
    <2>6. CASE SyncApply(p)
      <3>1. PICK g \in FeedGroup, members \in SUBSET Person :
             LET d == [w \in Person |-> IF w \in members THEN direct[w] \cup {g} ELSE direct[w] \ {g}] IN
             Change(p, IF d = direct THEN Idle ELSE [req[p] EXCEPT !.pc = "forget"], d, includes)
        BY <2>6 DEF SyncApply
      <3> DEFINE d == [w \in Person |-> IF w \in members THEN direct[w] \cup {g} ELSE direct[w] \ {g}]
                 k == [req[p] EXCEPT !.pc = "forget"]
      <3>2. g \in Group
        BY GroupsAssumption
      <3>3. d \in [Person -> SUBSET (Group \cup Roles)]
        BY <1>0, <3>2
      <3>4. At(p, "sync") /\ unstored' = unstored /\ adrift' = adrift
        BY <2>6 DEF SyncApply
      <3>5. CASE d = direct
        <4>1. Change(p, Idle, direct, includes)
          BY <3>1, <3>5
        <4>2. Effect(Idle, direct, includes)
          BY <4>1, <3>4, <1>0, IdleOK DEF At, Unmarked
        <4> QED BY <4>2
      <3>6. CASE d # direct
        <4>1. Change(p, k, d, includes)
          BY <3>1, <3>6
        <4>2. k \in Handler /\ k.pc = "forget" /\ k.sess = req[p].sess /\ k.had = req[p].had
              /\ k.gone = req[p].gone /\ k.bar = req[p].bar
          BY <1>0 DEF Handler, PC
        <4>3. k # Idle
          BY <4>2, IdleOK
        <4> HIDE DEF k, d
        <4>4. Effect(k, d, includes)
          BY <4>1, <4>2, <4>3, <3>3, <3>4, <1>0 DEF At, Unmarked
        <4> QED BY <4>4
      <3> QED BY <3>5, <3>6
    <2> QED BY <2>1, <2>2, <2>3, <2>4, <2>5, <2>6 DEF Changes
  <1>2. PICK k, d, i : Effect(k, d, i)
    BY <1>1
  <1>3. /\ UNCHANGED <<clock, dbChanged, changedAt, gen, confirmed, policy, routes, ruledAt, cookies>>
        /\ direct' = d /\ includes' = i
        /\ \A x \in Pair : removedAt'[x] = IF Ends(x) THEN clock ELSE removedAt[x]
        /\ removedAt' \in [Pair -> Nat]
        /\ req' \in [Proc -> Handler]
        /\ k = Idle => req'[p] = Idle
        /\ k # Idle => /\ req'[p].lost = {x \in Pair : Ends(x)} /\ req'[p].gained = {x \in Pair : Begins(x)}
                       /\ req'[p].pc = k.pc /\ req'[p].at = k.at /\ req'[p].sess = k.sess
                       /\ req'[p].had = k.had /\ req'[p].gone = k.gone /\ req'[p].bar = k.bar
        /\ \A q \in Proc \ {p} :
             /\ Aside(req[q], req'[q]) /\ req'[q].bar = req[q].bar
             /\ \A w \in Person, g \in Group : w = req[q].sess.who =>
                  /\ g \in req'[q].had => ~Ends(<<w, g>>)
                  /\ g \in req'[q].gone => ~Begins(<<w, g>>)
    BY <1>2, ChangeDoes
  <1>4. ASSUME k = Idle
        PROVE  \A x \in Pair : ~Begins(x)
    <2>1. direct' = direct /\ includes' \subseteq includes
      BY <1>2, <1>3, <1>4
    <2>2. ASSUME NEW x \in Pair
          PROVE  ~Begins(x)
      <3>1. Up(direct[x[1]])' \subseteq Up(direct[x[1]])
        <4>1. \A G : Up(G)' \subseteq Up(G)
          BY <2>1, UpShrinks
        <4>2. PICK G : G = direct[x[1]]
          OBVIOUS
        <4>3. G = direct'[x[1]]
          BY <4>2, <2>1
        <4> QED BY <4>1, <4>2, <4>3
      <3> QED BY <3>1 DEF Begins, Held, GroupsForEmail
    <2> QED BY <2>2
  <1>5. /\ direct' \in [Person -> SUBSET (Group \cup Roles)] /\ includes' \subseteq Includable
        /\ unstored' = unstored
    BY <1>2, <1>3
  <1>6. req[p].pc \in {"idle", "includeCheck", "sync"}
    BY <1>2
  <1>7. CASE k # Idle
    <2> QED BY <1>2, <1>3, <1>5, <1>6, <1>7
  <1>8. CASE k = Idle
    <2>1. /\ req'[p] = Idle
          /\ \A x \in Pair : ~Begins(x)
          /\ \/ req[p].pc = "sync" /\ UNCHANGED <<adrift, direct, includes>>
             \/ /\ req[p].pc = "includeCheck" /\ ChecksFail
                /\ adrift' = adrift \cup {x \in req[p].gained : Held(x)'}
      BY <1>2, <1>3, <1>4, <1>8
    <2> QED BY <1>3, <1>5, <1>6, <2>1
  <1> QED BY <1>7, <1>8

-----------------------------------------------------------------------------
(* The rules a session's groups are to fit *)

\* A guest whom the policy does not know.
Outsider(s) == s.kind = "guest" /\ Role(s.who) = "deny"

\* The application's roles that need the admin second step.
Paired == HandGroup \cap routes.paired

\* An administrator's session, with groups G, without the admin tier.
Lowered(s, G) == s.kind = "normal" /\ Role(s.who) = "admin" /\ TOTPEnabled /\ "admin" \notin G

\* The rules have changed since t, or within a renewal period of it.
Ruled(t) == ruledAt # 0 /\ t <= ruledAt
RuledWindow(t) == ruledAt # 0 /\ t <= ruledAt + RenewAfter

\* The admin tier, which a recent second step brings an administrator.
AdminTier(s, t) == s.kind = "normal" /\ Role(s.who) = "admin" /\ AdminStepFresh(s, t)

\* A second step that is recent now was recent earlier.
LEMMA FreshEarlier ==
    ASSUME NEW s \in Session, NEW t \in Nat, NEW u \in Nat, t <= u, AdminStepFresh(s, u)
    PROVE  AdminStepFresh(s, t)
  BY Constants DEF AdminStepFresh, Session

\* The groups worked out for a session fit the rules in force.
LEMMA ComputedDoor ==
    ASSUME policy \in Policies, routes \in RouteFiles, NEW s \in Session, s.who \in Person, s.kind \in Kinds,
           RenewalRole(s) # "deny", NEW t \in Nat, NEW u \in Nat, t <= u,
           NEW read \in SUBSET (Group \cup Roles),
           NEW G, G = ComputeGroups(s.who, TierRole(s, RenewalRole(s), u), read)
    PROVE  /\ "admin" \in G => AdminTier(s, t)
           /\ Lowered(s, G) => G \cap Paired = {}
           /\ Outsider(s) => G \cap AppRoleGroups = {}
  <1> DEFINE tier == TierRole(s, RenewalRole(s), u)
  <1>1. /\ tier \in Roles
        /\ tier = "admin" => s.kind = "normal" /\ Role(s.who) = "admin" /\ AdminStepFresh(s, u)
        /\ RenewalRole(s) = "admin" => tier \in {"admin", "user"}
        /\ s.kind = "normal" => RenewalRole(s) = Role(s.who)
    BY RolesGiven
  <1> HIDE DEF tier
  <1>2. /\ "admin" \in G <=> tier = "admin"
        /\ Role(s.who) = "deny" => G \cap AppRoleGroups = {}
        /\ Role(s.who) = "admin" /\ TOTPEnabled /\ tier = "user" => G \cap AdminPairedGroups = {}
    BY <1>1, Computed DEF tier
  <1>3. Paired \subseteq AdminPairedGroups
    BY Constants DEF Paired, AdminPairedGroups, HandGroup
  <1>4. tier = "admin" => AdminTier(s, t)
    BY <1>1, FreshEarlier DEF AdminTier
  <1> QED BY <1>1, <1>2, <1>3, <1>4 DEF Lowered, Outsider

\* G is worked out for the session s from memberships that were read: all of
\* them, or those that a query returned before it failed.
WorkedOut(s, G, all) ==
    \E read \in SUBSET (Group \cup Roles) :
        /\ read \subseteq GroupsForEmail(s.who)
        /\ G = ComputeGroups(s.who, TierRole(s, RenewalRole(s), clock), read)
        /\ all => read = GroupsForEmail(s.who)

\* They fit the rules, hold nothing the person does not, and leave an ordinary user's
\* groups whole when all of the memberships were read.
LEMMA WorkedOutFits ==
    ASSUME policy \in Policies, routes \in RouteFiles, clock \in Nat, NEW s \in Session, s.who \in Person,
           s.kind \in Kinds, RenewalRole(s) # "deny", NEW t \in Nat, t <= clock,
           NEW all, NEW G, WorkedOut(s, G, all)
    PROVE  /\ "admin" \in G => AdminTier(s, t)
           /\ Lowered(s, G) => G \cap Paired = {}
           /\ Outsider(s) => G \cap AppRoleGroups = {}
           /\ G \in SUBSET (Group \cup Roles) /\ G \cap Group \subseteq GroupsForEmail(s.who)
           /\ all /\ Role(s.who) = "user" => GroupsForEmail(s.who) \cap Group \subseteq G
  <1>1. PICK read \in SUBSET (Group \cup Roles) :
             /\ read \subseteq GroupsForEmail(s.who)
             /\ G = ComputeGroups(s.who, TierRole(s, RenewalRole(s), clock), read)
             /\ all => read = GroupsForEmail(s.who)
    BY DEF WorkedOut
  <1>2. PICK tier : tier = TierRole(s, RenewalRole(s), clock)
    OBVIOUS
  <1>3. tier \in Roles
    BY <1>2, RolesGiven
  <1>4. G = ComputeGroups(s.who, tier, read)
    BY <1>1, <1>2
  <1>5. /\ G \in SUBSET (Group \cup Roles) /\ G \cap Group \subseteq read
        /\ Role(s.who) = "user" => read \cap Group \subseteq G
    BY <1>3, <1>4, Computed
  <1>6. /\ "admin" \in G => AdminTier(s, t)
        /\ Lowered(s, G) => G \cap Paired = {}
        /\ Outsider(s) => G \cap AppRoleGroups = {}
    BY <1>1, ComputedDoor
  <1> QED BY <1>1, <1>5, <1>6

-----------------------------------------------------------------------------
(* Answering people, step by step *)

\* A request begins with what its person has held, and not held, for certain.
LEMMA VerifyBeginDoes ==
    ASSUME TypeOK, NEW p \in Proc, NEW s \in cookies, NEW r \in Routes, VerifyBegin(p, s, r)
    PROVE  LET k == req'[p] IN
           /\ cookies' = cookies /\ confirmed' = confirmed
           /\ k \in Handler /\ k.pc = "verifyRead" /\ k.now = clock /\ k.sess = s /\ k.why = "none"
           /\ k.bar = AppRoleGroups /\ k.lost = {} /\ k.gained = {}
           /\ k.had # {} \/ k.gone # {} => s.who \in Person
           /\ \A g \in k.had : g \in Group /\ <<s.who, g>> \notin Pending /\ Held(<<s.who, g>>)
           /\ \A g \in k.gone : g \in Group /\ <<s.who, g>> \notin Pending /\ ~Held(<<s.who, g>>)
  <1> DEFINE settled == IF s.who \in Person THEN Group \ Of(s.who, Pending) ELSE {}
             member == IF s.who \in Person THEN GroupsForEmail(s.who) ELSE {}
             k == [Idle EXCEPT !.pc = "verifyRead", !.now = clock, !.sess = s, !.route = r,
                               !.had = settled \cap member, !.gone = settled \ member,
                               !.bar = AppRoleGroups]
  <1>1. Become(p, k) /\ UNCHANGED <<cookies, confirmed>>
    BY DEF VerifyBegin, memory
  <1>2. req'[p] = k
    BY <1>1, Becomes
  <1>3. /\ settled \subseteq Group
        /\ s.who \in Person => member = GroupsForEmail(s.who)
        /\ settled # {} => s.who \in Person
    OBVIOUS
  <1>4. clock \in Nat /\ s \in Session /\ AppRoleGroups \subseteq Group
    BY Constants DEF TypeOK, AppRoleGroups
  <1>5. /\ k \in Handler /\ k.pc = "verifyRead" /\ k.now = clock /\ k.sess = s /\ k.why = "none"
        /\ k.bar = AppRoleGroups /\ k.had = settled \cap member /\ k.gone = settled \ member
        /\ k.lost = {} /\ k.gained = {}
    <2> HIDE DEF settled, member
    <2> QED BY <1>3, <1>4 DEF Handler, PC, Idle
  <1>6. \A g \in settled : g \in Group /\ <<s.who, g>> \notin Pending
    BY DEF Of
  <1> HIDE DEF k, settled, member
  <1> QED BY <1>1, <1>2, <1>3, <1>5, <1>6 DEF Held

\* readSession and the reasons to renew before deciding.
LEMMA VerifyReadDoes ==
    ASSUME TypeOK, NEW p \in Proc, VerifyRead(p)
    PROVE  LET h == req[p]
               k == req'[p]
               due == \/ NeedsRenew(h.sess, h.now) \/ GroupsStale(h.sess)
                      \/ TierStale(h.sess, clock) \/ PolicyWithdrawn(h.sess) IN
           /\ cookies' = cookies /\ confirmed' = confirmed /\ h.pc = "verifyRead"
           /\ k \in Handler
           /\ \/ k = Idle
              \/ /\ h.sess.kind # "other" /\ Onward(h, k) /\ k.sess = h.sess /\ k.failed = h.failed
                 /\ \/ due /\ k.pc = "renewRead" /\ k.why = "due"
                    \/ ~due /\ k.pc = "decide" /\ k.why = h.why
  <1> DEFINE h == req[p]
             due == \/ NeedsRenew(h.sess, h.now) \/ GroupsStale(h.sess)
                    \/ TierStale(h.sess, clock) \/ PolicyWithdrawn(h.sess)
  <1>1. h \in Handler
    BY Fields
  <1>2. At(p, "verifyRead") /\ cookies' = cookies /\ confirmed' = confirmed
    BY DEF VerifyRead, memory
  <1>3. \/ Become(p, Idle)
        \/ /\ h.sess.kind # "other"
           /\ \/ due /\ Become(p, [h EXCEPT !.pc = "renewRead", !.why = "due"])
              \/ ~due /\ Become(p, [h EXCEPT !.pc = "decide"])
    BY DEF VerifyRead, Stop, Goto
  <1> HIDE DEF due
  <1>4. CASE Become(p, Idle)
    BY <1>2, <1>4, Becomes, IdleOK DEF At
  <1>5. CASE h.sess.kind # "other" /\ due /\ Become(p, [h EXCEPT !.pc = "renewRead", !.why = "due"])
    <2>1. req'[p] = [h EXCEPT !.pc = "renewRead", !.why = "due"]
      BY <1>5, Becomes
    <2> QED BY <1>1, <1>2, <1>5, <2>1 DEF At, Onward, Handler, PC, due
  <1>6. CASE h.sess.kind # "other" /\ ~due /\ Become(p, [h EXCEPT !.pc = "decide"])
    <2>1. req'[p] = [h EXCEPT !.pc = "decide"]
      BY <1>6, Becomes
    <2> QED BY <1>1, <1>2, <1>6, <2>1 DEF At, Onward, Handler, PC, due
  <1> QED BY <1>3, <1>4, <1>5, <1>6

\* renewSession up to the cookie.
LEMMA RenewReadDoes ==
    ASSUME TypeOK, NEW p \in Proc, RenewRead(p), req[p].sess.kind \in Kinds, req[p].sess.who \in Person
    PROVE  LET h == req[p]
               k == req'[p]
               role == RenewalRole(h.sess) IN
           /\ cookies' = cookies /\ confirmed' = confirmed /\ h.pc = "renewRead"
           /\ k \in Handler
           /\ \/ k = Idle
              \/ /\ role # "deny" /\ Onward(h, k) /\ k.sess = h.sess /\ k.why = h.why /\ k.pc = "renewIssue"
                 /\ WorkedOut(h.sess, k.read, ~k.failed)
  <1> DEFINE h == req[p]
             role == RenewalRole(h.sess)
             G(read) == ComputeGroups(h.sess.who, TierRole(h.sess, role, clock), read)
  <1>1. h \in Handler /\ GroupsForEmail(h.sess.who) \in SUBSET (Group \cup Roles) /\ policy \in Policies /\ routes \in RouteFiles
    BY Fields, HeldTypes DEF TypeOK
  <1>2. At(p, "renewRead") /\ cookies' = cookies /\ confirmed' = confirmed
    BY DEF RenewRead, memory
  <1>3. \/ Become(p, Idle)
        \/ /\ role # "deny"
           /\ \E read \in ReadGroups(h.sess.who) :
                Become(p, [h EXCEPT !.pc = "renewIssue", !.read = G(read),
                                    !.failed = @ \/ read # GroupsForEmail(h.sess.who)])
    BY DEF RenewRead, Stop
  <1>4. CASE Become(p, Idle)
    BY <1>2, <1>4, Becomes, IdleOK DEF At
  <1>5. CASE role # "deny" /\ ~Become(p, Idle)
    <2>1. PICK read \in ReadGroups(h.sess.who) :
             Become(p, [h EXCEPT !.pc = "renewIssue", !.read = G(read),
                                 !.failed = @ \/ read # GroupsForEmail(h.sess.who)])
      BY <1>3, <1>5
    <2>2. TierRole(h.sess, role, clock) \in Roles
      BY <1>1, <1>5, RolesGiven
    <2>3. read \in SUBSET (Group \cup Roles) /\ read \subseteq GroupsForEmail(h.sess.who)
      BY <1>1 DEF ReadGroups
    <2>4. G(read) \in SUBSET (Group \cup Roles)
      BY <1>1, <2>2, <2>3, Computed
    <2>5. PICK R, b : R = G(read) /\ b = (h.failed \/ read # GroupsForEmail(h.sess.who))
      OBVIOUS
    <2>6. req'[p] = [h EXCEPT !.pc = "renewIssue", !.read = R, !.failed = b]
      BY <2>1, <2>5, Becomes, Zenon
    <2>7. b \in BOOLEAN /\ (~b => read = GroupsForEmail(h.sess.who))
      BY <2>5
    <2>8. /\ req'[p] \in Handler /\ req'[p].pc = "renewIssue" /\ req'[p].read = R /\ req'[p].failed = b
          /\ Onward(h, req'[p]) /\ req'[p].sess = h.sess /\ req'[p].why = h.why
      BY <1>1, <2>4, <2>5, <2>6, <2>7 DEF Onward, Handler, PC
    <2>9. WorkedOut(h.sess, R, ~b)
      BY <2>3, <2>5, <2>7 DEF WorkedOut
    <2> QED BY <1>2, <1>5, <2>8, <2>9 DEF At
  <1> QED BY <1>3, <1>4, <1>5

\* The renewed session goes on, and may be issued.
LEMMA RenewIssueDoes ==
    ASSUME TypeOK, NEW p \in Proc, RenewIssue(p)
    PROVE  LET h == req[p]
               k == req'[p] IN
           /\ confirmed' = confirmed /\ h.pc = "renewIssue"
           /\ k \in Handler /\ Onward(h, k) /\ k.why = h.why /\ k.failed = h.failed
           /\ k.pc = IF h.why = "admin" THEN "adminDecide" ELSE "decide"
           /\ SameSession(k.sess, h.sess) /\ k.sess.groups = h.read
           /\ \A c \in cookies' \ cookies :
                /\ c \in Session /\ c.who = h.sess.who /\ c.kind = h.sess.kind /\ c.step = h.sess.step
                /\ c.groups = h.read /\ c.iat = h.now
           /\ cookies' \subseteq Session
  <1> DEFINE h == req[p]
             c == [h.sess EXCEPT !.groups = h.read, !.iat = h.now]
             k == [h EXCEPT !.pc = IF h.why = "admin" THEN "adminDecide" ELSE "decide", !.sess.groups = h.read]
  <1>1. h \in Handler /\ h.sess \in Session /\ h.read \in SUBSET (Group \cup Roles) /\ h.now \in Nat
    BY Fields
  <1>2. At(p, "renewIssue") /\ confirmed' = confirmed /\ IssueSession(c) /\ Become(p, k)
    BY DEF RenewIssue, memory
  <1>3. req'[p] = k
    BY <1>2, Becomes
  <1>4. /\ c \in Session /\ c.who = h.sess.who /\ c.kind = h.sess.kind /\ c.step = h.sess.step
        /\ c.groups = h.read /\ c.iat = h.now
    BY <1>1 DEF Session
  <1>5. /\ k \in Handler /\ Onward(h, k) /\ k.why = h.why /\ k.failed = h.failed
        /\ k.pc = IF h.why = "admin" THEN "adminDecide" ELSE "decide"
        /\ SameSession(k.sess, h.sess) /\ k.sess.groups = h.read
    BY <1>1 DEF Handler, PC, Onward, Session, SameSession
  <1> HIDE DEF c, k
  <1>6. cookies' \subseteq cookies \cup {c}
    BY <1>2 DEF IssueSession
  <1> QED BY <1>2, <1>3, <1>4, <1>5, <1>6 DEF At, TypeOK

\* CanAccessApp, the admin door, and whether a refusal reads the groups again.
LEMMA DecideDoes ==
    ASSUME TypeOK, NEW p \in Proc, Decide(p)
    PROVE  LET h == req[p]
               k == req'[p] IN
           /\ cookies' = cookies /\ confirmed' = confirmed /\ h.pc = "decide"
           /\ k \in Handler
           /\ \/ k = Idle
              \/ /\ Onward(h, k) /\ k.why = h.why /\ k.failed = h.failed /\ SameSession(k.sess, h.sess)
                 /\ k.sess.groups = IF h.why = "refused" THEN h.sess.groups ELSE GuestGroupsNow(h.sess)
                 /\ \/ k.pc = "ok"
                    \/ /\ k.pc = "denied" /\ k.sess.groups \cap k.route.groups = {}
                       /\ \/ h.why # "none" \/ k.sess.kind \notin Kinds \/ k.route.groups = {}
                          \/ Fresh(k.sess, k.now)
                    \/ /\ k.pc = "recheck" /\ k.gen = gen /\ h.why = "none"
                       /\ k.sess.groups \cap k.route.groups = {} /\ k.sess.kind \in Kinds
  <1> DEFINE h == req[p]
             G == IF h.why = "refused" THEN h.sess.groups ELSE GuestGroupsNow(h.sess)
             s == [h.sess EXCEPT !.groups = G]
  <1>1. h \in Handler /\ h.sess \in Session /\ h.sess.groups \in SUBSET (Group \cup Roles)
    BY Fields
  <1>2. At(p, "decide") /\ cookies' = cookies /\ confirmed' = confirmed
    BY DEF Decide, memory
  <1>3. G \in SUBSET (Group \cup Roles)
    BY <1>1 DEF GuestGroupsNow, WithoutAppRolesForOutsider
  <1>4. s \in Session /\ SameSession(s, h.sess) /\ s.groups = G
    <2> HIDE DEF G
    <2> QED BY <1>1, <1>3 DEF Session, SameSession
  <1>5. \/ CanAccessApp(s, h.route) /\ Become(p, [h EXCEPT !.pc = "ok", !.sess = s])
        \/ Become(p, Idle)
        \/ /\ ~CanAccessApp(s, h.route) /\ Become(p, [h EXCEPT !.pc = "denied", !.sess = s])
           /\ h.why # "none" \/ s.kind \notin Kinds \/ h.route.groups = {} \/ Fresh(s, h.now)
        \/ /\ ~CanAccessApp(s, h.route) /\ Become(p, [h EXCEPT !.pc = "recheck", !.sess = s, !.gen = gen])
           /\ ~(h.why # "none" \/ s.kind \notin Kinds)
    <2>1. s = [h.sess EXCEPT !.groups = IF h.why = "refused" THEN @ ELSE GuestGroupsNow(h.sess)]
      BY <1>1 DEF Session
    <2> HIDE DEF s, G
    <2> QED BY <2>1 DEF Decide, Stop, Kinds
  <1> HIDE DEF s, G
  <1>6. gen \in Nat /\ (~CanAccessApp(s, h.route) => s.groups \cap h.route.groups = {})
    BY DEF TypeOK, CanAccessApp
  <1>7. CASE CanAccessApp(s, h.route) /\ Become(p, [h EXCEPT !.pc = "ok", !.sess = s])
    <2>1. req'[p] = [h EXCEPT !.pc = "ok", !.sess = s]
      BY <1>7, Becomes
    <2>2. /\ req'[p] \in Handler /\ req'[p].pc = "ok" /\ req'[p].sess = s /\ Onward(h, req'[p]) /\ req'[p].why = h.why
          /\ req'[p].failed = h.failed
      BY <1>1, <1>4, <2>1 DEF Handler, PC, Onward
    <2> QED BY <1>2, <1>4, <2>2 DEF At, G
  <1>8. CASE Become(p, Idle)
    BY <1>2, <1>8, Becomes, IdleOK DEF At
  <1>9. CASE /\ ~CanAccessApp(s, h.route) /\ Become(p, [h EXCEPT !.pc = "denied", !.sess = s])
             /\ h.why # "none" \/ s.kind \notin Kinds \/ h.route.groups = {} \/ Fresh(s, h.now)
    <2>1. req'[p] = [h EXCEPT !.pc = "denied", !.sess = s]
      BY <1>9, Becomes
    <2>2. /\ req'[p] \in Handler /\ req'[p].pc = "denied" /\ req'[p].sess = s /\ Onward(h, req'[p]) /\ req'[p].why = h.why
          /\ req'[p].failed = h.failed
      BY <1>1, <1>4, <2>1 DEF Handler, PC, Onward
    <2> QED BY <1>2, <1>4, <1>6, <1>9, <2>2 DEF At, G, Onward
  <1>10. CASE /\ ~CanAccessApp(s, h.route) /\ Become(p, [h EXCEPT !.pc = "recheck", !.sess = s, !.gen = gen])
              /\ ~(h.why # "none" \/ s.kind \notin Kinds)
    <2>1. req'[p] = [h EXCEPT !.pc = "recheck", !.sess = s, !.gen = gen]
      BY <1>10, Becomes
    <2>2. /\ req'[p] \in Handler /\ req'[p].pc = "recheck" /\ req'[p].sess = s /\ Onward(h, req'[p]) /\ req'[p].why = h.why
          /\ req'[p].failed = h.failed /\ req'[p].gen = gen
      BY <1>1, <1>4, <1>6, <2>1 DEF Handler, PC, Onward
    <2> QED BY <1>2, <1>4, <1>6, <1>10, <2>2 DEF At, G, Onward
  <1> QED BY <1>5, <1>7, <1>8, <1>9, <1>10

\* groupRecheck computes the person's groups again.
LEMMA RecheckDoes ==
    ASSUME TypeOK, NEW p \in Proc, Recheck(p), req[p].sess.kind \in Kinds, req[p].sess.who \in Person
    PROVE  LET h == req[p]
               k == req'[p]
               role == RenewalRole(h.sess) IN
           /\ cookies' = cookies /\ confirmed' = confirmed /\ h.pc = "recheck"
           /\ k \in Handler
           /\ \/ k = Idle
              \/ Onward(h, k) /\ k.sess = h.sess /\ k.pc = "denied" /\ k.failed
              \/ /\ role # "deny" /\ Onward(h, k) /\ k.sess = h.sess /\ k.gen = h.gen /\ k.failed = h.failed
                 /\ \/ k.pc = "confirm" /\ WorkedOut(h.sess, h.sess.groups, TRUE)
                    \/ k.pc = "renewIssue" /\ k.why = "refused" /\ WorkedOut(h.sess, k.read, TRUE)
  <1> DEFINE h == req[p]
             role == RenewalRole(h.sess)
             current == ComputeGroups(h.sess.who, TierRole(h.sess, role, clock), GroupsForEmail(h.sess.who))
  <1>1. h \in Handler /\ GroupsForEmail(h.sess.who) \in SUBSET (Group \cup Roles) /\ policy \in Policies /\ routes \in RouteFiles
    BY Fields, HeldTypes DEF TypeOK
  <1>2. At(p, "recheck") /\ cookies' = cookies /\ confirmed' = confirmed
    BY DEF Recheck, memory
  <1>3. \/ Become(p, Idle)
        \/ Become(p, [h EXCEPT !.pc = "denied", !.failed = TRUE])
        \/ role # "deny" /\ current = h.sess.groups /\ Become(p, [h EXCEPT !.pc = "confirm"])
        \/ role # "deny" /\ Become(p, [h EXCEPT !.pc = "renewIssue", !.why = "refused", !.read = current])
    BY DEF Recheck, Stop, Goto
  <1>4. role # "deny" => current \in SUBSET (Group \cup Roles)
    <2>1. role # "deny" => TierRole(h.sess, role, clock) \in Roles
      BY <1>1, RolesGiven
    <2> QED BY <1>1, <2>1, Computed
  <1>a. WorkedOut(h.sess, current, TRUE)
    BY <1>1 DEF WorkedOut
  <1> HIDE DEF current, role
  <1>5. CASE Become(p, Idle)
    BY <1>2, <1>5, Becomes, IdleOK DEF At
  <1>6. CASE Become(p, [h EXCEPT !.pc = "denied", !.failed = TRUE])
    <2>1. req'[p] = [h EXCEPT !.pc = "denied", !.failed = TRUE]
      BY <1>6, Becomes
    <2>2. req'[p] \in Handler /\ Onward(h, req'[p]) /\ req'[p].sess = h.sess /\ req'[p].pc = "denied" /\ req'[p].failed
      BY <1>1, <2>1 DEF Handler, PC, Onward
    <2> QED BY <1>2, <2>2 DEF At
  <1>7. CASE role # "deny" /\ current = h.sess.groups /\ Become(p, [h EXCEPT !.pc = "confirm"])
    <2>1. req'[p] = [h EXCEPT !.pc = "confirm"]
      BY <1>7, Becomes
    <2>2. /\ req'[p] \in Handler /\ Onward(h, req'[p]) /\ req'[p].sess = h.sess /\ req'[p].pc = "confirm"
          /\ req'[p].gen = h.gen /\ req'[p].failed = h.failed
      BY <1>1, <2>1 DEF Handler, PC, Onward
    <2> QED BY <1>2, <1>7, <1>a, <2>2 DEF At, role
  <1>8. CASE role # "deny" /\ Become(p, [h EXCEPT !.pc = "renewIssue", !.why = "refused", !.read = current])
    <2>1. req'[p] = [h EXCEPT !.pc = "renewIssue", !.why = "refused", !.read = current]
      BY <1>8, Becomes
    <2>2. /\ req'[p] \in Handler /\ Onward(h, req'[p]) /\ req'[p].sess = h.sess /\ req'[p].pc = "renewIssue"
          /\ req'[p].gen = h.gen /\ req'[p].failed = h.failed /\ req'[p].why = "refused" /\ req'[p].read = current
      BY <1>1, <1>4, <1>8, <2>1 DEF Handler, PC, Onward
    <2> QED BY <1>2, <1>8, <1>a, <2>2 DEF At, role
  <1> QED BY <1>3, <1>5, <1>6, <1>7, <1>8

\* confirm remembers the refusal, unless memberships have changed meanwhile.
LEMMA ConfirmDoes ==
    ASSUME TypeOK, NEW p \in Proc, Confirm(p)
    PROVE  LET h == req[p]
               k == req'[p] IN
           /\ cookies' = cookies /\ h.pc = "confirm"
           /\ confirmed' = IF h.gen = gen THEN confirmed \cup {Confirmation(h)} ELSE confirmed
           /\ k \in Handler /\ Onward(h, k) /\ k.sess = h.sess /\ k.pc = "denied" /\ k.failed = h.failed
  <1>1. req[p] \in Handler
    BY Fields
  <1>2. req'[p] = [req[p] EXCEPT !.pc = "denied"]
    BY Becomes DEF Confirm, Goto
  <1>3. /\ req'[p] \in Handler /\ Onward(req[p], req'[p]) /\ req'[p].sess = req[p].sess /\ req'[p].pc = "denied"
        /\ req'[p].failed = req[p].failed
    BY <1>1, <1>2 DEF Handler, PC, Onward
  <1> QED BY <1>3 DEF Confirm, At

\* The answer is sent.
LEMMA FinishDoes ==
    ASSUME TypeOK, NEW p \in Proc, Finish(p)
    PROVE  cookies' = cookies /\ confirmed' = confirmed /\ req'[p] = Idle
  BY Becomes DEF Finish, Stop, memory

\* completeLogin names the person, as a guest if the policy does not.
LEMMA LoginBeginDoes ==
    ASSUME TypeOK, NEW p \in Proc, NEW w \in Person, NEW open, NEW stepped, LoginBegin(p, w, open, stepped)
    PROVE  LET k == req'[p] IN
           /\ cookies' = cookies /\ confirmed' = confirmed
           /\ k \in Handler /\ k.pc = "loginRead" /\ k.now = clock /\ k.sess.iat = clock /\ k.sess.who = w
           /\ k.sess.kind = IF Role(w) = "deny" THEN "guest" ELSE "normal"
           /\ Role(w) = "deny" => policy.guests
           /\ k.had = {} /\ k.gone = {} /\ k.bar = {} /\ k.lost = {} /\ k.gained = {}
  <1> DEFINE kind == IF Role(w) = "deny" THEN "guest" ELSE "normal"
             s == [who |-> w, kind |-> kind, groups |-> {}, iat |-> clock, step |-> IF stepped THEN clock ELSE 0]
             k == [Idle EXCEPT !.pc = "loginRead", !.now = clock, !.sess = s]
  <1>1. Become(p, k) /\ UNCHANGED <<cookies, confirmed>> /\ (Role(w) = "deny" => policy.guests)
    BY DEF LoginBegin, memory
  <1>2. req'[p] = k
    BY <1>1, Becomes
  <1>3. clock \in Nat
    BY DEF TypeOK
  <1>4. s \in Session /\ s.iat = clock /\ s.who = w /\ s.kind = kind
    BY <1>3 DEF Session
  <1> HIDE DEF s
  <1>5. /\ k \in Handler /\ k.pc = "loginRead" /\ k.now = clock /\ k.sess = s
        /\ k.had = {} /\ k.gone = {} /\ k.bar = {} /\ k.lost = {} /\ k.gained = {}
    BY <1>3, <1>4 DEF Handler, PC, Idle
  <1> QED BY <1>1, <1>2, <1>4, <1>5

\* The groups of a new session.
LEMMA LoginReadDoes ==
    ASSUME TypeOK, NEW p \in Proc, LoginRead(p), req[p].sess.kind \in Kinds, req[p].sess.who \in Person,
           req[p].sess.kind = "normal" => Role(req[p].sess.who) # "deny"
    PROVE  LET h == req[p]
               k == req'[p] IN
           /\ cookies' = cookies /\ confirmed' = confirmed /\ h.pc = "loginRead"
           /\ k \in Handler /\ Onward(h, k) /\ SameSession(k.sess, h.sess) /\ k.pc = "loginIssue"
           /\ k.sess.groups \cap Group \subseteq GroupsForEmail(h.sess.who)
           /\ h.sess.kind = "guest" => "admin" \notin k.sess.groups
           /\ Lowered(h.sess, k.sess.groups) => k.sess.groups \cap Paired = {}
  <1> DEFINE h == req[p]
             role == IF h.sess.kind = "guest" THEN "guest" ELSE Role(h.sess.who)
             tier == TierRole([h.sess EXCEPT !.kind = "normal"], role, clock)
  <1>1. h \in Handler /\ h.sess \in Session /\ GroupsForEmail(h.sess.who) \in SUBSET (Group \cup Roles)
        /\ policy \in Policies /\ routes \in RouteFiles
    BY Fields, HeldTypes DEF TypeOK
  <1>2. At(p, "loginRead") /\ cookies' = cookies /\ confirmed' = confirmed
    BY DEF LoginRead, memory
  <1>3. PICK read \in ReadGroups(h.sess.who) :
           Become(p, [h EXCEPT !.pc = "loginIssue", !.sess.groups = ComputeGroups(h.sess.who, tier, read)])
    BY DEF LoginRead
  <1>4. role \in Roles
    BY <1>1, RolesGiven DEF Roles, Kinds, Deciders
  <1>5. tier \in Roles /\ (role = "guest" => tier = "guest") /\ (role = "admin" => tier \in {"admin", "user"})
    <2> HIDE DEF role
    <2> QED BY <1>4 DEF TierRole, Roles
  <1> HIDE DEF tier
  <1>6. read \in SUBSET (Group \cup Roles) /\ read \subseteq GroupsForEmail(h.sess.who)
    BY <1>1 DEF ReadGroups
  <1>7. PICK R \in SUBSET (Group \cup Roles) : R = ComputeGroups(h.sess.who, tier, read)
    BY <1>1, <1>5, <1>6, Computed
  <1> DEFINE t == [h.sess EXCEPT !.groups = R]
  <1>8. req'[p] = [h EXCEPT !.pc = "loginIssue", !.sess = t]
    <2>1. req'[p] = [h EXCEPT !.pc = "loginIssue", !.sess.groups = R]
      BY <1>3, <1>7, Becomes
    <2> QED BY <2>1, <1>1 DEF Handler
  <1>a. t \in Session /\ SameSession(t, h.sess) /\ t.groups = R
    BY <1>1 DEF Session, SameSession
  <1> HIDE DEF t
  <1>9. /\ req'[p] \in Handler /\ Onward(h, req'[p]) /\ SameSession(req'[p].sess, h.sess)
        /\ req'[p].pc = "loginIssue" /\ req'[p].sess.groups = R
    BY <1>1, <1>8, <1>a DEF Handler, PC, Onward
  <1>b. /\ R \cap Group \subseteq read /\ ("admin" \in R <=> tier = "admin")
        /\ Role(h.sess.who) = "admin" /\ TOTPEnabled /\ tier = "user" => R \cap AdminPairedGroups = {}
    BY <1>1, <1>5, <1>6, <1>7, Computed
  <1>c. Paired \subseteq AdminPairedGroups
    BY <1>1, Constants DEF Paired, AdminPairedGroups, HandGroup
  <1>d. /\ h.sess.kind = "guest" => "admin" \notin R
        /\ Lowered(h.sess, R) => R \cap Paired = {}
    BY <1>5, <1>b, <1>c DEF Lowered
  <1> QED BY <1>2, <1>6, <1>9, <1>b, <1>d DEF At

\* A session that is signed in, or steps up, is issued as it is.
LEMMA IssueDoes ==
    ASSUME TypeOK, NEW p \in Proc, LoginIssue(p) \/ StepUpIssue(p)
    PROVE  /\ req[p].pc \in {"loginIssue", "stepIssue"} /\ confirmed' = confirmed /\ req'[p] = Idle
           /\ cookies' \subseteq cookies \cup {req[p].sess} /\ cookies' \subseteq Session
  <1>1. req[p].sess \in Session
    BY Fields
  <1> QED BY <1>1, Becomes DEF LoginIssue, StepUpIssue, IssueSession, Stop, At, memory, TypeOK

\* POST /totp by an administrator without the tier.
LEMMA StepUpBeginDoes ==
    ASSUME TypeOK, NEW p \in Proc, NEW s \in cookies, StepUpBegin(p, s)
    PROVE  LET k == req'[p] IN
           /\ cookies' = cookies /\ confirmed' = confirmed /\ s.kind = "normal" /\ Role(s.who) = "admin"
           /\ k \in Handler /\ k.pc = "stepRead" /\ k.now = clock /\ k.sess = s
           /\ k.had = {} /\ k.gone = {} /\ k.bar = {} /\ k.lost = {} /\ k.gained = {}
  <1> DEFINE k == [Idle EXCEPT !.pc = "stepRead", !.now = clock, !.sess = s]
  <1>1. Become(p, k) /\ UNCHANGED <<cookies, confirmed>> /\ s.kind = "normal" /\ Role(s.who) = "admin"
    BY DEF StepUpBegin, memory
  <1>2. req'[p] = k
    BY <1>1, Becomes
  <1>3. clock \in Nat /\ s \in Session
    BY DEF TypeOK
  <1>4. k \in Handler /\ k.pc = "stepRead" /\ k.now = clock /\ k.sess = s /\ k.had = {} /\ k.gone = {} /\ k.bar = {}
        /\ k.lost = {} /\ k.gained = {}
    BY <1>3 DEF Handler, PC, Idle
  <1> QED BY <1>1, <1>2, <1>4

\* The groups of the stepped-up session, at the admin tier.
LEMMA StepUpReadDoes ==
    ASSUME TypeOK, NEW p \in Proc, StepUpRead(p), req[p].sess.who \in Person
    PROVE  LET h == req[p]
               k == req'[p] IN
           /\ cookies' = cookies /\ confirmed' = confirmed /\ h.pc = "stepRead"
           /\ k \in Handler /\ Onward(h, k) /\ k.pc = "stepIssue"
           /\ k.sess.who = h.sess.who /\ k.sess.kind = h.sess.kind /\ k.sess.iat = h.now
           /\ k.sess.groups \cap Group \subseteq GroupsForEmail(h.sess.who) /\ "admin" \in k.sess.groups
  <1> DEFINE h == req[p]
  <1>1. h \in Handler /\ h.sess \in Session /\ GroupsForEmail(h.sess.who) \in SUBSET (Group \cup Roles)
        /\ policy \in Policies /\ routes \in RouteFiles /\ h.now \in Nat
    BY Fields, HeldTypes DEF TypeOK
  <1>2. At(p, "stepRead") /\ cookies' = cookies /\ confirmed' = confirmed
    BY DEF StepUpRead, memory
  <1>3. PICK read \in ReadGroups(h.sess.who) :
           Become(p, [h EXCEPT !.pc = "stepIssue", !.sess.iat = h.now, !.sess.step = h.now,
                               !.sess.groups = ComputeGroups(h.sess.who, "admin", read)])
    BY DEF StepUpRead
  <1>6. read \in SUBSET (Group \cup Roles) /\ read \subseteq GroupsForEmail(h.sess.who)
    BY <1>1 DEF ReadGroups
  <1>7. PICK R \in SUBSET (Group \cup Roles) : R = ComputeGroups(h.sess.who, "admin", read)
    BY <1>1, <1>6, Computed DEF Roles
  <1> DEFINE t == [h.sess EXCEPT !.iat = h.now, !.step = h.now, !.groups = R]
  <1>8. req'[p] = [h EXCEPT !.pc = "stepIssue", !.sess = t]
    <2>1. req'[p] = [h EXCEPT !.pc = "stepIssue", !.sess.iat = h.now, !.sess.step = h.now, !.sess.groups = R]
      BY <1>3, <1>7, Becomes
    <2> QED BY <2>1, <1>1 DEF Handler
  <1>a. t \in Session /\ t.who = h.sess.who /\ t.kind = h.sess.kind /\ t.iat = h.now /\ t.groups = R
    BY <1>1 DEF Session
  <1> HIDE DEF t
  <1>9. /\ req'[p] \in Handler /\ Onward(h, req'[p])
        /\ req'[p].pc = "stepIssue" /\ req'[p].sess.groups = R
        /\ req'[p].sess.who = h.sess.who /\ req'[p].sess.kind = h.sess.kind /\ req'[p].sess.iat = h.now
    BY <1>1, <1>8, <1>a DEF Handler, PC, Onward
  <1>b. R \cap Group \subseteq read /\ "admin" \in R
    BY <1>1, <1>6, <1>7, Computed DEF Roles
  <1> QED BY <1>2, <1>6, <1>9, <1>b DEF At

\* An admin page is asked for.
LEMMA AdminBeginDoes ==
    ASSUME TypeOK, NEW p \in Proc, NEW s \in cookies, AdminBegin(p, s)
    PROVE  LET k == req'[p] IN
           /\ cookies' = cookies /\ confirmed' = confirmed
           /\ k \in Handler /\ k.pc = "adminRead" /\ k.now = clock /\ k.sess = s
           /\ k.had = {} /\ k.gone = {} /\ k.bar = {} /\ k.lost = {} /\ k.gained = {}
  <1> DEFINE k == [Idle EXCEPT !.pc = "adminRead", !.now = clock, !.sess = s]
  <1>1. Become(p, k) /\ UNCHANGED <<cookies, confirmed>>
    BY DEF AdminBegin, memory
  <1>2. req'[p] = k
    BY <1>1, Becomes
  <1>3. clock \in Nat /\ s \in Session
    BY DEF TypeOK
  <1>4. k \in Handler /\ k.pc = "adminRead" /\ k.now = clock /\ k.sess = s /\ k.had = {} /\ k.gone = {} /\ k.bar = {}
        /\ k.lost = {} /\ k.gained = {}
    BY <1>3 DEF Handler, PC, Idle
  <1> QED BY <1>1, <1>2, <1>4

\* requireAdmin, before and after a renewal.
LEMMA AdminDoes ==
    ASSUME TypeOK, NEW p \in Proc, AdminRead(p) \/ AdminDecide(p)
    PROVE  LET h == req[p]
               k == req'[p] IN
           /\ cookies' = cookies /\ confirmed' = confirmed /\ h.pc \in {"adminRead", "adminDecide"}
           /\ k \in Handler
           /\ \/ k = Idle
              \/ /\ AdminTierHeld(h.sess, clock) /\ k.pc = "page" /\ k.sess = h.sess /\ k.now = h.now
                 /\ h.pc = "adminRead" => Role(h.sess.who) = "admin"
                 /\ k.had = h.had /\ k.gone = h.gone /\ k.bar = h.bar /\ k.lost = h.lost /\ k.gained = h.gained
              \/ /\ h.sess.kind = "normal" /\ Role(h.sess.who) = "admin" /\ h.pc = "adminRead"
                 /\ k.pc = "renewRead" /\ k.why = "admin" /\ k.sess = h.sess /\ k.now = clock
                 /\ k.had = h.had /\ k.gone = h.gone /\ k.bar = h.bar /\ k.lost = h.lost /\ k.gained = h.gained
  <1> DEFINE h == req[p]
  <1>1. h \in Handler /\ clock \in Nat
    BY Fields DEF TypeOK
  <1>2. h.pc \in {"adminRead", "adminDecide"} /\ cookies' = cookies /\ confirmed' = confirmed
    BY DEF AdminRead, AdminDecide, memory, At
  <1>3. \/ Become(p, Idle)
        \/ /\ AdminTierHeld(h.sess, clock) /\ (h.pc = "adminRead" => Role(h.sess.who) = "admin")
           /\ Become(p, [h EXCEPT !.pc = "page"])
        \/ /\ h.sess.kind = "normal" /\ Role(h.sess.who) = "admin" /\ h.pc = "adminRead"
           /\ Become(p, [h EXCEPT !.pc = "renewRead", !.now = clock, !.why = "admin"])
    BY DEF AdminRead, AdminDecide, Stop, Goto, At
  <1>4. CASE Become(p, Idle)
    BY <1>2, <1>4, Becomes, IdleOK
  <1>5. CASE /\ AdminTierHeld(h.sess, clock) /\ (h.pc = "adminRead" => Role(h.sess.who) = "admin")
             /\ Become(p, [h EXCEPT !.pc = "page"])
    <2>1. req'[p] = [h EXCEPT !.pc = "page"]
      BY <1>5, Becomes
    <2>2. /\ req'[p] \in Handler /\ req'[p].pc = "page" /\ req'[p].sess = h.sess /\ req'[p].now = h.now
          /\ req'[p].had = h.had /\ req'[p].gone = h.gone /\ req'[p].bar = h.bar
          /\ req'[p].lost = h.lost /\ req'[p].gained = h.gained
      BY <1>1, <2>1 DEF Handler, PC
    <2> QED BY <1>2, <1>5, <2>2
  <1>6. CASE /\ h.sess.kind = "normal" /\ Role(h.sess.who) = "admin" /\ h.pc = "adminRead"
             /\ Become(p, [h EXCEPT !.pc = "renewRead", !.now = clock, !.why = "admin"])
    <2>1. req'[p] = [h EXCEPT !.pc = "renewRead", !.now = clock, !.why = "admin"]
      BY <1>6, Becomes
    <2>2. /\ req'[p] \in Handler /\ req'[p].pc = "renewRead" /\ req'[p].sess = h.sess /\ req'[p].now = clock
          /\ req'[p].had = h.had /\ req'[p].gone = h.gone /\ req'[p].bar = h.bar /\ req'[p].why = "admin"
          /\ req'[p].lost = h.lost /\ req'[p].gained = h.gained
      BY <1>1, <2>1 DEF Handler, PC
    <2> QED BY <1>2, <1>6, <2>2
  <1> QED BY <1>3, <1>4, <1>5, <1>6

-----------------------------------------------------------------------------
(* Types, and what a handler at each step may assume of its session *)

\* A session issued before this run of the program: due for renewal.
Old(s) == s.iat + RenewAfter < Start

\* A cookie is a card's, or was issued in this run or is due for renewal.
CookieOK(s) ==
    /\ s.kind \in Kinds => s.who \in Person /\ s.iat <= clock /\ (Start <= s.iat \/ Old(s))
    /\ s.kind = "card" => s.who = None /\ s.groups \subseteq Group

\* What each step of a handler rests on: whom it serves, at what time, and that
\* only a request has anything to say of groups held and not held.
HandlerOK(h) ==
    /\ h.pc \in Serving => Start <= h.now /\ h.now <= clock
    /\ h.pc \in Reading => CookieOK(h.sess)
    /\ h.pc \in Sitting => h.sess.kind \in Kinds
    /\ h.pc \in Serving /\ h.sess.kind \in Kinds => h.sess.who \in Person
    /\ h.pc \in Answering => h.sess.kind # "other"
    /\ h.pc \in {"loginRead", "loginIssue"} /\ h.sess.kind = "normal" => Role(h.sess.who) # "deny"
    /\ h.pc \in {"loginRead", "loginIssue", "stepIssue"} => h.sess.iat = h.now
    /\ (\/ h.pc \in {"stepRead", "stepIssue", "adminDecide", "page"}
        \/ h.pc \in {"renewRead", "renewIssue"} /\ h.why = "admin")
       => h.sess.kind = "normal" /\ Role(h.sess.who) = "admin"
    /\ h.sess.kind = "card" => h.sess.who = None /\ h.sess.groups \subseteq Group
    /\ h.pc \in {"renewRead", "renewIssue"} => h.why \in {"due", "refused", "admin"}
    /\ h.pc = "verifyRead" => h.why = "none"
    /\ h.pc = "decide" => h.why \in {"none", "due", "refused"}
    /\ h.had # {} \/ h.gone # {} => h.sess.who \in Person /\ h.pc \in Serving

\* The types, with the times in order.
BaseInv ==
    /\ TypeOK /\ Start <= clock
    /\ \A x \in Pair : removedAt[x] <= clock
    /\ \A s \in cookies : CookieOK(s)
    /\ \A p \in Proc : HandlerOK(req[p])


\* Cookies of an earlier run are cards, of another kind, or due for renewal.
LEMMA InitBase == Init => BaseInv
  <1> SUFFICES ASSUME Init PROVE BaseInv
    OBVIOUS
  <1>1. Start \in Nat /\ Start > 1 /\ Legacy \subseteq Roles
    BY Constants, GroupsAssumption
  <1>2. direct \in [Person -> SUBSET (Group \cup Roles)]
    BY <1>1 DEF Init
  <1>3. \A s \in cookies : s \in Session /\ CookieOK(s)
    BY <1>1, OutstandingAssumption, GroupsAssumption DEF Init, CookieOK, Old, Kinds, Session
  <1>4. \A p \in Proc : req[p] = Idle
    BY DEF Init
  <1>5. HandlerOK(Idle)
    BY IdleOK DEF HandlerOK, Serving, Reading, Sitting, Answering, NoSession
  <1>6. TypeOK
    BY <1>1, <1>2, <1>3, <1>4, IdleOK DEF Init, TypeOK
  <1>7. Start <= clock /\ \A x \in Pair : removedAt[x] <= clock
    BY <1>1 DEF Init
  <1> QED BY <1>3, <1>4, <1>5, <1>6, <1>7 DEF BaseInv

\* A cookie the handler reads, and the person it serves.
LEMMA BaseFields ==
    ASSUME BaseInv, NEW p \in Proc
    PROVE  /\ HandlerOK(req[p]) /\ TypeOK
           /\ req[p].pc \in Sitting => req[p].sess.kind \in Kinds /\ req[p].sess.who \in Person
  BY DEF BaseInv, HandlerOK, Serving

\* Each step that answers people leaves its handler what the next step rests on.
LEMMA ServesHandler ==
    ASSUME BaseInv, NEW p \in Proc, Serves(p)
    PROVE  req'[p] \in Handler /\ HandlerOK(req[p])'
  <1> DEFINE h == req[p]
  <1>0. /\ TypeOK /\ HandlerOK(h) /\ h.pc \in PC /\ h.now \in Nat /\ clock \in Nat /\ Start \in Nat
        /\ clock' = clock /\ policy' = policy /\ Start <= clock
        /\ \A s \in cookies : s \in Session /\ CookieOK(s)
        /\ h.pc \in Sitting => h.sess.kind \in Kinds /\ h.sess.who \in Person
    BY ServesFrame, BaseFields, Fields, Constants DEF BaseInv, TypeOK
  <1>a. \A s : CookieOK(s) => CookieOK(s)'
    BY <1>0 DEF CookieOK, Old
  <1>b. \A w : Role(w)' = Role(w)
    BY <1>0 DEF Role
  <1>c. req'[p] = Idle => req'[p] \in Handler /\ HandlerOK(req[p])'
    BY IdleOK DEF HandlerOK, Serving, Reading, Sitting, Answering, NoSession
  <1> USE DEF Serving, Reading, Sitting, Answering, Kinds
  <1>1. ASSUME NEW s \in cookies, NEW r \in Routes, VerifyBegin(p, s, r)
        PROVE  req'[p] \in Handler /\ HandlerOK(req[p])'
    <2>1. CookieOK(s)
      BY <1>0
    <2> QED BY <1>0, <1>a, <1>1, <2>1, VerifyBeginDoes DEF HandlerOK, CookieOK
  <1>2. ASSUME NEW s \in cookies, StepUpBegin(p, s)
        PROVE  req'[p] \in Handler /\ HandlerOK(req[p])'
    BY <1>0, <1>a, <1>b, <1>2, StepUpBeginDoes DEF HandlerOK, CookieOK
  <1>3. ASSUME NEW s \in cookies, AdminBegin(p, s)
        PROVE  req'[p] \in Handler /\ HandlerOK(req[p])'
    BY <1>0, <1>a, <1>3, AdminBeginDoes DEF HandlerOK, CookieOK
  <1>4. ASSUME NEW w \in Person, NEW open \in BOOLEAN, NEW stepped \in BOOLEAN, LoginBegin(p, w, open, stepped)
        PROVE  req'[p] \in Handler /\ HandlerOK(req[p])'
    BY <1>0, <1>b, <1>4, LoginBeginDoes DEF HandlerOK
  <1>5. CASE VerifyRead(p)
    <2>1. \/ req'[p] = Idle
          \/ /\ Onward(h, req'[p]) /\ req'[p].sess = h.sess /\ h.sess.kind # "other"
             /\ \/ /\ req'[p].pc = "renewRead" /\ req'[p].why = "due"
                   /\ \/ NeedsRenew(h.sess, h.now) \/ GroupsStale(h.sess)
                      \/ TierStale(h.sess, clock) \/ PolicyWithdrawn(h.sess)
                \/ req'[p].pc = "decide" /\ req'[p].why = h.why
      BY <1>0, <1>5, VerifyReadDoes
    <2>2. req'[p].pc = "renewRead" => req'[p] = Idle \/ h.sess.kind # "card"
      BY <2>1 DEF NeedsRenew, GroupsStale, TierStale, PolicyWithdrawn
    <2>3. h.sess.kind \in {"normal", "guest", "card", "other"}
      BY <1>0, Fields
    <2>4. req'[p] \in Handler /\ h.pc = "verifyRead"
      BY <1>0, <1>5, VerifyReadDoes
    <2> QED BY <1>0, <1>c, <2>1, <2>2, <2>3, <2>4 DEF HandlerOK, Onward, CookieOK
  <1>6. CASE RenewRead(p)
    <2>1. h.pc = "renewRead"
      BY <1>6 DEF RenewRead, At
    <2>2. /\ req'[p] \in Handler
          /\ \/ req'[p] = Idle
             \/ Onward(h, req'[p]) /\ req'[p].sess = h.sess /\ req'[p].why = h.why /\ req'[p].pc = "renewIssue"
      BY <1>0, <1>6, <2>1, RenewReadDoes
    <2> QED BY <1>0, <1>b, <1>c, <2>1, <2>2 DEF HandlerOK, Onward
  <1>7. CASE RenewIssue(p)
    <2>1. /\ req'[p] \in Handler /\ h.pc = "renewIssue" /\ Onward(h, req'[p]) /\ SameSession(req'[p].sess, h.sess)
          /\ req'[p].why = h.why
          /\ req'[p].pc = IF h.why = "admin" THEN "adminDecide" ELSE "decide"
      BY <1>0, <1>7, RenewIssueDoes
    <2> QED BY <1>0, <1>b, <2>1 DEF HandlerOK, Onward, SameSession
  <1>8. CASE Decide(p)
    <2>1. /\ req'[p] \in Handler /\ h.pc = "decide"
          /\ \/ req'[p] = Idle
             \/ /\ Onward(h, req'[p]) /\ req'[p].why = h.why /\ SameSession(req'[p].sess, h.sess)
                /\ req'[p].sess.groups = IF h.why = "refused" THEN h.sess.groups ELSE GuestGroupsNow(h.sess)
                /\ \/ req'[p].pc = "ok" \/ req'[p].pc = "denied"
                   \/ req'[p].pc = "recheck" /\ req'[p].sess.kind \in Kinds
      BY <1>0, <1>8, DecideDoes
    <2>2. h.sess.kind = "card" => GuestGroupsNow(h.sess) = h.sess.groups
      BY DEF GuestGroupsNow
    <2> QED BY <1>0, <1>b, <1>c, <2>1, <2>2 DEF HandlerOK, Onward, SameSession
  <1>9. CASE Recheck(p)
    <2>1. h.pc = "recheck"
      BY <1>9 DEF Recheck, At
    <2>2. /\ req'[p] \in Handler
          /\ \/ req'[p] = Idle
             \/ /\ Onward(h, req'[p]) /\ req'[p].sess = h.sess
                /\ \/ req'[p].pc = "denied" \/ req'[p].pc = "confirm"
                   \/ req'[p].pc = "renewIssue" /\ req'[p].why = "refused"
      BY <1>0, <1>9, <2>1, RecheckDoes
    <2> QED BY <1>0, <1>b, <1>c, <2>1, <2>2 DEF HandlerOK, Onward
  <1>10. CASE Confirm(p)
    <2>1. req'[p] \in Handler /\ h.pc = "confirm" /\ Onward(h, req'[p]) /\ req'[p].sess = h.sess /\ req'[p].pc = "denied"
      BY <1>0, <1>10, ConfirmDoes
    <2> QED BY <1>0, <2>1 DEF HandlerOK, Onward
  <1>11. CASE Finish(p) \/ LoginIssue(p) \/ StepUpIssue(p)
    BY <1>0, <1>c, <1>11, FinishDoes, IssueDoes
  <1>12. CASE LoginRead(p)
    <2>1. h.pc = "loginRead"
      BY <1>12 DEF LoginRead, At
    <2>2. req'[p] \in Handler /\ Onward(h, req'[p]) /\ SameSession(req'[p].sess, h.sess) /\ req'[p].pc = "loginIssue"
      <3>1. h.sess.kind = "normal" => Role(h.sess.who) # "deny"
        BY <1>0, <2>1 DEF HandlerOK
      <3> QED BY <1>0, <1>12, <2>1, <3>1, LoginReadDoes
    <2> QED BY <1>0, <1>b, <2>1, <2>2 DEF HandlerOK, Onward, SameSession
  <1>13. CASE StepUpRead(p)
    <2>1. h.pc = "stepRead"
      BY <1>13 DEF StepUpRead, At
    <2>2. /\ req'[p] \in Handler /\ Onward(h, req'[p]) /\ req'[p].pc = "stepIssue"
          /\ req'[p].sess.who = h.sess.who /\ req'[p].sess.kind = h.sess.kind /\ req'[p].sess.iat = h.now
      BY <1>0, <1>13, <2>1, StepUpReadDoes
    <2> QED BY <1>0, <1>b, <2>1, <2>2 DEF HandlerOK, Onward
  <1>14. CASE AdminRead(p) \/ AdminDecide(p)
    <2>1. /\ h.pc \in {"adminRead", "adminDecide"}
          /\ req'[p] \in Handler
          /\ \/ req'[p] = Idle
             \/ /\ AdminTierHeld(h.sess, clock) /\ req'[p].pc = "page" /\ req'[p].sess = h.sess /\ req'[p].now = h.now
                /\ h.pc = "adminRead" => Role(h.sess.who) = "admin"
                /\ req'[p].had = h.had /\ req'[p].gone = h.gone
             \/ /\ h.sess.kind = "normal" /\ Role(h.sess.who) = "admin" /\ h.pc = "adminRead"
                /\ req'[p].pc = "renewRead" /\ req'[p].why = "admin" /\ req'[p].sess = h.sess /\ req'[p].now = clock
                /\ req'[p].had = h.had /\ req'[p].gone = h.gone
      BY <1>0, <1>14, AdminDoes
    <2> QED BY <1>0, <1>b, <1>c, <2>1 DEF HandlerOK, CookieOK, AdminTierHeld
  <1> QED
    BY <1>1, <1>2, <1>3, <1>4, <1>5, <1>6, <1>7, <1>8, <1>9, <1>10, <1>11, <1>12, <1>13, <1>14 DEF Serves

\* The cookies issued, and the refusals remembered, are well formed.
LEMMA ServesCookies ==
    ASSUME BaseInv, NEW p \in Proc, Serves(p)
    PROVE  /\ cookies' \subseteq Session /\ \A s \in cookies' : CookieOK(s)
           /\ confirmed' \subseteq [who : Person, groups : SUBSET (Group \cup Roles), until : Nat]
  <1> DEFINE h == req[p]
  <1>0. /\ TypeOK /\ HandlerOK(h) /\ h.now \in Nat /\ h.sess \in Session /\ RecheckTTL \in Nat
        /\ \A s \in cookies : s \in Session /\ CookieOK(s)
        /\ h.pc \in Sitting => h.sess.kind \in Kinds /\ h.sess.who \in Person
        /\ confirmed \subseteq [who : Person, groups : SUBSET (Group \cup Roles), until : Nat]
    BY BaseFields, Fields, Constants DEF BaseInv, TypeOK
  <1>1. CASE RenewIssue(p)
    <2>1. \A c \in cookies' \ cookies : c.who = h.sess.who /\ c.kind = h.sess.kind /\ c.iat = h.now
      BY <1>0, <1>1, RenewIssueDoes
    <2>2. h.pc = "renewIssue" /\ cookies' \subseteq Session /\ confirmed' = confirmed
      BY <1>0, <1>1, RenewIssueDoes
    <2>3. h.sess.kind \in Kinds /\ h.sess.who \in Person /\ h.now <= clock /\ Start <= h.now
      BY <1>0, <2>2 DEF HandlerOK, Serving, Sitting
    <2>4. \A c \in cookies' \ cookies : CookieOK(c)
      BY <2>1, <2>3 DEF CookieOK, Kinds
    <2> QED BY <1>0, <2>2, <2>4
  <1>2. CASE LoginIssue(p) \/ StepUpIssue(p)
    <2>1. /\ h.pc \in {"loginIssue", "stepIssue"} /\ confirmed' = confirmed
          /\ cookies' \subseteq cookies \cup {h.sess} /\ cookies' \subseteq Session
      BY <1>0, <1>2, IssueDoes
    <2>2. h.sess.kind \in Kinds /\ h.sess.who \in Person /\ h.now <= clock /\ Start <= h.now /\ h.sess.iat = h.now
      BY <1>0, <2>1 DEF HandlerOK, Serving, Sitting
    <2>3. CookieOK(h.sess)
      BY <2>2 DEF CookieOK, Kinds
    <2> QED BY <1>0, <2>1, <2>3
  <1>3. CASE Confirm(p)
    <2>1. h.pc = "confirm" /\ cookies' = cookies /\ confirmed' \subseteq confirmed \cup {Confirmation(h)}
      BY <1>0, <1>3, ConfirmDoes
    <2>2. h.sess.who \in Person /\ h.sess.groups \in SUBSET (Group \cup Roles) /\ h.now + RecheckTTL \in Nat
      BY <1>0, <2>1, Fields DEF Sitting
    <2>3. Confirmation(h) \in [who : Person, groups : SUBSET (Group \cup Roles), until : Nat]
      BY <2>2 DEF Confirmation
    <2> QED BY <1>0, <2>1, <2>3
  <1>4. CASE ~(RenewIssue(p) \/ LoginIssue(p) \/ StepUpIssue(p) \/ Confirm(p))
    <2>1. cookies' = cookies /\ confirmed' = confirmed
      BY <1>4 DEF Serves, VerifyBegin, StepUpBegin, AdminBegin, LoginBegin, VerifyRead, RenewRead,
           Decide, Recheck, Finish, LoginRead, StepUpRead, AdminRead, AdminDecide, memory
    <2> QED BY <1>0, <2>1
  <1> QED BY <1>1, <1>2, <1>3, <1>4

\* A handler that is only set aside rests on what it did.
LEMMA AsideOK ==
    ASSUME NEW h, NEW k, Aside(h, k), HandlerOK(h)
    PROVE  HandlerOK(k)
  BY DEF Aside, HandlerOK

\* Every step keeps the types, and what each handler rests on.
LEMMA BaseStep == BaseInv /\ [Next]_vars => BaseInv'
  <1> SUFFICES ASSUME BaseInv, [Next]_vars PROVE BaseInv'
    OBVIOUS
  <1>0. /\ TypeOK /\ Start <= clock /\ clock \in Nat /\ Start \in Nat /\ Start > 1
        /\ \A x \in Pair : removedAt[x] <= clock
        /\ \A s \in cookies : CookieOK(s)
        /\ \A p \in Proc : HandlerOK(req[p])
    BY Constants DEF BaseInv, TypeOK
  <1>1. ASSUME NEW p \in Proc, Serves(p)
        PROVE  BaseInv'
    <2>1. /\ UNCHANGED <<clock, direct, includes, dbChanged, changedAt, gen>>
          /\ UNCHANGED <<policy, routes, ruledAt, adrift, unstored, removedAt>>
          /\ \A q \in Proc \ {p} : req'[q] = req[q]
          /\ req' = [req EXCEPT ![p] = req'[p]]
      BY <1>0, <1>1, ServesFrame
    <2>2. req'[p] \in Handler /\ HandlerOK(req[p])'
      BY <1>1, ServesHandler
    <2>3. /\ cookies' \subseteq Session /\ \A s \in cookies' : CookieOK(s)
          /\ confirmed' \subseteq [who : Person, groups : SUBSET (Group \cup Roles), until : Nat]
      BY <1>1, ServesCookies
    <2>4. \A s \in cookies' : CookieOK(s)'
      BY <2>1, <2>3 DEF CookieOK, Old
    <2>5. \A q \in Proc : HandlerOK(req[q])'
      <3>1. ASSUME NEW q \in Proc \ {p} PROVE HandlerOK(req[q])'
        <4>1. HandlerOK(req[q]) /\ req'[q] = req[q]
          BY <1>0, <2>1
        <4> QED BY <2>1, <4>1 DEF HandlerOK, CookieOK, Old, Role
      <3> QED BY <2>2, <3>1
    <2>6. TypeOK'
      BY <1>0, <2>1, <2>2, <2>3 DEF TypeOK
    <2> QED BY <1>0, <2>1, <2>4, <2>5, <2>6 DEF BaseInv
  <1>2. ASSUME NEW p \in Proc, Changes(p)
        PROVE  BaseInv'
    <2>1. /\ UNCHANGED <<clock, dbChanged, changedAt, gen, confirmed, policy, routes, ruledAt, cookies, unstored>>
          /\ direct' \in [Person -> SUBSET (Group \cup Roles)] /\ includes' \subseteq Includable
          /\ \A x \in Pair : removedAt'[x] = IF Ends(x) THEN clock ELSE removedAt[x]
          /\ removedAt' \in [Pair -> Nat] /\ req' \in [Proc -> Handler]
          /\ \A q \in Proc \ {p} : Aside(req[q], req'[q])
          /\ adrift' = adrift \/ adrift' = adrift \cup {x \in req[p].gained : Held(x)'}
          /\ \/ req'[p] = Idle
             \/ /\ req'[p].pc \in Unmarked
                /\ \/ req'[p].sess = NoSession
                   \/ req'[p].sess = req[p].sess /\ req[p].pc = "sync"
                /\ \/ req'[p].had = {} /\ req'[p].gone = {}
                   \/ req'[p].had = req[p].had /\ req'[p].gone = req[p].gone /\ req[p].pc = "sync"
      BY <1>0, <1>2, ChangesDo, IdleOK
    <2>2. HandlerOK(req[p])'
      <3>1. HandlerOK(req[p]) /\ clock' = clock /\ policy' = policy
        BY <1>0, <2>1
      <3> QED BY <2>1, <3>1, IdleOK DEF HandlerOK, Unmarked, Serving, Reading, Sitting, Answering, NoSession
    <2>3. ASSUME NEW q \in Proc \ {p} PROVE HandlerOK(req[q])'
      <3>1. HandlerOK(req'[q])
        BY <1>0, <2>1, AsideOK
      <3> QED BY <2>1, <3>1 DEF HandlerOK, CookieOK, Old, Role
    <2>4. TypeOK'
      <3>1. req[p].gained \subseteq Pair
        BY <1>0, Fields
      <3> QED BY <1>0, <2>1, <3>1 DEF TypeOK
    <2>5. \A x \in Pair : removedAt'[x] <= clock'
      BY <1>0, <2>1
    <2>6. \A s \in cookies' : CookieOK(s)'
      BY <1>0, <2>1 DEF CookieOK, Old
    <2> QED BY <1>0, <2>1, <2>2, <2>3, <2>4, <2>5, <2>6 DEF BaseInv
  <1>3. ASSUME NEW p \in Proc, Announces(p)
        PROVE  BaseInv'
    <2>1. /\ UNCHANGED <<clock, direct, includes, cookies, policy, routes, ruledAt, removedAt>>
          /\ \A q \in Proc \ {p} : req'[q] = req[q]
          /\ req' = [req EXCEPT ![p] = req'[p]] /\ req'[p] \in Handler
          /\ req[p].pc \in Changing \cup {"idle"} /\ req'[p].pc \in Changing \cup {"idle"}
          /\ req'[p].had = {} \/ req'[p].had = req[p].had
          /\ req'[p].gone = {} \/ req'[p].gone = req[p].gone
          /\ req'[p].sess = NoSession \/ req'[p].sess = req[p].sess
      BY <1>0, <1>3, AnnouncesFrame
    <2>2. HandlerOK(req[p])'
      <3>1. HandlerOK(req[p])
        BY <1>0
      <3>2. req'[p].had = {} /\ req'[p].gone = {}
        BY <2>1, <3>1 DEF HandlerOK, Changing, Unmarked, Serving, Reading, Sitting, Answering
      <3> QED BY <2>1, <3>1, <3>2
              DEF HandlerOK, Changing, Unmarked, Serving, Reading, Sitting, Answering, NoSession
    <2>3. ASSUME NEW q \in Proc \ {p} PROVE HandlerOK(req[q])'
      <3>1. HandlerOK(req[q]) /\ req'[q] = req[q]
        BY <1>0, <2>1
      <3> QED BY <2>1, <3>1 DEF HandlerOK, CookieOK, Old, Role
    <2>4. {dbChanged', changedAt', gen'} \subseteq Nat /\ adrift' \subseteq Pair /\ unstored' \subseteq Pair
          /\ (confirmed' = {} \/ confirmed' = confirmed)
      <3>1. req[p].at \in Nat /\ req[p].lost \subseteq Pair /\ req[p].gained \subseteq Pair
        BY <1>0, Fields
      <3> QED BY <1>0, <1>3, <3>1 DEF Announces, SyncBegin, IncludeStands, UndoFails, MarkArg, ForgetAll, MarkDB,
                MarkMemory, TypeOK, Later, db, memory, history
    <2>5. TypeOK'
      BY <1>0, <2>1, <2>4 DEF TypeOK
    <2>6. \A s \in cookies' : CookieOK(s)'
      BY <1>0, <2>1 DEF CookieOK, Old
    <2> QED BY <1>0, <2>1, <2>2, <2>3, <2>5, <2>6 DEF BaseInv
  <1>4. CASE Tick
    <2>1. clock' = clock + 1 /\ UNCHANGED <<db, memory, rules, cookies, req, history>>
      BY <1>4 DEF Tick
    <2>2. TypeOK'
      BY <1>0, <2>1 DEF TypeOK, db, memory, rules, history
    <2>3. \A s \in cookies : CookieOK(s)'
      <3>1. ASSUME NEW s \in cookies PROVE CookieOK(s)'
        <4>1. CookieOK(s) /\ s.iat \in Nat
          BY <1>0 DEF TypeOK, Session
        <4> QED BY <1>0, <2>1, <4>1 DEF CookieOK, Old
      <3> QED BY <3>1
    <2>4. ASSUME NEW p \in Proc PROVE HandlerOK(req[p])'
      <3>1. HandlerOK(req[p]) /\ req[p].now \in Nat /\ req[p].sess.iat \in Nat /\ req'[p] = req[p]
        BY <1>0, <2>1, Fields
      <3>2. CookieOK(req[p].sess) => CookieOK(req[p].sess)'
        BY <1>0, <2>1, <3>1 DEF CookieOK, Old
      <3>3. req[p].now <= clock => req'[p].now <= clock'
        BY <1>0, <2>1, <3>1
      <3>4. policy' = policy
        BY <2>1 DEF rules
      <3> QED BY <3>1, <3>2, <3>3, <3>4 DEF HandlerOK, Role
    <2>5. Start <= clock' /\ \A x \in Pair : removedAt'[x] <= clock'
      <3>1. \A x \in Pair : removedAt[x] \in Nat
        BY <1>0 DEF TypeOK
      <3> QED BY <1>0, <2>1, <3>1 DEF history
    <2> QED BY <2>1, <2>2, <2>3, <2>4, <2>5 DEF BaseInv
  <1>5. CASE RoutesChange
    <2>1. /\ UNCHANGED <<clock, db, memory, policy, cookies, history>>
          /\ routes' \in RouteFiles /\ ruledAt' = clock
          /\ req' = [p \in Proc |-> [req[p] EXCEPT !.bar = @ \cap AppRoleGroups']]
      BY <1>5 DEF RoutesChange
    <2>2. ASSUME NEW p \in Proc
          PROVE  req'[p] \in Handler /\ Aside(req[p], req'[p])
      <3>1. req[p] \in Handler /\ req'[p] = [req[p] EXCEPT !.bar = @ \cap AppRoleGroups']
        BY <1>0, <2>1, Fields
      <3> QED BY <3>1 DEF Handler, Aside
    <2>3. \A p \in Proc : HandlerOK(req'[p])
      BY <1>0, <2>2, AsideOK
    <2>4. \A p \in Proc : HandlerOK(req[p])'
      BY <2>1, <2>3 DEF HandlerOK, CookieOK, Old, Role
    <2>5. TypeOK'
      BY <1>0, <2>1, <2>2 DEF TypeOK, db, memory, history
    <2> QED BY <1>0, <2>1, <2>4, <2>5 DEF BaseInv, CookieOK, Old, history
  <1>6. CASE Restart
    <2>1. /\ req' = [p \in Proc |-> Idle] /\ UNCHANGED <<clock, db, routes, cookies, removedAt>>
          /\ changedAt' = dbChanged /\ gen' = 0 /\ confirmed' = {} /\ policy' \in Policies
          /\ ruledAt' = IF policy' = policy THEN ruledAt ELSE clock
          /\ adrift' = adrift \cup unstored \cup UNION {req[p].lost : p \in Proc} /\ unstored' = {}
      BY <1>6 DEF Restart
    <2>2. \A p \in Proc : req[p].lost \subseteq Pair
      BY <1>0, Fields
    <2>3. TypeOK'
      BY <1>0, <2>1, <2>2, IdleOK DEF TypeOK, db
    <2>4. \A p \in Proc : HandlerOK(req[p])'
      BY <2>1, IdleOK DEF HandlerOK, Serving, Reading, Sitting, Answering, NoSession
    <2> QED BY <1>0, <2>1, <2>3, <2>4 DEF BaseInv, CookieOK, Old
  <1>7. CASE UNCHANGED vars
    BY <1>7 DEF BaseInv, TypeOK, vars, db, memory, rules, history, HandlerOK, CookieOK, Old, Role
  <1> QED BY <1>1, <1>2, <1>3, <1>4, <1>5, <1>6, <1>7, NextCases

\* In every reachable state the handlers, the cookies and the times are well formed.
LEMMA BaseAlways == Spec => []BaseInv
  BY InitBase, BaseStep, PTL DEF Spec

\* Every variable keeps its type: each handler's fields, each cookie issued, and
\* each refusal the recheck cache remembers.
THEOREM GroupsTypeCorrect == Spec => []TypeOK
  <1>1. BaseInv => TypeOK
    BY DEF BaseInv
  <1> QED BY <1>1, BaseAlways, PTL

-----------------------------------------------------------------------------
(* The admin tier, outsiders and the roles that need the second step *)

\* A cookie that is not due for renewal fits the rules as they were last changed.
DoorCookie(s) ==
    /\ Lowered(s, s.groups) => s.groups \cap Paired = {} \/ Ruled(s.iat) \/ Old(s)
    /\ s.kind = "guest" => "admin" \notin s.groups \/ Old(s)

\* What each step has established of the tier, of the paired roles and of the
\* roles an outsider must not hold.
DoorHandler(h) ==
    /\ h.bar \subseteq AppRoleGroups
    /\ h.pc = "verifyRead" => DoorCookie(h.sess)
    /\ h.pc = "renewIssue" =>
         /\ RenewalRole(h.sess) # "deny"
         /\ "admin" \in h.read => AdminTier(h.sess, h.now)
         /\ Lowered(h.sess, h.read) => h.read \cap Paired = {} \/ Ruled(h.now)
         /\ h.why = "refused" /\ Outsider(h.sess) => h.read \cap h.bar = {}
    /\ h.pc = "loginIssue" =>
         /\ h.sess.kind = "guest" => "admin" \notin h.sess.groups
         /\ Lowered(h.sess, h.sess.groups) => h.sess.groups \cap Paired = {} \/ Ruled(h.now)
    /\ h.pc = "stepIssue" => "admin" \in h.sess.groups
    /\ h.pc \in Answering =>
         /\ h.sess.kind \in Kinds => RenewalRole(h.sess) # "deny"
         /\ "admin" \in h.sess.groups => AdminTier(h.sess, h.now)
         /\ Lowered(h.sess, h.sess.groups) => h.sess.groups \cap Paired = {} \/ RuledWindow(h.now)
    /\ (h.pc = "ok" \/ (h.pc = "decide" /\ h.why = "refused")) /\ Outsider(h.sess) =>
         h.sess.groups \cap h.bar = {}
    /\ h.pc = "page" => AdminTier(h.sess, h.now)

\* Cookies and handlers fit the rules.
DoorInv ==
    /\ ruledAt <= clock
    /\ \A s \in cookies : DoorCookie(s)
    /\ \A p \in Proc : DoorHandler(req[p])

\* A handler put aside, or one that has nothing to do, fits the rules as before.
LEMMA AsideDoor ==
    ASSUME NEW h, NEW k, Aside(h, k), DoorHandler(h)
    PROVE  DoorHandler(k)
  BY DEF Aside, DoorHandler

LEMMA IdleDoor == DoorHandler(Idle)
  BY IdleOK DEF DoorHandler, Answering

\* Sessions that differ in their groups only are of the same person and step.
LEMMA SameDoor ==
    ASSUME NEW s, NEW t, SameSession(s, t)
    PROVE  /\ RenewalRole(s) = RenewalRole(t) /\ (Outsider(s) <=> Outsider(t))
           /\ \A u : AdminTier(s, u) <=> AdminTier(t, u)
           /\ \A G : Lowered(s, G) <=> Lowered(t, G)
  BY DEF SameSession, RenewalRole, Outsider, AdminTier, AdminStepFresh, Lowered

\* Each step that answers people fits what it leaves to the rules in force.
LEMMA ServesDoor ==
    ASSUME BaseInv, DoorInv, NEW p \in Proc, Serves(p)
    PROVE  DoorHandler(req'[p])
  <1> DEFINE h == req[p]
  <1>0. /\ TypeOK /\ HandlerOK(h) /\ DoorHandler(h) /\ h.now \in Nat /\ clock \in Nat /\ Start \in Nat
        /\ h.sess \in Session /\ policy \in Policies /\ routes \in RouteFiles /\ Start <= clock
        /\ \A s \in cookies : DoorCookie(s)
        /\ h.pc \in Sitting => h.sess.kind \in Kinds /\ h.sess.who \in Person
        /\ RenewAfter \in Nat /\ ruledAt \in Nat
    BY BaseFields, Fields, Constants DEF BaseInv, DoorInv, TypeOK
  <1>c. req'[p] = Idle => DoorHandler(req'[p])
    BY IdleDoor
  <1>1. ASSUME NEW s \in cookies, NEW r \in Routes, VerifyBegin(p, s, r)
        PROVE  DoorHandler(req'[p])
    BY <1>0, <1>1, VerifyBeginDoes DEF DoorHandler, Answering
  <1>2. ASSUME NEW s \in cookies, StepUpBegin(p, s)
        PROVE  DoorHandler(req'[p])
    BY <1>0, <1>2, StepUpBeginDoes DEF DoorHandler, Answering
  <1>3. ASSUME NEW s \in cookies, AdminBegin(p, s)
        PROVE  DoorHandler(req'[p])
    BY <1>0, <1>3, AdminBeginDoes DEF DoorHandler, Answering
  <1>4. ASSUME NEW w \in Person, NEW open \in BOOLEAN, NEW stepped \in BOOLEAN, LoginBegin(p, w, open, stepped)
        PROVE  DoorHandler(req'[p])
    BY <1>0, <1>4, LoginBeginDoes DEF DoorHandler, Answering
  <1>5. CASE VerifyRead(p)
    <2>1. /\ h.pc = "verifyRead"
          /\ \/ req'[p] = Idle
             \/ /\ Onward(h, req'[p]) /\ req'[p].sess = h.sess /\ h.sess.kind # "other"
                /\ \/ req'[p].pc = "renewRead"
                   \/ /\ ~NeedsRenew(h.sess, h.now) /\ ~TierStale(h.sess, clock) /\ ~PolicyWithdrawn(h.sess)
                      /\ req'[p].pc = "decide" /\ req'[p].why = h.why
      BY <1>0, <1>5, VerifyReadDoes
    <2>2. CASE req'[p] = Idle
      BY <1>c, <2>2
    <2>3. CASE Onward(h, req'[p]) /\ req'[p].sess = h.sess /\ req'[p].pc = "renewRead"
      BY <1>0, <2>3 DEF DoorHandler, Answering, Onward
    <2>4. CASE /\ Onward(h, req'[p]) /\ req'[p].sess = h.sess /\ h.sess.kind # "other"
               /\ ~NeedsRenew(h.sess, h.now) /\ ~TierStale(h.sess, clock) /\ ~PolicyWithdrawn(h.sess)
               /\ req'[p].pc = "decide" /\ req'[p].why = h.why
      <3> DEFINE s == h.sess
      <3>1. s.iat \in Nat /\ s.kind \in {"normal", "guest", "card", "other"} /\ s.groups \subseteq Group \cup Roles
        BY Fields, <1>0
      <3>2. /\ Start <= h.now /\ h.now <= clock /\ h.why = "none" /\ DoorCookie(s) /\ CookieOK(s)
        BY <1>0, <2>1 DEF HandlerOK, DoorHandler, Serving, Reading
      <3>3. s.kind \in Kinds => s.who \in Person /\ RenewalRole(s) # "deny" /\ ~Old(s) /\ h.now <= s.iat + RenewAfter
        BY <1>0, <2>4, <3>1, <3>2 DEF CookieOK, PolicyWithdrawn, NeedsRenew, Old, Kinds
      <3>4. "admin" \in s.groups => AdminTier(s, h.now)
        <4>1. CASE s.kind = "card"
          BY <3>2, <4>1, Constants DEF CookieOK, Roles
        <4>2. CASE s.kind = "guest"
          BY <3>2, <3>3, <4>2 DEF DoorCookie, Kinds
        <4>3. CASE s.kind = "normal" /\ "admin" \in s.groups
          <5>1. TierRole(s, RenewalRole(s), clock) = "admin"
            BY <2>4, <4>3 DEF TierStale
          <5>2. Role(s.who) = "admin" /\ AdminStepFresh(s, clock)
            BY <1>0, <3>3, <4>3, <5>1, RolesGiven DEF Kinds
          <5> QED BY <1>0, <3>2, <4>3, <5>2, FreshEarlier DEF AdminTier
        <4> QED BY <2>4, <3>1, <4>1, <4>2, <4>3
      <3>5. Lowered(s, s.groups) => s.groups \cap Paired = {} \/ RuledWindow(h.now)
        BY <1>0, <3>1, <3>2, <3>3 DEF DoorCookie, Lowered, Kinds, Ruled, RuledWindow
      <3> QED BY <1>0, <2>4, <3>2, <3>3, <3>4, <3>5 DEF DoorHandler, Answering, Onward
    <2> QED BY <2>1, <2>2, <2>3, <2>4
  <1>6. CASE RenewRead(p)
    <2>1. h.pc = "renewRead"
      BY <1>6 DEF RenewRead, At
    <2>2. \/ req'[p] = Idle
          \/ /\ RenewalRole(h.sess) # "deny" /\ Onward(h, req'[p]) /\ req'[p].sess = h.sess
             /\ req'[p].why = h.why /\ req'[p].pc = "renewIssue"
             /\ WorkedOut(h.sess, req'[p].read, ~req'[p].failed)
      BY <1>0, <1>6, <2>1, RenewReadDoes DEF Sitting
    <2>3. CASE ~(req'[p] = Idle)
      <3>1. h.sess.kind \in Kinds /\ h.sess.who \in Person /\ h.now <= clock
        BY <1>0, <2>1 DEF HandlerOK, Sitting, Serving
      <3>3. PICK G : G = req'[p].read
        OBVIOUS
      <3>4. /\ "admin" \in G => AdminTier(h.sess, h.now)
            /\ Lowered(h.sess, G) => G \cap Paired = {}
            /\ Outsider(h.sess) => G \cap AppRoleGroups = {}
        BY <1>0, <2>2, <2>3, <3>1, <3>3, WorkedOutFits
      <3> QED BY <1>0, <2>2, <2>3, <3>3, <3>4 DEF DoorHandler, Answering, Onward
    <2> QED BY <1>c, <2>3
  <1>7. CASE RenewIssue(p)
    <2>1. /\ h.pc = "renewIssue" /\ Onward(h, req'[p]) /\ SameSession(req'[p].sess, h.sess)
          /\ req'[p].why = h.why /\ req'[p].sess.groups = h.read
          /\ req'[p].pc = IF h.why = "admin" THEN "adminDecide" ELSE "decide"
      BY <1>0, <1>7, RenewIssueDoes
    <2>2. Ruled(h.now) => RuledWindow(h.now)
      BY <1>0 DEF Ruled, RuledWindow
    <2> QED BY <1>0, <2>1, <2>2, SameDoor DEF DoorHandler, Answering, Onward
  <1>8. CASE Decide(p)
    <2>1. /\ h.pc = "decide"
          /\ \/ req'[p] = Idle
             \/ /\ Onward(h, req'[p]) /\ req'[p].why = h.why /\ SameSession(req'[p].sess, h.sess)
                /\ req'[p].sess.groups = IF h.why = "refused" THEN h.sess.groups ELSE GuestGroupsNow(h.sess)
                /\ req'[p].pc \in {"ok", "denied", "recheck"}
      BY <1>0, <1>8, DecideDoes
    <2>2. /\ req'[p] # Idle => req'[p].sess.groups \subseteq h.sess.groups
          /\ req'[p] # Idle /\ h.sess.kind = "normal" => req'[p].sess.groups = h.sess.groups
          /\ req'[p] # Idle /\ Outsider(h.sess) /\ h.why # "refused" =>
               req'[p].sess.groups \cap AppRoleGroups = {}
      BY <2>1 DEF GuestGroupsNow, WithoutAppRolesForOutsider, Outsider
    <2>3. CASE ~(req'[p] = Idle)
      <3> DEFINE G == req'[p].sess.groups
      <3>1. /\ G \subseteq h.sess.groups /\ (Outsider(h.sess) /\ h.why # "refused" => G \cap AppRoleGroups = {})
            /\ h.bar \subseteq AppRoleGroups
            /\ h.sess.kind \in Kinds => RenewalRole(h.sess) # "deny"
            /\ "admin" \in h.sess.groups => AdminTier(h.sess, h.now)
            /\ Lowered(h.sess, h.sess.groups) => h.sess.groups \cap Paired = {} \/ RuledWindow(h.now)
            /\ h.why = "refused" /\ Outsider(h.sess) => h.sess.groups \cap h.bar = {}
        BY <1>0, <2>1, <2>2, <2>3 DEF DoorHandler, Answering
      <3>2. Lowered(h.sess, G) => Lowered(h.sess, h.sess.groups)
        BY <2>2, <2>3 DEF Lowered
      <3>3. /\ req'[p].sess.kind = h.sess.kind /\ RenewalRole(req'[p].sess) = RenewalRole(h.sess)
            /\ Outsider(req'[p].sess) <=> Outsider(h.sess)
            /\ \A u : AdminTier(req'[p].sess, u) <=> AdminTier(h.sess, u)
            /\ Lowered(req'[p].sess, G) <=> Lowered(h.sess, G)
        BY <2>1, <2>3, SameDoor DEF SameSession
      <3> HIDE DEF G
      <3>4. /\ h.sess.kind \in Kinds => RenewalRole(req'[p].sess) # "deny"
            /\ "admin" \in G => AdminTier(req'[p].sess, h.now)
            /\ Lowered(req'[p].sess, G) => G \cap Paired = {} \/ RuledWindow(h.now)
            /\ Outsider(req'[p].sess) => G \cap h.bar = {}
        BY <3>1, <3>2, <3>3
      <3> QED BY <2>1, <2>3, <3>1, <3>3, <3>4 DEF DoorHandler, Answering, Onward, G
    <2> QED BY <1>c, <2>3
  <1>9. CASE Recheck(p)
    <2>1. h.pc = "recheck"
      BY <1>9 DEF Recheck, At
    <2>2. \/ req'[p] = Idle
          \/ Onward(h, req'[p]) /\ req'[p].sess = h.sess /\ req'[p].pc \in {"denied", "confirm"}
          \/ /\ RenewalRole(h.sess) # "deny" /\ Onward(h, req'[p]) /\ req'[p].sess = h.sess
             /\ req'[p].pc = "renewIssue" /\ req'[p].why = "refused"
             /\ WorkedOut(h.sess, req'[p].read, TRUE)
      BY <1>0, <1>9, <2>1, RecheckDoes DEF Sitting
    <2>3. CASE Onward(h, req'[p]) /\ req'[p].sess = h.sess /\ req'[p].pc \in {"denied", "confirm"}
      BY <1>0, <2>1, <2>3 DEF DoorHandler, Answering, Onward
    <2>4. CASE /\ RenewalRole(h.sess) # "deny" /\ Onward(h, req'[p]) /\ req'[p].sess = h.sess
               /\ req'[p].pc = "renewIssue" /\ req'[p].why = "refused"
               /\ WorkedOut(h.sess, req'[p].read, TRUE)
      <3>1. h.sess.kind \in Kinds /\ h.sess.who \in Person /\ h.now <= clock
        BY <1>0, <2>1 DEF HandlerOK, Sitting, Serving
      <3>2. PICK G : G = req'[p].read
        OBVIOUS
      <3>3. /\ "admin" \in G => AdminTier(h.sess, h.now)
            /\ Lowered(h.sess, G) => G \cap Paired = {}
            /\ Outsider(h.sess) => G \cap AppRoleGroups = {}
        <4>1. PICK all \in BOOLEAN : WorkedOut(h.sess, G, all)
          BY <2>4, <3>2
        <4> QED BY <1>0, <2>4, <3>1, <4>1, WorkedOutFits
      <3> QED BY <1>0, <2>4, <3>2, <3>3 DEF DoorHandler, Answering, Onward
    <2> QED BY <1>c, <2>2, <2>3, <2>4
  <1>10. CASE Confirm(p)
    <2>1. h.pc = "confirm" /\ Onward(h, req'[p]) /\ req'[p].sess = h.sess /\ req'[p].pc = "denied"
      BY <1>0, <1>10, ConfirmDoes
    <2> QED BY <1>0, <2>1 DEF DoorHandler, Answering, Onward
  <1>11. CASE Finish(p) \/ LoginIssue(p) \/ StepUpIssue(p)
    BY <1>0, <1>c, <1>11, FinishDoes, IssueDoes
  <1>12. CASE LoginRead(p)
    <2>1. h.pc = "loginRead"
      BY <1>12 DEF LoginRead, At
    <2>2. h.sess.kind \in Kinds /\ h.sess.who \in Person /\ (h.sess.kind = "normal" => Role(h.sess.who) # "deny")
      BY <1>0, <2>1 DEF HandlerOK, Sitting
    <2>3. /\ Onward(h, req'[p]) /\ SameSession(req'[p].sess, h.sess) /\ req'[p].pc = "loginIssue"
          /\ h.sess.kind = "guest" => "admin" \notin req'[p].sess.groups
          /\ Lowered(h.sess, req'[p].sess.groups) => req'[p].sess.groups \cap Paired = {}
      BY <1>0, <1>12, <2>2, LoginReadDoes
    <2> QED BY <1>0, <2>3, SameDoor DEF DoorHandler, Answering, Onward, SameSession
  <1>13. CASE StepUpRead(p)
    <2>1. h.pc = "stepRead"
      BY <1>13 DEF StepUpRead, At
    <2>2. Onward(h, req'[p]) /\ req'[p].pc = "stepIssue" /\ "admin" \in req'[p].sess.groups
      BY <1>0, <1>13, <2>1, StepUpReadDoes DEF Sitting
    <2> QED BY <1>0, <2>2 DEF DoorHandler, Answering, Onward
  <1>14. CASE AdminRead(p) \/ AdminDecide(p)
    <2>1. /\ h.pc \in {"adminRead", "adminDecide"}
          /\ \/ req'[p] = Idle
             \/ /\ AdminTierHeld(h.sess, clock) /\ req'[p].pc = "page" /\ req'[p].sess = h.sess /\ req'[p].now = h.now
                /\ h.pc = "adminRead" => Role(h.sess.who) = "admin"
                /\ req'[p].bar = h.bar
             \/ req'[p].pc = "renewRead" /\ req'[p].bar = h.bar
      BY <1>0, <1>14, AdminDoes
    <2>2. h.now <= clock /\ (h.pc = "adminDecide" => Role(h.sess.who) = "admin")
      BY <1>0, <2>1 DEF HandlerOK, Serving, Reading
    <2>3. AdminTierHeld(h.sess, clock) /\ Role(h.sess.who) = "admin" => AdminTier(h.sess, h.now)
      BY <1>0, <2>2, FreshEarlier DEF AdminTierHeld, AdminTier
    <2> QED BY <1>0, <1>c, <2>1, <2>2, <2>3 DEF DoorHandler, Answering
  <1> QED
    BY <1>1, <1>2, <1>3, <1>4, <1>5, <1>6, <1>7, <1>8, <1>9, <1>10, <1>11, <1>12, <1>13, <1>14 DEF Serves

\* A cookie issued to a person fits the rules in force.
LEMMA ServesDoorCookies ==
    ASSUME BaseInv, DoorInv, NEW p \in Proc, Serves(p)
    PROVE  \A s \in cookies' : DoorCookie(s)
  <1> DEFINE h == req[p]
  <1>0. /\ TypeOK /\ HandlerOK(h) /\ DoorHandler(h) /\ h.now \in Nat
        /\ \A s \in cookies : DoorCookie(s)
    BY BaseFields, Fields DEF BaseInv, DoorInv
  <1>1. CASE RenewIssue(p)
    <2>1. /\ h.pc = "renewIssue"
          /\ \A c \in cookies' \ cookies :
                /\ c.who = h.sess.who /\ c.kind = h.sess.kind /\ c.groups = h.read /\ c.iat = h.now
      BY <1>0, <1>1, RenewIssueDoes
    <2>2. ASSUME NEW c \in cookies' \ cookies
          PROVE  DoorCookie(c)
      <3>1. c.who = h.sess.who /\ c.kind = h.sess.kind /\ c.groups = h.read /\ c.iat = h.now
        BY <2>1
      <3>2. Lowered(c, c.groups) <=> Lowered(h.sess, h.read)
        BY <3>1 DEF Lowered
      <3>3. /\ "admin" \in h.read => h.sess.kind = "normal"
            /\ Lowered(h.sess, h.read) => h.read \cap Paired = {} \/ Ruled(h.now)
        BY <1>0, <2>1 DEF DoorHandler, AdminTier
      <3> QED BY <3>1, <3>2, <3>3 DEF DoorCookie
    <2> QED BY <1>0, <2>2
  <1>2. CASE LoginIssue(p) \/ StepUpIssue(p)
    <2>1. h.pc \in {"loginIssue", "stepIssue"} /\ cookies' \subseteq cookies \cup {h.sess}
      BY <1>0, <1>2, IssueDoes
    <2>2. h.sess.iat = h.now /\ (h.pc = "stepIssue" => h.sess.kind = "normal")
      BY <1>0, <2>1 DEF HandlerOK
    <2>3. DoorCookie(h.sess)
      BY <1>0, <2>1, <2>2 DEF DoorHandler, DoorCookie, Lowered
    <2> QED BY <1>0, <2>1, <2>3
  <1>3. CASE ~(RenewIssue(p) \/ LoginIssue(p) \/ StepUpIssue(p))
    <2>1. cookies' = cookies
      BY <1>3 DEF Serves, VerifyBegin, StepUpBegin, AdminBegin, LoginBegin, VerifyRead, RenewRead,
           Decide, Recheck, Confirm, Finish, LoginRead, StepUpRead, AdminRead, AdminDecide
    <2> QED BY <1>0, <2>1
  <1> QED BY <1>1, <1>2, <1>3

\* While the rules stay, what fits them stays fitting.
LEMMA SameRules ==
    ASSUME UNCHANGED <<policy, routes, ruledAt>>
    PROVE  /\ \A s : DoorCookie(s) => DoorCookie(s)'
           /\ \A h : DoorHandler(h) => DoorHandler(h)'
  BY DEF DoorCookie, DoorHandler, Lowered, Paired, Ruled, RuledWindow, Old, AppRoleGroups, RenewalRole, Role, AdminTier,
         AdminStepFresh, Outsider

\* A handler that announces a change, or none at all, has only its roles to fit.
LEMMA ChangingDoor ==
    ASSUME NEW h, h.pc \in Changing \cup {"idle"}, h.bar \subseteq AppRoleGroups
    PROVE  DoorHandler(h)
  BY DEF DoorHandler, Changing, Unmarked, Answering

\* The first handlers are idle, and the cookies left are due.
LEMMA InitDoor == Init => DoorInv
  <1> SUFFICES ASSUME Init PROVE DoorInv
    OBVIOUS
  <1>1. Start \in Nat
    BY Constants
  <1>2. \A s \in cookies : DoorCookie(s)
    BY GroupsAssumption, OutstandingAssumption DEF Init, DoorCookie, Old, Lowered
  <1> QED BY <1>1, <1>2, IdleDoor DEF Init, DoorInv

\* A change of the rules is dated, and what was issued before it is due within a period.
LEMMA DoorStep == BaseInv /\ BaseInv' /\ DoorInv /\ [Next]_vars => DoorInv'
  <1> SUFFICES ASSUME BaseInv, BaseInv', DoorInv, [Next]_vars PROVE DoorInv'
    OBVIOUS
  <1>0. /\ TypeOK /\ clock \in Nat /\ Start \in Nat /\ Start > 1 /\ ruledAt \in Nat /\ ruledAt <= clock
        /\ RenewAfter \in Nat /\ Start <= clock
        /\ \A s \in cookies : DoorCookie(s) /\ CookieOK(s) /\ s.iat \in Nat
        /\ \A p \in Proc : DoorHandler(req[p]) /\ HandlerOK(req[p])
    BY Constants DEF BaseInv, DoorInv, TypeOK, Session
  <1>1. ASSUME NEW p \in Proc, Serves(p)
        PROVE  DoorInv'
    <2>1. /\ UNCHANGED <<clock, policy, routes, ruledAt>>
          /\ \A q \in Proc \ {p} : req'[q] = req[q]
      BY <1>0, <1>1, ServesFrame
    <2>2. \A s \in cookies' : DoorCookie(s)
      BY <1>1, ServesDoorCookies
    <2>3. \A q \in Proc : DoorHandler(req'[q])
      <3>1. DoorHandler(req'[p])
        BY <1>1, ServesDoor
      <3> QED BY <1>0, <2>1, <3>1
    <2> QED BY <1>0, <2>1, <2>2, <2>3, SameRules DEF DoorInv
  <1>2. ASSUME NEW p \in Proc, Changes(p)
        PROVE  DoorInv'
    <2>1. /\ UNCHANGED <<clock, policy, routes, ruledAt, cookies>>
          /\ \A q \in Proc \ {p} : Aside(req[q], req'[q])
          /\ req'[p].pc \in Changing \cup {"idle"} /\ req'[p].bar \subseteq req[p].bar
      BY <1>0, <1>2, ChangesDo, IdleOK DEF Changing
    <2>2. \A q \in Proc : DoorHandler(req'[q])
      <3>1. \A q \in Proc \ {p} : DoorHandler(req'[q])
        BY <1>0, <2>1, AsideDoor
      <3>2. DoorHandler(req'[p])
        <4>1. req[p].bar \subseteq AppRoleGroups
          BY <1>0 DEF DoorHandler
        <4> QED BY <2>1, <4>1, ChangingDoor
      <3> QED BY <3>1, <3>2
    <2> QED BY <1>0, <2>1, <2>2, SameRules DEF DoorInv
  <1>3. ASSUME NEW p \in Proc, Announces(p)
        PROVE  DoorInv'
    <2>1. /\ UNCHANGED <<clock, policy, routes, ruledAt, cookies>>
          /\ \A q \in Proc \ {p} : req'[q] = req[q]
          /\ req'[p].pc \in Changing \cup {"idle"} /\ req'[p].bar \subseteq req[p].bar
      BY <1>0, <1>3, AnnouncesFrame
    <2>2. \A q \in Proc : DoorHandler(req'[q])
      <3>1. DoorHandler(req'[p])
        <4>1. req[p].bar \subseteq AppRoleGroups
          BY <1>0 DEF DoorHandler
        <4> QED BY <2>1, <4>1, ChangingDoor
      <3> QED BY <1>0, <2>1, <3>1
    <2> QED BY <1>0, <2>1, <2>2, SameRules DEF DoorInv
  <1>4. CASE Tick
    <2>1. clock' = clock + 1 /\ UNCHANGED <<policy, routes, ruledAt, cookies, req>>
      BY <1>4 DEF Tick, rules
    <2> QED BY <1>0, <2>1, SameRules DEF DoorInv
  <1>5. CASE RoutesChange
    <2>1. /\ UNCHANGED <<clock, policy, cookies>>
          /\ routes' \in RouteFiles /\ ruledAt' = clock
          /\ req' = [p \in Proc |-> [req[p] EXCEPT !.bar = @ \cap AppRoleGroups']]
      BY <1>5 DEF RoutesChange
    <2>2. ASSUME NEW s \in cookies
          PROVE  DoorCookie(s)'
      <3>1. Lowered(s, s.groups)' => Ruled(s.iat)'
        BY <1>0, <2>1 DEF Lowered, CookieOK, Ruled, Kinds
      <3> QED BY <1>0, <3>1 DEF DoorCookie, Old
    <2>3. ASSUME NEW p \in Proc
          PROVE  DoorHandler(req[p])'
      <3>1. /\ req[p] \in Handler /\ req'[p] = [req[p] EXCEPT !.bar = @ \cap AppRoleGroups']
            /\ DoorHandler(req[p]) /\ HandlerOK(req[p]) /\ req[p].now \in Nat /\ req[p].sess.iat \in Nat
        BY <1>0, <2>1, Fields
      <3>2. Aside(req[p], req'[p]) /\ req'[p].bar = req[p].bar \cap AppRoleGroups'
        BY <3>1 DEF Handler, Aside
      <3>3. DoorHandler(req'[p])
        BY <3>1, <3>2, AsideDoor
      <3>4. req'[p].pc = req[p].pc /\ req'[p].now = req[p].now /\ req'[p].sess = req[p].sess
        BY <3>2 DEF Aside
      <3>5. req[p].pc \in Serving => req[p].now <= clock
        BY <3>1 DEF HandlerOK
      <3>6. req[p].pc \in Serving => Ruled(req[p].now)' /\ RuledWindow(req[p].now)'
        BY <1>0, <2>1, <3>1, <3>4, <3>5 DEF Ruled, RuledWindow
      <3>7. req[p].pc = "verifyRead" => DoorCookie(req[p].sess)'
        <4>1. req[p].pc = "verifyRead" => CookieOK(req[p].sess) /\ DoorCookie(req[p].sess)
          BY <3>1 DEF HandlerOK, DoorHandler, Reading
        <4>2. req[p].pc = "verifyRead" /\ Lowered(req[p].sess, req[p].sess.groups)' => Ruled(req[p].sess.iat)'
          BY <1>0, <2>1, <3>1, <3>4, <4>1 DEF Lowered, CookieOK, Ruled, Kinds
        <4>3. req'[p].pc = "verifyRead" => (req[p].sess.kind = "guest" => "admin" \notin req[p].sess.groups \/ Old(req[p].sess))
          BY <3>4, <4>1 DEF DoorCookie
        <4> QED BY <3>4, <4>2, <4>3 DEF DoorCookie, Old
      <3>8. /\ req'[p].bar \subseteq AppRoleGroups'
            /\ \A s : RenewalRole(s)' = RenewalRole(s) /\ (Outsider(s)' <=> Outsider(s))
            /\ \A s, t : AdminTier(s, t)' <=> AdminTier(s, t)
            /\ \A s, G : Lowered(s, G)' <=> Lowered(s, G)
        BY <2>1, <3>2 DEF RenewalRole, Role, Outsider, AdminTier, AdminStepFresh, Lowered
      <3>9. req[p].pc \in Answering \cup {"renewIssue", "loginIssue"} => req[p].pc \in Serving
        BY DEF Serving, Sitting
      <3> QED BY <3>3, <3>4, <3>6, <3>7, <3>8, <3>9 DEF DoorHandler
    <2> QED BY <1>0, <2>1, <2>2, <2>3 DEF DoorInv
  <1>6. CASE Restart
    <2>1. /\ req' = [p \in Proc |-> Idle] /\ UNCHANGED <<clock, routes, cookies>>
          /\ ruledAt' = IF policy' = policy THEN ruledAt ELSE clock
      BY <1>6 DEF Restart
    <2>2. \A p \in Proc : DoorHandler(req[p])'
      BY <2>1, IdleOK DEF DoorHandler, Answering
    <2>3. ASSUME NEW s \in cookies
          PROVE  DoorCookie(s)'
      <3>1. CASE policy' = policy
        <4>1. UNCHANGED <<policy, routes, ruledAt>>
          BY <2>1, <3>1
        <4> QED BY <1>0, <4>1, SameRules
      <3>2. CASE policy' # policy
        <4>1. Lowered(s, s.groups)' => Ruled(s.iat)'
          BY <1>0, <2>1, <3>2 DEF Lowered, CookieOK, Ruled, Kinds
        <4> QED BY <1>0, <4>1 DEF DoorCookie, Old
      <3> QED BY <3>1, <3>2
    <2> QED BY <1>0, <2>1, <2>2, <2>3 DEF DoorInv
  <1>7. CASE UNCHANGED vars
    <2>1. UNCHANGED <<clock, policy, routes, ruledAt, cookies, req>>
      BY <1>7 DEF vars, rules
    <2> QED BY <1>0, <2>1, SameRules DEF DoorInv
  <1> QED BY <1>1, <1>2, <1>3, <1>4, <1>5, <1>6, <1>7, NextCases

\* The cookies and the handlers fit the rules, or a change of them is too recent.
LEMMA DoorAlways == Spec => []DoorInv
  <1>1. Init /\ [][Next]_vars /\ []BaseInv => []DoorInv
    BY InitDoor, DoorStep, PTL
  <1> QED BY <1>1, BaseAlways, PTL DEF Spec

\* The admin tier never outlives the role or the second step, and nobody is
\* answered whom the policy no longer admits, whatever the policy becomes.
THEOREM TierFollows == Spec => []TierFollowsPolicy
  <1>1. BaseInv /\ DoorInv => TierFollowsPolicy
    <2> SUFFICES ASSUME BaseInv, DoorInv, NEW p \in Proc, req[p].pc \in {"ok", "page"}
                 PROVE  LET h == req[p] IN
                        /\ "admin" \in h.sess.groups \/ h.pc = "page" =>
                             /\ h.sess.kind = "normal" /\ Role(h.sess.who) = "admin"
                             /\ AdminStepFresh(h.sess, h.now)
                        /\ h.sess.kind \in {"normal", "guest"} => RenewalRole(h.sess) # "deny"
      BY DEF TierFollowsPolicy
    <2>1. DoorHandler(req[p])
      BY DEF DoorInv
    <2> QED BY <2>1 DEF DoorHandler, Answering, AdminTier, Kinds, RenewalRole
  <1> QED BY <1>1, BaseAlways, DoorAlways, PTL

\* An administrator without a recent second step keeps no application's admin
\* role beyond the renewal that follows a change of the rules.
THEOREM PairedRolesNeedStep == Spec => []AdminRolesNeedStep
  <1>1. BaseInv /\ DoorInv => AdminRolesNeedStep
    <2> SUFFICES ASSUME BaseInv, DoorInv, NEW p \in Proc, At(p, "ok"),
                        req[p].sess.kind = "normal", Role(req[p].sess.who) = "admin",
                        ~AdminStepFresh(req[p].sess, req[p].now)
                 PROVE  LET h == req[p] IN
                        \/ h.sess.groups \cap HandGroup \cap routes.paired = {}
                        \/ ruledAt # 0 /\ h.now <= ruledAt + RenewAfter
      BY DEF AdminRolesNeedStep
    <2>1. DoorHandler(req[p]) /\ req[p].pc = "ok" /\ TOTPEnabled \in BOOLEAN
      BY Constants DEF DoorInv, At
    <2>2. "admin" \notin req[p].sess.groups /\ TOTPEnabled
      BY <2>1 DEF DoorHandler, Answering, AdminTier, AdminStepFresh
    <2>3. req[p].sess.groups \cap Paired = {} \/ RuledWindow(req[p].now)
      BY <2>1, <2>2 DEF DoorHandler, Answering, Lowered
    <2> QED BY <2>3 DEF Paired, RuledWindow
  <1> QED BY <1>1, BaseAlways, DoorAlways, PTL

\* No stranger is answered with a group that has been an application's role all
\* the time since the request began.
THEOREM OutsidersHoldNoRole == Spec => []GuestsHoldNoAppRole
  <1>1. DoorInv => GuestsHoldNoAppRole
    BY DEF DoorInv, GuestsHoldNoAppRole, DoorHandler, Outsider, At
  <1> QED BY <1>1, DoorAlways, PTL

-----------------------------------------------------------------------------
(* Removed memberships and the renewal period *)

\* w holds each group of G, or has lost it at t or later.
HeldUntil(w, G, t) == \A g \in G \cap Group : Held(<<w, g>>) \/ t <= removedAt[<<w, g>>]

\* w holds each group of G, or has lost it within a renewal period before t, or later.
HeldWindow(w, G, t) == \A g \in G \cap Group : Held(<<w, g>>) \/ t <= removedAt[<<w, g>>] + RenewAfter

\* A cookie that is not due carries the groups its person held when it was issued.
HeldCookie(s) == s.kind \in Kinds => HeldUntil(s.who, s.groups, s.iat) \/ Old(s)

\* The same of the groups a handler has worked out, or decides with.
HeldHandler(h) ==
    /\ h.pc = "verifyRead" => HeldCookie(h.sess)
    /\ h.pc = "renewIssue" => HeldUntil(h.sess.who, h.read, h.now)
    /\ h.pc \in {"loginIssue", "stepIssue"} => HeldUntil(h.sess.who, h.sess.groups, h.now)
    /\ h.pc \in Answering /\ h.sess.kind \in Kinds => HeldWindow(h.sess.who, h.sess.groups, h.now)

\* Cookies and handlers carry what was held.
HeldInv ==
    /\ \A s \in cookies : HeldCookie(s)
    /\ \A p \in Proc : HeldHandler(req[p])

\* A membership held, or lost at t or later, is held, or was lost at t or later, ever after.
LEMMA DatesGrow ==
    ASSUME BaseInv, [Next]_vars, NEW x \in Pair, NEW t \in Nat
    PROVE  /\ t <= clock /\ (Held(x) \/ t <= removedAt[x]) => Held(x)' \/ t <= removedAt'[x]
           /\ t <= clock /\ (Held(x) \/ t <= removedAt[x] + RenewAfter) => Held(x)' \/ t <= removedAt'[x] + RenewAfter
  <1>0. /\ TypeOK /\ clock \in Nat /\ removedAt[x] \in Nat /\ removedAt[x] <= clock /\ RenewAfter \in Nat
    BY Constants DEF BaseInv, TypeOK
  <1>1. CASE UNCHANGED <<direct, includes, removedAt>>
    BY <1>1 DEF Held, GroupsForEmail, Up, ClosedUp
  <1>2. ASSUME NEW p \in Proc, Changes(p)
        PROVE  removedAt'[x] = IF Ends(x) THEN clock ELSE removedAt[x]
    BY <1>0, <1>2, ChangesDo
  <1>3. ASSUME NEW p \in Proc, Serves(p) \/ Announces(p)
        PROVE  UNCHANGED <<direct, includes, removedAt>>
    BY <1>0, <1>3, ServesFrame, AnnouncesFrame
  <1>4. CASE Tick \/ RoutesChange \/ Restart \/ UNCHANGED vars
    BY <1>1, <1>4 DEF Tick, RoutesChange, Restart, vars, db, history
  <1>5. ASSUME NEW p \in Proc, Changes(p)
        PROVE  /\ t <= clock /\ (Held(x) \/ t <= removedAt[x]) => Held(x)' \/ t <= removedAt'[x]
               /\ t <= clock /\ (Held(x) \/ t <= removedAt[x] + RenewAfter) => Held(x)' \/ t <= removedAt'[x] + RenewAfter
    <2>1. CASE Ends(x)
      BY <1>0, <1>2, <1>5, <2>1
    <2>2. CASE ~Ends(x)
      BY <1>0, <1>2, <1>5, <2>2 DEF Ends
    <2> QED BY <2>1, <2>2
  <1> QED BY <1>1, <1>3, <1>4, <1>5, NextCases

\* So with all the groups of a session.
LEMMA HeldStays ==
    ASSUME BaseInv, [Next]_vars, NEW w \in Person, NEW G, NEW t \in Nat, t <= clock
    PROVE  /\ HeldUntil(w, G, t) => HeldUntil(w, G, t)'
           /\ HeldWindow(w, G, t) => HeldWindow(w, G, t)'
  <1>1. ASSUME NEW g \in Group
        PROVE  /\ (Held(<<w, g>>) \/ t <= removedAt[<<w, g>>]) => Held(<<w, g>>)' \/ t <= removedAt'[<<w, g>>]
               /\ (Held(<<w, g>>) \/ t <= removedAt[<<w, g>>] + RenewAfter)
                    => Held(<<w, g>>)' \/ t <= removedAt'[<<w, g>>] + RenewAfter
    <2>1. <<w, g>> \in Pair
      BY DEF Pair
    <2> QED BY <2>1, DatesGrow
  <1> QED BY <1>1 DEF HeldUntil, HeldWindow

\* A cookie that carried what its person held goes on doing so.
LEMMA HeldCookieStays ==
    ASSUME BaseInv, [Next]_vars, NEW s \in Session, CookieOK(s), HeldCookie(s)
    PROVE  HeldCookie(s)'
  <1>1. CASE s.kind \in Kinds
    <2>1. s.who \in Person /\ s.iat \in Nat /\ s.iat <= clock
      BY <1>1 DEF CookieOK, Session
    <2> QED BY <2>1, HeldStays DEF HeldCookie, Old
  <1>2. CASE s.kind \notin Kinds
    BY <1>2 DEF HeldCookie
  <1> QED BY <1>1, <1>2

\* And a handler that is not the one to move.
LEMMA HeldHandlerStays ==
    ASSUME BaseInv, [Next]_vars, NEW h \in Handler, HandlerOK(h), HeldHandler(h)
    PROVE  HeldHandler(h)'
  <1>0. h.now \in Nat /\ h.sess \in Session
    BY DEF Handler
  <1>1. h.pc = "verifyRead" => HeldCookie(h.sess)'
    BY <1>0, HeldCookieStays DEF HeldHandler, HandlerOK, Reading
  <1>2. h.pc = "renewIssue" => HeldUntil(h.sess.who, h.read, h.now)'
    BY <1>0, HeldStays DEF HeldHandler, HandlerOK, Serving, Sitting
  <1>3. h.pc \in {"loginIssue", "stepIssue"} => HeldUntil(h.sess.who, h.sess.groups, h.now)'
    BY <1>0, HeldStays DEF HeldHandler, HandlerOK, Serving, Sitting
  <1>4. h.pc \in Answering /\ h.sess.kind \in Kinds => HeldWindow(h.sess.who, h.sess.groups, h.now)'
    BY <1>0, HeldStays DEF HeldHandler, HandlerOK, Serving
  <1> QED BY <1>1, <1>2, <1>3, <1>4 DEF HeldHandler

\* Groups that were read at one moment are held at that moment.
LEMMA ReadIsHeld ==
    ASSUME NEW w, NEW G, G \cap Group \subseteq GroupsForEmail(w), NEW t
    PROVE  HeldUntil(w, G, t)
  BY DEF HeldUntil, Held

\* What is lost after t is lost within the period.
LEMMA UntilIsWindow ==
    ASSUME TypeOK, NEW w \in Person, NEW G, NEW t \in Nat, HeldUntil(w, G, t), NEW u \in Nat, u <= t + RenewAfter
    PROVE  HeldWindow(w, G, u)
  <1>1. \A g \in Group : removedAt[<<w, g>>] \in Nat
    BY DEF TypeOK, Pair
  <1> QED BY <1>1, Constants DEF HeldUntil, HeldWindow

\* An idle handler has worked out no groups.
LEMMA IdleHeld == HeldHandler(Idle)
  BY IdleOK DEF HeldHandler, Answering

\* Each step that answers people uses groups that were held at its request's time, or
\* less than a renewal period before.
LEMMA ServesHeld ==
    ASSUME BaseInv, HeldInv, NEW p \in Proc, Serves(p)
    PROVE  HeldHandler(req'[p])
  <1> DEFINE h == req[p]
  <1>0. /\ TypeOK /\ HandlerOK(h) /\ HeldHandler(h) /\ h.now \in Nat /\ clock \in Nat /\ Start \in Nat
        /\ h.sess \in Session /\ policy \in Policies /\ routes \in RouteFiles
        /\ \A s \in cookies : HeldCookie(s)
        /\ h.pc \in Sitting => h.sess.kind \in Kinds /\ h.sess.who \in Person
        /\ RenewAfter \in Nat
    BY BaseFields, Fields, Constants DEF BaseInv, HeldInv, TypeOK
  <1>c. req'[p] = Idle => HeldHandler(req'[p])
    BY IdleHeld
  <1>1. ASSUME NEW s \in cookies, NEW r \in Routes, VerifyBegin(p, s, r)
        PROVE  HeldHandler(req'[p])
    BY <1>0, <1>1, VerifyBeginDoes DEF HeldHandler, Answering
  <1>2. ASSUME NEW s \in cookies, StepUpBegin(p, s)
        PROVE  HeldHandler(req'[p])
    BY <1>0, <1>2, StepUpBeginDoes DEF HeldHandler, Answering
  <1>3. ASSUME NEW s \in cookies, AdminBegin(p, s)
        PROVE  HeldHandler(req'[p])
    BY <1>0, <1>3, AdminBeginDoes DEF HeldHandler, Answering
  <1>4. ASSUME NEW w \in Person, NEW open \in BOOLEAN, NEW stepped \in BOOLEAN, LoginBegin(p, w, open, stepped)
        PROVE  HeldHandler(req'[p])
    BY <1>0, <1>4, LoginBeginDoes DEF HeldHandler, Answering
  <1>5. CASE VerifyRead(p)
    <2>1. /\ h.pc = "verifyRead"
          /\ \/ req'[p] = Idle
             \/ req'[p].pc = "renewRead"
             \/ /\ req'[p].now = h.now /\ req'[p].sess = h.sess /\ ~NeedsRenew(h.sess, h.now)
                /\ req'[p].pc = "decide"
      BY <1>0, <1>5, VerifyReadDoes DEF Onward
    <2>2. CASE req'[p].pc = "renewRead"
      BY <2>2 DEF HeldHandler, Answering
    <2>3. CASE /\ req'[p].now = h.now /\ req'[p].sess = h.sess /\ ~NeedsRenew(h.sess, h.now)
               /\ req'[p].pc = "decide"
      <3>1. CASE h.sess.kind \in Kinds
        <4>1. h.sess.who \in Person /\ h.sess.iat \in Nat /\ HeldCookie(h.sess) /\ Start <= h.now
          BY <1>0, <2>1, <3>1, Fields DEF HandlerOK, HeldHandler, Serving, Reading
        <4>2. h.now <= h.sess.iat + RenewAfter
          BY <1>0, <2>3, <3>1, <4>1 DEF NeedsRenew, Kinds
        <4>3. HeldUntil(h.sess.who, h.sess.groups, h.sess.iat)
          BY <1>0, <3>1, <4>1, <4>2 DEF HeldCookie, Old
        <4>4. HeldWindow(h.sess.who, h.sess.groups, h.now)
          BY <1>0, <4>1, <4>2, <4>3, UntilIsWindow
        <4> QED BY <2>3, <4>4 DEF HeldHandler, Answering
      <3>2. CASE h.sess.kind \notin Kinds
        BY <2>3, <3>2 DEF HeldHandler, Answering
      <3> QED BY <3>1, <3>2
    <2> QED BY <1>c, <2>1, <2>2, <2>3
  <1>6. CASE RenewRead(p)
    <2>1. h.pc = "renewRead"
      BY <1>6 DEF RenewRead, At
    <2>2. \/ req'[p] = Idle
          \/ /\ RenewalRole(h.sess) # "deny" /\ Onward(h, req'[p]) /\ req'[p].sess = h.sess
             /\ req'[p].pc = "renewIssue" /\ WorkedOut(h.sess, req'[p].read, ~req'[p].failed)
      BY <1>0, <1>6, <2>1, RenewReadDoes DEF Sitting
    <2>3. CASE ~(req'[p] = Idle)
      <3>1. h.sess.kind \in Kinds /\ h.sess.who \in Person /\ h.now <= clock
        BY <1>0, <2>1 DEF HandlerOK, Sitting, Serving
      <3>2. PICK G : G = req'[p].read
        OBVIOUS
      <3>3. G \cap Group \subseteq GroupsForEmail(h.sess.who)
        BY <1>0, <2>2, <2>3, <3>1, <3>2, WorkedOutFits
      <3>4. HeldUntil(h.sess.who, G, h.now)
        BY <3>3, ReadIsHeld
      <3> QED BY <2>2, <2>3, <3>2, <3>4 DEF HeldHandler, Answering, Onward
    <2> QED BY <1>c, <2>3
  <1>7. CASE RenewIssue(p)
    <2>1. /\ h.pc = "renewIssue" /\ req'[p].now = h.now /\ req'[p].sess.who = h.sess.who
          /\ req'[p].sess.groups = h.read /\ req'[p].pc \in {"adminDecide", "decide"}
      BY <1>0, <1>7, RenewIssueDoes DEF Onward, SameSession
    <2>2. HeldUntil(h.sess.who, h.read, h.now) /\ h.sess.who \in Person
      BY <1>0, <2>1 DEF HeldHandler, Sitting
    <2>3. HeldWindow(h.sess.who, h.read, h.now)
      BY <1>0, <2>2, UntilIsWindow
    <2> QED BY <2>1, <2>3 DEF HeldHandler, Answering
  <1>8. CASE Decide(p)
    <2>1. /\ h.pc = "decide"
          /\ \/ req'[p] = Idle
             \/ /\ req'[p].now = h.now /\ req'[p].sess.who = h.sess.who /\ req'[p].sess.kind = h.sess.kind
                /\ req'[p].sess.groups = IF h.why = "refused" THEN h.sess.groups ELSE GuestGroupsNow(h.sess)
                /\ req'[p].pc \in {"ok", "denied", "recheck"}
      BY <1>0, <1>8, DecideDoes DEF Onward, SameSession
    <2>2. req'[p] # Idle => req'[p].sess.groups \subseteq h.sess.groups
      BY <2>1 DEF GuestGroupsNow, WithoutAppRolesForOutsider
    <2>3. h.sess.kind \in Kinds => HeldWindow(h.sess.who, h.sess.groups, h.now)
      BY <1>0, <2>1 DEF HeldHandler, Answering
    <2>4. req'[p] # Idle /\ h.sess.kind \in Kinds => HeldWindow(h.sess.who, req'[p].sess.groups, h.now)
      BY <2>2, <2>3 DEF HeldWindow
    <2> QED BY <1>c, <2>1, <2>4 DEF HeldHandler, Answering
  <1>9. CASE Recheck(p)
    <2>1. h.pc = "recheck"
      BY <1>9 DEF Recheck, At
    <2>2. \/ req'[p] = Idle
          \/ Onward(h, req'[p]) /\ req'[p].sess = h.sess /\ req'[p].pc \in {"denied", "confirm"}
          \/ /\ RenewalRole(h.sess) # "deny" /\ Onward(h, req'[p]) /\ req'[p].sess = h.sess
             /\ req'[p].pc = "renewIssue" /\ WorkedOut(h.sess, req'[p].read, TRUE)
      BY <1>0, <1>9, <2>1, RecheckDoes DEF Sitting
    <2>3. CASE Onward(h, req'[p]) /\ req'[p].sess = h.sess /\ req'[p].pc \in {"denied", "confirm"}
      BY <1>0, <2>1, <2>3 DEF HeldHandler, Answering, Onward
    <2>4. CASE /\ RenewalRole(h.sess) # "deny" /\ Onward(h, req'[p]) /\ req'[p].sess = h.sess
               /\ req'[p].pc = "renewIssue" /\ WorkedOut(h.sess, req'[p].read, TRUE)
      <3>1. h.sess.kind \in Kinds /\ h.sess.who \in Person /\ h.now <= clock
        BY <1>0, <2>1 DEF HandlerOK, Sitting, Serving
      <3>2. PICK G, all : G = req'[p].read /\ WorkedOut(h.sess, G, all)
        BY <2>4
      <3>3. G \cap Group \subseteq GroupsForEmail(h.sess.who)
        BY <1>0, <2>4, <3>1, <3>2, WorkedOutFits
      <3>4. HeldUntil(h.sess.who, G, h.now)
        BY <3>3, ReadIsHeld
      <3> QED BY <2>4, <3>2, <3>4 DEF HeldHandler, Answering, Onward
    <2> QED BY <1>c, <2>2, <2>3, <2>4
  <1>10. CASE Confirm(p)
    <2>1. h.pc = "confirm" /\ Onward(h, req'[p]) /\ req'[p].sess = h.sess /\ req'[p].pc = "denied"
      BY <1>0, <1>10, ConfirmDoes
    <2> QED BY <1>0, <2>1 DEF HeldHandler, Answering, Onward
  <1>11. CASE Finish(p) \/ LoginIssue(p) \/ StepUpIssue(p)
    BY <1>0, <1>c, <1>11, FinishDoes, IssueDoes
  <1>12. CASE LoginRead(p) \/ StepUpRead(p)
    <2>1. h.pc \in {"loginRead", "stepRead"} /\ h.sess.kind \in Kinds /\ h.sess.who \in Person
      BY <1>0, <1>12 DEF LoginRead, StepUpRead, At, Sitting
    <2>2. h.pc = "loginRead" /\ h.sess.kind = "normal" => Role(h.sess.who) # "deny"
      BY <1>0 DEF HandlerOK
    <2>3. /\ req'[p].sess.who = h.sess.who /\ req'[p].pc \in {"loginIssue", "stepIssue"}
          /\ req'[p].sess.groups \cap Group \subseteq GroupsForEmail(h.sess.who)
      BY <1>0, <1>12, <2>1, <2>2, LoginReadDoes, StepUpReadDoes DEF SameSession, LoginRead, At
    <2>4. PICK G, w, t : G = req'[p].sess.groups /\ w = req'[p].sess.who /\ t = req'[p].now
      OBVIOUS
    <2>5. HeldUntil(w, G, t)
      BY <2>3, <2>4, ReadIsHeld
    <2> QED BY <2>3, <2>4, <2>5 DEF HeldHandler, Answering
  <1>14. CASE AdminRead(p) \/ AdminDecide(p)
    <2>1. req'[p] = Idle \/ req'[p].pc \in {"page", "renewRead"}
      BY <1>0, <1>14, AdminDoes
    <2> QED BY <1>c, <2>1 DEF HeldHandler, Answering
  <1> QED
    BY <1>1, <1>2, <1>3, <1>4, <1>5, <1>6, <1>7, <1>8, <1>9, <1>10, <1>11, <1>12, <1>14 DEF Serves

\* And issues a session with groups held when it was worked out.
LEMMA ServesHeldCookies ==
    ASSUME BaseInv, HeldInv, NEW p \in Proc, Serves(p)
    PROVE  \A s \in cookies' : HeldCookie(s)
  <1> DEFINE h == req[p]
  <1>0. /\ TypeOK /\ HandlerOK(h) /\ HeldHandler(h) /\ h.now \in Nat
        /\ \A s \in cookies : HeldCookie(s)
    BY BaseFields, Fields DEF BaseInv, HeldInv
  <1>1. CASE RenewIssue(p)
    <2>1. /\ h.pc = "renewIssue"
          /\ \A c \in cookies' \ cookies :
                /\ c.who = h.sess.who /\ c.kind = h.sess.kind /\ c.groups = h.read /\ c.iat = h.now
      BY <1>0, <1>1, RenewIssueDoes
    <2>2. HeldUntil(h.sess.who, h.read, h.now)
      BY <1>0, <2>1 DEF HeldHandler
    <2>3. \A c \in cookies' \ cookies : HeldCookie(c)
      BY <2>1, <2>2 DEF HeldCookie
    <2> QED BY <1>0, <2>3
  <1>2. CASE LoginIssue(p) \/ StepUpIssue(p)
    <2>1. h.pc \in {"loginIssue", "stepIssue"} /\ cookies' \subseteq cookies \cup {h.sess}
      BY <1>0, <1>2, IssueDoes
    <2>2. h.sess.iat = h.now
      BY <1>0, <2>1 DEF HandlerOK
    <2>3. HeldCookie(h.sess)
      BY <1>0, <2>1, <2>2 DEF HeldHandler, HeldCookie
    <2> QED BY <1>0, <2>1, <2>3
  <1>3. CASE ~(RenewIssue(p) \/ LoginIssue(p) \/ StepUpIssue(p))
    <2>1. cookies' = cookies
      BY <1>3 DEF Serves, VerifyBegin, StepUpBegin, AdminBegin, LoginBegin, VerifyRead, RenewRead,
           Decide, Recheck, Confirm, Finish, LoginRead, StepUpRead, AdminRead, AdminDecide
    <2> QED BY <1>0, <2>1
  <1> QED BY <1>1, <1>2, <1>3

\* The cookies left by an earlier run are due for renewal.
LEMMA InitHeld == Init => HeldInv
  <1> SUFFICES ASSUME Init PROVE HeldInv
    OBVIOUS
  <1>1. \A s \in cookies : HeldCookie(s)
    BY OutstandingAssumption DEF Init, HeldCookie, Old, Kinds
  <1> QED BY <1>1, IdleHeld DEF Init, HeldInv

\* Every step dates what it ends, and issues only what is held.
LEMMA HeldStep == BaseInv /\ HeldInv /\ [Next]_vars => HeldInv'
  <1> SUFFICES ASSUME BaseInv, HeldInv, [Next]_vars PROVE HeldInv'
    OBVIOUS
  <1>0. /\ TypeOK
        /\ \A s \in cookies : s \in Session /\ HeldCookie(s) /\ CookieOK(s)
        /\ \A p \in Proc : req[p] \in Handler /\ HeldHandler(req[p]) /\ HandlerOK(req[p])
    BY DEF BaseInv, HeldInv, TypeOK
  <1>1. ASSUME NEW p \in Proc, Serves(p)
        PROVE  HeldInv'
    <2>1. /\ UNCHANGED <<direct, includes, removedAt>> /\ \A q \in Proc \ {p} : req'[q] = req[q]
      BY <1>0, <1>1, ServesFrame
    <2>2. \A s \in cookies' : HeldCookie(s)
      BY <1>1, ServesHeldCookies
    <2>3. \A q \in Proc : HeldHandler(req'[q])
      <3>1. HeldHandler(req'[p])
        BY <1>1, ServesHeld
      <3> QED BY <1>0, <2>1, <3>1
    <2>4. /\ \A s : HeldCookie(s) => HeldCookie(s)'
          /\ \A h : HeldHandler(h) => HeldHandler(h)'
      BY <2>1 DEF HeldCookie, HeldHandler, HeldUntil, HeldWindow, Held, GroupsForEmail, Up, ClosedUp, Old
    <2> QED BY <2>2, <2>3, <2>4 DEF HeldInv
  <1>2. ASSUME cookies' = cookies,
               \A p \in Proc : Aside(req[p], req'[p]) \/ req'[p].pc \in Changing \cup {"idle"}
        PROVE  HeldInv'
    <2>1. \A s \in cookies' : HeldCookie(s)'
      BY <1>0, <1>2, HeldCookieStays
    <2>2. ASSUME NEW p \in Proc
          PROVE  HeldHandler(req[p])'
      <3>1. CASE req'[p].pc \in Changing \cup {"idle"}
        BY <1>2, <3>1 DEF HeldHandler, Changing, Unmarked, Answering
      <3>2. CASE Aside(req[p], req'[p])
        <4>1. PICK h : h = req[p]
          OBVIOUS
        <4>2. HeldHandler(h)'
          BY <1>0, <4>1, HeldHandlerStays
        <4>3. Aside(h, req'[p])
          BY <1>2, <3>2, <4>1
        <4> QED BY <4>2, <4>3 DEF Aside, HeldHandler
      <3> QED BY <1>2, <3>1, <3>2
    <2> QED BY <2>1, <2>2 DEF HeldInv
  <1>3. ASSUME NEW p \in Proc, Changes(p) \/ Announces(p)
        PROVE  HeldInv'
    <2>1. /\ cookies' = cookies /\ req'[p].pc \in Changing \cup {"idle"}
          /\ \A q \in Proc \ {p} : Aside(req[q], req'[q]) \/ req'[q] = req[q]
      BY <1>0, <1>3, ChangesDo, AnnouncesFrame, IdleOK DEF Changing
    <2>2. \A q \in Proc \ {p} : Aside(req[q], req'[q])
      BY <2>1 DEF Aside
    <2> QED BY <1>2, <2>1, <2>2
  <1>4. CASE Tick \/ UNCHANGED vars
    <2>1. cookies' = cookies /\ \A p \in Proc : Aside(req[p], req'[p])
      BY <1>4 DEF Tick, vars, Aside
    <2> QED BY <1>2, <2>1
  <1>5. CASE RoutesChange
    <2>1. cookies' = cookies /\ req' = [p \in Proc |-> [req[p] EXCEPT !.bar = @ \cap AppRoleGroups']]
      BY <1>5 DEF RoutesChange
    <2>2. ASSUME NEW p \in Proc
          PROVE  Aside(req[p], req'[p])
      <3>1. req[p] \in Handler /\ req'[p] = [req[p] EXCEPT !.bar = @ \cap AppRoleGroups']
        BY <1>0, <2>1
      <3> QED BY <3>1 DEF Handler, Aside
    <2> QED BY <1>2, <2>1, <2>2
  <1>6. CASE Restart
    <2>1. cookies' = cookies /\ \A p \in Proc : req'[p] = Idle
      BY <1>6 DEF Restart
    <2> QED BY <1>2, <2>1, IdleOK
  <1> QED BY <1>1, <1>3, <1>4, <1>5, <1>6, NextCases

\* Cookies and answers carry nothing lost longer ago than the renewal period.
LEMMA HeldAlways == Spec => []HeldInv
  <1>1. Init /\ [][Next]_vars /\ []BaseInv => []HeldInv
    BY InitHeld, HeldStep, PTL
  <1> QED BY <1>1, BaseAlways, PTL DEF Spec

\* A removed membership is felt at the latest at the next renewal, whatever
\* happens to the announcement of it: lost at a stop, failed, late or never made.
THEOREM RemovedGroupsExpire == Spec => []RemovedGroupWindow
  <1>1. BaseInv /\ HeldInv => RemovedGroupWindow
    <2> SUFFICES ASSUME BaseInv, HeldInv, NEW p \in Proc, At(p, "ok"), req[p].sess.kind # "card",
                        NEW g \in req[p].sess.groups \cap Group
                 PROVE  \/ g \in GroupsForEmail(req[p].sess.who)
                        \/ req[p].now <= removedAt[<<req[p].sess.who, g>>] + RenewAfter
      BY DEF RemovedGroupWindow
    <2>1. HeldHandler(req[p]) /\ HandlerOK(req[p]) /\ req[p].pc = "ok"
      BY DEF HeldInv, BaseInv, At
    <2>2. req[p].sess.kind \in Kinds
      <3>1. req[p].sess.kind \in {"normal", "guest", "card", "other"}
        BY Fields DEF BaseInv
      <3> QED BY <2>1, <3>1 DEF HandlerOK, Answering, Kinds
    <2>3. HeldWindow(req[p].sess.who, req[p].sess.groups, req[p].now)
      BY <2>1, <2>2 DEF HeldHandler, Answering
    <2> QED BY <2>3 DEF HeldWindow, Held
  <1> QED BY <1>1, BaseAlways, HeldAlways, PTL

-----------------------------------------------------------------------------
(* Additions: settled memberships and remembered refusals *)

\* Only /verify learns what its person has held; every other step that answers
\* people keeps what it knows, or less, and leaves no change behind.
LEMMA ServesHistory ==
    ASSUME BaseInv, NEW p \in Proc, Serves(p)
    PROVE  /\ req[p].pc \notin Changing
           /\ req'[p].lost \subseteq req[p].lost /\ req'[p].gained \subseteq req[p].gained
           /\ \/ \E s \in cookies, r \in Routes : VerifyBegin(p, s, r)
              \/ /\ req'[p].had \subseteq req[p].had /\ req'[p].gone \subseteq req[p].gone
                 /\ req'[p].had # {} \/ req'[p].gone # {} => req'[p].sess.who = req[p].sess.who
  <1> DEFINE h == req[p]
  <1>0. TypeOK /\ HandlerOK(h) /\ (h.pc \in Sitting => h.sess.kind \in Kinds /\ h.sess.who \in Person)
    BY BaseFields
  <1> USE DEF Changing, Unmarked
  <1>c. req'[p] = Idle => /\ req'[p].lost \subseteq h.lost /\ req'[p].gained \subseteq h.gained
                          /\ req'[p].had \subseteq h.had /\ req'[p].gone \subseteq h.gone
                          /\ req'[p].had = {} /\ req'[p].gone = {}
    BY IdleOK
  <1>1. CASE \E s \in cookies, r \in Routes : VerifyBegin(p, s, r)
    BY <1>0, <1>1, VerifyBeginDoes DEF VerifyBegin, At
  <1>2. CASE \E s \in cookies : StepUpBegin(p, s) \/ AdminBegin(p, s)
    BY <1>0, <1>2, StepUpBeginDoes, AdminBeginDoes DEF StepUpBegin, AdminBegin, At
  <1>3. CASE \E w \in Person, open, stepped \in BOOLEAN : LoginBegin(p, w, open, stepped)
    BY <1>0, <1>3, LoginBeginDoes DEF LoginBegin, At
  <1>4. CASE VerifyRead(p)
    BY <1>0, <1>c, <1>4, VerifyReadDoes DEF Onward
  <1>5. CASE RenewRead(p)
    <2>1. h.pc = "renewRead"
      BY <1>5 DEF RenewRead, At
    <2> QED BY <1>0, <1>c, <1>5, <2>1, RenewReadDoes DEF Onward, Sitting
  <1>6. CASE RenewIssue(p) \/ Decide(p)
    BY <1>0, <1>c, <1>6, RenewIssueDoes, DecideDoes DEF Onward, SameSession
  <1>7. CASE Recheck(p)
    <2>1. h.pc = "recheck"
      BY <1>7 DEF Recheck, At
    <2> QED BY <1>0, <1>c, <1>7, <2>1, RecheckDoes DEF Onward, Sitting
  <1>8. CASE Confirm(p)
    BY <1>0, <1>8, ConfirmDoes DEF Onward
  <1>9. CASE Finish(p) \/ LoginIssue(p) \/ StepUpIssue(p)
    <2>1. req'[p] = Idle
      BY <1>0, <1>9, FinishDoes, IssueDoes
    <2>2. h.pc \in {"ok", "denied", "page", "loginIssue", "stepIssue"}
      BY <1>9 DEF Finish, LoginIssue, StepUpIssue, At
    <2> QED BY <1>c, <2>1, <2>2
  <1>10. CASE LoginRead(p)
    <2>1. h.pc = "loginRead"
      BY <1>10 DEF LoginRead, At
    <2>2. h.sess.kind = "normal" => Role(h.sess.who) # "deny"
      BY <1>0, <2>1 DEF HandlerOK
    <2> QED BY <1>0, <1>10, <2>1, <2>2, LoginReadDoes DEF Onward, SameSession, Sitting
  <1>11. CASE StepUpRead(p)
    <2>1. h.pc = "stepRead"
      BY <1>11 DEF StepUpRead, At
    <2> QED BY <1>0, <1>11, <2>1, StepUpReadDoes DEF Onward, Sitting
  <1>12. CASE AdminRead(p) \/ AdminDecide(p)
    BY <1>0, <1>c, <1>12, AdminDoes
  <1> QED
    BY <1>1, <1>2, <1>3, <1>4, <1>5, <1>6, <1>7, <1>8, <1>9, <1>10, <1>11, <1>12 DEF Serves

\* A membership that has begun and is not yet announced.
Unannounced(x) == x \in adrift \/ \E q \in Proc : (req[q].pc \in Unmarked /\ x \in req[q].gained)

\* Every group w holds is in G, or becoming a member of it is yet to be announced.
Covers(w, G) == \A g \in Group : Held(<<w, g>>) => g \in G \/ Unannounced(<<w, g>>)

\* What a request knows its person to have held, they hold, and it was announced.
Settled(h) == \A g \in h.had : Held(<<h.sess.who, g>>) /\ <<h.sess.who, g>> \notin Pending

\* A refusal that is remembered leaves out no group that was settled; a renewed
\* session has every group settled before it.
AddHandler(h) ==
    LET user == h.sess.kind = "normal" /\ Role(h.sess.who) = "user" IN
    /\ h.pc \in {"recheck", "confirm"} => h.gen <= gen /\ h.route.groups \cap h.sess.groups = {}
    /\ h.pc = "confirm" /\ Role(h.sess.who) = "user" /\ h.gen = gen => Covers(h.sess.who, h.sess.groups)
    /\ h.pc = "confirm" /\ user => h.route.groups \cap h.had = {}
    /\ h.pc = "renewIssue" /\ user /\ ~h.failed => h.had \subseteq h.read
    /\ h.pc = "decide" /\ user /\ h.why # "none" /\ ~h.failed => h.had \subseteq h.sess.groups
    /\ h.pc = "denied" /\ user /\ ~h.failed => h.route.groups \cap h.had = {}

\* Confirmations and handlers leave out nothing settled.
AddInv ==
    /\ \A c \in confirmed : Role(c.who) = "user" => Covers(c.who, c.groups)
    /\ \A p \in Proc : Settled(req[p]) /\ AddHandler(req[p])

\* Nothing comes to be pending but what the step changes.
LEMMA PendingGrows ==
    ASSUME BaseInv, [Next]_vars, ~Restart, NEW x \in Pair, x \in Pending'
    PROVE  x \in Pending \/ Ends(x) \/ Begins(x)
  <1>0. TypeOK
    BY DEF BaseInv
  <1>a. x \in adrift' \/ \E q \in Proc : x \in req'[q].lost \/ x \in req'[q].gained
    BY DEF Pending
  <1>b. (x \in adrift \/ \E q \in Proc : x \in req[q].lost \/ x \in req[q].gained) => x \in Pending
    BY DEF Pending
  <1>1. ASSUME NEW p \in Proc, Serves(p)
        PROVE  x \in Pending
    <2>1. adrift' = adrift /\ \A q \in Proc \ {p} : req'[q] = req[q]
      BY <1>0, <1>1, ServesFrame
    <2>2. req'[p].lost \subseteq req[p].lost /\ req'[p].gained \subseteq req[p].gained
      BY <1>1, ServesHistory
    <2> QED BY <1>a, <1>b, <2>1, <2>2
  <1>2. ASSUME NEW p \in Proc, Changes(p)
        PROVE  x \in Pending \/ Ends(x) \/ Begins(x)
    <2>1. /\ \A q \in Proc \ {p} : Aside(req[q], req'[q])
          /\ adrift' = adrift \/ adrift' = adrift \cup {y \in req[p].gained : Held(y)'}
          /\ \/ req'[p] = Idle
             \/ req'[p].lost = {y \in Pair : Ends(y)} /\ req'[p].gained = {y \in Pair : Begins(y)}
      BY <1>0, <1>2, ChangesDo
    <2> QED BY <1>a, <1>b, <2>1, IdleOK DEF Aside
  <1>3. ASSUME NEW p \in Proc, Announces(p)
        PROVE  x \in Pending
    <2>1. \A q \in Proc \ {p} : req'[q] = req[q]
      BY <1>0, <1>3, AnnouncesFrame
    <2>2. /\ adrift' \subseteq adrift \cup req[p].gained
          /\ req'[p].lost \subseteq req[p].lost /\ req'[p].gained \subseteq req[p].gained
      <3>0. req[p] \in Handler
        BY <1>0, Fields
      <3>1. CASE SyncBegin(p)
        <4>1. req'[p] = [Idle EXCEPT !.pc = "sync", !.why = "sync", !.at = clock] /\ adrift' = adrift
          BY <1>0, <3>1, Becomes DEF SyncBegin, history
        <4> QED BY <4>1 DEF Idle
      <3>2. CASE UndoFails(p) \/ MarkMemory(p)
        <4>1. req'[p] = Idle /\ adrift' \subseteq adrift \cup req[p].gained
          BY <1>0, <3>2, Becomes DEF UndoFails, MarkMemory, Stop
        <4> QED BY <4>1, IdleOK
      <3>3. CASE IncludeStands(p) \/ ForgetAll(p) \/ MarkDB(p)
        <4>1. PICK pc \in PC : req'[p] = [req[p] EXCEPT !.pc = pc]
          BY <1>0, <3>3, Becomes DEF IncludeStands, ForgetAll, MarkDB, Goto, PC
        <4>2. req'[p].lost = req[p].lost /\ req'[p].gained = req[p].gained
          BY <3>0, <4>1 DEF Handler
        <4>3. adrift' \subseteq adrift
          BY <3>3 DEF IncludeStands, ForgetAll, MarkDB, history
        <4> QED BY <4>2, <4>3
      <3>4. CASE MarkArg(p)
        <4>1. req'[p] = [req[p] EXCEPT !.pc = "forget", !.at = clock] /\ adrift' = adrift
          BY <1>0, <3>4, Becomes DEF MarkArg, history
        <4>2. req'[p].lost = req[p].lost /\ req'[p].gained = req[p].gained
          BY <3>0, <4>1 DEF Handler
        <4> QED BY <4>1, <4>2
      <3> QED BY <1>3, <3>1, <3>2, <3>3, <3>4 DEF Announces
    <2> QED BY <1>a, <1>b, <2>1, <2>2
  <1>4. CASE Tick \/ UNCHANGED vars
    BY <1>a, <1>b, <1>4 DEF Tick, vars, history
  <1>5. CASE RoutesChange
    <2>1. adrift' = adrift /\ req' = [p \in Proc |-> [req[p] EXCEPT !.bar = @ \cap AppRoleGroups']]
      BY <1>5 DEF RoutesChange, history
    <2>2. ASSUME NEW q \in Proc
          PROVE  req'[q].lost = req[q].lost /\ req'[q].gained = req[q].gained
      <3>1. req[q] \in Handler /\ req'[q] = [req[q] EXCEPT !.bar = @ \cap AppRoleGroups']
        BY <1>0, <2>1, Fields
      <3> QED BY <3>1 DEF Handler
    <2> QED BY <1>a, <1>b, <2>1, <2>2
  <1> QED BY <1>1, <1>2, <1>3, <1>4, <1>5, NextCases

\* Memberships begin and end by changes of them only.
LEMMA NoChange ==
    ASSUME UNCHANGED <<direct, includes>>
    PROVE  \A x : ~Ends(x) /\ ~Begins(x) /\ (Held(x)' <=> Held(x))
  BY DEF Ends, Begins, Held, GroupsForEmail, Up, ClosedUp

\* A step serves one handler, or changes and announces for one, and sets the others aside.
LEMMA Bystanders ==
    ASSUME BaseInv, BaseInv', [Next]_vars, ~Restart, NEW q \in Proc
    PROVE  \/ /\ Aside(req[q], req'[q])
              /\ \A w \in Person, g \in Group : w = req[q].sess.who =>
                   /\ g \in req'[q].had => ~Ends(<<w, g>>)
                   /\ g \in req'[q].gone => ~Begins(<<w, g>>)
           \/ Serves(q)
           \/ /\ Changes(q) \/ Announces(q)
              /\ req'[q].pc \in Changing \cup {"idle"} /\ req'[q].had = {} /\ req'[q].gone = {}
  <1>0. TypeOK /\ HandlerOK(req[q])'
    BY DEF BaseInv
  <1>1. req'[q].pc \in Changing \cup {"idle"} => req'[q].had = {} /\ req'[q].gone = {}
    BY <1>0 DEF HandlerOK, Changing, Unmarked, Serving, Reading, Sitting, Answering
  <1>2. ASSUME NEW p \in Proc, Serves(p), q # p
        PROVE  Aside(req[q], req'[q]) /\ \A x : ~Ends(x) /\ ~Begins(x)
    <2>1. UNCHANGED <<direct, includes>> /\ req'[q] = req[q]
      BY <1>0, <1>2, ServesFrame
    <2> QED BY <2>1, NoChange DEF Aside
  <1>3. ASSUME NEW p \in Proc, Announces(p)
        PROVE  IF q = p THEN req'[q].pc \in Changing \cup {"idle"}
               ELSE Aside(req[q], req'[q]) /\ \A x : ~Ends(x) /\ ~Begins(x)
    <2>1. /\ UNCHANGED <<direct, includes>> /\ (q # p => req'[q] = req[q])
          /\ q = p => req'[q].pc \in Changing \cup {"idle"}
      BY <1>0, <1>3, AnnouncesFrame
    <2> QED BY <2>1, NoChange DEF Aside
  <1>4. ASSUME NEW p \in Proc, Changes(p)
        PROVE  IF q = p THEN req'[q].pc \in Changing \cup {"idle"}
               ELSE /\ Aside(req[q], req'[q])
                    /\ \A w \in Person, g \in Group : w = req[q].sess.who =>
                         /\ g \in req'[q].had => ~Ends(<<w, g>>)
                         /\ g \in req'[q].gone => ~Begins(<<w, g>>)
    BY <1>0, <1>4, ChangesDo, IdleOK DEF Changing
  <1>5. CASE Tick \/ UNCHANGED vars
    <2>1. UNCHANGED <<direct, includes, req>>
      BY <1>5 DEF Tick, vars, db
    <2> QED BY <2>1, NoChange DEF Aside
  <1>6. CASE RoutesChange
    <2>1. UNCHANGED <<direct, includes>> /\ req' = [p \in Proc |-> [req[p] EXCEPT !.bar = @ \cap AppRoleGroups']]
      BY <1>6 DEF RoutesChange, db
    <2>2. req[q] \in Handler /\ req'[q] = [req[q] EXCEPT !.bar = @ \cap AppRoleGroups']
      BY <1>0, <2>1, Fields
    <2>3. Aside(req[q], req'[q])
      BY <2>2 DEF Handler, Aside
    <2> QED BY <2>1, <2>3, NoChange
  <1> QED BY <1>1, <1>2, <1>3, <1>4, <1>5, <1>6, NextCases

\* What is settled stays so until it ends, and then no request counts on it.
LEMMA SettledStep ==
    ASSUME BaseInv, BaseInv', [Next]_vars, \A p \in Proc : Settled(req[p]), NEW q \in Proc
    PROVE  Settled(req[q])'
  <1>0. TypeOK /\ HandlerOK(req[q]) /\ req[q].had \subseteq Group
    BY Fields DEF BaseInv
  <1>1. CASE Restart
    <2>1. req'[q] = Idle
      BY <1>1 DEF Restart
    <2> QED BY <2>1, IdleOK DEF Settled
  <1>2. ASSUME ~Restart, Aside(req[q], req'[q]),
               \A w \in Person, g \in Group : w = req[q].sess.who => (g \in req'[q].had => ~Ends(<<w, g>>))
        PROVE  Settled(req[q])'
    <2>1. ASSUME NEW g \in req'[q].had
          PROVE  Held(<<req[q].sess.who, g>>)' /\ <<req'[q].sess.who, g>> \notin Pending'
      <3>1. PICK w : w = req[q].sess.who
        OBVIOUS
      <3>2. /\ g \in req[q].had /\ g \in Group /\ w \in Person /\ req'[q].sess.who = w
            /\ Held(<<w, g>>) /\ <<w, g>> \notin Pending /\ ~Ends(<<w, g>>)
        BY <1>0, <1>2, <2>1, <3>1 DEF Aside, Settled, HandlerOK
      <3>3. <<w, g>> \in Pair
        BY <3>2 DEF Pair
      <3>4. Held(<<w, g>>)' /\ ~Begins(<<w, g>>)
        BY <3>2 DEF Ends, Begins
      <3>5. <<w, g>> \notin Pending'
        BY <1>2, <3>2, <3>3, <3>4, PendingGrows
      <3> QED BY <3>2, <3>4, <3>5
    <2> QED BY <2>1 DEF Settled
  <1>3. CASE ~Restart /\ Serves(q)
    <2>1. UNCHANGED <<direct, includes>>
      BY <1>0, <1>3, ServesFrame
    <2>2. \A x \in Pair : x \in Pending' => x \in Pending
      BY <1>3, <2>1, NoChange, PendingGrows
    <2>3. ASSUME NEW s \in cookies, NEW r \in Routes, VerifyBegin(q, s, r)
          PROVE  Settled(req[q])'
      <3>1. /\ req'[q].sess = s /\ (req'[q].had # {} => s.who \in Person)
            /\ \A g \in req'[q].had : g \in Group /\ <<s.who, g>> \notin Pending /\ Held(<<s.who, g>>)
        BY <1>0, <2>3, VerifyBeginDoes
      <3>2. PICK w : w = s.who
        OBVIOUS
      <3>3. \A g \in req'[q].had : Held(<<w, g>>)' /\ <<w, g>> \notin Pending'
        <4>1. ASSUME NEW g \in req'[q].had
              PROVE  Held(<<w, g>>)' /\ <<w, g>> \notin Pending'
          <5>1. <<w, g>> \in Pair
            BY <3>1, <3>2 DEF Pair
          <5> QED BY <2>1, <2>2, <3>1, <3>2, <5>1, NoChange
        <4> QED BY <4>1
      <3> QED BY <3>1, <3>2, <3>3 DEF Settled
    <2>4. ASSUME req'[q].had \subseteq req[q].had, req'[q].had # {} => req'[q].sess.who = req[q].sess.who
          PROVE  Settled(req[q])'
      <3>1. ASSUME NEW g \in req'[q].had
            PROVE  Held(<<req[q].sess.who, g>>)' /\ <<req'[q].sess.who, g>> \notin Pending'
        <4>1. PICK w : w = req[q].sess.who
          OBVIOUS
        <4>2. /\ g \in req[q].had /\ g \in Group /\ w \in Person /\ req'[q].sess.who = w
              /\ Held(<<w, g>>) /\ <<w, g>> \notin Pending
          BY <1>0, <2>4, <3>1, <4>1 DEF Settled, HandlerOK
        <4>3. <<w, g>> \in Pair
          BY <4>2 DEF Pair
        <4>4. Held(<<w, g>>)' /\ <<w, g>> \notin Pending'
          BY <2>1, <2>2, <4>2, <4>3, NoChange
        <4> QED BY <4>2, <4>4
      <3> QED BY <3>1 DEF Settled
    <2> QED BY <1>3, <2>3, <2>4, ServesHistory
  <1>4. CASE req'[q].had = {}
    BY <1>4 DEF Settled
  <1> QED BY <1>1, <1>2, <1>3, <1>4, Bystanders

\* Between two announcements, what covers a person's groups goes on doing so.
LEMMA CoversStep ==
    ASSUME BaseInv, [Next]_vars, ~Restart, \A p \in Proc : ~ForgetAll(p), NEW w \in Person, NEW G, Covers(w, G)
    PROVE  Covers(w, G)'
  <1>0. TypeOK
    BY DEF BaseInv
  <1> SUFFICES ASSUME NEW x \in Pair, Held(x)', Begins(x) \/ Unannounced(x)
               PROVE  Unannounced(x)'
    <2>1. ASSUME NEW g \in Group, Held(<<w, g>>)', g \notin G
          PROVE  Unannounced(<<w, g>>)'
      <3>1. <<w, g>> \in Pair
        BY DEF Pair
      <3>2. Begins(<<w, g>>) \/ Unannounced(<<w, g>>)
        BY <2>1 DEF Begins, Covers
      <3> QED BY <2>1, <3>1, <3>2
    <2> QED BY <2>1 DEF Covers
  <1>a. (x \in adrift' \/ \E q \in Proc : (req'[q].pc \in Unmarked /\ x \in req'[q].gained)) => Unannounced(x)'
    BY DEF Unannounced
  <1>1. ASSUME NEW p \in Proc, Serves(p)
        PROVE  Unannounced(x)'
    <2>1. UNCHANGED <<direct, includes, adrift>> /\ \A q \in Proc \ {p} : req'[q] = req[q]
      BY <1>0, <1>1, ServesFrame
    <2>2. req[p].pc \notin Unmarked
      BY <1>1, ServesHistory DEF Changing
    <2>3. ~Begins(x)
      BY <2>1, NoChange
    <2> QED BY <1>a, <2>1, <2>2, <2>3 DEF Unannounced
  <1>2. ASSUME NEW p \in Proc, Changes(p)
        PROVE  Unannounced(x)'
    <2>1. /\ \A q \in Proc \ {p} : Aside(req[q], req'[q])
          /\ req[p].pc \in {"idle", "includeCheck", "sync"}
          /\ \/ /\ req'[p].pc \in Unmarked /\ adrift' = adrift
                /\ req'[p].gained = {y \in Pair : Begins(y)}
                /\ req[p].pc \in {"idle", "sync"}
             \/ /\ \A y \in Pair : ~Begins(y)
                /\ \/ req[p].pc = "sync" /\ adrift' = adrift
                   \/ adrift' = adrift \cup {y \in req[p].gained : Held(y)'}
      BY <1>0, <1>2, ChangesDo
    <2> QED BY <1>a, <2>1 DEF Unannounced, Aside, Unmarked
  <1>3. ASSUME NEW p \in Proc, Announces(p)
        PROVE  Unannounced(x)'
    <2>1. UNCHANGED <<direct, includes>> /\ \A q \in Proc \ {p} : req'[q] = req[q]
      BY <1>0, <1>3, AnnouncesFrame
    <2>2. Unannounced(x) /\ Held(x)
      BY <2>1, NoChange
    <2>0. req[p] \in Handler
      BY <1>0, Fields
    <2>3. CASE SyncBegin(p)
      <3>1. adrift' = adrift /\ req[p].pc = "idle"
        BY <2>3 DEF SyncBegin, history, At
      <3> QED BY <1>a, <2>1, <2>2, <3>1 DEF Unannounced, Unmarked
    <2>4. CASE UndoFails(p)
      <3>1. adrift' = adrift \cup req[p].gained
        BY <2>4 DEF UndoFails
      <3> QED BY <1>a, <2>1, <2>2, <3>1 DEF Unannounced
    <2>5. CASE IncludeStands(p)
      <3>1. req'[p] = [req[p] EXCEPT !.pc = "markArg"] /\ adrift' = adrift
        BY <1>0, <2>5, Becomes DEF IncludeStands, Goto, history
      <3>2. req'[p].pc \in Unmarked /\ req'[p].gained = req[p].gained
        BY <2>0, <3>1 DEF Handler, Unmarked
      <3> QED BY <1>a, <2>1, <2>2, <3>1, <3>2 DEF Unannounced
    <2>6. CASE MarkArg(p)
      <3>1. req'[p] = [req[p] EXCEPT !.pc = "forget", !.at = clock] /\ adrift' = adrift
        BY <1>0, <2>6, Becomes DEF MarkArg, history
      <3>2. req'[p].pc \in Unmarked /\ req'[p].gained = req[p].gained
        BY <2>0, <3>1 DEF Handler, Unmarked
      <3> QED BY <1>a, <2>1, <2>2, <3>1, <3>2 DEF Unannounced
    <2>7. CASE MarkDB(p) \/ MarkMemory(p)
      <3>1. req[p].pc \notin Unmarked /\ (x \in adrift => x \in adrift')
        BY <2>2, <2>7 DEF MarkDB, MarkMemory, At, Unmarked
      <3> QED BY <1>a, <2>1, <2>2, <3>1 DEF Unannounced
    <2> QED BY <1>3, <2>3, <2>4, <2>5, <2>6, <2>7 DEF Announces
  <1>4. CASE Tick \/ UNCHANGED vars
    <2>1. UNCHANGED <<direct, includes, adrift, req>>
      BY <1>4 DEF Tick, vars, db, history
    <2> QED BY <1>a, <2>1, NoChange DEF Unannounced
  <1>5. CASE RoutesChange
    <2>1. /\ UNCHANGED <<direct, includes, adrift>>
          /\ req' = [p \in Proc |-> [req[p] EXCEPT !.bar = @ \cap AppRoleGroups']]
      BY <1>5 DEF RoutesChange, db, history
    <2>2. ASSUME NEW q \in Proc
          PROVE  req'[q].pc = req[q].pc /\ req'[q].gained = req[q].gained
      <3>1. req[q] \in Handler /\ req'[q] = [req[q] EXCEPT !.bar = @ \cap AppRoleGroups']
        BY <1>0, <2>1, Fields
      <3> QED BY <3>1 DEF Handler
    <2> QED BY <1>a, <2>1, <2>2, NoChange DEF Unannounced
  <1> QED BY <1>1, <1>2, <1>3, <1>4, <1>5, NextCases

\* What was settled is in the groups that were worked out, all of them, for an
\* ordinary user, and whatever covers the user's groups.
LEMMA SettledIsCovered ==
    ASSUME NEW h \in Handler, Settled(h), NEW G, Covers(h.sess.who, G)
    PROVE  h.had \subseteq G
  <1>1. \A g \in h.had : g \in Group /\ Held(<<h.sess.who, g>>) /\ <<h.sess.who, g>> \notin Pending
    BY DEF Settled, Handler
  <1>2. \A x : Unannounced(x) => x \in Pending
    BY DEF Unannounced, Pending
  <1> QED BY <1>1, <1>2 DEF Covers

\* Groups worked out from all the memberships leave out none of them.
LEMMA WorkedOutCovers ==
    ASSUME TypeOK, NEW s \in Session, s.who \in Person, s.kind \in Kinds, RenewalRole(s) # "deny",
           Role(s.who) = "user", NEW all, all, NEW G, WorkedOut(s, G, all)
    PROVE  Covers(s.who, G)
  <1>1. clock \in Nat /\ clock <= clock /\ policy \in Policies /\ routes \in RouteFiles
    BY DEF TypeOK
  <1>2. GroupsForEmail(s.who) \cap Group \subseteq G
    BY <1>1, WorkedOutFits
  <1> QED BY <1>2 DEF Covers, Held

\* Each step that answers people keeps a request's settled groups in its session
\* when it renews it, and refuses it only where they do not help.
LEMMA ServesAdd ==
    ASSUME BaseInv, AddInv, NEW p \in Proc, Serves(p)
    PROVE  AddHandler(req'[p])
  <1> DEFINE h == req[p]
             Plain(k) == k.pc \notin {"recheck", "confirm", "renewIssue", "decide", "denied"}
  <1>0. /\ TypeOK /\ HandlerOK(h) /\ h \in Handler /\ h.sess \in Session /\ gen \in Nat
        /\ Settled(h) /\ AddHandler(h)
        /\ h.pc \in Sitting => h.sess.kind \in Kinds /\ h.sess.who \in Person
    BY BaseFields, Fields DEF AddInv, TypeOK
  <1>p. \A k : Plain(k) => AddHandler(k)
    BY DEF AddHandler
  <1>c. req'[p] = Idle => Plain(req'[p])
    BY IdleOK
  <1>1. ASSUME NEW s \in cookies, NEW r \in Routes, VerifyBegin(p, s, r)
        PROVE  Plain(req'[p])
    BY <1>0, <1>1, VerifyBeginDoes
  <1>2. ASSUME NEW s \in cookies, StepUpBegin(p, s)
        PROVE  Plain(req'[p])
    BY <1>0, <1>2, StepUpBeginDoes
  <1>3. ASSUME NEW s \in cookies, AdminBegin(p, s)
        PROVE  Plain(req'[p])
    BY <1>0, <1>3, AdminBeginDoes
  <1>4. ASSUME NEW w \in Person, NEW open \in BOOLEAN, NEW stepped \in BOOLEAN, LoginBegin(p, w, open, stepped)
        PROVE  Plain(req'[p])
    BY <1>0, <1>4, LoginBeginDoes
  <1>5. CASE VerifyRead(p)
    <2>1. /\ h.pc = "verifyRead"
          /\ req'[p] = Idle \/ req'[p].pc = "renewRead" \/ (req'[p].pc = "decide" /\ req'[p].why = h.why)
      BY <1>0, <1>5, VerifyReadDoes DEF Onward
    <2>2. HandlerOK(h) /\ h.pc = "verifyRead"
      BY <1>0, <2>1
    <2>3. h.why = "none"
      BY <2>2 DEF HandlerOK
    <2>4. CASE req'[p].pc = "decide" /\ req'[p].why = h.why
      BY <2>3, <2>4 DEF AddHandler
    <2>5. CASE req'[p] = Idle \/ req'[p].pc = "renewRead"
      BY <1>c, <1>p, <2>5
    <2> QED BY <2>1, <2>4, <2>5
  <1>6. CASE RenewRead(p)
    <2>1. h.pc = "renewRead"
      BY <1>6 DEF RenewRead, At
    <2>2. \/ Plain(req'[p])
          \/ /\ RenewalRole(h.sess) # "deny" /\ req'[p].had = h.had /\ req'[p].sess = h.sess
             /\ req'[p].pc = "renewIssue" /\ WorkedOut(h.sess, req'[p].read, ~req'[p].failed)
      BY <1>0, <1>c, <1>6, <2>1, RenewReadDoes DEF Sitting, Onward
    <2>3. CASE ~Plain(req'[p])
      <3>1. PICK G, all : G = req'[p].read /\ all = (~req'[p].failed) /\ WorkedOut(h.sess, G, all)
        BY <2>2, <2>3
      <3>2. Role(h.sess.who) = "user" /\ all => h.had \subseteq G
        BY <1>0, <2>1, <2>2, <2>3, <3>1, WorkedOutCovers, SettledIsCovered DEF Sitting
      <3> QED BY <2>2, <2>3, <3>1, <3>2 DEF AddHandler
    <2> QED BY <1>p, <2>3
  <1>7. CASE RenewIssue(p)
    <2>1. /\ h.pc = "renewIssue" /\ req'[p].had = h.had /\ req'[p].sess.who = h.sess.who /\ req'[p].failed = h.failed
          /\ req'[p].sess.kind = h.sess.kind /\ req'[p].sess.groups = h.read /\ req'[p].pc \in {"adminDecide", "decide"}
      BY <1>0, <1>7, RenewIssueDoes DEF Onward, SameSession
    <2> QED BY <1>0, <2>1 DEF AddHandler
  <1>8. CASE Decide(p)
    <2>1. /\ h.pc = "decide"
          /\ \/ Plain(req'[p])
             \/ /\ req'[p].had = h.had /\ req'[p].failed = h.failed
                /\ req'[p].sess.who = h.sess.who /\ req'[p].sess.kind = h.sess.kind
                /\ req'[p].sess.groups = IF h.why = "refused" THEN h.sess.groups ELSE GuestGroupsNow(h.sess)
                /\ \/ /\ req'[p].pc = "denied" /\ req'[p].sess.groups \cap req'[p].route.groups = {}
                      /\ \/ h.why # "none" \/ req'[p].sess.kind \notin Kinds \/ req'[p].route.groups = {}
                         \/ Fresh(req'[p].sess, req'[p].now)
                   \/ /\ req'[p].pc = "recheck" /\ req'[p].gen = gen
                      /\ req'[p].sess.groups \cap req'[p].route.groups = {}
      BY <1>0, <1>c, <1>8, DecideDoes DEF Onward, SameSession
    <2>2. h.sess.kind = "normal" /\ req'[p].pc = "denied" => req'[p].sess.groups = h.sess.groups
      BY <2>1 DEF GuestGroupsNow
    <2>3. CASE Plain(req'[p])
      BY <1>p, <2>3
    <2>4. CASE req'[p].pc = "recheck"
      BY <1>0, <2>1, <2>4 DEF AddHandler
    <2>5. CASE req'[p].pc = "denied"
      <3> SUFFICES ASSUME h.sess.kind = "normal", Role(h.sess.who) = "user", ~h.failed, req'[p].route.groups # {}
                   PROVE  h.had \subseteq req'[p].sess.groups
        BY <2>1, <2>5 DEF AddHandler
      <3>1. CASE h.why # "none"
        BY <1>0, <2>1, <2>2, <2>5, <3>1 DEF AddHandler
      <3>2. CASE Fresh(req'[p].sess, req'[p].now)
        <4>1. PICK c \in confirmed : c.who = req'[p].sess.who /\ c.groups = req'[p].sess.groups
          BY <3>2 DEF Fresh
        <4>2. c.who = h.sess.who
          BY <2>1, <2>5, <4>1
        <4>3. Covers(h.sess.who, c.groups)
          BY <4>2 DEF AddInv
        <4> QED BY <1>0, <4>1, <4>3, SettledIsCovered
      <3> QED BY <2>1, <2>5, <3>1, <3>2 DEF Kinds
    <2> QED BY <2>1, <2>3, <2>4, <2>5
  <1>9. CASE Recheck(p)
    <2>1. h.pc = "recheck"
      BY <1>9 DEF Recheck, At
    <2>2. \/ Plain(req'[p])
          \/ /\ req'[p].had = h.had /\ req'[p].sess = h.sess /\ req'[p].route = h.route
             /\ \/ req'[p].pc = "denied" /\ req'[p].failed
                \/ /\ RenewalRole(h.sess) # "deny" /\ req'[p].gen = h.gen
                   /\ \/ req'[p].pc = "confirm" /\ WorkedOut(h.sess, h.sess.groups, TRUE)
                      \/ req'[p].pc = "renewIssue" /\ WorkedOut(h.sess, req'[p].read, TRUE)
      BY <1>0, <1>c, <1>9, <2>1, RecheckDoes DEF Sitting, Onward
    <2>3. CASE req'[p].pc = "confirm"
      <3>1. PICK G, all : G = h.sess.groups /\ all = TRUE /\ WorkedOut(h.sess, G, all)
        BY <2>2, <2>3
      <3>2. Role(h.sess.who) = "user" => Covers(h.sess.who, G) /\ h.had \subseteq G
        BY <1>0, <2>1, <2>2, <2>3, <3>1, WorkedOutCovers, SettledIsCovered DEF Sitting
      <3> QED BY <1>0, <2>1, <2>2, <2>3, <3>1, <3>2 DEF AddHandler
    <2>4. CASE req'[p].pc = "renewIssue"
      <3>1. PICK G, all : G = req'[p].read /\ all = TRUE /\ WorkedOut(h.sess, G, all)
        BY <2>2, <2>4
      <3>2. Role(h.sess.who) = "user" => h.had \subseteq G
        BY <1>0, <2>1, <2>2, <2>4, <3>1, WorkedOutCovers, SettledIsCovered DEF Sitting
      <3> QED BY <2>2, <2>4, <3>1, <3>2 DEF AddHandler
    <2>5. CASE req'[p].pc = "denied"
      BY <2>2, <2>5 DEF AddHandler
    <2> QED BY <1>p, <2>2, <2>3, <2>4, <2>5
  <1>10. CASE Confirm(p)
    <2>1. /\ h.pc = "confirm" /\ req'[p].had = h.had /\ req'[p].route = h.route
          /\ req'[p].sess = h.sess /\ req'[p].pc = "denied" /\ req'[p].failed = h.failed
      BY <1>0, <1>10, ConfirmDoes DEF Onward
    <2> QED BY <1>0, <2>1 DEF AddHandler
  <1>11. CASE Finish(p) \/ LoginIssue(p) \/ StepUpIssue(p)
    BY <1>0, <1>c, <1>p, <1>11, FinishDoes, IssueDoes
  <1>12. CASE LoginRead(p)
    <2>1. h.pc = "loginRead"
      BY <1>12 DEF LoginRead, At
    <2>2. h.sess.kind = "normal" => Role(h.sess.who) # "deny"
      BY <1>0, <2>1 DEF HandlerOK
    <2>3. req'[p].pc = "loginIssue"
      BY <1>0, <1>12, <2>1, <2>2, LoginReadDoes DEF Sitting
    <2> QED BY <1>p, <2>3
  <1>13. CASE StepUpRead(p)
    <2>1. h.pc = "stepRead"
      BY <1>13 DEF StepUpRead, At
    <2>2. req'[p].pc = "stepIssue"
      BY <1>0, <1>13, <2>1, StepUpReadDoes DEF Sitting
    <2> QED BY <1>p, <2>2
  <1>14. CASE AdminRead(p) \/ AdminDecide(p)
    <2>1. req'[p] = Idle \/ req'[p].pc \in {"page", "renewRead"}
      BY <1>0, <1>14, AdminDoes
    <2> QED BY <1>c, <1>p, <2>1
  <1> QED
    BY <1>p, <1>1, <1>2, <1>3, <1>4, <1>5, <1>6, <1>7, <1>8, <1>9, <1>10, <1>11, <1>12, <1>13, <1>14 DEF Serves

\* What a handler may assume, put aside while another handler's step leaves the
\* confirmations alone or forgets them all.
LEMMA AddAside ==
    ASSUME BaseInv, AddInv, [Next]_vars, ~Restart, NEW h \in Handler, AddHandler(h), HandlerOK(h)
    PROVE  AddHandler(h)'
  <1>0. TypeOK /\ gen \in Nat /\ h.gen \in Nat /\ (h.pc = "confirm" => h.sess.who \in Person)
    BY DEF BaseInv, TypeOK, Handler, HandlerOK, Serving, Sitting
  <1>1. policy' = policy
    BY <1>0, NextCases, ServesFrame, ChangesDo, AnnouncesFrame DEF Tick, RoutesChange, rules, vars
  <1>2. \A w : Role(w)' = Role(w)
    BY <1>1 DEF Role
  <1>3. CASE \E p \in Proc : ForgetAll(p)
    <2>1. gen' = gen + 1
      BY <1>3 DEF ForgetAll
    <2> QED BY <1>0, <1>2, <2>1 DEF AddHandler
  <1>4. CASE \A p \in Proc : ~ForgetAll(p)
    <2>1. gen' = gen
      <3>1. ASSUME NEW p \in Proc, Announces(p)
            PROVE  gen' = gen
        BY <1>4, <3>1 DEF Announces, SyncBegin, IncludeStands, UndoFails, MarkArg, MarkDB, MarkMemory, memory
      <3> QED BY <1>0, <3>1, NextCases, ServesFrame, ChangesDo DEF Tick, RoutesChange, memory, vars
    <2>2. h.pc = "confirm" /\ Role(h.sess.who) = "user" /\ h.gen = gen => Covers(h.sess.who, h.sess.groups)'
      <3>1. PICK w, G : w = h.sess.who /\ G = h.sess.groups
        OBVIOUS
      <3>2. h.pc = "confirm" /\ Role(w) = "user" /\ h.gen = gen => Covers(w, G) /\ w \in Person
        BY <1>0, <3>1 DEF AddHandler
      <3>3. h.pc = "confirm" /\ Role(w) = "user" /\ h.gen = gen => Covers(w, G)'
        BY <1>4, <3>2, CoversStep
      <3> QED BY <3>1, <3>3
    <2> QED BY <1>0, <1>2, <2>1, <2>2 DEF AddHandler
  <1> QED BY <1>3, <1>4

\* Nothing is remembered, settled or pending at the start.
LEMMA InitAdd == Init => AddInv
  <1> SUFFICES ASSUME Init PROVE AddInv
    OBVIOUS
  <1> QED BY IdleOK DEF Init, AddInv, Settled, AddHandler

\* Every confirmation covers its person's groups, and goes on doing so until the
\* confirmations are forgotten.
LEMMA ConfirmedStep ==
    ASSUME BaseInv, AddInv, [Next]_vars, ~Restart
    PROVE  \A c \in confirmed' : Role(c.who)' = "user" => Covers(c.who, c.groups)'
  <1>0. /\ TypeOK /\ \A c \in confirmed : c.who \in Person
        /\ \A c \in confirmed : Role(c.who) = "user" => Covers(c.who, c.groups)
    BY DEF BaseInv, TypeOK, AddInv
  <1>1. policy' = policy
    BY <1>0, NextCases, ServesFrame, ChangesDo, AnnouncesFrame DEF Tick, RoutesChange, rules, vars
  <1>2. \A w : Role(w)' = Role(w)
    BY <1>1 DEF Role
  <1>3. CASE \E p \in Proc : ForgetAll(p)
    BY <1>3 DEF ForgetAll
  <1>4. CASE \A p \in Proc : ~ForgetAll(p)
    <2>1. \A w \in Person : \A G : Covers(w, G) => Covers(w, G)'
      BY <1>4, CoversStep
    <2>2. ASSUME NEW c \in confirmed', Role(c.who) = "user"
          PROVE  c.who \in Person /\ Covers(c.who, c.groups)
      <3>1. CASE c \in confirmed
        BY <1>0, <2>2, <3>1
      <3>2. CASE c \notin confirmed
        <4>1. PICK p \in Proc : Confirm(p)
          <5>1. ASSUME NEW p \in Proc, Announces(p)
                PROVE  confirmed' = confirmed
            BY <1>4, <5>1 DEF Announces, SyncBegin, IncludeStands, UndoFails, MarkArg, MarkDB, MarkMemory, memory
          <5>2. ASSUME NEW p \in Proc, Serves(p), ~Confirm(p)
                PROVE  confirmed' = confirmed
            BY <5>2 DEF Serves, VerifyBegin, StepUpBegin, AdminBegin, LoginBegin, VerifyRead, RenewRead, RenewIssue,
                 Decide, Recheck, Finish, LoginRead, LoginIssue, StepUpRead, StepUpIssue, AdminRead,
                 AdminDecide, memory
          <5> QED BY <1>0, <2>2, <3>2, <5>1, <5>2, NextCases, ChangesDo DEF Tick, RoutesChange, memory, vars
        <4>2. /\ req[p].pc = "confirm" /\ AddHandler(req[p]) /\ req[p].sess.who \in Person
              /\ req[p].gen = gen /\ c = Confirmation(req[p])
          BY <1>0, <2>2, <3>2, <4>1, ConfirmDoes, BaseFields DEF AddInv, Sitting
        <4>3. c.who = req[p].sess.who /\ c.groups = req[p].sess.groups
          BY <4>2 DEF Confirmation
        <4> QED BY <2>2, <4>2, <4>3 DEF AddHandler
      <3> QED BY <3>1, <3>2
    <2>3. ASSUME NEW c \in confirmed', Role(c.who)' = "user"
          PROVE  Covers(c.who, c.groups)'
      <3>1. PICK w, G : w = c.who /\ G = c.groups
        OBVIOUS
      <3>2. Covers(w, G)'
        BY <1>2, <2>1, <2>2, <2>3, <3>1
      <3> QED BY <3>1, <3>2
    <2> QED BY <2>3
  <1> QED BY <1>3, <1>4

\* Every step keeps what is settled in its session, and what is remembered covering.
LEMMA AddStep == BaseInv /\ BaseInv' /\ AddInv /\ [Next]_vars => AddInv'
  <1> SUFFICES ASSUME BaseInv, BaseInv', AddInv, [Next]_vars PROVE AddInv'
    OBVIOUS
  <1>0. TypeOK /\ \A p \in Proc : Settled(req[p]) /\ AddHandler(req[p])
    BY DEF BaseInv, AddInv
  <1>1. CASE Restart
    <2>1. confirmed' = {} /\ \A p \in Proc : req'[p] = Idle
      BY <1>1 DEF Restart
    <2> QED BY <2>1, IdleOK DEF AddInv, Settled, AddHandler
  <1>2. CASE ~Restart
    <2>1. \A q \in Proc : Settled(req[q])'
      BY <1>0, SettledStep
    <2>2. ASSUME NEW q \in Proc
          PROVE  AddHandler(req[q])'
      <3>1. CASE req'[q].pc \in Changing \cup {"idle"}
        BY <3>1 DEF AddHandler, Changing, Unmarked
      <3>2. CASE Serves(q)
        <4>1. PICK k : k = req'[q]
          OBVIOUS
        <4>2. k \in Handler /\ AddHandler(k)
          BY <3>2, <4>1, ServesAdd, ServesHandler
        <4>3. UNCHANGED <<direct, includes, policy, gen, adrift>>
          BY <1>0, <3>2, ServesFrame
        <4>4. \A w, G : Covers(w, G) => Covers(w, G)'
          <5>1. /\ \A r \in Proc \ {q} : req'[r] = req[r]
                /\ req[q].pc \notin Unmarked
            BY <1>0, <3>2, ServesFrame, ServesHistory DEF Changing
          <5>2. \A x : Unannounced(x) => Unannounced(x)'
            BY <4>3, <5>1 DEF Unannounced
          <5> QED BY <4>3, <5>2, NoChange DEF Covers
        <4>5. AddHandler(k)'
          <5>1. \A w : Role(w)' = Role(w)
            BY <4>3 DEF Role
          <5> QED BY <4>2, <4>3, <4>4, <5>1 DEF AddHandler
        <4> QED BY <4>1, <4>5
      <3>3. CASE Aside(req[q], req'[q])
        <4>1. PICK h : h = req[q]
          OBVIOUS
        <4>2. AddHandler(h)'
          BY <1>0, <1>2, <4>1, Fields, BaseFields, AddAside
        <4>3. Aside(h, req'[q])
          BY <3>3, <4>1
        <4> QED BY <4>2, <4>3 DEF Aside, AddHandler
      <3> QED BY <1>2, <3>1, <3>2, <3>3, Bystanders
    <2>3. \A c \in confirmed' : Role(c.who)' = "user" => Covers(c.who, c.groups)'
      BY <1>2, ConfirmedStep
    <2> QED BY <2>1, <2>2, <2>3 DEF AddInv
  <1> QED BY <1>1, <1>2

\* Nothing settled is refused or left out by a refusal that is remembered.
LEMMA AddAlways == Spec => []AddInv
  <1>1. Init /\ [][Next]_vars /\ []BaseInv => []AddInv
    BY InitAdd, AddStep, PTL
  <1> QED BY <1>1, BaseAlways, PTL DEF Spec

\* An announced addition is seen on the very next request: no ordinary user is
\* refused a route that names a group they have held since before the request
\* began, unless the database failed the request.
THEOREM AdditionsReach == Spec => []AdditionReachesAnswers
  <1>1. AddInv => AdditionReachesAnswers
    BY DEF AddInv, AddHandler, AdditionReachesAnswers, At
  <1> QED BY <1>1, AddAlways, PTL

-----------------------------------------------------------------------------
(* Removals, announced by the handlers that make them *)

\* No feed fills a group, and the check of a new include finds nothing wrong. A
\* feed dates its announcements before its fetch, and an include that is undone
\* is not announced: with either, an answer may carry a group that was removed.
HandsOnly == FeedGroup = {} /\ ~ChecksFail

\* h is to announce the loss of x, at the time it was lost or later.
Losing(h, x) == x \in h.lost /\ (h.pc \in {"includeCheck", "markArg"} \/ removedAt[x] <= h.at)

\* The last loss of x is marked in memory, or will be.
InMemory(x) ==
    \/ removedAt[x] = 0 \/ removedAt[x] <= changedAt
    \/ \E q \in Proc : req[q].pc \in Unmarked \cup {"markDB", "markMemory"} /\ Losing(req[q], x)

\* The last loss of x is marked in the database, or will be, or is known not to be.
InDatabase(x) ==
    \/ removedAt[x] = 0 \/ removedAt[x] <= dbChanged \/ x \in unstored
    \/ \E q \in Proc : req[q].pc \in Unmarked \cup {"markDB"} /\ Losing(req[q], x)

\* What a request knows its person not to have held is not held, and the mark covers it.
Marked(h) ==
    \A g \in h.gone :
        /\ ~Held(<<h.sess.who, g>>)
        /\ removedAt[<<h.sess.who, g>>] = 0 \/ removedAt[<<h.sess.who, g>>] <= changedAt

\* Neither a new session nor an answer has a group its person is known not to have held.
RemHandler(h) ==
    /\ h.pc # "sync"
    /\ Marked(h)
    /\ h.pc = "renewIssue" => h.read \cap h.gone = {}
    /\ h.pc \in Answering => h.sess.groups \cap h.gone = {}
    /\ h.pc = "markMemory" => \A x \in adrift : ~Held(x) /\ removedAt[x] <= h.at => InDatabase(x)

\* Every lost membership is on its way to be marked, and known to be gone by who says so.
RemInv ==
    /\ \A x \in Pair : Held(x) \/ x \in adrift \/ (InMemory(x) /\ InDatabase(x))
    /\ \A p \in Proc : RemHandler(req[p])

\* The marks in memory and in the database only grow, until a restart.
LEMMA MarksGrow ==
    ASSUME TypeOK, [Next]_vars, ~Restart, NEW t \in Nat
    PROVE  (t <= changedAt => t <= changedAt') /\ (t <= dbChanged => t <= dbChanged')
  <1>0. /\ {changedAt, dbChanged} \subseteq Nat /\ \A p \in Proc : req[p].at \in Nat
    BY Fields DEF TypeOK
  <1>1. ASSUME NEW p \in Proc, Announces(p)
        PROVE  /\ changedAt' = changedAt \/ changedAt' = Later(req[p].at, changedAt)
               /\ dbChanged' = dbChanged \/ dbChanged' = Later(req[p].at, dbChanged)
    BY <1>1 DEF Announces, SyncBegin, IncludeStands, UndoFails, MarkArg, ForgetAll, MarkDB, MarkMemory, memory, db
  <1>2. ASSUME UNCHANGED <<changedAt, dbChanged>>
        PROVE  (t <= changedAt => t <= changedAt') /\ (t <= dbChanged => t <= dbChanged')
    BY <1>2
  <1>3. CASE Tick \/ RoutesChange \/ UNCHANGED vars
    <2>1. UNCHANGED <<changedAt, dbChanged>>
      BY <1>3 DEF Tick, RoutesChange, memory, db, vars
    <2> QED BY <1>2, <2>1
  <1>4. ASSUME NEW p \in Proc, Announces(p)
        PROVE  (t <= changedAt => t <= changedAt') /\ (t <= dbChanged => t <= dbChanged')
    BY <1>0, <1>1, <1>4 DEF Later
  <1>5. ASSUME NEW p \in Proc, Serves(p) \/ Changes(p)
        PROVE  UNCHANGED <<changedAt, dbChanged>>
    BY <1>5, ServesFrame, ChangesDo
  <1> QED BY <1>2, <1>3, <1>4, <1>5, NextCases

\* What a handler is to announce, it goes on having to until it has marked it, and
\* a membership that ends is announced by the handler that ends it.
LEMMA MarksStay ==
    ASSUME HandsOnly, BaseInv, \A p \in Proc : req[p].pc # "sync", [Next]_vars, ~Restart,
           NEW x \in Pair, ~Held(x)'
    PROVE  /\ Ends(x) \/ InMemory(x) => InMemory(x)'
           /\ Ends(x) \/ InDatabase(x) => InDatabase(x)'
  <1>0. /\ TypeOK /\ removedAt[x] \in Nat /\ removedAt[x] <= clock /\ {clock, changedAt, dbChanged} \subseteq Nat
        /\ \A p \in Proc : req[p] \in Handler
    BY Fields DEF BaseInv, TypeOK
  <1>m. /\ removedAt[x] <= changedAt => removedAt[x] <= changedAt'
        /\ removedAt[x] <= dbChanged => removedAt[x] <= dbChanged'
    BY <1>0, MarksGrow
  <1>a. ASSUME removedAt'[x] = removedAt[x], x \in unstored => x \in unstored', ~Ends(x),
               \A q \in Proc : req[q].pc \in Changing =>
                 req'[q].pc = req[q].pc /\ req'[q].lost = req[q].lost /\ req'[q].at = req[q].at
        PROVE  /\ Ends(x) \/ InMemory(x) => InMemory(x)'
               /\ Ends(x) \/ InDatabase(x) => InDatabase(x)'
    <2>1. ASSUME NEW q \in Proc, req[q].pc \in Changing, Losing(req[q], x)
          PROVE  Losing(req[q], x)' /\ req'[q].pc = req[q].pc
      BY <1>a, <2>1 DEF Losing
    <2>2. InMemory(x) => InMemory(x)'
      BY <1>a, <1>m, <2>1 DEF InMemory, Changing, Unmarked
    <2>3. InDatabase(x) => InDatabase(x)'
      BY <1>a, <1>m, <2>1 DEF InDatabase, Changing, Unmarked
    <2> QED BY <1>a, <2>2, <2>3
  <1>1. ASSUME NEW p \in Proc, Serves(p)
        PROVE  /\ Ends(x) \/ InMemory(x) => InMemory(x)'
               /\ Ends(x) \/ InDatabase(x) => InDatabase(x)'
    <2>1. /\ UNCHANGED <<direct, includes, unstored, removedAt>> /\ \A q \in Proc \ {p} : req'[q] = req[q]
          /\ req[p].pc \notin Changing
      BY <1>0, <1>1, ServesFrame, ServesHistory
    <2>2. ~Ends(x)
      BY <2>1, NoChange
    <2> QED BY <1>a, <2>1, <2>2
  <1>2. ASSUME NEW p \in Proc, Changes(p)
        PROVE  /\ Ends(x) \/ InMemory(x) => InMemory(x)'
               /\ Ends(x) \/ InDatabase(x) => InDatabase(x)'
    <2>1. /\ \A y \in Pair : removedAt'[y] = IF Ends(y) THEN clock ELSE removedAt[y]
          /\ unstored' = unstored /\ \A q \in Proc \ {p} : Aside(req[q], req'[q])
          /\ req[p].pc = "idle" /\ req'[p].pc \in {"includeCheck", "markArg"}
          /\ req'[p].lost = {y \in Pair : Ends(y)}
      BY <1>0, <1>2, ChangesDo DEF HandsOnly
    <2>2. CASE Ends(x)
      <3>1. Losing(req[p], x)'
        BY <2>1, <2>2 DEF Losing
      <3> QED BY <2>1, <3>1 DEF InMemory, InDatabase, Unmarked
    <2>3. CASE ~Ends(x)
      <3>1. removedAt'[x] = removedAt[x]
        BY <2>1, <2>3
      <3>2. \A q \in Proc : req[q].pc \in Changing =>
              req'[q].pc = req[q].pc /\ req'[q].lost = req[q].lost /\ req'[q].at = req[q].at
        BY <2>1 DEF Aside, Changing, Unmarked
      <3> QED BY <1>a, <2>1, <2>3, <3>1, <3>2
    <2> QED BY <2>2, <2>3
  <1>3. ASSUME NEW p \in Proc, Announces(p)
        PROVE  /\ Ends(x) \/ InMemory(x) => InMemory(x)'
               /\ Ends(x) \/ InDatabase(x) => InDatabase(x)'
    <2>1. UNCHANGED <<direct, includes, removedAt>> /\ \A q \in Proc \ {p} : req'[q] = req[q]
      BY <1>0, <1>3, AnnouncesFrame
    <2>2. ~Ends(x)
      BY <2>1, NoChange
    <2>0. req[p] \in Handler /\ req[p].at \in Nat
      BY <1>0, Fields
    <2>o. ASSUME NEW q \in Proc \ {p}, Losing(req[q], x)
          PROVE  Losing(req[q], x)' /\ req'[q].pc = req[q].pc
      BY <2>1, <2>o DEF Losing
    <2>3. CASE IncludeStands(p)
      <3>1. /\ req'[p] = [req[p] EXCEPT !.pc = "markArg"] /\ unstored' = unstored
        BY <1>0, <2>3, Becomes DEF IncludeStands, Goto, history
      <3>2. req'[p].pc = "markArg" /\ req'[p].lost = req[p].lost
        BY <2>0, <3>1 DEF Handler
      <3>3. Losing(req[p], x) => Losing(req[p], x)'
        BY <3>2 DEF Losing
      <3> QED BY <1>m, <2>1, <2>2, <2>o, <3>1, <3>2, <3>3 DEF InMemory, InDatabase, Unmarked
    <2>4. CASE MarkArg(p)
      <3>1. /\ req'[p] = [req[p] EXCEPT !.pc = "forget", !.at = clock] /\ unstored' = unstored
        BY <1>0, <2>4, Becomes DEF MarkArg, history
      <3>2. req'[p].pc = "forget" /\ req'[p].at = clock /\ req'[p].lost = req[p].lost
        BY <2>0, <3>1 DEF Handler
      <3>3. Losing(req[p], x) => Losing(req[p], x)'
        BY <1>0, <2>1, <3>2 DEF Losing
      <3> QED BY <1>m, <2>1, <2>2, <2>o, <3>1, <3>2, <3>3 DEF InMemory, InDatabase, Unmarked
    <2>5. CASE ForgetAll(p)
      <3>1. /\ req'[p] = [req[p] EXCEPT !.pc = "markDB"] /\ unstored' = unstored /\ req[p].pc = "forget"
        BY <1>0, <2>5, Becomes DEF ForgetAll, Goto, At
      <3>2. req'[p].pc = "markDB" /\ req'[p].at = req[p].at /\ req'[p].lost = req[p].lost
        BY <2>0, <3>1 DEF Handler
      <3>3. Losing(req[p], x) => Losing(req[p], x)'
        BY <2>1, <3>1, <3>2 DEF Losing
      <3> QED BY <1>m, <2>1, <2>2, <2>o, <3>1, <3>2, <3>3 DEF InMemory, InDatabase, Unmarked
    <2>6. CASE MarkDB(p)
      <3>1. /\ req'[p] = [req[p] EXCEPT !.pc = "markMemory"] /\ req[p].pc = "markDB"
            /\ \/ /\ dbChanged' = Later(req[p].at, dbChanged)
                  /\ unstored' = {y \in unstored : removedAt[y] > req[p].at}
               \/ unstored' = unstored \cup adrift \cup req[p].lost
        BY <1>0, <2>6, Becomes DEF MarkDB, Goto, At
      <3>2. req'[p].pc = "markMemory" /\ req'[p].at = req[p].at /\ req'[p].lost = req[p].lost
        BY <2>0, <3>1 DEF Handler
      <3>3. Losing(req[p], x) => Losing(req[p], x)'
        BY <2>1, <3>1, <3>2 DEF Losing
      <3>4. InMemory(x) => InMemory(x)'
        BY <1>m, <2>1, <2>o, <3>2, <3>3 DEF InMemory, Unmarked
      <3>5. Losing(req[p], x) => removedAt[x] <= dbChanged' \/ x \in unstored'
        BY <1>0, <2>0, <3>1 DEF Losing, Later
      <3>6. x \in unstored => removedAt[x] <= dbChanged' \/ x \in unstored'
        BY <1>0, <2>0, <3>1 DEF Later
      <3>7. InDatabase(x) => InDatabase(x)'
        BY <1>m, <2>1, <2>o, <3>5, <3>6 DEF InDatabase, Unmarked
      <3> QED BY <2>2, <3>4, <3>7
    <2>7. CASE MarkMemory(p)
      <3>1. /\ req[p].pc = "markMemory" /\ changedAt' = Later(req[p].at, changedAt) /\ unstored' = unstored
        BY <2>7 DEF MarkMemory, At
      <3>2. Losing(req[p], x) => removedAt[x] <= changedAt'
        BY <1>0, <2>0, <3>1 DEF Losing, Later
      <3>3. InMemory(x) => InMemory(x)'
        BY <1>m, <2>1, <2>o, <3>2 DEF InMemory, Unmarked
      <3>4. InDatabase(x) => InDatabase(x)'
        BY <1>m, <2>1, <2>o, <3>1 DEF InDatabase, Unmarked
      <3> QED BY <2>2, <3>3, <3>4
    <2> QED BY <1>3, <2>3, <2>4, <2>5, <2>6, <2>7 DEF Announces, HandsOnly, SyncBegin, UndoFails
  <1>4. CASE Tick \/ UNCHANGED vars
    <2>1. UNCHANGED <<direct, includes, unstored, removedAt, req>>
      BY <1>4 DEF Tick, vars, db, history
    <2>2. ~Ends(x)
      BY <2>1, NoChange
    <2> QED BY <1>a, <2>1, <2>2
  <1>5. CASE RoutesChange
    <2>1. /\ UNCHANGED <<direct, includes, unstored, removedAt>>
          /\ req' = [p \in Proc |-> [req[p] EXCEPT !.bar = @ \cap AppRoleGroups']]
      BY <1>5 DEF RoutesChange, db, history
    <2>2. ASSUME NEW q \in Proc
          PROVE  req'[q].pc = req[q].pc /\ req'[q].lost = req[q].lost /\ req'[q].at = req[q].at
      <3>1. req[q] \in Handler /\ req'[q] = [req[q] EXCEPT !.bar = @ \cap AppRoleGroups']
        BY <1>0, <2>1
      <3> QED BY <3>1 DEF Handler
    <2>3. ~Ends(x)
      BY <2>1, NoChange
    <2> QED BY <1>a, <2>1, <2>2, <2>3
  <1> QED BY <1>1, <1>2, <1>3, <1>4, <1>5, NextCases

\* A cookie that is not due carries nothing its person has lost since the mark.
LEMMA MarkedIsGone ==
    ASSUME BaseInv, NEW h \in Handler, HandlerOK(h), h.pc = "verifyRead", HeldHandler(h), RemHandler(h),
           h.sess.kind # "other", ~NeedsRenew(h.sess, h.now), ~GroupsStale(h.sess)
    PROVE  h.sess.groups \cap h.gone = {}
  <1>0. /\ h.gone \subseteq Group /\ h.sess \in Session /\ h.now \in Nat /\ {Start, RenewAfter, changedAt} \subseteq Nat
        /\ \A x \in Pair : removedAt[x] \in Nat
    BY Constants DEF BaseInv, TypeOK, Handler
  <1>1. h.sess.kind \in {"normal", "guest", "card", "other"} /\ h.sess.iat \in Nat
    BY <1>0 DEF Session
  <1>2. CASE h.sess.kind = "card"
    BY <1>2, Constants DEF HandlerOK
  <1>3. CASE h.sess.kind \in Kinds
    <2>1. /\ h.sess.who \in Person /\ CookieOK(h.sess) /\ HeldCookie(h.sess) /\ Start <= h.now
      BY <1>3 DEF HandlerOK, HeldHandler, Reading, Serving
    <2>2. h.now <= h.sess.iat + RenewAfter
      BY <1>0, <1>1, <1>3 DEF NeedsRenew, Kinds
    <2>3. ~Old(h.sess)
      BY <1>0, <1>1, <2>1, <2>2 DEF Old
    <2>4. HeldUntil(h.sess.who, h.sess.groups, h.sess.iat) /\ Start <= h.sess.iat
      BY <1>3, <2>1, <2>3 DEF HeldCookie, CookieOK
    <2>5. changedAt = 0 \/ changedAt < h.sess.iat
      BY <1>0, <1>1, <1>3 DEF GroupsStale, Kinds
    <2>6. ASSUME NEW g \in h.sess.groups, g \in h.gone
          PROVE  FALSE
      <3>1. PICK t : t = removedAt[<<h.sess.who, g>>]
        OBVIOUS
      <3>2. t \in Nat /\ (t = 0 \/ t <= changedAt) /\ h.sess.iat <= t
        <4>1. <<h.sess.who, g>> \in Pair /\ g \in Group
          BY <1>0, <2>1, <2>6 DEF Pair
        <4>2. Marked(h)
          BY DEF RemHandler
        <4>3. ~Held(<<h.sess.who, g>>) /\ (t = 0 \/ t <= changedAt)
          BY <2>6, <3>1, <4>2 DEF Marked
        <4>4. h.sess.iat <= t
          BY <2>4, <2>6, <3>1, <4>1, <4>3 DEF HeldUntil
        <4> QED BY <1>0, <3>1, <4>1, <4>3, <4>4
      <3> QED BY <1>0, <1>1, <2>4, <2>5, <3>2, Constants
    <2> QED BY <2>6
  <1> QED BY <1>1, <1>2, <1>3 DEF Kinds

\* Each step that answers people leaves out what its person is known not to have held.
LEMMA ServesRem ==
    ASSUME BaseInv, HeldInv, RemInv, NEW p \in Proc, Serves(p)
    PROVE  RemHandler(req'[p])
  <1> DEFINE h == req[p]
             Plain(k) == k.pc \notin Answering \cup {"sync", "renewIssue", "markMemory"}
  <1>0. /\ TypeOK /\ HandlerOK(h) /\ h \in Handler /\ h.sess \in Session
        /\ RemHandler(h) /\ HeldHandler(h) /\ h.gone \subseteq Group
        /\ h.pc \in Sitting => h.sess.kind \in Kinds /\ h.sess.who \in Person
    BY BaseFields, Fields DEF RemInv, HeldInv
  <1>g. Marked(req'[p])
    <2>1. ASSUME NEW s \in cookies, NEW r \in Routes, VerifyBegin(p, s, r)
          PROVE  Marked(req'[p])
      <3>1. /\ req'[p].sess = s /\ (req'[p].gone # {} => s.who \in Person)
            /\ \A g \in req'[p].gone : g \in Group /\ <<s.who, g>> \notin Pending /\ ~Held(<<s.who, g>>)
        BY <1>0, <2>1, VerifyBeginDoes
      <3>2. ASSUME NEW x \in Pair, x \notin Pending, ~Held(x)
            PROVE  removedAt[x] = 0 \/ removedAt[x] <= changedAt
        <4>1. x \notin adrift /\ \A q \in Proc : ~Losing(req[q], x)
          BY <3>2 DEF Pending, Losing
        <4> QED BY <3>2, <4>1 DEF RemInv, InMemory
      <3>3. ASSUME NEW g \in req'[p].gone
            PROVE  /\ ~Held(<<s.who, g>>)
                   /\ removedAt[<<s.who, g>>] = 0 \/ removedAt[<<s.who, g>>] <= changedAt
        <4>1. <<s.who, g>> \in Pair
          BY <3>1, <3>3 DEF Pair
        <4> QED BY <3>1, <3>2, <3>3, <4>1
      <3> QED BY <3>1, <3>3 DEF Marked
    <2>2. CASE /\ req'[p].gone \subseteq h.gone
               /\ req'[p].had # {} \/ req'[p].gone # {} => req'[p].sess.who = h.sess.who
      <3>1. Marked(h)
        BY <1>0 DEF RemHandler
      <3> QED BY <2>2, <3>1 DEF Marked
    <2> QED BY <2>1, <2>2, ServesHistory
  <1>p. Plain(req'[p]) => RemHandler(req'[p])
    BY <1>g DEF RemHandler, Answering
  <1>a. req'[p].pc \in Answering /\ req'[p].sess.groups \cap req'[p].gone = {} => RemHandler(req'[p])
    BY <1>g DEF RemHandler, Answering
  <1>r. req'[p].pc = "renewIssue" /\ req'[p].read \cap req'[p].gone = {} => RemHandler(req'[p])
    BY <1>g DEF RemHandler, Answering
  <1> USE DEF Answering
  <1>c. req'[p] = Idle => Plain(req'[p])
    BY IdleOK
  <1>w. ASSUME NEW G, NEW all, WorkedOut(h.sess, G, all), h.sess.kind \in Kinds, h.sess.who \in Person,
               RenewalRole(h.sess) # "deny"
        PROVE  G \cap h.gone = {}
    <2>1. clock \in Nat /\ clock <= clock /\ policy \in Policies /\ routes \in RouteFiles
      BY <1>0 DEF TypeOK
    <2>2. G \cap Group \subseteq GroupsForEmail(h.sess.who)
      BY <1>0, <1>w, <2>1, WorkedOutFits
    <2>3. Marked(h)
      BY <1>0 DEF RemHandler
    <2> QED BY <1>0, <2>2, <2>3 DEF Marked, Held
  <1>1. ASSUME NEW s \in cookies, NEW r \in Routes, VerifyBegin(p, s, r)
        PROVE  Plain(req'[p])
    <2>1. req'[p].pc = "verifyRead"
      BY <1>0, <1>1, VerifyBeginDoes
    <2> QED BY <2>1
  <1>2. ASSUME NEW s \in cookies, StepUpBegin(p, s)
        PROVE  Plain(req'[p])
    <2>1. req'[p].pc = "stepRead"
      BY <1>0, <1>2, StepUpBeginDoes
    <2> QED BY <2>1
  <1>3. ASSUME NEW s \in cookies, AdminBegin(p, s)
        PROVE  Plain(req'[p])
    <2>1. req'[p].pc = "adminRead"
      BY <1>0, <1>3, AdminBeginDoes
    <2> QED BY <2>1
  <1>4. ASSUME NEW w \in Person, NEW open \in BOOLEAN, NEW stepped \in BOOLEAN, LoginBegin(p, w, open, stepped)
        PROVE  Plain(req'[p])
    BY <1>0, <1>4, LoginBeginDoes
  <1>5. CASE VerifyRead(p)
    <2>1. /\ h.pc = "verifyRead"
          /\ \/ req'[p] = Idle
             \/ req'[p].pc = "renewRead"
             \/ /\ req'[p].pc = "decide" /\ req'[p].sess = h.sess /\ req'[p].gone = h.gone
                /\ h.sess.kind # "other" /\ ~NeedsRenew(h.sess, h.now) /\ ~GroupsStale(h.sess)
      BY <1>0, <1>5, VerifyReadDoes DEF Onward
    <2>2. CASE req'[p] = Idle \/ req'[p].pc = "renewRead"
      BY <1>c, <1>p, <2>2
    <2>3. CASE ~(req'[p] = Idle \/ req'[p].pc = "renewRead")
      <3>1. h.sess.groups \cap h.gone = {}
        BY <1>0, <2>1, <2>3, MarkedIsGone
      <3> QED BY <1>a, <2>1, <2>3, <3>1
    <2> QED BY <2>2, <2>3
  <1>6. CASE RenewRead(p)
    <2>1. h.pc = "renewRead"
      BY <1>6 DEF RenewRead, At
    <2>2. \/ req'[p] = Idle
          \/ /\ RenewalRole(h.sess) # "deny" /\ req'[p].gone = h.gone
             /\ req'[p].pc = "renewIssue" /\ WorkedOut(h.sess, req'[p].read, ~req'[p].failed)
      BY <1>0, <1>6, <2>1, RenewReadDoes DEF Sitting, Onward
    <2>3. CASE ~(req'[p] = Idle)
      <3>1. PICK G, all : G = req'[p].read /\ WorkedOut(h.sess, G, all)
        BY <2>2, <2>3
      <3>2. G \cap h.gone = {}
        BY <1>0, <1>w, <2>1, <2>2, <2>3, <3>1 DEF Sitting
      <3> QED BY <1>r, <2>2, <2>3, <3>1, <3>2
    <2> QED BY <1>c, <1>p, <2>3
  <1>7. CASE RenewIssue(p)
    <2>1. /\ h.pc = "renewIssue" /\ req'[p].gone = h.gone /\ req'[p].sess.groups = h.read
          /\ req'[p].pc \in {"adminDecide", "decide"}
      BY <1>0, <1>7, RenewIssueDoes DEF Onward
    <2>2. h.read \cap h.gone = {}
      BY <1>0, <2>1 DEF RemHandler
    <2> QED BY <1>a, <1>p, <2>1, <2>2
  <1>8. CASE Decide(p)
    <2>1. /\ h.pc = "decide"
          /\ \/ req'[p] = Idle
             \/ /\ req'[p].gone = h.gone /\ req'[p].pc \in {"ok", "denied", "recheck"}
                /\ req'[p].sess.groups = IF h.why = "refused" THEN h.sess.groups ELSE GuestGroupsNow(h.sess)
      BY <1>0, <1>8, DecideDoes DEF Onward
    <2>2. req'[p] # Idle => req'[p].sess.groups \subseteq h.sess.groups
      BY <2>1 DEF GuestGroupsNow, WithoutAppRolesForOutsider
    <2>3. h.sess.groups \cap h.gone = {}
      BY <1>0, <2>1 DEF RemHandler
    <2> QED BY <1>a, <1>c, <1>p, <2>1, <2>2, <2>3
  <1>9. CASE Recheck(p)
    <2>1. h.pc = "recheck"
      BY <1>9 DEF Recheck, At
    <2>2. \/ req'[p] = Idle
          \/ req'[p].gone = h.gone /\ req'[p].sess = h.sess /\ req'[p].pc \in {"denied", "confirm"}
          \/ /\ RenewalRole(h.sess) # "deny" /\ req'[p].gone = h.gone
             /\ req'[p].pc = "renewIssue" /\ WorkedOut(h.sess, req'[p].read, TRUE)
      BY <1>0, <1>9, <2>1, RecheckDoes DEF Sitting, Onward
    <2>3. CASE req'[p].gone = h.gone /\ req'[p].sess = h.sess /\ req'[p].pc \in {"denied", "confirm"}
      <3>1. h.sess.groups \cap h.gone = {}
        BY <1>0, <2>1 DEF RemHandler
      <3> QED BY <1>a, <2>3, <3>1
    <2>4. CASE /\ RenewalRole(h.sess) # "deny" /\ req'[p].gone = h.gone
               /\ req'[p].pc = "renewIssue" /\ WorkedOut(h.sess, req'[p].read, TRUE)
      <3>1. PICK G, all : G = req'[p].read /\ WorkedOut(h.sess, G, all)
        BY <2>4
      <3>2. G \cap h.gone = {}
        BY <1>0, <1>w, <2>1, <2>4, <3>1 DEF Sitting
      <3> QED BY <1>r, <2>4, <3>1, <3>2
    <2> QED BY <1>c, <1>p, <2>2, <2>3, <2>4
  <1>10. CASE Confirm(p)
    <2>1. h.pc = "confirm" /\ req'[p].gone = h.gone /\ req'[p].sess = h.sess /\ req'[p].pc = "denied"
      BY <1>0, <1>10, ConfirmDoes DEF Onward
    <2>2. h.sess.groups \cap h.gone = {}
      BY <1>0, <2>1 DEF RemHandler
    <2> QED BY <1>a, <2>1, <2>2
  <1>11. CASE Finish(p) \/ LoginIssue(p) \/ StepUpIssue(p)
    BY <1>0, <1>c, <1>p, <1>11, FinishDoes, IssueDoes
  <1>12. CASE LoginRead(p)
    <2>1. h.pc = "loginRead"
      BY <1>12 DEF LoginRead, At
    <2>2. h.sess.kind = "normal" => Role(h.sess.who) # "deny"
      BY <1>0, <2>1 DEF HandlerOK
    <2>3. req'[p].pc = "loginIssue"
      BY <1>0, <1>12, <2>1, <2>2, LoginReadDoes DEF Sitting
    <2> QED BY <1>p, <2>3
  <1>13. CASE StepUpRead(p)
    <2>1. h.pc = "stepRead"
      BY <1>13 DEF StepUpRead, At
    <2>2. req'[p].pc = "stepIssue"
      BY <1>0, <1>13, <2>1, StepUpReadDoes DEF Sitting
    <2> QED BY <1>p, <2>2
  <1>14. CASE AdminRead(p) \/ AdminDecide(p)
    <2>1. req'[p] = Idle \/ req'[p].pc \in {"page", "renewRead"}
      BY <1>0, <1>14, AdminDoes
    <2> QED BY <1>c, <1>p, <2>1
  <1> QED
    BY <1>p, <1>1, <1>2, <1>3, <1>4, <1>5, <1>6, <1>7, <1>8, <1>9, <1>10, <1>11, <1>12, <1>13, <1>14 DEF Serves

\* What a handler may assume, put aside while the marks grow and nothing comes to
\* be adrift.
LEMMA RemAside ==
    ASSUME HandsOnly, BaseInv, RemInv, [Next]_vars, ~Restart,
           NEW h \in Handler, RemHandler(h), HandlerOK(h),
           NEW k, Aside(h, k),
           \A w \in Person, g \in Group : w = h.sess.who => (g \in k.gone => ~Begins(<<w, g>>))
    PROVE  RemHandler(k)'
  <1>0. /\ TypeOK /\ \A p \in Proc : req[p].pc # "sync"
        /\ h.gone \subseteq Group /\ k.gone \subseteq h.gone /\ (h.gone # {} => h.sess.who \in Person)
        /\ k.sess = h.sess /\ k.pc = h.pc /\ k.read = h.read /\ k.at = h.at
    BY DEF BaseInv, RemInv, RemHandler, Handler, HandlerOK, Aside
  <1>1. ASSUME NEW x \in Pair, ~Held(x)
        PROVE  removedAt'[x] = removedAt[x]
    <2>1. ASSUME NEW p \in Proc, Changes(p)
          PROVE  removedAt'[x] = removedAt[x]
      BY <1>0, <1>1, <2>1, ChangesDo DEF Ends
    <2> QED BY <1>0, <2>1, NextCases, ServesFrame, AnnouncesFrame DEF Tick, RoutesChange, history, vars
  <1>2. ASSUME NEW g \in k.gone
        PROVE  /\ ~Held(<<h.sess.who, g>>)'
               /\ removedAt'[<<h.sess.who, g>>] = 0 \/ removedAt'[<<h.sess.who, g>>] <= changedAt'
    <2>1. PICK x : x = <<h.sess.who, g>>
      OBVIOUS
    <2>2. x \in Pair /\ ~Begins(x)
      BY <1>0, <1>2, <2>1 DEF Pair
    <2>3. ~Held(x) /\ (removedAt[x] = 0 \/ removedAt[x] <= changedAt) /\ removedAt[x] \in Nat
      <3>1. Marked(h) /\ g \in h.gone
        BY <1>0, <1>2 DEF RemHandler
      <3> QED BY <1>0, <2>1, <2>2, <3>1 DEF Marked, TypeOK
    <2>4. ~Held(x)' /\ removedAt'[x] = removedAt[x]
      BY <1>1, <2>2, <2>3 DEF Begins
    <2>5. removedAt'[x] = 0 \/ removedAt'[x] <= changedAt'
      BY <1>0, <2>3, <2>4, MarksGrow
    <2>6. ~Held(<<h.sess.who, g>>)'
      BY <2>1, <2>4
    <2> QED BY <2>1, <2>5, <2>6
  <1>3. ASSUME h.pc = "markMemory", NEW x \in adrift', ~Held(x)', removedAt'[x] <= h.at
        PROVE  InDatabase(x)'
    <2>1. x \in adrift
      <3>1. ASSUME NEW p \in Proc, Announces(p)
            PROVE  adrift' \subseteq adrift
        BY <3>1 DEF Announces, SyncBegin, IncludeStands, UndoFails, MarkArg, ForgetAll, MarkDB, MarkMemory,
                    history, HandsOnly
      <3>2. ASSUME NEW p \in Proc, Changes(p)
            PROVE  adrift' = adrift
        BY <1>0, <3>2, ChangesDo DEF HandsOnly
      <3> QED BY <1>0, <1>3, <3>1, <3>2, NextCases, ServesFrame DEF Tick, RoutesChange, history, vars
    <2>2. x \in Pair
      BY <1>0, <2>1 DEF TypeOK
    <2>3. CASE Held(x)
      BY <1>0, <1>3, <2>2, <2>3, MarksStay DEF Ends
    <2>4. CASE ~Held(x)
      <3>1. InDatabase(x)
        BY <1>1, <1>3, <2>1, <2>2, <2>4 DEF RemHandler
      <3> QED BY <1>0, <1>3, <2>2, <3>1, MarksStay
    <2> QED BY <2>3, <2>4
  <1>4. h.pc = "renewIssue" => k.read \cap k.gone = {}
    BY <1>0 DEF RemHandler
  <1>5. h.pc \in Answering => k.sess.groups \cap k.gone = {}
    BY <1>0 DEF RemHandler
  <1>6. h.pc # "sync"
    BY DEF RemHandler
  <1> QED BY <1>0, <1>2, <1>3, <1>4, <1>5, <1>6 DEF RemHandler, Marked

\* A handler that writes the mark to the database leaves only losses that are in it,
\* or known not to be.
LEMMA MarkDBLeaves ==
    ASSUME TypeOK, NEW p \in Proc, MarkDB(p), NEW x \in adrift, removedAt[x] <= req'[p].at
    PROVE  InDatabase(x)'
  <1>0. /\ req[p] \in Handler /\ req[p].at \in Nat /\ dbChanged \in Nat /\ removedAt[x] \in Nat
    BY Fields DEF TypeOK
  <1>1. /\ req'[p] = [req[p] EXCEPT !.pc = "markMemory"] /\ removedAt' = removedAt
        /\ \/ dbChanged' = Later(req[p].at, dbChanged)
           \/ unstored' = unstored \cup adrift \cup req[p].lost
    BY Becomes DEF MarkDB, Goto
  <1>2. req'[p].at = req[p].at
    BY <1>0, <1>1 DEF Handler
  <1>3. removedAt'[x] <= dbChanged' \/ x \in unstored'
    BY <1>0, <1>1, <1>2 DEF Later
  <1> QED BY <1>3 DEF InDatabase

\* Nothing was removed at the start.
LEMMA InitRem == Init => RemInv
  <1> SUFFICES ASSUME Init PROVE RemInv
    OBVIOUS
  <1>1. \A x \in Pair : InMemory(x) /\ InDatabase(x)
    BY DEF Init, InMemory, InDatabase
  <1>2. RemHandler(Idle)
    BY IdleOK DEF RemHandler, Marked, Answering
  <1> QED BY <1>1, <1>2 DEF Init, RemInv

\* A restart reads the mark from the database: what is not in it is adrift.
LEMMA RestartRem ==
    ASSUME BaseInv, RemInv, Restart
    PROVE  RemInv'
  <1>1. /\ UNCHANGED <<direct, includes, dbChanged, removedAt>> /\ changedAt' = dbChanged
        /\ adrift' = adrift \cup unstored \cup UNION {req[p].lost : p \in Proc}
        /\ \A p \in Proc : req'[p] = Idle
    BY DEF Restart, db
  <1>2. ASSUME NEW x \in Pair, ~Held(x)', x \notin adrift'
        PROVE  InMemory(x)' /\ InDatabase(x)'
    <2>1. ~Held(x) /\ x \notin adrift /\ x \notin unstored /\ \A q \in Proc : ~Losing(req[q], x)
      BY <1>1, <1>2, NoChange DEF Losing
    <2>2. InDatabase(x)
      BY <2>1 DEF RemInv
    <2>3. removedAt[x] = 0 \/ removedAt[x] <= dbChanged
      BY <2>1, <2>2 DEF InDatabase
    <2> QED BY <1>1, <2>3 DEF InMemory, InDatabase
  <1>3. \A p \in Proc : RemHandler(req[p])'
    BY <1>1, IdleOK DEF RemHandler, Marked, Answering
  <1> QED BY <1>2, <1>3 DEF RemInv

\* Every loss is held by the handler that will mark it, marked, or adrift.
LEMMA RemStep == HandsOnly /\ BaseInv /\ BaseInv' /\ HeldInv /\ RemInv /\ [Next]_vars => RemInv'
  <1> SUFFICES ASSUME HandsOnly, BaseInv, BaseInv', HeldInv, RemInv, [Next]_vars, ~Restart
               PROVE  RemInv'
    BY RestartRem
  <1>0. /\ TypeOK /\ TypeOK'
        /\ \A p \in Proc : RemHandler(req[p]) /\ HandlerOK(req[p]) /\ req[p].pc # "sync"
    BY DEF BaseInv, RemInv, RemHandler
  <1>1. ASSUME NEW x \in Pair, ~Held(x)', x \notin adrift'
        PROVE  InMemory(x)' /\ InDatabase(x)'
    <2>1. CASE Held(x)
      BY <1>0, <1>1, <2>1, MarksStay DEF Ends
    <2>2. CASE ~Held(x) /\ x \notin adrift
      BY <1>0, <1>1, <2>2, MarksStay DEF RemInv
    <2>3. CASE ~Held(x) /\ x \in adrift
      <3>1. PICK p \in Proc : MarkMemory(p) /\ removedAt[x] <= req[p].at
        <4>1. ASSUME NEW p \in Proc, Announces(p), ~MarkMemory(p)
              PROVE  x \in adrift'
          BY <2>3, <4>1 DEF Announces, SyncBegin, IncludeStands, UndoFails, MarkArg, ForgetAll, MarkDB, history
        <4>2. ASSUME NEW p \in Proc, MarkMemory(p)
              PROVE  removedAt[x] <= req[p].at
          <5>1. adrift' = {y \in adrift : Held(y) \/ removedAt[y] > req[p].at}
            BY <4>2 DEF MarkMemory
          <5>2. removedAt[x] \in Nat /\ req[p].at \in Nat
            BY <1>0, Fields DEF TypeOK
          <5> QED BY <1>1, <2>3, <5>1, <5>2
        <4>3. ASSUME NEW p \in Proc, Changes(p)
              PROVE  x \in adrift'
          BY <1>0, <2>3, <4>3, ChangesDo DEF HandsOnly
        <4> QED
          BY <1>0, <1>1, <2>3, <4>1, <4>2, <4>3, NextCases, ServesFrame
             DEF Tick, RoutesChange, history, vars, Announces
      <3>2. /\ req[p].pc = "markMemory" /\ changedAt' = Later(req[p].at, changedAt) /\ removedAt' = removedAt
            /\ removedAt[x] \in Nat /\ req[p].at \in Nat /\ changedAt \in Nat
        BY <1>0, <3>1, Fields DEF MarkMemory, At, TypeOK
      <3>3. InMemory(x)'
        BY <3>1, <3>2 DEF Later, InMemory
      <3>4. InDatabase(x)
        BY <1>0, <2>3, <3>1, <3>2 DEF RemHandler
      <3>5. InDatabase(x)'
        BY <1>0, <1>1, <3>4, MarksStay
      <3> QED BY <3>3, <3>5
    <2> QED BY <2>1, <2>2, <2>3
  <1>2. ASSUME NEW q \in Proc
        PROVE  RemHandler(req[q])'
    <2>1. CASE Serves(q)
      <3>1. PICK k : k = req'[q]
        OBVIOUS
      <3>2. RemHandler(k)
        BY <2>1, <3>1, ServesRem
      <3>3. UNCHANGED <<direct, includes, changedAt, removedAt, adrift>>
        BY <1>0, <2>1, ServesFrame
      <3>4. RemHandler(k)'
        <4>1. Marked(k)'
          BY <3>2, <3>3, NoChange DEF RemHandler, Marked
        <4>2. ASSUME k.pc = "markMemory", NEW x \in adrift, ~Held(x)', removedAt[x] <= k.at
              PROVE  InDatabase(x)'
          <5>1. InDatabase(x)
            BY <3>2, <3>3, <4>2, NoChange DEF RemHandler
          <5> QED BY <1>0, <4>2, <5>1, MarksStay DEF TypeOK
        <4> QED BY <3>2, <3>3, <4>1, <4>2 DEF RemHandler
      <3> QED BY <3>1, <3>4
    <2>2. CASE /\ Aside(req[q], req'[q])
               /\ \A w \in Person, g \in Group : w = req[q].sess.who =>
                    (g \in req'[q].gone => ~Begins(<<w, g>>))
      <3>1. PICK k : k = req'[q]
        OBVIOUS
      <3>2. RemHandler(k)'
        BY <1>0, <2>2, <3>1, RemAside, Fields
      <3> QED BY <3>1, <3>2
    <2>3. CASE Changes(q) /\ req'[q].gone = {}
      <3>1. req'[q] = Idle \/ req'[q].pc \in {"includeCheck", "markArg"}
        BY <1>0, <2>3, ChangesDo
      <3> QED BY <2>3, <3>1, IdleOK DEF RemHandler, Marked, Answering
    <2>4. CASE Announces(q) /\ req'[q].gone = {}
      <3>1. req[q] \in Handler
        BY <1>0, Fields
      <3>2. CASE MarkDB(q)
        <4>1. req'[q].pc = "markMemory" /\ adrift' = adrift /\ removedAt' = removedAt
          BY <1>0, <3>1, <3>2, Becomes DEF MarkDB, Goto, Handler
        <4>2. PICK t : t = req'[q].at
          OBVIOUS
        <4>3. \A x \in adrift : removedAt[x] <= t => InDatabase(x)'
          BY <1>0, <3>2, <4>2, MarkDBLeaves
        <4> QED BY <2>4, <4>1, <4>2, <4>3 DEF RemHandler, Marked, Answering
      <3>3. CASE ~MarkDB(q)
        <4>1. req'[q] = Idle \/ req'[q].pc \in {"markArg", "forget", "markDB"}
          <5>1. CASE MarkMemory(q)
            BY <1>0, <5>1, Becomes DEF MarkMemory, Stop
          <5>2. CASE IncludeStands(q) \/ ForgetAll(q)
            <6>1. PICK pc \in {"markArg", "markDB"} : req'[q] = [req[q] EXCEPT !.pc = pc]
              BY <1>0, <5>2, Becomes DEF IncludeStands, ForgetAll, Goto
            <6> QED BY <3>1, <6>1 DEF Handler
          <5>3. CASE MarkArg(q)
            <6>1. req'[q] = [req[q] EXCEPT !.pc = "forget", !.at = clock]
              BY <1>0, <5>3, Becomes DEF MarkArg
            <6> QED BY <3>1, <6>1 DEF Handler
          <5> QED BY <2>4, <3>3, <5>1, <5>2, <5>3 DEF Announces, HandsOnly, SyncBegin, UndoFails
        <4> QED BY <2>4, <4>1, IdleOK DEF RemHandler, Marked, Answering
      <3> QED BY <3>2, <3>3
    <2> QED BY <2>1, <2>2, <2>3, <2>4, Bystanders
  <1> QED BY <1>1, <1>2 DEF RemInv

\* An announced removal reaches every later request, where administrators change
\* memberships by hand: no request is answered with a group its person has not
\* held since it began, whatever is announced, lost or restarted meanwhile.
THEOREM RemovalsReach == ASSUME HandsOnly PROVE Spec => []RemovalReachesAnswers
  <1>1. Init => RemInv
    BY InitRem
  <1>2. BaseInv /\ BaseInv' /\ HeldInv /\ RemInv /\ [Next]_vars => RemInv'
    BY RemStep
  <1>3. RemInv => RemovalReachesAnswers
    BY DEF RemInv, RemHandler, Answering, RemovalReachesAnswers, At
  <1> QED BY <1>1, <1>2, <1>3, BaseAlways, HeldAlways, PTL DEF Spec
=============================================================================
