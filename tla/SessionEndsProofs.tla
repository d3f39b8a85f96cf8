-------------------------- MODULE SessionEndsProofs --------------------------
(***************************************************************************)
(* Theorems about SessionEnds, for any number of handlers, people,         *)
(* passkeys, cards and cookies, and any lifetimes.                         *)
(***************************************************************************)
EXTENDS SessionEnds, TLAPS

-----------------------------------------------------------------------------
(* The values handlers carry are of their types *)

\* The empty handler and the empty session are of their types.
LEMMA IdleType == NoSession \in Session /\ Idle \in Handler /\ ReadyForNextStep(Idle)
  BY DEF NoSession, Session, Idle, Handler, Kind, PC, Op, ReadyForNextStep

\* completeLogin and handlePasskeyLogin build a session identity.
LEMMA NormalSessionType ==
  ASSUME NEW w \in Person, NEW now \in Nat, NEW ttl \in Nat, NEW k \in Passkey \cup {None}
  PROVE  NormalSession(w, now, ttl, k) \in Session
  BY DEF NormalSession, Session, Kind

\* grantBreakGlass builds a session identity.
LEMMA CardSessionType ==
  ASSUME NEW c \in Card, NEW g \in Nat, NEW now \in Nat
  PROVE  CardSession(c, g, now) \in Session
  BY ConstantsAssumption DEF CardSession, Session, Kind

\* renewSessionWith and stepUpSession keep a session identity one.
LEMMA RenewedType ==
  ASSUME NEW s \in Session, NEW now \in Nat
  PROVE  Renewed(s, now) \in Session
  BY DEF Renewed, Session

\* The lifetimes a sign-in chooses from, and every key, are of their types.
LEMMA LifetimeType == SessionTTLs \subseteq Nat
  BY ConstantsAssumption

\* Recording a cutoff only ever moves it forward (EndSessionsBefore, endSessions).
LEMMA RaiseType ==
  ASSUME NEW c \in [Key -> Nat], NEW k \in Key, NEW t \in Nat
  PROVE  /\ Raise(c, k, t) \in [Key -> Nat]
         /\ \A j \in Key : c[j] <= Raise(c, k, t)[j]
         /\ t <= Raise(c, k, t)[k]
  BY DEF Raise, Later

\* One handler moving to a well-formed state leaves all of them well formed.
LEMMA BecomeType ==
  ASSUME TypeOK, NEW p \in Proc, NEW h \in Handler, ReadyForNextStep(h), Become(p, h)
  PROVE  req' \in [Proc -> Handler] /\ \A q \in Proc : ReadyForNextStep(req'[q])
  BY DEF TypeOK, Become

\* Issuing a session adds at most that session to the cookies.
LEMMA IssueType ==
  ASSUME TypeOK, NEW s \in Session, IssueSession(s)
  PROVE  cookies' \subseteq Session
  BY DEF TypeOK, IssueSession
-----------------------------------------------------------------------------
(* Type correctness *)

\* A handler that only moves on, stops, or picks its next key stays well formed.
LEMMA GotoType ==
  ASSUME TypeOK, NEW p \in Proc,
         NEW pc \in PC \ {"endDB", "endMemory", "grantLookup"}
  PROVE  LET h == [req[p] EXCEPT !.pc = pc] IN h \in Handler /\ ReadyForNextStep(h)
  BY DEF TypeOK, Handler, ReadyForNextStep

\* The signed-in session a request was given is a session.
LEMMA HandlerType ==
  ASSUME TypeOK, NEW p \in Proc
  PROVE  /\ req[p] \in Handler /\ ReadyForNextStep(req[p])
         /\ req[p].sess \in Session /\ req[p].now \in Nat /\ req[p].at \in Nat
         /\ req[p].gen \in Nat /\ req[p].todo \subseteq Key
         /\ req[p].key \in Key \cup {None}
  BY DEF TypeOK, Handler

\* The steps of the request handlers keep every handler well formed and issue
\* only sessions (handleVerify, completeLogin, handlePasskeyLogin,
\* handleBreakGlass, handleTOTP, handleLogout).
LEMMA BeginType ==
  ASSUME TypeOK, NEW p \in Proc, Begin(p)
  PROVE  TypeOK'
<1> USE DEF dbVars, history
<1>a. clock \in Nat /\ cookies \subseteq Session
  BY DEF TypeOK
<1>1. ASSUME NEW s \in cookies, VerifyBegin(p, s) \/ StepUpBegin(p, s) \/ SignOutBegin(p, s)
      PROVE  TypeOK'
  <2> DEFINE h(pc) == [Idle EXCEPT !.pc = pc, !.now = clock, !.sess = s]
  <2>1. \A pc \in {"verifyRead", "stepRead", "signOutRead"} : h(pc) \in Handler /\ ReadyForNextStep(h(pc))
    BY <1>a, IdleType DEF Idle, Handler, PC, Op, ReadyForNextStep
  <2>2. \E pc \in {"verifyRead", "stepRead", "signOutRead"} : Become(p, h(pc))
    BY <1>1 DEF VerifyBegin, StepUpBegin, SignOutBegin
  <2>3. req' \in [Proc -> Handler] /\ \A q \in Proc : ReadyForNextStep(req'[q])
    BY <2>1, <2>2, BecomeType
  <2> QED
    BY <1>1, <2>3 DEF TypeOK, VerifyBegin, StepUpBegin, SignOutBegin
<1>2. ASSUME NEW w \in Person, NEW ttl \in SessionTTLs, LoginBegin(p, w, ttl)
      PROVE  TypeOK'
  <2> DEFINE h == [Idle EXCEPT !.pc = "issue", !.now = clock,
                               !.sess = NormalSession(w, clock, ttl, None)]
  <2>1. NormalSession(w, clock, ttl, None) \in Session
    BY <1>a, NormalSessionType, LifetimeType
  <2>2. h \in Handler /\ ReadyForNextStep(h)
    BY <1>a, <2>1 DEF Idle, Handler, PC, Op, ReadyForNextStep
  <2>3. Become(p, h)
    BY <1>2 DEF LoginBegin
  <2>4. req' \in [Proc -> Handler] /\ \A q \in Proc : ReadyForNextStep(req'[q])
    BY <2>2, <2>3, BecomeType
  <2> QED
    BY <1>2, <2>4 DEF TypeOK, LoginBegin
<1>3. ASSUME NEW k \in Passkey, NEW ttl \in SessionTTLs, PasskeyLoginBegin(p, k, ttl)
      PROVE  TypeOK'
  <2> DEFINE h == [Idle EXCEPT !.pc = "passkeyLookup", !.now = clock,
                               !.sess = NormalSession(Owner[k], clock, ttl, k)]
  <2>1. NormalSession(Owner[k], clock, ttl, k) \in Session
    BY <1>a, NormalSessionType, LifetimeType, ConstantsAssumption
  <2>2. h \in Handler /\ ReadyForNextStep(h)
    BY <1>a, <2>1 DEF Idle, Handler, PC, Op, ReadyForNextStep
  <2>3. Become(p, h)
    BY <1>3 DEF PasskeyLoginBegin
  <2>4. req' \in [Proc -> Handler] /\ \A q \in Proc : ReadyForNextStep(req'[q])
    BY <2>2, <2>3, BecomeType
  <2> QED
    BY <1>3, <2>4 DEF TypeOK, PasskeyLoginBegin
<1>4. ASSUME NEW w \in Person, AdminEndSessions(p, w)
      PROVE  TypeOK'
  <2> DEFINE h == [Idle EXCEPT !.pc = "endArg", !.op = "person", !.todo = {w}]
  <2>1. h \in Handler /\ ReadyForNextStep(h)
    BY IdleType DEF Idle, Handler, PC, Op, ReadyForNextStep, Key
  <2>2. Become(p, h)
    BY <1>4 DEF AdminEndSessions
  <2>3. req' \in [Proc -> Handler] /\ \A q \in Proc : ReadyForNextStep(req'[q])
    BY <2>1, <2>2, BecomeType
  <2> QED
    BY <1>4, <2>3 DEF TypeOK, AdminEndSessions
<1>5. ASSUME NEW w \in Person, ListPasskeys(p, w)
      PROVE  TypeOK'
  <2> DEFINE h == [Idle EXCEPT !.pc = "deletePasskeys", !.op = "passkeys",
                               !.sess = NormalSession(w, 0, 0, None), !.todo = LiveOf(w)]
  <2>1. NormalSession(w, 0, 0, None) \in Session
    BY NormalSessionType
  <2>2. LiveOf(w) \subseteq Key
    BY DEF LiveOf, Key
  <2>3. h \in Handler /\ ReadyForNextStep(h)
    BY <2>1, <2>2 DEF Idle, Handler, PC, Op, ReadyForNextStep
  <2>4. Become(p, h)
    BY <1>5 DEF ListPasskeys
  <2>5. req' \in [Proc -> Handler] /\ \A q \in Proc : ReadyForNextStep(req'[q])
    BY <2>3, <2>4, BecomeType
  <2> QED
    BY <1>5, <2>5 DEF TypeOK, ListPasskeys
<1>6. ASSUME NEW k \in Passkey, RemovePasskey(p, k)
      PROVE  TypeOK'
  <2> DEFINE h == [Idle EXCEPT !.pc = "endArg", !.op = "passkey", !.todo = {k}]
  <2>1. h \in Handler /\ ReadyForNextStep(h)
    BY IdleType DEF Idle, Handler, PC, Op, ReadyForNextStep, Key
  <2>2. Become(p, h)
    BY <1>6 DEF RemovePasskey
  <2>3. req' \in [Proc -> Handler] /\ \A q \in Proc : ReadyForNextStep(req'[q])
    BY <2>1, <2>2, BecomeType
  <2>4. /\ passkeys' \in [Passkey -> {"unused", "live", "removed"}]
        /\ removedAt' \in [Passkey -> Nat]
    BY <1>6, <1>a DEF TypeOK, RemovePasskey, DeletedKeys, DeletedTimes
  <2> QED
    BY <1>6, <2>3, <2>4 DEF TypeOK, RemovePasskey
<1>7. ASSUME NEW c \in Card, NEW g \in 1..MaxGen, GrantBegin(p, c, g)
      PROVE  TypeOK'
  <2> DEFINE h == [Idle EXCEPT !.pc = "grantLookup", !.now = clock, !.key = c, !.gen = g]
  <2>0. g \in Nat
    BY ConstantsAssumption
  <2>1. h \in Handler /\ ReadyForNextStep(h)
    BY <1>a, <2>0, IdleType DEF Idle, Handler, PC, Op, ReadyForNextStep, Key
  <2>2. Become(p, h)
    BY <1>7 DEF GrantBegin
  <2>3. req' \in [Proc -> Handler] /\ \A q \in Proc : ReadyForNextStep(req'[q])
    BY <2>1, <2>2, BecomeType
  <2> QED
    BY <1>7, <2>3 DEF TypeOK, GrantBegin
<1>8. ASSUME NEW c \in Card, Revoke(p, c) \/ Remint(p, c)
      PROVE  TypeOK'
  <2> DEFINE h == [Idle EXCEPT !.pc = "endArg", !.op = "card", !.todo = {c}, !.gen = cards[c].gen]
  <2>0. cards[c] \in [gen : Nat, active : BOOLEAN]
    BY DEF TypeOK
  <2>1. h \in Handler /\ ReadyForNextStep(h)
    BY <2>0, IdleType DEF Idle, Handler, PC, Op, ReadyForNextStep, Key
  <2>2. Become(p, h)
    BY <1>8 DEF Revoke, Remint
  <2>3. req' \in [Proc -> Handler] /\ \A q \in Proc : ReadyForNextStep(req'[q])
    BY <2>1, <2>2, BecomeType
  <2>4. cards' \in [Card -> [gen : Nat, active : BOOLEAN]]
    <3>1. CASE Revoke(p, c)
      <4>1. cards' = [cards EXCEPT ![c] = [cards[c] EXCEPT !.active = FALSE]]
        BY <3>1 DEF Revoke, TypeOK
      <4>2. [cards[c] EXCEPT !.active = FALSE] \in [gen : Nat, active : BOOLEAN]
        BY <2>0
      <4> QED
        BY <4>1, <4>2 DEF TypeOK
    <3>2. CASE Remint(p, c)
      BY <3>2, <2>0 DEF TypeOK, Remint
    <3> QED
      BY <1>8, <3>1, <3>2
  <2> QED
    BY <1>8, <2>3, <2>4 DEF TypeOK, Revoke, Remint
<1> QED
  BY <1>1, <1>2, <1>3, <1>4, <1>5, <1>6, <1>7, <1>8 DEF Begin

\* Moving on or stopping leaves every handler well formed.
LEMMA MoveType ==
  ASSUME TypeOK, NEW p \in Proc,
         Stop(p) \/ \E pc \in PC \ {"endDB", "endMemory", "grantLookup"} : Goto(p, pc)
  PROVE  req' \in [Proc -> Handler] /\ \A q \in Proc : ReadyForNextStep(req'[q])
<1>1. CASE Stop(p)
  BY <1>1, IdleType, BecomeType DEF Stop
<1>2. ASSUME NEW pc \in PC \ {"endDB", "endMemory", "grantLookup"}, Goto(p, pc)
      PROVE  req' \in [Proc -> Handler] /\ \A q \in Proc : ReadyForNextStep(req'[q])
  BY <1>2, GotoType, BecomeType DEF Goto
<1> QED
  BY <1>1, <1>2

\* A cutoff key still to be ended is one of the keys.
LEMMA EndKeyType ==
  ASSUME TypeOK, NEW p \in Proc, req[p].pc \in {"endDB", "endMemory"}
  PROVE  req[p].key \in Key /\ (req[p].op = "card" => req[p].key \in Card)
  BY HandlerType DEF ReadyForNextStep

\* The later steps of the request handlers, and of endSessions, keep every
\* handler and every recorded cutoff well formed.
LEMMA ContinueType ==
  ASSUME TypeOK, NEW p \in Proc, Continue(p)
  PROVE  TypeOK'
<1> USE DEF dbVars, history
<1>a. clock \in Nat /\ cookies \subseteq Session
  BY DEF TypeOK
<1>1. CASE VerifyRead(p) \/ VerifyDecide(p) \/ RenewCheck(p) \/ VerifyAnswer(p) \/ PasskeyLookup(p)
           \/ StepUpRead(p) \/ StepUpCheck(p) \/ EndSessionsFails(p)
  <2>1. Stop(p) \/ \E pc \in {"renewCheck", "verifyDecide", "verifyAnswer", "renewIssue", "issue",
                               "stepCheck", "stepIssue"} : Goto(p, pc)
    BY <1>1 DEF VerifyRead, VerifyDecide, RenewCheck, VerifyAnswer, PasskeyLookup,
                StepUpRead, StepUpCheck, EndSessionsFails
  <2>2. req' \in [Proc -> Handler] /\ \A q \in Proc : ReadyForNextStep(req'[q])
    BY <2>1, MoveType DEF PC
  <2>3. UNCHANGED <<clock, passkeys, cards, dbEnded, ended, cookies, promised, retired, removedAt>>
    BY <1>1 DEF VerifyRead, VerifyDecide, RenewCheck, VerifyAnswer, PasskeyLookup,
                StepUpRead, StepUpCheck, EndSessionsFails
  <2> QED
    BY <2>2, <2>3 DEF TypeOK
<1>2. CASE RenewIssue(p) \/ StepUpIssue(p) \/ Issue(p)
  <2>1. Stop(p) \/ Goto(p, "verifyAnswer")
    BY <1>2 DEF RenewIssue, StepUpIssue, Issue
  <2>2. req' \in [Proc -> Handler] /\ \A q \in Proc : ReadyForNextStep(req'[q])
    BY <2>1, MoveType DEF PC
  <2>3. IssueSession(req[p].sess) \/ IssueSession(Renewed(req[p].sess, req[p].now))
    BY <1>2 DEF RenewIssue, StepUpIssue, Issue
  <2>4. req[p].sess \in Session /\ Renewed(req[p].sess, req[p].now) \in Session
    BY HandlerType, RenewedType
  <2>5. cookies' \subseteq Session
    BY <2>3, <2>4, IssueType
  <2>6. UNCHANGED <<clock, passkeys, cards, dbEnded, ended, promised, retired, removedAt>>
    BY <1>2 DEF RenewIssue, StepUpIssue, Issue
  <2> QED
    BY <2>2, <2>5, <2>6 DEF TypeOK
<1>3. CASE GrantLookup(p)
  <2> DEFINE s == CardSession(req[p].key, req[p].gen, req[p].now)
             h == [req[p] EXCEPT !.pc = "issue", !.sess = s]
  <2>1. req[p].key \in Card
    BY <1>3, HandlerType DEF GrantLookup, At, ReadyForNextStep
  <2>2. s \in Session
    BY <2>1, HandlerType, CardSessionType
  <2>3. h \in Handler /\ ReadyForNextStep(h)
    BY <2>2, HandlerType DEF Handler, PC, ReadyForNextStep
  <2>4. Become(p, h) \/ Stop(p)
    BY <1>3 DEF GrantLookup
  <2>5. req' \in [Proc -> Handler] /\ \A q \in Proc : ReadyForNextStep(req'[q])
    BY <2>3, <2>4, BecomeType, MoveType
  <2> QED
    BY <1>3, <2>5 DEF TypeOK, GrantLookup
<1>4. CASE SignOutRead(p)
  <2> DEFINE w == req[p].sess.who
             h == [req[p] EXCEPT !.pc = "endDB", !.op = "person", !.todo = {w},
                                 !.key = w, !.at = req[p].now]
  <2>1. Stop(p) \/ (w \in Person /\ Become(p, h))
    BY <1>4 DEF SignOutRead
  <2>2. w \in Person => h \in Handler /\ ReadyForNextStep(h)
    BY HandlerType DEF Handler, PC, Op, ReadyForNextStep, Key
  <2>3. req' \in [Proc -> Handler] /\ \A q \in Proc : ReadyForNextStep(req'[q])
    BY <2>1, <2>2, BecomeType, MoveType
  <2> QED
    BY <1>4, <2>3 DEF TypeOK, SignOutRead
<1>5. CASE DeletePasskeys(p)
  <2>1. Stop(p) \/ Goto(p, "endArg")
    BY <1>5 DEF DeletePasskeys
  <2>2. req' \in [Proc -> Handler] /\ \A q \in Proc : ReadyForNextStep(req'[q])
    BY <2>1, MoveType DEF PC
  <2>3. /\ passkeys' \in [Passkey -> {"unused", "live", "removed"}]
        /\ removedAt' \in [Passkey -> Nat]
    BY <1>5, <1>a DEF TypeOK, DeletePasskeys, DeletedKeys, DeletedTimes
  <2> QED
    BY <1>5, <2>2, <2>3 DEF TypeOK, DeletePasskeys
<1>6. CASE EndArg(p)
  <2>1. PICK k \in req[p].todo : Become(p, [req[p] EXCEPT !.pc = "endDB", !.key = k, !.at = clock])
    BY <1>6 DEF EndArg
  <2> DEFINE h == [req[p] EXCEPT !.pc = "endDB", !.key = k, !.at = clock]
  <2>2. h \in Handler /\ ReadyForNextStep(h)
    BY <1>a, HandlerType DEF Handler, PC, ReadyForNextStep
  <2>3. req' \in [Proc -> Handler] /\ \A q \in Proc : ReadyForNextStep(req'[q])
    BY <2>1, <2>2, BecomeType
  <2> QED
    BY <1>6, <2>3 DEF TypeOK, EndArg
<1>7. CASE EndSessionsBefore(p)
  <2> DEFINE h == [req[p] EXCEPT !.pc = "endMemory"]
  <2>1. req[p].key \in Key
    BY <1>7, EndKeyType DEF EndSessionsBefore, At
  <2>2. dbEnded' \in [Key -> Nat]
    BY <1>7, <2>1, HandlerType, RaiseType DEF EndSessionsBefore, TypeOK
  <2>3. h \in Handler /\ ReadyForNextStep(h)
    BY <1>7, HandlerType DEF EndSessionsBefore, At, Handler, PC, ReadyForNextStep
  <2>4. Become(p, h)
    BY <1>7 DEF EndSessionsBefore, Goto
  <2>5. req' \in [Proc -> Handler] /\ \A q \in Proc : ReadyForNextStep(req'[q])
    BY <2>3, <2>4, BecomeType
  <2> QED
    BY <1>7, <2>2, <2>5 DEF TypeOK, EndSessionsBefore
<1>8. CASE EndInMemory(p)
  <2> DEFINE rest == req[p].todo \ {req[p].key}
             h == [req[p] EXCEPT !.pc = "endArg", !.todo = rest]
  <2>1. req[p].key \in Key
    BY <1>8, EndKeyType DEF EndInMemory, At
  <2>2. ended' \in [Key -> Nat]
    BY <1>8, <2>1, HandlerType, RaiseType DEF EndInMemory, TypeOK
  <2>3. promised' \in [Key -> Nat]
    BY <1>8, <2>1, HandlerType DEF EndInMemory, TypeOK, Later
  <2>4. retired' \in [Card -> Nat]
    BY <1>8, HandlerType DEF EndInMemory, TypeOK, Later
  <2>5. h \in Handler /\ ReadyForNextStep(h)
    BY HandlerType DEF Handler, PC, ReadyForNextStep
  <2>6. Stop(p) \/ Become(p, h)
    BY <1>8 DEF EndInMemory
  <2>7. req' \in [Proc -> Handler] /\ \A q \in Proc : ReadyForNextStep(req'[q])
    BY <2>5, <2>6, BecomeType, MoveType
  <2> QED
    BY <1>8, <2>2, <2>3, <2>4, <2>7 DEF TypeOK, EndInMemory
<1> QED
  BY <1>1, <1>2, <1>3, <1>4, <1>5, <1>6, <1>7, <1>8 DEF Continue

\* The gateway starts well formed.
LEMMA InitType == Init => TypeOK
<1> SUFFICES ASSUME Init PROVE TypeOK
  OBVIOUS
<1>1. clock \in Nat \ {0, 1} /\ cookies \subseteq Session
  BY ConstantsAssumption, OutstandingAssumption DEF Init
<1> QED
  BY <1>1, IdleType DEF Init, TypeOK

\* Every step keeps the gateway well formed.
LEMMA NextType == TypeOK /\ [Next]_vars => TypeOK'
<1> SUFFICES ASSUME TypeOK, [Next]_vars PROVE TypeOK'
  OBVIOUS
<1> USE DEF dbVars, history
<1>1. ASSUME NEW p \in Proc, Begin(p) \/ Continue(p) PROVE TypeOK'
  BY <1>1, BeginType, ContinueType
<1>2. ASSUME NEW k \in Passkey, RegisterPasskey(k) PROVE TypeOK'
  BY <1>2 DEF TypeOK, RegisterPasskey
<1>3. CASE Tick
  BY <1>3 DEF TypeOK, Tick
<1>4. CASE Restart
  BY <1>4, IdleType DEF TypeOK, Restart
<1>5. CASE UNCHANGED vars
  BY <1>5 DEF TypeOK, vars
<1> QED
  BY <1>1, <1>2, <1>3, <1>4, <1>5 DEF Next

\* Type correctness of the session cookies, the cutoffs and the handlers of
\* session_cutoffs.go and handlers.go, and that a call of endSessions always
\* knows which key it is ending.
THEOREM TypeCorrect == Spec => []TypeOK
  BY InitType, NextType, PTL DEF Spec

-----------------------------------------------------------------------------
(* A session that has been ended stays ended.  AckedEndsHold is not         *)
(* inductive: it needs that no cookie claims a sign-in later than the one   *)
(* that began it, that a finished endSessions is in memory and in the       *)
(* database both, and that one about to write memory has written the        *)
(* database.                                                                *)

\* A session claims no later sign-in than its own, and a card's session says so.
Honest(s) == AuthTime(s) <= s.born /\ (s.card \in Card => s.kind = "card")

HonestSessions ==
    /\ \A s \in cookies : Honest(s)
    /\ \A p \in Proc : Honest(req[p].sess)

\* What endSessions has promised survives both a reader's step and a restart.
PromisesKept == \A k \in Key : promised[k] <= ended[k] /\ promised[k] <= dbEnded[k]

\* Memory follows the database (endSessions writes the database first).
DatabaseFirst == \A p \in Proc : At(p, "endMemory") => req[p].at <= dbEnded[req[p].key]

EndsInv == TypeOK /\ HonestSessions /\ PromisesKept /\ DatabaseFirst

\* What a handler holds once it has begun: a cookie's session, a sign-in being
\* completed, or none, and no database write behind it.
Begun(h) ==
    /\ h.pc # "endMemory"
    /\ \/ h.sess \in cookies \cup {NoSession}
       \/ \E w \in Person, k \in Passkey \cup {None}, t \in Nat, ttl \in Nat : h.sess = NormalSession(w, t, ttl, k)

\* Every handler begins so.
LEMMA BeginTakesOn ==
  ASSUME TypeOK, NEW p \in Proc, Begin(p)
  PROVE  \E h : Become(p, h) /\ Begun(h)
<1> DEFINE given(pc, s) == [Idle EXCEPT !.pc = pc, !.now = clock, !.sess = s]
           listed(w) == [Idle EXCEPT !.pc = "deletePasskeys", !.op = "passkeys",
                                     !.sess = NormalSession(w, 0, 0, None), !.todo = LiveOf(w)]
           signOut(op, j) == [Idle EXCEPT !.pc = "endArg", !.op = op, !.todo = {j}]
           endCard(c, g) == [Idle EXCEPT !.pc = "endArg", !.op = "card", !.todo = {c}, !.gen = g]
           posted(c, g) == [Idle EXCEPT !.pc = "grantLookup", !.now = clock, !.key = c, !.gen = g]
<1>1. /\ \A pc, s : given(pc, s).pc = pc /\ given(pc, s).sess = s
      /\ \A w : listed(w).pc = "deletePasskeys" /\ listed(w).sess = NormalSession(w, 0, 0, None)
      /\ \A op, j : signOut(op, j).pc = "endArg" /\ signOut(op, j).sess = NoSession
      /\ \A c, g : endCard(c, g).pc = "endArg" /\ endCard(c, g).sess = NoSession
      /\ \A c, g : posted(c, g).pc = "grantLookup" /\ posted(c, g).sess = NoSession
  BY DEF Idle
<1>2. \/ \E s \in cookies, pc \in {"verifyRead", "stepRead", "signOutRead"} : Become(p, given(pc, s))
      \/ \E w \in Person, ttl \in SessionTTLs : Become(p, given("issue", NormalSession(w, clock, ttl, None)))
      \/ \E k \in Passkey, ttl \in SessionTTLs :
           Become(p, given("passkeyLookup", NormalSession(Owner[k], clock, ttl, k)))
      \/ \E w \in Person : Become(p, listed(w))
      \/ \E op, j : Become(p, signOut(op, j))
      \/ \E c, g : Become(p, endCard(c, g)) \/ Become(p, posted(c, g))
  BY DEF Begin, VerifyBegin, StepUpBegin, SignOutBegin, LoginBegin, AdminEndSessions,
         ListPasskeys, PasskeyLoginBegin, RemovePasskey, GrantBegin, Revoke, Remint
<1>3. clock \in Nat /\ (\A k \in Passkey : Owner[k] \in Person) /\ SessionTTLs \subseteq Nat
  BY ConstantsAssumption, LifetimeType DEF TypeOK
<1> HIDE DEF given, listed, signOut, endCard, posted
<1>4. ASSUME NEW s \in cookies, NEW pc \in {"verifyRead", "stepRead", "signOutRead"}
      PROVE  Begun(given(pc, s))
  BY <1>1 DEF Begun
<1>5. ASSUME NEW w \in Person, NEW k \in Passkey \cup {None}, NEW ttl \in SessionTTLs,
             NEW pc \in {"issue", "passkeyLookup"}
      PROVE  Begun(given(pc, NormalSession(w, clock, ttl, k)))
  BY <1>1, <1>3 DEF Begun
<1>6. ASSUME NEW w \in Person
      PROVE  Begun(listed(w))
  BY <1>1 DEF Begun
<1>7. /\ \A op, j : Begun(signOut(op, j))
      /\ \A c, g : Begun(endCard(c, g)) /\ Begun(posted(c, g))
  BY <1>1 DEF Begun
<1> QED
  BY <1>2, <1>3, <1>4, <1>5, <1>6, <1>7

\* Every session the gateway builds is honest (completeLogin, grantBreakGlass,
\* renewSessionWith, stepUpSession).
LEMMA BuiltHonest ==
  /\ Honest(NoSession)
  /\ \A w \in Person, k \in Passkey \cup {None}, t \in Nat, ttl \in Nat : Honest(NormalSession(w, t, ttl, k))
  /\ \A c \in Card, g \in Nat, t \in Nat : Honest(CardSession(c, g, t))
  /\ \A s \in Session, t \in Nat : Honest(s) => Honest(Renewed(s, t))
<1> USE ConstantsAssumption DEF Honest, AuthTime, Key
<1>1. Honest(NoSession)
  BY DEF NoSession
<1>2. \A w \in Person, k \in Passkey \cup {None}, t \in Nat, ttl \in Nat : Honest(NormalSession(w, t, ttl, k))
  BY DEF NormalSession
<1>3. \A c \in Card, g \in Nat, t \in Nat : Honest(CardSession(c, g, t))
  BY DEF CardSession
<1>4. ASSUME NEW s \in Session, NEW t \in Nat, Honest(s) PROVE Honest(Renewed(s, t))
  <2>1. Renewed(s, t).auth = (IF s.auth = 0 THEN 1 ELSE s.auth) /\ Renewed(s, t).born = s.born
        /\ Renewed(s, t).card = s.card /\ Renewed(s, t).kind = s.kind
    BY DEF Renewed, Session
  <2> QED
    BY <1>4, <2>1 DEF Session
<1> QED
  BY <1>1, <1>2, <1>3, <1>4

\* Sessions stay honest.
LEMMA HonestStep == TypeOK /\ HonestSessions /\ [Next]_vars => HonestSessions'
<1> SUFFICES ASSUME TypeOK, HonestSessions, [Next]_vars PROVE HonestSessions'
  OBVIOUS
<1> USE DEF dbVars, history
<1>a. clock \in Nat /\ cookies \subseteq Session /\ Honest(NoSession)
  BY BuiltHonest DEF TypeOK
\* It is enough to look at what one handler takes on and what it issues.
<1>b. ASSUME NEW p \in Proc, NEW h, Become(p, h), Honest(h.sess),
             \A s \in cookies' \ cookies : Honest(s)
      PROVE  HonestSessions'
  BY <1>b DEF HonestSessions, Become, TypeOK
<1>c. ASSUME NEW p \in Proc, Stop(p) \/ (\E pc \in PC : Goto(p, pc)),
             \A s \in cookies' \ cookies : Honest(s)
      PROVE  HonestSessions'
  <2>1. CASE Stop(p)
    BY <1>a, <1>b, <1>c, <2>1 DEF Stop, Idle
  <2>2. ASSUME NEW pc \in PC, Goto(p, pc) PROVE HonestSessions'
    <3>1. [req[p] EXCEPT !.pc = pc].sess = req[p].sess
      BY HandlerType DEF Handler
    <3> QED
      BY <1>b, <1>c, <2>2, <3>1 DEF Goto, HonestSessions
  <2> QED
    BY <1>c, <2>1, <2>2
<1>1. ASSUME NEW p \in Proc, Begin(p) PROVE HonestSessions'
  <2>1. cookies' = cookies
    BY <1>1 DEF Begin, VerifyBegin, StepUpBegin, SignOutBegin, LoginBegin, AdminEndSessions,
                ListPasskeys, PasskeyLoginBegin, RemovePasskey, GrantBegin, Revoke, Remint
  <2>2. PICK h : Become(p, h) /\ Begun(h)
    BY <1>1, BeginTakesOn
  <2>3. Honest(h.sess)
    BY <2>2, <1>a, BuiltHonest DEF Begun, HonestSessions
  <2> QED
    BY <1>b, <2>1, <2>2, <2>3
<1>2. ASSUME NEW p \in Proc, Continue(p) PROVE HonestSessions'
  <2>1. CASE RenewIssue(p) \/ StepUpIssue(p) \/ Issue(p)
    <3>1. \A s \in cookies' \ cookies : s = req[p].sess \/ s = Renewed(req[p].sess, req[p].now)
      BY <2>1 DEF RenewIssue, StepUpIssue, Issue, IssueSession
    <3>2. Honest(req[p].sess) /\ Honest(Renewed(req[p].sess, req[p].now))
      BY HandlerType, BuiltHonest DEF HonestSessions
    <3>3. Stop(p) \/ Goto(p, "verifyAnswer")
      BY <2>1 DEF RenewIssue, StepUpIssue, Issue
    <3> QED
      BY <1>c, <3>1, <3>2, <3>3 DEF PC
  <2>2. CASE GrantLookup(p)
    <3>1. req[p].key \in Card
      BY <2>2, HandlerType DEF GrantLookup, At, ReadyForNextStep
    <3>2. Honest(CardSession(req[p].key, req[p].gen, req[p].now))
      BY <3>1, HandlerType, BuiltHonest
    <3>3. [req[p] EXCEPT !.pc = "issue", !.sess = CardSession(req[p].key, req[p].gen, req[p].now)].sess
            = CardSession(req[p].key, req[p].gen, req[p].now)
      BY HandlerType DEF Handler
    <3> QED
      BY <1>b, <1>c, <2>2, <3>2, <3>3 DEF GrantLookup
  <2>3. CASE SignOutRead(p) \/ EndArg(p) \/ EndInMemory(p)
    <3>1. Stop(p) \/ \E h : Become(p, h) /\ h.sess = req[p].sess
      <4> DEFINE w == req[p].sess.who
                 h1 == [req[p] EXCEPT !.pc = "endDB", !.op = "person", !.todo = {w}, !.key = w, !.at = req[p].now]
                 h2(k) == [req[p] EXCEPT !.pc = "endDB", !.key = k, !.at = clock]
                 h3 == [req[p] EXCEPT !.pc = "endArg", !.todo = req[p].todo \ {req[p].key}]
      <4>1. h1.sess = req[p].sess /\ (\A k : h2(k).sess = req[p].sess) /\ h3.sess = req[p].sess
        BY HandlerType DEF Handler
      <4>2. Stop(p) \/ Become(p, h1) \/ (\E k : Become(p, h2(k))) \/ Become(p, h3)
        BY <2>3 DEF SignOutRead, EndArg, EndInMemory
      <4> QED
        BY <4>1, <4>2
    <3>2. cookies' = cookies
      BY <2>3 DEF SignOutRead, EndArg, EndInMemory
    <3> QED
      BY <1>b, <1>c, <3>1, <3>2 DEF HonestSessions
  <2>4. CASE VerifyRead(p) \/ VerifyDecide(p) \/ RenewCheck(p) \/ VerifyAnswer(p) \/ PasskeyLookup(p)
             \/ StepUpRead(p) \/ StepUpCheck(p) \/ DeletePasskeys(p) \/ EndSessionsFails(p)
             \/ EndSessionsBefore(p)
    <3>1. Stop(p) \/ \E pc \in PC : Goto(p, pc)
      BY <2>4 DEF VerifyRead, VerifyDecide, RenewCheck, VerifyAnswer, PasskeyLookup, StepUpRead,
                  StepUpCheck, DeletePasskeys, EndSessionsFails, EndSessionsBefore, PC
    <3>2. cookies' = cookies
      BY <2>4 DEF VerifyRead, VerifyDecide, RenewCheck, VerifyAnswer, PasskeyLookup, StepUpRead,
                  StepUpCheck, DeletePasskeys, EndSessionsFails, EndSessionsBefore
    <3> QED
      BY <1>c, <3>1, <3>2
  <2> QED
    BY <1>2, <2>1, <2>2, <2>3, <2>4 DEF Continue
<1>3. ASSUME NEW k \in Passkey, RegisterPasskey(k) PROVE HonestSessions'
  BY <1>3 DEF HonestSessions, RegisterPasskey
<1>4. CASE Tick \/ UNCHANGED vars
  BY <1>4 DEF HonestSessions, Tick, vars
<1>5. CASE Restart
  BY <1>5, <1>a DEF HonestSessions, Restart, Idle
<1> QED
  BY <1>1, <1>2, <1>3, <1>4, <1>5 DEF Next

\* What is promised is kept: by endSessions itself, which writes database,
\* memory and only then returns, and by newSessionCutoffs, which loads what
\* the database holds.
LEMMA PromisesStep == EndsInv /\ [Next]_vars => PromisesKept' /\ DatabaseFirst'
<1> SUFFICES ASSUME EndsInv, [Next]_vars PROVE PromisesKept' /\ DatabaseFirst'
  OBVIOUS
<1> USE DEF dbVars, history
<1>a. TypeOK /\ PromisesKept /\ DatabaseFirst /\ TypeOK'
  BY NextType DEF EndsInv
\* A step that records no cutoff and starts no write to memory.
<1>b. ASSUME UNCHANGED <<dbEnded, ended, promised>>,
             \A q \in Proc : req'[q] = req[q] \/ req'[q].pc # "endMemory"
      PROVE  PromisesKept' /\ DatabaseFirst'
  BY <1>a, <1>b DEF PromisesKept, DatabaseFirst, At
<1>1. ASSUME NEW p \in Proc, EndSessionsBefore(p) PROVE PromisesKept' /\ DatabaseFirst'
  <2> DEFINE k == req[p].key
  <2>1. k \in Key /\ req[p].at \in Nat
    BY <1>a, <1>1, EndKeyType, HandlerType DEF EndSessionsBefore, At
  <2>2. dbEnded \in [Key -> Nat]
    BY <1>a DEF TypeOK
  <2>3. /\ dbEnded' \in [Key -> Nat]
        /\ \A j \in Key : dbEnded[j] <= dbEnded'[j]
        /\ req[p].at <= dbEnded'[k]
    BY <1>1, <2>1, <2>2, RaiseType DEF EndSessionsBefore
  <2>4. PromisesKept'
    BY <1>1, <1>a, <2>2, <2>3 DEF PromisesKept, EndSessionsBefore, TypeOK
  <2>5. ASSUME NEW q \in Proc, At(q, "endMemory")' PROVE req'[q].at <= dbEnded'[req'[q].key]
    <3>1. CASE q = p
      <4>1. req'[p].at = req[p].at /\ req'[p].key = k
        BY <1>1, <1>a, HandlerType DEF EndSessionsBefore, Goto, Become, Handler, TypeOK
      <4> QED
        BY <2>3, <3>1, <4>1
    <3>2. CASE q # p
      <4>1. req'[q] = req[q]
        BY <1>1, <1>a, <3>2 DEF EndSessionsBefore, Goto, Become, TypeOK
      <4>2. req[q].at <= dbEnded[req[q].key] /\ req[q].key \in Key /\ req[q].at \in Nat
        BY <1>a, <2>5, <4>1, EndKeyType, HandlerType DEF DatabaseFirst, At
      <4> QED
        BY <2>2, <2>3, <4>1, <4>2
    <3> QED
      BY <3>1, <3>2
  <2> QED
    BY <2>4, <2>5 DEF DatabaseFirst
<1>2. ASSUME NEW p \in Proc, EndInMemory(p) PROVE PromisesKept' /\ DatabaseFirst'
  <2> DEFINE k == req[p].key
  <2>1. k \in Key /\ req[p].at \in Nat /\ req[p].at <= dbEnded[k]
    BY <1>a, <1>2, EndKeyType, HandlerType DEF EndInMemory, At, DatabaseFirst
  <2>2. /\ \A j \in Key : ended[j] <= ended'[j]
        /\ req[p].at <= ended'[k]
    BY <1>2, <1>a, <2>1, RaiseType DEF EndInMemory, TypeOK
  <2>3. PromisesKept'
    <3> SUFFICES ASSUME NEW j \in Key PROVE promised'[j] <= ended'[j] /\ promised'[j] <= dbEnded[j]
      BY <1>2 DEF PromisesKept, EndInMemory
    <3>1. promised'[j] = promised[j] \/ (j = k /\ promised'[j] = req[p].at)
      BY <1>2, <1>a, <2>1 DEF EndInMemory, Later, TypeOK
    <3> QED
      BY <1>2, <1>a, <2>1, <2>2, <3>1 DEF PromisesKept, TypeOK
  <2>4. \A q \in Proc : req'[q] = req[q] \/ req'[q].pc # "endMemory"
    <3> DEFINE h == [req[p] EXCEPT !.pc = "endArg", !.todo = req[p].todo \ {k}]
    <3>1. h.pc = "endArg" /\ Idle.pc = "idle"
      BY <1>a, HandlerType DEF Handler, Idle
    <3>2. Become(p, Idle) \/ Become(p, h)
      BY <1>2 DEF EndInMemory, Stop
    <3> HIDE DEF h
    <3> QED
      BY <1>a, <3>1, <3>2 DEF Become, TypeOK
  <2> QED
    BY <1>2, <1>a, <2>3, <2>4 DEF DatabaseFirst, At, EndInMemory
<1>3. ASSUME NEW p \in Proc, Begin(p) PROVE PromisesKept' /\ DatabaseFirst'
  <2>1. UNCHANGED <<dbEnded, ended, promised>>
    BY <1>3 DEF Begin, VerifyBegin, StepUpBegin, SignOutBegin, LoginBegin, AdminEndSessions,
                ListPasskeys, PasskeyLoginBegin, RemovePasskey, GrantBegin, Revoke, Remint
  <2>2. \A q \in Proc : req'[q] = req[q] \/ req'[q].pc # "endMemory"
    <3>1. PICK h : Become(p, h) /\ Begun(h)
      BY <1>3, <1>a, BeginTakesOn
    <3> QED
      BY <3>1, <1>a DEF Begun, Become, TypeOK
  <2> QED
    BY <1>b, <2>1, <2>2
<1>4. ASSUME NEW p \in Proc, Continue(p), ~EndSessionsBefore(p), ~EndInMemory(p)
      PROVE  PromisesKept' /\ DatabaseFirst'
  <2>1. UNCHANGED <<dbEnded, ended, promised>>
    BY <1>4 DEF Continue, VerifyRead, VerifyDecide, RenewCheck, RenewIssue, VerifyAnswer,
                PasskeyLookup, GrantLookup, Issue, StepUpRead, StepUpCheck, StepUpIssue,
                SignOutRead, DeletePasskeys, EndArg, EndSessionsFails
  <2>2. \A q \in Proc : req'[q] = req[q] \/ req'[q].pc # "endMemory"
    <3>1. \E h : Become(p, h) /\ h.pc # "endMemory"
      <4> USE <1>4, <1>a, HandlerType DEF Handler
      <4>1. CASE Stop(p)
        BY <4>1 DEF Stop, Idle
      <4>2. ASSUME NEW pc \in PC \ {"endMemory"}, Goto(p, pc)
            PROVE  \E h : Become(p, h) /\ h.pc # "endMemory"
        <5>1. [req[p] EXCEPT !.pc = pc].pc = pc
          OBVIOUS
        <5> QED
          BY <4>2, <5>1 DEF Goto
      <4>3. CASE GrantLookup(p) /\ ~Stop(p)
        <5>1. [req[p] EXCEPT !.pc = "issue",
                             !.sess = CardSession(req[p].key, req[p].gen, req[p].now)].pc = "issue"
          OBVIOUS
        <5> QED
          BY <4>3, <5>1 DEF GrantLookup
      <4>4. CASE SignOutRead(p) /\ ~Stop(p)
        <5>1. [req[p] EXCEPT !.pc = "endDB", !.op = "person", !.todo = {req[p].sess.who},
                             !.key = req[p].sess.who, !.at = req[p].now].pc = "endDB"
          OBVIOUS
        <5> QED
          BY <4>4, <5>1 DEF SignOutRead
      <4>5. CASE EndArg(p)
        <5>1. \A j : [req[p] EXCEPT !.pc = "endDB", !.key = j, !.at = clock].pc = "endDB"
          OBVIOUS
        <5> QED
          BY <4>5, <5>1 DEF EndArg
      <4>6. \/ Stop(p) \/ \E pc \in PC \ {"endMemory"} : Goto(p, pc)
            \/ GrantLookup(p) \/ SignOutRead(p) \/ EndArg(p)
        BY DEF Continue, VerifyRead, VerifyDecide, RenewCheck, RenewIssue, VerifyAnswer,
               PasskeyLookup, Issue, StepUpRead, StepUpCheck, StepUpIssue, DeletePasskeys,
               EndSessionsFails, PC
      <4> QED
        BY <4>1, <4>2, <4>3, <4>4, <4>5, <4>6
    <3> QED
      BY <3>1, <1>a DEF Become, TypeOK
  <2> QED
    BY <1>b, <2>1, <2>2
<1>5. ASSUME NEW k \in Passkey, RegisterPasskey(k) PROVE PromisesKept' /\ DatabaseFirst'
  BY <1>5, <1>b DEF RegisterPasskey
<1>6. CASE Tick \/ UNCHANGED vars
  BY <1>6, <1>b DEF Tick, vars
<1>7. CASE Restart
  BY <1>7, <1>a DEF Restart, Idle, PromisesKept, DatabaseFirst, At
<1> QED
  BY <1>1, <1>2, <1>3, <1>4, <1>5, <1>6, <1>7 DEF Next

\* The strengthened invariant holds of the gateway.
THEOREM EndsInvariant == Spec => []EndsInv
<1>1. Init => EndsInv
  <2> SUFFICES ASSUME Init PROVE EndsInv
    OBVIOUS
  <2>1. \A s \in Outstanding : Honest(s)
    BY ConstantsAssumption, OutstandingAssumption DEF Honest, AuthTime, Key, Session
  <2>2. HonestSessions
    BY <2>1, BuiltHonest DEF Init, HonestSessions, Idle
  <2>3. PromisesKept /\ DatabaseFirst
    BY DEF Init, PromisesKept, DatabaseFirst, At, Idle
  <2> QED
    BY <2>2, <2>3, InitType DEF EndsInv
<1>2. EndsInv /\ [Next]_vars => EndsInv'
  BY NextType, HonestStep, PromisesStep DEF EndsInv
<1> QED
  BY <1>1, <1>2, PTL DEF Spec

\* Only readSession admits a request, and it refuses an expired or ended
\* session (handleVerify calls it before anything else).
LEMMA AdmitsReadable ==
  ASSUME TypeOK, [Next]_vars, NEW p \in Proc, Admits(p)
  PROVE  Readable(req[p].sess, req[p].now)
<1> USE DEF Admits, At
<1>1. CASE VerifyRead(p)
  <2>1. CASE Readable(req[p].sess, req[p].now)
    BY <2>1
  <2>2. CASE ~Readable(req[p].sess, req[p].now)
    <3>1. Stop(p)
      BY <1>1, <2>2 DEF VerifyRead
    <3> QED
      BY <3>1 DEF Stop, Become, Idle, TypeOK
  <2> QED
    BY <2>1, <2>2
<1>2. ASSUME ~VerifyRead(p) PROVE FALSE
  <2>1. req'[p] # req[p] /\ req'[p] # Idle
    BY DEF Idle
  <2>2. ~UNCHANGED req
    BY <2>1
  <2>3. ASSUME NEW q \in Proc, q # p, \E h : Become(q, h) PROVE FALSE
    BY <2>1, <2>3 DEF Become, TypeOK
  <2>4. ASSUME NEW q \in Proc, Begin(q) \/ Continue(q) PROVE FALSE
    <3>1. \E h : Become(q, h)
      BY <2>4 DEF Begin, VerifyBegin, StepUpBegin, SignOutBegin, LoginBegin, AdminEndSessions,
                  ListPasskeys, PasskeyLoginBegin, RemovePasskey, GrantBegin, Revoke, Remint,
                  Continue, VerifyRead, VerifyDecide, RenewCheck, RenewIssue, VerifyAnswer,
                  PasskeyLookup, GrantLookup, Issue, StepUpRead, StepUpCheck, StepUpIssue,
                  SignOutRead, DeletePasskeys, EndArg, EndSessionsBefore, EndSessionsFails,
                  EndInMemory, Stop, Goto
    <3>2. q = p
      BY <2>3, <3>1
    <3>3. ~Begin(p) /\ ~Continue(p)
      BY <1>2 DEF Begin, VerifyBegin, StepUpBegin, SignOutBegin, LoginBegin, AdminEndSessions,
                  ListPasskeys, PasskeyLoginBegin, RemovePasskey, GrantBegin, Revoke, Remint,
                  Continue, VerifyDecide, RenewCheck, RenewIssue, VerifyAnswer,
                  PasskeyLookup, GrantLookup, Issue, StepUpRead, StepUpCheck, StepUpIssue,
                  SignOutRead, DeletePasskeys, EndArg, EndSessionsBefore, EndSessionsFails,
                  EndInMemory
    <3> QED
      BY <2>4, <3>2, <3>3
  <2>5. ~Tick /\ ~(\E k \in Passkey : RegisterPasskey(k)) /\ ~UNCHANGED vars
    BY <2>2 DEF Tick, RegisterPasskey, vars
  <2>6. ~Restart
    BY <2>1 DEF Restart, TypeOK
  <2> QED
    BY <2>4, <2>5, <2>6 DEF Next
<1> QED
  BY <1>1, <1>2

\* A session that readSession admits began after every end that has returned.
LEMMA EndedSessionsHold ==
  ASSUME EndsInv, [Next]_vars, NEW p \in Proc, Admits(p)
  PROVE  ~BegunBefore(req[p].sess, promised)
<1> SUFFICES ASSUME BegunBefore(req[p].sess, promised) PROVE FALSE
  OBVIOUS
<1> DEFINE s == req[p].sess
<1>1. Readable(s, req[p].now)
  BY AdmitsReadable DEF EndsInv
<1>2. ~Covered(s, ended)
  BY <1>1 DEF Readable, SessionEnded
<1>3. Honest(s) /\ s \in Session
  BY HandlerType DEF EndsInv, HonestSessions
<1>4. \A k \in Key : promised[k] \in Nat /\ ended[k] \in Nat /\ promised[k] <= ended[k]
  BY DEF EndsInv, PromisesKept, TypeOK
<1>5. AuthTime(s) \in Nat /\ s.born \in Nat /\ AuthTime(s) <= s.born
  BY <1>3 DEF Honest, AuthTime, Session
<1>6. CASE s.who \in Person /\ promised[s.who] # 0 /\ s.born <= promised[s.who]
  BY <1>2, <1>4, <1>5, <1>6 DEF Covered, Key
<1>7. CASE s.pk \in Passkey /\ promised[s.pk] # 0
  BY <1>2, <1>4, <1>7 DEF Covered, Key
<1>8. CASE s.card \in Card /\ promised[s.card] # 0 /\ s.born <= promised[s.card]
  BY <1>2, <1>3, <1>4, <1>5, <1>8 DEF Covered, Key, Honest
<1> QED
  BY <1>6, <1>7, <1>8 DEF BegunBefore

\* Once endSessions has returned, no session that began at or before its cutoff
\* is admitted again, whatever restarts, renewals and concurrent calls follow.
THEOREM EndedSessionsStayEnded == Spec => AckedEndsHold
<1>1. EndsInv /\ [Next]_vars => [\A p \in Proc : Admits(p) => ~BegunBefore(req[p].sess, promised)]_vars
  BY EndedSessionsHold
<1> QED
  BY <1>1, EndsInvariant, PTL DEF Spec, AckedEndsHold

\* No session is admitted more than SESSION_MAX_AGE after the sign-in that
\* began it, however often it was renewed or stepped up.
THEOREM SessionsAge == Spec => MaxAgeHolds
<1>1. ASSUME EndsInv, [Next]_vars, NEW p \in Proc, Admits(p), MaxAge > 0
      PROVE  req[p].now <= req[p].sess.born + MaxAge
  <2> DEFINE s == req[p].sess
  <2>1. Readable(s, req[p].now)
    BY <1>1, AdmitsReadable DEF EndsInv
  <2>2. ~(req[p].now > AuthTime(s) + MaxAge)
    BY <1>1, <2>1 DEF Readable, SessionEnded
  <2>3. Honest(s) /\ s \in Session /\ req[p].now \in Nat /\ MaxAge \in Nat
    BY <1>1, HandlerType, ConstantsAssumption DEF EndsInv, HonestSessions
  <2> QED
    BY <2>2, <2>3 DEF Honest, AuthTime, Session
<1>2. EndsInv /\ [Next]_vars =>
        [\A p \in Proc : Admits(p) /\ MaxAge > 0 => req[p].now <= req[p].sess.born + MaxAge]_vars
  BY <1>1
<1> QED
  BY <1>2, EndsInvariant, PTL DEF Spec, MaxAgeHolds

-----------------------------------------------------------------------------
(* A passkey that was removed is not used for long.  What bounds it is the  *)
(* sign-in or renewal each session dates from: a passkey is looked up       *)
(* before either.                                                           *)

\* Session s dates from before its passkey was removed, if it was.
DatesBack(s) == s.pk \in Passkey /\ removedAt[s.pk] # 0 => s.iat <= removedAt[s.pk]

\* A session a passkey began is a person's, issued at some time that has been.
PasskeyKind(s) == s.pk \in Passkey => s.kind = "normal" /\ s.iat <= clock

\* What a handler knows of the passkey of its session, once it looked it up.
WindowOK(h) ==
    /\ h.now <= clock
    /\ PasskeyKind(h.sess)
    /\ h.pc # "passkeyLookup" => DatesBack(h.sess)
    /\ h.sess.pk \in Passkey /\ removedAt[h.sess.pk] # 0 =>
         /\ h.pc \in {"renewIssue", "stepIssue"} => h.now <= removedAt[h.sess.pk]
         /\ h.pc \in {"verifyDecide", "verifyAnswer"} => h.now <= removedAt[h.sess.pk] + RenewAfter

\* Only a removed row has a time it was removed.
RowsOK == \A k \in Passkey : removedAt[k] # 0 => passkeys[k] = "removed" /\ removedAt[k] <= clock

WindowInv ==
    /\ RowsOK
    /\ \A s \in cookies : DatesBack(s) /\ PasskeyKind(s)
    /\ \A p \in Proc : WindowOK(req[p])

\* The empty handler uses no passkey.
LEMMA IdleWindow == TypeOK => WindowOK(Idle)
  BY ConstantsAssumption DEF TypeOK, WindowOK, PasskeyKind, DatesBack, Idle, NoSession, Key

\* It is enough to look at what one handler takes on and what it issues.
LEMMA WindowMove ==
  ASSUME TypeOK, WindowInv, UNCHANGED <<clock, passkeys, removedAt>>,
         NEW p \in Proc, NEW h, Become(p, h), WindowOK(h),
         \A s \in cookies' \ cookies : DatesBack(s) /\ PasskeyKind(s)
  PROVE  WindowInv'
  BY DEF TypeOK, WindowInv, RowsOK, WindowOK, DatesBack, PasskeyKind, Become

\* A handler that moves on keeps what it knows of its session, its time and
\* the row; what it must know more is what its next step relies on.
LEMMA WindowGoto ==
  ASSUME TypeOK, WindowInv, UNCHANGED <<clock, passkeys, removedAt>>,
         NEW p \in Proc, NEW pc \in PC \ {"passkeyLookup"}, Goto(p, pc), DatesBack(req[p].sess),
         req[p].sess.pk \in Passkey /\ removedAt[req[p].sess.pk] # 0 =>
           /\ pc \in {"renewIssue", "stepIssue"} => req[p].now <= removedAt[req[p].sess.pk]
           /\ pc \in {"verifyDecide", "verifyAnswer"} => req[p].now <= removedAt[req[p].sess.pk] + RenewAfter,
         \A s \in cookies' \ cookies : DatesBack(s) /\ PasskeyKind(s)
  PROVE  WindowInv'
<1> DEFINE h == [req[p] EXCEPT !.pc = pc]
<1>1. h.pc = pc /\ h.sess = req[p].sess /\ h.now = req[p].now
  BY HandlerType DEF Handler
<1>2. Become(p, h)
  BY DEF Goto
<1>3. req[p].now <= clock /\ PasskeyKind(req[p].sess)
  BY DEF WindowInv, WindowOK
<1> HIDE DEF h
<1>4. WindowOK(h)
  BY <1>1, <1>3 DEF WindowOK
<1> QED
  BY <1>2, <1>4, WindowMove

\* So does one that stops.
LEMMA WindowStop ==
  ASSUME TypeOK, WindowInv, UNCHANGED <<clock, passkeys, removedAt>>, NEW p \in Proc, Stop(p),
         \A s \in cookies' \ cookies : DatesBack(s) /\ PasskeyKind(s)
  PROVE  WindowInv'
  BY IdleWindow, WindowMove DEF Stop

\* Code g of card c is replaced or revoked.
Dead(c, g) == g < cards[c].gen \/ (g = cards[c].gen /\ ~cards[c].active)

\* What a handler takes on: the session of a cookie, one it begins, or none.
TakesOn(h) ==
    /\ h.pc \notin {"renewCheck", "renewIssue", "stepCheck", "stepIssue", "verifyDecide", "verifyAnswer",
                    "endDB", "endMemory"}
    /\ h.now \in {0, clock} /\ (h.pc = "grantLookup" => h.now = clock)
    /\ h.pc \in {"verifyRead", "stepRead", "signOutRead"} => h.sess \in cookies
    /\ \/ h.sess \in cookies \cup {NoSession}
       \/ \E w \in Person, t \in {0, clock}, ttl \in Nat : h.sess = NormalSession(w, t, ttl, None)
       \/ /\ h.pc = "passkeyLookup"
          /\ \E k \in Passkey, ttl \in Nat : h.sess = NormalSession(Owner[k], clock, ttl, k)
    /\ h.op = "card" => \A c \in h.todo : c \in Card /\ h.gen = cards[c].gen /\ Dead(c, h.gen)'

\* Every handler begins so.
LEMMA BeginForms ==
  ASSUME TypeOK, NEW p \in Proc, Begin(p)
  PROVE  \E h : Become(p, h) /\ TakesOn(h)
<1> DEFINE given(pc, s) == [Idle EXCEPT !.pc = pc, !.now = clock, !.sess = s]
           listed(w) == [Idle EXCEPT !.pc = "deletePasskeys", !.op = "passkeys",
                                     !.sess = NormalSession(w, 0, 0, None), !.todo = LiveOf(w)]
           signOut(op, j) == [Idle EXCEPT !.pc = "endArg", !.op = op, !.todo = {j}]
           endCard(c, g) == [Idle EXCEPT !.pc = "endArg", !.op = "card", !.todo = {c}, !.gen = g]
           posted(c, g) == [Idle EXCEPT !.pc = "grantLookup", !.now = clock, !.key = c, !.gen = g]
<1>1. /\ \A pc, s : given(pc, s).pc = pc /\ given(pc, s).sess = s /\ given(pc, s).now = clock /\ given(pc, s).op = "none"
      /\ \A w : /\ listed(w).pc = "deletePasskeys" /\ listed(w).sess = NormalSession(w, 0, 0, None)
                /\ listed(w).now = 0 /\ listed(w).op = "passkeys"
      /\ \A op, j : /\ signOut(op, j).pc = "endArg" /\ signOut(op, j).sess = NoSession
                    /\ signOut(op, j).now = 0 /\ signOut(op, j).op = op
      /\ \A c, g : /\ endCard(c, g).pc = "endArg" /\ endCard(c, g).sess = NoSession
                   /\ endCard(c, g).now = 0 /\ endCard(c, g).todo = {c} /\ endCard(c, g).gen = g
      /\ \A c, g : /\ posted(c, g).pc = "grantLookup" /\ posted(c, g).sess = NoSession
                   /\ posted(c, g).now = clock /\ posted(c, g).op = "none"
  BY DEF Idle
<1>2. \/ \E s \in cookies, pc \in {"verifyRead", "stepRead", "signOutRead"} : Become(p, given(pc, s))
      \/ \E w \in Person, ttl \in SessionTTLs : Become(p, given("issue", NormalSession(w, clock, ttl, None)))
      \/ \E k \in Passkey, ttl \in SessionTTLs :
           Become(p, given("passkeyLookup", NormalSession(Owner[k], clock, ttl, k)))
      \/ \E w \in Person : Become(p, listed(w))
      \/ \E op \in {"person", "passkey"} : \E j : Become(p, signOut(op, j))
      \/ \E c \in Card : Become(p, endCard(c, cards[c].gen)) /\ (Revoke(p, c) \/ Remint(p, c))
      \/ \E c, g : Become(p, posted(c, g))
  BY DEF Begin, VerifyBegin, StepUpBegin, SignOutBegin, LoginBegin, AdminEndSessions,
         ListPasskeys, PasskeyLoginBegin, RemovePasskey, GrantBegin, Revoke, Remint
<1>3. SessionTTLs \subseteq Nat
  BY LifetimeType
<1>4. ASSUME NEW c \in Card, Revoke(p, c) \/ Remint(p, c), NEW g, g = cards[c].gen PROVE Dead(c, g)'
  <2>1. cards[c] \in [gen : Nat, active : BOOLEAN] /\ cards[c].gen \in Nat
    BY DEF TypeOK
  <2>2. CASE Revoke(p, c)
    <3>1. cards'[c] = [cards[c] EXCEPT !.active = FALSE]
      BY <2>2 DEF Revoke, TypeOK
    <3> QED
      BY <1>4, <2>1, <3>1 DEF Dead
  <2>3. CASE Remint(p, c)
    <3>1. cards'[c].gen = cards[c].gen + 1
      BY <2>1, <2>3 DEF Remint, TypeOK
    <3> QED
      BY <1>4, <2>1, <3>1 DEF Dead
  <2> QED
    BY <1>4, <2>2, <2>3
<1> HIDE DEF given, listed, signOut, endCard, posted
<1>5. ASSUME NEW s \in cookies, NEW pc \in {"verifyRead", "stepRead", "signOutRead"}
      PROVE  TakesOn(given(pc, s))
  BY <1>1 DEF TakesOn
<1>6. ASSUME NEW w \in Person, NEW ttl \in SessionTTLs
      PROVE  TakesOn(given("issue", NormalSession(w, clock, ttl, None)))
  BY <1>1, <1>3 DEF TakesOn
<1>7. ASSUME NEW k \in Passkey, NEW ttl \in SessionTTLs
      PROVE  TakesOn(given("passkeyLookup", NormalSession(Owner[k], clock, ttl, k)))
  BY <1>1, <1>3 DEF TakesOn
<1>8. ASSUME NEW w \in Person PROVE TakesOn(listed(w))
  BY <1>1 DEF TakesOn
<1>9. \A op \in {"person", "passkey"} : \A j : TakesOn(signOut(op, j))
  BY <1>1 DEF TakesOn
<1>10. ASSUME NEW c \in Card, Revoke(p, c) \/ Remint(p, c), NEW h, h = endCard(c, cards[c].gen) PROVE TakesOn(h)
  <2>1. h.gen = cards[c].gen /\ h.todo = {c} /\ h.pc = "endArg" /\ h.sess = NoSession /\ h.now = 0
    BY <1>1, <1>10
  <2>2. Dead(c, h.gen)'
    BY <1>4, <1>10, <2>1
  <2> QED
    BY <2>1, <2>2 DEF TakesOn
<1>11. \A c, g : TakesOn(posted(c, g))
  BY <1>1 DEF TakesOn
<1> QED
  BY <1>2, <1>5, <1>6, <1>7, <1>8, <1>9, <1>10, <1>11

\* What a handler takes on keeps the window.
LEMMA TakenWindow ==
  ASSUME TypeOK, WindowInv, NEW h, TakesOn(h)
  PROVE  WindowOK(h)
<1>1. clock \in Nat /\ None \notin Passkey
  BY ConstantsAssumption DEF TypeOK, Key
<1>2. CASE h.sess \in cookies
  BY <1>1, <1>2 DEF TakesOn, WindowOK, WindowInv
<1>3. CASE h.sess.pk \notin Passkey
  BY <1>1, <1>3 DEF TakesOn, WindowOK, PasskeyKind, DatesBack
<1>4. NoSession.pk = None /\ \A w, t, ttl : NormalSession(w, t, ttl, None).pk = None
  BY DEF NoSession, NormalSession
<1>5. ASSUME NEW k \in Passkey, NEW ttl, h.sess = NormalSession(Owner[k], clock, ttl, k), h.pc = "passkeyLookup"
      PROVE  WindowOK(h)
  BY <1>1, <1>5 DEF TakesOn, WindowOK, PasskeyKind, NormalSession
<1> QED
  BY <1>1, <1>2, <1>3, <1>4, <1>5 DEF TakesOn

\* Passkeys are removed: what a session or a handler dates from has been, so
\* it is before the time of the removal (handlePasskeyRemove, DeletePasskeys).
LEMMA DeleteWindow ==
  ASSUME TypeOK, WindowInv, NEW p \in Proc, NEW S, passkeys' = DeletedKeys(S), removedAt' = DeletedTimes(S),
         UNCHANGED <<clock, cookies>>, NEW pc \in {"endArg"},
         Stop(p) \/ (Goto(p, pc) /\ req[p].pc # "passkeyLookup") \/ \E h : Become(p, h) /\ h.now = 0 /\ h.sess = NoSession
  PROVE  WindowInv'
<1>1. \A k \in Passkey : removedAt[k] \in Nat /\ removedAt'[k] \in {removedAt[k], clock}
  BY DEF TypeOK, DeletedTimes
<1>2. clock \in Nat /\ RenewAfter \in Nat /\ None \notin Passkey
  BY ConstantsAssumption DEF TypeOK, Key
<1>3. RowsOK'
  <2> SUFFICES ASSUME NEW k \in Passkey, removedAt'[k] # 0 PROVE passkeys'[k] = "removed" /\ removedAt'[k] <= clock
    BY DEF RowsOK
  <2>1. CASE k \in S
    BY <1>2, <2>1 DEF DeletedKeys, DeletedTimes
  <2>2. CASE k \notin S
    BY <2>2 DEF DeletedKeys, DeletedTimes, WindowInv, RowsOK
  <2> QED
    BY <2>1, <2>2
<1>4. ASSUME NEW s, PasskeyKind(s) PROVE PasskeyKind(s)' /\ (DatesBack(s) => DatesBack(s)')
  BY <1>1, <1>4 DEF PasskeyKind, DatesBack
<1>5. ASSUME NEW h, h.now \in Nat, WindowOK(h) PROVE WindowOK(h)'
  BY <1>1, <1>2, <1>4, <1>5 DEF WindowOK
<1>6. ASSUME NEW h, h.now = 0, h.sess = NoSession PROVE WindowOK(h)
  BY <1>2, <1>6 DEF WindowOK, PasskeyKind, DatesBack, NoSession
<1>7. PICK h : Become(p, h) /\ WindowOK(h) /\ h.now \in Nat
  <2>1. CASE Stop(p)
    BY <2>1, IdleWindow DEF Stop, Idle
  <2>2. CASE Goto(p, pc) /\ req[p].pc # "passkeyLookup"
    <3> DEFINE h == [req[p] EXCEPT !.pc = pc]
    <3>1. h.pc = "endArg" /\ h.sess = req[p].sess /\ h.now = req[p].now /\ h.now \in Nat
      BY HandlerType DEF Handler
    <3>2. Become(p, h)
      BY <2>2 DEF Goto
    <3> HIDE DEF h
    <3>3. WindowOK(h)
      BY <2>2, <3>1 DEF WindowInv, WindowOK
    <3> QED
      BY <3>1, <3>2, <3>3
  <2>3. CASE \E h : Become(p, h) /\ h.now = 0 /\ h.sess = NoSession
    BY <1>6, <2>3
  <2> QED
    BY <2>1, <2>2, <2>3
<1>8. ASSUME NEW q \in Proc PROVE WindowOK(req[q])'
  <2>1. PICK g : g = req'[q]
    OBVIOUS
  <2>2. g = h \/ g = req[q]
    BY <1>7, <2>1 DEF Become, TypeOK
  <2>3. WindowOK(g) /\ g.now \in Nat
    BY <1>7, <2>2, HandlerType DEF WindowInv
  <2>4. WindowOK(g)'
    BY <1>5, <2>3
  <2> QED
    BY <2>1, <2>4 DEF WindowOK, PasskeyKind, DatesBack
<1>9. \A s \in cookies' : DatesBack(s)' /\ PasskeyKind(s)'
  BY <1>4 DEF WindowInv
<1> QED
  BY <1>3, <1>8, <1>9 DEF WindowInv

\* A step of a handler keeps the window (readSession, needsRenew,
\* passkeyStillValid, renewSessionWith, handlePasskeyLogin).
LEMMA WindowContinue ==
  ASSUME TypeOK, WindowInv, NEW p \in Proc, Continue(p)
  PROVE  WindowInv'
<1> USE DEF dbVars, history
<1> DEFINE r == req[p]
<1>a. /\ r \in Handler /\ r.sess \in Session /\ r.now \in Nat /\ clock \in Nat /\ RenewAfter \in Nat
      /\ r.now <= clock /\ PasskeyKind(r.sess) /\ (r.pc # "passkeyLookup" => DatesBack(r.sess))
      /\ r.sess.pk \in Passkey => removedAt[r.sess.pk] \in Nat /\ r.sess.iat \in Nat
  BY HandlerType, ConstantsAssumption DEF TypeOK, WindowInv, WindowOK, Session
\* A passkey that is still there was never removed.
<1>b. \A k \in Passkey : passkeys[k] = "live" => removedAt[k] = 0
  BY DEF WindowInv, RowsOK
<1>1. CASE VerifyRead(p)
  <2>1. UNCHANGED <<clock, passkeys, removedAt, cookies>> /\ r.pc = "verifyRead"
    BY <1>1 DEF VerifyRead, At
  <2>2. CASE Stop(p)
    BY <2>1, <2>2, WindowStop
  <2>3. CASE Goto(p, "renewCheck")
    BY <1>a, <2>1, <2>3, WindowGoto DEF PC
  <2>4. CASE Goto(p, "verifyDecide") /\ ~NeedsRenew(r.sess, r.now)
    <3>1. r.sess.pk \in Passkey => r.now <= r.sess.iat + RenewAfter
      BY <1>a, <2>4 DEF NeedsRenew, PasskeyKind
    <3>2. r.sess.pk \in Passkey /\ removedAt[r.sess.pk] # 0 => r.now <= removedAt[r.sess.pk] + RenewAfter
      BY <1>a, <2>1, <3>1 DEF DatesBack
    <3> QED
      BY <1>a, <2>1, <2>4, <3>2, WindowGoto DEF PC
  <2> QED
    BY <1>1, <2>2, <2>3, <2>4 DEF VerifyRead
<1>2. CASE VerifyDecide(p)
  <2>1. UNCHANGED <<clock, passkeys, removedAt, cookies>> /\ r.pc = "verifyDecide"
    BY <1>2 DEF VerifyDecide, At
  <2>2. r.sess.pk \in Passkey /\ removedAt[r.sess.pk] # 0 => r.now <= removedAt[r.sess.pk] + RenewAfter
    BY <2>1 DEF WindowInv, WindowOK
  <2>3. Stop(p) \/ Goto(p, "verifyAnswer") \/ Goto(p, "renewCheck")
    BY <1>2 DEF VerifyDecide
  <2> QED
    BY <1>a, <2>1, <2>2, <2>3, WindowStop, WindowGoto DEF PC
<1>3. CASE RenewCheck(p) \/ StepUpCheck(p)
  <2>1. UNCHANGED <<clock, passkeys, removedAt, cookies>> /\ r.pc \in {"renewCheck", "stepCheck"}
    BY <1>3 DEF RenewCheck, StepUpCheck, At
  <2>2. CASE Stop(p)
    BY <2>1, <2>2, WindowStop
  <2>3. CASE ~Stop(p)
    <3>1. PasskeyStillValid(r.sess) /\ \E pc \in {"renewIssue", "stepIssue"} : Goto(p, pc)
      BY <1>3, <2>3 DEF RenewCheck, StepUpCheck
    <3>2. r.sess.pk \in Passkey => removedAt[r.sess.pk] = 0
      BY <1>b, <3>1 DEF PasskeyStillValid
    <3> QED
      BY <1>a, <2>1, <3>1, <3>2, WindowGoto DEF PC
  <2> QED
    BY <2>2, <2>3
<1>4. CASE RenewIssue(p) \/ StepUpIssue(p)
  <2>1. UNCHANGED <<clock, passkeys, removedAt>> /\ r.pc \in {"renewIssue", "stepIssue"}
    BY <1>4 DEF RenewIssue, StepUpIssue, At
  <2>2. r.sess.pk \in Passkey /\ removedAt[r.sess.pk] # 0 => r.now <= removedAt[r.sess.pk]
    BY <2>1 DEF WindowInv, WindowOK
  <2>3. ASSUME NEW s, s = Renewed(r.sess, r.now) PROVE DatesBack(s) /\ PasskeyKind(s)
    <3>1. s.pk = r.sess.pk /\ s.kind = r.sess.kind /\ s.iat = r.now
      BY <1>a, <2>3 DEF Renewed, Session
    <3> QED
      BY <1>a, <2>2, <3>1 DEF DatesBack, PasskeyKind
  <2>4. \A s \in cookies' \ cookies : DatesBack(s) /\ PasskeyKind(s)
    BY <1>4, <2>3 DEF RenewIssue, StepUpIssue, IssueSession
  <2>5. CASE Stop(p)
    BY <2>1, <2>4, <2>5, WindowStop
  <2>6. CASE Goto(p, "verifyAnswer")
    <3>1. r.sess.pk \in Passkey /\ removedAt[r.sess.pk] # 0 => r.now <= removedAt[r.sess.pk] + RenewAfter
      BY <1>a, <2>2
    <3> QED
      BY <1>a, <2>1, <2>4, <2>6, <3>1, WindowGoto DEF PC
  <2> QED
    BY <1>4, <2>5, <2>6 DEF RenewIssue, StepUpIssue
<1>5. CASE Issue(p)
  <2>1. UNCHANGED <<clock, passkeys, removedAt>> /\ r.pc = "issue" /\ Stop(p)
    BY <1>5 DEF Issue, At
  <2>2. \A s \in cookies' \ cookies : DatesBack(s) /\ PasskeyKind(s)
    BY <1>5, <1>a, <2>1 DEF Issue, IssueSession
  <2> QED
    BY <2>1, <2>2, WindowStop
<1>6. CASE PasskeyLookup(p)
  <2>1. UNCHANGED <<clock, passkeys, removedAt, cookies>>
    BY <1>6 DEF PasskeyLookup
  <2>2. CASE Stop(p)
    BY <2>1, <2>2, WindowStop
  <2>3. CASE Goto(p, "issue") /\ passkeys[r.sess.pk] = "live"
    <3>1. DatesBack(r.sess)
      BY <1>b, <2>3 DEF DatesBack
    <3> QED
      BY <1>a, <2>1, <2>3, <3>1, WindowGoto DEF PC
  <2> QED
    BY <1>6, <2>2, <2>3 DEF PasskeyLookup
<1>7. CASE VerifyAnswer(p) \/ StepUpRead(p) \/ EndSessionsBefore(p) \/ EndSessionsFails(p)
  <2>1. UNCHANGED <<clock, passkeys, removedAt, cookies>> /\ r.pc # "passkeyLookup"
    BY <1>7 DEF VerifyAnswer, StepUpRead, EndSessionsBefore, EndSessionsFails, At
  <2>2. Stop(p) \/ \E pc \in {"stepCheck", "endMemory"} : Goto(p, pc)
    BY <1>7 DEF VerifyAnswer, StepUpRead, EndSessionsBefore, EndSessionsFails
  <2> QED
    BY <1>a, <2>1, <2>2, WindowStop, WindowGoto DEF PC
<1>8. CASE GrantLookup(p) \/ SignOutRead(p) \/ EndArg(p) \/ EndInMemory(p)
  <2>1. UNCHANGED <<clock, passkeys, removedAt, cookies>> /\ r.pc # "passkeyLookup"
    BY <1>8 DEF GrantLookup, SignOutRead, EndArg, EndInMemory, At
  <2> DEFINE granted == CardSession(r.key, r.gen, r.now)
             h0 == [r EXCEPT !.pc = "issue", !.sess = granted]
             h1 == [r EXCEPT !.pc = "endDB", !.op = "person", !.todo = {r.sess.who}, !.key = r.sess.who, !.at = r.now]
             h2(k) == [r EXCEPT !.pc = "endDB", !.key = k, !.at = clock]
             h3 == [r EXCEPT !.pc = "endArg", !.todo = r.todo \ {r.key}]
  <2>2. /\ h0.pc = "issue" /\ h0.now = r.now /\ h0.sess = granted /\ granted.pk \notin Passkey
        /\ h1.pc = "endDB" /\ h1.now = r.now /\ h1.sess = r.sess
        /\ h3.pc = "endArg" /\ h3.now = r.now /\ h3.sess = r.sess
    BY <1>a, ConstantsAssumption DEF Handler, CardSession, Key
  <2>3. \A k : h2(k).pc = "endDB" /\ h2(k).now = r.now /\ h2(k).sess = r.sess
    BY <1>a DEF Handler
  <2>4. Stop(p) \/ Become(p, h0) \/ Become(p, h1) \/ (\E k : Become(p, h2(k))) \/ Become(p, h3)
    BY <1>8 DEF GrantLookup, SignOutRead, EndArg, EndInMemory
  <2> HIDE DEF h0, h1, h2, h3, granted
  <2>5. ASSUME NEW h, Become(p, h), h.pc \in {"issue", "endDB", "endArg"}, h.now = r.now,
               h.sess = r.sess \/ h.sess.pk \notin Passkey
        PROVE  WindowInv'
    <3>1. WindowOK(h)
      BY <1>a, <2>1, <2>5 DEF WindowOK, PasskeyKind, DatesBack
    <3> QED
      BY <2>1, <2>5, <3>1, WindowMove
  <2> QED
    BY <2>1, <2>2, <2>3, <2>4, <2>5, WindowStop
<1>9. CASE DeletePasskeys(p)
  <2>1. /\ UNCHANGED <<clock, cookies>> /\ r.pc = "deletePasskeys"
        /\ passkeys' = DeletedKeys(LiveOf(r.sess.who)) /\ removedAt' = DeletedTimes(LiveOf(r.sess.who))
    BY <1>9 DEF DeletePasskeys, At
  <2>2. Stop(p) \/ Goto(p, "endArg")
    BY <1>9 DEF DeletePasskeys
  <2> QED
    BY <1>a, <2>1, <2>2, DeleteWindow
<1> QED
  BY <1>1, <1>2, <1>3, <1>4, <1>5, <1>6, <1>7, <1>8, <1>9 DEF Continue

\* A handler that begins keeps the window.
LEMMA WindowBegin ==
  ASSUME TypeOK, WindowInv, NEW p \in Proc, Begin(p)
  PROVE  WindowInv'
<1> USE DEF dbVars, history
<1>1. ASSUME NEW k \in Passkey, RemovePasskey(p, k) PROVE WindowInv'
  <2> DEFINE h == [Idle EXCEPT !.pc = "endArg", !.op = "passkey", !.todo = {k}]
  <2>1. h.now = 0 /\ h.sess = NoSession
    BY DEF Idle
  <2>2. passkeys' = DeletedKeys({k}) /\ removedAt' = DeletedTimes({k}) /\ UNCHANGED <<clock, cookies>> /\ Become(p, h)
    BY <1>1 DEF RemovePasskey
  <2> HIDE DEF h
  <2> QED
    BY <2>1, <2>2, DeleteWindow
<1>2. CASE ~\E k \in Passkey : RemovePasskey(p, k)
  <2>1. UNCHANGED <<clock, passkeys, removedAt, cookies>>
    BY <1>2 DEF Begin, VerifyBegin, StepUpBegin, SignOutBegin, LoginBegin, AdminEndSessions,
                ListPasskeys, PasskeyLoginBegin, GrantBegin, Revoke, Remint
  <2>2. PICK h : Become(p, h) /\ TakesOn(h)
    BY BeginForms
  <2> QED
    BY <2>1, <2>2, TakenWindow, WindowMove
<1> QED
  BY <1>1, <1>2

\* Every step keeps the window.
LEMMA WindowStep == TypeOK /\ WindowInv /\ [Next]_vars => WindowInv'
<1> SUFFICES ASSUME TypeOK, WindowInv, [Next]_vars PROVE WindowInv'
  OBVIOUS
<1> USE DEF dbVars, history
<1>1. ASSUME NEW p \in Proc, Begin(p) \/ Continue(p) PROVE WindowInv'
  BY <1>1, WindowBegin, WindowContinue
<1>2. ASSUME NEW k \in Passkey, RegisterPasskey(k) PROVE WindowInv'
  <2>1. RowsOK'
    BY <1>2 DEF RegisterPasskey, WindowInv, RowsOK, TypeOK
  <2>2. UNCHANGED <<clock, removedAt, cookies, req>>
    BY <1>2 DEF RegisterPasskey
  <2> QED
    BY <2>1, <2>2 DEF WindowInv, WindowOK, DatesBack, PasskeyKind
<1>3. CASE Tick
  <2>1. UNCHANGED <<passkeys, removedAt, cookies, req>> /\ clock' = clock + 1 /\ clock \in Nat
    BY <1>3 DEF Tick, TypeOK
  <2>2. RowsOK'
    BY <2>1 DEF WindowInv, RowsOK, TypeOK
  <2>3. ASSUME NEW s \in Session, PasskeyKind(s) PROVE PasskeyKind(s)' /\ (DatesBack(s) => DatesBack(s)')
    BY <2>1, <2>3 DEF PasskeyKind, DatesBack, Session
  <2>4. \A s \in cookies' : DatesBack(s)' /\ PasskeyKind(s)'
    BY <2>1, <2>3 DEF WindowInv, TypeOK
  <2>5. ASSUME NEW q \in Proc PROVE WindowOK(req[q])'
    <3>1. PasskeyKind(req[q].sess)' /\ (DatesBack(req[q].sess) => DatesBack(req[q].sess)')
      BY <2>1, HandlerType DEF WindowInv, WindowOK, PasskeyKind, DatesBack, Session
    <3> QED
      BY <2>1, <3>1, HandlerType DEF WindowInv, WindowOK
  <2> QED
    BY <2>2, <2>4, <2>5 DEF WindowInv
<1>4. CASE Restart
  <2>1. UNCHANGED <<clock, passkeys, removedAt, cookies>> /\ req' = [p \in Proc |-> Idle]
    BY <1>4 DEF Restart
  <2> QED
    BY <2>1, IdleWindow DEF WindowInv, RowsOK, WindowOK, DatesBack, PasskeyKind
<1>5. CASE UNCHANGED vars
  BY <1>5 DEF vars, WindowInv, RowsOK, WindowOK, DatesBack, PasskeyKind
<1> QED
  BY <1>1, <1>2, <1>3, <1>4, <1>5 DEF Next

\* However the removal of a passkey ends after its row is deleted, no request of
\* a session it began is answered once a renewal has come due
\* (handlePasskeyRemove, passkeyStillValid).
THEOREM RemovedPasskeysAreBrief == Spec => []RemovedPasskeyWindow
<1>1. Init => WindowInv
  <2> SUFFICES ASSUME Init PROVE WindowInv
    OBVIOUS
  <2>1. \A s \in cookies : s.pk \notin Passkey
    BY ConstantsAssumption, OutstandingAssumption DEF Init, Key
  <2>2. \A p \in Proc : WindowOK(req[p])
    BY InitType, IdleWindow DEF Init
  <2> QED
    BY <2>1, <2>2 DEF Init, WindowInv, RowsOK, DatesBack, PasskeyKind
<1>2. WindowInv => RemovedPasskeyWindow
  BY DEF WindowInv, WindowOK, RemovedPasskeyWindow
<1> QED
  BY <1>1, <1>2, TypeCorrect, WindowStep, PTL DEF Spec

-----------------------------------------------------------------------------
(* A card's code that was revoked or replaced opens nothing, and what it    *)
(* opened has ended.  A grant and an end of sessions are several steps      *)
(* each: what decides is that no code is live again once it is not.         *)

\* The sessions there are, in cookies and in handlers.
Sessions == cookies \cup {req[p].sess : p \in Proc}

\* What a session of a card says of its code, and of the end of its sessions.
CardOK(s) ==
    s.card \in Card =>
        /\ 1 <= s.gen /\ s.gen <= cards[s.card].gen /\ s.born <= clock
        /\ s.gen <= retired[s.card] => promised[s.card] # 0 /\ s.born <= promised[s.card]

\* A handler that ends the sessions of a card found its code dead, and once it
\* has its cutoff every session of that code began before.
RetireOK(h) ==
    /\ h.pc = "grantLookup" => h.now <= clock
    /\ h.op = "card" => \A c \in h.todo : Dead(c, h.gen)
    /\ h.op = "card" /\ h.pc \in {"endDB", "endMemory"} =>
         /\ h.at # 0
         /\ \A s \in Sessions : s.card = h.key /\ s.gen <= h.gen => s.born <= h.at

CardsOK == \A c \in Card : cards[c].gen >= 1 /\ Dead(c, retired[c])

RetireInv ==
    /\ CardsOK
    /\ \A s \in Sessions : CardOK(s)
    /\ \A p \in Proc : RetireOK(req[p])

\* A session that comes says of its card what another session said, or was just
\* granted on a live code.
Comes(s) ==
    s.card \in Card =>
        \/ \E t \in Sessions : t.card = s.card /\ t.gen = s.gen /\ t.born = s.born
        \/ s.gen = cards[s.card].gen /\ cards[s.card].active /\ s.born <= clock

\* The empty handler, and whoever signs in by other means, has no card.
LEMMA NoCard ==
  /\ Comes(NoSession) /\ RetireOK(Idle) /\ NoSession.card \notin Card
  /\ \A w, t, ttl, k : NormalSession(w, t, ttl, k).card \notin Card
<1>1. None \notin Card
  BY ConstantsAssumption DEF Key
<1> QED
  BY <1>1 DEF Comes, RetireOK, Idle, NoSession, NormalSession

\* Types of the cards, and of what is said of them.
LEMMA CardTypes ==
  ASSUME TypeOK
  PROVE  /\ clock \in Nat /\ clock # 0
         /\ \A c \in Card : /\ cards[c].gen \in Nat /\ cards[c].active \in BOOLEAN
                            /\ retired[c] \in Nat /\ promised[c] \in Nat /\ c \in Key
         /\ \A s \in Sessions : s \in Session /\ s.gen \in Nat /\ s.born \in Nat
<1>1. \A s \in Sessions : s \in Session
  BY DEF TypeOK, Sessions, Handler
<1> QED
  BY <1>1 DEF TypeOK, Key, Session

\* A session that comes is as good as those there are, and no session of a dead
\* code comes that did not begin before its end.
LEMMA ComesOK ==
  ASSUME TypeOK, RetireInv, NEW s, Comes(s)
  PROVE  /\ CardOK(s)
         /\ \A h : /\ RetireOK(h) /\ ReadyForNextStep(h) /\ h.op = "card" /\ h.pc \in {"endDB", "endMemory"}
                   /\ s.card = h.key /\ h.gen \in Nat /\ s.gen <= h.gen
                   => s.born <= h.at
<1>1. CASE s.card \notin Card
  <2>1. ASSUME NEW h, RetireOK(h), ReadyForNextStep(h), h.op = "card", h.pc \in {"endDB", "endMemory"}, s.card = h.key
        PROVE  FALSE
    BY <1>1, <2>1 DEF ReadyForNextStep
  <2> QED
    BY <1>1, <2>1 DEF CardOK
<1>2. ASSUME NEW t \in Sessions, t.card = s.card, t.gen = s.gen, t.born = s.born, s.card \in Card
      PROVE  /\ CardOK(s)
             /\ \A h : /\ RetireOK(h) /\ ReadyForNextStep(h) /\ h.op = "card" /\ h.pc \in {"endDB", "endMemory"}
                       /\ s.card = h.key /\ h.gen \in Nat /\ s.gen <= h.gen
                       => s.born <= h.at
  BY <1>2 DEF RetireInv, CardOK, RetireOK
<1>3. CASE s.card \in Card /\ s.gen = cards[s.card].gen /\ cards[s.card].active /\ s.born <= clock
  <2>1. cards[s.card].gen \in Nat /\ retired[s.card] \in Nat
    BY <1>3, CardTypes
  <2>2. \A g \in Nat : Dead(s.card, g) => g < s.gen
    BY <1>3, <2>1 DEF Dead
  <2>3. 1 <= s.gen /\ ~(s.gen <= retired[s.card])
    BY <1>3, <2>1, <2>2 DEF RetireInv, CardsOK
  <2>4. ASSUME NEW h, RetireOK(h), ReadyForNextStep(h), h.op = "card", h.pc \in {"endDB", "endMemory"},
               s.card = h.key, h.gen \in Nat, s.gen <= h.gen
        PROVE  FALSE
    BY <1>3, <2>1, <2>2, <2>4 DEF RetireOK, ReadyForNextStep
  <2> QED
    BY <1>3, <2>1, <2>3, <2>4 DEF CardOK
<1> QED
  BY <1>1, <1>2, <1>3 DEF Comes

\* It is enough to look at what one handler takes on and what it issues.
LEMMA RetireMove ==
  ASSUME TypeOK, TypeOK', RetireInv, UNCHANGED <<clock, cards, promised, retired>>,
         NEW p \in Proc, NEW h, Become(p, h), RetireOK(h), Comes(h.sess),
         \A s \in cookies' \ cookies : Comes(s)
  PROVE  RetireInv'
<1>1. req'[p] = h /\ \A q \in Proc : q # p => req'[q] = req[q]
  BY DEF Become, TypeOK
<1>2. \A s \in Sessions : Comes(s)
  BY DEF Comes
<1>3. ASSUME NEW s \in Sessions' PROVE Comes(s)
  BY <1>1, <1>2, <1>3 DEF Sessions
<1>4. \A s \in Sessions' : CardOK(s)'
  BY <1>3, ComesOK DEF CardOK
<1>5. ASSUME NEW q \in Proc PROVE RetireOK(req[q])'
  <2>1. PICK g : g = req'[q]
    OBVIOUS
  <2>2. RetireOK(g) /\ ReadyForNextStep(g) /\ g.gen \in Nat
    BY <1>1, <2>1 DEF RetireInv, TypeOK, Handler
  <2>3. ASSUME g.op = "card", g.pc \in {"endDB", "endMemory"}, NEW s \in Sessions', s.card = g.key, s.gen <= g.gen
        PROVE  s.born <= g.at
    BY <1>3, <2>2, <2>3, ComesOK
  <2>4. RetireOK(g)'
    BY <2>2, <2>3 DEF RetireOK, Dead
  <2> QED
    BY <2>1, <2>4 DEF RetireOK
<1> QED
  BY <1>4, <1>5 DEF RetireInv, CardsOK, Dead

\* A handler that moves on ends the same code with the same cutoff.
LEMMA RetireGoto ==
  ASSUME TypeOK, TypeOK', RetireInv, UNCHANGED <<clock, cards, promised, retired>>, NEW p \in Proc,
         \/ Stop(p)
         \/ \E pc \in PC \ {"grantLookup", "endDB", "endMemory"} : Goto(p, pc)
         \/ At(p, "endDB") /\ Goto(p, "endMemory"),
         \A s \in cookies' \ cookies : Comes(s)
  PROVE  RetireInv'
<1>1. CASE Stop(p)
  <2>1. Idle.sess = NoSession
    BY DEF Idle
  <2> QED
    BY <1>1, <2>1, NoCard, RetireMove DEF Stop
<1>2. ASSUME NEW pc \in PC, Goto(p, pc),
             pc \notin {"grantLookup", "endDB", "endMemory"} \/ (req[p].pc = "endDB" /\ pc = "endMemory")
      PROVE  RetireInv'
  <2> DEFINE h == [req[p] EXCEPT !.pc = pc]
  <2>1. /\ h.pc = pc /\ h.sess = req[p].sess /\ h.op = req[p].op /\ h.todo = req[p].todo
        /\ h.key = req[p].key /\ h.at = req[p].at /\ h.gen = req[p].gen
    BY HandlerType DEF Handler
  <2>2. Become(p, h) /\ RetireOK(req[p])
    BY <1>2 DEF Goto, RetireInv
  <2> HIDE DEF h
  <2>3. RetireOK(h)
    BY <1>2, <2>1, <2>2 DEF RetireOK
  <2>4. Comes(h.sess)
    BY <2>1 DEF Comes, Sessions
  <2> QED
    BY <2>2, <2>3, <2>4, RetireMove
<1>3. "endMemory" \in PC
  BY DEF PC
<1> QED
  BY <1>1, <1>2, <1>3 DEF At

\* Memory follows the database, the call returns, and what was opened with the
\* codes it ended began before its cutoff (endSessions).
LEMMA RetireReturns ==
  ASSUME TypeOK, TypeOK', RetireInv, NEW p \in Proc, EndInMemory(p)
  PROVE  RetireInv'
<1> USE DEF dbVars, history
<1> DEFINE r == req[p]
<1>1. /\ r \in Handler /\ r.at \in Nat /\ r.gen \in Nat /\ r.pc = "endMemory" /\ r.key \in r.todo
      /\ r.op = "card" => r.todo \subseteq Card
      /\ RetireOK(r)
  BY HandlerType DEF EndInMemory, At, ReadyForNextStep, RetireInv
<1>2. UNCHANGED <<clock, cards, cookies>>
  BY DEF EndInMemory
<1>3. \A c \in Card : \/ retired'[c] = retired[c]
                      \/ r.op = "card" /\ c = r.key /\ retired'[c] = r.gen
  BY <1>1 DEF EndInMemory, Later, TypeOK
<1>4. \A c \in Card : promised[c] <= promised'[c] /\ (c = r.key => r.at <= promised'[c])
  BY <1>1, CardTypes DEF EndInMemory, Later, TypeOK, Key
<1>5. PICK h : /\ Become(p, h) /\ h.sess \in {r.sess, NoSession} /\ h.pc \in {"idle", "endArg"}
               /\ h.op = "card" => r.op = "card" /\ h.todo \subseteq r.todo /\ h.gen = r.gen
  <2> DEFINE g == [r EXCEPT !.pc = "endArg", !.todo = r.todo \ {r.key}]
  <2>1. /\ g.pc = "endArg" /\ g.sess = r.sess /\ g.op = r.op /\ g.gen = r.gen /\ g.todo = r.todo \ {r.key}
        /\ Idle.pc = "idle" /\ Idle.sess = NoSession /\ Idle.op = "none"
    BY <1>1 DEF Handler, Idle
  <2>2. Become(p, g) \/ Become(p, Idle)
    BY DEF EndInMemory, Stop
  <2> HIDE DEF g
  <2> QED
    BY <2>1, <2>2
<1>6. req'[p] = h /\ \A q \in Proc : q # p => req'[q] = req[q]
  BY <1>5 DEF Become, TypeOK
<1>7. \A s \in Sessions' : s \in Sessions \/ s = NoSession
  BY <1>2, <1>5, <1>6 DEF Sessions
<1>8. CardsOK'
  BY <1>1, <1>2, <1>3 DEF RetireInv, CardsOK, RetireOK, Dead
<1>9. ASSUME NEW s \in Sessions' PROVE CardOK(s)'
  <2>1. CASE s.card \notin Card
    BY <2>1 DEF CardOK
  <2>2. CASE s.card \in Card
    <3>1. s \in Sessions
      BY <1>7, <2>2, NoCard
    <3>2. CardOK(s) /\ s.gen \in Nat /\ s.born \in Nat
      BY <3>1, CardTypes DEF RetireInv
    <3>3. /\ retired[s.card] \in Nat /\ promised[s.card] \in Nat /\ promised'[s.card] \in Nat
      BY <2>2, CardTypes DEF TypeOK, Key
    <3>4. CASE retired'[s.card] = retired[s.card]
      BY <1>2, <1>4, <2>2, <3>2, <3>3, <3>4 DEF CardOK
    <3>5. CASE r.op = "card" /\ s.card = r.key /\ retired'[s.card] = r.gen
      <4>1. r.at # 0 /\ (s.gen <= r.gen => s.born <= r.at)
        BY <1>1, <3>1, <3>5 DEF RetireOK
      <4> QED
        BY <1>1, <1>2, <1>4, <2>2, <3>2, <3>3, <3>5, <4>1 DEF CardOK
    <3> QED
      BY <1>3, <2>2, <3>4, <3>5
  <2> QED
    BY <2>1, <2>2
<1>10. ASSUME NEW q \in Proc PROVE RetireOK(req[q])'
  <2>1. PICK g : g = req'[q]
    OBVIOUS
  <2>2. CASE q = p
    <3>1. g = h
      BY <1>6, <2>1, <2>2
    <3>2. RetireOK(g)'
      BY <1>1, <1>2, <1>5, <3>1 DEF RetireOK, Dead
    <3> QED
      BY <2>1, <3>2 DEF RetireOK
  <2>3. CASE q # p
    <3>1. RetireOK(g) /\ ReadyForNextStep(g) /\ g.gen \in Nat
      BY <1>6, <2>1, <2>3, HandlerType DEF RetireInv
    <3>2. ASSUME g.op = "card", g.pc \in {"endDB", "endMemory"}, NEW s \in Sessions', s.card = g.key, s.gen <= g.gen
          PROVE  s.born <= g.at
      <4>1. s.card \in Card
        BY <3>1, <3>2 DEF ReadyForNextStep
      <4>2. s \in Sessions
        BY <1>7, <4>1, NoCard, <3>2
      <4> QED
        BY <3>1, <3>2, <4>2 DEF RetireOK
    <3>3. RetireOK(g)'
      BY <1>2, <3>1, <3>2 DEF RetireOK, Dead
    <3> QED
      BY <2>1, <3>3 DEF RetireOK
  <2> QED
    BY <2>2, <2>3
<1> QED
  BY <1>8, <1>9, <1>10 DEF RetireInv

\* A step of a handler keeps what is said of the codes (grantBreakGlass,
\* endSessions).
LEMMA RetireContinue ==
  ASSUME TypeOK, TypeOK', RetireInv, NEW p \in Proc, Continue(p)
  PROVE  RetireInv'
<1> USE DEF dbVars, history
<1> DEFINE r == req[p]
<1>a. /\ r \in Handler /\ r.sess \in Session /\ r.now \in Nat /\ r.gen \in Nat /\ Comes(r.sess) /\ RetireOK(r)
      /\ ReadyForNextStep(r)
  BY HandlerType DEF Comes, Sessions, RetireInv
<1>1. CASE RenewIssue(p) \/ StepUpIssue(p) \/ Issue(p)
  <2>1. UNCHANGED <<clock, cards, promised, retired>>
    BY <1>1 DEF RenewIssue, StepUpIssue, Issue
  <2>2. ASSUME NEW s, s = Renewed(r.sess, r.now) PROVE Comes(s)
    <3>1. s.card = r.sess.card /\ s.gen = r.sess.gen /\ s.born = r.sess.born
      BY <1>a, <2>2 DEF Renewed, Session
    <3> QED
      BY <3>1 DEF Comes, Sessions
  <2>3. \A s \in cookies' \ cookies : Comes(s)
    BY <1>1, <1>a, <2>2 DEF RenewIssue, StepUpIssue, Issue, IssueSession
  <2>4. Stop(p) \/ Goto(p, "verifyAnswer")
    BY <1>1 DEF RenewIssue, StepUpIssue, Issue
  <2> QED
    BY <2>1, <2>3, <2>4, RetireGoto DEF PC
<1>2. CASE GrantLookup(p)
  <2>1. UNCHANGED <<clock, cards, promised, retired, cookies>> /\ r.pc = "grantLookup"
    BY <1>2 DEF GrantLookup, At
  <2>2. CASE Stop(p)
    BY <2>1, <2>2, RetireGoto
  <2>3. CASE ~Stop(p)
    <3> DEFINE s == CardSession(r.key, r.gen, r.now)
               h == [r EXCEPT !.pc = "issue", !.sess = s]
    <3>1. cards[r.key] = [gen |-> r.gen, active |-> TRUE] /\ Become(p, h)
      BY <1>2, <2>3 DEF GrantLookup
    <3>2. s.card = r.key /\ s.gen = r.gen /\ s.born = r.now
      BY DEF CardSession
    <3>3. r.now <= clock
      BY <1>a, <2>1 DEF RetireOK
    <3> HIDE DEF s
    <3>4. Comes(s)
      BY <3>1, <3>2, <3>3 DEF Comes
    <3>5. h.sess = s /\ h.pc = "issue" /\ h.op = r.op /\ h.todo = r.todo /\ h.gen = r.gen
      BY <1>a DEF Handler
    <3> HIDE DEF h
    <3>6. RetireOK(h)
      BY <1>a, <3>5 DEF RetireOK
    <3> QED
      BY <2>1, <3>1, <3>4, <3>5, <3>6, RetireMove
  <2> QED
    BY <2>2, <2>3
<1>3. CASE SignOutRead(p)
  <2>1. UNCHANGED <<clock, cards, promised, retired, cookies>>
    BY <1>3 DEF SignOutRead
  <2> DEFINE h == [r EXCEPT !.pc = "endDB", !.op = "person", !.todo = {r.sess.who}, !.key = r.sess.who, !.at = r.now]
  <2>2. h.sess = r.sess /\ h.op = "person" /\ h.pc = "endDB"
    BY <1>a DEF Handler
  <2>3. Stop(p) \/ Become(p, h)
    BY <1>3 DEF SignOutRead
  <2> HIDE DEF h
  <2>4. RetireOK(h)
    BY <2>2 DEF RetireOK
  <2> QED
    BY <1>a, <2>1, <2>2, <2>3, <2>4, RetireGoto, RetireMove
<1>4. CASE EndArg(p)
  <2>1. UNCHANGED <<clock, cards, promised, retired, cookies>> /\ r.pc = "endArg"
    BY <1>4 DEF EndArg, At
  <2>2. PICK k \in r.todo : Become(p, [r EXCEPT !.pc = "endDB", !.key = k, !.at = clock])
    BY <1>4 DEF EndArg
  <2> DEFINE h == [r EXCEPT !.pc = "endDB", !.key = k, !.at = clock]
  <2>3. /\ h.sess = r.sess /\ h.op = r.op /\ h.pc = "endDB" /\ h.key = k /\ h.at = clock /\ h.todo = r.todo /\ h.gen = r.gen
    BY <1>a DEF Handler
  <2>4. Become(p, h)
    BY <2>2
  <2> HIDE DEF h
  <2>5. r.op = "card" => k \in Card
    BY <1>a DEF ReadyForNextStep
  <2>6. \A s \in Sessions : s.card \in Card => s.born <= clock
    BY DEF RetireInv, CardOK
  <2>7. RetireOK(h)
    BY <1>a, <2>3, <2>5, <2>6, CardTypes DEF RetireOK
  <2> QED
    BY <1>a, <2>1, <2>3, <2>4, <2>7, RetireMove
<1>5. CASE EndSessionsBefore(p)
  BY <1>5, RetireGoto DEF EndSessionsBefore
<1>6. CASE VerifyRead(p) \/ VerifyDecide(p) \/ RenewCheck(p) \/ VerifyAnswer(p) \/ PasskeyLookup(p)
           \/ StepUpRead(p) \/ StepUpCheck(p) \/ DeletePasskeys(p) \/ EndSessionsFails(p)
  <2>1. UNCHANGED <<clock, cards, promised, retired, cookies>>
    BY <1>6 DEF VerifyRead, VerifyDecide, RenewCheck, VerifyAnswer, PasskeyLookup, StepUpRead, StepUpCheck,
                DeletePasskeys, EndSessionsFails
  <2>2. Stop(p) \/ \E pc \in {"verifyDecide", "renewCheck", "verifyAnswer", "renewIssue", "issue", "stepCheck",
                              "stepIssue", "endArg"} : Goto(p, pc)
    BY <1>6 DEF VerifyRead, VerifyDecide, RenewCheck, VerifyAnswer, PasskeyLookup, StepUpRead, StepUpCheck,
                DeletePasskeys, EndSessionsFails
  <2> QED
    BY <2>1, <2>2, RetireGoto DEF PC
<1> QED
  BY <1>1, <1>2, <1>3, <1>4, <1>5, <1>6, RetireReturns DEF Continue

\* A handler that begins retires a code at most, and holds no new session of a
\* card (handleAdminBreakRevoke, handleAdminBreakRemint).
LEMMA RetireBegin ==
  ASSUME TypeOK, TypeOK', RetireInv, NEW p \in Proc, Begin(p)
  PROVE  RetireInv'
<1> USE DEF dbVars, history
<1>1. UNCHANGED <<clock, cookies, promised, retired>>
  BY DEF Begin, VerifyBegin, StepUpBegin, SignOutBegin, LoginBegin, AdminEndSessions, RemovePasskey,
         ListPasskeys, PasskeyLoginBegin, GrantBegin, Revoke, Remint
<1>2. ASSUME NEW c \in Card
      PROVE  cards[c].gen <= cards'[c].gen /\ \A g \in Nat : Dead(c, g) => Dead(c, g)'
  <2>0. cards[c].gen \in Nat
    BY CardTypes
  <2>1. CASE UNCHANGED cards
    BY <2>0, <2>1 DEF Dead
  <2>2. ASSUME NEW d \in Card, Revoke(p, d) PROVE cards'[c].gen = cards[c].gen /\ (cards'[c].active => cards[c].active)
    BY <2>2 DEF Revoke, TypeOK
  <2>3. ASSUME NEW d \in Card, Remint(p, d) PROVE cards'[c] = cards[c] \/ cards'[c].gen = cards[c].gen + 1
    BY <2>3 DEF Remint, TypeOK
  <2>4. UNCHANGED cards \/ \E d \in Card : Revoke(p, d) \/ Remint(p, d)
    BY DEF Begin, VerifyBegin, StepUpBegin, SignOutBegin, LoginBegin, AdminEndSessions, RemovePasskey,
           ListPasskeys, PasskeyLoginBegin, GrantBegin
  <2>5. CASE cards'[c].gen = cards[c].gen /\ (cards'[c].active => cards[c].active)
    BY <2>0, <2>5 DEF Dead
  <2>6. CASE cards'[c] = cards[c] \/ cards'[c].gen = cards[c].gen + 1
    BY <2>0, <2>6 DEF Dead
  <2> QED
    BY <2>1, <2>2, <2>3, <2>4, <2>5, <2>6
<1>3. PICK h : Become(p, h) /\ TakesOn(h)
  BY BeginForms
<1>4. req'[p] = h /\ \A q \in Proc : q # p => req'[q] = req[q]
  BY <1>3 DEF Become, TypeOK
<1>5. h.sess \in cookies \/ h.sess.card \notin Card
  BY <1>3, NoCard DEF TakesOn
<1>6. \A s \in Sessions' : s \in Sessions \/ s.card \notin Card
  BY <1>1, <1>4, <1>5 DEF Sessions
<1>7. CardsOK'
  <2> SUFFICES ASSUME NEW c \in Card PROVE cards'[c].gen >= 1 /\ Dead(c, retired[c])'
    BY DEF CardsOK
  <2>1. cards[c].gen >= 1 /\ cards[c].gen \in Nat /\ cards'[c].gen \in Nat /\ retired[c] \in Nat /\ Dead(c, retired[c])
    BY CardTypes DEF RetireInv, CardsOK, TypeOK
  <2>2. PICK g \in Nat : g = retired[c]
    BY <2>1
  <2>3. Dead(c, g)'
    BY <1>2, <2>1, <2>2
  <2> QED
    BY <1>1, <1>2, <2>1, <2>2, <2>3 DEF Dead
<1>8. ASSUME NEW s \in Sessions' PROVE CardOK(s)'
  <2>1. CASE s.card \in Card
    <3>1. CardOK(s) /\ s.gen \in Nat /\ cards[s.card].gen \in Nat /\ cards'[s.card].gen \in Nat
      BY <1>6, <2>1, CardTypes DEF RetireInv, TypeOK
    <3> QED
      BY <1>1, <1>2, <2>1, <3>1 DEF CardOK
  <2> QED
    BY <2>1 DEF CardOK
<1>9. ASSUME NEW q \in Proc PROVE RetireOK(req[q])'
  <2>1. PICK g : g = req'[q]
    OBVIOUS
  <2>2. CASE q = p
    <3>1. /\ g.pc \notin {"endDB", "endMemory"} /\ g.now <= clock
          /\ g.op = "card" => \A c \in g.todo : Dead(c, g.gen)'
      BY <1>3, <1>4, <2>1, <2>2, CardTypes DEF TakesOn
    <3>2. RetireOK(g)'
      BY <1>1, <3>1 DEF RetireOK
    <3> QED
      BY <2>1, <3>2 DEF RetireOK, Dead
  <2>3. CASE q # p
    <3>1. RetireOK(g) /\ ReadyForNextStep(g) /\ g.gen \in Nat
      BY <1>4, <2>1, <2>3, HandlerType DEF RetireInv
    <3>2. g.op = "card" => \A c \in g.todo : Dead(c, g.gen)'
      BY <1>2, <3>1 DEF RetireOK, ReadyForNextStep
    <3>3. ASSUME g.op = "card", g.pc \in {"endDB", "endMemory"}, NEW s \in Sessions', s.card = g.key, s.gen <= g.gen
          PROVE  s.born <= g.at
      <4>1. s.card \in Card
        BY <3>1, <3>3 DEF ReadyForNextStep
      <4> QED
        BY <1>6, <3>1, <3>3, <4>1 DEF RetireOK
    <3>4. RetireOK(g)'
      BY <1>1, <3>1, <3>2, <3>3 DEF RetireOK
    <3> QED
      BY <2>1, <3>4 DEF RetireOK, Dead
  <2> QED
    BY <2>2, <2>3
<1> QED
  BY <1>7, <1>8, <1>9 DEF RetireInv

\* Every step keeps what is said of the codes.
LEMMA RetireStep == TypeOK /\ RetireInv /\ [Next]_vars => RetireInv'
<1> SUFFICES ASSUME TypeOK, RetireInv, [Next]_vars PROVE RetireInv'
  OBVIOUS
<1> USE DEF dbVars, history
<1>0. TypeOK'
  BY NextType
<1>1. ASSUME NEW p \in Proc, Begin(p) \/ Continue(p) PROVE RetireInv'
  BY <1>0, <1>1, RetireBegin, RetireContinue
<1>2. ASSUME UNCHANGED <<cards, cookies, req, promised, retired>>, clock' >= clock, clock' \in Nat
      PROVE  RetireInv'
  <2>1. Sessions' = Sessions /\ CardsOK'
    BY <1>2 DEF Sessions, RetireInv, CardsOK, Dead
  <2>2. ASSUME NEW s \in Sessions PROVE CardOK(s)'
    BY <1>2, <2>2, CardTypes DEF RetireInv, CardOK
  <2>3. ASSUME NEW q \in Proc PROVE RetireOK(req[q])'
    <3>1. RetireOK(req[q]) /\ req[q].now \in Nat
      BY HandlerType DEF RetireInv
    <3> QED
      BY <1>2, <2>1, <3>1, CardTypes DEF RetireOK, Dead
  <2> QED
    BY <2>1, <2>2, <2>3 DEF RetireInv
<1>3. CASE Tick \/ UNCHANGED vars \/ \E k \in Passkey : RegisterPasskey(k)
  BY <1>2, <1>3, CardTypes DEF Tick, vars, RegisterPasskey
<1>4. CASE Restart
  <2>1. UNCHANGED <<clock, cards, cookies, promised, retired>> /\ req' = [p \in Proc |-> Idle]
    BY <1>4 DEF Restart
  <2>2. \A s \in Sessions' : s \in Sessions \/ s = NoSession
    BY <2>1 DEF Sessions, Idle
  <2>3. \A s \in Sessions' : CardOK(s)'
    BY <2>1, <2>2, NoCard DEF RetireInv, CardOK
  <2>4. \A q \in Proc : RetireOK(req[q])'
    BY <2>1 DEF RetireOK, Idle
  <2> QED
    BY <2>1, <2>3, <2>4 DEF RetireInv, CardsOK, Dead
<1> QED
  BY <1>1, <1>3, <1>4 DEF Next

\* Once revoking or re-minting a card has returned, no session granted by the
\* code it had is admitted, although the grant, the revocation and the end of its
\* sessions are steps of their own (handleAdminBreakRevoke, grantBreakGlass).
THEOREM RetiredCardsStayOut == Spec => RetiredCardsHold
<1>1. Init => RetireInv
  <2> SUFFICES ASSUME Init PROVE RetireInv
    OBVIOUS
  <2>1. \A s \in Sessions : s.card \notin Card
    BY NoCard, ConstantsAssumption, OutstandingAssumption DEF Init, Sessions, Idle, Key
  <2>2. CardsOK
    BY DEF Init, CardsOK, Dead
  <2>3. \A p \in Proc : RetireOK(req[p])
    BY NoCard DEF Init
  <2> QED
    BY <2>1, <2>2, <2>3 DEF RetireInv, CardOK
<1>2. ASSUME EndsInv, RetireInv, [Next]_vars, NEW p \in Proc, Admits(p), req[p].sess.card \in Card
      PROVE  req[p].sess.gen > retired[req[p].sess.card]
  <2> DEFINE s == req[p].sess
  <2>1. TypeOK /\ s \in Sessions
    BY <1>2 DEF EndsInv, Sessions
  <2>2. s.born \in Nat /\ s.gen \in Nat /\ CardOK(s) /\ retired[s.card] \in Nat /\ promised[s.card] \in Nat /\ s.card \in Key
    BY <1>2, <2>1, CardTypes DEF RetireInv
  <2>3. ~BegunBefore(s, promised)
    BY <1>2, EndedSessionsHold
  <2>4. ~(s.gen <= retired[s.card])
    BY <1>2, <2>2, <2>3 DEF CardOK, BegunBefore
  <2> QED
    BY <2>2, <2>4
<1>3. EndsInv /\ RetireInv /\ [Next]_vars =>
        [\A p \in Proc : Admits(p) /\ req[p].sess.card \in Card
             => req[p].sess.gen > retired[req[p].sess.card]]_vars
  BY <1>2
<1>4. EndsInv => TypeOK
  BY DEF EndsInv
<1> QED
  BY <1>1, <1>3, <1>4, EndsInvariant, RetireStep, PTL DEF Spec, RetiredCardsHold

-----------------------------------------------------------------------------
(* Signed cookies and cutoffs implement a table of sessions.  A cookie      *)
(* stands for the row of its sign-in, which is in the table until a cutoff  *)
(* in memory covers it.  What makes the two ways of dying the same is that  *)
(* the sign-in time a cookie carries is the true one, or was never known.   *)

\* The places where a handler holds a session it was given in a cookie.
FromCookie == {"verifyRead", "verifyDecide", "renewCheck", "renewIssue", "verifyAnswer",
               "stepRead", "stepCheck", "stepIssue", "signOutRead"}

\* Session s carries the time of its sign-in, or a mark that it is not known.
Dated(s) ==
    \/ s.born = 0 /\ s.auth \in {0, 1}
    \/ s.born = s.auth /\ s.auth \in Start..clock

HandDated(h) ==
    /\ Dated(h.sess)
    /\ h.pc = "grantLookup" => h.now \in Start..clock
    /\ h.pc \in FromCookie => h.sess \in cookies

\* Memory is never ahead of the database, which is what a restart loads.
DatabaseAhead == \A k \in Key : ended[k] <= dbEnded[k]

DatedInv ==
    /\ clock \in Start..MaxClock
    /\ \A s \in cookies : Dated(s)
    /\ \A p \in Proc : HandDated(req[p])

\* Nobody's session is dated.
LEMMA IdleDated == TypeOK => HandDated(Idle)
  BY ConstantsAssumption DEF HandDated, Dated, Idle, NoSession, FromCookie

\* It is enough to look at what one handler takes on and what it issues.
LEMMA DatedMove ==
  ASSUME TypeOK, DatedInv, clock' = clock, cookies \subseteq cookies', NEW p \in Proc, NEW h, Become(p, h), HandDated(h),
         \A s \in cookies' \ cookies : Dated(s)
  PROVE  DatedInv'
<1>1. req'[p] = h /\ \A q \in Proc : q # p => req'[q] = req[q]
  BY DEF Become, TypeOK
<1>2. \A s \in cookies' : Dated(s)'
  BY DEF DatedInv, Dated
<1>3. ASSUME NEW q \in Proc PROVE HandDated(req[q])'
  <2>1. PICK g : g = req'[q]
    OBVIOUS
  <2>2. HandDated(g)
    BY <1>1, <2>1 DEF DatedInv
  <2>3. HandDated(g)'
    BY <2>2 DEF HandDated, Dated
  <2> QED
    BY <2>1, <2>3 DEF HandDated, Dated
<1> QED
  BY <1>2, <1>3 DEF DatedInv

\* A handler that moves on holds the session it held.
LEMMA DatedGoto ==
  ASSUME TypeOK, DatedInv, clock' = clock, cookies \subseteq cookies', NEW p \in Proc,
         Stop(p) \/ \E pc \in PC \ {"grantLookup"} : Goto(p, pc) /\ (pc \in FromCookie => req[p].pc \in FromCookie),
         \A s \in cookies' \ cookies : Dated(s)
  PROVE  DatedInv'
<1>1. CASE Stop(p)
  BY <1>1, IdleDated, DatedMove DEF Stop
<1>2. ASSUME NEW pc \in PC \ {"grantLookup"}, Goto(p, pc), pc \in FromCookie => req[p].pc \in FromCookie PROVE DatedInv'
  <2> DEFINE h == [req[p] EXCEPT !.pc = pc]
  <2>1. h.pc = pc /\ h.sess = req[p].sess
    BY HandlerType DEF Handler
  <2>2. Become(p, h) /\ HandDated(req[p])
    BY <1>2 DEF Goto, DatedInv
  <2> HIDE DEF h
  <2>3. HandDated(h)
    BY <1>2, <2>1, <2>2 DEF HandDated
  <2> QED
    BY <2>2, <2>3, DatedMove
<1> QED
  BY <1>1, <1>2

\* A step of a handler keeps the dates (IssueSessionGrant's Auth, stepUpSession).
LEMMA DatedContinue ==
  ASSUME TypeOK, DatedInv, NEW p \in Proc, Continue(p)
  PROVE  DatedInv'
<1> USE DEF dbVars, history
<1> DEFINE r == req[p]
<1>a. r \in Handler /\ r.sess \in Session /\ HandDated(r) /\ Dated(r.sess)
  BY HandlerType DEF DatedInv, HandDated
<1>1. CASE RenewIssue(p) \/ StepUpIssue(p) \/ Issue(p)
  <2>1. clock' = clock /\ cookies \subseteq cookies' /\ r.pc \in {"renewIssue", "stepIssue", "issue"}
    BY <1>1 DEF RenewIssue, StepUpIssue, Issue, IssueSession, At
  <2>2. ASSUME NEW s, s = Renewed(r.sess, r.now) PROVE Dated(s)
    <3>1. s.born = r.sess.born /\ s.auth = (IF r.sess.auth = 0 THEN 1 ELSE r.sess.auth)
      BY <1>a, <2>2 DEF Renewed, Session
    <3> QED
      BY <1>a, <3>1, ConstantsAssumption DEF Dated
  <2>3. \A s \in cookies' \ cookies : Dated(s)
    BY <1>1, <1>a, <2>2 DEF RenewIssue, StepUpIssue, Issue, IssueSession
  <2>4. Stop(p) \/ (Goto(p, "verifyAnswer") /\ r.pc = "renewIssue")
    BY <1>1 DEF RenewIssue, StepUpIssue, Issue, At
  <2> QED
    BY <2>1, <2>3, <2>4, DatedGoto DEF PC, FromCookie
<1>2. CASE GrantLookup(p) \/ SignOutRead(p) \/ EndArg(p) \/ EndInMemory(p)
  <2>1. clock' = clock /\ cookies' = cookies
    BY <1>2 DEF GrantLookup, SignOutRead, EndArg, EndInMemory
  <2> DEFINE granted == CardSession(r.key, r.gen, r.now)
             h0 == [r EXCEPT !.pc = "issue", !.sess = granted]
             h1 == [r EXCEPT !.pc = "endDB", !.op = "person", !.todo = {r.sess.who}, !.key = r.sess.who, !.at = r.now]
             h2(k) == [r EXCEPT !.pc = "endDB", !.key = k, !.at = clock]
             h3 == [r EXCEPT !.pc = "endArg", !.todo = r.todo \ {r.key}]
  <2>2. /\ h0.pc = "issue" /\ h0.sess = granted /\ granted.born = r.now /\ granted.auth = r.now
        /\ h1.pc = "endDB" /\ h1.sess = r.sess /\ h3.pc = "endArg" /\ h3.sess = r.sess
    BY <1>a DEF Handler, CardSession
  <2>3. \A k : h2(k).pc = "endDB" /\ h2(k).sess = r.sess
    BY <1>a DEF Handler
  <2>4. \/ Stop(p) \/ (r.pc = "grantLookup" /\ Become(p, h0)) \/ Become(p, h1) \/ (\E k : Become(p, h2(k))) \/ Become(p, h3)
    BY <1>2 DEF GrantLookup, SignOutRead, EndArg, EndInMemory, At
  <2> HIDE DEF h0, h1, h2, h3, granted
  <2>5. ASSUME NEW h, Become(p, h), h.pc \in {"issue", "endDB", "endArg"}, Dated(h.sess) PROVE DatedInv'
    <3>1. HandDated(h)
      BY <2>5 DEF HandDated, FromCookie
    <3> QED
      BY <2>1, <2>5, <3>1, DatedMove
  <2>6. r.pc = "grantLookup" => Dated(h0.sess)
    BY <1>a, <2>2 DEF HandDated, Dated
  <2>7. CASE Stop(p)
    BY <2>1, <2>7, DatedGoto
  <2> QED
    BY <1>a, <2>2, <2>3, <2>4, <2>5, <2>6, <2>7
<1>3. CASE VerifyRead(p) \/ VerifyDecide(p) \/ RenewCheck(p) \/ VerifyAnswer(p) \/ StepUpRead(p) \/ StepUpCheck(p)
  <2>1. clock' = clock /\ cookies' = cookies /\ r.pc \in FromCookie
    BY <1>3 DEF VerifyRead, VerifyDecide, RenewCheck, VerifyAnswer, StepUpRead, StepUpCheck, At, FromCookie
  <2>2. Stop(p) \/ \E pc \in {"verifyDecide", "renewCheck", "verifyAnswer", "renewIssue", "stepCheck", "stepIssue"} : Goto(p, pc)
    BY <1>3 DEF VerifyRead, VerifyDecide, RenewCheck, VerifyAnswer, StepUpRead, StepUpCheck
  <2> QED
    BY <2>1, <2>2, DatedGoto DEF PC
<1>4. CASE PasskeyLookup(p) \/ DeletePasskeys(p) \/ EndSessionsBefore(p) \/ EndSessionsFails(p)
  <2>1. clock' = clock /\ cookies' = cookies
    BY <1>4 DEF PasskeyLookup, DeletePasskeys, EndSessionsBefore, EndSessionsFails
  <2>2. Stop(p) \/ \E pc \in {"issue", "endArg", "endMemory"} : Goto(p, pc)
    BY <1>4 DEF PasskeyLookup, DeletePasskeys, EndSessionsBefore, EndSessionsFails
  <2> QED
    BY <2>1, <2>2, DatedGoto DEF PC, FromCookie
<1> QED
  BY <1>1, <1>2, <1>3, <1>4 DEF Continue

\* Every step keeps the dates.
LEMMA DatedStep == TypeOK /\ DatedInv /\ [Next]_vars => DatedInv'
<1> SUFFICES ASSUME TypeOK, DatedInv, [Next]_vars PROVE DatedInv'
  OBVIOUS
<1> USE DEF dbVars, history
<1>a. clock \in Start..MaxClock /\ Start \in Nat /\ MaxClock \in Nat
  BY ConstantsAssumption DEF DatedInv
<1>1. ASSUME NEW p \in Proc, Begin(p) PROVE DatedInv'
  <2>1. clock' = clock /\ cookies' = cookies
    BY <1>1 DEF Begin, VerifyBegin, StepUpBegin, SignOutBegin, LoginBegin, AdminEndSessions, RemovePasskey,
                ListPasskeys, PasskeyLoginBegin, GrantBegin, Revoke, Remint
  <2>2. PICK h : Become(p, h) /\ TakesOn(h)
    BY <1>1, BeginForms
  <2>3. /\ Dated(NoSession)
        /\ \A w, t, ttl, k : t \in {0, clock} => Dated(NormalSession(w, t, ttl, k))
    BY <1>a DEF Dated, NoSession, NormalSession
  <2>4. Dated(h.sess)
    BY <2>2, <2>3 DEF TakesOn, DatedInv
  <2>5. HandDated(h)
    BY <1>a, <2>2, <2>4 DEF TakesOn, HandDated, FromCookie
  <2> QED
    BY <2>1, <2>2, <2>5, DatedMove
<1>2. ASSUME NEW p \in Proc, Continue(p) PROVE DatedInv'
  BY <1>2, DatedContinue
<1>3. CASE UNCHANGED <<clock, cookies, req>>
  BY <1>3 DEF DatedInv, HandDated, Dated
<1>4. CASE Tick
  BY <1>4, <1>a DEF Tick, DatedInv, HandDated, Dated
<1>5. CASE Restart
  <2>1. clock' = clock /\ cookies' = cookies /\ req' = [p \in Proc |-> Idle]
    BY <1>5 DEF Restart
  <2> QED
    BY <2>1, IdleDated DEF DatedInv, HandDated, Dated
<1> QED
  BY <1>1, <1>2, <1>3, <1>4, <1>5 DEF Next, RegisterPasskey, vars

\* Memory follows the database (endSessions, newSessionCutoffs).
LEMMA AheadStep == EndsInv /\ DatabaseAhead /\ [Next]_vars => DatabaseAhead'
<1> SUFFICES ASSUME EndsInv, DatabaseAhead, [Next]_vars PROVE DatabaseAhead'
  OBVIOUS
<1> USE DEF dbVars, history
<1>a. TypeOK /\ DatabaseFirst
  BY DEF EndsInv
<1>1. CASE UNCHANGED <<ended, dbEnded>>
  BY <1>1 DEF DatabaseAhead
<1>2. ASSUME NEW p \in Proc, EndSessionsBefore(p) PROVE DatabaseAhead'
  <2>1. req[p].key \in Key /\ req[p].at \in Nat
    BY <1>2, <1>a, EndKeyType, HandlerType DEF EndSessionsBefore, At
  <2> QED
    BY <1>2, <1>a, <2>1 DEF EndSessionsBefore, Raise, Later, DatabaseAhead, TypeOK
<1>3. ASSUME NEW p \in Proc, EndInMemory(p) PROVE DatabaseAhead'
  <2>1. req[p].key \in Key /\ req[p].at <= dbEnded[req[p].key]
    BY <1>3, <1>a, EndKeyType DEF EndInMemory, At, DatabaseFirst
  <2> QED
    BY <1>3, <1>a, <2>1 DEF EndInMemory, Raise, Later, DatabaseAhead, TypeOK
<1>4. CASE Restart
  BY <1>4, <1>a DEF Restart, DatabaseAhead, TypeOK
<1>5. ASSUME NEW p \in Proc, Begin(p) PROVE UNCHANGED <<ended, dbEnded>>
  BY <1>5 DEF Begin, VerifyBegin, StepUpBegin, SignOutBegin, LoginBegin, AdminEndSessions, RemovePasskey,
              ListPasskeys, PasskeyLoginBegin, GrantBegin, Revoke, Remint
<1>6. ASSUME NEW p \in Proc, Continue(p), ~EndSessionsBefore(p), ~EndInMemory(p) PROVE UNCHANGED <<ended, dbEnded>>
  BY <1>6 DEF Continue, VerifyRead, VerifyDecide, RenewCheck, RenewIssue, VerifyAnswer, PasskeyLookup, GrantLookup,
              Issue, StepUpRead, StepUpCheck, StepUpIssue, SignOutRead, DeletePasskeys, EndArg, EndSessionsFails
<1> QED
  BY <1>1, <1>2, <1>3, <1>4, <1>5, <1>6 DEF Next, Tick, RegisterPasskey, vars

\* A cutoff covers a cookie when it kills the row the cookie stands for.
LEMMA CoveredDies ==
  ASSUME NEW s \in Session, Dated(s), Honest(s), NEW c
  PROVE  Covered(s, c) <=> Table!Dies(SignInOf(s), c)
<1>1. AuthTime(s) = s.born
  BY ConstantsAssumption DEF Dated, AuthTime
<1>2. /\ SignInOf(s).who = s.who /\ SignInOf(s).auth = s.born /\ SignInOf(s).pk = s.pk /\ SignInOf(s).card = s.card
  BY DEF SignInOf
<1> QED
  BY <1>1, <1>2 DEF Covered, Table!Dies, Honest

\* Cutoffs in memory that move forward leave of the table what survives them.
LEMMA RowsSurvive ==
  ASSUME TypeOK, HonestSessions, DatedInv, cookies' = cookies,
         \A k \in Key : ended'[k] \in Nat /\ ended[k] <= ended'[k]
  PROVE  LiveRows' = Table!Survivors(LiveRows, ended')
<1>1. ASSUME NEW s \in cookies
      PROVE  /\ Covered(s, ended) <=> Table!Dies(SignInOf(s), ended)
             /\ Covered(s, ended') <=> Table!Dies(SignInOf(s), ended')
             /\ Table!Dies(SignInOf(s), ended) => Table!Dies(SignInOf(s), ended')
  <2>1. s \in Session /\ Dated(s) /\ Honest(s) /\ s.born \in Nat
    BY DEF TypeOK, DatedInv, HonestSessions, Session
  <2>2. /\ SignInOf(s).who = s.who /\ SignInOf(s).auth = s.born /\ SignInOf(s).pk = s.pk /\ SignInOf(s).card = s.card
    BY DEF SignInOf
  <2>3. \A k \in Person \cup Passkey \cup Card : ended[k] \in Nat /\ ended'[k] \in Nat /\ ended[k] <= ended'[k]
    BY DEF TypeOK, Key
  <2>4. Table!Dies(SignInOf(s), ended) => Table!Dies(SignInOf(s), ended')
    BY <2>1, <2>2, <2>3 DEF Table!Dies
  <2> QED
    BY <2>1, <2>4, CoveredDies
<1>2. PICK e : e = ended'
  OBVIOUS
<1>3. LiveRows' = {SignInOf(s) : s \in {c \in cookies : ~Covered(c, e)}}
  BY <1>2 DEF LiveRows, Covered, SignInOf, AuthTime
<1>4. {SignInOf(s) : s \in {c \in cookies : ~Covered(c, e)}} = Table!Survivors(LiveRows, e)
  BY <1>1, <1>2 DEF LiveRows, Table!Survivors
<1> QED
  BY <1>2, <1>3, <1>4

\* The row a handler answers with.
Answering == {"verifyDecide", "renewCheck", "renewIssue", "verifyAnswer"}
RowOf(h) == IF h.pc \in Answering THEN SignInOf(h.sess) ELSE None

\* What a handler that moves does to the rows that are answered with.
LEMMA RowsMove ==
  ASSUME TypeOK, NEW p \in Proc, NEW h, Become(p, h)
  PROVE  AdmittedRows' = [AdmittedRows EXCEPT ![p] = RowOf(h)] /\ AdmittedRows[p] = RowOf(req[p])
<1>1. req'[p] = h /\ \A q \in Proc : q # p => req'[q] = req[q]
  BY DEF Become, TypeOK
<1>2. AdmittedRows = [q \in Proc |-> RowOf(req[q])]
  BY DEF AdmittedRows, RowOf, Answering
<1>3. AdmittedRows' = [q \in Proc |-> RowOf(req'[q])]
  BY DEF AdmittedRows, RowOf, Answering, SignInOf
<1> QED
  BY <1>1, <1>2, <1>3

\* A handler that goes on with its row, or with none, or is admitted on one.
LEMMA AnswerStep ==
  ASSUME TypeOK, ended' = ended, LiveRows' = LiveRows, NEW p \in Proc, NEW h, Become(p, h),
         RowOf(h) \in {RowOf(req[p]), None} \cup LiveRows
  PROVE  [Table!TableNext]_(Table!tableVars)
<1>1. AdmittedRows' = [AdmittedRows EXCEPT ![p] = RowOf(h)] /\ AdmittedRows[p] = RowOf(req[p])
  BY RowsMove
<1>2. CASE RowOf(h) = RowOf(req[p])
  <2>1. AdmittedRows' = AdmittedRows
    BY <1>1, <1>2 DEF AdmittedRows
  <2> QED
    BY <2>1 DEF Table!tableVars
<1>3. CASE RowOf(h) = None
  BY <1>1, <1>3 DEF Table!TableNext, Table!Finish
<1>4. CASE RowOf(h) \in LiveRows
  BY <1>1, <1>4 DEF Table!TableNext, Table!Admit
<1> QED
  BY <1>2, <1>3, <1>4

\* A handler that moves on answers with the row it had, or is admitted on one.
LEMMA AnswerGoto ==
  ASSUME TypeOK, ended' = ended, LiveRows' = LiveRows, NEW p \in Proc,
         Stop(p) \/ \E pc \in PC : Goto(p, pc) /\ (pc \in Answering => req[p].pc \in Answering \/ SignInOf(req[p].sess) \in LiveRows)
  PROVE  [Table!TableNext]_(Table!tableVars)
<1>1. CASE Stop(p)
  <2>1. RowOf(Idle) = None
    BY DEF RowOf, Idle, Answering
  <2> QED
    BY <1>1, <2>1, AnswerStep DEF Stop
<1>2. ASSUME NEW pc \in PC, Goto(p, pc), pc \in Answering => req[p].pc \in Answering \/ SignInOf(req[p].sess) \in LiveRows
      PROVE  [Table!TableNext]_(Table!tableVars)
  <2> DEFINE h == [req[p] EXCEPT !.pc = pc]
  <2>1. h.pc = pc /\ h.sess = req[p].sess
    BY HandlerType DEF Handler
  <2>2. Become(p, h)
    BY <1>2 DEF Goto
  <2> HIDE DEF h
  <2>3. RowOf(h) \in {RowOf(req[p]), None} \cup LiveRows
    BY <1>2, <2>1 DEF RowOf
  <2> QED
    BY <2>2, <2>3, AnswerStep
<1> QED
  BY <1>1, <1>2

\* The table's actions: a sign-in adds its row, a renewal adds none, an end of
\* sessions deletes rows, and a request is admitted on a row that is there.
LEMMA TableContinue ==
  ASSUME EndsInv, EndsInv', DatedInv, NEW p \in Proc, Continue(p)
  PROVE  [Table!TableNext]_(Table!tableVars)
<1> USE DEF dbVars, history
<1> DEFINE r == req[p]
<1>a. /\ TypeOK /\ HonestSessions /\ TypeOK'
      /\ r \in Handler /\ r.sess \in Session /\ Dated(r.sess) /\ Honest(r.sess)
      /\ r.pc \in FromCookie => r.sess \in cookies
  BY HandlerType DEF EndsInv, DatedInv, HandDated, HonestSessions
<1>b. ASSUME cookies' = cookies, ended' = ended PROVE LiveRows' = LiveRows
  BY <1>b DEF LiveRows, Covered, SignInOf, AuthTime
<1>c. ASSUME NEW s, cookies' = cookies \cup {s}, ended' = ended
      PROVE  LiveRows' = LiveRows \cup (IF Covered(s, ended) THEN {} ELSE {SignInOf(s)})
  <2>1. LiveRows' = {SignInOf(t) : t \in {c \in cookies \cup {s} : ~Covered(c, ended)}}
    BY <1>c DEF LiveRows, Covered, SignInOf, AuthTime
  <2> QED
    BY <2>1 DEF LiveRows
<1>1. CASE RenewIssue(p) \/ StepUpIssue(p)
  <2>1. /\ ended' = ended /\ r.pc \in {"renewIssue", "stepIssue"} /\ IssueSession(Renewed(r.sess, r.now))
        /\ Stop(p) \/ (Goto(p, "verifyAnswer") /\ r.pc = "renewIssue")
    BY <1>1 DEF RenewIssue, StepUpIssue, At
  <2> DEFINE s == Renewed(r.sess, r.now)
  <2>2. /\ s.who = r.sess.who /\ s.born = r.sess.born /\ s.pk = r.sess.pk /\ s.card = r.sess.card /\ s.kind = r.sess.kind
        /\ s.auth = (IF r.sess.auth = 0 THEN 1 ELSE r.sess.auth)
    BY <1>a DEF Renewed, Session
  <2>3. AuthTime(s) = AuthTime(r.sess)
    BY <1>a, <2>2 DEF AuthTime, Session
  <2> HIDE DEF s
  <2>4. (Covered(s, ended) <=> Covered(r.sess, ended)) /\ SignInOf(s) = SignInOf(r.sess)
    BY <2>2, <2>3 DEF Covered, SignInOf
  <2>5. r.sess \in cookies
    BY <1>a, <2>1 DEF FromCookie
  <2>6. ~Covered(s, ended) => SignInOf(s) \in LiveRows
    BY <2>4, <2>5 DEF LiveRows
  <2>7. LiveRows' = LiveRows
    <3>1. CASE cookies' = cookies
      BY <1>b, <2>1, <3>1
    <3>2. CASE cookies' = cookies \cup {s}
      <4>1. LiveRows' = LiveRows \cup (IF Covered(s, ended) THEN {} ELSE {SignInOf(s)})
        BY <1>c, <2>1, <3>2
      <4> QED
        BY <2>6, <4>1
    <3>3. cookies' = cookies \/ cookies' = cookies \cup {s}
      BY <2>1 DEF IssueSession, s
    <3> QED
      BY <3>1, <3>2, <3>3
  <2> QED
    BY <1>a, <2>1, <2>7, AnswerGoto DEF PC, Answering
<1>2. CASE Issue(p)
  <2> DEFINE s == r.sess
  <2>1. ended' = ended /\ r.pc = "issue" /\ IssueSession(s) /\ Stop(p)
    BY <1>2 DEF Issue, At
  <2>2. CASE LiveRows' = LiveRows
    BY <1>a, <2>1, <2>2, AnswerGoto
  <2>3. CASE LiveRows' = LiveRows \cup {SignInOf(s)} /\ ~Covered(s, ended)
    <3>1. ~Table!Dies(SignInOf(s), ended)
      BY <1>a, <2>3, CoveredDies
    <3>2. SignInOf(s) \in SignIns
      BY <1>a, ConstantsAssumption DEF SignInOf, SignIns, Session, Dated, DatedInv
    <3>3. AdmittedRows' = AdmittedRows
      <4>1. RowOf(Idle) = None /\ RowOf(r) = None
        BY <2>1 DEF RowOf, Idle, Answering
      <4>2. AdmittedRows' = [AdmittedRows EXCEPT ![p] = None] /\ AdmittedRows[p] = None
        BY <1>a, <2>1, <4>1, RowsMove DEF Stop
      <4> QED
        BY <4>2 DEF AdmittedRows
    <3> HIDE DEF s
    <3>4. Table!SignIn(SignInOf(s))
      BY <2>1, <2>3, <3>1, <3>3 DEF Table!SignIn
    <3> QED
      BY <2>3, <3>2, <3>4 DEF Table!TableNext
  <2> QED
    BY <1>b, <1>c, <2>1, <2>2, <2>3 DEF IssueSession
<1>3. CASE EndInMemory(p)
  <2> DEFINE k == r.key
  <2>1. k \in Key /\ r.at \in Nat /\ r.pc = "endMemory" /\ ended \in [Key -> Nat]
    BY <1>3, <1>a, EndKeyType, HandlerType DEF EndInMemory, At, TypeOK
  <2>2. ended' = [ended EXCEPT ![k] = Later(r.at, @)] /\ cookies' = cookies
    BY <1>3 DEF EndInMemory, Raise
  <2>3. \A j \in Key : ended'[j] \in Nat /\ ended[j] <= ended'[j]
    BY <2>1, <2>2 DEF Later
  <2>4. LiveRows' = Table!Survivors(LiveRows, ended')
    BY <1>a, <2>2, <2>3, RowsSurvive
  <2>5. AdmittedRows' = AdmittedRows
    <3> DEFINE h == [r EXCEPT !.pc = "endArg", !.todo = r.todo \ {k}]
    <3>1. RowOf(Idle) = None /\ RowOf(r) = None /\ RowOf(h) = None
      BY <1>a, <2>1 DEF RowOf, Idle, Answering, Handler
    <3>2. Become(p, Idle) \/ Become(p, h)
      BY <1>3 DEF EndInMemory, Stop
    <3> HIDE DEF h
    <3>3. AdmittedRows' = [AdmittedRows EXCEPT ![p] = None] /\ AdmittedRows[p] = None
      BY <1>a, <3>1, <3>2, RowsMove
    <3> QED
      BY <3>3 DEF AdmittedRows
  <2>6. CASE ended' = ended
    BY <1>b, <2>2, <2>5, <2>6 DEF Table!tableVars
  <2>7. CASE ended' # ended
    <3>1. ended' = [ended EXCEPT ![k] = ended'[k]] /\ ended'[k] > ended[k]
      BY <2>1, <2>2, <2>7 DEF Later
    <3>2. Table!End(k, ended'[k])
      BY <2>4, <2>5, <3>1 DEF Table!End
    <3> QED
      BY <2>1, <3>2 DEF Table!TableNext, Table!Key, Key
  <2> QED
    BY <2>6, <2>7
<1>4. CASE VerifyRead(p)
  <2>1. /\ ended' = ended /\ cookies' = cookies /\ r.pc = "verifyRead"
        /\ Stop(p) \/ (Readable(r.sess, r.now) /\ \E pc \in {"renewCheck", "verifyDecide"} : Goto(p, pc))
    BY <1>4 DEF VerifyRead, At
  <2>2. Readable(r.sess, r.now) => SignInOf(r.sess) \in LiveRows
    BY <1>a, <2>1 DEF Readable, SessionEnded, LiveRows, FromCookie
  <2> QED
    BY <1>a, <1>b, <2>1, <2>2, AnswerGoto DEF PC
<1>5. CASE VerifyDecide(p) \/ RenewCheck(p) \/ VerifyAnswer(p)
  <2>1. /\ ended' = ended /\ cookies' = cookies /\ r.pc \in {"verifyDecide", "renewCheck", "verifyAnswer"}
        /\ Stop(p) \/ \E pc \in {"verifyAnswer", "renewCheck", "renewIssue"} : Goto(p, pc)
    BY <1>5 DEF VerifyDecide, RenewCheck, VerifyAnswer, At
  <2> QED
    BY <1>a, <1>b, <2>1, AnswerGoto DEF PC, Answering
<1>6. CASE StepUpRead(p) \/ StepUpCheck(p) \/ PasskeyLookup(p) \/ DeletePasskeys(p) \/ EndSessionsBefore(p)
           \/ EndSessionsFails(p)
  <2>1. /\ ended' = ended /\ cookies' = cookies
        /\ Stop(p) \/ \E pc \in {"stepCheck", "stepIssue", "issue", "endArg", "endMemory"} : Goto(p, pc)
    BY <1>6 DEF StepUpRead, StepUpCheck, PasskeyLookup, DeletePasskeys, EndSessionsBefore, EndSessionsFails
  <2> QED
    BY <1>a, <1>b, <2>1, AnswerGoto DEF PC, Answering
<1>7. CASE GrantLookup(p) \/ SignOutRead(p) \/ EndArg(p)
  <2>1. ended' = ended /\ cookies' = cookies
    BY <1>7 DEF GrantLookup, SignOutRead, EndArg
  <2> DEFINE h0 == [r EXCEPT !.pc = "issue", !.sess = CardSession(r.key, r.gen, r.now)]
             h1 == [r EXCEPT !.pc = "endDB", !.op = "person", !.todo = {r.sess.who}, !.key = r.sess.who, !.at = r.now]
             h2(j) == [r EXCEPT !.pc = "endDB", !.key = j, !.at = clock]
  <2>2. RowOf(h0) = None /\ RowOf(h1) = None /\ \A j : RowOf(h2(j)) = None
    BY <1>a DEF RowOf, Answering, Handler
  <2>3. Stop(p) \/ Become(p, h0) \/ Become(p, h1) \/ \E j : Become(p, h2(j))
    BY <1>7 DEF GrantLookup, SignOutRead, EndArg
  <2> HIDE DEF h0, h1, h2
  <2> QED
    BY <1>a, <1>b, <2>1, <2>2, <2>3, AnswerGoto, AnswerStep
<1> QED
  BY <1>1, <1>2, <1>3, <1>4, <1>5, <1>6, <1>7 DEF Continue

\* Every step of the gateway is one of the table, or none.
LEMMA TableStep == EndsInv /\ DatedInv /\ DatabaseAhead /\ EndsInv' /\ [Next]_vars => [Table!TableNext]_(Table!tableVars)
<1> SUFFICES ASSUME EndsInv, EndsInv', DatedInv, DatabaseAhead, [Next]_vars PROVE [Table!TableNext]_(Table!tableVars)
  OBVIOUS
<1> USE DEF dbVars, history
<1>a. TypeOK /\ HonestSessions /\ TypeOK'
  BY DEF EndsInv
<1>1. ASSUME NEW p \in Proc, Begin(p) PROVE [Table!TableNext]_(Table!tableVars)
  <2>1. ended' = ended /\ cookies' = cookies
    BY <1>1 DEF Begin, VerifyBegin, StepUpBegin, SignOutBegin, LoginBegin, AdminEndSessions, RemovePasskey,
                ListPasskeys, PasskeyLoginBegin, GrantBegin, Revoke, Remint
  <2>2. LiveRows' = LiveRows
    BY <2>1 DEF LiveRows, Covered, SignInOf, AuthTime
  <2>3. PICK h : Become(p, h) /\ TakesOn(h)
    BY <1>1, <1>a, BeginForms
  <2>4. RowOf(h) = None
    BY <2>3 DEF TakesOn, RowOf, Answering
  <2> QED
    BY <1>a, <2>1, <2>2, <2>3, <2>4, AnswerStep
<1>2. ASSUME NEW p \in Proc, Continue(p) PROVE [Table!TableNext]_(Table!tableVars)
  BY <1>2, TableContinue
<1>3. CASE UNCHANGED <<cookies, ended, req>>
  BY <1>3 DEF LiveRows, Covered, SignInOf, AuthTime, AdmittedRows, Table!tableVars
<1>4. CASE Restart
  <2>1. \A k \in Key : ended'[k] \in Nat /\ ended[k] <= ended'[k]
    BY <1>4, <1>a DEF Restart, DatabaseAhead, TypeOK
  <2>2. LiveRows' = Table!Survivors(LiveRows, ended')
    BY <1>4, <1>a, <2>1, RowsSurvive DEF Restart
  <2>3. AdmittedRows' = [p \in Proc |-> None]
    BY <1>4 DEF Restart, AdmittedRows, Idle, SignInOf
  <2>4. \A k \in Key : ended'[k] >= ended[k]
    BY <2>1, <1>a DEF TypeOK
  <2> QED
    BY <2>2, <2>3, <2>4 DEF Table!TableNext, Table!Crash, Table!Key, Key
<1> QED
  BY <1>1, <1>2, <1>3, <1>4 DEF Next, Tick, RegisterPasskey, vars

\* The gateway's signed cookies and cutoffs implement a table of sessions whose
\* rows are deleted for good, and on which a request is admitted only while its
\* row is there (session_cutoffs.go, readSession).
THEOREM CookiesImplementTable == Spec => ImplementsTable
<1>1. Init => DatedInv /\ DatabaseAhead /\ Table!TableInit
  <2> SUFFICES ASSUME Init PROVE DatedInv /\ DatabaseAhead /\ Table!TableInit
    OBVIOUS
  <2>1. \A s \in cookies : s \in Session /\ s.born = 0 /\ s.auth \in {0, 1}
    BY OutstandingAssumption DEF Init
  <2>2. DatedInv
    BY <2>1, InitType, IdleDated, ConstantsAssumption DEF Init, DatedInv, Dated
  <2>3. LiveRows \subseteq SignIns
    BY <2>1 DEF LiveRows, SignIns, SignInOf, Session
  <2>4. AdmittedRows = [p \in Proc |-> None]
    BY DEF Init, AdmittedRows, Idle
  <2> QED
    BY <2>2, <2>3, <2>4 DEF Init, DatabaseAhead, Table!TableInit, Table!Key, Key
<1>2. EndsInv => TypeOK
  BY DEF EndsInv
<1> QED
  BY <1>1, <1>2, EndsInvariant, DatedStep, AheadStep, TableStep, PTL DEF Spec, ImplementsTable, Table!TableSpec
=============================================================================
