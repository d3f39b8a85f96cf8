------------------------------- MODULE Passkeys -------------------------------
(***************************************************************************)
(* Passkeys: the ceremonies that add one and sign in with one, the guard   *)
(* that makes their challenges single-use, and who may add one, together   *)
(* with the authenticator code of the admin door and of the passkeys page  *)
(* (AdminCode).  Requests of one browser run at once; the gateway restarts *)
(* with another policy or with TOTP on or off.                             *)
(*                                                                         *)
(* Challenges live in signed cookies, which anyone who has seen one can    *)
(* post again.  Signatures are not modelled: whoever signs in with a       *)
(* passkey holds its key.  Nor are the per-address limiters, the renewal   *)
(* and expiry of sessions (SessionEnds), and the counters of passkeys.     *)
(***************************************************************************)
EXTENDS AdminCode, Sequences

CONSTANTS
    Person,
    Holder,         \* the person with an authenticator; the check of another's code fails
    None,
    TTL,            \* passkeyChallengeTTL
    Freshness,      \* passkeyFreshness
    StepMaxAge,     \* adminStepMaxAge
    GuardMax,       \* challengeGuardMax
    SweepEvery,     \* a minute, between two sweeps of the guard
    MaxChallenges,  \* bound on the challenges minted
    MaxPasskeys     \* bound on the passkeys added

ASSUME PasskeysAssumption ==
    /\ Holder \in Person /\ None \notin Person
    /\ {TTL, Freshness, StepMaxAge, GuardMax, SweepEvery, MaxChallenges, MaxPasskeys} \subseteq Nat

VARIABLES
    totp,       \* configuration: TOTP_ENABLED
    role,       \* configuration: the role the policy gives each address
    session,    \* the session cookie of the browser
    minted,     \* the challenge cookies minted
    used,       \* database: used_challenges, until when, 0 if the challenge is not there
    guard,      \* memory: challengeGuard
    rows,       \* database: passkeys
    made,       \* database: the last ID given to a passkey
    hand,       \* hand[q]: a request being handled
    email,      \* history: when each person last signed in with an emailed code
    code,       \* history: when an authenticator code of the holder last passed
    added       \* history: how passkeys were added

settings == <<totp, role>>
database == <<used, rows, made>>
cookies == <<session, minted>>
proofs == <<email, code>>
vars == <<now, restarts, codeVars, settings, cookies, database, guard, hand, proofs, added>>

Challenge == 1..MaxChallenges
Passkey == 1..MaxPasskeys
Latest == MaxTime + TTL

NoSession == [who |-> None, auth |-> 0, pk |-> 0, step |-> 0]
Session == {NoSession} \cup [who : Person, auth : Time, pk : {0} \cup Passkey, step : {0} \cup Time]

\* Posts taken of it, and whether the first came within MaxLate of its minting,
\* are history.
Cookie == [register : BOOLEAN, who : Person \cup {None}, confirmed : BOOLEAN, until : Time \cup 1..Latest,
           took : Nat, quick : BOOLEAN]

NoRow == [who |-> None, grade |-> FALSE]
Row == {NoRow} \cup [who : Person, grade : BOOLEAN]

\* A request: the session and challenge it came with and the time it began, then
\* the passkey it found.
Hand == [pc : {"idle", "totp", "confirm", "guard", "add", "find", "enter"}, session : Session,
         ch : {0} \cup Challenge, at : {0} \cup Time, k : {0} \cup Passkey, row : Row]
Idle == [pc |-> "idle", session |-> NoSession, ch |-> 0, at |-> 0, k |-> 0, row |-> NoRow]

TypeOK ==
    /\ CodeTypeOK
    /\ totp \in BOOLEAN /\ role \in [Person -> {"none", "user", "admin"}]
    /\ session \in Session
    /\ minted \in Seq(Cookie) /\ Len(minted) <= MaxChallenges
    /\ used \in [Challenge -> 0..Latest]
    /\ guard \in [count : Nat, nextSweep : 0..(MaxTime + SweepEvery)]
    /\ rows \in [Passkey -> Row] /\ made \in {0} \cup Passkey
    /\ hand \in [Request -> Hand]
    /\ email \in [Person -> {0} \cup Time] /\ code \in {0} \cup Time
    /\ added \subseteq [grade : BOOLEAN, proven : BOOLEAN, earned : BOOLEAN]

Unswept == [count |-> 0, nextSweep |-> 0]

Init ==
    /\ CodeInit
    /\ totp \in BOOLEAN /\ role \in [Person -> {"none", "user", "admin"}]
    /\ session = NoSession /\ minted = <<>>
    /\ used = [c \in Challenge |-> 0] /\ guard = Unswept
    /\ rows = [k \in Passkey |-> NoRow] /\ made = 0
    /\ hand = [q \in Request |-> Idle]
    /\ email = [w \in Person |-> 0] /\ code = 0 /\ added = {}

-----------------------------------------------------------------------------
(* Who a session is, and what it may do.                                   *)

Staff(w) == w # None /\ role[w] \in {"user", "admin"}

StillValid(s) == s.pk # 0 => rows[s.pk].who = s.who

PasskeySession(s) == Staff(s.who) /\ StillValid(s)

StepUpSession(s) == PasskeySession(s) /\ role[s.who] = "admin"

StepFresh(s) == totp => s.step # 0 /\ now <= s.step + StepMaxAge

\* A slip: a session that a passkey started is as good.
FreshHoweverSignedIn(s) == s.auth # 0 /\ now <= s.auth + Freshness

FreshSignIn(s) == s.pk = 0 /\ s.auth # 0 /\ now <= s.auth + Freshness

MayAddPasskeyNow(s) == FreshSignIn(s) /\ (role[s.who] = "admin" => StepFresh(s))

-----------------------------------------------------------------------------
(* Challenges.                                                             *)

\* The cookie expires with what it carries.
SetPasskeyChallenge(register, who, confirmed) ==
    minted' = Append(minted, [register |-> register, who |-> who, confirmed |-> confirmed, until |-> now + TTL,
                              took |-> 0, quick |-> FALSE])

Mint(register, who, confirmed) ==
    /\ Len(minted) < MaxChallenges
    /\ SetPasskeyChallenge(register, who, confirmed)

\* Offered on a phone, unless the database fails.
MayMint(may, who, confirmed) == UNCHANGED minted \/ (may /\ Mint(TRUE, who, confirmed))

\* Signing in with an emailed code offers a passkey; an administrator is
\* offered one at the admin door instead.
SignIn(w) ==
    /\ Staff(w)
    /\ session' = [who |-> w, auth |-> now, pk |-> 0, step |-> 0]
    /\ email' = [email EXCEPT ![w] = now]
    /\ MayMint(~(role[w] = "admin" /\ totp), w, FALSE)
    /\ UNCHANGED <<now, restarts, codeVars, settings, database, guard, hand, code, added>>

SignOut ==
    /\ session # NoSession
    /\ session' = NoSession
    /\ UNCHANGED <<now, restarts, codeVars, settings, minted, database, guard, hand, proofs, added>>

LoginPage ==
    /\ Mint(FALSE, None, FALSE)
    /\ UNCHANGED <<now, restarts, codeVars, settings, session, database, guard, hand, proofs, added>>

PasskeysPage ==
    /\ PasskeySession(session) /\ MayAddPasskeyNow(session)
    /\ Mint(TRUE, session.who, FALSE)
    /\ UNCHANGED <<now, restarts, codeVars, settings, session, database, guard, hand, proofs, added>>

Begin(q, pc, c) ==
    hand' = [hand EXCEPT ![q] = [pc |-> pc, session |-> session, ch |-> c, at |-> now, k |-> 0, row |-> NoRow]]
Done(q) == hand' = [hand EXCEPT ![q] = Idle]

-----------------------------------------------------------------------------
(* The authenticator code.                                                 *)

\* handleTOTP has nothing to do for a session that holds the tier; with TOTP
\* off its groups decide, which SessionGroups has.
HandleTOTP(q, c) ==
    /\ hand[q].pc = "idle"
    /\ StepUpSession(session) /\ session.who = Holder /\ ~(totp /\ StepFresh(session))
    /\ Begin(q, "totp", 0) /\ BeginCheck(q, c)
    /\ UNCHANGED <<now, restarts, settings, cookies, database, guard, proofs, added>>

HandlePasskeyConfirmCode(q, c) ==
    /\ hand[q].pc = "idle"
    /\ StepUpSession(session) /\ session.who = Holder /\ totp
    /\ Begin(q, "confirm", 0) /\ BeginCheck(q, c)
    /\ UNCHANGED <<now, restarts, settings, cookies, database, guard, proofs, added>>

CheckCode(q) ==
    /\ CodeSteps(q)
    /\ UNCHANGED <<now, restarts, settings, cookies, database, guard, hand, proofs, added>>

HasAdminPasskey(w) == \E k \in Passkey : rows[k] = [who |-> w, grade |-> TRUE]

\* The session that comes back is the one the request began with, with the
\* step; the door offers a passkey to one who has none that opens it.
PassTOTP(q) ==
    LET s == hand[q].session IN
    /\ hand[q].pc = "totp" /\ check[q].pc = "passed"
    /\ session' = [s EXCEPT !.step = hand[q].at]
    /\ MayMint(~HasAdminPasskey(s.who), s.who, TRUE)
    /\ code' = now
    /\ Done(q) /\ EndCheck(q)
    /\ UNCHANGED <<now, restarts, settings, database, guard, email, added>>

PassConfirm(q) ==
    /\ hand[q].pc = "confirm" /\ check[q].pc = "passed"
    /\ MayMint(TRUE, hand[q].session.who, TRUE)
    /\ code' = now
    /\ Done(q) /\ EndCheck(q)
    /\ UNCHANGED <<now, restarts, settings, session, database, guard, email, added>>

FailCode(q) ==
    /\ check[q].pc = "failed"
    /\ Done(q) /\ EndCheck(q)
    /\ UNCHANGED <<now, restarts, settings, cookies, database, guard, proofs, added>>

-----------------------------------------------------------------------------
(* Ceremonies.                                                             *)

\* A slip: whoever is signed in may use the challenge.
AnyonesCookie(c) == minted[c].register /\ now <= minted[c].until

OwnCookie(c) == minted[c].register /\ now <= minted[c].until /\ minted[c].who = session.who

HandlePasskeyRegister(q, c) ==
    /\ hand[q].pc = "idle" /\ check[q].pc = "idle"
    /\ PasskeySession(session) /\ OwnCookie(c)
    /\ Begin(q, "guard", c)
    /\ UNCHANGED <<now, restarts, codeVars, settings, cookies, database, guard, proofs, added>>

HandlePasskeyLogin(q, c) ==
    /\ hand[q].pc = "idle" /\ check[q].pc = "idle"
    /\ ~minted[c].register /\ now <= minted[c].until
    /\ Begin(q, "guard", c)
    /\ UNCHANGED <<now, restarts, codeVars, settings, cookies, database, guard, proofs, added>>

\* PruneChallenges, at most once a minute.
Kept == [c \in Challenge |-> IF now > guard.nextSweep /\ used[c] < now THEN 0 ELSE used[c]]

Entries(u) == Cardinality({c \in Challenge : u[c] # 0})

Swept == IF now > guard.nextSweep THEN [count |-> Entries(Kept), nextSweep |-> now + SweepEvery] ELSE guard

Unused(u, c) == u[c] = 0 \/ u[c] < now

Answer(m) == [register |-> m.register, who |-> m.who, confirmed |-> m.confirmed, until |-> m.until,
              took |-> m.took + 1, quick |-> IF m.took > 0 THEN m.quick ELSE now + TTL < m.until + MaxLate]

\* challengeGuard.use, under its mutex; an error at either statement refuses.
UseChallenge(q) ==
    LET c == hand[q].ch
        fresh == Swept.count < GuardMax /\ Unused(Kept, c) IN
    /\ hand[q].pc = "guard"
    /\ \/ /\ fresh
          /\ used' = [Kept EXCEPT ![c] = now + TTL]
          /\ guard' = [Swept EXCEPT !.count = @ + 1]
          /\ minted' = [minted EXCEPT ![c] = Answer(@)]
          /\ hand' = [hand EXCEPT ![q].pc = IF minted[c].register THEN "add" ELSE "find"]
       \/ /\ used' = Kept /\ guard' = Swept     \* used, full, or the record fails
          /\ Done(q) /\ UNCHANGED minted
       \/ /\ Done(q) /\ UNCHANGED <<used, guard, minted>>
    /\ UNCHANGED <<now, restarts, codeVars, settings, session, rows, made, proofs, added>>

AdminGrade(s, ch) == role[s.who] = "admin" /\ totp /\ (ch.confirmed \/ StepFresh(s))

Within(at, age) == at # 0 /\ now <= at + age

RegisterPasskey(q) ==
    LET s == hand[q].session
        ch == minted[hand[q].ch]
        confirmed == s.who = Holder /\ Within(code, TTL + MaxLate) IN
    /\ hand[q].pc = "add"
    /\ \/ /\ MayAddPasskeyNow(s) \/ (ch.confirmed /\ role[s.who] = "admin")
          /\ made < MaxPasskeys /\ made' = made + 1
          /\ rows' = [rows EXCEPT ![made'] = [who |-> s.who, grade |-> AdminGrade(s, ch)]]
          /\ added' = added \cup {[grade |-> AdminGrade(s, ch),
                                   proven |-> Within(email[s.who], Freshness) \/ confirmed,
                                   earned |-> confirmed \/ (s.who = Holder /\ Within(code, StepMaxAge))]}
       \/ UNCHANGED <<rows, made, added>>       \* refused, not verified or not stored
    /\ Done(q)
    /\ UNCHANGED <<now, restarts, codeVars, settings, cookies, used, guard, proofs>>

FindPasskey(q, k) ==
    /\ hand[q].pc = "find"
    /\ IF rows[k] = NoRow THEN Done(q)
       ELSE hand' = [hand EXCEPT ![q] = [pc |-> "enter", session |-> @.session, ch |-> @.ch, at |-> @.at,
                                         k |-> k, row |-> rows[k]]]
    /\ UNCHANGED <<now, restarts, codeVars, settings, cookies, database, guard, proofs, added>>

\* Verified or not, or the address no longer permitted.
SignInWithPasskey(q) ==
    LET row == hand[q].row IN
    /\ hand[q].pc = "enter"
    /\ \/ /\ Staff(row.who)
          /\ session' = [who |-> row.who, auth |-> hand[q].at, pk |-> hand[q].k,
                         step |-> IF role[row.who] = "admin" /\ totp /\ row.grade THEN hand[q].at ELSE 0]
       \/ UNCHANGED session
    /\ Done(q)
    /\ UNCHANGED <<now, restarts, codeVars, settings, minted, database, guard, proofs, added>>

\* By their owner; the sessions they started end (SessionEnds).
HandlePasskeyRemove(k) ==
    /\ PasskeySession(session) /\ rows[k].who = session.who
    /\ rows' = [rows EXCEPT ![k] = NoRow]
    /\ UNCHANGED <<now, restarts, codeVars, settings, cookies, used, made, guard, hand, proofs, added>>

\* By an administrator: all of a person's.
AdminRemovePasskeys(w) ==
    /\ \E k \in Passkey : rows[k].who = w
    /\ rows' = [k \in Passkey |-> IF rows[k].who = w THEN NoRow ELSE rows[k]]
    /\ UNCHANGED <<now, restarts, codeVars, settings, cookies, used, made, guard, hand, proofs, added>>

-----------------------------------------------------------------------------

Tick ==
    /\ now < MaxTime /\ CodesInTime
    /\ \A q \in Request : hand[q].pc = "idle" \/ now < hand[q].at + MaxLate
    /\ now' = now + 1
    /\ UNCHANGED <<restarts, codeVars, settings, cookies, database, guard, hand, proofs, added>>

\* A slip: the guard's challenges kept in memory.
RestartForgets ==
    /\ restarts < MaxRestarts /\ restarts' = restarts + 1
    /\ totp' \in BOOLEAN /\ role' \in [Person -> {"none", "user", "admin"}]
    /\ ForgetCodes /\ guard' = Unswept
    /\ used' = [c \in Challenge |-> 0]
    /\ hand' = [q \in Request |-> Idle]
    /\ UNCHANGED <<now, cookies, rows, made, proofs, added>>

Restart ==
    /\ restarts < MaxRestarts /\ restarts' = restarts + 1
    /\ totp' \in BOOLEAN /\ role' \in [Person -> {"none", "user", "admin"}]
    /\ ForgetCodes /\ guard' = Unswept
    /\ hand' = [q \in Request |-> Idle]
    /\ UNCHANGED <<now, cookies, database, proofs, added>>

Next ==
    \/ \E w \in Person : SignIn(w) \/ AdminRemovePasskeys(w)
    \/ SignOut \/ LoginPage \/ PasskeysPage
    \/ \E q \in Request, c \in Code : HandleTOTP(q, c) \/ HandlePasskeyConfirmCode(q, c)
    \/ \E q \in Request, c \in DOMAIN minted : HandlePasskeyRegister(q, c) \/ HandlePasskeyLogin(q, c)
    \/ \E q \in Request, k \in Passkey : FindPasskey(q, k)
    \/ \E q \in Request : \/ CheckCode(q) \/ PassTOTP(q) \/ PassConfirm(q) \/ FailCode(q)
                          \/ UseChallenge(q) \/ RegisterPasskey(q) \/ SignInWithPasskey(q)
    \/ \E k \in Passkey : HandlePasskeyRemove(k)
    \/ Tick \/ Restart

Spec == Init /\ [][Next]_vars

-----------------------------------------------------------------------------
(* Properties.                                                             *)

\* A challenge is answered once: posted again by another request, in a sweep's
\* wake or after a restart, it is refused (challengeGuard).  The exception is
\* one first answered as it was minted: its entry may lapse between the reading
\* of the cookie and the guard's clock.
ChallengesAnsweredOnce == \A c \in DOMAIN minted : minted[c].took > 1 => minted[c].quick

\* The table of used challenges stays within its bound, although its count is
\* in memory and a restart forgets it ("past the bound, passkey ceremonies are
\* refused").
GuardBounded == Entries(used) <= GuardMax

\* Nobody's passkey is added unless they have just signed in with an emailed
\* code or, as an administrator, had their authenticator code pass: a passkey
\* never adds another ("one stolen passkey could add the thief's own, which
\* would survive the owner removing the stolen one").
PasskeysAreProven == \A a \in added : a.proven

\* A passkey that stands in for the second step was added by the person whose
\* code had passed, before that second step or challenge lapsed, though TOTP was
\* turned off and on between ("a passkey added then must not stand in for one
\* once TOTP is turned on").
AdminGradeIsEarned == \A a \in added : a.grade => a.earned
=============================================================================
