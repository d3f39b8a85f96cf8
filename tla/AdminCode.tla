------------------------------ MODULE AdminCode ------------------------------
(***************************************************************************)
(* The check of an administrator's authenticator code (checkAdminCode),    *)
(* which the admin door and the passkeys page share: an attempt reserved   *)
(* in the database before the code is compared, a replay guard in memory,  *)
(* and the attempts cleared by a code that passes.  Requests run it at     *)
(* once.  There is one account; accounts share nothing here.               *)
(*                                                                         *)
(* A tick is a step of the authenticator (30 s).  A code is named by its   *)
(* step; Wrong is any that matches none.  The per-address limiter in front *)
(* is in OneTimeCodes.                                                     *)
(***************************************************************************)
EXTENDS Naturals, FiniteSets

CONSTANTS
    Request,
    Wrong,
    MaxAttempts,    \* OTP_MAX_ATTEMPTS
    Window,         \* totpLockoutWindow
    ReplayWindow,   \* totpReplayWindow
    Skew,           \* steps before and after its own in which a code is valid
    MaxTime,        \* bound on the clock
    MaxLate,        \* bound on the ticks a request takes
    MaxRestarts     \* bound on restarts

ASSUME AdminCodeAssumption ==
    /\ {MaxAttempts, Window, ReplayWindow, Skew, MaxTime, MaxLate, MaxRestarts} \subseteq Nat
    /\ MaxTime > 0 /\ Window > 0 /\ ReplayWindow >= 2 * Skew + 1
    /\ IsFiniteSet(Request)
    /\ Wrong \notin Nat

VARIABLES
    now,
    failures,   \* database: totp_failures, attempts and the start of their window
    seen,       \* memory: totpReplay, the time each code was accepted, 0 if it was not
    check,      \* check[q]: where the check of a request is
    restarts,   \* history: restarts
    accepted,   \* history: how often each code was accepted
    wrong,      \* history: wrong codes compared
    passes      \* history: checks that passed

codeHistory == <<accepted, wrong, passes>>
codeVars == <<failures, seen, check, codeHistory>>

Time == 1..MaxTime
\* Every step whose code may be valid.
Step == 0..(MaxTime + Skew)
Code == Step \cup {Wrong}

NoFailures == [count |-> 0, start |-> 0]
NoCheck == [pc |-> "idle", at |-> 0, code |-> Wrong]

CodeTypeOK ==
    /\ now \in Time /\ restarts \in 0..MaxRestarts
    \* Attempts past the limit are not told apart.
    /\ failures \in [count : 0..(MaxAttempts + 1), start : {0} \cup Time]
    /\ seen \in [Step -> {0} \cup Time]
    /\ check \in [Request -> [pc : {"idle", "reserve", "match", "clear", "passed", "failed"},
                              at : {0} \cup Time, code : Code]]
    /\ accepted \in [Step -> Nat] /\ wrong \in Nat /\ passes \in Nat

CodeInit ==
    /\ now = 1 /\ restarts = 0
    /\ failures = NoFailures
    /\ seen = [k \in Step |-> 0]
    /\ check = [q \in Request |-> NoCheck]
    /\ accepted = [k \in Step |-> 0] /\ wrong = 0 /\ passes = 0

-----------------------------------------------------------------------------

BeginCheck(q, code) ==
    /\ check[q].pc = "idle"
    /\ check' = [check EXCEPT ![q] = [pc |-> "reserve", at |-> now, code |-> code]]
    /\ UNCHANGED <<failures, seen, codeHistory>>

Goes(q, pc) == check' = [check EXCEPT ![q].pc = pc]

\* Times may come out of order: only a later one starts a window.
WindowOver(f, at) == f.count = 0 \/ at >= f.start + Window

\* A slip: the attempts compared before this one is added.
CompareThenCount(q) ==
    LET reserved == IF WindowOver(failures, check[q].at) THEN [count |-> 1, start |-> check[q].at]
                    ELSE [failures EXCEPT !.count = IF @ > MaxAttempts THEN @ ELSE @ + 1] IN
    /\ check[q].pc = "reserve"
    /\ failures' = reserved
    /\ Goes(q, IF failures.count > MaxAttempts /\ reserved.count # 1 THEN "failed" ELSE "match")
    /\ UNCHANGED <<seen, codeHistory>>

\* One transaction reads the attempts and adds this one.
ReserveTOTPAttempt(q) ==
    LET reserved == IF WindowOver(failures, check[q].at) THEN [count |-> 1, start |-> check[q].at]
                    ELSE [failures EXCEPT !.count = IF @ > MaxAttempts THEN @ ELSE @ + 1] IN
    /\ check[q].pc = "reserve"
    /\ \/ failures' = reserved /\ Goes(q, IF reserved.count > MaxAttempts THEN "failed" ELSE "match")
       \/ UNCHANGED failures /\ Goes(q, "failed")
    /\ UNCHANGED <<seen, codeHistory>>

Valid(code) == code # Wrong /\ now <= code + Skew /\ code <= now + Skew

\* A slip: codes remembered for one step only.
FreshAfterAStep(code) == seen[code] = 0 \/ now > seen[code] + 1

Fresh(code) == seen[code] = 0 \/ now > seen[code] + ReplayWindow

Remembered(code) == [k \in Step |-> IF k = code THEN now ELSE IF now > seen[k] + ReplayWindow THEN 0 ELSE seen[k]]

\* The secret is read, the code compared and the guard asked, with nothing to
\* wait for after the read.
MatchCode(q) ==
    LET code == check[q].code IN
    /\ check[q].pc = "match"
    /\ \/ /\ Valid(code) /\ Fresh(code)
          /\ seen' = Remembered(code)
          /\ accepted' = [accepted EXCEPT ![code] = @ + 1]
          /\ Goes(q, "clear") /\ UNCHANGED wrong
       \/ /\ ~Valid(code)
          /\ wrong' = wrong + 1
          /\ Goes(q, "failed") /\ UNCHANGED <<seen, accepted>>
       \/ /\ Goes(q, "failed")      \* replayed, or the secret could not be read
          /\ UNCHANGED <<seen, accepted, wrong>>
    /\ UNCHANGED <<failures, passes>>

ClearTOTPFailures(q) ==
    /\ check[q].pc = "clear"
    /\ failures' \in {NoFailures, failures}
    /\ passes' = passes + 1
    /\ Goes(q, "passed")
    /\ UNCHANGED <<seen, accepted, wrong>>

CodeSteps(q) == ReserveTOTPAttempt(q) \/ MatchCode(q) \/ ClearTOTPFailures(q)

EndCheck(q) ==
    /\ check' = [check EXCEPT ![q] = NoCheck]
    /\ UNCHANGED <<failures, seen, codeHistory>>

CodesInTime == \A q \in Request : check[q].pc = "idle" \/ now < check[q].at + MaxLate

\* A restart forgets the replay guard and the requests, not the attempts.
ForgetCodes ==
    /\ seen' = [k \in Step |-> 0]
    /\ check' = [q \in Request |-> NoCheck]
    /\ UNCHANGED <<failures, codeHistory>>

-----------------------------------------------------------------------------

\* However requests meet, and however often the gateway is restarted, no more
\* wrong codes are compared than the limit for each lockout window begun and
\* each check that passed ("two wrong codes at once must not both slip under
\* the lockout": ReserveTOTPAttempt before the comparison).  After each pass
\* the first window may start as early as a late request began.
WrongCodesBounded == wrong <= MaxAttempts * (1 + passes + ((now - 1 + passes * MaxLate) \div Window))

\* A code passes once over all the steps it is valid in, whoever else sends it,
\* and at most once more for each restart (totpReplay).
CodesPassOnce == \A k \in Step : accepted[k] <= 1 + restarts
=============================================================================
