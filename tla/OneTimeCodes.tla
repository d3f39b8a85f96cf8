----------------------------- MODULE OneTimeCodes -----------------------------
(***************************************************************************)
(* The one-time codes of one email address: POST /request stores a code    *)
(* (and mails it, when the policy admits the address), POST /verify-code   *)
(* checks a guess against it.  The rows of two addresses never meet, so    *)
(* one address is enough; what they share, the send limits and the mail    *)
(* slots, enters as a choice of the request.  TwinCodes runs two           *)
(* addresses side by side.                                                 *)
(***************************************************************************)
EXTENDS Naturals, Sequences, FiniteSets

CONSTANTS
    Proc, Ip, None,
    Admissions,      \* what LoginRole may say of the address, see admitted
    TTL,             \* OTP_TTL
    Cooldown,        \* OTP_RESEND_COOLDOWN
    MaxAttempts,     \* OTP_MAX_ATTEMPTS, for each client address
    MaxTotal,        \* OTP_MAX_TOTAL_ATTEMPTS
    WrongCodes,      \* tokens of the wrongCodes limiter, for each client address
    MaxClock,
    MaxCodes,        \* bound on the codes ever stored
    MaxGranted       \* bound on the wrongCodes tokens ever granted to an address

ASSUME CodesAssumption ==
    /\ {TTL, Cooldown, MaxAttempts, MaxTotal, WrongCodes, MaxClock, MaxCodes, MaxGranted} \subseteq Nat
    /\ Admissions \subseteq {{}, {TRUE}, BOOLEAN}
    /\ 0 < Cooldown /\ Cooldown < TTL
    /\ 1 <= MaxAttempts /\ MaxAttempts <= MaxTotal

VARIABLES
    clock,
    admitted,   \* LoginRole: the open in BOOLEAN with which the policy admits the address,
                \* open saying whether the page asked for is on an open-registration host
    code,       \* database: the address's row of codes
    attempts,   \* database: its rows of code_attempts, 0 for none
    tokens,     \* memory: the wrongCodes limiter
    asked,      \* until when the latest state cookie is read
    req,        \* req[p] = the handler p is running
    ledger,     \* history: every code ever stored, in order
    granted     \* history: the wrongCodes tokens ever granted, by client address

vars == <<clock, admitted, code, attempts, tokens, asked, req, ledger, granted>>

\* A code is its place in the ledger: a request notes how many there were when
\* it began (before) and which it saw in the row (saw).  No guess of 0 matches one.
NoCode == [id |-> 0, expires |-> 0, total |-> 0]

NoAttempts == [ip \in Ip |-> 0]

Entry == [how : {"mailed", "decoy", "filler"}, issued : Nat, wrong : [Ip -> Nat], wrongs : Nat, uses : Nat]

Results == {"ok", "denied", "mismatch", "toomany", "burned", "expired", "nocode", "busy", "error", "restart"}

Handler == [pc : {"idle", "prune", "sweep", "recent", "choose", "save", "fill", "noop", "asked",
                  "charge", "consume", "refund", "answer"},
            ip : Ip \cup {None}, now : Nat, open : BOOLEAN, recent : BOOLEAN, failed : BOOLEAN,
            guess : Nat, result : Results \cup {"none"}, before : Nat, saw : Nat]

Idle == [pc |-> "idle", ip |-> None, now |-> 0, open |-> FALSE, recent |-> FALSE, failed |-> FALSE,
         guess |-> 0, result |-> "none", before |-> 0, saw |-> 0]

At(p, pc) == req[p].pc = pc
Become(p, h) == req' = [req EXCEPT ![p] = h]
Goto(p, pc) == Become(p, [req[p] EXCEPT !.pc = pc])

TypeOK ==
    /\ clock \in Nat
    /\ admitted \subseteq BOOLEAN
    /\ code \in [id : 0..Len(ledger), expires : Nat, total : Nat]
    /\ attempts \in [Ip -> Nat]
    /\ tokens \in [Ip -> 0..WrongCodes]
    /\ asked \in Nat
    /\ req \in [Proc -> Handler]
    /\ ledger \in Seq(Entry)
    /\ granted \in [Ip -> Nat]

Init ==
    /\ clock = TTL + 1
    /\ admitted \in Admissions
    /\ code = NoCode /\ attempts = NoAttempts
    /\ tokens = [ip \in Ip |-> WrongCodes]
    /\ asked = 0
    /\ req = [p \in Proc |-> Idle]
    /\ ledger = <<>>
    /\ granted = [ip \in Ip |-> WrongCodes]

Permitted(open) == open \in admitted

-----------------------------------------------------------------------------
(* The store *)

Stored(how, now) == [how |-> how, issued |-> now, wrong |-> NoAttempts, wrongs |-> 0, uses |-> 0]

SaveCode(how, now, expires) ==
    /\ code' = [id |-> Len(ledger) + 1, expires |-> expires, total |-> 0]
    /\ attempts' = NoAttempts
    /\ ledger' = Append(ledger, Stored(how, now))

EnsureCodeOverwrites(how, now, expires) ==
    /\ code' = [id |-> Len(ledger) + 1, expires |-> expires, total |-> 0]
    /\ ledger' = Append(ledger, Stored(how, now))
    /\ UNCHANGED attempts

\* Insert if absent.  Attempts that a failed sweep left behind stay.
EnsureCode(how, now, expires) ==
    /\ IF code = NoCode
       THEN /\ code' = [id |-> Len(ledger) + 1, expires |-> expires, total |-> 0]
            /\ ledger' = Append(ledger, Stored(how, now))
       ELSE UNCHANGED <<code, ledger>>
    /\ UNCHANGED attempts

HasRecentCode(minExpiry) == code # NoCode /\ code.expires > minExpiry

\* The answer, what becomes of the row and the attempts, and whether the guess
\* was compared with the code and found wrong.
Consumed(result, wrong) == [result |-> result, code |-> NoCode, attempts |-> NoAttempts, wrong |-> wrong]
Kept(result) == [result |-> result, code |-> code, attempts |-> attempts, wrong |-> FALSE]
Counted(result, ip) ==
    [result |-> result, code |-> [code EXCEPT !.total = @ + 1], attempts |-> [attempts EXCEPT ![ip] = @ + 1],
     wrong |-> TRUE]

ConsumeCodeUncapped(ip, guess, now) ==
    IF code = NoCode THEN Kept("nocode")
    ELSE IF now > code.expires THEN Consumed("expired", FALSE)
    ELSE IF attempts[ip] >= MaxAttempts THEN Kept("toomany")
    ELSE IF guess = code.id THEN Consumed("ok", FALSE)
    ELSE IF attempts[ip] + 1 >= MaxAttempts THEN Counted("toomany", ip)
    ELSE Counted("mismatch", ip)

ConsumeCodeKeepsUsed(ip, guess, now) ==
    IF code = NoCode THEN Kept("nocode")
    ELSE IF now > code.expires THEN Consumed("expired", FALSE)
    ELSE IF code.total >= MaxTotal THEN Consumed("burned", FALSE)
    ELSE IF attempts[ip] >= MaxAttempts THEN Kept("toomany")
    ELSE IF guess = code.id THEN Kept("ok")
    ELSE IF code.total + 1 >= MaxTotal THEN Consumed("burned", TRUE)
    ELSE Counted("mismatch", ip)

ConsumeCode(ip, guess, now) ==
    IF code = NoCode THEN Kept("nocode")
    ELSE IF now > code.expires THEN Consumed("expired", FALSE)
    ELSE IF code.total >= MaxTotal THEN Consumed("burned", FALSE)
    ELSE IF attempts[ip] >= MaxAttempts THEN Kept("toomany")
    ELSE IF guess = code.id THEN Consumed("ok", FALSE)
    ELSE IF code.total + 1 >= MaxTotal THEN Consumed("burned", TRUE)
    ELSE IF attempts[ip] + 1 >= MaxAttempts THEN Counted("toomany", ip)
    ELSE Counted("mismatch", ip)

-----------------------------------------------------------------------------
(* POST /request.  ok says whether the database did what was asked.        *)

RequestBegin(p, ip, open) ==
    /\ At(p, "idle") /\ Len(ledger) < MaxCodes
    /\ Become(p, [Idle EXCEPT !.pc = "prune", !.ip = ip, !.now = clock, !.open = open,
                              !.before = Len(ledger)])
    /\ UNCHANGED <<clock, admitted, code, attempts, tokens, asked, ledger, granted>>

\* DeleteExpiredCodes is two statements, and its failure is only logged.
PruneCodes(p, ok) ==
    /\ At(p, "prune")
    /\ code' = IF ok /\ code.expires < req[p].now THEN NoCode ELSE code
    /\ Goto(p, IF ok THEN "sweep" ELSE "recent")
    /\ UNCHANGED <<clock, admitted, attempts, tokens, asked, ledger, granted>>

SweepAttempts(p, ok) ==
    /\ At(p, "sweep")
    /\ attempts' = IF ok /\ code = NoCode THEN NoAttempts ELSE attempts
    /\ Goto(p, "recent")
    /\ UNCHANGED <<clock, admitted, code, tokens, asked, ledger, granted>>

\* A failed check counts as a recent code.
CheckRecent(p, ok) ==
    LET h == req[p] IN
    /\ At(p, "recent")
    /\ Become(p, [h EXCEPT !.pc = "choose", !.failed = ~ok, !.saw = code.id,
                           !.recent = ok => HasRecentCode(h.now + TTL - Cooldown)])
    /\ UNCHANGED <<clock, admitted, code, attempts, tokens, asked, ledger, granted>>

\* mailSaturated and allowSend, which look at other addresses' requests too.
Choose(p, saturated, allowed) ==
    LET h == req[p] IN
    /\ At(p, "choose")
    /\ Goto(p, IF saturated THEN "fill" ELSE IF h.recent THEN "noop" ELSE IF allowed THEN "save" ELSE "fill")
    /\ UNCHANGED <<clock, admitted, code, attempts, tokens, asked, ledger, granted>>

SaveIfPermitted(p, ok) ==
    LET h == req[p] IN
    /\ At(p, "save")
    /\ IF ~ok THEN UNCHANGED <<code, attempts, ledger>>
       ELSE IF Permitted(h.open) THEN SaveCode("mailed", h.now, h.now + TTL)
       ELSE EnsureCode("decoy", h.now, h.now + TTL)
    /\ Goto(p, "asked")
    /\ UNCHANGED <<clock, admitted, tokens, asked, granted>>

\* sendCode or saveDecoyCode: the same but for the mail.
Save(p, ok) ==
    LET h == req[p] IN
    /\ At(p, "save")
    /\ IF ok THEN SaveCode(IF Permitted(h.open) THEN "mailed" ELSE "decoy", h.now, h.now + TTL)
       ELSE UNCHANGED <<code, attempts, ledger>>
    /\ Goto(p, "asked")
    /\ UNCHANGED <<clock, admitted, tokens, asked, granted>>

FillAsIssuedNow(p, ok) ==
    LET h == req[p] IN
    /\ At(p, "fill")
    /\ IF ok THEN EnsureCode("filler", h.now, h.now + TTL) ELSE UNCHANGED <<code, attempts, ledger>>
    /\ Goto(p, "asked")
    /\ UNCHANGED <<clock, admitted, tokens, asked, granted>>

\* storeDecoyCode: dated so as not to start a cooldown.
Fill(p, ok) ==
    LET h == req[p] IN
    /\ At(p, "fill")
    /\ IF ok THEN EnsureCode("filler", h.now, h.now + TTL - Cooldown) ELSE UNCHANGED <<code, attempts, ledger>>
    /\ Goto(p, "asked")
    /\ UNCHANGED <<clock, admitted, tokens, asked, granted>>

\* The state cookie and the page that asks for the code, whatever happened.
RequestEnd(p) ==
    LET h == req[p] IN
    /\ h.pc \in {"noop", "asked"}
    /\ asked' = IF h.now + TTL > asked THEN h.now + TTL ELSE asked
    /\ Become(p, Idle)
    /\ UNCHANGED <<clock, admitted, code, attempts, tokens, ledger, granted>>

-----------------------------------------------------------------------------
(* POST /verify-code *)

\* Without a state cookie still in time it goes back to the login page.
VerifyBegin(p, ip, open, guess) ==
    /\ At(p, "idle")
    /\ \/ clock > asked /\ Become(p, [Idle EXCEPT !.pc = "answer", !.result = "restart"])
       \/ /\ clock <= asked
          /\ Become(p, [Idle EXCEPT !.pc = "charge", !.ip = ip, !.now = clock, !.open = open,
                                    !.guess = guess])
    /\ UNCHANGED <<clock, admitted, code, attempts, tokens, asked, ledger, granted>>

ChargeLater(p) ==
    LET h == req[p] IN
    /\ At(p, "charge")
    /\ Become(p, [h EXCEPT !.pc = IF tokens[h.ip] > 0 THEN "consume" ELSE "answer",
                           !.result = IF tokens[h.ip] > 0 THEN @ ELSE "busy"])
    /\ UNCHANGED <<clock, admitted, code, attempts, tokens, asked, ledger, granted>>

\* Every attempt is charged up front.
Charge(p) ==
    LET h == req[p] IN
    /\ At(p, "charge")
    /\ IF tokens[h.ip] > 0
       THEN tokens' = [tokens EXCEPT ![h.ip] = @ - 1] /\ Goto(p, "consume")
       ELSE Become(p, [h EXCEPT !.pc = "answer", !.result = "busy"]) /\ UNCHANGED tokens
    /\ UNCHANGED <<clock, admitted, code, attempts, asked, ledger, granted>>

\* The ledger notes a guess that was compared with the code.
Noted(entry, c, ip) ==
    IF c.result = "ok" THEN [entry EXCEPT !.uses = @ + 1]
    ELSE IF c.wrong THEN [entry EXCEPT !.wrong = [entry.wrong EXCEPT ![ip] = @ + 1], !.wrongs = @ + 1]
    ELSE entry

\* One transaction; a failed one changes nothing.
Consume(p, ok) ==
    LET h == req[p]
        c == ConsumeCode(h.ip, h.guess, h.now) IN
    /\ At(p, "consume")
    /\ IF ~ok THEN /\ Become(p, [h EXCEPT !.pc = "answer", !.result = "error"])
                   /\ UNCHANGED <<code, attempts, ledger>>
       ELSE /\ code' = c.code /\ attempts' = c.attempts
            /\ Become(p, [h EXCEPT !.pc = IF c.result = "ok" THEN "refund" ELSE "answer",
                                   !.result = IF c.result = "ok" /\ ~Permitted(h.open) THEN "denied"
                                              ELSE c.result])
            /\ ledger' = [i \in DOMAIN ledger |-> IF i = code.id THEN Noted(ledger[i], c, h.ip) ELSE ledger[i]]
    /\ UNCHANGED <<clock, admitted, tokens, asked, granted>>

\* A correct code costs nothing.
Refund(p) ==
    LET ip == req[p].ip IN
    /\ At(p, "refund")
    /\ tokens' = [tokens EXCEPT ![ip] = IF @ < WrongCodes THEN @ + 1 ELSE @]
    /\ Goto(p, "answer")
    /\ UNCHANGED <<clock, admitted, code, attempts, asked, ledger, granted>>

VerifyEnd(p) ==
    /\ At(p, "answer")
    /\ Become(p, Idle)
    /\ UNCHANGED <<clock, admitted, code, attempts, tokens, asked, ledger, granted>>

-----------------------------------------------------------------------------

Tick ==
    /\ clock < MaxClock
    /\ clock' = clock + 1
    /\ UNCHANGED <<admitted, code, attempts, tokens, asked, req, ledger, granted>>

\* The limiter refills as time passes, at any pace here.
Refill(ip) ==
    /\ tokens[ip] < WrongCodes /\ granted[ip] < MaxGranted
    /\ tokens' = [tokens EXCEPT ![ip] = @ + 1]
    /\ granted' = [granted EXCEPT ![ip] = @ + 1]
    /\ UNCHANGED <<clock, admitted, code, attempts, asked, req, ledger>>

\* The handlers and the limiter are lost; the configuration may have changed.
Restart(to) ==
    /\ \A ip \in Ip : granted[ip] + WrongCodes <= MaxGranted
    /\ admitted' = to
    /\ req' = [p \in Proc |-> Idle]
    /\ tokens' = [ip \in Ip |-> WrongCodes]
    /\ granted' = [ip \in Ip |-> granted[ip] + WrongCodes]
    /\ UNCHANGED <<clock, code, attempts, asked, ledger>>

Begin(p, ip) ==
    \E open \in BOOLEAN :
        RequestBegin(p, ip, open) \/ \E guess \in 0..Len(ledger) : VerifyBegin(p, ip, open, guess)

Continue(p) ==
    \/ \E ok \in BOOLEAN : \/ PruneCodes(p, ok) \/ SweepAttempts(p, ok) \/ CheckRecent(p, ok)
                          \/ Save(p, ok) \/ Fill(p, ok) \/ Consume(p, ok)
    \/ \E saturated, allowed \in BOOLEAN : Choose(p, saturated, allowed)
    \/ RequestEnd(p) \/ Charge(p) \/ Refund(p) \/ VerifyEnd(p)

Next ==
    \/ \E p \in Proc : Continue(p) \/ \E ip \in Ip : Begin(p, ip)
    \/ Tick
    \/ \E ip \in Ip : Refill(ip)
    \/ \E to \in Admissions : Restart(to)

Spec == Init /\ [][Next]_vars

-----------------------------------------------------------------------------
(* Properties *)

\* However requests, guesses from several addresses, failures and restarts
\* interleave, no stored code is ever compared with more wrong guesses than
\* the total, nor with more from one client address than its own cap
\* (store.go: "a guesser who rotates source addresses gets at most
\* maxTotalAttempts tries at any one code").
GuessesBounded ==
    \A i \in DOMAIN ledger :
        /\ ledger[i].wrongs <= MaxTotal
        /\ \A ip \in Ip : ledger[i].wrong[ip] <= MaxAttempts

\* A code admits at most one sign-in, within its lifetime, before its total is
\* spent, and none once a later code has been stored: not after a resend, nor
\* by two submissions at once (ConsumeCode).
CodesUsedOnce ==
    [][\A i \in DOMAIN ledger :
        ledger'[i].uses # ledger[i].uses =>
            /\ ledger[i].uses = 0 /\ i = Len(ledger) /\ ledger[i].wrongs < MaxTotal
            /\ \E p \in Proc : At(p, "consume") /\ req[p].now <= ledger[i].issued + TTL]_vars

\* A member for every wrong guess from a client address that a code met.
WrongGuesses(ip) == UNION {{i} \X (1..ledger[i].wrong[ip]) : i \in DOMAIN ledger}

\* The guesses made from a client address never outrun the tokens it was given,
\* though each guess is charged, checked and refunded in separate steps
\* (handleVerifyCode: "simultaneous guesses cannot all pass the check").
GuessesCharged ==
    \A ip \in Ip : Cardinality(WrongGuesses(ip)) + tokens[ip] <= granted[ip]

\* A code less than a cooldown old, and with it the count of wrong guesses at
\* it, is replaced only by a request that was already under way when the code
\* was stored: asking again never does it (handleRequest, HasRecentCode).
ReplacedAfterCooldown ==
    [][code # NoCode /\ code'.id > code.id /\ ledger[code.id].how # "filler" =>
        \E p \in Proc : /\ At(p, "save")
                        /\ \/ ledger[code.id].issued + Cooldown <= req[p].now
                           \/ req[p].before < code.id]_vars

\* A request is left without a code only because one was minted less than a
\* cooldown before: not because of a filler stored during a flood or over the
\* send limit before it began (storeDecoyCode: the owner's next request must
\* not become "a no-op").
FillersBlockNobody ==
    \A p \in Proc :
        LET h == req[p] IN
        At(p, "noop") /\ ~h.failed /\ h.saw <= h.before =>
            ledger[h.saw].how # "filler" /\ h.now < ledger[h.saw].issued + Cooldown

\* Wrong guesses counted against a code are never forgotten by replacing it
\* within its cooldown (handleRequest: "a re-request can't reset the
\* brute-force cap").
NoResetInCooldown ==
    [][code.total > 0 /\ code'.id > code.id /\ ledger[code.id].how # "filler"
        => clock >= ledger[code.id].issued + Cooldown]_vars

=============================================================================
