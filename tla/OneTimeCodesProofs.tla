-------------------------- MODULE OneTimeCodesProofs --------------------------
(***************************************************************************)
(* Proofs of OneTimeCodes.  The row of codes is the last of the ledger or  *)
(* is gone, so its count of wrong guesses is that code's, and never comes  *)
(* back to an earlier one.  What a request saw of the row still tells of   *)
(* every code it may meet later, unless that code was stored since.  The   *)
(* wrong guesses from an address are as many as the tokens it has used.    *)
(***************************************************************************)
EXTENDS OneTimeCodes, SequenceTheorems, FiniteSetTheorems, TLAPS

\* The row is the last code stored, and counts the guesses at it; the guesses
\* from an address are among its attempts.
RowInv(c, a, l) ==
    /\ c.id = 0 => c = NoCode
    /\ c.id # 0 =>
          /\ c.id = Len(l) /\ c.total < MaxTotal
          /\ l[c.id].uses = 0 /\ l[c.id].wrongs = c.total
          /\ \A ip \in Ip : l[c.id].wrong[ip] <= a[ip]
          /\ l[c.id].how = "filler" => c.expires + Cooldown = l[c.id].issued + TTL
          /\ l[c.id].how # "filler" => c.expires = l[c.id].issued + TTL
    /\ \A ip \in Ip : a[ip] <= MaxAttempts

\* Every code kept its caps, and none was stored in the future.
LedgerInv(l, n) ==
    \A i \in 1..Len(l) :
        /\ l[i].wrongs <= MaxTotal /\ l[i].issued <= n
        /\ \A ip \in Ip : l[i].wrong[ip] <= MaxAttempts

Requesting == {"prune", "sweep", "recent", "choose", "save", "fill", "noop", "asked"}

\* A handler, with the row, the ledger and the clock: a request about to replace
\* a code from before it knows its cooldown to be over, and one that does nothing
\* knows a code in its cooldown.
HandOK(h, c, l, n) ==
    /\ h.now <= n
    /\ h.pc \in Requesting => h.before <= Len(l) /\ \A i \in 1..h.before : l[i].issued <= h.now
    /\ h.pc = "save" \/ (h.pc = "choose" /\ ~h.recent) =>
          (c.id # 0 /\ c.id <= h.before => c.expires + Cooldown <= h.now + TTL)
    /\ (h.pc = "noop" \/ (h.pc = "choose" /\ h.recent)) /\ ~h.failed =>
          /\ h.saw \in 1..Len(l)
          /\ h.saw <= h.before => l[h.saw].how # "filler" /\ h.now < l[h.saw].issued + Cooldown
    /\ h.pc \in {"charge", "consume", "refund"} => h.ip \in Ip

StoreInv == RowInv(code, attempts, ledger) /\ LedgerInv(ledger, clock)
HandsInv == \A p \in Proc : HandOK(req[p], code, ledger, clock)

\* The inductive invariant.
CodesInv == TypeOK /\ StoreInv /\ HandsInv

\* A step of the store: codes stored stay in the ledger as they were stored, and
\* the row keeps its code, loses it or has a new one.
Moves(c, l, d, m) ==
    /\ Len(l) <= Len(m)
    /\ \A i \in 1..Len(l) : m[i].how = l[i].how /\ m[i].issued = l[i].issued
    /\ \/ d.id = 0
       \/ d.id = c.id /\ d.expires = c.expires
       \/ d.id > Len(l)

-----------------------------------------------------------------------------

\* The numbers.
LEMMA NumbersAre ==
    ASSUME CodesAssumption
    PROVE  /\ TTL \in Nat /\ Cooldown \in Nat /\ MaxAttempts \in Nat /\ MaxTotal \in Nat /\ WrongCodes \in Nat
           /\ 0 < Cooldown /\ Cooldown < TTL /\ 1 <= MaxAttempts /\ MaxAttempts <= MaxTotal
  BY DEF CodesAssumption

\* A code that is recent, if it was issued as it is sent or as a filler is.
LEMMA Cooldowns ==
    ASSUME CodesAssumption, NEW n \in Nat, NEW i \in Nat, NEW e \in Nat, e > n + TTL - Cooldown
    PROVE  (e + Cooldown = i + TTL => ~(i <= n)) /\ (e = i + TTL => n < i + Cooldown)
  BY NumbersAre

\* A code whose cooldown is over.
LEMMA CooldownOver ==
    ASSUME CodesAssumption, NEW n \in Nat, NEW i \in Nat, NEW e \in Nat, e = i + TTL, e + Cooldown <= n + TTL
    PROVE  i + Cooldown <= n
  BY NumbersAre

\* What the types say of the store.
LEMMA TypesAre ==
    ASSUME TypeOK
    PROVE  /\ clock \in Nat /\ code.id \in 0..Len(ledger) /\ code.expires \in Nat /\ code.total \in Nat
           /\ code = [id |-> code.id, expires |-> code.expires, total |-> code.total]
           /\ attempts \in [Ip -> Nat] /\ Len(ledger) \in Nat /\ ledger \in Seq(Entry)
           /\ \A i \in 1..Len(ledger) : ledger[i] \in Entry
           /\ DOMAIN ledger = 1..Len(ledger)
  BY DEF TypeOK

\* A handler that does nothing.
LEMMA IdleIs ==
    /\ Idle \in Handler /\ Idle.pc = "idle"
    /\ \A c, l, n : n \in Nat => HandOK(Idle, c, l, n)
  <1>1. Idle \in Handler
    BY DEF Idle, Handler, Results
  <1>2. Idle.pc = "idle" /\ Idle.now = 0
    BY DEF Idle
  <1> QED BY <1>1, <1>2 DEF HandOK, Requesting

\* A handler is as good after a step of the others.
LEMMA HandKept ==
    ASSUME NEW h \in Handler, NEW c, NEW l, NEW d, NEW m, NEW n \in Nat, NEW n2 \in Nat, n <= n2,
           Len(l) \in Nat, Len(m) \in Nat, Moves(c, l, d, m), d.id \in Nat, HandOK(h, c, l, n)
    PROVE  HandOK(h, d, m, n2)
  <1>1. h.now \in Nat /\ h.before \in Nat /\ h.saw \in Nat
    BY DEF Handler
  <1>2. h.now <= n2
    BY <1>1 DEF HandOK
  <1>3. h.pc \in Requesting => h.before <= Len(m) /\ \A i \in 1..h.before : m[i].issued <= h.now
    BY <1>1 DEF HandOK, Moves
  <1>4. h.pc = "save" \/ (h.pc = "choose" /\ ~h.recent) =>
          (d.id # 0 /\ d.id <= h.before => d.expires + Cooldown <= h.now + TTL)
    <2>1. SUFFICES ASSUME h.pc = "save" \/ (h.pc = "choose" /\ ~h.recent), d.id # 0, d.id <= h.before
                   PROVE  d.expires + Cooldown <= h.now + TTL
      OBVIOUS
    <2>2. h.before <= Len(l)
      BY <2>1 DEF HandOK, Requesting
    <2>3. d.id = c.id /\ d.expires = c.expires
      BY <1>1, <2>1, <2>2 DEF Moves
    <2> QED BY <2>1, <2>3 DEF HandOK
  <1>5. (h.pc = "noop" \/ (h.pc = "choose" /\ h.recent)) /\ ~h.failed =>
          /\ h.saw \in 1..Len(m)
          /\ h.saw <= h.before => m[h.saw].how # "filler" /\ h.now < m[h.saw].issued + Cooldown
    BY <1>1 DEF HandOK, Moves
  <1>6. h.pc \in {"charge", "consume", "refund"} => h.ip \in Ip
    BY DEF HandOK
  <1> QED BY <1>2, <1>3, <1>4, <1>5, <1>6 DEF HandOK

\* A store left alone.
LEMMA StoreStays ==
    ASSUME TypeOK, UNCHANGED <<code, ledger>>
    PROVE  Moves(code, ledger, code', ledger')
  BY TypesAre DEF Moves

\* A step of one handler.
LEMMA InvStep ==
    ASSUME CodesInv, NEW p \in Proc, NEW h \in Handler, req' = [req EXCEPT ![p] = h],
           UNCHANGED <<clock, admitted, granted>>, asked' \in Nat, tokens' \in [Ip -> 0..WrongCodes],
           code' \in [id : 0..Len(ledger'), expires : Nat, total : Nat], attempts' \in [Ip -> Nat],
           ledger' \in Seq(Entry), StoreInv', Moves(code, ledger, code', ledger'),
           HandOK(h, code', ledger', clock)
    PROVE  CodesInv'
  <1>1. TypeOK /\ req \in [Proc -> Handler] /\ clock \in Nat /\ Len(ledger) \in Nat
    BY TypesAre DEF CodesInv, TypeOK
  <1>2. TypeOK'
    BY <1>1 DEF TypeOK
  <1>3. Len(ledger') \in Nat /\ code'.id \in Nat /\ clock' = clock
    <2>1. Len(ledger') \in Nat
      OBVIOUS
    <2> QED BY <2>1
  <1>4. ASSUME NEW q \in Proc PROVE HandOK(req'[q], code', ledger', clock')
    <2>1. CASE q = p
      BY <1>1, <1>3, <2>1
    <2>2. CASE q # p
      <3>1. req'[q] = req[q] /\ req[q] \in Handler /\ HandOK(req[q], code, ledger, clock)
        BY <1>1, <2>2 DEF CodesInv, HandsInv
      <3> QED BY <1>1, <1>3, <3>1, HandKept
    <2> QED BY <2>1, <2>2
  <1> QED BY <1>2, <1>4 DEF CodesInv, HandsInv

\* ... that leaves the store alone.
LEMMA InvQuiet ==
    ASSUME CodesInv, NEW p \in Proc, NEW h \in Handler, req' = [req EXCEPT ![p] = h],
           UNCHANGED <<clock, admitted, code, attempts, ledger, granted>>, asked' \in Nat,
           tokens' \in [Ip -> 0..WrongCodes], HandOK(h, code, ledger, clock)
    PROVE  CodesInv'
  <1>1. TypeOK /\ StoreInv
    BY DEF CodesInv
  <1>2. StoreInv'
    BY <1>1 DEF StoreInv
  <1>3. /\ code' \in [id : 0..Len(ledger'), expires : Nat, total : Nat] /\ attempts' \in [Ip -> Nat]
        /\ ledger' \in Seq(Entry)
    BY <1>1 DEF TypeOK
  <1> QED BY <1>1, <1>2, <1>3, StoreStays, InvStep

-----------------------------------------------------------------------------

Pcs == Requesting \cup {"idle", "charge", "consume", "refund", "answer"}

\* A handler that goes on.
LEMMA GotoIs ==
    ASSUME NEW h \in Handler, NEW pc \in Pcs, NEW c, NEW l, NEW n, HandOK(h, c, l, n),
           pc \in Requesting => h.pc \in Requesting, pc # "choose",
           pc = "save" => h.pc = "choose" /\ ~h.recent,
           pc = "noop" => h.pc = "choose" /\ h.recent,
           pc \in {"charge", "consume", "refund"} => h.ip \in Ip
    PROVE  [h EXCEPT !.pc = pc] \in Handler /\ HandOK([h EXCEPT !.pc = pc], c, l, n)
  <1> DEFINE g == [h EXCEPT !.pc = pc]
  <1>1. g \in Handler
    BY DEF Handler, Pcs, Requesting
  <1>2. /\ g.pc = pc /\ g.now = h.now /\ g.before = h.before /\ g.saw = h.saw /\ g.failed = h.failed
        /\ g.recent = h.recent /\ g.ip = h.ip
    BY DEF Handler
  <1> HIDE DEF g
  <1>3. HandOK(g, c, l, n)
    <2>1. CASE pc = "save"
      BY <1>2, <2>1 DEF HandOK, Requesting
    <2>2. CASE pc = "noop"
      BY <1>2, <2>2 DEF HandOK, Requesting
    <2>3. CASE pc \notin {"save", "noop"}
      BY <1>2, <2>3 DEF HandOK
    <2> QED BY <2>1, <2>2, <2>3
  <1> QED BY <1>1, <1>3 DEF g

\* What a handler that moves was.
LEMMA HandsAre ==
    ASSUME CodesInv, NEW p \in Proc
    PROVE  /\ req[p] \in Handler /\ HandOK(req[p], code, ledger, clock) /\ req \in [Proc -> Handler]
           /\ asked \in Nat /\ tokens \in [Ip -> 0..WrongCodes] /\ clock \in Nat
  BY DEF CodesInv, HandsInv, TypeOK

\* A request begins.
LEMMA InvRequestBegin ==
    ASSUME CodesInv, NEW p \in Proc, NEW ip \in Ip, NEW open \in BOOLEAN, RequestBegin(p, ip, open)
    PROVE  CodesInv'
  <1> DEFINE h == [Idle EXCEPT !.pc = "prune", !.ip = ip, !.now = clock, !.open = open, !.before = Len(ledger)]
  <1>1. TypeOK /\ StoreInv /\ clock \in Nat /\ Len(ledger) \in Nat
    BY TypesAre DEF CodesInv
  <1>2. req' = [req EXCEPT ![p] = h] /\ UNCHANGED <<clock, admitted, code, attempts, tokens, asked, ledger, granted>>
    BY DEF RequestBegin, Become
  <1>3. h \in Handler /\ h.pc = "prune" /\ h.now = clock /\ h.before = Len(ledger)
    BY <1>1, IdleIs DEF Handler
  <1>5. \A i \in 1..Len(ledger) : ledger[i].issued <= clock
    BY <1>1 DEF StoreInv, LedgerInv
  <1> HIDE DEF h
  <1>6. HandOK(h, code, ledger, clock)
    BY <1>1, <1>3, <1>5 DEF HandOK, Requesting
  <1> QED BY <1>2, <1>3, <1>6, HandsAre, InvQuiet

\* A guess begins.
LEMMA InvVerifyBegin ==
    ASSUME CodesInv, NEW p \in Proc, NEW ip \in Ip, NEW open \in BOOLEAN, NEW guess \in 0..Len(ledger),
           VerifyBegin(p, ip, open, guess)
    PROVE  CodesInv'
  <1>1. TypeOK /\ clock \in Nat /\ guess \in Nat
    BY TypesAre DEF CodesInv
  <1>2. UNCHANGED <<clock, admitted, code, attempts, tokens, asked, ledger, granted>>
    BY DEF VerifyBegin
  <1> DEFINE g == [Idle EXCEPT !.pc = "charge", !.ip = ip, !.now = clock, !.open = open, !.guess = guess]
             k == [Idle EXCEPT !.pc = "answer", !.result = "restart"]
  <1>3. /\ g \in Handler /\ g.pc = "charge" /\ g.now = clock /\ g.ip = ip
        /\ k \in Handler /\ k.pc = "answer" /\ k.now = 0
    <2>1. Idle.now = 0
      BY DEF Idle
    <2> QED BY <1>1, <2>1, IdleIs DEF Handler, Results
  <1>4. req' = [req EXCEPT ![p] = g] \/ req' = [req EXCEPT ![p] = k]
    BY DEF VerifyBegin, Become
  <1> HIDE DEF g, k
  <1>5. HandOK(g, code, ledger, clock) /\ HandOK(k, code, ledger, clock)
    BY <1>1, <1>3 DEF HandOK, Requesting
  <1> QED BY <1>2, <1>3, <1>4, <1>5, HandsAre, InvQuiet

\* A request sees whether there is a recent code.
LEMMA InvRecent ==
    ASSUME CodesAssumption, CodesInv, NEW p \in Proc, NEW ok \in BOOLEAN, CheckRecent(p, ok)
    PROVE  CodesInv'
  <1> DEFINE h == req[p]
             recent == ok => HasRecentCode(h.now + TTL - Cooldown)
             g == [h EXCEPT !.pc = "choose", !.failed = ~ok, !.saw = code.id, !.recent = recent]
  <1>1. /\ TypeOK /\ RowInv(code, attempts, ledger) /\ h \in Handler /\ HandOK(h, code, ledger, clock)
        /\ h.pc = "recent"
    BY HandsAre DEF CodesInv, StoreInv, CheckRecent, At
  <1>2. /\ h.now \in Nat /\ h.before \in Nat /\ code.id \in 0..Len(ledger) /\ code.id \in Nat /\ code.expires \in Nat
        /\ Len(ledger) \in Nat /\ \A i \in 1..Len(ledger) : ledger[i].issued \in Nat
    <2>1. h.now \in Nat /\ h.before \in Nat
      BY <1>1 DEF Handler
    <2>2. code.id \in 0..Len(ledger) /\ code.expires \in Nat /\ Len(ledger) \in Nat
      BY <1>1, TypesAre
    <2>3. \A i \in 1..Len(ledger) : ledger[i].issued \in Nat
      BY <1>1, TypesAre DEF Entry
    <2> QED BY <2>1, <2>2, <2>3
  <1>3. /\ h.before <= Len(ledger) /\ \A i \in 1..h.before : ledger[i].issued <= h.now
        /\ h.now <= clock
    BY <1>1 DEF HandOK, Requesting
  <1>4. TTL \in Nat /\ Cooldown \in Nat /\ 0 < Cooldown /\ Cooldown < TTL
    BY NumbersAre
  <1>5. recent \in BOOLEAN /\ (~ok) \in BOOLEAN
    BY DEF HasRecentCode
  <1>6. ~recent => (code.id # 0 => code.expires + Cooldown <= h.now + TTL)
    <2>1. SUFFICES ASSUME ~recent, code.id # 0 PROVE code.expires + Cooldown <= h.now + TTL
      OBVIOUS
    <2>2. code # NoCode
      BY <2>1 DEF NoCode
    <2>3. ~(code.expires > h.now + TTL - Cooldown)
      BY <2>1, <2>2 DEF HasRecentCode
    <2> HIDE DEF h
    <2> QED BY <1>2, <1>4, <2>3
  <1>7. recent /\ ok => code.id # 0 /\ (code.id <= h.before =>
                           ledger[code.id].how # "filler" /\ h.now < ledger[code.id].issued + Cooldown)
    <2>1. SUFFICES ASSUME recent, ok
                   PROVE  code.id # 0 /\ (code.id <= h.before =>
                            ledger[code.id].how # "filler" /\ h.now < ledger[code.id].issued + Cooldown)
      OBVIOUS
    <2>2. code # NoCode /\ code.expires > h.now + TTL - Cooldown
      BY <2>1 DEF HasRecentCode
    <2>3. code.id # 0
      BY <1>1, <2>2 DEF RowInv
    <2>4. /\ ledger[code.id].issued \in Nat
          /\ ledger[code.id].how = "filler" => code.expires + Cooldown = ledger[code.id].issued + TTL
          /\ ledger[code.id].how # "filler" => code.expires = ledger[code.id].issued + TTL
          /\ code.id <= h.before => ledger[code.id].issued <= h.now
      BY <1>1, <1>2, <1>3, <2>3 DEF RowInv
    <2> HIDE DEF h, g, recent
    <2>5. CASE ledger[code.id].how = "filler"
      <3>1. ~(ledger[code.id].issued <= h.now)
        BY <1>2, <2>2, <2>4, <2>5, Cooldowns
      <3> QED BY <2>3, <2>4, <3>1
    <2>6. CASE ledger[code.id].how # "filler"
      <3>1. h.now < ledger[code.id].issued + Cooldown
        BY <1>2, <2>2, <2>4, <2>6, Cooldowns
      <3> QED BY <2>3, <2>6, <3>1
    <2> QED BY <2>5, <2>6
  <1>8. req' = [req EXCEPT ![p] = g] /\ UNCHANGED <<clock, admitted, code, attempts, tokens, asked, ledger, granted>>
    BY DEF CheckRecent, Become
  <1> HIDE DEF recent
  <1>9. \A f \in BOOLEAN : [h EXCEPT !.pc = "choose", !.failed = f, !.saw = code.id, !.recent = recent] \in Handler
    BY <1>1, <1>2, <1>5 DEF Handler
  <1>10. g \in Handler
    BY <1>5, <1>9
  <1>11. /\ g.pc = "choose" /\ g.saw = code.id /\ g.now = h.now /\ g.before = h.before
         /\ g.failed = (~ok) /\ g.recent = recent
    BY <1>1 DEF Handler
  <1> HIDE DEF g, h
  <1>12. HandOK(g, code, ledger, clock)
    <2>1. g.recent => recent
      BY <1>11
    <2>2. recent => g.recent
      BY <1>11
    <2>3. ~g.failed => ok
      BY <1>11
    <2> QED BY <1>2, <1>3, <1>6, <1>7, <1>11, <2>1, <2>2, <2>3 DEF HandOK, Requesting
  <1> QED BY <1>8, <1>10, <1>12, HandsAre, InvQuiet

\* What a request does is chosen.
LEMMA InvChoose ==
    ASSUME CodesInv, NEW p \in Proc, NEW saturated \in BOOLEAN, NEW allowed \in BOOLEAN, Choose(p, saturated, allowed)
    PROVE  CodesInv'
  <1>1. PICK pc \in {"fill", "noop", "save"} :
            /\ Goto(p, pc) /\ (pc = "noop" => req[p].recent) /\ (pc = "save" => ~req[p].recent)
    BY DEF Choose
  <1>2. /\ req[p].pc = "choose" /\ UNCHANGED <<clock, admitted, code, attempts, tokens, asked, ledger, granted>>
        /\ req' = [req EXCEPT ![p] = [req[p] EXCEPT !.pc = pc]]
    BY <1>1 DEF Choose, At, Goto, Become
  <1>3. [req[p] EXCEPT !.pc = pc] \in Handler /\ HandOK([req[p] EXCEPT !.pc = pc], code, ledger, clock)
    <2>1. pc \in Pcs /\ pc \notin {"choose", "charge", "consume", "refund"} /\ req[p].pc \in Requesting
      BY <1>2 DEF Pcs, Requesting
    <2> QED BY <1>1, <1>2, <2>1, HandsAre, GotoIs
  <1> QED BY <1>2, <1>3, HandsAre, InvQuiet

\* A handler ends.
LEMMA InvEnd ==
    ASSUME CodesInv, NEW p \in Proc, RequestEnd(p) \/ VerifyEnd(p)
    PROVE  CodesInv'
  <1>1. /\ req' = [req EXCEPT ![p] = Idle]
        /\ UNCHANGED <<clock, admitted, code, attempts, tokens, ledger, granted>>
    BY DEF RequestEnd, VerifyEnd, Become
  <1>2. asked' \in Nat
    <2>1. req[p].now + TTL \in Nat \/ asked' \in Nat
      <3>1. CASE VerifyEnd(p)
        BY <3>1, HandsAre DEF VerifyEnd
      <3>2. CASE RequestEnd(p) /\ TTL \in Nat
        BY <3>2, HandsAre DEF Handler
      <3>3. TTL \in Nat
        BY CodesAssumption, NumbersAre
      <3> QED BY <3>1, <3>2, <3>3
    <2> QED BY <2>1, HandsAre DEF RequestEnd, VerifyEnd
  <1>3. Idle \in Handler /\ HandOK(Idle, code, ledger, clock)
    BY HandsAre, IdleIs
  <1> QED BY <1>1, <1>2, <1>3, HandsAre, InvQuiet

\* A guess is charged.
LEMMA InvCharge ==
    ASSUME CodesInv, NEW p \in Proc, Charge(p)
    PROVE  CodesInv'
  <1> DEFINE h == req[p]
             g == [h EXCEPT !.pc = "answer", !.result = "busy"]
  <1>1. /\ h.pc = "charge" /\ h.ip \in Ip /\ h \in Handler /\ UNCHANGED <<clock, admitted, code, attempts, asked, ledger, granted>>
        /\ tokens \in [Ip -> 0..WrongCodes] /\ WrongCodes \in Nat
    BY HandsAre, CodesAssumption, NumbersAre DEF Charge, At, HandOK
  <1>2. CASE tokens' = [tokens EXCEPT ![h.ip] = @ - 1] /\ Goto(p, "consume") /\ tokens[h.ip] > 0
    <2>1. tokens' \in [Ip -> 0..WrongCodes]
      BY <1>1, <1>2
    <2>2. [h EXCEPT !.pc = "consume"] \in Handler /\ HandOK([h EXCEPT !.pc = "consume"], code, ledger, clock)
      <3>1. "consume" \in Pcs /\ "consume" \notin Requesting
        BY DEF Pcs, Requesting
      <3> QED BY <1>1, <3>1, HandsAre, GotoIs
    <2> QED BY <1>1, <1>2, <2>1, <2>2, HandsAre, InvQuiet DEF Goto, Become
  <1>3. CASE Become(p, g) /\ UNCHANGED tokens
    <2>1. g \in Handler /\ g.pc = "answer" /\ g.now = h.now
      BY <1>1 DEF Handler, Results
    <2>2. req' = [req EXCEPT ![p] = g]
      BY <1>3 DEF Become
    <2>3. h.now <= clock
      BY HandsAre DEF HandOK
    <2> HIDE DEF g, h
    <2>4. HandOK(g, code, ledger, clock)
      BY <2>1, <2>3 DEF HandOK, Requesting
    <2> QED BY <1>1, <1>3, <2>1, <2>2, <2>4, HandsAre, InvQuiet
  <1> QED BY <1>2, <1>3 DEF Charge

\* A guess that was right is refunded.
LEMMA InvRefund ==
    ASSUME CodesInv, NEW p \in Proc, Refund(p)
    PROVE  CodesInv'
  <1> DEFINE h == req[p]
  <1>1. /\ h.pc = "refund" /\ h.ip \in Ip /\ UNCHANGED <<clock, admitted, code, attempts, asked, ledger, granted>>
        /\ tokens' = [tokens EXCEPT ![h.ip] = IF @ < WrongCodes THEN @ + 1 ELSE @]
        /\ req' = [req EXCEPT ![p] = [h EXCEPT !.pc = "answer"]]
        /\ tokens \in [Ip -> 0..WrongCodes] /\ WrongCodes \in Nat
    BY HandsAre, CodesAssumption, NumbersAre DEF Refund, At, HandOK, Goto, Become
  <1>2. tokens' \in [Ip -> 0..WrongCodes]
    BY <1>1
  <1>3. [h EXCEPT !.pc = "answer"] \in Handler /\ HandOK([h EXCEPT !.pc = "answer"], code, ledger, clock)
    <2>1. "answer" \in Pcs /\ "answer" \notin Requesting
      BY DEF Pcs, Requesting
    <2> QED BY <2>1, HandsAre, GotoIs
  <1> QED BY <1>1, <1>2, <1>3, HandsAre, InvQuiet

-----------------------------------------------------------------------------

\* Expired codes are deleted, and the attempts at codes that are gone.
LEMMA InvPrune ==
    ASSUME CodesInv, NEW p \in Proc, NEW ok \in BOOLEAN, PruneCodes(p, ok) \/ SweepAttempts(p, ok)
    PROVE  CodesInv'
  <1>1. TypeOK /\ StoreInv /\ req[p].pc \in Requesting
    BY DEF CodesInv, PruneCodes, SweepAttempts, At, Requesting
  <1>2. PICK pc \in {"sweep", "recent"} : req' = [req EXCEPT ![p] = [req[p] EXCEPT !.pc = pc]]
    BY DEF PruneCodes, SweepAttempts, Goto, Become
  <1>3. /\ UNCHANGED <<clock, admitted, tokens, asked, ledger, granted>>
        /\ code' = code \/ code' = NoCode
        /\ attempts' = attempts \/ (attempts' = NoAttempts /\ UNCHANGED code /\ code = NoCode)
    BY DEF PruneCodes, SweepAttempts
  <1>4. NoCode.id = 0 /\ NoCode \in [id : 0..Len(ledger), expires : Nat, total : Nat] /\ NoAttempts \in [Ip -> Nat]
    BY <1>1, TypesAre DEF NoCode, NoAttempts
  <1>5. /\ code' \in [id : 0..Len(ledger'), expires : Nat, total : Nat] /\ attempts' \in [Ip -> Nat]
        /\ ledger' \in Seq(Entry)
    BY <1>1, <1>3, <1>4 DEF TypeOK
  <1>6. RowInv(code', attempts', ledger')
    <2>1. RowInv(code, attempts, ledger) /\ 0 <= MaxAttempts
      BY <1>1, CodesAssumption, NumbersAre DEF StoreInv
    <2>2. \A ip \in Ip : attempts'[ip] <= MaxAttempts
      BY <1>3, <2>1 DEF RowInv, NoAttempts
    <2>3. CASE code' = NoCode
      BY <1>4, <2>2, <2>3 DEF RowInv
    <2>4. CASE code' = code /\ code # NoCode
      BY <1>3, <2>1, <2>4
    <2> QED BY <1>3, <2>3, <2>4
  <1>7. StoreInv'
    BY <1>1, <1>3, <1>6 DEF StoreInv
  <1>8. Moves(code, ledger, code', ledger')
    BY <1>1, <1>3, <1>4, TypesAre DEF Moves
  <1>9. [req[p] EXCEPT !.pc = pc] \in Handler /\ HandOK([req[p] EXCEPT !.pc = pc], code', ledger', clock)
    <2>1. pc \in Pcs /\ pc \in Requesting /\ pc \notin {"choose", "save", "noop", "charge", "consume", "refund"}
      BY DEF Pcs, Requesting
    <2>2. [req[p] EXCEPT !.pc = pc] \in Handler /\ HandOK([req[p] EXCEPT !.pc = pc], code, ledger, clock)
      BY <1>1, <2>1, HandsAre, GotoIs
    <2>3. Len(ledger) \in Nat /\ Len(ledger') \in Nat /\ clock \in Nat /\ code'.id \in Nat /\ clock <= clock
      BY <1>1, <1>3, <1>5, TypesAre
    <2> QED BY <1>8, <2>2, <2>3, HandKept
  <1> QED BY <1>1, <1>2, <1>3, <1>5, <1>7, <1>8, <1>9, HandsAre, InvStep

\* The ledger with a code more.
LEMMA LedgerGrows ==
    ASSUME NEW l \in Seq(Entry), NEW e \in Entry
    PROVE  /\ Append(l, e) \in Seq(Entry) /\ Len(Append(l, e)) = Len(l) + 1 /\ Len(l) \in Nat
           /\ Append(l, e)[Len(l) + 1] = e
           /\ \A i \in 1..Len(l) : Append(l, e)[i] = l[i]
  <1>1. /\ Append(l, e) \in Seq(Entry) /\ Len(Append(l, e)) = Len(l) + 1
        /\ \A i \in 1..Len(l) : Append(l, e)[i] = l[i] /\ Append(l, e)[Len(l) + 1] = e
    BY AppendProperties
  <1>2. Len(l) \in Nat
    BY LenProperties
  <1>3. Append(l, e)[Len(l) + 1] = e
    BY AppendProperties
  <1> QED BY <1>1, <1>2, <1>3

\* A code is stored.
LEMMA InvStore ==
    ASSUME CodesInv, NEW p \in Proc, req[p].pc \in Requesting, NEW how \in {"mailed", "decoy", "filler"},
           NEW expires \in Nat,
           how = "filler" => expires + Cooldown = req[p].now + TTL, how # "filler" => expires = req[p].now + TTL,
           code' = [id |-> Len(ledger) + 1, expires |-> expires, total |-> 0],
           ledger' = Append(ledger, Stored(how, req[p].now)), attempts' = NoAttempts \/ UNCHANGED attempts,
           Goto(p, "asked"), UNCHANGED <<clock, admitted, tokens, asked, granted>>
    PROVE  CodesInv'
  <1> DEFINE h == req[p]
             e == Stored(how, h.now)
             n == Len(ledger) + 1
  <1>1. /\ TypeOK /\ RowInv(code, attempts, ledger) /\ LedgerInv(ledger, clock)
        /\ h \in Handler /\ HandOK(h, code, ledger, clock) /\ clock \in Nat /\ ledger \in Seq(Entry)
        /\ Len(ledger) \in Nat /\ attempts \in [Ip -> Nat]
    BY HandsAre, TypesAre DEF CodesInv, StoreInv
  <1>2. h.now \in Nat /\ h.now <= clock
    BY <1>1 DEF Handler, HandOK
  <1>3. e \in Entry /\ e.how = how /\ e.issued = h.now /\ e.wrongs = 0 /\ e.uses = 0 /\ \A ip \in Ip : e.wrong[ip] = 0
    BY <1>2 DEF Stored, Entry, NoAttempts
  <1> HIDE DEF e
  <1>4. /\ ledger' \in Seq(Entry) /\ Len(ledger') = n /\ ledger'[n] = e /\ \A i \in 1..Len(ledger) : ledger'[i] = ledger[i]
    BY <1>1, <1>3, LedgerGrows DEF e
  <1>5. code' \in [id : 0..Len(ledger'), expires : Nat, total : Nat] /\ code'.id = n /\ code'.expires = expires /\ code'.total = 0
    BY <1>1, <1>4
  <1>6. attempts' \in [Ip -> Nat] /\ \A ip \in Ip : 0 <= attempts'[ip] /\ attempts'[ip] <= MaxAttempts
    BY <1>1, CodesAssumption, NumbersAre DEF RowInv, NoAttempts
  <1>7. RowInv(code', attempts', ledger')
    <2>1. n # 0 /\ 0 < MaxTotal
      BY <1>1, CodesAssumption, NumbersAre
    <2> HIDE DEF h, n
    <2> QED BY <1>3, <1>4, <1>5, <1>6, <2>1 DEF RowInv, h
  <1>8. LedgerInv(ledger', clock')
    <2>1. 0 <= MaxTotal /\ 0 <= MaxAttempts
      BY CodesAssumption, NumbersAre
    <2>2. ASSUME NEW i \in 1..Len(ledger')
          PROVE  /\ ledger'[i].wrongs <= MaxTotal /\ ledger'[i].issued <= clock
                 /\ \A ip \in Ip : ledger'[i].wrong[ip] <= MaxAttempts
      <3>1. CASE i = n
        BY <1>2, <1>3, <1>4, <2>1, <3>1
      <3>2. CASE i # n
        <4>1. i \in 1..Len(ledger)
          BY <1>1, <1>4, <3>2
        <4> QED BY <1>1, <1>4, <4>1 DEF LedgerInv
      <3> QED BY <3>1, <3>2
    <2> QED BY <2>2 DEF LedgerInv
  <1>9. Moves(code, ledger, code', ledger')
    BY <1>1, <1>4, <1>5 DEF Moves
  <1> DEFINE g == [h EXCEPT !.pc = "asked"]
  <1>10. g \in Handler /\ HandOK(g, code', ledger', clock)
    <2>1. "asked" \in Pcs /\ "asked" \in Requesting
      BY DEF Pcs, Requesting
    <2>2. g \in Handler /\ HandOK(g, code, ledger, clock)
      BY <1>1, <2>1, GotoIs
    <2>3. Len(ledger') \in Nat /\ code'.id \in Nat /\ clock <= clock
      BY <1>1, <1>4, <1>5
    <2> HIDE DEF g
    <2> QED BY <1>1, <1>9, <2>2, <2>3, HandKept
  <1>11. StoreInv'
    BY <1>7, <1>8 DEF StoreInv
  <1> QED BY <1>1, <1>4, <1>5, <1>6, <1>9, <1>10, <1>11, HandsAre, InvStep DEF Goto, Become

\* A code is sent, or one that is not is stored.
LEMMA InvSave ==
    ASSUME CodesInv, NEW p \in Proc, NEW ok \in BOOLEAN, Save(p, ok) \/ Fill(p, ok)
    PROVE  CodesInv'
  <1> DEFINE h == req[p]
  <1>1. /\ Goto(p, "asked") /\ UNCHANGED <<clock, admitted, tokens, asked, granted>> /\ h.pc \in {"save", "fill"}
    BY DEF Save, Fill, At
  <1>2. h.pc \in Requesting /\ h.now \in Nat /\ h \in Handler
    BY <1>1, HandsAre DEF Requesting, Handler
  <1>3. TTL \in Nat /\ Cooldown \in Nat /\ Cooldown < TTL
    BY CodesAssumption, NumbersAre
  <1>4. h.now + TTL \in Nat /\ h.now + TTL - Cooldown \in Nat /\ (h.now + TTL - Cooldown) + Cooldown = h.now + TTL
    <2> HIDE DEF h
    <2> QED BY <1>2, <1>3
  <1>5. CASE UNCHANGED <<code, attempts, ledger>>
    <2>1. "asked" \in Pcs /\ "asked" \in Requesting
      BY DEF Pcs, Requesting
    <2>2. [h EXCEPT !.pc = "asked"] \in Handler /\ HandOK([h EXCEPT !.pc = "asked"], code, ledger, clock)
      BY <1>2, <2>1, HandsAre, GotoIs
    <2> QED BY <1>1, <1>5, <2>2, HandsAre, InvQuiet DEF Goto, Become
  <1>6. ASSUME NEW how \in {"mailed", "decoy"}, SaveCode(how, h.now, h.now + TTL) PROVE CodesInv'
    BY <1>1, <1>2, <1>4, <1>6, InvStore DEF SaveCode
  <1>7. CASE EnsureCode("filler", h.now, h.now + TTL - Cooldown)
    <2>1. CASE UNCHANGED <<code, ledger>>
      BY <1>5, <1>7, <2>1 DEF EnsureCode
    <2>2. CASE /\ code' = [id |-> Len(ledger) + 1, expires |-> h.now + TTL - Cooldown, total |-> 0]
               /\ ledger' = Append(ledger, Stored("filler", h.now))
      BY <1>1, <1>2, <1>4, <1>7, <2>2, InvStore DEF EnsureCode
    <2> QED BY <1>7, <2>1, <2>2 DEF EnsureCode
  <1>8. CASE Save(p, ok)
    <2>1. (IF Permitted(h.open) THEN "mailed" ELSE "decoy") \in {"mailed", "decoy"}
      OBVIOUS
    <2> QED BY <1>5, <1>6, <1>8, <2>1 DEF Save
  <1> QED BY <1>5, <1>7, <1>8 DEF Fill

-----------------------------------------------------------------------------

\* A guess that leaves a good row and a good ledger.
LEMMA InvGuessed ==
    ASSUME CodesInv, NEW p \in Proc, NEW pc \in {"refund", "answer"}, NEW result \in Results,
           req[p].pc = "consume", req' = [req EXCEPT ![p] = [req[p] EXCEPT !.pc = pc, !.result = result]],
           UNCHANGED <<clock, admitted, tokens, asked, granted>>,
           code' = NoCode \/ (code'.id = code.id /\ code'.expires = code.expires /\ code'.total \in Nat
                              /\ code' = [id |-> code'.id, expires |-> code'.expires, total |-> code'.total]),
           attempts' \in [Ip -> Nat], ledger' \in Seq(Entry), Len(ledger') = Len(ledger),
           \A i \in 1..Len(ledger) : ledger'[i].how = ledger[i].how /\ ledger'[i].issued = ledger[i].issued,
           RowInv(code', attempts', ledger'), LedgerInv(ledger', clock)
    PROVE  CodesInv'
  <1> DEFINE g == [req[p] EXCEPT !.pc = pc, !.result = result]
  <1>1. /\ TypeOK /\ req[p] \in Handler /\ HandOK(req[p], code, ledger, clock)
        /\ Len(ledger) \in Nat /\ code.id \in 0..Len(ledger) /\ code.expires \in Nat
    BY HandsAre, TypesAre DEF CodesInv
  <1>2. code' \in [id : 0..Len(ledger'), expires : Nat, total : Nat] /\ code'.id \in Nat
    <2>1. CASE code' = NoCode
      BY <1>1, <2>1 DEF NoCode
    <2>2. CASE code' # NoCode
      BY <1>1, <2>2
    <2> QED BY <2>1, <2>2
  <1>3. Moves(code, ledger, code', ledger')
    BY <1>1 DEF Moves, NoCode
  <1>4. g \in Handler /\ g.pc = pc /\ g.now = req[p].now /\ g.ip = req[p].ip
    BY <1>1 DEF Handler
  <1>5. HandOK(g, code', ledger', clock)
    <2>1. req[p].now <= clock /\ req[p].ip \in Ip
      BY <1>1 DEF HandOK
    <2> HIDE DEF g
    <2> QED BY <1>4, <2>1 DEF HandOK, Requesting
  <1>6. StoreInv'
    BY DEF StoreInv
  <1> QED BY <1>2, <1>3, <1>4, <1>5, <1>6, HandsAre, InvStep

\* A guess compared with the code, right or wrong: what the ledger notes keeps
\* the caps.
LEMMA NotedKeeps ==
    ASSUME CodesInv, NEW e \in Entry, code.id # 0,
           ledger' = [i \in DOMAIN ledger |-> IF i = code.id THEN e ELSE ledger[i]],
           e.how = ledger[code.id].how, e.issued = ledger[code.id].issued, e.wrongs <= MaxTotal,
           \A ip \in Ip : e.wrong[ip] <= MaxAttempts
    PROVE  /\ ledger' \in Seq(Entry) /\ Len(ledger') = Len(ledger) /\ ledger'[code.id] = e
           /\ \A i \in 1..Len(ledger) : ledger'[i].how = ledger[i].how /\ ledger'[i].issued = ledger[i].issued
           /\ LedgerInv(ledger', clock)
  <1>1. /\ ledger \in Seq(Entry) /\ code.id \in 1..Len(ledger) /\ LedgerInv(ledger, clock)
        /\ Len(ledger) \in Nat
    BY TypesAre DEF CodesInv, StoreInv
  <1>2. /\ ledger' \in Seq(Entry) /\ Len(ledger') = Len(ledger) /\ ledger'[code.id] = e
        /\ \A i \in 1..Len(ledger) : i # code.id => ledger'[i] = ledger[i]
    <2>1. DOMAIN ledger = 1..Len(ledger) /\ ledger \in [1..Len(ledger) -> Entry]
      BY <1>1, LenProperties
    <2>2. ledger' \in [1..Len(ledger) -> Entry] /\ \A i \in 1..Len(ledger) : ledger'[i] \in Entry
      BY <1>1, <2>1
    <2>3. ledger' \in Seq(Entry)
      BY <1>1, <2>2, IsASeq
    <2>4. DOMAIN ledger' = 1..Len(ledger')
      BY <2>3, LenProperties
    <2>5. Len(ledger') = Len(ledger)
      BY <1>1, <2>2, <2>3, <2>4, LenProperties
    <2> QED BY <1>1, <2>1, <2>3, <2>5
  <1>3. \A i \in 1..Len(ledger) : ledger'[i].how = ledger[i].how /\ ledger'[i].issued = ledger[i].issued
    BY <1>2
  <1>4. ASSUME NEW i \in 1..Len(ledger')
        PROVE  /\ ledger'[i].wrongs <= MaxTotal /\ ledger'[i].issued <= clock
               /\ \A ip \in Ip : ledger'[i].wrong[ip] <= MaxAttempts
    BY <1>1, <1>2 DEF LedgerInv
  <1> QED BY <1>2, <1>3, <1>4 DEF LedgerInv

\* What becomes of the row: nothing, no code any more, or one wrong guess more.
Outcome(c, ip, now) ==
    \/ c.code = code /\ c.attempts = attempts /\ ~c.wrong /\ c.result \in {"nocode", "toomany"}
    \/ c.code = NoCode /\ c.attempts = NoAttempts /\ ~c.wrong /\ c.result \in {"expired", "burned"}
    \/ /\ code # NoCode /\ now <= code.expires /\ code.total < MaxTotal
       /\ c.code = NoCode /\ c.attempts = NoAttempts /\ ~c.wrong /\ c.result = "ok"
    \/ /\ code # NoCode /\ code.total < MaxTotal /\ attempts[ip] < MaxAttempts
       /\ c.code = NoCode /\ c.attempts = NoAttempts /\ c.wrong /\ c.result = "burned"
    \/ /\ code # NoCode /\ code.total + 1 < MaxTotal /\ attempts[ip] < MaxAttempts
       /\ c.code = [code EXCEPT !.total = @ + 1] /\ c.attempts = [attempts EXCEPT ![ip] = @ + 1]
       /\ c.wrong /\ c.result \in {"toomany", "mismatch"}

\* Every guess has one of the outcomes (ConsumeCode).
LEMMA ConsumeCases ==
    ASSUME TypeOK, NEW ip \in Ip, NEW guess \in Nat, NEW now \in Nat
    PROVE  Outcome(ConsumeCode(ip, guess, now), ip, now)
  <1> PICK c : c = ConsumeCode(ip, guess, now)
    OBVIOUS
  <1>1. /\ code.total \in Nat /\ code.expires \in Nat /\ attempts[ip] \in Nat
        /\ MaxTotal \in Nat /\ MaxAttempts \in Nat
    BY TypesAre, CodesAssumption, NumbersAre
  <1>2. CASE code = NoCode
    BY <1>2 DEF Outcome, ConsumeCode, Kept
  <1>3. CASE code # NoCode /\ (now > code.expires \/ code.total >= MaxTotal)
    BY <1>3 DEF Outcome, ConsumeCode, Consumed
  <1>4. CASE code # NoCode /\ now <= code.expires /\ code.total < MaxTotal
    <2>1. ~(now > code.expires) /\ ~(code.total >= MaxTotal)
      BY <1>1, <1>4
    <2>2. CASE attempts[ip] >= MaxAttempts
      BY <1>4, <2>1, <2>2 DEF Outcome, ConsumeCode, Kept
    <2>3. CASE ~(attempts[ip] >= MaxAttempts) /\ guess = code.id
      BY <1>4, <2>1, <2>3 DEF Outcome, ConsumeCode, Consumed
    <2>4. CASE ~(attempts[ip] >= MaxAttempts) /\ guess # code.id
      <3>1. attempts[ip] < MaxAttempts
        BY <1>1, <2>4
      <3>2. CASE code.total + 1 >= MaxTotal
        BY <1>4, <2>1, <2>4, <3>1, <3>2 DEF Outcome, ConsumeCode, Consumed
      <3>3. CASE ~(code.total + 1 >= MaxTotal)
        <4>1. code.total + 1 < MaxTotal
          BY <1>1, <3>3
        <4>2. PICK r \in {"toomany", "mismatch"} : c = Counted(r, ip)
          BY <1>4, <2>1, <2>4, <3>3 DEF ConsumeCode
        <4> QED BY <1>4, <3>1, <4>1, <4>2 DEF Outcome, Counted
      <3> QED BY <3>2, <3>3
    <2> QED BY <2>2, <2>3, <2>4
  <1>5. Outcome(c, ip, now)
    BY <1>1, <1>2, <1>3, <1>4
  <1> QED BY <1>5

\* An entry, and what it is when it notes one more guess.
NotedOf(m, e, c, ip) ==
    /\ m \in Entry /\ m.how = e.how /\ m.issued = e.issued
    /\ c.result # "ok" /\ ~c.wrong => m = e
    /\ c.result = "ok" => m.wrongs = e.wrongs /\ m.wrong = e.wrong
    /\ c.result # "ok" /\ c.wrong =>
          m.wrongs = e.wrongs + 1 /\ m.uses = e.uses /\ m.wrong = [e.wrong EXCEPT ![ip] = @ + 1]

\* An entry that notes a guess is as above.
LEMMA NotedIs ==
    ASSUME NEW e \in Entry, NEW ip \in Ip, NEW c
    PROVE  NotedOf(Noted(e, c, ip), e, c, ip)
  <1> DEFINE w == [e.wrong EXCEPT ![ip] = @ + 1]
             n == e.wrongs + 1
             u == e.uses + 1
  <1>1. w \in [Ip -> Nat] /\ n \in Nat /\ u \in Nat
    BY DEF Entry
  <1>2. Noted(e, c, ip) = IF c.result = "ok" THEN [e EXCEPT !.uses = u]
                          ELSE IF c.wrong THEN [e EXCEPT !.wrong = w, !.wrongs = n] ELSE e
    BY DEF Noted
  <1> HIDE DEF w, n, u
  <1>3. [e EXCEPT !.uses = u] \in Entry /\ [e EXCEPT !.wrong = w, !.wrongs = n] \in Entry
    BY <1>1 DEF Entry
  <1>4. /\ [e EXCEPT !.uses = u].how = e.how /\ [e EXCEPT !.uses = u].issued = e.issued
        /\ [e EXCEPT !.uses = u].wrongs = e.wrongs /\ [e EXCEPT !.uses = u].wrong = e.wrong
        /\ [e EXCEPT !.wrong = w, !.wrongs = n].how = e.how /\ [e EXCEPT !.wrong = w, !.wrongs = n].issued = e.issued
        /\ [e EXCEPT !.wrong = w, !.wrongs = n].wrongs = n /\ [e EXCEPT !.wrong = w, !.wrongs = n].wrong = w
        /\ [e EXCEPT !.wrong = w, !.wrongs = n].uses = e.uses
    BY DEF Entry
  <1>5. n = e.wrongs + 1 /\ w = [e.wrong EXCEPT ![ip] = @ + 1]
    BY DEF n, w
  <1>6. CASE c.result = "ok"
    BY <1>2, <1>3, <1>4, <1>6 DEF NotedOf
  <1>7. CASE c.result # "ok" /\ c.wrong
    BY <1>2, <1>3, <1>4, <1>5, <1>7 DEF NotedOf
  <1>8. CASE c.result # "ok" /\ ~c.wrong
    BY <1>2, <1>8 DEF NotedOf
  <1> QED BY <1>6, <1>7, <1>8

\* A code is consumed.
LEMMA InvConsume ==
    ASSUME CodesInv, NEW p \in Proc, NEW ok \in BOOLEAN, Consume(p, ok)
    PROVE  CodesInv'
  <1> DEFINE h == req[p]
  <1>1. /\ TypeOK /\ RowInv(code, attempts, ledger) /\ LedgerInv(ledger, clock)
        /\ h \in Handler /\ HandOK(h, code, ledger, clock) /\ h.pc = "consume"
        /\ h.ip \in Ip /\ h.now \in Nat /\ h.guess \in Nat
        /\ UNCHANGED <<clock, admitted, tokens, asked, granted>>
    BY HandsAre DEF CodesInv, StoreInv, Consume, At, HandOK, Handler
  <1>2. CASE ~ok
    <2> DEFINE g == [h EXCEPT !.pc = "answer", !.result = "error"]
    <2>1. g \in Handler /\ g.pc = "answer" /\ g.now = h.now
      BY <1>1 DEF Handler, Results
    <2>2. req' = [req EXCEPT ![p] = g] /\ UNCHANGED <<code, attempts, ledger>>
      BY <1>2 DEF Consume, Become
    <2>3. h.now <= clock
      BY <1>1 DEF HandOK
    <2> HIDE DEF g, h
    <2>4. HandOK(g, code, ledger, clock)
      BY <2>1, <2>3 DEF HandOK, Requesting
    <2> QED BY <1>1, <2>1, <2>2, <2>4, HandsAre, InvQuiet
  <1>3. CASE ok
    <2> PICK c : c = ConsumeCode(h.ip, h.guess, h.now)
      OBVIOUS
    <2> DEFINE e == Noted(ledger[code.id], c, h.ip)
    <2>0. Outcome(c, h.ip, h.now)
      BY <1>1, ConsumeCases
    <2>1. /\ code' = c.code /\ attempts' = c.attempts
          /\ ledger' = [i \in DOMAIN ledger |-> IF i = code.id THEN Noted(ledger[i], c, h.ip) ELSE ledger[i]]
      BY <1>3 DEF Consume
    <2>2. /\ Len(ledger) \in Nat /\ code.id \in 0..Len(ledger) /\ DOMAIN ledger = 1..Len(ledger)
          /\ \A i \in 1..Len(ledger) : ledger[i] \in Entry
          /\ ledger \in Seq(Entry) /\ code.total \in Nat /\ code.expires \in Nat /\ attempts \in [Ip -> Nat]
          /\ MaxAttempts \in Nat /\ MaxTotal \in Nat
      BY <1>1, TypesAre, CodesAssumption, NumbersAre
    <2>3. c.result \in {"nocode", "toomany", "expired", "burned", "ok", "mismatch"}
      BY <2>0 DEF Outcome
    <2>4. PICK pc \in {"refund", "answer"}, result \in Results :
              req' = [req EXCEPT ![p] = [h EXCEPT !.pc = pc, !.result = result]]
      <3>1. (IF c.result = "ok" THEN "refund" ELSE "answer") \in {"refund", "answer"}
        OBVIOUS
      <3>2. (IF c.result = "ok" /\ ~Permitted(h.open) THEN "denied" ELSE c.result) \in Results
        BY <2>3 DEF Results
      <3>3. req' = [req EXCEPT ![p] = [h EXCEPT !.pc = IF c.result = "ok" THEN "refund" ELSE "answer",
                                     !.result = IF c.result = "ok" /\ ~Permitted(h.open) THEN "denied"
                                                ELSE c.result]]
        BY <1>3 DEF Consume, Become
      <3> QED BY <3>1, <3>2, <3>3
    <2>5. code # NoCode =>
              /\ code.id # 0 /\ code.id = Len(ledger) /\ code.total < MaxTotal /\ ledger[code.id] \in Entry
              /\ ledger[code.id].wrongs = code.total /\ ledger[code.id].uses = 0
              /\ \A ip \in Ip : ledger[code.id].wrong[ip] <= attempts[ip]
              /\ \A ip \in Ip : ledger[code.id].wrong[ip] <= MaxAttempts
      BY <1>1, <2>2 DEF RowInv, LedgerInv
    <2>6. CASE c.result # "ok" /\ ~c.wrong
      <3>1. \/ c.code = code /\ c.attempts = attempts
            \/ c.code = NoCode /\ c.attempts = NoAttempts
        BY <2>0, <2>6 DEF Outcome
      <3>2. \A i \in 1..Len(ledger) : Noted(ledger[i], c, h.ip) = ledger[i]
        <4>1. \A i \in 1..Len(ledger) : NotedOf(Noted(ledger[i], c, h.ip), ledger[i], c, h.ip)
          BY <1>1, <2>2, NotedIs
        <4> QED BY <2>6, <4>1 DEF NotedOf
      <3>3. ledger' = ledger
        BY <2>1, <2>2, <3>2
      <3>4. RowInv(NoCode, NoAttempts, ledger)
        BY <2>2 DEF RowInv, NoCode, NoAttempts
      <3>5. NoAttempts \in [Ip -> Nat]
        BY DEF NoAttempts
      <3> QED BY <1>1, <2>1, <2>2, <2>4, <3>1, <3>3, <3>4, <3>5, InvGuessed, TypesAre
    <2>7. CASE c.result = "ok" \/ c.wrong
      <3>1. code # NoCode
        BY <2>0, <2>7 DEF Outcome
      <3>2. ledger' = [i \in DOMAIN ledger |-> IF i = code.id THEN e ELSE ledger[i]]
        BY <2>1
      <3>3. e \in Entry /\ e.how = ledger[code.id].how /\ e.issued = ledger[code.id].issued
        <4>1. NotedOf(e, ledger[code.id], c, h.ip)
          BY <1>1, <2>5, <3>1, NotedIs
        <4> HIDE DEF e
        <4> QED BY <4>1 DEF NotedOf
      <3>4. /\ c.result = "ok" => e.wrongs = ledger[code.id].wrongs /\ e.wrong = ledger[code.id].wrong
            /\ c.result # "ok" => /\ e.wrongs = code.total + 1 /\ e.uses = 0
                                  /\ e.wrong = [ledger[code.id].wrong EXCEPT ![h.ip] = @ + 1]
        <4>1. NotedOf(e, ledger[code.id], c, h.ip)
          BY <1>1, <2>5, <3>1, NotedIs
        <4> HIDE DEF e
        <4> QED BY <2>5, <2>7, <3>1, <4>1 DEF NotedOf
      <3>5. /\ c.result # "ok" => attempts[h.ip] < MaxAttempts
            /\ \/ code' = NoCode /\ attempts' = NoAttempts
               \/ /\ c.result # "ok" /\ code.total + 1 < MaxTotal
                  /\ code' = [code EXCEPT !.total = @ + 1] /\ attempts' = [attempts EXCEPT ![h.ip] = @ + 1]
        BY <2>0, <2>1, <2>7 DEF Outcome
      <3>6. ledger[code.id].wrong \in [Ip -> Nat]
        BY <2>5, <3>1 DEF Entry
      <3> HIDE DEF e, h
      <3>7. e.wrongs <= MaxTotal
        BY <2>2, <2>5, <3>1, <3>4
      <3>8. \A ip \in Ip : e.wrong[ip] <= MaxAttempts
        <4>1. CASE c.result = "ok"
          BY <2>5, <3>1, <3>4, <4>1
        <4>2. CASE c.result # "ok"
          <5>1. \A ip \in Ip : e.wrong[ip] = IF ip = h.ip THEN ledger[code.id].wrong[ip] + 1 ELSE ledger[code.id].wrong[ip]
            BY <3>4, <3>6, <4>2
          <5>2. ASSUME NEW ip \in Ip PROVE e.wrong[ip] <= MaxAttempts
            <6>1. ledger[code.id].wrong[ip] \in Nat /\ attempts[h.ip] \in Nat
              BY <1>1, <2>2, <3>6
            <6>2. CASE ip = h.ip
              <7>1. e.wrong[ip] = ledger[code.id].wrong[ip] + 1
                BY <5>1, <6>2
              <7>2. ledger[code.id].wrong[ip] <= attempts[h.ip] /\ attempts[h.ip] < MaxAttempts
                BY <2>5, <3>1, <3>5, <4>2, <6>2
              <7> QED BY <2>2, <6>1, <7>1, <7>2
            <6>3. CASE ip # h.ip
              BY <2>5, <3>1, <5>1, <6>3
            <6> QED BY <6>2, <6>3
          <5> QED BY <5>2
        <4> QED BY <4>1, <4>2
      <3>9. /\ ledger' \in Seq(Entry) /\ Len(ledger') = Len(ledger) /\ ledger'[code.id] = e
            /\ \A i \in 1..Len(ledger) : ledger'[i].how = ledger[i].how /\ ledger'[i].issued = ledger[i].issued
            /\ LedgerInv(ledger', clock)
        BY <2>5, <3>1, <3>2, <3>3, <3>7, <3>8, NotedKeeps
      <3>10. CASE code' = NoCode /\ attempts' = NoAttempts
        <4>1. RowInv(NoCode, NoAttempts, ledger')
          BY <2>2 DEF RowInv, NoCode, NoAttempts
        <4>2. NoAttempts \in [Ip -> Nat]
          BY DEF NoAttempts
        <4> QED BY <1>1, <2>4, <3>9, <3>10, <4>1, <4>2, InvGuessed DEF h
      <3>11. CASE /\ c.result # "ok" /\ code.total + 1 < MaxTotal
                  /\ code' = [code EXCEPT !.total = @ + 1] /\ attempts' = [attempts EXCEPT ![h.ip] = @ + 1]
        <4>1. /\ code'.id = code.id /\ code'.expires = code.expires /\ code'.total = code.total + 1
              /\ code' = [id |-> code'.id, expires |-> code'.expires, total |-> code'.total]
          BY <1>1, <3>11, TypesAre
        <4>2. attempts' \in [Ip -> Nat] /\ \A ip \in Ip : attempts'[ip] = IF ip = h.ip THEN attempts[ip] + 1 ELSE attempts[ip]
          BY <1>1, <2>2, <3>11
        <4>3. \A ip \in Ip : e.wrong[ip] <= attempts'[ip]
          <5>1. \A ip \in Ip : e.wrong[ip] = IF ip = h.ip THEN ledger[code.id].wrong[ip] + 1 ELSE ledger[code.id].wrong[ip]
            BY <3>4, <3>6, <3>11
          <5>2. ASSUME NEW ip \in Ip PROVE e.wrong[ip] <= attempts'[ip]
            <6>1. ledger[code.id].wrong[ip] \in Nat /\ attempts[ip] \in Nat
              BY <2>2, <3>6
            <6>2. ledger[code.id].wrong[ip] <= attempts[ip]
              BY <2>5, <3>1
            <6> QED BY <4>2, <5>1, <6>1, <6>2
          <5> QED BY <5>2
        <4>4. \A ip \in Ip : attempts'[ip] <= MaxAttempts
          BY <1>1, <2>2, <3>5, <3>11, <4>2 DEF RowInv
        <4>5. RowInv(code', attempts', ledger')
          BY <1>1, <2>5, <3>1, <3>3, <3>4, <3>9, <3>11, <4>1, <4>3, <4>4 DEF RowInv
        <4>6. code'.total \in Nat
          BY <2>2, <4>1
        <4> QED BY <1>1, <2>4, <3>9, <4>1, <4>2, <4>5, <4>6, InvGuessed DEF h
      <3> QED BY <3>5, <3>10, <3>11
    <2> QED BY <2>6, <2>7
  <1> QED BY <1>2, <1>3

-----------------------------------------------------------------------------

\* The clock, the limiter and a restart.
LEMMA InvRest ==
    ASSUME CodesInv,
           \/ Tick \/ (\E ip \in Ip : Refill(ip)) \/ (\E to \in Admissions : Restart(to)) \/ UNCHANGED vars
    PROVE  CodesInv'
  <1>1. /\ TypeOK /\ StoreInv /\ HandsInv /\ clock \in Nat /\ Len(ledger) \in Nat /\ code.id \in Nat
        /\ WrongCodes \in Nat
    BY TypesAre, CodesAssumption, NumbersAre DEF CodesInv
  <1>2. UNCHANGED <<code, attempts, ledger, asked>> /\ clock' \in Nat /\ clock <= clock'
    BY <1>1 DEF Tick, Refill, Restart, vars
  <1>3. tokens' \in [Ip -> 0..WrongCodes] /\ granted' \in [Ip -> Nat] /\ admitted' \subseteq BOOLEAN
    <2>1. tokens \in [Ip -> 0..WrongCodes] /\ granted \in [Ip -> Nat] /\ admitted \subseteq BOOLEAN
      BY <1>1 DEF TypeOK
    <2>2. CASE Tick \/ UNCHANGED vars
      BY <2>1, <2>2 DEF Tick, vars
    <2>3. ASSUME NEW ip \in Ip, Refill(ip)
          PROVE  tokens' \in [Ip -> 0..WrongCodes] /\ granted' \in [Ip -> Nat] /\ admitted' \subseteq BOOLEAN
      BY <1>1, <2>1, <2>3 DEF Refill
    <2>4. ASSUME NEW to \in Admissions, Restart(to)
          PROVE  tokens' \in [Ip -> 0..WrongCodes] /\ granted' \in [Ip -> Nat] /\ admitted' \subseteq BOOLEAN
      <3>1. to \subseteq BOOLEAN
        BY CodesAssumption DEF CodesAssumption
      <3> QED BY <1>1, <2>1, <2>4, <3>1 DEF Restart
    <2> QED BY <2>2, <2>3, <2>4
  <1>4. req' = req \/ req' = [p \in Proc |-> Idle]
    BY DEF Tick, Refill, Restart, vars
  <1>5. req' \in [Proc -> Handler]
    BY <1>1, <1>4, IdleIs DEF TypeOK
  <1>6. TypeOK'
    BY <1>1, <1>2, <1>3, <1>5 DEF TypeOK
  <1>7. StoreInv'
    <2>1. LedgerInv(ledger, clock')
      <3>1. \A i \in 1..Len(ledger) : ledger[i].issued \in Nat
        BY <1>1, TypesAre DEF Entry
      <3> QED BY <1>1, <1>2, <3>1 DEF StoreInv, LedgerInv
    <2> QED BY <1>1, <1>2, <2>1 DEF StoreInv
  <1>8. HandsInv'
    <2>1. Moves(code, ledger, code', ledger')
      BY <1>1, <1>2, StoreStays
    <2>2. ASSUME NEW p \in Proc PROVE HandOK(req'[p], code', ledger', clock')
      <3>1. CASE req' = req
        <4>1. req[p] \in Handler /\ HandOK(req[p], code, ledger, clock)
          BY <1>1 DEF TypeOK, HandsInv
        <4> QED BY <1>1, <1>2, <2>1, <3>1, <4>1, HandKept
      <3>2. CASE req' = [q \in Proc |-> Idle]
        BY <1>2, <3>2, IdleIs
      <3> QED BY <1>4, <3>1, <3>2
    <2> QED BY <2>2 DEF HandsInv
  <1> QED BY <1>6, <1>7, <1>8 DEF CodesInv

\* The initial states.
LEMMA InvInit == Init => CodesInv
  <1> SUFFICES ASSUME Init PROVE CodesInv
    OBVIOUS
  <1>1. TTL \in Nat /\ WrongCodes \in Nat /\ MaxAttempts \in Nat /\ MaxTotal \in Nat
    BY CodesAssumption, NumbersAre
  <1>2. clock \in Nat /\ ledger = << >> /\ Len(ledger) = 0 /\ ledger \in Seq(Entry)
    BY <1>1 DEF Init
  <1>3. TypeOK
    <2>1. admitted \subseteq BOOLEAN
      BY CodesAssumption DEF Init, CodesAssumption
    <2>2. req \in [Proc -> Handler]
      BY IdleIs DEF Init
    <2>3. code \in [id : 0..Len(ledger), expires : Nat, total : Nat]
      BY <1>2 DEF Init, NoCode
    <2> QED BY <1>1, <1>2, <2>1, <2>2, <2>3 DEF Init, TypeOK, NoAttempts
  <1>4. StoreInv
    <2>1. code = NoCode /\ code.id = 0 /\ \A ip \in Ip : attempts[ip] = 0
      BY DEF Init, NoCode, NoAttempts
    <2> QED BY <1>1, <1>2, <2>1 DEF StoreInv, RowInv, LedgerInv
  <1>5. HandsInv
    BY <1>2, IdleIs DEF Init, HandsInv
  <1> QED BY <1>3, <1>4, <1>5 DEF CodesInv

\* The steps.
LEMMA InvNext == CodesInv /\ [Next]_vars => CodesInv'
  <1> SUFFICES ASSUME CodesInv, [Next]_vars PROVE CodesInv'
    OBVIOUS
  <1>1. ASSUME NEW p \in Proc, NEW ip \in Ip, Begin(p, ip) PROVE CodesInv'
    <2>1. PICK open \in BOOLEAN : RequestBegin(p, ip, open) \/ \E guess \in 0..Len(ledger) : VerifyBegin(p, ip, open, guess)
      BY <1>1 DEF Begin
    <2> QED BY <2>1, InvRequestBegin, InvVerifyBegin
  <1>2. ASSUME NEW p \in Proc, Continue(p) PROVE CodesInv'
    <2>1. ASSUME NEW ok \in BOOLEAN,
                 \/ PruneCodes(p, ok) \/ SweepAttempts(p, ok) \/ CheckRecent(p, ok)
                 \/ Save(p, ok) \/ Fill(p, ok) \/ Consume(p, ok)
          PROVE  CodesInv'
      BY <2>1, CodesAssumption, InvPrune, InvRecent, InvSave, InvConsume
    <2>2. ASSUME NEW saturated \in BOOLEAN, NEW allowed \in BOOLEAN, Choose(p, saturated, allowed)
          PROVE  CodesInv'
      BY <2>2, InvChoose
    <2>3. CASE RequestEnd(p) \/ Charge(p) \/ Refund(p) \/ VerifyEnd(p)
      BY <2>3, InvEnd, InvCharge, InvRefund
    <2> QED BY <1>2, <2>1, <2>2, <2>3 DEF Continue
  <1> QED BY <1>1, <1>2, InvRest DEF Next

\* The invariant holds always.
LEMMA Invariant == Spec => []CodesInv
  BY InvInit, InvNext, PTL DEF Spec

-----------------------------------------------------------------------------

\* The types.
THEOREM CodesTypeCorrect == Spec => []TypeOK
  <1>1. CodesInv => TypeOK
    BY DEF CodesInv
  <1> QED BY <1>1, Invariant, PTL

\* However requests, guesses and restarts interleave, no code is compared with
\* more wrong guesses than the total, nor with more from one client address than
\* its cap (store.go, ConsumeCode).
THEOREM GuessesAreBounded == Spec => []GuessesBounded
  <1>1. CodesInv => GuessesBounded
    <2> SUFFICES ASSUME CodesInv PROVE GuessesBounded
      OBVIOUS
    <2>1. DOMAIN ledger = 1..Len(ledger) /\ LedgerInv(ledger, clock)
      BY TypesAre DEF CodesInv, StoreInv
    <2> QED BY <2>1 DEF GuessesBounded, LedgerInv
  <1> QED BY <1>1, Invariant, PTL

\* A request leaves its visitor without a code only because of one minted less
\* than a cooldown before, never because of a filler (storeDecoyCode).
THEOREM FillersAreHarmless == Spec => []FillersBlockNobody
  <1>1. CodesInv => FillersBlockNobody
    <2> SUFFICES ASSUME CodesInv, NEW p \in Proc, At(p, "noop"), ~req[p].failed, req[p].saw <= req[p].before
                 PROVE  ledger[req[p].saw].how # "filler" /\ req[p].now < ledger[req[p].saw].issued + Cooldown
      BY DEF FillersBlockNobody
    <2>1. HandOK(req[p], code, ledger, clock)
      BY HandsAre
    <2> QED BY <2>1 DEF HandOK, At
  <1> QED BY <1>1, Invariant, PTL

-----------------------------------------------------------------------------

\* A step stores a code, consumes one, or leaves the ledger alone.
LEMMA StepCases ==
    ASSUME [Next]_vars
    PROVE  \/ ledger' = ledger /\ (code' = code \/ code' = NoCode)
           \/ \E p \in Proc, how \in {"mailed", "decoy", "filler"} :
                 /\ At(p, "save") \/ (At(p, "fill") /\ code = NoCode)
                 /\ ledger' = Append(ledger, Stored(how, req[p].now))
           \/ \E p \in Proc : Consume(p, TRUE)
  <1> DEFINE Quiet == ledger' = ledger /\ (code' = code \/ code' = NoCode)
             Stores == \E p \in Proc, how \in {"mailed", "decoy", "filler"} :
                          /\ At(p, "save") \/ (At(p, "fill") /\ code = NoCode)
                          /\ ledger' = Append(ledger, Stored(how, req[p].now))
             Consumes == \E p \in Proc : Consume(p, TRUE)
  <1>1. ASSUME NEW p \in Proc, NEW ip \in Ip, Begin(p, ip) PROVE Quiet
    BY <1>1 DEF Begin, RequestBegin, VerifyBegin
  <1>2. ASSUME NEW p \in Proc, NEW ok \in BOOLEAN, PruneCodes(p, ok) \/ SweepAttempts(p, ok) \/ CheckRecent(p, ok)
        PROVE  Quiet
    BY <1>2 DEF PruneCodes, SweepAttempts, CheckRecent
  <1>3. ASSUME NEW p \in Proc, NEW ok \in BOOLEAN, Save(p, ok) PROVE Quiet \/ Stores
    <2>1. CASE UNCHANGED <<code, attempts, ledger>>
      BY <2>1
    <2>2. CASE ~UNCHANGED <<code, attempts, ledger>>
      <3>1. PICK how \in {"mailed", "decoy"} : SaveCode(how, req[p].now, req[p].now + TTL)
        BY <1>3, <2>2 DEF Save
      <3> QED BY <1>3, <3>1 DEF Save, SaveCode
    <2> QED BY <2>1, <2>2
  <1>4. ASSUME NEW p \in Proc, NEW ok \in BOOLEAN, Fill(p, ok) PROVE Quiet \/ Stores
    <2>1. CASE UNCHANGED <<code, ledger>>
      BY <2>1
    <2>2. CASE ~UNCHANGED <<code, ledger>>
      <3>1. code = NoCode /\ ledger' = Append(ledger, Stored("filler", req[p].now))
        BY <1>4, <2>2 DEF Fill, EnsureCode
      <3> QED BY <1>4, <3>1 DEF Fill
    <2> QED BY <2>1, <2>2
  <1>5. ASSUME NEW p \in Proc, NEW ok \in BOOLEAN, Consume(p, ok) PROVE Quiet \/ Consumes
    <2>1. CASE ok
      <3>1. ok = TRUE
        BY <2>1
      <3> QED BY <1>5, <3>1
    <2>2. CASE ~ok
      BY <1>5, <2>2 DEF Consume
    <2> QED BY <2>1, <2>2
  <1>6. ASSUME NEW p \in Proc,
               \/ \E saturated, allowed \in BOOLEAN : Choose(p, saturated, allowed)
               \/ RequestEnd(p) \/ Charge(p) \/ Refund(p) \/ VerifyEnd(p)
        PROVE  Quiet
    BY <1>6 DEF Choose, RequestEnd, Charge, Refund, VerifyEnd
  <1>7. ASSUME Tick \/ (\E ip \in Ip : Refill(ip)) \/ (\E to \in Admissions : Restart(to)) \/ UNCHANGED vars
        PROVE  Quiet
    BY <1>7 DEF Tick, Refill, Restart, vars
  <1> HIDE DEF Quiet, Stores, Consumes
  <1>8. ASSUME NEW p \in Proc, Continue(p) PROVE Quiet \/ Stores \/ Consumes
    BY <1>2, <1>3, <1>4, <1>5, <1>6, <1>8 DEF Continue
  <1>9. Quiet \/ Stores \/ Consumes
    BY <1>1, <1>7, <1>8 DEF Next
  <1> QED BY <1>9 DEF Quiet, Stores, Consumes

\* What a guess does to the row and to the entries.
LEMMA ConsumeIs ==
    ASSUME CodesInv, NEW p \in Proc, Consume(p, TRUE)
    PROVE  /\ At(p, "consume")
           /\ code'.id = code.id \/ code' = NoCode
           /\ \A i \in 1..Len(ledger) : ledger'[i].uses # ledger[i].uses =>
                 i = code.id /\ code # NoCode /\ req[p].now <= code.expires /\ code.total < MaxTotal
  <1> DEFINE h == req[p]
  <1>1. /\ TypeOK /\ h \in Handler /\ HandOK(h, code, ledger, clock) /\ h.pc = "consume"
        /\ h.ip \in Ip /\ h.now \in Nat /\ h.guess \in Nat
        /\ DOMAIN ledger = 1..Len(ledger) /\ \A i \in 1..Len(ledger) : ledger[i] \in Entry
    BY HandsAre, TypesAre DEF CodesInv, Consume, At, HandOK, Handler
  <1> PICK c : c = ConsumeCode(h.ip, h.guess, h.now)
    OBVIOUS
  <1>2. Outcome(c, h.ip, h.now)
    BY <1>1, ConsumeCases
  <1>3. /\ code' = c.code
        /\ ledger' = [i \in DOMAIN ledger |-> IF i = code.id THEN Noted(ledger[i], c, h.ip) ELSE ledger[i]]
    BY DEF Consume
  <1>4. code'.id = code.id \/ code' = NoCode
    <2>1. [code EXCEPT !.total = code.total + 1].id = code.id
      BY <1>1, TypesAre
    <2> QED BY <1>2, <1>3, <2>1 DEF Outcome
  <1>5. ASSUME NEW i \in 1..Len(ledger), ledger'[i].uses # ledger[i].uses
        PROVE  i = code.id /\ code # NoCode /\ req[p].now <= code.expires /\ code.total < MaxTotal
    <2>1. i = code.id
      BY <1>1, <1>3, <1>5
    <2>2. NotedOf(Noted(ledger[i], c, h.ip), ledger[i], c, h.ip) /\ ledger'[i] = Noted(ledger[i], c, h.ip)
      BY <1>1, <1>3, <2>1, NotedIs
    <2>3. c.result = "ok"
      BY <1>5, <2>2 DEF NotedOf
    <2> QED BY <1>2, <2>1, <2>3 DEF Outcome
  <1> QED BY <1>1, <1>4, <1>5 DEF At

\* A code admits at most one sign-in, within its lifetime, before its total is
\* spent, and none once a later code has been stored (store.go, ConsumeCode).
THEOREM CodesAreUsedOnce == Spec => CodesUsedOnce
  <1> DEFINE Once == \A i \in DOMAIN ledger :
                       ledger'[i].uses # ledger[i].uses =>
                           /\ ledger[i].uses = 0 /\ i = Len(ledger) /\ ledger[i].wrongs < MaxTotal
                           /\ \E p \in Proc : At(p, "consume") /\ req[p].now <= ledger[i].issued + TTL
  <1>1. CodesInv /\ [Next]_vars => Once
    <2> SUFFICES ASSUME CodesInv, [Next]_vars, NEW i \in DOMAIN ledger, ledger'[i].uses # ledger[i].uses
                 PROVE  /\ ledger[i].uses = 0 /\ i = Len(ledger) /\ ledger[i].wrongs < MaxTotal
                        /\ \E p \in Proc : At(p, "consume") /\ req[p].now <= ledger[i].issued + TTL
      OBVIOUS
    <2>1. /\ i \in 1..Len(ledger) /\ ledger[i] \in Entry /\ ledger \in Seq(Entry) /\ code.expires \in Nat
          /\ RowInv(code, attempts, ledger)
      BY TypesAre DEF CodesInv, StoreInv
    <2>2. ASSUME NEW p \in Proc, NEW how \in {"mailed", "decoy", "filler"},
                 ledger' = Append(ledger, Stored(how, req[p].now))
          PROVE  FALSE
      <3>1. req[p].now \in Nat
        BY HandsAre DEF Handler
      <3>2. Stored(how, req[p].now) \in Entry
        BY <3>1 DEF Stored, Entry, NoAttempts
      <3>3. ledger'[i] = ledger[i]
        BY <2>1, <2>2, <3>2, LedgerGrows
      <3> QED BY <3>3
    <2>3. PICK p \in Proc : Consume(p, TRUE)
      BY <2>2, StepCases
    <2>4. /\ At(p, "consume") /\ i = code.id /\ code # NoCode /\ req[p].now <= code.expires /\ code.total < MaxTotal
      BY <2>1, <2>3, ConsumeIs
    <2>5. /\ code.id # 0 /\ code.id = Len(ledger) /\ ledger[i].uses = 0 /\ ledger[i].wrongs = code.total
          /\ ledger[i].how = "filler" => code.expires + Cooldown = ledger[i].issued + TTL
          /\ ledger[i].how # "filler" => code.expires = ledger[i].issued + TTL
      BY <2>1, <2>4 DEF RowInv
    <2>6. req[p].now <= ledger[i].issued + TTL
      <3>1. req[p].now \in Nat /\ ledger[i].issued \in Nat /\ TTL \in Nat /\ Cooldown \in Nat
        BY <2>1, HandsAre, CodesAssumption, NumbersAre DEF Handler, Entry
      <3>2. code.expires <= ledger[i].issued + TTL
        BY <2>1, <2>5, <3>1
      <3> QED BY <2>1, <2>4, <3>1, <3>2
    <2> QED BY <2>4, <2>5, <2>6
  <1>2. Spec => [][Once]_vars
    BY <1>1, Invariant, PTL DEF Spec
  <1> QED BY <1>2 DEF CodesUsedOnce

\* A code less than a cooldown old is replaced only by a request that was already
\* under way when it was stored: asking again does not do it, nor reset the
\* count of wrong guesses (handleRequest, HasRecentCode).
THEOREM CodesOutlastCooldown == Spec => ReplacedAfterCooldown
  <1> DEFINE Late == code # NoCode /\ code'.id > code.id /\ ledger[code.id].how # "filler" =>
                        \E p \in Proc : /\ At(p, "save")
                                        /\ \/ ledger[code.id].issued + Cooldown <= req[p].now
                                           \/ req[p].before < code.id
  <1>1. CodesInv /\ [Next]_vars => Late
    <2> SUFFICES ASSUME CodesInv, [Next]_vars, code # NoCode, code'.id > code.id, ledger[code.id].how # "filler"
                 PROVE  \E p \in Proc : /\ At(p, "save")
                                        /\ \/ ledger[code.id].issued + Cooldown <= req[p].now
                                           \/ req[p].before < code.id
      OBVIOUS
    <2>1. /\ code.id \in Nat /\ code.expires \in Nat /\ RowInv(code, attempts, ledger) /\ code.id \in 0..Len(ledger)
          /\ \A i \in 1..Len(ledger) : ledger[i].issued \in Nat
      BY TypesAre DEF CodesInv, StoreInv, Entry
    <2>2. code'.id # code.id /\ code' # NoCode
      BY <2>1 DEF NoCode
    <2>3. ASSUME NEW p \in Proc, Consume(p, TRUE) PROVE FALSE
      BY <2>2, <2>3, ConsumeIs
    <2>4. PICK p \in Proc : At(p, "save")
      BY <2>2, <2>3, StepCases
    <2>5. /\ code.id # 0 /\ code.expires = ledger[code.id].issued + TTL /\ ledger[code.id].issued \in Nat
      BY <2>1 DEF RowInv
    <2>6. code.id <= req[p].before => code.expires + Cooldown <= req[p].now + TTL
      BY <2>4, <2>5, HandsAre DEF HandOK, At
    <2>7. req[p].before \in Nat /\ req[p].now \in Nat /\ TTL \in Nat /\ Cooldown \in Nat
      BY HandsAre, CodesAssumption, NumbersAre DEF Handler
    <2>8. code.id <= req[p].before => ledger[code.id].issued + Cooldown <= req[p].now
      BY <2>1, <2>5, <2>6, <2>7, CodesAssumption, CooldownOver
    <2> QED BY <2>1, <2>4, <2>7, <2>8
  <1>2. Spec => [][Late]_vars
    BY <1>1, Invariant, PTL DEF Spec
  <1> QED BY <1>2 DEF ReplacedAfterCooldown
-----------------------------------------------------------------------------
(* Guesses and tokens *)

\* The handlers that took a token from an address and have not yet compared a
\* guess for it, or given it back.
Charged(ip) == {p \in Proc : req[p].pc \in {"consume", "refund"} /\ req[p].ip = ip}

\* The wrong guesses from an address, the tokens it has out, and those it has left
\* come to no more than it was given.
ChargedInv ==
    \A ip \in Ip :
        /\ IsFiniteSet(WrongGuesses(ip)) /\ IsFiniteSet(Charged(ip))
        /\ Cardinality(WrongGuesses(ip)) + Cardinality(Charged(ip)) + tokens[ip] <= granted[ip]

\* Two sets that differ in one member at most.
LEMMA OneApart ==
    ASSUME NEW S, NEW T, NEW x, IsFiniteSet(S), \A y : y # x => (y \in S <=> y \in T)
    PROVE  /\ IsFiniteSet(T) /\ Cardinality(S) \in Nat /\ Cardinality(T) \in Nat
           /\ (x \in S <=> x \in T) => Cardinality(T) = Cardinality(S)
           /\ x \notin S /\ x \in T => Cardinality(T) = Cardinality(S) + 1
           /\ x \in S /\ x \notin T => Cardinality(S) = Cardinality(T) + 1
  <1>1. IsFiniteSet(S \cup {x}) /\ T \subseteq S \cup {x}
    BY FS_AddElement
  <1>2. IsFiniteSet(T)
    BY <1>1, FS_Subset
  <1>3. Cardinality(S) \in Nat /\ Cardinality(T) \in Nat
    BY <1>2, FS_CardinalityType
  <1>4. (x \in S <=> x \in T) => T = S
    OBVIOUS
  <1>5. x \notin S /\ x \in T => T = S \cup {x}
    OBVIOUS
  <1>6. x \in S /\ x \notin T => S = T \cup {x}
    OBVIOUS
  <1>7. /\ x \notin S => Cardinality(S \cup {x}) = Cardinality(S) + 1
        /\ x \notin T => Cardinality(T \cup {x}) = Cardinality(T) + 1
    BY <1>2, FS_AddElement
  <1> QED BY <1>2, <1>3, <1>4, <1>5, <1>6, <1>7

\* A step of one handler, and the tokens out.
LEMMA ChargedMoves ==
    ASSUME NEW p \in Proc, \A q \in Proc \ {p} : req'[q] = req[q], NEW ip \in Ip, IsFiniteSet(Charged(ip))
    PROVE  /\ IsFiniteSet(Charged(ip)') /\ Cardinality(Charged(ip)) \in Nat /\ Cardinality(Charged(ip)') \in Nat
           /\ (p \in Charged(ip) <=> p \in Charged(ip)') => Cardinality(Charged(ip)') = Cardinality(Charged(ip))
           /\ p \notin Charged(ip) /\ p \in Charged(ip)' =>
                 Cardinality(Charged(ip)') = Cardinality(Charged(ip)) + 1
           /\ p \in Charged(ip) /\ p \notin Charged(ip)' =>
                 Cardinality(Charged(ip)) = Cardinality(Charged(ip)') + 1
  <1> DEFINE S == Charged(ip)
             T == Charged(ip)'
  <1>1. \A y : y # p => (y \in S <=> y \in T)
    BY DEF Charged
  <1> HIDE DEF S, T
  <1>2. IsFiniteSet(S)
    BY DEF S
  <1>3. /\ IsFiniteSet(T) /\ Cardinality(S) \in Nat /\ Cardinality(T) \in Nat
        /\ (p \in S <=> p \in T) => Cardinality(T) = Cardinality(S)
        /\ p \notin S /\ p \in T => Cardinality(T) = Cardinality(S) + 1
        /\ p \in S /\ p \notin T => Cardinality(S) = Cardinality(T) + 1
    BY <1>1, <1>2, OneApart
  <1> QED BY <1>3 DEF S, T

\* Which guesses there are, read entry by entry.
LEMMA GuessIs ==
    ASSUME NEW ip
    PROVE  \A x : x \in WrongGuesses(ip) <=>
              \E i \in DOMAIN ledger : \E n \in 1..ledger[i].wrong[ip] : x = <<i, n>>
  BY DEF WrongGuesses

\* ... and after a step.
LEMMA GuessIsThen ==
    ASSUME NEW ip
    PROVE  \A x : x \in WrongGuesses(ip)' <=>
              \E i \in DOMAIN ledger' : \E n \in 1..ledger'[i].wrong[ip] : x = <<i, n>>
  BY DEF WrongGuesses

\* A code that is stored has met no guess.
LEMMA StoredUnguessed ==
    ASSUME CodesInv, NEW how \in {"mailed", "decoy", "filler"}, NEW t \in Nat,
           ledger' = Append(ledger, Stored(how, t)), NEW ip \in Ip
    PROVE  WrongGuesses(ip)' = WrongGuesses(ip)
  <1> DEFINE e == Stored(how, t)
  <1>1. ledger \in Seq(Entry) /\ DOMAIN ledger = 1..Len(ledger)
    BY TypesAre DEF CodesInv
  <1>2. e \in Entry /\ e.wrong[ip] = 0
    BY DEF Stored, Entry, NoAttempts
  <1> HIDE DEF e
  <1>3. /\ ledger' \in Seq(Entry) /\ Len(ledger') = Len(ledger) + 1 /\ Len(ledger) \in Nat
        /\ ledger'[Len(ledger) + 1] = e /\ \A i \in 1..Len(ledger) : ledger'[i] = ledger[i]
    BY <1>1, <1>2, LedgerGrows DEF e
  <1>4. DOMAIN ledger' = 1..(Len(ledger) + 1)
    BY <1>3, LenProperties
  <1>5. ASSUME NEW i \in DOMAIN ledger', NEW n \in 1..ledger'[i].wrong[ip]
        PROVE  i \in DOMAIN ledger /\ n \in 1..ledger[i].wrong[ip]
    <2>1. i # Len(ledger) + 1
      BY <1>2, <1>3, <1>5
    <2> QED BY <1>1, <1>3, <1>4, <1>5, <2>1
  <1>6. ASSUME NEW i \in DOMAIN ledger, NEW n \in 1..ledger[i].wrong[ip]
        PROVE  i \in DOMAIN ledger' /\ n \in 1..ledger'[i].wrong[ip]
    BY <1>1, <1>3, <1>4, <1>6
  <1>7. \A x : x \in WrongGuesses(ip)' <=> x \in WrongGuesses(ip)
    BY <1>5, <1>6, GuessIs, GuessIsThen
  <1> QED BY <1>7

\* A handler with some of its fields changed.
LEMMA HandlerFields ==
    ASSUME NEW h \in Handler
    PROVE  /\ \A a : [h EXCEPT !.pc = a].pc = a
           /\ \A a, r : [h EXCEPT !.pc = a, !.result = r].pc = a /\ [h EXCEPT !.pc = a, !.result = r].ip = h.ip
           /\ \A a, f, i, r : [h EXCEPT !.pc = a, !.failed = f, !.saw = i, !.recent = r].pc = a
  BY DEF Handler

\* A guess that is compared adds itself to those of its address, if it was wrong.
LEMMA ComparedOnce ==
    ASSUME CodesInv, ChargedInv, NEW p \in Proc, Consume(p, TRUE), NEW ip \in Ip
    PROVE  /\ IsFiniteSet(WrongGuesses(ip)') /\ Cardinality(WrongGuesses(ip)) \in Nat
           /\ Cardinality(WrongGuesses(ip)') \in Nat
           /\ \/ Cardinality(WrongGuesses(ip)') = Cardinality(WrongGuesses(ip))
              \/ /\ Cardinality(WrongGuesses(ip)') = Cardinality(WrongGuesses(ip)) + 1
                 /\ p \in Charged(ip) /\ p \notin Charged(ip)'
  <1> DEFINE h == req[p]
  <1>1. /\ TypeOK /\ h \in Handler /\ HandOK(h, code, ledger, clock) /\ h.pc = "consume"
        /\ h.ip \in Ip /\ h.now \in Nat /\ h.guess \in Nat /\ req \in [Proc -> Handler]
        /\ DOMAIN ledger = 1..Len(ledger) /\ \A i \in 1..Len(ledger) : ledger[i] \in Entry
    BY HandsAre, TypesAre DEF CodesInv, Consume, At, HandOK, Handler
  <1> PICK c : c = ConsumeCode(h.ip, h.guess, h.now)
    OBVIOUS
  <1>2. Outcome(c, h.ip, h.now)
    BY <1>1, ConsumeCases
  <1>3. ledger' = [i \in DOMAIN ledger |-> IF i = code.id THEN Noted(ledger[i], c, h.ip) ELSE ledger[i]]
    BY DEF Consume
  <1>4. DOMAIN ledger' = DOMAIN ledger /\ \A i \in DOMAIN ledger : i # code.id => ledger'[i] = ledger[i]
    BY <1>3
  <1>5. code.id \in DOMAIN ledger => NotedOf(ledger'[code.id], ledger[code.id], c, h.ip)
    BY <1>1, <1>3, NotedIs
  <1>6. IsFiniteSet(WrongGuesses(ip))
    BY DEF ChargedInv
  <1>7. CASE c.wrong /\ c.result # "ok" /\ ip = h.ip /\ code.id \in DOMAIN ledger
    <2> DEFINE k == code.id
               w == ledger[k].wrong[ip]
               x == <<k, w + 1>>
    <2>1. w \in Nat /\ ledger'[k].wrong[ip] = w + 1
      BY <1>1, <1>5, <1>7 DEF NotedOf, Entry
    <2>2. \A i \in DOMAIN ledger : i # k => ledger'[i].wrong[ip] = ledger[i].wrong[ip]
      BY <1>4
    <2> HIDE DEF k, w
    <2>3. x \notin WrongGuesses(ip) /\ x \in WrongGuesses(ip)'
      <3>1. ASSUME NEW i \in DOMAIN ledger, NEW n \in 1..ledger[i].wrong[ip], x = <<i, n>> PROVE FALSE
        <4>1. i = k /\ n = w + 1
          BY <3>1
        <4>2. n \in 1..w
          BY <3>1, <4>1 DEF w
        <4> QED BY <2>1, <4>1, <4>2
      <3>2. k \in DOMAIN ledger' /\ w + 1 \in 1..ledger'[k].wrong[ip]
        BY <1>4, <1>7, <2>1 DEF k
      <3> QED BY <3>1, <3>2, GuessIs, GuessIsThen
    <2>4. ASSUME NEW y, y # x PROVE y \in WrongGuesses(ip) <=> y \in WrongGuesses(ip)'
      <3>1. ASSUME NEW i \in DOMAIN ledger, NEW n \in 1..ledger[i].wrong[ip], y = <<i, n>>
            PROVE  i \in DOMAIN ledger' /\ n \in 1..ledger'[i].wrong[ip]
        <4>1. CASE i = k
          BY <1>4, <2>1, <3>1, <4>1 DEF w
        <4>2. CASE i # k
          BY <1>4, <2>2, <3>1, <4>2
        <4> QED BY <4>1, <4>2
      <3>2. ASSUME NEW i \in DOMAIN ledger', NEW n \in 1..ledger'[i].wrong[ip], y = <<i, n>>
            PROVE  i \in DOMAIN ledger /\ n \in 1..ledger[i].wrong[ip]
        <4>1. CASE i = k
          <5>1. n \in 1..(w + 1) /\ n # w + 1
            BY <2>1, <2>4, <3>2, <4>1
          <5>2. n \in 1..w
            BY <2>1, <5>1
          <5> QED BY <1>4, <3>2, <4>1, <5>2 DEF w
        <4>2. CASE i # k
          BY <1>4, <2>2, <3>2, <4>2
        <4> QED BY <4>1, <4>2
      <3> QED BY <3>1, <3>2, GuessIs, GuessIsThen
    <2> DEFINE S == WrongGuesses(ip)
               T == WrongGuesses(ip)'
    <2>5. IsFiniteSet(S) /\ x \notin S /\ x \in T /\ \A y : y # x => (y \in S <=> y \in T)
      BY <1>6, <2>3, <2>4
    <2> HIDE DEF S, T, x
    <2>6. IsFiniteSet(T) /\ Cardinality(S) \in Nat /\ Cardinality(T) \in Nat /\ Cardinality(T) = Cardinality(S) + 1
      BY <2>5, OneApart
    <2>7. p \in Charged(ip)
      BY <1>1, <1>7 DEF Charged
    <2>8. p \notin Charged(ip)'
      <3> DEFINE r == IF c.result = "ok" /\ ~Permitted(h.open) THEN "denied" ELSE c.result
      <3>1. req' = [req EXCEPT ![p] = [h EXCEPT !.pc = "answer", !.result = r]]
        BY <1>7 DEF Consume, Become
      <3> HIDE DEF h, r
      <3>2. req'[p].pc = "answer"
        BY <1>1, <3>1, HandlerFields DEF h
      <3> QED BY <3>2 DEF Charged
    <2> QED BY <2>6, <2>7, <2>8 DEF S, T
  <1>8. CASE ~(c.wrong /\ c.result # "ok" /\ ip = h.ip /\ code.id \in DOMAIN ledger)
    <2>1. ASSUME NEW i \in DOMAIN ledger PROVE ledger'[i].wrong[ip] = ledger[i].wrong[ip]
      <3>1. CASE i = code.id
        <4>1. ledger[i].wrong \in [Ip -> Nat]
          BY <1>1 DEF Entry
        <4> QED BY <1>5, <1>8, <2>1, <3>1, <4>1 DEF NotedOf
      <3>2. CASE i # code.id
        BY <1>4, <3>2
      <3> QED BY <3>1, <3>2
    <2>2. \A y : y \in WrongGuesses(ip)' <=> y \in WrongGuesses(ip)
      BY <1>4, <2>1, GuessIs, GuessIsThen
    <2>3. WrongGuesses(ip)' = WrongGuesses(ip)
      BY <2>2
    <2> QED BY <1>6, <2>3, FS_CardinalityType
  <1> QED BY <1>7, <1>8

\* What the invariant says of one address, and the numbers in it.
LEMMA ChargedTypes ==
    ASSUME CodesInv, ChargedInv, NEW ip \in Ip
    PROVE  /\ tokens[ip] \in Nat /\ granted[ip] \in Nat /\ IsFiniteSet(WrongGuesses(ip)) /\ IsFiniteSet(Charged(ip))
           /\ Cardinality(WrongGuesses(ip)) \in Nat /\ Cardinality(Charged(ip)) \in Nat
           /\ Cardinality(WrongGuesses(ip)) + Cardinality(Charged(ip)) + tokens[ip] <= granted[ip]
  <1>1. tokens[ip] \in 0..WrongCodes /\ granted[ip] \in Nat /\ WrongCodes \in Nat
    BY CodesAssumption, NumbersAre DEF CodesInv, TypeOK
  <1> QED BY <1>1, FS_CardinalityType DEF ChargedInv

\* A step that charges nothing, compares nothing and gives nothing back.
LEMMA Uncharged ==
    ASSUME CodesInv, ChargedInv, NEW p \in Proc, UNCHANGED <<tokens, granted>>,
           \A q \in Proc \ {p} : req'[q] = req[q],
           req[p].pc \notin {"consume", "refund"}, req'[p].pc \notin {"consume", "refund"},
           \A ip \in Ip : WrongGuesses(ip)' = WrongGuesses(ip)
    PROVE  ChargedInv'
  <1> SUFFICES ASSUME NEW ip \in Ip
               PROVE  /\ IsFiniteSet(WrongGuesses(ip)') /\ IsFiniteSet(Charged(ip)')
                      /\ Cardinality(WrongGuesses(ip)') + Cardinality(Charged(ip)') + tokens'[ip] <= granted'[ip]
    BY DEF ChargedInv
  <1>1. p \notin Charged(ip) /\ p \notin Charged(ip)'
    BY DEF Charged
  <1>2. Cardinality(Charged(ip)') = Cardinality(Charged(ip)) /\ IsFiniteSet(Charged(ip)')
    BY <1>1, ChargedMoves, ChargedTypes
  <1> QED BY <1>2, ChargedTypes

\* The steps of a request, and the beginning and the end of a guess.
LEMMA ChargedQuiet ==
    ASSUME CodesInv, ChargedInv, NEW p \in Proc
    PROVE  \/ \E ip \in Ip : Begin(p, ip)
           \/ \E ok \in BOOLEAN : PruneCodes(p, ok) \/ SweepAttempts(p, ok) \/ CheckRecent(p, ok)
           \/ \E saturated, allowed \in BOOLEAN : Choose(p, saturated, allowed)
           \/ RequestEnd(p) \/ VerifyEnd(p)
           => ChargedInv'
  <1> DEFINE Apart == {"consume", "refund"}
             Quiet == /\ UNCHANGED <<tokens, granted, ledger>> /\ req[p].pc \notin Apart
                      /\ (\A q \in Proc \ {p} : req'[q] = req[q]) /\ req'[p].pc \notin Apart
  <1>1. req[p] \in Handler /\ req \in [Proc -> Handler]
    BY HandsAre
  <1>2. ASSUME NEW ip \in Ip, NEW open \in BOOLEAN, RequestBegin(p, ip, open) PROVE Quiet
    <2> DEFINE h == [Idle EXCEPT !.pc = "prune", !.ip = ip, !.now = clock, !.open = open, !.before = Len(ledger)]
    <2>1. h.pc = "prune"
      BY DEF Idle
    <2>2. req' = [req EXCEPT ![p] = h]
      BY <1>2 DEF RequestBegin, Become
    <2>3. UNCHANGED <<tokens, granted, ledger>> /\ req[p].pc \notin Apart
      BY <1>2 DEF RequestBegin, At
    <2> HIDE DEF h
    <2> QED BY <1>1, <2>1, <2>2, <2>3
  <1>3. ASSUME NEW ip \in Ip, NEW open \in BOOLEAN, NEW guess, VerifyBegin(p, ip, open, guess) PROVE Quiet
    <2> DEFINE g == [Idle EXCEPT !.pc = "charge", !.ip = ip, !.now = clock, !.open = open, !.guess = guess]
               k == [Idle EXCEPT !.pc = "answer", !.result = "restart"]
    <2>1. g.pc = "charge" /\ k.pc = "answer"
      BY DEF Idle
    <2>2. req' = [req EXCEPT ![p] = g] \/ req' = [req EXCEPT ![p] = k]
      BY <1>3 DEF VerifyBegin, Become
    <2>3. UNCHANGED <<tokens, granted, ledger>> /\ req[p].pc \notin Apart
      BY <1>3 DEF VerifyBegin, At
    <2> HIDE DEF g, k
    <2> QED BY <1>1, <2>1, <2>2, <2>3
  <1>4. ASSUME NEW pc \in {"sweep", "recent", "noop", "fill", "save"}, Goto(p, pc),
               UNCHANGED <<tokens, granted, ledger>>, req[p].pc \notin Apart
        PROVE  Quiet
    BY <1>1, <1>4, HandlerFields DEF Goto, Become
  <1>5. ASSUME NEW ok \in BOOLEAN, PruneCodes(p, ok) PROVE Quiet
    BY <1>4, <1>5 DEF PruneCodes, At
  <1>6. ASSUME NEW ok \in BOOLEAN, SweepAttempts(p, ok) PROVE Quiet
    BY <1>4, <1>6 DEF SweepAttempts, At
  <1>7. ASSUME NEW ok \in BOOLEAN, CheckRecent(p, ok) PROVE Quiet
    <2> DEFINE recent == ok => HasRecentCode(req[p].now + TTL - Cooldown)
               h == [req[p] EXCEPT !.pc = "choose", !.failed = ~ok, !.saw = code.id, !.recent = recent]
    <2>1. req' = [req EXCEPT ![p] = h]
      BY <1>7 DEF CheckRecent, Become
    <2> HIDE DEF recent
    <2>2. h.pc = "choose"
      BY <1>1, HandlerFields
    <2>3. UNCHANGED <<tokens, granted, ledger>> /\ req[p].pc \notin Apart
      BY <1>7 DEF CheckRecent, At
    <2> HIDE DEF h
    <2> QED BY <1>1, <2>1, <2>2, <2>3
  <1>8. ASSUME NEW saturated \in BOOLEAN, NEW allowed \in BOOLEAN, Choose(p, saturated, allowed) PROVE Quiet
    BY <1>4, <1>8 DEF Choose, At
  <1>9. ASSUME RequestEnd(p) \/ VerifyEnd(p) PROVE Quiet
    BY <1>1, <1>9, IdleIs DEF RequestEnd, VerifyEnd, Become, At
  <1>10. ASSUME Quiet PROVE ChargedInv'
    <2>1. \A ip \in Ip : WrongGuesses(ip)' = WrongGuesses(ip)
      BY <1>10 DEF WrongGuesses
    <2> QED BY <1>10, <2>1, Uncharged
  <1> HIDE DEF Quiet
  <1> QED BY <1>2, <1>3, <1>5, <1>6, <1>7, <1>8, <1>9, <1>10 DEF Begin

\* A request stores its code, or fails to.
LEMMA ChargedSave ==
    ASSUME CodesInv, ChargedInv, NEW p \in Proc, NEW ok \in BOOLEAN, Save(p, ok) \/ Fill(p, ok)
    PROVE  ChargedInv'
  <1>1. req[p] \in Handler /\ req[p].now \in Nat
    BY HandsAre DEF Handler
  <1>2. UNCHANGED <<tokens, granted>> /\ req[p].pc \notin {"consume", "refund"}
    BY DEF Save, Fill, At
  <1>3. req'[p].pc = "asked" /\ \A q \in Proc \ {p} : req'[q] = req[q]
    <2>1. req' = [req EXCEPT ![p] = [req[p] EXCEPT !.pc = "asked"]] /\ req \in [Proc -> Handler]
      BY HandsAre DEF Save, Fill, Goto, Become
    <2> QED BY <1>1, <2>1, HandlerFields
  <1>4. \/ UNCHANGED ledger
        \/ \E how \in {"mailed", "decoy", "filler"} : ledger' = Append(ledger, Stored(how, req[p].now))
    BY DEF Save, Fill, SaveCode, EnsureCode
  <1>5. \A ip \in Ip : WrongGuesses(ip)' = WrongGuesses(ip)
    <2>1. CASE UNCHANGED ledger
      BY <2>1 DEF WrongGuesses
    <2>2. CASE ~UNCHANGED ledger
      BY <1>1, <1>4, <2>2, StoredUnguessed
    <2> QED BY <2>1, <2>2
  <1> QED BY <1>2, <1>3, <1>5, Uncharged

\* A guess takes its token, is compared, or gives the token back.
LEMMA ChargedGuess ==
    ASSUME CodesInv, ChargedInv, NEW p \in Proc,
           Charge(p) \/ Refund(p) \/ \E ok \in BOOLEAN : Consume(p, ok)
    PROVE  ChargedInv'
  <1> DEFINE h == req[p]
  <1>1. /\ h \in Handler /\ req \in [Proc -> Handler] /\ tokens \in [Ip -> 0..WrongCodes] /\ WrongCodes \in Nat
        /\ h.pc \in {"charge", "consume", "refund"} => h.ip \in Ip
    BY HandsAre, CodesAssumption, NumbersAre DEF HandOK
  <1> SUFFICES ASSUME NEW ip \in Ip
               PROVE  /\ IsFiniteSet(WrongGuesses(ip)') /\ IsFiniteSet(Charged(ip)')
                      /\ Cardinality(WrongGuesses(ip)') + Cardinality(Charged(ip)') + tokens'[ip] <= granted'[ip]
    BY DEF ChargedInv
  <1>2. granted' = granted /\ \A q \in Proc \ {p} : req'[q] = req[q]
    BY <1>1 DEF Charge, Refund, Consume, Goto, Become
  <1>3. /\ tokens[ip] \in Nat /\ granted[ip] \in Nat /\ IsFiniteSet(WrongGuesses(ip))
        /\ Cardinality(WrongGuesses(ip)) \in Nat /\ Cardinality(Charged(ip)) \in Nat
        /\ Cardinality(WrongGuesses(ip)) + Cardinality(Charged(ip)) + tokens[ip] <= granted[ip]
    BY ChargedTypes
  <1>4. /\ IsFiniteSet(Charged(ip)') /\ Cardinality(Charged(ip)') \in Nat
        /\ (p \in Charged(ip) <=> p \in Charged(ip)') => Cardinality(Charged(ip)') = Cardinality(Charged(ip))
        /\ p \notin Charged(ip) /\ p \in Charged(ip)' => Cardinality(Charged(ip)') = Cardinality(Charged(ip)) + 1
        /\ p \in Charged(ip) /\ p \notin Charged(ip)' => Cardinality(Charged(ip)) = Cardinality(Charged(ip)') + 1
    BY <1>2, ChargedMoves, ChargedTypes
  <1>5. ledger' = ledger => WrongGuesses(ip)' = WrongGuesses(ip)
    BY DEF WrongGuesses
  <1>6. CASE Charge(p)
    <2>1. h.pc = "charge" /\ p \notin Charged(ip) /\ ledger' = ledger
      BY <1>6 DEF Charge, At, Charged
    <2>2. CASE tokens[h.ip] > 0
      <3>1. tokens' = [tokens EXCEPT ![h.ip] = @ - 1] /\ req'[p].ip = h.ip /\ req'[p].pc = "consume"
        BY <1>1, <1>6, <2>2 DEF Charge, Goto, Become, Handler
      <3>2. p \in Charged(ip)' <=> ip = h.ip
        BY <3>1 DEF Charged
      <3> HIDE DEF h
      <3>3. CASE ip = h.ip
        <4>1. tokens'[ip] = tokens[ip] - 1
          BY <1>1, <3>1, <3>3
        <4> QED BY <1>2, <1>3, <1>4, <1>5, <2>1, <3>2, <3>3, <4>1
      <3>4. CASE ip # h.ip
        <4>1. tokens'[ip] = tokens[ip]
          BY <1>1, <3>1, <3>4
        <4> QED BY <1>2, <1>3, <1>4, <1>5, <2>1, <3>2, <3>4, <4>1
      <3> QED BY <3>3, <3>4
    <2>3. CASE ~(tokens[h.ip] > 0)
      <3>1. tokens' = tokens /\ req'[p].pc = "answer"
        BY <1>1, <1>6, <2>3 DEF Charge, Become, Handler
      <3>2. p \notin Charged(ip)'
        BY <3>1 DEF Charged
      <3> QED BY <1>2, <1>3, <1>4, <1>5, <2>1, <3>1, <3>2
    <2> QED BY <2>2, <2>3
  <1>7. CASE Refund(p)
    <2>1. h.pc = "refund" /\ ledger' = ledger /\ req'[p].pc = "answer"
      BY <1>1, <1>7 DEF Refund, At, Goto, Become, Handler
    <2>2. (p \in Charged(ip) <=> ip = h.ip) /\ p \notin Charged(ip)'
      BY <2>1 DEF Charged
    <2>3. tokens' = [tokens EXCEPT ![h.ip] = IF @ < WrongCodes THEN @ + 1 ELSE @]
      BY <1>7 DEF Refund
    <2> HIDE DEF h
    <2>4. CASE ip = h.ip
      <3>1. tokens'[ip] \in Nat /\ tokens'[ip] <= tokens[ip] + 1
        BY <1>1, <1>3, <2>3, <2>4
      <3> QED BY <1>2, <1>3, <1>4, <1>5, <2>1, <2>2, <2>4, <3>1
    <2>5. CASE ip # h.ip
      <3>1. tokens'[ip] = tokens[ip]
        BY <1>1, <2>3, <2>5
      <3> QED BY <1>2, <1>3, <1>4, <1>5, <2>1, <2>2, <2>5, <3>1
    <2> QED BY <2>4, <2>5
  <1>8. ASSUME NEW ok \in BOOLEAN, Consume(p, ok)
        PROVE  /\ IsFiniteSet(WrongGuesses(ip)') /\ IsFiniteSet(Charged(ip)')
               /\ Cardinality(WrongGuesses(ip)') + Cardinality(Charged(ip)') + tokens'[ip] <= granted'[ip]
    <2>1. h.pc = "consume" /\ tokens' = tokens /\ req'[p].ip = h.ip
      <3> DEFINE c == ConsumeCode(h.ip, h.guess, h.now)
                 a == IF c.result = "ok" THEN "refund" ELSE "answer"
                 r == IF c.result = "ok" /\ ~Permitted(h.open) THEN "denied" ELSE c.result
      <3>1. \/ req' = [req EXCEPT ![p] = [h EXCEPT !.pc = "answer", !.result = "error"]]
            \/ req' = [req EXCEPT ![p] = [h EXCEPT !.pc = a, !.result = r]]
        BY <1>8 DEF Consume, Become
      <3>2. h.pc = "consume" /\ tokens' = tokens
        BY <1>8 DEF Consume, At
      <3> HIDE DEF a, r, c
      <3>3. /\ [h EXCEPT !.pc = "answer", !.result = "error"].ip = h.ip
            /\ [h EXCEPT !.pc = a, !.result = r].ip = h.ip
        BY <1>1, HandlerFields
      <3> DEFINE x == [h EXCEPT !.pc = "answer", !.result = "error"]
                 y == [h EXCEPT !.pc = a, !.result = r]
      <3>4. req' = [req EXCEPT ![p] = x] \/ req' = [req EXCEPT ![p] = y]
        BY <3>1
      <3>5. x.ip = h.ip /\ y.ip = h.ip
        BY <3>3
      <3> HIDE DEF x, y
      <3>6. req'[p].ip = h.ip
        BY <1>1, <3>4, <3>5
      <3> QED BY <3>2, <3>6
    <2>2. p \in Charged(ip)' => p \in Charged(ip)
      BY <2>1 DEF Charged
    <2>3. CASE ok
      <3>1. Consume(p, TRUE)
        <4>1. ok = TRUE
          BY <2>3
        <4> QED BY <1>8, <4>1
      <3>2. /\ IsFiniteSet(WrongGuesses(ip)') /\ Cardinality(WrongGuesses(ip)') \in Nat
            /\ \/ Cardinality(WrongGuesses(ip)') = Cardinality(WrongGuesses(ip))
               \/ /\ Cardinality(WrongGuesses(ip)') = Cardinality(WrongGuesses(ip)) + 1
                  /\ p \in Charged(ip) /\ p \notin Charged(ip)'
        BY <3>1, ComparedOnce
      <3> QED BY <1>2, <1>3, <1>4, <2>1, <2>2, <3>2
    <2>4. CASE ~ok
      <3>1. ledger' = ledger
        BY <1>8, <2>4 DEF Consume
      <3> QED BY <1>2, <1>3, <1>4, <1>5, <2>1, <2>2, <3>1
    <2> QED BY <2>3, <2>4
  <1> QED BY <1>6, <1>7, <1>8

\* Time passes, the limiter refills, or the process starts anew.
LEMMA ChargedRest ==
    ASSUME CodesInv, ChargedInv,
           Tick \/ (\E ip \in Ip : Refill(ip)) \/ (\E to \in Admissions : Restart(to)) \/ UNCHANGED vars
    PROVE  ChargedInv'
  <1> SUFFICES ASSUME NEW ip \in Ip
               PROVE  /\ IsFiniteSet(WrongGuesses(ip)') /\ IsFiniteSet(Charged(ip)')
                      /\ Cardinality(WrongGuesses(ip)') + Cardinality(Charged(ip)') + tokens'[ip] <= granted'[ip]
    BY DEF ChargedInv
  <1>1. /\ tokens[ip] \in Nat /\ granted[ip] \in Nat /\ IsFiniteSet(WrongGuesses(ip)) /\ IsFiniteSet(Charged(ip))
        /\ Cardinality(WrongGuesses(ip)) \in Nat /\ Cardinality(Charged(ip)) \in Nat
        /\ Cardinality(WrongGuesses(ip)) + Cardinality(Charged(ip)) + tokens[ip] <= granted[ip]
    BY ChargedTypes
  <1>2. tokens \in [Ip -> 0..WrongCodes] /\ granted \in [Ip -> Nat] /\ WrongCodes \in Nat
    BY CodesAssumption, NumbersAre DEF CodesInv, TypeOK
  <1>3. WrongGuesses(ip)' = WrongGuesses(ip)
    BY DEF Tick, Refill, Restart, vars, WrongGuesses
  <1>4. CASE Tick \/ UNCHANGED vars
    <2>1. UNCHANGED <<req, tokens, granted>>
      BY <1>4 DEF Tick, vars
    <2>2. Charged(ip)' = Charged(ip)
      BY <2>1 DEF Charged
    <2> QED BY <1>1, <1>3, <2>1, <2>2
  <1>5. CASE \E i \in Ip : Refill(i)
    <2>1. PICK i \in Ip : Refill(i)
      BY <1>5
    <2>2. /\ tokens' = [tokens EXCEPT ![i] = @ + 1] /\ granted' = [granted EXCEPT ![i] = @ + 1]
          /\ req' = req
      BY <2>1 DEF Refill
    <2>3. Charged(ip)' = Charged(ip)
      BY <2>2 DEF Charged
    <2>4. \/ tokens'[ip] = tokens[ip] + 1 /\ granted'[ip] = granted[ip] + 1
          \/ tokens'[ip] = tokens[ip] /\ granted'[ip] = granted[ip]
      BY <1>2, <2>2
    <2> QED BY <1>1, <1>3, <2>3, <2>4
  <1>6. CASE \E to \in Admissions : Restart(to)
    <2>1. /\ req' = [p \in Proc |-> Idle] /\ tokens' = [i \in Ip |-> WrongCodes]
          /\ granted' = [i \in Ip |-> granted[i] + WrongCodes]
      BY <1>6 DEF Restart
    <2>2. Charged(ip)' = {}
      BY <2>1, IdleIs DEF Charged
    <2>3. IsFiniteSet(Charged(ip)') /\ Cardinality(Charged(ip)') = 0
      BY <2>2, FS_EmptySet
    <2>4. tokens'[ip] = WrongCodes /\ granted'[ip] = granted[ip] + WrongCodes
      BY <2>1
    <2> QED BY <1>1, <1>2, <1>3, <2>3, <2>4
  <1> QED BY <1>4, <1>5, <1>6

\* No guess is made and no token out at the start.
LEMMA ChargedInit == Init => ChargedInv
  <1> SUFFICES ASSUME Init, NEW ip \in Ip
               PROVE  /\ IsFiniteSet(WrongGuesses(ip)) /\ IsFiniteSet(Charged(ip))
                      /\ Cardinality(WrongGuesses(ip)) + Cardinality(Charged(ip)) + tokens[ip] <= granted[ip]
    BY DEF ChargedInv
  <1>1. WrongGuesses(ip) = {}
    BY DEF Init, WrongGuesses
  <1>2. Charged(ip) = {}
    BY IdleIs DEF Init, Charged
  <1>3. IsFiniteSet({}) /\ Cardinality({}) = 0
    BY FS_EmptySet
  <1>4. tokens[ip] = WrongCodes /\ granted[ip] = WrongCodes /\ WrongCodes \in Nat
    BY CodesAssumption, NumbersAre DEF Init
  <1> QED BY <1>1, <1>2, <1>3, <1>4

\* Every step keeps the sum.
LEMMA ChargedNext == CodesInv /\ ChargedInv /\ [Next]_vars => ChargedInv'
  <1> SUFFICES ASSUME CodesInv, ChargedInv, [Next]_vars PROVE ChargedInv'
    OBVIOUS
  <1>1. ASSUME NEW p \in Proc, NEW ip \in Ip, Begin(p, ip) PROVE ChargedInv'
    BY <1>1, ChargedQuiet
  <1>2. ASSUME NEW p \in Proc, Continue(p) PROVE ChargedInv'
    BY <1>2, ChargedQuiet, ChargedSave, ChargedGuess DEF Continue
  <1>3. ASSUME Tick \/ (\E ip \in Ip : Refill(ip)) \/ (\E to \in Admissions : Restart(to)) \/ UNCHANGED vars
        PROVE  ChargedInv'
    BY <1>3, ChargedRest
  <1> QED BY <1>1, <1>2, <1>3 DEF Next

\* The guesses made from a client address never outrun the tokens it was given,
\* though each is charged, compared and refunded in separate steps, with restarts
\* and refills in between (handleVerifyCode: "simultaneous guesses cannot all pass
\* the check").
THEOREM EveryGuessIsCharged == Spec => []GuessesCharged
  <1>1. CodesInv /\ ChargedInv => GuessesCharged
    <2> SUFFICES ASSUME CodesInv, ChargedInv, NEW ip \in Ip
                 PROVE  Cardinality(WrongGuesses(ip)) + tokens[ip] <= granted[ip]
      BY DEF GuessesCharged
    <2> QED BY ChargedTypes
  <1> QED BY <1>1, Invariant, ChargedInit, ChargedNext, PTL DEF Spec
===============================================================================
