--------------------------- MODULE TwinCodesProofs ---------------------------
(***************************************************************************)
(* Proofs of TwinCodes.  The two sides agree in everything but what the    *)
(* policy admits and how their codes were delivered, and nothing an        *)
(* outsider does depends on either: a blind guess is never right.          *)
(***************************************************************************)
EXTENDS TwinCodes, Sequences, TLAPS

LeftCodes == INSTANCE OneTimeCodesProofs WITH
    admitted <- leftAdmits, code <- leftCode, attempts <- leftAttempts, tokens <- leftTokens,
    asked <- leftAsked, req <- leftReq, ledger <- leftLedger

RightCodes == INSTANCE OneTimeCodesProofs WITH
    admitted <- rightAdmits, code <- rightCode, attempts <- rightAttempts, tokens <- rightTokens,
    asked <- rightAsked, req <- rightReq, ledger <- rightLedger

\* Each side keeps the invariant of its codes.
BothKept == LeftCodes!CodesInv /\ RightCodes!CodesInv

\* What the sides have in common: all but what is admitted and how a code was sent.
Same ==
    /\ rightCode = leftCode /\ rightAttempts = leftAttempts /\ rightTokens = leftTokens
    /\ rightAsked = leftAsked /\ rightReq = leftReq /\ Len(rightLedger) = Len(leftLedger)

\* Nobody guesses knowing a code.
Blind == \A p \in Proc : leftReq[p].guess = 0

\* The inductive invariant.
TwinInv == BothKept /\ Same /\ Blind

-----------------------------------------------------------------------------

\* The assumption on the limits, as either side states it.
LEMMA Assumed == LeftCodes!CodesAssumption /\ RightCodes!CodesAssumption
  BY TwinAssumption DEF Left!CodesAssumption, LeftCodes!CodesAssumption, RightCodes!CodesAssumption

\* A step of both is a step of the left one (a blind guess is one of the guesses).
LEMMA LeftStep == LeftCodes!CodesInv /\ [Next]_vars => [LeftCodes!Next]_(LeftCodes!vars)
  <1> SUFFICES ASSUME LeftCodes!CodesInv, [Next]_vars PROVE [LeftCodes!Next]_(LeftCodes!vars)
    OBVIOUS
  <1> USE DEF Left!vars, LeftCodes!vars, Left!At, LeftCodes!At, Left!Become, LeftCodes!Become,
              Left!Goto, LeftCodes!Goto, Left!Idle, LeftCodes!Idle, Left!NoCode, LeftCodes!NoCode,
              Left!NoAttempts, LeftCodes!NoAttempts, Left!Stored, LeftCodes!Stored, Left!SaveCode,
              LeftCodes!SaveCode, Left!EnsureCode, LeftCodes!EnsureCode, Left!HasRecentCode,
              LeftCodes!HasRecentCode, Left!Permitted, LeftCodes!Permitted, Left!Kept, LeftCodes!Kept,
              Left!Consumed, LeftCodes!Consumed, Left!Counted, LeftCodes!Counted, Left!ConsumeCode,
              LeftCodes!ConsumeCode, Left!Noted, LeftCodes!Noted
  <1>1. ASSUME NEW p \in Proc, NEW ip \in Ip, NEW open \in BOOLEAN,
               Left!RequestBegin(p, ip, open) \/ Left!VerifyBegin(p, ip, open, 0)
        PROVE  LeftCodes!Begin(p, ip)
    <2>1. CASE Left!RequestBegin(p, ip, open)
      BY <2>1 DEF Left!RequestBegin, LeftCodes!RequestBegin, LeftCodes!Begin
    <2>2. CASE Left!VerifyBegin(p, ip, open, 0)
      <3>1. LeftCodes!VerifyBegin(p, ip, open, 0)
        BY <2>2 DEF Left!VerifyBegin, LeftCodes!VerifyBegin
      <3>2. 0 \in 0..Len(leftLedger)
        <4>1. Len(leftLedger) \in Nat
          BY LeftCodes!TypesAre DEF LeftCodes!CodesInv
        <4> QED BY <4>1
      <3> QED BY <3>1, <3>2 DEF LeftCodes!Begin
    <2> QED BY <1>1, <2>1, <2>2
  <1>2. ASSUME NEW p \in Proc, NEW ok \in BOOLEAN,
               \/ Left!PruneCodes(p, ok) \/ Left!SweepAttempts(p, ok) \/ Left!CheckRecent(p, ok)
               \/ Left!Save(p, ok) \/ Left!Fill(p, ok) \/ Left!Consume(p, ok)
        PROVE  LeftCodes!Continue(p)
    <2>1. Left!PruneCodes(p, ok) => LeftCodes!PruneCodes(p, ok)
      BY DEF Left!PruneCodes, LeftCodes!PruneCodes
    <2>2. Left!SweepAttempts(p, ok) => LeftCodes!SweepAttempts(p, ok)
      BY DEF Left!SweepAttempts, LeftCodes!SweepAttempts
    <2>3. Left!CheckRecent(p, ok) => LeftCodes!CheckRecent(p, ok)
      BY DEF Left!CheckRecent, LeftCodes!CheckRecent
    <2>4. Left!Save(p, ok) => LeftCodes!Save(p, ok)
      BY DEF Left!Save, LeftCodes!Save
    <2>5. Left!Fill(p, ok) => LeftCodes!Fill(p, ok)
      BY DEF Left!Fill, LeftCodes!Fill
    <2>6. Left!Consume(p, ok) => LeftCodes!Consume(p, ok)
      BY DEF Left!Consume, LeftCodes!Consume
    <2> QED BY <1>2, <2>1, <2>2, <2>3, <2>4, <2>5, <2>6 DEF LeftCodes!Continue
  <1>3. ASSUME NEW p \in Proc, NEW saturated \in BOOLEAN, NEW allowed \in BOOLEAN,
               Left!Choose(p, saturated, allowed)
        PROVE  LeftCodes!Continue(p)
    <2>1. LeftCodes!Choose(p, saturated, allowed)
      BY <1>3 DEF Left!Choose, LeftCodes!Choose
    <2> QED BY <2>1 DEF LeftCodes!Continue
  <1>4. ASSUME NEW p \in Proc, Left!RequestEnd(p) \/ Left!Charge(p) \/ Left!VerifyEnd(p)
        PROVE  LeftCodes!Continue(p)
    BY <1>4 DEF LeftCodes!Continue, Left!RequestEnd, LeftCodes!RequestEnd, Left!Charge, LeftCodes!Charge,
                Left!VerifyEnd, LeftCodes!VerifyEnd
  <1>5. CASE Left!Tick
    BY <1>5 DEF LeftCodes!Next, Left!Tick, LeftCodes!Tick
  <1>6. ASSUME NEW ip \in Ip, Left!Refill(ip) PROVE LeftCodes!Next
    BY <1>6 DEF LeftCodes!Next, Left!Refill, LeftCodes!Refill
  <1>7. ASSUME NEW to \in Admissions, Left!Restart(to) PROVE LeftCodes!Next
    BY <1>7 DEF LeftCodes!Next, Left!Restart, LeftCodes!Restart
  <1>8. CASE UNCHANGED vars
    BY <1>8 DEF vars
  <1>9. ASSUME NEW p \in Proc, LeftCodes!Continue(p) \/ \E ip \in Ip : LeftCodes!Begin(p, ip) PROVE LeftCodes!Next
    BY <1>9 DEF LeftCodes!Next
  <1>10. CASE Next
    BY <1>1, <1>2, <1>3, <1>4, <1>5, <1>6, <1>7, <1>9, <1>10 DEF Next
  <1> QED BY <1>8, <1>10

\* A step of both is a step of the right one.
LEMMA RightStep == RightCodes!CodesInv /\ [Next]_vars => [RightCodes!Next]_(RightCodes!vars)
  <1> SUFFICES ASSUME RightCodes!CodesInv, [Next]_vars PROVE [RightCodes!Next]_(RightCodes!vars)
    OBVIOUS
  <1> USE DEF Right!vars, RightCodes!vars, Right!At, RightCodes!At, Right!Become, RightCodes!Become,
              Right!Goto, RightCodes!Goto, Right!Idle, RightCodes!Idle, Right!NoCode,
              RightCodes!NoCode, Right!NoAttempts, RightCodes!NoAttempts, Right!Stored,
              RightCodes!Stored, Right!SaveCode, RightCodes!SaveCode, Right!EnsureCode,
              RightCodes!EnsureCode, Right!HasRecentCode, RightCodes!HasRecentCode, Right!Permitted,
              RightCodes!Permitted, Right!Kept, RightCodes!Kept, Right!Consumed, RightCodes!Consumed,
              Right!Counted, RightCodes!Counted, Right!ConsumeCode, RightCodes!ConsumeCode,
              Right!Noted, RightCodes!Noted
  <1>1. ASSUME NEW p \in Proc, NEW ip \in Ip, NEW open \in BOOLEAN,
               Right!RequestBegin(p, ip, open) \/ Right!VerifyBegin(p, ip, open, 0)
        PROVE  RightCodes!Begin(p, ip)
    <2>1. CASE Right!RequestBegin(p, ip, open)
      BY <2>1 DEF Right!RequestBegin, RightCodes!RequestBegin, RightCodes!Begin
    <2>2. CASE Right!VerifyBegin(p, ip, open, 0)
      <3>1. RightCodes!VerifyBegin(p, ip, open, 0)
        BY <2>2 DEF Right!VerifyBegin, RightCodes!VerifyBegin
      <3>2. 0 \in 0..Len(rightLedger)
        <4>1. Len(rightLedger) \in Nat
          BY RightCodes!TypesAre DEF RightCodes!CodesInv
        <4> QED BY <4>1
      <3> QED BY <3>1, <3>2 DEF RightCodes!Begin
    <2> QED BY <1>1, <2>1, <2>2
  <1>2. ASSUME NEW p \in Proc, NEW ok \in BOOLEAN,
               \/ Right!PruneCodes(p, ok) \/ Right!SweepAttempts(p, ok) \/ Right!CheckRecent(p, ok)
               \/ Right!Save(p, ok) \/ Right!Fill(p, ok) \/ Right!Consume(p, ok)
        PROVE  RightCodes!Continue(p)
    <2>1. Right!PruneCodes(p, ok) => RightCodes!PruneCodes(p, ok)
      BY DEF Right!PruneCodes, RightCodes!PruneCodes
    <2>2. Right!SweepAttempts(p, ok) => RightCodes!SweepAttempts(p, ok)
      BY DEF Right!SweepAttempts, RightCodes!SweepAttempts
    <2>3. Right!CheckRecent(p, ok) => RightCodes!CheckRecent(p, ok)
      BY DEF Right!CheckRecent, RightCodes!CheckRecent
    <2>4. Right!Save(p, ok) => RightCodes!Save(p, ok)
      BY DEF Right!Save, RightCodes!Save
    <2>5. Right!Fill(p, ok) => RightCodes!Fill(p, ok)
      BY DEF Right!Fill, RightCodes!Fill
    <2>6. Right!Consume(p, ok) => RightCodes!Consume(p, ok)
      BY DEF Right!Consume, RightCodes!Consume
    <2> QED BY <1>2, <2>1, <2>2, <2>3, <2>4, <2>5, <2>6 DEF RightCodes!Continue
  <1>3. ASSUME NEW p \in Proc, NEW saturated \in BOOLEAN, NEW allowed \in BOOLEAN,
               Right!Choose(p, saturated, allowed)
        PROVE  RightCodes!Continue(p)
    <2>1. RightCodes!Choose(p, saturated, allowed)
      BY <1>3 DEF Right!Choose, RightCodes!Choose
    <2> QED BY <2>1 DEF RightCodes!Continue
  <1>4. ASSUME NEW p \in Proc, Right!RequestEnd(p) \/ Right!Charge(p) \/ Right!VerifyEnd(p)
        PROVE  RightCodes!Continue(p)
    BY <1>4 DEF RightCodes!Continue, Right!RequestEnd, RightCodes!RequestEnd, Right!Charge, RightCodes!Charge,
                Right!VerifyEnd, RightCodes!VerifyEnd
  <1>5. CASE Right!Tick
    BY <1>5 DEF RightCodes!Next, Right!Tick, RightCodes!Tick
  <1>6. ASSUME NEW ip \in Ip, Right!Refill(ip) PROVE RightCodes!Next
    BY <1>6 DEF RightCodes!Next, Right!Refill, RightCodes!Refill
  <1>7. ASSUME NEW to \in Admissions, Right!Restart(to) PROVE RightCodes!Next
    BY <1>7 DEF RightCodes!Next, Right!Restart, RightCodes!Restart
  <1>8. CASE UNCHANGED vars
    BY <1>8 DEF vars
  <1>9. ASSUME NEW p \in Proc, RightCodes!Continue(p) \/ \E ip \in Ip : RightCodes!Begin(p, ip) PROVE RightCodes!Next
    BY <1>9 DEF RightCodes!Next
  <1>10. CASE Next
    BY <1>1, <1>2, <1>3, <1>4, <1>5, <1>6, <1>7, <1>9, <1>10 DEF Next
  <1> QED BY <1>8, <1>10

-----------------------------------------------------------------------------

\* What the sides are made of.
LEMMA SidesAre ==
    ASSUME TwinInv
    PROVE  /\ leftReq \in [Proc -> LeftCodes!Handler] /\ rightReq = leftReq
           /\ leftLedger \in Seq(LeftCodes!Entry) /\ rightLedger \in Seq(RightCodes!Entry)
           /\ Len(leftLedger) \in Nat /\ Len(rightLedger) = Len(leftLedger)
           /\ leftCode.id = 0 => leftCode = LeftCodes!NoCode
  <1>1. LeftCodes!TypeOK /\ RightCodes!TypeOK /\ LeftCodes!StoreInv
    BY DEF TwinInv, BothKept, LeftCodes!CodesInv, RightCodes!CodesInv
  <1>2. leftCode.id = 0 => leftCode = LeftCodes!NoCode
    BY <1>1 DEF LeftCodes!StoreInv, LeftCodes!RowInv
  <1>3. leftReq \in [Proc -> LeftCodes!Handler] /\ leftLedger \in Seq(LeftCodes!Entry)
    BY <1>1 DEF LeftCodes!TypeOK
  <1>4. rightLedger \in Seq(RightCodes!Entry)
    BY <1>1 DEF RightCodes!TypeOK
  <1>5. Len(leftLedger) \in Nat
    BY <1>1, LeftCodes!TypesAre
  <1>6. rightReq = leftReq /\ Len(rightLedger) = Len(leftLedger)
    BY DEF TwinInv, Same
  <1> QED BY <1>2, <1>3, <1>4, <1>5, <1>6

\* The same handler goes on, on both sides.
LEMMA BecomeSame ==
    ASSUME TwinInv, NEW p \in Proc, NEW h, h.guess = 0,
           leftReq' = [leftReq EXCEPT ![p] = h], rightReq' = [rightReq EXCEPT ![p] = h]
    PROVE  rightReq' = leftReq' /\ Blind'
  <1>1. rightReq' = leftReq'
    BY DEF TwinInv, Same
  <1>2. ASSUME NEW q \in Proc PROVE leftReq'[q].guess = 0
    BY SidesAre DEF TwinInv, Blind
  <1> QED BY <1>1, <1>2 DEF Blind

\* A handler that only moves on moves on alike.
LEMMA GotoSame ==
    ASSUME TwinInv, NEW p \in Proc, NEW pc, Left!Goto(p, pc), Right!Goto(p, pc)
    PROVE  rightReq' = leftReq' /\ Blind'
  <1> DEFINE h == [leftReq[p] EXCEPT !.pc = pc]
  <1>1. h.guess = 0
    BY SidesAre DEF TwinInv, Blind, LeftCodes!Handler
  <1>2. leftReq' = [leftReq EXCEPT ![p] = h]
    BY DEF Left!Goto, Left!Become
  <1>3. rightReq' = [rightReq EXCEPT ![p] = [rightReq[p] EXCEPT !.pc = pc]]
    BY DEF Right!Goto, Right!Become
  <1>4. rightReq[p] = leftReq[p]
    BY DEF TwinInv, Same
  <1>5. rightReq' = [rightReq EXCEPT ![p] = h]
    BY <1>3, <1>4, Zenon
  <1> HIDE DEF h
  <1> QED BY <1>1, <1>2, <1>5, BecomeSame

\* A step that leaves the two stores alone.
LEMMA QuietSame ==
    ASSUME TwinInv, rightReq' = leftReq', Blind', rightTokens' = leftTokens', rightAsked' = leftAsked',
           UNCHANGED <<leftCode, leftAttempts, leftLedger, rightCode, rightAttempts, rightLedger>>
    PROVE  Same' /\ Blind'
  BY DEF TwinInv, Same

\* A handler that does nothing is the same on both sides, and guesses nothing.
LEMMA SameIdle ==
    /\ Left!Idle = LeftCodes!Idle /\ Right!Idle = LeftCodes!Idle
    /\ LeftCodes!Idle \in LeftCodes!Handler /\ LeftCodes!Idle.guess = 0
  <1>1. Left!Idle = LeftCodes!Idle /\ Right!Idle = LeftCodes!Idle
    BY DEF Left!Idle, Right!Idle, LeftCodes!Idle
  <1>2. LeftCodes!Idle.guess = 0
    BY DEF LeftCodes!Idle
  <1>3. LeftCodes!Idle \in LeftCodes!Handler
    BY Assumed, LeftCodes!IdleIs
  <1> QED BY <1>1, <1>2, <1>3

\* A request that begins (handleRequest) leaves the sides alike.
LEMMA SameRequestBegin ==
    ASSUME TwinInv, NEW p \in Proc, NEW ip \in Ip, NEW open \in BOOLEAN,
           Left!RequestBegin(p, ip, open), Right!RequestBegin(p, ip, open)
    PROVE  Same' /\ Blind'
  <1> DEFINE h(n) == [LeftCodes!Idle EXCEPT !.pc = "prune", !.ip = ip, !.now = clock, !.open = open, !.before = n]
  <1>1. leftReq' = [leftReq EXCEPT ![p] = h(Len(leftLedger))]
    BY DEF Left!RequestBegin, Left!Become, Left!Idle, LeftCodes!Idle
  <1>2. rightReq' = [rightReq EXCEPT ![p] = h(Len(rightLedger))]
    BY DEF Right!RequestBegin, Right!Become, Right!Idle, LeftCodes!Idle
  <1>3. h(Len(leftLedger)).guess = 0
    BY SameIdle DEF LeftCodes!Handler
  <1> HIDE DEF h
  <1>4. rightReq' = [rightReq EXCEPT ![p] = h(Len(leftLedger))]
    BY <1>2, SidesAre
  <1>5. rightReq' = leftReq' /\ Blind'
    BY <1>1, <1>3, <1>4, BecomeSame
  <1> QED BY <1>5, QuietSame DEF Left!RequestBegin, Right!RequestBegin, TwinInv, Same

\* A blind guess that begins, or is told to start over (handleVerify), leaves the sides alike.
LEMMA SameVerifyBegin ==
    ASSUME TwinInv, NEW p \in Proc, NEW ip \in Ip, NEW open \in BOOLEAN,
           Left!VerifyBegin(p, ip, open, 0), Right!VerifyBegin(p, ip, open, 0)
    PROVE  Same' /\ Blind'
  <1> DEFINE g == [LeftCodes!Idle EXCEPT !.pc = "charge", !.ip = ip, !.now = clock, !.open = open, !.guess = 0]
             k == [LeftCodes!Idle EXCEPT !.pc = "answer", !.result = "restart"]
  <1>1. \/ clock > leftAsked /\ leftReq' = [leftReq EXCEPT ![p] = k]
        \/ clock <= leftAsked /\ leftReq' = [leftReq EXCEPT ![p] = g]
    BY DEF Left!VerifyBegin, Left!Become, Left!Idle, LeftCodes!Idle
  <1>2. \/ clock > rightAsked /\ rightReq' = [rightReq EXCEPT ![p] = k]
        \/ clock <= rightAsked /\ rightReq' = [rightReq EXCEPT ![p] = g]
    BY DEF Right!VerifyBegin, Right!Become, Right!Idle, LeftCodes!Idle
  <1>3. g.guess = 0 /\ k.guess = 0
    BY SameIdle DEF LeftCodes!Handler
  <1>4. rightAsked = leftAsked
    BY DEF TwinInv, Same
  <1>5. ~(clock > leftAsked /\ clock <= leftAsked)
    <2>1. clock \in Nat /\ leftAsked \in Nat
      BY DEF TwinInv, BothKept, LeftCodes!CodesInv, LeftCodes!TypeOK
    <2> QED BY <2>1
  <1> HIDE DEF g, k
  <1>6. rightReq' = leftReq' /\ Blind'
    BY <1>1, <1>2, <1>3, <1>4, <1>5, BecomeSame
  <1> QED BY <1>6, QuietSame DEF Left!VerifyBegin, Right!VerifyBegin, TwinInv, Same

\* Deleting what is expired (PruneCodes, SweepAttempts) does not touch what the sides have in common.
LEMMA SamePrune ==
    ASSUME TwinInv, NEW p \in Proc, NEW ok \in BOOLEAN,
           (Left!PruneCodes(p, ok) /\ Right!PruneCodes(p, ok)) \/ (Left!SweepAttempts(p, ok) /\ Right!SweepAttempts(p, ok))
    PROVE  Same' /\ Blind'
  <1>1. \E pc \in {"sweep", "recent"} : Left!Goto(p, pc) /\ Right!Goto(p, pc)
    BY DEF Left!PruneCodes, Right!PruneCodes, Left!SweepAttempts, Right!SweepAttempts
  <1>2. rightReq' = leftReq' /\ Blind'
    BY <1>1, GotoSame
  <1>3. rightCode' = leftCode' /\ rightAttempts' = leftAttempts'
    BY DEF TwinInv, Same, Left!PruneCodes, Right!PruneCodes, Left!SweepAttempts, Right!SweepAttempts,
           Left!NoCode, Right!NoCode, Left!NoAttempts, Right!NoAttempts
  <1>4. UNCHANGED <<leftLedger, rightLedger, leftTokens, rightTokens, leftAsked, rightAsked>>
    BY DEF Left!PruneCodes, Right!PruneCodes, Left!SweepAttempts, Right!SweepAttempts
  <1> QED BY <1>2, <1>3, <1>4 DEF TwinInv, Same

\* What a request does next is chosen alike: what the policy says only decides who is mailed.
LEMMA SameChoose ==
    ASSUME TwinInv, NEW p \in Proc, NEW saturated \in BOOLEAN, NEW allowed \in BOOLEAN,
           Left!Choose(p, saturated, allowed), Right!Choose(p, saturated, allowed)
    PROVE  Same' /\ Blind'
  <1>1. \E pc \in {"fill", "noop", "save"} : Left!Goto(p, pc) /\ Right!Goto(p, pc)
    BY DEF Left!Choose, Right!Choose, TwinInv, Same
  <1>2. rightReq' = leftReq' /\ Blind'
    BY <1>1, GotoSame
  <1> QED BY <1>2, QuietSame DEF Left!Choose, Right!Choose, TwinInv, Same

\* A handler that answers (handleRequest, handleVerify) leaves the sides alike.
LEMMA SameEnd ==
    ASSUME TwinInv, NEW p \in Proc,
           (Left!RequestEnd(p) /\ Right!RequestEnd(p)) \/ (Left!VerifyEnd(p) /\ Right!VerifyEnd(p))
    PROVE  Same' /\ Blind'
  <1>1. leftReq' = [leftReq EXCEPT ![p] = LeftCodes!Idle] /\ rightReq' = [rightReq EXCEPT ![p] = LeftCodes!Idle]
    BY SameIdle DEF Left!RequestEnd, Right!RequestEnd, Left!VerifyEnd, Right!VerifyEnd, Left!Become, Right!Become
  <1>2. rightReq' = leftReq' /\ Blind'
    BY <1>1, SameIdle, BecomeSame
  <1>3. rightAsked' = leftAsked' /\ rightTokens' = leftTokens'
    BY DEF Left!RequestEnd, Right!RequestEnd, Left!VerifyEnd, Right!VerifyEnd, TwinInv, Same
  <1> QED BY <1>2, <1>3, QuietSame DEF Left!RequestEnd, Right!RequestEnd, Left!VerifyEnd, Right!VerifyEnd

\* Both sides see a recent code, or neither does (HasRecentCode).
LEMMA SameRecent ==
    ASSUME TwinInv, NEW p \in Proc, NEW ok \in BOOLEAN, Left!CheckRecent(p, ok), Right!CheckRecent(p, ok)
    PROVE  Same' /\ Blind'
  <1> DEFINE fresh == ok => (leftCode # Left!NoCode /\ leftCode.expires > leftReq[p].now + TTL - Cooldown)
             h == [leftReq[p] EXCEPT !.pc = "choose", !.failed = ~ok, !.saw = leftCode.id, !.recent = fresh]
  <1>1. leftReq' = [leftReq EXCEPT ![p] = h]
    BY DEF Left!CheckRecent, Left!Become, Left!HasRecentCode
  <1>2. rightReq' = [rightReq EXCEPT ![p] = h]
    <2>1. rightReq' = [rightReq EXCEPT ![p] =
                         [rightReq[p] EXCEPT !.pc = "choose", !.failed = ~ok, !.saw = rightCode.id,
                            !.recent = ok => (rightCode # Left!NoCode
                                                /\ rightCode.expires > rightReq[p].now + TTL - Cooldown)]]
      BY DEF Right!CheckRecent, Right!Become, Right!HasRecentCode, Right!NoCode, Left!NoCode
    <2>2. rightCode = leftCode /\ rightReq = leftReq
      BY DEF TwinInv, Same
    <2> QED BY <2>1, <2>2, Zenon
  <1>3. h.guess = 0
    <2> HIDE DEF fresh
    <2> DEFINE failed == ~ok
    <2> HIDE DEF failed
    <2>1. [leftReq[p] EXCEPT !.pc = "choose", !.failed = failed, !.saw = leftCode.id, !.recent = fresh].guess = 0
      BY SidesAre DEF LeftCodes!Handler, TwinInv, Blind
    <2> QED BY <2>1 DEF failed
  <1> HIDE DEF h
  <1>4. rightReq' = leftReq' /\ Blind'
    BY <1>1, <1>2, <1>3, BecomeSame
  <1> QED BY <1>4, QuietSame DEF Left!CheckRecent, Right!CheckRecent, TwinInv, Same

\* However a code is delivered, the ledger is one longer.
LEMMA SameLength ==
    ASSUME TwinInv, NEW how, NEW now, leftLedger' = Append(leftLedger, Left!Stored(how, now)),
           NEW how2, NEW now2, rightLedger' = Append(rightLedger, Right!Stored(how2, now2)),
           how \in {"mailed", "decoy", "filler"}, how2 \in {"mailed", "decoy", "filler"}, now \in Nat, now2 \in Nat
    PROVE  Len(rightLedger') = Len(leftLedger')
  <1>1. Left!Stored(how, now) \in LeftCodes!Entry
    BY DEF Left!Stored, Left!NoAttempts, LeftCodes!Entry
  <1>2. Right!Stored(how2, now2) \in RightCodes!Entry
    BY DEF Right!Stored, Right!NoAttempts, RightCodes!Entry
  <1>3. Len(leftLedger') = Len(leftLedger) + 1
    BY <1>1, SidesAre
  <1>4. Len(rightLedger') = Len(rightLedger) + 1
    BY <1>2, SidesAre
  <1> QED BY <1>3, <1>4, SidesAre

\* A code sent and a decoy, or two fillers, leave the same row and the same counters.
LEMMA SameSave ==
    ASSUME TwinInv, NEW p \in Proc, NEW ok \in BOOLEAN,
           (Left!Save(p, ok) /\ Right!Save(p, ok)) \/ (Left!Fill(p, ok) /\ Right!Fill(p, ok))
    PROVE  Same' /\ Blind'
  <1>1. rightReq' = leftReq' /\ Blind'
    <2>1. Left!Goto(p, "asked") /\ Right!Goto(p, "asked")
      BY DEF Left!Save, Right!Save, Left!Fill, Right!Fill
    <2> QED BY <2>1, GotoSame
  <1>2. UNCHANGED <<leftTokens, rightTokens, leftAsked, rightAsked>>
    BY DEF Left!Save, Right!Save, Left!Fill, Right!Fill
  <1>3. /\ rightReq[p] = leftReq[p] /\ leftReq[p].now \in Nat /\ rightReq[p].now \in Nat
        /\ rightCode = leftCode /\ rightAttempts = leftAttempts
    BY SidesAre DEF TwinInv, Same, LeftCodes!Handler
  <1>4. CASE UNCHANGED <<leftCode, leftAttempts, leftLedger, rightCode, rightAttempts, rightLedger>>
    BY <1>1, <1>2, <1>4, QuietSame DEF TwinInv, Same
  <1>5. CASE Left!Save(p, ok) /\ Right!Save(p, ok) /\ ok
    <2>1. PICK how \in {"mailed", "decoy"} : Left!SaveCode(how, leftReq[p].now, leftReq[p].now + TTL)
      BY <1>5 DEF Left!Save
    <2>2. PICK how2 \in {"mailed", "decoy"} : Right!SaveCode(how2, rightReq[p].now, rightReq[p].now + TTL)
      BY <1>5 DEF Right!Save
    <2>3. rightCode' = leftCode' /\ rightAttempts' = leftAttempts'
      BY <1>3, <2>1, <2>2, SidesAre DEF Left!SaveCode, Right!SaveCode, Left!NoAttempts, Right!NoAttempts
    <2>4. Len(rightLedger') = Len(leftLedger')
      BY <1>3, <2>1, <2>2, SameLength DEF Left!SaveCode, Right!SaveCode
    <2> QED BY <1>1, <1>2, <2>3, <2>4 DEF TwinInv, Same
  <1>6. CASE Left!Fill(p, ok) /\ Right!Fill(p, ok) /\ ok
    <2>1. /\ Left!EnsureCode("filler", leftReq[p].now, leftReq[p].now + TTL - Cooldown)
          /\ Right!EnsureCode("filler", rightReq[p].now, rightReq[p].now + TTL - Cooldown)
      BY <1>6 DEF Left!Fill, Right!Fill
    <2>2. Left!NoCode = Right!NoCode
      BY DEF Left!NoCode, Right!NoCode
    <2>3. CASE leftCode # Left!NoCode
      BY <1>3, <1>4, <2>1, <2>2, <2>3 DEF Left!EnsureCode, Right!EnsureCode
    <2>4. CASE leftCode = Left!NoCode
      <3>1. rightCode' = leftCode' /\ rightAttempts' = leftAttempts'
        BY <1>3, <2>1, <2>2, <2>4, SidesAre DEF Left!EnsureCode, Right!EnsureCode
      <3>2. Len(rightLedger') = Len(leftLedger')
        BY <1>3, <2>1, <2>2, <2>4, SameLength DEF Left!EnsureCode, Right!EnsureCode
      <3> QED BY <1>1, <1>2, <3>1, <3>2 DEF TwinInv, Same
    <2> QED BY <2>3, <2>4
  <1>7. CASE ~ok
    BY <1>4, <1>7 DEF Left!Save, Right!Save, Left!Fill, Right!Fill
  <1> QED BY <1>5, <1>6, <1>7

\* The limiter lets both guesses through, or refuses both.
LEMMA SameCharge ==
    ASSUME TwinInv, NEW p \in Proc, Left!Charge(p), Right!Charge(p)
    PROVE  Same' /\ Blind'
  <1> DEFINE h == [leftReq[p] EXCEPT !.pc = "answer", !.result = "busy"]
             ip == leftReq[p].ip
  <1>1. rightTokens = leftTokens /\ rightReq = leftReq
    BY DEF TwinInv, Same
  <1>2. CASE leftTokens[ip] > 0
    <2>1. leftTokens' = [leftTokens EXCEPT ![ip] = @ - 1] /\ Left!Goto(p, "consume")
      BY <1>2 DEF Left!Charge
    <2>2. rightTokens' = [leftTokens EXCEPT ![ip] = @ - 1] /\ Right!Goto(p, "consume")
      BY <1>1, <1>2 DEF Right!Charge
    <2>3. rightReq' = leftReq' /\ Blind'
      BY <2>1, <2>2, GotoSame
    <2> QED BY <2>1, <2>2, <2>3, QuietSame DEF Left!Charge, Right!Charge, TwinInv, Same
  <1>3. CASE ~(leftTokens[ip] > 0)
    <2>1. leftReq' = [leftReq EXCEPT ![p] = h] /\ UNCHANGED leftTokens
      BY <1>3 DEF Left!Charge, Left!Become
    <2>2. rightReq' = [rightReq EXCEPT ![p] = [rightReq[p] EXCEPT !.pc = "answer", !.result = "busy"]] /\ UNCHANGED rightTokens
      BY <1>1, <1>3 DEF Right!Charge, Right!Become
    <2>3. rightReq' = [rightReq EXCEPT ![p] = h]
      BY <1>1, <2>2, Zenon
    <2>4. h.guess = 0
      BY SidesAre DEF LeftCodes!Handler, TwinInv, Blind
    <2> HIDE DEF h
    <2>5. rightReq' = leftReq' /\ Blind'
      BY <2>1, <2>3, <2>4, BecomeSame
    <2> QED BY <2>1, <2>2, <2>5, QuietSame DEF Left!Charge, Right!Charge, TwinInv, Same
  <1> QED BY <1>2, <1>3

\* A blind guess has the same outcome on both sides, and is not right.
LEMMA SameOutcome ==
    ASSUME rightCode = leftCode, rightAttempts = leftAttempts, leftCode.id = 0 => leftCode = LeftCodes!NoCode,
           NEW ip, NEW now
    PROVE  /\ Right!ConsumeCode(ip, 0, now) = Left!ConsumeCode(ip, 0, now)
           /\ Left!ConsumeCode(ip, 0, now).result # "ok"
  <1>1. /\ Right!Kept("nocode") = Left!Kept("nocode") /\ Right!Kept("toomany") = Left!Kept("toomany")
        /\ Right!Consumed("expired", FALSE) = Left!Consumed("expired", FALSE)
        /\ Right!Consumed("burned", FALSE) = Left!Consumed("burned", FALSE)
        /\ Right!Consumed("ok", FALSE) = Left!Consumed("ok", FALSE)
        /\ Right!Consumed("burned", TRUE) = Left!Consumed("burned", TRUE)
    BY DEF Left!Kept, Right!Kept, Left!Consumed, Right!Consumed, Left!NoCode, Right!NoCode,
           Left!NoAttempts, Right!NoAttempts
  <1>2. Right!Counted("toomany", ip) = Left!Counted("toomany", ip) /\ Right!Counted("mismatch", ip) = Left!Counted("mismatch", ip)
    BY DEF Left!Counted, Right!Counted
  <1>3. Left!NoCode = Right!NoCode /\ Left!NoCode = LeftCodes!NoCode
    BY DEF Left!NoCode, Right!NoCode, LeftCodes!NoCode
  <1>4. Right!ConsumeCode(ip, 0, now) = Left!ConsumeCode(ip, 0, now)
    BY <1>1, <1>2, <1>3 DEF Left!ConsumeCode, Right!ConsumeCode
  <1>5. Left!ConsumeCode(ip, 0, now).result # "ok"
    BY <1>3 DEF Left!ConsumeCode, Left!Kept, Left!Consumed, Left!Counted
  <1> QED BY <1>4, <1>5

\* A blind guess consumes, counts and answers the same on both sides (ConsumeCode).
LEMMA SameConsume ==
    ASSUME TwinInv, BothKept', NEW p \in Proc, NEW ok \in BOOLEAN, Left!Consume(p, ok), Right!Consume(p, ok)
    PROVE  Same' /\ Blind'
  <1>1. /\ rightTokens = leftTokens /\ rightReq = leftReq /\ rightCode = leftCode /\ rightAttempts = leftAttempts
        /\ rightAsked = leftAsked /\ leftReq[p].guess = 0 /\ rightReq[p].guess = 0
        /\ UNCHANGED <<leftTokens, rightTokens, leftAsked, rightAsked>>
    BY DEF TwinInv, Same, Blind, Left!Consume, Right!Consume
  <1>2. \A pc, result : [leftReq[p] EXCEPT !.pc = pc, !.result = result].guess = 0
    BY <1>1, SidesAre DEF LeftCodes!Handler
  <1>3. CASE ~ok
    <2> DEFINE h == [leftReq[p] EXCEPT !.pc = "answer", !.result = "error"]
    <2>1. leftReq' = [leftReq EXCEPT ![p] = h] /\ UNCHANGED <<leftCode, leftAttempts, leftLedger>>
      BY <1>3 DEF Left!Consume, Left!Become
    <2>2. /\ rightReq' = [rightReq EXCEPT ![p] = [rightReq[p] EXCEPT !.pc = "answer", !.result = "error"]]
          /\ UNCHANGED <<rightCode, rightAttempts, rightLedger>>
      BY <1>3 DEF Right!Consume, Right!Become
    <2>3. rightReq' = [rightReq EXCEPT ![p] = h]
      BY <1>1, <2>2, Zenon
    <2>4. h.guess = 0
      BY <1>2
    <2> HIDE DEF h
    <2>5. rightReq' = leftReq' /\ Blind'
      BY <2>1, <2>3, <2>4, BecomeSame
    <2> QED BY <1>1, <2>1, <2>2, <2>5, QuietSame
  <1>4. CASE ok
    <2> PICK c : c = Left!ConsumeCode(leftReq[p].ip, 0, leftReq[p].now)
      OBVIOUS
    <2>1. c = Right!ConsumeCode(rightReq[p].ip, 0, rightReq[p].now) /\ c.result # "ok"
      BY <1>1, SidesAre, SameOutcome
    <2> DEFINE h == [leftReq[p] EXCEPT !.pc = "answer", !.result = c.result]
    <2>2. /\ leftReq' = [leftReq EXCEPT ![p] = h] /\ leftCode' = c.code /\ leftAttempts' = c.attempts
          /\ DOMAIN leftLedger' = DOMAIN leftLedger
      BY <1>1, <1>4, <2>1 DEF Left!Consume, Left!Become
    <2>3. /\ rightReq' = [rightReq EXCEPT ![p] = [rightReq[p] EXCEPT !.pc = "answer", !.result = c.result]]
          /\ rightCode' = c.code /\ rightAttempts' = c.attempts
          /\ DOMAIN rightLedger' = DOMAIN rightLedger
      BY <1>1, <1>4, <2>1 DEF Right!Consume, Right!Become
    <2>4. rightReq' = [rightReq EXCEPT ![p] = h]
      BY <1>1, <2>3, Zenon
    <2>5. h.guess = 0
      BY <1>2
    <2> HIDE DEF h
    <2>6. rightReq' = leftReq' /\ Blind'
      BY <2>2, <2>4, <2>5, BecomeSame
    <2>7. Len(leftLedger') = Len(leftLedger) /\ Len(rightLedger') = Len(rightLedger)
      <3>1. leftLedger' \in Seq(LeftCodes!Entry)' /\ rightLedger' \in Seq(RightCodes!Entry)'
        BY DEF BothKept, LeftCodes!CodesInv, RightCodes!CodesInv, LeftCodes!TypeOK, RightCodes!TypeOK
      <3> QED BY <2>2, <2>3, <3>1, SidesAre
    <2> QED BY <1>1, <2>2, <2>3, <2>6, <2>7 DEF TwinInv, Same
  <1> QED BY <1>3, <1>4

\* Time, the limiter refilling and a restart treat the sides alike.
LEMMA SameRest ==
    ASSUME TwinInv,
           \/ Left!Tick /\ Right!Tick
           \/ \E ip \in Ip : Left!Refill(ip) /\ Right!Refill(ip)
           \/ \E left, right \in Admissions : Left!Restart(left) /\ Right!Restart(right)
           \/ UNCHANGED vars
    PROVE  Same' /\ Blind'
  <1>1. CASE UNCHANGED vars \/ (Left!Tick /\ Right!Tick)
    BY <1>1 DEF vars, Left!Tick, Right!Tick, TwinInv, Same, Blind
  <1>2. ASSUME NEW ip \in Ip, Left!Refill(ip), Right!Refill(ip) PROVE Same' /\ Blind'
    BY <1>2 DEF Left!Refill, Right!Refill, TwinInv, Same, Blind
  <1>3. ASSUME NEW left \in Admissions, NEW right \in Admissions, Left!Restart(left), Right!Restart(right)
        PROVE  Same' /\ Blind'
    <2>1. /\ leftReq' = [p \in Proc |-> LeftCodes!Idle] /\ rightReq' = [p \in Proc |-> LeftCodes!Idle]
          /\ rightTokens' = leftTokens'
      BY <1>3, SameIdle DEF Left!Restart, Right!Restart
    <2>2. Blind'
      BY <2>1, SameIdle DEF Blind
    <2> QED BY <1>3, <2>1, <2>2, QuietSame DEF Left!Restart, Right!Restart, TwinInv, Same
  <1> QED BY <1>1, <1>2, <1>3

-----------------------------------------------------------------------------

\* Nothing an outsider is answered, and no step taken to answer, depends on what
\* the policy says of the address (handleRequest, saveDecoyCode, storeDecoyCode).
THEOREM NobodyIsToldApart == Spec => []Indistinguishable
  <1>1. Init => TwinInv
    <2> SUFFICES ASSUME Init PROVE TwinInv
      OBVIOUS
    <2> USE DEF Left!Init, Right!Init, LeftCodes!Init, RightCodes!Init, Left!Idle, Right!Idle, LeftCodes!Idle,
                RightCodes!Idle, Left!NoCode, Right!NoCode, LeftCodes!NoCode, RightCodes!NoCode,
                Left!NoAttempts, Right!NoAttempts, LeftCodes!NoAttempts, RightCodes!NoAttempts
    <2>1. LeftCodes!Init /\ RightCodes!Init
      BY DEF Init
    <2>2. BothKept
      BY <2>1, Assumed, LeftCodes!InvInit, RightCodes!InvInit DEF BothKept
    <2>3. Same /\ Blind
      BY DEF Init, Same, Blind
    <2> QED BY <2>2, <2>3 DEF TwinInv
  <1>2. TwinInv /\ [Next]_vars => TwinInv'
    <2> SUFFICES ASSUME TwinInv, [Next]_vars PROVE TwinInv'
      OBVIOUS
    <2>1. BothKept'
      <3>1. LeftCodes!CodesInv /\ RightCodes!CodesInv
        BY DEF TwinInv, BothKept
      <3>2. LeftCodes!CodesInv'
        BY <3>1, LeftStep, Assumed, LeftCodes!InvNext
      <3>3. RightCodes!CodesInv'
        BY <3>1, RightStep, Assumed, RightCodes!InvNext
      <3> QED BY <3>2, <3>3 DEF BothKept
    <2>2. Same' /\ Blind'
      BY <2>1, SameRequestBegin, SameVerifyBegin, SamePrune, SameRecent, SameChoose, SameSave, SameEnd, SameCharge,
         SameConsume, SameRest DEF Next
    <2> QED BY <2>1, <2>2 DEF TwinInv
  <1>3. TwinInv => Indistinguishable
    BY DEF TwinInv, Same, Indistinguishable
  <1> QED BY <1>1, <1>2, <1>3, PTL DEF Spec
=============================================================================
