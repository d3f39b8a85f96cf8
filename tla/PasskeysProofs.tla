---------------------------- MODULE PasskeysProofs ----------------------------
(***************************************************************************)
(* Proofs of the two claims of AdminCode, of any system that runs the      *)
(* check by CodeMoves, and of the properties of Passkeys, which does.      *)
(*                                                                         *)
(* A code passes once: while the guard remembers it, it is fresh only when *)
(* it is no longer valid, since the guard remembers for longer than a code *)
(* is valid.  Wrong codes are bounded: the codes compared, those about to  *)
(* be and those still allowed are charged to the lockout windows begun,    *)
(* and each window that no pass cut short starts a Window after the one    *)
(* before.                                                                 *)
(*                                                                         *)
(* Each session, request and challenge cookie carries what it proves of    *)
(* the history: a session no passkey started, the emailed code and the     *)
(* authenticator code behind it; a confirmed challenge, the code that      *)
(* confirmed it; a challenge answered once, its entry in the table for as  *)
(* long as a request may still bring it.                                   *)
(***************************************************************************)
EXTENDS Passkeys, FiniteSetTheorems, SequenceTheorems, TLAPS


\* The steps of the check, among those of a system that has it.
CodeMoves ==
    \/ UNCHANGED <<now, restarts, codeVars>>
    \/ \E q \in Request, c \in Code : BeginCheck(q, c) /\ UNCHANGED <<now, restarts>>
    \/ \E q \in Request : CodeSteps(q) /\ UNCHANGED <<now, restarts>>
    \/ \E q \in Request : check[q].pc \in {"passed", "failed"} /\ EndCheck(q) /\ UNCHANGED <<now, restarts>>
    \/ now < MaxTime /\ CodesInTime /\ now' = now + 1 /\ UNCHANGED <<restarts, codeVars>>
    \/ restarts < MaxRestarts /\ restarts' = restarts + 1 /\ ForgetCodes /\ UNCHANGED now

\* A request that began is at most MaxLate old.
TimeInv ==
    \A q \in Request : check[q].pc # "idle" => check[q].at \in Time /\ check[q].at <= now /\ now <= check[q].at + MaxLate

\* A code the guard does not remember may pass, or is past its steps.
ReplayInv ==
    \A k \in Step :
        /\ seen[k] # 0 => k <= seen[k] + Skew
        /\ seen[k] = 0 => accepted[k] <= restarts \/ now > k + Skew

\* Codes about to be compared, and attempts the window still allows.
Comparing(checks) == {q \in Request : checks[q].pc = "match"}
Pending(checks) == Cardinality(Comparing(checks))
Left(f) == IF f.count >= MaxAttempts THEN 0 ELSE MaxAttempts - f.count

\* Windows that can have begun after n passes, when the last starts at a time.
Windows(n, at) == n + ((at - 1 + n * MaxLate) \div Window)

LockoutInv ==
    /\ failures.count > 0 =>
          /\ failures.start \in Time /\ failures.start <= now
          /\ wrong + Pending(check) + Left(failures) <= MaxAttempts * (1 + Windows(passes, failures.start))
    /\ failures.count = 0 =>
          \A at \in Time : at + MaxLate >= now => wrong + Pending(check) <= MaxAttempts * Windows(passes, at)

\* The inductive invariant.
CodeInv == CodeTypeOK /\ TimeInv /\ ReplayInv /\ CodesPassOnce /\ LockoutInv

-----------------------------------------------------------------------------

\* Whole windows of a longer time.
LEMMA DivMonotone ==
    ASSUME NEW w \in Nat \ {0}, NEW x \in Nat, NEW y \in Nat, x <= y
    PROVE  x \div w \in Nat /\ x \div w <= y \div w
  OBVIOUS

\* A window more.
LEMMA DivNext ==
    ASSUME NEW w \in Nat \ {0}, NEW x \in Nat
    PROVE  (x + w) \div w = x \div w + 1
  OBVIOUS

\* The limit over more windows.
LEMMA TimesMonotone ==
    ASSUME NEW m \in Nat, NEW x \in Nat, NEW y \in Nat, x <= y
    PROVE  m * x \in Nat /\ m * x <= m * y
  OBVIOUS

\* The limit over one window more.
LEMMA TimesNext ==
    ASSUME NEW m \in Nat, NEW x \in Nat
    PROVE  m * (1 + x) = m + m * x /\ (x + 1) * m = x * m + m /\ x * m \in Nat
  OBVIOUS

\* The codes about to be compared are finitely many.
LEMMA PendingIsNat == ASSUME AdminCodeAssumption PROVE IsFiniteSet(Comparing(check)) /\ Pending(check) \in Nat
  <1>1. Comparing(check) \subseteq Request
    BY DEF Comparing
  <1>2. IsFiniteSet(Comparing(check))
    BY <1>1, FS_Subset DEF AdminCodeAssumption
  <1> QED BY <1>2, FS_CardinalityType DEF Pending

\* One check moving changes what is pending by at most itself.
LEMMA PendingMoves ==
    ASSUME AdminCodeAssumption, NEW q \in Request,
           \A r \in Request : r # q => check'[r].pc = check[r].pc
    PROVE  /\ Pending(check') \in Nat /\ Pending(check) \in Nat
           /\ Pending(check') <= Pending(check) + 1
           /\ check'[q].pc # "match" => Pending(check') <= Pending(check)
           /\ check'[q].pc # "match" /\ check[q].pc = "match" => Pending(check') + 1 = Pending(check)
  <1>1. IsFiniteSet(Comparing(check)) /\ Pending(check) \in Nat
    BY PendingIsNat
  <1>2. Comparing(check') = IF check'[q].pc = "match" THEN Comparing(check) \cup {q} ELSE Comparing(check) \ {q}
    BY DEF Comparing
  <1>3. /\ Cardinality(Comparing(check) \cup {q}) = IF q \in Comparing(check) THEN Cardinality(Comparing(check))
                                            ELSE Cardinality(Comparing(check)) + 1
        /\ Cardinality(Comparing(check) \ {q}) = IF q \in Comparing(check) THEN Cardinality(Comparing(check)) - 1
                                          ELSE Cardinality(Comparing(check))
        /\ IsFiniteSet(Comparing(check) \cup {q}) /\ IsFiniteSet(Comparing(check) \ {q})
    BY <1>1, FS_AddElement, FS_RemoveElement
  <1>4. Pending(check') = Cardinality(Comparing(check'))
    BY DEF Pending
  <1>5. Pending(check') \in Nat
    BY <1>2, <1>3, <1>4, FS_CardinalityType
  <1>6. q \in Comparing(check) <=> check[q].pc = "match"
    BY DEF Comparing
  <1> QED BY <1>1, <1>2, <1>3, <1>4, <1>5, <1>6 DEF Pending

\* More windows can have begun by a later time.
LEMMA WindowsMonotone ==
    ASSUME AdminCodeAssumption, CodeTypeOK, NEW x \in Nat \ {0}, NEW y \in Nat \ {0}, x <= y
    PROVE  /\ Windows(passes, x) \in Nat /\ Windows(passes, x) <= Windows(passes, y)
           /\ MaxAttempts * Windows(passes, x) \in Nat
           /\ MaxAttempts * Windows(passes, x) <= MaxAttempts * Windows(passes, y)
           /\ MaxAttempts * (1 + Windows(passes, x)) = MaxAttempts + MaxAttempts * Windows(passes, x)
  <1> DEFINE late == passes * MaxLate
  <1>1. /\ MaxAttempts \in Nat /\ Window \in Nat \ {0} /\ MaxLate \in Nat /\ passes \in Nat
    BY DEF AdminCodeAssumption, CodeTypeOK
  <1>2. late \in Nat
    BY <1>1, TimesNext
  <1> HIDE DEF late
  <1>3. x - 1 + late \in Nat /\ y - 1 + late \in Nat /\ x - 1 + late <= y - 1 + late
    BY <1>2
  <1>4. /\ (x - 1 + late) \div Window \in Nat /\ (y - 1 + late) \div Window \in Nat
        /\ (x - 1 + late) \div Window <= (y - 1 + late) \div Window
    BY <1>1, <1>3, DivMonotone
  <1>5. /\ Windows(passes, x) = passes + ((x - 1 + late) \div Window)
        /\ Windows(passes, y) = passes + ((y - 1 + late) \div Window)
    BY DEF Windows, late
  <1>6. Windows(passes, x) \in Nat /\ Windows(passes, y) \in Nat /\ Windows(passes, x) <= Windows(passes, y)
    BY <1>1, <1>4, <1>5
  <1> QED BY <1>1, <1>6, TimesMonotone, TimesNext

\* The windows of a time, and the limit over them and one more.
LEMMA WindowsAreNat ==
    ASSUME AdminCodeAssumption, CodeTypeOK, NEW x \in Nat \ {0}
    PROVE  /\ Windows(passes, x) \in Nat /\ MaxAttempts * Windows(passes, x) \in Nat
           /\ MaxAttempts * (1 + Windows(passes, x)) \in Nat
           /\ MaxAttempts * (1 + Windows(passes, x)) = MaxAttempts + MaxAttempts * Windows(passes, x)
  <1>1. x <= x
    OBVIOUS
  <1>2. MaxAttempts \in Nat
    BY DEF AdminCodeAssumption
  <1> QED BY <1>1, <1>2, WindowsMonotone

\* A window that starts a Window later than another.
LEMMA WindowsNext ==
    ASSUME AdminCodeAssumption, CodeTypeOK, NEW x \in Nat \ {0}, NEW y \in Nat \ {0}, x + Window <= y
    PROVE  1 + Windows(passes, x) <= Windows(passes, y)
  <1> DEFINE late == passes * MaxLate
  <1>1. /\ MaxAttempts \in Nat /\ Window \in Nat \ {0} /\ MaxLate \in Nat /\ passes \in Nat
    BY DEF AdminCodeAssumption, CodeTypeOK
  <1>2. late \in Nat
    BY <1>1, TimesNext
  <1> HIDE DEF late
  <1>3. x - 1 + late \in Nat /\ y - 1 + late \in Nat /\ (x - 1 + late) + Window <= y - 1 + late
    BY <1>1, <1>2
  <1>4. ((x - 1 + late) + Window) \div Window = ((x - 1 + late) \div Window) + 1
    BY <1>1, <1>3, DivNext
  <1>5. /\ (x - 1 + late) \div Window \in Nat /\ (y - 1 + late) \div Window \in Nat
        /\ ((x - 1 + late) + Window) \div Window <= (y - 1 + late) \div Window
    <2>1. (x - 1 + late) + Window \in Nat
      BY <1>1, <1>3
    <2> QED BY <1>1, <1>3, <2>1, DivMonotone
  <1>6. /\ Windows(passes, x) = passes + ((x - 1 + late) \div Window)
        /\ Windows(passes, y) = passes + ((y - 1 + late) \div Window)
    BY DEF Windows, late
  <1> QED BY <1>1, <1>4, <1>5, <1>6

\* A pass makes room for a window that starts MaxLate earlier.
LEMMA WindowsPass ==
    ASSUME AdminCodeAssumption, CodeTypeOK, NEW x \in Nat \ {0}, NEW y \in Nat \ {0}, x <= y + MaxLate,
           passes' = passes + 1
    PROVE  /\ 1 + Windows(passes, x) <= Windows(passes', y)
           /\ Windows(passes', y) \in Nat /\ MaxAttempts * (1 + Windows(passes, x)) <= MaxAttempts * Windows(passes', y)
  <1> DEFINE late == passes * MaxLate
  <1>1. /\ MaxAttempts \in Nat /\ Window \in Nat \ {0} /\ MaxLate \in Nat /\ passes \in Nat
    BY DEF AdminCodeAssumption, CodeTypeOK
  <1>2. late \in Nat /\ passes' * MaxLate = late + MaxLate
    BY <1>1, TimesNext
  <1>3. Windows(passes, x) = passes + ((x - 1 + late) \div Window)
    BY DEF Windows
  <1>4. Windows(passes', y) = passes' + ((y - 1 + passes' * MaxLate) \div Window)
    BY DEF Windows
  <1> HIDE DEF late
  <1>5. x - 1 + late \in Nat /\ y - 1 + (late + MaxLate) \in Nat /\ x - 1 + late <= y - 1 + (late + MaxLate)
    BY <1>1, <1>2
  <1>6. /\ (x - 1 + late) \div Window \in Nat /\ (y - 1 + (late + MaxLate)) \div Window \in Nat
        /\ (x - 1 + late) \div Window <= (y - 1 + (late + MaxLate)) \div Window
    BY <1>1, <1>5, DivMonotone
  <1>7. Windows(passes, x) \in Nat /\ Windows(passes', y) \in Nat /\ 1 + Windows(passes, x) <= Windows(passes', y)
    BY <1>1, <1>2, <1>3, <1>4, <1>6
  <1> QED BY <1>1, <1>7, TimesMonotone

-----------------------------------------------------------------------------

\* The invariant holds at the start.
LEMMA CodeInvInit == ASSUME AdminCodeAssumption, CodeInit PROVE CodeInv
  <1>1. CodeTypeOK
    BY DEF AdminCodeAssumption, CodeInit, CodeTypeOK, NoFailures, NoCheck, Time, Code
  <1>2. TimeInv /\ ReplayInv /\ CodesPassOnce
    BY DEF AdminCodeAssumption, CodeInit, TimeInv, ReplayInv, CodesPassOnce, NoCheck
  <1>3. Pending(check) = 0
    <2>1. Comparing(check) = {}
      BY DEF CodeInit, Comparing, NoCheck
    <2> QED BY <2>1, FS_EmptySet DEF Pending
  <1>4. LockoutInv
    <2>1. failures.count = 0 /\ wrong = 0
      BY DEF CodeInit, NoFailures
    <2>2. ASSUME NEW at \in Time PROVE MaxAttempts * Windows(passes, at) \in Nat
      BY <1>1, WindowsAreNat DEF Time
    <2> QED BY <1>3, <2>1, <2>2 DEF LockoutInv
  <1> QED BY <1>1, <1>2, <1>4 DEF CodeInv

\* The check of a request, with a part of it changed.
LEMMA CheckMoves ==
    ASSUME CodeTypeOK, NEW q \in Request,
           NEW pc \in {"idle", "reserve", "match", "clear", "passed", "failed"},
           check' = [check EXCEPT ![q].pc = pc], check[q].pc # "idle", TimeInv, UNCHANGED now
    PROVE  /\ check' \in [Request -> [pc : {"idle", "reserve", "match", "clear", "passed", "failed"},
                                      at : {0} \cup Time, code : Code]]
           /\ TimeInv'
  BY DEF CodeTypeOK, TimeInv

\* An attempt is reserved: it takes one of those left, or starts a window.
LEMMA InvReserve ==
    ASSUME AdminCodeAssumption, CodeInv, NEW q \in Request, ReserveTOTPAttempt(q), UNCHANGED <<now, restarts>>
    PROVE  CodeInv'
  <1> USE DEF CodeInv
  <1> DEFINE at == check[q].at
             over == WindowOver(failures, at)
             reserved == IF over THEN [count |-> 1, start |-> at]
                         ELSE [failures EXCEPT !.count = IF @ > MaxAttempts THEN @ ELSE @ + 1]
  <1>1. /\ check[q].pc = "reserve" /\ UNCHANGED <<seen, accepted, wrong, passes>>
        /\ \/ /\ failures' = reserved
              /\ check' = [check EXCEPT ![q].pc = IF reserved.count > MaxAttempts THEN "failed" ELSE "match"]
           \/ failures' = failures /\ check' = [check EXCEPT ![q].pc = "failed"]
    BY DEF ReserveTOTPAttempt, Goes, codeHistory
  <1>2. /\ MaxAttempts \in Nat /\ Window \in Nat /\ Window > 0 /\ MaxLate \in Nat /\ now \in Nat
        /\ failures \in [count : 0..(MaxAttempts + 1), start : {0} \cup Time]
        /\ wrong \in Nat /\ at \in Time /\ at \in Nat \ {0} /\ at <= now /\ now <= at + MaxLate
    BY <1>1 DEF AdminCodeAssumption, CodeTypeOK, TimeInv, Time
  <1>3. reserved \in [count : 0..(MaxAttempts + 1), start : {0} \cup Time]
    BY <1>2
  <1>4. CodeTypeOK' /\ TimeInv'
    <2>1. check' \in [Request -> [pc : {"idle", "reserve", "match", "clear", "passed", "failed"},
                                  at : {0} \cup Time, code : Code]] /\ TimeInv'
      BY <1>1, CheckMoves
    <2>2. failures' \in [count : 0..(MaxAttempts + 1), start : {0} \cup Time]
      BY <1>1, <1>2, <1>3
    <2> QED BY <1>1, <2>1, <2>2 DEF CodeTypeOK
  <1>5. ReplayInv' /\ CodesPassOnce'
    BY <1>1 DEF ReplayInv, CodesPassOnce
  <1>6. \A x : Windows(passes', x) = Windows(passes, x)
    BY <1>1 DEF Windows
  <1>7. LockoutInv'
    <2>1. CASE failures' = failures /\ check' = [check EXCEPT ![q].pc = "failed"]
      <3>0. check'[q].pc = "failed" /\ \A r \in Request : r # q => check'[r].pc = check[r].pc
        BY <2>1 DEF CodeTypeOK
      <3>1. Pending(check') \in Nat /\ Pending(check) \in Nat /\ Pending(check') <= Pending(check)
        BY <3>0, PendingMoves
      <3>2. Left(failures') = Left(failures) /\ Left(failures) \in Nat
        BY <1>2, <2>1 DEF Left
      <3>3. failures.count > 0 =>
              /\ failures.start \in Time /\ failures.start <= now
              /\ wrong + Pending(check') + Left(failures) <= MaxAttempts * (1 + Windows(passes, failures.start))
        <4>1. failures.count > 0 => MaxAttempts * (1 + Windows(passes, failures.start)) \in Nat
          BY <1>2, WindowsAreNat DEF LockoutInv, Time
        <4> QED BY <1>2, <3>1, <3>2, <4>1 DEF LockoutInv
      <3>4. failures.count = 0 =>
              \A x \in Time : x + MaxLate >= now => wrong + Pending(check') <= MaxAttempts * Windows(passes, x)
        <4>1. \A x \in Time : MaxAttempts * Windows(passes, x) \in Nat
          BY WindowsAreNat DEF Time
        <4> QED BY <1>2, <3>1, <4>1 DEF LockoutInv
      <3> QED BY <1>1, <1>6, <2>1, <3>2, <3>3, <3>4 DEF LockoutInv
    <2>2. CASE /\ failures' = reserved
               /\ check' = [check EXCEPT ![q].pc = IF reserved.count > MaxAttempts THEN "failed" ELSE "match"]
      <3>1. /\ Pending(check') \in Nat /\ Pending(check) \in Nat /\ Pending(check') <= Pending(check) + 1
            /\ reserved.count > MaxAttempts => Pending(check') <= Pending(check)
        <4>1. /\ \A r \in Request : r # q => check'[r].pc = check[r].pc
              /\ reserved.count > MaxAttempts => check'[q].pc = "failed"
          BY <2>2 DEF CodeTypeOK
        <4> QED BY <4>1, PendingMoves
      <3>2. CASE over
        <4>1. reserved.count = 1 /\ reserved.start = at
          BY <3>2
        <4>2. Pending(check') + Left(failures') <= Pending(check) + MaxAttempts /\ Left(failures') \in Nat
          BY <1>2, <2>2, <3>1, <4>1 DEF Left
        <4>3. wrong + Pending(check) <= MaxAttempts * Windows(passes, at)
          <5>1. CASE failures.count = 0
            BY <1>2, <5>1 DEF LockoutInv
          <5>2. CASE failures.count # 0
            <6>1. at >= failures.start + Window
              BY <3>2, <5>2 DEF WindowOver
            <6>2. /\ failures.start \in Nat \ {0} /\ Left(failures) \in Nat
                  /\ wrong + Pending(check) + Left(failures) <= MaxAttempts * (1 + Windows(passes, failures.start))
              BY <1>2, <5>2 DEF LockoutInv, Time, Left
            <6>3. 1 + Windows(passes, failures.start) <= Windows(passes, at)
              BY <1>2, <6>1, <6>2, WindowsNext
            <6>4. Windows(passes, failures.start) \in Nat /\ Windows(passes, at) \in Nat
              BY <1>2, <6>2, WindowsAreNat
            <6>5. /\ MaxAttempts * (1 + Windows(passes, failures.start)) \in Nat
                  /\ MaxAttempts * (1 + Windows(passes, failures.start)) <= MaxAttempts * Windows(passes, at)
                  /\ MaxAttempts * Windows(passes, at) \in Nat
              BY <1>2, <6>3, <6>4, TimesMonotone
            <6> QED BY <1>2, <3>1, <6>2, <6>5
          <5> QED BY <5>1, <5>2
        <4>4. MaxAttempts * (1 + Windows(passes, at)) = MaxAttempts + MaxAttempts * Windows(passes, at)
              /\ MaxAttempts * Windows(passes, at) \in Nat
          BY <1>2, WindowsAreNat
        <4>5. wrong + Pending(check') + Left(failures') <= MaxAttempts * (1 + Windows(passes, at))
          BY <1>2, <3>1, <4>2, <4>3, <4>4
        <4>6. failures'.count = 1 /\ failures'.start = at
          BY <2>2, <4>1
        <4>7. wrong' + Pending(check') + Left(failures') <= MaxAttempts * (1 + Windows(passes', failures'.start))
          BY <1>1, <1>6, <4>5, <4>6
        <4> QED BY <1>2, <4>6, <4>7 DEF LockoutInv
      <3>3. CASE ~over
        <4>1. failures.count # 0
          BY <3>3 DEF WindowOver
        <4>2. /\ reserved.start = failures.start
              /\ reserved.count = IF failures.count > MaxAttempts THEN failures.count ELSE failures.count + 1
          BY <1>2, <3>3
        <4>3. Pending(check') + Left(failures') <= Pending(check) + Left(failures) /\ Left(failures') \in Nat /\ Left(failures) \in Nat
          BY <1>2, <2>2, <3>1, <4>2 DEF Left
        <4>4. /\ failures.start \in Time /\ failures.start <= now
              /\ wrong + Pending(check) + Left(failures) <= MaxAttempts * (1 + Windows(passes, failures.start))
          BY <1>2, <4>1 DEF LockoutInv
        <4>5. MaxAttempts * (1 + Windows(passes, failures.start)) \in Nat
          BY <4>4, WindowsAreNat, <1>2 DEF Time
        <4>6. wrong + Pending(check') + Left(failures') <= MaxAttempts * (1 + Windows(passes, failures.start))
          BY <1>2, <3>1, <4>3, <4>4, <4>5
        <4>7. failures'.count # 0 /\ failures'.start = failures.start
          BY <1>2, <2>2, <4>1, <4>2
        <4> QED BY <1>1, <1>6, <4>4, <4>6, <4>7 DEF LockoutInv
      <3> QED BY <3>2, <3>3
    <2> QED BY <1>1, <2>1, <2>2
  <1> QED BY <1>4, <1>5, <1>7

\* With the attempts as they are, fewer codes compared or about to be.
LEMMA LockoutKept ==
    ASSUME AdminCodeAssumption, CodeInv, UNCHANGED <<failures, passes, now>>,
           wrong' \in Nat, Pending(check') \in Nat, wrong' + Pending(check') <= wrong + Pending(check)
    PROVE  LockoutInv'
  <1> USE DEF CodeInv
  <1>1. /\ MaxAttempts \in Nat /\ wrong \in Nat /\ now \in Nat
        /\ failures \in [count : 0..(MaxAttempts + 1), start : {0} \cup Time]
    BY DEF AdminCodeAssumption, CodeTypeOK, Time
  <1>2. Pending(check) \in Nat
    BY PendingIsNat
  <1>3. Left(failures') = Left(failures) /\ Left(failures) \in Nat
    BY <1>1 DEF Left
  <1>4. \A x : Windows(passes', x) = Windows(passes, x)
    BY DEF Windows
  <1>5. failures.count > 0 =>
          /\ failures.start \in Time /\ failures.start <= now
          /\ wrong' + Pending(check') + Left(failures) <= MaxAttempts * (1 + Windows(passes, failures.start))
    <2>1. SUFFICES ASSUME failures.count > 0
                   PROVE  /\ failures.start \in Time /\ failures.start <= now
                          /\ wrong' + Pending(check') + Left(failures) <= MaxAttempts * (1 + Windows(passes, failures.start))
      OBVIOUS
    <2>2. /\ failures.start \in Time /\ failures.start <= now
          /\ wrong + Pending(check) + Left(failures) <= MaxAttempts * (1 + Windows(passes, failures.start))
      BY <2>1 DEF LockoutInv
    <2>3. MaxAttempts * (1 + Windows(passes, failures.start)) \in Nat
      BY <2>2, WindowsAreNat DEF Time
    <2>4. wrong' + Pending(check') + Left(failures) <= MaxAttempts * (1 + Windows(passes, failures.start))
      <3> DEFINE most == MaxAttempts * (1 + Windows(passes, failures.start))
      <3>1. most \in Nat /\ wrong + Pending(check) + Left(failures) <= most
        BY <2>2, <2>3
      <3> HIDE DEF most
      <3>2. wrong' + Pending(check') + Left(failures) <= most
        BY <1>1, <1>2, <1>3, <3>1
      <3> QED BY <3>2 DEF most
    <2> QED BY <2>2, <2>4
  <1>6. failures.count = 0 => \A x \in Time : x + MaxLate >= now => wrong' + Pending(check') <= MaxAttempts * Windows(passes, x)
    <2>1. SUFFICES ASSUME failures.count = 0, NEW x \in Time, x + MaxLate >= now
                   PROVE  wrong' + Pending(check') <= MaxAttempts * Windows(passes, x)
      OBVIOUS
    <2> DEFINE most == MaxAttempts * Windows(passes, x)
    <2>2. wrong + Pending(check) <= most
      BY <2>1 DEF LockoutInv
    <2>3. most \in Nat
      BY WindowsAreNat DEF Time
    <2> HIDE DEF most
    <2>4. wrong' + Pending(check') <= most
      BY <1>1, <1>2, <2>2, <2>3
    <2> QED BY <2>4 DEF most
  <1> QED BY <1>3, <1>4, <1>5, <1>6 DEF LockoutInv

\* A check begins, or ends with its answer.
LEMMA InvBeginEnd ==
    ASSUME AdminCodeAssumption, CodeInv, NEW q \in Request, UNCHANGED <<now, restarts>>,
           \/ \E c \in Code : BeginCheck(q, c)
           \/ check[q].pc \in {"passed", "failed"} /\ EndCheck(q)
    PROVE  CodeInv'
  <1> USE DEF CodeInv
  <1>1. UNCHANGED <<failures, seen, accepted, wrong, passes>>
    BY DEF BeginCheck, EndCheck, codeHistory
  <1>2. PICK c \in Code, pc \in {"idle", "reserve"}, at \in {0} \cup Time :
          /\ check' = [check EXCEPT ![q] = [pc |-> pc, at |-> at, code |-> c]]
          /\ pc = "reserve" => at = now
    <2>1. CASE \E c \in Code : BeginCheck(q, c)
      <3>1. now \in {0} \cup Time
        BY DEF CodeTypeOK
      <3> QED BY <2>1, <3>1 DEF BeginCheck
    <2>2. CASE EndCheck(q)
      BY <2>2 DEF EndCheck, NoCheck, Code
    <2> QED BY <2>1, <2>2
  <1>3. check' \in [Request -> [pc : {"idle", "reserve", "match", "clear", "passed", "failed"},
                                at : {0} \cup Time, code : Code]]
    BY <1>2 DEF CodeTypeOK
  <1>4. TimeInv'
    <2>1. now \in Time /\ now <= now /\ now <= now + MaxLate
      BY DEF CodeTypeOK, Time, AdminCodeAssumption
    <2>2. \A r \in Request : r # q => check'[r] = check[r]
      BY <1>2 DEF CodeTypeOK
    <2>3. check'[q].pc # "idle" => check'[q].at = now
      BY <1>2 DEF CodeTypeOK
    <2> QED BY <2>1, <2>2, <2>3 DEF TimeInv
  <1>5. CodeTypeOK' /\ ReplayInv' /\ CodesPassOnce'
    BY <1>1, <1>3 DEF CodeTypeOK, ReplayInv, CodesPassOnce
  <1>6. Pending(check') \in Nat /\ Pending(check) \in Nat /\ Pending(check') <= Pending(check)
    <2>1. check'[q].pc # "match" /\ \A r \in Request : r # q => check'[r].pc = check[r].pc
      BY <1>2 DEF CodeTypeOK
    <2> QED BY <2>1, PendingMoves
  <1>7. LockoutInv'
    BY <1>1, <1>6, LockoutKept DEF CodeTypeOK
  <1> QED BY <1>4, <1>5, <1>7

\* A code is compared: right and new, wrong, or replayed.
LEMMA InvMatch ==
    ASSUME AdminCodeAssumption, CodeInv, NEW q \in Request, MatchCode(q), UNCHANGED <<now, restarts>>
    PROVE  CodeInv'
  <1> USE DEF CodeInv
  <1> DEFINE given == check[q].code
  <1>1. /\ check[q].pc = "match" /\ UNCHANGED <<failures, passes>>
        /\ \/ /\ Valid(given) /\ Fresh(given)
              /\ seen' = Remembered(given)
              /\ accepted' = [accepted EXCEPT ![given] = @ + 1]
              /\ Goes(q, "clear") /\ UNCHANGED wrong
           \/ wrong' = wrong + 1 /\ Goes(q, "failed") /\ UNCHANGED <<seen, accepted>>
           \/ Goes(q, "failed") /\ UNCHANGED <<seen, accepted, wrong>>
    BY DEF MatchCode
  <1>2. PICK pc \in {"clear", "failed"} : check' = [check EXCEPT ![q].pc = pc]
    BY <1>1 DEF Goes
  <1>3. /\ check' \in [Request -> [pc : {"idle", "reserve", "match", "clear", "passed", "failed"},
                                   at : {0} \cup Time, code : Code]]
        /\ TimeInv'
    BY <1>1, <1>2, CheckMoves
  <1>4. /\ now \in Nat \ {0} /\ now \in Time /\ Skew \in Nat /\ ReplayWindow \in Nat /\ ReplayWindow >= 2 * Skew + 1
        /\ seen \in [Step -> {0} \cup Time] /\ accepted \in [Step -> Nat] /\ restarts \in Nat /\ wrong \in Nat
    BY DEF AdminCodeAssumption, CodeTypeOK, Time
  <1>5. LockoutInv' /\ wrong' \in Nat
    <2>1. check'[q].pc # "match" /\ \A r \in Request : r # q => check'[r].pc = check[r].pc
      BY <1>2 DEF CodeTypeOK
    <2>2. Pending(check') \in Nat /\ Pending(check) \in Nat /\ Pending(check') + 1 = Pending(check)
      BY <1>1, <2>1, PendingMoves
    <2>3. wrong' \in Nat /\ wrong' <= wrong + 1
      BY <1>1, <1>4
    <2>4. wrong' + Pending(check') <= wrong + Pending(check)
      BY <1>4, <2>2, <2>3
    <2> QED BY <1>1, <2>2, <2>3, <2>4, LockoutKept
  <1>6. CASE /\ Valid(given) /\ Fresh(given)
             /\ seen' = Remembered(given)
             /\ accepted' = [accepted EXCEPT ![given] = @ + 1]
    <2>1. given \in Step /\ now <= given + Skew /\ given <= now + Skew
      BY <1>6 DEF Valid, CodeTypeOK, Code
    <2>2. \A k \in Step : seen'[k] = IF k = given THEN now ELSE IF now > seen[k] + ReplayWindow THEN 0 ELSE seen[k]
      BY <1>6 DEF Remembered
    <2>3. \A k \in Step : accepted'[k] = IF k = given THEN accepted[k] + 1 ELSE accepted[k]
      BY <1>4, <1>6
    <2>4. seen' \in [Step -> {0} \cup Time] /\ accepted' \in [Step -> Nat]
      <3>1. seen' \in [Step -> {0} \cup Time]
        <4>1. \A k \in Step : (IF k = given THEN now ELSE IF now > seen[k] + ReplayWindow THEN 0 ELSE seen[k])
                              \in {0} \cup Time
          BY <1>4
        <4> QED BY <1>6, <4>1 DEF Remembered
      <3>2. accepted' \in [Step -> Nat]
        <4>1. accepted[given] + 1 \in Nat
          BY <1>4, <2>1
        <4> QED BY <1>4, <1>6, <4>1
      <3> QED BY <3>1, <3>2
    <2>5. accepted[given] <= restarts
      <3>1. CASE seen[given] = 0
        BY <1>4, <2>1, <3>1 DEF ReplayInv, Step
      <3>2. CASE seen[given] # 0
        <4>1. now > seen[given] + ReplayWindow /\ given <= seen[given] + Skew
          BY <1>6, <2>1, <3>2 DEF Fresh, ReplayInv
        <4>2. seen[given] \in Nat /\ given \in Nat
          BY <1>4, <2>1 DEF Step, Time
        <4> QED BY <1>4, <2>1, <4>1, <4>2
      <3> QED BY <3>1, <3>2
    <2>6. ReplayInv'
      <3>1. SUFFICES ASSUME NEW k \in Step
                     PROVE  /\ seen'[k] # 0 => k <= seen'[k] + Skew
                            /\ seen'[k] = 0 => accepted'[k] <= restarts \/ now > k + Skew
        BY DEF ReplayInv
      <3>2. CASE k = given
        BY <1>4, <2>1, <2>2, <3>2
      <3>3. CASE k # given /\ ~(now > seen[k] + ReplayWindow)
        BY <2>2, <2>3, <3>3 DEF ReplayInv
      <3>4. CASE k # given /\ now > seen[k] + ReplayWindow
        <4>1. seen[k] \in Nat /\ k \in Nat
          BY <1>4 DEF Step, Time
        <4>2. seen[k] # 0 => now > k + Skew
          BY <1>4, <3>4, <4>1 DEF ReplayInv
        <4> QED BY <2>2, <2>3, <3>4, <4>2 DEF ReplayInv
      <3> QED BY <3>2, <3>3, <3>4
    <2>7. CodesPassOnce'
      BY <1>4, <2>3, <2>5 DEF CodesPassOnce
    <2> QED BY <1>1, <1>3, <1>4, <1>5, <2>4, <2>6, <2>7 DEF CodeTypeOK
  <1>7. CASE UNCHANGED <<seen, accepted>>
    BY <1>1, <1>3, <1>4, <1>5, <1>7 DEF CodeTypeOK, ReplayInv, CodesPassOnce
  <1> QED BY <1>1, <1>6, <1>7

\* A check passes: the windows may start again, from as early as a late
\* request began.
LEMMA InvClear ==
    ASSUME AdminCodeAssumption, CodeInv, NEW q \in Request, ClearTOTPFailures(q), UNCHANGED <<now, restarts>>
    PROVE  CodeInv'
  <1> USE DEF CodeInv
  <1>1. /\ check[q].pc = "clear" /\ failures' \in {NoFailures, failures} /\ passes' = passes + 1
        /\ check' = [check EXCEPT ![q].pc = "passed"] /\ UNCHANGED <<seen, accepted, wrong>>
    BY DEF ClearTOTPFailures, Goes
  <1>2. /\ MaxAttempts \in Nat /\ MaxLate \in Nat /\ now \in Nat /\ wrong \in Nat /\ passes' \in Nat
        /\ failures \in [count : 0..(MaxAttempts + 1), start : {0} \cup Time]
    BY <1>1 DEF AdminCodeAssumption, CodeTypeOK, Time
  <1>3. CodeTypeOK' /\ TimeInv'
    <2>1. check' \in [Request -> [pc : {"idle", "reserve", "match", "clear", "passed", "failed"},
                                  at : {0} \cup Time, code : Code]] /\ TimeInv'
      BY <1>1, CheckMoves
    <2>2. failures' \in [count : 0..(MaxAttempts + 1), start : {0} \cup Time]
      BY <1>1, <1>2 DEF NoFailures
    <2> QED BY <1>1, <1>2, <2>1, <2>2 DEF CodeTypeOK
  <1>4. ReplayInv' /\ CodesPassOnce'
    BY <1>1 DEF ReplayInv, CodesPassOnce
  <1>5. Pending(check') \in Nat /\ Pending(check) \in Nat /\ Pending(check') <= Pending(check)
    <2>1. check'[q].pc = "passed" /\ \A r \in Request : r # q => check'[r].pc = check[r].pc
      BY <1>1 DEF CodeTypeOK
    <2> QED BY <2>1, PendingMoves
  <1>6. Left(failures) \in Nat /\ (failures' = failures => Left(failures') = Left(failures))
    BY <1>2 DEF Left
  <1>7. LockoutInv'
    <2>1. CASE failures' = failures /\ failures.count > 0
      <3>1. /\ failures.start \in Nat \ {0} /\ failures.start <= now
            /\ wrong + Pending(check) + Left(failures) <= MaxAttempts * (1 + Windows(passes, failures.start))
        BY <2>1 DEF LockoutInv, Time
      <3>2. /\ Windows(passes', failures.start) \in Nat /\ 1 + Windows(passes, failures.start) <= Windows(passes', failures.start)
        <4>1. ASSUME NEW x \in Nat \ {0} PROVE Windows(passes', x) \in Nat /\ 1 + Windows(passes, x) <= Windows(passes', x)
          <5>1. x <= x + MaxLate
            BY <1>2
          <5> QED BY <1>1, <5>1, WindowsPass
        <4> QED BY <3>1, <4>1
      <3>3. Windows(passes, failures.start) \in Nat
        BY <3>1, WindowsAreNat
      <3>4. /\ MaxAttempts * (1 + Windows(passes, failures.start)) \in Nat
            /\ MaxAttempts * (1 + Windows(passes, failures.start)) <= MaxAttempts * (1 + Windows(passes', failures.start))
            /\ MaxAttempts * (1 + Windows(passes', failures.start)) \in Nat
        <4>1. 1 + Windows(passes, failures.start) <= 1 + Windows(passes', failures.start)
          BY <3>2, <3>3
        <4>2. 1 + Windows(passes', failures.start) <= 1 + Windows(passes', failures.start)
          BY <3>2
        <4> QED BY <1>2, <3>2, <3>3, <4>1, <4>2, TimesMonotone
      <3>5. wrong' + Pending(check') + Left(failures') <= MaxAttempts * (1 + Windows(passes', failures.start))
        BY <1>1, <1>2, <1>5, <1>6, <2>1, <3>1, <3>4
      <3>6. failures'.start \in Time /\ failures'.start <= now'
        BY <2>1 DEF LockoutInv
      <3>7. wrong' + Pending(check') + Left(failures') <= MaxAttempts * (1 + Windows(passes', failures'.start))
        BY <2>1, <3>5
      <3> QED BY <2>1, <3>6, <3>7 DEF LockoutInv
    <2>2. CASE failures'.count = 0
      <3>1. SUFFICES ASSUME NEW at \in Time, at + MaxLate >= now'
                     PROVE  wrong' + Pending(check') <= MaxAttempts * Windows(passes', at)
        BY <2>2 DEF LockoutInv
      <3>2. at \in Nat \ {0}
        BY DEF Time
      <3>3. CASE failures.count > 0
        <4>1. /\ failures.start \in Nat \ {0} /\ failures.start <= now
              /\ wrong + Pending(check) + Left(failures) <= MaxAttempts * (1 + Windows(passes, failures.start))
          BY <3>3 DEF LockoutInv, Time
        <4>2. failures.start <= at + MaxLate
          BY <1>1, <1>2, <3>1, <3>2, <4>1
        <4>3. /\ Windows(passes', at) \in Nat
              /\ MaxAttempts * (1 + Windows(passes, failures.start)) <= MaxAttempts * Windows(passes', at)
          BY <1>1, <3>2, <4>1, <4>2, WindowsPass
        <4>4. MaxAttempts * (1 + Windows(passes, failures.start)) \in Nat
          BY <4>1, WindowsAreNat
        <4>5. MaxAttempts * Windows(passes', at) \in Nat
          BY <1>2, <4>3, TimesMonotone
        <4> QED BY <1>1, <1>2, <1>5, <1>6, <4>1, <4>3, <4>4, <4>5
      <3>4. CASE failures.count = 0
        <4>1. wrong + Pending(check) <= MaxAttempts * Windows(passes, at)
          BY <1>1, <3>1, <3>4 DEF LockoutInv
        <4>2. Windows(passes, at) \in Nat /\ MaxAttempts * Windows(passes, at) \in Nat
          BY <3>2, WindowsAreNat
        <4>3. Windows(passes', at) \in Nat /\ 1 + Windows(passes, at) <= Windows(passes', at)
          <5>1. at <= at + MaxLate
            BY <1>2, <3>2
          <5> QED BY <1>1, <3>2, <5>1, WindowsPass
        <4>4. MaxAttempts * Windows(passes, at) <= MaxAttempts * Windows(passes', at) /\ MaxAttempts * Windows(passes', at) \in Nat
          <5>1. Windows(passes, at) <= Windows(passes', at) /\ Windows(passes', at) <= Windows(passes', at)
            BY <4>2, <4>3
          <5> QED BY <1>2, <4>2, <4>3, <5>1, TimesMonotone
        <4> QED BY <1>1, <1>2, <1>5, <4>1, <4>2, <4>4
      <3> QED BY <1>1, <1>2, <3>3, <3>4
    <2> QED BY <1>1, <1>2, <2>1, <2>2 DEF NoFailures
  <1> QED BY <1>3, <1>4, <1>7

\* Time passes, by no more than a request may take.
LEMMA InvCodeTick ==
    ASSUME AdminCodeAssumption, CodeInv, now < MaxTime, CodesInTime, now' = now + 1, UNCHANGED <<restarts, codeVars>>
    PROVE  CodeInv'
  <1> USE DEF CodeInv
  <1>1. /\ now \in Time /\ now \in Nat /\ now' \in Time /\ now' = now + 1 /\ MaxLate \in Nat /\ MaxTime \in Nat
        /\ UNCHANGED <<failures, seen, check, accepted, wrong, passes, restarts>>
    BY DEF AdminCodeAssumption, CodeTypeOK, Time, codeVars, codeHistory
  <1>2. CodeTypeOK' /\ CodesPassOnce'
    BY <1>1 DEF CodeTypeOK, CodesPassOnce
  <1>3. TimeInv'
    BY <1>1 DEF TimeInv, CodesInTime, Time
  <1>4. ReplayInv'
    <2>1. \A k \in Step : k \in Nat /\ Skew \in Nat
      BY DEF Step, AdminCodeAssumption
    <2> QED BY <1>1, <2>1 DEF ReplayInv
  <1>5. LockoutInv'
    <2>1. Pending(check') = Pending(check) /\ Left(failures') = Left(failures)
      BY <1>1 DEF Pending, Comparing, Left
    <2>2. \A x : Windows(passes', x) = Windows(passes, x)
      BY <1>1 DEF Windows
    <2>3. \A at \in Time : at + MaxLate >= now' => at + MaxLate >= now
      BY <1>1 DEF Time
    <2>4. failures.start \in Time /\ failures.start <= now => failures.start <= now'
      BY <1>1 DEF Time
    <2> QED BY <1>1, <2>1, <2>2, <2>3, <2>4 DEF LockoutInv
  <1> QED BY <1>2, <1>3, <1>4, <1>5

\* A restart forgets the codes and the checks under way.
LEMMA InvForget ==
    ASSUME AdminCodeAssumption, CodeInv, restarts < MaxRestarts, restarts' = restarts + 1, ForgetCodes, UNCHANGED now
    PROVE  CodeInv'
  <1> USE DEF CodeInv
  <1>1. /\ seen' = [k \in Step |-> 0] /\ check' = [q \in Request |-> NoCheck]
        /\ UNCHANGED <<failures, accepted, wrong, passes>>
    BY DEF ForgetCodes, codeHistory
  <1>2. restarts \in Nat /\ restarts' \in 0..MaxRestarts /\ accepted \in [Step -> Nat]
    BY DEF AdminCodeAssumption, CodeTypeOK
  <1>3. CodeTypeOK' /\ TimeInv'
    BY <1>1, <1>2 DEF CodeTypeOK, TimeInv, NoCheck, Code
  <1>4. ReplayInv' /\ CodesPassOnce'
    BY <1>1, <1>2 DEF ReplayInv, CodesPassOnce
  <1>5. LockoutInv'
    <2>1. Comparing(check') = {}
      BY <1>1 DEF Comparing, NoCheck
    <2>2. Pending(check') = 0
      BY <2>1, FS_EmptySet DEF Pending
    <2>3. Pending(check) \in Nat
      BY PendingIsNat
    <2>4. wrong' \in Nat /\ wrong' + Pending(check') <= wrong + Pending(check)
      BY <1>1, <2>2, <2>3 DEF CodeTypeOK
    <2> QED BY <1>1, <2>2, <2>4, LockoutKept
  <1> QED BY <1>3, <1>4, <1>5

\* The invariant is kept by every step of a system that runs the check.
LEMMA CodeInvMoves == ASSUME AdminCodeAssumption, CodeInv, CodeMoves PROVE CodeInv'
  <1>1. CASE UNCHANGED <<now, restarts, codeVars>>
    <2>1. UNCHANGED <<now, restarts, failures, seen, check, accepted, wrong, passes>>
      BY <1>1 DEF codeVars, codeHistory
    <2>2. Pending(check') = Pending(check) /\ Pending(check) \in Nat
      BY <2>1, PendingIsNat DEF Pending, Comparing
    <2>3. LockoutInv'
      BY <2>1, <2>2, LockoutKept DEF CodeInv, CodeTypeOK
    <2> QED BY <2>1, <2>3 DEF CodeInv, CodeTypeOK, TimeInv, ReplayInv, CodesPassOnce
  <1>2. CASE \E q \in Request, c \in Code : BeginCheck(q, c) /\ UNCHANGED <<now, restarts>>
    BY <1>2, InvBeginEnd
  <1>3. CASE \E q \in Request : CodeSteps(q) /\ UNCHANGED <<now, restarts>>
    BY <1>3, InvReserve, InvMatch, InvClear DEF CodeSteps
  <1>4. CASE \E q \in Request : check[q].pc \in {"passed", "failed"} /\ EndCheck(q) /\ UNCHANGED <<now, restarts>>
    BY <1>4, InvBeginEnd
  <1>5. CASE now < MaxTime /\ CodesInTime /\ now' = now + 1 /\ UNCHANGED <<restarts, codeVars>>
    BY <1>5, InvCodeTick
  <1>6. CASE restarts < MaxRestarts /\ restarts' = restarts + 1 /\ ForgetCodes /\ UNCHANGED now
    BY <1>6, InvForget
  <1> QED BY <1>1, <1>2, <1>3, <1>4, <1>5, <1>6 DEF CodeMoves

\* What the invariant says of wrong codes.
LEMMA InvBounds == ASSUME AdminCodeAssumption, CodeInv PROVE WrongCodesBounded
  <1> USE DEF CodeInv
  <1>1. /\ MaxAttempts \in Nat /\ MaxLate \in Nat /\ now \in Nat \ {0} /\ now \in Time /\ wrong \in Nat
        /\ failures.count \in Nat
    BY DEF AdminCodeAssumption, CodeTypeOK, Time
  <1>2. Pending(check) \in Nat /\ Left(failures) \in Nat
    BY <1>1, PendingIsNat DEF Left
  <1>3. /\ Windows(passes, now) \in Nat /\ MaxAttempts * Windows(passes, now) \in Nat
        /\ MaxAttempts * (1 + Windows(passes, now)) = MaxAttempts + MaxAttempts * Windows(passes, now)
    BY <1>1, WindowsAreNat
  <1>4. CASE failures.count > 0
    <2>1. /\ failures.start \in Nat \ {0} /\ failures.start <= now
          /\ wrong + Pending(check) + Left(failures) <= MaxAttempts * (1 + Windows(passes, failures.start))
      BY <1>4 DEF LockoutInv, Time
    <2>2. /\ MaxAttempts * Windows(passes, failures.start) <= MaxAttempts * Windows(passes, now)
          /\ MaxAttempts * Windows(passes, failures.start) \in Nat
          /\ MaxAttempts * (1 + Windows(passes, failures.start)) = MaxAttempts + MaxAttempts * Windows(passes, failures.start)
      BY <1>1, <2>1, WindowsMonotone
    <2>3. wrong <= MaxAttempts * (1 + Windows(passes, now))
      BY <1>1, <1>2, <1>3, <2>1, <2>2
    <2> QED BY <1>1, <2>3 DEF WrongCodesBounded, Windows, CodeTypeOK
  <1>5. CASE failures.count = 0
    <2>1. wrong + Pending(check) <= MaxAttempts * Windows(passes, now)
      BY <1>1, <1>5 DEF LockoutInv
    <2>2. wrong <= MaxAttempts * (1 + Windows(passes, now))
      BY <1>1, <1>2, <1>3, <2>1
    <2> QED BY <1>1, <2>2 DEF WrongCodesBounded, Windows, CodeTypeOK
  <1> QED BY <1>1, <1>4, <1>5

-----------------------------------------------------------------------------
(* Passkeys *)

\* A session, with the times of emailed codes, that of the authenticator code,
\* and the clock.
SessionOK(s, e, k, n) ==
    /\ s.auth <= n /\ s.step <= n
    /\ s.pk = 0 /\ s.who # None => s.auth <= e[s.who]
    /\ s.pk = 0 /\ s.step # 0 => s.who = Holder /\ s.step <= k

\* A request, with the cookies minted and the clock.
HandOK(h, m, n) ==
    /\ h.pc # "idle" => h.at \in Time /\ h.at <= n /\ n <= h.at + MaxLate
    /\ h.pc \in {"totp", "confirm"} => h.session.who = Holder
    /\ h.pc \in {"guard", "add", "find"} => h.ch \in DOMAIN m
    /\ h.pc \in {"guard", "add"} => h.at <= m[h.ch].until
    /\ h.pc \in {"guard", "add"} /\ m[h.ch].register => h.session.who # None /\ m[h.ch].who = h.session.who
    /\ h.pc = "add" => m[h.ch].register
    /\ h.pc = "enter" => h.k # 0

\* A challenge cookie, with its entry, the time of the authenticator code and
\* the clock.
CookieOK(m, u, k, n) ==
    /\ m.until <= n + TTL
    /\ m.confirmed => m.who = Holder /\ k # 0 /\ m.until <= k + TTL
    /\ m.took > 0 /\ ~m.quick => m.until + MaxLate <= u \/ m.until + MaxLate < n
    /\ m.took > 1 => m.quick

SessionsInv ==
    /\ SessionOK(session, email, code, now)
    /\ \A q \in Request : SessionOK(hand[q].session, email, code, now)

HandsInv == \A q \in Request : HandOK(hand[q], minted, now)

CookiesInv == \A c \in DOMAIN minted : CookieOK(minted[c], used[c], code, now)

\* The inductive invariant.
PasskeysInv ==
    TypeOK /\ CodeInv /\ SessionsInv /\ HandsInv /\ CookiesInv /\ PasskeysAreProven /\ AdminGradeIsEarned

\* The cookies minted may be answered, and others minted.
Extends(m2, m) ==
    \A c \in DOMAIN m : /\ c \in DOMAIN m2
                        /\ m2[c].until = m[c].until /\ m2[c].who = m[c].who
                        /\ m2[c].register = m[c].register /\ m2[c].confirmed = m[c].confirmed

-----------------------------------------------------------------------------

\* A session proves as much of a later history.
LEMMA SessionKept ==
    ASSUME PasskeysAssumption, NEW s \in Session, NEW n \in Nat, NEW n2 \in Nat, n <= n2,
           NEW e \in [Person -> Nat], NEW e2 \in [Person -> Nat],
           NEW k \in Nat, NEW k2 \in Nat, k2 \in {k, n2},
           \A w \in Person : e2[w] \in {e[w], n2},
           SessionOK(s, e, k, n)
    PROVE  SessionOK(s, e2, k2, n2)
  <1>1. s.auth \in Nat /\ s.step \in Nat /\ (s.who # None => s.who \in Person)
    BY DEF Session, NoSession, Time
  <1> QED BY <1>1 DEF SessionOK

\* A request is as good when more cookies are minted.
LEMMA HandKept ==
    ASSUME NEW h, NEW m, NEW m2, Extends(m2, m), NEW n, HandOK(h, m, n)
    PROVE  HandOK(h, m2, n)
  BY DEF Extends, HandOK

\* A cookie is as good at a later time, as long as its entry stays, and when a
\* code passes.
LEMMA CookieKept ==
    ASSUME AdminCodeAssumption, PasskeysAssumption, NEW m \in Cookie, NEW u \in Nat, NEW k \in Nat, NEW k2 \in Nat,
           NEW n \in Nat \ {0}, NEW n2 \in Nat, n <= n2, k2 \in {k, n2}, CookieOK(m, u, k, n)
    PROVE  CookieOK(m, u, k2, n2)
  <1>1. m.until \in Nat /\ TTL \in Nat /\ MaxLate \in Nat
    BY DEF Cookie, Time, Latest, AdminCodeAssumption, PasskeysAssumption
  <1> QED BY <1>1 DEF CookieOK

\* The cookies are a sequence.
LEMMA CookiesAre ==
    ASSUME PasskeysAssumption, TypeOK
    PROVE  /\ Len(minted) \in Nat /\ DOMAIN minted = 1..Len(minted) /\ DOMAIN minted \subseteq Challenge
           /\ \A c \in DOMAIN minted : minted[c] \in Cookie /\ used[c] \in Nat
  <1>1. minted \in Seq(Cookie) /\ Len(minted) <= MaxChallenges /\ MaxChallenges \in Nat
    BY DEF TypeOK, PasskeysAssumption
  <1>2. Len(minted) \in Nat /\ DOMAIN minted = 1..Len(minted) /\ \A c \in DOMAIN minted : minted[c] \in Cookie
    BY <1>1
  <1>3. DOMAIN minted \subseteq Challenge
    BY <1>1, <1>2 DEF Challenge
  <1>4. \A c \in Challenge : used[c] \in Nat
    BY DEF TypeOK
  <1> QED BY <1>2, <1>3, <1>4

\* A sequence with one element more.
LEMMA AppendAre ==
    ASSUME NEW S, NEW s \in Seq(S), NEW x \in S, NEW t, t = Append(s, x)
    PROVE  /\ t \in Seq(S) /\ Len(s) \in Nat /\ Len(t) = Len(s) + 1
           /\ \A c \in DOMAIN s : c \in DOMAIN t /\ t[c] = s[c] /\ s[c] \in S
           /\ \A c \in DOMAIN t : c \in DOMAIN s \/ t[c] = x
  <1>1. /\ t \in Seq(S) /\ Len(t) = Len(s) + 1
        /\ \A c \in 1..Len(s) : t[c] = s[c]
        /\ t[Len(s) + 1] = x
    BY AppendProperties
  <1>2. Len(s) \in Nat /\ DOMAIN s = 1..Len(s) /\ DOMAIN t = 1..Len(t)
    BY <1>1, LenProperties
  <1>3. \A c \in 1..Len(s) : s[c] \in S
    BY <1>2
  <1>4. \A c \in 1..(Len(s) + 1) : c \in 1..Len(s) \/ c = Len(s) + 1
    BY <1>2
  <1>5. \A c \in 1..Len(s) : c \in 1..(Len(s) + 1)
    BY <1>2
  <1> QED BY <1>1, <1>2, <1>3, <1>4, <1>5

\* The numbers.
LEMMA TypesAre ==
    ASSUME AdminCodeAssumption, PasskeysAssumption, TypeOK
    PROVE  /\ now \in Time /\ now \in Nat \ {0} /\ now <= MaxTime /\ MaxTime \in Nat
           /\ code \in {0} \cup Time /\ code \in Nat
           /\ {TTL, MaxLate, Freshness, StepMaxAge, SweepEvery, MaxChallenges} \subseteq Nat
  <1>1. now \in Time /\ code \in {0} \cup Time
    BY DEF TypeOK, CodeTypeOK
  <1>2. {MaxTime, MaxLate, TTL, Freshness, StepMaxAge, SweepEvery, MaxChallenges} \subseteq Nat
    BY DEF AdminCodeAssumption, PasskeysAssumption
  <1> QED BY <1>1, <1>2 DEF Time

\* The cookies with one more.
LEMMA MintedMore ==
    ASSUME NEW x \in Cookie, minted \in Seq(Cookie), minted' = Append(minted, x)
    PROVE  /\ minted' \in Seq(Cookie) /\ Len(minted') = Len(minted) + 1 /\ Len(minted) \in Nat
           /\ \A c \in DOMAIN minted : c \in DOMAIN minted' /\ minted'[c] = minted[c] /\ minted[c] \in Cookie
           /\ \A c \in DOMAIN minted' : c \in DOMAIN minted \/ minted'[c] = x
  BY AppendAre

\* A challenge that is minted is as good as what is said of it.
LEMMA MintKeeps ==
    ASSUME AdminCodeAssumption, PasskeysAssumption, TypeOK, CookiesInv,
           NEW register \in BOOLEAN, NEW who \in Person \cup {None}, NEW confirmed \in BOOLEAN,
           Mint(register, who, confirmed), UNCHANGED <<now, used>>,
           code' \in {code, now}, confirmed => who = Holder, confirmed => code' = now
    PROVE  minted' \in Seq(Cookie) /\ Len(minted') <= MaxChallenges /\ Extends(minted', minted) /\ CookiesInv'
  <1> DEFINE new == [register |-> register, who |-> who, confirmed |-> confirmed, until |-> now + TTL,
                     took |-> 0, quick |-> FALSE]
  <1>1. /\ now \in Nat \ {0} /\ now <= MaxTime /\ MaxTime \in Nat /\ TTL \in Nat /\ code \in Nat
        /\ MaxChallenges \in Nat /\ code' \in Nat
    BY TypesAre
  <1>2. Len(minted) < MaxChallenges /\ minted' = Append(minted, new) /\ minted \in Seq(Cookie)
    BY DEF Mint, SetPasskeyChallenge, TypeOK
  <1>3. new \in Cookie
    <2>1. now + TTL \in Time \cup 1..Latest
      BY <1>1 DEF Latest
    <2> QED BY <2>1 DEF Cookie
  <1>5. ASSUME NEW u PROVE CookieOK(new, u, code', now)
    <2>1. now <= now /\ now + TTL <= now + TTL
      BY <1>1
    <2> QED BY <1>1, <2>1 DEF CookieOK
  <1> HIDE DEF new
  <1>6. /\ minted' \in Seq(Cookie) /\ Len(minted') = Len(minted) + 1 /\ Len(minted) \in Nat
        /\ \A c \in DOMAIN minted : c \in DOMAIN minted' /\ minted'[c] = minted[c] /\ minted[c] \in Cookie
        /\ \A c \in DOMAIN minted' : c \in DOMAIN minted \/ minted'[c] = new
    <2>1. \E x : x \in Cookie /\ minted' = Append(minted, x) /\ x = new
      BY <1>2, <1>3
    <2> QED BY <1>2, <2>1, MintedMore
  <1>7. Extends(minted', minted)
    BY <1>6 DEF Extends
  <1>8. ASSUME NEW c \in DOMAIN minted PROVE CookieOK(minted[c], used[c], code', now)
    <2>1. minted[c] \in Cookie /\ used[c] \in Nat /\ CookieOK(minted[c], used[c], code, now)
      BY CookiesAre DEF CookiesInv
    <2>2. now <= now /\ now \in Nat
      BY <1>1
    <2> QED BY <1>1, <2>1, <2>2, CookieKept
  <1>9. CookiesInv'
    BY <1>5, <1>6, <1>8 DEF CookiesInv
  <1>10. Len(minted') <= MaxChallenges
    BY <1>1, <1>2, <1>6
  <1> QED BY <1>6, <1>7, <1>9, <1>10

\* The cookies as they are, when a code may pass.
LEMMA CookiesStay ==
    ASSUME AdminCodeAssumption, PasskeysAssumption, TypeOK, CookiesInv, UNCHANGED <<minted, used>>,
           now' \in Nat, now <= now', code' \in {code, now'}
    PROVE  minted' \in Seq(Cookie) /\ Len(minted') <= MaxChallenges /\ Extends(minted', minted) /\ CookiesInv'
  <1>1. now \in Nat \ {0} /\ code \in Nat /\ code' \in Nat
    BY TypesAre
  <1>2. minted \in Seq(Cookie) /\ Len(minted) <= MaxChallenges /\ Extends(minted, minted)
    BY DEF TypeOK, Extends
  <1>3. ASSUME NEW c \in DOMAIN minted PROVE CookieOK(minted[c], used[c], code', now')
    <2>1. minted[c] \in Cookie /\ used[c] \in Nat /\ CookieOK(minted[c], used[c], code, now)
      BY CookiesAre DEF CookiesInv
    <2> QED BY <1>1, <2>1, CookieKept
  <1> QED BY <1>2, <1>3 DEF CookiesInv

-----------------------------------------------------------------------------

\* The sessions of browser and requests, after a step that adds to the history.
LEMMA SessionsKept ==
    ASSUME PasskeysAssumption, TypeOK, SessionsInv,
           now' \in Nat, now <= now', email' \in [Person -> Nat], code' \in {code, now'},
           \A w \in Person : email'[w] \in {email[w], now'},
           session' = session \/ SessionOK(session', email', code', now'),
           \A q \in Request : hand'[q].session \in {hand[q].session, session, NoSession}
    PROVE  SessionsInv'
  <1>1. /\ now \in Nat /\ code \in Nat /\ code' \in Nat /\ email \in [Person -> Nat]
        /\ session \in Session /\ \A q \in Request : hand[q].session \in Session
    <2>1. now \in Time /\ code \in {0} \cup Time /\ email \in [Person -> {0} \cup Time]
      BY DEF TypeOK, CodeTypeOK
    <2>2. session \in Session /\ \A q \in Request : hand[q].session \in Session
      BY DEF TypeOK, Hand
    <2> QED BY <2>1, <2>2 DEF Time
  <1>2. ASSUME NEW s \in Session, SessionOK(s, email, code, now) PROVE SessionOK(s, email', code', now')
    BY <1>1, <1>2, SessionKept
  <1>3. SessionOK(NoSession, email', code', now')
    BY DEF SessionOK, NoSession
  <1>4. SessionOK(session, email', code', now')
    BY <1>1, <1>2 DEF SessionsInv
  <1>5. ASSUME NEW q \in Request PROVE SessionOK(hand'[q].session, email', code', now')
    <2>1. SessionOK(hand[q].session, email', code', now')
      BY <1>1, <1>2 DEF SessionsInv
    <2> QED BY <1>3, <1>4, <2>1
  <1> QED BY <1>4, <1>5 DEF SessionsInv

\* A request that is over holds nothing.
LEMMA IdleIsOK == ASSUME NEW m, NEW n PROVE HandOK(Idle, m, n)
  BY DEF HandOK, Idle

\* Requests that go on, start well or are over, while cookies may be minted.
LEMMA HandsKept ==
    ASSUME HandsInv, Extends(minted', minted), UNCHANGED now,
           \A q \in Request : hand'[q] = hand[q] \/ hand'[q] = Idle \/ HandOK(hand'[q], minted', now')
    PROVE  HandsInv'
  <1>1. ASSUME NEW q \in Request PROVE HandOK(hand'[q], minted', now')
    <2>1. HandOK(hand[q], minted', now')
      BY HandKept DEF HandsInv
    <2> QED BY <2>1, IdleIsOK
  <1> QED BY <1>1 DEF HandsInv

\* Every step but time passing and a challenge answered: cookies may be minted,
\* the proofs may be renewed, requests go on.
LEMMA InvMoves ==
    ASSUME PasskeysAssumption, AdminCodeAssumption, PasskeysInv, CodeInv', TypeOK', CookiesInv',
           Extends(minted', minted), PasskeysAreProven', AdminGradeIsEarned',
           UNCHANGED now, \A w \in Person : email'[w] \in {email[w], now}, code' \in {code, now},
           session' = session \/ SessionOK(session', email', code', now'),
           \A q \in Request : hand'[q].session \in {hand[q].session, session, NoSession},
           \A q \in Request : hand'[q] = hand[q] \/ hand'[q] = Idle \/ HandOK(hand'[q], minted', now')
    PROVE  PasskeysInv'
  <1>1. TypeOK /\ SessionsInv /\ HandsInv
    BY DEF PasskeysInv
  <1>2. HandsInv'
    BY <1>1, HandsKept
  <1>3. now \in Nat /\ now <= now'
    BY <1>1, TypesAre
  <1>4. email' \in [Person -> Nat]
    <2>1. email' \in [Person -> {0} \cup Time]
      BY DEF TypeOK
    <2> QED BY <2>1 DEF Time
  <1>5. SessionsInv'
    BY <1>1, <1>3, <1>4, SessionsKept
  <1> QED BY <1>2, <1>5 DEF PasskeysInv

\* What does not add a passkey adds no claim.
LEMMA ClaimsKept == ASSUME PasskeysInv, UNCHANGED added PROVE PasskeysAreProven' /\ AdminGradeIsEarned'
  BY DEF PasskeysInv, PasskeysAreProven, AdminGradeIsEarned

\* Requests as they are.
LEMMA HandsStay ==
    ASSUME UNCHANGED hand
    PROVE  /\ \A q \in Request : hand'[q].session \in {hand[q].session, session, NoSession}
           /\ \A q \in Request : hand'[q] = hand[q] \/ hand'[q] = Idle \/ HandOK(hand'[q], minted', now')
  OBVIOUS

\* A request that is over.
LEMMA HandsDone ==
    ASSUME TypeOK, NEW q \in Request, Done(q)
    PROVE  /\ hand' \in [Request -> Hand]
           /\ \A r \in Request : hand'[r].session \in {hand[r].session, session, NoSession}
           /\ \A r \in Request : hand'[r] = hand[r] \/ hand'[r] = Idle \/ HandOK(hand'[r], minted', now')
  <1>1. hand \in [Request -> Hand] /\ hand' = [hand EXCEPT ![q] = Idle]
    BY DEF TypeOK, Done
  <1>2. Idle \in Hand /\ Idle.session = NoSession
    BY DEF Idle, Hand, Session, NoRow, Row, NoSession
  <1> QED BY <1>1, <1>2

\* A request that begins.
LEMMA HandsBegin ==
    ASSUME AdminCodeAssumption, PasskeysAssumption, TypeOK, UNCHANGED <<now, minted>>,
           NEW q \in Request, NEW pc \in {"totp", "confirm", "guard"}, NEW c \in {0} \cup Challenge, Begin(q, pc, c),
           pc \in {"totp", "confirm"} => session.who = Holder,
           pc = "guard" => /\ c \in DOMAIN minted /\ now <= minted[c].until
                           /\ minted[c].register => session.who # None /\ minted[c].who = session.who
    PROVE  /\ hand' \in [Request -> Hand]
           /\ \A r \in Request : hand'[r].session \in {hand[r].session, session, NoSession}
           /\ \A r \in Request : hand'[r] = hand[r] \/ hand'[r] = Idle \/ HandOK(hand'[r], minted', now')
  <1> DEFINE h == [pc |-> pc, session |-> session, ch |-> c, at |-> now, k |-> 0, row |-> NoRow]
  <1>1. hand \in [Request -> Hand] /\ hand' = [hand EXCEPT ![q] = h] /\ session \in Session
    BY DEF TypeOK, Begin
  <1>2. now \in Time /\ now \in Nat /\ MaxLate \in Nat /\ now <= now /\ now <= now + MaxLate
    BY TypesAre
  <1>4. h \in Hand
    BY <1>1, <1>2 DEF Hand, Row
  <1>5. HandOK(h, minted', now')
    BY <1>2 DEF HandOK
  <1>6. h.session = session
    OBVIOUS
  <1> HIDE DEF h
  <1> QED BY <1>1, <1>4, <1>5, <1>6

\* A challenge may be minted, with what it says.
LEMMA MayMintKeeps ==
    ASSUME AdminCodeAssumption, PasskeysAssumption, TypeOK, CookiesInv, UNCHANGED <<now, used>>,
           code' \in {code, now}, NEW may, NEW who \in Person \cup {None}, NEW confirmed \in BOOLEAN,
           confirmed => who = Holder, confirmed => code' = now, MayMint(may, who, confirmed)
    PROVE  minted' \in Seq(Cookie) /\ Len(minted') <= MaxChallenges /\ Extends(minted', minted) /\ CookiesInv'
  <1>1. now \in Nat /\ now <= now
    BY TypesAre
  <1>2. CASE UNCHANGED minted
    BY <1>1, <1>2, CookiesStay
  <1>3. CASE Mint(TRUE, who, confirmed)
    BY <1>3, MintKeeps
  <1> QED BY <1>2, <1>3 DEF MayMint

-----------------------------------------------------------------------------

\* What the invariant is made of.
LEMMA InvParts ==
    ASSUME AdminCodeAssumption, PasskeysAssumption, PasskeysInv
    PROVE  /\ TypeOK /\ SessionsInv /\ HandsInv /\ CookiesInv
           /\ now \in Time /\ now \in Nat /\ code \in {0} \cup Time /\ session \in Session
           /\ Holder \in Person /\ None \notin Person
  <1>1. TypeOK /\ SessionsInv /\ HandsInv /\ CookiesInv
    BY DEF PasskeysInv
  <1>2. now \in Time /\ now \in Nat /\ code \in {0} \cup Time
    BY <1>1, TypesAre
  <1>3. session \in Session
    BY <1>1 DEF TypeOK
  <1> QED BY <1>1, <1>2, <1>3 DEF PasskeysAssumption

\* The types after a step of the browser.
LEMMA TypesMove ==
    ASSUME PasskeysAssumption, TypeOK, CodeInv', UNCHANGED <<settings, database, guard, added>>,
           session' \in Session, minted' \in Seq(Cookie), Len(minted') <= MaxChallenges,
           hand' \in [Request -> Hand], email' \in [Person -> {0} \cup Time], code' \in {0} \cup Time
    PROVE  TypeOK'
  <1>1. CodeTypeOK'
    BY DEF CodeInv
  <1>2. UNCHANGED <<totp, role, used, rows, made, guard, added>>
    BY DEF settings, database
  <1> QED BY <1>1, <1>2 DEF TypeOK

\* Signing in with an emailed code, and out.
LEMMA InvSign ==
    ASSUME AdminCodeAssumption, PasskeysAssumption, PasskeysInv, CodeInv',
           (\E w \in Person : SignIn(w)) \/ SignOut
    PROVE  PasskeysInv'
  <1>0. /\ TypeOK /\ SessionsInv /\ HandsInv /\ CookiesInv
        /\ now \in Time /\ now \in Nat /\ code \in {0} \cup Time /\ session \in Session
    BY InvParts
  <1>1. ASSUME NEW w \in Person, SignIn(w) PROVE PasskeysInv'
    <2>1. /\ session' = [who |-> w, auth |-> now, pk |-> 0, step |-> 0]
          /\ email' = [email EXCEPT ![w] = now]
          /\ MayMint(~(role[w] = "admin" /\ totp), w, FALSE)
          /\ UNCHANGED <<now, settings, database, used, guard, hand, code, added>>
      BY <1>1 DEF SignIn, database
    <2>2. email \in [Person -> {0} \cup Time] /\ hand \in [Request -> Hand]
      BY <1>0 DEF TypeOK
    <2>3. minted' \in Seq(Cookie) /\ Len(minted') <= MaxChallenges /\ Extends(minted', minted) /\ CookiesInv'
      BY <1>0, <2>1, MayMintKeeps
    <2>4. email' \in [Person -> {0} \cup Time] /\ \A v \in Person : email'[v] \in {email[v], now}
      BY <1>0, <2>1, <2>2
    <2>5. session' \in Session /\ SessionOK(session', email', code', now')
      <3>1. now <= now /\ 0 <= now /\ email'[w] = now
        BY <1>0, <2>1, <2>2
      <3> QED BY <1>0, <2>1, <3>1 DEF Session, SessionOK
    <2>6. TypeOK'
      BY <1>0, <2>1, <2>2, <2>3, <2>4, <2>5, TypesMove
    <2> QED BY <2>1, <2>3, <2>4, <2>5, <2>6, HandsStay, ClaimsKept, InvMoves
  <1>2. CASE SignOut
    <2>1. session' = NoSession /\ UNCHANGED <<now, settings, minted, database, used, guard, hand, email, code, added>>
      BY <1>2 DEF SignOut, database, proofs
    <2>2. session' \in Session /\ SessionOK(session', email', code', now')
      BY <1>0, <2>1 DEF Session, SessionOK, NoSession
    <2>3. now <= now' /\ now' \in Nat /\ code' \in {code, now'} /\ \A w \in Person : email'[w] \in {email[w], now}
      BY <1>0, <2>1
    <2>4. minted' \in Seq(Cookie) /\ Len(minted') <= MaxChallenges /\ Extends(minted', minted) /\ CookiesInv'
      BY <1>0, <2>1, <2>3, CookiesStay
    <2>5. hand' \in [Request -> Hand] /\ email' \in [Person -> {0} \cup Time] /\ code' \in {0} \cup Time
      BY <1>0, <2>1 DEF TypeOK
    <2>6. TypeOK'
      BY <1>0, <2>1, <2>2, <2>4, <2>5, TypesMove
    <2> QED BY <2>1, <2>2, <2>3, <2>4, <2>6, HandsStay, ClaimsKept, InvMoves
  <1> QED BY <1>1, <1>2

\* A step that leaves the session and the proofs as they are, and may mint.
LEMMA InvMint ==
    ASSUME AdminCodeAssumption, PasskeysAssumption, PasskeysInv, CodeInv',
           UNCHANGED <<now, settings, session, database, guard, email, added>>, code' \in {code, now},
           minted' \in Seq(Cookie), Len(minted') <= MaxChallenges, Extends(minted', minted), CookiesInv',
           hand' \in [Request -> Hand],
           \A q \in Request : hand'[q].session \in {hand[q].session, session, NoSession},
           \A q \in Request : hand'[q] = hand[q] \/ hand'[q] = Idle \/ HandOK(hand'[q], minted', now')
    PROVE  PasskeysInv'
  <1>1. /\ TypeOK /\ SessionsInv /\ HandsInv /\ CookiesInv
        /\ now \in Time /\ code \in {0} \cup Time /\ session \in Session
    BY InvParts
  <1>2. session' \in Session /\ email' \in [Person -> {0} \cup Time] /\ code' \in {0} \cup Time
    BY <1>1 DEF TypeOK
  <1>3. TypeOK'
    BY <1>1, <1>2, TypesMove
  <1>4. UNCHANGED now /\ session' = session /\ \A w \in Person : email'[w] \in {email[w], now}
    OBVIOUS
  <1> QED BY <1>3, <1>4, ClaimsKept, InvMoves

\* The pages that mint a challenge.
LEMMA InvPages ==
    ASSUME AdminCodeAssumption, PasskeysAssumption, PasskeysInv, CodeInv', LoginPage \/ PasskeysPage
    PROVE  PasskeysInv'
  <1>1. /\ TypeOK /\ SessionsInv /\ HandsInv /\ CookiesInv
        /\ now \in Time /\ now \in Nat /\ code \in {0} \cup Time /\ session \in Session
    BY InvParts
  <1>2. /\ UNCHANGED <<now, settings, session, database, used, guard, hand, email, code, added>>
        /\ Mint(FALSE, None, FALSE) \/ (session.who # None /\ Mint(TRUE, session.who, FALSE))
    BY DEF LoginPage, PasskeysPage, proofs, database, PasskeySession, Staff
  <1>3. session.who \in Person \cup {None} /\ None \in Person \cup {None}
    BY <1>1 DEF Session, NoSession
  <1>4. minted' \in Seq(Cookie) /\ Len(minted') <= MaxChallenges /\ Extends(minted', minted) /\ CookiesInv'
    <2>1. CASE Mint(FALSE, None, FALSE)
      BY <1>1, <1>2, <1>3, <2>1, MintKeeps
    <2>2. CASE Mint(TRUE, session.who, FALSE)
      BY <1>1, <1>2, <1>3, <2>2, MintKeeps
    <2> QED BY <1>2, <2>1, <2>2
  <1>5. hand' \in [Request -> Hand]
    BY <1>1, <1>2 DEF TypeOK
  <1>6. code' \in {code, now}
    BY <1>2
  <1> QED BY <1>2, <1>4, <1>5, <1>6, HandsStay, InvMint

\* What a request begins or ends with leaves the cookies.
LEMMA InvRequests ==
    ASSUME AdminCodeAssumption, PasskeysAssumption, PasskeysInv, CodeInv',
           UNCHANGED <<now, settings, session, minted, database, guard, email, code, added>>,
           hand' \in [Request -> Hand],
           \A q \in Request : hand'[q].session \in {hand[q].session, session, NoSession},
           \A q \in Request : hand'[q] = hand[q] \/ hand'[q] = Idle \/ HandOK(hand'[q], minted', now')
    PROVE  PasskeysInv'
  <1>1. TypeOK /\ CookiesInv /\ now \in Nat /\ UNCHANGED <<minted, used>>
    BY InvParts DEF database
  <1>2. now' \in Nat /\ now <= now' /\ code' \in {code, now'} /\ code' \in {code, now}
    BY <1>1
  <1>3. minted' \in Seq(Cookie) /\ Len(minted') <= MaxChallenges /\ Extends(minted', minted) /\ CookiesInv'
    BY <1>1, <1>2, CookiesStay
  <1> QED BY <1>2, <1>3, InvMint

\* A request that brings a code, or a challenge.
LEMMA InvBegin ==
    ASSUME AdminCodeAssumption, PasskeysAssumption, PasskeysInv, CodeInv', NEW q \in Request,
           \/ \E c \in Code : HandleTOTP(q, c) \/ HandlePasskeyConfirmCode(q, c)
           \/ \E c \in DOMAIN minted : HandlePasskeyRegister(q, c) \/ HandlePasskeyLogin(q, c)
    PROVE  PasskeysInv'
  <1>1. TypeOK /\ DOMAIN minted \subseteq Challenge
    BY InvParts, CookiesAre
  <1>2. CASE \E c \in Code : HandleTOTP(q, c) \/ HandlePasskeyConfirmCode(q, c)
    <2>1. /\ UNCHANGED <<now, settings, session, minted, database, guard, email, code, added>>
          /\ session.who = Holder
          /\ \E pc \in {"totp", "confirm"} : Begin(q, pc, 0)
      BY <1>2 DEF HandleTOTP, HandlePasskeyConfirmCode, proofs, cookies
    <2>2. PICK pc \in {"totp", "confirm"} : Begin(q, pc, 0)
      BY <2>1
    <2>3. pc \in {"totp", "confirm", "guard"} /\ pc # "guard" /\ 0 \in {0} \cup Challenge
      OBVIOUS
    <2>4. /\ hand' \in [Request -> Hand]
          /\ \A r \in Request : hand'[r].session \in {hand[r].session, session, NoSession}
          /\ \A r \in Request : hand'[r] = hand[r] \/ hand'[r] = Idle \/ HandOK(hand'[r], minted', now')
      BY <1>1, <2>1, <2>2, <2>3, HandsBegin
    <2> QED BY <2>1, <2>4, InvRequests
  <1>3. ASSUME NEW c \in DOMAIN minted, HandlePasskeyRegister(q, c) \/ HandlePasskeyLogin(q, c) PROVE PasskeysInv'
    <2>1. /\ UNCHANGED <<now, settings, session, minted, database, guard, email, code, added>>
          /\ Begin(q, "guard", c) /\ now <= minted[c].until
          /\ minted[c].register => session.who # None /\ minted[c].who = session.who
      BY <1>3 DEF HandlePasskeyRegister, HandlePasskeyLogin, OwnCookie, PasskeySession, Staff, proofs, cookies
    <2>2. c \in {0} \cup Challenge /\ "guard" \in {"totp", "confirm", "guard"}
      BY <1>1
    <2>3. /\ hand' \in [Request -> Hand]
          /\ \A r \in Request : hand'[r].session \in {hand[r].session, session, NoSession}
          /\ \A r \in Request : hand'[r] = hand[r] \/ hand'[r] = Idle \/ HandOK(hand'[r], minted', now')
      BY <1>1, <2>1, <2>2, HandsBegin
    <2> QED BY <2>1, <2>3, InvRequests
  <1> QED BY <1>2, <1>3

\* A code that passes at the door or on the page, or does not.
LEMMA InvCode ==
    ASSUME AdminCodeAssumption, PasskeysAssumption, PasskeysInv, CodeInv', NEW q \in Request,
           CheckCode(q) \/ PassTOTP(q) \/ PassConfirm(q) \/ FailCode(q)
    PROVE  PasskeysInv'
  <1>1. /\ TypeOK /\ SessionsInv /\ HandsInv /\ CookiesInv
        /\ now \in Time /\ now \in Nat /\ code \in {0} \cup Time /\ session \in Session
        /\ Holder \in Person /\ None \notin Person
    BY InvParts
  <1>2. CASE CheckCode(q)
    <2>1. UNCHANGED <<now, settings, session, minted, database, guard, hand, email, code, added>>
      BY <1>2 DEF CheckCode, proofs, cookies
    <2>2. hand' \in [Request -> Hand]
      BY <1>1, <2>1 DEF TypeOK
    <2> QED BY <2>1, <2>2, HandsStay, InvRequests
  <1>3. CASE FailCode(q)
    <2>1. UNCHANGED <<now, settings, session, minted, database, guard, email, code, added>> /\ Done(q)
      BY <1>3 DEF FailCode, proofs, cookies
    <2> QED BY <1>1, <2>1, HandsDone, InvRequests
  <1>4. ASSUME hand[q].pc \in {"totp", "confirm"}
        PROVE  /\ hand[q].session \in Session /\ SessionOK(hand[q].session, email, code, now)
               /\ hand[q].session.who = Holder
               /\ hand[q].at \in Time /\ hand[q].at <= now
    <2>1. hand[q] \in Hand /\ HandOK(hand[q], minted, now)
      BY <1>1 DEF TypeOK, HandsInv
    <2>2. hand[q].session \in Session /\ SessionOK(hand[q].session, email, code, now)
      BY <1>1, <2>1 DEF Hand, SessionsInv
    <2> QED BY <1>4, <2>1, <2>2 DEF HandOK
  <1>5. CASE PassConfirm(q)
    <2>1. /\ UNCHANGED <<now, settings, session, database, used, guard, email, added>> /\ Done(q)
          /\ hand[q].pc = "confirm" /\ MayMint(TRUE, hand[q].session.who, TRUE) /\ code' = now
      BY <1>5 DEF PassConfirm, database
    <2>2. hand[q].session.who = Holder /\ hand[q].session.who \in Person \cup {None}
      BY <1>1, <1>4, <2>1
    <2>3. code' \in {code, now}
      BY <2>1
    <2>4. minted' \in Seq(Cookie) /\ Len(minted') <= MaxChallenges /\ Extends(minted', minted) /\ CookiesInv'
      BY <1>1, <2>1, <2>2, <2>3, MayMintKeeps
    <2> QED BY <1>1, <2>1, <2>3, <2>4, HandsDone, InvMint
  <1>6. CASE PassTOTP(q)
    <2> DEFINE s == hand[q].session
    <2>1. /\ UNCHANGED <<now, settings, database, used, guard, email, added>> /\ Done(q)
          /\ hand[q].pc = "totp" /\ code' = now
          /\ session' = [s EXCEPT !.step = hand[q].at]
          /\ MayMint(~HasAdminPasskey(s.who), s.who, TRUE)
      BY <1>6 DEF PassTOTP, database
    <2>2. /\ s \in Session /\ SessionOK(s, email, code, now) /\ s.who = Holder /\ s.who \in Person \cup {None}
          /\ hand[q].at \in Time /\ hand[q].at <= now
      BY <1>1, <1>4, <2>1
    <2>3. code' \in {code, now}
      BY <2>1
    <2>4. minted' \in Seq(Cookie) /\ Len(minted') <= MaxChallenges /\ Extends(minted', minted) /\ CookiesInv'
      BY <1>1, <2>1, <2>2, <2>3, MayMintKeeps
    <2>5. s.who # None
      BY <1>1, <2>2
    <2>6. s \in [who : Person, auth : Time, pk : {0} \cup Passkey, step : {0} \cup Time]
      BY <2>2, <2>5 DEF Session, NoSession
    <2>7. session' = [who |-> s.who, auth |-> s.auth, pk |-> s.pk, step |-> hand[q].at]
      BY <2>1, <2>6
    <2>8. session' \in Session
      BY <2>2, <2>6, <2>7 DEF Session
    <2>9. SessionOK(session', email', code', now')
      BY <2>1, <2>2, <2>7 DEF SessionOK
    <2>10. /\ hand' \in [Request -> Hand]
           /\ \A r \in Request : hand'[r].session \in {hand[r].session, session, NoSession}
           /\ \A r \in Request : hand'[r] = hand[r] \/ hand'[r] = Idle \/ HandOK(hand'[r], minted', now')
      BY <1>1, <2>1, HandsDone
    <2>11. email' \in [Person -> {0} \cup Time] /\ code' \in {0} \cup Time /\ \A w \in Person : email'[w] \in {email[w], now}
      BY <1>1, <2>1 DEF TypeOK
    <2> HIDE DEF s
    <2>12. TypeOK'
      BY <1>1, <2>1, <2>4, <2>8, <2>10, <2>11, TypesMove
    <2> QED BY <2>1, <2>3, <2>4, <2>9, <2>10, <2>11, <2>12, ClaimsKept, InvMoves
  <1> QED BY <1>2, <1>3, <1>5, <1>6

\* A passkey is looked up.
LEMMA InvFind ==
    ASSUME AdminCodeAssumption, PasskeysAssumption, PasskeysInv, CodeInv', NEW q \in Request, NEW k \in Passkey,
           FindPasskey(q, k)
    PROVE  PasskeysInv'
  <1> DEFINE h == [pc |-> "enter", session |-> hand[q].session, ch |-> hand[q].ch, at |-> hand[q].at,
                   k |-> k, row |-> rows[k]]
  <1>1. TypeOK /\ HandsInv
    BY InvParts
  <1>2. /\ UNCHANGED <<now, settings, session, minted, database, guard, email, code, added>>
        /\ hand[q].pc = "find"
        /\ Done(q) \/ hand' = [hand EXCEPT ![q] = h]
    BY DEF FindPasskey, proofs, cookies
  <1>3. CASE Done(q)
    BY <1>1, <1>2, <1>3, HandsDone, InvRequests
  <1>4. CASE hand' = [hand EXCEPT ![q] = h]
    <2>1. hand \in [Request -> Hand] /\ rows[k] \in Row /\ k # 0 /\ hand[q] \in Hand
      <3>1. k # 0
        BY DEF Passkey
      <3>2. hand \in [Request -> Hand] /\ rows \in [Passkey -> Row]
        BY <1>1 DEF TypeOK
      <3> QED BY <3>1, <3>2
    <2>4. HandOK(hand[q], minted, now)
      BY <1>1 DEF HandsInv
    <2>5. h \in Hand /\ h.session = hand[q].session
      BY <2>1 DEF Hand
    <2>6. HandOK(h, minted', now')
      BY <1>2, <2>1, <2>4 DEF HandOK
    <2> HIDE DEF h
    <2>7. /\ hand' \in [Request -> Hand]
          /\ \A r \in Request : hand'[r].session \in {hand[r].session, session, NoSession}
          /\ \A r \in Request : hand'[r] = hand[r] \/ hand'[r] = Idle \/ HandOK(hand'[r], minted', now')
      BY <1>4, <2>1, <2>5, <2>6
    <2> QED BY <1>2, <2>7, InvRequests
  <1> QED BY <1>2, <1>3, <1>4

\* A passkey signs in.
LEMMA InvEnter ==
    ASSUME AdminCodeAssumption, PasskeysAssumption, PasskeysInv, CodeInv', NEW q \in Request, SignInWithPasskey(q)
    PROVE  PasskeysInv'
  <1> DEFINE row == hand[q].row
             step == IF role[row.who] = "admin" /\ totp /\ row.grade THEN hand[q].at ELSE 0
  <1>1. /\ TypeOK /\ SessionsInv /\ HandsInv /\ CookiesInv
        /\ now \in Time /\ now \in Nat /\ code \in {0} \cup Time /\ session \in Session
        /\ Holder \in Person /\ None \notin Person
    BY InvParts
  <1>2. /\ UNCHANGED <<now, settings, minted, database, used, guard, email, code, added>> /\ Done(q)
        /\ hand[q].pc = "enter"
        /\ \/ /\ row.who # None
              /\ session' = [who |-> row.who, auth |-> hand[q].at, pk |-> hand[q].k, step |-> step]
           \/ UNCHANGED session
    BY DEF SignInWithPasskey, proofs, database, Staff
  <1>3. session' \in Session /\ (session' = session \/ SessionOK(session', email', code', now'))
    <2>1. CASE UNCHANGED session
      BY <1>1, <2>1
    <2>2. CASE row.who # None /\ session' = [who |-> row.who, auth |-> hand[q].at, pk |-> hand[q].k, step |-> step]
      <3>1. hand[q] \in Hand /\ HandOK(hand[q], minted, now)
        BY <1>1 DEF TypeOK, HandsInv
      <3>2. hand[q].at \in Time /\ hand[q].at <= now /\ hand[q].k # 0
        BY <1>2, <3>1 DEF HandOK
      <3>3. row \in Row /\ hand[q].k \in {0} \cup Passkey
        BY <3>1 DEF Hand
      <3>4. row.who \in Person
        BY <2>2, <3>3 DEF Row, NoRow
      <3>5. step \in {0} \cup Time /\ step <= now
        BY <1>1, <3>2
      <3> HIDE DEF row, step
      <3>6. session' \in Session
        BY <2>2, <3>2, <3>3, <3>4, <3>5 DEF Session
      <3>7. SessionOK(session', email', code', now')
        BY <1>2, <2>2, <3>2, <3>5 DEF SessionOK
      <3> QED BY <3>6, <3>7
    <2> QED BY <1>2, <2>1, <2>2
  <1> HIDE DEF row, step
  <1>4. now' \in Nat /\ now <= now' /\ code' \in {code, now'} /\ code' \in {code, now} /\ \A w \in Person : email'[w] \in {email[w], now}
    BY <1>1, <1>2
  <1>5. minted' \in Seq(Cookie) /\ Len(minted') <= MaxChallenges /\ Extends(minted', minted) /\ CookiesInv'
    BY <1>1, <1>2, <1>4, CookiesStay
  <1>6. /\ hand' \in [Request -> Hand]
        /\ \A r \in Request : hand'[r].session \in {hand[r].session, session, NoSession}
        /\ \A r \in Request : hand'[r] = hand[r] \/ hand'[r] = Idle \/ HandOK(hand'[r], minted', now')
    BY <1>1, <1>2, HandsDone
  <1>7. email' \in [Person -> {0} \cup Time] /\ code' \in {0} \cup Time
    BY <1>1, <1>2 DEF TypeOK
  <1>8. TypeOK'
    BY <1>1, <1>2, <1>3, <1>5, <1>6, <1>7, TypesMove
  <1> QED BY <1>2, <1>3, <1>4, <1>5, <1>6, <1>8, ClaimsKept, InvMoves

\* The sessions, the proofs and the cookies stay; passkeys are added or removed,
\* or the gateway restarts with other settings.
LEMMA InvRows ==
    ASSUME AdminCodeAssumption, PasskeysAssumption, PasskeysInv, CodeInv',
           UNCHANGED <<now, session, minted, used, email, code>>,
           totp' \in BOOLEAN, role' \in [Person -> {"none", "user", "admin"}],
           guard' \in [count : Nat, nextSweep : 0..(MaxTime + SweepEvery)],
           rows' \in [Passkey -> Row], made' \in {0} \cup Passkey,
           added' \subseteq [grade : BOOLEAN, proven : BOOLEAN, earned : BOOLEAN],
           PasskeysAreProven', AdminGradeIsEarned', hand' \in [Request -> Hand],
           \A q \in Request : hand'[q] = hand[q] \/ hand'[q] = Idle
    PROVE  PasskeysInv'
  <1>1. /\ TypeOK /\ SessionsInv /\ HandsInv /\ CookiesInv
        /\ now \in Time /\ now \in Nat /\ code \in {0} \cup Time /\ session \in Session
    BY InvParts
  <1>2. now' \in Nat /\ now <= now' /\ code' \in {code, now'} /\ code' \in {code, now} /\ \A w \in Person : email'[w] \in {email[w], now}
    BY <1>1
  <1>3. minted' \in Seq(Cookie) /\ Len(minted') <= MaxChallenges /\ Extends(minted', minted) /\ CookiesInv'
    BY <1>1, <1>2, CookiesStay
  <1>4. CodeTypeOK'
    BY DEF CodeInv
  <1>5. session' \in Session /\ used' \in [Challenge -> 0..Latest] /\ email' \in [Person -> {0} \cup Time] /\ code' \in {0} \cup Time
    BY <1>1 DEF TypeOK
  <1>6. TypeOK'
    BY <1>3, <1>4, <1>5 DEF TypeOK
  <1>7. \A q \in Request : hand'[q].session \in {hand[q].session, session, NoSession}
    BY DEF Idle
  <1> QED BY <1>1, <1>2, <1>3, <1>6, <1>7, InvMoves

\* A passkey is added by who has just signed in with an emailed code, or whose
\* authenticator code had passed when the challenge was made.
LEMMA InvRegister ==
    ASSUME AdminCodeAssumption, PasskeysAssumption, PasskeysInv, CodeInv', NEW q \in Request, RegisterPasskey(q)
    PROVE  PasskeysInv'
  <1> DEFINE s == hand[q].session
             ch == minted[hand[q].ch]
             confirmed == s.who = Holder /\ Within(code, TTL + MaxLate)
             claim == [grade |-> AdminGrade(s, ch), proven |-> Within(email[s.who], Freshness) \/ confirmed,
                       earned |-> confirmed \/ (s.who = Holder /\ Within(code, StepMaxAge))]
             row == [who |-> s.who, grade |-> AdminGrade(s, ch)]
  <1>1. /\ TypeOK /\ SessionsInv /\ HandsInv /\ CookiesInv
        /\ now \in Time /\ now \in Nat /\ code \in Nat /\ session \in Session
        /\ Holder \in Person /\ None \notin Person
        /\ TTL \in Nat /\ MaxLate \in Nat /\ Freshness \in Nat /\ StepMaxAge \in Nat
    BY InvParts, TypesAre
  <1>2. /\ UNCHANGED <<now, totp, role, session, minted, used, guard, email, code>> /\ Done(q)
        /\ hand[q].pc = "add"
        /\ \/ /\ MayAddPasskeyNow(s) \/ ch.confirmed
              /\ made < MaxPasskeys /\ made' = made + 1
              /\ rows' = [rows EXCEPT ![made'] = row]
              /\ added' = added \cup {claim}
           \/ UNCHANGED <<rows, made, added>>
    BY DEF RegisterPasskey, proofs, settings, cookies
  <1>3. /\ hand' \in [Request -> Hand] /\ \A r \in Request : hand'[r] = hand[r] \/ hand'[r] = Idle
    BY <1>1, <1>2 DEF Done, TypeOK, Idle, Hand, Session, NoRow, Row, NoSession
  <1>4. /\ totp' \in BOOLEAN /\ role' \in [Person -> {"none", "user", "admin"}]
        /\ guard' \in [count : Nat, nextSweep : 0..(MaxTime + SweepEvery)]
    BY <1>1, <1>2 DEF TypeOK
  <1>5. /\ rows \in [Passkey -> Row] /\ made \in {0} \cup Passkey /\ email \in [Person -> {0} \cup Time]
        /\ added \subseteq [grade : BOOLEAN, proven : BOOLEAN, earned : BOOLEAN]
    BY <1>1 DEF TypeOK
  <1>6. CASE UNCHANGED <<rows, made, added>>
    BY <1>2, <1>3, <1>4, <1>5, <1>6, ClaimsKept, InvRows
  <1>7. CASE /\ MayAddPasskeyNow(s) \/ ch.confirmed
             /\ made < MaxPasskeys /\ made' = made + 1
             /\ rows' = [rows EXCEPT ![made'] = row]
             /\ added' = added \cup {claim}
    <2>1. hand[q] \in Hand /\ HandOK(hand[q], minted, now) /\ SessionOK(s, email, code, now)
      BY <1>1 DEF TypeOK, HandsInv, SessionsInv
    <2>2. /\ hand[q].ch \in DOMAIN minted /\ hand[q].at \in Nat /\ now <= hand[q].at + MaxLate /\ hand[q].at <= ch.until
          /\ s.who # None /\ ch.who = s.who
      BY <1>2, <2>1 DEF HandOK, Time
    <2>3. ch \in Cookie /\ CookieOK(ch, used[hand[q].ch], code, now)
      BY <1>1, <2>2, CookiesAre DEF CookiesInv
    <2>4. s \in [who : Person, auth : Time, pk : {0} \cup Passkey, step : {0} \cup Time]
      BY <2>1, <2>2 DEF Hand, Session, NoSession
    <2>5. s.auth \in Nat /\ s.step \in Nat /\ s.who \in Person /\ email[s.who] \in Nat /\ ch.until \in Nat
      <3>1. ch.until \in Nat
        BY <2>3 DEF Cookie, Time, Latest
      <3> QED BY <1>5, <2>4, <3>1 DEF Time
    <2>6. ch.confirmed => confirmed
      BY <1>1, <2>2, <2>3, <2>5 DEF CookieOK, Within
    <2>7. MayAddPasskeyNow(s) => Within(email[s.who], Freshness)
      BY <1>1, <2>1, <2>2, <2>5 DEF MayAddPasskeyNow, FreshSignIn, SessionOK, Within
    <2>8. MayAddPasskeyNow(s) /\ AdminGrade(s, ch) /\ ~ch.confirmed => s.who = Holder /\ Within(code, StepMaxAge)
      BY <1>1, <2>1, <2>5 DEF MayAddPasskeyNow, FreshSignIn, AdminGrade, StepFresh, SessionOK, Within
    <2>9. claim.proven /\ (claim.grade => claim.earned)
      BY <1>7, <2>6, <2>7, <2>8
    <2>10. AdminGrade(s, ch) \in BOOLEAN /\ claim \in [grade : BOOLEAN, proven : BOOLEAN, earned : BOOLEAN]
      BY DEF AdminGrade, Within
    <2>11. row \in Row
      BY <2>5, <2>10 DEF Row
    <2> HIDE DEF row, claim, s, ch
    <2>12. made' \in Passkey
      <3>1. MaxPasskeys \in Nat /\ made \in Nat
        BY <1>5 DEF Passkey, PasskeysAssumption
      <3>2. made' = made + 1 /\ made < MaxPasskeys
        BY <1>7
      <3> QED BY <3>1, <3>2 DEF Passkey
    <2>13. rows' \in [Passkey -> Row] /\ made' \in {0} \cup Passkey
      BY <1>5, <1>7, <2>11, <2>12
    <2>14. added' \subseteq [grade : BOOLEAN, proven : BOOLEAN, earned : BOOLEAN] /\ PasskeysAreProven' /\ AdminGradeIsEarned'
      BY <1>5, <1>7, <2>9, <2>10 DEF PasskeysInv, PasskeysAreProven, AdminGradeIsEarned
    <2> QED BY <1>2, <1>3, <1>4, <2>13, <2>14, InvRows
  <1> QED BY <1>2, <1>6, <1>7

\* Passkeys are removed, or the gateway restarts.
LEMMA InvRestart ==
    ASSUME AdminCodeAssumption, PasskeysAssumption, PasskeysInv, CodeInv',
           (\E k \in Passkey : HandlePasskeyRemove(k)) \/ (\E w \in Person : AdminRemovePasskeys(w)) \/ Restart
    PROVE  PasskeysInv'
  <1>1. TypeOK
    BY InvParts
  <1>2. /\ totp \in BOOLEAN /\ role \in [Person -> {"none", "user", "admin"}]
        /\ guard \in [count : Nat, nextSweep : 0..(MaxTime + SweepEvery)]
        /\ rows \in [Passkey -> Row] /\ made \in {0} \cup Passkey
        /\ hand \in [Request -> Hand]
        /\ added \subseteq [grade : BOOLEAN, proven : BOOLEAN, earned : BOOLEAN]
    BY <1>1 DEF TypeOK
  <1>3. UNCHANGED <<now, session, minted, used, made, email, code, added>>
    BY DEF HandlePasskeyRemove, AdminRemovePasskeys, Restart, cookies, proofs, database
  <1>4. CASE (\E k \in Passkey : HandlePasskeyRemove(k)) \/ (\E w \in Person : AdminRemovePasskeys(w))
    <2>1. UNCHANGED <<totp, role, guard, hand>>
      BY <1>4 DEF HandlePasskeyRemove, AdminRemovePasskeys, settings
    <2>2. rows' \in [Passkey -> Row]
      BY <1>2, <1>4 DEF HandlePasskeyRemove, AdminRemovePasskeys, NoRow, Row
    <2> QED BY <1>2, <1>3, <2>1, <2>2, ClaimsKept, InvRows
  <1>5. CASE Restart
    <2>1. /\ totp' \in BOOLEAN /\ role' \in [Person -> {"none", "user", "admin"}] /\ guard' = Unswept
          /\ hand' = [q \in Request |-> Idle] /\ rows' = rows
      BY <1>5 DEF Restart, database
    <2>2. guard' \in [count : Nat, nextSweep : 0..(MaxTime + SweepEvery)]
      <3>1. 0 \in 0..(MaxTime + SweepEvery)
        BY DEF AdminCodeAssumption, PasskeysAssumption
      <3> QED BY <2>1, <3>1 DEF Unswept
    <2>3. hand' \in [Request -> Hand]
      BY <2>1 DEF Idle, Hand, Session, NoRow, Row, NoSession
    <2> QED BY <1>2, <1>3, <2>1, <2>2, <2>3, ClaimsKept, InvRows
  <1> QED BY <1>4, <1>5

\* What a sweep keeps: an entry that is over may go.
LEMMA SweepKeeps ==
    ASSUME AdminCodeAssumption, PasskeysAssumption, TypeOK
    PROVE  /\ Kept \in [Challenge -> 0..Latest]
           /\ \A c \in Challenge : Kept[c] = used[c] \/ (Kept[c] = 0 /\ used[c] < now)
           /\ Swept \in [count : Nat, nextSweep : 0..(MaxTime + SweepEvery)]
  <1>1. /\ used \in [Challenge -> 0..Latest] /\ guard \in [count : Nat, nextSweep : 0..(MaxTime + SweepEvery)]
        /\ now \in Nat /\ now <= MaxTime /\ MaxTime \in Nat /\ SweepEvery \in Nat /\ TTL \in Nat /\ MaxChallenges \in Nat
    BY TypesAre DEF TypeOK
  <1>2. 0 \in 0..Latest
    BY <1>1 DEF Latest
  <1>3. Kept \in [Challenge -> 0..Latest]
    BY <1>1, <1>2 DEF Kept
  <1>4. \A c \in Challenge : Kept[c] = used[c] \/ (Kept[c] = 0 /\ used[c] < now)
    BY <1>1 DEF Kept
  <1>5. Entries(Kept) \in Nat
    <2>1. IsFiniteSet(Challenge)
      BY <1>1, FS_Interval DEF Challenge
    <2>2. IsFiniteSet({c \in Challenge : Kept[c] # 0})
      BY <2>1, FS_Subset
    <2> QED BY <2>2, FS_CardinalityType DEF Entries
  <1>6. now + SweepEvery \in 0..(MaxTime + SweepEvery)
    BY <1>1
  <1>7. Swept \in [count : Nat, nextSweep : 0..(MaxTime + SweepEvery)]
    BY <1>1, <1>5, <1>6 DEF Swept
  <1> QED BY <1>3, <1>4, <1>7

\* A cookie is as good when its entry goes in a sweep.
LEMMA CookieSwept ==
    ASSUME AdminCodeAssumption, NEW m \in Cookie, NEW u \in Nat, NEW u2 \in Nat, NEW k \in Nat, NEW n \in Nat,
           u2 = u \/ (u2 = 0 /\ u < n), CookieOK(m, u, k, n)
    PROVE  CookieOK(m, u2, k, n)
  <1>1. m.until \in Nat /\ MaxLate \in Nat
    BY DEF Cookie, Time, Latest, AdminCodeAssumption
  <1> QED BY <1>1 DEF CookieOK

\* A cookie answered, with the entry it is given.
LEMMA CookieAnswered ==
    ASSUME AdminCodeAssumption, PasskeysAssumption, TypeOK, NEW m \in Cookie, NEW u \in Nat, NEW u2 \in Nat,
           CookieOK(m, u, code, now), u2 = u \/ (u2 = 0 /\ u < now),
           u2 = 0 \/ u2 < now, now <= m.until + MaxLate
    PROVE  Answer(m) \in Cookie /\ CookieOK(Answer(m), now + TTL, code, now)
  <1> DEFINE quick == IF m.took > 0 THEN m.quick ELSE now + TTL < m.until + MaxLate
  <1>1. m.until \in Nat \ {0} /\ MaxLate \in Nat /\ TTL \in Nat /\ m.took \in Nat /\ m.quick \in BOOLEAN /\ now \in Nat \ {0}
    <2>1. Latest \in Nat /\ MaxTime \in Nat
      BY TypesAre DEF Latest
    <2> QED BY <2>1, TypesAre DEF Cookie, Time
  <1>2. m.took > 0 => m.quick
    BY <1>1 DEF CookieOK
  <1>3. quick \in BOOLEAN
    <2>1. CASE m.took > 0
      BY <1>1, <2>1
    <2>2. CASE ~(m.took > 0)
      <3>1. (now + TTL < m.until + MaxLate) \in BOOLEAN
        OBVIOUS
      <3>2. quick = (now + TTL < m.until + MaxLate)
        BY <2>2, Zenon
      <3> HIDE DEF quick
      <3> QED BY <3>1, <3>2, Zenon
    <2> QED BY <2>1, <2>2
  <1>4. m.took + 1 > 1 => quick
    <2>1. m.took + 1 > 1 => m.took > 0
      BY <1>1
    <2> QED BY <1>2, <2>1
  <1>5. ~quick => m.until + MaxLate <= now + TTL
    <2>1. ~(now + TTL < m.until + MaxLate) => m.until + MaxLate <= now + TTL
      BY <1>1
    <2> QED BY <1>2, <2>1
  <1>6. Answer(m) = [register |-> m.register, who |-> m.who, confirmed |-> m.confirmed, until |-> m.until,
                     took |-> m.took + 1, quick |-> quick]
    BY DEF Answer
  <1> HIDE DEF quick
  <1>7. Answer(m) \in Cookie
    BY <1>1, <1>3, <1>6 DEF Cookie
  <1>8. CookieOK(Answer(m), now + TTL, code, now)
    BY <1>1, <1>4, <1>5, <1>6 DEF CookieOK
  <1> QED BY <1>7, <1>8

\* The cookies with one of them answered.
LEMMA CookieReplaced ==
    ASSUME NEW m \in Seq(Cookie), NEW c \in DOMAIN m, NEW x \in Cookie
    PROVE  [m EXCEPT ![c] = x] \in Seq(Cookie) /\ Len([m EXCEPT ![c] = x]) = Len(m)
  <1>1. c \in 1..Len(m)
    BY LenProperties
  <1> QED BY <1>1, ExceptSeq

\* A challenge is answered, or refused.
LEMMA InvUse ==
    ASSUME AdminCodeAssumption, PasskeysAssumption, PasskeysInv, CodeInv', NEW q \in Request, UseChallenge(q)
    PROVE  PasskeysInv'
  <1> DEFINE c == hand[q].ch
  <1>1. /\ TypeOK /\ SessionsInv /\ HandsInv /\ CookiesInv
        /\ now \in Nat \ {0} /\ now <= MaxTime /\ MaxTime \in Nat /\ code \in Nat /\ TTL \in Nat
    BY InvParts, TypesAre
  <1>2. /\ UNCHANGED <<now, totp, role, session, rows, made, email, code, added>>
        /\ hand[q].pc = "guard"
        /\ \/ /\ Unused(Kept, c)
              /\ used' = [Kept EXCEPT ![c] = now + TTL]
              /\ guard' = [Swept EXCEPT !.count = @ + 1]
              /\ minted' = [minted EXCEPT ![c] = Answer(@)]
              /\ hand' = [hand EXCEPT ![q].pc = IF minted[c].register THEN "add" ELSE "find"]
           \/ used' = Kept /\ guard' = Swept /\ Done(q) /\ UNCHANGED minted
           \/ Done(q) /\ UNCHANGED <<used, guard, minted>>
    BY DEF UseChallenge, settings, proofs
  <1>3. hand[q] \in Hand /\ HandOK(hand[q], minted, now) /\ hand \in [Request -> Hand]
    BY <1>1 DEF TypeOK, HandsInv
  <1>4. /\ c \in DOMAIN minted /\ c \in Challenge /\ minted[c] \in Cookie /\ DOMAIN minted \subseteq Challenge
        /\ \A d \in DOMAIN minted : minted[d] \in Cookie /\ used[d] \in Nat /\ CookieOK(minted[d], used[d], code, now)
    BY <1>1, <1>2, <1>3, CookiesAre DEF HandOK, CookiesInv
  <1>5. /\ Kept \in [Challenge -> 0..Latest]
        /\ \A d \in Challenge : Kept[d] = used[d] \/ (Kept[d] = 0 /\ used[d] < now)
        /\ Swept \in [count : Nat, nextSweep : 0..(MaxTime + SweepEvery)]
    BY <1>1, SweepKeeps
  <1>6. ASSUME NEW d \in DOMAIN minted PROVE Kept[d] \in Nat /\ CookieOK(minted[d], Kept[d], code, now)
    <2>1. Kept[d] \in Nat
      BY <1>4, <1>5
    <2> QED BY <1>1, <1>4, <1>5, <2>1, CookieSwept
  <1>7. CASE UNCHANGED minted /\ Done(q) /\ ((used' = Kept /\ guard' = Swept) \/ UNCHANGED <<used, guard>>)
    <2>1. used' \in [Challenge -> 0..Latest] /\ guard' \in [count : Nat, nextSweep : 0..(MaxTime + SweepEvery)]
      BY <1>1, <1>5, <1>7 DEF TypeOK
    <2>2. CookiesInv'
      BY <1>2, <1>4, <1>6, <1>7 DEF CookiesInv
    <2>3. /\ hand' \in [Request -> Hand]
          /\ \A r \in Request : hand'[r].session \in {hand[r].session, session, NoSession}
          /\ \A r \in Request : hand'[r] = hand[r] \/ hand'[r] = Idle \/ HandOK(hand'[r], minted', now')
      BY <1>1, <1>7, HandsDone
    <2>4. CodeTypeOK' /\ Extends(minted', minted)
      BY <1>7 DEF CodeInv, Extends
    <2>5. TypeOK'
      BY <1>1, <1>2, <1>7, <2>1, <2>3, <2>4 DEF TypeOK
    <2>6. session' = session /\ code' \in {code, now} /\ \A w \in Person : email'[w] \in {email[w], now}
      BY <1>2
    <2> QED BY <1>2, <2>2, <2>3, <2>4, <2>5, <2>6, ClaimsKept, InvMoves
  <1>8. CASE /\ Unused(Kept, c)
             /\ used' = [Kept EXCEPT ![c] = now + TTL]
             /\ guard' = [Swept EXCEPT !.count = @ + 1]
             /\ minted' = [minted EXCEPT ![c] = Answer(@)]
             /\ hand' = [hand EXCEPT ![q].pc = IF minted[c].register THEN "add" ELSE "find"]
    <2>1. now <= minted[c].until + MaxLate
      <3>1. hand[q].at \in Nat /\ now <= hand[q].at + MaxLate /\ hand[q].at <= minted[c].until
        BY <1>2, <1>3 DEF HandOK, Time
      <3>2. minted[c].until \in Nat /\ MaxLate \in Nat
        BY <1>4, TypesAre, <1>1 DEF Cookie, Time, Latest
      <3> QED BY <1>1, <3>1, <3>2
    <2>2. Answer(minted[c]) \in Cookie /\ CookieOK(Answer(minted[c]), now + TTL, code, now)
      <3>1. used[c] \in Nat /\ Kept[c] \in Nat /\ CookieOK(minted[c], used[c], code, now)
        BY <1>4, <1>6
      <3>2. Kept[c] = used[c] \/ (Kept[c] = 0 /\ used[c] < now)
        BY <1>4, <1>5
      <3>3. Kept[c] = 0 \/ Kept[c] < now
        BY <1>8 DEF Unused
      <3> HIDE DEF c
      <3> QED BY <1>1, <1>4, <2>1, <3>1, <3>2, <3>3, CookieAnswered
    <2>3. /\ minted' \in Seq(Cookie) /\ Len(minted') <= MaxChallenges /\ DOMAIN minted' = DOMAIN minted
          /\ minted'[c] = Answer(minted[c]) /\ \A d \in DOMAIN minted : d # c => minted'[d] = minted[d]
      <3>1. minted \in Seq(Cookie) /\ Len(minted) <= MaxChallenges
        BY <1>1 DEF TypeOK
      <3> HIDE DEF c
      <3>2. minted' \in Seq(Cookie) /\ Len(minted') = Len(minted)
        BY <1>4, <1>8, <2>2, <3>1, CookieReplaced
      <3>3. DOMAIN minted' = DOMAIN minted /\ minted'[c] = Answer(minted[c]) /\ \A d \in DOMAIN minted : d # c => minted'[d] = minted[d]
        BY <1>4, <1>8
      <3> QED BY <3>1, <3>2, <3>3
    <2>4. used' \in [Challenge -> 0..Latest] /\ used'[c] = now + TTL /\ \A d \in Challenge : d # c => used'[d] = Kept[d]
      <3>1. now + TTL \in 0..Latest
        BY <1>1 DEF Latest
      <3> HIDE DEF c
      <3> QED BY <1>4, <1>5, <1>8, <3>1
    <2>5. guard' \in [count : Nat, nextSweep : 0..(MaxTime + SweepEvery)]
      BY <1>5, <1>8
    <2>6. CookiesInv'
      <3>1. SUFFICES ASSUME NEW d \in DOMAIN minted PROVE CookieOK(minted'[d], used'[d], code', now')
        BY <2>3 DEF CookiesInv
      <3>2. CASE d = c
        BY <1>2, <2>2, <2>3, <2>4, <3>2
      <3>3. CASE d # c
        BY <1>2, <1>4, <1>6, <2>3, <2>4, <3>3
      <3> QED BY <3>2, <3>3
    <2>7. Extends(minted', minted)
      <3>1. /\ Answer(minted[c]).until = minted[c].until /\ Answer(minted[c]).who = minted[c].who
            /\ Answer(minted[c]).register = minted[c].register /\ Answer(minted[c]).confirmed = minted[c].confirmed
        BY DEF Answer
      <3> HIDE DEF c
      <3> QED BY <2>3, <3>1 DEF Extends
    <2>8. HandOK(hand[q], minted', now)
      BY <1>3, <2>7, HandKept
    <2>9. minted'[c].register = minted[c].register
      BY <1>4, <2>7 DEF Extends
    <2> DEFINE h == [hand[q] EXCEPT !.pc = IF minted[c].register THEN "add" ELSE "find"]
    <2>10. h \in Hand /\ h.session = hand[q].session
      BY <1>3 DEF Hand
    <2>11. HandOK(h, minted', now')
      BY <1>2, <1>3, <2>8, <2>9 DEF HandOK, Hand
    <2>12. hand' = [hand EXCEPT ![q] = h]
      BY <1>8
    <2> HIDE DEF h
    <2>13. /\ hand' \in [Request -> Hand]
           /\ \A r \in Request : hand'[r].session \in {hand[r].session, session, NoSession}
           /\ \A r \in Request : hand'[r] = hand[r] \/ hand'[r] = Idle \/ HandOK(hand'[r], minted', now')
      BY <1>3, <2>10, <2>11, <2>12
    <2>14. CodeTypeOK'
      BY DEF CodeInv
    <2>15. TypeOK'
      BY <1>1, <1>2, <2>3, <2>4, <2>5, <2>13, <2>14 DEF TypeOK
    <2>16. session' = session /\ code' \in {code, now} /\ \A w \in Person : email'[w] \in {email[w], now}
      BY <1>2
    <2> QED BY <1>2, <2>6, <2>7, <2>13, <2>15, <2>16, ClaimsKept, InvMoves
  <1> QED BY <1>2, <1>7, <1>8

\* Time passes, by no more than a request may take.
LEMMA InvTick ==
    ASSUME AdminCodeAssumption, PasskeysAssumption, PasskeysInv, CodeInv', Tick
    PROVE  PasskeysInv'
  <1>1. /\ TypeOK /\ SessionsInv /\ HandsInv /\ CookiesInv
        /\ now \in Nat \ {0} /\ now <= MaxTime /\ MaxTime \in Nat /\ MaxLate \in Nat
    BY InvParts, TypesAre
  <1>2. /\ now' = now + 1
        /\ UNCHANGED <<totp, role, session, minted, used, rows, made, guard, hand, email, code, added>>
        /\ \A q \in Request : hand[q].pc = "idle" \/ now < hand[q].at + MaxLate
    BY DEF Tick, settings, cookies, database, proofs
  <1>3. /\ now' \in Nat /\ now <= now' /\ code' \in {code, now'} /\ \A w \in Person : email'[w] \in {email[w], now'}
    BY <1>1, <1>2
  <1>4. minted' \in Seq(Cookie) /\ Len(minted') <= MaxChallenges /\ Extends(minted', minted) /\ CookiesInv'
    BY <1>1, <1>2, <1>3, CookiesStay
  <1>5. CodeTypeOK'
    BY DEF CodeInv
  <1>6. TypeOK'
    BY <1>1, <1>2, <1>5 DEF TypeOK
  <1>7. email' \in [Person -> Nat]
    <2>1. email' \in [Person -> {0} \cup Time]
      BY <1>6 DEF TypeOK
    <2> QED BY <2>1 DEF Time
  <1>8. SessionsInv'
    BY <1>1, <1>2, <1>3, <1>7, SessionsKept
  <1>9. HandsInv'
    <2>1. ASSUME NEW q \in Request PROVE HandOK(hand'[q], minted', now')
      <3>1. HandOK(hand[q], minted, now) /\ hand'[q] = hand[q] /\ minted' = minted
        BY <1>1, <1>2 DEF HandsInv
      <3>2. hand[q].pc # "idle" => hand[q].at \in Time /\ hand[q].at <= now' /\ now' <= hand[q].at + MaxLate
        <4>1. ASSUME hand[q].pc # "idle" PROVE hand[q].at \in Time /\ hand[q].at <= now /\ now < hand[q].at + MaxLate
          BY <1>2, <3>1, <4>1 DEF HandOK
        <4> QED BY <1>1, <1>2, <4>1 DEF Time
      <3> QED BY <3>1, <3>2 DEF HandOK
    <2> QED BY <2>1 DEF HandsInv
  <1> QED BY <1>2, <1>4, <1>6, <1>8, <1>9, ClaimsKept DEF PasskeysInv

\* Nothing changes.
LEMMA InvStutter == ASSUME PasskeysInv, UNCHANGED vars PROVE PasskeysInv'
  <1>1. /\ UNCHANGED <<now, restarts, failures, seen, check, accepted, wrong, passes>>
        /\ UNCHANGED <<totp, role, session, minted, used, rows, made, guard, hand, email, code, added>>
    BY DEF vars, codeVars, codeHistory, settings, cookies, database, proofs
  <1>2. CodeTypeOK' /\ TimeInv' /\ ReplayInv' /\ CodesPassOnce' /\ LockoutInv'
    <2>1. Pending(check') = Pending(check) /\ Left(failures') = Left(failures) /\ \A x : Windows(passes', x) = Windows(passes, x)
      BY <1>1
    <2> QED BY <1>1, <2>1 DEF PasskeysInv, CodeInv, CodeTypeOK, TimeInv, ReplayInv, CodesPassOnce, LockoutInv
  <1>3. TypeOK'
    BY <1>1, <1>2 DEF PasskeysInv, TypeOK
  <1>4. SessionsInv' /\ HandsInv' /\ CookiesInv'
    BY <1>1 DEF PasskeysInv, SessionsInv, HandsInv, CookiesInv
  <1> QED BY <1>1, <1>2, <1>3, <1>4, ClaimsKept DEF PasskeysInv, CodeInv

-----------------------------------------------------------------------------

\* Whatever the gateway does, an authenticator code is checked as AdminCode says.
LEMMA NextChecksCodes == ASSUME Next PROVE CodeMoves
  <1> USE DEF CodeMoves
  <1>1. CASE \E q \in Request, c \in Code : HandleTOTP(q, c) \/ HandlePasskeyConfirmCode(q, c)
    BY <1>1 DEF HandleTOTP, HandlePasskeyConfirmCode
  <1>2. CASE \E q \in Request : CheckCode(q)
    BY <1>2 DEF CheckCode
  <1>3. CASE \E q \in Request : PassTOTP(q) \/ PassConfirm(q) \/ FailCode(q)
    BY <1>3 DEF PassTOTP, PassConfirm, FailCode
  <1>4. CASE Tick
    BY <1>4 DEF Tick
  <1>5. CASE Restart
    BY <1>5 DEF Restart
  <1>6. CASE \/ \E w \in Person : SignIn(w) \/ AdminRemovePasskeys(w)
             \/ SignOut \/ LoginPage \/ PasskeysPage
             \/ \E k \in Passkey : HandlePasskeyRemove(k)
    BY <1>6 DEF SignIn, AdminRemovePasskeys, SignOut, LoginPage, PasskeysPage, HandlePasskeyRemove
  <1>7. CASE \/ \E q \in Request, c \in DOMAIN minted : HandlePasskeyRegister(q, c) \/ HandlePasskeyLogin(q, c)
             \/ \E q \in Request, k \in Passkey : FindPasskey(q, k)
             \/ \E q \in Request : UseChallenge(q) \/ RegisterPasskey(q) \/ SignInWithPasskey(q)
    BY <1>7 DEF HandlePasskeyRegister, HandlePasskeyLogin, FindPasskey, UseChallenge, RegisterPasskey, SignInWithPasskey
  <1> QED BY <1>1, <1>2, <1>3, <1>4, <1>5, <1>6, <1>7 DEF Next

\* The invariant holds at the start.
LEMMA InvInit == ASSUME AdminCodeAssumption, PasskeysAssumption, Init PROVE PasskeysInv
  <1>1. CodeInv
    BY CodeInvInit DEF Init
  <1>2. /\ totp \in BOOLEAN /\ role \in [Person -> {"none", "user", "admin"}]
        /\ session = NoSession /\ minted = <<>>
        /\ used = [c \in Challenge |-> 0] /\ guard = Unswept
        /\ rows = [k \in Passkey |-> NoRow] /\ made = 0
        /\ hand = [q \in Request |-> Idle]
        /\ email = [w \in Person |-> 0] /\ code = 0 /\ added = {}
    BY DEF Init
  <1>3. /\ now \in Nat /\ 0 <= now /\ MaxTime \in Nat /\ TTL \in Nat /\ SweepEvery \in Nat /\ MaxChallenges \in Nat
    BY <1>1 DEF CodeInv, CodeTypeOK, Time, AdminCodeAssumption, PasskeysAssumption
  <1>4. TypeOK
    <2>1. minted \in Seq(Cookie) /\ Len(minted) <= MaxChallenges
      BY <1>2, <1>3
    <2>2. 0 \in 0..Latest /\ 0 \in 0..(MaxTime + SweepEvery)
      BY <1>3 DEF Latest
    <2>3. used \in [Challenge -> 0..Latest] /\ guard \in [count : Nat, nextSweep : 0..(MaxTime + SweepEvery)]
      BY <1>2, <2>2 DEF Unswept
    <2>4. rows \in [Passkey -> Row] /\ hand \in [Request -> Hand] /\ session \in Session
      BY <1>2 DEF Row, NoRow, Idle, Hand, Session
    <2>5. CodeTypeOK
      BY <1>1 DEF CodeInv
    <2> QED BY <1>2, <2>1, <2>3, <2>4, <2>5 DEF TypeOK
  <1>5. SessionsInv
    <2>1. SessionOK(NoSession, email, code, now)
      BY <1>3 DEF SessionOK, NoSession
    <2> QED BY <1>2, <2>1 DEF SessionsInv, Idle
  <1>6. HandsInv /\ CookiesInv
    BY <1>2, IdleIsOK DEF HandsInv, CookiesInv
  <1>7. PasskeysAreProven /\ AdminGradeIsEarned
    BY <1>2 DEF PasskeysAreProven, AdminGradeIsEarned
  <1> QED BY <1>1, <1>4, <1>5, <1>6, <1>7 DEF PasskeysInv

\* The invariant is kept by every step.
LEMMA InvNext ==
    ASSUME AdminCodeAssumption, PasskeysAssumption, PasskeysInv, [Next]_vars
    PROVE  PasskeysInv'
  <1>1. CASE UNCHANGED vars
    BY <1>1, InvStutter
  <1>2. CASE Next
    <2>1. CodeInv'
      BY <1>2, NextChecksCodes, CodeInvMoves DEF PasskeysInv
    <2>2. CASE (\E w \in Person : SignIn(w)) \/ SignOut
      BY <2>1, <2>2, InvSign
    <2>3. CASE LoginPage \/ PasskeysPage
      BY <2>1, <2>3, InvPages
    <2>4. CASE \E q \in Request : \/ \E c \in Code : HandleTOTP(q, c) \/ HandlePasskeyConfirmCode(q, c)
                                  \/ \E c \in DOMAIN minted : HandlePasskeyRegister(q, c) \/ HandlePasskeyLogin(q, c)
      BY <2>1, <2>4, InvBegin
    <2>5. CASE \E q \in Request : CheckCode(q) \/ PassTOTP(q) \/ PassConfirm(q) \/ FailCode(q)
      BY <2>1, <2>5, InvCode
    <2>6. CASE \E q \in Request, k \in Passkey : FindPasskey(q, k)
      BY <2>1, <2>6, InvFind
    <2>7. CASE \E q \in Request : UseChallenge(q) \/ RegisterPasskey(q) \/ SignInWithPasskey(q)
      BY <2>1, <2>7, InvUse, InvRegister, InvEnter
    <2>8. CASE (\E k \in Passkey : HandlePasskeyRemove(k)) \/ (\E w \in Person : AdminRemovePasskeys(w)) \/ Restart
      BY <2>1, <2>8, InvRestart
    <2>9. CASE Tick
      BY <2>1, <2>9, InvTick
    <2> QED BY <1>2, <2>2, <2>3, <2>4, <2>5, <2>6, <2>7, <2>8, <2>9 DEF Next
  <1> QED BY <1>1, <1>2

\* Every reachable state has the invariant.
LEMMA InvAlways == Spec => []PasskeysInv
  <1>1. Init => PasskeysInv
    BY InvInit, AdminCodeAssumption, PasskeysAssumption
  <1>2. PasskeysInv /\ [Next]_vars => PasskeysInv'
    BY InvNext, AdminCodeAssumption, PasskeysAssumption
  <1> QED BY <1>1, <1>2, PTL DEF Spec

\* The state keeps its types: sessions, challenges, requests and rows are as
\* the handlers of passkeys.go and the database read them.
THEOREM PasskeysTypeCorrect == Spec => []TypeOK
  <1>1. PasskeysInv => TypeOK
    BY DEF PasskeysInv
  <1> QED BY <1>1, InvAlways, PTL

\* ReserveTOTPAttempt before the comparison: wrong codes compared are bounded by
\* the limit for each lockout window and each pass, for any number of requests.
THEOREM WrongCodesStayBounded == Spec => []WrongCodesBounded
  <1>1. PasskeysInv => WrongCodesBounded
    BY InvBounds, AdminCodeAssumption DEF PasskeysInv
  <1> QED BY <1>1, InvAlways, PTL

\* totpReplay: a code passes once, and at most once more for each restart.
THEOREM CodesAreSpent == Spec => []CodesPassOnce
  <1>1. PasskeysInv => CodesPassOnce
    BY DEF PasskeysInv, CodeInv
  <1> QED BY <1>1, InvAlways, PTL

\* challengeGuard: a challenge is answered once, but for one answered as it was
\* minted.
THEOREM ChallengesAreSpent == Spec => []ChallengesAnsweredOnce
  <1>1. PasskeysInv => ChallengesAnsweredOnce
    <2>1. ASSUME PasskeysInv, NEW c \in DOMAIN minted PROVE minted[c].took > 1 => minted[c].quick
      BY <2>1 DEF PasskeysInv, CookiesInv, CookieOK
    <2> QED BY <2>1 DEF ChallengesAnsweredOnce
  <1> QED BY <1>1, InvAlways, PTL

\* handlePasskeyRegister: whoever adds a passkey has just proven themselves,
\* with an emailed code or the authenticator, never with a passkey.
THEOREM EveryPasskeyIsProven == Spec => []PasskeysAreProven
  <1>1. PasskeysInv => PasskeysAreProven
    BY DEF PasskeysInv
  <1> QED BY <1>1, InvAlways, PTL

\* A passkey that stands in for the second step was added by the person whose
\* authenticator code had passed.
THEOREM EveryAdminGradeIsEarned == Spec => []AdminGradeIsEarned
  <1>1. PasskeysInv => AdminGradeIsEarned
    BY DEF PasskeysInv
  <1> QED BY <1>1, InvAlways, PTL

-----------------------------------------------------------------------------

\* The entries of the table are at most as many as the guard allows, and as it
\* has counted since it last swept.
GuardInv ==
    /\ Entries(used) <= GuardMax
    /\ now <= guard.nextSweep => Entries(used) <= guard.count

\* Entries are finitely many; one more adds at most one.
LEMMA EntriesAre ==
    ASSUME PasskeysAssumption, NEW u, NEW c, NEW x
    PROVE  /\ Entries(u) \in Nat
           /\ u \in [Challenge -> Nat] => Entries([u EXCEPT ![c] = x]) <= Entries(u) + 1
  <1> DEFINE E(v) == {d \in Challenge : v[d] # 0}
             u2 == [u EXCEPT ![c] = x]
  <1>1. IsFiniteSet(Challenge)
    BY FS_Interval DEF Challenge, PasskeysAssumption
  <1>2. IsFiniteSet(E(u)) /\ Cardinality(E(u)) \in Nat
    BY <1>1, FS_Subset, FS_CardinalityType
  <1>3. IsFiniteSet(E(u) \cup {c}) /\ Cardinality(E(u) \cup {c}) <= Cardinality(E(u)) + 1
    <2> HIDE DEF E
    <2>1. /\ IsFiniteSet(E(u) \cup {c})
          /\ Cardinality(E(u) \cup {c}) = IF c \in E(u) THEN Cardinality(E(u)) ELSE Cardinality(E(u)) + 1
      BY <1>2, FS_AddElement
    <2> QED BY <1>2, <2>1
  <1>4. ASSUME u \in [Challenge -> Nat] PROVE E(u2) \subseteq E(u) \cup {c}
    BY <1>4
  <1>5. ASSUME u \in [Challenge -> Nat] PROVE Cardinality(E(u2)) <= Cardinality(E(u)) + 1
    <2>1. Cardinality(E(u2)) <= Cardinality(E(u) \cup {c})
      BY <1>3, <1>4, <1>5, FS_Subset
    <2>2. Cardinality(E(u2)) \in Nat /\ Cardinality(E(u) \cup {c}) \in Nat
      BY <1>3, <1>4, <1>5, FS_Subset, FS_CardinalityType
    <2> QED BY <1>2, <1>3, <2>1, <2>2
  <1> QED BY <1>2, <1>5 DEF Entries

\* A sweep leaves no more entries.
LEMMA SweepShrinks ==
    ASSUME AdminCodeAssumption, PasskeysAssumption, TypeOK
    PROVE  Entries(Kept) \in Nat /\ Entries(used) \in Nat /\ Entries(Kept) <= Entries(used)
  <1> DEFINE E(v) == {d \in Challenge : v[d] # 0}
  <1>1. IsFiniteSet(Challenge)
    BY FS_Interval DEF Challenge, PasskeysAssumption
  <1>2. IsFiniteSet(E(used))
    BY <1>1, FS_Subset
  <1>3. E(Kept) \subseteq E(used)
    BY SweepKeeps
  <1>4. Cardinality(E(Kept)) <= Cardinality(E(used))
    BY <1>2, <1>3, FS_Subset
  <1> QED BY <1>4, EntriesAre DEF Entries

\* The guard keeps to its bound at every step.
LEMMA GuardNext ==
    ASSUME AdminCodeAssumption, PasskeysAssumption, PasskeysInv, GuardInv, [Next]_vars
    PROVE  GuardInv'
  <1>1. TypeOK /\ now \in Nat \ {0} /\ GuardMax \in Nat /\ SweepEvery \in Nat
    BY InvParts, TypesAre DEF PasskeysAssumption
  <1>2. Entries(used) \in Nat /\ guard.count \in Nat /\ guard.nextSweep \in Nat
    <2>1. guard \in [count : Nat, nextSweep : 0..(MaxTime + SweepEvery)]
      BY <1>1 DEF TypeOK
    <2>2. guard.count \in Nat /\ guard.nextSweep \in Nat
      BY <2>1
    <2> QED BY <2>2, EntriesAre
  <1>3. CASE UNCHANGED <<now, used, guard>>
    BY <1>3 DEF GuardInv
  <1>4. CASE Tick
    <2>1. now' = now + 1 /\ UNCHANGED <<used, guard>>
      BY <1>4 DEF Tick, database
    <2>2. Entries(used') = Entries(used)
      BY <2>1
    <2> QED BY <1>1, <1>2, <2>1, <2>2 DEF GuardInv
  <1>5. CASE Restart
    <2>1. now' = now /\ used' = used /\ guard' = Unswept
      BY <1>5 DEF Restart, database
    <2>2. ~(now' <= guard'.nextSweep)
      BY <1>1, <2>1 DEF Unswept
    <2> QED BY <2>1, <2>2 DEF GuardInv
  <1>6. ASSUME NEW q \in Request, UseChallenge(q) PROVE GuardInv'
    <2> DEFINE c == hand[q].ch
    <2>1. /\ now' = now
          /\ \/ /\ Swept.count < GuardMax
                /\ used' = [Kept EXCEPT ![c] = now + TTL]
                /\ guard' = [Swept EXCEPT !.count = @ + 1]
             \/ used' = Kept /\ guard' = Swept
             \/ UNCHANGED <<used, guard>>
      BY <1>6 DEF UseChallenge
    <2>2. Swept \in [count : Nat, nextSweep : 0..(MaxTime + SweepEvery)] /\ Kept \in [Challenge -> 0..Latest]
      BY <1>1, SweepKeeps
    <2>3. Entries(Kept) \in Nat /\ Entries(Kept) <= Entries(used)
      BY <1>1, SweepShrinks
    <2>4. now <= Swept.nextSweep => Entries(Kept) <= Swept.count
      <3>1. CASE now > guard.nextSweep
        BY <2>3, <3>1 DEF Swept
      <3>2. CASE ~(now > guard.nextSweep)
        BY <1>1, <1>2, <2>3, <3>2 DEF Swept, GuardInv
      <3> QED BY <3>1, <3>2
    <2>5. Entries(Kept) <= Swept.count
      <3>1. CASE now > guard.nextSweep
        BY <2>3, <3>1 DEF Swept
      <3>2. CASE ~(now > guard.nextSweep)
        BY <1>1, <1>2, <2>3, <3>2 DEF Swept, GuardInv
      <3> QED BY <3>1, <3>2
    <2>6. Entries(Kept) <= GuardMax
      BY <1>1, <1>2, <2>3 DEF GuardInv
    <2>7. CASE UNCHANGED <<used, guard>>
      BY <2>1, <2>7 DEF GuardInv
    <2>8. CASE used' = Kept /\ guard' = Swept
      BY <2>1, <2>5, <2>6, <2>8 DEF GuardInv
    <2>9. CASE /\ Swept.count < GuardMax
               /\ used' = [Kept EXCEPT ![c] = now + TTL]
               /\ guard' = [Swept EXCEPT !.count = @ + 1]
      <3>1. Kept \in [Challenge -> Nat]
        <4>1. 0..Latest \subseteq Nat
          OBVIOUS
        <4> QED BY <2>2, <4>1
      <3>2. Entries(used') \in Nat /\ Entries(used') <= Entries(Kept) + 1
        BY <2>9, <3>1, EntriesAre
      <3>3. guard'.count = Swept.count + 1 /\ Swept.count \in Nat
        BY <2>2, <2>9
      <3>4. Entries(used') <= GuardMax /\ Entries(used') <= guard'.count
        BY <1>1, <2>3, <2>5, <2>9, <3>2, <3>3
      <3> QED BY <3>4 DEF GuardInv
    <2> QED BY <2>1, <2>7, <2>8, <2>9
  <1>7. UNCHANGED <<now, used, guard>> \/ Tick \/ Restart \/ \E q \in Request : UseChallenge(q)
    <2>1. CASE UNCHANGED vars
      BY <2>1 DEF vars, database
    <2>2. CASE \/ \E w \in Person : SignIn(w) \/ AdminRemovePasskeys(w)
               \/ SignOut \/ LoginPage \/ PasskeysPage
               \/ \E k \in Passkey : HandlePasskeyRemove(k)
      BY <2>2 DEF SignIn, AdminRemovePasskeys, SignOut, LoginPage, PasskeysPage, HandlePasskeyRemove, database
    <2>3. CASE \/ \E q \in Request, c \in Code : HandleTOTP(q, c) \/ HandlePasskeyConfirmCode(q, c)
               \/ \E q \in Request, c \in DOMAIN minted : HandlePasskeyRegister(q, c) \/ HandlePasskeyLogin(q, c)
      BY <2>3 DEF HandleTOTP, HandlePasskeyConfirmCode, HandlePasskeyRegister, HandlePasskeyLogin, database
    <2>4. CASE \/ \E q \in Request, k \in Passkey : FindPasskey(q, k)
               \/ \E q \in Request : \/ CheckCode(q) \/ PassTOTP(q) \/ PassConfirm(q) \/ FailCode(q)
                                     \/ RegisterPasskey(q) \/ SignInWithPasskey(q)
      BY <2>4 DEF FindPasskey, CheckCode, PassTOTP, PassConfirm, FailCode, RegisterPasskey, SignInWithPasskey, database
    <2> QED BY <2>1, <2>2, <2>3, <2>4 DEF Next
  <1> QED BY <1>3, <1>4, <1>5, <1>6, <1>7

\* challengeGuard: the table of used challenges keeps to its bound, though its
\* count is in memory and a restart forgets it.
THEOREM GuardKeepsItsBound == Spec => []GuardBounded
  <1>1. Init => GuardInv
    <2>1. ASSUME Init PROVE GuardInv
      <3>1. used = [c \in Challenge |-> 0] /\ guard = Unswept /\ now = 1 /\ GuardMax \in Nat
        BY <2>1, PasskeysAssumption DEF Init, CodeInit, PasskeysAssumption
      <3>2. {c \in Challenge : used[c] # 0} = {}
        BY <3>1
      <3>3. Entries(used) = 0
        BY <3>2, FS_EmptySet DEF Entries
      <3> QED BY <3>1, <3>3 DEF GuardInv, Unswept
    <2> QED BY <2>1
  <1>2. PasskeysInv /\ GuardInv /\ [Next]_vars => GuardInv'
    BY GuardNext, AdminCodeAssumption, PasskeysAssumption
  <1>3. GuardInv => GuardBounded
    BY DEF GuardInv, GuardBounded
  <1> QED BY <1>1, <1>2, <1>3, InvAlways, PTL DEF Spec
=============================================================================
