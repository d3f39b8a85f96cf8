----------------------------- MODULE SendLimits -----------------------------
(***************************************************************************)
(* What bounds the codes that are sent (handleRequest, allowSend), who is  *)
(* told when an address reaches a bound (code_alerts.go), and the audit    *)
(* tables that let a person in past the bounds (AccessAudit).              *)
(*                                                                         *)
(* allowSend takes a token of four limiters, one after another, and gives  *)
(* back what it took when a later one refuses: each is locked by itself,   *)
(* so requests interleave between any two.  The limiter of an IP's sends   *)
(* is the map of RateLimiter; of the others only the level of each key is  *)
(* kept, as if none were dropped.                                          *)
(***************************************************************************)
EXTENDS RateLimiter, AccessAudit

CONSTANTS
    Addr,
    Permitted,      \* the addresses that are sent codes
    Guest,          \* those of them that are guests, whom no alert names
    Request,        \* requests being served
    Own, Ceiling, Daily,    \* limits: [count, window], as in RateLimiter
    KnownWindow,    \* knownDeviceWindow
    Day,
    MaxAlerts,      \* maxCodeAlertsPerDay
    MaxSends,       \* maxMailSends
    MaxLate,        \* bound on how long a request takes
    Overflow        \* overflowKey

ASSUME SendLimitsAssumption ==
    /\ SignIn = Addr \X Key
    /\ IsFiniteSet(Request)
    /\ Guest \subseteq Permitted /\ Permitted \subseteq Addr /\ Overflow \notin Addr
    /\ {KnownWindow, MaxAlerts, MaxSends, MaxLate} \subseteq Nat /\ Day \in Nat \ {0}
    /\ {Own, Ceiling, Daily} \subseteq [count : Nat \ {0}, window : Nat \ {0}]

Ip == Key

VARIABLES
    own, ceiling, daily,    \* the levels of the other limiters
    reqs,
    mails, notices,         \* mailSlots, noticeSlots: the slots in use
    alerted,                \* codeAlerts: when a key was last due, 0 if it is not in the map
    dayStart, dayCount,     \* alertsPerDay
    spent,      \* history: the levels of ceilings and IPs if only sends were charged
    reached,    \* history: when an address last reached a limit worth an alert
    told        \* history: when an alert of a key was last given to a slot, or found none

limitVars == <<own, ceiling, daily>>
alertVars == <<notices, alerted, dayStart, dayCount, told>>
vars == <<now, limiterVars, limitVars, reqs, mails, alertVars, auditVars, spent, reached>>

Idle == [at |-> "idle"]
Steps == {"ip", "ceiling", "daily", "uncharge", "alert", "count", "overflow", "send", "sendOverflow",
          "refund", "known"}
Requests == {Idle} \cup [at : Steps, addr : Addr, ip : Ip, time : Time, burned : BOOLEAN]

FullOf(limit) == limit.count * limit.window
Take(limit, n) == IF n >= limit.window THEN n - limit.window ELSE n
Less(n, k) == IF n >= k THEN n - k ELSE 0
AtMost(limit, n) == IF n > FullOf(limit) THEN FullOf(limit) ELSE n
Alerted == Addr \cup {Overflow}

TypeOK ==
    /\ LimiterTypeOK /\ AuditTypeOK
    /\ own \in [SignIn -> 0..FullOf(Own)]
    /\ ceiling \in [Addr -> 0..FullOf(Ceiling)] /\ daily \in [Addr -> 0..FullOf(Daily)]
    /\ reqs \in [Request -> Requests]
    /\ mails \in 0..MaxSends /\ notices \in 0..MaxSends
    /\ alerted \in [Alerted -> {0} \cup Time]
    /\ dayStart \in {0} \cup Time /\ dayCount \in 0..MaxAlerts
    /\ spent \in [ip : [Ip -> 0..Full], ceiling : [Addr -> 0..FullOf(Ceiling)]]
    /\ reached \in [Addr -> {0} \cup Time] /\ told \in [Alerted -> {0} \cup Time]

\* What the process keeps in memory, but the map of RateLimiter.
FullLevels ==
    [own |-> [s \in SignIn |-> FullOf(Own)], ceiling |-> [a \in Addr |-> FullOf(Ceiling)],
     daily |-> [a \in Addr |-> FullOf(Daily)]]
NothingSpent == [ip |-> [i \in Ip |-> Full], ceiling |-> [a \in Addr |-> FullOf(Ceiling)]]
NoAlerts == [k \in Alerted |-> 0]
NotReached == [a \in Addr |-> 0]
NoRequests == [q \in Request |-> Idle]

Init ==
    /\ LimiterInit /\ AuditInit
    /\ own = FullLevels.own /\ ceiling = FullLevels.ceiling /\ daily = FullLevels.daily
    /\ reqs = NoRequests /\ mails = 0 /\ notices = 0
    /\ alerted = NoAlerts /\ dayStart = 0 /\ dayCount = 0
    /\ spent = NothingSpent /\ reached = NotReached /\ told = NoAlerts

-----------------------------------------------------------------------------
\* allowSend: each step is one call, of a limiter or of the database.

GoTo(q, step) == reqs' = [reqs EXCEPT ![q].at = step]
End(q) == reqs' = [reqs EXCEPT ![q] = Idle]

\* mailSaturated: every slot is in use, and the request ends with a decoy and
\* no token spent.
MailSaturated == mails >= MaxSends

\* handleRequest, up to the address's own allowance.  What it does of codes and
\* of the limit on requests is in OneTimeCodes.
HandleRequest(q, a, i) ==
    /\ reqs[q] = Idle /\ ~ MailSaturated
    /\ own' = [own EXCEPT ![<<a, i>>] = Take(Own, @)]
    /\ reqs' = IF own[<<a, i>>] < Own.window THEN reqs
               ELSE [reqs EXCEPT ![q] = [at |-> "ip", addr |-> a, ip |-> i, time |-> now, burned |-> FALSE]]
    /\ UNCHANGED <<limiterVars, ceiling, daily, mails, alertVars, spent, reached>>

ChargeIp(q) ==
    /\ reqs[q].at = "ip"
    /\ Allow(reqs[q].ip)
    /\ GoTo(q, IF Allowed(reqs[q].ip) THEN "ceiling" ELSE "known")
    /\ UNCHANGED <<limitVars, mails, alertVars, spent, reached>>

ChargeCeiling(q) ==
    LET a == reqs[q].addr IN
    /\ reqs[q].at = "ceiling"
    /\ ceiling' = [ceiling EXCEPT ![a] = Take(Ceiling, @)]
    /\ GoTo(q, IF ceiling[a] >= Ceiling.window THEN "daily" ELSE "refund")
    /\ UNCHANGED <<limiterVars, own, daily, mails, alertVars, spent, reached>>

\* sendCode, sendMailVia: a permitted address is sent its code if a slot is free
\* still; any other has its decoy.
Send(a) == mails' = IF a \in Permitted /\ ~ MailSaturated THEN mails + 1 ELSE mails

ChargeDaily(q) ==
    LET a == reqs[q].addr
        i == reqs[q].ip
    IN /\ reqs[q].at = "daily"
       /\ daily' = [daily EXCEPT ![a] = Take(Daily, @)]
       /\ IF daily[a] >= Daily.window
            THEN /\ End(q) /\ Send(a)
                 /\ spent' = [ip |-> [spent.ip EXCEPT ![i] = Less(@, Window)],
                              ceiling |-> [spent.ceiling EXCEPT ![a] = Less(@, Ceiling.window)]]
                 /\ UNCHANGED reached
            ELSE /\ GoTo(q, "uncharge")
                 /\ reached' = [reached EXCEPT ![a] = now]
                 /\ UNCHANGED <<mails, spent>>
       /\ UNCHANGED <<limiterVars, own, ceiling, alertVars>>

\* A slip: the ceiling is given back one token short.
KeepCeiling(a) == ceiling[a]

Uncharged(a) == AtMost(Ceiling, ceiling[a] + Ceiling.window)

RefundCeiling(q) ==
    LET a == reqs[q].addr IN
    /\ reqs[q].at = "uncharge"
    /\ ceiling' = [ceiling EXCEPT ![a] = Uncharged(a)]
    /\ GoTo(q, IF a \in Permitted THEN "alert" ELSE "refund")
    /\ UNCHANGED <<limiterVars, own, daily, mails, alertVars, spent, reached>>

RefundIp(q) ==
    /\ reqs[q].at = "refund"
    /\ Refund(reqs[q].ip)
    /\ GoTo(q, "known")
    /\ UNCHANGED <<limitVars, mails, alertVars, spent, reached>>

\* HasRecentLogin: an error is answered as if the device were not known.
HasRecentLogin(s, t) == \E r \in logins : r.who = s /\ r.time + KnownWindow >= t

AskKnown(q) ==
    LET s == <<reqs[q].addr, reqs[q].ip>> IN
    /\ reqs[q].at = "known"
    /\ End(q)
    /\ \/ /\ HasRecentLogin(s, reqs[q].time) /\ Send(reqs[q].addr)
       \/ UNCHANGED mails
    /\ UNCHANGED <<limiterVars, limitVars, alertVars, spent, reached>>

-----------------------------------------------------------------------------
\* alertAboutCodes, called by allowSend or for a code that guesses destroyed.

Names(a) == a \in Permitted \ Guest

\* The request goes on after an alert, or after none.
AlertDone(q) == IF reqs[q].burned THEN End(q) ELSE GoTo(q, "refund")

\* handleVerifyCode: a wrong guess destroys a code.
Burn(q, a, i) ==
    /\ reqs[q] = Idle /\ Names(a)
    /\ reqs' = [reqs EXCEPT ![q] = [at |-> "alert", addr |-> a, ip |-> i, time |-> now, burned |-> TRUE]]
    /\ reached' = [reached EXCEPT ![a] = now]
    /\ UNCHANGED <<limiterVars, limitVars, mails, alertVars, spent>>

\* dailyOnce.due: once a day for each key; entries a day old are forgotten.
Due(k, t) == alerted[k] = 0 \/ t >= alerted[k] + Day

NoteDue(k, t) ==
    alerted' = [x \in Alerted |->
                  IF x = k THEN t
                  ELSE IF alerted[x] # 0 /\ t >= alerted[x] + Day THEN 0 ELSE alerted[x]]

AlertDue(q) ==
    LET a == reqs[q].addr
        t == reqs[q].time
    IN /\ reqs[q].at = "alert"
       /\ IF Due(a, t) THEN NoteDue(a, t) /\ GoTo(q, "count")
                       ELSE AlertDone(q) /\ UNCHANGED alerted
       /\ UNCHANGED <<limiterVars, limitVars, mails, notices, dayStart, dayCount, told, spent, reached>>

\* dailyCount.allow: so many in a day that starts at the first of them.
CountAlert(q) ==
    LET t == reqs[q].time
        another == dayStart = 0 \/ t >= dayStart + Day
        n == IF another THEN 0 ELSE dayCount
    IN /\ reqs[q].at = "count"
       /\ dayStart' = IF another THEN t ELSE dayStart
       /\ dayCount' = IF n < MaxAlerts THEN n + 1 ELSE n
       /\ GoTo(q, IF n < MaxAlerts THEN "send" ELSE "overflow")
       /\ UNCHANGED <<limiterVars, limitVars, mails, notices, alerted, told, spent, reached>>

\* A slip: the notice that alerts have stopped is due as the address's alert is.
KeyOfAddress(q) == reqs[q].addr

\* The key of the notice that alerts have stopped.
OverflowKey(q) == Overflow

OverflowDue(q) ==
    LET t == reqs[q].time IN
    /\ reqs[q].at = "overflow"
    /\ IF Due(OverflowKey(q), t) THEN NoteDue(OverflowKey(q), t) /\ GoTo(q, "sendOverflow")
                                 ELSE AlertDone(q) /\ UNCHANGED alerted
    /\ UNCHANGED <<limiterVars, limitVars, mails, notices, dayStart, dayCount, told, spent, reached>>

\* sendNotice: sent if a slot is free, and left unsent if none is.
TakeNotice == notices' = IF notices < MaxSends THEN notices + 1 ELSE notices

SendAlert(q) ==
    /\ reqs[q].at \in {"send", "sendOverflow"}
    /\ TakeNotice
    /\ told' = [told EXCEPT ![IF reqs[q].at = "send" THEN reqs[q].addr ELSE Overflow] = now]
    /\ AlertDone(q)
    /\ UNCHANGED <<limiterVars, limitVars, mails, alerted, dayStart, dayCount, spent, reached>>

-----------------------------------------------------------------------------
\* Mail, time and restarts.

othersIdle == <<limiterVars, limitVars, reqs, alerted, dayStart, dayCount, told, spent, reached>>

\* sendMailVia: a send that ended, well or not, frees its slot.
MailEnds == /\ mails > 0 /\ mails' = mails - 1 /\ UNCHANGED <<notices, othersIdle>>

NoticeEnds == /\ notices > 0 /\ notices' = notices - 1 /\ UNCHANGED <<mails, othersIdle>>

\* Notices of other kinds use the same slots.
OtherNotice == /\ TakeNotice /\ UNCHANGED <<mails, othersIdle>>

\* What the limits and the alerts do, in no time.
LimitSteps ==
    \/ \E q \in Request, a \in Addr, i \in Ip : HandleRequest(q, a, i)
    \/ \E q \in Request, a \in Addr, i \in Ip : Burn(q, a, i)
    \/ \E q \in Request : ChargeIp(q)
    \/ \E q \in Request : ChargeCeiling(q)
    \/ \E q \in Request : ChargeDaily(q)
    \/ \E q \in Request : RefundCeiling(q)
    \/ \E q \in Request : RefundIp(q)
    \/ \E q \in Request : AskKnown(q)
    \/ \E q \in Request : AlertDue(q)
    \/ \E q \in Request : CountAlert(q)
    \/ \E q \in Request : OverflowDue(q)
    \/ \E q \in Request : SendAlert(q)
    \/ MailEnds
    \/ NoticeEnds
    \/ OtherNotice

\* A request of the access log carries the time it began at.
Visited(v, w) == \E t \in Time : t <= now /\ now <= t + MaxLate /\ Note(v, w, t)

AuditOnly == <<limiterVars, limitVars, reqs, mails, alertVars, spent, reached>>

\* A request lasts at most MaxLate ticks.
Tick ==
    /\ Refill
    /\ \A q \in Request : reqs[q] # Idle => now < reqs[q].time + MaxLate
    /\ \A v \in Visit : visits[v] # NoVisit => now < visits[v].time + MaxLate
    /\ \A l \in Login : entering[l] # NoLogin => now < entering[l].time + MaxLate
    /\ \A k \in Ask : asks[k] # NoAsk => now < asks[k].time + MaxLate
    /\ own' = [s \in SignIn |-> AtMost(Own, own[s] + Own.count)]
    /\ ceiling' = [a \in Addr |-> AtMost(Ceiling, ceiling[a] + Ceiling.count)]
    /\ daily' = [a \in Addr |-> AtMost(Daily, daily[a] + Daily.count)]
    /\ spent' = [ip |-> [i \in Ip |-> Capped(spent.ip[i] + Count)],
                 ceiling |-> [a \in Addr |-> AtMost(Ceiling, spent.ceiling[a] + Ceiling.count)]]
    /\ UNCHANGED <<reqs, mails, alertVars, auditVars, reached>>

\* Everything but the tables is in memory; a request cut short is not answered.
Restart ==
    /\ ForgetBuckets /\ AuditRestart
    /\ own' = FullLevels.own /\ ceiling' = FullLevels.ceiling /\ daily' = FullLevels.daily
    /\ reqs' = NoRequests /\ mails' = 0 /\ notices' = 0
    /\ alerted' = NoAlerts /\ dayStart' = 0 /\ dayCount' = 0
    /\ spent' = NothingSpent /\ reached' = NotReached /\ told' = NoAlerts
    /\ UNCHANGED now

Next ==
    \/ LimitSteps /\ UNCHANGED <<now, auditVars>>
    \/ \E v \in Visit, w \in Who : Visited(v, w) /\ UNCHANGED <<now, AuditOnly>>
    \/ AuditSteps /\ UNCHANGED <<now, AuditOnly>>
    \/ Tick
    \/ Restart

Spec == Init /\ [][Next]_vars

-----------------------------------------------------------------------------

\* "A request refused by either spends neither" (allowSend): when no request is
\* under way, a ceiling and an IP's cap are worth at least what they would be
\* had only the codes let through been charged.
RefusedSpendNothing ==
    (\A q \in Request : reqs[q] = Idle) =>
        /\ \A a \in Addr : ceiling[a] >= spent.ceiling[a]
        /\ \A i \in Ip : Level(i) >= spent.ip[i]

\* A request that the ceilings refused is let past them only for a recorded
\* sign-in of its address from its IP within knownDeviceWindow of the request
\* (allowSend), and if there was one it is: a sign-in that is left out could not
\* be recorded (recordAuth) or is older than the retention, whatever was recorded
\* before or after it, in whatever order, and whatever was pruned.
KnownDevicesPass ==
    \A q \in Request : reqs[q].at = "known" =>
        LET s == <<reqs[q].addr, reqs[q].ip>>
            recent == {x \in signedIn : x.who = s /\ x.time + KnownWindow >= reqs[q].time}
        IN IF HasRecentLogin(s, reqs[q].time)
             THEN \E x \in recent : x.recorded
             ELSE \A x \in recent : x.recorded => Retention # 0 /\ x.time + Retention < now

\* No app is told of a group's members without a record of it (handleGroupMembers:
\* "no record, no answer"), for as long as records are kept, less the lateness of
\* a read that was recorded after a newer one.
ReadsAreRecorded ==
    \A x \in answered :
        Retention = 0 \/ x.time + Retention >= now + MaxLate
        => \E r \in memberReads : r.app = x.app /\ r.hour = HourOf(x.time)

AlertUnderWay(a) ==
    \E q \in Request :
        \/ reqs[q].at = "sendOverflow"
        \/ reqs[q].at \in {"uncharge", "alert", "count", "send", "overflow"} /\ reqs[q].addr = a

ToldWithin(k, t, days) == told[k] # 0 /\ t < told[k] + days * Day + MaxLate

\* The administrators are told when an address reaches its daily ceiling or has
\* a code destroyed (alertAboutCodes): of the address itself in the day before,
\* or, past the cap on alerts, that alerts have stopped, in the two days before.
AlertsTold ==
    \A a \in Permitted \ Guest :
        reached[a] # 0 =>
            \/ AlertUnderWay(a)
            \/ ToldWithin(a, reached[a], 1)
            \/ ToldWithin(Overflow, reached[a], 2)

=============================================================================
