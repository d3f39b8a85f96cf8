-------------------------- MODULE SendLimitsProofs --------------------------
(***************************************************************************)
(* Proofs about RateLimiter, AccessAudit and SendLimits, in that order.    *)
(*                                                                         *)
(* The limiter: what a key has is compared with what it would have: the    *)
(* events it is ahead, counted in, its level is never below the promised   *)
(* one, and never above it by more than the calls that swept their bucket  *)
(* away.  The audit tables: what is missing from them is too old to be     *)
(* asked for.  The send limits: a token that is out is held by a request,  *)
(* which sends or gives it back; an alert that is due is told, or about to *)
(* be, by the request that found it due.                                   *)
(***************************************************************************)
EXTENDS SendLimits, FiniteSetTheorems, TLAPS

USE LimiterAssumption, ClockAssumption

\* Levels in units: a bucket holds at least one event, and a tick adds Count.
LEMMA Products ==
    /\ Full \in Nat /\ Full >= Window
    /\ \A n \in Nat : n * Count \in Nat /\ (n + 1) * Count = n * Count + Count
    /\ \A n \in Nat : n >= 1 => n * Count >= Count
    /\ \A a \in Int : a * Window \in Int
    /\ \A a \in Int : (a + 1) * Window = a * Window + Window /\ (a - 1) * Window = a * Window - Window
    /\ 0 * Window = 0 /\ 0 * Count = 0
  <1>1. Full \in Nat /\ Full >= Window
    <2>1. Count * Window \in Nat
      OBVIOUS
    <2>2. \A c, w \in Nat : c >= 1 => c * w >= w
      OBVIOUS
    <2> QED BY <2>1, <2>2 DEF Full
  <1>2. \A n \in Nat : n * Count \in Nat /\ (n + 1) * Count = n * Count + Count
    OBVIOUS
  <1>3. \A n \in Nat : n >= 1 => n * Count >= Count
    <2>1. \A n, c \in Nat : n >= 1 => n * c >= c
      OBVIOUS
    <2> QED BY <2>1
  <1>4. \A a \in Int : a * Window \in Int
    OBVIOUS
  <1>5. \A a \in Int : (a + 1) * Window = a * Window + Window /\ (a - 1) * Window = a * Window - Window
    OBVIOUS
  <1>6. 0 * Window = 0 /\ 0 * Count = 0
    OBVIOUS
  <1> QED BY <1>1, <1>2, <1>3, <1>4, <1>5, <1>6

\* Events compare as the units they are worth.
LEMMA Ordered ==
    ASSUME NEW a \in Int, NEW b \in Int
    PROVE  /\ a <= b => a * Window <= b * Window
           /\ a * Window < b * Window => a < b
  <1>1. \A x, y \in Int, w \in Nat : x <= y => x * w <= y * w
    OBVIOUS
  <1>2. a <= b => a * Window <= b * Window
    BY <1>1
  <1>3. b <= a => b * Window <= a * Window
    BY <1>1
  <1>4. a * Window \in Int /\ b * Window \in Int
    BY Products
  <1> QED BY <1>2, <1>3, <1>4

-----------------------------------------------------------------------------

\* What a key has (level), what it would have (owed), the events it is ahead (a)
\* and the calls that swept its bucket away (l).
Within(level, owed, a, l) ==
    /\ 0 <= a /\ a <= l
    /\ owed <= level + a * Window
    /\ level + a * Window <= owed + l * Window

\* The same gain to both, as far as the limit, keeps them as close.
LEMMA Gained ==
    ASSUME NEW level \in 0..Full, NEW owed \in 0..Full, NEW a \in Int, NEW l \in Int,
           NEW gain \in Nat, Within(level, owed, a, l)
    PROVE  /\ Capped(level + gain) \in 0..Full /\ Capped(owed + gain) \in 0..Full
           /\ Within(Capped(level + gain), Capped(owed + gain), a, l)
  <1>1. a * Window \in Int /\ l * Window \in Int /\ 0 * Window = 0 /\ Full \in Nat
    BY Products
  <1>2. a * Window <= l * Window /\ 0 * Window <= a * Window
    BY Ordered DEF Within
  <1> QED BY <1>1, <1>2 DEF Within, Capped

\* One event charged to both: where only one of them has it, the other is made
\* level by the count of those ahead.
LEMMA ChargedAlike ==
    ASSUME NEW level \in 0..Full, NEW owed \in 0..Full, NEW a \in Int, NEW l \in Int,
           Within(level, owed, a, l)
    PROVE  /\ Charged(level) \in 0..Full /\ Charged(owed) \in 0..Full
           /\ a + Event(level >= Window) - Event(owed >= Window) \in Int
           /\ Within(Charged(level), Charged(owed),
                     a + Event(level >= Window) - Event(owed >= Window), l)
  <1>1. /\ a * Window \in Int /\ l * Window \in Int /\ 0 * Window = 0 /\ Full \in Nat
        /\ (a + 1) * Window = a * Window + Window /\ (a - 1) * Window = a * Window - Window
    BY Products
  <1>2. CASE (level >= Window) = (owed >= Window)
    BY <1>1, <1>2 DEF Within, Charged, Event
  <1>3. CASE level >= Window /\ ~(owed >= Window)
    <2>1. a * Window < l * Window
      BY <1>1, <1>3 DEF Within
    <2>2. a < l
      BY <2>1, Ordered
    <2> QED BY <1>1, <1>3, <2>2 DEF Within, Charged, Event
  <1>4. CASE ~(level >= Window) /\ owed >= Window
    <2>1. 0 * Window < a * Window
      BY <1>1, <1>4 DEF Within
    <2>2. 0 < a
      BY <2>1, Ordered
    <2> QED BY <1>1, <1>4, <2>2 DEF Within, Charged, Event
  <1> QED BY <1>2, <1>3, <1>4

\* A bucket swept by the call that charges it, or gives it an event back, is
\* left full, at the cost of one more call of its key.
LEMMA SweptAlike ==
    ASSUME NEW owed \in 0..Full, NEW a \in Int, NEW l \in Int, Within(Full, owed, a, l)
    PROVE  /\ Charged(owed) \in 0..Full /\ Returned(owed) \in 0..Full
           /\ a + Event(TRUE) - Event(owed >= Window) \in Int /\ l + 1 \in Int
           /\ Within(Full, Charged(owed), a + Event(TRUE) - Event(owed >= Window), l + 1)
           /\ Within(Full, Returned(owed), a, l + 1)
  <1>1. /\ a * Window \in Int /\ l * Window \in Int /\ 0 * Window = 0
        /\ Full \in Nat /\ Full >= Window
        /\ (a + 1) * Window = a * Window + Window
        /\ (l + 1) * Window = l * Window + Window
    BY Products
  <1>2. 0 * Window <= a * Window
    BY Ordered DEF Within
  <1>3. CASE owed >= Window
    BY <1>1, <1>2, <1>3 DEF Within, Charged, Returned, Capped, Event
  <1>4. CASE ~(owed >= Window)
    BY <1>1, <1>2, <1>4 DEF Within, Charged, Returned, Capped, Event
  <1> QED BY <1>3, <1>4

-----------------------------------------------------------------------------

\* The inductive invariant: beside the types, no bucket was seen in the future,
\* and what every key has and would have are as close as its lost calls.
LimiterInv ==
    /\ LimiterTypeOK
    /\ \A k \in Key : /\ buckets[k].seen <= now
                      /\ Within(Level(k), fair[k], ahead[k], lost[k])

\* Levels are within the limit; a key outside the map has a full one.
LEMMA Levels ==
    ASSUME LimiterInv, NEW k \in Key
    PROVE  /\ Level(k) \in 0..Full
           /\ k \notin Kept => Level(k) = Full
           /\ (now - buckets[k].seen) * Count \in Nat
           /\ now \in Nat /\ buckets[k].tokens \in 0..Full /\ buckets[k].seen \in Nat
  <1>1. /\ buckets[k] \in Bucket /\ now \in Nat /\ buckets[k].seen <= now /\ Full \in Nat
        /\ \A n \in Nat : n * Count \in Nat
    <2>1. buckets[k] \in Bucket /\ now \in Nat /\ buckets[k].seen <= now
      BY DEF LimiterInv, LimiterTypeOK, Time
    <2> QED BY <2>1, Products
  <1>2. buckets[k].tokens \in 0..Full /\ buckets[k].seen \in Nat
    BY <1>1 DEF Bucket, Absent, Time
  <1>3. now - buckets[k].seen \in Nat
    BY <1>1, <1>2
  <1>4. (now - buckets[k].seen) * Count \in Nat
    BY <1>1, <1>3
  <1>5. Level(k) \in 0..Full
    BY <1>1, <1>2, <1>4 DEF Level, Capped
  <1>6. k \notin Kept => Level(k) = Full
    BY <1>1, <1>4 DEF Kept, Level, Capped, Absent
  <1> QED BY <1>1, <1>2, <1>4, <1>5, <1>6

\* What a call leaves (refill, gc): its key at the level it asked for, or full
\* if the sweep dropped it, and every other key where it was.
LEMMA LeavesLevels ==
    ASSUME LimiterInv, NEW k \in Key, NEW tokens \in 0..Full, Leaves(k, tokens), UNCHANGED now
    PROVE  /\ buckets' \in [Key -> Bucket] /\ lastGC' \in {0} \cup Time /\ lost' \in [Key -> Nat]
           /\ \A j \in Key : buckets'[j].seen <= now'
           /\ \A j \in Key \ {k} : Level(j)' = Level(j) /\ lost'[j] = lost[j]
           /\ Sweeps(k) => Level(k) = Full /\ Level(k)' = Full /\ lost'[k] = lost[k] + 1
           /\ ~Sweeps(k) => Level(k)' = tokens /\ lost'[k] = lost[k]
  <1>1. /\ now \in Time /\ buckets \in [Key -> Bucket] /\ lastGC \in {0} \cup Time
        /\ lost \in [Key -> Nat] /\ \A j \in Key : buckets[j].seen <= now
    BY DEF LimiterInv, LimiterTypeOK
  <1>2. Full \in Nat /\ 0 * Count = 0 /\ now \in Nat
    <2>1. now \in Nat
      BY <1>1 DEF Time
    <2> QED BY <2>1, Products
  <1>3. CASE Sweeps(k)
    <2>1. buckets' = Swept /\ lastGC' = now /\ lost' = [lost EXCEPT ![k] = @ + 1]
      BY <1>3 DEF Leaves
    <2>2. Absent \in Bucket /\ Absent.seen = 0 /\ Absent.tokens = Full
      BY DEF Absent, Bucket
    <2>3. ASSUME NEW j \in Key
          PROVE  buckets'[j] \in Bucket /\ buckets'[j].seen <= now' /\ Level(j)' = Level(j)
      <3>1. CASE Level(j) = Full
        <4>1. buckets'[j] = Absent
          BY <2>1, <3>1 DEF Swept
        <4>2. (now' - 0) * Count \in Nat
          <5>1. now' - 0 \in Nat
            BY <1>2
          <5> QED BY <5>1, Products
        <4>3. Level(j)' = Full
          BY <1>2, <2>2, <4>1, <4>2 DEF Level, Capped
        <4> QED BY <1>2, <2>2, <3>1, <4>1, <4>3
      <3>2. CASE Level(j) # Full
        <4>1. buckets'[j] = buckets[j]
          BY <2>1, <3>2 DEF Swept
        <4> QED BY <1>1, <4>1 DEF Level
      <3> QED BY <3>1, <3>2
    <2>4. Level(k) = Full
      BY <1>3, Levels DEF Sweeps
    <2>5. buckets' \in [Key -> Bucket]
      BY <2>1, <2>3 DEF Swept
    <2>6. /\ lost' \in [Key -> Nat] /\ lost'[k] = lost[k] + 1
          /\ \A j \in Key \ {k} : lost'[j] = lost[j]
      BY <1>1, <2>1
    <2>7. lastGC' \in {0} \cup Time
      BY <1>1, <2>1
    <2> QED BY <1>3, <2>3, <2>4, <2>5, <2>6, <2>7
  <1>4. CASE ~Sweeps(k)
    <2>1. /\ buckets' = [buckets EXCEPT ![k] = [tokens |-> tokens, seen |-> now]]
          /\ UNCHANGED <<lastGC, lost>>
      BY <1>4 DEF Leaves
    <2>2. [tokens |-> tokens, seen |-> now] \in Bucket
      BY <1>1 DEF Bucket
    <2>3. Level(k)' = tokens
      <3>1. (now' - buckets'[k].seen) * Count = 0 /\ buckets'[k].tokens = tokens
        BY <1>1, <1>2, <2>1
      <3> QED BY <1>2, <3>1 DEF Level, Capped
    <2>4. \A j \in Key \ {k} : Level(j)' = Level(j)
      BY <1>1, <2>1 DEF Level
    <2> QED BY <1>1, <1>2, <1>4, <2>1, <2>2, <2>3, <2>4
  <1> QED BY <1>3, <1>4

-----------------------------------------------------------------------------

\* All buckets are full at the start.
LEMMA InvInit == LimiterInit => LimiterInv
  <1> SUFFICES ASSUME LimiterInit PROVE LimiterInv
    OBVIOUS
  <1>1. Full \in Nat /\ 0 * Window = 0 /\ \A n \in Nat : n * Count \in Nat
    BY Products
  <1>2. LimiterTypeOK
    BY <1>1 DEF LimiterInit, LimiterTypeOK, Bucket, Time
  <1>3. ASSUME NEW k \in Key
        PROVE  buckets[k].seen <= now /\ Within(Level(k), fair[k], ahead[k], lost[k])
    <2>1. buckets[k] = Absent /\ now = 1 /\ fair[k] = Full /\ ahead[k] = 0 /\ lost[k] = 0
      BY DEF LimiterInit
    <2>2. Absent.seen = 0 /\ Absent.tokens = Full
      BY DEF Absent
    <2>3. (now - 0) * Count \in Nat
      BY <1>1, <2>1
    <2>4. Level(k) = Full
      BY <1>1, <2>1, <2>2, <2>3 DEF Level, Capped
    <2> QED BY <1>1, <2>1, <2>2, <2>4 DEF Within
  <1> QED BY <1>2, <1>3 DEF LimiterInv

\* Allow, Refund and the passing of time keep the invariant.
LEMMA InvNext == LimiterInv /\ [LimiterNext]_<<now, limiterVars>> => LimiterInv'
  <1> SUFFICES ASSUME LimiterInv, [LimiterNext]_<<now, limiterVars>> PROVE LimiterInv'
    OBVIOUS
  <1>1. /\ now \in Time /\ buckets \in [Key -> Bucket] /\ lastGC \in {0} \cup Time
        /\ fair \in [Key -> 0..Full] /\ ahead \in [Key -> Int] /\ lost \in [Key -> Nat]
    BY DEF LimiterInv, LimiterTypeOK
  <1>2. \A k \in Key : /\ buckets[k].seen <= now
                       /\ Within(Level(k), fair[k], ahead[k], lost[k])
    BY DEF LimiterInv
  <1>3. ASSUME NEW k \in Key, Allow(k), UNCHANGED now PROVE LimiterInv'
    <2>1. /\ Leaves(k, Charged(Level(k)))
          /\ fair' = [fair EXCEPT ![k] = Charged(@)]
          /\ ahead' = [ahead EXCEPT ![k] = @ + Event(Level(k) >= Window) - Event(fair[k] >= Window)]
      BY <1>3 DEF Allow, Allowed
    <2>2. /\ Level(k) \in 0..Full /\ fair[k] \in 0..Full /\ ahead[k] \in Int /\ lost[k] \in Int
          /\ Within(Level(k), fair[k], ahead[k], lost[k])
      BY <1>1, <1>2, Levels
    <2>3. /\ Charged(Level(k)) \in 0..Full /\ Charged(fair[k]) \in 0..Full
          /\ ahead[k] + Event(Level(k) >= Window) - Event(fair[k] >= Window) \in Int
          /\ Within(Charged(Level(k)), Charged(fair[k]),
                    ahead[k] + Event(Level(k) >= Window) - Event(fair[k] >= Window), lost[k])
      BY <2>2, ChargedAlike
    <2>4. /\ buckets' \in [Key -> Bucket] /\ lastGC' \in {0} \cup Time /\ lost' \in [Key -> Nat]
          /\ \A j \in Key : buckets'[j].seen <= now'
          /\ \A j \in Key \ {k} : Level(j)' = Level(j) /\ lost'[j] = lost[j]
          /\ Sweeps(k) => Level(k) = Full /\ Level(k)' = Full /\ lost'[k] = lost[k] + 1
          /\ ~Sweeps(k) => Level(k)' = Charged(Level(k)) /\ lost'[k] = lost[k]
      BY <1>3, <2>1, <2>3, LeavesLevels
    <2>5. /\ fair' \in [Key -> 0..Full] /\ fair'[k] = Charged(fair[k])
          /\ \A j \in Key \ {k} : fair'[j] = fair[j]
      BY <1>1, <2>1, <2>3
    <2>6. /\ ahead' \in [Key -> Int]
          /\ ahead'[k] = ahead[k] + Event(Level(k) >= Window) - Event(fair[k] >= Window)
          /\ \A j \in Key \ {k} : ahead'[j] = ahead[j]
      BY <1>1, <2>1, <2>3
    <2>7. Within(Level(k)', fair'[k], ahead'[k], lost'[k])
      <3>1. CASE ~Sweeps(k)
        BY <2>3, <2>4, <2>5, <2>6, <3>1
      <3>2. CASE Sweeps(k)
        <4>1. Level(k) = Full /\ (Level(k) >= Window) = TRUE
          BY <2>4, <3>2, Products
        <4>2. Within(Full, Charged(fair[k]),
                     ahead[k] + Event(TRUE) - Event(fair[k] >= Window), lost[k] + 1)
          BY <2>2, <4>1, SweptAlike
        <4> QED BY <2>4, <2>5, <2>6, <3>2, <4>1, <4>2
      <3> QED BY <3>1, <3>2
    <2>8. \A j \in Key \ {k} : Within(Level(j)', fair'[j], ahead'[j], lost'[j])
      BY <1>2, <2>4, <2>5, <2>6
    <2> QED BY <1>1, <1>3, <2>4, <2>5, <2>6, <2>7, <2>8 DEF LimiterInv, LimiterTypeOK
  <1>4. ASSUME NEW k \in Key, Refund(k), UNCHANGED now PROVE LimiterInv'
    <2>1. /\ Leaves(k, Returned(Level(k)))
          /\ fair' = [fair EXCEPT ![k] = Returned(@)]
          /\ ahead' = ahead
      BY <1>4 DEF Refund
    <2>2. /\ Level(k) \in 0..Full /\ fair[k] \in 0..Full /\ ahead[k] \in Int /\ lost[k] \in Int
          /\ Within(Level(k), fair[k], ahead[k], lost[k]) /\ Window \in Nat
      BY <1>1, <1>2, Levels
    <2>3. /\ Returned(Level(k)) \in 0..Full /\ Returned(fair[k]) \in 0..Full
          /\ Within(Returned(Level(k)), Returned(fair[k]), ahead[k], lost[k])
      BY <2>2, Gained DEF Returned
    <2>4. /\ buckets' \in [Key -> Bucket] /\ lastGC' \in {0} \cup Time /\ lost' \in [Key -> Nat]
          /\ \A j \in Key : buckets'[j].seen <= now'
          /\ \A j \in Key \ {k} : Level(j)' = Level(j) /\ lost'[j] = lost[j]
          /\ Sweeps(k) => Level(k) = Full /\ Level(k)' = Full /\ lost'[k] = lost[k] + 1
          /\ ~Sweeps(k) => Level(k)' = Returned(Level(k)) /\ lost'[k] = lost[k]
      BY <1>4, <2>1, <2>3, LeavesLevels
    <2>5. /\ fair' \in [Key -> 0..Full] /\ fair'[k] = Returned(fair[k])
          /\ \A j \in Key \ {k} : fair'[j] = fair[j]
      BY <1>1, <2>1, <2>3
    <2>6. Within(Level(k)', fair'[k], ahead'[k], lost'[k])
      <3>1. CASE ~Sweeps(k)
        BY <2>1, <2>3, <2>4, <2>5, <3>1
      <3>2. CASE Sweeps(k)
        <4>1. Within(Full, Returned(fair[k]), ahead[k], lost[k] + 1)
          BY <2>2, <2>4, <3>2, SweptAlike
        <4> QED BY <2>1, <2>4, <2>5, <3>2, <4>1
      <3> QED BY <3>1, <3>2
    <2>7. \A j \in Key \ {k} : Within(Level(j)', fair'[j], ahead'[j], lost'[j])
      BY <1>2, <2>1, <2>4, <2>5
    <2> QED BY <1>1, <1>4, <2>1, <2>4, <2>5, <2>6, <2>7 DEF LimiterInv, LimiterTypeOK
  <1>5. CASE Refill
    <2>1. /\ now < MaxTime /\ now' = now + 1
          /\ fair' = [k \in Key |-> Capped(fair[k] + Count)]
          /\ UNCHANGED <<buckets, lastGC, ahead, lost>>
      BY <1>5 DEF Refill
    <2>2. ASSUME NEW k \in Key
          PROVE  /\ fair'[k] \in 0..Full /\ buckets'[k].seen <= now'
                 /\ Within(Level(k)', fair'[k], ahead'[k], lost'[k])
      <3>1. /\ Level(k) \in 0..Full /\ fair[k] \in 0..Full /\ ahead[k] \in Int /\ lost[k] \in Int
            /\ Within(Level(k), fair[k], ahead[k], lost[k]) /\ Count \in Nat
        BY <1>1, <1>2, Levels
      <3>2. /\ Capped(fair[k] + Count) \in 0..Full
            /\ Within(Capped(Level(k) + Count), Capped(fair[k] + Count), ahead[k], lost[k])
        BY <3>1, Gained
      <3>3. /\ now \in Nat /\ buckets[k].tokens \in 0..Full /\ buckets[k].seen \in Nat
            /\ (now - buckets[k].seen) * Count \in Nat /\ buckets[k].seen <= now
        BY <1>2, Levels
      <3>4. Level(k)' = Capped(Level(k) + Count)
        <4>1. (now' - buckets[k].seen) * Count = (now - buckets[k].seen) * Count + Count
          <5>1. now - buckets[k].seen \in Nat
                /\ now' - buckets[k].seen = (now - buckets[k].seen) + 1
            BY <2>1, <3>3
          <5> QED BY <5>1, Products
        <4>2. Full \in Nat
          BY Products
        <4> QED BY <2>1, <3>3, <4>1, <4>2 DEF Level, Capped
      <3> QED BY <2>1, <3>2, <3>3, <3>4
    <2>3. now' \in Time
      BY <1>1, <2>1 DEF Time
    <2>4. fair' \in [Key -> 0..Full]
      BY <2>1, <2>2
    <2> QED BY <1>1, <2>1, <2>2, <2>3, <2>4 DEF LimiterInv, LimiterTypeOK
  <1>6. CASE UNCHANGED <<now, limiterVars>>
    BY <1>1, <1>2, <1>6 DEF limiterVars, LimiterInv, LimiterTypeOK, Level
  <1> QED BY <1>3, <1>4, <1>5, <1>6 DEF LimiterNext

-----------------------------------------------------------------------------

\* What a key has and would have never drift apart by more than its lost calls.
THEOREM LevelsStayClose == LimiterSpec => []LimiterInv
  BY InvInit, InvNext, PTL DEF LimiterSpec

\* Levels stay within the limit, however charges, refunds, sweeps and the clock
\* follow one another (refill caps, Refund caps).
THEOREM LimiterTypeCorrect == LimiterSpec => []LimiterTypeOK
  <1>1. LimiterInv => LimiterTypeOK
    BY DEF LimiterInv
  <1> QED BY <1>1, LevelsStayClose, PTL

\* A bucket that gc drops never costs its key an event.
THEOREM NobodyLoses == LimiterSpec => []NeverStricter
  <1>1. LimiterInv => NeverStricter
    BY DEF LimiterInv, LimiterTypeOK, NeverStricter, Within
  <1> QED BY <1>1, LevelsStayClose, PTL

\* And it gains a key no more events than the calls of its own that made gc drop
\* its bucket.
THEOREM NobodyGainsByOthers == LimiterSpec => []GainsAreLost
  <1>1. LimiterInv => GainsAreLost
    BY DEF LimiterInv, LimiterTypeOK, GainsAreLost, Within
  <1> QED BY <1>1, LevelsStayClose, PTL

\* A restart leaves every bucket full, and none ahead.
LEMMA InvForgotten == LimiterInv /\ ForgetBuckets /\ UNCHANGED now => LimiterInv'
  <1> SUFFICES ASSUME LimiterInv, ForgetBuckets, UNCHANGED now PROVE LimiterInv'
    OBVIOUS
  <1>1. Full \in Nat /\ 0 * Window = 0 /\ \A n \in Nat : n * Count \in Nat
    BY Products
  <1>2. now \in Time /\ now \in Nat
    BY DEF LimiterInv, LimiterTypeOK, Time
  <1>3. LimiterTypeOK'
    BY <1>1, <1>2 DEF ForgetBuckets, LimiterTypeOK, Bucket, Time
  <1>4. ASSUME NEW k \in Key
        PROVE  buckets'[k].seen <= now' /\ Within(Level(k)', fair'[k], ahead'[k], lost'[k])
    <2>1. buckets'[k] = Absent /\ now' = now /\ fair'[k] = Full /\ ahead'[k] = 0 /\ lost'[k] = 0
      BY DEF ForgetBuckets
    <2>2. Absent.seen = 0 /\ Absent.tokens = Full
      BY DEF Absent
    <2>3. (now - 0) * Count \in Nat
      BY <1>1, <1>2
    <2>4. Level(k)' = Full
      BY <1>1, <1>2, <2>1, <2>2, <2>3 DEF Level, Capped
    <2> QED BY <1>1, <1>2, <2>1, <2>2, <2>4 DEF Within
  <1> QED BY <1>3, <1>4 DEF LimiterInv

-----------------------------------------------------------------------------
(* The audit tables *)

\* The hour of a time: which it is, and when it began and ended.
LEMMA Hours ==
    ASSUME NEW t \in Nat
    PROVE  /\ HourOf(t) \in Nat \ {0} /\ HourOf(t) <= t + 1
           /\ (HourOf(t) - 1) * Hour <= t /\ t < (HourOf(t) - 1) * Hour + Hour
  <1>1. Hour \in Nat \ {0}
    BY AuditAssumption
  <1>2. t \div Hour \in Nat
    BY <1>1
  <1>3. t \div Hour <= t
    BY <1>1
  <1>4. (t \div Hour) * Hour <= t
    BY <1>1
  <1>5. t < (t \div Hour) * Hour + Hour
    BY <1>1
  <1>6. HourOf(t) - 1 = t \div Hour
    BY <1>2 DEF HourOf
  <1> QED BY <1>2, <1>3, <1>4, <1>5, <1>6 DEF HourOf

\* The hour of a time within the bound is one a row may have.
LEMMA HourTypes ==
    /\ \A t \in Time : t \in Nat /\ HourOf(t) \in 1..(MaxTime + 1)
    /\ MaxTime \in Nat
  <1> SUFFICES ASSUME NEW t \in Time PROVE HourOf(t) \in 1..(MaxTime + 1)
    BY DEF Time
  <1>1. t \in Nat /\ t <= MaxTime
    BY DEF Time
  <1> QED BY <1>1, Hours

\* What a visit, a read and a pruning are at each step of theirs.
LEMMA StepTypes ==
    ASSUME AuditTypeOK
    PROVE  /\ \A v \in Visit : visits[v].at \in {"marked", "failed"} =>
                visits[v] \in [at : {"marked", "failed"}, who : Who, time : Time]
           /\ \A v \in Visit : visits[v].at \notin {"marked", "failed"} => visits[v] = NoVisit
           /\ \A k \in Ask : asks[k].at \in {"read", "record"} =>
                asks[k] \in [at : {"read", "record"}, app : App, time : Time]
           /\ \A k \in Ask : asks[k].at \notin {"read", "record"} => asks[k] = NoAsk
           /\ \A l \in Login : entering[l].at = "record" =>
                entering[l] \in [at : {"record"}, who : SignIn, time : Time]
           /\ pruning.at \in {"events", "access", "reads"} =>
                pruning \in [at : {"events", "access", "reads"}, time : Time]
           /\ pruning # NoPruning => pruning.at \in {"events", "access", "reads"}
  BY DEF AuditTypeOK, Visits, Asks, Logins, NoVisit, NoAsk, NoLogin, NoPruning

\* The steps of the access log, and what each of them leaves alone.
AuditNext ==
    \/ AuditSteps /\ UNCHANGED now
    \/ \E v \in Visit, w \in Who : Visited(v, w) /\ UNCHANGED now
    \/ /\ now < MaxTime /\ now' = now + 1
       /\ \A v \in Visit : visits[v] # NoVisit => now < visits[v].time + MaxLate
       /\ \A k \in Ask : asks[k] # NoAsk => now < asks[k].time + MaxLate
       /\ UNCHANGED auditVars
    \/ AuditRestart /\ UNCHANGED now
    \/ UNCHANGED <<now, auditVars>>

\* Every step of the system is one of them.
LEMMA AuditPart == [Next]_vars => AuditNext
  <1> SUFFICES ASSUME [Next]_vars PROVE AuditNext
    OBVIOUS
  <1>1. CASE LimitSteps /\ UNCHANGED <<now, auditVars>>
    BY <1>1 DEF AuditNext
  <1>2. CASE \E v \in Visit, w \in Who : Visited(v, w) /\ UNCHANGED <<now, AuditOnly>>
    BY <1>2 DEF AuditNext
  <1>3. CASE AuditSteps /\ UNCHANGED <<now, AuditOnly>>
    BY <1>3 DEF AuditNext
  <1>4. CASE Tick
    BY <1>4 DEF Tick, Refill, AuditNext
  <1>5. CASE Restart
    BY <1>5 DEF Restart, AuditNext
  <1>6. CASE UNCHANGED vars
    BY <1>6 DEF vars, AuditNext
  <1> QED BY <1>1, <1>2, <1>3, <1>4, <1>5, <1>6 DEF Next

\* They keep the tables and the requests what they are.
LEMMA AuditTypesKept == ASSUME now \in Time, AuditTypeOK, AuditNext PROVE AuditTypeOK'
  <1>1. /\ hour \in 0..(MaxTime + 1) /\ seen \subseteq Who
        /\ visits \in [Visit -> Visits]
        /\ pruning \in {NoPruning} \cup [at : {"events", "access", "reads"}, time : Time]
        /\ rows \subseteq Row
        /\ entering \in [Login -> Logins] /\ logins \subseteq LoginRow
        /\ signedIn \subseteq [who : SignIn, time : Time, recorded : BOOLEAN]
        /\ asks \in [Ask -> Asks]
        /\ memberReads \subseteq ReadRow /\ answered \subseteq [app : App, time : Time]
    BY DEF AuditTypeOK
  <1>2. ASSUME NEW v \in Visit, RecordAppAccess(v) PROVE AuditTypeOK'
    <2>1. visits[v] \in [at : {"marked", "failed"}, who : Who, time : Time]
      BY <1>2, StepTypes DEF RecordAppAccess
    <2>2. [who |-> visits[v].who, hour |-> HourOf(visits[v].time), time |-> visits[v].time] \in Row
      BY <2>1, HourTypes DEF Row
    <2>3. visits' \in [Visit -> Visits]
      BY <1>1, <1>2, <2>1 DEF RecordAppAccess, Visits
    <2> QED BY <1>1, <1>2, <2>2, <2>3 DEF RecordAppAccess, loginVars, readVars, AuditTypeOK
  <1>3. ASSUME NEW v \in Visit, Unmark(v) PROVE AuditTypeOK'
    <2>1. seen' \subseteq Who
      BY <1>1, <1>3 DEF Unmark, Unmarked
    <2>2. visits' \in [Visit -> Visits]
      BY <1>1, <1>3 DEF Unmark, Visits
    <2> QED BY <1>1, <1>3, <2>1, <2>2 DEF Unmark, loginVars, readVars, AuditTypeOK
  <1>4. CASE PruneEvents
    <2>1. logins' \subseteq LoginRow
      BY <1>1, <1>4 DEF PruneEvents
    <2>2. pruning' \in {NoPruning} \cup [at : {"events", "access", "reads"}, time : Time]
      BY <1>1, <1>4, StepTypes DEF PruneEvents
    <2> QED BY <1>1, <1>4, <2>1, <2>2 DEF PruneEvents, readVars, AuditTypeOK
  <1>5. CASE PruneAccess
    <2>1. pruning' \in {NoPruning} \cup [at : {"events", "access", "reads"}, time : Time]
      BY <1>1, <1>5, StepTypes DEF PruneAccess
    <2> QED BY <1>1, <1>5, <2>1 DEF PruneAccess, loginVars, readVars, AuditTypeOK
  <1>6. CASE PruneReads
    BY <1>1, <1>6 DEF PruneReads, loginVars, AuditTypeOK
  <1>7. CASE PruneFails
    BY <1>1, <1>7 DEF PruneFails, loginVars, readVars, AuditTypeOK
  <1>8. ASSUME NEW k \in Ask, NEW a \in App, HandleGroupMembers(k, a) PROVE AuditTypeOK'
    <2>1. asks' \in [Ask -> Asks]
      BY <1>1, <1>8 DEF HandleGroupMembers, Asks
    <2> QED BY <1>1, <1>8, <2>1 DEF HandleGroupMembers, auditMemory, loginVars, AuditTypeOK
  <1>9. ASSUME NEW k \in Ask, GroupMembersResolved(k) PROVE AuditTypeOK'
    <2>1. asks[k] \in [at : {"read", "record"}, app : App, time : Time]
      BY <1>9, StepTypes DEF GroupMembersResolved
    <2>2. asks' \in [Ask -> Asks]
      BY <1>1, <1>9, <2>1 DEF GroupMembersResolved, Asks
    <2> QED BY <1>1, <1>9, <2>2 DEF GroupMembersResolved, auditMemory, loginVars, AuditTypeOK
  <1>10. ASSUME NEW k \in Ask, RecordMemberRead(k) PROVE AuditTypeOK'
    <2>1. asks[k] \in [at : {"read", "record"}, app : App, time : Time]
      BY <1>10, StepTypes DEF RecordMemberRead
    <2>2. asks' \in [Ask -> Asks]
      BY <1>1, <1>10, <2>1 DEF RecordMemberRead, Asks
    <2>3. WithRead(asks[k].app, asks[k].time) \subseteq ReadRow
      BY <1>1, <2>1, HourTypes DEF WithRead, ReadRow
    <2>4. memberReads' \subseteq ReadRow /\ answered' \subseteq [app : App, time : Time]
      BY <1>1, <1>10, <2>1, <2>3 DEF RecordMemberRead
    <2> QED BY <1>1, <1>10, <2>2, <2>4 DEF RecordMemberRead, auditMemory, loginVars, AuditTypeOK
  <1>11. ASSUME NEW v \in Visit, NEW w \in Who, Visited(v, w) PROVE AuditTypeOK'
    <2>1. PICK t \in Time : Note(v, w, t)
      BY <1>11 DEF Visited
    <2>2. hour' \in 0..(MaxTime + 1)
      BY <2>1, HourTypes DEF Note
    <2>3. seen' \subseteq Who
      BY <1>1, <2>1 DEF Note
    <2>4. visits' \in [Visit -> Visits]
      BY <1>1, <2>1 DEF Note, Visits
    <2>5. pruning' \in {NoPruning} \cup [at : {"events", "access", "reads"}, time : Time]
      BY <1>1, <2>1 DEF Note, KickPrune
    <2> QED BY <1>1, <2>1, <2>2, <2>3, <2>4, <2>5 DEF Note, loginVars, readVars, AuditTypeOK
  <1>12. ASSUME NEW l \in Login, NEW s \in SignIn, CompleteLogin(l, s) PROVE AuditTypeOK'
    <2>1. entering' \in [Login -> Logins]
      BY <1>1, <1>12 DEF CompleteLogin, Logins
    <2> QED BY <1>1, <1>12, <2>1 DEF CompleteLogin, auditMemory, readVars, AuditTypeOK
  <1>13. ASSUME NEW l \in Login, RecordAuth(l) PROVE AuditTypeOK'
    <2>1. entering[l] \in [at : {"record"}, who : SignIn, time : Time]
      BY <1>13, StepTypes DEF RecordAuth
    <2>2. entering' \in [Login -> Logins]
      BY <1>1, <1>13 DEF RecordAuth, Logins
    <2>3. PICK recorded \in BOOLEAN :
            /\ logins' = IF recorded THEN WithLogin(entering[l].who, entering[l].time) ELSE logins
            /\ signedIn' = signedIn \cup
                            {[who |-> entering[l].who, time |-> entering[l].time, recorded |-> recorded]}
      BY <1>13 DEF RecordAuth
    <2>4. logins' \subseteq LoginRow
      BY <1>1, <2>1, <2>3 DEF WithLogin, LoginRow
    <2>5. signedIn' \subseteq [who : SignIn, time : Time, recorded : BOOLEAN]
      BY <1>1, <2>1, <2>3
    <2> QED BY <1>1, <1>13, <2>2, <2>4, <2>5 DEF RecordAuth, auditMemory, readVars, AuditTypeOK
  <1>14. CASE AuditRestart
    <2>1. visits' \in [Visit -> Visits] /\ asks' \in [Ask -> Asks] /\ entering' \in [Login -> Logins]
      BY <1>14 DEF AuditRestart, Visits, Asks, Logins
    <2> QED BY <1>1, <1>14, <2>1, HourTypes DEF AuditRestart, AuditTypeOK
  <1>15. CASE UNCHANGED auditVars
    BY <1>1, <1>15 DEF auditVars, auditMemory, loginVars, readVars, AuditTypeOK
  <1> QED BY <1>2, <1>3, <1>4, <1>5, <1>6, <1>7, <1>8, <1>9, <1>10, <1>11, <1>12, <1>13, <1>14, <1>15
          DEF AuditNext, AuditSteps

\* A request under way carries a time that has passed, by MaxLate at most.
Current(t) == t <= now /\ now <= t + MaxLate

\* The rows of sign-ins are those of sign-ins that went through and were recorded,
\* and all of them but what a pruning took.
LoginsKept ==
    /\ \A r \in logins : [who |-> r.who, time |-> r.time, recorded |-> TRUE] \in signedIn
    /\ \A x \in signedIn :
         x.recorded => \/ [who |-> x.who, time |-> x.time] \in logins
                       \/ Retention # 0 /\ x.time + Retention < now

\* What is missing from the audit tables is too old to be asked for: the record of a
\* read that was answered, too, is there, with a last read hardly earlier, unless it
\* is older than what is kept.
AuditInv ==
    /\ AuditTypeOK /\ now \in Time
    /\ \A k \in Ask : asks[k] # NoAsk => Current(asks[k].time)
    /\ pruning # NoPruning => Retention # 0 /\ pruning.time <= now
    /\ LoginsKept
    /\ \A x \in answered :
         /\ x.time <= now
         /\ \/ \E r \in memberReads :
                 r.app = x.app /\ r.hour = HourOf(x.time) /\ x.time <= r.last + MaxLate
            \/ Retention # 0 /\ x.time + Retention < now + MaxLate

\* The durations are whole numbers of ticks.
LEMMA AuditConstants == Retention \in Nat /\ MaxLate \in Nat /\ Hour \in Nat \ {0}
  BY AuditAssumption, SendLimitsAssumption

\* The tables are empty at the start.
LEMMA AuditInvInit == Init => AuditInv
  <1> SUFFICES ASSUME Init PROVE AuditInv
    OBVIOUS
  <1>1. now \in Time
    BY DEF Init, LimiterInit, Time
  <1>2. AuditTypeOK
    BY HourTypes DEF Init, AuditInit, AuditEmpty, AuditTypeOK, Visits, Asks, Logins
  <1>3. /\ answered = {} /\ asks = [k \in Ask |-> NoAsk] /\ pruning = NoPruning
        /\ logins = {} /\ signedIn = {}
    BY DEF Init, LimiterInit, AuditInit, AuditEmpty
  <1> QED BY <1>1, <1>2, <1>3 DEF AuditInv, LoginsKept

\* A pruning takes what is too old, by the clock it was started with, and a read
\* replaces the record of its hour by one hardly earlier.
LEMMA AuditInvNext == AuditInv /\ [Next]_vars => AuditInv'
  <1> SUFFICES ASSUME AuditInv, [Next]_vars PROVE AuditInv'
    OBVIOUS
  <1> USE DEF Current
  <1>1. AuditNext
    BY AuditPart
  <1>2. /\ AuditTypeOK /\ now \in Time /\ now \in Nat /\ Time \subseteq Nat
        /\ Retention \in Nat /\ MaxLate \in Nat
        /\ \A k \in Ask : asks[k] # NoAsk => Current(asks[k].time)
        /\ pruning # NoPruning => Retention # 0 /\ pruning.time <= now
    BY AuditConstants DEF AuditInv, Time
  <1>3. /\ LoginsKept
        /\ \A x \in answered :
             /\ x.time <= now
             /\ \/ \E r \in memberReads :
                     r.app = x.app /\ r.hour = HourOf(x.time) /\ x.time <= r.last + MaxLate
                \/ Retention # 0 /\ x.time + Retention < now + MaxLate
    BY DEF AuditInv
  <1>4. AuditTypeOK'
    BY <1>1, <1>2, AuditTypesKept
  <1>5. /\ visits \in [Visit -> Visits] /\ asks \in [Ask -> Asks]
        /\ pruning \in {NoPruning} \cup [at : {"events", "access", "reads"}, time : Time]
        /\ logins \subseteq LoginRow
        /\ signedIn \subseteq [who : SignIn, time : Time, recorded : BOOLEAN]
        /\ memberReads \subseteq ReadRow /\ answered \subseteq [app : App, time : Time]
    BY <1>2 DEF AuditTypeOK
  <1>6. ASSUME UNCHANGED <<now, logins, signedIn, asks, memberReads, answered>>,
               pruning' # NoPruning => Retention # 0 /\ pruning'.time <= now
        PROVE  AuditInv'
    BY <1>2, <1>3, <1>4, <1>6 DEF AuditInv, LoginsKept
  <1>7. ASSUME NEW v \in Visit, RecordAppAccess(v) \/ Unmark(v), UNCHANGED now
        PROVE  AuditInv'
    BY <1>2, <1>6, <1>7 DEF RecordAppAccess, Unmark, loginVars, readVars
  <1>8. CASE PruneEvents /\ UNCHANGED now
    <2>1. pruning \in [at : {"events", "access", "reads"}, time : Time] /\ pruning # NoPruning
      BY <1>2, <1>8, StepTypes DEF PruneEvents, NoPruning
    <2>2. pruning'.time = pruning.time
      BY <1>8, <2>1 DEF PruneEvents
    <2>3. LoginsKept'
      <3>1. ASSUME NEW x \in signedIn, x.recorded
            PROVE  \/ [who |-> x.who, time |-> x.time] \in logins'
                   \/ Retention # 0 /\ x.time + Retention < now
        <4>1. x.time \in Nat /\ pruning.time \in Nat /\ Retention # 0 /\ pruning.time <= now
          BY <1>2, <1>5, <2>1
        <4>2. CASE [who |-> x.who, time |-> x.time] \in logins /\ ~Expired(x.time, pruning.time)
          BY <1>8, <4>2 DEF PruneEvents
        <4>3. CASE Expired(x.time, pruning.time)
          BY <1>2, <4>1, <4>3 DEF Expired
        <4> QED BY <1>3, <3>1, <4>2, <4>3 DEF LoginsKept
      <3> QED BY <1>3, <1>8, <3>1 DEF PruneEvents, LoginsKept
    <2> QED BY <1>2, <1>3, <1>4, <1>8, <2>1, <2>2, <2>3 DEF PruneEvents, readVars, AuditInv
  <1>9. CASE PruneAccess /\ UNCHANGED now
    <2>1. pruning \in [at : {"events", "access", "reads"}, time : Time] /\ pruning # NoPruning
      BY <1>2, <1>9, StepTypes DEF PruneAccess, NoPruning
    <2>2. pruning'.time = pruning.time
      BY <1>9, <2>1 DEF PruneAccess
    <2> QED BY <1>2, <1>6, <1>9, <2>1, <2>2 DEF PruneAccess, loginVars, readVars
  <1>10. CASE PruneReads /\ UNCHANGED now
    <2>1. /\ pruning \in [at : {"events", "access", "reads"}, time : Time]
          /\ Retention # 0 /\ pruning.time <= now /\ pruning.time \in Nat
      <3>1. pruning \in [at : {"events", "access", "reads"}, time : Time] /\ pruning # NoPruning
        BY <1>2, <1>10, StepTypes DEF PruneReads, NoPruning
      <3> QED BY <1>2, <3>1
    <2>2. ASSUME NEW x \in answered
          PROVE  \/ \E r \in memberReads' :
                      r.app = x.app /\ r.hour = HourOf(x.time) /\ x.time <= r.last + MaxLate
                 \/ x.time + Retention < now + MaxLate
      <3>1. CASE x.time + Retention < now + MaxLate
        BY <3>1
      <3>2. CASE \E r \in memberReads :
                   r.app = x.app /\ r.hour = HourOf(x.time) /\ x.time <= r.last + MaxLate
        <4>1. PICK r \in memberReads :
                     r.app = x.app /\ r.hour = HourOf(x.time) /\ x.time <= r.last + MaxLate
          BY <3>2
        <4>2. r.last \in Nat /\ x.time \in Nat
          BY <1>2, <1>5 DEF ReadRow
        <4>3. CASE ~Expired(r.last, pruning.time)
          BY <1>10, <4>1, <4>3 DEF PruneReads
        <4>4. CASE Expired(r.last, pruning.time)
          BY <1>2, <2>1, <4>1, <4>2, <4>4 DEF Expired
        <4> QED BY <4>3, <4>4
      <3> QED BY <1>3, <3>1, <3>2
    <2> QED BY <1>2, <1>3, <1>4, <1>10, <2>1, <2>2 DEF PruneReads, loginVars, LoginsKept, AuditInv
  <1>11. CASE PruneFails /\ UNCHANGED now
    BY <1>6, <1>11 DEF PruneFails, loginVars, readVars
  <1>12. ASSUME UNCHANGED <<now, logins, signedIn, pruning, memberReads, answered>>,
                \A k \in Ask : asks'[k] # NoAsk => Current(asks'[k].time)
         PROVE  AuditInv'
    BY <1>2, <1>3, <1>4, <1>12 DEF AuditInv, LoginsKept
  <1>13. ASSUME NEW k \in Ask, NEW a \in App, HandleGroupMembers(k, a), UNCHANGED now
         PROVE  AuditInv'
    <2>1. \A j \in Ask : asks'[j] # NoAsk => Current(asks'[j].time)
      BY <1>2, <1>5, <1>13 DEF HandleGroupMembers
    <2> QED BY <1>12, <1>13, <2>1 DEF HandleGroupMembers, auditMemory, loginVars
  <1>14. ASSUME NEW k \in Ask, GroupMembersResolved(k), UNCHANGED now
         PROVE  AuditInv'
    <2>1. asks[k] \in [at : {"read", "record"}, app : App, time : Time]
      BY <1>2, <1>14, StepTypes DEF GroupMembersResolved
    <2>2. \A j \in Ask : asks'[j] # NoAsk => Current(asks'[j].time)
      BY <1>2, <1>5, <1>14, <2>1 DEF GroupMembersResolved
    <2> QED BY <1>12, <1>14, <2>2 DEF GroupMembersResolved, auditMemory, loginVars
  <1>15. ASSUME NEW k \in Ask, RecordMemberRead(k), UNCHANGED now
         PROVE  AuditInv'
    <2> DEFINE t == asks[k].time
               new == [app |-> asks[k].app, hour |-> HourOf(t), last |-> t]
    <2>1. /\ asks[k] \in [at : {"read", "record"}, app : App, time : Time] /\ asks[k] # NoAsk
          /\ t \in Nat /\ Current(t)
      <3>1. /\ asks[k] \in [at : {"read", "record"}, app : App, time : Time] /\ asks[k] # NoAsk
        BY <1>2, <1>15, StepTypes DEF RecordMemberRead, NoAsk
      <3> QED BY <1>2, <3>1
    <2>2. \A j \in Ask : asks'[j] # NoAsk => Current(asks'[j].time)
      BY <1>2, <1>5, <1>15, <2>1 DEF RecordMemberRead
    <2>3. CASE UNCHANGED <<memberReads, answered>>
      BY <1>12, <1>15, <2>2, <2>3 DEF RecordMemberRead, auditMemory, loginVars
    <2>4. CASE /\ memberReads' = WithRead(asks[k].app, t)
               /\ answered' = answered \cup {[app |-> asks[k].app, time |-> t]}
      <3>1. ASSUME NEW x \in answered'
            PROVE  /\ x.time <= now
                   /\ \/ \E r \in memberReads' :
                           r.app = x.app /\ r.hour = HourOf(x.time) /\ x.time <= r.last + MaxLate
                      \/ Retention # 0 /\ x.time + Retention < now + MaxLate
        <4>1. new \in memberReads' /\ new.app = asks[k].app /\ new.hour = HourOf(t) /\ new.last = t
          BY <2>4 DEF WithRead
        <4>2. CASE x = [app |-> asks[k].app, time |-> t]
          BY <1>2, <2>1, <4>1, <4>2
        <4>3. CASE x \in answered
          <5>1. x.time <= now /\ x.time \in Nat
            BY <1>2, <1>3, <1>5, <4>3
          <5>2. CASE Retention # 0 /\ x.time + Retention < now + MaxLate
            BY <5>1, <5>2
          <5>3. CASE \E r \in memberReads :
                       r.app = x.app /\ r.hour = HourOf(x.time) /\ x.time <= r.last + MaxLate
            <6>1. PICK r \in memberReads :
                         r.app = x.app /\ r.hour = HourOf(x.time) /\ x.time <= r.last + MaxLate
              BY <5>3
            <6>2. CASE r.app # asks[k].app \/ r.hour # HourOf(t)
              BY <2>4, <5>1, <6>1, <6>2 DEF WithRead
            <6>3. CASE r.app = asks[k].app /\ r.hour = HourOf(t)
              BY <1>2, <2>1, <4>1, <5>1, <6>1, <6>3
            <6> QED BY <6>2, <6>3
          <5> QED BY <1>3, <4>3, <5>2, <5>3
        <4> QED BY <2>4, <4>2, <4>3
      <3>2. UNCHANGED pruning /\ LoginsKept'
        BY <1>3, <1>15 DEF RecordMemberRead, auditMemory, loginVars, LoginsKept
      <3> QED BY <1>2, <1>3, <1>4, <1>15, <2>2, <3>1, <3>2 DEF AuditInv
    <2> QED BY <1>15, <2>3, <2>4 DEF RecordMemberRead
  <1>16. ASSUME NEW v \in Visit, NEW w \in Who, Visited(v, w), UNCHANGED now
         PROVE  AuditInv'
    <2>1. PICK t \in Time : t <= now /\ Note(v, w, t)
      BY <1>16 DEF Visited
    <2>2. pruning' # NoPruning => Retention # 0 /\ pruning'.time <= now
      BY <1>2, <2>1 DEF Note, KickPrune
    <2> QED BY <1>6, <1>16, <2>1, <2>2 DEF Note, loginVars, readVars
  <1>17. ASSUME NEW l \in Login, NEW s \in SignIn, CompleteLogin(l, s), UNCHANGED now PROVE AuditInv'
    BY <1>2, <1>6, <1>17 DEF CompleteLogin, auditMemory, readVars
  <1>18. ASSUME NEW l \in Login, RecordAuth(l), UNCHANGED now PROVE AuditInv'
    <2> DEFINE s == entering[l].who
               t == entering[l].time
    <2>1. PICK recorded \in BOOLEAN :
            /\ logins' = IF recorded THEN WithLogin(s, t) ELSE logins
            /\ signedIn' = signedIn \cup {[who |-> s, time |-> t, recorded |-> recorded]}
      BY <1>18 DEF RecordAuth
    <2>2. ASSUME NEW r \in logins'
          PROVE  [who |-> r.who, time |-> r.time, recorded |-> TRUE] \in signedIn'
      <3>1. CASE r \in logins
        BY <1>3, <2>1, <3>1 DEF LoginsKept
      <3>2. CASE recorded = TRUE /\ r = [who |-> s, time |-> t]
        BY <2>1, <3>2
      <3> QED BY <2>1, <3>1, <3>2 DEF WithLogin
    <2>3. ASSUME NEW x \in signedIn', x.recorded
          PROVE  \/ [who |-> x.who, time |-> x.time] \in logins'
                 \/ Retention # 0 /\ x.time + Retention < now
      <3>1. logins \subseteq logins'
        BY <2>1 DEF WithLogin
      <3>2. CASE x \in signedIn
        BY <1>3, <2>3, <3>1, <3>2 DEF LoginsKept
      <3>3. CASE x = [who |-> s, time |-> t, recorded |-> recorded]
        <4>1. recorded /\ x.who = s /\ x.time = t
          BY <2>3, <3>3
        <4> QED BY <2>1, <4>1 DEF WithLogin
      <3> QED BY <2>1, <3>2, <3>3
    <2>4. LoginsKept'
      BY <1>18, <2>2, <2>3 DEF LoginsKept
    <2> QED BY <1>2, <1>3, <1>4, <1>18, <2>4 DEF RecordAuth, auditMemory, readVars, AuditInv
  <1>19. CASE /\ now < MaxTime /\ now' = now + 1
              /\ \A k \in Ask : asks[k] # NoAsk => now < asks[k].time + MaxLate
              /\ UNCHANGED auditVars
    <2>1. now' \in Time /\ UNCHANGED <<logins, signedIn, pruning, asks, memberReads, answered>>
      BY <1>2, <1>19 DEF Time, auditVars, auditMemory, loginVars, readVars
    <2>2. \A k \in Ask : asks[k] # NoAsk => asks[k].time \in Nat
      BY <1>2, <1>5 DEF Asks
    <2>3. ASSUME NEW k \in Ask, asks'[k] # NoAsk PROVE Current(asks[k].time)'
      <3>1. asks[k].time \in Nat /\ asks[k].time <= now /\ now < asks[k].time + MaxLate /\ now' = now + 1
        BY <1>2, <1>19, <2>1, <2>2, <2>3
      <3> QED BY <1>2, <2>1, <3>1
    <2>4. pruning' # NoPruning => Retention # 0 /\ pruning'.time <= now'
      <3>1. pruning # NoPruning => pruning.time \in Nat
        BY <1>2, <1>5
      <3> QED BY <1>2, <1>19, <2>1, <3>1
    <2>5. LoginsKept'
      <3>1. \A x \in signedIn : x.time \in Nat
        BY <1>2, <1>5
      <3> QED BY <1>2, <1>3, <1>19, <2>1, <3>1 DEF LoginsKept
    <2>6. ASSUME NEW x \in answered
          PROVE  /\ x.time <= now'
                 /\ \/ \E r \in memberReads :
                         r.app = x.app /\ r.hour = HourOf(x.time) /\ x.time <= r.last + MaxLate
                    \/ Retention # 0 /\ x.time + Retention < now' + MaxLate
      <3>1. x.time \in Nat
        BY <1>2, <1>5
      <3> QED BY <1>2, <1>3, <1>19, <3>1
    <2> QED BY <1>2, <1>4, <2>1, <2>3, <2>4, <2>5, <2>6 DEF AuditInv
  <1>20. CASE AuditRestart /\ UNCHANGED now
    BY <1>2, <1>3, <1>4, <1>20 DEF AuditRestart, AuditInv, LoginsKept
  <1>21. CASE UNCHANGED <<now, auditVars>>
    BY <1>2, <1>6, <1>21 DEF auditVars, auditMemory, loginVars, readVars
  <1> QED BY <1>1, <1>7, <1>8, <1>9, <1>10, <1>11, <1>13, <1>14, <1>15, <1>16, <1>17, <1>18, <1>19, <1>20,
             <1>21
          DEF AuditNext, AuditSteps

\* So it holds of every execution.
LEMMA AuditInvariant == Spec => []AuditInv
  BY AuditInvInit, AuditInvNext, PTL DEF Spec

\* "No record, no answer" (handleGroupMembers): a read of a group's members that was
\* answered has its record for as long as records are kept.
THEOREM ReadsLeaveRecords == Spec => []ReadsAreRecorded
  <1>1. AuditInv => ReadsAreRecorded
    <2> SUFFICES ASSUME AuditInv, NEW x \in answered,
                        Retention = 0 \/ x.time + Retention >= now + MaxLate
                 PROVE  \E r \in memberReads : r.app = x.app /\ r.hour = HourOf(x.time)
      BY DEF ReadsAreRecorded
    <2>1. x.time \in Nat /\ now \in Nat
      BY DEF AuditInv, AuditTypeOK, Time
    <2>2. ~ (Retention # 0 /\ x.time + Retention < now + MaxLate)
      BY <2>1, AuditConstants
    <2> QED BY <2>2 DEF AuditInv
  <1> QED BY <1>1, AuditInvariant, PTL

\* A request past the ceilings passes for a recorded sign-in of its address from its
\* IP in the window, or there was none but what could not be recorded or is older
\* than the retention (allowSend, HasRecentLogin, recordAuth).
THEOREM DevicesStayKnown == Spec => []KnownDevicesPass
  <1>1. AuditInv => KnownDevicesPass
    <2> SUFFICES ASSUME AuditInv, NEW q \in Request
                 PROVE  LET s == <<reqs[q].addr, reqs[q].ip>>
                            recent == {x \in signedIn : x.who = s /\ x.time + KnownWindow >= reqs[q].time}
                        IN IF HasRecentLogin(s, reqs[q].time)
                             THEN \E x \in recent : x.recorded
                             ELSE \A x \in recent :
                                    x.recorded => Retention # 0 /\ x.time + Retention < now
      BY DEF KnownDevicesPass
    <2> DEFINE s == <<reqs[q].addr, reqs[q].ip>>
               t == reqs[q].time
               recent == {x \in signedIn : x.who = s /\ x.time + KnownWindow >= t}
    <2>1. LoginsKept
      BY DEF AuditInv
    <2>2. ASSUME HasRecentLogin(s, t) PROVE \E x \in recent : x.recorded
      <3>1. PICK r \in logins : r.who = s /\ r.time + KnownWindow >= t
        BY <2>2 DEF HasRecentLogin
      <3>2. [who |-> r.who, time |-> r.time, recorded |-> TRUE] \in recent
        BY <2>1, <3>1 DEF LoginsKept
      <3> QED BY <3>2
    <2>3. ASSUME ~HasRecentLogin(s, t), NEW x \in recent, x.recorded
          PROVE  Retention # 0 /\ x.time + Retention < now
      <3>1. [who |-> x.who, time |-> x.time] \notin logins
        BY <2>3 DEF HasRecentLogin
      <3> QED BY <2>1, <2>3, <3>1 DEF LoginsKept
    <2> QED BY <2>2, <2>3
  <1> QED BY <1>1, AuditInvariant, PTL

-----------------------------------------------------------------------------
(* The access log *)

\* Rows are kept for as long as an hour of the log and a request may last: nothing
\* in the code sees to it, and a year is kept unless AUDIT_RETENTION is set.
KeepsAnHour == Retention = 0 \/ Retention + 1 >= Hour + MaxLate

HourStart(h) == (h - 1) * Hour

\* A pruning under way was not started after the hour that is on, but for the
\* lateness of the request that brought that hour back.
SeenInv ==
    /\ \A v \in Visit : visits[v] # NoVisit => Current(visits[v].time)
    /\ \A r \in rows : r.hour = HourOf(r.time)
    /\ pruning # NoPruning /\ hour # 0 => pruning.time < HourStart(hour) + Hour + MaxLate
    /\ SeenIsRecorded

\* An hour starts at or before its times, and they come before its end.
LEMMA HourStarts ==
    /\ \A h \in Nat : HourStart(h) \in Int
    /\ \A t \in Time : HourStart(HourOf(t)) <= t /\ t < HourStart(HourOf(t)) + Hour
  BY Hours, HourTypes, AuditConstants DEF HourStart

\* Who has a row of the hour, or a request that holds the mark.
Holds(w) ==
    \/ \E r \in rows : r.who = w /\ r.hour = hour
    \/ \E v \in Visit : visits[v] # NoVisit /\ visits[v].who = w /\ HourOf(visits[v].time) = hour

\* Every step keeps who is marked recorded: a failed write keeps its request, and a
\* pruning leaves the rows of the hour that is on.
LEMMA SeenInvNext == KeepsAnHour /\ AuditInv /\ SeenInv /\ [Next]_vars => SeenInv'
  <1> SUFFICES ASSUME KeepsAnHour, AuditInv, SeenInv, [Next]_vars PROVE SeenInv'
    OBVIOUS
  <1> USE DEF Current
  <1>1. AuditNext
    BY AuditPart
  <1>2. /\ AuditTypeOK /\ now \in Time /\ now \in Nat /\ Time \subseteq Nat
        /\ Retention \in Nat /\ MaxLate \in Nat /\ Hour \in Nat
        /\ pruning # NoPruning => Retention # 0 /\ pruning.time <= now
    BY AuditConstants DEF AuditInv, Time
  <1>3. /\ hour \in Nat /\ visits \in [Visit -> Visits] /\ rows \subseteq Row
        /\ pruning \in {NoPruning} \cup [at : {"events", "access", "reads"}, time : Time]
    BY <1>2 DEF AuditTypeOK
  <1>4. /\ \A v \in Visit : visits[v] # NoVisit => Current(visits[v].time)
        /\ \A r \in rows : r.hour = HourOf(r.time)
        /\ pruning # NoPruning /\ hour # 0 => pruning.time < HourStart(hour) + Hour + MaxLate
        /\ \A w \in seen : Holds(w)
    BY DEF SeenInv, SeenIsRecorded, Holds
  <1>5. ASSUME UNCHANGED <<now, hour, seen, visits, rows>>,
               pruning' # NoPruning => pruning # NoPruning /\ pruning'.time = pruning.time
        PROVE  SeenInv'
    BY <1>4, <1>5 DEF SeenInv, SeenIsRecorded, Holds
  <1>6. ASSUME NEW v \in Visit, RecordAppAccess(v), UNCHANGED now
        PROVE  SeenInv'
    <2> DEFINE u == visits[v].who
               t == visits[v].time
    <2>1. /\ visits[v] \in [at : {"marked", "failed"}, who : Who, time : Time] /\ visits[v] # NoVisit
          /\ UNCHANGED <<now, hour, seen, pruning>>
      BY <1>2, <1>6, StepTypes DEF RecordAppAccess, NoVisit
    <2>2. CASE /\ rows' = IF Records(u, t) THEN rows
                          ELSE rows \cup {[who |-> u, hour |-> HourOf(t), time |-> t]}
               /\ visits' = [visits EXCEPT ![v] = NoVisit]
      <3>1. \A x \in Visit : visits'[x] # NoVisit => Current(visits[x].time)'
        BY <1>3, <1>4, <2>1, <2>2
      <3>2. \A r \in rows' : r.hour = HourOf(r.time)
        BY <1>4, <2>2
      <3>3. rows \subseteq rows' /\ \E r \in rows' : r.who = u /\ r.hour = HourOf(t)
        <4>1. CASE Records(u, t)
          BY <2>2, <4>1 DEF Records
        <4>2. CASE ~Records(u, t)
          <5>1. [who |-> u, hour |-> HourOf(t), time |-> t] \in rows' /\ rows \subseteq rows'
            BY <2>2, <4>2
          <5> QED BY <5>1
        <4> QED BY <4>1, <4>2
      <3>4. ASSUME NEW w \in seen PROVE Holds(w)'
        <4>1. CASE \E r \in rows : r.who = w /\ r.hour = hour
          BY <2>1, <3>3, <4>1 DEF Holds
        <4>2. ASSUME NEW x \in Visit, visits[x] # NoVisit, visits[x].who = w, HourOf(visits[x].time) = hour
              PROVE  Holds(w)'
          <5>1. CASE x = v
            BY <2>1, <3>3, <4>2, <5>1 DEF Holds
          <5>2. CASE x # v
            <6>1. visits'[x] = visits[x]
              BY <1>3, <2>2, <5>2
            <6> QED BY <2>1, <4>2, <6>1 DEF Holds
          <5> QED BY <5>1, <5>2
        <4> QED BY <1>4, <4>1, <4>2 DEF Holds
      <3> QED BY <1>4, <2>1, <3>1, <3>2, <3>4 DEF SeenInv, SeenIsRecorded, Holds
    <2>3. CASE visits' = [visits EXCEPT ![v].at = "failed"] /\ UNCHANGED rows
      <3>1. ASSUME NEW x \in Visit
            PROVE  /\ visits'[x] # NoVisit => visits[x] # NoVisit
                   /\ visits[x] # NoVisit =>
                        visits'[x] # NoVisit /\ visits'[x].who = visits[x].who
                        /\ visits'[x].time = visits[x].time
        BY <1>3, <2>1, <2>3 DEF NoVisit
      <3> QED BY <1>4, <2>1, <2>3, <3>1 DEF SeenInv, SeenIsRecorded, Holds
    <2> QED BY <1>6, <2>2, <2>3 DEF RecordAppAccess
  <1>7. ASSUME NEW v \in Visit, Unmark(v), UNCHANGED now
        PROVE  SeenInv'
    <2>1. /\ UNCHANGED <<hour, pruning, rows>> /\ visits' = [visits EXCEPT ![v] = NoVisit]
          /\ seen' = Unmarked(v)
      BY <1>7 DEF Unmark
    <2>2. ASSUME NEW w \in seen' PROVE Holds(w)'
      <3>1. w \in seen /\ ~ (HourOf(visits[v].time) = hour /\ w = visits[v].who)
        BY <2>1, <2>2 DEF Unmarked
      <3>2. CASE \E r \in rows : r.who = w /\ r.hour = hour
        BY <2>1, <3>2 DEF Holds
      <3>3. ASSUME NEW x \in Visit, visits[x] # NoVisit, visits[x].who = w, HourOf(visits[x].time) = hour
            PROVE  Holds(w)'
        <4>1. visits'[x] = visits[x]
          BY <1>3, <2>1, <3>1, <3>3
        <4> QED BY <2>1, <3>3, <4>1 DEF Holds
      <3> QED BY <1>4, <3>1, <3>2, <3>3 DEF Holds
    <2>3. \A x \in Visit : visits'[x] # NoVisit => Current(visits[x].time)'
      BY <1>3, <1>4, <1>7, <2>1
    <2> QED BY <1>4, <1>7, <2>1, <2>2, <2>3 DEF SeenInv, SeenIsRecorded, Holds
  <1>8. CASE (PruneEvents \/ PruneReads \/ PruneFails) /\ UNCHANGED now
    <2>1. pruning' # NoPruning => pruning # NoPruning /\ pruning'.time = pruning.time
      BY <1>2, <1>3, <1>8, StepTypes DEF PruneEvents, PruneReads, PruneFails, NoPruning
    <2> QED BY <1>5, <1>8, <2>1 DEF PruneEvents, PruneReads, PruneFails
  <1>9. CASE PruneAccess /\ UNCHANGED now
    <2>1. /\ pruning \in [at : {"events", "access", "reads"}, time : Time] /\ pruning # NoPruning
          /\ Retention # 0 /\ pruning.time \in Nat
      BY <1>2, <1>9, StepTypes DEF PruneAccess, NoPruning
    <2>2. /\ UNCHANGED <<now, hour, seen, visits>> /\ pruning'.time = pruning.time
          /\ rows' = {r \in rows : ~ Expired(r.time, pruning.time)}
      BY <1>9, <2>1 DEF PruneAccess
    <2>3. ASSUME NEW r \in rows, r.hour = hour PROVE r \in rows'
      <3>1. r.time \in Time /\ r.time \in Nat /\ r.hour # 0 /\ r.hour = HourOf(r.time)
        <4>1. r \in [who : Who, hour : 1..(MaxTime + 1), time : Time] /\ r.hour = HourOf(r.time)
          BY <1>3, <1>4 DEF Row
        <4>2. r.time \in Time
          BY <4>1
        <4> QED BY <1>2, <4>1, <4>2, Hours
      <3>2. HourStart(hour) <= r.time /\ HourStart(hour) \in Int
        BY <1>3, <2>3, <3>1, HourStarts
      <3>3. pruning.time < HourStart(hour) + Hour + MaxLate
        BY <1>4, <2>1, <2>3, <3>1
      <3>4. Retention + 1 >= Hour + MaxLate
        BY <2>1 DEF KeepsAnHour
      <3>5. ~ (r.time + Retention < pruning.time)
        BY <1>2, <2>1, <3>1, <3>2, <3>3, <3>4
      <3> QED BY <2>2, <3>5 DEF Expired
    <2>4. \A w \in seen : Holds(w)'
      BY <1>4, <2>2, <2>3 DEF Holds
    <2> QED BY <1>4, <2>1, <2>2, <2>4 DEF SeenInv, SeenIsRecorded, Holds
  <1>10. ASSUME NEW v \in Visit, NEW w \in Who, Visited(v, w), UNCHANGED now
         PROVE  SeenInv'
    <2>1. PICK t \in Time : t <= now /\ now <= t + MaxLate /\ Note(v, w, t)
      BY <1>10 DEF Visited
    <2>2. /\ visits[v] = NoVisit /\ hour' = HourOf(t) /\ UNCHANGED rows
          /\ t \in Nat /\ HourOf(t) \in Nat /\ HourOf(t) # 0
      BY <1>2, <2>1, HourTypes DEF Note
    <2>3. pruning' # NoPruning => pruning'.time < HourStart(hour') + Hour + MaxLate
      <3>1. t < HourStart(hour') + Hour /\ HourStart(hour') \in Int
        BY <2>2, HourStarts
      <3>2. CASE pruning' = pruning
        <4>1. pruning # NoPruning => pruning.time \in Nat /\ pruning.time <= now
          BY <1>2, <1>3
        <4> HAVE pruning' # NoPruning
        <4>2. pruning.time \in Nat /\ pruning.time <= t + MaxLate
          BY <1>2, <2>1, <2>2, <3>2, <4>1
        <4>3. pruning.time < HourStart(hour') + Hour + MaxLate
          BY <1>2, <2>2, <3>1, <4>2
        <4> QED BY <3>2, <4>3
      <3>3. CASE pruning' = [at |-> "events", time |-> t]
        <4>1. pruning'.time = t
          BY <3>3
        <4>2. t < HourStart(hour') + Hour + MaxLate
          BY <1>2, <2>2, <3>1
        <4> QED BY <4>1, <4>2
      <3> QED BY <2>1, <3>2, <3>3 DEF Note, KickPrune
    <2>4. \A x \in Visit : visits'[x] # NoVisit => Current(visits[x].time)'
      BY <1>2, <1>3, <1>4, <1>10, <2>1 DEF Note
    <2>5. ASSUME NEW u \in seen' PROVE Holds(u)'
      <3>1. CASE \E x \in Visit : visits'[x] # NoVisit /\ visits'[x].who = u /\ HourOf(visits'[x].time) = hour'
        BY <3>1 DEF Holds
      <3>2. CASE u = w /\ visits' = [visits EXCEPT ![v] = [at |-> "marked", who |-> w, time |-> t]]
        <4>1. visits'[v] = [at |-> "marked", who |-> w, time |-> t]
          BY <1>3, <3>2
        <4> QED BY <2>2, <3>1, <3>2, <4>1 DEF NoVisit
      <3>3. CASE hour' = hour /\ u \in seen
        <4>1. ASSUME NEW x \in Visit, visits[x] # NoVisit PROVE visits'[x] = visits[x]
          BY <1>3, <2>1, <2>2, <4>1 DEF Note
        <4>2. Holds(u)
          BY <1>4, <3>3
        <4> QED BY <2>2, <3>3, <4>1, <4>2 DEF Holds
      <3> QED BY <2>1, <2>2, <3>2, <3>3 DEF Note
    <2> QED BY <1>4, <2>2, <2>3, <2>4, <2>5 DEF SeenInv, SeenIsRecorded, Holds
  <1>11. CASE /\ now' = now + 1
              /\ \A v \in Visit : visits[v] # NoVisit => now < visits[v].time + MaxLate
              /\ UNCHANGED auditVars
    <2>1. UNCHANGED <<hour, seen, visits, rows, pruning>>
      BY <1>11 DEF auditVars, auditMemory
    <2>2. \A v \in Visit : visits[v] # NoVisit => visits[v].time \in Nat
      BY <1>2, <1>3 DEF Visits
    <2>3. \A v \in Visit : visits'[v] # NoVisit => Current(visits[v].time)'
      BY <1>2, <1>4, <1>11, <2>1, <2>2
    <2> QED BY <1>4, <2>1, <2>3 DEF SeenInv, SeenIsRecorded, Holds
  <1>12. CASE AuditRestart /\ UNCHANGED now
    BY <1>4, <1>12 DEF AuditRestart, SeenInv, SeenIsRecorded
  <1>13. ASSUME UNCHANGED <<now, auditMemory, rows>> PROVE SeenInv'
    BY <1>5, <1>13 DEF auditMemory
  <1>14. CASE \/ \E k \in Ask, a \in App : HandleGroupMembers(k, a) /\ UNCHANGED now
              \/ \E k \in Ask : (GroupMembersResolved(k) \/ RecordMemberRead(k)) /\ UNCHANGED now
              \/ \E l \in Login, s \in SignIn : CompleteLogin(l, s) /\ UNCHANGED now
              \/ \E l \in Login : RecordAuth(l) /\ UNCHANGED now
    BY <1>13, <1>14 DEF HandleGroupMembers, GroupMembersResolved, RecordMemberRead, CompleteLogin, RecordAuth
  <1> QED BY <1>1, <1>6, <1>7, <1>8, <1>9, <1>10, <1>11, <1>12, <1>13, <1>14
          DEF AuditNext, AuditSteps, auditVars

\* No visit is hidden by the mark of another (accessAudit.record), whatever fails,
\* if rows are kept as long as an hour and a request last.
THEOREM VisitsAreRecorded == ASSUME KeepsAnHour PROVE Spec => []SeenIsRecorded
  <1>1. Init => SeenInv
    BY DEF Init, AuditInit, AuditEmpty, SeenInv, SeenIsRecorded
  <1>2. AuditInv /\ SeenInv /\ [Next]_vars => SeenInv'
    BY SeenInvNext
  <1>3. SeenInv => SeenIsRecorded
    BY DEF SeenInv
  <1> QED BY <1>1, <1>2, <1>3, AuditInvariant, PTL DEF Spec

-----------------------------------------------------------------------------
(* The limits, and the requests they are asked by *)

Busy == [at : Steps, addr : Addr, ip : Ip, time : Time, burned : BOOLEAN]

LimitTypes ==
    /\ own \in [SignIn -> 0..FullOf(Own)]
    /\ ceiling \in [Addr -> 0..FullOf(Ceiling)] /\ daily \in [Addr -> 0..FullOf(Daily)]
    /\ reqs \in [Request -> Requests]
    /\ mails \in 0..MaxSends /\ notices \in 0..MaxSends
    /\ alerted \in [Alerted -> {0} \cup Time]
    /\ dayStart \in {0} \cup Time /\ dayCount \in 0..MaxAlerts
    /\ spent \in [ip : [Ip -> 0..Full], ceiling : [Addr -> 0..FullOf(Ceiling)]]
    /\ reached \in [Addr -> {0} \cup Time] /\ told \in [Alerted -> {0} \cup Time]

ServiceInv ==
    /\ LimiterInv /\ LimitTypes
    /\ \A q \in Request : reqs[q] # Idle => Current(reqs[q].time)

\* A charge, a refund and the passing of time stay within a limit.
LEMMA WithinLimit ==
    ASSUME NEW limit \in [count : Nat \ {0}, window : Nat \ {0}], NEW n \in 0..FullOf(limit)
    PROVE  /\ FullOf(limit) \in Nat /\ limit.window \in Nat /\ limit.count \in Nat
           /\ Take(limit, n) \in 0..FullOf(limit) /\ Less(n, limit.window) \in 0..FullOf(limit)
           /\ \A k \in Nat : AtMost(limit, n + k) \in 0..FullOf(limit)
  <1>1. /\ limit.window \in Nat /\ limit.count \in Nat
    OBVIOUS
  <1>2. FullOf(limit) \in Nat
    BY <1>1 DEF FullOf
  <1> QED BY <1>1, <1>2 DEF Take, Less, AtMost

\* What the limits and bounds are.
LEMMA LimitConstants ==
    /\ \A limit \in {Own, Ceiling, Daily} : limit \in [count : Nat \ {0}, window : Nat \ {0}]
    /\ FullOf(Own) \in Nat /\ FullOf(Ceiling) \in Nat /\ FullOf(Daily) \in Nat
    /\ Full \in Nat /\ MaxSends \in Nat /\ MaxAlerts \in Nat /\ MaxLate \in Nat /\ Day \in Nat \ {0}
    /\ Ip = Key /\ SignIn = Addr \X Ip /\ Permitted \subseteq Addr /\ Overflow \notin Addr
    /\ Time \subseteq Nat \ {0}
  <1>1. \A limit \in {Own, Ceiling, Daily} : limit \in [count : Nat \ {0}, window : Nat \ {0}]
    BY SendLimitsAssumption
  <1>2. \A limit \in {Own, Ceiling, Daily} : FullOf(limit) \in Nat
    BY <1>1 DEF FullOf
  <1>3. Full \in Nat
    BY Products
  <1>4. MaxSends \in Nat /\ MaxAlerts \in Nat /\ MaxLate \in Nat /\ Day \in Nat \ {0}
    BY SendLimitsAssumption
  <1>5. Ip = Key /\ SignIn = Addr \X Ip /\ Permitted \subseteq Addr /\ Overflow \notin Addr
    BY SendLimitsAssumption DEF Ip
  <1>6. Time \subseteq Nat \ {0}
    BY DEF Time
  <1> QED BY <1>1, <1>2, <1>3, <1>4, <1>5, <1>6

\* A request is idle, or all that a request is.
LEMMA RequestSteps ==
    ASSUME LimitTypes, NEW q \in Request
    PROVE  /\ reqs[q].at # "idle" => reqs[q] \in Busy /\ reqs[q] # Idle
           /\ reqs[q].at = "idle" => reqs[q] = Idle
           /\ reqs[q].at \in Steps \cup {"idle"}
  BY DEF LimitTypes, Requests, Busy, Idle, Steps

\* The request goes on, and is still of the same address, or ends.
Onward(q) ==
    /\ reqs[q] \in Busy /\ reqs[q] # Idle
    /\ reqs' \in [Request -> Requests]
    /\ \A p \in Request \ {q} : reqs'[p] = reqs[p]
    /\ \/ reqs'[q] = Idle
       \/ /\ reqs'[q] \in Busy
          /\ reqs'[q].addr = reqs[q].addr /\ reqs'[q].ip = reqs[q].ip
          /\ reqs'[q].time = reqs[q].time /\ reqs'[q].burned = reqs[q].burned

\* To go to a step is to go on ...
LEMMA GoesOn ==
    ASSUME LimitTypes, NEW q \in Request, reqs[q].at # "idle", NEW step \in Steps, GoTo(q, step)
    PROVE  Onward(q) /\ reqs'[q].at = step
  <1>1. reqs[q] \in Busy /\ reqs[q] # Idle /\ reqs \in [Request -> Requests]
    BY RequestSteps DEF LimitTypes
  <1>2. reqs' = [reqs EXCEPT ![q].at = step]
    BY DEF GoTo
  <1>3. reqs'[q] = [reqs[q] EXCEPT !.at = step] /\ \A p \in Request \ {q} : reqs'[p] = reqs[p]
    BY <1>1, <1>2
  <1>4. /\ reqs'[q] \in Busy /\ reqs'[q].at = step
        /\ reqs'[q].addr = reqs[q].addr /\ reqs'[q].ip = reqs[q].ip
        /\ reqs'[q].time = reqs[q].time /\ reqs'[q].burned = reqs[q].burned
    BY <1>1, <1>3 DEF Busy
  <1>5. reqs' \in [Request -> Requests]
    BY <1>1, <1>2, <1>3, <1>4 DEF Requests, Busy
  <1> QED BY <1>1, <1>3, <1>4, <1>5 DEF Onward

\* ... and so is to end ...
LEMMA Ends ==
    ASSUME LimitTypes, NEW q \in Request, reqs[q].at # "idle", End(q)
    PROVE  Onward(q) /\ reqs'[q].at = "idle"
  BY RequestSteps DEF LimitTypes, End, Onward, Requests, Idle

\* ... or to be done with an alert.
LEMMA AlertEnds ==
    ASSUME LimitTypes, NEW q \in Request, reqs[q].at # "idle", AlertDone(q)
    PROVE  Onward(q) /\ reqs'[q].at = IF reqs[q].burned THEN "idle" ELSE "refund"
  BY GoesOn, Ends DEF AlertDone, Steps

\* The steps of a request: where each goes from and to.
LEMMA RequestMoves ==
    ASSUME LimitTypes, NEW q \in Request
    PROVE  /\ ChargeIp(q) => Onward(q) /\ reqs'[q].at \in {"ceiling", "known"}
           /\ ChargeCeiling(q) => Onward(q) /\ reqs'[q].at \in {"daily", "refund"}
           /\ ChargeDaily(q) => Onward(q) /\ reqs'[q].at \in {"idle", "uncharge"}
           /\ RefundCeiling(q) => Onward(q) /\ reqs'[q].at \in {"alert", "refund"}
           /\ RefundIp(q) => Onward(q) /\ reqs'[q].at = "known"
           /\ AskKnown(q) => Onward(q) /\ reqs'[q].at = "idle"
           /\ AlertDue(q) => Onward(q)
           /\ CountAlert(q) => Onward(q) /\ reqs'[q].at \in {"send", "overflow"}
           /\ OverflowDue(q) => Onward(q)
           /\ SendAlert(q) => Onward(q)
  BY GoesOn, Ends, AlertEnds
     DEF Steps, ChargeIp, ChargeCeiling, ChargeDaily, RefundCeiling, RefundIp, AskKnown, AlertDue,
         CountAlert, OverflowDue, SendAlert

\* A request that begins.
Begun(q, step, a, i, b) ==
    /\ reqs[q] = Idle
    /\ reqs' = [reqs EXCEPT ![q] = [at |-> step, addr |-> a, ip |-> i, time |-> now, burned |-> b]]

\* It is then under way, and the others are where they were.
LEMMA Begins ==
    ASSUME LimitTypes, now \in Time, NEW q \in Request, NEW step \in Steps, NEW a \in Addr, NEW i \in Ip,
           NEW b \in BOOLEAN, Begun(q, step, a, i, b)
    PROVE  /\ reqs' \in [Request -> Requests] /\ \A p \in Request \ {q} : reqs'[p] = reqs[p]
           /\ reqs'[q] = [at |-> step, addr |-> a, ip |-> i, time |-> now, burned |-> b]
           /\ reqs'[q] \in Busy
  BY DEF LimitTypes, Begun, Requests, Busy

\* What the limits and the alerts see of a step.
LEMMA LimitPart ==
    [Next]_vars => \/ LimitSteps /\ UNCHANGED now
                   \/ UNCHANGED <<now, AuditOnly>>
                   \/ Tick
                   \/ Restart
  BY DEF Next, vars, AuditOnly

\* The steps of allowSend keep what the limits keep within its bounds ...
LEMMA ChargesKeepTypes ==
    ASSUME LimitTypes, now \in Time, NEW q \in Request,
           \/ \E a \in Addr, i \in Ip : HandleRequest(q, a, i)
           \/ ChargeIp(q) \/ ChargeCeiling(q) \/ ChargeDaily(q) \/ RefundCeiling(q) \/ RefundIp(q)
           \/ AskKnown(q)
    PROVE  LimitTypes'
  <1>1. /\ own \in [SignIn -> 0..FullOf(Own)]
        /\ ceiling \in [Addr -> 0..FullOf(Ceiling)] /\ daily \in [Addr -> 0..FullOf(Daily)]
        /\ reqs \in [Request -> Requests] /\ mails \in 0..MaxSends
        /\ spent \in [ip : [Ip -> 0..Full], ceiling : [Addr -> 0..FullOf(Ceiling)]]
        /\ reached \in [Addr -> {0} \cup Time]
    BY DEF LimitTypes
  <1>2. \A a \in Addr : Send(a) => mails' \in 0..MaxSends
    BY <1>1, LimitConstants DEF Send, MailSaturated
  <1>3. CASE \E a \in Addr, i \in Ip : HandleRequest(q, a, i)
    <2>1. PICK a \in Addr, i \in Ip : HandleRequest(q, a, i)
      BY <1>3
    <2>2. own' \in [SignIn -> 0..FullOf(Own)]
      <3>1. <<a, i>> \in SignIn /\ own' = [own EXCEPT ![<<a, i>>] = Take(Own, own[<<a, i>>])]
        BY <2>1, LimitConstants DEF HandleRequest
      <3> QED BY <1>1, <3>1, WithinLimit, LimitConstants
    <2>3. reqs' \in [Request -> Requests]
      BY <1>1, <2>1, Begins DEF HandleRequest, Begun, Steps
    <2> QED BY <2>1, <2>2, <2>3 DEF HandleRequest, alertVars, LimitTypes
  <1>4. CASE ChargeIp(q) \/ RefundIp(q)
    BY <1>4, RequestMoves DEF ChargeIp, RefundIp, limitVars, alertVars, Onward, LimitTypes
  <1>5. CASE AskKnown(q)
    <2>1. reqs[q] \in Busy
      BY <1>5, RequestSteps DEF AskKnown
    <2>2. mails' \in 0..MaxSends
      BY <1>1, <1>2, <1>5, <2>1 DEF AskKnown, Busy
    <2> QED BY <1>5, <2>2, RequestMoves DEF AskKnown, limitVars, alertVars, Onward, LimitTypes
  <1>6. CASE ChargeCeiling(q)
    <2>1. ceiling' \in [Addr -> 0..FullOf(Ceiling)]
      BY <1>1, <1>6, WithinLimit, LimitConstants DEF ChargeCeiling
    <2> QED BY <1>6, <2>1, RequestMoves DEF ChargeCeiling, alertVars, Onward, LimitTypes
  <1>7. CASE RefundCeiling(q)
    <2>1. \A a \in Addr : Uncharged(a) \in 0..FullOf(Ceiling)
      BY <1>1, WithinLimit, LimitConstants DEF Uncharged
    <2>2. ceiling' \in [Addr -> 0..FullOf(Ceiling)]
      BY <1>1, <1>7, <2>1 DEF RefundCeiling
    <2> QED BY <1>7, <2>2, RequestMoves DEF RefundCeiling, alertVars, Onward, LimitTypes
  <1>8. CASE ChargeDaily(q)
    <2>1. reqs[q] \in Busy /\ reqs[q].addr \in Addr /\ reqs[q].ip \in Ip
      <3>1. reqs[q] \in Busy
        BY <1>8, RequestSteps DEF ChargeDaily
      <3> QED BY <3>1 DEF Busy
    <2>2. daily' \in [Addr -> 0..FullOf(Daily)]
      BY <1>1, <1>8, WithinLimit, LimitConstants DEF ChargeDaily
    <2>3. mails' \in 0..MaxSends
      BY <1>1, <1>2, <1>8, <2>1 DEF ChargeDaily
    <2>4. spent' \in [ip : [Ip -> 0..Full], ceiling : [Addr -> 0..FullOf(Ceiling)]]
      <3>1. \A n \in 0..Full : Less(n, Window) \in 0..Full
        BY LimitConstants, LimiterAssumption DEF Less
      <3>2. \A n \in 0..FullOf(Ceiling) : Less(n, Ceiling.window) \in 0..FullOf(Ceiling)
        BY LimitConstants, WithinLimit
      <3> QED BY <1>1, <1>8, <2>1, <3>1, <3>2 DEF ChargeDaily
    <2>5. reached' \in [Addr -> {0} \cup Time]
      BY <1>1, <1>8 DEF ChargeDaily
    <2> QED BY <1>8, <2>2, <2>3, <2>4, <2>5, RequestMoves DEF ChargeDaily, alertVars, Onward, LimitTypes
  <1> QED BY <1>3, <1>4, <1>5, <1>6, <1>7, <1>8

\* ... and so do those of an alert, and of the mail.
LEMMA AlertsKeepTypes ==
    ASSUME LimitTypes, now \in Time,
           \/ \E q \in Request, a \in Addr, i \in Ip : Burn(q, a, i)
           \/ \E q \in Request : AlertDue(q) \/ CountAlert(q) \/ OverflowDue(q) \/ SendAlert(q)
           \/ MailEnds \/ NoticeEnds \/ OtherNotice
    PROVE  LimitTypes'
  <1>1. /\ reqs \in [Request -> Requests] /\ mails \in 0..MaxSends /\ notices \in 0..MaxSends
        /\ alerted \in [Alerted -> {0} \cup Time] /\ told \in [Alerted -> {0} \cup Time]
        /\ dayStart \in {0} \cup Time /\ dayCount \in 0..MaxAlerts
        /\ reached \in [Addr -> {0} \cup Time]
    BY DEF LimitTypes
  <1>2. \A k \in Alerted, t \in Time : NoteDue(k, t) => alerted' \in [Alerted -> {0} \cup Time]
    BY <1>1 DEF NoteDue
  <1>3. \A q \in Request : reqs[q].at # "idle" => reqs[q].addr \in Addr /\ reqs[q].time \in Time
    BY RequestSteps DEF Busy
  <1>4. ASSUME NEW q \in Request, NEW a \in Addr, NEW i \in Ip, Burn(q, a, i) PROVE LimitTypes'
    <2>1. reqs' \in [Request -> Requests]
      BY <1>4, Begins DEF Burn, Begun, Steps
    <2>2. reached' \in [Addr -> {0} \cup Time]
      BY <1>1, <1>4 DEF Burn
    <2> QED BY <1>4, <2>1, <2>2 DEF Burn, limitVars, alertVars, LimitTypes
  <1>5. ASSUME NEW q \in Request, AlertDue(q) PROVE LimitTypes'
    <2>1. alerted' \in [Alerted -> {0} \cup Time]
      BY <1>1, <1>2, <1>3, <1>5 DEF AlertDue, Alerted
    <2> QED BY <1>5, <2>1, RequestMoves DEF AlertDue, limitVars, Onward, LimitTypes
  <1>6. ASSUME NEW q \in Request, CountAlert(q) PROVE LimitTypes'
    <2>1. dayStart' \in {0} \cup Time /\ dayCount' \in 0..MaxAlerts
      BY <1>1, <1>3, <1>6, LimitConstants DEF CountAlert
    <2> QED BY <1>6, <2>1, RequestMoves DEF CountAlert, limitVars, Onward, LimitTypes
  <1>7. ASSUME NEW q \in Request, OverflowDue(q) PROVE LimitTypes'
    <2>1. alerted' \in [Alerted -> {0} \cup Time]
      BY <1>1, <1>2, <1>3, <1>7 DEF OverflowDue, OverflowKey, Alerted
    <2> QED BY <1>7, <2>1, RequestMoves DEF OverflowDue, limitVars, Onward, LimitTypes
  <1>8. ASSUME NEW q \in Request, SendAlert(q) PROVE LimitTypes'
    <2>1. notices' \in 0..MaxSends
      BY <1>1, <1>8, LimitConstants DEF SendAlert, TakeNotice
    <2>2. told' \in [Alerted -> {0} \cup Time]
      BY <1>1, <1>8 DEF SendAlert
    <2> QED BY <1>8, <2>1, <2>2, RequestMoves DEF SendAlert, limitVars, Onward, LimitTypes
  <1>9. CASE MailEnds \/ NoticeEnds \/ OtherNotice
    <2>1. mails' \in 0..MaxSends /\ notices' \in 0..MaxSends
      BY <1>1, <1>9, LimitConstants DEF MailEnds, NoticeEnds, OtherNotice, TakeNotice, othersIdle
    <2> QED BY <1>9, <2>1 DEF MailEnds, NoticeEnds, OtherNotice, limitVars, othersIdle, LimitTypes
  <1> QED BY <1>4, <1>5, <1>6, <1>7, <1>8, <1>9

\* A step of the limits has a request begin or go on, or leaves them all alone.
LEMMA LimitMoves ==
    ASSUME LimitTypes, now \in Time, LimitSteps
    PROVE  \/ UNCHANGED reqs
           \/ \E q \in Request : Onward(q)
           \/ \E q \in Request : /\ reqs[q] = Idle /\ reqs'[q].time = now
                                 /\ \A p \in Request \ {q} : reqs'[p] = reqs[p]
  <1>1. ASSUME NEW q \in Request, NEW a \in Addr, NEW i \in Ip, HandleRequest(q, a, i) \/ Burn(q, a, i)
        PROVE  UNCHANGED reqs \/ /\ reqs[q] = Idle /\ reqs'[q].time = now
                                 /\ \A p \in Request \ {q} : reqs'[p] = reqs[p]
    <2>1. ASSUME NEW step \in Steps, NEW b \in BOOLEAN, Begun(q, step, a, i, b)
          PROVE  /\ reqs[q] = Idle /\ reqs'[q].time = now
                 /\ \A p \in Request \ {q} : reqs'[p] = reqs[p]
      <3>1. /\ reqs'[q] = [at |-> step, addr |-> a, ip |-> i, time |-> now, burned |-> b]
            /\ \A p \in Request \ {q} : reqs'[p] = reqs[p]
        BY <2>1, Begins
      <3> QED BY <2>1, <3>1 DEF Begun
    <2>2. CASE HandleRequest(q, a, i)
      <3>1. UNCHANGED reqs \/ Begun(q, "ip", a, i, FALSE)
        BY <2>2 DEF HandleRequest, Begun
      <3> QED BY <2>1, <3>1 DEF Steps
    <2>3. CASE Burn(q, a, i)
      <3>1. Begun(q, "alert", a, i, TRUE)
        BY <2>3 DEF Burn, Begun
      <3> QED BY <2>1, <3>1 DEF Steps
    <2> QED BY <1>1, <2>2, <2>3
  <1>2. ASSUME MailEnds \/ NoticeEnds \/ OtherNotice PROVE UNCHANGED reqs
    BY <1>2 DEF MailEnds, NoticeEnds, OtherNotice, othersIdle
  <1>3. ASSUME NEW q \in Request,
               \/ ChargeIp(q) \/ ChargeCeiling(q) \/ ChargeDaily(q) \/ RefundCeiling(q) \/ RefundIp(q)
               \/ AskKnown(q) \/ AlertDue(q) \/ CountAlert(q) \/ OverflowDue(q) \/ SendAlert(q)
        PROVE  Onward(q)
    BY <1>3, RequestMoves
  <1> QED BY <1>1, <1>2, <1>3 DEF LimitSteps

\* At the start every level is full and no request under way.
LEMMA ServiceInvInit == Init => ServiceInv
  <1> SUFFICES ASSUME Init PROVE ServiceInv
    OBVIOUS
  <1>1. LimiterInv
    BY InvInit DEF Init
  <1>2. LimitTypes
    <2>1. Idle \in Requests
      BY DEF Requests
    <2> QED BY <2>1, LimitConstants
            DEF Init, FullLevels, NothingSpent, NoAlerts, NotReached, NoRequests, LimitTypes
  <1>3. reqs = [q \in Request |-> Idle]
    BY DEF Init, NoRequests
  <1> QED BY <1>1, <1>2, <1>3 DEF ServiceInv

\* Every step keeps the levels, slots and requests within their bounds.
LEMMA ServiceInvNext == ServiceInv /\ [Next]_vars => ServiceInv'
  <1> SUFFICES ASSUME ServiceInv, [Next]_vars PROVE ServiceInv'
    OBVIOUS
  <1>1. /\ LimiterInv /\ LimitTypes /\ now \in Time
        /\ \A q \in Request : reqs[q] # Idle => Current(reqs[q].time)
    BY DEF ServiceInv, LimiterInv, LimiterTypeOK
  <1>2. CASE LimitSteps /\ UNCHANGED now
    <2>1. LimiterInv'
      <3>1. CASE \E q \in Request : ChargeIp(q) \/ RefundIp(q)
        <4>1. PICK q \in Request : ChargeIp(q) \/ RefundIp(q)
          BY <3>1
        <4>2. reqs[q].ip \in Key
          BY <1>1, <4>1, RequestSteps, LimitConstants DEF ChargeIp, RefundIp, Busy
        <4>3. LimiterNext
          BY <1>2, <4>1, <4>2 DEF ChargeIp, RefundIp, LimiterNext
        <4> QED BY <1>1, <4>3, InvNext
      <3>2. CASE ~ \E q \in Request : ChargeIp(q) \/ RefundIp(q)
        <4>1. UNCHANGED <<now, limiterVars>>
          BY <1>2, <3>2
             DEF LimitSteps, HandleRequest, Burn, ChargeCeiling, ChargeDaily, RefundCeiling, AskKnown,
                 AlertDue, CountAlert, OverflowDue, SendAlert, MailEnds, NoticeEnds, OtherNotice, othersIdle
        <4> QED BY <1>1, <4>1, InvNext
      <3> QED BY <3>1, <3>2
    <2>2. LimitTypes'
      BY <1>1, <1>2, ChargesKeepTypes, AlertsKeepTypes DEF LimitSteps
    <2>3. \A p \in Request : reqs'[p] # Idle => Current(reqs[p].time)'
      <3>1. Current(now)
        BY <1>1, LimitConstants DEF Current
      <3> QED BY <1>1, <1>2, <3>1, LimitMoves DEF Onward, Current
    <2> QED BY <2>1, <2>2, <2>3 DEF ServiceInv
  <1>3. CASE UNCHANGED <<now, AuditOnly>>
    <2>1. LimiterInv'
      BY <1>1, <1>3, InvNext DEF AuditOnly
    <2> QED BY <1>1, <1>3, <2>1 DEF AuditOnly, limitVars, alertVars, LimitTypes, ServiceInv, Current
  <1>4. CASE Tick
    <2>1. LimiterInv'
      BY <1>1, <1>4, InvNext DEF Tick, LimiterNext
    <2>2. /\ now \in Nat /\ now' = now + 1 /\ UNCHANGED <<reqs, mails, alertVars, reached>>
      BY <1>1, <1>4, LimitConstants DEF Tick, Refill
    <2>3. LimitTypes'
      <3>1. /\ own \in [SignIn -> 0..FullOf(Own)]
            /\ ceiling \in [Addr -> 0..FullOf(Ceiling)] /\ daily \in [Addr -> 0..FullOf(Daily)]
            /\ spent \in [ip : [Ip -> 0..Full], ceiling : [Addr -> 0..FullOf(Ceiling)]]
        BY <1>1 DEF LimitTypes
      <3>2. /\ own' \in [SignIn -> 0..FullOf(Own)]
            /\ ceiling' \in [Addr -> 0..FullOf(Ceiling)] /\ daily' \in [Addr -> 0..FullOf(Daily)]
        BY <1>4, <3>1, WithinLimit, LimitConstants DEF Tick
      <3>3. spent' \in [ip : [Ip -> 0..Full], ceiling : [Addr -> 0..FullOf(Ceiling)]]
        <4>1. \A n \in 0..Full : Capped(n + Count) \in 0..Full
          BY LimitConstants, LimiterAssumption DEF Capped
        <4>2. \A n \in 0..FullOf(Ceiling) : AtMost(Ceiling, n + Ceiling.count) \in 0..FullOf(Ceiling)
          BY WithinLimit, LimitConstants
        <4> QED BY <1>4, <3>1, <4>1, <4>2 DEF Tick
      <3> QED BY <1>1, <2>2, <3>2, <3>3 DEF alertVars, LimitTypes
    <2>4. ASSUME NEW q \in Request, reqs'[q] # Idle PROVE Current(reqs[q].time)'
      <3>1. reqs[q] # Idle /\ reqs[q].time \in Nat
        BY <1>1, <2>2, <2>4, RequestSteps, LimitConstants DEF Busy
      <3>2. now < reqs[q].time + MaxLate
        BY <1>4, <3>1 DEF Tick
      <3> QED BY <1>1, <2>2, <3>1, <3>2, LimitConstants DEF Current
    <2> QED BY <2>1, <2>3, <2>4 DEF ServiceInv
  <1>5. CASE Restart
    <2>1. LimiterInv'
      BY <1>1, <1>5, InvForgotten DEF Restart
    <2>2. LimitTypes'
      <3>1. Idle \in Requests
        BY DEF Requests
      <3> QED BY <1>5, <3>1, LimitConstants
              DEF Restart, FullLevels, NothingSpent, NoAlerts, NotReached, NoRequests, LimitTypes
    <2> QED BY <1>5, <2>1, <2>2 DEF Restart, NoRequests, ServiceInv
  <1> QED BY <1>2, <1>3, <1>4, <1>5, LimitPart

\* So they stay within them.
LEMMA ServiceInvariant == Spec => []ServiceInv
  BY ServiceInvInit, ServiceInvNext, PTL DEF Spec

\* The levels, slots, requests and histories stay what they are, whatever the order
\* of requests, refunds, alerts, prunings, ticks and restarts.
THEOREM LimitsTypeCorrect == Spec => []TypeOK
  <1>1. ServiceInv /\ AuditInv => TypeOK
    BY DEF ServiceInv, LimiterInv, LimitTypes, AuditInv, TypeOK
  <1> QED BY <1>1, ServiceInvariant, AuditInvariant, PTL

\* In the service too, a sweep gives nobody an event by another's call (gc).
THEOREM SweepsGainOthersNothing == Spec => []GainsAreLost
  <1>1. ServiceInv => GainsAreLost
    BY DEF ServiceInv, LimiterInv, LimiterTypeOK, GainsAreLost, Within
  <1> QED BY <1>1, ServiceInvariant, PTL

-----------------------------------------------------------------------------
(* What the administrators are told *)

OverflowGoing == \E q \in Request : reqs[q].at = "sendOverflow"

\* An alert for an address is to be asked for, because of the limit it last reached ...
Asked(a) ==
    \E q \in Request : /\ reqs[q].at \in {"uncharge", "alert"} /\ reqs[q].addr = a
                       /\ reached[a] <= reqs[q].time + MaxLate

\* ... or was due, at a time no more than a day before.
Counted(a) ==
    \E q \in Request : /\ reqs[q].at \in {"count", "send", "overflow"} /\ reqs[q].addr = a
                       /\ reached[a] < reqs[q].time + Day + MaxLate

ReachIsTold(a) ==
    reached[a] # 0 =>
        \/ Asked(a)
        \/ Counted(a)
        \/ OverflowGoing
        \/ ToldWithin(a, reached[a], 1)
        \/ ToldWithin(Overflow, reached[a], 2)

\* What was due is on its way, or was told of, if only of alerts that have stopped.
DueIsTold(a) ==
    alerted[a] # 0 =>
        \/ \E q \in Request : /\ reqs[q].at \in {"count", "send", "overflow"} /\ reqs[q].addr = a
                              /\ alerted[a] <= reqs[q].time
        \/ OverflowGoing
        \/ told[a] >= alerted[a]
        \/ told[Overflow] # 0 /\ alerted[a] < told[Overflow] + Day

OverflowIsTold == alerted[Overflow] # 0 => OverflowGoing \/ told[Overflow] >= alerted[Overflow]

AlertInv ==
    /\ \A a \in Addr : reached[a] <= now
    /\ \A k \in Alerted : told[k] <= now /\ alerted[k] <= now
    /\ OverflowIsTold
    /\ \A a \in Addr : DueIsTold(a)
    /\ \A a \in Permitted \ Guest : ReachIsTold(a)

\* The numbers an alert compares.
LEMMA AlertTypes ==
    ASSUME ServiceInv
    PROVE  /\ now \in Nat /\ Day \in Nat /\ Day > 0 /\ MaxLate \in Nat
           /\ 1 * Day = Day /\ 2 * Day = Day + Day
           /\ \A a \in Addr : reached[a] \in Nat /\ a \in Alerted /\ a # Overflow
           /\ Overflow \in Alerted
           /\ \A k \in Alerted : told[k] \in Nat /\ alerted[k] \in Nat /\ (k \in Addr \/ k = Overflow)
           /\ \A q \in Request : reqs[q].at # "idle" =>
                 /\ reqs[q].time \in Nat /\ reqs[q].time # 0 /\ reqs[q].addr \in Addr
                 /\ reqs[q].time <= now /\ now <= reqs[q].time + MaxLate
  <1>1. /\ reached \in [Addr -> {0} \cup Time] /\ told \in [Alerted -> {0} \cup Time]
        /\ alerted \in [Alerted -> {0} \cup Time] /\ {0} \cup Time \subseteq Nat
        /\ LimitTypes /\ now \in Time
    BY LimitConstants DEF ServiceInv, LimitTypes, LimiterInv, LimiterTypeOK
  <1>2. \A q \in Request : reqs[q].at # "idle" =>
           /\ reqs[q].time \in Time /\ reqs[q].addr \in Addr
           /\ reqs[q].time <= now /\ now <= reqs[q].time + MaxLate
    BY <1>1, RequestSteps DEF ServiceInv, Current, Busy
  <1>3. /\ now \in Nat /\ Day \in Nat /\ Day > 0 /\ MaxLate \in Nat
        /\ 1 * Day = Day /\ 2 * Day = Day + Day
    BY <1>1, LimitConstants
  <1>4. \A a \in Addr : a \in Alerted /\ a # Overflow
    BY LimitConstants DEF Alerted
  <1>5. Overflow \in Alerted /\ \A k \in Alerted : k \in Addr \/ k = Overflow
    BY DEF Alerted
  <1>6. \A a \in Addr : reached[a] \in Nat
    BY <1>1
  <1>7. \A k \in Alerted : told[k] \in Nat /\ alerted[k] \in Nat
    BY <1>1
  <1>8. \A q \in Request : reqs[q].at # "idle" => reqs[q].time \in Nat /\ reqs[q].time # 0
    BY <1>2, LimitConstants
  <1> QED BY <1>2, <1>3, <1>4, <1>5, <1>6, <1>7, <1>8

\* No alert is given up and no key newly due.
Steady ==
    /\ UNCHANGED <<now, told>>
    /\ \A k \in Alerted : alerted'[k] \in {alerted[k], 0}
    /\ \A q \in Request :
         /\ reqs[q].at \in {"uncharge", "alert"} /\ reqs[q].addr \in Permitted =>
              /\ reqs'[q].at \in {"uncharge", "alert"}
              /\ reqs'[q].addr = reqs[q].addr /\ reqs'[q].time = reqs[q].time
         /\ reqs[q].at \in {"count", "send", "overflow"} =>
              /\ reqs'[q].at \in {"count", "send", "overflow"}
              /\ reqs'[q].addr = reqs[q].addr /\ reqs'[q].time = reqs[q].time
         /\ reqs[q].at = "sendOverflow" => reqs'[q].at = "sendOverflow"

\* Such a step leaves the administrators as well told as they were.
LEMMA SteadyAlerts ==
    ASSUME ServiceInv, AlertInv, Steady
    PROVE  /\ \A k \in Alerted : told'[k] <= now' /\ alerted'[k] <= now'
           /\ OverflowIsTold'
           /\ \A a \in Addr : DueIsTold(a)'
           /\ \A a \in Permitted \ Guest : reached'[a] = reached[a] => ReachIsTold(a)'
  <1>1. OverflowGoing => OverflowGoing'
    BY DEF Steady, OverflowGoing
  <1>2. \A k \in Alerted : told'[k] <= now' /\ alerted'[k] <= now'
    BY AlertTypes DEF AlertInv, Steady
  <1>3. OverflowIsTold'
    BY <1>1, AlertTypes DEF AlertInv, Steady, OverflowIsTold
  <1>4. ASSUME NEW a \in Addr PROVE DueIsTold(a)'
    <2> SUFFICES ASSUME alerted'[a] # 0 PROVE DueIsTold(a)'
      BY DEF DueIsTold
    <2>1. alerted'[a] = alerted[a] /\ alerted[a] # 0 /\ told' = told /\ DueIsTold(a)
      BY AlertTypes DEF AlertInv, Steady
    <2>2. ASSUME NEW q \in Request, reqs[q].at \in {"count", "send", "overflow"}, reqs[q].addr = a,
                 alerted[a] <= reqs[q].time
          PROVE  DueIsTold(a)'
      BY <2>1, <2>2 DEF Steady, DueIsTold
    <2> QED BY <1>1, <2>1, <2>2 DEF DueIsTold
  <1>5. ASSUME NEW a \in Permitted \ Guest, reached'[a] = reached[a] PROVE ReachIsTold(a)'
    <2>1. ReachIsTold(a) /\ told' = told
      BY DEF AlertInv, Steady
    <2>2. Asked(a) => Asked(a)'
      BY <1>5 DEF Steady, Asked
    <2>3. Counted(a) => Counted(a)'
      BY <1>5 DEF Steady, Counted
    <2> QED BY <1>1, <1>5, <2>1, <2>2, <2>3 DEF ReachIsTold, ToldWithin
  <1> QED BY <1>2, <1>3, <1>4, <1>5

\* The steps of allowSend give up no alert, and ask for one for the address that
\* has reached its limit.
LEMMA ChargesKeepAlerts ==
    ASSUME ServiceInv, AlertInv, UNCHANGED now, NEW q \in Request,
           \/ \E a \in Addr, i \in Ip : HandleRequest(q, a, i) \/ Burn(q, a, i)
           \/ ChargeIp(q) \/ ChargeCeiling(q) \/ ChargeDaily(q) \/ RefundCeiling(q) \/ RefundIp(q)
           \/ AskKnown(q)
    PROVE  AlertInv'
  <1>1. LimitTypes /\ now \in Time
    BY DEF ServiceInv, LimiterInv, LimiterTypeOK
  <1>2. UNCHANGED <<alerted, told>>
    BY DEF HandleRequest, Burn, ChargeIp, ChargeCeiling, ChargeDaily, RefundCeiling, RefundIp, AskKnown,
           alertVars
  <1>3. ASSUME UNCHANGED reached, Steady PROVE AlertInv'
    BY <1>3, SteadyAlerts DEF AlertInv
  <1>4. ASSUME NEW a \in Addr, reached' = [reached EXCEPT ![a] = now], Steady,
               reqs'[q].at \in {"uncharge", "alert"}, reqs'[q].addr = a, now <= reqs'[q].time + MaxLate
        PROVE  AlertInv'
    <2>1. reached'[a] = now /\ \A b \in Addr \ {a} : reached'[b] = reached[b]
      BY <1>1, <1>4 DEF LimitTypes
    <2>2. Asked(a)'
      BY <1>4, <2>1 DEF Asked
    <2>3. \A b \in Addr : reached'[b] <= now'
      BY <2>1, AlertTypes DEF AlertInv
    <2>4. \A b \in Permitted \ Guest : ReachIsTold(b)'
      BY <1>4, <2>1, <2>2, SteadyAlerts, LimitConstants DEF ReachIsTold
    <2> QED BY <1>4, <2>3, <2>4, SteadyAlerts DEF AlertInv
  <1>5. ASSUME reqs[q].at \notin {"uncharge", "alert", "count", "send", "overflow", "sendOverflow"},
               \A p \in Request \ {q} : reqs'[p] = reqs[p]
        PROVE  Steady
    BY <1>2, <1>5 DEF Steady
  <1>6. ASSUME NEW a \in Addr, NEW i \in Ip, HandleRequest(q, a, i) PROVE AlertInv'
    <2>1. reqs[q].at = "idle" /\ \A p \in Request \ {q} : reqs'[p] = reqs[p]
      BY <1>1, <1>6 DEF HandleRequest, Idle, LimitTypes
    <2> QED BY <1>3, <1>5, <1>6, <2>1 DEF HandleRequest
  <1>7. ASSUME NEW a \in Addr, NEW i \in Ip, Burn(q, a, i) PROVE AlertInv'
    <2>1. Begun(q, "alert", a, i, TRUE)
      BY <1>7 DEF Burn, Begun
    <2>2. /\ reqs'[q] = [at |-> "alert", addr |-> a, ip |-> i, time |-> now, burned |-> TRUE]
          /\ \A p \in Request \ {q} : reqs'[p] = reqs[p]
      BY <1>1, <2>1, Begins DEF Steps
    <2>3. reqs[q].at = "idle"
      BY <1>7 DEF Burn, Idle
    <2>4. reqs'[q].at = "alert" /\ reqs'[q].addr = a /\ reqs'[q].time = now /\ now <= now + MaxLate
      BY <2>2, AlertTypes
    <2> QED BY <1>4, <1>5, <1>7, <2>2, <2>3, <2>4 DEF Burn
  <1>8. CASE ChargeIp(q) \/ ChargeCeiling(q) \/ RefundIp(q) \/ AskKnown(q)
    <2>1. Onward(q) /\ reqs[q].at \in {"ip", "ceiling", "refund", "known"} /\ UNCHANGED reached
      BY <1>1, <1>8, RequestMoves DEF ChargeIp, ChargeCeiling, RefundIp, AskKnown
    <2> QED BY <1>3, <1>5, <2>1 DEF Onward
  <1>9. CASE ChargeDaily(q)
    <2>1. Onward(q) /\ reqs[q].at = "daily" /\ reqs'[q].at \in {"idle", "uncharge"}
      BY <1>1, <1>9, RequestMoves DEF ChargeDaily
    <2>2. Steady
      BY <1>5, <2>1 DEF Onward
    <2>3. CASE UNCHANGED reached
      BY <1>3, <2>2, <2>3
    <2>4. CASE GoTo(q, "uncharge") /\ reached' = [reached EXCEPT ![reqs[q].addr] = now]
      <3>1. reqs'[q].at = "uncharge"
        BY <1>1, <2>1, <2>4, GoesOn DEF Steps
      <3>2. reqs'[q].addr = reqs[q].addr /\ reqs'[q].time = reqs[q].time
        BY <2>1, <3>1 DEF Onward, Idle
      <3>3. reqs[q].addr \in Addr /\ now <= reqs'[q].time + MaxLate
        BY <2>1, <3>2, AlertTypes
      <3> QED BY <1>4, <2>2, <2>4, <3>1, <3>2, <3>3
    <2> QED BY <1>9, <2>3, <2>4 DEF ChargeDaily
  <1>10. CASE RefundCeiling(q)
    <2>1. Onward(q) /\ reqs[q].at = "uncharge" /\ UNCHANGED reached
      BY <1>1, <1>10, RequestMoves DEF RefundCeiling
    <2>2. reqs[q].addr \in Permitted =>
            reqs'[q].at = "alert" /\ reqs'[q].addr = reqs[q].addr /\ reqs'[q].time = reqs[q].time
      <3> HAVE reqs[q].addr \in Permitted
      <3>1. reqs'[q].at = "alert"
        BY <1>1, <1>10, <2>1, GoesOn DEF RefundCeiling, Steps
      <3> QED BY <2>1, <3>1 DEF Onward, Idle
    <2>3. Steady
      BY <1>2, <2>1, <2>2 DEF Steady, Onward
    <2> QED BY <1>3, <2>1, <2>3
  <1> QED BY <1>6, <1>7, <1>8, <1>9, <1>10

\* An alert that is not due, as one was due less than a day before, leaves the
\* administrators told.
LEMMA AlertDueKeeps ==
    ASSUME ServiceInv, AlertInv, UNCHANGED now, NEW q \in Request, AlertDue(q)
    PROVE  AlertInv'
  <1>1. PICK a \in Addr, t \in Nat :
          /\ a = reqs[q].addr /\ t = reqs[q].time /\ t # 0 /\ t <= now /\ now <= t + MaxLate
          /\ LimitTypes /\ UNCHANGED <<told, reached>> /\ reqs[q].at = "alert"
    BY AlertTypes DEF ServiceInv, AlertDue
  <1>2. Onward(q)
    BY <1>1, RequestMoves
  <1>3. \A p \in Request \ {q} : reqs'[p] = reqs[p]
    BY <1>2 DEF Onward
  <1>4. \A b \in Addr : reached'[b] <= now'
    BY <1>1 DEF AlertInv
  <1>5. OverflowGoing => OverflowGoing'
    BY <1>1, <1>3 DEF OverflowGoing
  <1>6. \A b \in Addr \ {a} : Asked(b) => Asked(b)'
    BY <1>1, <1>3 DEF Asked
  <1>7. \A b \in Addr : Counted(b) => Counted(b)'
    BY <1>1, <1>3 DEF Counted
  <1>8. \A b \in (Permitted \ Guest) \ {a} : ReachIsTold(b)'
    BY <1>1, <1>5, <1>6, <1>7, LimitConstants DEF AlertInv, ReachIsTold, ToldWithin
  <1>9. CASE Due(a, t) /\ NoteDue(a, t) /\ GoTo(q, "count")
    <2>1. reqs'[q].at = "count" /\ reqs'[q].addr = a /\ reqs'[q].time = t
      <3>1. reqs'[q].at = "count"
        BY <1>1, <1>9, GoesOn DEF Steps
      <3> QED BY <1>1, <1>2, <3>1 DEF Onward, Idle
    <2>2. alerted'[a] = t /\ \A k \in Alerted \ {a} : alerted'[k] \in {alerted[k], 0}
      BY <1>1, <1>9, AlertTypes DEF NoteDue
    <2>3. \A k \in Alerted : told'[k] <= now' /\ alerted'[k] <= now'
      BY <1>1, <2>2, AlertTypes DEF AlertInv
    <2>4. OverflowIsTold'
      BY <1>1, <1>5, <2>2, AlertTypes DEF AlertInv, OverflowIsTold
    <2>5. DueIsTold(a)'
      BY <1>1, <2>1, <2>2 DEF DueIsTold
    <2>6. ASSUME NEW b \in Addr \ {a} PROVE DueIsTold(b)'
      <3>1. alerted'[b] = 0 \/ alerted'[b] = alerted[b]
        BY <2>2, AlertTypes
      <3> QED BY <1>1, <1>3, <1>5, <3>1 DEF AlertInv, DueIsTold
    <2>7. ReachIsTold(a)'
      <3>1. reached'[a] < t + Day + MaxLate
        BY <1>1, AlertTypes DEF AlertInv
      <3>2. Counted(a)'
        BY <2>1, <3>1 DEF Counted
      <3> QED BY <3>2 DEF ReachIsTold
    <2>8. \A b \in Addr : DueIsTold(b)'
      BY <2>5, <2>6
    <2>9. \A b \in Permitted \ Guest : ReachIsTold(b)'
      BY <1>8, <2>7
    <2> QED BY <1>4, <2>3, <2>4, <2>8, <2>9 DEF AlertInv
  <1>10. CASE ~Due(a, t) /\ UNCHANGED alerted
    <2>1. alerted[a] \in Nat /\ alerted[a] # 0 /\ t < alerted[a] + Day /\ reached[a] \in Nat /\ reached[a] <= now
      BY <1>1, <1>10, AlertTypes DEF Due, AlertInv
    <2>2. reached[a] < alerted[a] + Day + MaxLate
      BY <1>1, <2>1, AlertTypes
    <2>3. ASSUME NEW p \in Request, reqs[p].at \in {"count", "send", "overflow"}, reqs[p].addr = a,
                 alerted[a] <= reqs[p].time
          PROVE  Counted(a)
      <3>1. reached[a] < reqs[p].time + Day + MaxLate
        BY <2>1, <2>2, <2>3, AlertTypes
      <3> QED BY <2>3, <3>1 DEF Counted
    <2>4. told[a] >= alerted[a] => ToldWithin(a, reached[a], 1)
      BY <1>1, <2>1, <2>2, AlertTypes DEF ToldWithin
    <2>5. told[Overflow] # 0 /\ alerted[a] < told[Overflow] + Day => ToldWithin(Overflow, reached[a], 2)
      BY <2>1, <2>2, AlertTypes DEF ToldWithin
    <2>6. DueIsTold(a)
      BY <1>1 DEF AlertInv
    <2>7. Counted(a) \/ OverflowGoing \/ ToldWithin(a, reached[a], 1) \/ ToldWithin(Overflow, reached[a], 2)
      BY <2>1, <2>3, <2>4, <2>5, <2>6 DEF DueIsTold
    <2>8. ReachIsTold(a)'
      BY <1>1, <1>5, <1>7, <2>7 DEF ReachIsTold, ToldWithin
    <2>9. \A b \in Permitted \ Guest : ReachIsTold(b)'
      BY <1>8, <2>8
    <2>10. \A b \in Addr : DueIsTold(b)'
      BY <1>1, <1>3, <1>10 DEF AlertInv, DueIsTold, OverflowGoing
    <2>11. OverflowIsTold' /\ \A k \in Alerted : told'[k] <= now' /\ alerted'[k] <= now'
      BY <1>1, <1>5, <1>10 DEF AlertInv, OverflowIsTold
    <2> QED BY <1>4, <2>9, <2>10, <2>11 DEF AlertInv
  <1> QED BY <1>1, <1>9, <1>10 DEF AlertDue

\* Past the cap, an alert that alerts have stopped is on its way, or was told of
\* less than a day before.
LEMMA OverflowDueKeeps ==
    ASSUME ServiceInv, AlertInv, UNCHANGED now, NEW q \in Request, OverflowDue(q)
    PROVE  AlertInv'
  <1> DEFINE a == reqs[q].addr
             t == reqs[q].time
  <1>1. /\ LimitTypes /\ UNCHANGED <<told, reached>> /\ reqs[q].at = "overflow"
        /\ a \in Addr /\ t \in Nat /\ t # 0 /\ t <= now
    BY AlertTypes DEF ServiceInv, OverflowDue
  <1>2. \A p \in Request \ {q} : reqs'[p] = reqs[p]
    BY <1>1, RequestMoves DEF Onward
  <1>3. \A b \in Addr : reached'[b] <= now'
    BY <1>1 DEF AlertInv
  <1>4. CASE Due(Overflow, t) /\ NoteDue(Overflow, t) /\ GoTo(q, "sendOverflow")
    <2>1. OverflowGoing'
      BY <1>1, <1>4, GoesOn DEF Steps, OverflowGoing
    <2>2. \A k \in Alerted : alerted'[k] \in {alerted[k], 0, t}
      BY <1>4 DEF NoteDue
    <2>3. \A k \in Alerted : told'[k] <= now' /\ alerted'[k] <= now'
      BY <1>1, <2>2, AlertTypes DEF AlertInv
    <2> QED BY <1>3, <2>1, <2>3 DEF AlertInv, ReachIsTold, DueIsTold, OverflowIsTold
  <1>5. CASE ~Due(Overflow, t) /\ UNCHANGED alerted
    <2>1. alerted[Overflow] \in Nat /\ alerted[Overflow] # 0 /\ t < alerted[Overflow] + Day
      BY <1>1, <1>5, AlertTypes DEF Due
    <2>2. OverflowGoing => OverflowGoing'
      BY <1>1, <1>2 DEF OverflowGoing
    <2>3. OverflowGoing \/ told[Overflow] >= alerted[Overflow]
      BY <2>1 DEF AlertInv, OverflowIsTold
    <2>4. CASE OverflowGoing
      BY <1>1, <1>3, <1>5, <2>2, <2>4 DEF AlertInv, ReachIsTold, DueIsTold, OverflowIsTold
    <2>5. CASE told[Overflow] >= alerted[Overflow]
      <3>1. told[Overflow] \in Nat /\ told[Overflow] # 0 /\ t < told[Overflow] + Day
        BY <1>1, <2>1, <2>5, AlertTypes
      <3>2. ASSUME NEW b \in Addr PROVE DueIsTold(b)'
        <4>1. CASE b = a /\ alerted[b] # 0 /\ alerted[b] <= t
          BY <1>1, <1>5, <3>1, <4>1, AlertTypes DEF DueIsTold
        <4>2. CASE ~ (b = a /\ alerted[b] # 0 /\ alerted[b] <= t)
          BY <1>1, <1>2, <1>5, <2>2, <4>2 DEF AlertInv, DueIsTold
        <4> QED BY <4>1, <4>2
      <3>3. ASSUME NEW b \in Permitted \ Guest PROVE ReachIsTold(b)'
        <4>0. b \in Addr /\ ReachIsTold(b)
          BY LimitConstants DEF AlertInv
        <4>1. CASE b = a /\ reached[b] < t + Day + MaxLate
          <5>1. reached[b] < told[Overflow] + 2 * Day + MaxLate
            BY <1>1, <3>1, <4>0, <4>1, AlertTypes
          <5> QED BY <1>1, <3>1, <5>1 DEF ReachIsTold, ToldWithin
        <4>2. CASE ~ (b = a /\ reached[b] < t + Day + MaxLate)
          <5>1. Counted(b) => Counted(b)'
            BY <1>1, <1>2, <4>2 DEF Counted
          <5>2. Asked(b) => Asked(b)'
            BY <1>1, <1>2 DEF Asked
          <5> QED BY <1>1, <2>2, <4>0, <5>1, <5>2 DEF ReachIsTold, ToldWithin
        <4> QED BY <4>1, <4>2
      <3>4. OverflowIsTold' /\ \A k \in Alerted : told'[k] <= now' /\ alerted'[k] <= now'
        BY <1>1, <1>5, <2>5 DEF AlertInv, OverflowIsTold
      <3> QED BY <1>3, <3>2, <3>3, <3>4 DEF AlertInv
    <2> QED BY <2>3, <2>4, <2>5
  <1> QED BY <1>4, <1>5 DEF OverflowDue, OverflowKey

\* An alert that is given to a slot tells of its key.
LEMMA SendAlertKeeps ==
    ASSUME ServiceInv, AlertInv, UNCHANGED now, NEW q \in Request, SendAlert(q)
    PROVE  AlertInv'
  <1> DEFINE k == IF reqs[q].at = "send" THEN reqs[q].addr ELSE Overflow
  <1>1. /\ LimitTypes /\ UNCHANGED <<alerted, reached>> /\ reqs[q].at \in {"send", "sendOverflow"}
        /\ reqs[q].addr \in Addr /\ k \in Alerted
        /\ told \in [Alerted -> {0} \cup Time] /\ told' = [told EXCEPT ![k] = now]
        /\ now \in Nat /\ now # 0
    BY AlertTypes, LimitConstants DEF ServiceInv, SendAlert, LimitTypes, LimiterInv, LimiterTypeOK
  <1>2. \A p \in Request \ {q} : reqs'[p] = reqs[p]
    BY <1>1, RequestMoves DEF Onward
  <1>3. \A b \in Addr : reached'[b] <= now'
    BY <1>1 DEF AlertInv
  <1>4. told'[k] = now /\ \A j \in Alerted \ {k} : told'[j] = told[j]
    BY <1>1
  <1>5. \A j \in Alerted : told'[j] >= told[j] /\ told'[j] <= now' /\ alerted'[j] <= now'
    BY <1>1, <1>4, AlertTypes DEF AlertInv
  <1>6. \A j \in Alerted : told'[j] \in Nat /\ (told[j] # 0 => told'[j] # 0)
    BY <1>1, <1>4, AlertTypes
  <1>7. ASSUME NEW b \in Addr, NEW j \in Alerted, NEW days \in {1, 2}, ToldWithin(j, reached[b], days)
        PROVE  ToldWithin(j, reached[b], days)'
    <2>1. /\ told[j] # 0 /\ reached[b] < told[j] + days * Day + MaxLate /\ days * Day \in Nat
          /\ reached' = reached
      BY <1>1, <1>7, AlertTypes DEF ToldWithin
    <2>2. reached[b] < told'[j] + days * Day + MaxLate
      BY <1>5, <1>6, <2>1, AlertTypes
    <2> QED BY <1>6, <2>1, <2>2 DEF ToldWithin
  <1>8. CASE reqs[q].at = "sendOverflow"
    <2>1. k = Overflow /\ told'[Overflow] = now
      BY <1>4, <1>8
    <2>2. \A b \in Addr : DueIsTold(b)'
      BY <1>1, <2>1, AlertTypes DEF AlertInv, DueIsTold
    <2>3. \A b \in Addr : ToldWithin(Overflow, reached[b], 2)'
      BY <1>1, <2>1, AlertTypes DEF AlertInv, ToldWithin
    <2>4. OverflowIsTold'
      BY <1>1, <1>5, <2>1, AlertTypes DEF OverflowIsTold
    <2> QED BY <1>3, <1>5, <2>2, <2>3, <2>4, LimitConstants DEF AlertInv, ReachIsTold
  <1>9. CASE reqs[q].at = "send"
    <2>1. k = reqs[q].addr /\ k \in Addr /\ k # Overflow /\ told'[Overflow] = told[Overflow]
      BY <1>1, <1>4, <1>9, AlertTypes
    <2>2. OverflowGoing => OverflowGoing'
      BY <1>2, <1>9 DEF OverflowGoing
    <2>3. OverflowIsTold'
      BY <1>1, <2>1, <2>2 DEF AlertInv, OverflowIsTold
    <2>4. ASSUME NEW b \in Addr PROVE DueIsTold(b)'
      <3>1. CASE b = k
        BY <1>1, <1>4, <1>5, <3>1, AlertTypes DEF DueIsTold
      <3>2. CASE b # k
        <4>1. told'[b] = told[b]
          BY <1>4, <3>2, AlertTypes
        <4> QED BY <1>1, <1>2, <2>1, <2>2, <3>2, <4>1 DEF AlertInv, DueIsTold
      <3> QED BY <3>1, <3>2
    <2>5. ASSUME NEW b \in Permitted \ Guest PROVE ReachIsTold(b)'
      <3>0. b \in Addr /\ b \in Alerted /\ Overflow \in Alerted /\ ReachIsTold(b)
        BY LimitConstants DEF AlertInv, Alerted
      <3>1. CASE b = k
        <4>1. ToldWithin(b, reached[b], 1)'
          BY <1>1, <1>4, <3>0, <3>1, AlertTypes DEF AlertInv, ToldWithin
        <4> QED BY <4>1 DEF ReachIsTold
      <3>2. CASE b # k
        <4>1. (Counted(b) => Counted(b)') /\ (Asked(b) => Asked(b)')
          BY <1>1, <1>2, <1>9, <2>1, <3>2 DEF Counted, Asked
        <4> QED BY <1>1, <1>7, <2>2, <3>0, <4>1 DEF ReachIsTold
      <3> QED BY <3>1, <3>2
    <2> QED BY <1>3, <1>5, <2>3, <2>4, <2>5 DEF AlertInv
  <1> QED BY <1>1, <1>8, <1>9

\* Every step keeps them told.
LEMMA AlertInvNext == ServiceInv /\ AlertInv /\ [Next]_vars => AlertInv'
  <1> SUFFICES ASSUME ServiceInv, AlertInv, [Next]_vars PROVE AlertInv'
    OBVIOUS
  <1>1. ASSUME UNCHANGED <<reqs, alerted, told, reached>>, now' \in Nat, now <= now'
        PROVE  AlertInv'
    <2>1. /\ \A a \in Addr : reached'[a] <= now'
          /\ \A k \in Alerted : told'[k] <= now' /\ alerted'[k] <= now'
      BY <1>1, AlertTypes DEF AlertInv
    <2> QED BY <1>1, <2>1
            DEF AlertInv, OverflowIsTold, DueIsTold, ReachIsTold, OverflowGoing, Asked, Counted, ToldWithin
  <1>2. ASSUME NEW q \in Request, CountAlert(q), UNCHANGED now PROVE AlertInv'
    <2>1. LimitTypes /\ reqs[q].at = "count" /\ UNCHANGED <<alerted, told, reached>>
      BY <1>2 DEF ServiceInv, CountAlert
    <2>2. Onward(q) /\ reqs'[q].at \in {"send", "overflow"}
      BY <1>2, <2>1, RequestMoves
    <2>3. Steady
      BY <1>2, <2>1, <2>2 DEF Onward, Steady, Idle
    <2> QED BY <2>1, <2>3, SteadyAlerts DEF AlertInv, Steady
  <1>3. CASE LimitSteps /\ UNCHANGED now
    <2>1. MailEnds \/ NoticeEnds \/ OtherNotice => UNCHANGED <<reqs, alerted, told, reached>>
      BY DEF MailEnds, NoticeEnds, OtherNotice, othersIdle
    <2> QED BY <1>1, <1>2, <1>3, <2>1, AlertTypes, ChargesKeepAlerts, AlertDueKeeps, OverflowDueKeeps,
               SendAlertKeeps
            DEF LimitSteps
  <1>4. CASE UNCHANGED <<now, AuditOnly>>
    BY <1>1, <1>4, AlertTypes DEF AuditOnly, alertVars
  <1>5. CASE Tick
    BY <1>1, <1>5, AlertTypes DEF Tick, Refill, alertVars
  <1>6. CASE Restart
    <2>1. /\ now' = now /\ \A a \in Addr : reached'[a] = 0
          /\ \A k \in Alerted : told'[k] = 0 /\ alerted'[k] = 0
      BY <1>6 DEF Restart, NoAlerts, NotReached
    <2> QED BY <2>1, AlertTypes, LimitConstants DEF AlertInv, OverflowIsTold, DueIsTold, ReachIsTold
  <1> QED BY <1>3, <1>4, <1>5, <1>6, LimitPart

\* The administrators are told of an address that reaches its daily ceiling or has
\* a code destroyed (alertAboutCodes, codeAlerts.due, alertsPerDay.allow), in the
\* day before, or that alerts have stopped, in the two days before.
THEOREM AdministratorsAreTold == Spec => []AlertsTold
  <1>1. Init => AlertInv
    <2> SUFFICES ASSUME Init PROVE AlertInv
      OBVIOUS
    <2>1. /\ now = 1 /\ \A a \in Addr : reached[a] = 0
          /\ \A k \in Alerted : told[k] = 0 /\ alerted[k] = 0
      BY DEF Init, LimiterInit, NoAlerts, NotReached
    <2> QED BY <2>1, LimitConstants DEF AlertInv, OverflowIsTold, DueIsTold, ReachIsTold, Alerted
  <1>2. AlertInv => AlertsTold
    BY DEF AlertInv, ReachIsTold, AlertsTold, AlertUnderWay, Asked, Counted, OverflowGoing
  <1> QED BY <1>1, <1>2, AlertInvNext, ServiceInvariant, PTL DEF Spec

-----------------------------------------------------------------------------
(* What a refused request gives back *)

AlertSteps == {"alert", "count", "overflow", "send", "sendOverflow"}

\* The requests that hold a token of an address's ceiling, and of an IP's cap ...
OwedCeiling(a) == {q \in Request : reqs[q].at \in {"daily", "uncharge"} /\ reqs[q].addr = a}

OwedIp(i) ==
    {q \in Request : reqs[q].at \notin {"idle", "ip", "known"} /\ ~reqs[q].burned /\ reqs[q].ip = i}

\* ... and what they may give back.
CeilingOwed(a) == Cardinality(OwedCeiling(a)) * Ceiling.window

IpOwed(i) == Cardinality(OwedIp(i)) * Window

SpentInv ==
    /\ \A q \in Request : reqs[q].at \in Steps \ AlertSteps => ~reqs[q].burned
    /\ \A a \in Addr : spent.ceiling[a] <= ceiling[a] + CeilingOwed(a)
    /\ \A i \in Ip : spent.ip[i] <= Level(i) + IpOwed(i)

\* One request more or less, of the finitely many there are.
LEMMA OneMore ==
    ASSUME NEW S, NEW T, S \subseteq Request, T \subseteq Request, NEW q \in Request,
           \A p \in Request \ {q} : p \in S <=> p \in T
    PROVE  /\ Cardinality(S) \in Nat /\ Cardinality(T) \in Nat
           /\ (q \in S <=> q \in T) => Cardinality(T) = Cardinality(S)
           /\ q \notin S /\ q \in T => Cardinality(T) = Cardinality(S) + 1
  <1>1. IsFiniteSet(S) /\ IsFiniteSet(T)
    BY SendLimitsAssumption, FS_Subset
  <1>2. Cardinality(S) \in Nat /\ Cardinality(T) \in Nat
    BY <1>1, FS_CardinalityType
  <1>3. (q \in S <=> q \in T) => S = T
    OBVIOUS
  <1>4. q \notin S /\ q \in T => T = S \cup {q}
    OBVIOUS
  <1>5. q \notin S => Cardinality(S \cup {q}) = Cardinality(S) + 1
    BY <1>1, FS_AddElement
  <1> QED BY <1>2, <1>3, <1>4, <1>5

\* One token more.
LEMMA OneMoreToken ==
    ASSUME NEW n \in Nat, NEW w \in Nat
    PROVE  n * w \in Nat /\ (n + 1) * w = n * w + w
  OBVIOUS

\* What is owed changes by what one request holds.
LEMMA OwedMoves ==
    ASSUME NEW q \in Request, \A p \in Request \ {q} : reqs'[p] = reqs[p]
    PROVE  /\ \A a \in Addr :
                /\ CeilingOwed(a) \in Nat /\ CeilingOwed(a)' \in Nat
                /\ (q \in OwedCeiling(a) <=> q \in OwedCeiling(a)') => CeilingOwed(a)' = CeilingOwed(a)
                /\ q \notin OwedCeiling(a) /\ q \in OwedCeiling(a)' =>
                     CeilingOwed(a)' = CeilingOwed(a) + Ceiling.window
                /\ q \in OwedCeiling(a) /\ q \notin OwedCeiling(a)' =>
                     CeilingOwed(a) = CeilingOwed(a)' + Ceiling.window
           /\ \A i \in Ip :
                /\ IpOwed(i) \in Nat /\ IpOwed(i)' \in Nat
                /\ (q \in OwedIp(i) <=> q \in OwedIp(i)') => IpOwed(i)' = IpOwed(i)
                /\ q \notin OwedIp(i) /\ q \in OwedIp(i)' => IpOwed(i)' = IpOwed(i) + Window
                /\ q \in OwedIp(i) /\ q \notin OwedIp(i)' => IpOwed(i) = IpOwed(i)' + Window
  <1>1. Ceiling.window \in Nat /\ Window \in Nat
    BY LimitConstants, LimiterAssumption
  <1>2. ASSUME NEW a \in Addr
        PROVE  /\ CeilingOwed(a) \in Nat /\ CeilingOwed(a)' \in Nat
               /\ (q \in OwedCeiling(a) <=> q \in OwedCeiling(a)') => CeilingOwed(a)' = CeilingOwed(a)
               /\ q \notin OwedCeiling(a) /\ q \in OwedCeiling(a)' =>
                    CeilingOwed(a)' = CeilingOwed(a) + Ceiling.window
               /\ q \in OwedCeiling(a) /\ q \notin OwedCeiling(a)' =>
                    CeilingOwed(a) = CeilingOwed(a)' + Ceiling.window
    <2> DEFINE S == OwedCeiling(a)
               T == OwedCeiling(a)'
    <2>1. S \subseteq Request /\ T \subseteq Request /\ \A p \in Request \ {q} : p \in S <=> p \in T
      BY DEF OwedCeiling
    <2> HIDE DEF S, T
    <2>2. /\ Cardinality(S) \in Nat /\ Cardinality(T) \in Nat
          /\ (q \in S <=> q \in T) => Cardinality(T) = Cardinality(S)
          /\ q \notin S /\ q \in T => Cardinality(T) = Cardinality(S) + 1
          /\ q \in S /\ q \notin T => Cardinality(S) = Cardinality(T) + 1
      BY <2>1, OneMore
    <2>3. CeilingOwed(a) = Cardinality(S) * Ceiling.window /\ CeilingOwed(a)' = Cardinality(T) * Ceiling.window
      BY DEF CeilingOwed, S, T
    <2>4. /\ CeilingOwed(a) \in Nat /\ CeilingOwed(a)' \in Nat
          /\ (q \in S <=> q \in T) => CeilingOwed(a)' = CeilingOwed(a)
          /\ q \notin S /\ q \in T => CeilingOwed(a)' = CeilingOwed(a) + Ceiling.window
          /\ q \in S /\ q \notin T => CeilingOwed(a) = CeilingOwed(a)' + Ceiling.window
      BY <1>1, <2>2, <2>3, OneMoreToken
    <2> QED BY <2>4 DEF S, T
  <1>3. ASSUME NEW i \in Ip
        PROVE  /\ IpOwed(i) \in Nat /\ IpOwed(i)' \in Nat
               /\ (q \in OwedIp(i) <=> q \in OwedIp(i)') => IpOwed(i)' = IpOwed(i)
               /\ q \notin OwedIp(i) /\ q \in OwedIp(i)' => IpOwed(i)' = IpOwed(i) + Window
               /\ q \in OwedIp(i) /\ q \notin OwedIp(i)' => IpOwed(i) = IpOwed(i)' + Window
    <2> DEFINE S == OwedIp(i)
               T == OwedIp(i)'
    <2>1. S \subseteq Request /\ T \subseteq Request /\ \A p \in Request \ {q} : p \in S <=> p \in T
      BY DEF OwedIp
    <2> HIDE DEF S, T
    <2>2. /\ Cardinality(S) \in Nat /\ Cardinality(T) \in Nat
          /\ (q \in S <=> q \in T) => Cardinality(T) = Cardinality(S)
          /\ q \notin S /\ q \in T => Cardinality(T) = Cardinality(S) + 1
          /\ q \in S /\ q \notin T => Cardinality(S) = Cardinality(T) + 1
      BY <2>1, OneMore
    <2>3. IpOwed(i) = Cardinality(S) * Window /\ IpOwed(i)' = Cardinality(T) * Window
      BY DEF IpOwed, S, T
    <2>4. /\ IpOwed(i) \in Nat /\ IpOwed(i)' \in Nat
          /\ (q \in S <=> q \in T) => IpOwed(i)' = IpOwed(i)
          /\ q \notin S /\ q \in T => IpOwed(i)' = IpOwed(i) + Window
          /\ q \in S /\ q \notin T => IpOwed(i) = IpOwed(i)' + Window
      BY <1>1, <2>2, <2>3, OneMoreToken
    <2> QED BY <2>4 DEF S, T
  <1> QED BY <1>2, <1>3

\* A step of a request leaves the rest of the bookkeeping to the three below.
LEMMA SpentParts ==
    ASSUME NEW q \in Request, SpentInv, \A p \in Request \ {q} : reqs'[p] = reqs[p],
           reqs'[q].at \in Steps \ AlertSteps => ~reqs'[q].burned,
           \A a \in Addr : spent'.ceiling[a] <= ceiling'[a] + CeilingOwed(a)',
           \A i \in Ip : spent'.ip[i] <= Level(i)' + IpOwed(i)'
    PROVE  SpentInv'
  BY DEF SpentInv

\* The levels and histories, as numbers.
LEMMA SpentTypes ==
    ASSUME ServiceInv
    PROVE  /\ LimitTypes /\ LimiterInv /\ now \in Time
           /\ Ceiling.window \in Nat /\ Window \in Nat /\ FullOf(Ceiling) \in Nat /\ Full \in Nat
           /\ \A a \in Addr : ceiling[a] \in 0..FullOf(Ceiling) /\ spent.ceiling[a] \in 0..FullOf(Ceiling)
           /\ \A i \in Ip : i \in Key /\ Level(i) \in 0..Full /\ spent.ip[i] \in 0..Full
           /\ \A q \in Request : reqs[q].at # "idle" => reqs[q].addr \in Addr /\ reqs[q].ip \in Ip
  <1>1. LimitTypes /\ LimiterInv /\ now \in Time
    BY DEF ServiceInv, LimiterInv, LimiterTypeOK
  <1>2. \A i \in Ip : i \in Key /\ Level(i) \in 0..Full
    BY <1>1, Levels, LimitConstants
  <1>3. Ceiling.window \in Nat /\ Window \in Nat /\ FullOf(Ceiling) \in Nat /\ Full \in Nat
    BY LimitConstants, LimiterAssumption
  <1>4. /\ \A a \in Addr : ceiling[a] \in 0..FullOf(Ceiling) /\ spent.ceiling[a] \in 0..FullOf(Ceiling)
        /\ \A i \in Ip : spent.ip[i] \in 0..Full
    BY <1>1 DEF LimitTypes
  <1>5. \A q \in Request : reqs[q].at # "idle" => reqs[q].addr \in Addr /\ reqs[q].ip \in Ip
    BY <1>1, RequestSteps DEF Busy
  <1> QED BY <1>1, <1>2, <1>3, <1>4, <1>5

\* A step that neither charges nor gives back, and where the request holds what it
\* held.
LEMMA HoldsOn ==
    ASSUME ServiceInv, SpentInv, UNCHANGED <<now, limiterVars, ceiling, spent>>, NEW q \in Request,
           \A p \in Request \ {q} : reqs'[p] = reqs[p],
           reqs'[q].at \in Steps \ AlertSteps => ~reqs'[q].burned,
           \A a \in Addr : q \in OwedCeiling(a) <=> q \in OwedCeiling(a)',
           \A i \in Ip : q \in OwedIp(i) <=> q \in OwedIp(i)'
    PROVE  SpentInv'
  <1>1. \A a \in Addr : spent'.ceiling[a] <= ceiling'[a] + CeilingOwed(a)'
    BY OwedMoves DEF SpentInv
  <1>2. \A i \in Ip : spent'.ip[i] <= Level(i)' + IpOwed(i)'
    BY OwedMoves DEF SpentInv, limiterVars, Level
  <1> QED BY <1>1, <1>2, SpentParts

\* When a request holds a token of an address, or of an IP.
LEMMA OwedIfHeld ==
    ASSUME NEW q \in Request
    PROVE  /\ \A a : q \in OwedCeiling(a) <=> reqs[q].at \in {"daily", "uncharge"} /\ reqs[q].addr = a
           /\ \A a : q \in OwedCeiling(a)' <=> reqs'[q].at \in {"daily", "uncharge"} /\ reqs'[q].addr = a
           /\ \A i : q \in OwedIp(i) <=>
                reqs[q].at \notin {"idle", "ip", "known"} /\ ~reqs[q].burned /\ reqs[q].ip = i
           /\ \A i : q \in OwedIp(i)' <=>
                reqs'[q].at \notin {"idle", "ip", "known"} /\ ~reqs'[q].burned /\ reqs'[q].ip = i
  BY DEF OwedCeiling, OwedIp

\* The steps that charge nothing: of requests that begin, and of alerts.
LEMMA QuietSteps ==
    ASSUME ServiceInv, SpentInv, UNCHANGED now, NEW q \in Request,
           \/ \E a \in Addr, i \in Ip : HandleRequest(q, a, i) \/ Burn(q, a, i)
           \/ AskKnown(q) \/ AlertDue(q) \/ CountAlert(q) \/ OverflowDue(q) \/ SendAlert(q)
    PROVE  SpentInv'
  <1>1. LimitTypes /\ now \in Time
    BY SpentTypes
  <1>2. UNCHANGED <<now, limiterVars, ceiling, spent>>
    BY DEF HandleRequest, Burn, AskKnown, AlertDue, CountAlert, OverflowDue, SendAlert, limitVars
  <1>3. ASSUME NEW a \in Addr, NEW i \in Ip, NEW step \in {"ip", "alert"}, NEW b \in BOOLEAN,
               Begun(q, step, a, i, b), b <=> step = "alert"
        PROVE  SpentInv'
    <2>1. /\ reqs'[q] = [at |-> step, addr |-> a, ip |-> i, time |-> now, burned |-> b]
          /\ \A p \in Request \ {q} : reqs'[p] = reqs[p]
      BY <1>1, <1>3, Begins DEF Steps
    <2>2. reqs[q].at = "idle" /\ reqs'[q].at = step /\ reqs'[q].burned = b
      BY <1>3, <2>1 DEF Begun, Idle
    <2>3. reqs'[q].at \in Steps \ AlertSteps => ~reqs'[q].burned
      BY <1>3, <2>2 DEF AlertSteps
    <2> QED BY <1>2, <1>3, <2>1, <2>2, <2>3, HoldsOn, OwedIfHeld
  <1>4. ASSUME NEW a \in Addr, NEW i \in Ip, HandleRequest(q, a, i) PROVE SpentInv'
    <2>1. UNCHANGED reqs \/ Begun(q, "ip", a, i, FALSE)
      BY <1>4 DEF HandleRequest, Begun
    <2>2. CASE UNCHANGED reqs
      BY <1>2, <2>2 DEF SpentInv, limiterVars, Level, CeilingOwed, IpOwed, OwedCeiling, OwedIp
    <2> QED BY <1>3, <2>1, <2>2
  <1>5. ASSUME NEW a \in Addr, NEW i \in Ip, Burn(q, a, i) PROVE SpentInv'
    <2>1. Begun(q, "alert", a, i, TRUE)
      BY <1>5 DEF Burn, Begun
    <2> QED BY <1>3, <2>1
  <1>6. CASE AskKnown(q)
    <2>1. Onward(q) /\ reqs[q].at = "known" /\ reqs'[q].at = "idle"
      BY <1>1, <1>6, RequestMoves DEF AskKnown
    <2> QED BY <1>2, <2>1, HoldsOn, OwedIfHeld DEF Onward, Steps
  <1>7. ASSUME Onward(q), reqs[q].at \in AlertSteps,
               \/ reqs'[q].at \in AlertSteps
               \/ reqs'[q].at = IF reqs[q].burned THEN "idle" ELSE "refund"
        PROVE  SpentInv'
    <2>1. reqs[q].burned \in BOOLEAN
      BY <1>7 DEF Onward, Busy
    <2>2. CASE reqs'[q].at \in AlertSteps
      <3>1. reqs'[q].ip = reqs[q].ip /\ reqs'[q].burned = reqs[q].burned
        BY <1>7, <2>2 DEF Onward, Idle, AlertSteps
      <3> QED BY <1>2, <1>7, <2>2, <3>1, HoldsOn, OwedIfHeld DEF Onward, AlertSteps
    <2>3. CASE reqs[q].burned /\ reqs'[q].at = "idle"
      BY <1>2, <1>7, <2>3, HoldsOn, OwedIfHeld DEF Onward, AlertSteps, Steps
    <2>4. CASE ~reqs[q].burned /\ reqs'[q].at = "refund"
      <3>1. reqs'[q].ip = reqs[q].ip /\ reqs'[q].burned = reqs[q].burned
        BY <1>7, <2>4 DEF Onward, Idle
      <3> QED BY <1>2, <1>7, <2>4, <3>1, HoldsOn, OwedIfHeld DEF Onward, AlertSteps
    <2> QED BY <1>7, <2>1, <2>2, <2>3, <2>4
  <1>8. CASE AlertDue(q)
    BY <1>1, <1>7, <1>8, RequestMoves, GoesOn, AlertEnds DEF AlertDue, AlertSteps, Steps
  <1>9. CASE CountAlert(q)
    BY <1>1, <1>7, <1>9, RequestMoves DEF CountAlert, AlertSteps
  <1>10. CASE OverflowDue(q)
    BY <1>1, <1>7, <1>10, RequestMoves, GoesOn, AlertEnds DEF OverflowDue, AlertSteps, Steps
  <1>11. CASE SendAlert(q)
    BY <1>1, <1>7, <1>11, RequestMoves, AlertEnds DEF SendAlert, AlertSteps
  <1> QED BY <1>4, <1>5, <1>6, <1>8, <1>9, <1>10, <1>11

\* The cap on an IP is charged, or given back.
LEMMA IpSteps ==
    ASSUME ServiceInv, SpentInv, UNCHANGED now, NEW q \in Request, ChargeIp(q) \/ RefundIp(q)
    PROVE  SpentInv'
  <1>1. LimitTypes /\ LimiterInv /\ UNCHANGED <<ceiling, spent>>
    BY SpentTypes DEF ChargeIp, RefundIp, limitVars
  <1>2. PICK i \in Key : /\ i = reqs[q].ip /\ i \in Ip
                         /\ reqs[q].at \in {"ip", "refund"} /\ Onward(q) /\ ~reqs[q].burned
    BY <1>1, SpentTypes, RequestMoves DEF ChargeIp, RefundIp, SpentInv, Steps, AlertSteps
  <1>3. /\ Charged(Level(i)) \in 0..Full /\ Returned(Level(i)) \in 0..Full
        /\ Level(i) \in 0..Full /\ Window \in Nat /\ Full \in Nat
    BY <1>2, SpentTypes DEF Charged, Returned, Capped
  <1>4. /\ reqs'[q].at \in {"ceiling", "known"} /\ ~reqs'[q].burned /\ reqs'[q].ip = i
        /\ \A p \in Request \ {q} : reqs'[p] = reqs[p]
    <2>1. reqs'[q].at \in {"ceiling", "known"}
      BY <1>1, RequestMoves
    <2> QED BY <1>2, <2>1 DEF Onward, Idle
  <1>5. \A a \in Addr : spent'.ceiling[a] <= ceiling'[a] + CeilingOwed(a)'
    BY <1>1, <1>2, <1>4, OwedMoves, OwedIfHeld DEF SpentInv
  <1>6. \A j \in Ip \ {i} : IpOwed(j)' = IpOwed(j)
    BY <1>2, <1>4, OwedMoves, OwedIfHeld
  <1>7. /\ spent.ip[i] <= Level(i) + IpOwed(i) /\ spent.ip[i] \in 0..Full
        /\ IpOwed(i) \in Nat /\ IpOwed(i)' \in Nat
    BY <1>2, <1>4, SpentTypes, OwedMoves DEF SpentInv
  <1>8. CASE ChargeIp(q)
    <2>1. Leaves(i, Charged(Level(i))) /\ GoTo(q, IF Allowed(i) THEN "ceiling" ELSE "known")
      BY <1>2, <1>8 DEF ChargeIp, Allow
    <2>2. /\ \A j \in Key \ {i} : Level(j)' = Level(j)
          /\ Sweeps(i) => Level(i)' = Full
          /\ ~Sweeps(i) => Level(i)' = Charged(Level(i))
      BY <1>1, <1>2, <1>3, <2>1, LeavesLevels
    <2>3. CASE Allowed(i)
      <3>1. reqs'[q].at = "ceiling"
        BY <1>1, <1>2, <2>1, <2>3, GoesOn DEF Steps
      <3>2. IpOwed(i)' = IpOwed(i) + Window
        BY <1>2, <1>4, <1>8, <3>1, OwedMoves, OwedIfHeld DEF ChargeIp
      <3>3. Charged(Level(i)) = Level(i) - Window
        BY <1>3, <2>3 DEF Allowed, Charged
      <3>4. spent'.ip[i] <= Level(i)' + IpOwed(i)'
        BY <1>1, <1>3, <1>7, <2>2, <3>2, <3>3
      <3> QED BY <1>1, <1>4, <1>5, <1>6, <2>2, <3>4, SpentTypes, SpentParts DEF SpentInv
    <2>4. CASE ~Allowed(i)
      <3>1. reqs'[q].at = "known"
        BY <1>1, <1>2, <2>1, <2>4, GoesOn DEF Steps
      <3>2. IpOwed(i)' = IpOwed(i)
        BY <1>2, <1>4, <1>8, <3>1, OwedMoves, OwedIfHeld DEF ChargeIp
      <3>3. Charged(Level(i)) = Level(i)
        BY <2>4 DEF Allowed, Charged
      <3>4. spent'.ip[i] <= Level(i)' + IpOwed(i)'
        BY <1>1, <1>3, <1>7, <2>2, <3>2, <3>3
      <3> QED BY <1>1, <1>4, <1>5, <1>6, <2>2, <3>4, SpentTypes, SpentParts DEF SpentInv
    <2> QED BY <2>3, <2>4
  <1>9. CASE RefundIp(q)
    <2>1. Leaves(i, Returned(Level(i))) /\ reqs[q].at = "refund"
      BY <1>2, <1>9 DEF RefundIp, Refund
    <2>2. /\ \A j \in Key \ {i} : Level(j)' = Level(j)
          /\ Sweeps(i) => Level(i)' = Full
          /\ ~Sweeps(i) => Level(i)' = Returned(Level(i))
      BY <1>1, <1>2, <1>3, <2>1, LeavesLevels
    <2>3. reqs'[q].at = "known"
      BY <1>1, <1>9, RequestMoves
    <2>4. IpOwed(i) = IpOwed(i)' + Window
      BY <1>2, <1>4, <2>1, <2>3, OwedMoves, OwedIfHeld
    <2>5. spent'.ip[i] <= Level(i)' + IpOwed(i)'
      BY <1>1, <1>3, <1>7, <2>2, <2>4 DEF Returned, Capped
    <2> QED BY <1>1, <1>4, <1>5, <1>6, <2>2, <2>5, SpentTypes, SpentParts DEF SpentInv
  <1> QED BY <1>8, <1>9

\* The ceiling of an address is charged or given back, or the day's limit that the
\* request is charged last.
LEMMA CeilingSteps ==
    ASSUME ServiceInv, SpentInv, UNCHANGED now, NEW q \in Request,
           ChargeCeiling(q) \/ ChargeDaily(q) \/ RefundCeiling(q)
    PROVE  SpentInv'
  <1>1. LimitTypes /\ UNCHANGED limiterVars
    BY SpentTypes DEF ChargeCeiling, ChargeDaily, RefundCeiling
  <1>2. PICK a \in Addr, i \in Ip :
          /\ a = reqs[q].addr /\ i = reqs[q].ip /\ Onward(q) /\ ~reqs[q].burned
          /\ reqs[q].at \in {"ceiling", "daily", "uncharge"}
    BY <1>1, SpentTypes, RequestMoves
       DEF ChargeCeiling, ChargeDaily, RefundCeiling, SpentInv, Steps, AlertSteps
  <1>3. /\ \A p \in Request \ {q} : reqs'[p] = reqs[p]
        /\ reqs'[q].at # "idle" => reqs'[q].addr = a /\ reqs'[q].ip = i /\ ~reqs'[q].burned
    BY <1>2 DEF Onward, Idle
  <1>4. reqs'[q].at \in Steps \ AlertSteps => ~reqs'[q].burned
    BY <1>3 DEF Steps
  <1>5. \A j \in Ip : Level(j)' = Level(j)
    BY <1>1 DEF limiterVars, Level
  <1>6. \A b \in Addr \ {a} : CeilingOwed(b)' = CeilingOwed(b)
    BY <1>2, <1>3, OwedMoves, OwedIfHeld
  <1>7. \A j \in Ip \ {i} : IpOwed(j)' = IpOwed(j)
    BY <1>2, <1>3, OwedMoves, OwedIfHeld
  <1>8. reqs'[q].at # "idle" /\ reqs'[q].at # "ip" /\ reqs'[q].at # "known" => IpOwed(i)' = IpOwed(i)
    BY <1>2, <1>3, OwedMoves, OwedIfHeld
  <1>9. /\ spent.ceiling[a] <= ceiling[a] + CeilingOwed(a) /\ spent.ip[i] <= Level(i) + IpOwed(i)
        /\ CeilingOwed(a) \in Nat /\ CeilingOwed(a)' \in Nat /\ IpOwed(i) \in Nat /\ IpOwed(i)' \in Nat
        /\ ceiling[a] \in 0..FullOf(Ceiling) /\ spent.ceiling[a] \in 0..FullOf(Ceiling)
        /\ Level(i) \in 0..Full /\ spent.ip[i] \in 0..Full
        /\ Ceiling.window \in Nat /\ Window \in Nat /\ FullOf(Ceiling) \in Nat /\ Full \in Nat
    BY <1>3, SpentTypes, OwedMoves DEF SpentInv
  <1>10. ceiling \in [Addr -> 0..FullOf(Ceiling)]
    BY <1>1 DEF LimitTypes
  <1>11. ASSUME UNCHANGED spent, reqs'[q].at \in Steps \ {"ip", "known"},
                \A b \in Addr \ {a} : ceiling'[b] = ceiling[b],
                spent.ceiling[a] <= ceiling'[a] + CeilingOwed(a)'
         PROVE  SpentInv'
    <2>1. \A b \in Addr : spent'.ceiling[b] <= ceiling'[b] + CeilingOwed(b)'
      BY <1>6, <1>11 DEF SpentInv
    <2>2. \A j \in Ip : spent'.ip[j] <= Level(j)' + IpOwed(j)'
      BY <1>5, <1>7, <1>8, <1>11 DEF SpentInv, Steps
    <2> QED BY <1>3, <1>4, <2>1, <2>2, SpentParts
  <1>12. CASE ChargeCeiling(q)
    <2>1. /\ reqs[q].at = "ceiling" /\ UNCHANGED spent
          /\ GoTo(q, IF ceiling[a] >= Ceiling.window THEN "daily" ELSE "refund")
          /\ ceiling' = [ceiling EXCEPT ![a] = Take(Ceiling, @)]
      BY <1>2, <1>12 DEF ChargeCeiling
    <2>2. ceiling'[a] = Take(Ceiling, ceiling[a]) /\ \A b \in Addr \ {a} : ceiling'[b] = ceiling[b]
      BY <1>10, <2>1
    <2>3. CASE ceiling[a] >= Ceiling.window
      <3>1. reqs'[q].at = "daily"
        BY <1>1, <2>1, <2>3, GoesOn DEF Steps
      <3>2. CeilingOwed(a)' = CeilingOwed(a) + Ceiling.window
        BY <1>2, <1>3, <2>1, <3>1, OwedMoves, OwedIfHeld
      <3>3. ceiling'[a] = ceiling[a] - Ceiling.window
        BY <2>2, <2>3 DEF Take
      <3>4. spent.ceiling[a] <= ceiling'[a] + CeilingOwed(a)'
        BY <1>9, <3>2, <3>3
      <3> QED BY <1>11, <2>1, <2>2, <3>1, <3>4 DEF Steps
    <2>4. CASE ~(ceiling[a] >= Ceiling.window)
      <3>1. reqs'[q].at = "refund"
        BY <1>1, <2>1, <2>4, GoesOn DEF Steps
      <3>2. CeilingOwed(a)' = CeilingOwed(a)
        BY <1>2, <1>3, <2>1, <3>1, OwedMoves, OwedIfHeld
      <3>3. ceiling'[a] = ceiling[a]
        BY <2>2, <2>4 DEF Take
      <3> QED BY <1>9, <1>11, <2>1, <2>2, <3>1, <3>2, <3>3 DEF Steps
    <2> QED BY <2>3, <2>4
  <1>13. CASE RefundCeiling(q)
    <2>1. /\ reqs[q].at = "uncharge" /\ UNCHANGED spent
          /\ ceiling' = [ceiling EXCEPT ![a] = Uncharged(a)]
          /\ reqs'[q].at \in {"alert", "refund"}
      BY <1>1, <1>2, <1>13, RequestMoves DEF RefundCeiling
    <2>2. ceiling'[a] = Uncharged(a) /\ \A b \in Addr \ {a} : ceiling'[b] = ceiling[b]
      BY <1>10, <2>1
    <2>3. CeilingOwed(a) = CeilingOwed(a)' + Ceiling.window
      BY <1>2, <1>3, <2>1, OwedMoves, OwedIfHeld
    <2>4. spent.ceiling[a] <= ceiling'[a] + CeilingOwed(a)'
      BY <1>9, <2>2, <2>3 DEF Uncharged, AtMost
    <2> QED BY <1>11, <2>1, <2>2, <2>4 DEF Steps
  <1>14. CASE ChargeDaily(q)
    <2>1. reqs[q].at = "daily" /\ UNCHANGED ceiling
      BY <1>14 DEF ChargeDaily
    <2>2. CASE GoTo(q, "uncharge") /\ UNCHANGED spent
      <3>1. reqs'[q].at = "uncharge"
        BY <1>1, <2>1, <2>2, GoesOn DEF Steps
      <3>2. CeilingOwed(a)' = CeilingOwed(a)
        BY <1>2, <1>3, <2>1, <3>1, OwedMoves, OwedIfHeld
      <3> QED BY <1>9, <1>11, <2>1, <2>2, <3>1, <3>2 DEF Steps
    <2>3. CASE /\ End(q)
               /\ spent' = [ip |-> [spent.ip EXCEPT ![i] = Less(@, Window)],
                            ceiling |-> [spent.ceiling EXCEPT ![a] = Less(@, Ceiling.window)]]
      <3>1. reqs'[q].at = "idle"
        BY <1>1, <2>1, <2>3, Ends
      <3>2. /\ CeilingOwed(a) = CeilingOwed(a)' + Ceiling.window
            /\ IpOwed(i) = IpOwed(i)' + Window
        BY <1>2, <1>3, <2>1, <3>1, OwedMoves, OwedIfHeld
      <3>3. spent \in [ip : [Ip -> 0..Full], ceiling : [Addr -> 0..FullOf(Ceiling)]]
        BY <1>1 DEF LimitTypes
      <3>4. /\ spent'.ip[i] = Less(spent.ip[i], Window)
            /\ \A j \in Ip \ {i} : spent'.ip[j] = spent.ip[j]
            /\ spent'.ceiling[a] = Less(spent.ceiling[a], Ceiling.window)
            /\ \A b \in Addr \ {a} : spent'.ceiling[b] = spent.ceiling[b]
        BY <2>3, <3>3
      <3>5. spent'.ceiling[a] <= ceiling'[a] + CeilingOwed(a)'
        BY <1>9, <2>1, <3>2, <3>4 DEF Less
      <3>6. spent'.ip[i] <= Level(i)' + IpOwed(i)'
        BY <1>5, <1>9, <3>2, <3>4 DEF Less
      <3>7. \A b \in Addr : spent'.ceiling[b] <= ceiling'[b] + CeilingOwed(b)'
        BY <1>6, <2>1, <3>4, <3>5 DEF SpentInv
      <3>8. \A j \in Ip : spent'.ip[j] <= Level(j)' + IpOwed(j)'
        BY <1>5, <1>7, <3>4, <3>6 DEF SpentInv
      <3> QED BY <1>3, <1>4, <3>7, <3>8, SpentParts
    <2> QED BY <1>2, <1>14, <2>2, <2>3 DEF ChargeDaily
  <1> QED BY <1>12, <1>13, <1>14

\* Time refills both alike.
LEMMA TickKeepsSpent ==
    ASSUME ServiceInv, SpentInv, Tick
    PROVE  SpentInv'
  <1>1. /\ LimitTypes /\ LimiterInv /\ UNCHANGED <<reqs, buckets>> /\ now' = now + 1 /\ now \in Nat
        /\ Count \in Nat /\ Ceiling.count \in Nat
    BY SpentTypes, LimitConstants, LimiterAssumption DEF Tick, Refill
  <1>2. ASSUME NEW i \in Ip PROVE Level(i)' = Capped(Level(i) + Count)
    <2>1. /\ i \in Key /\ buckets[i].tokens \in 0..Full /\ buckets[i].seen \in Nat
          /\ (now - buckets[i].seen) * Count \in Nat /\ buckets[i].seen <= now
      BY <1>1, SpentTypes, Levels DEF LimiterInv
    <2>2. (now' - buckets[i].seen) * Count = (now - buckets[i].seen) * Count + Count
      <3>1. now - buckets[i].seen \in Nat /\ now' - buckets[i].seen = (now - buckets[i].seen) + 1
        BY <1>1, <2>1
      <3> QED BY <3>1, Products
    <2>3. Full \in Nat
      BY Products
    <2> QED BY <1>1, <2>1, <2>2, <2>3 DEF Level, Capped
  <1>3. /\ \A a \in Addr : CeilingOwed(a)' = CeilingOwed(a) /\ CeilingOwed(a) \in Nat
        /\ \A i \in Ip : IpOwed(i)' = IpOwed(i) /\ IpOwed(i) \in Nat
    <2>1. /\ \A a \in Addr : OwedCeiling(a)' = OwedCeiling(a)
          /\ \A i \in Ip : OwedIp(i)' = OwedIp(i)
      BY <1>1 DEF OwedCeiling, OwedIp
    <2>2. ASSUME NEW S, S \subseteq Request PROVE Cardinality(S) \in Nat
      BY <2>2, SendLimitsAssumption, FS_Subset, FS_CardinalityType
    <2>3. /\ \A a \in Addr : Cardinality(OwedCeiling(a)) \in Nat
          /\ \A i \in Ip : Cardinality(OwedIp(i)) \in Nat
      BY <2>2 DEF OwedCeiling, OwedIp
    <2> QED BY <2>1, <2>3, OneMoreToken, SpentTypes DEF CeilingOwed, IpOwed
  <1>4. ASSUME NEW a \in Addr PROVE spent'.ceiling[a] <= ceiling'[a] + CeilingOwed(a)'
    <2>1. /\ spent'.ceiling[a] = AtMost(Ceiling, spent.ceiling[a] + Ceiling.count)
          /\ ceiling'[a] = AtMost(Ceiling, ceiling[a] + Ceiling.count)
      BY DEF Tick
    <2> QED BY <1>1, <1>3, <2>1, SpentTypes DEF SpentInv, AtMost
  <1>5. ASSUME NEW i \in Ip PROVE spent'.ip[i] <= Level(i)' + IpOwed(i)'
    <2>1. spent'.ip[i] = Capped(spent.ip[i] + Count)
      BY DEF Tick
    <2> QED BY <1>1, <1>2, <1>3, <2>1, SpentTypes DEF SpentInv, Capped
  <1> QED BY <1>1, <1>4, <1>5 DEF SpentInv

\* With no request under way, nothing is owed.
LEMMA NoneOwed ==
    ASSUME \A q \in Request : reqs[q] = Idle
    PROVE  /\ \A a \in Addr : CeilingOwed(a) = 0
           /\ \A i \in Ip : IpOwed(i) = 0
  <1>1. /\ \A a \in Addr : OwedCeiling(a) = {}
        /\ \A i \in Ip : OwedIp(i) = {}
    BY DEF OwedCeiling, OwedIp, Idle
  <1>2. Ceiling.window \in Nat /\ Window \in Nat /\ Cardinality({}) = 0
    BY LimitConstants, LimiterAssumption, FS_EmptySet
  <1>3. \A w \in Nat : 0 * w = 0
    OBVIOUS
  <1> QED BY <1>1, <1>2, <1>3 DEF CeilingOwed, IpOwed

IdleOwesNothing ==
    (\A q \in Request : reqs[q] = Idle) =>
        (\A a \in Addr : CeilingOwed(a) = 0) /\ (\A i \in Ip : IpOwed(i) = 0)

\* The lemma, as a formula.
LEMMA IdleOweNothing == IdleOwesNothing
  BY NoneOwed DEF IdleOwesNothing

AbsentIsFull == \A i \in Ip : buckets[i] = Absent => Level(i) = Full

\* A key outside the map has a full level.
LEMMA AbsentAreFull == ServiceInv => AbsentIsFull
  BY SpentTypes, Levels DEF Kept, AbsentIsFull

\* At the start every level is full and nothing has been spent.
LEMMA SpentInvInit == Init => SpentInv
  <1> SUFFICES ASSUME Init PROVE SpentInv
    OBVIOUS
  <1>1. \A q \in Request : reqs[q] = Idle
    BY DEF Init, NoRequests
  <1>2. ServiceInv
    BY ServiceInvInit
  <1>3. /\ \A a \in Addr : ceiling[a] = FullOf(Ceiling) /\ spent.ceiling[a] = FullOf(Ceiling)
        /\ \A i \in Ip : spent.ip[i] = Full
    BY DEF Init, FullLevels, NothingSpent
  <1>4. ASSUME NEW i \in Ip PROVE Level(i) = Full
    <2>1. i \in Key /\ buckets[i] = Absent
      BY <1>2, SpentTypes DEF Init, LimiterInit
    <2> QED BY <1>2, <2>1, SpentTypes, Levels DEF Kept
  <1> QED BY <1>1, <1>2, <1>3, <1>4, NoneOwed, SpentTypes DEF SpentInv, Idle, Steps

\* Every step charges or gives back what its request comes to hold or lets go.
LEMMA SpentInvNext == ServiceInv /\ ServiceInv' /\ SpentInv /\ [Next]_vars => SpentInv'
  <1> SUFFICES ASSUME ServiceInv, ServiceInv', SpentInv, [Next]_vars PROVE SpentInv'
    OBVIOUS
  <1>1. ASSUME UNCHANGED <<now, limiterVars, reqs, ceiling, spent>> PROVE SpentInv'
    BY <1>1 DEF SpentInv, limiterVars, Level, CeilingOwed, IpOwed, OwedCeiling, OwedIp
  <1>2. CASE LimitSteps /\ UNCHANGED now
    <2>1. MailEnds \/ NoticeEnds \/ OtherNotice => UNCHANGED <<limiterVars, reqs, ceiling, spent>>
      BY DEF MailEnds, NoticeEnds, OtherNotice, othersIdle, limitVars
    <2> QED BY <1>1, <1>2, <2>1, QuietSteps, IpSteps, CeilingSteps DEF LimitSteps
  <1>3. CASE UNCHANGED <<now, AuditOnly>>
    BY <1>1, <1>3 DEF AuditOnly, limitVars
  <1>4. CASE Tick
    BY <1>4, TickKeepsSpent
  <1>5. CASE Restart
    <2>1. \A q \in Request : reqs'[q] = Idle
      BY <1>5 DEF Restart, NoRequests
    <2>2. /\ \A a \in Addr : ceiling'[a] = FullOf(Ceiling) /\ spent'.ceiling[a] = FullOf(Ceiling)
          /\ \A i \in Ip : spent'.ip[i] = Full /\ buckets'[i] = Absent
      BY <1>5, LimitConstants DEF Restart, ForgetBuckets, FullLevels, NothingSpent
    <2>3. AbsentIsFull'
      BY ServiceInv', AbsentAreFull, PTL
    <2>4. IdleOwesNothing'
      BY IdleOweNothing, PTL
    <2>5. /\ \A a \in Addr : CeilingOwed(a)' = 0
          /\ \A i \in Ip : IpOwed(i)' = 0 /\ Level(i)' = Full
      BY <2>1, <2>2, <2>3, <2>4 DEF AbsentIsFull, IdleOwesNothing
    <2> QED BY <2>1, <2>2, <2>5, SpentTypes DEF SpentInv, Idle, Steps
  <1> QED BY <1>2, <1>3, <1>4, <1>5, LimitPart

\* "A request refused by either spends neither" (allowSend): with no request under
\* way, what a ceiling and an IP's cap are worth is what the codes let through leave
\* of them, or more.
THEOREM RefusalsSpendNothing == Spec => []RefusedSpendNothing
  <1>1. ServiceInv /\ SpentInv => RefusedSpendNothing
    <2> SUFFICES ASSUME ServiceInv, SpentInv, \A q \in Request : reqs[q] = Idle
                 PROVE  /\ \A a \in Addr : ceiling[a] >= spent.ceiling[a]
                        /\ \A i \in Ip : Level(i) >= spent.ip[i]
      BY DEF RefusedSpendNothing
    <2> QED BY NoneOwed, SpentTypes DEF SpentInv
  <1> QED BY <1>1, SpentInvInit, SpentInvNext, ServiceInvariant, PTL DEF Spec
=============================================================================
