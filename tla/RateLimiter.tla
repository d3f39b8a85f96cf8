----------------------------- MODULE RateLimiter -----------------------------
(***************************************************************************)
(* The token buckets in memory (package ratelimit): Count events in every  *)
(* Window ticks for each key, refilled when they are looked at, full when  *)
(* first seen, and dropped when full once the map is large.  Every call    *)
(* holds the mutex, so a call is one step.                                 *)
(*                                                                         *)
(* An event is worth Window units of a bucket, which gains Count of them a *)
(* tick: whole numbers where the code has fractions of a token.  Beside    *)
(* the map runs what it promises, a level for each key that nothing drops. *)
(***************************************************************************)
EXTENDS Clock, Integers, FiniteSets

CONSTANTS
    Key,
    Count, Window,  \* Count events for each Window ticks
    GcThreshold,
    GcInterval      \* gcInterval, in ticks

ASSUME LimiterAssumption ==
    /\ {Count, Window, GcThreshold, GcInterval} \subseteq Nat
    /\ Count > 0 /\ Window > 0

VARIABLES
    buckets,    \* the map
    lastGC,     \* 0 before the first sweep
    fair,       \* history: the level each key would have if nothing were dropped
    ahead,      \* history: the events allowed to each key, less those such a level allows
    lost        \* history: the calls of each key whose bucket the sweep they caused dropped

limiterVars == <<buckets, lastGC, fair, ahead, lost>>

Full == Count * Window

\* A key not in the map reads as one that has been full since the start.
Absent == [tokens |-> Full, seen |-> 0]
Bucket == {Absent} \cup [tokens : 0..Full, seen : Time]

LimiterTypeOK ==
    /\ now \in Time
    /\ buckets \in [Key -> Bucket] /\ lastGC \in {0} \cup Time
    /\ fair \in [Key -> 0..Full] /\ ahead \in [Key -> Int] /\ lost \in [Key -> Nat]

LimiterInit ==
    /\ now = 1
    /\ buckets = [k \in Key |-> Absent] /\ lastGC = 0
    /\ fair = [k \in Key |-> Full]
    /\ ahead = [k \in Key |-> 0] /\ lost = [k \in Key |-> 0]

Capped(n) == IF n > Full THEN Full ELSE n

\* refill: the tokens of a key, with those of the time since it was last seen.
Level(k) == Capped(buckets[k].tokens + (now - buckets[k].seen) * Count)

Kept == {k \in Key : buckets[k] # Absent}

\* A new key, put in first, may sweep the map.
Sweeps(k) ==
    /\ k \notin Kept
    /\ Cardinality(Kept \cup {k}) >= GcThreshold
    /\ lastGC = 0 \/ now >= lastGC + GcInterval

\* A slip: full buckets dropped when nearly full.
SweptEarly == [k \in Key |-> IF Level(k) + Window >= Full THEN Absent ELSE buckets[k]]

\* gc: every full bucket is dropped, the new one too; the call goes on with it
\* out of the map.
Swept == [k \in Key |-> IF Level(k) = Full THEN Absent ELSE buckets[k]]

\* The key is left with so many tokens.
Leaves(k, tokens) ==
    IF Sweeps(k)
      THEN buckets' = Swept /\ lastGC' = now /\ lost' = [lost EXCEPT ![k] = @ + 1]
      ELSE /\ buckets' = [buckets EXCEPT ![k] = [tokens |-> tokens, seen |-> now]]
           /\ UNCHANGED <<lastGC, lost>>

\* Allow and Refund: what a level becomes.
Charged(level) == IF level >= Window THEN level - Window ELSE level

Returned(level) == Capped(level + Window)

\* Whether a call by the key is allowed.
Allowed(k) == Level(k) >= Window

Event(allowed) == IF allowed THEN 1 ELSE 0

Allow(k) ==
    /\ Leaves(k, Charged(Level(k)))
    /\ fair' = [fair EXCEPT ![k] = Charged(@)]
    /\ ahead' = [ahead EXCEPT ![k] = @ + Event(Allowed(k)) - Event(fair[k] >= Window)]

Refund(k) ==
    /\ Leaves(k, Returned(Level(k)))
    /\ fair' = [fair EXCEPT ![k] = Returned(@)]
    /\ UNCHANGED ahead

\* Time passes; buckets are refilled only when they are looked at.
Refill ==
    /\ now < MaxTime /\ now' = now + 1
    /\ fair' = [k \in Key |-> Capped(fair[k] + Count)]
    /\ UNCHANGED <<buckets, lastGC, ahead, lost>>

\* A restart empties the map.
ForgetBuckets ==
    /\ buckets' = [k \in Key |-> Absent] /\ lastGC' = 0
    /\ fair' = [k \in Key |-> Full]
    /\ ahead' = [k \in Key |-> 0] /\ lost' = [k \in Key |-> 0]

\* The limiter by itself, in anyone's hands.
LimiterNext ==
    \/ \E k \in Key : Allow(k) /\ UNCHANGED now
    \/ \E k \in Key : Refund(k) /\ UNCHANGED now
    \/ Refill

LimiterSpec == LimiterInit /\ [][LimiterNext]_<<now, limiterVars>>

-----------------------------------------------------------------------------

\* "Dropping it changes no decision" (gc): a key is allowed the events it would
\* be if no bucket were dropped.
DroppingChangesNothing == \A k \in Key : ahead[k] = 0

\* Nobody has been allowed fewer events than if no bucket were dropped ...
NeverStricter == \A k \in Key : ahead[k] >= 0

\* ... and the events a key has been allowed beyond them are no more than its own
\* calls that swept their bucket away: no other key's call gives it any (gc).
GainsAreLost == \A k \in Key : ahead[k] <= lost[k]

=============================================================================
