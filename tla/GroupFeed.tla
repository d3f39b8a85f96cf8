------------------------------ MODULE GroupFeed ------------------------------
(***************************************************************************)
(* A group filled from an endpoint (internal/server/group_feeds.go).  A    *)
(* scheduled round, the goroutines of its retry sequences and the          *)
(* administrators' requests all sync under one lock; a large change is     *)
(* held until an administrator accepts it or a wait has passed.  Feeds     *)
(* share only that lock, so one group is enough.  Announcing a change to   *)
(* the sessions is SessionGroups' part.                                    *)
(*                                                                         *)
(* A list of addresses stands for its hash; {} stands for no hash.  Times  *)
(* are relative: row.due counts down to HeldSince + FeedAutoApplyAfter.    *)
(***************************************************************************)
EXTENDS Naturals, FiniteSets

CONSTANTS
    Address,
    Lists,        \* the lists the feed may answer, beside the empty one
    Retrier,      \* the goroutines that may be alive at once, one for each retry sequence
    Admin,        \* administrators' requests
    Round, None,
    Retries,      \* feedRetries
    Wait,         \* GROUP_FEED_AUTO_APPLY_AFTER, in ticks
    Rotating,     \* GROUP_FEED_ROTATING
    AddsFloor, RemovesFloor, DriftFloor, Allowance,  \* 5, 2, 3 and 10 in the code
    MaxLate,      \* bound on the ticks a sync takes: its deadlines are minutes, the wait hours
    MaxFaults     \* bound on failed database calls and restarts

ASSUME FeedAssumption ==
    /\ IsFiniteSet(Address)
    /\ Lists \subseteq (SUBSET Address) \ {{}}
    /\ {Retries, Wait, AddsFloor, RemovesFloor, DriftFloor, Allowance, MaxLate, MaxFaults} \subseteq Nat
    /\ MaxLate < Wait /\ Retries > 0
    /\ Rotating \in BOOLEAN
    /\ Round \notin Admin \cup Retrier /\ Admin \cap Retrier = {}
    /\ None \notin {Round} \cup Admin \cup Retrier

VARIABLES
    feed,       \* external: what the endpoint answers
    auto,       \* GROUP_FEED_AUTO_APPLY_AFTER is set
    members,    \* database: the group's members
    row,        \* database: the group's row of group_sync_state
    sync,       \* the sync that holds feedSyncer.mu
    round,      \* where the scheduled round is
    retrier,    \* retrier[r]: the goroutine of a retry sequence
    retrying,   \* feedSyncer.retrying: the sequence waiting, None when there is none
    admin,      \* admin[a]: an administrator's request
    faults,     \* history: failed database calls and restarts
    trusted,    \* history: every list accepted, waited out or first filled
    shown,      \* history: for how long the row has shown the change it holds
    kept,       \* history: the list an administrator last kept, unless a change was let in since
    alerted     \* history: whether the alert of the held change was sent

store == <<members, row>>
actors == <<round, retrier, retrying, admin>>
history == <<trusted, shown, kept, alerted>>
vars == <<feed, auto, store, sync, actors, faults, history>>

Answers == [answer : {"list"}, emails : Lists \cup {{}}] \cup [answer : {"down", "unusable"}, emails : {{}}]

\* HeldSince is set when timed.
Row == [status : {"none", "ok", "failed", "empty", "held"}, pending : SUBSET Address,
        timed : BOOLEAN, due : 0..Wait, accepted : SUBSET Address, kept : SUBSET Address]

NoRow == [status |-> "none", pending |-> {}, timed |-> FALSE, due |-> 0, accepted |-> {}, kept |-> {}]

Actor == {Round} \cup Retrier \cup Admin

\* due is that of the start of the sync, next the row it will record; fresh
\* says that next starts a wait.
Sync == [by : Actor \cup {None}, pc : {"free", "fetch", "apply", "record", "clear"}, accept : SUBSET Address,
         emails : SUBSET Address, due : 0..Wait, late : 0..MaxLate, next : Row, fresh : BOOLEAN, alert : BOOLEAN]

Free == [by |-> None, pc |-> "free", accept |-> {}, emails |-> {}, due |-> 0, late |-> 0,
         next |-> NoRow, fresh |-> FALSE, alert |-> FALSE]

NoRetrier == [pc |-> "none", attempt |-> 0]
NoRequest == [pc |-> "idle", accept |-> {}]

TypeOK ==
    /\ feed \in Answers /\ auto \in BOOLEAN
    /\ members \subseteq Address /\ row \in Row /\ sync \in Sync
    /\ round \in {"idle", "lock", "sync", "start"}
    /\ retrier \in [Retrier -> [pc : {"none", "sleep", "lock", "sync", "advance", "end"}, attempt : 0..(Retries + 1)]]
    /\ retrying \in Retrier \cup {None}
    /\ admin \in [Admin -> [pc : {"idle", "lock", "sync"}, accept : SUBSET Address]]
    /\ faults \in 0..MaxFaults
    /\ trusted \subseteq SUBSET Address /\ shown \in 0..Wait /\ kept \subseteq Address
    /\ alerted \in {"no", "sent", "lost"}

Init ==
    /\ feed \in Answers /\ auto \in BOOLEAN
    /\ members \in Lists \cup {{}} /\ row = NoRow
    /\ sync = Free
    /\ round = "idle" /\ retrier = [r \in Retrier |-> NoRetrier] /\ retrying = None
    /\ admin = [a \in Admin |-> NoRequest]
    /\ faults = 0
    /\ trusted = {{}, members} /\ shown = 0 /\ kept = {} /\ alerted = "no"

-----------------------------------------------------------------------------
(* How large a change is *)

AtLeast(floor, n) == IF n < floor THEN floor ELSE n

Added(list) == Cardinality(list \ members)
Removed(list) == Cardinality(members \ list)
Differ(list, other) == Cardinality(list \ other) + Cardinality(other \ list)

feedHoldAdds == AtLeast(AddsFloor, Cardinality(members) \div 4)
feedHoldRemoves == AtLeast(RemovesFloor, Cardinality(members) \div 4)
feedHoldDrift(list) == AtLeast(DriftFloor, Cardinality(list) \div 4)

Drifted(list, from) == Differ(list, from) > feedHoldDrift(from)
Large(list) == Added(list) > feedHoldAdds \/ Removed(list) > feedHoldRemoves

\* Never applied for having waited.
TooLarge(list) ==
    /\ ~Rotating
    /\ \/ Cardinality(list) * 2 < Cardinality(members)
       \/ Cardinality(list) * 2 < Cardinality(row.accepted)
       \/ Cardinality(list) > Cardinality(members) * 2 + Allowance

MustHoldNoDrift(list) == list # members /\ Large(list)
MustHold(list) == list # members /\ (Large(list) \/ Drifted(list, row.accepted))

Holds(list) == row.status = "held" /\ row.pending = list

WaitedAnyList(list) == auto /\ row.status = "held" /\ row.timed /\ sync.due = 0 /\ row.kept # list /\ ~TooLarge(list)

\* The same change has been held for the whole wait, and not kept.
Waited(list) == auto /\ Holds(list) /\ row.timed /\ sync.due = 0 /\ row.kept # list /\ ~TooLarge(list)

-----------------------------------------------------------------------------
(* Where a sync returns to: the round, a retry sequence or a request.  It  *)
(* reports "retry" when it recorded nothing and may be tried again.        *)

Waiting(a) ==
    \/ a = Round /\ round = "lock"
    \/ a \in Retrier /\ retrier[a].pc = "lock"
    \/ a \in Admin /\ admin[a].pc = "lock"

GoTo(a, pc) ==
    /\ round' = IF a = Round THEN pc ELSE round
    /\ retrier' = IF a \in Retrier THEN [retrier EXCEPT ![a].pc = pc] ELSE retrier
    /\ admin' = IF a \in Admin THEN [admin EXCEPT ![a] = IF pc = "idle" THEN NoRequest ELSE [@ EXCEPT !.pc = pc]]
                ELSE admin

Return(a) == GoTo(a, IF a \in Retrier THEN "end" ELSE "idle")
ReturnRetry(a) == GoTo(a, IF a \in Retrier THEN "advance" ELSE "start")

MayRetry(a) == a = Round \/ (a \in Retrier /\ retrier[a].attempt < Retries + 1)

Accepting(a) == IF a \in Admin THEN admin[a].accept ELSE {}

Works(ok) == /\ ok \/ faults < MaxFaults
             /\ faults' = IF ok THEN faults ELSE faults + 1

-----------------------------------------------------------------------------
(* A sync *)

MayBeginAnyHeld(accept) == accept # {} => row.status = "held"
MayBegin(accept) == accept # {} => Holds(accept)

\* Takes the lock and the time, and reads the row, which only a holder of the
\* lock writes.  An acceptance of what the row does not hold ends here.
SyncBegin(a, ok) ==
    /\ sync = Free /\ Waiting(a) /\ Works(ok)
    /\ IF ok /\ MayBegin(Accepting(a))
       THEN /\ sync' = [Free EXCEPT !.by = a, !.pc = "fetch", !.accept = Accepting(a), !.due = row.due]
            /\ GoTo(a, "sync")
       ELSE Return(a) /\ UNCHANGED sync
    /\ UNCHANGED <<feed, auto, store, retrying, history>>

Outcome(status) == [row EXCEPT !.status = status, !.pending = {}, !.timed = FALSE, !.due = 0]

Recording(next, fresh) == sync' = [sync EXCEPT !.pc = "record", !.next = next, !.fresh = fresh]

Fetch ==
    LET a == sync.by IN
    /\ sync.pc = "fetch"
    /\ \/ /\ feed.answer = "list" /\ feed.emails # {}
          /\ sync' = [sync EXCEPT !.pc = "apply", !.emails = feed.emails]
          /\ UNCHANGED actors
       \/ /\ feed.answer = "list" /\ feed.emails = {}
          /\ Recording(Outcome("empty"), FALSE)
          /\ UNCHANGED actors
       \/ /\ feed.answer # "list" /\ ~(feed.answer = "down" /\ MayRetry(a))
          /\ Recording(Outcome("failed"), FALSE)
          /\ UNCHANGED actors
       \/ /\ feed.answer = "down" /\ MayRetry(a)
          /\ sync' = Free /\ ReturnRetry(a) /\ UNCHANGED retrying
    /\ UNCHANGED <<feed, auto, store, faults, history>>

HoldRestarting(list) ==
    LET timed == auto /\ ~TooLarge(list) IN
    /\ Recording([Outcome("held") EXCEPT !.pending = list, !.timed = timed], timed)
    /\ UNCHANGED <<members, trusted, kept>>

\* Holds the change instead of applying it.  A wait goes on only while the
\* same change is held.
Hold(list) ==
    LET timed == auto /\ ~TooLarge(list) IN
    /\ Recording([Outcome("held") EXCEPT !.pending = list, !.timed = timed],
                 timed /\ ~(Holds(list) /\ row.timed))
    /\ UNCHANGED <<members, trusted, kept>>

ApplyTrustingAll(list, waited) ==
    /\ members' = list
    /\ Recording([Outcome("ok") EXCEPT !.accepted = list, !.kept = IF sync.accept # {} \/ waited THEN {} ELSE @], FALSE)
    /\ IF sync.accept # {} \/ waited \/ row.accepted = {}
       THEN trusted' = trusted \cup {list} /\ kept' = {}
       ELSE UNCHANGED <<trusted, kept>>

\* The change and its audit rows are one transaction.  The accepted list moves
\* only with a decision, or when there is none yet.
Apply(list, waited) ==
    LET decided == sync.accept # {} \/ waited IN
    /\ members' = list
    /\ Recording([Outcome("ok") EXCEPT !.accepted = IF decided \/ @ = {} THEN list ELSE @,
                                       !.kept = IF decided THEN {} ELSE @], FALSE)
    /\ trusted' = IF decided \/ row.accepted = {} THEN trusted \cup {list} ELSE trusted
    /\ kept' = IF decided THEN {} ELSE kept

Decide(list) ==
    IF sync.accept # {}
    THEN IF list = row.pending THEN Apply(list, FALSE) ELSE Hold(list)
    ELSE IF ~MustHold(list) THEN Apply(list, FALSE)
    ELSE IF Waited(list) THEN Apply(list, TRUE)
    ELSE Hold(list)

\* Reads the group and its members, decides, and changes the members.  The
\* group, made when it is missing, is the row of members alone here.
DecideAndApply(ok) ==
    /\ sync.pc = "apply" /\ Works(ok)
    /\ IF ok THEN Decide(sync.emails)
       ELSE Recording(Outcome("failed"), FALSE) /\ UNCHANGED <<members, trusted, kept>>
    /\ UNCHANGED <<feed, auto, row, actors, shown, alerted>>

AlertsNewHolds ==
    LET next == sync.next IN
    next.status # "ok" /\ (next.status # row.status \/ (next.status = "held" /\ next.pending # row.pending))

\* Alert on entering a problem state, and whenever a wait starts.
Alerts ==
    LET next == sync.next IN
    /\ next.status # "ok"
    /\ \/ next.status # row.status
       \/ /\ next.status = "held"
          /\ next.pending # row.pending \/ sync.fresh \/ next.timed # row.timed

\* A fresh wait runs from the start of the sync.
Dated(next) == [next EXCEPT !.due = IF ~next.timed THEN 0 ELSE IF sync.fresh THEN Wait - sync.late ELSE row.due]

SetGroupSyncState(ok) ==
    LET next == sync.next IN
    /\ sync.pc = "record" /\ Works(ok)
    /\ IF ok THEN /\ row' = Dated(next)
                  /\ sync' = [sync EXCEPT !.pc = "clear", !.alert = Alerts]
                  /\ shown' = IF next.status = "held" /\ Holds(next.pending) THEN shown ELSE 0
                  /\ alerted' = IF sync.fresh \/ ~next.timed THEN "no" ELSE alerted
                  /\ UNCHANGED actors
       ELSE /\ Return(sync.by) /\ sync' = Free
            /\ UNCHANGED <<row, retrying, shown, alerted>>
    /\ UNCHANGED <<feed, auto, members, trusted, kept>>

\* clearRetry, the alert and the unlock.
SyncEnd ==
    /\ sync.pc = "clear"
    /\ retrying' = None
    /\ alerted' = IF sync.alert /\ row.timed THEN "sent" ELSE alerted
    /\ Return(sync.by) /\ sync' = Free
    /\ UNCHANGED <<feed, auto, store, faults, trusted, shown, kept>>

-----------------------------------------------------------------------------
(* The scheduled round and its retry sequences *)

\* A group whose sequence is still running is skipped.
RoundBegin ==
    /\ round = "idle" /\ retrying = None
    /\ round' = "lock"
    /\ UNCHANGED <<feed, auto, store, sync, retrier, retrying, admin, faults, history>>

StartRetry(r) ==
    /\ round = "start" /\ retrier[r] = NoRetrier
    /\ retrying' = r
    /\ retrier' = [retrier EXCEPT ![r] = [pc |-> "sleep", attempt |-> 2]]
    /\ round' = "idle"
    /\ UNCHANGED <<feed, auto, store, sync, admin, faults, history>>

RetryWakesOneFewer(r) ==
    /\ retrier[r].pc = "sleep"
    /\ retrier' = [retrier EXCEPT ![r] = IF retrying = r /\ @.attempt <= Retries THEN [@ EXCEPT !.pc = "lock"]
                                         ELSE NoRetrier]
    /\ UNCHANGED <<feed, auto, store, sync, round, retrying, admin, faults, history>>

\* The timer fires: only the sequence that owns the entry goes on.
RetryWakes(r) ==
    /\ retrier[r].pc = "sleep"
    /\ retrier' = [retrier EXCEPT ![r] = IF retrying = r THEN [@ EXCEPT !.pc = "lock"] ELSE NoRetrier]
    /\ UNCHANGED <<feed, auto, store, sync, round, retrying, admin, faults, history>>

AdvanceRetryAnyway(r) ==
    /\ retrier[r].pc = "advance"
    /\ retrying' = r
    /\ retrier' = [retrier EXCEPT ![r] = [pc |-> "sleep", attempt |-> @.attempt + 1]]
    /\ UNCHANGED <<feed, auto, store, sync, round, admin, faults, history>>

\* A result recorded while the attempt ran is not undone.
AdvanceRetry(r) ==
    /\ retrier[r].pc = "advance"
    /\ retrier' = [retrier EXCEPT ![r] = IF retrying = r THEN [pc |-> "sleep", attempt |-> @.attempt + 1]
                                         ELSE NoRetrier]
    /\ UNCHANGED <<feed, auto, store, sync, round, retrying, admin, faults, history>>

EndRetryKeepsEntry(r) ==
    /\ retrier[r].pc = "end"
    /\ retrier' = [retrier EXCEPT ![r] = NoRetrier]
    /\ UNCHANGED <<feed, auto, store, sync, round, retrying, admin, faults, history>>

EndRetry(r) ==
    /\ retrier[r].pc = "end"
    /\ retrying' = IF retrying = r THEN None ELSE retrying
    /\ retrier' = [retrier EXCEPT ![r] = NoRetrier]
    /\ UNCHANGED <<feed, auto, store, sync, round, admin, faults, history>>

-----------------------------------------------------------------------------
(* The administrators' requests *)

\* Sync now, or Accept with the hash of the change on the page, however old.
AdminSync(a, accept) ==
    /\ admin[a].pc = "idle"
    /\ admin' = [admin EXCEPT ![a] = [pc |-> "lock", accept |-> accept]]
    /\ UNCHANGED <<feed, auto, store, sync, round, retrier, retrying, faults, history>>

\* One read and one write under the lock; any other answer changes nothing.
KeepHeldChange(hash) ==
    /\ sync = Free /\ Holds(hash)
    /\ row' = [row EXCEPT !.kept = hash]
    /\ kept' = hash
    /\ UNCHANGED <<feed, auto, members, sync, actors, faults, trusted, shown, alerted>>

-----------------------------------------------------------------------------

FeedChanges(to) ==
    /\ feed' = to
    /\ UNCHANGED <<auto, store, sync, actors, faults, history>>

Tick ==
    /\ sync # Free => sync.late < MaxLate
    /\ row' = [row EXCEPT !.due = IF @ > 0 THEN @ - 1 ELSE 0]
    /\ sync' = IF sync = Free THEN Free ELSE [sync EXCEPT !.late = @ + 1]
    /\ shown' = IF row.status = "held" /\ shown < Wait THEN shown + 1 ELSE shown
    /\ UNCHANGED <<feed, auto, members, actors, faults, trusted, kept, alerted>>

\* The retries live in memory; the wait may be switched on or off.
Restart(to) ==
    /\ faults < MaxFaults /\ faults' = faults + 1
    /\ auto' = to
    /\ sync' = Free
    /\ round' = "idle" /\ retrier' = [r \in Retrier |-> NoRetrier] /\ retrying' = None
    /\ admin' = [a \in Admin |-> NoRequest]
    /\ alerted' = IF sync.pc = "clear" /\ sync.alert /\ row.timed THEN "lost" ELSE alerted
    /\ UNCHANGED <<feed, store, trusted, shown, kept>>

SyncSteps == Fetch \/ SyncEnd \/ \E ok \in BOOLEAN : DecideAndApply(ok) \/ SetGroupSyncState(ok)

Locks(a) == \E ok \in BOOLEAN : SyncBegin(a, ok)

RoundSteps == RoundBegin \/ \E r \in Retrier : StartRetry(r)

RetrySteps(r) == RetryWakes(r) \/ AdvanceRetry(r) \/ EndRetry(r)

AdminSteps ==
    \/ \E a \in Admin, accept \in Lists \cup {{}} : AdminSync(a, accept)
    \/ \E hash \in Lists : KeepHeldChange(hash)

Next ==
    \/ SyncSteps
    \/ \E a \in Actor : Locks(a)
    \/ RoundSteps
    \/ \E r \in Retrier : RetrySteps(r)
    \/ AdminSteps
    \/ Tick
    \/ \E to \in Answers : FeedChanges(to)
    \/ \E to \in BOOLEAN : Restart(to)

\* The sync's steps, the scheduled round and the timers of the retries go on,
\* time passes, and Go's mutex starves nobody.  Nothing is assumed of
\* administrators, of the endpoint or of faults, which MaxFaults bounds.
Fairness ==
    /\ WF_vars(SyncSteps) /\ WF_vars(RoundSteps) /\ WF_vars(Tick)
    /\ \A a \in Actor : SF_vars(Locks(a))
    /\ \A r \in Retrier : WF_vars(RetrySteps(r))

Spec == Init /\ [][Next]_vars /\ Fairness

-----------------------------------------------------------------------------
(* Properties *)

\* Without an acceptance, a change that must be held reaches the members only
\* after the row has shown that very list, and no other, for the whole wait
\* but for what a sync takes, and never the list an administrator last kept
\* (syncFeedAttempt: "an administrator always has the full wait to see the
\* change that will be applied").
LargeChangesWait ==
    [][members' # members /\ sync.accept = {} /\ MustHold(members') =>
        /\ Holds(members') /\ shown + MaxLate >= Wait
        /\ kept # members']_vars

\* However many small changes follow each other, and whichever of their
\* records are lost, the members never drift beyond the threshold from the
\* last list on record that was accepted, waited out or first filled
\* ("a feed cannot replace or grow a group a little at a time unnoticed").
NoCreep ==
    \/ members \in trusted
    \/ row.accepted \in trusted /\ ~Drifted(members, row.accepted)

\* Accepting a change, from however old a page, applies the list that page
\* showed or nothing (syncFeed, acceptHash).
AcceptedAsShown ==
    [][members' # members /\ sync.accept # {} => members' = sync.accept]_vars

\* A wait that is running was announced when it began, also when it began
\* because the setting came on or the change stopped being too large; only a
\* stop right after it was recorded loses the alert (finish).
WaitsAreAlerted ==
    row.status = "held" /\ row.timed =>
        alerted \in {"sent", "lost"} \/ (sync.pc = "clear" /\ sync.alert)

\* A result recorded meanwhile ends a retry sequence for good, and a sequence
\* that lost its entry takes nothing away from the one that has it (ownsRetry,
\* advanceRetry, endRetry).
SequencesKeepApart ==
    [][retrying' # retrying =>
        /\ retrying' # None => retrying = None /\ round = "start"
        /\ retrying # None => sync.pc = "clear" \/ retrier[retrying].pc = "end" \/ faults' > faults]_vars

\* An entry in the table of retries always has its goroutine: without one the
\* group would never be synced again (scheduledSync skips it).
EntryHasOwner == retrying # None => retrier[retrying].pc # "none"

\* A feed that stays down is reported, though each attempt may be retried
\* (retryFeed: "a feed that stays down is reported").
DownIsReported == <>[](feed.answer = "down") => <>[](row.status = "failed")

\* Every retry sequence ends and frees the group for the next round.
RetriesEnd == retrying # None ~> retrying = None

\* A change the feed keeps asking for is applied in the end, if the wait is
\* on, nobody keeps the members and it is not too large.
SteadyChangeApplied ==
    \A list \in Lists :
        <>[](/\ feed = [answer |-> "list", emails |-> list]
             /\ auto /\ row.kept # list /\ ~TooLarge(list)) => <>[](members = list)

=============================================================================
