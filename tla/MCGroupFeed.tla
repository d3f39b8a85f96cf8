----------------------------- MODULE MCGroupFeed -----------------------------
(***************************************************************************)
(* A small instance of GroupFeed.  The cast of a behaviour says what the   *)
(* endpoint answers in it, and how many faults there are: lists that are   *)
(* held, kept and waited out, or an endpoint that comes and goes.          *)
(***************************************************************************)
EXTENDS GroupFeed

CONSTANTS ann, bob, cyd, dan, Casts

VARIABLE cast

Start == {ann, bob}
Swapped == {cyd, dan}
Grown == {ann, bob, cyd}
Shrunk == {cyd}

MCAddress == {ann, bob, cyd, dan}
MCLists == {Start, Swapped, Grown, Shrunk}

Feed(answers, lists, start, most, late, admins) ==
    [answers |-> answers, lists |-> lists, start |-> start, most |-> most, late |-> late, admins |-> admins]

\* Changes that are held, accepted and kept, and a record that is lost.
Swapping == Feed({"list"}, {Start, Swapped}, {Start}, 0, 0, Admin)
\* Changes small and large, faults, and syncs that take their time.
Drifting == Feed({"list"}, {Start, Grown, Shrunk}, {{}, Start}, 1, 1, {})
\* Retry sequences beside administrators' syncs.
ComingAndGoing == Feed({"list", "down"}, {Start}, {Start}, 0, 0, Admin)
\* Everything the endpoint may answer, and restarts.
Failing == Feed({"list", "down", "unusable"}, {Start, {}}, {Start}, 1, 0, {})

MCCasts == {Swapping, Drifting, ComingAndGoing, Failing}

\* The state is one the cast can be in.
InCast ==
    /\ feed.answer \in cast.answers /\ (feed.answer = "list" => feed.emails \in cast.lists)
    /\ members \in cast.lists \cup cast.start
    /\ \A x \in Admin : admin[x].accept \in cast.lists \cup {{}}
    /\ row.kept \in cast.lists \cup {{}}
    /\ faults <= cast.most /\ sync.late <= cast.late

MCInit == Init /\ cast \in Casts /\ InCast /\ members \in cast.start

StaysInCast == UNCHANGED cast /\ InCast'

\* Next, for the answers and requests of the cast.
MCNext ==
    \/ SyncSteps /\ StaysInCast
    \/ \E x \in Actor : Locks(x) /\ StaysInCast
    \/ RoundSteps /\ StaysInCast
    \/ \E r \in Retrier : RetrySteps(r) /\ StaysInCast
    \/ cast.admins # {} /\ AdminSteps /\ StaysInCast
    \/ Tick /\ StaysInCast
    \/ \E to \in Answers : FeedChanges(to) /\ StaysInCast
    \/ \E to \in BOOLEAN : Restart(to) /\ StaysInCast

MCSpec == MCInit /\ [][MCNext]_<<vars, cast>> /\ Fairness
=============================================================================
