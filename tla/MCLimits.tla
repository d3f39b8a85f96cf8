------------------------------ MODULE MCLimits ------------------------------
(***************************************************************************)
(* A small instance of SendLimits.  The limiters, the alerts and the       *)
(* access log meet only in the sign-ins a pruning may take, so each has a  *)
(* cast of its own, in which the others' entries are shut; one has         *)
(* sign-ins, prunings, requests and restarts together.                     *)
(***************************************************************************)
EXTENDS SendLimits, TLC

CONSTANT Casts

VARIABLE cast

\* A cast: how long it plays, who asks for codes and whose are guessed at, who
\* visits, who signs in, and whether there are restarts; and, unless it says
\* otherwise, the apps that read, how many visits and requests there may be at once
\* and from when, and the one sign-in there is, in the first tick and at once.
Only(time, asked, burned, who, signs, restarts) ==
    [time |-> time, asked |-> asked, burned |-> burned, who |-> who, signs |-> signs,
     restarts |-> restarts, apps |-> {}, visits |-> 2, logins |-> 1, requests |-> 2,
     from |-> 1, until |-> 1]

Limit(count, window) == [count |-> count, window |-> window]
MCSignIn == Addr \X Key
MCOwn == Limit(1, 1)
MCCeiling == Limit(1, 1)
MCDaily == Limit(1, 2)

Unnamed == CHOOSE a \in Addr : a \notin Permitted
Named == CHOOSE a \in Permitted : TRUE

Usual == CHOOSE i \in Key : TRUE

\* An address at its limits, asked for from two IPs, and an IP at its own, asking
\* for two addresses; it may be the usual one of the first.
Flooding == Only(2, {Named} \X Key, {}, {}, {<<Named, Usual>>}, FALSE)
Spraying == Only(3, {Named, Unnamed} \X {Usual}, {}, {}, {<<Named, Usual>>}, FALSE)
\* Alerts over days.
Alerting == Only(MaxTime, {}, Permitted, {}, {}, TRUE)
\* Visits, failed writes and prunings.
Visiting == Only(3, {}, {}, Who, {}, FALSE)
\* Two sign-ins from a device that asks for codes, as prunings go on.
Knowing == [Only(4, {<<Named, Usual>>}, {}, {CHOOSE w \in Who : TRUE}, {<<Named, Usual>>}, TRUE)
            EXCEPT !.visits = 1, !.logins = 2, !.requests = 1, !.from = 2, !.until = 3]
\* Reads of a group's members, and prunings.
Reading == [Only(4, {}, {}, {CHOOSE w \in Who : TRUE}, {}, FALSE) EXCEPT !.apps = App, !.visits = 1]

MCCasts == {Flooding, Spraying, Alerting, Visiting, Knowing, Reading}

MCInit == Init /\ cast \in Casts

\* What is done of limits, slots, alerts, visits and the other tables comes first
\* where a run is not about it.
AsideFirst ==
    LET slots == <<mails, notices>>
        asides == Steps \ {"known"}
    IN /\ slots # <<0, 0>> => slots' # slots
       /\ slots = <<0, 0>> /\ (\E q \in Request : reqs[q].at \in asides) => reqs' # reqs
       /\ slots = <<0, 0>> /\ (\E v \in Visit : visits[v] # NoVisit) => visits' # visits
       /\ slots = <<0, 0>> /\ pruning.at \in {"access", "reads"} => pruning' # pruning

\* The step is one the cast can take.
InCast ==
    /\ now' <= cast.time
    /\ \A q \in Request : reqs'[q] # Idle /\ reqs[q] = Idle =>
       /\ now >= cast.from
       /\ IF reqs'[q].burned THEN reqs'[q].addr \in cast.burned /\ reqs'[q].ip = Usual
                                ELSE <<reqs'[q].addr, reqs'[q].ip>> \in cast.asked
    /\ \A v \in Visit : visits'[v] # NoVisit => visits'[v].who \in cast.who /\ now >= cast.from
    /\ Cardinality({v \in Visit : visits'[v] # NoVisit}) <= cast.visits
    /\ Cardinality({q \in Request : reqs'[q] # Idle}) <= cast.requests
    /\ cast.apps # {} => \A v \in Visit : visits'[v].at # "failed"
    /\ cast.requests = 1 => rows' = {} /\ AsideFirst
    /\ \A k \in Ask : asks'[k] # NoAsk => asks'[k].app \in cast.apps
    /\ \A l \in Login : entering'[l] # NoLogin /\ entering[l] = NoLogin =>
          entering'[l].who \in cast.signs /\ now <= cast.until
    /\ cast.logins = 1 /\ (\E l \in Login : entering[l] # NoLogin) => entering' # entering
    /\ Cardinality(signedIn') + Cardinality({l \in Login : entering'[l] # NoLogin}) <= cast.logins
    /\ notices' > notices => cast.burned # {} \/ \E q \in Request : reqs[q] # reqs'[q]
    /\ \A s \in SignIn : own'[s] < own[s] => s \in cast.asked

\* A step of Next that the cast can take; few casts need restarts.
MCNext == Next /\ UNCHANGED cast /\ InCast /\ (Restart => cast.restarts)

MCSpec == MCInit /\ [][MCNext]_<<vars, cast>>

MCSymmetry == Permutations(Request) \cup Permutations(Visit) \cup Permutations(Ask) \cup Permutations(Login)
=============================================================================
