---------------------------- MODULE MCBreakGlass ----------------------------
(***************************************************************************)
(* A small instance of BreakGlass.  What can go wrong is between a card, a *)
(* browser and two requests; tokens and notices need two generations and   *)
(* two hours to differ.  The cast of a behaviour bounds it further: offers *)
(* need no route files and notices no sessions.                            *)
(***************************************************************************)
EXTENDS BreakGlass, TLC

CONSTANT Casts

VARIABLE cast

Only(time, gens, routesTo, sessions, most) ==
    [time |-> time, gens |-> gens, routes |-> routesTo, sessions |-> sessions, restarts |-> most]

\* Offers that expire, and cards revoked and re-minted.
Offering == Only(1, 2, {{}}, Session \ {"none"}, 0)
\* Offers and scans while the route files change.
Retargeting == Only(0, 1, SUBSET Group, Session \ {"none"}, 1)
\* Scans of a refused card over hours, through a restart.
Noticing == Only(MaxTime, 1, SUBSET Group, {"none"}, 1)

MCCasts == {Offering, Retargeting, Noticing}

\* The state is one the cast can be in.
InCast ==
    /\ now <= cast.time /\ restarts <= cast.restarts
    /\ routes \in cast.routes
    /\ \A c \in Card : cards[c].gen <= cast.gens

MCInit == /\ Init /\ cast \in Casts

MCNext ==
    /\ Next /\ UNCHANGED cast /\ InCast'
    /\ \A b \in Browser : session'[b] \in cast.sessions \cup {session[b], "other"}

MCSpec == MCInit /\ [][MCNext]_<<vars, cast>>

MCSymmetry == Permutations(Request)
=============================================================================
