--------------------------- MODULE MCSessionGroups ---------------------------
(***************************************************************************)
(* A small instance of SessionGroups: one feed group, one hand-managed.    *)
(* Each behaviour has a cast, so that the policies, route files and        *)
(* changes that concern different rules are not multiplied with each       *)
(* other.                                                                  *)
(***************************************************************************)
EXTENDS SessionGroups, TLC, Sequences

CONSTANT Casts

VARIABLE cast

Everyone(role, guests) == [role |-> [w \in Person |-> role], guests |-> guests]
UsersOnly == {Everyone("user", FALSE)}
AdminsComeAndGo == {Everyone("admin", FALSE), Everyone("user", FALSE), Everyone("deny", FALSE)}
GuestsComeAndGo == {Everyone("deny", TRUE), Everyone("deny", FALSE)}
MixedPolicies == AdminsComeAndGo \cup GuestsComeAndGo

Files(R, P, readable) == [roles |-> R, paired |-> P, readable |-> readable]
NoRoles == {Files({}, {}, TRUE)}
PairedNow == {Files({}, {}, TRUE), Files({}, Group, TRUE)}
RolesOrUnread == {Files({}, {}, TRUE), Files(Group, {}, TRUE), Files({}, {}, FALSE)}
MixedFiles == PairedNow \cup RolesOrUnread

Route(open, groups, guests) == [open |-> open, people |-> {}, groups |-> groups, guests |-> guests]
GroupOnly == {Route(FALSE, Group, FALSE)}
AdminOrAny == {Route(FALSE, {"admin"}, FALSE), Route(TRUE, {}, FALSE)}
GuestOrGroup == {Route(TRUE, {}, TRUE), Route(FALSE, Group, FALSE)}
MixedRoutes == AdminOrAny \cup GuestOrGroup

Nothing == {}
AdminName == {"admin"}
\* The feed's group may be included in a hand-managed one.
FeedIncluded == HandGroup \X FeedGroup

\* A card's session, and one of a kind this build does not know.
CardAndOther ==
    {[NoSession EXCEPT !.kind = "card", !.groups = Group, !.iat = Start],
     [NoSession EXCEPT !.kind = "other", !.groups = {"admin"}, !.iat = Start]}

ProcSymmetry == Permutations(Proc)

-----------------------------------------------------------------------------

\* Users and their groups: the handlers of procs, some changes of membership,
\* no handler ever in a state of never.
Users(groups, procs, changes, never, until) ==
    [groups |-> groups, procs |-> procs, changes |-> changes, never |-> never, until |-> until,
     policies |-> UsersOnly, files |-> NoRoles, routes |-> GroupOnly, outstanding |-> {}, most |-> 2]

ByHand == Users(HandGroup, Proc, 1, {"sync", "includeCheck"}, 3)
ByHandTwice(p) == Users(HandGroup, {p}, 2, {"sync", "includeCheck"}, 3)
WithIncludes(p) == [Users(Group, {p}, 2, {}, 3) EXCEPT !.most = 1]
FeedLate == Users(FeedGroup, Proc, 1, {"markArg", "includeCheck"}, 3)
FeedOften == Users(FeedGroup, Proc, 2, {"markArg", "includeCheck"}, 3)
ChecksOfIncludes(p) == [Users(Group, {p}, 1, {}, 3) EXCEPT !.most = 1]

Administrators(p) ==
    [Users(HandGroup, {p}, 0, {"sync", "markArg", "includeCheck"}, 4) EXCEPT
        !.policies = AdminsComeAndGo, !.files = PairedNow, !.routes = AdminOrAny,
        !.outstanding = CardAndOther, !.most = 4]

Guests(p) ==
    [Users(HandGroup, {p}, 0, {"sync", "markArg", "includeCheck"}, 3) EXCEPT
        !.policies = GuestsComeAndGo, !.files = RolesOrUnread, !.routes = GuestOrGroup]

FeedCasts == {FeedOften} \cup {ChecksOfIncludes(p) : p \in Proc}
LateCasts == {FeedLate}
GroupCasts ==
    {ByHand} \cup UNION {{ByHandTwice(p), WithIncludes(p), Administrators(p), Guests(p)} : p \in Proc}

Changing == {"sync", "includeCheck", "markArg", "forget"}

\* The state is one the cast can be in.
InCast ==
    /\ clock <= cast.until
    /\ gen + Cardinality({p \in Proc : req[p].pc \in Changing}) <= cast.changes
    /\ Cardinality(cookies) <= cast.most
    /\ policy \in cast.policies /\ routes \in cast.files
    /\ \A w \in Person : direct[w] \subseteq cast.groups \cup Legacy
    /\ \A p \in Proc : req[p].pc \notin cast.never /\ req[p].route \in cast.routes \cup {None}

MCInit == Init /\ cast \in Casts /\ cookies = cast.outstanding /\ InCast

StaysInCast == UNCHANGED cast /\ InCast'

\* Next, for the handlers of the cast.
MCNext ==
    \/ \E p \in cast.procs : Begin(p) /\ StaysInCast
    \/ \E p \in cast.procs : Continue(p) /\ StaysInCast
    \/ Tick /\ StaysInCast
    \/ RoutesChange /\ StaysInCast
    \/ Restart /\ StaysInCast

MCSpec == MCInit /\ [][MCNext]_<<vars, cast>>
=============================================================================
