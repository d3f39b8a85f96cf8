----------------------------- MODULE MCPasskeys -----------------------------
(***************************************************************************)
(* A small instance of Passkeys.  The cast of a behaviour bounds it: codes *)
(* need no passkeys, the guard no codes, and grades one request.           *)
(***************************************************************************)
EXTENDS Passkeys, TLC

CONSTANT Casts

VARIABLE cast

Roles == [Person -> {"user", "admin"}]
Admins == [w \in Person |-> "admin"]

\* time, requests at once, codes and how many of them pass, challenges, passkeys,
\* restarts, who signs in (None: and out) and how late, roles, TOTP settings.
Only(time, most, codes, passing, challenges, passkeys, again, people, late, roles, on) ==
    [time |-> time, requests |-> most, codes |-> codes, passes |-> passing, challenges |-> challenges,
     passkeys |-> passkeys, restarts |-> again, people |-> people, late |-> late, roles |-> roles, totp |-> on]

Users == [w \in Person |-> "user"]

\* Codes, right and wrong, sent at once and through a restart.
Codes == Only(3, 2, {2, Wrong}, 2, 0, 0, 1, {Holder}, 1, {Admins}, {TRUE})
\* Challenges posted again, at once and through a restart.
Guarding == Only(3, 2, {}, 0, 3, 0, 1, {Holder}, 1, {Users}, {FALSE})
\* Who a passkey signs in, and who adds another.
Adding == Only(3, 1, {}, 0, 3, 2, 0, {Holder, None}, 1, {Users}, {FALSE})
\* What passkeys are worth, as TOTP changes and another person signs in.
Grading == Only(4, 1, {1}, 1, 1, 1, 1, Person, 1, {Admins}, BOOLEAN)

MCCasts == {Codes, Guarding, Adding, Grading}

InCast ==
    /\ now <= cast.time /\ restarts <= cast.restarts
    /\ Cardinality({q \in Request : hand[q] # Idle}) <= cast.requests
    /\ \A q \in Request : hand[q].pc \in {"totp", "confirm"} => check[q].code \in cast.codes
    /\ passes <= cast.passes /\ failures.count <= cast.passes /\ Len(minted) <= cast.challenges /\ made <= cast.passkeys
    /\ (session.who \in cast.people \/ email = [w \in Person |-> 0]) /\ \A w \in Person : email[w] <= cast.late
    /\ role \in cast.roles /\ totp \in cast.totp

MCInit == Init /\ cast \in Casts /\ InCast

MCNext == Next /\ UNCHANGED cast /\ InCast'

MCSpec == MCInit /\ [][MCNext]_<<vars, cast>>

MCSymmetry == Permutations(Request)
=============================================================================
