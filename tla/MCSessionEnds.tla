---------------------------- MODULE MCSessionEnds ----------------------------
(***************************************************************************)
(* A small instance of SessionEnds.  The keys of one behaviour are those   *)
(* of its cast, so that addresses, passkeys and cards, whose cutoffs never *)
(* meet, are not multiplied with each other.                               *)
(***************************************************************************)
EXTENDS SessionEnds, TLC

CONSTANT Casts   \* each the keys a behaviour uses, those whose sessions end, and bounds

VARIABLE cast

\* Everyone's passkeys belong to one person.
MCOwner == [k \in Passkey |-> CHOOSE w \in Person : TRUE]

\* A cookie from before the sign-in time was recorded, and one of a kind this
\* build does not know.
MCOutstanding ==
    {[NoSession EXCEPT !.who = w, !.kind = "normal", !.iat = Start - 1, !.ttl = 9] : w \in Person}
        \cup {[NoSession EXCEPT !.iat = Start - 1, !.ttl = 9]}

OneTTL == {MaxAge}
ProcSymmetry == Permutations(Proc)

Cast(keys, ends, outstanding, most, until) ==
    [keys |-> keys, ends |-> ends, outstanding |-> outstanding, most |-> most, until |-> until]

MCCasts == {Cast(Person, Person, {}, 2, 7), Cast(Person, Person, {}, 3, 5),
            Cast(Person, Person, MCOutstanding, 3, 5),
            Cast(Person \cup Passkey, Passkey, {}, 2, 6), Cast(Card, Card, {}, 3, 6)}

\* The state is one the cast can be in.
InCast ==
    /\ clock <= cast.until
    /\ Cardinality(cookies) <= cast.most
    /\ \A k \in Passkey \ cast.keys : passkeys[k] = "unused"
    /\ \A p \in Proc : /\ {req[p].sess.who, req[p].sess.card, req[p].key} \subseteq cast.keys \cup {None}
                       /\ req[p].todo \subseteq cast.ends

MCInit == Init /\ cast \in Casts /\ cookies = cast.outstanding

StaysInCast == UNCHANGED cast /\ InCast'

\* Next, within the cast.
MCNext ==
    \/ \E p \in Proc : Begin(p) /\ StaysInCast
    \/ \E p \in Proc : Continue(p) /\ StaysInCast
    \/ \E k \in Passkey : RegisterPasskey(k) /\ StaysInCast
    \/ Tick /\ StaysInCast
    \/ Restart /\ StaysInCast

MCSpec == MCInit /\ [][MCNext]_<<vars, cast>>
=============================================================================
