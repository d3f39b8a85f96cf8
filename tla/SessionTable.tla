---------------------------- MODULE SessionTable ----------------------------
(***************************************************************************)
(* What the gateway promises about signed-in sessions, stated as if it     *)
(* kept a table of them: a sign-in adds a row, ending a person's, a        *)
(* passkey's or a card's sessions deletes rows for good, and a request is  *)
(* admitted only on a row that is still there.  The gateway keeps no such  *)
(* table (sessions are signed cookies, see session_cutoffs.go);            *)
(* SessionEnds is shown to implement this one.                             *)
(***************************************************************************)
EXTENDS Naturals

CONSTANTS
    Proc,      \* the requests the gateway serves at once
    Person, Passkey, Card,
    None,
    SignIns    \* the sign-ins that can be made: who, how and when

VARIABLES
    cut,       \* cut[k] = the time up to which the sessions of key k ended, 0 for never
    live,      \* the rows of the table
    admitted   \* admitted[p] = the row request p was admitted on

tableVars == <<cut, live, admitted>>

Key == Person \cup Passkey \cup Card

\* A passkey that has been removed ends every session it started; a person or
\* a card ends those begun at or before the recorded time.
Dies(i, c) ==
    \/ i.who \in Person /\ c[i.who] # 0 /\ i.auth <= c[i.who]
    \/ i.pk \in Passkey /\ c[i.pk] # 0
    \/ i.card \in Card /\ c[i.card] # 0 /\ i.auth <= c[i.card]

Survivors(S, c) == {i \in S : ~Dies(i, c)}

TableInit ==
    /\ cut = [k \in Key |-> 0]
    /\ live \subseteq SignIns
    /\ admitted = [p \in Proc |-> None]

\* A row is added, unless its key's sessions were ended while the sign-in was
\* still being completed.
SignIn(i) ==
    /\ ~Dies(i, cut)
    /\ live' = live \cup {i}
    /\ UNCHANGED <<cut, admitted>>

\* The sessions of k that began at or before t end, for good.
End(k, t) ==
    /\ cut' = [cut EXCEPT ![k] = t]
    /\ t > cut[k]
    /\ live' = Survivors(live, cut')
    /\ UNCHANGED admitted

Admit(p) ==
    /\ \E i \in live : admitted' = [admitted EXCEPT ![p] = i]
    /\ UNCHANGED <<cut, live>>

Finish(p) ==
    /\ admitted' = [admitted EXCEPT ![p] = None]
    /\ UNCHANGED <<cut, live>>

\* A restart answers nobody, forgets no end of a session, and may complete
\* ends that were under way.
Crash ==
    /\ admitted' = [p \in Proc |-> None]
    /\ \A k \in Key : cut'[k] >= cut[k]
    /\ live' = Survivors(live, cut')

TableNext ==
    \/ \E i \in SignIns \cap live' : SignIn(i)
    \/ \E k \in Key : \E t \in {cut'[k]} : End(k, t)
    \/ \E p \in Proc : Admit(p) \/ Finish(p)
    \/ Crash

TableSpec == TableInit /\ [][TableNext]_tableVars
=============================================================================
