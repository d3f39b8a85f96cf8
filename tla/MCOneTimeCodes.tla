--------------------------- MODULE MCOneTimeCodes ---------------------------
(***************************************************************************)
(* A small instance of OneTimeCodes.  In one behaviour several handlers    *)
(* serve one client address, or one handler serves several: the cast says  *)
(* which, and how far its counters go.                                     *)
(***************************************************************************)
EXTENDS OneTimeCodes, SequencesExt

CONSTANT Casts

VARIABLE cast

OpenPagesOnly == {{TRUE}}
AnyPage == {BOOLEAN}
Symmetric == Permutations(Proc) \cup Permutations(Ip)

Cast(procs, ips, codes, asks, until, given, wrong) ==
    [procs |-> procs, ips |-> ips, codes |-> codes, asks |-> asks, until |-> until,
     given |-> given, wrong |-> wrong]

\* Guesses from several client addresses.
ManyAddresses == {Cast({p}, Ip, 1, 1, TTL + 1, 2, 4) : p \in Proc}
\* Guesses at codes that expire, are swept and resent.
Sweeping == {Cast({p}, {ip}, 2, 2, TTL + 4, 2, 2) : p \in Proc, ip \in Ip}
\* Handlers at once, until a code can be resent.
Resending == {Cast(Proc, {ip}, 2, 3, TTL + 2, 1, 1) : ip \in Ip}
\* Handlers at once, until a code has expired.
Expiring == {Cast(Proc, {ip}, 1, 1, TTL + 4, 1, 1) : ip \in Ip}
\* Handlers at once, a limiter that refills, and restarts.
Refilling == {Cast(Proc, {ip}, 1, 1, TTL + 1, 3, 3) : ip \in Ip}

MCCasts == ManyAddresses \cup Sweeping \cup Resending \cup Expiring \cup Refilling

Asking == {"prune", "sweep", "recent", "choose", "save", "fill"}

\* The state is one the cast can be in.
InCast ==
    /\ clock <= cast.until /\ Len(ledger) <= cast.codes
    /\ Len(ledger) + Cardinality({p \in Proc : req[p].pc \in Asking}) <= cast.asks
    /\ \A ip \in Ip : granted[ip] <= cast.given
    /\ FoldSeq(LAMBDA entry, n : n + entry.wrongs, 0, ledger) <= cast.wrong

MCInit == Init /\ cast \in Casts

StaysInCast == UNCHANGED cast /\ InCast'

\* Next, for the handlers and client addresses of the cast.
MCNext ==
    \/ \E p \in cast.procs, ip \in cast.ips : Begin(p, ip) /\ StaysInCast
    \/ \E p \in cast.procs : Continue(p) /\ StaysInCast
    \/ Tick /\ StaysInCast
    \/ \E ip \in cast.ips : Refill(ip) /\ StaysInCast
    \/ \E to \in Admissions : Restart(to) /\ StaysInCast

MCSpec == MCInit /\ [][MCNext]_<<vars, cast>>
=============================================================================
