----------------------------- MODULE AccessAudit -----------------------------
(***************************************************************************)
(* The access log (access_audit.go): the first sighting of a visitor in an *)
(* hour is written to the database, the rest are absorbed by a set in      *)
(* memory.  The mark is made before the write and taken back if the write  *)
(* fails, with the lock free in between.  A new hour empties the set and   *)
(* starts one pruning of the audit tables, sign-ins among them.            *)
(* Beside it is the log of the reads of a group's members by apps          *)
(* (members_api.go), which is written before the answer, and the log of    *)
(* sign-ins (completeLogin), which may not be: a sign-in stands whether    *)
(* its row could be written or not.                                        *)
(*                                                                         *)
(* A request reads the clock once and may carry a time that has passed, so *)
(* the hour can also go back.                                              *)
(***************************************************************************)
EXTENDS Clock

CONSTANTS
    Who,        \* a principal, a site and a kind of access
    Visit,      \* the requests that may be recorded at once
    App,        \* an app with a token, and the group it reads
    Ask,        \* the reads that may be served at once
    SignIn,     \* an address and the client IP it signs in from
    Login,      \* the sign-ins that may be recorded at once
    Hour,
    Retention   \* AUDIT_RETENTION, 0 to keep everything

ASSUME AuditAssumption == Hour \in Nat \ {0} /\ Retention \in Nat

VARIABLES
    hour, seen,     \* the hour that is on, and those seen in it
    visits,         \* the requests under way: the time each carries, and how far it is
    pruning,        \* the pruning under way: when it was started, and its next statement
    rows,           \* app_access
    entering,       \* the sign-ins being recorded, with the time each row carries
    logins,         \* auth_events: the rows of sign-ins that went through
    signedIn,       \* history: those sign-ins, and whether the row was written
    asks,           \* the reads under way
    memberReads,    \* member_reads: a row for each app and hour, with its last read
    answered        \* history: the app and the time of each answer

auditMemory == <<hour, seen, visits, pruning>>
loginVars == <<entering, logins, signedIn>>
readVars == <<asks, memberReads, answered>>
auditVars == <<auditMemory, rows, loginVars, readVars>>

\* Hours are numbered from 1: none is on at the start.
HourOf(t) == 1 + t \div Hour

NoVisit == [at |-> "idle"]
NoPruning == [at |-> "idle"]

Row == [who : Who, hour : 1..(MaxTime + 1), time : Time]
Visits == {NoVisit} \cup [at : {"marked", "failed"}, who : Who, time : Time]

NoLogin == [at |-> "idle"]
LoginRow == [who : SignIn, time : Time]
Logins == {NoLogin} \cup [at : {"record"}, who : SignIn, time : Time]

NoAsk == [at |-> "idle"]
Asks == {NoAsk} \cup [at : {"read", "record"}, app : App, time : Time]
ReadRow == [app : App, hour : 1..(MaxTime + 1), last : Time]

AuditTypeOK ==
    /\ hour \in 0..(MaxTime + 1) /\ seen \subseteq Who
    /\ visits \in [Visit -> Visits]
    /\ pruning \in {NoPruning} \cup [at : {"events", "access", "reads"}, time : Time]
    /\ rows \subseteq Row
    /\ entering \in [Login -> Logins]
    /\ logins \subseteq LoginRow /\ signedIn \subseteq [who : SignIn, time : Time, recorded : BOOLEAN]
    /\ asks \in [Ask -> Asks]
    /\ memberReads \subseteq ReadRow /\ answered \subseteq [app : App, time : Time]

AuditEmpty ==
    /\ hour = 0 /\ seen = {}
    /\ visits = [v \in Visit |-> NoVisit] /\ pruning = NoPruning

AuditInit ==
    /\ AuditEmpty /\ rows = {}
    /\ entering = [l \in Login |-> NoLogin] /\ logins = {} /\ signedIn = {}
    /\ asks = [k \in Ask |-> NoAsk] /\ memberReads = {} /\ answered = {}

\* kickPruneLocked: one pruning at a time, and none if rows are kept forever.
KickPrune(t) ==
    pruning' = IF pruning # NoPruning \/ Retention = 0
                 THEN pruning ELSE [at |-> "events", time |-> t]

\* record, under the lock: a request of the time t is noted, unless its visitor
\* has been seen in that hour.
Note(v, w, t) ==
    LET another == HourOf(t) # hour
        known == IF another THEN {} ELSE seen
    IN /\ visits[v] = NoVisit
       /\ hour' = HourOf(t)
       /\ IF another THEN KickPrune(t) ELSE UNCHANGED pruning
       /\ seen' = known \cup {w}
       /\ visits' = IF w \in known THEN visits
                    ELSE [visits EXCEPT ![v] = [at |-> "marked", who |-> w, time |-> t]]
       /\ UNCHANGED <<rows, loginVars, readVars>>

Records(w, t) == \E r \in rows : r.who = w /\ r.hour = HourOf(t)

\* RecordAppAccess: the first row of an hour stays as it is; the write may fail.
RecordAppAccess(v) ==
    /\ visits[v].at = "marked"
    /\ LET w == visits[v].who
           t == visits[v].time
       IN \/ /\ rows' = IF Records(w, t) THEN rows
                        ELSE rows \cup {[who |-> w, hour |-> HourOf(t), time |-> t]}
             /\ visits' = [visits EXCEPT ![v] = NoVisit]
          \/ visits' = [visits EXCEPT ![v].at = "failed"] /\ UNCHANGED rows
    /\ UNCHANGED <<hour, seen, pruning, loginVars, readVars>>

\* A slip: a mark outlives the write that failed.
UnmarkNothing(v) == seen

\* record: the mark of a failed write is taken back, in the hour it was made in.
Unmarked(v) == IF HourOf(visits[v].time) = hour THEN seen \ {visits[v].who} ELSE seen

Unmark(v) ==
    /\ visits[v].at = "failed"
    /\ seen' = Unmarked(v)
    /\ visits' = [visits EXCEPT ![v] = NoVisit]
    /\ UNCHANGED <<hour, pruning, rows, loginVars, readVars>>

\* A time before the cutoff of a pruning started at another.
Expired(t, at) == t + Retention < at

\* PruneAuditBefore: one statement after another; any may fail, and ends it.
PruneEvents ==
    /\ pruning.at = "events"
    /\ logins' = {r \in logins : ~ Expired(r.time, pruning.time)}
    /\ pruning' = [pruning EXCEPT !.at = "access"]
    /\ UNCHANGED <<hour, seen, visits, rows, entering, signedIn, readVars>>

PruneAccess ==
    /\ pruning.at = "access"
    /\ rows' = {r \in rows : ~ Expired(r.time, pruning.time)}
    /\ pruning' = [pruning EXCEPT !.at = "reads"]
    /\ UNCHANGED <<hour, seen, visits, loginVars, readVars>>

PruneReads ==
    /\ pruning.at = "reads"
    /\ memberReads' = {r \in memberReads : ~ Expired(r.last, pruning.time)}
    /\ pruning' = NoPruning
    /\ UNCHANGED <<hour, seen, visits, rows, loginVars, asks, answered>>

PruneFails ==
    /\ pruning # NoPruning /\ pruning' = NoPruning
    /\ UNCHANGED <<hour, seen, visits, rows, loginVars, readVars>>

\* completeLogin: the session is issued, and then recordAuth reads the clock.
CompleteLogin(l, s) ==
    /\ entering[l] = NoLogin
    /\ entering' = [entering EXCEPT ![l] = [at |-> "record", who |-> s, time |-> now]]
    /\ UNCHANGED <<auditMemory, rows, logins, signedIn, readVars>>

\* A slip: one row for each address and IP, with the sign-in recorded last.
OneLogin(s, t) == {r \in logins : r.who # s} \cup {[who |-> s, time |-> t]}

\* RecordAuthEvent: a row is added, of a time that may be earlier than another's.
WithLogin(s, t) == logins \cup {[who |-> s, time |-> t]}

\* recordAuth: "a failed write is logged, never surfaced", and the sign-in stands.
RecordAuth(l) ==
    LET s == entering[l].who
        t == entering[l].time
    IN /\ entering[l].at = "record"
       /\ entering' = [entering EXCEPT ![l] = NoLogin]
       /\ \E recorded \in BOOLEAN :
             /\ logins' = IF recorded THEN WithLogin(s, t) ELSE logins
             /\ signedIn' = signedIn \cup {[who |-> s, time |-> t, recorded |-> recorded]}
       /\ UNCHANGED <<auditMemory, rows, readVars>>

\* handleGroupMembers: an app with a valid token and reads left asks for a group
\* it may read.  Any other request is refused and leaves nothing behind.
HandleGroupMembers(k, a) ==
    /\ asks[k] = NoAsk
    /\ asks' = [asks EXCEPT ![k] = [at |-> "read", app |-> a, time |-> now]]
    /\ UNCHANGED <<auditMemory, rows, loginVars, memberReads, answered>>

\* The members are read, and then the clock; a group that is gone, or an error,
\* ends the request.
GroupMembersResolved(k) ==
    /\ asks[k].at = "read"
    /\ asks' \in {[asks EXCEPT ![k] = NoAsk], [asks EXCEPT ![k].at = "record", ![k].time = now]}
    /\ UNCHANGED <<auditMemory, rows, loginVars, memberReads, answered>>

\* RecordMemberRead: the row of the hour is kept, with the time of this read,
\* which may be earlier than the one it had.
WithRead(a, t) ==
    {r \in memberReads : r.app # a \/ r.hour # HourOf(t)} \cup {[app |-> a, hour |-> HourOf(t), last |-> t]}

\* A slip: the answer is given whether the read could be recorded or not.
AnswerAnyway(k) ==
    LET a == asks[k].app
        t == asks[k].time
    IN /\ asks[k].at = "record"
       /\ asks' = [asks EXCEPT ![k] = NoAsk]
       /\ memberReads' \in {WithRead(a, t), memberReads}
       /\ answered' = answered \cup {[app |-> a, time |-> t]}
       /\ UNCHANGED <<auditMemory, rows, loginVars>>

\* "No record, no answer."
RecordMemberRead(k) ==
    LET a == asks[k].app
        t == asks[k].time
    IN /\ asks[k].at = "record"
       /\ asks' = [asks EXCEPT ![k] = NoAsk]
       /\ \/ memberReads' = WithRead(a, t) /\ answered' = answered \cup {[app |-> a, time |-> t]}
          \/ UNCHANGED <<memberReads, answered>>
       /\ UNCHANGED <<auditMemory, rows, loginVars>>

\* The steps that need no time of their own.
AuditSteps ==
    \/ \E v \in Visit : RecordAppAccess(v)
    \/ \E v \in Visit : Unmark(v)
    \/ PruneEvents
    \/ PruneAccess
    \/ PruneReads
    \/ PruneFails
    \/ \E l \in Login, s \in SignIn : CompleteLogin(l, s)
    \/ \E l \in Login : RecordAuth(l)
    \/ \E k \in Ask, a \in App : HandleGroupMembers(k, a)
    \/ \E k \in Ask : GroupMembersResolved(k)
    \/ \E k \in Ask : RecordMemberRead(k)

\* A restart forgets the hour and the requests, not the tables.
AuditRestart ==
    /\ hour' = 0 /\ seen' = {}
    /\ visits' = [v \in Visit |-> NoVisit] /\ pruning' = NoPruning
    /\ entering' = [l \in Login |-> NoLogin] /\ asks' = [k \in Ask |-> NoAsk]
    /\ UNCHANGED <<rows, logins, signedIn, memberReads, answered>>

-----------------------------------------------------------------------------

\* No visit is hidden by a mark (record): who is marked as seen in the hour that
\* is on has its row, or a request is still writing it or about to take the mark
\* back.
SeenIsRecorded ==
    \A w \in seen :
        \/ \E r \in rows : r.who = w /\ r.hour = hour
        \/ \E v \in Visit : visits[v] # NoVisit /\ visits[v].who = w
                            /\ HourOf(visits[v].time) = hour

=============================================================================
