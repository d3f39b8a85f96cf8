--------------------------- MODULE GroupFeedProofs ---------------------------
(***************************************************************************)
(* Proofs of GroupFeed's safety properties.  The lock makes the row of the *)
(* group a private copy of the sync that holds it, so what a sync read and *)
(* what it will record can be related to the row through to the record;    *)
(* the retry table is related to the goroutines it names.                  *)
(***************************************************************************)
EXTENDS GroupFeed, TLAPS

\* The table of retries: an entry has its goroutine, and none is made while
\* the scheduled round is under way.
RetriesInv ==
    /\ \A r \in Retrier : retrier[r].pc = "advance" => retrier[r].attempt <= Retries
    /\ retrying # None => retrier[retrying].pc # "none"
    /\ round # "idle" => retrying = None

\* The holder of the lock, and what it read of the row.
LockInv ==
    /\ sync.pc = "free" => sync = Free
    /\ sync.pc # "free" => sync.by \in Actor
    /\ sync.by = Round => round = "sync"
    /\ sync.pc = "apply" => sync.emails \in Lists
    /\ sync.pc \in {"fetch", "apply"} =>
          row.due <= sync.due /\ (sync.accept # {} => Holds(sync.accept))

\* A wait that is on has been on as long as its change was shown.
RowInv ==
    /\ row.timed => row.status = "held" /\ row.due + shown + MaxLate >= Wait
    /\ row.accepted \in trusted
    /\ kept = row.kept \/ kept = {}

\* The row about to be recorded, against the one it replaces.
RecordInv ==
    sync.pc = "record" =>
        /\ sync.next.timed => /\ sync.next.status = "held"
                              /\ sync.fresh \/ (row.timed /\ Holds(sync.next.pending))
        /\ sync.next.accepted = row.accepted \/ (sync.next.accepted \in trusted /\ members \in trusted)
        /\ sync.next.kept = row.kept \/ (sync.next.kept = {} /\ kept = {})

\* The inductive invariant.
FeedInv == TypeOK /\ RetriesInv /\ LockInv /\ RowInv /\ RecordInv /\ NoCreep /\ WaitsAreAlerted

-----------------------------------------------------------------------------

\* Where a sync returns to: only the actor it returns to moves.
LEMMA GoToMoves ==
    ASSUME TypeOK, FeedAssumption, NEW a \in Actor, NEW pc, GoTo(a, pc),
           a = Round => pc \in {"idle", "lock", "sync", "start"},
           a \in Retrier => pc \in {"none", "sleep", "lock", "sync", "advance", "end"},
           a \in Admin => pc \in {"idle", "lock", "sync"}
    PROVE  /\ round' \in {"idle", "lock", "sync", "start"}
           /\ retrier' \in [Retrier -> [pc : {"none", "sleep", "lock", "sync", "advance", "end"},
                                        attempt : 0..(Retries + 1)]]
           /\ admin' \in [Admin -> [pc : {"idle", "lock", "sync"}, accept : SUBSET Address]]
           /\ round' = IF a = Round THEN pc ELSE round
           /\ \A r \in Retrier : retrier'[r].attempt = retrier[r].attempt
           /\ \A r \in Retrier : retrier'[r].pc = IF r = a THEN pc ELSE retrier[r].pc
  <1>1. a = Round \/ a \in Retrier \/ a \in Admin
    BY DEF Actor
  <1>2. a = Round => a \notin Retrier /\ a \notin Admin
    BY DEF FeedAssumption
  <1>3. a \in Retrier => a # Round /\ a \notin Admin
    BY DEF FeedAssumption
  <1>4. round' \in {"idle", "lock", "sync", "start"} /\ round' = IF a = Round THEN pc ELSE round
    BY DEF GoTo, TypeOK
  <1>5. /\ retrier' \in [Retrier -> [pc : {"none", "sleep", "lock", "sync", "advance", "end"},
                                     attempt : 0..(Retries + 1)]]
        /\ \A r \in Retrier : retrier'[r].attempt = retrier[r].attempt
        /\ \A r \in Retrier : retrier'[r].pc = IF r = a THEN pc ELSE retrier[r].pc
    BY DEF GoTo, TypeOK
  <1>6. admin' \in [Admin -> [pc : {"idle", "lock", "sync"}, accept : SUBSET Address]]
    <2>1. NoRequest \in [pc : {"idle", "lock", "sync"}, accept : SUBSET Address]
      BY DEF NoRequest
    <2> QED BY <2>1 DEF GoTo, TypeOK
  <1> QED BY <1>4, <1>5, <1>6

\* A sync that ends with a result: it cannot have held on to its place.
LEMMA ReturnMoves ==
    ASSUME TypeOK, FeedAssumption, RetriesInv, NEW a \in Actor, Return(a)
    PROVE  /\ round' \in {"idle", "lock", "sync", "start"}
           /\ retrier' \in [Retrier -> [pc : {"none", "sleep", "lock", "sync", "advance", "end"},
                                        attempt : 0..(Retries + 1)]]
           /\ admin' \in [Admin -> [pc : {"idle", "lock", "sync"}, accept : SUBSET Address]]
           /\ \A r \in Retrier : retrier'[r].pc = "advance" => retrier'[r].attempt <= Retries
           /\ \A r \in Retrier : retrier[r].pc # "none" => retrier'[r].pc # "none"
           /\ round' # "idle" => round' = round
  <1> DEFINE pc == IF a \in Retrier THEN "end" ELSE "idle"
  <1>1. a = Round => a \notin Retrier
    BY DEF FeedAssumption
  <1>2. a \in Admin => a \notin Retrier
    BY DEF FeedAssumption
  <1>3. GoTo(a, pc)
    BY DEF Return
  <1>4. /\ round' \in {"idle", "lock", "sync", "start"}
        /\ retrier' \in [Retrier -> [pc : {"none", "sleep", "lock", "sync", "advance", "end"},
                                     attempt : 0..(Retries + 1)]]
        /\ admin' \in [Admin -> [pc : {"idle", "lock", "sync"}, accept : SUBSET Address]]
        /\ round' = IF a = Round THEN pc ELSE round
        /\ \A r \in Retrier : retrier'[r].attempt = retrier[r].attempt
        /\ \A r \in Retrier : retrier'[r].pc = IF r = a THEN pc ELSE retrier[r].pc
    BY <1>1, <1>2, <1>3, GoToMoves
  <1> QED BY <1>1, <1>4 DEF RetriesInv

\* A sync that is to be retried: only a sequence with an attempt left, or the
\* round, is asked to.
LEMMA ReturnRetryMoves ==
    ASSUME TypeOK, FeedAssumption, RetriesInv, NEW a \in Actor, MayRetry(a), ReturnRetry(a),
           a = Round => round = "sync"
    PROVE  /\ round' \in {"idle", "lock", "sync", "start"}
           /\ retrier' \in [Retrier -> [pc : {"none", "sleep", "lock", "sync", "advance", "end"},
                                        attempt : 0..(Retries + 1)]]
           /\ admin' \in [Admin -> [pc : {"idle", "lock", "sync"}, accept : SUBSET Address]]
           /\ \A r \in Retrier : retrier'[r].pc = "advance" => retrier'[r].attempt <= Retries
           /\ \A r \in Retrier : retrier[r].pc # "none" => retrier'[r].pc # "none"
           /\ round' # "idle" => round # "idle"
  <1> DEFINE pc == IF a \in Retrier THEN "advance" ELSE "start"
  <1>1. a = Round => a \notin Retrier
    BY DEF FeedAssumption
  <1>2. a \notin Admin
    BY DEF FeedAssumption, MayRetry
  <1>3. GoTo(a, pc)
    BY DEF ReturnRetry
  <1>4. /\ round' \in {"idle", "lock", "sync", "start"}
        /\ retrier' \in [Retrier -> [pc : {"none", "sleep", "lock", "sync", "advance", "end"},
                                     attempt : 0..(Retries + 1)]]
        /\ admin' \in [Admin -> [pc : {"idle", "lock", "sync"}, accept : SUBSET Address]]
        /\ round' = IF a = Round THEN pc ELSE round
        /\ \A r \in Retrier : retrier'[r].attempt = retrier[r].attempt
        /\ \A r \in Retrier : retrier'[r].pc = IF r = a THEN pc ELSE retrier[r].pc
    BY <1>1, <1>2, <1>3, GoToMoves
  <1>5. a \in Retrier => retrier[a].attempt <= Retries
    BY <1>1 DEF MayRetry, FeedAssumption, TypeOK
  <1> QED BY <1>1, <1>4, <1>5 DEF RetriesInv

\* A sync that begins: the actor it is for waits no more.
LEMMA BeginMoves ==
    ASSUME TypeOK, FeedAssumption, RetriesInv, NEW a \in Actor, Waiting(a), GoTo(a, "sync")
    PROVE  /\ round' \in {"idle", "lock", "sync", "start"}
           /\ retrier' \in [Retrier -> [pc : {"none", "sleep", "lock", "sync", "advance", "end"},
                                        attempt : 0..(Retries + 1)]]
           /\ admin' \in [Admin -> [pc : {"idle", "lock", "sync"}, accept : SUBSET Address]]
           /\ \A r \in Retrier : retrier'[r].pc = "advance" => retrier'[r].attempt <= Retries
           /\ \A r \in Retrier : retrier[r].pc # "none" => retrier'[r].pc # "none"
           /\ round' # "idle" => round # "idle"
           /\ a = Round => round' = "sync"
  <1>1. /\ round' \in {"idle", "lock", "sync", "start"}
        /\ retrier' \in [Retrier -> [pc : {"none", "sleep", "lock", "sync", "advance", "end"},
                                     attempt : 0..(Retries + 1)]]
        /\ admin' \in [Admin -> [pc : {"idle", "lock", "sync"}, accept : SUBSET Address]]
        /\ round' = IF a = Round THEN "sync" ELSE round
        /\ \A r \in Retrier : retrier'[r].attempt = retrier[r].attempt
        /\ \A r \in Retrier : retrier'[r].pc = IF r = a THEN "sync" ELSE retrier[r].pc
    BY GoToMoves
  <1>2. a = Round => round = "lock"
    BY DEF Waiting, FeedAssumption
  <1> QED BY <1>1, <1>2 DEF RetriesInv

\* What a sync records is a row, whatever its outcome.
LEMMA OutcomeIsRow ==
    ASSUME TypeOK, FeedAssumption, NEW status \in {"none", "ok", "failed", "empty", "held"}
    PROVE  /\ Outcome(status) \in Row
           /\ Outcome(status).status = status /\ ~Outcome(status).timed
           /\ Outcome(status).accepted = row.accepted /\ Outcome(status).kept = row.kept
  <1>1. 0 \in 0..Wait
    BY DEF FeedAssumption
  <1>2. row \in Row
    BY DEF TypeOK
  <1> QED BY <1>1, <1>2 DEF Outcome, Row

-----------------------------------------------------------------------------

\* The invariant holds at the start.
LEMMA InvInit == ASSUME FeedAssumption, Init PROVE FeedInv
  <1>1. NoRow \in Row /\ Free \in Sync
    BY DEF FeedAssumption, NoRow, Free, Row, Sync
  <1>2. TypeOK
    BY <1>1 DEF FeedAssumption, Init, TypeOK, NoRetrier, NoRequest
  <1>3. RetriesInv
    BY DEF FeedAssumption, Init, RetriesInv, NoRetrier
  <1>4. LockInv /\ RecordInv
    BY DEF FeedAssumption, Init, LockInv, RecordInv, Free, Actor
  <1>5. RowInv /\ NoCreep /\ WaitsAreAlerted
    BY DEF FeedAssumption, Init, RowInv, NoCreep, WaitsAreAlerted, NoRow
  <1> QED BY <1>2, <1>3, <1>4, <1>5 DEF FeedInv

\* Steps that leave the lock, the row and the members alone.
LEMMA ActorStep ==
    ASSUME FeedInv, UNCHANGED <<store, sync, history>>, TypeOK', RetriesInv', round = "sync" => round' = "sync"
    PROVE  FeedInv'
  <1>1. LockInv'
    BY DEF FeedInv, LockInv, store, Holds
  <1>2. RowInv' /\ RecordInv'
    BY DEF FeedInv, RowInv, RecordInv, store, history, Holds
  <1>3. NoCreep' /\ WaitsAreAlerted'
    BY DEF FeedInv, NoCreep, WaitsAreAlerted, store, history, Drifted, Differ, feedHoldDrift, AtLeast
  <1> QED BY <1>1, <1>2, <1>3 DEF FeedInv

\* The scheduled round, the timers and the administrators' clicks.
LEMMA InvActors ==
    ASSUME FeedAssumption, FeedInv,
           \/ RoundSteps
           \/ \E r \in Retrier : RetrySteps(r)
           \/ \E a \in Admin, accept \in Lists \cup {{}} : AdminSync(a, accept)
           \/ \E to \in Answers : FeedChanges(to)
    PROVE  FeedInv'
  <1> USE DEF FeedInv
  <1>1. CASE RoundBegin
    <2>1. TypeOK' BY <1>1 DEF RoundBegin, TypeOK, store, history
    <2>2. RetriesInv' BY <1>1 DEF RoundBegin, RetriesInv
    <2> QED BY <1>1, <2>1, <2>2, ActorStep DEF RoundBegin
  <1>2. ASSUME NEW r \in Retrier, StartRetry(r) PROVE FeedInv'
    <2>1. TypeOK' BY <1>2 DEF StartRetry, TypeOK, store, history, FeedAssumption
    <2>2. RetriesInv' BY <1>2 DEF StartRetry, RetriesInv, TypeOK
    <2> QED BY <1>2, <2>1, <2>2, ActorStep DEF StartRetry
  <1>3. ASSUME NEW r \in Retrier, RetryWakes(r) PROVE FeedInv'
    <2>1. TypeOK' BY <1>3 DEF RetryWakes, TypeOK, store, history, FeedAssumption, NoRetrier
    <2>2. RetriesInv' BY <1>3 DEF RetryWakes, RetriesInv, TypeOK, NoRetrier, FeedAssumption
    <2> QED BY <1>3, <2>1, <2>2, ActorStep DEF RetryWakes
  <1>4. ASSUME NEW r \in Retrier, AdvanceRetry(r) PROVE FeedInv'
    <2>0. retrier[r].attempt <= Retries /\ retrier[r].attempt \in Nat
      BY <1>4 DEF AdvanceRetry, RetriesInv, TypeOK, FeedAssumption
    <2>1. TypeOK' BY <1>4, <2>0 DEF AdvanceRetry, TypeOK, store, history, FeedAssumption, NoRetrier
    <2>2. RetriesInv' BY <1>4 DEF AdvanceRetry, RetriesInv, TypeOK, NoRetrier, FeedAssumption
    <2> QED BY <1>4, <2>1, <2>2, ActorStep DEF AdvanceRetry
  <1>5. ASSUME NEW r \in Retrier, EndRetry(r) PROVE FeedInv'
    <2>1. TypeOK' BY <1>5 DEF EndRetry, TypeOK, store, history, FeedAssumption, NoRetrier
    <2>2. RetriesInv' BY <1>5 DEF EndRetry, RetriesInv, TypeOK, NoRetrier, FeedAssumption
    <2> QED BY <1>5, <2>1, <2>2, ActorStep DEF EndRetry
  <1>6. ASSUME NEW a \in Admin, NEW accept \in Lists \cup {{}}, AdminSync(a, accept) PROVE FeedInv'
    <2>0. accept \in SUBSET Address BY DEF FeedAssumption
    <2>1. TypeOK' BY <1>6, <2>0 DEF AdminSync, TypeOK, store, history
    <2>2. RetriesInv' BY <1>6 DEF AdminSync, RetriesInv
    <2> QED BY <1>6, <2>1, <2>2, ActorStep DEF AdminSync
  <1>7. ASSUME NEW to \in Answers, FeedChanges(to) PROVE FeedInv'
    <2>1. TypeOK' BY <1>7 DEF FeedChanges, TypeOK, store, history, actors
    <2>2. RetriesInv' BY <1>7 DEF FeedChanges, RetriesInv, actors
    <2> QED BY <1>7, <2>1, <2>2, ActorStep DEF FeedChanges, actors
  <1> QED BY <1>1, <1>2, <1>3, <1>4, <1>5, <1>6, <1>7 DEF RoundSteps, RetrySteps

-----------------------------------------------------------------------------

\* A sync takes the lock and reads the row, or ends there.
LEMMA InvSyncBegin ==
    ASSUME FeedAssumption, FeedInv, NEW a \in Actor, NEW ok \in BOOLEAN, SyncBegin(a, ok)
    PROVE  FeedInv'
  <1> USE DEF FeedInv
  <1>1. sync = Free /\ Waiting(a) /\ faults' \in 0..MaxFaults
        /\ UNCHANGED <<feed, auto, members, row, retrying, trusted, shown, kept, alerted>>
    BY DEF SyncBegin, Works, TypeOK, FeedAssumption, store, history
  <1>2. CASE ok /\ MayBegin(Accepting(a))
    <2>1. sync' = [Free EXCEPT !.by = a, !.pc = "fetch", !.accept = Accepting(a), !.due = row.due]
          /\ GoTo(a, "sync")
      BY <1>2 DEF SyncBegin
    <2>2. /\ round' \in {"idle", "lock", "sync", "start"}
          /\ retrier' \in [Retrier -> [pc : {"none", "sleep", "lock", "sync", "advance", "end"},
                                       attempt : 0..(Retries + 1)]]
          /\ admin' \in [Admin -> [pc : {"idle", "lock", "sync"}, accept : SUBSET Address]]
          /\ \A r \in Retrier : retrier'[r].pc = "advance" => retrier'[r].attempt <= Retries
          /\ \A r \in Retrier : retrier[r].pc # "none" => retrier'[r].pc # "none"
          /\ round' # "idle" => round # "idle"
          /\ a = Round => round' = "sync"
      BY <1>1, <2>1, BeginMoves
    <2>3. Accepting(a) \in SUBSET Address
      BY DEF Accepting, TypeOK
    <2>4. row \in Row /\ row.due \in 0..Wait
      BY DEF TypeOK, Row
    <2>5. sync' \in Sync
      <3>1. Free \in Sync
        BY <1>1 DEF TypeOK
      <3> QED BY <2>1, <2>3, <2>4, <3>1 DEF Sync
    <2>6. TypeOK' /\ RetriesInv'
      BY <1>1, <2>2, <2>5 DEF TypeOK, RetriesInv
    <2>7. sync'.pc = "fetch" /\ sync'.by = a /\ sync'.accept = Accepting(a) /\ sync'.due = row.due
      BY <2>1 DEF Free
    <2>8. LockInv'
      BY <1>1, <1>2, <2>2, <2>4, <2>7 DEF LockInv, MayBegin, Holds
    <2>9. RowInv' /\ RecordInv' /\ NoCreep' /\ WaitsAreAlerted'
      BY <1>1, <2>7 DEF RowInv, RecordInv, NoCreep, WaitsAreAlerted, Free,
                        Drifted, Differ, feedHoldDrift, AtLeast
    <2> QED BY <2>6, <2>8, <2>9
  <1>3. CASE ~(ok /\ MayBegin(Accepting(a)))
    <2>1. Return(a) /\ sync' = sync
      BY <1>3 DEF SyncBegin
    <2>2. /\ round' \in {"idle", "lock", "sync", "start"}
          /\ retrier' \in [Retrier -> [pc : {"none", "sleep", "lock", "sync", "advance", "end"},
                                       attempt : 0..(Retries + 1)]]
          /\ admin' \in [Admin -> [pc : {"idle", "lock", "sync"}, accept : SUBSET Address]]
          /\ \A r \in Retrier : retrier'[r].pc = "advance" => retrier'[r].attempt <= Retries
          /\ \A r \in Retrier : retrier[r].pc # "none" => retrier'[r].pc # "none"
          /\ round' # "idle" => round' = round
      BY <2>1, ReturnMoves
    <2>3. TypeOK' /\ RetriesInv'
      BY <1>1, <2>1, <2>2 DEF TypeOK, RetriesInv
    <2>4. LockInv'
      BY <1>1, <2>1 DEF LockInv, Free, FeedAssumption
    <2>5. RowInv' /\ RecordInv' /\ NoCreep' /\ WaitsAreAlerted'
      BY <1>1, <2>1 DEF RowInv, RecordInv, NoCreep, WaitsAreAlerted, Free,
                        Drifted, Differ, feedHoldDrift, AtLeast
    <2> QED BY <2>3, <2>4, <2>5
  <1> QED BY <1>2, <1>3

\* The sync moves on to its record: the row and the retries are untouched.
LEMMA RecordingStep ==
    ASSUME FeedAssumption, FeedInv, NEW next \in Row, NEW fresh \in BOOLEAN, Recording(next, fresh),
           sync.pc # "free",
           UNCHANGED <<feed, auto, row, actors, shown, alerted>>,
           members' \subseteq Address, faults' \in 0..MaxFaults, trusted' \subseteq SUBSET Address,
           trusted \subseteq trusted', kept' = kept \/ kept' = {},
           NoCreep', RecordInv', sync.pc # "clear"
    PROVE  FeedInv'
  <1> USE DEF FeedInv
  <1>1. sync' = [sync EXCEPT !.pc = "record", !.next = next, !.fresh = fresh]
    BY DEF Recording
  <1>2. sync' \in Sync
    BY <1>1 DEF TypeOK, Sync
  <1>3. sync'.pc = "record" /\ sync'.by = sync.by
    BY <1>1 DEF TypeOK, Sync
  <1>4. kept' \subseteq Address
    BY DEF TypeOK
  <1>5. TypeOK' /\ RetriesInv'
    BY <1>2, <1>4 DEF TypeOK, RetriesInv, actors
  <1>6. LockInv'
    BY <1>3 DEF LockInv, actors
  <1>7. RowInv'
    BY DEF RowInv
  <1>8. WaitsAreAlerted'
    BY DEF WaitsAreAlerted
  <1> QED BY <1>5, <1>6, <1>7, <1>8

\* The endpoint answers.
LEMMA InvFetch == ASSUME FeedAssumption, FeedInv, Fetch PROVE FeedInv'
  <1> USE DEF FeedInv
  <1> DEFINE a == sync.by
  <1>1. sync.pc = "fetch" /\ sync \in Sync /\ a \in Actor
        /\ UNCHANGED <<feed, auto, members, row, faults, trusted, shown, kept, alerted>>
    BY DEF Fetch, TypeOK, LockInv, store, history
  <1>2. CASE /\ feed.answer = "list" /\ feed.emails # {}
             /\ sync' = [sync EXCEPT !.pc = "apply", !.emails = feed.emails]
             /\ UNCHANGED actors
    <2>1. feed.emails \in Lists /\ feed.emails \in SUBSET Address
      BY <1>2 DEF TypeOK, Answers, FeedAssumption
    <2>2. sync' \in Sync
      BY <1>1, <1>2, <2>1 DEF Sync
    <2>3. sync'.pc = "apply" /\ sync'.emails = feed.emails /\ sync'.by = a
          /\ sync'.accept = sync.accept /\ sync'.due = sync.due
      BY <1>1, <1>2 DEF Sync
    <2>4. TypeOK' /\ RetriesInv'
      BY <1>1, <1>2, <2>2 DEF TypeOK, RetriesInv, actors
    <2>5. LockInv'
      BY <1>1, <1>2, <2>1, <2>3 DEF LockInv, actors, Holds
    <2>6. RowInv' /\ RecordInv' /\ NoCreep' /\ WaitsAreAlerted'
      BY <1>1, <2>3 DEF RowInv, RecordInv, NoCreep, WaitsAreAlerted, Drifted, Differ, feedHoldDrift, AtLeast
    <2> QED BY <2>4, <2>5, <2>6
  <1>3. ASSUME NEW status \in {"empty", "failed"}, Recording(Outcome(status), FALSE), UNCHANGED actors
        PROVE  FeedInv'
    <2>1. Outcome(status) \in Row /\ ~Outcome(status).timed
          /\ Outcome(status).accepted = row.accepted /\ Outcome(status).kept = row.kept
      BY OutcomeIsRow
    <2>2. sync'.next = Outcome(status)
      BY <1>1, <1>3 DEF Recording, Sync
    <2>3. RecordInv'
      BY <1>1, <2>1, <2>2 DEF RecordInv
    <2>4. NoCreep'
      BY <1>1 DEF NoCreep, Drifted, Differ, feedHoldDrift, AtLeast
    <2> QED BY <1>1, <1>3, <2>1, <2>3, <2>4, RecordingStep DEF TypeOK
  <1>4. CASE feed.answer = "down" /\ MayRetry(a) /\ sync' = Free /\ ReturnRetry(a) /\ UNCHANGED retrying
    <2>1. a = Round => round = "sync"
      BY DEF LockInv
    <2>2. /\ round' \in {"idle", "lock", "sync", "start"}
          /\ retrier' \in [Retrier -> [pc : {"none", "sleep", "lock", "sync", "advance", "end"},
                                       attempt : 0..(Retries + 1)]]
          /\ admin' \in [Admin -> [pc : {"idle", "lock", "sync"}, accept : SUBSET Address]]
          /\ \A r \in Retrier : retrier'[r].pc = "advance" => retrier'[r].attempt <= Retries
          /\ \A r \in Retrier : retrier[r].pc # "none" => retrier'[r].pc # "none"
          /\ round' # "idle" => round # "idle"
      BY <1>1, <1>4, <2>1, ReturnRetryMoves
    <2>3. Free \in Sync
      BY DEF FeedAssumption, Free, NoRow, Row, Sync
    <2>4. TypeOK' /\ RetriesInv'
      BY <1>1, <1>4, <2>2, <2>3 DEF TypeOK, RetriesInv
    <2>5. LockInv' /\ RecordInv'
      BY <1>4 DEF LockInv, RecordInv, Free, FeedAssumption
    <2>6. RowInv' /\ NoCreep' /\ WaitsAreAlerted'
      BY <1>1 DEF RowInv, NoCreep, WaitsAreAlerted, Drifted, Differ, feedHoldDrift, AtLeast
    <2> QED BY <2>4, <2>5, <2>6
  <1> QED BY <1>2, <1>3, <1>4 DEF Fetch

\* The retry is cleared, the alert sent and the lock given back.
LEMMA InvSyncEnd == ASSUME FeedAssumption, FeedInv, SyncEnd PROVE FeedInv'
  <1> USE DEF FeedInv
  <1>1. sync.pc = "clear" /\ sync.by \in Actor /\ retrying' = None /\ sync' = Free /\ Return(sync.by)
        /\ UNCHANGED <<feed, auto, members, row, faults, trusted, shown, kept>>
        /\ alerted' = IF sync.alert /\ row.timed THEN "sent" ELSE alerted
    BY DEF SyncEnd, LockInv, store
  <1>2. /\ round' \in {"idle", "lock", "sync", "start"}
        /\ retrier' \in [Retrier -> [pc : {"none", "sleep", "lock", "sync", "advance", "end"},
                                     attempt : 0..(Retries + 1)]]
        /\ admin' \in [Admin -> [pc : {"idle", "lock", "sync"}, accept : SUBSET Address]]
        /\ \A r \in Retrier : retrier'[r].pc = "advance" => retrier'[r].attempt <= Retries
    BY <1>1, ReturnMoves
  <1>3. Free \in Sync
    BY DEF FeedAssumption, Free, NoRow, Row, Sync
  <1>4. TypeOK' /\ RetriesInv'
    BY <1>1, <1>2, <1>3 DEF TypeOK, RetriesInv
  <1>5. LockInv' /\ RecordInv'
    BY <1>1 DEF LockInv, RecordInv, Free, FeedAssumption
  <1>6. RowInv' /\ NoCreep' /\ WaitsAreAlerted'
    BY <1>1 DEF RowInv, NoCreep, WaitsAreAlerted, Drifted, Differ, feedHoldDrift, AtLeast
  <1> QED BY <1>4, <1>5, <1>6

-----------------------------------------------------------------------------

\* What a sync decides, of the list it fetched.
LEMMA DecideRecords ==
    ASSUME FeedAssumption, FeedInv, sync.pc = "apply", NEW list, list = sync.emails, Decide(list),
           UNCHANGED <<feed, auto, row, actors, shown, alerted>>, faults' \in 0..MaxFaults
    PROVE  FeedInv'
  <1> USE DEF FeedInv
  <1>1. list \in Lists /\ list \in SUBSET Address /\ sync \in Sync /\ row \in Row
    BY DEF LockInv, TypeOK, FeedAssumption
  <1>2. ASSUME NEW waited \in BOOLEAN, Apply(list, waited),
               ~(sync.accept # {} \/ waited) => ~MustHold(list)
        PROVE  FeedInv'
    <2> DEFINE decided == sync.accept # {} \/ waited
               next == [Outcome("ok") EXCEPT !.accepted = IF decided \/ @ = {} THEN list ELSE @,
                                             !.kept = IF decided THEN {} ELSE @]
    <2>1. /\ members' = list /\ Recording(next, FALSE)
          /\ trusted' = IF decided \/ row.accepted = {} THEN trusted \cup {list} ELSE trusted
          /\ kept' = IF decided THEN {} ELSE kept
      BY <1>2 DEF Apply
    <2>2. Outcome("ok") \in Row /\ ~Outcome("ok").timed
          /\ Outcome("ok").accepted = row.accepted /\ Outcome("ok").kept = row.kept
      BY OutcomeIsRow
    <2>3. /\ next \in Row /\ ~next.timed
          /\ next.accepted = IF decided \/ row.accepted = {} THEN list ELSE row.accepted
          /\ next.kept = IF decided THEN {} ELSE row.kept
      BY <1>1, <2>2 DEF Row
    <2>4. trusted' \subseteq SUBSET Address /\ trusted \subseteq trusted'
      BY <1>1, <2>1 DEF TypeOK
    <2>5. sync'.pc = "record" /\ sync'.next = next
      BY <1>1, <2>1, <2>3 DEF Recording, Sync
    <2>6. RecordInv'
      <3> HIDE DEF next
      <3> QED BY <2>1, <2>3, <2>5 DEF RecordInv
    <2>7. NoCreep'
      <3>1. CASE decided \/ row.accepted = {}
        BY <2>1, <3>1 DEF NoCreep
      <3>2. CASE ~(decided \/ row.accepted = {})
        <4>1. list = members \/ ~Drifted(list, row.accepted)
          BY <1>2, <3>2 DEF MustHold
        <4>2. row'.accepted \in trusted' /\ row' = row /\ trusted' = trusted /\ members' = list
          BY <2>1, <3>2 DEF RowInv
        <4> QED BY <4>1, <4>2 DEF NoCreep, Drifted, Differ, feedHoldDrift, AtLeast
      <3> QED BY <3>1, <3>2
    <2> HIDE DEF next
    <2>8. members' \subseteq Address /\ (kept' = kept \/ kept' = {})
      BY <1>1, <2>1
    <2> QED BY <2>1, <2>3, <2>4, <2>6, <2>7, <2>8, RecordingStep
  <1>3. ASSUME Hold(list) PROVE FeedInv'
    <2> DEFINE timed == auto /\ ~TooLarge(list)
               fresh == timed /\ ~(Holds(list) /\ row.timed)
               next == [Outcome("held") EXCEPT !.pending = list, !.timed = timed]
    <2>1. Recording(next, fresh) /\ UNCHANGED <<members, trusted, kept>>
      BY <1>3 DEF Hold
    <2>2. Outcome("held") \in Row /\ Outcome("held").status = "held"
          /\ Outcome("held").accepted = row.accepted /\ Outcome("held").kept = row.kept
      BY OutcomeIsRow
    <2>3. timed \in BOOLEAN /\ fresh \in BOOLEAN
      BY DEF TypeOK, Row, TooLarge
    <2>4. fresh \/ ~timed \/ (Holds(list) /\ row.timed)
      OBVIOUS
    <2> HIDE DEF timed, fresh
    <2>5. /\ next \in Row /\ next.timed = timed /\ next.pending = list /\ next.status = "held"
          /\ next.accepted = row.accepted /\ next.kept = row.kept
      BY <1>1, <2>2, <2>3 DEF Row
    <2> HIDE DEF next
    <2>6. sync'.pc = "record" /\ sync'.next = next /\ sync'.fresh = fresh
      BY <1>1, <2>1, <2>3, <2>5 DEF Recording, Sync
    <2>7. RecordInv'
      BY <2>1, <2>4, <2>5, <2>6 DEF RecordInv, Holds
    <2>8. NoCreep'
      BY <2>1 DEF NoCreep, Drifted, Differ, feedHoldDrift, AtLeast
    <2>9. members' \subseteq Address /\ trusted' \subseteq SUBSET Address
      BY <2>1 DEF TypeOK
    <2> QED BY <2>1, <2>3, <2>5, <2>7, <2>8, <2>9, RecordingStep
  <1>4. CASE sync.accept # {} /\ list = row.pending
    BY <1>2, <1>4 DEF Decide
  <1>5. CASE sync.accept # {} /\ list # row.pending
    BY <1>3, <1>5 DEF Decide
  <1>6. CASE sync.accept = {} /\ ~MustHold(list)
    BY <1>2, <1>6 DEF Decide
  <1>7. CASE sync.accept = {} /\ MustHold(list) /\ Waited(list)
    BY <1>2, <1>7 DEF Decide
  <1>8. CASE sync.accept = {} /\ MustHold(list) /\ ~Waited(list)
    BY <1>3, <1>8 DEF Decide
  <1> QED BY <1>4, <1>5, <1>6, <1>7, <1>8

\* The members are read and changed, or a call of the database fails.
LEMMA InvDecide ==
    ASSUME FeedAssumption, FeedInv, NEW ok \in BOOLEAN, DecideAndApply(ok)
    PROVE  FeedInv'
  <1> USE DEF FeedInv
  <1>1. sync.pc = "apply" /\ sync \in Sync /\ faults' \in 0..MaxFaults
        /\ UNCHANGED <<feed, auto, row, actors, shown, alerted>>
    BY DEF DecideAndApply, Works, TypeOK, FeedAssumption
  <1>2. CASE ok
    BY <1>1, <1>2, DecideRecords DEF DecideAndApply
  <1>3. CASE ~ok
    <2>1. Recording(Outcome("failed"), FALSE) /\ UNCHANGED <<members, trusted, kept>>
      BY <1>3 DEF DecideAndApply
    <2>2. Outcome("failed") \in Row /\ ~Outcome("failed").timed
          /\ Outcome("failed").accepted = row.accepted /\ Outcome("failed").kept = row.kept
      BY OutcomeIsRow
    <2>3. sync'.next = Outcome("failed")
      BY <1>1, <2>1 DEF Recording, Sync
    <2>4. RecordInv'
      BY <1>1, <2>1, <2>2, <2>3 DEF RecordInv
    <2>5. NoCreep'
      BY <1>1, <2>1 DEF NoCreep, Drifted, Differ, feedHoldDrift, AtLeast
    <2> QED BY <1>1, <2>1, <2>2, <2>4, <2>5, RecordingStep DEF TypeOK
  <1> QED BY <1>2, <1>3

\* The row is replaced by what the sync found, if the database takes it.
LEMMA InvRecord ==
    ASSUME FeedAssumption, FeedInv, NEW ok \in BOOLEAN, SetGroupSyncState(ok)
    PROVE  FeedInv'
  <1> USE DEF FeedInv
  <1> DEFINE next == sync.next
  <1>1. sync.pc = "record" /\ sync \in Sync /\ sync.by \in Actor /\ row \in Row /\ next \in Row
        /\ faults' \in 0..MaxFaults /\ UNCHANGED <<feed, auto, members, trusted, kept>>
    BY DEF SetGroupSyncState, Works, TypeOK, FeedAssumption, LockInv, Sync
  <1>2. CASE ok
    <2>1. /\ row' = Dated(next) /\ UNCHANGED actors
          /\ sync' = [sync EXCEPT !.pc = "clear", !.alert = Alerts]
          /\ shown' = IF next.status = "held" /\ Holds(next.pending) THEN shown ELSE 0
          /\ alerted' = IF sync.fresh \/ ~next.timed THEN "no" ELSE alerted
      BY <1>2 DEF SetGroupSyncState
    <2>2. /\ sync.late \in Nat /\ sync.late <= MaxLate /\ Wait \in Nat /\ MaxLate \in Nat
          /\ Wait - sync.late \in 0..Wait /\ row.due \in 0..Wait /\ shown \in 0..Wait
      BY <1>1 DEF Sync, FeedAssumption, Row, TypeOK
    <2>3. /\ row' \in Row
          /\ row'.due = IF ~next.timed THEN 0 ELSE IF sync.fresh THEN Wait - sync.late ELSE row.due
          /\ row'.status = next.status /\ row'.timed = next.timed /\ row'.pending = next.pending
          /\ row'.accepted = next.accepted /\ row'.kept = next.kept
      BY <1>1, <2>1, <2>2 DEF Dated, Row
    <2>4. Alerts \in BOOLEAN
      BY DEF Alerts
    <2>5. sync' \in Sync
      BY <1>1, <2>1, <2>4 DEF Sync
    <2>6. sync'.pc = "clear" /\ sync'.alert = Alerts /\ sync'.by = sync.by
      BY <1>1, <2>1, <2>4 DEF Sync
    <2>7. TypeOK'
      <3>1. shown' \in 0..Wait
        BY <2>1, <2>2
      <3>2. alerted' \in {"no", "sent", "lost"}
        BY <2>1 DEF TypeOK
      <3> QED BY <1>1, <2>1, <2>3, <2>5, <3>1, <3>2 DEF TypeOK, actors
    <2>8. RetriesInv' /\ LockInv' /\ RecordInv'
      BY <1>1, <2>1, <2>6 DEF RetriesInv, LockInv, RecordInv, actors
    <2>9. RowInv'
      <3>1. row'.timed => row'.status = "held" /\ row'.due + shown' + MaxLate >= Wait
        <4>1. CASE ~next.timed
          BY <2>3, <4>1
        <4>2. CASE next.timed /\ sync.fresh
          BY <1>1, <2>1, <2>2, <2>3, <4>2 DEF RecordInv
        <4>3. CASE next.timed /\ ~sync.fresh
          <5>1. next.status = "held" /\ row.timed /\ Holds(next.pending)
            BY <1>1, <4>3 DEF RecordInv
          <5>2. row.due + shown + MaxLate >= Wait
            BY <5>1 DEF RowInv
          <5> QED BY <2>1, <2>3, <4>3, <5>1, <5>2
        <4> QED BY <4>1, <4>2, <4>3
      <3>2. row'.accepted \in trusted'
        BY <1>1, <2>3 DEF RecordInv, RowInv
      <3>3. kept' = row'.kept \/ kept' = {}
        BY <1>1, <2>3 DEF RecordInv, RowInv
      <3> QED BY <3>1, <3>2, <3>3, <1>1 DEF RowInv
    <2>10. NoCreep'
      <3>1. CASE next.accepted = row.accepted
        BY <1>1, <2>3, <3>1 DEF NoCreep, Drifted, Differ, feedHoldDrift, AtLeast
      <3>2. CASE members \in trusted
        BY <1>1, <3>2 DEF NoCreep
      <3> QED BY <1>1, <3>1, <3>2 DEF RecordInv
    <2>11. WaitsAreAlerted'
      <3>1. CASE ~next.timed
        BY <2>3, <3>1 DEF WaitsAreAlerted
      <3>2. CASE next.timed /\ sync.fresh
        <4>1. Alerts
          BY <1>1, <3>2 DEF Alerts, RecordInv
        <4> QED BY <2>6, <4>1 DEF WaitsAreAlerted
      <3>3. CASE next.timed /\ ~sync.fresh
        <4>1. row.timed /\ row.status = "held"
          BY <1>1, <3>3 DEF RecordInv, Holds
        <4>2. alerted \in {"sent", "lost"}
          BY <1>1, <4>1 DEF WaitsAreAlerted
        <4> QED BY <2>1, <3>3, <4>2 DEF WaitsAreAlerted
      <3> QED BY <3>1, <3>2, <3>3
    <2> QED BY <2>7, <2>8, <2>9, <2>10, <2>11
  <1>3. CASE ~ok
    <2>1. Return(sync.by) /\ sync' = Free /\ UNCHANGED <<row, retrying, shown, alerted>>
      BY <1>3 DEF SetGroupSyncState
    <2>2. /\ round' \in {"idle", "lock", "sync", "start"}
          /\ retrier' \in [Retrier -> [pc : {"none", "sleep", "lock", "sync", "advance", "end"},
                                       attempt : 0..(Retries + 1)]]
          /\ admin' \in [Admin -> [pc : {"idle", "lock", "sync"}, accept : SUBSET Address]]
          /\ \A r \in Retrier : retrier'[r].pc = "advance" => retrier'[r].attempt <= Retries
          /\ \A r \in Retrier : retrier[r].pc # "none" => retrier'[r].pc # "none"
          /\ round' # "idle" => round' = round
      BY <1>1, <2>1, ReturnMoves
    <2>3. Free \in Sync
      BY DEF FeedAssumption, Free, NoRow, Row, Sync
    <2>4. TypeOK' /\ RetriesInv'
      BY <1>1, <2>1, <2>2, <2>3 DEF TypeOK, RetriesInv
    <2>5. LockInv' /\ RecordInv'
      BY <2>1 DEF LockInv, RecordInv, Free, FeedAssumption
    <2>6. RowInv' /\ NoCreep' /\ WaitsAreAlerted'
      BY <1>1, <2>1 DEF RowInv, NoCreep, WaitsAreAlerted, Drifted, Differ, feedHoldDrift, AtLeast
    <2> QED BY <2>4, <2>5, <2>6
  <1> QED BY <1>2, <1>3

\* An administrator keeps the members as they are.
LEMMA InvKeep ==
    ASSUME FeedAssumption, FeedInv, NEW hash \in Lists, KeepHeldChange(hash)
    PROVE  FeedInv'
  <1> USE DEF FeedInv
  <1>1. /\ sync = Free /\ row' = [row EXCEPT !.kept = hash] /\ kept' = hash
        /\ UNCHANGED <<feed, auto, members, sync, actors, faults, trusted, shown, alerted>>
    BY DEF KeepHeldChange
  <1>2. hash \in SUBSET Address /\ row \in Row
    BY DEF FeedAssumption, TypeOK
  <1>3. /\ row' \in Row /\ row'.status = row.status /\ row'.timed = row.timed /\ row'.due = row.due
        /\ row'.accepted = row.accepted /\ row'.kept = hash
    BY <1>1, <1>2 DEF Row
  <1>4. TypeOK' /\ RetriesInv'
    BY <1>1, <1>2, <1>3 DEF TypeOK, RetriesInv, actors
  <1>5. LockInv' /\ RecordInv'
    BY <1>1 DEF LockInv, RecordInv, Free, FeedAssumption
  <1>6. RowInv' /\ NoCreep' /\ WaitsAreAlerted'
    BY <1>1, <1>3 DEF RowInv, NoCreep, WaitsAreAlerted, Drifted, Differ, feedHoldDrift, AtLeast
  <1> QED BY <1>4, <1>5, <1>6

\* Time passes: a wait that has been shown longer has less of it to go.
LEMMA InvTick == ASSUME FeedAssumption, FeedInv, Tick PROVE FeedInv'
  <1> USE DEF FeedInv
  <1>1. /\ sync # Free => sync.late < MaxLate
        /\ row' = [row EXCEPT !.due = IF @ > 0 THEN @ - 1 ELSE 0]
        /\ sync' = IF sync = Free THEN Free ELSE [sync EXCEPT !.late = @ + 1]
        /\ shown' = IF row.status = "held" /\ shown < Wait THEN shown + 1 ELSE shown
        /\ UNCHANGED <<feed, auto, members, actors, faults, trusted, kept, alerted>>
    BY DEF Tick
  <1>2. row \in Row /\ sync \in Sync /\ shown \in 0..Wait /\ row.due \in 0..Wait
        /\ Wait \in Nat /\ MaxLate \in Nat
    BY DEF TypeOK, Row, FeedAssumption
  <1>3. /\ row' \in Row /\ row'.due = IF row.due > 0 THEN row.due - 1 ELSE 0
        /\ row'.status = row.status /\ row'.timed = row.timed /\ row'.pending = row.pending
        /\ row'.accepted = row.accepted /\ row'.kept = row.kept
    BY <1>1, <1>2 DEF Row
  <1>4. shown' \in 0..Wait
    BY <1>1, <1>2
  <1>5. CASE sync = Free
    <2>1. sync' = sync
      BY <1>1, <1>5
    <2> QED
      <3>1. TypeOK' /\ RetriesInv'
        BY <1>1, <1>3, <1>4, <2>1 DEF TypeOK, RetriesInv, actors
      <3>2. LockInv' /\ RecordInv'
        BY <1>5, <2>1 DEF LockInv, RecordInv, Free, FeedAssumption
      <3>3. RowInv'
        BY <1>1, <1>2, <1>3, <1>4 DEF RowInv
      <3>4. NoCreep' /\ WaitsAreAlerted'
        BY <1>1, <1>3, <2>1 DEF NoCreep, WaitsAreAlerted, Drifted, Differ, feedHoldDrift, AtLeast
      <3> QED BY <3>1, <3>2, <3>3, <3>4
  <1>6. CASE sync # Free
    <2>1. sync.late + 1 \in 0..MaxLate
      BY <1>1, <1>2, <1>6 DEF Sync
    <2>2. /\ sync' \in Sync /\ sync'.pc = sync.pc /\ sync'.by = sync.by /\ sync'.emails = sync.emails
          /\ sync'.due = sync.due /\ sync'.accept = sync.accept /\ sync'.next = sync.next
          /\ sync'.fresh = sync.fresh /\ sync'.alert = sync.alert
      BY <1>1, <1>2, <1>6, <2>1 DEF Sync
    <2>3. sync.pc # "free"
      BY <1>6 DEF LockInv
    <2>4. TypeOK' /\ RetriesInv'
      BY <1>1, <1>3, <1>4, <2>2 DEF TypeOK, RetriesInv, actors
    <2>5. sync'.due \in 0..Wait
      BY <2>2 DEF Sync
    <2>6. LockInv'
      BY <1>1, <1>2, <1>3, <2>2, <2>3, <2>5 DEF LockInv, Holds, actors
    <2>7. RowInv'
      BY <1>1, <1>2, <1>3, <1>4 DEF RowInv
    <2>8. RecordInv'
      BY <1>1, <1>3, <2>2 DEF RecordInv, Holds
    <2>9. NoCreep' /\ WaitsAreAlerted'
      BY <1>1, <1>3, <2>2 DEF NoCreep, WaitsAreAlerted, Drifted, Differ, feedHoldDrift, AtLeast
    <2> QED BY <2>4, <2>6, <2>7, <2>8, <2>9
  <1> QED BY <1>5, <1>6

\* The process stops, at whatever point, and starts again.
LEMMA InvRestart == ASSUME FeedAssumption, FeedInv, NEW to \in BOOLEAN, Restart(to) PROVE FeedInv'
  <1> USE DEF FeedInv
  <1>1. /\ faults < MaxFaults /\ faults' = faults + 1 /\ auto' = to /\ sync' = Free
        /\ round' = "idle" /\ retrier' = [r \in Retrier |-> NoRetrier] /\ retrying' = None
        /\ admin' = [a \in Admin |-> NoRequest]
        /\ alerted' = IF sync.pc = "clear" /\ sync.alert /\ row.timed THEN "lost" ELSE alerted
        /\ UNCHANGED <<feed, members, row, trusted, shown, kept>>
    BY DEF Restart, store
  <1>2. Free \in Sync
    BY DEF FeedAssumption, Free, NoRow, Row, Sync
  <1>3. TypeOK'
    BY <1>1, <1>2 DEF TypeOK, FeedAssumption, NoRetrier, NoRequest
  <1>4. RetriesInv' /\ LockInv' /\ RecordInv'
    BY <1>1 DEF RetriesInv, LockInv, RecordInv, Free, FeedAssumption, NoRetrier
  <1>5. RowInv' /\ NoCreep' /\ WaitsAreAlerted'
    BY <1>1 DEF RowInv, NoCreep, WaitsAreAlerted, Drifted, Differ, feedHoldDrift, AtLeast
  <1> QED BY <1>3, <1>4, <1>5

\* No step, and no stutter, breaks the invariant.
LEMMA InvNext == ASSUME FeedAssumption, FeedInv, [Next]_vars PROVE FeedInv'
  <1>1. CASE SyncSteps
    BY <1>1, InvFetch, InvSyncEnd, InvDecide, InvRecord DEF SyncSteps
  <1>2. CASE \E a \in Actor : Locks(a)
    BY <1>2, InvSyncBegin DEF Locks
  <1>3. CASE \/ RoundSteps
             \/ \E r \in Retrier : RetrySteps(r)
             \/ \E to \in Answers : FeedChanges(to)
    BY <1>3, InvActors
  <1>4. CASE AdminSteps
    BY <1>4, InvActors, InvKeep DEF AdminSteps
  <1>5. CASE Tick
    BY <1>5, InvTick
  <1>6. CASE \E to \in BOOLEAN : Restart(to)
    BY <1>6, InvRestart
  <1>7. CASE UNCHANGED vars
    <2>1. UNCHANGED <<feed, auto, members, row, sync, round, retrier, retrying, admin, faults,
                      trusted, shown, kept, alerted>>
      BY <1>7 DEF vars, store, actors, history
    <2>2. TypeOK' /\ RetriesInv'
      BY <2>1 DEF FeedInv, TypeOK, RetriesInv
    <2> QED BY <2>1, <2>2, ActorStep DEF store, history
  <1> QED BY <1>1, <1>2, <1>3, <1>4, <1>5, <1>6, <1>7 DEF Next

-----------------------------------------------------------------------------

\* The invariant holds of every state of every behaviour.
LEMMA FeedInvariant == ASSUME FeedAssumption PROVE Spec => []FeedInv
  <1>1. Init => FeedInv
    BY InvInit
  <1>2. FeedInv /\ [Next]_vars => FeedInv'
    BY InvNext
  <1> QED BY <1>1, <1>2, PTL DEF Spec

\* Only a decision of the sync that holds the lock changes the members.
LEMMA MembersChange ==
    ASSUME [Next]_vars, members' # members
    PROVE  sync.pc = "apply" /\ Decide(sync.emails) /\ members' = sync.emails
  <1>1. DecideAndApply(TRUE)
    BY DEF Next, SyncSteps, Fetch, SyncEnd, DecideAndApply, SetGroupSyncState, Locks, SyncBegin, RoundSteps,
           RoundBegin, StartRetry, RetrySteps, RetryWakes, AdvanceRetry, EndRetry, AdminSteps, AdminSync,
           KeepHeldChange, Tick, FeedChanges, Restart, vars, store
  <1> QED BY <1>1 DEF DecideAndApply, Decide, Apply, Hold

\* A change that must be held, and that nobody accepted, reaches the members
\* only when it has been shown for its wait and was not the list last kept.
LEMMA LargeChangeStep ==
    ASSUME FeedAssumption, FeedInv, [Next]_vars, members' # members, sync.accept = {}, MustHold(members')
    PROVE  Holds(members') /\ shown + MaxLate >= Wait /\ kept # members'
  <1>1. sync.pc = "apply" /\ Decide(sync.emails) /\ members' = sync.emails
    BY MembersChange
  <1>2. Waited(sync.emails)
    BY <1>1 DEF Decide, Hold
  <1>3. row.timed /\ sync.due = 0 /\ Holds(sync.emails) /\ row.kept # sync.emails
    BY <1>2 DEF Waited
  <1>4. row.due = 0 /\ Wait \in Nat /\ MaxLate \in Nat /\ shown \in Nat
    BY <1>1, <1>3 DEF FeedInv, LockInv, TypeOK, Row, FeedAssumption
  <1>5. shown + MaxLate >= Wait
    BY <1>3, <1>4 DEF FeedInv, RowInv
  <1>6. kept # sync.emails
    BY <1>1, <1>3 DEF FeedInv, RowInv, LockInv, FeedAssumption
  <1> QED BY <1>1, <1>3, <1>5, <1>6

\* The table of retries changes hands only through nobody's.
LEMMA SequenceStep ==
    ASSUME FeedAssumption, FeedInv, [Next]_vars, retrying' # retrying
    PROVE  /\ retrying' # None => retrying = None /\ round = "start"
           /\ retrying # None => sync.pc = "clear" \/ retrier[retrying].pc = "end" \/ faults' > faults
  <1>1. CASE SyncEnd
    BY <1>1 DEF SyncEnd
  <1>2. CASE \E r \in Retrier : StartRetry(r)
    BY <1>2 DEF StartRetry, FeedInv, RetriesInv
  <1>3. CASE \E r \in Retrier : EndRetry(r)
    BY <1>3 DEF EndRetry
  <1>4. CASE \E to \in BOOLEAN : Restart(to)
    BY <1>4 DEF Restart, FeedInv, TypeOK, FeedAssumption
  <1> QED
    BY <1>1, <1>2, <1>3, <1>4
       DEF Next, SyncSteps, Fetch, DecideAndApply, Decide, Apply, Hold, Recording, SetGroupSyncState, Locks, SyncBegin,
           RoundSteps, RoundBegin, RetrySteps, RetryWakes, AdvanceRetry, AdminSteps, AdminSync, KeepHeldChange,
           Tick, FeedChanges, vars, actors

\* Every variable stays in its range (the row of group_sync_state, the sync,
\* the retries).
THEOREM FeedTypeCorrect == ASSUME FeedAssumption PROVE Spec => []TypeOK
  <1>1. FeedInv => TypeOK
    BY DEF FeedInv
  <1> QED BY <1>1, FeedInvariant, PTL

\* Whatever changes follow each other and whichever of their records are lost,
\* the members stay within the threshold of the last list somebody let in
\* (syncFeedAttempt).
THEOREM NobodyCreeps == ASSUME FeedAssumption PROVE Spec => []NoCreep
  <1>1. FeedInv => NoCreep
    BY DEF FeedInv
  <1> QED BY <1>1, FeedInvariant, PTL

\* A wait that is on was announced when it began (finish).
THEOREM EveryWaitIsAnnounced == ASSUME FeedAssumption PROVE Spec => []WaitsAreAlerted
  <1>1. FeedInv => WaitsAreAlerted
    BY DEF FeedInv
  <1> QED BY <1>1, FeedInvariant, PTL

\* An entry in the table of retries always has its goroutine (scheduledSync
\* skips the group of an entry).
THEOREM EveryEntryHasItsOwner == ASSUME FeedAssumption PROVE Spec => []EntryHasOwner
  <1>1. FeedInv => EntryHasOwner
    BY DEF FeedInv, RetriesInv, EntryHasOwner
  <1> QED BY <1>1, FeedInvariant, PTL

\* A large change waits, is shown for the whole of its wait, and is not one
\* that was kept out (syncFeedAttempt).
THEOREM LargeChangesAreShown == ASSUME FeedAssumption PROVE Spec => LargeChangesWait
  <1>1. FeedInv /\ [Next]_vars =>
          [members' # members /\ sync.accept = {} /\ MustHold(members') =>
              /\ Holds(members') /\ shown + MaxLate >= Wait
              /\ kept # members']_vars
    BY LargeChangeStep
  <1> QED BY <1>1, FeedInvariant, PTL DEF LargeChangesWait, Spec

\* An acceptance applies what its page showed, or nothing (syncFeed).
THEOREM AcceptanceIsExact == ASSUME FeedAssumption PROVE Spec => AcceptedAsShown
  <1>1. FeedInv /\ [Next]_vars => [members' # members /\ sync.accept # {} => members' = sync.accept]_vars
    <2>1. SUFFICES ASSUME FeedInv, [Next]_vars, members' # members, sync.accept # {}
                   PROVE  members' = sync.accept
      OBVIOUS
    <2>2. sync.pc = "apply" /\ Decide(sync.emails) /\ members' = sync.emails
      BY <2>1, MembersChange
    <2>3. sync.emails = row.pending
      BY <2>1, <2>2 DEF Decide, Hold
    <2>4. row.pending = sync.accept
      BY <2>1, <2>2 DEF FeedInv, LockInv, Holds
    <2> QED BY <2>2, <2>3, <2>4
  <1> QED BY <1>1, FeedInvariant, PTL DEF AcceptedAsShown, Spec

\* A retry sequence takes nothing from another (ownsRetry, advanceRetry,
\* endRetry).
THEOREM SequencesAreApart == ASSUME FeedAssumption PROVE Spec => SequencesKeepApart
  <1>1. FeedInv /\ [Next]_vars =>
          [retrying' # retrying =>
            /\ retrying' # None => retrying = None /\ round = "start"
            /\ retrying # None => sync.pc = "clear" \/ retrier[retrying].pc = "end" \/ faults' > faults]_vars
    BY SequenceStep
  <1> QED BY <1>1, FeedInvariant, PTL DEF SequencesKeepApart, Spec
=============================================================================
