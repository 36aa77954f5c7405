---------------------------- MODULE RunLifecycle ----------------------------
(***************************************************************************)
(* The native runs of one player character, from admission to their end,   *)
(* as the four run services drive them through HTTP handlers:              *)
(*                                                                         *)
(*   exit      run_exit_service.py          leave the run at an ended story*)
(*   continue  run_continuation_service.py  go on to the second visit      *)
(*             fog_continuation_service.py  (its fog-station form)         *)
(*   revisit   run_revisit_service.py       go back for a third visit      *)
(*   complete  run_completion_service.py    close the journey              *)
(*                                                                         *)
(* Every handler works in two transactions.  A plain reader finds the run  *)
(* and, for continue and revisit, prepares the next session from what it   *)
(* read; the native writer then takes the database's named lock, reads all *)
(* again under row locks, and replays, refuses or writes.  Between the two *)
(* anything may happen: turns, other handlers, retirement, crashes, and    *)
(* COMMITs whose acknowledgement never arrives.                            *)
(***************************************************************************)
EXTENDS Integers

CONSTANTS
    Handlers,    \* concurrent HTTP handlers, of one or several processes
    NoHandler,   \* the named lock is free
    Orphan,      \* the named lock is held by a connection nobody listens to
    Runs,        \* the runs this character may ever enter
    Keys,        \* public operation keys
    Requests,    \* what clients may post
    MaxVersion   \* bound: no session gets past this state version

Ops == {"continue", "exit", "revisit", "complete"}
Visit == 1..3

RequestType == [op: Ops, run: Runs, visit: Visit, key: Keys,
                runVersion: Nat, sessionVersion: Nat]

ASSUME LockAssumption == {NoHandler, Orphan} \cap Handlers = {} /\ NoHandler # Orphan
ASSUME RequestAssumption == Requests \subseteq RequestType /\ Requests # {}
ASSUME VersionAssumption == MaxVersion \in Nat

VARIABLES
    family,       \* what the stored records of each run classify as
    session,      \* the session of each run's first, second and third visit
    job,          \* the sessions with an active narrative job
    sealed,       \* the snapshot a continuation, revisit or ending has captured
    character,    \* the player character's lifecycle
    receipts,     \* the stored success receipts
    native_lock,  \* who holds the named lock
    staged,       \* the writes of the lock holder, flushed and not yet committed
    handler       \* the handlers

vars == <<family, session, job, sealed, character, receipts, native_lock, staged, handler>>

-----------------------------------------------------------------------------
(* Families, sessions, requests and receipts                               *)

OpenFamilies == {"Admission", "FogAdmission", "Continued", "FogContinued", "RegionalRevisit"}
ClosedFamilies == {"Terminated", "ContinuedTerminated", "FogTerminated",
                   "RegionalRevisitTerminated", "RegionalCompleted"}
Families == OpenFamilies \cup ClosedFamilies \cup {"None"}

Visits(f) ==
    CASE f \in {"Admission", "FogAdmission", "Terminated"} -> 1
      [] f \in {"Continued", "ContinuedTerminated", "FogContinued", "FogTerminated"} -> 2
      [] f \in {"RegionalRevisit", "RegionalRevisitTerminated", "RegionalCompleted"} -> 3
      [] OTHER -> 0

\* Which operation turns which family into which.
Succession ==
    {<<"continue", "Admission", "Continued">>,
     <<"continue", "FogAdmission", "FogContinued">>,
     <<"revisit", "Continued", "RegionalRevisit">>,
     <<"complete", "RegionalRevisit", "RegionalCompleted">>,
     <<"exit", "Admission", "Terminated">>,
     <<"exit", "FogAdmission", "Terminated">>,
     <<"exit", "Continued", "ContinuedTerminated">>,
     <<"exit", "FogContinued", "FogTerminated">>,
     <<"exit", "RegionalRevisit", "RegionalRevisitTerminated">>}

\* A story ends "onward" when its ending admits the journey's next operation
\* (continue, revisit, complete), "final" at any other ending.
Ended == {"onward", "final"}
NoVersion == -1
SessionRecord == [version: 0..MaxVersion, ending: {"open"} \cup Ended,
                  from: {NoVersion} \cup 0..MaxVersion]
SealedRecord == [version: 0..MaxVersion, ending: Ended, from: {NoVersion} \cup 0..MaxVersion]
NoSession == [version |-> NoVersion, ending |-> "absent", from |-> NoVersion]

\* A session begins open, with the player state of the given source version.
NewSession(source) == [version |-> 0, ending |-> "open", from |-> source]

\* An active run binds the character: at most one may be open.
Open == {r \in Runs : family[r] \in OpenFamilies}
Current(r) == <<r, Visits(family[r])>>

\* Receipts of an exit live in one of three namespaces, by the visits made.
Namespace(q) == IF q.op = "exit" THEN <<"exit", Visits(family[q.run])>> ELSE <<q.op, 0>>
ReceiptType == [run: Runs, namespace: Ops \X (0..3), key: Keys, request: Requests]
Found(q) == {x \in receipts : x.run = q.run /\ x.namespace = Namespace(q) /\ x.key = q.key}
Replayable(q) == \E x \in Found(q) : x.request = q
Reused(q) == \E x \in Found(q) : x.request # q
Applied(q) == \E x \in receipts : x.request = q

\* Mutant: an exit does not wait for the story to end.
EligibleUnended(q) ==
    /\ \E next \in Families : <<q.op, family[q.run], next>> \in Succession
    /\ q.visit = Visits(family[q.run])
    /\ character = "ACTIVE"
    /\ q.op # "exit" => session[Current(q.run)].ending = "onward"

\* What the operation asks of the run and of the story, whatever the versions.
Eligible(q) ==
    /\ \E next \in Families : <<q.op, family[q.run], next>> \in Succession
    /\ q.visit = Visits(family[q.run])
    /\ character = "ACTIVE"
    /\ session[Current(q.run)].ending \in (IF q.op = "exit" THEN Ended ELSE {"onward"})

\* Mutant: only the run's version is compared.
VersionsMatchRun(q) == q.runVersion = Visits(family[q.run]) + 2

VersionsMatch(q) ==
    /\ q.runVersion = Visits(family[q.run]) + 2
    /\ q.sessionVersion = session[Current(q.run)].version

\* Mutant: the prepared session is written without being compared again.
PreparedUnchecked(h) == TRUE

\* continue and revisit write a session prepared from the reader's snapshot.
Prepares(q) == q.op \in {"continue", "revisit"}
PreparedHolds(h) ==
    Prepares(handler[h].request)
        => handler[h].prepared = session[Current(handler[h].request.run)].version

\* Mutant: the expected versions are not compared.
AllowedStale(h) == Eligible(handler[h].request) /\ PreparedHolds(h)

Allowed(h) ==
    /\ Eligible(handler[h].request)
    /\ VersionsMatch(handler[h].request)
    /\ PreparedHolds(h)

RowsLocked(r) == \E t \in staged : t.request.run = r
CharacterLocked == staged # {}

-----------------------------------------------------------------------------
(* The initial state: no run entered, nobody asking                        *)

AnyRequest == CHOOSE q \in Requests : TRUE
IdleHandler == [pc |-> "idle", request |-> AnyRequest, prepared |-> NoVersion, answer |-> "NONE"]

Init ==
    /\ family = [r \in Runs |-> "None"]
    /\ session = [s \in Runs \X Visit |-> NoSession]
    /\ job = {}
    /\ sealed = [s \in Runs \X Visit |-> NoSession]
    /\ character = "ACTIVE"
    /\ receipts = {}
    /\ native_lock = NoHandler
    /\ staged = {}
    /\ handler = [h \in Handlers |-> IdleHandler]

-----------------------------------------------------------------------------
(* Entering, playing and retiring                                          *)

\* The native entry, one transaction under the named lock and the character's
\* row lock; it needs an active character that no active run binds.
Admit(r, f) ==
    /\ native_lock = NoHandler
    /\ family[r] = "None"
    /\ Open = {}
    /\ character = "ACTIVE"
    /\ f \in {"Admission", "FogAdmission"}
    /\ family' = [family EXCEPT ![r] = f]
    /\ session' = [session EXCEPT ![<<r, 1>>] = NewSession(NoVersion)]
    /\ UNCHANGED <<job, sealed, character, receipts, native_lock, staged, handler>>

\* A turn is taken in the current visit of an active run, while its story is
\* open, and waits for the session's row lock.
Playable(r) ==
    /\ r \in Open
    /\ session[Current(r)].ending = "open"
    /\ ~RowsLocked(r)

Advance(r, ending) ==
    session' = [session EXCEPT ![Current(r)].version = @ + 1, ![Current(r)].ending = ending]

\* Mutant: a local turn is taken while the session has a job.
LocalTurnBusy(r, ending) ==
    /\ Playable(r)
    /\ session[Current(r)].version < MaxVersion
    /\ Advance(r, ending)
    /\ UNCHANGED <<family, job, sealed, character, receipts, native_lock, staged, handler>>

LocalTurn(r, ending) ==
    /\ Playable(r)
    /\ Current(r) \notin job
    /\ session[Current(r)].version < MaxVersion
    /\ Advance(r, ending)
    /\ UNCHANGED <<family, job, sealed, character, receipts, native_lock, staged, handler>>

StartJob(r) ==
    /\ Playable(r)
    /\ Current(r) \notin job
    /\ session[Current(r)].version < MaxVersion
    /\ job' = job \cup {Current(r)}
    /\ UNCHANGED <<family, session, sealed, character, receipts, native_lock, staged, handler>>

FinishJob(r, ending) ==
    /\ Playable(r)
    /\ Current(r) \in job
    /\ Advance(r, ending)
    /\ job' = job \ {Current(r)}
    /\ UNCHANGED <<family, sealed, character, receipts, native_lock, staged, handler>>

DropJob(s) ==
    /\ s \in job
    /\ ~RowsLocked(s[1])
    /\ job' = job \ {s}
    /\ UNCHANGED <<family, session, sealed, character, receipts, native_lock, staged, handler>>

\* Mutant: retiring does not look for a run that binds the character.
RetireAnyway ==
    /\ character = "ACTIVE"
    /\ ~CharacterLocked
    /\ character' = "RETIRED"
    /\ UNCHANGED <<family, session, job, sealed, receipts, native_lock, staged, handler>>

\* Retiring locks the character's row and refuses while a run binds it.
Retire ==
    /\ character = "ACTIVE"
    /\ Open = {}
    /\ ~CharacterLocked
    /\ character' = "RETIRED"
    /\ UNCHANGED <<family, session, job, sealed, receipts, native_lock, staged, handler>>

-----------------------------------------------------------------------------
(* The handler: reader transaction                                         *)

\* A client posts about a session it knows, with whatever versions it believes.
Post(h, q) ==
    /\ handler[h].pc = "idle"
    /\ q.visit <= Visits(family[q.run])
    /\ handler' = [handler EXCEPT ![h] =
                      [pc |-> "read", request |-> q, prepared |-> NoVersion, answer |-> "NONE"]]
    /\ UNCHANGED <<family, session, job, sealed, character, receipts, native_lock, staged>>

Waits(h, version) ==
    handler' = [handler EXCEPT ![h].pc = "waiting", ![h].prepared = version]

Answers(h, answer) ==
    handler' = [handler EXCEPT ![h].pc = "idle", ![h].answer = answer]

\* revisit and complete look for their receipt before they ask for the lock.
LooksFirst(q) == q.op \in {"revisit", "complete"}

Read(h) ==
    /\ handler[h].pc = "read"
    /\ LET q == handler[h].request IN
       \/ /\ LooksFirst(q) => Found(q) = {}
          /\ q.op = "revisit" => Eligible(q)
          /\ Waits(h, IF Prepares(q) /\ Eligible(q) THEN session[Current(q.run)].version
                                                    ELSE NoVersion)
       \/ /\ LooksFirst(q)
          /\ Replayable(q)
          /\ Answers(h, "OK")
       \/ /\ LooksFirst(q)
          /\ Reused(q)
          /\ Answers(h, "KEY_REUSED")
       \/ /\ q.op = "revisit"
          /\ Found(q) = {}
          /\ ~Eligible(q)
          /\ Answers(h, "REFUSED")
    /\ UNCHANGED <<family, session, job, sealed, character, receipts, native_lock, staged>>

-----------------------------------------------------------------------------
(* The handler: writer transaction                                         *)

Lock(h) ==
    /\ handler[h].pc = "waiting"
    /\ native_lock = NoHandler
    /\ native_lock' = h
    /\ handler' = [handler EXCEPT ![h].pc = "locked"]
    /\ UNCHANGED <<family, session, job, sealed, character, receipts, staged>>

\* GET_LOCK gives up after thirty seconds.
LockTimeout(h) ==
    /\ handler[h].pc = "waiting"
    /\ native_lock # NoHandler
    /\ Answers(h, "CONFLICT")
    /\ UNCHANGED <<family, session, job, sealed, character, receipts, native_lock, staged>>

\* Under the row locks: an earlier receipt decides before anything else does.
Decides(h, answer) ==
    /\ handler[h].pc = "locked"
    /\ handler' = [handler EXCEPT ![h].pc = "closing", ![h].answer = answer]
    /\ UNCHANGED <<family, session, job, sealed, character, receipts, native_lock, staged>>

\* Mutant: the request is judged before its receipt is looked for.
RefuseFirst(h) == ~Allowed(h) /\ Decides(h, "REFUSED")

Replay(h) == Replayable(handler[h].request) /\ Decides(h, "OK")
RefuseKey(h) == Reused(handler[h].request) /\ Decides(h, "KEY_REUSED")
Refuse(h) == Found(handler[h].request) = {} /\ ~Allowed(h) /\ Decides(h, "REFUSED")

Stage(h) ==
    /\ handler[h].pc = "locked"
    /\ Found(handler[h].request) = {}
    /\ Allowed(h)
    /\ \E next \in Families :
          /\ <<handler[h].request.op, family[handler[h].request.run], next>> \in Succession
          /\ staged' = {[request |-> handler[h].request, next |-> next,
                         prepared |-> handler[h].prepared]}
    /\ handler' = [handler EXCEPT ![h].pc = "staged"]
    /\ UNCHANGED <<family, session, job, sealed, character, receipts, native_lock>>

\* What the database does when it executes the COMMIT: the run's revision, its
\* receipt, the sealed snapshot of the session left, and the next session.
Apply(t) ==
    LET r == t.request.run IN
    /\ family' = [family EXCEPT ![r] = t.next]
    /\ receipts' = receipts \cup {[run |-> r, namespace |-> Namespace(t.request),
                                   key |-> t.request.key, request |-> t.request]}
    /\ sealed' = [sealed EXCEPT ![Current(r)] = session[Current(r)]]
    /\ session' = IF Prepares(t.request)
                  THEN [session EXCEPT ![<<r, Visits(t.next)>>] = NewSession(t.prepared)]
                  ELSE session
    /\ staged' = {}
    /\ UNCHANGED <<job, character>>

Commit(h) ==
    /\ handler[h].pc = "staged"
    /\ \E t \in staged : Apply(t)
    /\ handler' = [handler EXCEPT ![h].pc = "committed", ![h].answer = "OK"]
    /\ UNCHANGED native_lock

\* Mutant: success is reported while the outcome is open.
CommitUnacknowledgedSuccess(h) ==
    /\ handler[h].pc = "staged"
    /\ native_lock' = Orphan
    /\ Answers(h, "OK")
    /\ UNCHANGED <<family, session, job, sealed, character, receipts, staged>>

\* The acknowledgement is lost (or the handler is cancelled at it): the client
\* is told that the outcome is unknown, and the connection is thrown away.
CommitUnacknowledged(h) ==
    /\ handler[h].pc = "staged"
    /\ native_lock' = Orphan
    /\ Answers(h, "UNKNOWN")
    /\ UNCHANGED <<family, session, job, sealed, character, receipts, staged>>

OrphanCommits ==
    /\ native_lock = Orphan
    /\ \E t \in staged : Apply(t)
    /\ native_lock' = NoHandler
    /\ UNCHANGED handler

OrphanRollsBack ==
    /\ native_lock = Orphan
    /\ staged' = {}
    /\ native_lock' = NoHandler
    /\ UNCHANGED <<family, session, job, sealed, character, receipts, handler>>

\* Closing releases the named lock, after a commit as after a replay or refusal.
Close(h) ==
    /\ handler[h].pc \in {"committed", "closing"}
    /\ native_lock' = NoHandler
    /\ Answers(h, handler[h].answer)
    /\ UNCHANGED <<family, session, job, sealed, character, receipts, staged>>

\* Mutant: the connection goes back to the pool with the lock still taken.
CloseFailsKeeping(h) ==
    /\ handler[h].pc \in {"committed", "closing"}
    /\ Answers(h, "CONFLICT")
    /\ UNCHANGED <<family, session, job, sealed, character, receipts, native_lock, staged>>

\* RELEASE_LOCK fails: the connection, and the lock with it, is discarded.
CloseFails(h) ==
    /\ handler[h].pc \in {"committed", "closing"}
    /\ native_lock' = NoHandler
    /\ Answers(h, IF handler[h].pc = "committed" THEN "UNKNOWN"
                  ELSE IF handler[h].answer = "OK" THEN "CONFLICT" ELSE handler[h].answer)
    /\ UNCHANGED <<family, session, job, sealed, character, receipts, staged>>

\* A statement fails, or the connection is lost, before the COMMIT is sent.
LoseConnection(h) ==
    /\ handler[h].pc \in {"locked", "staged"}
    /\ native_lock' = NoHandler
    /\ staged' = {}
    /\ Answers(h, "ERROR")
    /\ UNCHANGED <<family, session, job, sealed, character, receipts>>

\* The process dies before it sends a COMMIT or after it was acknowledged.
Crash(h) ==
    /\ handler[h].pc # "idle"
    /\ native_lock' = IF native_lock = h THEN NoHandler ELSE native_lock
    /\ staged' = IF native_lock = h THEN {} ELSE staged
    /\ Answers(h, "UNKNOWN")
    /\ UNCHANGED <<family, session, job, sealed, character, receipts>>

-----------------------------------------------------------------------------

\* What a handler does as long as nothing cuts it short.
Progress(h) ==
    \/ Read(h) \/ Lock(h) \/ LockTimeout(h)
    \/ Replay(h) \/ RefuseKey(h) \/ Refuse(h) \/ Stage(h)
    \/ Commit(h) \/ CommitUnacknowledged(h)
    \/ Close(h) \/ CloseFails(h)

Step(h) == Progress(h) \/ LoseConnection(h) \/ Crash(h)

Play(r) ==
    \/ \E f \in {"Admission", "FogAdmission"} : Admit(r, f)
    \/ \E ending \in {"open"} \cup Ended : LocalTurn(r, ending) \/ FinishJob(r, ending)
    \/ StartJob(r)

OrphanEnds == OrphanCommits \/ OrphanRollsBack

Next ==
    \/ \E h \in Handlers : Step(h) \/ (\E q \in Requests : Post(h, q))
    \/ \E r \in Runs : Play(r)
    \/ \E s \in job : DropJob(s)
    \/ Retire
    \/ OrphanEnds

Spec == Init /\ [][Next]_vars

\* A handler runs on, without counting on a crash or a lost connection to end
\* it, and the database finishes what it was sent.
Fairness ==
    /\ \A h \in Handlers : WF_vars(Progress(h))
    /\ WF_vars(OrphanEnds)

FairSpec == Spec /\ Fairness

-----------------------------------------------------------------------------
(* Properties                                                              *)

HandlerType == [pc: {"idle", "read", "waiting", "locked", "staged", "committed", "closing"},
                request: Requests,
                prepared: {NoVersion} \cup 0..MaxVersion,
                answer: {"NONE", "OK", "REFUSED", "KEY_REUSED", "CONFLICT", "ERROR", "UNKNOWN"}]

\* Every variable has its type; in particular what a receipt's evidence seals
\* is the snapshot of a story that has ended (the evidence models' ending_status).
TypeOK ==
    /\ family \in [Runs -> Families]
    /\ session \in [Runs \X Visit -> SessionRecord \cup {NoSession}]
    /\ job \subseteq Runs \X Visit
    /\ sealed \in [Runs \X Visit -> SealedRecord \cup {NoSession}]
    /\ character \in {"ACTIVE", "RETIRED"}
    /\ receipts \subseteq ReceiptType
    /\ native_lock \in Handlers \cup {NoHandler, Orphan}
    /\ staged \subseteq [request: Requests, next: Families, prepared: {NoVersion} \cup 0..MaxVersion]
    /\ handler \in [Handlers -> HandlerType]

\* The character is bound by one active run at most, and never retires while
\* one binds it: admissions, exits, completions and retirement keep the unique
\* active_player_character_id of the current rows.
OneOpenRun ==
    /\ \A r, s \in Open : r = s
    /\ Open # {} => character = "ACTIVE"

\* The visits of a run the player has left for good.
Left(r) == {v \in Visit : v < Visits(family[r])
                          \/ (v = Visits(family[r]) /\ family[r] \in ClosedFamilies)}

\* The classifier rebuilds a family from the sealed snapshots and compares
\* them with the stored sessions: a session that was left never moves again,
\* whoever still held it in another transaction, and has no job that could.
SealedSources ==
    \A r \in Runs : \A v \in Left(r) :
        /\ sealed[<<r, v>>] = session[<<r, v>>]
        /\ session[<<r, v>>].ending \in Ended
        /\ <<r, v>> \notin job

\* What the player carries into a visit is what the visit before ended with:
\* the session was prepared from an earlier, unlocked read, and nothing gained
\* or lost in between may be missing from it.
CarryoverIsExact ==
    \A r \in Runs : \A v \in 2..Visits(family[r]) :
        session[<<r, v>>].from = sealed[<<r, v - 1>>].version

\* The namespaces in which a family of each kind has its receipts.
ReceiptsOf(f) ==
    (IF Visits(f) >= 2 THEN {<<"continue", 0>>} ELSE {})
    \cup (IF Visits(f) = 3 THEN {<<"revisit", 0>>} ELSE {})
    \cup (IF f = "RegionalCompleted" THEN {<<"complete", 0>>}
          ELSE IF f \in ClosedFamilies THEN {<<"exit", Visits(f)>>} ELSE {})

\* Each run has exactly the receipts of its path, one per operation that made
\* it, and each names the version the run then had: no operation is applied
\* twice, none without a receipt, and a replay always finds its own evidence
\* (the integrity checks behind _replay never fire).
ReceiptsMatch ==
    \A r \in Runs :
        LET own == {x \in receipts : x.run = r} IN
        /\ {x.namespace : x \in own} = ReceiptsOf(family[r])
        /\ \A x, y \in own : x.namespace = y.namespace => x = y
        /\ \A x \in own :
              /\ x.request.visit \in Left(r)
              /\ x.request.runVersion = x.request.visit + 2
              /\ x.request.sessionVersion = session[<<r, x.request.visit>>].version

\* Whatever is flushed may still be committed: the run, the character and the
\* story have not moved since the check, also for a connection nobody owns any
\* more.  (The compare-and-swap behind every operation therefore never loses.)
StagedIsCurrent ==
    \A t \in staged :
        /\ <<t.request.op, family[t.request.run], t.next>> \in Succession
        /\ Eligible(t.request)
        /\ VersionsMatch(t.request)
        /\ Found(t.request) = {}
        /\ Prepares(t.request) => t.prepared = session[Current(t.request.run)].version

\* Only the holder of the named lock has anything flushed, and a handler
\* believes it holds the lock exactly when it does.
Inside == {"locked", "staged", "committed", "closing"}
OneWriter ==
    /\ \A h \in Handlers : handler[h].pc \in Inside <=> native_lock = h
    /\ staged # {} <=> (native_lock = Orphan \/ \E h \in Handlers : handler[h].pc = "staged")
    /\ \A t, u \in staged : t = u
    /\ \A h \in Handlers : handler[h].pc = "staged" =>
          \A t \in staged : t.request = handler[h].request

\* A client told that its operation succeeded can rely on it: the operation
\* was applied, whether this very handler did it or found its receipt.
SuccessIsDurable ==
    \A h \in Handlers : handler[h].answer = "OK" => Applied(handler[h].request)

\* A client told that its request was refused, or its key taken, is told so of
\* a request that was not carried out - not by the same request sent before,
\* and not by a COMMIT still under way.
Told(h, answers) == handler[h].pc # "idle" /\ handler'[h].pc = "idle"
                                           /\ handler'[h].answer \in answers
NoFalseRefusal ==
    [][\A h \in Handlers : Told(h, {"REFUSED", "KEY_REUSED"}) =>
          ~Applied(handler[h].request)' /\ \A t \in staged' : t.request # handler[h].request]_vars

\* The named lock always comes free, also after crashes and lost acknowledgements.
LockComesFree == native_lock # NoHandler ~> native_lock = NoHandler

\* What the proofs need besides: a job runs in the open story of the current
\* visit of an active run, and every visit a family counts has its session.
JobsArePlaying ==
    \A s \in job : /\ s[1] \in Open /\ s = Current(s[1])
                   /\ session[s].ending = "open" /\ session[s].version < MaxVersion
VisitsExist ==
    \A r \in Runs : \A v \in 1..Visits(family[r]) : session[<<r, v>>] \in SessionRecord

IInv ==
    /\ TypeOK /\ OneWriter /\ OneOpenRun /\ JobsArePlaying /\ VisitsExist
    /\ SealedSources /\ StagedIsCurrent /\ CarryoverIsExact /\ ReceiptsMatch
    /\ SuccessIsDurable

\* What the services promise together: one journey at a time, told in order.
Status(f) == IF f = "None" THEN "unentered"
             ELSE IF f \in OpenFamilies THEN "open"
             ELSE IF f = "RegionalCompleted" THEN "completed" ELSE "left"

storyVisits == [r \in Runs |-> Visits(family[r])]
storyStatus == [r \in Runs |-> Status(family[r])]
storyTurns == [r \in Runs |-> [v \in 1..Visits(family[r]) |-> session[<<r, v>>].version]]
storyOver == [r \in Runs |-> family[r] # "None" /\ session[Current(r)].ending # "open"]

Story == INSTANCE RunStory WITH
    Runs <- Runs, visits <- storyVisits, status <- storyStatus,
    turns <- storyTurns, over <- storyOver, retired <- character = "RETIRED"

\* Every interleaving of handlers, turns and crashes is a story told one step
\* at a time.
StorySpec == Story!Spec
=============================================================================
