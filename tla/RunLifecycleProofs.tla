------------------------- MODULE RunLifecycleProofs -------------------------
(***************************************************************************)
(* The safety of RunLifecycle for any number of handlers, runs, keys and   *)
(* requests and for any bound on the sessions' versions: lemmas on the     *)
(* families and on each step, then the inductive invariant and the safety  *)
(* theorems, and the refinement of RunStory.                               *)
(***************************************************************************)
EXTENDS RunLifecycle, TLAPS

-----------------------------------------------------------------------------
(* What the family table says                                              *)

LEMMA VisitCounts ==
  /\ \A f \in Families : Visits(f) \in 0..3
  /\ \A f \in OpenFamilies : Visits(f) \in Visit
  /\ \A f \in Families : f # "None" => Visits(f) \in Visit
  /\ OpenFamilies \cap ClosedFamilies = {}
  /\ "None" \notin OpenFamilies \cup ClosedFamilies
  /\ Visits("None") = 0 /\ Visits("Admission") = 1 /\ Visits("FogAdmission") = 1
  BY DEF Families, OpenFamilies, ClosedFamilies, Visits, Visit

\* An operation leads from an open family to one that has made another visit,
\* or to a closed one.
LEMMA Successors ==
  ASSUME NEW op \in Ops, NEW f \in Families, NEW g \in Families,
         <<op, f, g>> \in Succession
  PROVE  /\ f \in OpenFamilies
         /\ op \in {"continue", "revisit"} =>
               g \in OpenFamilies /\ Visits(g) = Visits(f) + 1
         /\ op \in {"exit", "complete"} =>
               g \in ClosedFamilies /\ Visits(g) = Visits(f)
  BY DEF Ops, Families, OpenFamilies, ClosedFamilies, Succession, Visits

\* Each operation adds the one receipt its successor family has to have.
LEMMA SuccessorReceipts ==
  ASSUME NEW op \in Ops, NEW f \in Families, NEW g \in Families,
         <<op, f, g>> \in Succession,
         NEW n, n = IF op = "exit" THEN <<"exit", Visits(f)>> ELSE <<op, 0>>
  PROVE  /\ ReceiptsOf(g) = ReceiptsOf(f) \cup {n}
         /\ n \notin ReceiptsOf(f)
         /\ n \in Ops \X (0..3)
  BY DEF Ops, Families, OpenFamilies, ClosedFamilies, Succession, Visits, ReceiptsOf

-----------------------------------------------------------------------------
(* The kinds of steps, by what they do to the stored runs                  *)

stored == <<family, session, job, sealed, character, receipts>>

\* A step that stores nothing, and at most forgets what was flushed.
Quiet == UNCHANGED stored /\ staged' \subseteq staged

LEMMA StepKinds ==
  ASSUME TypeOK, OneWriter, [Next]_vars
  PROVE  \/ Quiet
         \/ \E h \in Handlers : Stage(h)
         \/ \E t \in staged : Apply(t)
         \/ \E r \in Runs : Play(r)
         \/ \E s \in job : DropJob(s)
         \/ Retire
<1>1. ASSUME NEW h \in Handlers, Step(h)
      PROVE  Quiet \/ Stage(h) \/ \E t \in staged : Apply(t)
  <2>1. CASE Read(h) \/ Lock(h) \/ LockTimeout(h) \/ Close(h) \/ CloseFails(h)
    BY <2>1 DEF Read, Lock, LockTimeout, Close, CloseFails, Quiet, stored
  <2>2. CASE Replay(h) \/ RefuseKey(h) \/ Refuse(h)
    BY <2>2 DEF Replay, RefuseKey, Refuse, Decides, Quiet, stored
  <2>3. CASE Stage(h)
    BY <2>3
  <2>4. CASE Commit(h)
    BY <2>4 DEF Commit
  <2>5. CASE CommitUnacknowledged(h)
    BY <2>5 DEF CommitUnacknowledged, Quiet, stored
  <2>6. CASE LoseConnection(h)
    BY <2>6 DEF LoseConnection, Quiet, stored
  <2>7. CASE Crash(h)
    BY <2>7 DEF Crash, Quiet, stored
  <2> QED
    BY <1>1, <2>1, <2>2, <2>3, <2>4, <2>5, <2>6, <2>7 DEF Step, Progress
<1>2. ASSUME NEW h \in Handlers, NEW q \in Requests, Post(h, q)
      PROVE  Quiet
  BY <1>2 DEF Post, Quiet, stored
<1>3. CASE OrphanEnds
  BY <1>3 DEF OrphanEnds, OrphanCommits, OrphanRollsBack, Quiet, stored
<1>4. CASE UNCHANGED vars
  BY <1>4 DEF vars, Quiet, stored
<1> QED
  BY <1>1, <1>2, <1>3, <1>4 DEF Next

\* The invariant's part about what is stored and flushed.
StoredType ==
    /\ family \in [Runs -> Families]
    /\ session \in [Runs \X Visit -> SessionRecord \cup {NoSession}]
    /\ job \subseteq Runs \X Visit
    /\ sealed \in [Runs \X Visit -> SealedRecord \cup {NoSession}]
    /\ character \in {"ACTIVE", "RETIRED"}
    /\ receipts \subseteq ReceiptType
    /\ staged \subseteq [request: Requests, next: Families, prepared: {NoVersion} \cup 0..MaxVersion]

StoredInv ==
    /\ StoredType /\ OneOpenRun /\ JobsArePlaying /\ VisitsExist
    /\ SealedSources /\ StagedIsCurrent /\ CarryoverIsExact /\ ReceiptsMatch

LEMMA QuietStep == StoredInv /\ Quiet => StoredInv'
<1> SUFFICES ASSUME StoredInv, Quiet PROVE StoredInv'
  OBVIOUS
<1> USE DEF Quiet, stored
<1>1. StoredType'
  BY DEF StoredInv, StoredType
<1>2. OneOpenRun'
  BY DEF StoredInv, OneOpenRun, Open
<1>3. JobsArePlaying'
  BY DEF StoredInv, JobsArePlaying, Open, Current
<1>4. VisitsExist'
  BY DEF StoredInv, VisitsExist
<1>5. SealedSources'
  BY DEF StoredInv, SealedSources, Left
<1>6. StagedIsCurrent'
  BY DEF StoredInv, StagedIsCurrent, Eligible, VersionsMatch, Found, Namespace, Current
<1>7. CarryoverIsExact'
  BY DEF StoredInv, CarryoverIsExact
<1>8. ReceiptsMatch'
  BY DEF StoredInv, ReceiptsMatch, Left
<1> QED
  BY <1>1, <1>2, <1>3, <1>4, <1>5, <1>6, <1>7, <1>8 DEF StoredInv

LEMMA StageStep ==
  ASSUME StoredInv, TypeOK, NEW h \in Handlers, Stage(h)
  PROVE  StoredInv'
<1> DEFINE q == handler[h].request
<1>1. q \in Requests /\ handler[h].prepared \in {NoVersion} \cup 0..MaxVersion
  BY DEF TypeOK, HandlerType
<1>2. PICK next \in Families :
        /\ <<q.op, family[q.run], next>> \in Succession
        /\ staged' = {[request |-> q, next |-> next, prepared |-> handler[h].prepared]}
  BY DEF Stage
<1>3. UNCHANGED stored
  BY DEF Stage, stored
<1>4. StoredType'
  BY <1>1, <1>2, <1>3 DEF StoredInv, StoredType, stored
<1>5. StagedIsCurrent'
  <2>1. Found(q) = {} /\ Eligible(q) /\ VersionsMatch(q)
        /\ (Prepares(q) => handler[h].prepared = session[Current(q.run)].version)
    BY DEF Stage, Allowed, PreparedHolds
  <2> QED
    BY <1>2, <1>3, <2>1
    DEF StagedIsCurrent, Eligible, VersionsMatch, Found, Namespace, Current, Prepares, stored
<1>6. OneOpenRun' /\ JobsArePlaying'
  BY <1>3 DEF StoredInv, OneOpenRun, JobsArePlaying, Open, Current, stored
<1>7. VisitsExist' /\ SealedSources' /\ CarryoverIsExact' /\ ReceiptsMatch'
  BY <1>3 DEF StoredInv, VisitsExist, SealedSources, CarryoverIsExact, ReceiptsMatch, Left, stored
<1> QED
  BY <1>4, <1>5, <1>6, <1>7 DEF StoredInv

-----------------------------------------------------------------------------
(* Entering and playing                                                    *)

\* A run's current session is one of the stored ones.
LEMMA CurrentSession ==
  ASSUME StoredInv, NEW r \in Open
  PROVE  /\ r \in Runs /\ Visits(family[r]) \in Visit
         /\ Current(r) \in Runs \X Visit
         /\ session[Current(r)] \in SessionRecord
<1>1. r \in Runs /\ family[r] \in OpenFamilies
  BY DEF Open
<1>2. Visits(family[r]) \in Visit
  BY <1>1, VisitCounts
<1>3. Visits(family[r]) \in 1..Visits(family[r])
  BY <1>2 DEF Visit
<1> QED
  BY <1>1, <1>2, <1>3 DEF StoredInv, VisitsExist, Current

\* The current visit of an open run has not been left.
LEMMA CurrentIsNotLeft ==
  ASSUME StoredInv, NEW r \in Open, NEW s \in Runs, NEW v \in Left(s)
  PROVE  <<s, v>> # Current(r)
<1>1. family[r] \in OpenFamilies /\ family[r] \notin ClosedFamilies
  BY VisitCounts DEF Open
<1>2. Visits(family[r]) \in Visit
  BY CurrentSession
<1>3. CASE s = r
  BY <1>1, <1>2, <1>3 DEF Left, Current, Visit
<1>4. CASE s # r
  BY <1>4 DEF Current
<1> QED
  BY <1>3, <1>4

LEMMA AdmitStep ==
  ASSUME StoredInv, OneWriter, NEW r \in Runs, NEW f \in {"Admission", "FogAdmission"},
         NoHandler \notin Handlers, NoHandler # Orphan, Admit(r, f)
  PROVE  StoredInv'
<1>1. /\ family' = [family EXCEPT ![r] = f]
      /\ session' = [session EXCEPT ![<<r, 1>>] = NewSession(NoVersion)]
      /\ UNCHANGED <<job, sealed, character, receipts, staged>>
      /\ family[r] = "None" /\ Open = {} /\ character = "ACTIVE"
  BY DEF Admit
<1>2. f \in OpenFamilies /\ f \in Families /\ f # "None" /\ Visits(f) = 1 /\ f \notin ClosedFamilies
  BY DEF OpenFamilies, Families, Visits, ClosedFamilies
<1>3. family \in [Runs -> Families] /\ Visits(family[r]) = 0 /\ <<r, 1>> \in Runs \X Visit
  BY <1>1, VisitCounts DEF StoredInv, StoredType, Visit
<1>4. NewSession(NoVersion) \in SessionRecord
  BY VersionAssumption DEF NewSession, SessionRecord
<1>5. StoredType'
  BY <1>1, <1>2, <1>3, <1>4 DEF StoredInv, StoredType
<1>6. /\ \A s \in Runs \ {r} : family'[s] = family[s]
      /\ family'[r] = f
      /\ \A s \in Runs \X Visit : s # <<r, 1>> => session'[s] = session[s]
      /\ session'[<<r, 1>>] = NewSession(NoVersion)
  BY <1>1, <1>3 DEF StoredInv, StoredType
<1>7. OneOpenRun'
  BY <1>1, <1>6 DEF OneOpenRun, Open
<1>8. staged = {}
  <2>1. native_lock = NoHandler /\ native_lock # Orphan /\ native_lock \notin Handlers
    BY DEF Admit
  <2>2. \A h \in Handlers : handler[h].pc # "staged"
    BY <2>1 DEF OneWriter, Inside
  <2> QED
    BY <2>1, <2>2 DEF OneWriter
<1>9. StagedIsCurrent'
  BY <1>1, <1>8 DEF StagedIsCurrent
<1>10. JobsArePlaying'
  BY <1>1 DEF StoredInv, JobsArePlaying
<1>11. VisitsExist'
  <2> SUFFICES ASSUME NEW s \in Runs, NEW v \in 1..Visits(family'[s])
               PROVE  session'[<<s, v>>] \in SessionRecord
    BY DEF VisitsExist
  <2>1. CASE s = r
    BY <2>1, <1>2, <1>4, <1>6
  <2>2. CASE s # r
    <3>1. v \in 1..Visits(family[s]) /\ Visits(family[s]) \in 0..3
      BY <2>2, <1>3, <1>6, VisitCounts
    <3>2. <<s, v>> \in Runs \X Visit
      BY <3>1 DEF Visit
    <3> QED
      BY <2>2, <1>6, <3>1, <3>2 DEF StoredInv, VisitsExist
  <2> QED
    BY <2>1, <2>2
<1>12. \A s \in Runs : Left(s)' = IF s = r THEN {} ELSE Left(s)
  BY <1>2, <1>6 DEF Left, Visit
<1>13. Left(r) = {}
  BY <1>1, <1>3 DEF Left, Visit, ClosedFamilies
<1>14. \A s \in Runs : \A v \in Left(s)' :
          /\ v \in Left(s) /\ s # r /\ <<s, v>> \in Runs \X Visit
          /\ session'[<<s, v>>] = session[<<s, v>>]
  BY <1>6, <1>12 DEF Left
<1>15. SealedSources'
  BY <1>1, <1>14 DEF StoredInv, SealedSources
<1>16. CarryoverIsExact'
  <2> SUFFICES ASSUME NEW s \in Runs, NEW v \in 2..Visits(family'[s])
               PROVE  session'[<<s, v>>].from = sealed[<<s, v - 1>>].version
    BY <1>1 DEF CarryoverIsExact
  <2>1. s # r
    BY <1>2, <1>6
  <2>2. v \in 2..Visits(family[s]) /\ Visits(family[s]) \in 0..3
    BY <2>1, <1>3, <1>6, VisitCounts
  <2>3. <<s, v>> \in Runs \X Visit
    BY <2>2 DEF Visit
  <2> QED
    BY <2>1, <2>2, <2>3, <1>6 DEF StoredInv, CarryoverIsExact
<1>17. ReceiptsMatch'
  <2> SUFFICES ASSUME NEW s \in Runs
               PROVE  LET own == {x \in receipts : x.run = s} IN
                      /\ {x.namespace : x \in own} = ReceiptsOf(family'[s])
                      /\ \A x, y \in own : x.namespace = y.namespace => x = y
                      /\ \A x \in own :
                            /\ x.request.visit \in Left(s)'
                            /\ x.request.runVersion = x.request.visit + 2
                            /\ x.request.sessionVersion = session'[<<s, x.request.visit>>].version
    BY <1>1 DEF ReceiptsMatch
  <2> DEFINE own == {x \in receipts : x.run = s}
  <2>1. /\ {x.namespace : x \in own} = ReceiptsOf(family[s])
        /\ \A x, y \in own : x.namespace = y.namespace => x = y
        /\ \A x \in own :
              /\ x.request.visit \in Left(s)
              /\ x.request.runVersion = x.request.visit + 2
              /\ x.request.sessionVersion = session[<<s, x.request.visit>>].version
    BY DEF StoredInv, ReceiptsMatch
  <2>2. ReceiptsOf(family'[s]) = ReceiptsOf(family[s])
    <3>1. ReceiptsOf(f) = {} /\ ReceiptsOf("None") = {}
      BY DEF ReceiptsOf, Visits, ClosedFamilies
    <3> QED
      BY <3>1, <1>1, <1>6
  <2>3. \A x \in own : x.request.visit \in Left(s)'
                       /\ session'[<<s, x.request.visit>>] = session[<<s, x.request.visit>>]
    BY <2>1, <1>12, <1>13, <1>14
  <2> QED
    BY <2>1, <2>2, <2>3
<1> QED
  BY <1>5, <1>7, <1>9, <1>10, <1>11, <1>15, <1>16, <1>17 DEF StoredInv

\* What no turn can disturb: nothing flushed concerns a story still open.
LEMMA StagedIsElsewhere ==
  ASSUME StoredInv, NEW r \in Open, session[Current(r)].ending = "open", NEW t \in staged
  PROVE  /\ t.request \in Requests /\ t.request.run \in Open /\ t.request.run # r
         /\ Current(t.request.run) # Current(r)
<1>1. t \in [request: Requests, next: Families, prepared: {NoVersion} \cup 0..MaxVersion]
  BY DEF StoredInv, StoredType
<1>2. t.request \in RequestType
  BY <1>1, RequestAssumption
<1>3. family[t.request.run] \in Families /\ t.request.op \in Ops /\ t.request.run \in Runs
  BY <1>2 DEF StoredInv, StoredType, RequestType
<1>4. t.request.run \in Open
  BY <1>1, <1>3, Successors DEF StoredInv, StagedIsCurrent, Open
<1>5. session[Current(t.request.run)].ending # "open"
  BY DEF StoredInv, StagedIsCurrent, Eligible, Ended
<1> QED
  BY <1>1, <1>4, <1>5 DEF Current

\* A turn, taken at once or by a job that finishes.
LEMMA TurnStep ==
  ASSUME StoredInv, NEW r \in Open, NEW ending \in {"open"} \cup Ended,
         session[Current(r)].ending = "open", session[Current(r)].version < MaxVersion,
         Advance(r, ending),
         job' = job \ {Current(r)},
         UNCHANGED <<family, sealed, character, receipts, staged>>
  PROVE  StoredInv'
<1> DEFINE c == Current(r)
<1>1. r \in Runs /\ c \in Runs \X Visit /\ session[c] \in SessionRecord
  BY CurrentSession
<1>2. session' = [session EXCEPT ![c].version = @ + 1, ![c].ending = ending]
  BY DEF Advance
<1>3. session \in [Runs \X Visit -> SessionRecord \cup {NoSession}]
  BY DEF StoredInv, StoredType
<1>4. /\ \A s \in Runs \X Visit : s # c => session'[s] = session[s]
      /\ session'[c] = [session[c] EXCEPT !.version = @ + 1, !.ending = ending]
  BY <1>1, <1>2, <1>3
<1>5. session'[c] \in SessionRecord /\ session'[c].from = session[c].from
  <2> DEFINE old == session[c]
  <2>1. old \in SessionRecord /\ old.version < MaxVersion
    BY <1>1
  <2>2. old = [version |-> old.version, ending |-> old.ending, from |-> old.from]
    BY <2>1 DEF SessionRecord
  <2>3. session'[c] = [version |-> old.version + 1, ending |-> ending, from |-> old.from]
    BY <1>4, <2>2
  <2>4. old.version + 1 \in 0..MaxVersion /\ old.from \in {NoVersion} \cup 0..MaxVersion
    BY <2>1, VersionAssumption DEF SessionRecord
  <2> QED
    BY <2>3, <2>4 DEF SessionRecord
<1>6. StoredType'
  <2>1. session' \in [Runs \X Visit -> SessionRecord \cup {NoSession}]
    BY <1>1, <1>2, <1>3, <1>4, <1>5
  <2> QED
    BY <2>1 DEF StoredInv, StoredType
<1>7. OneOpenRun'
  BY DEF StoredInv, OneOpenRun, Open
<1>8. JobsArePlaying'
  <2> SUFFICES ASSUME NEW s \in job'
               PROVE  /\ s[1] \in Open /\ s = Current(s[1])
                      /\ session'[s].ending = "open" /\ session'[s].version < MaxVersion
    BY DEF JobsArePlaying, Open, Current
  <2>1. s \in job /\ s # c /\ s \in Runs \X Visit
    BY DEF StoredInv, StoredType
  <2> QED
    BY <2>1, <1>4 DEF StoredInv, JobsArePlaying
<1>9. VisitsExist'
  <2> SUFFICES ASSUME NEW s \in Runs, NEW v \in 1..Visits(family[s])
               PROVE  session'[<<s, v>>] \in SessionRecord
    BY DEF VisitsExist
  <2>1. Visits(family[s]) \in 0..3
    BY VisitCounts DEF StoredInv, StoredType
  <2>2. <<s, v>> \in Runs \X Visit
    BY <2>1 DEF Visit
  <2> QED
    BY <2>2, <1>4, <1>5 DEF StoredInv, VisitsExist
<1>10. \A s \in Runs : \A v \in Left(s) :
          <<s, v>> # c /\ session'[<<s, v>>] = session[<<s, v>>]
  BY CurrentIsNotLeft, <1>4 DEF Left
<1>11. SealedSources'
  BY <1>10 DEF StoredInv, SealedSources, Left
<1>12. StagedIsCurrent'
  <2> SUFFICES ASSUME NEW t \in staged
               PROVE  /\ <<t.request.op, family[t.request.run], t.next>> \in Succession
                      /\ Eligible(t.request)'
                      /\ VersionsMatch(t.request)'
                      /\ Found(t.request)' = {}
                      /\ Prepares(t.request) =>
                            t.prepared = session'[Current(t.request.run)].version
    BY DEF StagedIsCurrent, Current, Prepares
  <2>1. session'[Current(t.request.run)] = session[Current(t.request.run)]
    BY StagedIsElsewhere, CurrentSession, <1>4
  <2>2. Found(t.request)' = Found(t.request)
    BY DEF Found, Namespace
  <2>3. Eligible(t.request)' /\ VersionsMatch(t.request)'
    BY <2>1 DEF StoredInv, StagedIsCurrent, Eligible, VersionsMatch, Current
  <2> QED
    BY <2>1, <2>2, <2>3 DEF StoredInv, StagedIsCurrent
<1>13. CarryoverIsExact'
  <2> SUFFICES ASSUME NEW s \in Runs, NEW v \in 2..Visits(family[s])
               PROVE  session'[<<s, v>>].from = sealed[<<s, v - 1>>].version
    BY DEF CarryoverIsExact
  <2>1. Visits(family[s]) \in 0..3
    BY VisitCounts DEF StoredInv, StoredType
  <2>2. <<s, v>> \in Runs \X Visit
    BY <2>1 DEF Visit
  <2> QED
    <3>1. session'[<<s, v>>].from = session[<<s, v>>].from
      BY <2>2, <1>4, <1>5
    <3> QED
      BY <3>1 DEF StoredInv, CarryoverIsExact
<1>14. ReceiptsMatch'
  <2>1. \A s \in Runs : \A x \in receipts :
           x.run = s => /\ x.request.visit \in Left(s)
                        /\ session'[<<s, x.request.visit>>] = session[<<s, x.request.visit>>]
    BY <1>10 DEF StoredInv, ReceiptsMatch
  <2> QED
    BY <2>1 DEF StoredInv, ReceiptsMatch, Left
<1> QED
  BY <1>6, <1>7, <1>8, <1>9, <1>11, <1>12, <1>13, <1>14 DEF StoredInv

\* A job that starts or is dropped, and the character's retirement.
LEMMA JobStep ==
  ASSUME StoredInv, UNCHANGED <<family, session, sealed, character, receipts, staged>>,
         \/ \E r \in Open : /\ session[Current(r)].ending = "open"
                            /\ session[Current(r)].version < MaxVersion
                            /\ job' = job \cup {Current(r)}
         \/ job' \subseteq job
  PROVE  StoredInv'
<1>1. \A s \in job' : \/ s \in job
                      \/ \E r \in Open : /\ s = Current(r) /\ session[Current(r)].ending = "open"
                                         /\ session[Current(r)].version < MaxVersion
  OBVIOUS
<1>2. \A r \in Open : Current(r) \in Runs \X Visit /\ Current(r)[1] = r
  BY CurrentSession DEF Current
<1>3. JobsArePlaying'
  <2>1. \A s \in job' : /\ s[1] \in Open /\ s = Current(s[1])
                        /\ session[s].ending = "open" /\ session[s].version < MaxVersion
    BY <1>1, <1>2 DEF StoredInv, JobsArePlaying
  <2> QED
    BY <2>1 DEF JobsArePlaying, Open, Current
<1>4. StoredType'
  BY <1>1, <1>2 DEF StoredInv, StoredType
<1>5. SealedSources'
  <2> SUFFICES ASSUME NEW r \in Runs, NEW v \in Left(r)
               PROVE  <<r, v>> \notin job'
    BY DEF StoredInv, SealedSources, Left
  <2> QED
    BY <1>1, CurrentIsNotLeft DEF StoredInv, SealedSources
<1>6. OneOpenRun' /\ VisitsExist' /\ CarryoverIsExact' /\ ReceiptsMatch'
  BY DEF StoredInv, OneOpenRun, Open, VisitsExist, CarryoverIsExact, ReceiptsMatch, Left
<1>7. StagedIsCurrent'
  BY DEF StoredInv, StagedIsCurrent, Eligible, VersionsMatch, Found, Namespace, Current
<1> QED
  BY <1>3, <1>4, <1>5, <1>6, <1>7 DEF StoredInv

LEMMA RetireStep ==
  ASSUME StoredInv, Retire
  PROVE  StoredInv'
<1>1. /\ UNCHANGED <<family, session, job, sealed, receipts, staged>>
      /\ character' = "RETIRED" /\ Open = {} /\ staged = {}
  BY DEF Retire, CharacterLocked
<1>2. StoredType' /\ StagedIsCurrent' /\ OneOpenRun'
  BY <1>1 DEF StoredInv, StoredType, StagedIsCurrent, OneOpenRun, Open
<1>3. JobsArePlaying' /\ VisitsExist' /\ SealedSources'
  BY <1>1 DEF StoredInv, JobsArePlaying, Open, Current, VisitsExist, SealedSources, Left
<1>4. CarryoverIsExact' /\ ReceiptsMatch'
  BY <1>1 DEF StoredInv, CarryoverIsExact, ReceiptsMatch, Left
<1> QED
  BY <1>2, <1>3, <1>4 DEF StoredInv

-----------------------------------------------------------------------------
(* Committing an operation                                                 *)

LEMMA ApplyStep ==
  ASSUME StoredInv, NEW t \in staged, Apply(t)
  PROVE  StoredInv'
<1> DEFINE q == t.request
           r == t.request.run
           f == family[t.request.run]
           g == t.next
           c == <<t.request.run, Visits(family[t.request.run])>>
           receipt == [run |-> t.request.run, namespace |-> Namespace(t.request),
                       key |-> t.request.key, request |-> t.request]
\* What is flushed is well typed, current, and a succession of families.
<1>1. /\ q \in Requests /\ q \in RequestType /\ g \in Families
      /\ t.prepared \in {NoVersion} \cup 0..MaxVersion
  BY RequestAssumption DEF StoredInv, StoredType
<1>2. q.op \in Ops /\ r \in Runs /\ q.key \in Keys /\ f \in Families
  BY <1>1 DEF RequestType, StoredInv, StoredType
<1>3. <<q.op, f, g>> \in Succession
  BY DEF StoredInv, StagedIsCurrent
<1>4. /\ f \in OpenFamilies /\ r \in Open
      /\ q.op \in {"continue", "revisit"} => g \in OpenFamilies /\ Visits(g) = Visits(f) + 1
      /\ q.op \in {"exit", "complete"} => g \in ClosedFamilies /\ Visits(g) = Visits(f)
  BY <1>1, <1>2, <1>3, Successors DEF Open
<1>5. /\ Visits(f) \in Visit /\ Visits(g) \in 0..3 /\ c = Current(r)
      /\ c \in Runs \X Visit /\ session[c] \in SessionRecord
  BY <1>1, <1>4, CurrentSession, VisitCounts DEF Current
<1>6. session[c].ending \in Ended /\ q.visit = Visits(f)
      /\ q.runVersion = Visits(f) + 2 /\ q.sessionVersion = session[c].version
      /\ Found(q) = {} /\ (Prepares(q) => t.prepared = session[c].version)
  BY <1>5 DEF StoredInv, StagedIsCurrent, Eligible, VersionsMatch, Ended
<1>7. g \notin ClosedFamilies \/ g \notin OpenFamilies
  BY VisitCounts
\* What the step does, pointwise.
<1>8. /\ family' = [family EXCEPT ![r] = g]
      /\ receipts' = receipts \cup {receipt}
      /\ sealed' = [sealed EXCEPT ![c] = session[c]]
      /\ session' = IF Prepares(q) THEN [session EXCEPT ![<<r, Visits(g)>>] = NewSession(t.prepared)]
                                   ELSE session
      /\ staged' = {} /\ UNCHANGED <<job, character>>
  BY <1>5 DEF Apply
<1>9. Prepares(q) <=> q.op \in {"continue", "revisit"}
  BY DEF Prepares
<1>10. /\ \A s \in Runs \ {r} : family'[s] = family[s]
       /\ family'[r] = g
  BY <1>2, <1>8 DEF StoredInv, StoredType
<1>11. /\ \A s \in Runs \X Visit : s # c => sealed'[s] = sealed[s]
       /\ sealed'[c] = session[c]
  BY <1>5, <1>8 DEF StoredInv, StoredType
<1>12. /\ \A s \in Runs \X Visit : (Prepares(q) => s # <<r, Visits(g)>>) => session'[s] = session[s]
       /\ Prepares(q) => session'[<<r, Visits(g)>>] = NewSession(t.prepared)
                         /\ <<r, Visits(g)>> \in Runs \X Visit
  <2>1. CASE ~Prepares(q)
    BY <2>1, <1>8
  <2>2. CASE Prepares(q)
    <3>1. <<r, Visits(g)>> \in Runs \X Visit
      BY <2>2, <1>2, <1>4, <1>5, <1>9 DEF Visit
    <3> QED
      BY <2>2, <3>1, <1>8 DEF StoredInv, StoredType
  <2> QED
    BY <2>1, <2>2
<1>13. session'[c] = session[c]
  BY <1>4, <1>5, <1>9, <1>12 DEF Visit
<1>14. NewSession(t.prepared) \in SessionRecord /\ NewSession(t.prepared).from = t.prepared
  BY <1>1, VersionAssumption DEF NewSession, SessionRecord
<1>15. receipt \in ReceiptType
  BY <1>1, <1>2, <1>3, SuccessorReceipts DEF ReceiptType, Namespace
<1> HIDE DEF q, r, f, g, c, receipt
<1>16. StoredType'
  <2>1. session[c] \in SealedRecord
    BY <1>5, <1>6 DEF SessionRecord, SealedRecord
  <2>2. sealed' \in [Runs \X Visit -> SealedRecord \cup {NoSession}]
    BY <2>1, <1>5, <1>8 DEF StoredInv, StoredType
  <2>3. session' \in [Runs \X Visit -> SessionRecord \cup {NoSession}]
    BY <1>8, <1>12, <1>14 DEF StoredInv, StoredType
  <2> QED
    BY <2>2, <2>3, <1>1, <1>8, <1>15 DEF StoredInv, StoredType
<1>17. OneOpenRun'
  BY <1>4, <1>8, <1>10 DEF StoredInv, OneOpenRun, Open
<1>18. job = {}
  <2> SUFFICES ASSUME NEW s \in job PROVE FALSE
    OBVIOUS
  <2>1. s[1] = r
    BY <1>4 DEF StoredInv, JobsArePlaying, OneOpenRun
  <2>2. s = c /\ session[s].ending = "open"
    BY <2>1, <1>5 DEF StoredInv, JobsArePlaying
  <2> QED
    BY <2>2, <1>6 DEF Ended
<1>19. JobsArePlaying' /\ StagedIsCurrent'
  BY <1>8, <1>18 DEF JobsArePlaying, StagedIsCurrent
<1>20. VisitsExist'
  <2> SUFFICES ASSUME NEW s \in Runs, NEW v \in 1..Visits(family'[s])
               PROVE  session'[<<s, v>>] \in SessionRecord
    BY DEF VisitsExist
  <2>1. family[s] \in Families /\ Visits(family[s]) \in 0..3
    BY VisitCounts DEF StoredInv, StoredType
  <2>2. CASE s # r \/ v <= Visits(f)
    <3>1. v \in 1..Visits(family[s])
      BY <2>2, <1>5, <1>10 DEF f, r
    <3>2. <<s, v>> \in Runs \X Visit
      BY <3>1, <2>1 DEF Visit
    <3> QED
      BY <3>1, <3>2, <1>12, <1>14 DEF StoredInv, VisitsExist
  <2>3. CASE s = r /\ ~(v <= Visits(f))
    <3>1. q.op \in {"continue", "revisit"} /\ v = Visits(g)
      BY <2>3, <1>2, <1>4, <1>5, <1>10 DEF Visit, Ops
    <3> QED
      BY <2>3, <3>1, <1>9, <1>12, <1>14
  <2> QED
    BY <2>2, <2>3
<1>21. \A s \in Runs : Left(s)' = IF s = r THEN Left(r) \cup {Visits(f)} ELSE Left(s)
  <2>1. \A s \in Runs \ {r} : Left(s)' = Left(s)
    BY <1>10 DEF Left
  <2>2. Left(r) = {v \in Visit : v < Visits(f)}
    BY <1>4, VisitCounts DEF Left, f, r
  <2>3. Left(r)' = {v \in Visit : v < Visits(g) \/ (v = Visits(g) /\ g \in ClosedFamilies)}
    BY <1>10 DEF Left
  <2>4. Left(r)' = {v \in Visit : v <= Visits(f)}
    <3>1. CASE q.op \in {"continue", "revisit"}
      BY <3>1, <2>3, <1>4, <1>5, <1>7 DEF Visit
    <3>2. CASE q.op \in {"exit", "complete"}
      BY <3>2, <2>3, <1>4, <1>5 DEF Visit
    <3> QED
      BY <3>1, <3>2, <1>2 DEF Ops
  <2> QED
    BY <2>1, <2>2, <2>4, <1>5 DEF Visit
\* No session that was left before is written, nor sealed again.
<1>22. \A s \in Runs : \A v \in Left(s) :
          /\ <<s, v>> \in Runs \X Visit /\ <<s, v>> # c
          /\ session'[<<s, v>>] = session[<<s, v>>]
          /\ sealed'[<<s, v>>] = sealed[<<s, v>>]
  <2> SUFFICES ASSUME NEW s \in Runs, NEW v \in Left(s)
               PROVE  /\ <<s, v>> \in Runs \X Visit /\ <<s, v>> # c
                      /\ Prepares(q) => <<s, v>> # <<r, Visits(g)>>
    BY <1>11, <1>12
  <2>1. v \in Visit /\ <<s, v>> # c
    BY <1>4, <1>5, CurrentIsNotLeft DEF Left
  <2>2. s = r => v < Visits(f)
    BY <1>4, VisitCounts DEF Left, f, r
  <2> QED
    BY <2>1, <2>2, <1>4, <1>5, <1>9 DEF Visit
<1>23. SealedSources'
  <2> SUFFICES ASSUME NEW s \in Runs, NEW v \in Left(s)'
               PROVE  /\ sealed'[<<s, v>>] = session'[<<s, v>>]
                      /\ session'[<<s, v>>].ending \in Ended
    BY <1>8, <1>18 DEF SealedSources
  <2>1. CASE v \in Left(s)
    BY <2>1, <1>22 DEF StoredInv, SealedSources
  <2>2. CASE s = r /\ v = Visits(f)
    <3>1. <<s, v>> = c
      BY <2>2 DEF c, f, r
    <3> QED
      BY <3>1, <1>6, <1>11, <1>13
  <2> QED
    BY <2>1, <2>2, <1>21
<1>24. CarryoverIsExact'
  <2> SUFFICES ASSUME NEW s \in Runs, NEW v \in 2..Visits(family'[s])
               PROVE  session'[<<s, v>>].from = sealed'[<<s, v - 1>>].version
    BY DEF CarryoverIsExact
  <2>1. family[s] \in Families /\ Visits(family[s]) \in 0..3
    BY VisitCounts DEF StoredInv, StoredType
  <2>2. CASE s # r \/ v <= Visits(f)
    <3>1. v \in 2..Visits(family[s])
      BY <2>2, <1>5, <1>10 DEF f, r
    <3>2. <<s, v>> \in Runs \X Visit /\ <<s, v - 1>> \in Runs \X Visit
      BY <3>1, <2>1 DEF Visit
    <3>3. sealed'[<<s, v - 1>>] = sealed[<<s, v - 1>>]
      BY <2>2, <3>1, <3>2, <1>5, <1>11 DEF c, f, r, Visit
    <3>4. session'[<<s, v>>] = session[<<s, v>>]
      BY <2>2, <3>1, <3>2, <1>4, <1>5, <1>9, <1>12 DEF f, r, Visit
    <3> QED
      BY <3>1, <3>3, <3>4 DEF StoredInv, CarryoverIsExact
  <2>3. CASE s = r /\ ~(v <= Visits(f))
    <3>1. q.op \in {"continue", "revisit"} /\ v = Visits(g) /\ v - 1 = Visits(f)
      BY <2>3, <1>2, <1>4, <1>5, <1>10 DEF Visit, Ops
    <3>2. session'[<<s, v>>].from = session[c].version
      BY <2>3, <3>1, <1>6, <1>9, <1>12, <1>14
    <3>3. <<s, v - 1>> = c
      BY <2>3, <3>1 DEF c, f, r
    <3> QED
      BY <3>2, <3>3, <1>11
  <2> QED
    BY <2>2, <2>3
<1>25. ReceiptsMatch'
  <2> SUFFICES ASSUME NEW s \in Runs
               PROVE  LET own == {x \in receipts' : x.run = s} IN
                      /\ {x.namespace : x \in own} = ReceiptsOf(family'[s])
                      /\ \A x, y \in own : x.namespace = y.namespace => x = y
                      /\ \A x \in own :
                            /\ x.request.visit \in Left(s)'
                            /\ x.request.runVersion = x.request.visit + 2
                            /\ x.request.sessionVersion = session'[<<s, x.request.visit>>].version
    BY DEF ReceiptsMatch
  <2> DEFINE own == {x \in receipts : x.run = s}
             own2 == {x \in receipts' : x.run = s}
  <2>1. /\ {x.namespace : x \in own} = ReceiptsOf(family[s])
        /\ \A x, y \in own : x.namespace = y.namespace => x = y
        /\ \A x \in own :
              /\ x.request.visit \in Left(s)
              /\ x.request.runVersion = x.request.visit + 2
              /\ x.request.sessionVersion = session[<<s, x.request.visit>>].version
    BY DEF StoredInv, ReceiptsMatch
  <2>2. \A x \in own :
          /\ x.request.visit \in Left(s)'
          /\ session'[<<s, x.request.visit>>] = session[<<s, x.request.visit>>]
    BY <2>1, <1>21, <1>22
  <2>3. receipt.run = r /\ receipt.namespace = Namespace(q) /\ receipt.request = q
    BY DEF receipt, r, q
  <2>4. CASE s # r
    <3>1. own2 = own
      BY <2>3, <2>4, <1>8
    <3>2. family'[s] = family[s]
      BY <2>4, <1>10
    <3> HIDE DEF own, own2
    <3>3. /\ {x.namespace : x \in own2} = ReceiptsOf(family'[s])
          /\ \A x, y \in own2 : x.namespace = y.namespace => x = y
          /\ \A x \in own2 :
                /\ x.request.visit \in Left(s)'
                /\ x.request.runVersion = x.request.visit + 2
                /\ x.request.sessionVersion = session'[<<s, x.request.visit>>].version
      BY <3>1, <3>2, <2>1, <2>2
    <3> QED
      BY <3>3 DEF own2
  <2>5. CASE s = r
    <3>1. own2 = own \cup {receipt}
      BY <2>3, <2>5, <1>8
    <3>2. /\ ReceiptsOf(g) = ReceiptsOf(f) \cup {Namespace(q)}
          /\ Namespace(q) \notin ReceiptsOf(f)
      BY <1>1, <1>2, <1>3, SuccessorReceipts DEF Namespace, q, f, r
    <3>3. family'[s] = g /\ family[s] = f
      BY <2>5, <1>10 DEF f, r
    <3>4. q.visit \in Left(s)' /\ <<s, q.visit>> = c
      BY <2>5, <1>6, <1>21 DEF c, f, r
    <3> HIDE DEF own, own2
    <3>5. \A x \in own : x.namespace \in ReceiptsOf(f)
      BY <2>1, <3>3
    <3>6. {x.namespace : x \in own2} = {x.namespace : x \in own} \cup {Namespace(q)}
      BY <3>1, <2>3
    <3>7. {x.namespace : x \in own2} = ReceiptsOf(family'[s])
      BY <3>2, <3>3, <3>6, <2>1
    <3>8. \A x, y \in own2 : x.namespace = y.namespace => x = y
      BY <3>1, <3>2, <3>5, <2>1, <2>3
    <3>9. \A x \in own2 :
            /\ x.request.visit \in Left(s)'
            /\ x.request.runVersion = x.request.visit + 2
            /\ x.request.sessionVersion = session'[<<s, x.request.visit>>].version
      <4>1. /\ q.visit \in Left(s)' /\ q.runVersion = q.visit + 2
            /\ q.sessionVersion = session'[<<s, q.visit>>].version
        BY <3>4, <1>6, <1>13
      <4> QED
        BY <4>1, <3>1, <2>1, <2>2, <2>3
    <3> QED
      BY <3>7, <3>8, <3>9 DEF own2
  <2> QED
    BY <2>4, <2>5
<1> QED
  BY <1>16, <1>17, <1>19, <1>20, <1>23, <1>24, <1>25 DEF StoredInv

-----------------------------------------------------------------------------
(* The handlers and the named lock                                         *)

HandlerPart ==
    /\ native_lock \in Handlers \cup {NoHandler, Orphan}
    /\ handler \in [Handlers -> HandlerType]

LEMMA TypeParts == TypeOK <=> StoredType /\ HandlerPart
  BY DEF TypeOK, StoredType, HandlerPart

\* A handler that moves rewrites its own record and no other.
LEMMA Moves ==
  ASSUME HandlerPart, NEW h \in Handlers, NEW record \in HandlerType,
         handler' = [handler EXCEPT ![h] = record]
  PROVE  /\ handler' \in [Handlers -> HandlerType]
         /\ handler'[h] = record
         /\ \A x \in Handlers \ {h} : handler'[x] = handler[x]
  BY DEF HandlerPart

\* Where a step of handler h leaves the handlers.
Pc == {"idle", "read", "waiting", "locked", "staged", "committed", "closing"}
Answer == {"NONE", "OK", "REFUSED", "KEY_REUSED", "CONFLICT", "ERROR", "UNKNOWN"}

Moved(h, pc, answer) ==
    /\ handler' \in [Handlers -> HandlerType]
    /\ handler'[h].pc = pc /\ handler'[h].answer = answer
    /\ handler'[h].request = handler[h].request
    /\ \A x \in Handlers \ {h} : handler'[x] = handler[x]

LEMMA Answering ==
  ASSUME HandlerPart, NEW h \in Handlers, NEW pc \in Pc, NEW answer \in Answer,
         handler' = [handler EXCEPT ![h].pc = pc, ![h].answer = answer]
  PROVE  Moved(h, pc, answer)
<1> DEFINE old == handler[h]
           new == [old EXCEPT !.pc = pc, !.answer = answer]
<1>1. old \in HandlerType
  BY DEF HandlerPart
<1>2. new \in HandlerType
  BY <1>1 DEF HandlerType, Pc, Answer
<1>3. new.pc = pc /\ new.answer = answer /\ new.request = old.request
  BY <1>1 DEF HandlerType, Pc, Answer
<1>4. handler' = [handler EXCEPT ![h] = new]
  BY DEF HandlerPart
<1> HIDE DEF new
<1> QED
  BY <1>2, <1>3, <1>4, Moves DEF Moved

LEMMA Preparing ==
  ASSUME HandlerPart, NEW h \in Handlers, NEW prepared \in {NoVersion} \cup 0..MaxVersion,
         handler' = [handler EXCEPT ![h].pc = "waiting", ![h].prepared = prepared]
  PROVE  Moved(h, "waiting", handler[h].answer)
<1> DEFINE old == handler[h]
           new == [old EXCEPT !.pc = "waiting", !.prepared = prepared]
<1>1. old \in HandlerType
  BY DEF HandlerPart
<1>2. new \in HandlerType
  BY <1>1 DEF HandlerType
<1>3. new.pc = "waiting" /\ new.answer = handler[h].answer /\ new.request = old.request
  BY <1>1 DEF HandlerType
<1>4. handler' = [handler EXCEPT ![h] = new]
  BY DEF HandlerPart
<1> HIDE DEF new
<1> QED
  BY <1>2, <1>3, <1>4, Moves DEF Moved

LEMMA Proceeding ==
  ASSUME HandlerPart, NEW h \in Handlers, NEW pc \in Pc,
         handler' = [handler EXCEPT ![h].pc = pc]
  PROVE  Moved(h, pc, handler[h].answer)
<1> DEFINE old == handler[h]
           new == [old EXCEPT !.pc = pc]
<1>1. old \in HandlerType
  BY DEF HandlerPart
<1>2. new \in HandlerType
  BY <1>1 DEF HandlerType, Pc
<1>3. new.pc = pc /\ new.answer = handler[h].answer /\ new.request = old.request
  BY <1>1 DEF HandlerType, Pc
<1>4. handler' = [handler EXCEPT ![h] = new]
  BY DEF HandlerPart
<1> HIDE DEF new
<1> QED
  BY <1>2, <1>3, <1>4, Moves DEF Moved

\* A handler outside the writer's section that stays outside.
LEMMA OutsideStep ==
  ASSUME OneWriter, NEW h \in Handlers, native_lock # h,
         \A x \in Handlers \ {h} : handler'[x] = handler[x],
         handler'[h].pc \notin Inside,
         UNCHANGED <<native_lock, staged>>
  PROVE  OneWriter'
  BY DEF OneWriter, Inside

\* The holder releases the lock with nothing flushed.
LEMMA ReleaseStep ==
  ASSUME OneWriter, NEW h \in Handlers, native_lock = h, NoHandler \notin Handlers, NoHandler # Orphan,
         \A x \in Handlers \ {h} : handler'[x] = handler[x],
         handler'[h].pc \notin Inside,
         native_lock' = NoHandler, staged' = {}
  PROVE  OneWriter'
  BY DEF OneWriter, Inside

\* The holder keeps the lock with nothing flushed.
LEMMA KeepStep ==
  ASSUME OneWriter, NEW h \in Handlers, native_lock = h, Orphan \notin Handlers,
         \A x \in Handlers \ {h} : handler'[x] = handler[x],
         handler'[h].pc \in Inside \ {"staged"},
         native_lock' = h, staged' = {}
  PROVE  OneWriter'
  BY DEF OneWriter, Inside

LEMMA HolderHasNothing ==
  ASSUME OneWriter, NEW h \in Handlers, handler[h].pc \in Inside \ {"staged"}, Orphan \notin Handlers
  PROVE  native_lock = h /\ staged = {}
  BY DEF OneWriter, Inside

-----------------------------------------------------------------------------
(* Every step of a handler keeps the handlers' types and the single writer *)

LockInv == HandlerPart /\ OneWriter

LEMMA LockNames ==
  /\ NoHandler \notin Handlers /\ Orphan \notin Handlers /\ NoHandler # Orphan
  BY LockAssumption

LEMMA StepLocks ==
  ASSUME LockInv, StoredInv, NEW h \in Handlers, Step(h)
  PROVE  LockInv'
<1> USE LockNames
<1>1. handler[h] \in HandlerType /\ native_lock \in Handlers \cup {NoHandler, Orphan}
  BY DEF LockInv, HandlerPart
<1>2. CASE Read(h)
  <2>1. PICK version \in {NoVersion} \cup 0..MaxVersion,
              answer \in {"OK", "REFUSED", "KEY_REUSED"} :
          Waits(h, version) \/ Answers(h, answer)
    <3>1. ASSUME Eligible(handler[h].request)
          PROVE  session[Current(handler[h].request.run)].version \in 0..MaxVersion
      <4>1. handler[h].request \in RequestType
        BY <1>1, RequestAssumption DEF HandlerType
      <4>2. handler[h].request.run \in Open
        BY <3>1, <4>1, Successors DEF Eligible, Open, RequestType, StoredInv, StoredType
      <4> QED
        BY <4>2, CurrentSession DEF SessionRecord
    <3> QED
      BY <1>2, <3>1 DEF Read
  <2>2. handler[h].pc = "read" /\ UNCHANGED <<native_lock, staged>> /\ native_lock # h
    BY <1>2 DEF Read, LockInv, OneWriter, Inside
  <2>3. /\ handler' \in [Handlers -> HandlerType]
        /\ \A x \in Handlers \ {h} : handler'[x] = handler[x]
        /\ handler'[h].pc \in {"waiting", "idle"}
    <3>1. CASE Waits(h, version)
      BY <3>1, <1>1, Preparing DEF Waits, Moved, Pc, Answer, LockInv
    <3>2. CASE Answers(h, answer)
      BY <3>2, <1>1, Answering DEF Answers, Moved, Pc, Answer, LockInv
    <3> QED
      BY <2>1, <3>1, <3>2
  <2> QED
    BY <1>1, <2>2, <2>3, OutsideStep DEF LockInv, HandlerPart, Inside
<1>3. CASE Lock(h)
  <2>1. /\ handler' \in [Handlers -> HandlerType]
        /\ \A x \in Handlers \ {h} : handler'[x] = handler[x]
        /\ handler'[h].pc = "locked"
    BY <1>1, <1>3, Proceeding DEF Lock, Moved, Pc, Answer, LockInv
  <2>2. native_lock = NoHandler /\ native_lock' = h /\ UNCHANGED staged /\ staged = {}
    BY <1>3 DEF Lock, LockInv, OneWriter, Inside
  <2>3. OneWriter'
    BY <2>1, <2>2 DEF LockInv, OneWriter, Inside
  <2> QED
    BY <2>1, <2>2, <2>3 DEF LockInv, HandlerPart
<1>4. CASE LockTimeout(h)
  <2>1. /\ handler' \in [Handlers -> HandlerType]
        /\ \A x \in Handlers \ {h} : handler'[x] = handler[x]
        /\ handler'[h].pc = "idle"
    BY <1>1, <1>4, Answering DEF LockTimeout, Answers, Moved, Pc, Answer, LockInv
  <2>2. native_lock # h /\ UNCHANGED <<native_lock, staged>>
    BY <1>4 DEF LockTimeout, LockInv, OneWriter, Inside
  <2> QED
    BY <1>1, <2>1, <2>2, OutsideStep DEF LockInv, HandlerPart, Inside
<1>5. CASE Replay(h) \/ RefuseKey(h) \/ Refuse(h)
  <2>1. PICK answer \in {"OK", "KEY_REUSED", "REFUSED"} : Decides(h, answer)
    BY <1>5 DEF Replay, RefuseKey, Refuse
  <2>2. /\ handler' \in [Handlers -> HandlerType]
        /\ \A x \in Handlers \ {h} : handler'[x] = handler[x]
        /\ handler'[h].pc = "closing"
    BY <1>1, <2>1, Answering DEF Decides, Moved, Pc, Answer, LockInv
  <2>3. native_lock = h /\ staged = {} /\ UNCHANGED <<native_lock, staged>>
    BY <2>1, HolderHasNothing DEF Decides, LockInv, Inside
  <2> QED
    BY <1>1, <2>2, <2>3, KeepStep DEF LockInv, HandlerPart, Inside
<1>6. CASE Stage(h)
  <2>1. /\ handler' \in [Handlers -> HandlerType]
        /\ \A x \in Handlers \ {h} : handler'[x] = handler[x]
        /\ handler'[h].pc = "staged" /\ handler'[h].request = handler[h].request
    <3>1. Moved(h, "staged", handler[h].answer)
      BY <1>6, Proceeding DEF Stage, Pc, LockInv
    <3> QED
      BY <3>1 DEF Moved
  <2>2. native_lock = h /\ staged = {} /\ UNCHANGED native_lock
    BY <1>6, HolderHasNothing DEF Stage, LockInv, Inside
  <2>3. PICK t : staged' = {t} /\ t.request = handler[h].request
    <3>1. PICK next \in Families :
            staged' = {[request |-> handler[h].request, next |-> next,
                        prepared |-> handler[h].prepared]}
      BY <1>6 DEF Stage
    <3> WITNESS [request |-> handler[h].request, next |-> next, prepared |-> handler[h].prepared]
    <3> QED
      BY <3>1
  <2>4. OneWriter'
    BY <2>1, <2>2, <2>3 DEF LockInv, OneWriter, Inside
  <2> QED
    BY <1>1, <2>1, <2>2, <2>4 DEF LockInv, HandlerPart
<1>7. CASE Commit(h)
  <2>1. /\ handler' \in [Handlers -> HandlerType]
        /\ \A x \in Handlers \ {h} : handler'[x] = handler[x]
        /\ handler'[h].pc = "committed"
    BY <1>1, <1>7, Answering DEF Commit, Moved, Pc, Answer, LockInv
  <2>2. native_lock = h /\ staged' = {} /\ UNCHANGED native_lock
    BY <1>7 DEF Commit, Apply, LockInv, OneWriter, Inside
  <2> QED
    BY <1>1, <2>1, <2>2, KeepStep DEF LockInv, HandlerPart, Inside
<1>8. CASE CommitUnacknowledged(h)
  <2>1. /\ handler' \in [Handlers -> HandlerType]
        /\ \A x \in Handlers \ {h} : handler'[x] = handler[x]
        /\ handler'[h].pc = "idle"
    BY <1>1, <1>8, Answering DEF CommitUnacknowledged, Answers, Moved, Pc, Answer, LockInv
  <2>2. native_lock = h /\ staged # {} /\ UNCHANGED staged /\ native_lock' = Orphan
    BY <1>8 DEF CommitUnacknowledged, LockInv, OneWriter, Inside
  <2>3. OneWriter'
    BY <2>1, <2>2 DEF LockInv, OneWriter, Inside
  <2> QED
    BY <2>1, <2>2, <2>3 DEF LockInv, HandlerPart
<1>9. CASE Close(h) \/ CloseFails(h) \/ LoseConnection(h)
  <2>1. PICK answer \in {"NONE", "OK", "REFUSED", "KEY_REUSED", "CONFLICT", "ERROR", "UNKNOWN"} :
          Answers(h, answer)
    BY <1>1, <1>9 DEF Close, CloseFails, LoseConnection, HandlerType
  <2>2. /\ handler' \in [Handlers -> HandlerType]
        /\ \A x \in Handlers \ {h} : handler'[x] = handler[x]
        /\ handler'[h].pc = "idle"
    BY <1>1, <2>1, Answering DEF Answers, Moved, Pc, Answer, LockInv
  <2>3. native_lock' = NoHandler /\ handler[h].pc \in Inside
    BY <1>9 DEF Close, CloseFails, LoseConnection, Inside
  <2>4. native_lock = h
    BY <2>3 DEF LockInv, OneWriter
  <2>5. staged' = {}
    BY <1>9, HolderHasNothing DEF Close, CloseFails, LoseConnection, LockInv, Inside
  <2> QED
    BY <2>2, <2>3, <2>4, <2>5, ReleaseStep DEF LockInv, HandlerPart, Inside
<1>10. CASE Crash(h)
  <2>1. /\ handler' \in [Handlers -> HandlerType]
        /\ \A x \in Handlers \ {h} : handler'[x] = handler[x]
        /\ handler'[h].pc = "idle"
    BY <1>1, <1>10, Answering DEF Crash, Answers, Moved, Pc, Answer, LockInv
  <2>2. CASE native_lock = h
    <3>1. native_lock' = NoHandler /\ staged' = {}
      BY <2>2, <1>10 DEF Crash
    <3> QED
      BY <2>1, <2>2, <3>1, ReleaseStep DEF LockInv, HandlerPart, Inside
  <2>3. CASE native_lock # h
    <3>1. UNCHANGED <<native_lock, staged>>
      BY <2>3, <1>10 DEF Crash
    <3> QED
      BY <1>1, <2>1, <2>3, <3>1, OutsideStep DEF LockInv, HandlerPart, Inside
  <2> QED
    BY <2>2, <2>3
<1> QED
  BY <1>2, <1>3, <1>4, <1>5, <1>6, <1>7, <1>8, <1>9, <1>10 DEF Step, Progress

LEMMA OtherLocks ==
  ASSUME LockInv, StoredInv, [Next]_vars, ~ \E h \in Handlers : Step(h)
  PROVE  LockInv'
<1> USE LockNames
<1>1. CASE UNCHANGED <<native_lock, staged, handler>>
  BY <1>1 DEF LockInv, HandlerPart, OneWriter
<1>2. ASSUME NEW h \in Handlers, NEW q \in Requests, Post(h, q)
      PROVE  LockInv'
  <2> DEFINE record == [pc |-> "read", request |-> q, prepared |-> NoVersion, answer |-> "NONE"]
  <2>1. record \in HandlerType /\ record.pc = "read"
    BY DEF HandlerType
  <2>2. handler' = [handler EXCEPT ![h] = record] /\ UNCHANGED <<native_lock, staged>>
    BY <1>2 DEF Post
  <2> HIDE DEF record
  <2>3. /\ handler' \in [Handlers -> HandlerType]
        /\ handler'[h] = record
        /\ \A x \in Handlers \ {h} : handler'[x] = handler[x]
    BY <2>1, <2>2, Moves DEF LockInv
  <2>4. native_lock # h
    BY <1>2 DEF Post, LockInv, OneWriter, Inside
  <2>5. OneWriter'
    BY <2>1, <2>2, <2>3, <2>4, OutsideStep DEF LockInv, Inside
  <2> QED
    BY <2>2, <2>3, <2>5 DEF LockInv, HandlerPart
<1>3. CASE OrphanEnds
  <2>1. native_lock = Orphan /\ native_lock' = NoHandler /\ staged' = {} /\ UNCHANGED handler
    BY <1>3 DEF OrphanEnds, OrphanCommits, OrphanRollsBack, Apply
  <2>2. OneWriter'
    BY <2>1 DEF LockInv, OneWriter, Inside
  <2> QED
    BY <2>1, <2>2 DEF LockInv, HandlerPart
<1>4. ASSUME NEW r \in Runs, Play(r)
      PROVE  UNCHANGED <<native_lock, staged, handler>>
  BY <1>4 DEF Play, Admit, LocalTurn, FinishJob, StartJob
<1>5. ASSUME NEW s \in job, DropJob(s)
      PROVE  UNCHANGED <<native_lock, staged, handler>>
  BY <1>5 DEF DropJob
<1>6. CASE Retire
  BY <1>1, <1>6 DEF Retire
<1>7. CASE UNCHANGED vars
  BY <1>1, <1>7 DEF vars
<1> QED
  BY <1>1, <1>2, <1>3, <1>4, <1>5, <1>6, <1>7 DEF Next

-----------------------------------------------------------------------------
(* What is stored stays right                                              *)

LEMMA StoredStep ==
  ASSUME StoredInv, LockInv, [Next]_vars
  PROVE  StoredInv'
<1>1. TypeOK
  BY TypeParts DEF StoredInv, LockInv
<1>2. CASE Quiet
  BY <1>2, QuietStep
<1>3. ASSUME NEW h \in Handlers, Stage(h) PROVE StoredInv'
  BY <1>1, <1>3, StageStep
<1>4. ASSUME NEW t \in staged, Apply(t) PROVE StoredInv'
  BY <1>4, ApplyStep
<1>5. ASSUME NEW r \in Runs, Play(r) PROVE StoredInv'
  <2>1. ASSUME NEW f \in {"Admission", "FogAdmission"}, Admit(r, f) PROVE StoredInv'
    BY <2>1, AdmitStep, LockNames DEF LockInv
  <2>2. ASSUME NEW ending \in {"open"} \cup Ended, LocalTurn(r, ending) PROVE StoredInv'
    <3>1. job' = job \ {Current(r)}
      BY <2>2 DEF LocalTurn
    <3> QED
      BY <2>2, <3>1, TurnStep DEF LocalTurn, Playable
  <2>3. ASSUME NEW ending \in {"open"} \cup Ended, FinishJob(r, ending) PROVE StoredInv'
    <3>1. r \in Open /\ session[Current(r)].ending = "open" /\ Current(r) \in job
      BY <2>3 DEF FinishJob, Playable
    <3>2. session[Current(r)].version < MaxVersion
      BY <3>1 DEF StoredInv, JobsArePlaying
    <3> QED
      BY <2>3, <3>1, <3>2, TurnStep DEF FinishJob
  <2>4. CASE StartJob(r)
    BY <2>4, JobStep DEF StartJob, Playable
  <2> QED
    BY <1>5, <2>1, <2>2, <2>3, <2>4 DEF Play
<1>6. ASSUME NEW s \in job, DropJob(s) PROVE StoredInv'
  BY <1>6, JobStep DEF DropJob
<1>7. CASE Retire
  BY <1>7, RetireStep
<1> QED
  BY <1>1, <1>2, <1>3, <1>4, <1>5, <1>6, <1>7, StepKinds DEF LockInv

\* A receipt once stored is never deleted.
LEMMA ReceiptsStay ==
  ASSUME TypeOK, OneWriter, [Next]_vars
  PROVE  receipts \subseteq receipts'
<1>1. Quiet => UNCHANGED receipts
  BY DEF Quiet, stored
<1>2. (\E h \in Handlers : Stage(h)) => UNCHANGED receipts
  BY DEF Stage
<1>3. (\E t \in staged : Apply(t)) => receipts \subseteq receipts'
  BY DEF Apply
<1>4. (\E r \in Runs : Play(r)) => UNCHANGED receipts
  BY DEF Play, Admit, LocalTurn, FinishJob, StartJob
<1>5. (\E s \in job : DropJob(s)) \/ Retire => UNCHANGED receipts
  BY DEF DropJob, Retire
<1> QED
  BY <1>1, <1>2, <1>3, <1>4, <1>5, StepKinds

\* Whoever is told of a success finds it stored.
LEMMA SuccessStep ==
  ASSUME StoredInv, LockInv, SuccessIsDurable, [Next]_vars
  PROVE  SuccessIsDurable'
<1> DEFINE AppliedNext(q) == \E y \in receipts' : y.request = q
<1>1. ASSUME NEW q, Applied(q) PROVE AppliedNext(q)
  BY <1>1, ReceiptsStay, TypeParts DEF StoredInv, LockInv, Applied
<1> SUFFICES ASSUME NEW x \in Handlers, handler'[x].answer = "OK"
             PROVE  AppliedNext(handler'[x].request)
  BY DEF SuccessIsDurable, Applied
<1> DEFINE q == handler[x].request
<1>2. CASE handler'[x] = handler[x]
  BY <1>1, <1>2 DEF SuccessIsDurable
<1> HIDE DEF AppliedNext
<1>3. ASSUME NEW pc \in Pc, NEW answer \in Answer, Moved(x, pc, answer),
             answer = "OK" => AppliedNext(q)
      PROVE  AppliedNext(handler'[x].request)
  BY <1>3 DEF Moved
<1>4. ASSUME NEW h \in Handlers, Step(h)
      PROVE  h = x \/ handler'[x] = handler[x]
  BY <1>4 DEF Step, Progress, Read, Waits, Answers, Lock, LockTimeout, Replay, RefuseKey, Refuse, Decides,
       Stage, Commit, CommitUnacknowledged, Close, CloseFails, LoseConnection, Crash, LockInv, HandlerPart
<1>5. CASE Step(x)
  <2>1. Replayable(q) => AppliedNext(q)
    BY <1>1 DEF Replayable, Applied, Found
  <2>2. handler[x].answer \in Answer /\ handler[x].pc \in Pc
    BY DEF LockInv, HandlerPart, HandlerType, Pc, Answer
  <2>3. handler[x].answer = "OK" => AppliedNext(q)
    BY <1>1 DEF SuccessIsDurable
  <2>4. CASE Read(x)
    <3>1. ASSUME NEW answer \in {"KEY_REUSED", "REFUSED", "OK"}, Answers(x, answer),
                 answer = "OK" => Replayable(q)
          PROVE  AppliedNext(handler'[x].request)
      BY <1>3, <2>1, <3>1, Answering DEF Answers, Pc, Answer, LockInv
    <3>2. ASSUME NEW version, Waits(x, version)
          PROVE  handler'[x].answer = handler[x].answer /\ handler'[x].request = q
      BY <3>2 DEF Waits, LockInv, HandlerPart, HandlerType
    <3>3. CASE \E version : Waits(x, version)
      BY <2>3, <3>2, <3>3
    <3> QED
      BY <2>4, <3>1, <3>3 DEF Read
  <2>5. CASE Lock(x) \/ Stage(x)
    <3>1. PICK pc \in {"locked", "staged"} : Moved(x, pc, handler[x].answer)
      BY <2>5, Proceeding DEF Lock, Stage, Pc, LockInv
    <3> QED
      BY <1>3, <2>2, <2>3, <3>1 DEF Pc
  <2>6. CASE LockTimeout(x)
    BY <1>3, <2>6, Answering DEF LockTimeout, Answers, Pc, Answer, LockInv
  <2>7. CASE Replay(x) \/ RefuseKey(x) \/ Refuse(x)
    <3>1. PICK answer \in {"OK", "KEY_REUSED", "REFUSED"} :
            Decides(x, answer) /\ (answer = "OK" => Replayable(q))
      BY <2>7 DEF Replay, RefuseKey, Refuse
    <3>2. Moved(x, "closing", answer)
      BY <3>1, Answering DEF Decides, Pc, Answer, LockInv
    <3> QED
      BY <1>3, <2>1, <3>1, <3>2 DEF Pc, Answer
  <2>8. CASE Commit(x)
    <3>1. PICK t \in staged : Apply(t)
      BY <2>8 DEF Commit
    <3>2. t.request = handler[x].request
      BY <2>8 DEF Commit, LockInv, OneWriter
    <3>3. AppliedNext(q)
      <4> DEFINE y == [run |-> t.request.run, namespace |-> Namespace(t.request),
                       key |-> t.request.key, request |-> t.request]
      <4>1. y \in receipts'
        BY <3>1 DEF Apply
      <4>2. y.request = q
        BY <3>2
      <4> QED
        BY <4>1, <4>2 DEF AppliedNext
    <3>4. Moved(x, "committed", "OK")
      BY <2>8, Answering DEF Commit, Pc, Answer, LockInv
    <3> QED
      BY <1>3, <3>3, <3>4 DEF Pc, Answer
  <2>9. CASE CommitUnacknowledged(x) \/ LoseConnection(x) \/ Crash(x)
    <3>1. PICK answer \in {"UNKNOWN", "ERROR"} : Answers(x, answer)
      BY <2>9 DEF CommitUnacknowledged, LoseConnection, Crash
    <3> QED
      BY <1>3, <3>1, Answering DEF Answers, Pc, Answer, LockInv
  <2>10. CASE Close(x) \/ CloseFails(x)
    <3>1. PICK answer \in Answer : Answers(x, answer) /\ (answer = "OK" => handler[x].answer = "OK")
      BY <2>2, <2>10 DEF Close, CloseFails, Answer
    <3>2. Moved(x, "idle", answer)
      BY <3>1, Answering DEF Answers, Pc, LockInv
    <3> QED
      BY <1>3, <2>3, <3>1, <3>2 DEF Pc
  <2> QED
    BY <1>5, <2>4, <2>5, <2>6, <2>7, <2>8, <2>9, <2>10 DEF Step, Progress
<1>6. ASSUME NEW h \in Handlers, NEW p \in Requests, Post(h, p)
      PROVE  handler'[x] = handler[x]
  BY <1>6 DEF Post, LockInv, HandlerPart
<1>7. ASSUME ~ \E h \in Handlers : Step(h) \/ \E p \in Requests : Post(h, p)
      PROVE  UNCHANGED handler
  BY <1>7 DEF Next, vars, OrphanEnds, OrphanCommits, OrphanRollsBack, Play, Admit, LocalTurn,
       FinishJob, StartJob, DropJob, Retire
<1> QED
  BY <1>2, <1>4, <1>5, <1>6, <1>7

-----------------------------------------------------------------------------
(* The inductive invariant                                                 *)

LEMMA InvParts == IInv <=> StoredInv /\ LockInv /\ SuccessIsDurable
  BY TypeParts DEF IInv, StoredInv, LockInv

LEMMA InitInv == Init => IInv
<1> SUFFICES ASSUME Init PROVE IInv
  OBVIOUS
<1> USE LockNames
<1>1. AnyRequest \in Requests
  BY RequestAssumption DEF AnyRequest
<1>2. IdleHandler \in HandlerType /\ IdleHandler.pc = "idle" /\ IdleHandler.answer = "NONE"
  BY <1>1 DEF IdleHandler, HandlerType
<1>3. \A r \in Runs : family[r] = "None" /\ Visits(family[r]) = 0
  BY VisitCounts DEF Init
<1>4. Open = {} /\ \A r \in Runs : Left(r) = {}
  BY <1>3, VisitCounts DEF Open, Left, Visit
<1>5. StoredType
  BY DEF Init, StoredType, Families
<1>6. HandlerPart /\ OneWriter /\ SuccessIsDurable
  BY <1>2 DEF Init, HandlerPart, OneWriter, Inside, SuccessIsDurable
<1>7. OneOpenRun /\ JobsArePlaying /\ StagedIsCurrent
  BY <1>4 DEF Init, OneOpenRun, JobsArePlaying, StagedIsCurrent
<1>8. VisitsExist /\ SealedSources /\ CarryoverIsExact
  BY <1>3, <1>4 DEF VisitsExist, SealedSources, CarryoverIsExact
<1>9. ReceiptsMatch
  <2>1. ReceiptsOf("None") = {}
    BY DEF ReceiptsOf, Visits, ClosedFamilies
  <2>2. receipts = {}
    BY DEF Init
  <2> QED
    BY <1>3, <2>1, <2>2 DEF ReceiptsMatch
<1> QED
  BY <1>5, <1>6, <1>7, <1>8, <1>9, InvParts DEF StoredInv, LockInv

LEMMA StepInv == IInv /\ [Next]_vars => IInv'
<1> SUFFICES ASSUME IInv, [Next]_vars PROVE IInv'
  OBVIOUS
<1>1. StoredInv /\ LockInv /\ SuccessIsDurable
  BY InvParts
<1>2. StoredInv'
  BY <1>1, StoredStep
<1>3. LockInv'
  <2>1. CASE \E h \in Handlers : Step(h)
    BY <1>1, <2>1, StepLocks
  <2>2. CASE ~ \E h \in Handlers : Step(h)
    BY <1>1, <2>2, OtherLocks
  <2> QED
    BY <2>1, <2>2
<1>4. SuccessIsDurable'
  BY <1>1, SuccessStep
<1>5. TypeOK'
  BY <1>2, <1>3 DEF TypeOK, StoredInv, StoredType, LockInv, HandlerPart
<1> QED
  BY <1>2, <1>3, <1>4, <1>5 DEF IInv, StoredInv, LockInv

\* The strengthened invariant holds of every execution.
THEOREM Invariance == Spec => []IInv
<1>1. Init => IInv
  BY InitInv
<1>2. IInv /\ [Next]_vars => IInv'
  BY StepInv
<1> QED
  BY <1>1, <1>2, PTL DEF Spec

-----------------------------------------------------------------------------
(* The theorems                                                            *)

\* Every variable keeps its type, and only ended stories are ever sealed.
THEOREM TypeCorrect == Spec => []TypeOK
<1>1. IInv => TypeOK
  BY DEF IInv
<1> QED
  BY <1>1, Invariance, PTL

\* At most one run binds the character, which is then not retired.
THEOREM OneJourneyAtATime == Spec => []OneOpenRun
<1>1. IInv => OneOpenRun
  BY DEF IInv
<1> QED
  BY <1>1, Invariance, PTL

\* What a run has left behind never changes, and the family can be rebuilt.
THEOREM SourcesStaySealed == Spec => []SealedSources
<1>1. IInv => SealedSources
  BY DEF IInv
<1> QED
  BY <1>1, Invariance, PTL

\* Each operation is applied once and leaves the receipt that replays it.
THEOREM ReceiptsAreTheHistory == Spec => []ReceiptsMatch
<1>1. IInv => ReceiptsMatch
  BY DEF IInv
<1> QED
  BY <1>1, Invariance, PTL

\* A flushed operation stays permissible until its outcome is decided.
THEOREM StagedStaysCurrent == Spec => []StagedIsCurrent
<1>1. IInv => StagedIsCurrent
  BY DEF IInv
<1> QED
  BY <1>1, Invariance, PTL

\* Nothing is gained or lost between two visits.
THEOREM CarryoverStaysExact == Spec => []CarryoverIsExact
<1>1. IInv => CarryoverIsExact
  BY DEF IInv
<1> QED
  BY <1>1, Invariance, PTL

\* The named lock admits one writer, and only the writer has flushed anything.
THEOREM WritersExclude == Spec => []OneWriter
<1>1. IInv => OneWriter
  BY DEF IInv
<1> QED
  BY <1>1, Invariance, PTL

\* A reported success is stored, whatever is lost afterwards.
THEOREM SuccessStaysDurable == Spec => []SuccessIsDurable
<1>1. IInv => SuccessIsDurable
  BY DEF IInv
<1> QED
  BY <1>1, Invariance, PTL

-----------------------------------------------------------------------------
(* The run services implement the story they promise                       *)

\* What the story shows of the stored state.
Shown == <<family, session, character>>

LEMMA HiddenSteps ==
  ASSUME UNCHANGED Shown
  PROVE  UNCHANGED Story!storyVars
  BY DEF Shown, Story!storyVars, storyVisits, storyStatus, storyTurns, storyOver, Current

LEMMA ShownStatus ==
  /\ \A f \in Families : Status(f) = "open" <=> f \in OpenFamilies
  /\ \A f \in Families : Status(f) = "unentered" <=> f = "None"
  BY DEF Families, OpenFamilies, ClosedFamilies, Status

LEMMA ShownJourneys == StoredInv => Story!OnJourney = Open
  BY ShownStatus DEF Story!OnJourney, storyStatus, Open, StoredInv, StoredType

LEMMA StoryInit == Init => Story!Init
<1> SUFFICES ASSUME Init PROVE Story!Init
  OBVIOUS
<1>1. \A r \in Runs : family[r] = "None" /\ Visits(family[r]) = 0 /\ Status(family[r]) = "unentered"
  BY VisitCounts DEF Init, Status
<1>2. storyVisits = [r \in Runs |-> 0] /\ storyStatus = [r \in Runs |-> "unentered"]
  BY <1>1 DEF storyVisits, storyStatus
<1>3. storyTurns = [r \in Runs |-> [v \in 1..0 |-> 0]]
  BY <1>1 DEF storyTurns
<1>4. storyOver = [r \in Runs |-> FALSE]
  BY <1>1 DEF storyOver
<1> QED
  BY <1>2, <1>3, <1>4 DEF Story!Init, Init

\* A step that concerns run r alone shows in no other run.
LEMMA OtherStories ==
  ASSUME StoredInv, NEW r \in Runs,
         \A s \in Runs \ {r} :
            /\ family'[s] = family[s]
            /\ \A v \in 1..Visits(family[s]) : session'[<<s, v>>] = session[<<s, v>>]
  PROVE  /\ storyVisits' = [storyVisits EXCEPT ![r] = Visits(family'[r])]
         /\ storyStatus' = [storyStatus EXCEPT ![r] = Status(family'[r])]
         /\ storyTurns' = [storyTurns EXCEPT ![r] =
               [v \in 1..Visits(family'[r]) |-> session'[<<r, v>>].version]]
         /\ storyOver' = [storyOver EXCEPT ![r] =
               family'[r] # "None" /\ session'[<<r, Visits(family'[r])>>].ending # "open"]
<1>1. storyVisits' = [storyVisits EXCEPT ![r] = Visits(family'[r])]
  BY DEF storyVisits
<1>2. storyStatus' = [storyStatus EXCEPT ![r] = Status(family'[r])]
  BY DEF storyStatus
<1>3. storyTurns' = [storyTurns EXCEPT ![r] =
         [v \in 1..Visits(family'[r]) |-> session'[<<r, v>>].version]]
  <2>1. \A s \in Runs \ {r} :
           [v \in 1..Visits(family'[s]) |-> session'[<<s, v>>].version]
           = [v \in 1..Visits(family[s]) |-> session[<<s, v>>].version]
    OBVIOUS
  <2> QED
    BY <2>1 DEF storyTurns
<1>4. ASSUME NEW s \in Runs \ {r}
      PROVE  (family'[s] # "None" /\ session'[Current(s)'].ending # "open")
             <=> (family[s] # "None" /\ session[Current(s)].ending # "open")
  <2>1. CASE family[s] = "None"
    BY <2>1
  <2>2. CASE family[s] # "None"
    <3>1. Visits(family[s]) \in 1..Visits(family[s])
      BY <2>2, VisitCounts DEF StoredInv, StoredType, Visit
    <3> QED
      BY <3>1 DEF Current
  <2> QED
    BY <2>1, <2>2
<1>5. storyOver' = [storyOver EXCEPT ![r] =
         family'[r] # "None" /\ session'[<<r, Visits(family'[r])>>].ending # "open"]
  <2> DEFINE now(s) == family[s] # "None" /\ session[Current(s)].ending # "open"
             next(s) == family'[s] # "None" /\ session'[Current(s)'].ending # "open"
  <2>1. \A s \in Runs \ {r} : next(s) = now(s)
    BY <1>4
  <2>2. next(r) = (family'[r] # "None" /\ session'[<<r, Visits(family'[r])>>].ending # "open")
    BY DEF Current
  <2>3. storyOver = [s \in Runs |-> now(s)] /\ storyOver' = [s \in Runs |-> next(s)]
    BY DEF storyOver
  <2> HIDE DEF now, next
  <2>4. storyOver' = [storyOver EXCEPT ![r] = next(r)]
    BY <2>1, <2>3
  <2> QED
    BY <2>2, <2>4
<1> QED
  BY <1>1, <1>2, <1>3, <1>5

LEMMA StoryEnter ==
  ASSUME StoredInv, NEW r \in Runs, NEW f \in {"Admission", "FogAdmission"}, Admit(r, f)
  PROVE  Story!Enter(r)
<1>1. /\ family[r] = "None" /\ family'[r] = f /\ Visits(f) = 1 /\ Visits("None") = 0
      /\ Status(f) = "open" /\ f # "None" /\ Open = {} /\ character = "ACTIVE" /\ UNCHANGED character
      /\ \A s \in Runs \ {r} : family'[s] = family[s]
  BY VisitCounts DEF Admit, StoredInv, StoredType, Status, OpenFamilies
<1>2. /\ session' = [session EXCEPT ![<<r, 1>>] = NewSession(NoVersion)]
      /\ session \in [Runs \X Visit -> SessionRecord \cup {NoSession}]
      /\ <<r, 1>> \in Runs \X Visit
  BY DEF Admit, StoredInv, StoredType, Visit
<1>3. session'[<<r, 1>>].version = 0 /\ session'[<<r, 1>>].ending = "open"
  BY <1>2 DEF NewSession
<1>4. \A s \in Runs \ {r} : \A v \in 1..Visits(family[s]) : session'[<<s, v>>] = session[<<s, v>>]
  BY <1>2, VisitCounts DEF StoredInv, StoredType, Visit
<1>5. /\ storyVisits' = [storyVisits EXCEPT ![r] = 1]
      /\ storyStatus' = [storyStatus EXCEPT ![r] = "open"]
      /\ storyTurns' = [storyTurns EXCEPT ![r] = [v \in 1..1 |-> session'[<<r, v>>].version]]
      /\ storyOver' = [storyOver EXCEPT ![r] =
            f # "None" /\ session'[<<r, 1>>].ending # "open"]
  BY <1>1, <1>4, OtherStories
<1>6. storyVisits[r] = 0 /\ storyStatus[r] = "unentered"
  BY <1>1 DEF storyVisits, storyStatus, Status
<1>7. [v \in 1..1 |-> session'[<<r, v>>].version]
      = [v \in 1..(storyVisits[r] + 1) |-> IF v <= storyVisits[r] THEN storyTurns[r][v] ELSE 0]
  BY <1>3, <1>6
<1>8. storyOver' = [storyOver EXCEPT ![r] = FALSE]
  <2>1. (f # "None" /\ session'[<<r, 1>>].ending # "open") = FALSE
    BY <1>3
  <2> QED
    BY <1>5, <2>1
<1>9. storyVisits' = [storyVisits EXCEPT ![r] = @ + 1]
  BY <1>5, <1>6
<1> QED
  BY <1>1, <1>5, <1>6, <1>7, <1>8, <1>9, ShownJourneys DEF Story!Enter, Story!BeginVisit

LEMMA StoryTurn ==
  ASSUME StoredInv, NEW r \in Open, NEW ending \in {"open"} \cup Ended,
         session[Current(r)].ending = "open", Advance(r, ending), UNCHANGED <<family, character>>
  PROVE  Story!Turn(r)
<1> DEFINE n == Visits(family[r])
<1>1. /\ r \in Runs /\ family[r] # "None" /\ n \in Visit /\ n \in 1..n
      /\ Current(r) = <<r, n>> /\ <<r, n>> \in Runs \X Visit
      /\ session[<<r, n>>] \in SessionRecord
  BY CurrentSession, VisitCounts DEF Open, Current, Visit
<1>2. /\ \A s \in Runs \X Visit : s # <<r, n>> => session'[s] = session[s]
      /\ session'[<<r, n>>].version = session[<<r, n>>].version + 1
      /\ session'[<<r, n>>].ending = ending
  <2> DEFINE old == session[<<r, n>>]
             new == [old EXCEPT !.version = @ + 1, !.ending = ending]
  <2>1. session' = [session EXCEPT ![<<r, n>>] = new]
    BY <1>1 DEF Advance
  <2>2. new.version = old.version + 1 /\ new.ending = ending
    BY <1>1 DEF SessionRecord
  <2> HIDE DEF new
  <2> QED
    BY <1>1, <2>1, <2>2 DEF StoredInv, StoredType
<1>3. \A s \in Runs : \A v \in 1..Visits(family[s]) : <<s, v>> \in Runs \X Visit
  BY VisitCounts DEF StoredInv, StoredType, Visit
<1>4. /\ storyTurns' = [storyTurns EXCEPT ![r] =
            [v \in 1..n |-> session'[<<r, v>>].version]]
      /\ storyOver' = [storyOver EXCEPT ![r] =
            family[r] # "None" /\ session'[<<r, n>>].ending # "open"]
  BY <1>1, <1>2, <1>3, OtherStories
<1>5. storyVisits[r] = n /\ storyTurns[r] = [v \in 1..n |-> session[<<r, v>>].version]
      /\ ~storyOver[r]
  BY <1>1 DEF storyVisits, storyTurns, storyOver
<1>6. [v \in 1..n |-> session'[<<r, v>>].version]
      = [storyTurns[r] EXCEPT ![n] = @ + 1]
  <2>1. \A v \in 1..n : session'[<<r, v>>].version
                       = IF v = n THEN session[<<r, v>>].version + 1 ELSE session[<<r, v>>].version
    BY <1>1, <1>2, <1>3
  <2>2. \A v \in 1..n : storyTurns[r][v] = session[<<r, v>>].version
    BY <1>5
  <2>3. storyTurns[r] = [v \in 1..n |-> storyTurns[r][v]]
    BY <1>5
  <2> HIDE DEF n
  <2> QED
    BY <1>1, <2>1, <2>2, <2>3
<1>7. storyTurns' = [storyTurns EXCEPT ![r][storyVisits[r]] = @ + 1]
  <2>1. storyTurns' = [storyTurns EXCEPT ![r] = [storyTurns[r] EXCEPT ![n] = @ + 1]]
    BY <1>4, <1>6
  <2> HIDE DEF n
  <2> QED
    BY <1>5, <2>1
<1>8. storyOver' \in {storyOver, [storyOver EXCEPT ![r] = TRUE]}
  <2>1. CASE ending = "open"
    <3>1. storyOver' = [storyOver EXCEPT ![r] = FALSE]
      <4>1. (family[r] # "None" /\ session'[<<r, n>>].ending # "open") = FALSE
        BY <1>2, <2>1
      <4> QED
        BY <1>4, <4>1
    <3>2. storyOver[r] = FALSE
      BY <1>1 DEF storyOver
    <3> QED
      BY <3>1, <3>2 DEF storyOver
  <2>2. CASE ending # "open"
    <3>1. (family[r] # "None" /\ session'[<<r, n>>].ending # "open") = TRUE
      BY <1>1, <1>2, <2>2
    <3> QED
      BY <1>4, <3>1
  <2> QED
    BY <2>1, <2>2
<1>9. UNCHANGED <<storyVisits, storyStatus, character>>
  BY DEF storyVisits, storyStatus
<1> QED
  BY <1>5, <1>7, <1>8, <1>9, ShownJourneys DEF Story!Turn

LEMMA StoryRetire == StoredInv /\ Retire => Story!Retire
<1> SUFFICES ASSUME StoredInv, Retire PROVE Story!Retire
  OBVIOUS
<1>1. UNCHANGED <<storyVisits, storyStatus, storyTurns, storyOver>>
  BY DEF Retire, storyVisits, storyStatus, storyTurns, storyOver, Current
<1> QED
  BY <1>1, ShownJourneys DEF Retire, Story!Retire

\* What each succession of families looks like in the story.
LEMMA SuccessorStories ==
  ASSUME NEW op \in Ops, NEW f \in Families, NEW g \in Families, <<op, f, g>> \in Succession
  PROVE  /\ op \in {"continue", "revisit"} => Visits(f) < 3 /\ Status(g) = "open"
         /\ op = "exit" => Status(g) = "left"
         /\ op = "complete" => Status(g) = "completed" /\ Visits(f) = 3
         /\ Status(f) = "open" /\ g # "None"
  BY DEF Ops, Families, OpenFamilies, ClosedFamilies, Succession, Visits, Status

LEMMA StoryApply ==
  ASSUME StoredInv, NEW t \in staged, Apply(t)
  PROVE  \E r \in Runs : Story!GoOn(r) \/ Story!Leave(r) \/ Story!Complete(r)
<1> DEFINE q == t.request
           r == t.request.run
           f == family[t.request.run]
           g == t.next
           n == Visits(family[t.request.run])
           m == Visits(t.next)
<1>1. q \in RequestType /\ g \in Families
  BY RequestAssumption DEF StoredInv, StoredType
<1>2. q.op \in Ops /\ r \in Runs /\ f \in Families /\ <<q.op, f, g>> \in Succession
  BY <1>1 DEF RequestType, StoredInv, StoredType, StagedIsCurrent
<1>3. /\ f \in OpenFamilies /\ r \in Open /\ g # "None"
      /\ q.op \in {"continue", "revisit"} => n < 3 /\ m = n + 1 /\ Status(g) = "open"
      /\ q.op = "exit" => m = n /\ Status(g) = "left"
      /\ q.op = "complete" => m = n /\ n = 3 /\ Status(g) = "completed"
  BY <1>1, <1>2, Successors, SuccessorStories DEF Open
<1>4. n \in Visit /\ Current(r) = <<r, n>> /\ <<r, n>> \in Runs \X Visit
  BY <1>3, CurrentSession DEF Current
<1>5. session[<<r, n>>].ending # "open" /\ character = "ACTIVE" /\ f # "None"
  BY <1>3, <1>4, VisitCounts DEF StoredInv, StagedIsCurrent, Eligible, Ended
<1>6. /\ family' = [family EXCEPT ![r] = g] /\ UNCHANGED character
      /\ session' = IF Prepares(q) THEN [session EXCEPT ![<<r, m>>] = NewSession(t.prepared)]
                                   ELSE session
  BY DEF Apply
<1>7. family'[r] = g /\ \A s \in Runs \ {r} : family'[s] = family[s]
  BY <1>2, <1>6 DEF StoredInv, StoredType
<1>8. \A s \in Runs : \A v \in 1..Visits(family[s]) : <<s, v>> \in Runs \X Visit
  BY VisitCounts DEF StoredInv, StoredType, Visit
<1>9. storyVisits[r] = n /\ storyStatus[r] = "open" /\ storyOver[r]
      /\ storyTurns[r] = [v \in 1..n |-> session[<<r, v>>].version]
  BY <1>2, <1>3, <1>4, <1>5, ShownStatus DEF storyVisits, storyStatus, storyOver, storyTurns
<1>10. r \in Story!OnJourney
  BY <1>3, ShownJourneys
<1>11. CASE q.op \in {"continue", "revisit"}
  <2>1. m = n + 1 /\ n < 3 /\ <<r, m>> \in Runs \X Visit /\ Status(g) = "open"
    BY <1>2, <1>3, <1>4, <1>11 DEF Visit
  <2>2. session' = [session EXCEPT ![<<r, m>>] = NewSession(t.prepared)]
    BY <1>6, <1>11 DEF Prepares
  <2>3. /\ session'[<<r, m>>].version = 0 /\ session'[<<r, m>>].ending = "open"
        /\ \A s \in Runs \X Visit : s # <<r, m>> => session'[s] = session[s]
    BY <2>1, <2>2 DEF NewSession, StoredInv, StoredType
  <2>4. \A s \in Runs \ {r} : \A v \in 1..Visits(family[s]) : session'[<<s, v>>] = session[<<s, v>>]
    BY <1>8, <2>3
  <2>5. /\ storyVisits' = [storyVisits EXCEPT ![r] = m]
        /\ storyStatus' = [storyStatus EXCEPT ![r] = Status(g)]
        /\ storyTurns' = [storyTurns EXCEPT ![r] = [v \in 1..m |-> session'[<<r, v>>].version]]
        /\ storyOver' = [storyOver EXCEPT ![r] = g # "None" /\ session'[<<r, m>>].ending # "open"]
    BY <1>2, <1>7, <2>4, OtherStories
  <2> HIDE DEF q, r, f, g, n, m
  <2>6. [v \in 1..m |-> session'[<<r, v>>].version]
        = [v \in 1..(storyVisits[r] + 1) |-> IF v <= storyVisits[r] THEN storyTurns[r][v] ELSE 0]
    <3>1. \A v \in 1..n : session'[<<r, v>>] = session[<<r, v>>]
      BY <1>2, <1>4, <2>1, <2>3 DEF Visit
    <3>2. \A v \in 1..m : v <= n \/ v = m
      BY <1>4, <2>1 DEF Visit
    <3> QED
      BY <1>4, <1>9, <2>1, <2>3, <3>1, <3>2 DEF Visit
  <2>7. storyStatus' = storyStatus
    BY <1>9, <2>1, <2>5 DEF storyStatus
  <2>8. storyOver' = [storyOver EXCEPT ![r] = FALSE]
    <3>1. (g # "None" /\ session'[<<r, m>>].ending # "open") = FALSE
      BY <2>3
    <3> QED
      BY <2>5, <3>1
  <2>9. storyVisits' = [storyVisits EXCEPT ![r] = @ + 1]
    BY <1>9, <2>1, <2>5
  <2>10. Story!BeginVisit(r)
    BY <2>5, <2>6, <2>8, <2>9 DEF Story!BeginVisit
  <2>11. Story!GoOn(r)
    BY <1>5, <1>6, <1>9, <1>10, <2>1, <2>7, <2>10 DEF Story!GoOn
  <2> QED
    BY <1>2, <2>11
<1>12. CASE q.op \in {"exit", "complete"}
  <2>1. m = n /\ session' = session
    BY <1>3, <1>6, <1>12 DEF Prepares
  <2>2. /\ storyVisits' = [storyVisits EXCEPT ![r] = m]
        /\ storyStatus' = [storyStatus EXCEPT ![r] = Status(g)]
        /\ storyTurns' = [storyTurns EXCEPT ![r] = [v \in 1..m |-> session'[<<r, v>>].version]]
        /\ storyOver' = [storyOver EXCEPT ![r] = g # "None" /\ session'[<<r, m>>].ending # "open"]
    BY <1>2, <1>7, <2>1, OtherStories
  <2> HIDE DEF q, r, f, g, n, m
  <2>3. UNCHANGED <<storyVisits, storyTurns>>
    <3>1. storyVisits' = storyVisits
      BY <1>9, <2>1, <2>2 DEF storyVisits
    <3>2. storyTurns' = storyTurns
      BY <1>9, <2>1, <2>2 DEF storyTurns
    <3> QED
      BY <3>1, <3>2
  <2>4. UNCHANGED storyOver
    <3>1. (g # "None" /\ session'[<<r, m>>].ending # "open") = TRUE
      BY <1>3, <1>5, <2>1
    <3>2. storyOver[r] = TRUE
      BY <1>2, <1>4, <1>5 DEF storyOver, r, f, n
    <3> QED
      BY <2>2, <3>1, <3>2 DEF storyOver
  <2>5. CASE q.op = "exit"
    <3>1. Story!Leave(r)
      BY <1>3, <1>5, <1>6, <1>9, <1>10, <2>2, <2>3, <2>4, <2>5 DEF Story!Leave
    <3> QED
      BY <1>2, <3>1
  <2>6. CASE q.op = "complete"
    <3>1. Story!Complete(r)
      BY <1>3, <1>5, <1>6, <1>9, <1>10, <2>2, <2>3, <2>4, <2>6 DEF Story!Complete
    <3> QED
      BY <1>2, <3>1
  <2> QED
    BY <1>12, <2>5, <2>6
<1> QED
  BY <1>2, <1>11, <1>12 DEF Ops

LEMMA StoryStep == IInv /\ [Next]_vars => [Story!Next]_Story!storyVars
<1> SUFFICES ASSUME IInv, [Next]_vars PROVE [Story!Next]_Story!storyVars
  OBVIOUS
<1>1. StoredInv /\ TypeOK /\ OneWriter
  BY DEF IInv, StoredInv, TypeOK, StoredType
<1>2. CASE UNCHANGED Shown
  BY <1>2, HiddenSteps
<1>3. CASE Quiet
  BY <1>2, <1>3 DEF Quiet, stored, Shown
<1>4. ASSUME NEW h \in Handlers, Stage(h) PROVE UNCHANGED Shown
  BY <1>4 DEF Stage, Shown
<1>5. ASSUME NEW t \in staged, Apply(t) PROVE Story!Next
  BY <1>1, <1>5, StoryApply DEF Story!Next
<1>6. ASSUME NEW r \in Runs, Play(r) PROVE Story!Next \/ UNCHANGED Shown
  <2>1. ASSUME NEW f \in {"Admission", "FogAdmission"}, Admit(r, f) PROVE Story!Next
    BY <1>1, <2>1, StoryEnter DEF Story!Next
  <2>2. ASSUME NEW ending \in {"open"} \cup Ended, LocalTurn(r, ending) \/ FinishJob(r, ending)
        PROVE  Story!Next
    <3>1. r \in Open /\ session[Current(r)].ending = "open" /\ Advance(r, ending)
          /\ UNCHANGED <<family, character>>
      BY <2>2 DEF LocalTurn, FinishJob, Playable
    <3> QED
      BY <1>1, <3>1, StoryTurn DEF Story!Next, Open
  <2>3. CASE StartJob(r)
    BY <2>3 DEF StartJob, Shown
  <2> QED
    BY <1>6, <2>1, <2>2, <2>3 DEF Play
<1>7. ASSUME NEW s \in job, DropJob(s) PROVE UNCHANGED Shown
  BY <1>7 DEF DropJob, Shown
<1>8. CASE Retire
  BY <1>1, <1>8, StoryRetire DEF Story!Next
<1> QED
  BY <1>1, <1>2, <1>3, <1>4, <1>5, <1>6, <1>7, <1>8, StepKinds

\* However handlers, turns, jobs, crashes and lost acknowledgements interleave,
\* the player sees one journey at a time, told in order and never rewritten.
THEOREM ServicesTellTheStory == Spec => StorySpec
<1>1. Init => Story!Init
  BY StoryInit
<1>2. IInv /\ [Next]_vars => [Story!Next]_Story!storyVars
  BY StoryStep
<1> QED
  BY <1>1, <1>2, Invariance, PTL DEF Spec, StorySpec, Story!Spec


-----------------------------------------------------------------------------
(* A refusal is never false                                                *)

\* A receipt tells which request it is the receipt of.
Place(q) == IF q.op = "exit" THEN <<"exit", q.visit>> ELSE <<q.op, 0>>
ReceiptsNamed ==
    \A x \in receipts :
        x.run = x.request.run /\ x.key = x.request.key /\ x.namespace = Place(x.request)

\* What a handler that closes is about to say.
RefusalsHold ==
    \A h \in Handlers :
        /\ handler[h].pc = "committed" => handler[h].answer = "OK"
        /\ handler[h].pc = "closing" /\ handler[h].answer \in {"REFUSED", "KEY_REUSED"}
              => ~Applied(handler[h].request)

RefusalInv == IInv /\ ReceiptsNamed /\ RefusalsHold

\* A run has one exit receipt at most, from the visit it was left at.
LEMMA OneExit ==
  ASSUME NEW f \in Families, NEW n \in Visit, <<"exit", n>> \in ReceiptsOf(f)
  PROVE  n = Visits(f)
  BY DEF ReceiptsOf

\* A request that was carried out finds its receipt, and no other.
LEMMA AppliedIsFound ==
  ASSUME IInv, ReceiptsNamed, NEW q \in Requests, Applied(q)
  PROVE  Found(q) # {} /\ ~Reused(q)
<1>1. q \in RequestType
  BY RequestAssumption
<1>2. PICK x \in receipts : x.request = q
  BY DEF Applied
<1>3. q.run \in Runs /\ q.op \in Ops /\ q.visit \in Visit /\ family[q.run] \in Families
  BY <1>1 DEF RequestType, IInv, TypeOK
<1>4. x.run = q.run /\ x.key = q.key /\ x.namespace = Place(q)
  BY <1>2 DEF ReceiptsNamed
<1>5. x.namespace \in ReceiptsOf(family[q.run])
  BY <1>3, <1>4 DEF IInv, ReceiptsMatch
<1>6. x.namespace = Namespace(q)
  <2>1. CASE q.op = "exit"
    <3>1. <<"exit", q.visit>> \in ReceiptsOf(family[q.run])
      BY <1>4, <1>5, <2>1 DEF Place
    <3> QED
      BY <1>3, <1>4, <2>1, <3>1, OneExit DEF Place, Namespace
  <2>2. CASE q.op # "exit"
    BY <1>4, <2>2 DEF Place, Namespace
  <2> QED
    BY <2>1, <2>2
<1>7. x \in Found(q)
  BY <1>4, <1>6 DEF Found
<1>8. \A y \in Found(q) : y = x
  BY <1>3, <1>4, <1>6 DEF Found, IInv, ReceiptsMatch
<1> QED
  BY <1>2, <1>7, <1>8 DEF Reused

LEMMA RequestsAreKnown ==
  ASSUME IInv, NEW h \in Handlers
  PROVE  handler[h].request \in Requests
  BY DEF IInv, TypeOK, HandlerType

\* Receipts are only written by a COMMIT, which names them.
LEMMA ReceiptsWritten ==
  ASSUME IInv, [Next]_vars
  PROVE  UNCHANGED receipts \/ \E t \in staged : Apply(t)
<1>1. Quiet => UNCHANGED receipts
  BY DEF Quiet, stored
<1>2. (\E h \in Handlers : Stage(h)) => UNCHANGED receipts
  BY DEF Stage
<1>3. (\E r \in Runs : Play(r)) => UNCHANGED receipts
  BY DEF Play, Admit, LocalTurn, FinishJob, StartJob
<1>4. (\E s \in job : DropJob(s)) \/ Retire => UNCHANGED receipts
  BY DEF DropJob, Retire
<1>5. TypeOK /\ OneWriter
  BY DEF IInv
<1> QED
  BY <1>1, <1>2, <1>3, <1>4, <1>5, StepKinds

LEMMA NamedStep ==
  ASSUME IInv, ReceiptsNamed, [Next]_vars
  PROVE  ReceiptsNamed'
<1>1. CASE UNCHANGED receipts
  BY <1>1 DEF ReceiptsNamed, Place
<1>2. ASSUME NEW t \in staged, Apply(t) PROVE ReceiptsNamed'
  <2>1. PICK q : q = t.request
    OBVIOUS
  <2>2. q.visit = Visits(family[q.run])
    BY <2>1 DEF IInv, StagedIsCurrent, Eligible
  <2>3. Namespace(q) = Place(q)
    BY <2>2 DEF Namespace, Place
  <2> DEFINE new == [run |-> q.run, namespace |-> Namespace(q), key |-> q.key, request |-> q]
  <2>4. receipts' = receipts \cup {new}
    BY <1>2, <2>1 DEF Apply
  <2>5. new.run = new.request.run /\ new.key = new.request.key /\ new.namespace = Place(new.request)
    BY <2>3
  <2> HIDE DEF new
  <2> QED
    BY <2>4, <2>5 DEF ReceiptsNamed, Place
<1> QED
  BY <1>1, <1>2, ReceiptsWritten

\* While a handler closes, nobody stores anything.
LEMMA ClosingStores ==
  ASSUME IInv, NEW h \in Handlers, handler[h].pc \in {"committed", "closing"}, [Next]_vars
  PROVE  staged = {} /\ UNCHANGED receipts
<1>1. staged = {}
  BY HolderHasNothing, LockNames DEF IInv, Inside
<1> QED
  BY <1>1, ReceiptsWritten

\* A step moves the handler that takes it.
LEMMA HandlerMoves ==
  ASSUME IInv, [Next]_vars, NEW x \in Handlers, handler'[x] # handler[x]
  PROVE  Step(x) \/ \E q \in Requests : Post(x, q)
<1>1. ASSUME NEW h \in Handlers, Step(h) PROVE h = x
  BY <1>1 DEF Step, Progress, Read, Waits, Answers, Lock, LockTimeout, Replay, RefuseKey, Refuse, Decides,
       Stage, Commit, CommitUnacknowledged, Close, CloseFails, LoseConnection, Crash, IInv, TypeOK
<1>2. ASSUME NEW h \in Handlers, NEW p \in Requests, Post(h, p) PROVE h = x
  BY <1>2 DEF Post, IInv, TypeOK
<1>3. \E h \in Handlers : Step(h) \/ \E p \in Requests : Post(h, p)
  BY DEF Next, vars, OrphanEnds, OrphanCommits, OrphanRollsBack, Play, Admit, LocalTurn,
       FinishJob, StartJob, DropJob, Retire
<1> QED
  BY <1>1, <1>2, <1>3

\* A handler that answers says why: it refuses what it found no receipt of, it
\* calls reused what another request has, and it repeats what it decided.
LEMMA AnswerGiven ==
  ASSUME IInv, NEW x \in Handlers, Step(x), NEW q, q = handler[x].request,
         handler'[x].answer \in {"REFUSED", "KEY_REUSED"}, handler'[x].pc = "idle"
  PROVE  /\ UNCHANGED <<receipts, staged>> /\ handler'[x].request = q
         /\ \/ Reused(q)
            \/ Found(q) = {} /\ ~Eligible(q)
            \/ handler[x].pc = "committed"
            \/ handler[x].pc = "closing" /\ handler[x].answer \in {"REFUSED", "KEY_REUSED"}
<1>1. HandlerPart /\ handler[x].answer \in Answer
  BY DEF IInv, TypeOK, HandlerPart, HandlerType, Answer
<1>2. ASSUME NEW answer \in Answer, Answers(x, answer)
      PROVE  handler'[x].answer = answer /\ handler'[x].request = q
  BY <1>1, <1>2, Answering DEF Answers, Moved, Pc
<1>3. CASE Read(x)
  <2>1. ASSUME NEW version, Waits(x, version) PROVE handler'[x].pc = "waiting"
    BY <1>1, <2>1 DEF Waits, HandlerPart, HandlerType
  <2>2. ASSUME Answers(x, "OK") PROVE FALSE
    BY <1>2, <2>2 DEF Answer
  <2>3. \/ Reused(q) /\ Answers(x, "KEY_REUSED")
        \/ Found(q) = {} /\ ~Eligible(q) /\ Answers(x, "REFUSED")
    BY <1>3, <2>1, <2>2 DEF Read
  <2>4. UNCHANGED <<receipts, staged>>
    BY <1>3 DEF Read
  <2> QED
    BY <1>2, <2>3, <2>4 DEF Answer
<1>4. CASE Lock(x) \/ Stage(x) \/ Commit(x) \/ Replay(x) \/ RefuseKey(x) \/ Refuse(x)
  BY <1>1, <1>4 DEF Lock, Stage, Commit, Replay, RefuseKey, Refuse, Decides, HandlerPart, HandlerType
<1>5. CASE LockTimeout(x) \/ CommitUnacknowledged(x) \/ LoseConnection(x) \/ Crash(x)
  <2>1. PICK answer \in {"CONFLICT", "UNKNOWN", "ERROR"} : Answers(x, answer)
    BY <1>5 DEF LockTimeout, CommitUnacknowledged, LoseConnection, Crash
  <2> QED
    BY <1>2, <2>1 DEF Answer
<1>6. CASE Close(x) \/ CloseFails(x)
  <2>1. PICK answer \in Answer :
          /\ Answers(x, answer)
          /\ answer \in {handler[x].answer, "UNKNOWN", "CONFLICT"}
    BY <1>1, <1>6 DEF Close, CloseFails, Answer
  <2>2. answer = handler[x].answer /\ answer \in {"REFUSED", "KEY_REUSED"} /\ handler'[x].request = q
    BY <1>2, <2>1
  <2>3. handler[x].pc \in {"committed", "closing"} /\ UNCHANGED <<receipts, staged>>
    BY <1>6 DEF Close, CloseFails
  <2> QED
    BY <2>2, <2>3
<1> QED
  BY <1>3, <1>4, <1>5, <1>6 DEF Step, Progress

\* A handler begins to close with a commit, a replay or a refusal.
LEMMA ClosingBegins ==
  ASSUME IInv, NEW x \in Handlers, Step(x), NEW q, q = handler[x].request,
         handler'[x].pc \in {"committed", "closing"}
  PROVE  \/ handler'[x].answer = "OK"
         \/ /\ handler'[x].pc = "closing" /\ handler'[x].request = q /\ UNCHANGED receipts
            /\ Reused(q) \/ Found(q) = {}
<1>1. HandlerPart
  BY DEF IInv, TypeOK, HandlerPart
<1>2. ASSUME NEW answer, Answers(x, answer) PROVE handler'[x].pc = "idle"
  BY <1>1, <1>2 DEF Answers, HandlerPart, HandlerType
<1>3. CASE Read(x)
  <2>1. ASSUME NEW version, Waits(x, version) PROVE handler'[x].pc = "waiting"
    BY <1>1, <2>1 DEF Waits, HandlerPart, HandlerType
  <2> QED
    BY <1>2, <1>3, <2>1 DEF Read
<1>4. CASE Lock(x) \/ Stage(x)
  BY <1>1, <1>4 DEF Lock, Stage, HandlerPart, HandlerType
<1>5. CASE Commit(x)
  BY <1>1, <1>5 DEF Commit, HandlerPart, HandlerType
<1>6. CASE Replay(x) \/ RefuseKey(x) \/ Refuse(x)
  <2>1. PICK answer \in {"OK", "KEY_REUSED", "REFUSED"} :
          /\ Decides(x, answer)
          /\ answer # "OK" => Reused(q) \/ Found(q) = {}
    BY <1>6 DEF Replay, RefuseKey, Refuse
  <2>2. handler'[x].pc = "closing" /\ handler'[x].answer = answer /\ handler'[x].request = q
    BY <1>1, <2>1, Answering DEF Decides, Moved, Pc, Answer
  <2>3. UNCHANGED receipts
    BY <2>1 DEF Decides
  <2> QED
    BY <2>1, <2>2, <2>3
<1>7. CASE LockTimeout(x) \/ CommitUnacknowledged(x) \/ Close(x) \/ CloseFails(x) \/ LoseConnection(x)
           \/ Crash(x)
  BY <1>2, <1>7 DEF LockTimeout, CommitUnacknowledged, Close, CloseFails, LoseConnection, Crash
<1> QED
  BY <1>3, <1>4, <1>5, <1>6, <1>7 DEF Step, Progress

LEMMA RefusalsStep ==
  ASSUME RefusalInv, [Next]_vars
  PROVE  RefusalsHold'
<1> SUFFICES ASSUME NEW x \in Handlers, handler'[x].pc \in {"committed", "closing"}
             PROVE  /\ handler'[x].pc = "committed" => handler'[x].answer = "OK"
                    /\ handler'[x].pc = "closing" /\ handler'[x].answer \in {"REFUSED", "KEY_REUSED"}
                          => ~ \E y \in receipts' : y.request = handler'[x].request
  BY DEF RefusalsHold, Applied
<1>1. IInv /\ ReceiptsNamed /\ RefusalsHold
  BY DEF RefusalInv
<1>2. CASE handler'[x] = handler[x]
  BY <1>1, <1>2, ClosingStores DEF RefusalsHold, Applied
<1>3. CASE handler'[x] # handler[x]
  <2>1. ASSUME NEW p \in Requests, Post(x, p) PROVE FALSE
    BY <1>1, <2>1 DEF Post, IInv, TypeOK
  <2>2. Step(x)
    BY <1>1, <1>3, <2>1, HandlerMoves
  <2>3. PICK q \in Requests : q = handler[x].request
    BY <1>1, RequestsAreKnown
  <2>4. Applied(q) => Found(q) # {} /\ ~Reused(q)
    BY <1>1, AppliedIsFound
  <2> QED
    BY <1>1, <2>2, <2>3, <2>4, ClosingBegins DEF Applied
<1> QED
  BY <1>2, <1>3

LEMMA RefusalStep ==
  ASSUME RefusalInv, [Next]_vars, NEW x \in Handlers, Told(x, {"REFUSED", "KEY_REUSED"})
  PROVE  /\ ~Applied(handler[x].request)'
         /\ \A t \in staged' : t.request # handler[x].request
<1>1. IInv /\ ReceiptsNamed /\ RefusalsHold
  BY DEF RefusalInv
<1>2. PICK q \in Requests : q = handler[x].request
  BY <1>1, RequestsAreKnown
<1>3. Step(x)
  <2>1. ASSUME NEW p \in Requests, Post(x, p) PROVE FALSE
    BY <2>1 DEF Post, Told
  <2> QED
    BY <1>1, <2>1, HandlerMoves DEF Told
<1>4. /\ UNCHANGED <<receipts, staged>> /\ handler'[x].request = q
      /\ \/ Reused(q)
         \/ Found(q) = {} /\ ~Eligible(q)
         \/ handler[x].pc = "committed"
         \/ handler[x].pc = "closing" /\ handler[x].answer \in {"REFUSED", "KEY_REUSED"}
  BY <1>1, <1>2, <1>3, AnswerGiven DEF Told
<1>5. Applied(q) => Found(q) # {} /\ ~Reused(q)
  BY <1>1, AppliedIsFound
<1>6. \A t \in staged : t.request = q => Found(q) = {} /\ Eligible(q)
  BY <1>1 DEF IInv, StagedIsCurrent
<1>7. handler[x].pc \in {"committed", "closing"} => staged = {}
  BY <1>1, ClosingStores
<1>8. ~(handler[x].pc = "committed" /\ handler'[x].answer \in {"REFUSED", "KEY_REUSED"})
  <2>1. ASSUME handler[x].pc = "committed" PROVE handler'[x].answer \in {"OK", "UNKNOWN"}
    <3>1. handler[x].answer = "OK"
      BY <1>1, <2>1 DEF RefusalsHold
    <3>2. ASSUME NEW answer, Answers(x, answer) PROVE handler'[x].answer = answer
      BY <1>1, <3>2 DEF Answers, IInv, TypeOK, HandlerType
    <3> QED
      BY <1>3, <2>1, <3>1, <3>2 DEF Step, Progress, Read, Lock, LockTimeout, Replay, RefuseKey, Refuse,
         Decides, Stage, Commit, CommitUnacknowledged, Close, CloseFails, LoseConnection, Crash
  <2> QED
    BY <2>1
<1>9. ~Applied(q) /\ \A t \in staged : t.request # q
  BY <1>1, <1>2, <1>4, <1>5, <1>6, <1>7, <1>8 DEF RefusalsHold, Told, Reused
<1> QED
  BY <1>2, <1>4, <1>9 DEF Applied

\* Nobody is told of a refusal, or of a key taken by another request, whose
\* request was carried out or may still be: however a handler comes to its
\* answer, with the named lock or before it asks for it.
THEOREM RefusalsAreTrue == Spec => NoFalseRefusal
<1> DEFINE Refusing == \A h \in Handlers : Told(h, {"REFUSED", "KEY_REUSED"}) =>
                          ~Applied(handler[h].request)' /\ \A t \in staged' : t.request # handler[h].request
<1>1. Init => RefusalInv
  <2> SUFFICES ASSUME Init PROVE RefusalInv
    OBVIOUS
  <2>1. IdleHandler.pc = "idle"
    BY DEF IdleHandler
  <2>2. ReceiptsNamed /\ RefusalsHold
    BY <2>1 DEF Init, ReceiptsNamed, RefusalsHold
  <2> QED
    BY <2>2, InitInv DEF RefusalInv
<1>2. RefusalInv /\ [Next]_vars => RefusalInv'
  BY StepInv, NamedStep, RefusalsStep DEF RefusalInv
<1>3. RefusalInv /\ [Next]_vars => Refusing
  BY RefusalStep
<1> HIDE DEF Refusing
<1>4. Spec => [][Refusing]_vars
  BY <1>1, <1>2, <1>3, PTL DEF Spec
<1> QED
  BY <1>4 DEF NoFalseRefusal, Refusing
=============================================================================
