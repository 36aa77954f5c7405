---------------------------- MODULE NativeFamily ----------------------------
(***************************************************************************)
(* The journey of a native run as rows: what its admission, continuation,  *)
(* revisit, exit and completion write, and what the whole family of rows   *)
(* of a run has to be before anything is read from it.                     *)
(*                                                                         *)
(*   domain/run_protocol_binding.py   the successor run of each operation  *)
(*   domain/world_continuation.py     from a first world into a second     *)
(*   domain/world_revisit.py          back into another region of it       *)
(*   domain/fog_patrol.py             from the fog station to the patrol   *)
(*   domain/run_completion.py         closing the journey                  *)
(*   infrastructure/*_persistence.py  reading the families back            *)
(*                                                                         *)
(* D is a store: D.rows are rows that are only inserted, D.sess the        *)
(* version of each session row, D.snap its snapshot, D.position the one    *)
(* row of a run that is rewritten and D.jobs the narrative jobs.  A        *)
(* snapshot is what these families look at: its version, how its story     *)
(* stands, and the player state that is carried from world to world.       *)
(***************************************************************************)
EXTENDS CharacterLedger, FiniteSetsExt

\* Where an ending may lead, and the worlds only such an ending leads to.
Onward ==
    [death_certificate |-> "undelivered_receipt", undelivered_receipt |-> "receipt_archive",
     fog_station |-> "fog_patrol"]

Image(version, ending, player) == [version |-> version, ending |-> ending, player |-> player]

Visit(r, ordinal, s) ==
    [table |-> "visit", run |-> r, ordinal |-> ordinal, session |-> s, joined |-> ordinal + 2]

\* A world as it was left, or as the journey found it.
Root(r, basis, s, image) ==
    [table |-> "root", run |-> r, basis |-> basis, session |-> s, image |-> image]

\* A region entered on top of a world that was left.
Entry(r, s, base, baseImage, image) ==
    [table |-> "entry", run |-> r, session |-> s, base |-> base, baseImage |-> baseImage,
     image |-> image]

\* What a receipt of version n records: the sessions it sealed, and where it led.
Evidence(r, n, sealed, to) ==
    [table |-> "evidence", run |-> r, version |-> n, sealed |-> sealed, to |-> to]

Event(s, n) == [table |-> "event", session |-> s, seq |-> n]

WorldTables == {"root", "visit", "entry"}
WorldRows(S, r) == {row \in S : row.table \in WorldTables /\ row.run = r}
Of(S, t, r) == {row \in Table(S, t) : row.run = r}

JoinedAt(S, r, n) == (CHOOSE row \in Participations(S, r) : row.version = n).session
Current(S, r) == JoinedAt(S, r, Max({row.version : row \in Participations(S, r)}))
SessionRow(S, s) == CHOOSE row \in Table(S, "session") : row.session = s
World(S, s) == SessionRow(S, s).body
AdmittedWorld(S, r) == (CHOOSE row \in Of(S, "admission", r) : TRUE).world
EvidenceAt(S, r, n) == CHOOSE row \in Of(S, "evidence", r) : row.version = n

Sealed(s, image) == [session |-> s, image |-> image]
SealedNow(D, s) == Sealed(s, D.snap[s])

-----------------------------------------------------------------------------
(* What each operation writes                                              *)

\* The identity of an operation on a run; the creation request of the session it
\* opens is derived from it.
StepOp(q) == [family |-> q.op, who |-> q.who, key |-> q.key, offer |-> q.run]

\* A new session: its row, its first event and its unplayed snapshot.
Opened(s, op, world, player) ==
    [rows |-> {Session(s, op, world), Event(s, 1)}, image |-> Image(0, "open", player)]

NextRun(m, status, kind) ==
    {RunRow(m.run, m.version + 1, status, kind, m.op, m.char, m.rev)}

\* The revision, its receipt and the participation of the session it opens.
JoinRows(m, kind, q, s) ==
    NextRun(m, "ACTIVE", kind)
    \cup {RunReceipt(m.run, m.version + 1, kind, StepOp(q), s),
          Participation(s, m.run, m.version + 1)}

ContinueRows(D, q, s) ==
    LET m == Run(D.rows, q.run)
        left == Current(D.rows, q.run)
        found == Opened(s, StepOp(q), Onward["death_certificate"], D.snap[left].player)
    IN
    JoinRows(m, "CONTINUE", q, s) \cup found.rows
    \cup {Root(q.run, "sealed", left, D.snap[left]), Root(q.run, "found", s, found.image),
          Visit(q.run, 1, left), Visit(q.run, 2, s),
          Evidence(q.run, 4, {SealedNow(D, left)}, s)}

\* The patrol is a second region of the fog's world, so it is an entry.
FogRows(D, q, s) ==
    LET m == Run(D.rows, q.run)
        left == Current(D.rows, q.run)
        found == Opened(s, StepOp(q), Onward["fog_station"], D.snap[left].player)
    IN
    JoinRows(m, "CONTINUE", q, s) \cup found.rows
    \cup {Root(q.run, "sealed", left, D.snap[left]),
          Entry(q.run, s, left, D.snap[left], found.image),
          Visit(q.run, 1, left), Visit(q.run, 2, s),
          Evidence(q.run, 4, {SealedNow(D, left)}, s)}

RevisitRows(D, q, s) ==
    LET m == Run(D.rows, q.run)
        left == Current(D.rows, q.run)
        found == Opened(s, StepOp(q), Onward["undelivered_receipt"], D.snap[left].player)
    IN
    JoinRows(m, "REVISIT", q, s) \cup found.rows
    \cup {Entry(q.run, s, left, D.snap[left], found.image), Visit(q.run, 3, s),
          Evidence(q.run, 5, {SealedNow(D, left)}, s)}

\* The binding turns historical with the run.
EndRows(D, q, status, kind, sealed) ==
    LET m == Run(D.rows, q.run) IN
    NextRun(m, status, kind)
    \cup {RunReceipt(q.run, m.version + 1, kind, StepOp(q), q.run),
          Evidence(q.run, m.version + 1, sealed, None)}

LeaveRows(D, q) == EndRows(D, q, "TERMINATED", "EXIT", {SealedNow(D, Current(D.rows, q.run))})

CompleteRows(D, q) ==
    EndRows(D, q, "COMPLETED", "COMPLETE",
            {SealedNow(D, row.session) : row \in Participations(D.rows, q.run)})

PositionAt(s, version) == [session |-> s, version |-> version]

-----------------------------------------------------------------------------
(* Reading a family back                                                   *)

\* The revision an entry referred to is a living one, and still the character's.
BoundCharacter(D, r) ==
    LET m == Run(D.rows, r) IN
    /\ m.char # None
    /\ \E row \in Revisions(D.rows, m.char) :
          /\ row.rev = m.rev /\ row.life = "ACTIVE"
          /\ Character(D.rows, m.char).rev >= row.rev
          /\ Character(D.rows, m.char).who = row.who
          /\ Binding(row.who) \in D.rows

\* A session and what its creation left: the request that made it, its content,
\* its first event, and a snapshot of the version the session is at.
OpenedSession(D, s, op, world) ==
    /\ s \in DOMAIN D.sess
    /\ \E row \in Table(D.rows, "session") : row.session = s /\ row.op = op /\ row.body = world
    /\ Event(s, 1) \in D.rows
    /\ D.snap[s].version = D.sess[s]

\* Nothing was played yet, so it is as it was opened.
UnplayedIs(D, s, image) == D.sess[s] = 0 => D.snap[s] = image

ActiveJobs(D, s) ==
    {j \in D.jobs : j.session = s /\ j.status \in {"PREPARED", "IN_PROGRESS", "PROPOSAL_VALIDATED"}}
IdleSession(D, s) == ActiveJobs(D, s) = {}

\* A session that was left is what was sealed, and has no job to move it.
SourceStands(D, s, sealed) ==
    /\ IdleSession(D, s)
    /\ D.sess[s] = D.snap[s].version
    /\ Sealed(s, D.snap[s]) \in sealed
    /\ D.snap[s].ending = "onward"

NativeKinds ==
    {<<4, "EXIT">>, <<4, "CONTINUE">>, <<5, "EXIT">>, <<5, "REVISIT">>, <<6, "EXIT">>,
     <<6, "COMPLETE">>}

\* The first three revisions are an admission's, whatever came after.
AdmissionPrefix(D, r) ==
    LET history == RunRevisions(D.rows, r)
        m == Run(D.rows, r)
        at(n) == CHOOSE row \in history : row.version = n
        made == Of(D.rows, "run_creation", r)
    IN
    /\ m.version >= 3
    /\ m.version > 3 => <<m.version, m.kind>> \in NativeKinds
    /\ {row.version : row \in history} = 1..m.version
    /\ <<at(1).kind, at(2).kind, at(3).kind>> = <<"CREATE", "BIND", "ATTACH">>
    /\ \A n \in 1..3 : at(n).op = m.op
    /\ \E receipt \in made : /\ made = {receipt} /\ receipt.op = m.op
                             /\ receipt.char = m.char /\ receipt.rev = m.rev
                             /\ receipt.world = AdmittedWorld(D.rows, r)

AdmissionStands(D, r) ==
    /\ Of(D.rows, "admission", r) # {}
    /\ BoundCharacter(D, r)
    /\ AdmissionPrefix(D, r)
    /\ LET s == JoinedAt(D.rows, r, 3) IN
       /\ OpenedSession(D, s, Run(D.rows, r).op, AdmittedWorld(D.rows, r))
       /\ UnplayedIs(D, s, Image(0, "open", 0))

Counts(D, r, roots, visits, entries) ==
    /\ Cardinality(Of(D.rows, "root", r)) = roots
    /\ Cardinality(Of(D.rows, "visit", r)) = visits
    /\ Cardinality(Of(D.rows, "entry", r)) = entries
    /\ r \in DOMAIN D.position

\* Each visit is of the session that joined when it says.
VisitsFollow(D, r, n) ==
    \A ordinal \in 1..n : Visit(r, ordinal, JoinedAt(D.rows, r, ordinal + 2)) \in D.rows

ContinuedStands(D, r) ==
    LET left == JoinedAt(D.rows, r, 3)
        s == JoinedAt(D.rows, r, 4)
        e == EvidenceAt(D.rows, r, 4)
        opened == Image(0, "open", D.snap[left].player)
    IN
    /\ AdmittedWorld(D.rows, r) = "death_certificate"
    /\ VisitsFollow(D, r, 2)
    /\ SourceStands(D, left, e.sealed) /\ e.to = s
    /\ Root(r, "sealed", left, D.snap[left]) \in D.rows
    /\ Root(r, "found", s, opened) \in D.rows
    /\ OpenedSession(D, s, SessionRow(D.rows, s).op, "undelivered_receipt")
    /\ UnplayedIs(D, s, opened)

FogStands(D, r) ==
    LET left == JoinedAt(D.rows, r, 3)
        s == JoinedAt(D.rows, r, 4)
        e == EvidenceAt(D.rows, r, 4)
        opened == Image(0, "open", D.snap[left].player)
    IN
    /\ AdmittedWorld(D.rows, r) = "fog_station"
    /\ VisitsFollow(D, r, 2)
    /\ SourceStands(D, left, e.sealed) /\ e.to = s
    /\ Root(r, "sealed", left, D.snap[left]) \in D.rows
    /\ Entry(r, s, left, D.snap[left], opened) \in D.rows
    /\ OpenedSession(D, s, SessionRow(D.rows, s).op, "fog_patrol")
    /\ UnplayedIs(D, s, opened)
    /\ D.sess[s] <= 3 /\ D.snap[s].player = opened.player

\* On top of the continued family, whose position is derived from its evidence.
RegionalStands(D, r) ==
    LET left == JoinedAt(D.rows, r, 4)
        s == JoinedAt(D.rows, r, 5)
        e == EvidenceAt(D.rows, r, 5)
        opened == Image(0, "open", D.snap[left].player)
    IN
    /\ ContinuedStands(D, r)
    /\ VisitsFollow(D, r, 3)
    /\ SourceStands(D, left, e.sealed) /\ e.to = s
    /\ Entry(r, s, left, D.snap[left], opened) \in D.rows
    /\ OpenedSession(D, s, SessionRow(D.rows, s).op, "receipt_archive")
    /\ UnplayedIs(D, s, opened)
    /\ D.snap[s].ending = "open" \/ IdleSession(D, s)

\* The ending a run was left with is the one its last session still shows.
EndingStands(D, r) ==
    LET s == Current(D.rows, r) IN
    /\ EvidenceAt(D.rows, r, Run(D.rows, r).version).sealed = {SealedNow(D, s)}
    /\ D.sess[s] = D.snap[s].version
    /\ D.snap[s].ending # "open"

\* Completion recomputes its evidence from all three sessions.
CompletionStands(D, r) ==
    LET s == Current(D.rows, r) IN
    /\ EvidenceAt(D.rows, r, 6).sealed = {SealedNow(D, row.session) : row \in Participations(D.rows, r)}
    /\ D.snap[s].ending = "onward"

PositionIs(D, r, n) == D.position[r] = PositionAt(JoinedAt(D.rows, r, n), n)

\* What reading the rows of a run gives; nothing reads a family that is broken.
Classify(D, r) ==
    LET m == Run(D.rows, r)
        visits == Cardinality(Participations(D.rows, r))
        fog == AdmittedWorld(D.rows, r) = "fog_station"
        over == m.status \notin ActiveLine
    IN
    IF ~AdmissionStands(D, r) THEN "broken"
    ELSE IF visits = 1
    THEN IF WorldRows(D.rows, r) # {} \/ r \in DOMAIN D.position THEN "broken"
         ELSE IF ~over THEN "admission"
         ELSE IF EndingStands(D, r) THEN "terminated" ELSE "broken"
    ELSE IF visits = 2 /\ fog
    THEN IF ~(Counts(D, r, 1, 2, 1) /\ FogStands(D, r) /\ PositionIs(D, r, 4)) THEN "broken"
         ELSE IF ~over THEN "fog"
         ELSE IF EndingStands(D, r) /\ D.sess[Current(D.rows, r)] = 3 THEN "fog terminated"
         ELSE "broken"
    ELSE IF visits = 2
    THEN IF ~(Counts(D, r, 2, 2, 0) /\ ContinuedStands(D, r) /\ PositionIs(D, r, 4)) THEN "broken"
         ELSE IF ~over THEN "continued"
         ELSE IF EndingStands(D, r) THEN "continued terminated" ELSE "broken"
    ELSE IF ~(Counts(D, r, 2, 3, 1) /\ RegionalStands(D, r) /\ PositionIs(D, r, 5)) THEN "broken"
    ELSE IF ~over THEN "revisited"
    ELSE IF m.status = "COMPLETED" /\ CompletionStands(D, r) THEN "completed"
    ELSE IF m.status = "TERMINATED" /\ EndingStands(D, r) THEN "revisited terminated"
    ELSE "broken"

NativeRuns(D) == {row.run : row \in Table(D.rows, "admission")}
=============================================================================
