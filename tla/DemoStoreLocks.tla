--------------------------- MODULE DemoStoreLocks ---------------------------
(***************************************************************************)
(* Under its locks no unit of work is overtaken (demo_persistence.py).     *)
(* One invariant says that what is staged under a session's lock is still  *)
(* of the session, the responses and the jobs it read; a second one names  *)
(* for every key of a row who may write it - the holder of a lock, the     *)
(* maker of a new name, a request or an opening - so that rows collide     *)
(* only between creations under one request or openings.                   *)
(***************************************************************************)
EXTENDS DemoStoreProofs

-----------------------------------------------------------------------------
(* Who changes a session                                                    *)

\* The operations on a job that lock nothing.
Workers == {"claim", "propose", "expire"}

\* A request has a kept response.
Answered(S, s, k) == \E row \in Table(S, "turn") : row.session = s /\ row.key = k

\* A job is underway as long as its request has no response.
JobsAwait(D) == \A j \in D.jobs : j.status \in Underway => ~Answered(D.rows, j.session, j.key)

\* The responses staged are the first to their requests, and each commits the job of its request.
Answers(D, st, held) ==
    \A row \in Table(st.rows, "turn") :
        /\ SessionLock(row.session) \in held
        /\ ~Answered(D.rows, row.session, row.key)
        /\ \A j \in D.jobs :
              j.session = row.session /\ j.key = row.key /\ j.status \in Underway =>
                  \E change \in st.jobs : change.old = j /\ change.new.status = "COMMITTED"

\* A job nobody has asked for yet, and nobody answers at once.
Adds(D, st, change) ==
    /\ change.old = NoJob /\ Table(st.rows, "turn") = {}
    /\ ~Answered(D.rows, change.new.session, change.new.key)
    /\ \A j \in D.jobs : j.session = change.new.session => j.key # change.new.key

\* A job that is finished.
Commits(D, change) ==
    /\ Replaces(change) /\ change.old \in D.jobs
    /\ change.old.status = "PROPOSAL_VALIDATED" /\ change.new.status = "COMMITTED"

Changes(D, st, held) ==
    \A change \in st.jobs :
        /\ SessionLock(change.new.session) \in held /\ change.new.session \in DOMAIN D.sess
        /\ Adds(D, st, change) \/ Commits(D, change)

\* What a worker does to a job before it is finished.
WorksOn(st) ==
    \A change \in st.jobs : Moves(change) /\ change.old.status \in {"PREPARED", "IN_PROGRESS"}

SessionKept(D, st, held, op) ==
    /\ UpdateFits(D, st) /\ ProgressFits(D, st) /\ Answers(D, st, held)
    /\ IF op \in Workers THEN WorksOn(st) ELSE Changes(D, st, held)

CodeFits(u) ==
    /\ u.code \notin {"STALE", "TURN_EXISTS"}
    /\ u.code = "FENCED" => u.q.op \in Workers

SessionInvariant ==
    /\ StoreInvariant
    /\ JobsAwait(store)
    /\ \A t \in Tasks :
          /\ task[t].pc = "staged" =>
                SessionKept(store, task[t].staged, task[t].held, task[t].q.op)
          /\ CodeFits(task[t])

\* What plays a turn holds the lock of the session it saves.
LEMMA SavedHeld ==
  ASSUME NEW D, NEW st, NEW held, UnitFits(D, st, held)
  PROVE  /\ \A s \in DOMAIN st.saved :
              s \in DOMAIN D.sess /\ SessionLock(s) \in held /\ st.saved[s].version \in Nat
         /\ DOMAIN st.progress \subseteq DOMAIN st.saved
  <1>1. CASE JobsStaged(D, st, held)
    BY <1>1 DEF JobsStaged
  <1>2. ASSUME NEW s \in DOMAIN st.saved, Plays(D, st, s, held)
        PROVE  /\ DOMAIN st.saved = {s} /\ s \in DOMAIN D.sess /\ SessionLock(s) \in held
               /\ st.saved[s].version \in Nat /\ DOMAIN st.progress \subseteq {s}
    BY <1>2 DEF Plays
  <1> QED BY <1>1, <1>2 DEF UnitFits

\* A job that is replaced is not the absent one.
LEMMA NotAbsent ==
  ASSUME NEW change, Replaces(change)
  PROVE  change.old # NoJob
  BY DEF Replaces, Underway, NoJob

\* The responses staged are of requests without one.
LEMMA TurnsNotTaken ==
  ASSUME NEW D, NEW st, NEW held, Answers(D, st, held)
  PROVE  ~Taken(D, Table(st.rows, "turn"))
  <1> SUFFICES ASSUME NEW a \in Table(st.rows, "turn"), NEW b \in D.rows,
                      NEW key \in StoreKeys(a), key \in StoreKeys(b)
               PROVE  FALSE
    BY DEF Taken, KeysOf
  <1>1. a.table = "turn"
    BY DEF Table
  <1>2. StoreKeys(a) = {<<"turn", a.session, a.key>>}
    BY ONLY <1>1, RowKeys
  <1>3. KeyTable(key[1]) = a.table /\ KeyTable(key[1]) = b.table
    BY KeysTellTables
  <1>4. b.table = "turn"
    BY <1>1, <1>3
  <1>5. StoreKeys(b) = {<<"turn", b.session, b.key>>}
    BY ONLY <1>4, RowKeys
  <1>6. b \in Table(D.rows, "turn") /\ b.session = a.session /\ b.key = a.key
    BY <1>2, <1>4, <1>5 DEF Table
  <1>7. Answered(D.rows, a.session, a.key)
    BY <1>6 DEF Answered
  <1> QED BY <1>7 DEF Answers

\* Where no session is opened twice, no event number is either.
LEMMA EventsNotTaken ==
  ASSUME NEW D, NEW st, NEW held, StoreWhole(D), UnitFits(D, st, held), UpdateFits(D, st),
         ~Taken(D, Table(st.rows, "session"))
  PROVE  ~Taken(D, Table(st.rows, "event"))
  <1> SUFFICES ASSUME NEW a \in Table(st.rows, "event"), NEW b \in D.rows,
                      NEW key \in StoreKeys(a), key \in StoreKeys(b)
               PROVE  FALSE
    BY DEF Taken, KeysOf
  <1>1. a.table = "event"
    BY DEF Table
  <1>2. StoreKeys(a) = {<<"event", a.session, a.seq>>}
    BY ONLY <1>1, RowKeys
  <1>3. KeyTable(key[1]) = a.table /\ KeyTable(key[1]) = b.table
    BY KeysTellTables
  <1>4. b.table = "event"
    BY <1>1, <1>3
  <1>5. StoreKeys(b) = {<<"event", b.session, b.seq>>}
    BY ONLY <1>4, RowKeys
  <1>6. b \in Table(D.rows, "event") /\ b.session = a.session /\ b.seq = a.seq
    BY <1>2, <1>4, <1>5 DEF Table
  <1>7. RowsFit(D, st) /\ EventsFit(st)
    BY DEF UnitFits
  <1>8. CASE a.session \in DOMAIN st.opened /\ a.seq = 1
    <2>1. a.session \in Opens(st.rows)
      BY <1>7, <1>8 DEF RowsFit
    <2>2. PICK p \in Table(st.rows, "session") : p.session = a.session
      BY <2>1 DEF Opens
    <2>3. HangsIn(D.rows, D.rows)
      BY DEF StoreWhole, RowsWhole
    <2>4. PICK o \in Table(D.rows, "session") : o.session = b.session
      BY <1>4, <2>3 DEF HangsIn
    <2>5. p.table = "session" /\ o.table = "session" /\ o \in D.rows
      BY DEF Table
    <2>6. <<"session", p.session>> \in StoreKeys(p) /\ <<"session", o.session>> \in StoreKeys(o)
      BY ONLY <2>5, OwnKeys
    <2>7. <<"session", p.session>> \in KeysOf(Table(st.rows, "session")) /\ <<"session", o.session>> \in KeysOf(D.rows)
      BY <2>5, <2>6 DEF KeysOf
    <2> QED BY <1>6, <2>2, <2>4, <2>7 DEF Taken
  <1>9. CASE a.session \in DOMAIN st.saved /\ a.seq = st.saved[a.session].version + 1
    <2>1. PICK s : s = a.session
      OBVIOUS
    <2>2. s \in DOMAIN D.sess /\ st.saved[s].version \in Nat
      BY <1>9, <2>1, SavedHeld
    <2>3. D.sess[s] = st.saved[s].version - 1
      BY <1>9, <2>1 DEF UpdateFits
    <2>4. SessionOk(D, s)
      BY <2>2 DEF StoreWhole, MapsWhole
    <2>5. D.sess[s] \in Nat /\ {row.seq : row \in EventsOf(D.rows, s)} = 1..D.sess[s] + 1
      BY <2>4 DEF SessionOk
    <2>6. b \in EventsOf(D.rows, s)
      BY <1>6, <2>1 DEF EventsOf
    <2>7. b.seq \in 1..D.sess[s] + 1
      BY <2>5, <2>6
    <2>8. b.seq = st.saved[s].version + 1
      BY <1>6, <1>9, <2>1
    <2> QED BY ONLY <2>2, <2>3, <2>5, <2>7, <2>8
  <1> QED BY <1>7, <1>8, <1>9 DEF EventsFit

\* What holds a session's lock meets nothing at publication that has happened to the session since.
LEMMA SessionsUnopposed ==
  ASSUME NEW D, NEW st, NEW held, NEW op, StoreWhole(D), UnitFits(D, st, held),
         SessionKept(D, st, held, op)
  PROVE  /\ Objection(D, st) \notin {"STALE", "TURN_EXISTS"}
         /\ Objection(D, st) = "FENCED" => op \in Workers
  <1>1. UpdateFits(D, st) /\ ProgressFits(D, st) /\ Answers(D, st, held)
    BY DEF SessionKept
  <1>2. ~Taken(D, Table(st.rows, "turn"))
    BY <1>1, TurnsNotTaken
  <1>3. ~Taken(D, Table(st.rows, "session")) => ~Taken(D, Table(st.rows, "event"))
    BY <1>1, EventsNotTaken
  <1>5. AddsFit(D, st)
    <2>1. CASE op \in Workers
      <3>1. \A change \in st.jobs : Replaces(change)
        BY <2>1 DEF SessionKept, WorksOn, Moves
      <3> QED BY <3>1, NotAbsent DEF AddsFit
    <2>2. CASE op \notin Workers
      <3>1. Changes(D, st, held)
        BY <2>2 DEF SessionKept
      <3>2. \A change \in st.jobs : Adds(D, st, change) \/ Commits(D, change)
        BY <3>1 DEF Changes
      <3> QED BY <3>2, NotAbsent DEF Adds, Commits, AddsFit
    <2> QED BY <2>1, <2>2
  <1>4. ASSUME op \notin Workers PROVE JobsFit(D, st)
    <2>1. Changes(D, st, held)
      BY <1>4 DEF SessionKept
    <2>2. ASSUME NEW change \in st.jobs
          PROVE  /\ change.new.session \in DOMAIN D.sess
                 /\ IF change.old = NoJob
                    THEN \A j \in D.jobs : j.session = change.new.session => j.key # change.new.key
                    ELSE change.old \in D.jobs
      <3>1. change.new.session \in DOMAIN D.sess
        BY <2>1 DEF Changes
      <3>2. Adds(D, st, change) \/ Commits(D, change)
        BY <2>1 DEF Changes
      <3>3. CASE Adds(D, st, change)
        BY <3>1, <3>3 DEF Adds
      <3>4. CASE Commits(D, change)
        BY <3>1, <3>4, NotAbsent DEF Commits
      <3> QED BY <3>2, <3>3, <3>4
    <2> QED BY <2>2 DEF JobsFit, AddsFit
  <1> QED BY <1>1, <1>2, <1>3, <1>4, <1>5 DEF Objection

\* A publication under another session's lock leaves a session's responses as they are.
LEMMA StaysUnanswered ==
  ASSUME NEW D, NEW st, NEW held, Answers(D, st, held), NEW s, SessionLock(s) \notin held,
         NEW k, ~Answered(D.rows, s, k)
  PROVE  ~Answered(D.rows \cup st.rows, s, k)
  BY DEF Answers, Answered, Table

\* A job after a publication was there before it, or is what a change made of one.
LEMMA JobsAfter ==
  ASSUME NEW D, NEW st, NEW E, E = Merge(D, st), NEW j \in E.jobs
  PROVE  \/ j \in D.jobs /\ \A change \in st.jobs : change.old # j
         \/ \E change \in st.jobs : j = change.new
  <1>1. E.jobs = (D.jobs \ {change.old : change \in st.jobs}) \cup {change.new : change \in st.jobs}
    BY Merged
  <1> QED BY <1>1

\* Jobs go on waiting for their responses.
LEMMA AwaitStays ==
  ASSUME NEW D, NEW st, NEW held, NEW op, JobsAwait(D), SessionKept(D, st, held, op),
         JobsFit(D, st), NEW E, E = Merge(D, st)
  PROVE  JobsAwait(E)
  <1>1. E.rows = D.rows \cup st.rows
    BY Merged
  <1>2. Answers(D, st, held)
    BY DEF SessionKept
  <1>3. ASSUME NEW j \in E.jobs, j.status \in Underway, NEW row \in Table(st.rows, "turn"),
               row.session = j.session, row.key = j.key
        PROVE  FALSE
    <2>1. CASE j \in D.jobs /\ \A change \in st.jobs : change.old # j
      BY <1>2, <1>3, <2>1 DEF Answers
    <2>2. ASSUME NEW change \in st.jobs, j = change.new PROVE FALSE
      <3>1. CASE op \in Workers
        <4>1. \A c \in st.jobs : Moves(c)
          BY <3>1 DEF SessionKept, WorksOn
        <4>2. Replaces(change)
          BY <4>1 DEF Moves
        <4>3. change.old \in D.jobs
          BY <4>2, OldJobs
        <4>4. change.old.status \in Underway /\ change.old.session = j.session /\ change.old.key = j.key
          BY <2>2, <4>2 DEF Replaces
        <4>5. PICK c \in st.jobs : c.old = change.old /\ c.new.status = "COMMITTED"
          BY <1>2, <1>3, <4>3, <4>4 DEF Answers
        <4> QED BY <4>1, <4>5 DEF Moves
      <3>2. CASE op \notin Workers
        <4>1. Adds(D, st, change) \/ Commits(D, change)
          BY <3>2 DEF SessionKept, Changes
        <4>2. CASE Adds(D, st, change)
          BY <1>3, <4>2 DEF Adds
        <4>3. CASE Commits(D, change)
          BY <1>3, <2>2, <4>3 DEF Commits, Underway
        <4> QED BY <4>1, <4>2, <4>3
      <3> QED BY <3>1, <3>2
    <2> QED BY <2>1, <2>2, JobsAfter
  <1>4. ASSUME NEW j \in E.jobs, j.status \in Underway PROVE ~Answered(D.rows, j.session, j.key)
    <2>1. CASE j \in D.jobs
      BY <1>4, <2>1 DEF JobsAwait
    <2>2. ASSUME NEW change \in st.jobs, j = change.new PROVE ~Answered(D.rows, j.session, j.key)
      <3>1. CASE op \in Workers
        <4>1. Replaces(change)
          BY <3>1 DEF SessionKept, WorksOn, Moves
        <4>2. change.old \in D.jobs
          BY <4>1, OldJobs
        <4>3. change.old.status \in Underway /\ change.old.session = j.session /\ change.old.key = j.key
          BY <2>2, <4>1 DEF Replaces
        <4> QED BY <4>2, <4>3 DEF JobsAwait
      <3>2. CASE op \notin Workers
        <4>1. Adds(D, st, change) \/ Commits(D, change)
          BY <3>2 DEF SessionKept, Changes
        <4>2. CASE Adds(D, st, change)
          BY <2>2, <4>2 DEF Adds
        <4>3. CASE Commits(D, change)
          BY <1>4, <2>2, <4>3 DEF Commits, Underway
        <4> QED BY <4>1, <4>2, <4>3
      <3> QED BY <3>1, <3>2
    <2> QED BY <2>1, <2>2, JobsAfter
  <1>5. ASSUME NEW j \in E.jobs, j.status \in Underway PROVE ~Answered(E.rows, j.session, j.key)
    BY <1>1, <1>3, <1>4, <1>5 DEF Answered, Table
  <1> QED BY <1>5 DEF JobsAwait

\* A job that another publication made or left is neither new to what is staged nor gone from it.
LEMMA ChangesApart ==
  ASSUME NEW D, NEW st, NEW held, NEW op, SessionKept(D, st, held, op), JobsFit(D, st),
         NEW c \in st.jobs, NEW s, SessionLock(s) \notin held
  PROVE  \/ c.new.session # s
         \/ /\ Replaces(c) /\ c.old \in D.jobs /\ c.old.session = s /\ c.old.key = c.new.key
            /\ c.old.status \in {"PREPARED", "IN_PROGRESS"}
  <1>1. CASE op \in Workers
    <2>1. Moves(c) /\ c.old.status \in {"PREPARED", "IN_PROGRESS"}
      BY <1>1 DEF SessionKept, WorksOn
    <2>2. Replaces(c) /\ c.old \in D.jobs
      BY <2>1, OldJobs DEF Moves
    <2> QED BY <2>1, <2>2 DEF Replaces
  <1>2. CASE op \notin Workers
    BY <1>2 DEF SessionKept, Changes
  <1> QED BY <1>1, <1>2

\* A finished job is changed by nobody else.
LEMMA FinishedAlone ==
  ASSUME NEW D, NEW other, NEW theirs, NEW oop, SessionKept(D, other, theirs, oop),
         NEW change \in other.jobs, change.new.status = "COMMITTED", change.old # NoJob
  PROVE  change.old.status = "PROPOSAL_VALIDATED"
  <1>1. CASE oop \in Workers
    BY <1>1 DEF SessionKept, WorksOn, Moves
  <1>2. CASE oop \notin Workers
    <2>1. Adds(D, other, change) \/ Commits(D, change)
      BY <1>2 DEF SessionKept, Changes
    <2> QED BY <2>1 DEF Adds, Commits
  <1> QED BY <1>1, <1>2

\* What others hold the locks of is what it was for them.
LEMMA SessionStays ==
  ASSUME NEW D, NEW st, NEW held, NEW op, StoreWhole(D), UnitFits(D, st, held),
         Objection(D, st) = "none", SessionKept(D, st, held, op),
         NEW other, NEW theirs, NEW oop, UnitFits(D, other, theirs),
         SessionKept(D, other, theirs, oop), held \cap theirs = {},
         NEW E, E = Merge(D, st)
  PROVE  SessionKept(E, other, theirs, oop)
  <1>1. /\ UpdateFits(D, st) /\ JobsFit(D, st) /\ ~Taken(D, st.rows)
    BY Unopposed
  <1>2. /\ RowsWhole(D) /\ MapsWhole(D) /\ RowsFit(D, st) /\ DOMAIN D.progress = DOMAIN D.sess
    BY DEF StoreWhole, MapsWhole, UnitFits
  <1>3. /\ E.rows = D.rows \cup st.rows
        /\ E.jobs = (D.jobs \ {change.old : change \in st.jobs}) \cup {change.new : change \in st.jobs}
        /\ \A s \in DOMAIN D.progress \ (DOMAIN st.progress \cup DOMAIN st.opened) :
               E.progress[s] = D.progress[s]
    BY Merged
  <1>4. ASSUME NEW s \in DOMAIN D.sess, SessionLock(s) \in theirs
        PROVE  /\ s \in DOMAIN E.sess /\ E.sess[s] = D.sess[s] /\ E.snap[s] = D.snap[s]
               /\ E.progress[s] = D.progress[s]
    <2>1. SessionLock(s) \notin held
      BY <1>4
    <2>2. s \in DOMAIN E.sess /\ E.sess[s] = D.sess[s] /\ E.snap[s] = D.snap[s]
      BY <2>1, LockedSession
    <2>3. s \notin DOMAIN st.progress
      BY <2>1, SavedHeld
    <2>4. s \notin DOMAIN st.opened
      BY <1>1, <1>2, NewRows
    <2> QED BY <1>2, <1>3, <2>2, <2>3, <2>4
  <1>5. /\ \A s \in DOMAIN other.saved : s \in DOMAIN D.sess /\ SessionLock(s) \in theirs
        /\ DOMAIN other.progress \subseteq DOMAIN other.saved
    BY SavedHeld
  <1>6. /\ UpdateFits(D, other) /\ ProgressFits(D, other) /\ Answers(D, other, theirs)
    BY DEF SessionKept
  <1>7. UpdateFits(E, other)
    BY <1>4, <1>5, <1>6 DEF UpdateFits
  <1>8. ProgressFits(E, other)
    BY <1>4, <1>5, <1>6 DEF ProgressFits
  <1>9. Answers(D, st, held)
    BY DEF SessionKept
  <1>10. ASSUME NEW s, SessionLock(s) \in theirs, NEW k, ~Answered(D.rows, s, k)
         PROVE  ~Answered(E.rows, s, k)
    BY <1>3, <1>9, <1>10, StaysUnanswered
  <1>11. ASSUME NEW row \in Table(other.rows, "turn"), NEW j \in E.jobs,
                j.session = row.session, j.key = row.key, j.status \in Underway
         PROVE  \E change \in other.jobs : change.old = j /\ change.new.status = "COMMITTED"
    <2>1. SessionLock(row.session) \in theirs /\ SessionLock(row.session) \notin held
      BY <1>6 DEF Answers
    <2>2. CASE j \in D.jobs
      BY <1>6, <1>11, <2>2 DEF Answers
    <2>3. ASSUME NEW c \in st.jobs, j = c.new PROVE FALSE
      <3>1. /\ Replaces(c) /\ c.old \in D.jobs /\ c.old.session = row.session /\ c.old.key = c.new.key
            /\ c.old.status \in {"PREPARED", "IN_PROGRESS"}
        BY <1>1, <1>11, <2>1, <2>3, ChangesApart
      <3>2. c.old.status \in Underway
        BY <3>1 DEF Underway
      <3>3. PICK change \in other.jobs : change.old = c.old /\ change.new.status = "COMMITTED"
        BY <1>6, <1>11, <2>3, <3>1, <3>2 DEF Answers
      <3>4. change.old # NoJob
        BY <3>1, <3>3, NotAbsent
      <3>5. change.old.status = "PROPOSAL_VALIDATED"
        BY <3>3, <3>4, FinishedAlone
      <3> QED BY <3>1, <3>3, <3>5
    <2> QED BY <2>2, <2>3, JobsAfter
  <1>12. Answers(E, other, theirs)
    BY <1>6, <1>10, <1>11 DEF Answers
  <1>13. ASSUME oop \notin Workers PROVE Changes(E, other, theirs)
    <2>1. Changes(D, other, theirs)
      BY <1>13 DEF SessionKept
    <2>2. ASSUME NEW change \in other.jobs
          PROVE  /\ SessionLock(change.new.session) \in theirs /\ change.new.session \in DOMAIN E.sess
                 /\ Adds(E, other, change) \/ Commits(E, change)
      <3>1. /\ SessionLock(change.new.session) \in theirs /\ change.new.session \in DOMAIN D.sess
            /\ SessionLock(change.new.session) \notin held
        BY <2>1 DEF Changes
      <3>2. change.new.session \in DOMAIN E.sess
        BY <1>4, <3>1
      <3>3. CASE Adds(D, other, change)
        <4>1. ~Answered(E.rows, change.new.session, change.new.key)
          BY <1>10, <3>1, <3>3 DEF Adds
        <4>2. ASSUME NEW j \in E.jobs, j.session = change.new.session PROVE j.key # change.new.key
          <5>1. CASE j \in D.jobs
            BY <3>3, <4>2, <5>1 DEF Adds
          <5>2. ASSUME NEW c \in st.jobs, j = c.new PROVE j.key # change.new.key
            <6>1. c.old \in D.jobs /\ c.old.session = change.new.session /\ c.old.key = j.key
              BY <1>1, <3>1, <4>2, <5>2, ChangesApart
            <6> QED BY <3>3, <6>1 DEF Adds
          <5> QED BY <5>1, <5>2, JobsAfter
        <4>3. change.old = NoJob /\ Table(other.rows, "turn") = {}
          BY <3>3 DEF Adds
        <4> QED BY <3>1, <3>2, <4>1, <4>2, <4>3 DEF Adds
      <3>4. CASE Commits(D, change)
        <4>1. /\ Replaces(change) /\ change.old \in D.jobs
              /\ change.old.status = "PROPOSAL_VALIDATED" /\ change.new.status = "COMMITTED"
          BY <3>4 DEF Commits
        <4>2. ASSUME NEW c \in st.jobs, c.old = change.old PROVE FALSE
          <5>1. c.old # NoJob
            BY <4>1, <4>2, NotAbsent
          <5>2. CASE op \in Workers
            BY <4>1, <4>2, <5>2 DEF SessionKept, WorksOn
          <5>3. CASE op \notin Workers
            <6>1. SessionLock(c.new.session) \in held /\ (Adds(D, st, c) \/ Commits(D, c))
              BY <5>3 DEF SessionKept, Changes
            <6>2. Replaces(c)
              BY <5>1, <6>1 DEF Adds, Commits
            <6>3. c.new.session = change.new.session
              BY <4>1, <4>2, <6>2 DEF Replaces
            <6> QED BY <3>1, <6>1, <6>3
          <5> QED BY <5>2, <5>3
        <4>3. change.old \in E.jobs
          BY <1>3, <4>1, <4>2
        <4> QED BY <3>1, <3>2, <4>1, <4>3 DEF Commits
      <3> QED BY <2>1, <3>1, <3>2, <3>3, <3>4 DEF Changes
    <2> QED BY <2>2 DEF Changes
  <1>14. oop \in Workers => WorksOn(other)
    BY DEF SessionKept
  <1> QED BY <1>7, <1>8, <1>12, <1>13, <1>14 DEF SessionKept

\* What stages no response, no played session and no job touches nobody's session.
LEMMA PlainKept ==
  ASSUME NEW D, NEW st, NEW held, NEW op, DOMAIN st.saved = {}, DOMAIN st.progress = {},
         st.jobs = {}, \A row \in st.rows : row.table # "turn"
  PROVE  SessionKept(D, st, held, op)
  <1>1. Table(st.rows, "turn") = {}
    BY DEF Table
  <1> QED BY <1>1 DEF SessionKept, UpdateFits, ProgressFits, Answers, WorksOn, Changes

\* Nothing at all does not either.
LEMMA EmptyKept ==
  ASSUME NEW D, NEW held, NEW op
  PROVE  SessionKept(D, Empty, held, op)
  <1>1. PICK st : st = Empty
    OBVIOUS
  <1>2. /\ DOMAIN st.saved = {} /\ DOMAIN st.progress = {} /\ st.jobs = {}
        /\ \A row \in st.rows : row.table # "turn"
    BY <1>1 DEF Empty
  <1>3. SessionKept(D, st, held, op)
    BY ONLY <1>2, PlainKept
  <1> QED BY <1>1, <1>3

\* Nor do rows with the first events of the sessions they open.
LEMMA CarriedKept ==
  ASSUME NEW D, NEW rows, \A row \in rows : row.table # "turn", NEW image, NEW held, NEW op
  PROVE  SessionKept(D, Carried(rows, image), held, op)
  <1>1. PICK st : st = Carried(rows, image)
    OBVIOUS
  <1>2. st.rows = rows \cup Firsts(rows) /\ st.saved = <<>> /\ st.progress = <<>> /\ st.jobs = {}
    BY <1>1 DEF Carried, Empty, Firsts
  <1>3. \A row \in Firsts(rows) : row.table # "turn"
    BY DEF Firsts, Event
  <1>4. /\ DOMAIN st.saved = {} /\ DOMAIN st.progress = {} /\ st.jobs = {}
        /\ \A row \in st.rows : row.table # "turn"
    BY <1>2, <1>3
  <1>5. SessionKept(D, st, held, op)
    BY ONLY <1>4, PlainKept
  <1> QED BY <1>1, <1>5

\* The rows of characters, entries, openings and sessions are no responses.
LEMMA LedgerHasNoTurns ==
  ASSUME NEW S, NEW q, NEW x
  PROVE  /\ \A row \in Registering(S, q, CreateVerdict(S, q, x)).rows : row.table # "turn"
         /\ \A row \in MutateVerdict(S, S, q).rows : row.table # "turn"
         /\ \A row \in EnterVerdict(S, S, q, x, x).rows : row.table # "turn"
         /\ \A row \in PrepareVerdict(S, S, q, x).rows : row.table # "turn"
         /\ \A row \in ConfirmVerdict(S, S, q, x, x).rows : row.table # "turn"
         /\ \A row \in CreateSessionVerdict(S, q, x).rows : row.table # "turn"
  <1>1. \A code : Refuse(code).rows = {}
    BY DEF Refuse
  <1>2. \A result : Answer(result).rows = {}
    BY DEF Answer
  <1>3. \A result, rows : Apply(result, rows).rows = rows
    BY DEF Apply
  <1>4. \A op, e, r, s : \A row \in EntryRows(op, e, r, s) : row.table # "turn"
    BY DEF EntryRows, EntryCreation, EntryBinding, EntryActivation, RunRow, RunCreation, RunReceipt,
           Participation, Session, Admission
  <1>5. \A row \in Registering(S, q, CreateVerdict(S, q, x)).rows : row.table # "turn"
    <2>1. PICK v : v = CreateVerdict(S, q, x)
      OBVIOUS
    <2>2. v.rows = {} \/ v.rows = CreationRows(q, x)
      <3>1. \A receipt : CreateReuse(q, receipt).rows = {}
        BY <1>1, <1>2 DEF CreateReuse
      <3> QED BY <1>3, <2>1, <3>1 DEF CreateVerdict
    <2>3. "rows" \in DOMAIN v
      BY <2>1 DEF CreateVerdict, CreateReuse, Refuse, Answer, Apply
    <2>4. Registering(S, q, v).rows \subseteq v.rows \cup {Binding(q.who)}
      BY <2>3 DEF Registering
    <2>5. \A row \in CreationRows(q, x) \cup {Binding(q.who)} : row.table # "turn"
      BY DEF CreationRows, Revision, CreationReceipt, Binding
    <2> QED BY <2>1, <2>2, <2>4, <2>5
  <1>6. \A row \in MutateVerdict(S, S, q).rows : row.table # "turn"
    <2>1. \A m : \A row \in MutationRows(m, q) : row.table # "turn"
      BY DEF MutationRows, Revision, MutationReceipt
    <2>2. \A m, receipt : MutateReuse(m, q, receipt).rows = {}
      BY <1>1, <1>2 DEF MutateReuse
    <2>3. \/ MutateVerdict(S, S, q).rows = {}
          \/ MutateVerdict(S, S, q).rows = MutationRows(Character(S, q.char), q)
      BY <1>1, <1>3, <2>2 DEF MutateVerdict
    <2> QED BY <2>1, <2>3
  <1>7. \A row \in EnterVerdict(S, S, q, x, x).rows : row.table # "turn"
    <2>1. EnterVerdict(S, S, q, x, x).rows \in {{}, EntryRows(Op(q), q, x, x)}
      BY EnterVerdictRows
    <2> QED BY <1>4, <2>1
  <1>8. \A row \in PrepareVerdict(S, S, q, x).rows : row.table # "turn"
    <2>1. PICK n : PrepareVerdict(S, S, q, x).rows \in {{}, {OfferRow(x, q, n)}}
      BY OtherVerdictRows
    <2>2. OfferRow(x, q, n).table # "turn"
      BY DEF OfferRow
    <2> QED BY <2>1, <2>2
  <1>9. \A row \in ConfirmVerdict(S, S, q, x, x).rows : row.table # "turn"
    <2>1. PICK offer : offer = CHOOSE row \in Table(S, "offer") : row.offer = q.offer
      OBVIOUS
    <2>2. PICK conf : conf = [table |-> "confirmation", offer |-> q.offer, pick |-> q.pick, run |-> x]
      OBVIOUS
    <2>3. ConfirmVerdict(S, S, q, x, x).rows \in {{}, EntryRows(FrozenOp(offer), offer, x, x) \cup {conf}}
      BY <2>1, <2>2, ConfirmVerdictRows
    <2>4. conf.table # "turn"
      BY <2>2
    <2> QED BY <1>4, <2>3, <2>4
  <1>10. \A row \in CreateSessionVerdict(S, q, x).rows : row.table # "turn"
    <2>1. \A row : SessionReplay(q, row).rows = {}
      BY <1>1, <1>2 DEF SessionReplay
    <2>2. Session(x, Op(q), q.body).table # "turn"
      BY DEF Session
    <2> QED BY <1>3, <2>1, <2>2 DEF CreateSessionVerdict
  <1> QED BY <1>5, <1>6, <1>7, <1>8, <1>9, <1>10

\* What the services of the ledger stage leaves the sessions alone.
LEMMA LedgerKept ==
  ASSUME NEW D, NEW q, NEW t, NEW held, NEW op, q.op \in LedgerOperations
  PROVE  SessionKept(D, Verdict(D, q, t).staged, held, op)
  <1>1. PICK x : x = Fresh
    OBVIOUS
  <1>2. ASSUME NEW w, Verdict(D, q, t) = Lift(w), \A row \in w.rows : row.table # "turn"
        PROVE  SessionKept(D, Verdict(D, q, t).staged, held, op)
    <2>1. PICK rows : rows = w.rows
      OBVIOUS
    <2>2. Lift(w).staged = Carried(rows, Image(0, "open", 0))
      BY <2>1 DEF Lift
    <2>3. SessionKept(D, Carried(rows, Image(0, "open", 0)), held, op)
      BY <1>2, <2>1, CarriedKept
    <2> QED BY <1>2, <2>2, <2>3
  <1>3. CASE q.op = "create"
    <2>1. PICK w : w = Registering(D.rows, q, CreateVerdict(D.rows, q, x))
      OBVIOUS
    <2>2. Verdict(D, q, t) = Lift(w)
      BY <1>1, <1>3, <2>1 DEF Verdict
    <2>3. \A row \in w.rows : row.table # "turn"
      BY <2>1, LedgerHasNoTurns
    <2> QED BY <1>2, <2>2, <2>3
  <1>4. CASE q.op = "mutate"
    <2>1. PICK w : w = MutateVerdict(D.rows, D.rows, q)
      OBVIOUS
    <2>2. Verdict(D, q, t) = Lift(w)
      BY <1>4, <2>1 DEF Verdict
    <2>3. \A row \in w.rows : row.table # "turn"
      BY <2>1, LedgerHasNoTurns
    <2> QED BY <1>2, <2>2, <2>3
  <1>5. CASE q.op \in {"enter", "admit"}
    <2>1. PICK w : w = EnterVerdict(D.rows, D.rows, q, x, x)
      OBVIOUS
    <2>2. Verdict(D, q, t) = Lift(w)
      BY <1>1, <1>5, <2>1 DEF Verdict
    <2>3. \A row \in w.rows : row.table # "turn"
      BY <2>1, LedgerHasNoTurns
    <2> QED BY <1>2, <2>2, <2>3
  <1>6. CASE q.op = "prepare"
    <2>1. PICK w : w = PrepareVerdict(D.rows, D.rows, q, x)
      OBVIOUS
    <2>2. Verdict(D, q, t) = Lift(w)
      BY <1>1, <1>6, <2>1 DEF Verdict
    <2>3. \A row \in w.rows : row.table # "turn"
      BY <2>1, LedgerHasNoTurns
    <2> QED BY <1>2, <2>2, <2>3
  <1>7. CASE q.op = "confirm" /\ OfferFound(D.rows, q)
    <2>1. PICK w : w = ConfirmVerdict(D.rows, D.rows, q, x, x)
      OBVIOUS
    <2>2. Verdict(D, q, t) = Lift(w)
      BY <1>1, <1>7, <2>1 DEF Verdict
    <2>3. \A row \in w.rows : row.table # "turn"
      BY <2>1, LedgerHasNoTurns
    <2> QED BY <1>2, <2>2, <2>3
  <1>8. CASE q.op = "confirm" /\ ~OfferFound(D.rows, q)
    <2>1. Verdict(D, q, t).staged = Empty
      BY <1>8, StagedRows DEF Verdict
    <2> QED BY <2>1, EmptyKept
  <1>9. CASE q.op = "create_session"
    <2>1. PICK w : w = CreateSessionVerdict(D.rows, q, x)
      OBVIOUS
    <2>2. Verdict(D, q, t) = Lift(w)
      BY <1>1, <1>9, <2>1 DEF Verdict
    <2>3. \A row \in w.rows : row.table # "turn"
      BY <2>1, LedgerHasNoTurns
    <2> QED BY <1>2, <2>2, <2>3
  <1> QED BY <1>3, <1>4, <1>5, <1>6, <1>7, <1>8, <1>9 DEF LedgerOperations

\* So does what the operations on a native run stage.
LEMMA StepKept ==
  ASSUME NEW D, NEW q, NEW s, q.op \in DOMAIN StepKind, NEW held, NEW op
  PROVE  SessionKept(D, StepStaged(D, q, s), held, op)
  <1>1. q.op \in {"exit", "continue", "revisit", "complete"}
    BY StepOperations
  <1>2. PICK st : st = StepStaged(D, q, s)
    OBVIOUS
  <1>3. CASE q.op \in {"exit", "complete"}
    <2>1. PICK R \in {LeaveRows(D, q), CompleteRows(D, q)} : st = [Empty EXCEPT !.rows = R]
      <3>1. CASE q.op = "exit"
        BY <1>2, <3>1 DEF StepStaged
      <3>2. CASE q.op = "complete"
        BY <1>2, <3>2 DEF StepStaged
      <3> QED BY <1>3, <3>1, <3>2
    <2>2. \A status, kind, sealed : \A row \in EndRows(D, q, status, kind, sealed) : row.table # "turn"
      BY DEF EndRows, NextRun, RunRow, RunReceipt, Evidence
    <2>3. \A row \in R : row.table # "turn"
      BY <2>1, <2>2 DEF LeaveRows, CompleteRows
    <2>4. st.rows = R /\ DOMAIN st.saved = {} /\ DOMAIN st.progress = {} /\ st.jobs = {}
      BY <2>1 DEF Empty
    <2>5. SessionKept(D, st, held, op)
      BY <2>3, <2>4, PlainKept
    <2> QED BY <1>2, <2>5
  <1>4. CASE q.op \in {"continue", "revisit"}
    <2> DEFINE left == Current(D.rows, q.run)
               at == Only(q.run, PositionAt(s, Run(D.rows, q.run).version + 1))
               opened == Image(0, "open", D.snap[left].player)
    <2>1. ASSUME NEW R, NEW found,
                 \/ st = [Carried(R, opened) EXCEPT !.moved = at]
                 \/ st = [Carried(R, opened) EXCEPT !.found = found, !.moved = at]
          PROVE  /\ st.rows = R \cup Firsts(R)
                 /\ st.saved = <<>> /\ st.progress = <<>> /\ st.jobs = {}
      <3> HIDE DEF at, opened
      <3>1. PICK e : e = Carried(R, opened)
        OBVIOUS
      <3>2. /\ e.rows = R \cup Firsts(R) /\ e.saved = <<>> /\ e.progress = <<>> /\ e.jobs = {}
            /\ DOMAIN e = {"rows", "opened", "saved", "found", "moved", "progress", "jobs"}
        BY <3>1 DEF Carried, Empty, Firsts
      <3>3. st = [e EXCEPT !.moved = at] \/ st = [e EXCEPT !.found = found, !.moved = at]
        BY <2>1, <3>1
      <3>4. st.rows = e.rows /\ st.saved = e.saved /\ st.progress = e.progress /\ st.jobs = e.jobs
        BY ONLY <3>2, <3>3
      <3> QED BY <3>2, <3>4
    <2>2. PICK R \in {ContinueRows(D, q, s), FogRows(D, q, s), RevisitRows(D, q, s)} :
             /\ st.rows = R \cup Firsts(R)
             /\ st.saved = <<>> /\ st.progress = <<>> /\ st.jobs = {}
      <3>1. CASE q.op = "continue" /\ World(D.rows, left) = "fog_station"
        <4>1. st = [Carried(FogRows(D, q, s), opened) EXCEPT !.moved = at]
          BY <1>2, <3>1 DEF StepStaged
        <4> HIDE DEF at, opened
        <4>2. /\ st.rows = FogRows(D, q, s) \cup Firsts(FogRows(D, q, s))
              /\ st.saved = <<>> /\ st.progress = <<>> /\ st.jobs = {}
          BY <2>1, <4>1
        <4> QED BY <4>2
      <3>2. CASE q.op = "continue" /\ World(D.rows, left) # "fog_station"
        <4>1. st = [Carried(ContinueRows(D, q, s), opened) EXCEPT !.moved = at]
          BY <1>2, <3>2 DEF StepStaged
        <4> HIDE DEF at, opened
        <4>2. /\ st.rows = ContinueRows(D, q, s) \cup Firsts(ContinueRows(D, q, s))
              /\ st.saved = <<>> /\ st.progress = <<>> /\ st.jobs = {}
          BY <2>1, <4>1
        <4> QED BY <4>2
      <3>3. CASE q.op = "revisit"
        <4>1. st = [Carried(RevisitRows(D, q, s), opened)
                     EXCEPT !.found = Only(q.run, D.position[q.run]), !.moved = at]
          BY <1>2, <3>3 DEF StepStaged
        <4> HIDE DEF at, opened
        <4>2. /\ st.rows = RevisitRows(D, q, s) \cup Firsts(RevisitRows(D, q, s))
              /\ st.saved = <<>> /\ st.progress = <<>> /\ st.jobs = {}
          BY <2>1, <4>1
        <4> QED BY <4>2
      <3> QED BY <1>4, <3>1, <3>2, <3>3
    <2>3. \A m, kind : \A row \in JoinRows(m, kind, q, s) : row.table # "turn"
      BY DEF JoinRows, NextRun, RunRow, RunReceipt, Participation
    <2>4. \A o, world, player : \A row \in Opened(s, o, world, player).rows : row.table # "turn"
      BY DEF Opened, Session, Event
    <2>5. \A row \in R : row.table # "turn"
      <3>1. \A r, basis, z, i : Root(r, basis, z, i).table # "turn"
        BY DEF Root
      <3>2. \A r, n, z : Visit(r, n, z).table # "turn"
        BY DEF Visit
      <3>3. \A r, z, base, b, i : Entry(r, z, base, b, i).table # "turn"
        BY DEF Entry
      <3>4. \A r, n, sealed, to : Evidence(r, n, sealed, to).table # "turn"
        BY DEF Evidence
      <3>5. \A row \in ContinueRows(D, q, s) : row.table # "turn"
        BY <2>3, <2>4, <3>1, <3>2, <3>4 DEF ContinueRows
      <3>6. \A row \in FogRows(D, q, s) : row.table # "turn"
        BY <2>3, <2>4, <3>1, <3>2, <3>3, <3>4 DEF FogRows
      <3>7. \A row \in RevisitRows(D, q, s) : row.table # "turn"
        BY <2>3, <2>4, <3>2, <3>3, <3>4 DEF RevisitRows
      <3> QED BY <2>2, <3>5, <3>6, <3>7
    <2>6. \A row \in Firsts(R) : row.table # "turn"
      BY DEF Firsts, Event
    <2>7. /\ DOMAIN st.saved = {} /\ DOMAIN st.progress = {} /\ st.jobs = {}
           /\ \A row \in st.rows : row.table # "turn"
      BY <2>2, <2>5, <2>6
    <2>8. SessionKept(D, st, held, op)
      BY ONLY <2>7, PlainKept
    <2> QED BY <1>2, <2>8
  <1> QED BY <1>1, <1>3, <1>4

\* A response is kept under the session's lock, the first to its request; a job it had is done.
LEMMA AnswerKept ==
  ASSUME NEW D, NEW st, NEW held, NEW op, op \notin Workers, UpdateFits(D, st), ProgressFits(D, st),
         NEW s \in DOMAIN D.sess, SessionLock(s) \in held,
         NEW turn, Table(st.rows, "turn") = {turn}, turn.session = s,
         ~Answered(D.rows, s, turn.key),
         \/ /\ st.jobs = {}
            /\ \A j \in D.jobs : j.session = s => j.key # turn.key
         \/ \E change : /\ st.jobs = {change} /\ Commits(D, change)
                        /\ \A j \in D.jobs : j.session = s /\ j.key = turn.key => j = change.old
                        /\ change.old.session = s
  PROVE  SessionKept(D, st, held, op)
  <1>1. Answers(D, st, held)
    BY DEF Answers, Commits
  <1>2. CASE st.jobs = {}
    BY <1>1, <1>2 DEF SessionKept, Changes
  <1>3. ASSUME NEW change, st.jobs = {change}, Commits(D, change), change.old.session = s
        PROVE  SessionKept(D, st, held, op)
    <2>1. change.new.session = s
      BY <1>3 DEF Commits, Replaces
    <2>2. Changes(D, st, held)
      BY <1>3, <2>1 DEF Changes
    <2> QED BY <1>1, <2>2 DEF SessionKept
  <1> QED BY <1>2, <1>3

\* A turn is of the version it was made from.
LEMMA PlayedOnce ==
  ASSUME NEW D, StoreWhole(D), NEW s \in DOMAIN D.sess, NEW st, DOMAIN st.saved = {s},
         st.saved[s].version = D.sess[s] + 1
  PROVE  UpdateFits(D, st)
  <1>1. D.sess[s] \in Nat /\ D.snap[s].version = D.sess[s]
    BY DEF StoreWhole, MapsWhole, SessionOk
  <1> QED BY <1>1 DEF UpdateFits

\* The response that changes nothing.
LEMMA UnchangedKept ==
  ASSUME NEW D, NEW q, q.op \notin Workers, q.session \in DOMAIN D.sess, NEW held,
         SessionLock(q.session) \in held, Turns(D, q) = {}, JobOf(D, q) = {}
  PROVE  SessionKept(D, Unchanged(D, q).staged, held, q.op)
  <1>1. PICK turn : turn = Turn(q.session, q.key, q.body)
    OBVIOUS
  <1>2. PICK R : R = {turn}
    OBVIOUS
  <1>3. PICK st : st = [Empty EXCEPT !.rows = R]
    OBVIOUS
  <1>4. Unchanged(D, q).staged \in {Empty, st}
    BY <1>1, <1>2, <1>3, StagedRows DEF Unchanged
  <1>5. turn.table = "turn" /\ turn.session = q.session /\ turn.key = q.key
    BY <1>1 DEF Turn
  <1>6. st.rows = R /\ DOMAIN st.saved = {} /\ DOMAIN st.progress = {} /\ st.jobs = {}
    BY <1>3 DEF Empty
  <1>7. Table(st.rows, "turn") = {turn}
    BY <1>2, <1>5, <1>6 DEF Table
  <1>8. UpdateFits(D, st) /\ ProgressFits(D, st)
    BY <1>6 DEF UpdateFits, ProgressFits
  <1>9. PICK s \in DOMAIN D.sess : s = q.session
    OBVIOUS
  <1>10. ~Answered(D.rows, s, turn.key)
    BY <1>5, <1>9 DEF Answered, Turns
  <1>11. \A j \in D.jobs : j.session = s => j.key # turn.key
    BY <1>5, <1>9 DEF JobOf
  <1>12. PICK op : op = q.op /\ op \notin Workers
    OBVIOUS
  <1>13. SessionLock(s) \in held /\ turn.session = s
    BY <1>5, <1>9
  <1>14. SessionKept(D, st, held, op)
    BY ONLY <1>6, <1>7, <1>8, <1>10, <1>11, <1>12, <1>13, s \in DOMAIN D.sess, AnswerKept
  <1> QED BY <1>4, <1>12, <1>14, EmptyKept

\* What a turn stages keeps to its session.
LEMMA TurnKept ==
  ASSUME NEW D, StoreWhole(D), NEW q, q.op = "turn", NEW held, SessionLock(q.session) \in held
  PROVE  SessionKept(D, TurnVerdict(D, q).staged, held, q.op)
  <1>1. PICK v : v = TurnVerdict(D, q)
    OBVIOUS
  <1>2. \A code : Deny(code).staged = Empty
    BY StagedRows
  <1>3. \A result : Tell(result).staged = Empty
    BY StagedRows
  <1>4. TurnReplay(D, q).staged = Empty
    BY <1>2, <1>3 DEF TurnReplay
  <1>5. PICK st : st = Advanced(D, q)
    OBVIOUS
  <1>6. Stage(<<"turn", q.session>>, st).staged = st
    BY StagedRows
  <1>7. q.op \notin Workers
    BY DEF Workers
  <1>8. \/ v.staged = Empty
        \/ /\ q.session \in DOMAIN D.sess /\ Turns(D, q) = {} /\ JobOf(D, q) = {}
           /\ v.staged = Unchanged(D, q).staged
        \/ /\ q.session \in DOMAIN D.sess /\ Turns(D, q) = {} /\ JobOf(D, q) = {}
           /\ v.staged = st
    BY <1>1, <1>2, <1>3, <1>4, <1>5, <1>6 DEF TurnVerdict
  <1>9. CASE v.staged = Empty
    BY <1>1, <1>9, EmptyKept
  <1>10. CASE /\ q.session \in DOMAIN D.sess /\ Turns(D, q) = {} /\ JobOf(D, q) = {}
              /\ v.staged = Unchanged(D, q).staged
    BY <1>1, <1>7, <1>10, UnchangedKept
  <1>11. CASE /\ q.session \in DOMAIN D.sess /\ Turns(D, q) = {} /\ JobOf(D, q) = {}
              /\ v.staged = st
    <2>1. PICK s \in DOMAIN D.sess : s = q.session
      BY <1>11
    <2>2. PICK turn : turn = Turn(q.session, q.key, q.body)
      OBVIOUS
    <2>3. PICK event : event = Event(s, D.sess[s] + 2)
      OBVIOUS
    <2>4. /\ turn.table = "turn" /\ turn.session = s /\ turn.key = q.key
          /\ event.table = "event"
      BY <2>1, <2>2, <2>3 DEF Turn, Event
    <2>5. /\ st.rows = {turn, event} /\ DOMAIN st.saved = {s}
          /\ st.saved[s].version = D.sess[s] + 1
          /\ DOMAIN st.progress = {} /\ st.jobs = {}
      BY <1>5, <2>1, <2>2, <2>3, AdvancedIs
    <2>6. Table(st.rows, "turn") = {turn}
      BY <2>4, <2>5 DEF Table
    <2>7. UpdateFits(D, st)
      BY ONLY StoreWhole(D), s \in DOMAIN D.sess, <2>5, PlayedOnce
    <2>8. ProgressFits(D, st)
      BY <2>5 DEF ProgressFits
    <2>9. ~Answered(D.rows, s, turn.key)
      BY <1>11, <2>1, <2>4 DEF Answered, Turns
    <2>10. \A j \in D.jobs : j.session = s => j.key # turn.key
      BY <1>11, <2>1, <2>4 DEF JobOf
    <2>11. PICK op : op = q.op /\ op \notin Workers
      BY <1>7
    <2>12. SessionLock(s) \in held
      BY <2>1
    <2>13. SessionKept(D, st, held, op)
      BY ONLY s \in DOMAIN D.sess, <2>4, <2>5, <2>6, <2>7, <2>8, <2>9, <2>10, <2>11, <2>12,
         AnswerKept
    <2> QED BY <1>1, <1>11, <2>11, <2>13
  <1> QED BY <1>8, <1>9, <1>10, <1>11

\* What preparing a job stages keeps to its session.
LEMMA PrepareJobKept ==
  ASSUME NEW D, NEW q, q.op = "prepare_job", NEW held, SessionLock(q.session) \in held
  PROVE  SessionKept(D, PrepareJobVerdict(D, q).staged, held, q.op)
  <1>1. PICK v : v = PrepareJobVerdict(D, q)
    OBVIOUS
  <1>2. \A code : Deny(code).staged = Empty
    BY StagedRows
  <1>3. \A result : Tell(result).staged = Empty
    BY StagedRows
  <1>4. TurnReplay(D, q).staged = Empty
    BY <1>2, <1>3 DEF TurnReplay
  <1>5. PICK new : new = JobOn(q, D.sess[q.session])
    OBVIOUS
  <1>6. PICK change : change = [old |-> NoJob, new |-> new]
    OBVIOUS
  <1>7. PICK st : st = [Empty EXCEPT !.jobs = {change}]
    OBVIOUS
  <1>8. Stage(<<"job", q.session>>, st).staged = st
    BY StagedRows
  <1>9. q.op \notin Workers
    BY DEF Workers
  <1>10. \/ v.staged = Empty
         \/ /\ q.session \in DOMAIN D.sess /\ Turns(D, q) = {} /\ JobOf(D, q) = {}
            /\ v.staged = Unchanged(D, q).staged
         \/ /\ q.session \in DOMAIN D.sess /\ Turns(D, q) = {} /\ JobOf(D, q) = {}
            /\ v.staged = st
    BY <1>1, <1>2, <1>3, <1>4, <1>5, <1>6, <1>7, <1>8 DEF PrepareJobVerdict
  <1>11. CASE v.staged = Empty
    BY <1>1, <1>11, EmptyKept
  <1>12. CASE /\ q.session \in DOMAIN D.sess /\ Turns(D, q) = {} /\ JobOf(D, q) = {}
              /\ v.staged = Unchanged(D, q).staged
    BY <1>1, <1>9, <1>12, UnchangedKept
  <1>13. CASE /\ q.session \in DOMAIN D.sess /\ Turns(D, q) = {} /\ JobOf(D, q) = {}
              /\ v.staged = st
    <2>1. new.session = q.session /\ new.key = q.key
      BY <1>5 DEF JobOn
    <2>2. change.old = NoJob /\ change.new = new
      BY <1>6
    <2>3. st.rows = {} /\ DOMAIN st.saved = {} /\ DOMAIN st.progress = {} /\ st.jobs = {change}
      BY <1>7 DEF Empty
    <2>4. Table(st.rows, "turn") = {}
      BY <2>3 DEF Table
    <2>5. Adds(D, st, change)
      BY <1>13, <2>1, <2>2, <2>4 DEF Adds, Answered, Turns, JobOf
    <2>6. Changes(D, st, held)
      BY <1>13, <2>1, <2>2, <2>3, <2>5 DEF Changes
    <2>7. UpdateFits(D, st) /\ ProgressFits(D, st) /\ Answers(D, st, held)
      BY <2>3, <2>4 DEF UpdateFits, ProgressFits, Answers
    <2>8. SessionKept(D, st, held, q.op)
      BY <1>9, <2>6, <2>7 DEF SessionKept
    <2> QED BY <1>1, <1>13, <2>8
  <1> QED BY <1>10, <1>11, <1>12, <1>13

\* A worker changes a job that is not finished.
LEMMA WorkKept ==
  ASSUME NEW D, MapsWhole(D), NEW q, q.op \in Workers, NEW held, NEW j \in JobOf(D, q),
         j.status \in {"PREPARED", "IN_PROGRESS"}, NEW status, status # "COMMITTED", NEW lease
  PROVE  SessionKept(D, Replaced(CHOOSE x \in JobOf(D, q) : TRUE, status, lease), held, q.op)
  <1>1. (CHOOSE x \in JobOf(D, q) : TRUE) = j /\ IsJob(j)
    BY JobIs
  <1>2. j.status \in Underway
    BY DEF Underway
  <1>3. PICK change : /\ Replaced(j, status, lease) = [Empty EXCEPT !.jobs = {change}]
                      /\ change.old = j /\ change.new.status = status
                      /\ Replaces(change) /\ IsJob(change.new)
    BY ONLY <1>1, <1>2, JobChanged
  <1>4. PICK st : st = [Empty EXCEPT !.jobs = {change}]
    OBVIOUS
  <1>5. st.rows = {} /\ DOMAIN st.saved = {} /\ DOMAIN st.progress = {} /\ st.jobs = {change}
    BY <1>4 DEF Empty
  <1>6. WorksOn(st)
    BY <1>3, <1>5 DEF WorksOn, Moves
  <1>7. UpdateFits(D, st) /\ ProgressFits(D, st) /\ Answers(D, st, held)
    BY <1>5 DEF UpdateFits, ProgressFits, Answers, Table
  <1>8. SessionKept(D, st, held, q.op)
    BY <1>6, <1>7 DEF SessionKept
  <1> QED BY <1>1, <1>3, <1>4, <1>8

\* So do a claim, a proposal and an expiry.
LEMMA WorkersKept ==
  ASSUME NEW D, MapsWhole(D), NEW q, NEW t, q.op \in Workers, NEW held
  PROVE  /\ SessionKept(D, ClaimVerdict(D, q, t).staged, held, q.op)
         /\ SessionKept(D, ProposeVerdict(D, q, t).staged, held, q.op)
         /\ SessionKept(D, ExpireVerdict(D, q).staged, held, q.op)
  <1> DEFINE job == CHOOSE x \in JobOf(D, q) : TRUE
  <1>2. \A code : Deny(code).staged = Empty
    BY StagedRows
  <1>3. \A result, st : Stage(result, st).staged = st
    BY StagedRows
  <1>5. SessionKept(D, Empty, held, q.op)
    BY EmptyKept
  <1>6. SessionKept(D, ClaimVerdict(D, q, t).staged, held, q.op)
    <2>1. CASE \E j \in JobOf(D, q) : j.status = "PREPARED"
      <3>1. PICK j \in JobOf(D, q) : j.status = "PREPARED"
        BY <2>1
      <3>2. SessionKept(D, Replaced(job, "IN_PROGRESS", t), held, q.op)
        BY <3>1, WorkKept
      <3>3. ClaimVerdict(D, q, t).staged = Replaced(job, "IN_PROGRESS", t)
        BY <1>3, <2>1 DEF ClaimVerdict
      <3> QED BY <3>2, <3>3
    <2>2. CASE ~\E j \in JobOf(D, q) : j.status = "PREPARED"
      BY <1>2, <1>5, <2>2 DEF ClaimVerdict
    <2> QED BY <2>1, <2>2
  <1>7. SessionKept(D, ProposeVerdict(D, q, t).staged, held, q.op)
    <2>1. CASE \E j \in JobOf(D, q) : j.status = "IN_PROGRESS" /\ j.lease = t
      <3>1. PICK j \in JobOf(D, q) : j.status = "IN_PROGRESS"
        BY <2>1
      <3>2. SessionKept(D, Replaced(job, "PROPOSAL_VALIDATED", t), held, q.op)
        BY <3>1, WorkKept
      <3>3. ProposeVerdict(D, q, t).staged = Replaced(job, "PROPOSAL_VALIDATED", t)
        BY <1>3, <2>1 DEF ProposeVerdict
      <3> QED BY <3>2, <3>3
    <2>2. CASE ~\E j \in JobOf(D, q) : j.status = "IN_PROGRESS" /\ j.lease = t
      BY <1>2, <1>5, <2>2 DEF ProposeVerdict
    <2> QED BY <2>1, <2>2
  <1>8. SessionKept(D, ExpireVerdict(D, q).staged, held, q.op)
    <2>1. CASE \E j \in JobOf(D, q) : j.status = "IN_PROGRESS"
      <3>1. PICK j \in JobOf(D, q) : j.status = "IN_PROGRESS"
        BY <2>1
      <3>2. SessionKept(D, Replaced(job, "OUTCOME_UNKNOWN", None), held, q.op)
        BY <3>1, WorkKept
      <3>3. ExpireVerdict(D, q).staged = Replaced(job, "OUTCOME_UNKNOWN", None)
        BY <1>3, <2>1 DEF ExpireVerdict
      <3> QED BY <3>2, <3>3
    <2>2. CASE ~\E j \in JobOf(D, q) : j.status = "IN_PROGRESS"
      BY <1>2, <1>5, <2>2 DEF ExpireVerdict
    <2> QED BY <2>1, <2>2
  <1> QED BY <1>6, <1>7, <1>8

\* What finishing a job stages keeps to its session.
LEMMA FinishKept ==
  ASSUME NEW D, StoreWhole(D), JobsAwait(D), NEW q, q.op = "finish", NEW t, NEW held,
         SessionLock(q.session) \in held
  PROVE  SessionKept(D, FinishVerdict(D, q, t).staged, held, q.op)
  <1> DEFINE job == CHOOSE j \in JobOf(D, q) : TRUE
             done == Replaced(job, "COMMITTED", None)
             turn == Advanced(D, q)
             progress == IF Outside(D, q.session)
                         THEN Only(q.session, D.progress[q.session] + 1) ELSE <<>>
             staged == [turn EXCEPT !.jobs = done.jobs, !.progress = progress]
             v == FinishVerdict(D, q, t)
  <1>1. MapsWhole(D)
    BY DEF StoreWhole
  <1>2. \A code : Deny(code).staged = Empty
    BY StagedRows
  <1>3. \A result, st : Stage(result, st).staged = st
    BY StagedRows
  <1>4. v = IF \A j \in JobOf(D, q) : j.status # "PROPOSAL_VALIDATED" \/ j.lease # t
            THEN Deny("JOB_STALE")
            ELSE IF job.version # D.sess[q.session] THEN Deny("JOB_STALE")
            ELSE IF ~Readable(D, q.session) THEN Deny("INTEGRITY")
            ELSE Stage(<<"turn", q.session>>, staged)
    BY DEF FinishVerdict
  <1> HIDE DEF v
  <1>5. CASE v.staged = Empty
    BY <1>5, EmptyKept DEF v
  <1>6. CASE v.staged # Empty
    <2>1. /\ \E j \in JobOf(D, q) : j.status = "PROPOSAL_VALIDATED"
          /\ v.staged = staged
      <3> HIDE DEF staged, job
      <3> QED BY <1>2, <1>3, <1>4, <1>6
    <2>2. PICK j \in JobOf(D, q) : j.status = "PROPOSAL_VALIDATED"
      BY <2>1
    <2>3. job = j /\ IsJob(j) /\ j.session = q.session /\ j.key = q.key /\ j \in D.jobs
      BY <1>1, <2>2, JobIs DEF JobOf
    <2>4. j.status \in Underway
      BY <2>2 DEF Underway
    <2>5. PICK change : /\ Replaced(j, "COMMITTED", None) = [Empty EXCEPT !.jobs = {change}]
                        /\ change.old = j /\ change.new.status = "COMMITTED"
                        /\ Replaces(change) /\ IsJob(change.new)
      BY <2>3, <2>4, JobChanged
    <2>6. done.jobs = {change}
      BY <2>3, <2>5 DEF Empty
    <2>7. PICK s \in DOMAIN D.sess : s = q.session
      BY <1>1, <2>3 DEF MapsWhole, JobsCheck
    <2>8. PICK row : row = Turn(q.session, q.key, q.body)
      OBVIOUS
    <2>9. PICK event : event = Event(s, D.sess[s] + 2)
      OBVIOUS
    <2>10. /\ row.table = "turn" /\ row.session = s /\ row.key = q.key
           /\ event.table = "event"
      BY <2>7, <2>8, <2>9 DEF Turn, Event
    <2>11. PICK st : st = staged
      OBVIOUS
    <2>12. st.jobs = {change} /\ st.progress = progress
      <3> HIDE DEF done, progress
      <3> QED BY <2>6, <2>11 DEF Advanced, Empty
    <2>13. st.rows = turn.rows /\ st.saved = turn.saved
      <3> HIDE DEF done, progress
      <3> QED BY <2>11 DEF Advanced, Empty
    <2>14. /\ turn.rows = {row, event} /\ DOMAIN turn.saved = {s}
           /\ turn.saved[s].version = D.sess[s] + 1
      <3> HIDE DEF job, done, progress, staged
      <3> QED BY <2>7, <2>8, <2>9, AdvancedIs
    <2>15. ProgressFits(D, st)
      <3>1. CASE Outside(D, s)
        <4>1. PICK m : m = D.progress[s] + 1
          OBVIOUS
        <4>2. st.progress = Only(s, m)
          BY <2>7, <2>12, <3>1, <4>1
        <4>3. IsFiniteSet(CommittedOf(D, s))
          BY <1>1, FS_Subset DEF MapsWhole, CommittedOf
        <4>4. Cardinality(CommittedOf(D, s)) \in Nat
          BY <4>3, FS_CardinalityType
        <4>5. D.progress[s] = Cardinality(CommittedOf(D, s))
          BY <1>1, <3>1 DEF MapsWhole, SessionOk
        <4>6. DOMAIN st.progress = {s} /\ st.progress[s] = m
          BY <4>2 DEF Only
        <4> QED BY <4>1, <4>4, <4>5, <4>6 DEF ProgressFits
      <3>2. CASE ~Outside(D, s)
        <4>1. st.progress = <<>>
          BY <2>7, <2>12, <3>2
        <4> QED BY <4>1 DEF ProgressFits
      <3> QED BY <3>1, <3>2
    <2>16. /\ st.rows = {row, event} /\ DOMAIN st.saved = {s}
           /\ st.saved[s].version = D.sess[s] + 1
      <3> HIDE DEF turn
      <3> QED BY <2>13, <2>14
    <2>17. UpdateFits(D, st)
      BY ONLY StoreWhole(D), s \in DOMAIN D.sess, <2>16, PlayedOnce
    <2>18. Table(st.rows, "turn") = {row}
      BY ONLY <2>10, <2>16 DEF Table
    <2>19. ~Answered(D.rows, s, row.key)
      BY ONLY JobsAwait(D), <2>3, <2>4, <2>7, <2>10 DEF JobsAwait
    <2>20. \A x \in D.jobs : x.session = s /\ x.key = row.key => x = change.old
      BY ONLY <1>1, <2>3, <2>5, <2>7, <2>10 DEF MapsWhole, JobsCheck
    <2>21. Commits(D, change)
      BY ONLY <2>2, <2>3, <2>5 DEF Commits
    <2>22. \E c : /\ st.jobs = {c} /\ Commits(D, c)
                  /\ \A x \in D.jobs : x.session = s /\ x.key = row.key => x = c.old
                  /\ c.old.session = s
      BY ONLY <2>3, <2>5, <2>7, <2>12, <2>20, <2>21
    <2>23. SessionLock(s) \in held
      BY <2>7
    <2>24. PICK op : op = q.op /\ op \notin Workers
      BY DEF Workers
    <2> HIDE DEF job, done, turn, progress, staged
    <2>25. SessionKept(D, st, held, op)
      BY ONLY s \in DOMAIN D.sess, <2>10, <2>15, <2>17, <2>18, <2>19, <2>22, <2>23, <2>24, AnswerKept
    <2> QED BY <2>1, <2>11, <2>24, <2>25 DEF v
  <1> QED BY <1>5, <1>6 DEF v

\* Whatever a unit of work that holds its locks decides keeps to its session.
LEMMA VerdictKept ==
  ASSUME NEW D, StoreWhole(D), JobsAwait(D), NEW q, NEW t, NEW held, q.op \in Operations,
         Missing(D, q, held) = {}
  PROVE  SessionKept(D, Verdict(D, q, t).staged, held, q.op)
  <1>1. MapsWhole(D)
    BY DEF StoreWhole
  <1>2. CASE q.op \in LedgerOperations
    BY <1>2, LedgerKept
  <1>3. CASE q.op = "turn"
    <2>1. SessionLock(q.session) \in held
      BY <1>3, HeldSession
    <2>2. Verdict(D, q, t) = TurnVerdict(D, q)
      BY <1>3 DEF Verdict
    <2> QED BY <1>3, <2>1, <2>2, TurnKept
  <1>4. CASE q.op = "prepare_job"
    <2>1. SessionLock(q.session) \in held
      BY <1>4, HeldSession
    <2>2. Verdict(D, q, t) = PrepareJobVerdict(D, q)
      BY <1>4 DEF Verdict
    <2> QED BY <1>4, <2>1, <2>2, PrepareJobKept
  <1>5. CASE q.op = "finish"
    <2>1. SessionLock(q.session) \in held
      BY <1>5, HeldSession
    <2>2. Verdict(D, q, t) = FinishVerdict(D, q, t)
      BY <1>5 DEF Verdict
    <2> QED BY <1>5, <2>1, <2>2, FinishKept
  <1>6. CASE q.op \in Workers
    <2>1. q.op = "claim" => Verdict(D, q, t) = ClaimVerdict(D, q, t)
      BY DEF Verdict
    <2>2. q.op = "propose" => Verdict(D, q, t) = ProposeVerdict(D, q, t)
      BY DEF Verdict
    <2>3. q.op = "expire" => Verdict(D, q, t) = ExpireVerdict(D, q)
      BY DEF Verdict
    <2>4. /\ SessionKept(D, ClaimVerdict(D, q, t).staged, held, q.op)
          /\ SessionKept(D, ProposeVerdict(D, q, t).staged, held, q.op)
          /\ SessionKept(D, ExpireVerdict(D, q).staged, held, q.op)
      BY <1>1, <1>6, WorkersKept
    <2> QED BY <1>6, <2>1, <2>2, <2>3, <2>4 DEF Workers
  <1>7. CASE q.op \in DOMAIN StepKind
    <2>1. Verdict(D, q, t) = StepVerdict(D, q, Fresh)
      BY <1>7, StepOperations DEF Verdict
    <2>2. StepVerdict(D, q, Fresh).staged \in {Empty, StepStaged(D, q, Fresh)}
      BY StepStages
    <2>3. SessionKept(D, Empty, held, q.op)
      BY EmptyKept
    <2>4. SessionKept(D, StepStaged(D, q, Fresh), held, q.op)
      BY <1>7, StepKept
    <2> QED BY <2>1, <2>2, <2>3, <2>4
  <1> QED BY <1>2, <1>3, <1>4, <1>5, <1>6, <1>7 DEF Operations, LedgerOperations, Workers

-----------------------------------------------------------------------------
(* What callers are told                                                    *)

\* What only the publication check tells a caller.
Overtaken == {"STALE", "TURN_EXISTS", "FENCED", "SESSION_EXISTS", "CONFLICT", "DUPLICATE_OPENING"}

\* No service answers so.
LEMMA LedgerCodes ==
  ASSUME NEW S, NEW q, NEW x
  PROVE  /\ Registering(S, q, CreateVerdict(S, q, x)).code \notin Overtaken
         /\ MutateVerdict(S, S, q).code \notin Overtaken
         /\ EnterVerdict(S, S, q, x, x).code \notin Overtaken
         /\ PrepareVerdict(S, S, q, x).code \notin Overtaken
         /\ ConfirmVerdict(S, S, q, x, x).code \notin Overtaken
         /\ CreateSessionVerdict(S, q, x).code \notin Overtaken
         /\ RecoveryVerdict(S, q).code \notin Overtaken
  <1>1. \A code : Refuse(code).code = code
    BY DEF Refuse
  <1>2. \A result : Answer(result).code = "ok"
    BY DEF Answer
  <1>3. \A result, rows : Apply(result, rows).code = "ok"
    BY DEF Apply
  <1>4. Registering(S, q, CreateVerdict(S, q, x)).code \notin Overtaken
    <2>1. PICK v : v = CreateVerdict(S, q, x)
      OBVIOUS
    <2>2. v.code \in {"ok", "IDEMPOTENCY_CONFLICT"} /\ DOMAIN v = {"code", "result", "rows"}
      BY <2>1 DEF CreateVerdict, CreateReuse, Refuse, Answer, Apply
    <2>3. Registering(S, q, v).code = v.code
      BY <2>2 DEF Registering
    <2> QED BY <2>1, <2>2, <2>3 DEF Overtaken
  <1>5. MutateVerdict(S, S, q).code \notin Overtaken
    <2>1. \A m : Policy(m, q) \notin Overtaken
      BY DEF Policy, Overtaken
    <2>2. \A m, receipt : MutateReuse(m, q, receipt).code \notin Overtaken
      BY <1>1, <1>2 DEF MutateReuse, Overtaken
    <2> QED BY <1>1, <1>3, <2>1, <2>2 DEF MutateVerdict, Overtaken
  <1>6. \A o, e, receipt : EntryReplay(S, o, e, receipt).code \notin Overtaken
    BY <1>1, <1>2 DEF EntryReplay, LegacyReplay, NativeReplay, Overtaken
  <1>7. \A o, e : EntryStage(S, S, o, e, x, x).code \notin Overtaken
    BY <1>1, <1>3 DEF EntryStage, Overtaken
  <1>8. EnterVerdict(S, S, q, x, x).code \notin Overtaken
    BY <1>1, <1>6, <1>7 DEF EnterVerdict, Overtaken
  <1>9. PrepareVerdict(S, S, q, x).code \notin Overtaken
    BY <1>1, <1>2, <1>3 DEF PrepareVerdict, Overtaken
  <1>10. ConfirmVerdict(S, S, q, x, x).code \notin Overtaken
    BY <1>1, <1>2, <1>3, <1>7 DEF ConfirmVerdict, Overtaken
  <1>11. \A y : CreateSessionVerdict(S, q, y).code \notin Overtaken
    BY <1>1, <1>2, <1>3 DEF CreateSessionVerdict, SessionReplay, Overtaken
  <1>12. RecoveryVerdict(S, q).code \notin Overtaken
    BY <1>1, <1>6, <1>11 DEF RecoveryVerdict, Overtaken
  <1> QED BY <1>4, <1>5, <1>8, <1>9, <1>10, <1>11, <1>12

\* Nor does a verdict of the store.
LEMMA VerdictCodes ==
  ASSUME NEW D, NEW q, NEW t
  PROVE  Verdict(D, q, t).code \notin Overtaken
  <1>1. \A code : Deny(code).code = code
    BY DEF Deny
  <1>2. \A result, staged : Stage(result, staged).code = "ok"
    BY DEF Stage
  <1>3. \A result : Tell(result).code = "ok"
    BY DEF Tell, Stage
  <1>4. \A v : Lift(v).code = v.code
    BY DEF Lift
  <1>5. PICK x : x = Fresh
    OBVIOUS
  <1>6. TurnReplay(D, q).code \notin Overtaken /\ Unchanged(D, q).code \notin Overtaken
    BY <1>1, <1>2, <1>3 DEF TurnReplay, Unchanged, Overtaken
  <1>7. TurnVerdict(D, q).code \notin Overtaken
    BY <1>1, <1>2, <1>3, <1>6 DEF TurnVerdict, Overtaken
  <1>8. PrepareJobVerdict(D, q).code \notin Overtaken
    BY <1>1, <1>2, <1>3, <1>6 DEF PrepareJobVerdict, Overtaken
  <1>9. /\ ClaimVerdict(D, q, t).code \notin Overtaken
        /\ ProposeVerdict(D, q, t).code \notin Overtaken
        /\ ExpireVerdict(D, q).code \notin Overtaken
    BY <1>1, <1>2 DEF ClaimVerdict, ProposeVerdict, ExpireVerdict, Overtaken
  <1>10. FinishVerdict(D, q, t).code \notin Overtaken
    BY <1>1, <1>2 DEF FinishVerdict, Overtaken
  <1>11. StepVerdict(D, q, x).code \notin Overtaken
    BY <1>1, <1>2, <1>3 DEF StepVerdict, Overtaken
  <1>12. Deny("PLAYER_CHARACTER_NOT_FOUND").code \notin Overtaken
    BY <1>1 DEF Overtaken
  <1>13. /\ Registering(D.rows, q, CreateVerdict(D.rows, q, x)).code \notin Overtaken
         /\ MutateVerdict(D.rows, D.rows, q).code \notin Overtaken
         /\ EnterVerdict(D.rows, D.rows, q, x, x).code \notin Overtaken
         /\ PrepareVerdict(D.rows, D.rows, q, x).code \notin Overtaken
         /\ ConfirmVerdict(D.rows, D.rows, q, x, x).code \notin Overtaken
         /\ CreateSessionVerdict(D.rows, q, x).code \notin Overtaken
    BY LedgerCodes
  <1> QED BY <1>4, <1>5, <1>7, <1>8, <1>9, <1>10, <1>11, <1>12, <1>13 DEF Verdict

-----------------------------------------------------------------------------
(* Nobody is overtaken under a lock                                         *)

\* The invariant holds at the start.
LEMMA InitSession == Init => SessionInvariant
  <1> SUFFICES ASSUME Init PROVE SessionInvariant
    OBVIOUS
  <1>1. StoreInvariant
    BY InitStore
  <1>2. JobsAwait(store)
    <2>1. Seed.jobs = {}
      BY SeedAssumption
    <2> QED BY <2>1 DEF Init, JobsAwait
  <1>3. \A t \in Tasks : task[t].pc = "idle" /\ task[t].code = "none"
    BY DEF Init, Idle
  <1> QED BY <1>1, <1>2, <1>3 DEF SessionInvariant, CodeFits

\* What a task has staged and what it was told.
TaskKept(D, u) ==
    /\ u.pc = "staged" => SessionKept(D, u.staged, u.held, u.q.op)
    /\ CodeFits(u)

\* A step of one task that leaves the maps alone.
LEMMA OneTaskSession ==
  ASSUME SessionInvariant, StoreInvariant', store' = store, NEW t \in Tasks,
         \A u \in Tasks \ {t} : task'[u] = task[u], TaskKept(store, task'[t])
  PROVE  SessionInvariant'
  <1>1. \A u \in Tasks : TaskKept(store, task'[u])
    BY DEF SessionInvariant, TaskKept
  <1> QED BY <1>1 DEF SessionInvariant, TaskKept

\* A task that leaves is told what did not overtake it.
LEMMA LeaveSession ==
  ASSUME SessionInvariant, StoreInvariant', NEW t \in Tasks, NEW code, NEW result, NEW object,
         Leave(t, code, result, object), store' = store, code \notin {"STALE", "TURN_EXISTS"},
         code = "FENCED" => task[t].q.op \in Workers
  PROVE  SessionInvariant'
  <1> DEFINE left == [task[t] EXCEPT !.pc = "idle", !.held = {}, !.staged = Empty, !.code = code,
                                     !.result = result, !.object = object]
  <1>1. Shape(task[t]) /\ DOMAIN task = Tasks
    BY DEF SessionInvariant, StoreInvariant, LockInvariant, TaskFits
  <1>2. left.pc = "idle" /\ left.code = code /\ left.q = task[t].q
    BY <1>1 DEF Shape
  <1>3. task' = [task EXCEPT ![t] = left]
    BY DEF Leave
  <1> HIDE DEF left
  <1>4. task'[t] = left /\ \A u \in Tasks \ {t} : task'[u] = task[u]
    BY <1>1, <1>3
  <1>5. TaskKept(store, left)
    BY <1>2 DEF TaskKept, CodeFits
  <1> QED BY <1>4, <1>5, OneTaskSession

\* Beginning forgets what the last unit of work was told.
LEMMA BeginSession ==
  ASSUME SessionInvariant, StoreInvariant', NEW t \in Tasks, Begin(t)
  PROVE  SessionInvariant'
  <1>1. PICK q : task' = [task EXCEPT ![t] = [Idle EXCEPT !.pc = "lock", !.q = q]]
    BY DEF Begin
  <1>2. PICK u : u = [Idle EXCEPT !.pc = "lock", !.q = q]
    OBVIOUS
  <1>3. u.pc = "lock" /\ u.code = "none"
    BY <1>2 DEF Idle
  <1>4. task'[t] = u /\ \A v \in Tasks \ {t} : task'[v] = task[v]
    BY <1>1, <1>2 DEF SessionInvariant, StoreInvariant, LockInvariant
  <1>5. store' = store
    BY DEF Begin
  <1>6. TaskKept(store, u)
    BY <1>3 DEF TaskKept, CodeFits
  <1> QED BY <1>4, <1>5, <1>6, OneTaskSession

\* Waiting for a lock stages nothing and tells nothing.
LEMMA AcquireSession ==
  ASSUME SessionInvariant, StoreInvariant', NEW t \in Tasks, Acquire(t)
  PROVE  SessionInvariant'
  <1>1. PICK lock : task' = [task EXCEPT ![t].held = @ \cup {lock}]
    BY DEF Acquire
  <1>2. PICK u : u = [task[t] EXCEPT !.held = @ \cup {lock}]
    OBVIOUS
  <1>3. Shape(task[t]) /\ DOMAIN task = Tasks
    BY DEF SessionInvariant, StoreInvariant, LockInvariant, TaskFits
  <1>4. u.pc = task[t].pc /\ u.code = task[t].code /\ u.q = task[t].q
    BY <1>2, <1>3 DEF Shape
  <1>5. task'[t] = u /\ \A v \in Tasks \ {t} : task'[v] = task[v]
    BY <1>1, <1>2, <1>3
  <1>6. store' = store /\ task[t].pc \in {"lock", "recover"}
    BY DEF Acquire
  <1>7. CodeFits(task[t])
    BY DEF SessionInvariant
  <1>8. TaskKept(store, u)
    BY <1>4, <1>6, <1>7 DEF TaskKept, CodeFits
  <1> QED BY <1>5, <1>6, <1>8, OneTaskSession

\* What is staged under its locks keeps to its session.
LEMMA WorkSession ==
  ASSUME SessionInvariant, StoreInvariant', NEW t \in Tasks, Work(t)
  PROVE  SessionInvariant'
  <1> DEFINE q == task[t].q
             v == Verdict(store, q, t)
             read == ReadVersion(store, q)
             raised == Raised(v, read)
             code == IF v.staged = Empty THEN v.code ELSE "UNSTAGED"
             done == [task[t] EXCEPT !.pc = "idle", !.held = {}, !.code = code,
                                     !.result = v.result, !.read = read, !.object = read]
             staged == [task[t] EXCEPT !.pc = "staged", !.staged = v.staged, !.result = v.result,
                                       !.read = read, !.object = raised]
  <1>1. Shape(task[t]) /\ q.op \in Operations /\ DOMAIN task = Tasks
    BY DEF SessionInvariant, StoreInvariant, LockInvariant, TaskFits, Work
  <1>2. Missing(store, q, HeldBy(t)) = {}
    BY DEF Work
  <1>3. StoreWhole(store) /\ JobsAwait(store) /\ CodeFits(task[t])
    BY DEF SessionInvariant, StoreInvariant
  <1>4. SessionKept(store, v.staged, HeldBy(t), q.op)
    BY <1>1, <1>2, <1>3, VerdictKept
  <1>5. code \notin Overtaken
    <2>1. v.code \notin Overtaken
      BY VerdictCodes
    <2> HIDE DEF v
    <2> QED BY <2>1 DEF Overtaken
  <1>6. task' = [task EXCEPT ![t] = done] \/ task' = [task EXCEPT ![t] = staged]
    BY DEF Work
  <1>7. store' = store
    BY DEF Work
  <1> HIDE DEF v, read, raised, code
  <1>8. done.pc = "idle" /\ done.code = code
    BY <1>1 DEF Shape
  <1>9. /\ staged.held = HeldBy(t) /\ staged.staged = v.staged /\ staged.q = q
        /\ staged.code = task[t].code
    BY <1>1 DEF Shape, HeldBy
  <1> HIDE DEF done, staged
  <1>10. TaskKept(store, done)
    BY <1>5, <1>8 DEF TaskKept, CodeFits, Overtaken
  <1>11. TaskKept(store, staged)
    BY <1>3, <1>4, <1>9 DEF TaskKept, CodeFits
  <1> HIDE DEF q
  <1>12. /\ task'[t] = done \/ task'[t] = staged
         /\ \A u \in Tasks \ {t} : task'[u] = task[u]
    BY <1>1, <1>6
  <1> QED BY <1>7, <1>10, <1>11, <1>12, OneTaskSession

\* What is published leaves others their sessions, and nobody is overtaken under a lock.
LEMMA PublishSession ==
  ASSUME SessionInvariant, StoreInvariant', NEW t \in Tasks, Publish(t)
  PROVE  SessionInvariant'
  <1> DEFINE st == task[t].staged
             op == task[t].q.op
             why == Objection(store, st)
             again == [task[t] EXCEPT !.pc = "recover", !.held = {}, !.staged = Empty,
                                      !.object = RolledBack(t)]
  <1>1. /\ Shape(task[t]) /\ DOMAIN task = Tasks /\ StoreWhole(store)
        /\ UnitFits(store, st, HeldBy(t)) /\ SessionKept(store, st, HeldBy(t), op)
        /\ JobsAwait(store) /\ CodeFits(task[t])
    BY DEF SessionInvariant, StoreInvariant, LockInvariant, TaskFits, Publish, HeldBy
  <1>2. CASE why = "none" /\ store' = Merge(store, st) /\ Leave(t, "ok", task[t].result, task[t].object)
    <2> DEFINE left == [task[t] EXCEPT !.pc = "idle", !.held = {}, !.staged = Empty, !.code = "ok",
                                       !.result = task[t].result, !.object = task[t].object]
    <2>1. left.pc = "idle" /\ left.code = "ok"
      BY <1>1 DEF Shape
    <2>2. task' = [task EXCEPT ![t] = left]
      BY <1>2 DEF Leave
    <2> HIDE DEF left
    <2>3. task'[t] = left /\ \A u \in Tasks \ {t} : task'[u] = task[u]
      BY <1>1, <2>2
    <2>4. PICK E : E = Merge(store, st)
      OBVIOUS
    <2>5. JobsFit(store, st)
      BY <1>2, Unopposed
    <2>6. JobsAwait(E)
      BY <1>1, <2>4, <2>5, AwaitStays
    <2>7. ASSUME NEW u \in Tasks \ {t} PROVE TaskKept(E, task[u])
      <3>1. CodeFits(task[u])
        BY DEF SessionInvariant
      <3>2. CASE task[u].pc = "staged"
        <4>1. /\ UnitFits(store, task[u].staged, task[u].held)
              /\ SessionKept(store, task[u].staged, task[u].held, task[u].q.op)
          BY <3>2 DEF SessionInvariant, StoreInvariant
        <4>2. HeldBy(t) \cap task[u].held = {}
          BY DEF SessionInvariant, StoreInvariant, LockInvariant, Exclusive, HeldBy
        <4>3. SessionKept(E, task[u].staged, task[u].held, task[u].q.op)
          BY <1>1, <1>2, <2>4, <4>1, <4>2, SessionStays
        <4> QED BY <3>1, <4>3 DEF TaskKept
      <3> QED BY <3>1, <3>2 DEF TaskKept
    <2>8. TaskKept(E, left)
      BY <2>1 DEF TaskKept, CodeFits
    <2>9. \A u \in Tasks : TaskKept(E, task'[u])
      BY <2>3, <2>7, <2>8
    <2> QED BY <1>2, <2>4, <2>6, <2>9 DEF SessionInvariant, TaskKept
  <1>3. CASE store' = store /\ Leave(t, why, <<>>, RolledBack(t))
    <2>1. why \notin {"STALE", "TURN_EXISTS"} /\ (why = "FENCED" => op \in Workers)
      BY <1>1, SessionsUnopposed
    <2> QED BY <1>3, <2>1, LeaveSession
  <1>4. CASE store' = store /\ task' = [task EXCEPT ![t] = again]
    <2>1. again.pc = "recover" /\ again.code = task[t].code /\ again.q = task[t].q
      BY <1>1 DEF Shape
    <2> HIDE DEF again
    <2>2. task'[t] = again /\ \A u \in Tasks \ {t} : task'[u] = task[u]
      BY <1>1, <1>4
    <2>3. TaskKept(store, again)
      BY <1>1, <2>1 DEF TaskKept, CodeFits
    <2> QED BY <1>4, <2>2, <2>3, OneTaskSession
  <1> QED BY <1>2, <1>3, <1>4 DEF Publish

\* Looking up what was made meanwhile.
LEMMA RecoverSession ==
  ASSUME SessionInvariant, StoreInvariant', NEW t \in Tasks, Recover(t)
  PROVE  SessionInvariant'
  <1>1. PICK v : v = RecoveryVerdict(store.rows, task[t].q)
    OBVIOUS
  <1>2. v.code \notin Overtaken
    BY <1>1, LedgerCodes
  <1>3. Leave(t, v.code, v.result, RolledBack(t)) /\ store' = store
    BY <1>1 DEF Recover
  <1> QED BY <1>2, <1>3, LeaveSession DEF Overtaken

\* Every step keeps the invariant.
LEMMA NextSession == SessionInvariant /\ [Next]_vars => SessionInvariant'
  <1> SUFFICES ASSUME SessionInvariant, [Next]_vars PROVE SessionInvariant'
    OBVIOUS
  <1>1. StoreInvariant'
    BY NextStore DEF SessionInvariant
  <1>2. CASE UNCHANGED vars
    BY <1>1, <1>2 DEF vars, SessionInvariant
  <1>3. CASE Finished
    BY <1>1, <1>2, <1>3 DEF Finished
  <1>4. ASSUME NEW t \in Tasks, Begin(t) PROVE SessionInvariant'
    BY <1>1, <1>4, BeginSession
  <1>5. ASSUME NEW t \in Tasks, Acquire(t) PROVE SessionInvariant'
    BY <1>1, <1>5, AcquireSession
  <1>6. ASSUME NEW t \in Tasks, Work(t) PROVE SessionInvariant'
    BY <1>1, <1>6, WorkSession
  <1>7. ASSUME NEW t \in Tasks, Publish(t) PROVE SessionInvariant'
    BY <1>1, <1>7, PublishSession
  <1>8. ASSUME NEW t \in Tasks, Recover(t) PROVE SessionInvariant'
    BY <1>1, <1>8, RecoverSession
  <1>9. ASSUME NEW t \in Tasks, Cancel(t) PROVE SessionInvariant'
    BY <1>1, <1>9, LeaveSession DEF Cancel
  <1> QED BY <1>2, <1>3, <1>4, <1>5, <1>6, <1>7, <1>8, <1>9 DEF Next

-----------------------------------------------------------------------------
(* Who may add a row                                                        *)

\* The operations that make a session and hold no lock that keeps their request to themselves.
Creations == {"enter", "admit", "create_session"}

\* What keeps others from a request: the run it goes on, the opening it confirms, or nothing.
RequestOwner(op) ==
    IF op.family \in {"continue", "revisit"} THEN RunLock(op.offer)
    ELSE IF op.family = "native" /\ op.offer # None THEN <<"offer", op.offer>>
    ELSE <<"request", op>>

\* What keeps others from a key: the player, character, run or session it names, or its request.
KeyOwner(key) ==
    CASE key[1] \in {"binding", "creation"} -> ControllerLock(key[2])
      [] key[1] \in {"revision", "created_character", "mutation", "mutated_revision"} ->
            CharacterLock(key[2])
      [] key[1] \in {"session", "member", "visited", "entered", "turn", "event"} ->
            SessionLock(key[2])
      [] key[1] \in {"run_op", "request"} -> RequestOwner(key[2])
      [] key[1] = "joined exactly" -> RunLock(key[3])
      [] key[1] = "confirmation" -> <<"offer", key[2]>>
      [] key[1] \in {"offer", "offer_key", "ordinal"} -> <<"offering", None>>
      [] OTHER -> RunLock(key[2])

\* Locks on what is published, and on what is new.
Locks(D, held) ==
    {lock \in held : \/ lock[1] = "controller"
                     \/ lock[1] \in {"character", "run", "session"} /\ lock[2] \in Named(D.rows)}
NewLocks(D, R) ==
    UNION {{CharacterLock(n), RunLock(n), SessionLock(n)} : n \in Named(R) \ Named(D.rows)}

\* What a unit of work may write that holds these locks and writes these rows.
Owns(D, q, held, R) ==
    Locks(D, held) \cup NewLocks(D, R)
    \cup (IF q.op = "confirm" THEN {<<"offer", q.offer>>} ELSE {})
    \cup (IF q.op = "prepare" THEN {<<"offering", None>>} ELSE {})
    \cup (IF q.op \in Creations THEN {<<"request", Op(q)>>} ELSE {})

\* The request of an opening's admission has its confirmation, that of a further world its
\* receipt, and evidence its revision; a binding is no more than its player, and no opening
\* is without a name.
RequestsHang(R, S) ==
    /\ \A row \in R :
          row.table \in {"run_creation", "session"} /\ row.op.family = "native" /\ row.op.offer # None =>
              Confirmations(S, row.op.offer) # {}
    /\ \A row \in Table(R, "session") : row.op.family \in {"continue", "revisit"} =>
          \E step \in Table(S, "run_receipt") :
              step.run = row.op.offer /\ step.kind = StepKind[row.op.family] /\ step.op = row.op
    /\ \A row \in Table(R, "evidence") :
          \E m \in RunRevisions(S, row.run) : m.version = row.version
    /\ \A row \in Table(R, "binding") : row = Binding(row.who)
    /\ \A row \in Table(R, "offer") : row.offer # None

\* No key is taken but a creation's, whose request was made meanwhile, or an opening's.
Unclaimed(D, q, R) ==
    /\ q.op \notin Creations \cup {"prepare"} => ~Taken(D, R)
    /\ q.op \in Creations =>
          /\ R # {} => \E row \in Table(R, "session") : row.op = Op(q)
          /\ Taken(D, R) => SessionsOf(D.rows, Op(q)) # {}
    /\ q.op = "prepare" => R \subseteq Table(R, "offer")

\* The rows of a unit of work are its own to write.
RowsOwned(D, q, held, R) ==
    /\ \A row \in R : \A key \in StoreKeys(row) : KeyOwner(key) \in Owns(D, q, held, R)
    /\ q.op = "confirm" /\ R # {} => OfferFound(D.rows, q) /\ CharacterLock(q.char) \in held
    /\ Unclaimed(D, q, R)
    /\ RequestsHang(R, D.rows \cup R)

\* So is the position it moves.
MoveOwned(D, held, st) ==
    /\ \A r \in DOMAIN st.moved : RunLock(r) \in held
    /\ PositionFits(D, st)

\* What only a creation or an opening is told.
RowCodesFit(D, u) ==
    /\ u.code # "CONFLICT"
    /\ u.code = "DUPLICATE_OPENING" => u.q.op = "prepare"
    /\ u.code = "SESSION_EXISTS" => u.q.op = "enter"
    /\ u.pc = "recover" => SessionsOf(D.rows, Op(u.q)) # {}

\* The names in the store or on the way into it.
NamesInUse == UNION {Named(rows) : rows \in {store.rows} \cup {task[t].staged.rows : t \in Tasks}}

RowsInvariant ==
    /\ SessionInvariant
    /\ RequestsHang(store.rows, store.rows)
    /\ IsFiniteSet(NamesInUse)
    /\ \A t \in Tasks :
          /\ task[t].pc = "staged" =>
                /\ RowsOwned(store, task[t].q, task[t].held, task[t].staged.rows)
                /\ MoveOwned(store, task[t].held, task[t].staged)
          /\ RowCodesFit(store, task[t])
    /\ \A t, u \in Tasks : t # u =>
          Named(task[t].staged.rows) \cap Named(task[u].staged.rows) \subseteq Named(store.rows)

-----------------------------------------------------------------------------
(* Names and keys that are new                                              *)

\* Among the first numbers, one more than there are names, one is free.
LEMMA LeastUnused ==
  ASSUME NEW U, IsFiniteSet(U)
  PROVE  \E n \in 1..(Cardinality(U) + 1) : n \notin U /\ \A m \in 1..(n - 1) : m \in U
  <1> DEFINE c == Cardinality(U)
             W == {n \in 1..(c + 1) : n \notin U}
             V == {-n : n \in W}
  <1>1. c \in Nat
    BY FS_CardinalityType
  <1>2. W # {}
    <2> SUFFICES ASSUME W = {} PROVE FALSE
      OBVIOUS
    <2>1. 1..(c + 1) \subseteq U
      OBVIOUS
    <2>2. Cardinality(1..(c + 1)) = c + 1
      BY <1>1, FS_Interval
    <2>3. Cardinality(1..(c + 1)) <= c
      BY <2>1, FS_Subset
    <2> HIDE DEF c
    <2> QED BY <1>1, <2>2, <2>3
  <1> HIDE DEF c
  <1>3. V \subseteq Int /\ V # {}
    BY <1>1, <1>2
  <1>4. IsFiniteSet(V)
    <2>1. V \subseteq -(c + 1)..-1
      BY <1>1
    <2>2. IsFiniteSet(-(c + 1)..-1)
      BY <1>1, FS_Interval
    <2> QED BY <2>1, <2>2, FS_Subset
  <1>5. PICK m \in V : \A v \in V : v <= m
    BY <1>3, <1>4, GreatestOf
  <1>6. PICK n \in W : m = -n
    OBVIOUS
  <1>7. ASSUME NEW k \in 1..(n - 1), k \notin U PROVE FALSE
    <2>1. k \in W
      BY <1>1, <1>7
    <2>2. -k <= -n
      BY <1>5, <1>6, <2>1
    <2> QED BY <1>1, <2>2
  <1> QED BY <1>6, <1>7 DEF c

\* What is made gets a name that nothing has.
LEMMA FreshIsNew ==
  ASSUME IsFiniteSet(NamesInUse)
  PROVE  Fresh \notin NamesInUse /\ Fresh # None
  <1>1. PICK U : U = NamesInUse
    OBVIOUS
  <1>2. Fresh = CHOOSE n \in 1..(Cardinality(U) + 1) : n \notin U /\ \A m \in 1..(n - 1) : m \in U
    BY <1>1 DEF Fresh, NamesInUse
  <1>3. \E n \in 1..(Cardinality(U) + 1) : n \notin U /\ \A m \in 1..(n - 1) : m \in U
    BY <1>1, LeastUnused
  <1>4. Fresh \notin U /\ Fresh \in 1..(Cardinality(U) + 1)
    BY <1>2, <1>3
  <1>5. Cardinality(U) \in Nat
    BY <1>1, FS_CardinalityType
  <1>6. Fresh # None
    BY <1>4, <1>5 DEF None
  <1> QED BY <1>1, <1>4, <1>6

\* A name that is not in the store is in none of its rows.
LEMMA UnnamedRows ==
  ASSUME NEW D, RowsWhole(D), NEW n, n \notin Named(D.rows)
  PROVE  /\ \A row \in D.rows : row.table \in {"revision", "creation_receipt"} => row.char # n
         /\ \A row \in D.rows : row.table \in NamesRun \cup {"run_receipt"} => row.run # n
         /\ \A row \in D.rows : row.table \in {"session", "event", "participation"} => row.session # n
  <1>1. /\ \A row \in Table(D.rows, "revision") : row.char # n
        /\ \A row \in Table(D.rows, "run") : row.run # n
        /\ \A row \in Table(D.rows, "session") : row.session # n
    BY DEF Named
  <1>2. \A row \in D.rows : row.table = "creation_receipt" => Revisions(D.rows, row.char) # {}
    BY DEF RowsWhole, HangsIn
  <1>3. \A row \in D.rows : row.table \in NamesRun \cup {"run_receipt"} => RunRevisions(D.rows, row.run) # {}
    <2>1. \A row \in D.rows : row.table \in NamesRun => RunRevisions(D.rows, row.run) # {}
      BY WholeFamilies
    <2>2. \A row \in D.rows : row.table = "run_receipt" => RunRevisions(D.rows, row.run) # {}
      BY DEF RowsWhole, HangsIn, Table
    <2> QED BY <2>1, <2>2
  <1>4. \A row \in D.rows : row.table \in {"event", "participation"} =>
           \E p \in Table(D.rows, "session") : p.session = row.session
    <2>1. \A row \in D.rows : row.table = "participation" =>
             \E p \in Table(D.rows, "session") : p.session = row.session
      <3>1. \A row \in Table(D.rows, "participation") : \E p \in Table(D.rows, "session") : p.session = row.session
        BY WholeFamilies
      <3> QED BY <3>1 DEF Table
    <2>2. \A row \in D.rows : row.table = "event" =>
             \E p \in Table(D.rows, "session") : p.session = row.session
      BY DEF RowsWhole, HangsIn
    <2> QED BY <2>1, <2>2
  <1> QED BY <1>1, <1>2, <1>3, <1>4 DEF Table, Revisions, RunRevisions

\* A row shares no key with those of the store.
KeysApart(S, row) == \A other \in S : StoreKeys(row) \cap StoreKeys(other) = {}

LEMMA TakesNothing ==
  ASSUME NEW D, NEW R, \A row \in R : KeysApart(D.rows, row)
  PROVE  ~Taken(D, R)
  BY DEF Taken, KeysOf, KeysApart

\* When a row's keys are new, table by table.
LEMMA NewKeys ==
  ASSUME NEW S, NEW row
  PROVE
         /\ row.table = "binding" /\ (\A other \in Table(S, "binding") : other.who # row.who) =>
               KeysApart(S, row)
         /\ row.table = "revision" /\ (\A other \in Table(S, "revision") : other.char # row.char \/ other.rev # row.rev) =>
               KeysApart(S, row)
         /\ row.table = "creation_receipt" /\ (\A other \in Table(S, "creation_receipt") :
                 /\ other.who # row.who \/ other.key # row.key
                 /\ other.char # row.char) =>
               KeysApart(S, row)
         /\ row.table = "mutation_receipt" /\ (\A other \in Table(S, "mutation_receipt") :
                 /\ other.char # row.char \/ other.key # row.key
                 /\ other.char # row.char \/ other.rev # row.rev) =>
               KeysApart(S, row)
         /\ row.table = "run" /\ (\A other \in Table(S, "run") : other.run # row.run \/ other.version # row.version) =>
               KeysApart(S, row)
         /\ row.table = "run_creation" /\ (\A other \in Table(S, "run_creation") :
                 /\ other.op # row.op
                 /\ other.run # row.run) =>
               KeysApart(S, row)
         /\ row.table = "run_receipt" /\ (\A other \in Table(S, "run_receipt") :
                 /\ other.run # row.run \/ other.kind # row.kind \/ other.op # row.op
                 /\ other.run # row.run \/ other.version # row.version) =>
               KeysApart(S, row)
         /\ row.table = "participation" /\ (\A other \in Table(S, "participation") :
                 /\ other.session # row.session
                 /\ other.run # row.run \/ other.version # row.version) =>
               KeysApart(S, row)
         /\ row.table = "admission" /\ (\A other \in Table(S, "admission") : other.run # row.run) =>
               KeysApart(S, row)
         /\ row.table = "confirmation" /\ (\A other \in Table(S, "confirmation") :
                 /\ other.offer # row.offer
                 /\ other.run # row.run) =>
               KeysApart(S, row)
         /\ row.table = "session" /\ (\A other \in Table(S, "session") :
                 /\ other.session # row.session
                 /\ other.op # row.op) =>
               KeysApart(S, row)
         /\ row.table = "event" /\ (\A other \in Table(S, "event") : other.session # row.session) =>
               KeysApart(S, row)
         /\ row.table = "evidence" /\ (\A other \in Table(S, "evidence") : other.run # row.run \/ other.version # row.version) =>
               KeysApart(S, row)
         /\ row.table = "root" /\ (\A other \in Table(S, "root") : other.run # row.run) =>
               KeysApart(S, row)
         /\ row.table = "visit" /\ (\A other \in Table(S, "visit") :
                 /\ other.session # row.session
                 /\ other.run # row.run \/ other.ordinal # row.ordinal
                 /\ other.run # row.run \/ other.joined # row.joined) =>
               KeysApart(S, row)
         /\ row.table = "entry" /\ (\A other \in Table(S, "entry") : other.session # row.session) =>
               KeysApart(S, row)
  <1>1. ASSUME NEW other \in S, row.table # other.table
        PROVE  StoreKeys(row) \cap StoreKeys(other) = {}
    <2> SUFFICES ASSUME NEW key \in StoreKeys(row), key \in StoreKeys(other) PROVE FALSE
      OBVIOUS
    <2> QED BY <1>1, KeysTellTables
  <1>2. ASSUME \A other \in Table(S, row.table) : StoreKeys(row) \cap StoreKeys(other) = {}
        PROVE  KeysApart(S, row)
    BY <1>1, <1>2 DEF KeysApart, Table
  <1>3. row.table = "binding" /\ (\A other \in Table(S, "binding") : other.who # row.who) =>
              KeysApart(S, row)
    <2> SUFFICES ASSUME row.table = "binding", NEW other \in Table(S, "binding"),
                        other.who # row.who
                 PROVE  StoreKeys(row) \cap StoreKeys(other) = {}
      BY <1>2
    <2>1. StoreKeys(row) =
             {<<"binding", row.who>>}
      BY RowKeys
    <2>2. StoreKeys(other) =
             {<<"binding", other.who>>}
      BY RowKeys DEF Table
    <2> QED BY <2>1, <2>2
  <1>4. row.table = "revision" /\ (\A other \in Table(S, "revision") : other.char # row.char \/ other.rev # row.rev) =>
              KeysApart(S, row)
    <2> SUFFICES ASSUME row.table = "revision", NEW other \in Table(S, "revision"),
                        other.char # row.char \/ other.rev # row.rev
                 PROVE  StoreKeys(row) \cap StoreKeys(other) = {}
      BY <1>2
    <2>1. StoreKeys(row) =
             {<<"revision", row.char, row.rev>>}
      BY RowKeys
    <2>2. StoreKeys(other) =
             {<<"revision", other.char, other.rev>>}
      BY RowKeys DEF Table
    <2> QED BY <2>1, <2>2
  <1>5. row.table = "creation_receipt" /\ (\A other \in Table(S, "creation_receipt") :
                /\ other.who # row.who \/ other.key # row.key
                /\ other.char # row.char) =>
              KeysApart(S, row)
    <2> SUFFICES ASSUME row.table = "creation_receipt", NEW other \in Table(S, "creation_receipt"),
                        other.who # row.who \/ other.key # row.key,
                        other.char # row.char
                 PROVE  StoreKeys(row) \cap StoreKeys(other) = {}
      BY <1>2
    <2>1. StoreKeys(row) =
             {<<"creation", row.who, row.key>>, <<"created_character", row.char>>}
      BY RowKeys
    <2>2. StoreKeys(other) =
             {<<"creation", other.who, other.key>>, <<"created_character", other.char>>}
      BY RowKeys DEF Table
    <2> QED BY <2>1, <2>2
  <1>6. row.table = "mutation_receipt" /\ (\A other \in Table(S, "mutation_receipt") :
                /\ other.char # row.char \/ other.key # row.key
                /\ other.char # row.char \/ other.rev # row.rev) =>
              KeysApart(S, row)
    <2> SUFFICES ASSUME row.table = "mutation_receipt", NEW other \in Table(S, "mutation_receipt"),
                        other.char # row.char \/ other.key # row.key,
                        other.char # row.char \/ other.rev # row.rev
                 PROVE  StoreKeys(row) \cap StoreKeys(other) = {}
      BY <1>2
    <2>1. StoreKeys(row) =
             {<<"mutation", row.char, row.key>>, <<"mutated_revision", row.char, row.rev>>}
      BY RowKeys
    <2>2. StoreKeys(other) =
             {<<"mutation", other.char, other.key>>, <<"mutated_revision", other.char, other.rev>>}
      BY RowKeys DEF Table
    <2> QED BY <2>1, <2>2
  <1>7. row.table = "run" /\ (\A other \in Table(S, "run") : other.run # row.run \/ other.version # row.version) =>
              KeysApart(S, row)
    <2> SUFFICES ASSUME row.table = "run", NEW other \in Table(S, "run"),
                        other.run # row.run \/ other.version # row.version
                 PROVE  StoreKeys(row) \cap StoreKeys(other) = {}
      BY <1>2
    <2>1. StoreKeys(row) =
             {<<"run", row.run, row.version>>}
      BY RowKeys
    <2>2. StoreKeys(other) =
             {<<"run", other.run, other.version>>}
      BY RowKeys DEF Table
    <2> QED BY <2>1, <2>2
  <1>8. row.table = "run_creation" /\ (\A other \in Table(S, "run_creation") :
                /\ other.op # row.op
                /\ other.run # row.run) =>
              KeysApart(S, row)
    <2> SUFFICES ASSUME row.table = "run_creation", NEW other \in Table(S, "run_creation"),
                        other.op # row.op,
                        other.run # row.run
                 PROVE  StoreKeys(row) \cap StoreKeys(other) = {}
      BY <1>2
    <2>1. StoreKeys(row) =
             {<<"run_op", row.op>>, <<"created_run", row.run>>}
      BY RowKeys
    <2>2. StoreKeys(other) =
             {<<"run_op", other.op>>, <<"created_run", other.run>>}
      BY RowKeys DEF Table
    <2> QED BY <2>1, <2>2
  <1>9. row.table = "run_receipt" /\ (\A other \in Table(S, "run_receipt") :
                /\ other.run # row.run \/ other.kind # row.kind \/ other.op # row.op
                /\ other.run # row.run \/ other.version # row.version) =>
              KeysApart(S, row)
    <2> SUFFICES ASSUME row.table = "run_receipt", NEW other \in Table(S, "run_receipt"),
                        other.run # row.run \/ other.kind # row.kind \/ other.op # row.op,
                        other.run # row.run \/ other.version # row.version
                 PROVE  StoreKeys(row) \cap StoreKeys(other) = {}
      BY <1>2
    <2>1. StoreKeys(row) =
             {<<"step_op", row.run, row.kind, row.op>>, <<"step", row.run, row.version>>}
      BY RowKeys
    <2>2. StoreKeys(other) =
             {<<"step_op", other.run, other.kind, other.op>>, <<"step", other.run, other.version>>}
      BY RowKeys DEF Table
    <2> QED BY <2>1, <2>2
  <1>10. row.table = "participation" /\ (\A other \in Table(S, "participation") :
                /\ other.session # row.session
                /\ other.run # row.run \/ other.version # row.version) =>
              KeysApart(S, row)
    <2> SUFFICES ASSUME row.table = "participation", NEW other \in Table(S, "participation"),
                        other.session # row.session,
                        other.run # row.run \/ other.version # row.version
                 PROVE  StoreKeys(row) \cap StoreKeys(other) = {}
      BY <1>2
    <2>1. StoreKeys(row) =
             {<<"member", row.session>>, <<"joined", row.run, row.version>>, <<"joined exactly", row.session, row.run, row.version>>}
      BY RowKeys
    <2>2. StoreKeys(other) =
             {<<"member", other.session>>, <<"joined", other.run, other.version>>, <<"joined exactly", other.session, other.run, other.version>>}
      BY RowKeys DEF Table
    <2>3. <<"member", row.session>> \notin StoreKeys(other)
      BY <2>2
    <2>4. <<"joined", row.run, row.version>> \notin StoreKeys(other)
      BY <2>2
    <2>5. <<"joined exactly", row.session, row.run, row.version>> \notin StoreKeys(other)
      BY <2>2
    <2> QED BY <2>1, <2>3, <2>4, <2>5
  <1>11. row.table = "admission" /\ (\A other \in Table(S, "admission") : other.run # row.run) =>
              KeysApart(S, row)
    <2> SUFFICES ASSUME row.table = "admission", NEW other \in Table(S, "admission"),
                        other.run # row.run
                 PROVE  StoreKeys(row) \cap StoreKeys(other) = {}
      BY <1>2
    <2>1. StoreKeys(row) =
             {<<"admission", row.run>>}
      BY RowKeys
    <2>2. StoreKeys(other) =
             {<<"admission", other.run>>}
      BY RowKeys DEF Table
    <2> QED BY <2>1, <2>2
  <1>12. row.table = "confirmation" /\ (\A other \in Table(S, "confirmation") :
                /\ other.offer # row.offer
                /\ other.run # row.run) =>
              KeysApart(S, row)
    <2> SUFFICES ASSUME row.table = "confirmation", NEW other \in Table(S, "confirmation"),
                        other.offer # row.offer,
                        other.run # row.run
                 PROVE  StoreKeys(row) \cap StoreKeys(other) = {}
      BY <1>2
    <2>1. StoreKeys(row) =
             {<<"confirmation", row.offer>>, <<"opened_run", row.run>>}
      BY RowKeys
    <2>2. StoreKeys(other) =
             {<<"confirmation", other.offer>>, <<"opened_run", other.run>>}
      BY RowKeys DEF Table
    <2> QED BY <2>1, <2>2
  <1>13. row.table = "session" /\ (\A other \in Table(S, "session") :
                /\ other.session # row.session
                /\ other.op # row.op) =>
              KeysApart(S, row)
    <2> SUFFICES ASSUME row.table = "session", NEW other \in Table(S, "session"),
                        other.session # row.session,
                        other.op # row.op
                 PROVE  StoreKeys(row) \cap StoreKeys(other) = {}
      BY <1>2
    <2>1. StoreKeys(row) =
             {<<"session", row.session>>, <<"request", row.op>>}
      BY RowKeys
    <2>2. StoreKeys(other) =
             {<<"session", other.session>>, <<"request", other.op>>}
      BY RowKeys DEF Table
    <2> QED BY <2>1, <2>2
  <1>14. row.table = "event" /\ (\A other \in Table(S, "event") : other.session # row.session) =>
              KeysApart(S, row)
    <2> SUFFICES ASSUME row.table = "event", NEW other \in Table(S, "event"),
                        other.session # row.session
                 PROVE  StoreKeys(row) \cap StoreKeys(other) = {}
      BY <1>2
    <2>1. StoreKeys(row) =
             {<<"event", row.session, row.seq>>}
      BY RowKeys
    <2>2. StoreKeys(other) =
             {<<"event", other.session, other.seq>>}
      BY RowKeys DEF Table
    <2> QED BY <2>1, <2>2
  <1>15. row.table = "evidence" /\ (\A other \in Table(S, "evidence") : other.run # row.run \/ other.version # row.version) =>
              KeysApart(S, row)
    <2> SUFFICES ASSUME row.table = "evidence", NEW other \in Table(S, "evidence"),
                        other.run # row.run \/ other.version # row.version
                 PROVE  StoreKeys(row) \cap StoreKeys(other) = {}
      BY <1>2
    <2>1. StoreKeys(row) =
             {<<"evidence", row.run, row.version>>}
      BY RowKeys
    <2>2. StoreKeys(other) =
             {<<"evidence", other.run, other.version>>}
      BY RowKeys DEF Table
    <2> QED BY <2>1, <2>2
  <1>16. row.table = "root" /\ (\A other \in Table(S, "root") : other.run # row.run) =>
              KeysApart(S, row)
    <2> SUFFICES ASSUME row.table = "root", NEW other \in Table(S, "root"),
                        other.run # row.run
                 PROVE  StoreKeys(row) \cap StoreKeys(other) = {}
      BY <1>2
    <2>1. StoreKeys(row) =
             {<<"root", row.run, row.basis>>}
      BY RowKeys
    <2>2. StoreKeys(other) =
             {<<"root", other.run, other.basis>>}
      BY RowKeys DEF Table
    <2> QED BY <2>1, <2>2
  <1>17. row.table = "visit" /\ (\A other \in Table(S, "visit") :
                /\ other.session # row.session
                /\ other.run # row.run \/ other.ordinal # row.ordinal
                /\ other.run # row.run \/ other.joined # row.joined) =>
              KeysApart(S, row)
    <2> SUFFICES ASSUME row.table = "visit", NEW other \in Table(S, "visit"),
                        other.session # row.session,
                        other.run # row.run \/ other.ordinal # row.ordinal,
                        other.run # row.run \/ other.joined # row.joined
                 PROVE  StoreKeys(row) \cap StoreKeys(other) = {}
      BY <1>2
    <2>1. StoreKeys(row) =
             {<<"visit", row.run, row.ordinal>>, <<"visit at", row.run, row.joined>>, <<"visited", row.session>>, <<"visit of", row.run, row.session>>}
      BY RowKeys
    <2>2. StoreKeys(other) =
             {<<"visit", other.run, other.ordinal>>, <<"visit at", other.run, other.joined>>, <<"visited", other.session>>, <<"visit of", other.run, other.session>>}
      BY RowKeys DEF Table
    <2>3. <<"visit", row.run, row.ordinal>> \notin StoreKeys(other)
      BY <2>2
    <2>4. <<"visit at", row.run, row.joined>> \notin StoreKeys(other)
      BY <2>2
    <2>5. <<"visited", row.session>> \notin StoreKeys(other)
      BY <2>2
    <2>6. <<"visit of", row.run, row.session>> \notin StoreKeys(other)
      BY <2>2
    <2> QED BY <2>1, <2>3, <2>4, <2>5, <2>6
  <1>18. row.table = "entry" /\ (\A other \in Table(S, "entry") : other.session # row.session) =>
              KeysApart(S, row)
    <2> SUFFICES ASSUME row.table = "entry", NEW other \in Table(S, "entry"),
                        other.session # row.session
                 PROVE  StoreKeys(row) \cap StoreKeys(other) = {}
      BY <1>2
    <2>1. StoreKeys(row) =
             {<<"entry", row.run, row.session>>, <<"entered", row.session>>}
      BY RowKeys
    <2>2. StoreKeys(other) =
             {<<"entry", other.run, other.session>>, <<"entered", other.session>>}
      BY RowKeys DEF Table
    <2> QED BY <2>1, <2>2
  <1> QED BY <1>3, <1>4, <1>5, <1>6, <1>7, <1>8, <1>9, <1>10, <1>11, <1>12, <1>13, <1>14, <1>15, <1>16, <1>17, <1>18

\* Who owns a row's keys, table by table.
LEMMA RowOwners ==
  ASSUME NEW row, NEW O
  PROVE
         /\ row.table = "binding" /\ ControllerLock(row.who) \in O =>
              \A key \in StoreKeys(row) : KeyOwner(key) \in O
         /\ row.table = "revision" /\ CharacterLock(row.char) \in O =>
              \A key \in StoreKeys(row) : KeyOwner(key) \in O
         /\ row.table = "creation_receipt" /\ {ControllerLock(row.who), CharacterLock(row.char)} \subseteq O =>
              \A key \in StoreKeys(row) : KeyOwner(key) \in O
         /\ row.table = "mutation_receipt" /\ CharacterLock(row.char) \in O =>
              \A key \in StoreKeys(row) : KeyOwner(key) \in O
         /\ row.table = "run" /\ RunLock(row.run) \in O =>
              \A key \in StoreKeys(row) : KeyOwner(key) \in O
         /\ row.table = "run_creation" /\ {RequestOwner(row.op), RunLock(row.run)} \subseteq O =>
              \A key \in StoreKeys(row) : KeyOwner(key) \in O
         /\ row.table = "run_receipt" /\ RunLock(row.run) \in O =>
              \A key \in StoreKeys(row) : KeyOwner(key) \in O
         /\ row.table = "participation" /\ {SessionLock(row.session), RunLock(row.run)} \subseteq O =>
              \A key \in StoreKeys(row) : KeyOwner(key) \in O
         /\ row.table = "admission" /\ RunLock(row.run) \in O =>
              \A key \in StoreKeys(row) : KeyOwner(key) \in O
         /\ row.table = "offer" /\ <<"offering", None>> \in O =>
              \A key \in StoreKeys(row) : KeyOwner(key) \in O
         /\ row.table = "confirmation" /\ {<<"offer", row.offer>>, RunLock(row.run)} \subseteq O =>
              \A key \in StoreKeys(row) : KeyOwner(key) \in O
         /\ row.table = "session" /\ {SessionLock(row.session), RequestOwner(row.op)} \subseteq O =>
              \A key \in StoreKeys(row) : KeyOwner(key) \in O
         /\ row.table = "turn" /\ SessionLock(row.session) \in O =>
              \A key \in StoreKeys(row) : KeyOwner(key) \in O
         /\ row.table = "event" /\ SessionLock(row.session) \in O =>
              \A key \in StoreKeys(row) : KeyOwner(key) \in O
         /\ row.table = "evidence" /\ RunLock(row.run) \in O =>
              \A key \in StoreKeys(row) : KeyOwner(key) \in O
         /\ row.table = "root" /\ RunLock(row.run) \in O =>
              \A key \in StoreKeys(row) : KeyOwner(key) \in O
         /\ row.table = "visit" /\ {RunLock(row.run), SessionLock(row.session)} \subseteq O =>
              \A key \in StoreKeys(row) : KeyOwner(key) \in O
         /\ row.table = "entry" /\ {RunLock(row.run), SessionLock(row.session)} \subseteq O =>
              \A key \in StoreKeys(row) : KeyOwner(key) \in O
  <1>1. row.table = "binding" /\ ControllerLock(row.who) \in O =>
              \A key \in StoreKeys(row) : KeyOwner(key) \in O
    <2> SUFFICES ASSUME row.table = "binding", {ControllerLock(row.who)} \subseteq O, NEW key \in StoreKeys(row)
                 PROVE  KeyOwner(key) \in O
      OBVIOUS
    <2>1. StoreKeys(row) =
             {<<"binding", row.who>>}
      BY RowKeys
    <2>2. KeyOwner(<<"binding", row.who>>) \in O
      BY DEF KeyOwner
    <2> QED BY <2>1, <2>2
  <1>2. row.table = "revision" /\ CharacterLock(row.char) \in O =>
              \A key \in StoreKeys(row) : KeyOwner(key) \in O
    <2> SUFFICES ASSUME row.table = "revision", {CharacterLock(row.char)} \subseteq O, NEW key \in StoreKeys(row)
                 PROVE  KeyOwner(key) \in O
      OBVIOUS
    <2>1. StoreKeys(row) =
             {<<"revision", row.char, row.rev>>}
      BY RowKeys
    <2>2. KeyOwner(<<"revision", row.char, row.rev>>) \in O
      BY DEF KeyOwner
    <2> QED BY <2>1, <2>2
  <1>3. row.table = "creation_receipt" /\ {ControllerLock(row.who), CharacterLock(row.char)} \subseteq O =>
              \A key \in StoreKeys(row) : KeyOwner(key) \in O
    <2> SUFFICES ASSUME row.table = "creation_receipt", {ControllerLock(row.who), CharacterLock(row.char)} \subseteq O, NEW key \in StoreKeys(row)
                 PROVE  KeyOwner(key) \in O
      OBVIOUS
    <2>1. StoreKeys(row) =
             {<<"creation", row.who, row.key>>, <<"created_character", row.char>>}
      BY RowKeys
    <2>2. KeyOwner(<<"creation", row.who, row.key>>) \in O
      BY DEF KeyOwner
    <2>3. KeyOwner(<<"created_character", row.char>>) \in O
      BY DEF KeyOwner
    <2> QED BY <2>1, <2>2, <2>3
  <1>4. row.table = "mutation_receipt" /\ CharacterLock(row.char) \in O =>
              \A key \in StoreKeys(row) : KeyOwner(key) \in O
    <2> SUFFICES ASSUME row.table = "mutation_receipt", {CharacterLock(row.char)} \subseteq O, NEW key \in StoreKeys(row)
                 PROVE  KeyOwner(key) \in O
      OBVIOUS
    <2>1. StoreKeys(row) =
             {<<"mutation", row.char, row.key>>, <<"mutated_revision", row.char, row.rev>>}
      BY RowKeys
    <2>2. KeyOwner(<<"mutation", row.char, row.key>>) \in O
      BY DEF KeyOwner
    <2>3. KeyOwner(<<"mutated_revision", row.char, row.rev>>) \in O
      BY DEF KeyOwner
    <2> QED BY <2>1, <2>2, <2>3
  <1>5. row.table = "run" /\ RunLock(row.run) \in O =>
              \A key \in StoreKeys(row) : KeyOwner(key) \in O
    <2> SUFFICES ASSUME row.table = "run", {RunLock(row.run)} \subseteq O, NEW key \in StoreKeys(row)
                 PROVE  KeyOwner(key) \in O
      OBVIOUS
    <2>1. StoreKeys(row) =
             {<<"run", row.run, row.version>>}
      BY RowKeys
    <2>2. KeyOwner(<<"run", row.run, row.version>>) \in O
      BY DEF KeyOwner
    <2> QED BY <2>1, <2>2
  <1>6. row.table = "run_creation" /\ {RequestOwner(row.op), RunLock(row.run)} \subseteq O =>
              \A key \in StoreKeys(row) : KeyOwner(key) \in O
    <2> SUFFICES ASSUME row.table = "run_creation", {RequestOwner(row.op), RunLock(row.run)} \subseteq O, NEW key \in StoreKeys(row)
                 PROVE  KeyOwner(key) \in O
      OBVIOUS
    <2>1. StoreKeys(row) =
             {<<"run_op", row.op>>, <<"created_run", row.run>>}
      BY RowKeys
    <2>2. KeyOwner(<<"run_op", row.op>>) \in O
      BY DEF KeyOwner
    <2>3. KeyOwner(<<"created_run", row.run>>) \in O
      BY DEF KeyOwner
    <2> QED BY <2>1, <2>2, <2>3
  <1>7. row.table = "run_receipt" /\ RunLock(row.run) \in O =>
              \A key \in StoreKeys(row) : KeyOwner(key) \in O
    <2> SUFFICES ASSUME row.table = "run_receipt", {RunLock(row.run)} \subseteq O, NEW key \in StoreKeys(row)
                 PROVE  KeyOwner(key) \in O
      OBVIOUS
    <2>1. StoreKeys(row) =
             {<<"step_op", row.run, row.kind, row.op>>, <<"step", row.run, row.version>>}
      BY RowKeys
    <2>2. KeyOwner(<<"step_op", row.run, row.kind, row.op>>) \in O
      BY DEF KeyOwner
    <2>3. KeyOwner(<<"step", row.run, row.version>>) \in O
      BY DEF KeyOwner
    <2> QED BY <2>1, <2>2, <2>3
  <1>8. row.table = "participation" /\ {SessionLock(row.session), RunLock(row.run)} \subseteq O =>
              \A key \in StoreKeys(row) : KeyOwner(key) \in O
    <2> SUFFICES ASSUME row.table = "participation", {SessionLock(row.session), RunLock(row.run)} \subseteq O, NEW key \in StoreKeys(row)
                 PROVE  KeyOwner(key) \in O
      OBVIOUS
    <2>1. StoreKeys(row) =
             {<<"member", row.session>>, <<"joined", row.run, row.version>>, <<"joined exactly", row.session, row.run, row.version>>}
      BY RowKeys
    <2>2. KeyOwner(<<"member", row.session>>) \in O
      BY DEF KeyOwner
    <2>3. KeyOwner(<<"joined", row.run, row.version>>) \in O
      BY DEF KeyOwner
    <2>4. KeyOwner(<<"joined exactly", row.session, row.run, row.version>>) \in O
      BY DEF KeyOwner
    <2> QED BY <2>1, <2>2, <2>3, <2>4
  <1>9. row.table = "admission" /\ RunLock(row.run) \in O =>
              \A key \in StoreKeys(row) : KeyOwner(key) \in O
    <2> SUFFICES ASSUME row.table = "admission", {RunLock(row.run)} \subseteq O, NEW key \in StoreKeys(row)
                 PROVE  KeyOwner(key) \in O
      OBVIOUS
    <2>1. StoreKeys(row) =
             {<<"admission", row.run>>}
      BY RowKeys
    <2>2. KeyOwner(<<"admission", row.run>>) \in O
      BY DEF KeyOwner
    <2> QED BY <2>1, <2>2
  <1>10. row.table = "offer" /\ <<"offering", None>> \in O =>
              \A key \in StoreKeys(row) : KeyOwner(key) \in O
    <2> SUFFICES ASSUME row.table = "offer", {<<"offering", None>>} \subseteq O, NEW key \in StoreKeys(row)
                 PROVE  KeyOwner(key) \in O
      OBVIOUS
    <2>1. StoreKeys(row) =
             {<<"offer", row.offer>>, <<"offer_key", row.who, row.key>>, <<"ordinal", row.char, row.ordinal>>}
      BY RowKeys
    <2>2. KeyOwner(<<"offer", row.offer>>) \in O
      BY DEF KeyOwner
    <2>3. KeyOwner(<<"offer_key", row.who, row.key>>) \in O
      BY DEF KeyOwner
    <2>4. KeyOwner(<<"ordinal", row.char, row.ordinal>>) \in O
      BY DEF KeyOwner
    <2> QED BY <2>1, <2>2, <2>3, <2>4
  <1>11. row.table = "confirmation" /\ {<<"offer", row.offer>>, RunLock(row.run)} \subseteq O =>
              \A key \in StoreKeys(row) : KeyOwner(key) \in O
    <2> SUFFICES ASSUME row.table = "confirmation", {<<"offer", row.offer>>, RunLock(row.run)} \subseteq O, NEW key \in StoreKeys(row)
                 PROVE  KeyOwner(key) \in O
      OBVIOUS
    <2>1. StoreKeys(row) =
             {<<"confirmation", row.offer>>, <<"opened_run", row.run>>}
      BY RowKeys
    <2>2. KeyOwner(<<"confirmation", row.offer>>) \in O
      BY DEF KeyOwner
    <2>3. KeyOwner(<<"opened_run", row.run>>) \in O
      BY DEF KeyOwner
    <2> QED BY <2>1, <2>2, <2>3
  <1>12. row.table = "session" /\ {SessionLock(row.session), RequestOwner(row.op)} \subseteq O =>
              \A key \in StoreKeys(row) : KeyOwner(key) \in O
    <2> SUFFICES ASSUME row.table = "session", {SessionLock(row.session), RequestOwner(row.op)} \subseteq O, NEW key \in StoreKeys(row)
                 PROVE  KeyOwner(key) \in O
      OBVIOUS
    <2>1. StoreKeys(row) =
             {<<"session", row.session>>, <<"request", row.op>>}
      BY RowKeys
    <2>2. KeyOwner(<<"session", row.session>>) \in O
      BY DEF KeyOwner
    <2>3. KeyOwner(<<"request", row.op>>) \in O
      BY DEF KeyOwner
    <2> QED BY <2>1, <2>2, <2>3
  <1>13. row.table = "turn" /\ SessionLock(row.session) \in O =>
              \A key \in StoreKeys(row) : KeyOwner(key) \in O
    <2> SUFFICES ASSUME row.table = "turn", {SessionLock(row.session)} \subseteq O, NEW key \in StoreKeys(row)
                 PROVE  KeyOwner(key) \in O
      OBVIOUS
    <2>1. StoreKeys(row) =
             {<<"turn", row.session, row.key>>}
      BY RowKeys
    <2>2. KeyOwner(<<"turn", row.session, row.key>>) \in O
      BY DEF KeyOwner
    <2> QED BY <2>1, <2>2
  <1>14. row.table = "event" /\ SessionLock(row.session) \in O =>
              \A key \in StoreKeys(row) : KeyOwner(key) \in O
    <2> SUFFICES ASSUME row.table = "event", {SessionLock(row.session)} \subseteq O, NEW key \in StoreKeys(row)
                 PROVE  KeyOwner(key) \in O
      OBVIOUS
    <2>1. StoreKeys(row) =
             {<<"event", row.session, row.seq>>}
      BY RowKeys
    <2>2. KeyOwner(<<"event", row.session, row.seq>>) \in O
      BY DEF KeyOwner
    <2> QED BY <2>1, <2>2
  <1>15. row.table = "evidence" /\ RunLock(row.run) \in O =>
              \A key \in StoreKeys(row) : KeyOwner(key) \in O
    <2> SUFFICES ASSUME row.table = "evidence", {RunLock(row.run)} \subseteq O, NEW key \in StoreKeys(row)
                 PROVE  KeyOwner(key) \in O
      OBVIOUS
    <2>1. StoreKeys(row) =
             {<<"evidence", row.run, row.version>>}
      BY RowKeys
    <2>2. KeyOwner(<<"evidence", row.run, row.version>>) \in O
      BY DEF KeyOwner
    <2> QED BY <2>1, <2>2
  <1>16. row.table = "root" /\ RunLock(row.run) \in O =>
              \A key \in StoreKeys(row) : KeyOwner(key) \in O
    <2> SUFFICES ASSUME row.table = "root", {RunLock(row.run)} \subseteq O, NEW key \in StoreKeys(row)
                 PROVE  KeyOwner(key) \in O
      OBVIOUS
    <2>1. StoreKeys(row) =
             {<<"root", row.run, row.basis>>}
      BY RowKeys
    <2>2. KeyOwner(<<"root", row.run, row.basis>>) \in O
      BY DEF KeyOwner
    <2> QED BY <2>1, <2>2
  <1>17. row.table = "visit" /\ {RunLock(row.run), SessionLock(row.session)} \subseteq O =>
              \A key \in StoreKeys(row) : KeyOwner(key) \in O
    <2> SUFFICES ASSUME row.table = "visit", {RunLock(row.run), SessionLock(row.session)} \subseteq O, NEW key \in StoreKeys(row)
                 PROVE  KeyOwner(key) \in O
      OBVIOUS
    <2>1. StoreKeys(row) =
             {<<"visit", row.run, row.ordinal>>, <<"visit at", row.run, row.joined>>, <<"visited", row.session>>, <<"visit of", row.run, row.session>>}
      BY RowKeys
    <2>2. KeyOwner(<<"visit", row.run, row.ordinal>>) \in O
      BY DEF KeyOwner
    <2>3. KeyOwner(<<"visit at", row.run, row.joined>>) \in O
      BY DEF KeyOwner
    <2>4. KeyOwner(<<"visited", row.session>>) \in O
      BY DEF KeyOwner
    <2>5. KeyOwner(<<"visit of", row.run, row.session>>) \in O
      BY DEF KeyOwner
    <2> QED BY <2>1, <2>2, <2>3, <2>4, <2>5
  <1>18. row.table = "entry" /\ {RunLock(row.run), SessionLock(row.session)} \subseteq O =>
              \A key \in StoreKeys(row) : KeyOwner(key) \in O
    <2> SUFFICES ASSUME row.table = "entry", {RunLock(row.run), SessionLock(row.session)} \subseteq O, NEW key \in StoreKeys(row)
                 PROVE  KeyOwner(key) \in O
      OBVIOUS
    <2>1. StoreKeys(row) =
             {<<"entry", row.run, row.session>>, <<"entered", row.session>>}
      BY RowKeys
    <2>2. KeyOwner(<<"entry", row.run, row.session>>) \in O
      BY DEF KeyOwner
    <2>3. KeyOwner(<<"entered", row.session>>) \in O
      BY DEF KeyOwner
    <2> QED BY <2>1, <2>2, <2>3
  <1> QED BY <1>1, <1>2, <1>3, <1>4, <1>5, <1>6, <1>7, <1>8, <1>9, <1>10, <1>11, <1>12, <1>13, <1>14, <1>15, <1>16, <1>17, <1>18

-----------------------------------------------------------------------------
(* Characters                                                               *)

\* What is one's own: what is new, and the locks on what is there.
LEMMA OwnLocks ==
  ASSUME NEW D, NEW q, NEW held, NEW R
  PROVE  /\ \A n \in Named(R) \ Named(D.rows) :
              {CharacterLock(n), RunLock(n), SessionLock(n)} \subseteq Owns(D, q, held, R)
         /\ \A w : ControllerLock(w) \in held => ControllerLock(w) \in Owns(D, q, held, R)
         /\ \A n \in Named(D.rows) :
              /\ CharacterLock(n) \in held => CharacterLock(n) \in Owns(D, q, held, R)
              /\ RunLock(n) \in held => RunLock(n) \in Owns(D, q, held, R)
              /\ SessionLock(n) \in held => SessionLock(n) \in Owns(D, q, held, R)
         /\ q.op = "confirm" => <<"offer", q.offer>> \in Owns(D, q, held, R)
         /\ q.op = "prepare" => <<"offering", None>> \in Owns(D, q, held, R)
         /\ q.op \in Creations => <<"request", Op(q)>> \in Owns(D, q, held, R)
  <1>1. \A n \in Named(R) \ Named(D.rows) :
              {CharacterLock(n), RunLock(n), SessionLock(n)} \subseteq NewLocks(D, R)
    BY DEF NewLocks
  <1>2. \A lock : lock \in NewLocks(D, R) \cup Locks(D, held) => lock \in Owns(D, q, held, R)
    BY DEF Owns
  <1>3. \A w : ControllerLock(w) \in held => ControllerLock(w) \in Locks(D, held)
    BY DEF ControllerLock, Locks
  <1>4. \A n \in Named(D.rows) :
              /\ CharacterLock(n) \in held => CharacterLock(n) \in Locks(D, held)
              /\ RunLock(n) \in held => RunLock(n) \in Locks(D, held)
              /\ SessionLock(n) \in held => SessionLock(n) \in Locks(D, held)
    BY DEF CharacterLock, RunLock, SessionLock, Locks
  <1>5. /\ q.op = "confirm" => <<"offer", q.offer>> \in Owns(D, q, held, R)
        /\ q.op = "prepare" => <<"offering", None>> \in Owns(D, q, held, R)
        /\ q.op \in Creations => <<"request", Op(q)>> \in Owns(D, q, held, R)
    BY DEF Owns
  <1> QED BY <1>1, <1>2, <1>3, <1>4, <1>5

\* Rows that nobody else may write, and of whose names only x is new.
Original(D, q, held, x, R) == RowsOwned(D, q, held, R) /\ Named(R) \subseteq Named(D.rows) \cup {x}

\* Nothing is nobody else's.
LEMMA NothingOriginal ==
  ASSUME NEW D, NEW q, NEW held, NEW x
  PROVE  Original(D, q, held, x, {})
  BY DEF Original, RowsOwned, Unclaimed, RequestsHang, Taken, KeysOf, Named, Table

\* The names in rows.
LEMMA NamesOf ==
  ASSUME NEW R
  PROVE  \A n : n \in Named(R) <=> \/ \E row \in R : row.table = "revision" /\ row.char = n
                                   \/ \E row \in R : row.table = "run" /\ row.run = n
                                   \/ \E row \in R : row.table = "session" /\ row.session = n
                                   \/ \E row \in R : row.table = "offer" /\ row.offer = n
  BY DEF Named, Table

\* A new character is its player's.
LEMMA CreationOriginal ==
  ASSUME NEW D, RowsWhole(D), RequestsHang(D.rows, D.rows), NEW q, q.op = "create",
         NEW held, ControllerLock(q.who) \in held, NEW x, x \notin Named(D.rows),
         CreationReceipts(D.rows, q) = {},
         NEW R, R = CreationRows(q, x) \cup ({Binding(q.who)} \ D.rows)
  PROVE  Original(D, q, held, x, R)
  <1> DEFINE O == Owns(D, q, held, R)
  <1>1. \A row \in R :
           \/ row.table = "revision" /\ row.char = x
           \/ row.table = "creation_receipt" /\ row.char = x /\ row.who = q.who /\ row.key = q.key
           \/ row.table = "binding" /\ row.who = q.who /\ row = Binding(q.who) /\ row \notin D.rows
    BY DEF CreationRows, Revision, CreationReceipt, Binding
  <1>2. Named(R) = {x}
    <2>1. \E row \in R : row.table = "revision" /\ row.char = x
      <3>1. PICK first : first = Revision(x, 1, "ACTIVE", q.who, "CREATE", q.body)
        OBVIOUS
      <3>2. first.table = "revision" /\ first.char = x
        BY <3>1 DEF Revision
      <3>3. first \in R
        BY <3>1 DEF CreationRows
      <3> QED BY <3>2, <3>3
    <2> QED BY <1>1, <2>1, NamesOf
  <1>3. CharacterLock(x) \in O /\ ControllerLock(q.who) \in O
    BY <1>2, OwnLocks
  <1>4. ASSUME NEW row \in R PROVE \A key \in StoreKeys(row) : KeyOwner(key) \in O
    <2> HIDE DEF O
    <2>1. CASE row.table = "revision"
      BY <1>1, <1>3, <2>1, RowOwners
    <2>2. CASE row.table = "creation_receipt"
      BY <1>1, <1>3, <2>2, RowOwners
    <2>3. CASE row.table = "binding"
      BY <1>1, <1>3, <2>3, RowOwners
    <2> QED BY <1>1, <2>1, <2>2, <2>3
  <1>5. ASSUME NEW row \in R PROVE KeysApart(D.rows, row)
    <2>1. CASE row.table = "revision"
      <3>1. \A other \in Table(D.rows, "revision") : other.char # row.char
        BY <1>1, <2>1, UnnamedRows DEF Table
      <3> QED BY <2>1, <3>1, NewKeys
    <2>2. CASE row.table = "creation_receipt"
      <3>1. \A other \in Table(D.rows, "creation_receipt") : other.char # row.char
        BY <1>1, <2>2, UnnamedRows DEF Table
      <3>2. \A other \in Table(D.rows, "creation_receipt") : other.who # row.who \/ other.key # row.key
        BY <1>1, <2>2 DEF CreationReceipts
      <3> QED BY <2>2, <3>1, <3>2, NewKeys
    <2>3. CASE row.table = "binding"
      <3>1. \A other \in Table(D.rows, "binding") : other.who # row.who
        BY <1>1, <2>3 DEF RequestsHang, Table
      <3> QED BY <2>3, <3>1, NewKeys
    <2> QED BY <1>1, <2>1, <2>2, <2>3
  <1>6. ~Taken(D, R)
    BY <1>5, TakesNothing
  <1>7. RequestsHang(R, D.rows \cup R)
    <2>1. \A row \in R : row.table \in {"revision", "creation_receipt", "binding"}
      BY <1>1
    <2>2. \A row \in R : row.table = "binding" => row = Binding(row.who)
      BY <1>1
    <2> QED BY <2>1, <2>2 DEF RequestsHang, Table
  <1>8. Unclaimed(D, q, R)
    BY <1>6 DEF Unclaimed, Creations
  <1> QED BY <1>2, <1>4, <1>7, <1>8 DEF Original, RowsOwned

\* The current revision of a valid character is its newest.
LEMMA CurrentIsNewest ==
  ASSUME NEW S, IsFiniteSet(S), NEW x, Revisions(S, x) # {}, ValidCharacter(S, x)
  PROVE  /\ Character(S, x) \in Revisions(S, x) /\ Character(S, x).rev \in Nat
         /\ \A other \in Revisions(S, x) : other.rev <= Character(S, x).rev
  <1> DEFINE T == Revisions(S, x)
             V == {row.rev : row \in T}
  <1>1. IsFiniteSet(T)
    BY TableIsFinite DEF Revisions, Table
  <1>2. V = 1..Cardinality(T)
    BY DEF ValidCharacter, CharacterFamily
  <1>3. V # {}
    OBVIOUS
  <1> HIDE DEF T
  <1>4. PICK n \in Nat : n >= 1 /\ V = 1..n
    BY <1>1, <1>2, <1>3, NumbersOfHistory DEF T
  <1>5. PICK last \in T : last.rev = n
    BY <1>4
  <1>6. \A other \in T : other.rev <= last.rev
    BY <1>4, <1>5
  <1>7. \E row \in T : \A other \in T : other.rev <= row.rev
    BY <1>6
  <1>8. Character(S, x) \in T /\ \A other \in T : other.rev <= Character(S, x).rev
    BY ONLY <1>7, Zenon DEF Character, T
  <1>9. Character(S, x).rev \in Nat
    BY <1>4, <1>8
  <1> QED BY <1>8, <1>9 DEF T

\* A new revision of a character is written under the character's lock.
LEMMA MutationOriginal ==
  ASSUME NEW D, RowsWhole(D), NEW q, q.op = "mutate", NEW held, CharacterLock(q.char) \in held,
         NEW x, Revisions(D.rows, q.char) # {}, MutationReceipts(D.rows, q) = {},
         NEW R, R = MutationRows(Character(D.rows, q.char), q)
  PROVE  Original(D, q, held, x, R)
  <1> DEFINE O == Owns(D, q, held, R)
             m == Character(D.rows, q.char)
  <1>1. \A row \in R :
           \/ row.table = "revision" /\ row.char = q.char /\ row.rev = m.rev + 1
           \/ row.table = "mutation_receipt" /\ row.char = q.char /\ row.key = q.key /\ row.rev = m.rev + 1
    BY DEF MutationRows, Revision, MutationReceipt
  <1>2. q.char \in Named(D.rows)
    BY NamesOf DEF Revisions, Table
  <1>3. Named(R) \subseteq Named(D.rows)
    BY <1>1, <1>2, NamesOf
  <1>4. CharacterLock(q.char) \in O
    BY <1>2, OwnLocks
  <1>5. \A row \in R : \A key \in StoreKeys(row) : KeyOwner(key) \in O
    <2> HIDE DEF O, m
    <2> QED BY <1>1, <1>4, RowOwners
  <1>6. \A other \in Revisions(D.rows, q.char) : other.rev # m.rev + 1
    <2>1. ValidCharacter(D.rows, q.char) /\ IsFiniteSet(D.rows)
      BY WholeFamilies
    <2>2. m.rev \in Nat /\ \A other \in Revisions(D.rows, q.char) : other.rev <= m.rev
      BY <2>1, CurrentIsNewest
    <2>3. \A other \in Revisions(D.rows, q.char) : other.rev \in Int
      <3>1. {row.rev : row \in Revisions(D.rows, q.char)} = 1..Cardinality(Revisions(D.rows, q.char))
        BY <2>1 DEF ValidCharacter, CharacterFamily
      <3> QED BY <3>1
    <2> HIDE DEF m
    <2> QED BY <2>2, <2>3
  <1>7. ASSUME NEW row \in R PROVE KeysApart(D.rows, row)
    <2> HIDE DEF m
    <2>1. CASE row.table = "revision"
      <3>1. \A other \in Table(D.rows, "revision") : other.char # row.char \/ other.rev # row.rev
        BY <1>1, <1>6, <2>1 DEF Revisions
      <3> QED BY <2>1, <3>1, NewKeys
    <2>2. CASE row.table = "mutation_receipt"
      <3>1. \A other \in Table(D.rows, "mutation_receipt") : other.char # row.char \/ other.key # row.key
        BY <1>1, <2>2 DEF MutationReceipts
      <3>2. \A other \in Table(D.rows, "mutation_receipt") : other.char # row.char \/ other.rev # row.rev
        <4>1. \A other \in Table(D.rows, "mutation_receipt") : other.char = q.char =>
                 \E a \in Revisions(D.rows, q.char) : a.rev = other.rev
          BY WholeFamilies, CharacterRows DEF RowsWhole
        <4> QED BY <1>1, <1>6, <2>2, <4>1
      <3> QED BY <2>2, <3>1, <3>2, NewKeys
    <2> QED BY <1>1, <2>1, <2>2
  <1>8. ~Taken(D, R)
    BY <1>7, TakesNothing
  <1>9. RequestsHang(R, D.rows \cup R)
    <2>1. \A row \in R : row.table \in {"revision", "mutation_receipt"}
      BY <1>1
    <2> QED BY <2>1 DEF RequestsHang, Table
  <1>10. Unclaimed(D, q, R)
    BY <1>8 DEF Unclaimed, Creations
  <1> QED BY <1>3, <1>5, <1>9, <1>10 DEF Original, RowsOwned

-----------------------------------------------------------------------------
(* Entries, openings and sessions                                           *)

\* The rows R, among them C, are a new run's, under a request nobody has made.
NewFamily(D, op, x, C, R) ==
    /\ Named(R) = {x}
    /\ ~Taken(D, R)
    /\ \A row \in R : row \in C \/ row.table \in {"run", "run_creation", "run_receipt", "participation",
                                                 "session", "admission"}
    /\ \A row \in R : row.table \in {"run_creation", "session"} => row.op = op
    /\ \E row \in R : row.table = "session" /\ row.op = op
    /\ \A O : /\ {RunLock(x), SessionLock(x), RequestOwner(op)} \subseteq O
              /\ \A row \in C : <<"offer", row.offer>> \in O
              => \A row \in R : \A key \in StoreKeys(row) : KeyOwner(key) \in O

\* An entry's rows are of a new run and a new session, under a request nobody has made.
LEMMA EntryApart ==
  ASSUME NEW D, RowsWhole(D), NEW op, NEW e, NEW x, x \notin Named(D.rows),
         RunCreations(D.rows, op) = {}, SessionsOf(D.rows, op) = {},
         NEW C, \A row \in C : /\ row.table = "confirmation" /\ row.run = x
                               /\ Confirmations(D.rows, row.offer) = {},
         NEW R, R = EntryRows(op, e, x, x) \cup C
  PROVE  NewFamily(D, op, x, C, R)
  <1>1. \A row \in EntryRows(op, e, x, x) :
           \/ row.table \in {"run", "run_receipt", "admission"} /\ row.run = x
           \/ row.table = "run_creation" /\ row.run = x /\ row.op = op
           \/ row.table = "participation" /\ row.run = x /\ row.session = x
           \/ row.table = "session" /\ row.session = x /\ row.op = op
    <2>1. \A row \in EntryCreation(op, e, x) :
             \/ row.table = "run" /\ row.run = x
             \/ row.table = "run_creation" /\ row.run = x /\ row.op = op
      BY DEF EntryCreation, RunRow, RunCreation
    <2>2. \A row \in EntryBinding(op, e, x) : row.table \in {"run", "run_receipt"} /\ row.run = x
      BY DEF EntryBinding, RunRow, RunReceipt
    <2>3. \A row \in EntryActivation(op, e, x, x) :
             \/ row.table \in {"run", "run_receipt"} /\ row.run = x
             \/ row.table = "participation" /\ row.run = x /\ row.session = x
      BY DEF EntryActivation, RunRow, RunReceipt, Participation
    <2>4. \A row \in {Session(x, op, e.world)} : row.table = "session" /\ row.session = x /\ row.op = op
      BY DEF Session
    <2>5. \A row \in {Admission(x, e.world)} : row.table = "admission" /\ row.run = x
      BY DEF Admission
    <2> QED BY <2>1, <2>2, <2>3, <2>4, <2>5 DEF EntryRows
  <1>2. \A row \in R :
           \/ row.table \in {"run", "run_receipt", "admission"} /\ row.run = x
           \/ row.table = "run_creation" /\ row.run = x /\ row.op = op
           \/ row.table = "participation" /\ row.run = x /\ row.session = x
           \/ row.table = "session" /\ row.session = x /\ row.op = op
           \/ row \in C /\ row.table = "confirmation" /\ row.run = x
    BY <1>1
  <1>3. \E row \in R : row.table = "session" /\ row.op = op /\ row.session = x
    <2>1. PICK row : row = Session(x, op, e.world)
      OBVIOUS
    <2>2. row.table = "session" /\ row.session = x /\ row.op = op
      BY <2>1 DEF Session
    <2>3. row \in R
      BY <2>1 DEF EntryRows
    <2> QED BY <2>2, <2>3
  <1> HIDE DEF EntryRows
  <1>4. Named(R) = {x}
    BY <1>2, <1>3, NamesOf
  <1>5. ASSUME NEW row \in R PROVE KeysApart(D.rows, row)
    <2>1. \A other \in D.rows : other.table \in NamesRun \cup {"run_receipt"} => other.run # x
      BY UnnamedRows
    <2>2. \A other \in D.rows : other.table \in {"session", "participation"} => other.session # x
      BY UnnamedRows
    <2>3. CASE row.table = "run"
      <3>1. \A other \in Table(D.rows, "run") : other.run # row.run
        BY <1>2, <2>1, <2>3 DEF Table, NamesRun
      <3> QED BY <2>3, <3>1, NewKeys
    <2>4. CASE row.table = "run_receipt"
      <3>1. \A other \in Table(D.rows, "run_receipt") : other.run # row.run
        BY <1>2, <2>1, <2>4 DEF Table
      <3> QED BY <2>4, <3>1, NewKeys
    <2>5. CASE row.table = "admission"
      <3>1. \A other \in Table(D.rows, "admission") : other.run # row.run
        BY <1>2, <2>1, <2>5 DEF Table, NamesRun
      <3> QED BY <2>5, <3>1, NewKeys
    <2>6. CASE row.table = "run_creation"
      <3>1. \A other \in Table(D.rows, "run_creation") : other.run # row.run
        BY <1>2, <2>1, <2>6 DEF Table, NamesRun
      <3>2. \A other \in Table(D.rows, "run_creation") : other.op # row.op
        BY <1>2, <2>6 DEF RunCreations
      <3> QED BY <2>6, <3>1, <3>2, NewKeys
    <2>7. CASE row.table = "participation"
      <3>1. \A other \in Table(D.rows, "participation") : other.run # row.run /\ other.session # row.session
        BY <1>2, <2>1, <2>2, <2>7 DEF Table, NamesRun
      <3> QED BY <2>7, <3>1, NewKeys
    <2>8. CASE row.table = "session"
      <3>1. \A other \in Table(D.rows, "session") : other.session # row.session
        BY <1>2, <2>2, <2>8 DEF Table
      <3>2. \A other \in Table(D.rows, "session") : other.op # row.op
        BY <1>2, <2>8 DEF SessionsOf
      <3> QED BY <2>8, <3>1, <3>2, NewKeys
    <2>9. CASE row \in C /\ row.table = "confirmation"
      <3>1. \A other \in Table(D.rows, "confirmation") : other.run # row.run
        BY <1>2, <2>1, <2>9 DEF Table, NamesRun
      <3>2. \A other \in Table(D.rows, "confirmation") : other.offer # row.offer
        BY <2>9 DEF Confirmations
      <3> QED BY <2>9, <3>1, <3>2, NewKeys
    <2> QED BY <1>2, <2>3, <2>4, <2>5, <2>6, <2>7, <2>8, <2>9
  <1>6. ~Taken(D, R)
    BY <1>5, TakesNothing
  <1>7. ASSUME NEW O, {RunLock(x), SessionLock(x), RequestOwner(op)} \subseteq O,
               \A row \in C : <<"offer", row.offer>> \in O, NEW row \in R
        PROVE  \A key \in StoreKeys(row) : KeyOwner(key) \in O
    <2>1. CASE row.table \in {"run", "run_receipt", "admission"}
      BY <1>2, <1>7, <2>1, RowOwners
    <2>2. CASE row.table = "run_creation"
      <3>1. row.run = x /\ row.op = op
        BY <1>2, <2>2
      <3>2. {RequestOwner(row.op), RunLock(row.run)} \subseteq O
        BY <1>7, <3>1
      <3> QED BY <2>2, <3>2, RowOwners
    <2>3. CASE row.table = "participation"
      <3>1. row.run = x /\ row.session = x
        BY <1>2, <2>3
      <3>2. {SessionLock(row.session), RunLock(row.run)} \subseteq O
        BY <1>7, <3>1
      <3> QED BY <2>3, <3>2, RowOwners
    <2>4. CASE row.table = "session"
      <3>1. row.session = x /\ row.op = op
        BY <1>2, <2>4
      <3>2. {SessionLock(row.session), RequestOwner(row.op)} \subseteq O
        BY <1>7, <3>1
      <3> QED BY <2>4, <3>2, RowOwners
    <2>5. CASE row \in C /\ row.table = "confirmation"
      <3>1. row.run = x
        BY <1>2, <2>5
      <3>2. {<<"offer", row.offer>>, RunLock(row.run)} \subseteq O
        BY <1>7, <2>5, <3>1
      <3> QED BY <2>5, <3>2, RowOwners
    <2> QED BY <1>2, <2>1, <2>2, <2>3, <2>4, <2>5
  <1>8. \A row \in R : row.table \in {"run_creation", "session"} => row.op = op
    BY <1>2
  <1>9. \A row \in R : row \in C \/ row.table \in {"run", "run_creation", "run_receipt", "participation",
                                                      "session", "admission"}
    BY <1>2
  <1> QED BY <1>3, <1>4, <1>6, <1>7, <1>8, <1>9 DEF NewFamily

\* The request an entry is made under, and the confirmation that comes with it.
EntersUnder(D, q, held, op, C) ==
    \/ /\ q.op \in {"enter", "admit"} /\ op = Op(q) /\ C = {} /\ op.family \in {"legacy", "native"}
       /\ op.family = "native" => op.offer = None
    \/ /\ q.op = "confirm" /\ OfferFound(D.rows, q) /\ CharacterLock(q.char) \in held
       /\ op.family = "native" /\ op.offer = q.offer /\ q.offer # None
       /\ C # {} /\ \A row \in C : row.offer = q.offer

\* An entry's rows are its own: under its request, or under the opening it confirms.
LEMMA EntryOriginal ==
  ASSUME NEW D, RowsWhole(D), NEW q, NEW held, NEW op, NEW e, NEW x, x \notin Named(D.rows),
         RunCreations(D.rows, op) = {}, SessionsOf(D.rows, op) = {},
         NEW C, \A row \in C : /\ row.table = "confirmation" /\ row.run = x
                               /\ Confirmations(D.rows, row.offer) = {},
         NEW R, R = EntryRows(op, e, x, x) \cup C,
         EntersUnder(D, q, held, op, C)
  PROVE  Original(D, q, held, x, R)
  <1>1. PICK O : O = Owns(D, q, held, R)
    OBVIOUS
  <1>2. NewFamily(D, op, x, C, R)
    BY EntryApart
  <1>3. C \subseteq R
    OBVIOUS
  <1>4. /\ RunLock(x) \in O /\ SessionLock(x) \in O
        /\ q.op = "confirm" => <<"offer", q.offer>> \in O
        /\ q.op \in Creations => <<"request", Op(q)>> \in O
    BY <1>1, <1>2, OwnLocks DEF NewFamily
  <1>5. RequestOwner(op) \in O /\ \A row \in C : <<"offer", row.offer>> \in O
    <2>1. CASE q.op \in {"enter", "admit"} /\ op = Op(q) /\ C = {}
               /\ op.family \in {"legacy", "native"} /\ (op.family = "native" => op.offer = None)
      <3>1. RequestOwner(op) = <<"request", op>>
        BY <2>1 DEF RequestOwner
      <3> QED BY <1>4, <2>1, <3>1 DEF Creations
    <2>2. CASE q.op = "confirm" /\ op.family = "native" /\ op.offer = q.offer /\ q.offer # None
               /\ \A row \in C : row.offer = q.offer
      <3>1. RequestOwner(op) = <<"offer", q.offer>>
        BY <2>2 DEF RequestOwner
      <3> QED BY <1>4, <2>2, <3>1
    <2> QED BY <2>1, <2>2 DEF EntersUnder
  <1>6. \A row \in R : \A key \in StoreKeys(row) : KeyOwner(key) \in O
    <2>1. {RunLock(x), SessionLock(x), RequestOwner(op)} \subseteq O
      BY <1>4, <1>5
    <2> QED BY <1>2, <1>5, <2>1 DEF NewFamily
  <1>7. RequestsHang(R, D.rows \cup R)
    <2>1. \A row \in R : row.table \notin {"evidence", "binding", "offer"}
      BY <1>2 DEF NewFamily
    <2>2. \A row \in R : row.table \in {"run_creation", "session"} =>
             /\ row.op = op /\ op.family \notin {"continue", "revisit"}
             /\ op.family = "native" /\ op.offer # None => Confirmations(D.rows \cup R, op.offer) # {}
      <3>1. q.op = "confirm" => Confirmations(D.rows \cup R, q.offer) # {}
        BY <1>3 DEF Confirmations, Table, EntersUnder
      <3> QED BY <1>2, <3>1 DEF EntersUnder, NewFamily
    <2> QED BY <2>1, <2>2 DEF RequestsHang, Table
  <1>8. Unclaimed(D, q, R)
    BY <1>2 DEF NewFamily, Unclaimed, Creations, Table, EntersUnder
  <1> QED BY <1>1, <1>2, <1>6, <1>7, <1>8 DEF Original, RowsOwned, EntersUnder, NewFamily

\* An entry's run and session are its own.
LEMMA EnterOriginal ==
  ASSUME NEW D, RowsWhole(D), NEW q, q.op \in {"enter", "admit"}, NEW held, NEW x, x \notin Named(D.rows)
  PROVE  Original(D, q, held, x, EnterVerdict(D.rows, D.rows, q, x, x).rows)
  <1> DEFINE R == EntryRows(Op(q), q, x, x)
             v == EnterVerdict(D.rows, D.rows, q, x, x)
  <1>1. CASE v.rows = {}
    BY <1>1, NothingOriginal
  <1>2. CASE v.rows # {}
    <2>1. /\ RunCreations(D.rows, Op(q)) = {} /\ (q.op = "admit" => q.offer = None)
          /\ v = EntryStage(D.rows, D.rows, Op(q), q, x, x)
      <3>1. \A code : Refuse(code).rows = {}
        BY DEF Refuse
      <3>2. \A result : Answer(result).rows = {}
        BY DEF Answer
      <3>3. \A receipt : EntryReplay(D.rows, Op(q), q, receipt).rows = {}
        BY <3>1, <3>2 DEF EntryReplay, LegacyReplay, NativeReplay
      <3> QED BY <1>2, <3>1, <3>3 DEF EnterVerdict
    <2>2. SessionsOf(D.rows, Op(q)) = {} /\ v.rows = R
      <3>1. \A code : Refuse(code).rows = {}
        BY DEF Refuse
      <3>2. \A result, rows : Apply(result, rows).rows = rows
        BY DEF Apply
      <3> HIDE DEF R
      <3> QED BY <1>2, <2>1, <3>1, <3>2 DEF EntryStage, R
    <2>3. Op(q).family \in {"legacy", "native"} /\ (Op(q).family = "native" => Op(q).offer = None)
      BY <2>1 DEF Op
    <2>4. PICK op, rows : op = Op(q) /\ rows = v.rows
      OBVIOUS
    <2>5. rows = EntryRows(op, q, x, x) \cup {}
      BY <2>2, <2>4
    <2>6. RunCreations(D.rows, op) = {} /\ SessionsOf(D.rows, op) = {}
          /\ op.family \in {"legacy", "native"} /\ (op.family = "native" => op.offer = None)
      BY <2>1, <2>2, <2>3, <2>4
    <2>7. Original(D, q, held, x, rows)
      <3> HIDE DEF R, v
      <3> QED BY <2>4, <2>5, <2>6, EntryOriginal DEF EntersUnder
    <2> QED BY <2>4, <2>7 DEF v
  <1> QED BY <1>1, <1>2 DEF v

\* So are those of an opening that is confirmed, which is confirmed once.
LEMMA ConfirmOriginal ==
  ASSUME NEW D, RowsWhole(D), RequestsHang(D.rows, D.rows), NEW q, q.op = "confirm",
         OfferFound(D.rows, q), NEW held, CharacterLock(q.char) \in held, NEW x, x \notin Named(D.rows)
  PROVE  Original(D, q, held, x, ConfirmVerdict(D.rows, D.rows, q, x, x).rows)
  <1> DEFINE v == ConfirmVerdict(D.rows, D.rows, q, x, x)
             offer == CHOOSE row \in Table(D.rows, "offer") : row.offer = q.offer
             op == FrozenOp(offer)
             conf == [table |-> "confirmation", offer |-> q.offer, pick |-> q.pick, run |-> x]
             R == EntryRows(op, offer, x, x) \cup {conf}
             stage == EntryStage(D.rows, D.rows, op, offer, x, x)
  <1>1. CASE v.rows = {}
    BY <1>1, NothingOriginal
  <1>2. CASE v.rows # {}
    <2>1. offer \in Table(D.rows, "offer") /\ offer.offer = q.offer
      BY DEF OfferFound
    <2>2. Confirmations(D.rows, q.offer) = {} /\ v.rows = R /\ SessionsOf(D.rows, op) = {}
      <3>1. \A code : Refuse(code).rows = {}
        BY DEF Refuse
      <3>2. \A result : Answer(result).rows = {}
        BY DEF Answer
      <3>3. \A result, rows : Apply(result, rows).rows = rows /\ Apply(result, rows).code = "ok"
        BY DEF Apply
      <3>4. \/ stage.rows = {} /\ stage.code # "ok"
            \/ SessionsOf(D.rows, op) = {} /\ stage.rows = EntryRows(op, offer, x, x) /\ stage.code = "ok"
        <4>1. PICK o, e : o = op /\ e = offer
          OBVIOUS
        <4>2. \A code : code # "ok" => Refuse(code).code # "ok"
          BY DEF Refuse
        <4>3. \/ EntryStage(D.rows, D.rows, o, e, x, x).rows = {} /\ EntryStage(D.rows, D.rows, o, e, x, x).code # "ok"
              \/ /\ SessionsOf(D.rows, o) = {} /\ EntryStage(D.rows, D.rows, o, e, x, x).rows = EntryRows(o, e, x, x)
                 /\ EntryStage(D.rows, D.rows, o, e, x, x).code = "ok"
          BY <3>1, <3>3, <4>2 DEF EntryStage
        <4> QED BY <4>1, <4>3
      <3>5. \/ v.rows = {}
            \/ /\ Confirmations(D.rows, q.offer) = {}
               /\ \/ v = stage /\ stage.code # "ok"
                  \/ v.rows = stage.rows \cup {conf} /\ stage.code = "ok"
        <4> HIDE DEF stage, conf
        <4> QED BY <3>1, <3>2, <3>3 DEF ConfirmVerdict, stage, conf
      <3> HIDE DEF v, stage, op, offer, conf
      <3> QED BY <1>2, <3>4, <3>5
    <2>3. q.offer # None /\ op.family = "native" /\ op.offer = q.offer
      <3>1. offer.offer # None
        BY <2>1 DEF RequestsHang
      <3> HIDE DEF offer
      <3> QED BY <2>1, <3>1 DEF FrozenOp
    <2>4. RunCreations(D.rows, op) = {}
      <3> HIDE DEF op
      <3>1. \A row \in D.rows :
              row.table \in {"run_creation", "session"} /\ row.op.family = "native" /\ row.op.offer # None =>
                  Confirmations(D.rows, row.op.offer) # {}
        BY DEF RequestsHang
      <3> QED BY <2>2, <2>3, <3>1 DEF RunCreations, Table
    <2>5. PICK o, e, C, rows : o = op /\ e = offer /\ C = {conf} /\ rows = v.rows
      OBVIOUS
    <2>6. C # {} /\ \A row \in C : row.table = "confirmation" /\ row.run = x /\ row.offer = q.offer
      BY <2>5
    <2> HIDE DEF conf, op, offer, v
    <2>7. rows = EntryRows(o, e, x, x) \cup C
      BY <2>2, <2>5
    <2> HIDE DEF R
    <2>8. /\ RunCreations(D.rows, o) = {} /\ SessionsOf(D.rows, o) = {}
          /\ q.offer # None /\ o.family = "native" /\ o.offer = q.offer
      BY <2>2, <2>3, <2>4, <2>5
    <2>9. \A row \in C : Confirmations(D.rows, row.offer) = {}
      BY <2>2, <2>6
    <2>10. Original(D, q, held, x, rows)
      <3>1. EntersUnder(D, q, held, o, C)
        BY <2>6, <2>8 DEF EntersUnder
      <3>2. \A row \in C : row.table = "confirmation" /\ row.run = x /\ Confirmations(D.rows, row.offer) = {}
        BY <2>6, <2>9
      <3> QED BY <2>7, <2>8, <3>1, <3>2, EntryOriginal
    <2> QED BY <2>5, <2>10 DEF v
  <1> QED BY <1>1, <1>2 DEF v

\* An opening that is prepared is no session.
LEMMA PrepareOriginal ==
  ASSUME NEW D, NEW q, q.op = "prepare", NEW held, NEW x, x # None
  PROVE  Original(D, q, held, x, PrepareVerdict(D.rows, D.rows, q, x).rows)
  <1>1. PICK n : PrepareVerdict(D.rows, D.rows, q, x).rows \in {{}, {OfferRow(x, q, n)}}
    BY OtherVerdictRows
  <1>2. PICK R : R = {OfferRow(x, q, n)}
    OBVIOUS
  <1>3. \A row \in R : row.table = "offer" /\ row.offer = x
    BY <1>2 DEF OfferRow
  <1>4. Named(R) \subseteq {x}
    BY <1>3, NamesOf
  <1>5. \A row \in R : \A key \in StoreKeys(row) : KeyOwner(key) \in Owns(D, q, held, R)
    BY <1>3, RowOwners, OwnLocks
  <1>6. RequestsHang(R, D.rows \cup R)
    BY <1>3 DEF RequestsHang, Table
  <1>7. Unclaimed(D, q, R)
    BY <1>3 DEF Unclaimed, Creations, Table
  <1>8. Original(D, q, held, x, R)
    BY <1>4, <1>5, <1>6, <1>7 DEF Original, RowsOwned
  <1> QED BY <1>1, <1>2, <1>8, NothingOriginal

\* A session outside any run is new.
LEMMA CreateSessionOriginal ==
  ASSUME NEW D, RowsWhole(D), NEW q, q.op = "create_session", NEW held, NEW x, x \notin Named(D.rows)
  PROVE  Original(D, q, held, x, CreateSessionVerdict(D.rows, q, x).rows)
  <1>1. PICK R : R = {Session(x, Op(q), q.body)}
    OBVIOUS
  <1>2. \/ CreateSessionVerdict(D.rows, q, x).rows = {}
        \/ SessionsOf(D.rows, Op(q)) = {} /\ CreateSessionVerdict(D.rows, q, x).rows = R
    BY <1>1 DEF CreateSessionVerdict, SessionReplay, Refuse, Answer, Apply
  <1>3. CASE SessionsOf(D.rows, Op(q)) = {}
    <2>1. \A row \in R : row.table = "session" /\ row.session = x /\ row.op = Op(q)
      BY <1>1 DEF Session
    <2>2. R # {}
      BY <1>1
    <2>3. Named(R) = {x}
      BY <2>1, <2>2, NamesOf
    <2>4. RequestOwner(Op(q)) = <<"request", Op(q)>> /\ Op(q).family = "session"
      BY DEF RequestOwner, Op
    <2>5. \A row \in R : \A key \in StoreKeys(row) : KeyOwner(key) \in Owns(D, q, held, R)
      <3>1. SessionLock(x) \in Owns(D, q, held, R)
        BY <2>3, OwnLocks
      <3>2. RequestOwner(Op(q)) \in Owns(D, q, held, R)
        BY <2>4, OwnLocks DEF Creations
      <3> QED BY <2>1, <3>1, <3>2, RowOwners
    <2>6. \A row \in R : KeysApart(D.rows, row)
      <3>1. \A other \in Table(D.rows, "session") : other.session # x /\ other.op # Op(q)
        BY <1>3, UnnamedRows DEF SessionsOf, Table
      <3> QED BY <2>1, <3>1, NewKeys
    <2>7. ~Taken(D, R)
      BY <2>6, TakesNothing
    <2>8. RequestsHang(R, D.rows \cup R)
      BY <2>1, <2>4 DEF RequestsHang, Table
    <2>9. Unclaimed(D, q, R)
      BY <2>1, <2>2, <2>7 DEF Unclaimed, Creations, Table
    <2>10. Original(D, q, held, x, R)
      BY <2>3, <2>5, <2>8, <2>9 DEF Original, RowsOwned
    <2> QED BY <1>2, <2>10, NothingOriginal
  <1> QED BY <1>2, <1>3, NothingOriginal

-----------------------------------------------------------------------------
(* What a native run has not been yet                                       *)

\* Nothing of a native run is of a version after its current one.
LEMMA NothingLater ==
  ASSUME NEW D, RowsWhole(D), RequestsHang(D.rows, D.rows), NEW r \in NativeRuns(D),
         NEW m, m = Run(D.rows, r)
  PROVE  /\ m.version \in Nat /\ m.run = r
         /\ \A row \in D.rows :
              row.table \in {"run", "run_receipt", "evidence", "participation"} /\ row.run = r =>
                  row.version # m.version + 1
  <1>1. PICK a \in Table(D.rows, "admission") : a.run = r
    BY DEF NativeRuns
  <1>2. /\ RunRevisions(D.rows, r) # {} /\ ValidRun(D.rows, r) /\ IsFiniteSet(D.rows)
    BY <1>1, WholeFamilies DEF NamesRun, Table
  <1>3. HistoryIsWhole(D.rows, r)
    BY <1>2 DEF ValidRun
  <1>4. PICK n \in Nat :
            /\ m \in RunRevisions(D.rows, r) /\ m.version = n
            /\ \A row \in RunRevisions(D.rows, r) : row.version \in 1..n
    BY <1>2, <1>3, RunHistory
  <1>5. m.run = r
    BY <1>4 DEF RunRevisions
  <1>6. ASSUME NEW row \in D.rows, row.run = r,
               row.table \in {"run", "run_receipt", "evidence", "participation"}
        PROVE  \E other \in RunRevisions(D.rows, r) : other.version = row.version
    <2>1. CASE row.table = "run"
      BY <1>6, <2>1 DEF RunRevisions, Table
    <2>2. CASE row.table = "run_receipt"
      <3>1. row \in Table(D.rows, "run_receipt")
        BY <2>2 DEF Table
      <3> QED BY <1>2, <1>6, <3>1, ReceiptsOfRun
    <2>3. CASE row.table = "evidence"
      <3>1. row \in Table(D.rows, "evidence")
        BY <2>3 DEF Table
      <3> QED BY <1>6, <3>1 DEF RequestsHang
    <2>4. CASE row.table = "participation"
      <3>1. row \in Participations(D.rows, r)
        BY <1>6, <2>4 DEF Participations, Table
      <3> QED BY <1>3, <3>1, JoinedLater
    <2> QED BY <1>6, <2>1, <2>2, <2>3, <2>4
  <1>7. \A other \in RunRevisions(D.rows, r) : other.version # m.version + 1
    BY <1>4
  <1> QED BY <1>4, <1>5, <1>6, <1>7

\* The last revision of a run that goes on is that in which its last session joined.
LEMMA ActiveVersion ==
  ASSUME NEW D, RowsWhole(D), NEW r \in NativeRuns(D), Run(D.rows, r).status \in ActiveLine
  PROVE  \E k \in 1..3 : Joined(D.rows, r) = k /\ Run(D.rows, r).version = k + 2
  <1>1. PICK a \in Table(D.rows, "admission") : a.run = r
    BY DEF NativeRuns
  <1>2. /\ RunRevisions(D.rows, r) # {} /\ ValidRun(D.rows, r) /\ IsFiniteSet(D.rows)
    BY <1>1, WholeFamilies DEF NamesRun, Table
  <1>3. HistoryIsWhole(D.rows, r)
    BY <1>2 DEF ValidRun
  <1>4. PICK m : m = Run(D.rows, r)
    OBVIOUS
  <1>5. PICK n \in Nat :
            /\ m \in RunRevisions(D.rows, r) /\ m.version = n
            /\ \A row \in RunRevisions(D.rows, r) : row.version \in 1..n
            /\ {p.version : p \in Participations(D.rows, r)}
                  = {row.version : row \in {o \in RunRevisions(D.rows, r) : o.kind \in JoinKinds}}
    BY <1>2, <1>3, <1>4, RunHistory
  <1>6. PICK k \in 1..3 :
            /\ {p.version : p \in Participations(D.rows, r)} = 3..k + 2
            /\ Cardinality(Participations(D.rows, r)) = k
            /\ Classify(D, r) # "broken"
    BY NativeJoins
  <1>7. n >= 3 /\ (n > 3 => <<n, m.kind>> \in NativeKinds)
    BY <1>4, <1>5, <1>6 DEF Classify, AdmissionStands, AdmissionPrefix
  <1>8. m.status \in ActiveLine /\ RunCheck(m)
    <2>1. m \in D.rows /\ m.table = "run"
      BY <1>5 DEF RunRevisions, Table
    <2>2. RowCheck(m)
      BY <2>1, RowsPassChecks
    <2> QED BY <1>4, <2>1, <2>2 DEF RowCheck
  <1>9. m.kind \notin {"EXIT", "COMPLETE"}
    BY <1>8 DEF RunCheck, StatusAfter, ActiveLine
  <1>10. n = k + 2
    <2>1. k + 2 \in {row.version : row \in {o \in RunRevisions(D.rows, r) : o.kind \in JoinKinds}}
      <3>1. k + 2 \in 3..k + 2
        OBVIOUS
      <3>2. k + 2 \in {p.version : p \in Participations(D.rows, r)}
        BY ONLY <3>1, <1>6
      <3> QED BY ONLY <3>2, <1>5
    <2>2. k + 2 <= n
      BY <1>5, <2>1
    <2>3. CASE n = 3
      BY <1>6, <2>2, <2>3
    <2>4. CASE n > 3
      <3>1. m.kind \in JoinKinds
        BY <1>7, <1>9, <2>4 DEF NativeKinds, JoinKinds
      <3>2. n \in {p.version : p \in Participations(D.rows, r)}
        BY <1>5, <3>1
      <3> QED BY <1>6, <2>2, <3>2
    <2> QED BY <1>7, <2>3, <2>4
  <1> QED BY <1>4, <1>5, <1>6, <1>10 DEF Joined

\* Where a run is, it has joined.
LEMMA CurrentJoined ==
  ASSUME NEW D, RowsWhole(D), NEW r \in NativeRuns(D)
  PROVE  \E p \in Table(D.rows, "participation") : p.run = r /\ p.session = Current(D.rows, r)
  <1>1. PICK k \in 1..3 : {p.version : p \in Participations(D.rows, r)} = 3..k + 2
    BY NativeJoins
  <1>2. k + 2 \in {p.version : p \in Participations(D.rows, r)}
    BY <1>1
  <1>3. PICK p \in Participations(D.rows, r) : p.version = k + 2
    BY <1>2
  <1>4. PICK n \in Int : n = k + 2
    BY <1>1
  <1>5. OneHolder(D.rows)
    BY DEF RowsWhole
  <1>6. {o.version : o \in Participations(D.rows, r)} \subseteq 3..n /\ p.version = n
    BY <1>1, <1>3, <1>4
  <1>7. Current(D.rows, r) = p.session
    BY ONLY <1>3, <1>4, <1>5, <1>6, JoinedSessions
  <1> QED BY <1>7 DEF Participations

\* Nothing is a visit but of a session that joined.
LEMMA VisitorJoined ==
  ASSUME NEW D, RowsWhole(D), NEW row \in D.rows, row.table \in {"visit", "entry"}
  PROVE  \E p \in Table(D.rows, "participation") : p.run = row.run /\ p.session = row.session
  <1>1. PICK a \in Table(D.rows, "admission") : a.run = row.run
    BY DEF RowsWhole, HangsIn, WorldTables
  <1>2. row.run \in NativeRuns(D)
    BY <1>1 DEF NativeRuns
  <1>3. \A other \in D.rows : other.table \in WorldTables /\ other.run = row.run =>
           VisitReferences(other) \cup EntryReferences(other) \subseteq KeysOf(D.rows)
    BY <1>2, NativeKeys
  <1>4. ASSUME NEW visit \in D.rows, visit.table = "visit", visit.run = row.run
        PROVE  \E p \in Table(D.rows, "participation") : p.run = visit.run /\ p.session = visit.session
    <2>1. <<"joined exactly", visit.session, visit.run, visit.joined>> \in KeysOf(D.rows)
      BY <1>3, <1>4 DEF VisitReferences, WorldTables
    <2>2. PICK p \in D.rows : <<"joined exactly", visit.session, visit.run, visit.joined>> \in StoreKeys(p)
      BY <2>1 DEF KeysOf
    <2>3. KeyTable("joined exactly") = p.table
      BY <2>2, KeysTellTables
    <2>4. p.table = "participation"
      BY <2>3 DEF KeyTable
    <2>5. StoreKeys(p) = {<<"member", p.session>>, <<"joined", p.run, p.version>>,
                          <<"joined exactly", p.session, p.run, p.version>>}
      BY <2>4, RowKeys
    <2>6. p.run = visit.run /\ p.session = visit.session
      BY <2>2, <2>5
    <2> QED BY <2>4, <2>6 DEF Table
  <1>5. CASE row.table = "visit"
    BY <1>4, <1>5
  <1>6. CASE row.table = "entry"
    <2>1. <<"visit of", row.run, row.session>> \in KeysOf(D.rows)
      BY <1>3, <1>6 DEF EntryReferences, WorldTables
    <2>2. PICK visit \in D.rows : <<"visit of", row.run, row.session>> \in StoreKeys(visit)
      BY <2>1 DEF KeysOf
    <2>3. KeyTable("visit of") = visit.table
      BY <2>2, KeysTellTables
    <2>4. visit.table = "visit"
      BY <2>3 DEF KeyTable
    <2>5. StoreKeys(visit) = {<<"visit", visit.run, visit.ordinal>>, <<"visit at", visit.run, visit.joined>>,
               <<"visited", visit.session>>, <<"visit of", visit.run, visit.session>>}
      BY <2>4, RowKeys
    <2>6. visit.run = row.run /\ visit.session = row.session
      BY <2>2, <2>5
    <2> QED BY <1>4, <2>4, <2>6
  <1> QED BY <1>5, <1>6

\* A row is new to the store, and this set's to write.
AddedBy(S, row, O) == KeysApart(S, row) /\ \A key \in StoreKeys(row) : KeyOwner(key) \in O

\* The next revision of a native run, its receipt, its evidence and the session that joins.
LEMMA NextApart ==
  ASSUME NEW D, RowsWhole(D), RequestsHang(D.rows, D.rows), NEW r \in NativeRuns(D),
         NEW m, m = Run(D.rows, r), NEW O, RunLock(r) \in O,
         NEW row, row.run = r, row.version = m.version + 1,
         \/ row.table \in {"run", "evidence"}
         \/ /\ row.table = "run_receipt"
            /\ \A other \in Table(D.rows, "run_receipt") :
                  other.run # r \/ other.kind # row.kind \/ other.op # row.op
         \/ row.table = "participation" /\ row.session \notin Named(D.rows) /\ SessionLock(row.session) \in O
  PROVE  AddedBy(D.rows, row, O)
  <1>1. \A other \in D.rows :
           other.table \in {"run", "run_receipt", "evidence", "participation"} /\ other.run = r =>
               other.version # m.version + 1
    BY NothingLater
  <1>2. CASE row.table = "run"
    <2>1. \A other \in Table(D.rows, "run") : other.run # row.run \/ other.version # row.version
      BY <1>1 DEF Table
    <2>2. KeysApart(D.rows, row)
      BY <1>2, <2>1, NewKeys
    <2>3. \A key \in StoreKeys(row) : KeyOwner(key) \in O
      BY <1>2, RowOwners
    <2> QED BY <2>2, <2>3 DEF AddedBy
  <1>3. CASE row.table = "evidence"
    <2>1. \A other \in Table(D.rows, "evidence") : other.run # row.run \/ other.version # row.version
      BY <1>1 DEF Table
    <2>2. KeysApart(D.rows, row)
      BY <1>3, <2>1, NewKeys
    <2>3. \A key \in StoreKeys(row) : KeyOwner(key) \in O
      BY <1>3, RowOwners
    <2> QED BY <2>2, <2>3 DEF AddedBy
  <1>4. CASE row.table = "run_receipt"
    <2>1. \A other \in Table(D.rows, "run_receipt") :
             /\ other.run # row.run \/ other.kind # row.kind \/ other.op # row.op
             /\ other.run # row.run \/ other.version # row.version
      BY <1>1, <1>4 DEF Table
    <2>2. KeysApart(D.rows, row)
      BY <1>4, <2>1, NewKeys
    <2>3. \A key \in StoreKeys(row) : KeyOwner(key) \in O
      BY <1>4, RowOwners
    <2> QED BY <2>2, <2>3 DEF AddedBy
  <1>5. CASE row.table = "participation"
    <2>1. row.session \notin Named(D.rows) /\ SessionLock(row.session) \in O
      BY <1>5
    <2>2. \A other \in Table(D.rows, "participation") :
             /\ other.session # row.session
             /\ other.run # row.run \/ other.version # row.version
      BY <1>1, <2>1, UnnamedRows DEF Table
    <2>3. KeysApart(D.rows, row)
      BY <1>5, <2>2, NewKeys
    <2>4. {SessionLock(row.session), RunLock(row.run)} \subseteq O
      BY <2>1
    <2>5. \A key \in StoreKeys(row) : KeyOwner(key) \in O
      BY <1>5, <2>4, RowOwners
    <2> QED BY <2>3, <2>5 DEF AddedBy
  <1> QED BY <1>2, <1>3, <1>4, <1>5

\* A session that is new, with its first event.
LEMMA OpenedApart ==
  ASSUME NEW D, RowsWhole(D), NEW O, NEW row, row.session \notin Named(D.rows), SessionLock(row.session) \in O,
         \/ row.table = "event"
         \/ row.table = "session" /\ SessionsOf(D.rows, row.op) = {} /\ RequestOwner(row.op) \in O
  PROVE  AddedBy(D.rows, row, O)
  <1>1. \A other \in D.rows : other.table \in {"session", "event"} => other.session # row.session
    BY UnnamedRows
  <1>2. CASE row.table = "event"
    <2>1. \A other \in Table(D.rows, "event") : other.session # row.session
      BY <1>1 DEF Table
    <2>2. KeysApart(D.rows, row)
      BY <1>2, <2>1, NewKeys
    <2>3. \A key \in StoreKeys(row) : KeyOwner(key) \in O
      BY <1>2, RowOwners
    <2> QED BY <2>2, <2>3 DEF AddedBy
  <1>3. CASE row.table = "session"
    <2>1. \A other \in Table(D.rows, "session") : other.session # row.session /\ other.op # row.op
      BY <1>1, <1>3 DEF SessionsOf, Table
    <2>2. KeysApart(D.rows, row)
      BY <1>3, <2>1, NewKeys
    <2>3. {SessionLock(row.session), RequestOwner(row.op)} \subseteq O
      BY <1>3
    <2>4. \A key \in StoreKeys(row) : KeyOwner(key) \in O
      BY <1>3, <2>3, RowOwners
    <2> QED BY <2>2, <2>4 DEF AddedBy
  <1> QED BY <1>2, <1>3

\* What a run has of worlds: a root before any other, a visit where the run is or one that
\* is new, an entry that is new.
LEMMA WorldApart ==
  ASSUME NEW D, RowsWhole(D), NEW r \in NativeRuns(D), NEW O, RunLock(r) \in O, NEW row, row.run = r,
         \/ row.table = "root" /\ Of(D.rows, "root", r) = {}
         \/ row.table = "entry" /\ row.session \notin Named(D.rows) /\ SessionLock(row.session) \in O
         \/ /\ row.table = "visit" /\ SessionLock(row.session) \in O
            /\ \/ row.session \notin Named(D.rows)
               \/ row.session = Current(D.rows, r) /\ Of(D.rows, "visit", r) = {}
            /\ \A other \in Of(D.rows, "visit", r) : other.ordinal # row.ordinal /\ other.joined # row.joined
  PROVE  AddedBy(D.rows, row, O)
  <1>1. row.session \notin Named(D.rows) =>
           \A other \in D.rows : other.table \in {"visit", "entry"} => other.session # row.session
    BY VisitorJoined, UnnamedRows DEF Table
  <1>2. CASE row.table = "root" /\ Of(D.rows, "root", r) = {}
    <2>1. \A other \in Table(D.rows, "root") : other.run # row.run
      BY <1>2 DEF Of
    <2>2. KeysApart(D.rows, row)
      BY <1>2, <2>1, NewKeys
    <2>3. \A key \in StoreKeys(row) : KeyOwner(key) \in O
      BY <1>2, RowOwners
    <2> QED BY <2>2, <2>3 DEF AddedBy
  <1>3. CASE row.table = "entry" /\ row.session \notin Named(D.rows) /\ SessionLock(row.session) \in O
    <2>1. \A other \in Table(D.rows, "entry") : other.session # row.session
      BY <1>1, <1>3 DEF Table
    <2>2. KeysApart(D.rows, row)
      BY <1>3, <2>1, NewKeys
    <2>3. {RunLock(row.run), SessionLock(row.session)} \subseteq O
      BY <1>3
    <2>4. \A key \in StoreKeys(row) : KeyOwner(key) \in O
      BY <1>3, <2>3, RowOwners
    <2> QED BY <2>2, <2>4 DEF AddedBy
  <1>4. CASE row.table = "visit"
    <2>1. SessionLock(row.session) \in O
      BY <1>4
    <2>2. \A other \in Table(D.rows, "visit") : other.session # row.session
      <3>1. CASE row.session \notin Named(D.rows)
        BY <1>1, <3>1 DEF Table
      <3>2. CASE row.session = Current(D.rows, r) /\ Of(D.rows, "visit", r) = {}
        <4>1. PICK p \in Table(D.rows, "participation") : p.run = r /\ p.session = Current(D.rows, r)
          BY CurrentJoined
        <4> SUFFICES ASSUME NEW other \in Table(D.rows, "visit"), other.session = row.session PROVE FALSE
          OBVIOUS
        <4>2. other \in D.rows /\ other.table = "visit"
          BY DEF Table
        <4>3. PICK o \in Table(D.rows, "participation") : o.run = other.run /\ o.session = other.session
          BY <4>2, VisitorJoined
        <4>4. o = p
          BY <3>2, <4>1, <4>3, OnlyRows DEF RowsWhole
        <4>5. other \in Of(D.rows, "visit", r)
          BY <4>1, <4>3, <4>4 DEF Of
        <4> QED BY <3>2, <4>5
      <3> QED BY <1>4, <3>1, <3>2
    <2>3. \A other \in Table(D.rows, "visit") :
             /\ other.session # row.session
             /\ other.run # row.run \/ other.ordinal # row.ordinal
             /\ other.run # row.run \/ other.joined # row.joined
      BY <1>4, <2>2 DEF Of
    <2>4. KeysApart(D.rows, row)
      BY <1>4, <2>3, NewKeys
    <2>5. {RunLock(row.run), SessionLock(row.session)} \subseteq O
      BY <2>1
    <2>6. \A key \in StoreKeys(row) : KeyOwner(key) \in O
      BY <1>4, <2>5, RowOwners
    <2> QED BY <2>4, <2>6 DEF AddedBy
  <1> QED BY <1>2, <1>3, <1>4

-----------------------------------------------------------------------------
(* The operations on a native run                                           *)

\* What an operation on a run holds is its to write.
LEMMA StepOwns ==
  ASSUME NEW D, RowsWhole(D), NEW q, q.run \in NativeRuns(D), NEW held, RunLock(q.run) \in held,
         NEW left, left = Current(D.rows, q.run), SessionLock(left) \in held, NEW R
  PROVE  /\ RunLock(q.run) \in Owns(D, q, held, R) /\ SessionLock(left) \in Owns(D, q, held, R)
         /\ q.run \in Named(D.rows) /\ left \in Named(D.rows)
  <1>1. RunRevisions(D.rows, q.run) # {} /\ left \in DOMAIN D.sess
    <2>1. PICK r, m : r = q.run /\ r \in NativeRuns(D) /\ m = Run(D.rows, r) /\ left = Current(D.rows, r)
      OBVIOUS
    <2>2. RunRevisions(D.rows, r) # {} /\ left \in DOMAIN D.sess
      BY ONLY RowsWhole(D), <2>1, NativeRunIs
    <2> QED BY <2>1, <2>2
  <1>2. q.run \in Named(D.rows)
    BY <1>1, NamesOf DEF RunRevisions, Table
  <1>3. left \in Named(D.rows)
    BY <1>1, NamesOf DEF RowsWhole, Opens, Table
  <1> QED BY <1>2, <1>3, OwnLocks

\* The end of a run is its own.
LEMMA EndOriginal ==
  ASSUME NEW D, RowsWhole(D), RequestsHang(D.rows, D.rows), NEW q, q.op \in {"exit", "complete"},
         q.run \in NativeRuns(D), StepTaken(D, q) = {}, NEW held, RunLock(q.run) \in held,
         SessionLock(Current(D.rows, q.run)) \in held, NEW x, NEW status, NEW sealed,
         NEW R, R = EndRows(D, q, status, StepKind[q.op], sealed)
  PROVE  Original(D, q, held, x, R)
  <1>1. PICK m, O, r, kind, op : m = Run(D.rows, q.run) /\ O = Owns(D, q, held, R) /\ r = q.run
                    /\ kind = StepKind[q.op] /\ op = StepOp(q)
    OBVIOUS
  <1>2. r \in NativeRuns(D) /\ m = Run(D.rows, r)
    BY <1>1
  <1>3. RunLock(r) \in O /\ r \in Named(D.rows)
    BY <1>1, StepOwns
  <1>4. m.run = r /\ m.version \in Nat
    BY <1>2, NothingLater
  <1>5. \A row \in R :
           /\ row.run = r /\ row.version = m.version + 1
           /\ \/ row.table \in {"run", "evidence"}
              \/ row.table = "run_receipt" /\ row.kind = kind /\ row.op = op
    BY <1>1, <1>4 DEF EndRows, NextRun, RunRow, RunReceipt, Evidence
  <1>6. \E row \in R : row.table = "run"
    BY DEF EndRows, NextRun, RunRow
  <1>7. ASSUME NEW row \in R PROVE AddedBy(D.rows, row, O)
    <2>1. \A other \in Table(D.rows, "run_receipt") : other.run # r \/ other.kind # kind \/ other.op # op
      BY <1>1 DEF StepTaken
    <2>2. \/ row.table \in {"run", "evidence"}
          \/ /\ row.table = "run_receipt"
             /\ \A other \in Table(D.rows, "run_receipt") :
                   other.run # r \/ other.kind # row.kind \/ other.op # row.op
      BY <1>5, <2>1
    <2> QED BY <1>2, <1>3, <1>5, <2>2, NextApart
  <1>8. RequestsHang(R, D.rows \cup R)
    <2>1. \A row \in R : row.table \notin {"run_creation", "session", "binding", "offer"}
      BY <1>5
    <2>2. \A row \in R : row.table = "evidence" =>
             \E other \in RunRevisions(D.rows \cup R, row.run) : other.version = row.version
      BY <1>5, <1>6 DEF RunRevisions, Table
    <2> QED BY <2>1, <2>2 DEF RequestsHang, Table
  <1>9. Unclaimed(D, q, R)
    <2>1. ~Taken(D, R)
      BY <1>7, TakesNothing DEF AddedBy
    <2> QED BY <2>1 DEF Unclaimed, Creations
  <1>10. Named(R) \subseteq Named(D.rows) \cup {x}
    BY <1>3, <1>5, NamesOf
  <1> QED BY <1>1, <1>7, <1>8, <1>9, <1>10 DEF Original, RowsOwned, AddedBy

\* Rows of worlds of the run, that whoever holds the run, the world it is in and the one
\* it goes to may add.
WorldsAdded(D, q, x, W) ==
    \A row \in W :
        /\ row.table \in WorldTables /\ row.run = q.run
        /\ \A O : {RunLock(q.run), SessionLock(Current(D.rows, q.run)), SessionLock(x)} \subseteq O =>
                     AddedBy(D.rows, row, O)

\* So is a further world.
LEMMA JoinOriginal ==
  ASSUME NEW D, RowsWhole(D), RequestsHang(D.rows, D.rows), NEW q, q.op \in {"continue", "revisit"},
         q.run \in NativeRuns(D), StepTaken(D, q) = {}, NEW held, RunLock(q.run) \in held,
         SessionLock(Current(D.rows, q.run)) \in held, NEW x, x \notin Named(D.rows), NEW world,
         NEW m, m = Run(D.rows, q.run),
         NEW evidence, evidence.table = "evidence", evidence.run = q.run, evidence.version = m.version + 1,
         NEW W, WorldsAdded(D, q, x, W),
         NEW R, R = JoinRows(m, StepKind[q.op], q, x) \cup {Session(x, StepOp(q), world), Event(x, 1)}
                        \cup W \cup {evidence}
  PROVE  Original(D, q, held, x, R)
  <1>1. PICK O, r, kind, op, left :
            /\ O = Owns(D, q, held, R) /\ r = q.run /\ kind = StepKind[q.op] /\ op = StepOp(q)
            /\ left = Current(D.rows, q.run)
    OBVIOUS
  <1>2. r \in NativeRuns(D) /\ m = Run(D.rows, r)
    BY <1>1
  <1>3. RunLock(r) \in O /\ SessionLock(left) \in O /\ r \in Named(D.rows)
    BY <1>1, StepOwns
  <1>4. m.run = r /\ m.version \in Nat
    BY <1>2, NothingLater
  <1>5. op.family = q.op /\ op.offer = r
    BY <1>1 DEF StepOp
  <1>6. \A row \in JoinRows(m, kind, q, x) :
           /\ row.run = r /\ row.version = m.version + 1
           /\ \/ row.table = "run"
              \/ row.table = "run_receipt" /\ row.kind = kind /\ row.op = op
              \/ row.table = "participation" /\ row.session = x
    BY <1>1, <1>4 DEF JoinRows, NextRun, RunRow, RunReceipt, Participation
  <1>7. /\ \E row \in JoinRows(m, kind, q, x) : row.table = "run"
        /\ \E row \in JoinRows(m, kind, q, x) : row.table = "run_receipt"
    BY DEF JoinRows, NextRun, RunRow, RunReceipt
  <1>8. \A row \in {Session(x, op, world), Event(x, 1)} :
           /\ row.session = x
           /\ row.table = "event" \/ (row.table = "session" /\ row.op = op)
    BY DEF Session, Event
  <1>9. Session(x, op, world) \in R /\ Session(x, op, world).table = "session"
        /\ Session(x, op, world).session = x
    BY <1>1 DEF Session
  <1>10. \A row \in R : \/ row \in JoinRows(m, kind, q, x)
                        \/ row \in {Session(x, op, world), Event(x, 1)}
                        \/ row \in W
                        \/ row = evidence
    BY <1>1
  <1>11. JoinRows(m, kind, q, x) \subseteq R
    BY <1>1
  <1> HIDE DEF JoinRows
  <1>12. SessionLock(x) \in O
    <2>1. x \in Named(R)
      BY <1>9, NamesOf
    <2> QED BY <1>1, <2>1, OwnLocks
  <1>13. RequestOwner(op) \in O
    BY <1>3, <1>5 DEF RequestOwner
  <1>14. \A other \in Table(D.rows, "run_receipt") : other.run # r \/ other.kind # kind \/ other.op # op
    BY <1>1 DEF StepTaken
  <1>15. SessionsOf(D.rows, op) = {}
    <2> SUFFICES ASSUME NEW row \in Table(D.rows, "session"), row.op = op PROVE FALSE
      BY DEF SessionsOf
    <2>1. \E step \in Table(D.rows, "run_receipt") :
             step.run = op.offer /\ step.kind = StepKind[op.family] /\ step.op = op
      BY <1>5 DEF RequestsHang
    <2> QED BY <1>1, <1>5, <1>14, <2>1
  <1>16. ASSUME NEW row \in R PROVE AddedBy(D.rows, row, O)
    <2>1. CASE row \in JoinRows(m, kind, q, x)
      <3>1. \/ row.table \in {"run", "evidence"}
            \/ /\ row.table = "run_receipt"
               /\ \A other \in Table(D.rows, "run_receipt") :
                     other.run # r \/ other.kind # row.kind \/ other.op # row.op
            \/ row.table = "participation" /\ row.session \notin Named(D.rows) /\ SessionLock(row.session) \in O
        BY <1>6, <1>12, <1>14, <2>1
      <3>2. row.run = r /\ row.version = m.version + 1
        BY <1>6, <2>1
      <3> QED BY <1>2, <1>3, <3>1, <3>2, NextApart
    <2>2. CASE row \in {Session(x, op, world), Event(x, 1)}
      <3>1. /\ row.session \notin Named(D.rows) /\ SessionLock(row.session) \in O
            /\ \/ row.table = "event"
               \/ row.table = "session" /\ SessionsOf(D.rows, row.op) = {} /\ RequestOwner(row.op) \in O
        BY <1>8, <1>12, <1>13, <1>15, <2>2
      <3> QED BY <3>1, OpenedApart
    <2>3. CASE row \in W
      <3>1. {RunLock(q.run), SessionLock(Current(D.rows, q.run)), SessionLock(x)} \subseteq O
        BY <1>1, <1>3, <1>12
      <3> QED BY <2>3, <3>1 DEF WorldsAdded
    <2>4. CASE row = evidence
      <3>1. row.run = r /\ row.version = m.version + 1 /\ row.table \in {"run", "evidence"}
        BY <1>1, <2>4
      <3> QED BY <1>2, <1>3, <3>1, NextApart
    <2> QED BY <1>10, <2>1, <2>2, <2>3, <2>4
  <1>17. RequestsHang(R, D.rows \cup R)
    <2>1. \A row \in R : row.table \notin {"run_creation", "binding", "offer"}
      BY <1>6, <1>8, <1>10 DEF WorldsAdded, WorldTables
    <2>2. \A row \in R : row.table = "session" => row.op = op
      BY <1>6, <1>8, <1>10 DEF WorldsAdded, WorldTables
    <2>3. \E step \in Table(D.rows \cup R, "run_receipt") :
             step.run = op.offer /\ step.kind = StepKind[op.family] /\ step.op = op
      BY <1>1, <1>5, <1>6, <1>7, <1>11 DEF Table
    <2>4. \A row \in R : row.table = "evidence" => row = evidence
      BY <1>6, <1>8, <1>10 DEF WorldsAdded, WorldTables
    <2>5. \E other \in RunRevisions(D.rows \cup R, evidence.run) : other.version = evidence.version
      BY <1>1, <1>6, <1>7, <1>11 DEF RunRevisions, Table
    <2>6. op.family # "native"
      BY <1>5
    <2>7. \A row \in R :
             row.table \in {"run_creation", "session"} => row.op.family # "native"
      BY <2>1, <2>2, <2>6
    <2>8. \A row \in Table(R, "session") : \E step \in Table(D.rows \cup R, "run_receipt") :
             step.run = row.op.offer /\ step.kind = StepKind[row.op.family] /\ step.op = row.op
      BY <2>2, <2>3 DEF Table
    <2>9. \A row \in Table(R, "evidence") :
             \E other \in RunRevisions(D.rows \cup R, row.run) : other.version = row.version
      BY <2>4, <2>5 DEF Table
    <2>10. Table(R, "binding") = {} /\ Table(R, "offer") = {}
      BY <2>1 DEF Table
    <2> QED BY <2>7, <2>8, <2>9, <2>10 DEF RequestsHang
  <1>18. Unclaimed(D, q, R)
    <2>1. ~Taken(D, R)
      BY <1>16, TakesNothing DEF AddedBy
    <2> QED BY <2>1 DEF Unclaimed, Creations
  <1>19. Named(R) \subseteq Named(D.rows) \cup {x}
    <2>1. \A row \in R : /\ row.table \notin {"revision", "offer"}
                         /\ row.table = "run" => row.run = r
                         /\ row.table = "session" => row.session = x
      BY <1>6, <1>8, <1>10 DEF WorldsAdded, WorldTables
    <2> QED BY <1>3, <2>1, NamesOf
  <1> QED BY <1>1, <1>16, <1>17, <1>18, <1>19 DEF Original, RowsOwned, AddedBy

\* What hangs on some rows hangs on more.
LEMMA RequestsHangOn ==
  ASSUME NEW R, NEW S, NEW T, RequestsHang(R, S), S \subseteq T
  PROVE  RequestsHang(R, T)
  <1>1. \A o : Confirmations(S, o) # {} => Confirmations(T, o) # {}
    BY DEF Confirmations, Table
  <1>2. \A step \in Table(S, "run_receipt") : step \in Table(T, "run_receipt")
    BY DEF Table
  <1>3. \A r : \A m \in RunRevisions(S, r) : m \in RunRevisions(T, r)
    BY DEF RunRevisions, Table
  <1> QED BY <1>1, <1>2, <1>3 DEF RequestsHang

LEMMA RequestsHangTogether ==
  ASSUME NEW A, NEW B, NEW S, RequestsHang(A, S), RequestsHang(B, S)
  PROVE  RequestsHang(A \cup B, S)
  <1>1. \A t : Table(A \cup B, t) = Table(A, t) \cup Table(B, t)
    BY DEF Table
  <1> QED BY <1>1 DEF RequestsHang

\* The first event of a session goes with the session.
LEMMA FirstsOriginal ==
  ASSUME NEW D, RowsWhole(D), NEW q, NEW held, NEW x, NEW R, Original(D, q, held, x, R)
  PROVE  Original(D, q, held, x, R \cup Firsts(R))
  <1>1. PICK F, T : F = Firsts(R) /\ T = R \cup F
    OBVIOUS
  <1>2. \A row \in F : /\ row.table = "event"
                       /\ \E p \in R : p.table = "session" /\ p.session = row.session
    BY <1>1 DEF Firsts, Opens, Event, Table
  <1>3. Named(T) = Named(R)
    <2>1. \A row : row.table # "event" => (row \in T <=> row \in R)
      BY <1>1, <1>2
    <2> SUFFICES ASSUME NEW n PROVE n \in Named(T) <=> n \in Named(R)
      BY DEF Named
    <2>2. /\ (\E row \in T : row.table = "revision" /\ row.char = n)
                <=> \E row \in R : row.table = "revision" /\ row.char = n
          /\ (\E row \in T : row.table = "run" /\ row.run = n)
                <=> \E row \in R : row.table = "run" /\ row.run = n
          /\ (\E row \in T : row.table = "session" /\ row.session = n)
                <=> \E row \in R : row.table = "session" /\ row.session = n
          /\ (\E row \in T : row.table = "offer" /\ row.offer = n)
                <=> \E row \in R : row.table = "offer" /\ row.offer = n
      BY <2>1
    <2> QED BY <2>2, NamesOf
  <1>4. Owns(D, q, held, T) = Owns(D, q, held, R)
    BY <1>3 DEF Owns, NewLocks
  <1>5. ASSUME NEW row \in F PROVE \A key \in StoreKeys(row) : KeyOwner(key) \in Owns(D, q, held, R)
    <2>1. PICK p \in R : p.table = "session" /\ p.session = row.session
      BY <1>2
    <2>2. <<"session", p.session>> \in StoreKeys(p)
      BY <2>1, OwnKeys
    <2>3. KeyOwner(<<"session", p.session>>) = SessionLock(p.session)
      BY DEF KeyOwner
    <2>4. SessionLock(row.session) \in Owns(D, q, held, R)
      BY <2>1, <2>2, <2>3 DEF Original, RowsOwned
    <2> QED BY <1>2, <2>4, RowOwners
  <1>6. ASSUME Taken(D, T) PROVE Taken(D, R)
    <2>1. CASE KeysOf(R) \cap KeysOf(D.rows) # {}
      BY <2>1 DEF Taken
    <2>2. ASSUME NEW row \in F, NEW other \in D.rows, NEW key \in StoreKeys(row), key \in StoreKeys(other)
          PROVE  Taken(D, R)
      <3>1. KeyTable(key[1]) = "event" /\ KeyTable(key[1]) = other.table
        BY <1>2, <2>2, KeysTellTables
      <3>2. StoreKeys(row) = {<<"event", row.session, row.seq>>}
        BY <1>2, RowKeys
      <3>3. StoreKeys(other) = {<<"event", other.session, other.seq>>}
        BY <3>1, RowKeys
      <3>4. other.session = row.session
        BY <2>2, <3>2, <3>3
      <3>5. PICK p \in Table(D.rows, "session") : p.session = row.session
        BY <3>1, <3>4 DEF RowsWhole, HangsIn
      <3>6. PICK s \in R : s.table = "session" /\ s.session = row.session
        BY <1>2
      <3>7. <<"session", row.session>> \in StoreKeys(p) /\ <<"session", row.session>> \in StoreKeys(s)
        BY <3>5, <3>6, OwnKeys DEF Table
      <3>8. <<"session", row.session>> \in KeysOf(D.rows) /\ <<"session", row.session>> \in KeysOf(R)
        BY <3>5, <3>6, <3>7 DEF KeysOf, Table
      <3> QED BY <3>8 DEF Taken
    <2>3. KeysOf(T) = KeysOf(R) \cup KeysOf(F)
      BY <1>1 DEF KeysOf
    <2> QED BY <1>6, <2>1, <2>2, <2>3 DEF Taken, KeysOf
  <1>7. R # {} <=> T # {}
    BY <1>1, <1>2
  <1>8. Table(T, "session") = Table(R, "session")
    BY <1>1, <1>2 DEF Table
  <1>9. Unclaimed(D, q, T)
    <2>1. Unclaimed(D, q, R)
      BY DEF Original, RowsOwned
    <2>2. q.op = "prepare" => T \subseteq Table(T, "offer")
      <3>1. q.op = "prepare" => \A row \in R : row.table = "offer"
        BY <2>1 DEF Unclaimed, Table
      <3> QED BY <1>1, <1>2, <3>1 DEF Table
    <2> QED BY <1>6, <1>7, <1>8, <2>1, <2>2 DEF Unclaimed
  <1>10. RequestsHang(T, D.rows \cup T)
    <2>1. RequestsHang(R, D.rows \cup T)
      <3>1. D.rows \cup R \subseteq D.rows \cup T
        BY <1>1
      <3> QED BY <3>1, RequestsHangOn DEF Original, RowsOwned
    <2>2. RequestsHang(F, D.rows \cup T)
      BY <1>2 DEF RequestsHang, Table
    <2> QED BY <1>1, <2>1, <2>2, RequestsHangTogether
  <1>11. \A row \in T : \A key \in StoreKeys(row) : KeyOwner(key) \in Owns(D, q, held, T)
    BY <1>1, <1>4, <1>5 DEF Original, RowsOwned
  <1>12. RowsOwned(D, q, held, T)
    BY <1>7, <1>9, <1>10, <1>11 DEF Original, RowsOwned
  <1> QED BY <1>1, <1>3, <1>12 DEF Original

\* From the first world to another.
LEMMA ContinueOriginal ==
  ASSUME NEW D, RowsWhole(D), RequestsHang(D.rows, D.rows), NEW q, q.op = "continue",
         q.run \in NativeRuns(D), StepTaken(D, q) = {}, Classify(D, q.run) = "admission",
         NEW held, RunLock(q.run) \in held, SessionLock(Current(D.rows, q.run)) \in held,
         NEW x, x \notin Named(D.rows), NEW R, R \in {ContinueRows(D, q, x), FogRows(D, q, x)}
  PROVE  Original(D, q, held, x, R) /\ q.run \notin DOMAIN D.position
  <1>1. PICK r, m, left, evidence :
            /\ r = q.run /\ m = Run(D.rows, q.run) /\ left = Current(D.rows, q.run)
            /\ evidence = Evidence(q.run, 4, {SealedNow(D, left)}, x)
    OBVIOUS
  <1>2. r \in NativeRuns(D) /\ Classify(D, r) = "admission"
    BY <1>1
  <1>3. /\ Run(D.rows, r).status \in ActiveLine
        /\ Joined(D.rows, r) = 1 /\ WorldRows(D.rows, r) = {} /\ r \notin DOMAIN D.position
    BY <1>2 DEF Classify, Joined
  <1>4. m.version = 3
    BY <1>1, <1>2, <1>3, ActiveVersion
  <1>5. Of(D.rows, "root", r) = {} /\ Of(D.rows, "visit", r) = {}
    BY <1>3 DEF WorldRows, WorldTables, Of, Table
  <1>6. PICK W1, W2 :
           /\ W1 = {Root(r, "sealed", left, D.snap[left]),
                    Root(r, "found", x, Image(0, "open", D.snap[left].player)),
                    Visit(r, 1, left), Visit(r, 2, x)}
           /\ W2 = {Root(r, "sealed", left, D.snap[left]),
                    Entry(r, x, left, D.snap[left], Image(0, "open", D.snap[left].player)),
                    Visit(r, 1, left), Visit(r, 2, x)}
    OBVIOUS
  <1>7. \A row \in W1 \cup W2 :
           /\ row.table \in WorldTables /\ row.run = r
           /\ \/ row.table = "root"
              \/ row.table = "entry" /\ row.session = x
              \/ row.table = "visit" /\ row.session \in {left, x}
    BY <1>6 DEF Root, Entry, Visit, WorldTables
  <1>8. ASSUME NEW row \in W1 \cup W2, NEW O, {RunLock(r), SessionLock(left), SessionLock(x)} \subseteq O
        PROVE  AddedBy(D.rows, row, O)
    <2>1. \/ row.table = "root" /\ Of(D.rows, "root", r) = {}
          \/ row.table = "entry" /\ row.session \notin Named(D.rows) /\ SessionLock(row.session) \in O
          \/ /\ row.table = "visit" /\ SessionLock(row.session) \in O
             /\ \/ row.session \notin Named(D.rows)
                \/ row.session = Current(D.rows, r) /\ Of(D.rows, "visit", r) = {}
             /\ \A other \in Of(D.rows, "visit", r) : other.ordinal # row.ordinal /\ other.joined # row.joined
      BY <1>1, <1>5, <1>7, <1>8
    <2> QED BY <1>2, <1>7, <1>8, <2>1, WorldApart
  <1>9. evidence.table = "evidence" /\ evidence.run = q.run /\ evidence.version = m.version + 1
    BY <1>1, <1>4 DEF Evidence
  <1>10. StepKind[q.op] = "CONTINUE"
    BY DEF StepKind
  <1>11. PICK W, world : R = JoinRows(m, StepKind[q.op], q, x)
                               \cup {Session(x, StepOp(q), world), Event(x, 1)} \cup W \cup {evidence}
                         /\ W \in {W1, W2}
    <2>1. ContinueRows(D, q, x) = JoinRows(m, "CONTINUE", q, x)
             \cup {Session(x, StepOp(q), Onward["death_certificate"]), Event(x, 1)} \cup W1 \cup {evidence}
      <3> HIDE DEF JoinRows, Session, Event, Root, Visit, Evidence, SealedNow, Current
      <3> QED BY <1>1, <1>6 DEF ContinueRows, Opened
    <2>2. FogRows(D, q, x) = JoinRows(m, "CONTINUE", q, x)
             \cup {Session(x, StepOp(q), Onward["fog_station"]), Event(x, 1)} \cup W2 \cup {evidence}
      BY <1>1, <1>6 DEF FogRows, Opened
    <2> QED BY <1>10, <2>1, <2>2
  <1>12. WorldsAdded(D, q, x, W)
    BY <1>1, <1>7, <1>8, <1>11 DEF WorldsAdded
  <1>13. Original(D, q, held, x, R)
    <2>1. m = Run(D.rows, q.run) /\ q.op \in {"continue", "revisit"}
      BY <1>1
    <2> QED BY <1>9, <1>11, <1>12, <2>1, JoinOriginal
  <1> QED BY <1>1, <1>3, <1>13

\* Back into another region.
LEMMA RevisitOriginal ==
  ASSUME NEW D, RowsWhole(D), RequestsHang(D.rows, D.rows), NEW q, q.op = "revisit",
         q.run \in NativeRuns(D), StepTaken(D, q) = {}, Classify(D, q.run) = "continued",
         NEW held, RunLock(q.run) \in held, SessionLock(Current(D.rows, q.run)) \in held,
         NEW x, x \notin Named(D.rows), NEW R, R = RevisitRows(D, q, x)
  PROVE  Original(D, q, held, x, R)
  <1>1. PICK r, m, left, evidence :
            /\ r = q.run /\ m = Run(D.rows, q.run) /\ left = Current(D.rows, q.run)
            /\ evidence = Evidence(q.run, 5, {SealedNow(D, left)}, x)
    OBVIOUS
  <1>2. r \in NativeRuns(D) /\ Classify(D, r) = "continued"
    BY <1>1
  <1>3. Run(D.rows, r).status \in ActiveLine /\ Joined(D.rows, r) = 2
    BY <1>2 DEF Classify, Joined
  <1>4. m.version = 4
    BY <1>1, <1>2, <1>3, ActiveVersion
  <1>5. PICK V : V = Of(D.rows, "visit", r)
    OBVIOUS
  <1>6. VisitsFollow(D, r, 2) /\ Cardinality(V) = 2
    <2>1. Joined(D.rows, r) \in 2..3
      BY <1>3
    <2>2. Classify(D, r) # "broken"
      BY <1>2
    <2>3. VisitsFollow(D, r, Joined(D.rows, r)) /\ Cardinality(Of(D.rows, "visit", r)) = Joined(D.rows, r)
      BY <2>1, <2>2, NativeJourney
    <2> QED BY <1>3, <1>5, <2>3
  <1>7. PICK a, b : a = Visit(r, 1, JoinedAt(D.rows, r, 3)) /\ b = Visit(r, 2, JoinedAt(D.rows, r, 4))
    OBVIOUS
  <1>8. V = {a, b}
    <2>1. a \in D.rows /\ b \in D.rows
      BY <1>6, <1>7 DEF VisitsFollow
    <2>2. a \in V /\ b \in V /\ a # b
      BY <1>5, <1>7, <2>1 DEF Of, Table, Visit
    <2>3. IsFiniteSet(V)
      <3>1. V \subseteq D.rows
        BY <1>5 DEF Of, Table
      <3> QED BY <3>1, TableIsFinite DEF RowsWhole
    <2> QED BY <1>6, <2>2, <2>3, TwoOf
  <1>9. \A other \in V : other.ordinal # 3 /\ other.joined # 5
    BY <1>7, <1>8 DEF Visit
  <1>10. PICK W : W = {Entry(r, x, left, D.snap[left], Image(0, "open", D.snap[left].player)), Visit(r, 3, x)}
    OBVIOUS
  <1>11. \A row \in W :
           /\ row.table \in WorldTables /\ row.run = r /\ row.session = x
           /\ \/ row.table = "entry"
              \/ row.table = "visit" /\ row.ordinal = 3 /\ row.joined = 5
    BY <1>10 DEF Entry, Visit, WorldTables
  <1>12. ASSUME NEW row \in W, NEW O, {RunLock(r), SessionLock(left), SessionLock(x)} \subseteq O
        PROVE  AddedBy(D.rows, row, O)
    <2>1. \/ row.table = "entry" /\ row.session \notin Named(D.rows) /\ SessionLock(row.session) \in O
          \/ /\ row.table = "visit" /\ SessionLock(row.session) \in O
             /\ row.session \notin Named(D.rows)
             /\ \A other \in Of(D.rows, "visit", r) : other.ordinal # row.ordinal /\ other.joined # row.joined
      BY <1>5, <1>9, <1>11, <1>12
    <2> QED BY <1>2, <1>11, <1>12, <2>1, WorldApart
  <1>13. evidence.table = "evidence" /\ evidence.run = q.run /\ evidence.version = m.version + 1
    BY <1>1, <1>4 DEF Evidence
  <1>14. StepKind[q.op] = "REVISIT"
    BY DEF StepKind
  <1>15. PICK world : R = JoinRows(m, StepKind[q.op], q, x)
                               \cup {Session(x, StepOp(q), world), Event(x, 1)} \cup W \cup {evidence}
    <2>1. RevisitRows(D, q, x) = JoinRows(m, "REVISIT", q, x)
             \cup {Session(x, StepOp(q), Onward["undelivered_receipt"]), Event(x, 1)} \cup W \cup {evidence}
      BY <1>1, <1>10 DEF RevisitRows, Opened
    <2> QED BY <1>14, <2>1
  <1>16. WorldsAdded(D, q, x, W)
    BY <1>1, <1>11, <1>12 DEF WorldsAdded
  <1>17. m = Run(D.rows, q.run) /\ q.op \in {"continue", "revisit"}
    BY <1>1
  <1> QED BY <1>13, <1>15, <1>16, <1>17, JoinOriginal

\* What an operation on a run stages is its own, the run's position included.
LEMMA StepOriginal ==
  ASSUME NEW D, RowsWhole(D), RequestsHang(D.rows, D.rows), NEW q, q.op \in DOMAIN StepKind,
         q.run \in NativeRuns(D), StepTaken(D, q) = {}, StepAllowed(D, q),
         NEW held, RunLock(q.run) \in held, SessionLock(q.session) \in held,
         NEW x, x \notin Named(D.rows), NEW st, st = StepStaged(D, q, x)
  PROVE  Original(D, q, held, x, st.rows) /\ MoveOwned(D, held, st)
  <1>1. SessionLock(Current(D.rows, q.run)) \in held /\ Classify(D, q.run) \in StartsFrom[q.op]
    BY DEF StepAllowed, StepOffered
  <1>2. PICK image, at, of : /\ image = Image(0, "open", D.snap[Current(D.rows, q.run)].player)
                             /\ at = PositionAt(x, Run(D.rows, q.run).version + 1)
                             /\ of = D.position[q.run]
    OBVIOUS
  <1>3. \A R : Carried(R, image).rows = R \cup Firsts(R)
    BY DEF Carried, Empty, Firsts
  <1>4. CASE q.op = "exit"
    <2>1. PICK status, sealed : st = [Empty EXCEPT !.rows = EndRows(D, q, status, StepKind[q.op], sealed)]
      BY <1>4 DEF StepStaged, LeaveRows, StepKind
    <2>2. st.rows = EndRows(D, q, status, StepKind[q.op], sealed) /\ DOMAIN st.moved = {}
      BY <2>1 DEF Empty
    <2>3. Original(D, q, held, x, st.rows)
      BY <1>1, <1>4, <2>2, EndOriginal
    <2> QED BY <2>2, <2>3 DEF MoveOwned, PositionFits
  <1>5. CASE q.op = "complete"
    <2>1. PICK status, sealed : st = [Empty EXCEPT !.rows = EndRows(D, q, status, StepKind[q.op], sealed)]
      <3>1. StepKind[q.op] = "COMPLETE"
        BY <1>5 DEF StepKind
      <3>2. PICK status, sealed : status = "COMPLETED" /\ sealed = {SealedNow(D, row.session) : row \in Participations(D.rows, q.run)}
        OBVIOUS
      <3>3. CompleteRows(D, q) = EndRows(D, q, status, "COMPLETE", sealed)
        BY <3>2 DEF CompleteRows
      <3>4. st = [Empty EXCEPT !.rows = CompleteRows(D, q)]
        BY <1>5 DEF StepStaged
      <3> QED BY <3>1, <3>3, <3>4
    <2>2. st.rows = EndRows(D, q, status, StepKind[q.op], sealed) /\ DOMAIN st.moved = {}
      BY <2>1 DEF Empty
    <2>3. Original(D, q, held, x, st.rows)
      BY <1>1, <1>5, <2>2, EndOriginal
    <2> QED BY <2>2, <2>3 DEF MoveOwned, PositionFits
  <1>6. CASE q.op = "continue"
    <2>1. Classify(D, q.run) = "admission"
      BY <1>1, <1>6 DEF StartsFrom
    <2>2. PICK R \in {ContinueRows(D, q, x), FogRows(D, q, x)} :
             st = [Carried(R, image) EXCEPT !.moved = Only(q.run, at)]
      BY <1>2, <1>6 DEF StepStaged
    <2>3. st.rows = R \cup Firsts(R) /\ st.moved = Only(q.run, at)
      BY <1>3, <2>2 DEF Carried, Empty, Firsts
    <2>4. Original(D, q, held, x, R) /\ q.run \notin DOMAIN D.position
      BY <1>1, <1>6, <2>1, ContinueOriginal
    <2>5. Original(D, q, held, x, st.rows)
      BY <2>3, <2>4, FirstsOriginal
    <2>6. DOMAIN st.moved = {q.run}
      BY <2>3 DEF Only
    <2> QED BY <2>4, <2>5, <2>6 DEF MoveOwned, PositionFits
  <1>7. CASE q.op = "revisit"
    <2>1. Classify(D, q.run) = "continued"
      BY <1>1, <1>7 DEF StartsFrom
    <2>2. PICK R : R = RevisitRows(D, q, x) /\
             st = [Carried(R, image) EXCEPT !.found = Only(q.run, of), !.moved = Only(q.run, at)]
      BY <1>2, <1>7 DEF StepStaged
    <2>3. st.rows = R \cup Firsts(R) /\ st.moved = Only(q.run, at) /\ st.found = Only(q.run, of)
      BY <1>3, <2>2 DEF Carried, Empty, Firsts
    <2>4. Original(D, q, held, x, R)
      BY <1>1, <1>7, <2>1, <2>2, RevisitOriginal
    <2>5. Original(D, q, held, x, st.rows)
      BY <2>3, <2>4, FirstsOriginal
    <2>6. DOMAIN st.moved = {q.run} /\ DOMAIN st.found = {q.run} /\ st.found[q.run] = of
      BY <2>3 DEF Only
    <2> QED BY <1>2, <2>5, <2>6 DEF MoveOwned, PositionFits
  <1> QED BY <1>4, <1>5, <1>6, <1>7, StepOperations

-----------------------------------------------------------------------------
(* Turns and narrative jobs                                                 *)

\* Turns and jobs open nothing and move nobody.
Quiet(st) ==
    /\ \A row \in st.rows : row.table \in {"turn", "event"}
    /\ DOMAIN st.opened = {} /\ DOMAIN st.moved = {}

\* The forms of what they stage.
LEMMA QuietForms ==
  ASSUME NEW D, NEW q
  PROVE  /\ Quiet(Empty) /\ Quiet(Unchanged(D, q).staged) /\ Quiet(Advanced(D, q))
         /\ \A jobs : Quiet([Empty EXCEPT !.jobs = jobs])
         /\ \A jobs, progress : Quiet([Advanced(D, q) EXCEPT !.jobs = jobs, !.progress = progress])
  <1>1. PICK turn, event : /\ turn = Turn(q.session, q.key, q.body)
                           /\ event = Event(q.session, NextEvent(D, q.session))
    OBVIOUS
  <1>2. turn.table = "turn" /\ event.table = "event"
    BY <1>1 DEF Turn, Event
  <1>3. Quiet(Empty)
    BY DEF Quiet, Empty
  <1>4. Unchanged(D, q).staged \in {Empty, [Empty EXCEPT !.rows = {turn}]}
    BY <1>1, StagedRows DEF Unchanged
  <1>5. Quiet([Empty EXCEPT !.rows = {turn}])
    BY <1>2 DEF Quiet, Empty
  <1>6. PICK saved : Advanced(D, q) = [Empty EXCEPT !.rows = {turn, event}, !.saved = saved]
    BY <1>1 DEF Advanced
  <1>7. PICK st : st = Advanced(D, q)
    OBVIOUS
  <1>8. /\ st.rows = {turn, event} /\ DOMAIN st.opened = {} /\ DOMAIN st.moved = {}
        /\ DOMAIN st = {"rows", "opened", "saved", "found", "moved", "progress", "jobs"}
    BY <1>6, <1>7 DEF Empty
  <1>9. Quiet(st)
    BY <1>2, <1>8 DEF Quiet
  <1>10. \A jobs : Quiet([Empty EXCEPT !.jobs = jobs])
    BY DEF Quiet, Empty
  <1>11. ASSUME NEW jobs, NEW progress
         PROVE  Quiet([st EXCEPT !.jobs = jobs, !.progress = progress])
    <2>1. PICK u : u = [st EXCEPT !.jobs = jobs, !.progress = progress]
      OBVIOUS
    <2>2. u.rows = st.rows /\ u.opened = st.opened /\ u.moved = st.moved
      BY <1>8, <2>1
    <2> QED BY <1>9, <2>1, <2>2 DEF Quiet
  <1> QED BY <1>3, <1>4, <1>5, <1>7, <1>9, <1>10, <1>11

\* So is whatever a turn or a worker stages.
LEMMA GameQuiet ==
  ASSUME NEW D, NEW q, NEW t, q.op \in GameOperations
  PROVE  Quiet(Verdict(D, q, t).staged)
  <1> DEFINE job == CHOOSE j \in JobOf(D, q) : TRUE
             progress == IF Outside(D, q.session) THEN Only(q.session, D.progress[q.session] + 1) ELSE <<>>
             ended == Replaced(job, "COMMITTED", None).jobs
             finished == [Advanced(D, q) EXCEPT !.jobs = ended, !.progress = progress]
             asked == [Empty EXCEPT !.jobs = {[old |-> NoJob, new |-> JobOn(q, D.sess[q.session])]}]
  <1>1. /\ \A code : Deny(code).staged = Empty
        /\ \A result : Tell(result).staged = Empty
        /\ \A result, st : Stage(result, st).staged = st
    BY StagedRows
  <1>2. TurnReplay(D, q).staged = Empty
    BY <1>1 DEF TurnReplay
  <1>3. \A j, status, lease : Quiet(Replaced(j, status, lease))
    BY QuietForms DEF Replaced
  <1>4. Quiet(Empty) /\ Quiet(Unchanged(D, q).staged) /\ Quiet(Advanced(D, q))
    BY QuietForms
  <1>5. Quiet(asked) /\ Quiet(finished)
    <2> HIDE DEF job, progress, ended
    <2> QED BY QuietForms
  <1>6. Quiet(TurnVerdict(D, q).staged)
    BY <1>1, <1>2, <1>4 DEF TurnVerdict
  <1>7. Quiet(PrepareJobVerdict(D, q).staged)
    <2>1. PrepareJobVerdict(D, q).staged \in {Empty, Unchanged(D, q).staged, asked}
      BY <1>1, <1>2 DEF PrepareJobVerdict
    <2> QED BY <1>4, <1>5, <2>1
  <1>8. /\ Quiet(ClaimVerdict(D, q, t).staged)
        /\ Quiet(ProposeVerdict(D, q, t).staged)
        /\ Quiet(ExpireVerdict(D, q).staged)
    BY <1>1, <1>3, <1>4 DEF ClaimVerdict, ProposeVerdict, ExpireVerdict
  <1>9. Quiet(FinishVerdict(D, q, t).staged)
    <2>1. PICK v : v = FinishVerdict(D, q, t)
      OBVIOUS
    <2>2. v = IF \A j \in JobOf(D, q) : j.status # "PROPOSAL_VALIDATED" \/ j.lease # t
              THEN Deny("JOB_STALE")
              ELSE IF job.version # D.sess[q.session] THEN Deny("JOB_STALE")
              ELSE IF ~Readable(D, q.session) THEN Deny("INTEGRITY")
              ELSE Stage(<<"turn", q.session>>, finished)
      BY <2>1 DEF FinishVerdict
    <2> HIDE DEF finished, job
    <2>3. v.staged \in {Empty, finished}
      BY <1>1, <2>2
    <2> QED BY <1>4, <1>5, <2>1, <2>3
  <1>10. /\ q.op = "turn" => Verdict(D, q, t) = TurnVerdict(D, q)
         /\ q.op = "prepare_job" => Verdict(D, q, t) = PrepareJobVerdict(D, q)
         /\ q.op = "claim" => Verdict(D, q, t) = ClaimVerdict(D, q, t)
         /\ q.op = "propose" => Verdict(D, q, t) = ProposeVerdict(D, q, t)
         /\ q.op = "expire" => Verdict(D, q, t) = ExpireVerdict(D, q)
         /\ q.op = "finish" => Verdict(D, q, t) = FinishVerdict(D, q, t)
    BY DEF Verdict
  <1> QED BY <1>6, <1>7, <1>8, <1>9, <1>10 DEF GameOperations

\* What is written to a session is under its lock.
LEMMA GameOriginal ==
  ASSUME NEW D, StoreWhole(D), NEW q, q.op \in GameOperations, NEW held, NEW x, NEW st,
         Quiet(st), UnitFits(D, st, held), SessionKept(D, st, held, q.op)
  PROVE  Original(D, q, held, x, st.rows) /\ MoveOwned(D, held, st)
  <1>1. PICK R, O : R = st.rows /\ O = Owns(D, q, held, R)
    OBVIOUS
  <1>2. \A row \in R : row.table \in {"turn", "event"}
    BY <1>1 DEF Quiet
  <1>3. Named(R) = {} /\ Table(R, "session") = {}
    BY <1>2 DEF Named, Table
  <1>4. RowsFit(D, st) /\ EventsFit(st) /\ Opens(D.rows) = DOMAIN D.sess
    BY DEF UnitFits, StoreWhole, RowsWhole
  <1>5. ASSUME NEW row \in R
        PROVE  row.session \in Named(D.rows) /\ SessionLock(row.session) \in held
    <2>1. CASE row.table = "turn"
      <3>1. PICK p \in Table(D.rows \cup R, "session") : p.session = row.session
        BY <1>1, <1>4, <2>1 DEF RowsFit, HangsIn
      <3>2. p \in D.rows /\ p.table = "session"
        BY <1>2, <3>1 DEF Table
      <3>3. row.session \in Named(D.rows)
        BY <3>1, <3>2, NamesOf
      <3>4. SessionLock(row.session) \in held
        BY <1>1, <2>1 DEF SessionKept, Answers, Table
      <3> QED BY <3>3, <3>4
    <2>2. CASE row.table = "event"
      <3>1. row.session \in DOMAIN st.saved
        BY <1>1, <1>4, <2>2 DEF EventsFit, Quiet, Table
      <3>2. row.session \in DOMAIN D.sess /\ SessionLock(row.session) \in held
        BY <3>1, SavedHeld
      <3>3. PICK p \in D.rows : p.table = "session" /\ p.session = row.session
        BY <1>4, <3>2 DEF Opens, Table
      <3>4. row.session \in Named(D.rows)
        BY <3>3, NamesOf
      <3> QED BY <3>2, <3>4
    <2> QED BY <1>2, <2>1, <2>2
  <1>6. ASSUME NEW row \in R, NEW key \in StoreKeys(row)
        PROVE  KeyOwner(key) \in O
    <2>1. SessionLock(row.session) \in O
      BY <1>1, <1>5, OwnLocks
    <2> QED BY <1>2, <2>1, RowOwners
  <1>7. ~Taken(D, R)
    <2>1. ~Taken(D, Table(R, "turn"))
      BY <1>1, TurnsNotTaken DEF SessionKept
    <2>2. ~Taken(D, Table(R, "session"))
      BY <1>3 DEF Taken, KeysOf
    <2>3. ~Taken(D, Table(R, "event"))
      BY <1>1, <2>2, EventsNotTaken DEF SessionKept
    <2>4. R = Table(R, "turn") \cup Table(R, "event")
      BY <1>2 DEF Table
    <2>5. KeysOf(R) = KeysOf(Table(R, "turn")) \cup KeysOf(Table(R, "event"))
      BY <2>4 DEF KeysOf
    <2> QED BY <2>1, <2>3, <2>5 DEF Taken
  <1>8. q.op \notin Creations \cup {"prepare", "confirm"}
    BY DEF Creations, GameOperations
  <1>9. Unclaimed(D, q, R)
    BY <1>7, <1>8 DEF Unclaimed
  <1>10. RequestsHang(R, D.rows \cup R)
    BY <1>2 DEF RequestsHang, Table
  <1>11. RowsOwned(D, q, held, R)
    BY <1>1, <1>6, <1>8, <1>9, <1>10 DEF RowsOwned
  <1>12. MoveOwned(D, held, st)
    BY DEF Quiet, MoveOwned, PositionFits
  <1> QED BY <1>1, <1>3, <1>11, <1>12 DEF Original

-----------------------------------------------------------------------------
(* Verdicts                                                                 *)

\* A service's verdict comes with the first events of what it opens, and moves nobody.
LEMMA LiftOriginal ==
  ASSUME NEW D, RowsWhole(D), NEW q, NEW held, NEW x, NEW w, Original(D, q, held, x, w.rows),
         NEW st, st = Lift(w).staged
  PROVE  Original(D, q, held, x, st.rows) /\ MoveOwned(D, held, st)
  <1>1. PICK R : R = w.rows
    OBVIOUS
  <1>2. st.rows = R \cup Firsts(R) /\ st.moved = <<>>
    BY <1>1 DEF Lift, Carried, Empty, Firsts
  <1>3. Original(D, q, held, x, st.rows)
    BY <1>1, <1>2, FirstsOriginal
  <1>4. MoveOwned(D, held, st)
    BY <1>2 DEF MoveOwned, PositionFits
  <1> QED BY <1>3, <1>4

\* Registering a character.
LEMMA CreateOriginal ==
  ASSUME NEW D, RowsWhole(D), RequestsHang(D.rows, D.rows), NEW q, q.op = "create", NEW held,
         ControllerLock(q.who) \in held, NEW x, x \notin Named(D.rows)
  PROVE  Original(D, q, held, x, Registering(D.rows, q, CreateVerdict(D.rows, q, x)).rows)
  <1>1. PICK v : v = CreateVerdict(D.rows, q, x)
    OBVIOUS
  <1>2. v.rows # {} => CreationReceipts(D.rows, q) = {} /\ v.rows = CreationRows(q, x)
    <2>1. \A receipt : CreateReuse(q, receipt).rows = {}
      BY DEF CreateReuse, Refuse, Answer
    <2> QED BY <1>1, <2>1 DEF CreateVerdict, Apply
  <1>3. "rows" \in DOMAIN v
    BY <1>1 DEF CreateVerdict, CreateReuse, Refuse, Answer, Apply
  <1>4. CASE v.rows = {}
    BY <1>1, <1>4, NothingOriginal DEF Registering
  <1>5. CASE v.rows # {}
    <2>1. PICK R : R = CreationRows(q, x) \cup ({Binding(q.who)} \ D.rows)
      OBVIOUS
    <2>2. Registering(D.rows, q, v).rows = R
      BY <1>2, <1>3, <1>5, <2>1 DEF Registering
    <2>3. Original(D, q, held, x, R)
      BY <1>2, <1>5, <2>1, CreationOriginal
    <2> QED BY <1>1, <2>2, <2>3
  <1> QED BY <1>4, <1>5

\* Changing its life.
LEMMA MutateOriginal ==
  ASSUME NEW D, RowsWhole(D), NEW q, q.op = "mutate", NEW held, CharacterLock(q.char) \in held, NEW x
  PROVE  Original(D, q, held, x, MutateVerdict(D.rows, D.rows, q).rows)
  <1>1. PICK v : v = MutateVerdict(D.rows, D.rows, q)
    OBVIOUS
  <1>2. \A code : Refuse(code).rows = {}
    BY DEF Refuse
  <1>3. \A result : Answer(result).rows = {}
    BY DEF Answer
  <1>4. \A m, receipt : MutateReuse(m, q, receipt).rows = {}
    BY <1>2, <1>3 DEF MutateReuse
  <1>5. v.rows # {} => /\ Owned(D.rows, q) /\ MutationReceipts(D.rows, q) = {}
                       /\ v.rows = MutationRows(Character(D.rows, q.char), q)
    BY <1>1, <1>2, <1>4 DEF MutateVerdict, Apply
  <1>6. CASE v.rows = {}
    BY <1>1, <1>6, NothingOriginal
  <1>7. CASE v.rows # {}
    <2>1. Revisions(D.rows, q.char) # {}
      BY <1>5, <1>7 DEF Owned
    <2>2. PICK R : R = MutationRows(Character(D.rows, q.char), q)
      OBVIOUS
    <2>3. Original(D, q, held, x, R)
      BY <1>5, <1>7, <2>1, <2>2, MutationOriginal
    <2> QED BY <1>1, <1>5, <1>7, <2>2, <2>3
  <1> QED BY <1>6, <1>7

\* What is held once all locks are.
LEMMA HeldLocks ==
  ASSUME NEW D, NEW q, q.op \in Operations, NEW held, Missing(D, q, held) = {}
  PROVE  /\ q.op = "create" => ControllerLock(q.who) \in held
         /\ q.op = "mutate" => CharacterLock(q.char) \in held
         /\ q.op = "confirm" /\ OfferFound(D.rows, q) => CharacterLock(q.char) \in held
         /\ q.op \in DOMAIN StepKind /\ q.run \in NativeRuns(D) =>
               RunLock(q.run) \in held /\ SessionLock(q.session) \in held
  <1>1. PICK order : order = LockOrder(D, q)
    OBVIOUS
  <1>2. \A k \in DOMAIN order : order[k] \in held
    BY <1>1 DEF Missing
  <1>3. ASSUME q.op = "create" PROVE ControllerLock(q.who) \in held
    <2>1. Found(D, q)
      BY <1>3, StepOperations DEF Found
    <2>2. order = <<ControllerLock(q.who)>>
      BY <1>1, <1>3, <2>1, StepOperations DEF LockOrder
    <2>3. 1 \in DOMAIN order /\ order[1] = ControllerLock(q.who)
      BY <2>2
    <2> QED BY <1>2, <2>3
  <1>4. ASSUME q.op \in {"mutate", "confirm"}, q.op = "confirm" => OfferFound(D.rows, q)
        PROVE  CharacterLock(q.char) \in held
    <2>1. Found(D, q)
      BY <1>4, StepOperations DEF Found
    <2>3. order # <<>> /\ order[1] = CharacterLock(q.char)
      BY <1>1, <1>4, <2>1, CharacterFirst DEF OnCharacter
    <2>4. 1 \in DOMAIN order
      <3>1. PICK n \in 0..3 : DOMAIN order = 1..n /\ n >= 1
        BY <1>1, <2>3, OrderAscends
      <3> QED BY <3>1
    <2> QED BY <1>2, <2>3, <2>4
  <1>5. ASSUME q.op \in DOMAIN StepKind, q.run \in NativeRuns(D)
        PROVE  RunLock(q.run) \in held /\ SessionLock(q.session) \in held
    <2>1. Found(D, q)
      BY <1>5, StepOperations DEF Found
    <2>2. order = StepLocks(D, q)
      BY <1>1, <1>5, <2>1, StepOperations DEF LockOrder
    <2>3. /\ {2, 3} \subseteq DOMAIN order
          /\ order[2] = RunLock(q.run) /\ order[3] = SessionLock(q.session)
      BY <2>2 DEF StepLocks
    <2> QED BY <1>2, <2>3
  <1> QED BY <1>3, <1>4, <1>5

\* The services of the ledger write what is theirs.
LEMMA LedgerOriginal ==
  ASSUME NEW D, RowsWhole(D), RequestsHang(D.rows, D.rows), NEW q, q.op \in LedgerOperations, NEW t,
         NEW held, Missing(D, q, held) = {}, NEW x, x = Fresh, x \notin Named(D.rows), x # None,
         NEW st, st = Verdict(D, q, t).staged
  PROVE  Original(D, q, held, x, st.rows) /\ MoveOwned(D, held, st)
  <1>1. /\ q.op \in Operations /\ q.op \notin {"turn", "prepare_job", "claim", "propose", "expire", "finish"}
        /\ q.op = "create" => ControllerLock(q.who) \in held
        /\ q.op = "mutate" => CharacterLock(q.char) \in held
        /\ q.op = "confirm" /\ OfferFound(D.rows, q) => CharacterLock(q.char) \in held
    BY HeldLocks DEF LedgerOperations, Operations
  <1>2. ASSUME NEW w, Verdict(D, q, t) = Lift(w), Original(D, q, held, x, w.rows)
        PROVE  Original(D, q, held, x, st.rows) /\ MoveOwned(D, held, st)
    BY <1>2, LiftOriginal
  <1>3. CASE q.op = "create"
    <2>1. PICK w : w = Registering(D.rows, q, CreateVerdict(D.rows, q, x))
      OBVIOUS
    <2>2. Verdict(D, q, t) = Lift(w)
      BY <1>3, <2>1 DEF Verdict
    <2>3. Original(D, q, held, x, w.rows)
      BY <1>1, <1>3, <2>1, CreateOriginal
    <2> QED BY <1>2, <2>2, <2>3
  <1>4. CASE q.op = "mutate"
    <2>1. PICK w : w = MutateVerdict(D.rows, D.rows, q)
      OBVIOUS
    <2>2. Verdict(D, q, t) = Lift(w)
      BY <1>4, <2>1 DEF Verdict
    <2>3. Original(D, q, held, x, w.rows)
      BY <1>1, <1>4, <2>1, MutateOriginal
    <2> QED BY <1>2, <2>2, <2>3
  <1>5. CASE q.op \in {"enter", "admit"}
    <2>1. PICK w : w = EnterVerdict(D.rows, D.rows, q, x, x)
      OBVIOUS
    <2>2. Verdict(D, q, t) = Lift(w)
      BY <1>5, <2>1 DEF Verdict
    <2>3. Original(D, q, held, x, w.rows)
      BY <1>5, <2>1, EnterOriginal
    <2> QED BY <1>2, <2>2, <2>3
  <1>6. CASE q.op = "prepare"
    <2>1. PICK w : w = PrepareVerdict(D.rows, D.rows, q, x)
      OBVIOUS
    <2>2. Verdict(D, q, t) = Lift(w)
      BY <1>6, <2>1 DEF Verdict
    <2>3. Original(D, q, held, x, w.rows)
      BY <1>6, <2>1, PrepareOriginal
    <2> QED BY <1>2, <2>2, <2>3
  <1>7. CASE q.op = "confirm" /\ OfferFound(D.rows, q)
    <2>1. PICK w : w = ConfirmVerdict(D.rows, D.rows, q, x, x)
      OBVIOUS
    <2>2. Verdict(D, q, t) = Lift(w)
      BY <1>7, <2>1 DEF Verdict
    <2>3. Original(D, q, held, x, w.rows)
      BY <1>1, <1>7, <2>1, ConfirmOriginal
    <2> QED BY <1>2, <2>2, <2>3
  <1>8. CASE q.op = "confirm" /\ ~OfferFound(D.rows, q)
    <2>1. st = Empty
      BY <1>8, StagedRows DEF Verdict
    <2>2. st.rows = {} /\ DOMAIN st.moved = {}
      BY <2>1 DEF Empty
    <2> QED BY <2>2, NothingOriginal DEF MoveOwned, PositionFits
  <1>9. CASE q.op = "create_session"
    <2>1. PICK w : w = CreateSessionVerdict(D.rows, q, x)
      OBVIOUS
    <2>2. Verdict(D, q, t) = Lift(w)
      BY <1>9, <2>1 DEF Verdict
    <2>3. Original(D, q, held, x, w.rows)
      BY <1>9, <2>1, CreateSessionOriginal
    <2> QED BY <1>2, <2>2, <2>3
  <1> QED BY <1>3, <1>4, <1>5, <1>6, <1>7, <1>8, <1>9 DEF LedgerOperations

\* What a unit of work decides under its locks is its own to write.
LEMMA VerdictOriginal ==
  ASSUME NEW D, StoreWhole(D), JobsAwait(D), RequestsHang(D.rows, D.rows), NEW q, q.op \in Operations,
         NEW t, NEW held, Missing(D, q, held) = {}, NEW x, x = Fresh, x \notin Named(D.rows), x # None,
         NEW st, st = Verdict(D, q, t).staged
  PROVE  Original(D, q, held, x, st.rows) /\ MoveOwned(D, held, st)
  <1>1. RowsWhole(D)
    BY DEF StoreWhole
  <1>2. CASE q.op \in LedgerOperations
    BY <1>1, <1>2, LedgerOriginal
  <1>3. CASE q.op \in GameOperations
    BY <1>3, GameQuiet, VerdictFits, VerdictKept, GameOriginal
  <1>4. CASE q.op \in DOMAIN StepKind
    <2>1. Verdict(D, q, t) = StepVerdict(D, q, x)
      BY <1>4, StepOperations DEF Verdict
    <2>2. CASE st = Empty
      <3>1. st.rows = {} /\ DOMAIN st.moved = {}
        BY <2>2 DEF Empty
      <3> QED BY <3>1, NothingOriginal DEF MoveOwned, PositionFits
    <2>3. CASE st # Empty
      <3>1. /\ q.run \in NativeRuns(D) /\ StepTaken(D, q) = {} /\ StepAllowed(D, q)
            /\ st = StepStaged(D, q, x)
        BY <2>1, <2>3, StepStages
      <3>2. RunLock(q.run) \in held /\ SessionLock(q.session) \in held
        BY <1>4, <3>1, HeldLocks
      <3> QED BY <1>1, <1>4, <3>1, <3>2, StepOriginal
    <2> QED BY <2>2, <2>3
  <1> QED BY <1>2, <1>3, <1>4 DEF Operations, LedgerOperations, GameOperations

-----------------------------------------------------------------------------
(* Publishing side by side                                                  *)

\* What a unit of work owns: a lock it holds, a new name, an opening, or a request.
LEMMA OwnSorts ==
  ASSUME NEW D, NEW q, NEW held, NEW R, NEW lock \in Owns(D, q, held, R)
  PROVE  \/ lock \in held /\ lock[1] = "controller"
         \/ lock \in held /\ lock[1] \in {"character", "run", "session"} /\ lock[2] \in Named(D.rows)
         \/ lock[1] \in {"character", "run", "session"} /\ lock[2] \in Named(R) \ Named(D.rows)
         \/ lock[1] = "offer" /\ q.op = "confirm" /\ lock[2] = q.offer
         \/ lock[1] = "offering" /\ q.op = "prepare"
         \/ lock[1] = "request" /\ q.op \in Creations /\ lock[2] = Op(q)
  <1>1. CASE lock \in Locks(D, held)
    BY <1>1 DEF Locks
  <1>2. CASE lock \in NewLocks(D, R)
    <2>1. PICK n \in Named(R) \ Named(D.rows) : lock \in {CharacterLock(n), RunLock(n), SessionLock(n)}
      BY <1>2 DEF NewLocks
    <2>2. lock[1] \in {"character", "run", "session"} /\ lock[2] = n
      BY <2>1 DEF CharacterLock, RunLock, SessionLock
    <2> QED BY <2>2
  <1>3. CASE q.op = "confirm" /\ lock = <<"offer", q.offer>>
    BY <1>3
  <1>4. CASE q.op = "prepare" /\ lock = <<"offering", None>>
    BY <1>4
  <1>5. CASE q.op \in Creations /\ lock = <<"request", Op(q)>>
    BY <1>5
  <1> QED BY <1>1, <1>2, <1>3, <1>4, <1>5 DEF Owns

\* Two that hold different locks own the same only if they confirm one opening, prepare
\* openings, or create under one request.
LEMMA OwnsApart ==
  ASSUME NEW D, NEW q, NEW held, NEW R, NEW p, NEW theirs, NEW T, held \cap theirs = {},
         Named(R) \cap Named(T) \subseteq Named(D.rows),
         NEW lock \in Owns(D, q, held, R), lock \in Owns(D, p, theirs, T)
  PROVE  \/ q.op = "confirm" /\ p.op = "confirm" /\ q.offer = p.offer
         \/ q.op = "prepare" /\ p.op = "prepare"
         \/ q.op \in Creations /\ p.op \in Creations /\ Op(q) = Op(p)
  <1>1. \/ lock \in held /\ lock[1] = "controller"
        \/ lock \in held /\ lock[1] \in {"character", "run", "session"} /\ lock[2] \in Named(D.rows)
        \/ lock[1] \in {"character", "run", "session"} /\ lock[2] \in Named(R) \ Named(D.rows)
        \/ lock[1] = "offer" /\ q.op = "confirm" /\ lock[2] = q.offer
        \/ lock[1] = "offering" /\ q.op = "prepare"
        \/ lock[1] = "request" /\ q.op \in Creations /\ lock[2] = Op(q)
    BY OwnSorts
  <1>2. \/ lock \in theirs /\ lock[1] = "controller"
        \/ lock \in theirs /\ lock[1] \in {"character", "run", "session"} /\ lock[2] \in Named(D.rows)
        \/ lock[1] \in {"character", "run", "session"} /\ lock[2] \in Named(T) \ Named(D.rows)
        \/ lock[1] = "offer" /\ p.op = "confirm" /\ lock[2] = p.offer
        \/ lock[1] = "offering" /\ p.op = "prepare"
        \/ lock[1] = "request" /\ p.op \in Creations /\ lock[2] = Op(p)
    BY OwnSorts
  <1> QED BY ONLY <1>1, <1>2, held \cap theirs = {}, Named(R) \cap Named(T) \subseteq Named(D.rows)

\* Rows with a common key are of two openings or of two creations under one request.
LEMMA KeysMeet ==
  ASSUME NEW D, RowsWhole(D), NEW q, NEW held, NEW R, RowsOwned(D, q, held, R),
         NEW p, NEW theirs, NEW T, RowsOwned(D, p, theirs, T), held \cap theirs = {},
         Named(R) \cap Named(T) \subseteq Named(D.rows), KeysOf(R) \cap KeysOf(T) # {}
  PROVE  \/ q.op = "prepare" /\ p.op = "prepare"
         \/ q.op \in Creations /\ p.op \in Creations /\ Op(q) = Op(p)
  <1>1. PICK a \in R, b \in T : StoreKeys(a) \cap StoreKeys(b) # {}
    BY DEF KeysOf
  <1>2. PICK key \in StoreKeys(a) : key \in StoreKeys(b)
    BY <1>1
  <1>3. KeyOwner(key) \in Owns(D, q, held, R) /\ KeyOwner(key) \in Owns(D, p, theirs, T)
    BY <1>2 DEF RowsOwned
  <1>4. ~(q.op = "confirm" /\ p.op = "confirm" /\ q.offer = p.offer)
    <2> SUFFICES ASSUME q.op = "confirm", p.op = "confirm", q.offer = p.offer PROVE FALSE
      OBVIOUS
    <2>1. /\ OfferFound(D.rows, q) /\ CharacterLock(q.char) \in held
          /\ OfferFound(D.rows, p) /\ CharacterLock(p.char) \in theirs
      BY DEF RowsOwned
    <2>2. PICK offer \in Table(D.rows, "offer") : offer.offer = q.offer /\ offer.char = q.char
      BY <2>1 DEF OfferFound
    <2>3. PICK other \in Table(D.rows, "offer") : other.offer = p.offer /\ other.char = p.char
      BY <2>1 DEF OfferFound
    <2>4. /\ offer \in D.rows /\ <<"offer", offer.offer>> \in StoreKeys(offer)
          /\ other \in D.rows /\ <<"offer", other.offer>> \in StoreKeys(other)
      BY OwnKeys DEF Table
    <2>5. offer = other
      BY <2>2, <2>3, <2>4 DEF RowsWhole, OneHolder
    <2> QED BY <2>1, <2>2, <2>3, <2>5
  <1> QED BY <1>3, <1>4, OwnsApart

\* What is taken from a unit of work: a request that was made meanwhile, or an opening's key.
LEMMA RowsObjection ==
  ASSUME NEW D, NEW q, NEW held, NEW st, RowsOwned(D, q, held, st.rows), MoveOwned(D, held, st),
         NEW why, why = Objection(D, st)
  PROVE  /\ why # "CONFLICT"
         /\ why = "DUPLICATE_OPENING" => q.op = "prepare"
         /\ why = "SESSION_EXISTS" => q.op \in Creations /\ SessionsOf(D.rows, Op(q)) # {}
  <1>1. PICK R : R = st.rows
    OBVIOUS
  <1>2. Unclaimed(D, q, R) /\ PositionFits(D, st)
    BY <1>1 DEF RowsOwned, MoveOwned
  <1>3. KeysOf(Table(R, "session")) \subseteq KeysOf(R)
    BY DEF KeysOf, Table
  <1>4. Taken(D, Table(R, "session")) => Taken(D, R)
    BY <1>3 DEF Taken
  <1>5. ASSUME q.op = "prepare"
        PROVE  ~Taken(D, Table(R, "session")) /\ ~Taken(D, R \ OpeningRows(R))
    <2>1. Table(R, "session") = {} /\ R \ OpeningRows(R) = {}
      BY <1>2, <1>5 DEF Unclaimed, OpeningRows, Table
    <2> QED BY <2>1 DEF Taken, KeysOf
  <1>6. ASSUME why = "SESSION_EXISTS" PROVE q.op \in Creations /\ SessionsOf(D.rows, Op(q)) # {}
    <2>1. Taken(D, Table(R, "session"))
      BY <1>1, <1>6 DEF Objection
    <2> QED BY <1>2, <1>4, <1>5, <2>1 DEF Unclaimed
  <1>7. KeysOf(R \ OpeningRows(R)) \subseteq KeysOf(R) /\ KeysOf(OpeningRows(R)) \subseteq KeysOf(R)
    BY DEF KeysOf, OpeningRows, Table
  <1>8. ASSUME why \in {"CONFLICT", "DUPLICATE_OPENING"} PROVE q.op = "prepare"
    <2>1. ~Taken(D, Table(R, "session")) /\ Taken(D, R)
      BY <1>1, <1>2, <1>7, <1>8 DEF Objection, Taken
    <2>2. CASE q.op \in Creations
      <3>1. R # {}
        BY <2>1 DEF Taken, KeysOf
      <3>2. PICK a \in Table(R, "session") : a.op = Op(q)
        BY <1>2, <2>2, <3>1 DEF Unclaimed
      <3>3. PICK b \in SessionsOf(D.rows, Op(q)) : TRUE
        BY <1>2, <2>1, <2>2 DEF Unclaimed
      <3>4. a.table = "session" /\ b.table = "session" /\ b \in D.rows /\ b.op = a.op
        BY <3>2, <3>3 DEF SessionsOf, Table
      <3>5. <<"request", a.op>> \in StoreKeys(a) /\ <<"request", b.op>> \in StoreKeys(b)
        BY ONLY <3>4, OwnKeys
      <3>6. <<"request", a.op>> \in KeysOf(Table(R, "session")) /\ <<"request", a.op>> \in KeysOf(D.rows)
        BY <3>2, <3>4, <3>5 DEF KeysOf
      <3> QED BY <2>1, <3>6 DEF Taken
    <2> QED BY <1>2, <2>1, <2>2 DEF Unclaimed
  <1>9. why # "CONFLICT"
    <2>1. why = "CONFLICT" => Taken(D, R \ OpeningRows(R))
      BY <1>1, <1>2 DEF Objection
    <2> QED BY <1>5, <1>8, <2>1
  <1> QED BY <1>6, <1>8, <1>9

\* What is published leaves others what is theirs.
LEMMA OwnsGrow ==
  ASSUME NEW D, NEW E, NEW R, E.rows = D.rows \cup R,
         NEW q, NEW held, NEW T, Named(R) \cap Named(T) \subseteq Named(D.rows)
  PROVE  /\ Owns(D, q, held, T) \subseteq Owns(E, q, held, T)
         /\ Named(E.rows) = Named(D.rows) \cup Named(R)
  <1>1. Named(E.rows) = Named(D.rows) \cup Named(R)
    BY DEF Named, Table
  <1>2. Locks(D, held) \subseteq Locks(E, held)
    BY <1>1 DEF Locks
  <1>3. Named(T) \ Named(D.rows) \subseteq Named(T) \ Named(E.rows)
    BY <1>1
  <1>4. NewLocks(D, T) \subseteq NewLocks(E, T)
    BY <1>3 DEF NewLocks
  <1> QED BY <1>1, <1>2, <1>4 DEF Owns

LEMMA RowsStay ==
  ASSUME NEW D, RowsWhole(D), NEW q, NEW held, NEW R, RowsOwned(D, q, held, R), ~Taken(D, R),
         NEW E, E.rows = D.rows \cup R,
         NEW p, NEW theirs, NEW T, RowsOwned(D, p, theirs, T), held \cap theirs = {},
         Named(R) \cap Named(T) \subseteq Named(D.rows)
  PROVE  RowsOwned(E, p, theirs, T)
  <1>1. Owns(D, p, theirs, T) \subseteq Owns(E, p, theirs, T)
    BY OwnsGrow
  <1>2. \A row \in T : \A key \in StoreKeys(row) : KeyOwner(key) \in Owns(E, p, theirs, T)
    BY <1>1 DEF RowsOwned
  <1>3. p.op = "confirm" /\ T # {} => OfferFound(E.rows, p) /\ CharacterLock(p.char) \in theirs
    BY DEF RowsOwned, OfferFound, Table
  <1>4. RequestsHang(T, E.rows \cup T)
    <2>1. D.rows \cup T \subseteq E.rows \cup T
      OBVIOUS
    <2> QED BY <2>1, RequestsHangOn DEF RowsOwned
  <1>5. Unclaimed(D, p, T) /\ Unclaimed(D, q, R)
    BY DEF RowsOwned
  <1>6. Taken(E, T) => Taken(D, T) \/ KeysOf(R) \cap KeysOf(T) # {}
    BY DEF Taken, KeysOf
  <1>7. KeysOf(R) \cap KeysOf(T) # {} =>
           \/ q.op = "prepare" /\ p.op = "prepare"
           \/ q.op \in Creations /\ p.op \in Creations /\ Op(q) = Op(p)
    BY KeysMeet
  <1>8. "prepare" \notin Creations
    BY DEF Creations
  <1>9. SessionsOf(D.rows, Op(p)) \subseteq SessionsOf(E.rows, Op(p))
    BY DEF SessionsOf, Table
  <1>10. ASSUME q.op \in Creations, Op(q) = Op(p), KeysOf(R) \cap KeysOf(T) # {}
         PROVE  SessionsOf(E.rows, Op(p)) # {}
    <2>1. R # {}
      BY <1>10 DEF KeysOf
    <2>2. PICK row \in Table(R, "session") : row.op = Op(q)
      BY <1>5, <1>10, <2>1 DEF Unclaimed
    <2>3. row \in SessionsOf(E.rows, Op(p))
      BY <1>10, <2>2 DEF SessionsOf, Table
    <2> QED BY <2>3
  <1>11. Unclaimed(E, p, T)
    BY <1>5, <1>6, <1>7, <1>8, <1>9, <1>10 DEF Unclaimed
  <1> QED BY <1>2, <1>3, <1>4, <1>11 DEF RowsOwned

\* A position is moved under its run's lock.
LEMMA MoveStays ==
  ASSUME NEW D, NEW held, NEW st, MoveOwned(D, held, st), NEW theirs, NEW other,
         MoveOwned(D, theirs, other), held \cap theirs = {}, NEW E, E = Merge(D, st)
  PROVE  MoveOwned(E, theirs, other)
  <1>1. E.position = Over(st.moved, D.position)
    BY DEF Merge
  <1>2. ASSUME NEW r \in DOMAIN other.moved, r \in DOMAIN E.position
        PROVE  r \in DOMAIN other.found /\ E.position[r] = other.found[r]
    <2>1. r \notin DOMAIN st.moved
      BY DEF MoveOwned
    <2>2. r \in DOMAIN D.position /\ E.position[r] = D.position[r]
      BY <1>1, <1>2, <2>1 DEF Over
    <2> QED BY <2>2 DEF MoveOwned, PositionFits
  <1> QED BY <1>2 DEF MoveOwned, PositionFits

-----------------------------------------------------------------------------
(* Only creations collide                                                   *)

\* The invariant holds at the start.
LEMMA InitOwned == Init => RowsInvariant
  <1> SUFFICES ASSUME Init PROVE RowsInvariant
    OBVIOUS
  <1>1. SessionInvariant
    BY InitSession
  <1>2. PICK S : S = Seed.rows
    OBVIOUS
  <1>3. /\ store.rows = S /\ IsFiniteSet(S)
        /\ \A row \in S : row.table \in {"binding", "revision", "creation_receipt"}
        /\ \A row \in Table(S, "binding") : row = Binding(row.who)
    BY <1>2, SeedAssumption DEF Init
  <1>4. RequestsHang(store.rows, store.rows)
    BY <1>3 DEF RequestsHang, Table
  <1>5. \A t \in Tasks : task[t].pc = "idle" /\ task[t].code = "none" /\ task[t].staged.rows = {}
    BY DEF Init, Idle, Empty
  <1>6. Named({}) = {}
    BY DEF Named, Table
  <1>7. IsFiniteSet(NamesInUse)
    <2>1. PICK T : T = Table(S, "revision")
      OBVIOUS
    <2>2. IsFiniteSet(T)
      BY <1>3, <2>1, FS_Subset DEF Table
    <2>3. PICK N : N = {row.char : row \in T}
      OBVIOUS
    <2>4. PICK name : name = [row \in T |-> row.char]
      OBVIOUS
    <2>5. name \in Surjection(T, N)
      BY <2>3, <2>4 DEF Surjection
    <2>6. IsFiniteSet(N)
      BY <2>2, <2>5, FS_Surjection
    <2>7. Named(S) \subseteq N
      BY <1>3, <2>1, <2>3 DEF Named, Table
    <2>8. NamesInUse \subseteq Named(S)
      BY <1>3, <1>5, <1>6 DEF NamesInUse
    <2>9. NamesInUse \subseteq N
      BY <2>7, <2>8
    <2> QED BY <2>6, <2>9, FS_Subset
  <1>8. \A t \in Tasks : RowCodesFit(store, task[t])
    BY <1>5 DEF RowCodesFit
  <1>9. \A t \in Tasks : Named(task[t].staged.rows) = {}
    BY <1>5, <1>6
  <1> QED BY <1>1, <1>4, <1>5, <1>7, <1>8, <1>9 DEF RowsInvariant

\* What a task has staged and what it was told.
TaskOwns(D, u) ==
    /\ u.pc = "staged" => /\ RowsOwned(D, u.q, u.held, u.staged.rows)
                          /\ MoveOwned(D, u.held, u.staged)
    /\ RowCodesFit(D, u)

\* The names are apart as long as nobody takes one of another's.
LEMMA NamesApart ==
  ASSUME RowsInvariant, NEW t \in Tasks, \A u \in Tasks \ {t} : task'[u] = task[u],
         NEW x, x \notin NamesInUse,
         Named(store.rows) \subseteq Named(store'.rows),
         Named(store'.rows) \subseteq NamesInUse,
         Named(task'[t].staged.rows) \subseteq Named(task[t].staged.rows) \cup Named(store.rows) \cup {x}
  PROVE  /\ IsFiniteSet(NamesInUse')
         /\ \A u, v \in Tasks : u # v =>
               Named(task'[u].staged.rows) \cap Named(task'[v].staged.rows) \subseteq Named(store'.rows)
  <1> DEFINE Names(u) == Named(task[u].staged.rows)
             Later(u) == Named(task'[u].staged.rows)
  <1>1. IsFiniteSet(NamesInUse)
    BY DEF RowsInvariant
  <1>2. /\ Named(store.rows) \subseteq NamesInUse
        /\ \A u \in Tasks : Names(u) \subseteq NamesInUse
    BY DEF NamesInUse
  <1>3. NamesInUse' = UNION {Named(rows) : rows \in {store'.rows} \cup {task'[u].staged.rows : u \in Tasks}}
    BY DEF NamesInUse
  <1>4. \A u \in Tasks \ {t} : Later(u) = Names(u)
    OBVIOUS
  <1>5. \A u \in Tasks : Later(u) \subseteq NamesInUse \cup {x}
    BY <1>2, <1>4
  <1>6. NamesInUse' \subseteq NamesInUse \cup {x}
    BY <1>3, <1>5
  <1>7. IsFiniteSet(NamesInUse')
    <2>1. PICK N : N = NamesInUse \cup {x}
      OBVIOUS
    <2>2. IsFiniteSet(N)
      BY <1>1, <2>1, FS_AddElement
    <2> QED BY <1>6, <2>1, <2>2, FS_Subset
  <1>8. \A u, v \in Tasks : u # v => Names(u) \cap Names(v) \subseteq Named(store.rows)
    BY DEF RowsInvariant
  <1>9. \A u \in Tasks \ {t} : Names(u) \cap Later(t) \subseteq Named(store'.rows)
    BY <1>2, <1>8
  <1> HIDE DEF Names, Later
  <1>10. \A u, v \in Tasks : u # v => Later(u) \cap Later(v) \subseteq Named(store'.rows)
    BY <1>4, <1>8, <1>9
  <1> QED BY <1>7, <1>10 DEF Later

\* A step of one task that leaves the maps alone.
LEMMA OneTaskOwned ==
  ASSUME RowsInvariant, SessionInvariant', store' = store, NEW t \in Tasks,
         \A u \in Tasks \ {t} : task'[u] = task[u], TaskOwns(store, task'[t]),
         NEW x, x \notin NamesInUse,
         Named(task'[t].staged.rows) \subseteq Named(task[t].staged.rows) \cup Named(store.rows) \cup {x}
  PROVE  RowsInvariant'
  <1>1. \A u \in Tasks : TaskOwns(store, task'[u])
    BY DEF RowsInvariant, TaskOwns
  <1>2. Named(store.rows) \subseteq NamesInUse
    BY DEF NamesInUse
  <1>3. /\ IsFiniteSet(NamesInUse')
        /\ \A u, v \in Tasks : u # v =>
              Named(task'[u].staged.rows) \cap Named(task'[v].staged.rows) \subseteq Named(store'.rows)
    BY <1>2, NamesApart
  <1>4. RequestsHang(store'.rows, store'.rows)
    BY DEF RowsInvariant
  <1> QED BY <1>1, <1>3, <1>4 DEF RowsInvariant, TaskOwns

\* There is always a name that nobody uses.
LEMMA FreshName ==
  ASSUME RowsInvariant
  PROVE  Fresh \notin NamesInUse /\ Fresh \notin Named(store.rows) /\ Fresh # None
  <1>1. Fresh \notin NamesInUse /\ Fresh # None
    BY FreshIsNew DEF RowsInvariant
  <1>2. Named(store.rows) \subseteq NamesInUse
    BY DEF NamesInUse
  <1> QED BY <1>1, <1>2

\* A task that leaves is told of a collision only if it made a session or an opening.
LEMMA LeaveOwned ==
  ASSUME RowsInvariant, SessionInvariant', NEW t \in Tasks, NEW code, NEW result, NEW object,
         Leave(t, code, result, object), store' = store,
         code # "CONFLICT", code = "DUPLICATE_OPENING" => task[t].q.op = "prepare",
         code = "SESSION_EXISTS" => task[t].q.op = "enter"
  PROVE  RowsInvariant'
  <1> DEFINE left == [task[t] EXCEPT !.pc = "idle", !.held = {}, !.staged = Empty, !.code = code,
                                     !.result = result, !.object = object]
  <1>1. Shape(task[t]) /\ DOMAIN task = Tasks
    BY DEF RowsInvariant, SessionInvariant, StoreInvariant, LockInvariant, TaskFits
  <1>2. left.pc = "idle" /\ left.code = code /\ left.q = task[t].q /\ left.staged = Empty
    BY <1>1 DEF Shape
  <1>3. task' = [task EXCEPT ![t] = left]
    BY DEF Leave
  <1> HIDE DEF left
  <1>4. task'[t] = left /\ \A u \in Tasks \ {t} : task'[u] = task[u]
    BY <1>1, <1>3
  <1>5. TaskOwns(store, left)
    BY <1>2 DEF TaskOwns, RowCodesFit
  <1>6. Named(left.staged.rows) = {}
    BY <1>2 DEF Empty, Named, Table
  <1>7. PICK x : x \notin NamesInUse
    BY FreshName
  <1> QED BY <1>4, <1>5, <1>6, <1>7, OneTaskOwned

\* Beginning forgets what the last unit of work was told.
LEMMA BeginOwned ==
  ASSUME RowsInvariant, SessionInvariant', NEW t \in Tasks, Begin(t)
  PROVE  RowsInvariant'
  <1>1. PICK q : task' = [task EXCEPT ![t] = [Idle EXCEPT !.pc = "lock", !.q = q]]
    BY DEF Begin
  <1>2. PICK u : u = [Idle EXCEPT !.pc = "lock", !.q = q]
    OBVIOUS
  <1>3. u.pc = "lock" /\ u.code = "none" /\ u.staged = Empty
    BY <1>2 DEF Idle
  <1>4. task'[t] = u /\ \A v \in Tasks \ {t} : task'[v] = task[v]
    BY <1>1, <1>2 DEF RowsInvariant, SessionInvariant, StoreInvariant, LockInvariant
  <1>5. store' = store
    BY DEF Begin
  <1>6. TaskOwns(store, u)
    BY <1>3 DEF TaskOwns, RowCodesFit
  <1>7. Named(u.staged.rows) = {}
    BY <1>3 DEF Empty, Named, Table
  <1>8. PICK x : x \notin NamesInUse
    BY FreshName
  <1> QED BY <1>4, <1>5, <1>6, <1>7, <1>8, OneTaskOwned

\* Waiting for a lock stages nothing and tells nothing.
LEMMA AcquireOwned ==
  ASSUME RowsInvariant, SessionInvariant', NEW t \in Tasks, Acquire(t)
  PROVE  RowsInvariant'
  <1>1. PICK lock : task' = [task EXCEPT ![t].held = @ \cup {lock}]
    BY DEF Acquire
  <1>2. PICK u : u = [task[t] EXCEPT !.held = @ \cup {lock}]
    OBVIOUS
  <1>3. Shape(task[t]) /\ DOMAIN task = Tasks
    BY DEF RowsInvariant, SessionInvariant, StoreInvariant, LockInvariant, TaskFits
  <1>4. u.pc = task[t].pc /\ u.code = task[t].code /\ u.q = task[t].q /\ u.staged = task[t].staged
    BY <1>2, <1>3 DEF Shape
  <1>5. task'[t] = u /\ \A v \in Tasks \ {t} : task'[v] = task[v]
    BY <1>1, <1>2, <1>3
  <1>6. store' = store /\ task[t].pc \in {"lock", "recover"}
    BY DEF Acquire
  <1>7. RowCodesFit(store, task[t])
    BY DEF RowsInvariant
  <1>8. TaskOwns(store, u)
    BY <1>4, <1>6, <1>7 DEF TaskOwns, RowCodesFit
  <1>9. Named(u.staged.rows) = Named(task[t].staged.rows)
    BY <1>4
  <1>10. PICK x : x \notin NamesInUse
    BY FreshName
  <1> QED BY <1>5, <1>6, <1>8, <1>9, <1>10, OneTaskOwned

\* What is staged under its locks is its own to write.
LEMMA WorkOwned ==
  ASSUME RowsInvariant, SessionInvariant', NEW t \in Tasks, Work(t)
  PROVE  RowsInvariant'
  <1> DEFINE q == task[t].q
             v == Verdict(store, q, t)
             read == ReadVersion(store, q)
             raised == Raised(v, read)
             code == IF v.staged = Empty THEN v.code ELSE "UNSTAGED"
             done == [task[t] EXCEPT !.pc = "idle", !.held = {}, !.code = code,
                                     !.result = v.result, !.read = read, !.object = read]
             staged == [task[t] EXCEPT !.pc = "staged", !.staged = v.staged, !.result = v.result,
                                       !.read = read, !.object = raised]
  <1>1. Shape(task[t]) /\ q.op \in Operations /\ DOMAIN task = Tasks
    BY DEF RowsInvariant, SessionInvariant, StoreInvariant, LockInvariant, TaskFits, Work
  <1>2. Missing(store, q, HeldBy(t)) = {}
    BY DEF Work
  <1>3. /\ StoreWhole(store) /\ JobsAwait(store) /\ RequestsHang(store.rows, store.rows)
        /\ RowCodesFit(store, task[t])
    BY DEF RowsInvariant, SessionInvariant, StoreInvariant
  <1>4. PICK x : x = Fresh
    OBVIOUS
  <1>5. x \notin NamesInUse /\ x \notin Named(store.rows) /\ x # None
    BY <1>4, FreshName
  <1>6. PICK st : st = v.staged
    OBVIOUS
  <1>7. Original(store, q, HeldBy(t), x, st.rows) /\ MoveOwned(store, HeldBy(t), st)
    <2>1. PICK held, p : held = HeldBy(t) /\ p = q
      OBVIOUS
    <2>2. st = Verdict(store, p, t).staged /\ p.op \in Operations /\ Missing(store, p, held) = {}
      BY <1>1, <1>2, <1>6, <2>1
    <2>3. Original(store, p, held, x, st.rows) /\ MoveOwned(store, held, st)
      BY ONLY <1>3, <1>4, <1>5, <2>2, VerdictOriginal
    <2> QED BY <2>1, <2>3
  <1>8. code \notin Overtaken
    <2>1. v.code \notin Overtaken
      BY VerdictCodes
    <2> HIDE DEF v
    <2> QED BY <2>1 DEF Overtaken
  <1>9. task' = [task EXCEPT ![t] = done] \/ task' = [task EXCEPT ![t] = staged]
    BY DEF Work
  <1>10. store' = store /\ task[t].pc = "lock"
    BY DEF Work
  <1> HIDE DEF v, read, raised, code
  <1>11. done.pc = "idle" /\ done.code = code /\ done.staged = task[t].staged
    BY <1>1 DEF Shape
  <1>12. /\ staged.pc = "staged" /\ staged.held = HeldBy(t) /\ staged.staged = st /\ staged.q = q
         /\ staged.code = task[t].code
    BY <1>1, <1>6 DEF Shape, HeldBy
  <1> HIDE DEF done, staged
  <1>13. TaskOwns(store, done)
    BY <1>8, <1>11 DEF TaskOwns, RowCodesFit, Overtaken
  <1>14. TaskOwns(store, staged)
    BY <1>3, <1>7, <1>12 DEF TaskOwns, RowCodesFit, Original
  <1>15. Named(st.rows) \subseteq Named(store.rows) \cup {x}
    BY <1>7 DEF Original
  <1> HIDE DEF q
  <1>16. /\ task'[t] = done \/ task'[t] = staged
         /\ \A u \in Tasks \ {t} : task'[u] = task[u]
    BY <1>1, <1>9
  <1>17. CASE task'[t] = done
    <2>1. Named(task'[t].staged.rows) = Named(task[t].staged.rows)
      BY <1>11, <1>17
    <2> QED BY <1>5, <1>10, <1>13, <1>16, <1>17, <2>1, OneTaskOwned
  <1>18. CASE task'[t] = staged
    <2>1. Named(task'[t].staged.rows) \subseteq Named(store.rows) \cup {x}
      BY <1>12, <1>15, <1>18
    <2> QED BY <1>5, <1>10, <1>14, <1>16, <1>18, <2>1, OneTaskOwned
  <1> QED BY <1>16, <1>17, <1>18

\* What is published leaves others what is theirs, and collides with nothing but a creation
\* under the same request or another opening.
LEMMA PublishOwned ==
  ASSUME RowsInvariant, SessionInvariant', NEW t \in Tasks, Publish(t)
  PROVE  RowsInvariant'
  <1> DEFINE st == task[t].staged
             q == task[t].q
             why == Objection(store, st)
             again == [task[t] EXCEPT !.pc = "recover", !.held = {}, !.staged = Empty,
                                      !.object = RolledBack(t)]
  <1>1. /\ Shape(task[t]) /\ DOMAIN task = Tasks /\ RowsWhole(store)
        /\ RowsOwned(store, q, HeldBy(t), st.rows) /\ MoveOwned(store, HeldBy(t), st)
        /\ RowCodesFit(store, task[t]) /\ RequestsHang(store.rows, store.rows)
    BY DEF RowsInvariant, SessionInvariant, StoreInvariant, StoreWhole, LockInvariant, TaskFits, Publish, HeldBy
  <1>2. /\ why # "CONFLICT" /\ (why = "DUPLICATE_OPENING" => q.op = "prepare")
        /\ why = "SESSION_EXISTS" => q.op \in Creations /\ SessionsOf(store.rows, Op(q)) # {}
    BY <1>1, RowsObjection
  <1>3. CASE why = "none" /\ store' = Merge(store, st) /\ Leave(t, "ok", task[t].result, task[t].object)
    <2> DEFINE left == [task[t] EXCEPT !.pc = "idle", !.held = {}, !.staged = Empty, !.code = "ok",
                                       !.result = task[t].result, !.object = task[t].object]
    <2>1. left.pc = "idle" /\ left.code = "ok" /\ left.staged = Empty
      BY <1>1 DEF Shape
    <2>2. task' = [task EXCEPT ![t] = left]
      BY <1>3 DEF Leave
    <2> HIDE DEF left
    <2>3. task'[t] = left /\ \A u \in Tasks \ {t} : task'[u] = task[u]
      BY <1>1, <2>2
    <2>4. PICK R : R = st.rows
      OBVIOUS
    <2>5. PICK E : E = store'
      OBVIOUS
    <2>6. E = Merge(store, st) /\ E.rows = store.rows \cup R
      BY <1>3, <2>4, <2>5, Merged
    <2>7. ~Taken(store, R)
      BY <1>3, <2>4, Unopposed
    <2>8. RequestsHang(E.rows, E.rows)
      <3>1. RequestsHang(R, E.rows)
        BY <1>1, <2>4, <2>6 DEF RowsOwned
      <3>2. RequestsHang(store.rows, E.rows)
        BY <1>1, <2>6, RequestsHangOn
      <3>3. RequestsHang(store.rows \cup R, E.rows)
        BY <3>1, <3>2, RequestsHangTogether
      <3> QED BY <2>6, <3>3
    <2>9. ASSUME NEW u \in Tasks \ {t} PROVE TaskOwns(E, task[u])
      <3>1. PICK p, theirs, other : p = task[u].q /\ theirs = task[u].held /\ other = task[u].staged
        OBVIOUS
      <3>2. RowCodesFit(E, task[u])
        <4>1. SessionsOf(store.rows, Op(p)) \subseteq SessionsOf(E.rows, Op(p))
          BY <2>6 DEF SessionsOf, Table
        <4> QED BY <3>1, <4>1 DEF RowCodesFit, RowsInvariant
      <3>3. CASE task[u].pc = "staged"
        <4>1. RowsOwned(store, p, theirs, other.rows) /\ MoveOwned(store, theirs, other)
          BY <3>1, <3>3 DEF RowsInvariant
        <4>2. HeldBy(t) \cap theirs = {}
          BY <3>1 DEF RowsInvariant, SessionInvariant, StoreInvariant, LockInvariant, Exclusive, HeldBy
        <4>3. Named(R) \cap Named(other.rows) \subseteq Named(store.rows)
          BY <2>4, <3>1 DEF RowsInvariant
        <4>4. PICK T, held, mine : T = other.rows /\ held = HeldBy(t) /\ mine = q
          OBVIOUS
        <4>5. RowsOwned(E, p, theirs, T)
          <5>1. /\ RowsWhole(store) /\ RowsOwned(store, mine, held, R) /\ ~Taken(store, R)
                /\ E.rows = store.rows \cup R /\ RowsOwned(store, p, theirs, T)
                /\ held \cap theirs = {} /\ Named(R) \cap Named(T) \subseteq Named(store.rows)
            BY <1>1, <2>4, <2>6, <2>7, <4>1, <4>2, <4>3, <4>4
          <5> QED BY ONLY <5>1, RowsStay
        <4>6. MoveOwned(E, theirs, other)
          BY <1>1, <2>6, <4>1, <4>2, MoveStays
        <4> QED BY <3>1, <3>2, <4>4, <4>5, <4>6 DEF TaskOwns
      <3> QED BY <3>2, <3>3 DEF TaskOwns
    <2>10. TaskOwns(E, left)
      BY <2>1 DEF TaskOwns, RowCodesFit
    <2>11. \A u \in Tasks : TaskOwns(E, task'[u])
      BY <2>3, <2>9, <2>10
    <2>12. PICK x : x \notin NamesInUse
      BY FreshName
    <2>13. Named(E.rows) = Named(store.rows) \cup Named(R)
      BY <2>6 DEF Named, Table
    <2>14. Named(store.rows) \cup Named(R) \subseteq NamesInUse
      BY <2>4 DEF NamesInUse
    <2>15. Named(task'[t].staged.rows) = {}
      BY <2>1, <2>3 DEF Empty, Named, Table
    <2>16. /\ Named(store.rows) \subseteq Named(store'.rows)
           /\ Named(store'.rows) \subseteq NamesInUse
      BY <2>5, <2>13, <2>14
    <2>17. /\ IsFiniteSet(NamesInUse')
           /\ \A u, v \in Tasks : u # v =>
                 Named(task'[u].staged.rows) \cap Named(task'[v].staged.rows) \subseteq Named(store'.rows)
      <3>1. Named(task'[t].staged.rows) \subseteq Named(task[t].staged.rows) \cup Named(store.rows) \cup {x}
        BY <2>15
      <3>2. \A u \in Tasks \ {t} : task'[u] = task[u]
        BY <2>3
      <3> QED BY ONLY RowsInvariant, t \in Tasks, <2>12, <2>16, <3>1, <3>2, NamesApart
    <2> QED BY <2>5, <2>8, <2>11, <2>17 DEF RowsInvariant, TaskOwns
  <1>4. CASE /\ store' = store /\ Leave(t, why, <<>>, RolledBack(t))
             /\ ~(why = "SESSION_EXISTS" /\ q.op = "create_session")
             /\ ~(why \in {"SESSION_EXISTS", "CONFLICT"} /\ q.op = "admit")
    <2>1. why = "SESSION_EXISTS" => q.op = "enter"
      BY <1>2, <1>4 DEF Creations
    <2> QED BY <1>2, <1>4, <2>1, LeaveOwned
  <1>5. CASE /\ store' = store /\ task' = [task EXCEPT ![t] = again]
             /\ \/ why = "SESSION_EXISTS" /\ q.op = "create_session"
                \/ why \in {"SESSION_EXISTS", "CONFLICT"} /\ q.op = "admit"
    <2>1. SessionsOf(store.rows, Op(q)) # {}
      BY <1>2, <1>5
    <2>2. again.pc = "recover" /\ again.code = task[t].code /\ again.q = q /\ again.staged = Empty
      BY <1>1 DEF Shape
    <2> HIDE DEF again
    <2>3. task'[t] = again /\ \A u \in Tasks \ {t} : task'[u] = task[u]
      BY <1>1, <1>5
    <2>4. TaskOwns(store, again)
      BY <1>1, <2>1, <2>2 DEF TaskOwns, RowCodesFit
    <2>5. Named(again.staged.rows) = {}
      BY <2>2 DEF Empty, Named, Table
    <2>6. PICK x : x \notin NamesInUse
      BY FreshName
    <2> QED BY <1>5, <2>3, <2>4, <2>5, <2>6, OneTaskOwned
  <1> QED BY <1>3, <1>4, <1>5 DEF Publish

\* Looking up what was made meanwhile.
LEMMA RecoverOwned ==
  ASSUME RowsInvariant, SessionInvariant', NEW t \in Tasks, Recover(t)
  PROVE  RowsInvariant'
  <1>1. PICK v : v = RecoveryVerdict(store.rows, task[t].q)
    OBVIOUS
  <1>2. v.code \notin Overtaken
    BY <1>1, LedgerCodes
  <1>3. Leave(t, v.code, v.result, RolledBack(t)) /\ store' = store
    BY <1>1 DEF Recover
  <1> QED BY <1>2, <1>3, LeaveOwned DEF Overtaken

\* Every step keeps the invariant.
LEMMA NextOwned == RowsInvariant /\ [Next]_vars => RowsInvariant'
  <1> SUFFICES ASSUME RowsInvariant, [Next]_vars PROVE RowsInvariant'
    OBVIOUS
  <1>1. SessionInvariant'
    BY NextSession DEF RowsInvariant
  <1>2. CASE UNCHANGED vars
    BY <1>1, <1>2 DEF vars, RowsInvariant, NamesInUse
  <1>3. CASE Finished
    BY <1>2, <1>3 DEF Finished
  <1>4. ASSUME NEW t \in Tasks, Begin(t) PROVE RowsInvariant'
    BY <1>1, <1>4, BeginOwned
  <1>5. ASSUME NEW t \in Tasks, Acquire(t) PROVE RowsInvariant'
    BY <1>1, <1>5, AcquireOwned
  <1>6. ASSUME NEW t \in Tasks, Work(t) PROVE RowsInvariant'
    BY <1>1, <1>6, WorkOwned
  <1>7. ASSUME NEW t \in Tasks, Publish(t) PROVE RowsInvariant'
    BY <1>1, <1>7, PublishOwned
  <1>8. ASSUME NEW t \in Tasks, Recover(t) PROVE RowsInvariant'
    BY <1>1, <1>8, RecoverOwned
  <1>9. ASSUME NEW t \in Tasks, Cancel(t) PROVE RowsInvariant'
    BY <1>1, <1>9, LeaveOwned DEF Cancel
  <1> QED BY <1>2, <1>3, <1>4, <1>5, <1>6, <1>7, <1>8, <1>9 DEF Next

\* Whatever units of work overlap, the locks suffice: what is published is whole, none that
\* holds its session's lock finds the session, a response or its finished job changed under
\* it, and what it writes was written before only by a creation under the same request or
\* by another opening (demo_persistence.py).
THEOREM LocksSufficeAlways == Spec => []LocksSuffice
  <1>1. RowsInvariant => LocksSuffice
    <2>1. RowsInvariant => StoreIsWhole
      BY WholeStoreAgrees DEF RowsInvariant, SessionInvariant, StoreInvariant
    <2>2. RowsInvariant => SessionsAreUncontended
      BY DEF RowsInvariant, SessionInvariant, CodeFits, SessionsAreUncontended, Workers
    <2>3. RowsInvariant => OnlyCreationsCollide
      BY DEF RowsInvariant, RowCodesFit, OnlyCreationsCollide
    <2> QED BY <2>1, <2>2, <2>3 DEF LocksSuffice
  <1> QED BY InitOwned, NextOwned, <1>1, PTL DEF Spec
=============================================================================
