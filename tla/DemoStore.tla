------------------------------ MODULE DemoStore ------------------------------
(***************************************************************************)
(* The in-memory store of the Demo (infrastructure/demo_persistence.py):   *)
(* the same services run against it as against the database, but all that  *)
(* keeps their transactions apart are asyncio locks and one check when a   *)
(* unit of work is published.  A unit of work takes its locks one by one,  *)
(* reads the published maps, stages what it writes, and either publishes   *)
(* all of it into copies of the maps which then take their place, or       *)
(* nothing.  It may be cancelled at any await.                             *)
(*                                                                         *)
(* Tasks follow scripts; what a client sends along (the run, its newest    *)
(* session, both versions) is what the store showed when it sent it.  Any  *)
(* await may let another task run, which is more than asyncio does.        *)
(***************************************************************************)
EXTENDS DemoRepositories, Sequences

CONSTANTS
    Tasks,       \* concurrent callers, numbers
    Scripts,     \* what each caller asks for, in its order
    Seed,        \* the store at the start
    MaxCancels   \* bound: calls that are cancelled

\* The operations on a native run, and the kind of their receipts.
StepKind == [exit |-> "EXIT", continue |-> "CONTINUE", revisit |-> "REVISIT", complete |-> "COMPLETE"]

Operations ==
    {"create", "mutate", "enter", "admit", "prepare", "confirm", "create_session", "turn",
     "prepare_job", "claim", "propose", "expire", "finish"} \cup DOMAIN StepKind

\* What a caller sends; the run, its session and both versions as it last saw them.
Requests ==
    [op : Operations, who : STRING, key : STRING, offer : Int, char : Int, rev : Int,
     world : STRING, body : STRING, kind : STRING, confirmed : BOOLEAN, pick : STRING,
     run : Int, version : Int, session : Int, seen : Int]

ASSUME ScriptAssumption == \A calls \in Scripts : calls \in [Tasks -> Seq(Requests)]

VARIABLES
    store,    \* the published maps
    script,   \* what each task has yet to ask for
    task,     \* the unit of work each task is in, or the last it was in
    cancels   \* how many were cancelled

vars == <<store, script, task, cancels>>

-----------------------------------------------------------------------------
(* Staging                                                                 *)

\* Functions with a domain of at most one: the session a unit of work opens,
\* the image it saves, the position it found and the one it writes, the
\* provider progress it makes; and a job's old and new record.
Empty == [rows |-> {}, opened |-> <<>>, saved |-> <<>>, found |-> <<>>, moved |-> <<>>,
          progress |-> <<>>, jobs |-> {}]

NoJob == [status |-> "NONE"]

Taken(D, rows) == KeysOf(rows) \cap KeysOf(D.rows) # {}

\* A session is opened with its first event; an entry's at the world's own start.
Opens(rows) == {row.session : row \in Table(rows, "session")}
Carried(rows, image) ==
    [Empty EXCEPT !.rows = rows \cup {Event(s, 1) : s \in Opens(rows)},
                  !.opened = [s \in Opens(rows) |-> image]]

\* A map of one key.
Only(key, value) == [k \in {key} |-> value]

Stage(result, staged) == [code |-> "ok", result |-> result, staged |-> staged]
Tell(result) == Stage(result, Empty)
Deny(code) == [code |-> code, result |-> <<>>, staged |-> Empty]

\* A player's first character comes with the player's binding.
Registering(S, q, v) ==
    IF v.rows = {} THEN v ELSE [v EXCEPT !.rows = @ \cup ({Binding(q.who)} \ S)]

\* A verdict of the services on the rows, as a unit of work stages it.
Lift(v) == [code |-> v.code, result |-> v.result, staged |-> Carried(v.rows, Image(0, "open", 0))]

-----------------------------------------------------------------------------
(* Publishing                                                              *)

\* The map g with the values of the map f in front of its own: TLC's @@, with a definition
\* the provers can open.
Over(f, g) == [x \in DOMAIN f \cup DOMAIN g |-> IF x \in DOMAIN f THEN f[x] ELSE g[x]]

\* Mutant: the saved image replaces the snapshot, not the session's row.
MergeHalf(D, st) ==
    LET unplayed == [s \in DOMAIN st.opened |-> 0] IN
    [rows |-> D.rows \cup st.rows,
     sess |-> Over(unplayed, D.sess),
     snap |-> Over(st.saved, Over(st.opened, D.snap)),
     position |-> Over(st.moved, D.position),
     jobs |-> (D.jobs \ {change.old : change \in st.jobs}) \cup {change.new : change \in st.jobs},
     progress |-> Over(st.progress, Over(unplayed, D.progress))]

Merge(D, st) ==
    LET unplayed == [s \in DOMAIN st.opened |-> 0] IN
    [rows |-> D.rows \cup st.rows,
     sess |-> Over([s \in DOMAIN st.saved |-> st.saved[s].version], Over(unplayed, D.sess)),
     snap |-> Over(st.saved, Over(st.opened, D.snap)),
     position |-> Over(st.moved, D.position),
     jobs |-> (D.jobs \ {change.old : change \in st.jobs}) \cup {change.new : change \in st.jobs},
     progress |-> Over(st.progress, Over(unplayed, D.progress))]

\* A state update is of the version it was made from, in both places.
UpdateFits(D, st) ==
    \A s \in DOMAIN st.saved :
        /\ s \in DOMAIN D.sess
        /\ D.sess[s] = st.saved[s].version - 1
        /\ D.snap[s].version = st.saved[s].version - 1

\* No request is given a second job.
AddsFit(D, st) ==
    \A change \in st.jobs :
        change.old = NoJob =>
            \A j \in D.jobs : j.session = change.new.session => j.key # change.new.key

\* And a job that is replaced is still what it was.
JobsFit(D, st) ==
    /\ AddsFit(D, st)
    /\ \A change \in st.jobs :
          /\ change.new.session \in DOMAIN D.sess
          /\ change.old # NoJob => change.old \in D.jobs

ProgressFits(D, st) == \A s \in DOMAIN st.progress : D.progress[s] = st.progress[s] - 1

PositionFits(D, st) ==
    \A r \in DOMAIN st.moved \cap DOMAIN D.position :
        r \in DOMAIN st.found /\ D.position[r] = st.found[r]

Characters(D) == {row.char : row \in Table(D.rows, "revision")}
AllRuns(D) == {row.run : row \in Table(D.rows, "run")}

\* Every family in the copies is read back before they take the maps' place: the
\* characters and runs, then the openings and who holds what.
RecordsAreWhole(D) ==
    /\ \A x \in Characters(D) : ValidCharacter(D.rows, x)
    /\ \A r \in AllRuns(D) : ValidRun(D.rows, r)
    /\ {row.session : row \in Table(D.rows, "participation")} \subseteq DOMAIN D.sess
    /\ \A r \in NativeRuns(D) : Classify(D, r) # "broken"

OpeningsAreWhole(D) ==
    /\ HoldersAreUnique(D.rows)
    /\ \A offer \in Table(D.rows, "offer") : ValidOpening(D.rows, offer)

FamiliesAreWhole(D) == RecordsAreWhole(D) /\ OpeningsAreWhole(D)

\* Openings have a map of their own, which is looked at last.
OpeningRows(rows) == Table(rows, "offer") \cup Table(rows, "confirmation")

\* Why a unit of work is not published, if it is not.
Objection(D, st) ==
    IF Taken(D, Table(st.rows, "session")) THEN "SESSION_EXISTS"
    ELSE IF ~UpdateFits(D, st) THEN "STALE"
    ELSE IF Taken(D, Table(st.rows, "turn")) \/ ~AddsFit(D, st) THEN "TURN_EXISTS"
    ELSE IF ~JobsFit(D, st) THEN "FENCED"
    ELSE IF Taken(D, Table(st.rows, "event")) \/ ~ProgressFits(D, st) THEN "STALE"
    ELSE IF Taken(D, st.rows \ OpeningRows(st.rows)) \/ ~PositionFits(D, st) THEN "CONFLICT"
    ELSE IF ~RecordsAreWhole(Merge(D, st)) THEN "INTEGRITY"
    ELSE IF Taken(D, OpeningRows(st.rows)) THEN "DUPLICATE_OPENING"
    ELSE IF ~OpeningsAreWhole(Merge(D, st)) THEN "INTEGRITY"
    ELSE "none"

-----------------------------------------------------------------------------
(* Turns and narrative jobs                                                *)

Turns(D, q) == {row \in Table(D.rows, "turn") : row.session = q.session /\ row.key = q.key}
JobOf(D, q) == {j \in D.jobs : j.session = q.session /\ j.key = q.key}

RunOf(D, s) == {row.run : row \in {p \in Table(D.rows, "participation") : p.session = s}}
Outside(D, s) == RunOf(D, s) = {}

\* Its run is active and it is where the run is.
Playing(D, s) ==
    \A r \in RunOf(D, s) : Run(D.rows, r).status = "ACTIVE" /\ Current(D.rows, r) = s

Endings(world) ==
    CASE world \in {"death_certificate", "fog_station"} -> {"onward"}
      [] world \in {"undelivered_receipt", "receipt_archive"} -> {"onward", "final"}
      [] world = "fog_patrol" -> {}
      [] OTHER -> {"final"}

\* Worlds played without a provider: they have no narrative jobs.
Authored == {"fog_station", "fog_patrol"}

\* They leave the player as they came, and the patrol takes three turns.
After(D, s, ending) ==
    LET image == D.snap[s]
        world == World(D.rows, s)
    IN
    Image(image.version + 1,
          IF world = "fog_patrol" THEN (IF image.version = 2 THEN "final" ELSE "open")
          ELSE IF ending \in Endings(world) THEN ending ELSE "open",
          IF world \in Authored THEN image.player ELSE image.player + 1)

NextEvent(D, s) == Max({row.seq : row \in {e \in Table(D.rows, "event") : e.session = s}}) + 1

Advanced(D, q) ==
    [Empty EXCEPT !.rows = {Turn(q.session, q.key, q.body), Event(q.session, NextEvent(D, q.session))},
                  !.saved = Only(q.session, After(D, q.session, q.pick))]

TurnReplay(D, q) ==
    IF Turn(q.session, q.key, q.body) \in D.rows THEN Tell(<<"turn", q.session>>)
    ELSE Deny("IDEMPOTENCY_CONFLICT")

\* The response that changes nothing is kept all the same, but not an authored world's.
Unchanged(D, q) ==
    IF World(D.rows, q.session) \in Authored THEN Tell(<<"turn", q.session>>)
    ELSE Stage(<<"turn", q.session>>, [Empty EXCEPT !.rows = {Turn(q.session, q.key, q.body)}])

Readable(D, s) ==
    /\ D.snap[s].version = D.sess[s]
    /\ \A r \in RunOf(D, s) : r \in NativeRuns(D) => Classify(D, r) # "broken"

TurnVerdict(D, q) ==
    IF q.session \notin DOMAIN D.sess THEN Deny("SESSION_NOT_FOUND")
    ELSE IF Turns(D, q) # {} THEN TurnReplay(D, q)
    ELSE IF JobOf(D, q) # {} THEN Tell(<<"pending", q.session>>)
    ELSE IF ~Readable(D, q.session) THEN Deny("INTEGRITY")
    ELSE IF q.pick = "look" \/ D.snap[q.session].ending # "open" THEN Unchanged(D, q)
    ELSE IF ~Playing(D, q.session) THEN Deny("NATIVE_TURN_BINDING")
    ELSE IF ActiveJobs(D, q.session) # {} THEN Deny("JOB_ACTIVE")
    ELSE Stage(<<"turn", q.session>>, Advanced(D, q))

JobOn(q, version) ==
    [session |-> q.session, key |-> q.key, status |-> "PREPARED", version |-> version, lease |-> None]

PrepareJobVerdict(D, q) ==
    IF q.session \notin DOMAIN D.sess THEN Deny("SESSION_NOT_FOUND")
    ELSE IF Turns(D, q) # {} THEN TurnReplay(D, q)
    ELSE IF JobOf(D, q) # {} THEN Tell(<<"pending", q.session>>)
    ELSE IF ~Readable(D, q.session) THEN Deny("INTEGRITY")
    ELSE IF World(D.rows, q.session) \in Authored THEN Unchanged(D, q)
    ELSE IF D.snap[q.session].ending # "open" THEN Deny("OUTCOME_UNAVAILABLE")
    ELSE IF ~Playing(D, q.session) THEN Deny("NATIVE_TURN_BINDING")
    ELSE IF ActiveJobs(D, q.session) # {} THEN Deny("JOB_ACTIVE")
    ELSE Stage(<<"job", q.session>>,
               [Empty EXCEPT !.jobs = {[old |-> NoJob, new |-> JobOn(q, D.sess[q.session])]}])

Replaced(job, status, lease) ==
    [Empty EXCEPT !.jobs = {[old |-> job, new |-> [job EXCEPT !.status = status, !.lease = lease]]}]

\* Claim, proposal and expiry take no lock: only the fence keeps them apart.
ClaimVerdict(D, q, t) ==
    IF \E j \in JobOf(D, q) : j.status = "PREPARED"
    THEN Stage(<<"job", q.session>>, Replaced(CHOOSE j \in JobOf(D, q) : TRUE, "IN_PROGRESS", t))
    ELSE Deny("JOB_STALE")

ProposeVerdict(D, q, t) ==
    IF \E j \in JobOf(D, q) : j.status = "IN_PROGRESS" /\ j.lease = t
    THEN Stage(<<"job", q.session>>, Replaced(CHOOSE j \in JobOf(D, q) : TRUE, "PROPOSAL_VALIDATED", t))
    ELSE Deny("JOB_STALE")

ExpireVerdict(D, q) ==
    IF \E j \in JobOf(D, q) : j.status = "IN_PROGRESS"
    THEN Stage(<<"job", q.session>>, Replaced(CHOOSE j \in JobOf(D, q) : TRUE, "OUTCOME_UNKNOWN", None))
    ELSE Deny("JOB_STALE")

\* The scripted provider's progress belongs to the sessions outside any run.
FinishVerdict(D, q, t) ==
    LET job == CHOOSE j \in JobOf(D, q) : TRUE
        done == Replaced(job, "COMMITTED", None)
        turn == Advanced(D, q)
    IN
    IF \A j \in JobOf(D, q) : j.status # "PROPOSAL_VALIDATED" \/ j.lease # t
    THEN Deny("JOB_STALE")
    ELSE IF job.version # D.sess[q.session] THEN Deny("JOB_STALE")
    ELSE IF ~Readable(D, q.session) THEN Deny("INTEGRITY")
    ELSE Stage(<<"turn", q.session>>,
               [turn EXCEPT !.jobs = done.jobs,
                            !.progress = IF Outside(D, q.session)
                                         THEN Only(q.session, D.progress[q.session] + 1)
                                         ELSE <<>>])

-----------------------------------------------------------------------------
(* The operations on a native run                                          *)

\* The families each operation starts from.
StartsFrom ==
    [exit |-> {"admission", "continued", "fog", "revisited"}, continue |-> {"admission"},
     revisit |-> {"continued"}, complete |-> {"revisited"}]

StepTaken(D, q) ==
    {row \in Table(D.rows, "run_receipt") :
        row.run = q.run /\ row.kind = StepKind[q.op] /\ row.op = StepOp(q)}

\* The fingerprint covers the versions that were expected.
SameStep(D, q, receipt) ==
    /\ q.version = receipt.version - 1
    /\ \E part \in EvidenceAt(D.rows, q.run, receipt.version).sealed :
          part.session = q.session /\ part.image.version = q.seen

\* The run is where the operation starts from, and its character lives.
StepOffered(D, q) ==
    /\ Classify(D, q.run) \in StartsFrom[q.op]
    /\ Character(D.rows, Run(D.rows, q.run).char).life = "ACTIVE"
    /\ q.session = Current(D.rows, q.run)

\* Its session has come to an end that leads there.
StepAllowed(D, q) ==
    /\ StepOffered(D, q)
    /\ D.snap[q.session].ending \in (IF q.op = "exit" THEN {"onward", "final"} ELSE {"onward"})

StepStaged(D, q, s) ==
    LET left == Current(D.rows, q.run)
        opened == Image(0, "open", D.snap[left].player)
        at == Run(D.rows, q.run).version + 1
    IN
    CASE q.op = "exit" -> [Empty EXCEPT !.rows = LeaveRows(D, q)]
      [] q.op = "complete" -> [Empty EXCEPT !.rows = CompleteRows(D, q)]
      [] q.op = "continue" ->
            [Carried(IF World(D.rows, left) = "fog_station" THEN FogRows(D, q, s)
                     ELSE ContinueRows(D, q, s), opened)
                EXCEPT !.moved = Only(q.run, PositionAt(s, at))]
      [] OTHER ->
            [Carried(RevisitRows(D, q, s), opened)
                EXCEPT !.found = Only(q.run, D.position[q.run]), !.moved = Only(q.run, PositionAt(s, at))]

\* The versions are looked at before the ending, by a revisit after it. What was staged
\* is read back as the family it was meant to be.
StepVerdict(D, q, s) ==
    IF q.run \notin NativeRuns(D) THEN Deny("NATIVE_RUN_REQUIRED")
    ELSE IF Classify(D, q.run) = "broken" THEN Deny("INTEGRITY")
    ELSE IF StepTaken(D, q) # {}
    THEN IF \E receipt \in StepTaken(D, q) : SameStep(D, q, receipt)
         THEN Tell(<<"step", q.op, q.run>>) ELSE Deny("IDEMPOTENCY_CONFLICT")
    ELSE IF ~StepOffered(D, q) \/ (q.op = "revisit" /\ ~StepAllowed(D, q))
    THEN Deny("NOT_AVAILABLE")
    ELSE IF q.version # Run(D.rows, q.run).version \/ q.seen # D.sess[q.session]
    THEN Deny("STALE_REQUEST")
    ELSE IF ~StepAllowed(D, q) THEN Deny("NOT_AVAILABLE")
    ELSE IF q.op # "exit" /\ ~IdleSession(D, q.session) THEN Deny("INTEGRITY")
    ELSE IF Classify(Merge(D, StepStaged(D, q, s)), q.run) = "broken" THEN Deny("INTEGRITY")
    ELSE Stage(<<"step", q.op, q.run>>, StepStaged(D, q, s))

-----------------------------------------------------------------------------
(* Locks                                                                   *)

ControllerLock(who) == <<"controller", who>>
CharacterLock(x) == <<"character", x>>
RunLock(r) == <<"run", r>>
SessionLock(s) == <<"session", s>>

\* At most one run holds a character.
HoldingRun(D, x) ==
    IF ActiveRuns(D.rows, x) = {} THEN <<>>
    ELSE <<RunLock(CHOOSE r \in ActiveRuns(D.rows, x) : TRUE)>>

\* An entry that is answered again locks what it made.
Replayed(D, r) == <<RunLock(r), SessionLock(FirstSession(D.rows, r))>>

\* The receipt of an entry is looked for under the character's lock; one that was
\* given for something else is refused at once.
EntryLocks(D, q) ==
    LET receipt == CHOOSE row \in RunCreations(D.rows, Op(q)) : TRUE IN
    IF RunCreations(D.rows, Op(q)) = {} THEN HoldingRun(D, q.char)
    ELSE IF SameEntry(receipt, q) THEN Replayed(D, receipt.run) ELSE <<>>

\* So is the confirmation of an opening.
OpeningLocks(D, q) ==
    LET done == CHOOSE row \in Confirmations(D.rows, q.offer) : TRUE IN
    IF Confirmations(D.rows, q.offer) = {} THEN HoldingRun(D, q.char)
    ELSE IF done.pick = q.pick THEN Replayed(D, done.run) ELSE <<>>

\* What an operation names is looked for before anything is locked.
Found(D, q) ==
    /\ q.op = "confirm" => OfferFound(D.rows, q)
    /\ q.op \in DOMAIN StepKind => q.run \in NativeRuns(D)

\* Mutant: the run is locked before its character.
StepLocksRunFirst(D, q) ==
    <<RunLock(q.run), CharacterLock(Run(D.rows, q.run).char), SessionLock(q.session)>>

\* An operation on a run locks the character that is bound to it, then the run.
StepLocks(D, q) ==
    <<CharacterLock(Run(D.rows, q.run).char), RunLock(q.run), SessionLock(q.session)>>

\* Mutant: a turn reads and writes its session without the session's lock.
LockOrderWithoutTurn(D, q) ==
    IF ~Found(D, q) THEN <<>>
    ELSE CASE q.op = "create" -> <<ControllerLock(q.who)>>
           [] q.op \in {"enter", "admit"} -> <<CharacterLock(q.char)>> \o EntryLocks(D, q)
           [] q.op = "confirm" -> <<CharacterLock(q.char)>> \o OpeningLocks(D, q)
           [] q.op \in {"mutate", "prepare"} -> <<CharacterLock(q.char)>> \o HoldingRun(D, q.char)
           [] q.op \in DOMAIN StepKind -> StepLocks(D, q)
           [] q.op \in {"prepare_job", "finish"} -> <<SessionLock(q.session)>>
           [] OTHER -> <<>>

\* The locks of a unit of work, in the order it asks for them.
LockOrder(D, q) ==
    IF ~Found(D, q) THEN <<>>
    ELSE CASE q.op = "create" -> <<ControllerLock(q.who)>>
           [] q.op \in {"enter", "admit"} -> <<CharacterLock(q.char)>> \o EntryLocks(D, q)
           [] q.op = "confirm" -> <<CharacterLock(q.char)>> \o OpeningLocks(D, q)
           [] q.op \in {"mutate", "prepare"} -> <<CharacterLock(q.char)>> \o HoldingRun(D, q.char)
           [] q.op \in DOMAIN StepKind -> StepLocks(D, q)
           [] q.op \in {"turn", "prepare_job", "finish"} -> <<SessionLock(q.session)>>
           [] OTHER -> <<>>

\* What is not yet held of them, and the lock that is asked for next.
Missing(D, q, held) ==
    LET order == LockOrder(D, q) IN {k \in DOMAIN order : order[k] \notin held}
NextLock(D, q, held) ==
    LockOrder(D, q)[CHOOSE k \in Missing(D, q, held) : \A j \in Missing(D, q, held) : k <= j]

HeldBy(t) == task[t].held
HeldByOthers(t) == UNION {HeldBy(u) : u \in Tasks \ {t}}

-----------------------------------------------------------------------------
(* A unit of work                                                          *)

Idle == [pc |-> "idle", q |-> [op |-> "none"], held |-> {}, staged |-> Empty, result |-> <<>>,
         object |-> None, read |-> None, code |-> "none"]

\* A process starts without runs and sessions, at most with players and their characters,
\* and these are whole.
ASSUME SeedAssumption ==
    /\ Seed = [rows |-> Seed.rows, sess |-> <<>>, snap |-> <<>>, position |-> <<>>, jobs |-> {},
               progress |-> <<>>]
    /\ IsFiniteSet(Seed.rows)
    /\ \A row \in Seed.rows : row.table \in {"binding", "revision", "creation_receipt"}
    /\ \A row \in Table(Seed.rows, "binding") : row = Binding(row.who)
    /\ FamiliesAreWhole(Seed) /\ SchemaHolds(Seed)

Init ==
    /\ store = Seed
    /\ script \in Scripts
    /\ task = [t \in Tasks |-> Idle]
    /\ cancels = 0

\* Identities are random; the least unused one stands for any other.
Named(rows) ==
    UNION {{row.char : row \in Table(rows, "revision")}, {row.run : row \in Table(rows, "run")},
           {row.session : row \in Table(rows, "session")},
           {row.offer : row \in Table(rows, "offer")}}
Fresh == LET used == UNION {Named(rows) : rows \in {store.rows} \cup {task[t].staged.rows : t \in Tasks}}
         IN CHOOSE n \in 1..(Cardinality(used) + 1) :
                n \notin used /\ \A m \in 1..(n - 1) : m \in used

\* What the client has seen: the newest run of the character, where that run is,
\* and how far; or the newest session outside any run.
Aim(D, q) ==
    LET runs == {row.run : row \in {m \in Table(D.rows, "run") : m.char = q.char}}
        loose == {s \in DOMAIN D.sess : Outside(D, s)}
        r == IF runs = {} THEN None ELSE Max(runs)
        s == IF q.world = "outside" THEN (IF loose = {} THEN None ELSE Max(loose))
             ELSE IF r = None THEN None ELSE Current(D.rows, r)
    IN [q EXCEPT !.run = r, !.session = s,
                 !.version = IF r = None THEN None ELSE Run(D.rows, r).version,
                 !.seen = IF s = None THEN None ELSE D.sess[s]]

Begin(t) ==
    /\ task[t].pc = "idle"
    /\ script[t] # <<>>
    /\ task' = [task EXCEPT ![t] = [Idle EXCEPT !.pc = "lock", !.q = Aim(store, Head(script[t]))]]
    /\ script' = [script EXCEPT ![t] = Tail(@)]
    /\ UNCHANGED <<store, cancels>>

\* asyncio's locks are waited for without a limit.
Acquire(t) ==
    LET next == NextLock(store, task[t].q, HeldBy(t)) IN
    /\ task[t].pc \in {"lock", "recover"}
    /\ Missing(store, task[t].q, HeldBy(t)) # {}
    /\ next \notin HeldByOthers(t)
    /\ task' = [task EXCEPT ![t].held = @ \cup {next}]
    /\ UNCHANGED <<store, script, cancels>>

Verdict(D, q, t) ==
    CASE q.op = "create" -> Lift(Registering(D.rows, q, CreateVerdict(D.rows, q, Fresh)))
      [] q.op = "mutate" -> Lift(MutateVerdict(D.rows, D.rows, q))
      [] q.op \in {"enter", "admit"} -> Lift(EnterVerdict(D.rows, D.rows, q, Fresh, Fresh))
      [] q.op = "prepare" -> Lift(PrepareVerdict(D.rows, D.rows, q, Fresh))
      [] q.op = "confirm" ->
            IF ~OfferFound(D.rows, q) THEN Deny("PLAYER_CHARACTER_NOT_FOUND")
            ELSE Lift(ConfirmVerdict(D.rows, D.rows, q, Fresh, Fresh))
      [] q.op = "create_session" -> Lift(CreateSessionVerdict(D.rows, q, Fresh))
      [] q.op = "turn" -> TurnVerdict(D, q)
      [] q.op = "prepare_job" -> PrepareJobVerdict(D, q)
      [] q.op = "claim" -> ClaimVerdict(D, q, t)
      [] q.op = "propose" -> ProposeVerdict(D, q, t)
      [] q.op = "expire" -> ExpireVerdict(D, q)
      [] q.op = "finish" -> FinishVerdict(D, q, t)
      [] OTHER -> StepVerdict(D, q, Fresh)

\* The services of native runs have the unit of work of native admission.
NativeWriter(q) == q.op \in {"admit", "prepare", "confirm"} \cup DOMAIN StepKind

\* Rolling back puts back the version that staging raised in the caller's session object;
\* an object whose version nothing raised it leaves alone.
RolledBack(t) == IF task[t].staged.saved = <<>> THEN task[t].object ELSE task[t].read

\* Leaving drops what is staged and releases every lock.
Leave(t, code, result, object) ==
    task' = [task EXCEPT ![t].pc = "idle", ![t].held = {}, ![t].staged = Empty,
                         ![t].code = code, ![t].result = result, ![t].object = object]

\* The caller's object of the session it changes.
ReadVersion(D, q) == IF q.session \in DOMAIN D.sess THEN D.sess[q.session] ELSE None
Raised(v, before) ==
    IF v.staged.saved = <<>> THEN before
    ELSE (CHOOSE image \in {v.staged.saved[s] : s \in DOMAIN v.staged.saved} : TRUE).version

Work(t) ==
    LET q == task[t].q
        v == Verdict(store, q, t)
        read == ReadVersion(store, q)
    IN
    /\ task[t].pc = "lock"
    /\ Missing(store, q, HeldBy(t)) = {}
    /\ IF v.staged = Empty \/ ~Stageable(store.rows, v.staged.rows, NativeWriter(q))
       THEN task' = [task EXCEPT ![t].pc = "idle", ![t].held = {},
                                 ![t].code = IF v.staged = Empty THEN v.code ELSE "UNSTAGED",
                                 ![t].result = v.result, ![t].read = read, ![t].object = read]
       ELSE task' = [task EXCEPT ![t].pc = "staged", ![t].staged = v.staged, ![t].result = v.result,
                                 ![t].read = read, ![t].object = Raised(v, read)]
    /\ UNCHANGED <<store, script, cancels>>

\* What was made under the same request meanwhile is looked up, in a unit of work of its
\* own: the session of a creation, the run of an admission.
Publish(t) ==
    LET why == Objection(store, task[t].staged)
        lookup == \/ why = "SESSION_EXISTS" /\ task[t].q.op = "create_session"
                  \/ why \in {"SESSION_EXISTS", "CONFLICT"} /\ task[t].q.op = "admit"
    IN
    /\ task[t].pc = "staged"
    /\ \/ /\ why = "none"
          /\ store' = Merge(store, task[t].staged)
          /\ Leave(t, "ok", task[t].result, task[t].object)
       \/ /\ lookup
          /\ task' = [task EXCEPT ![t].pc = "recover", ![t].held = {}, ![t].staged = Empty,
                                 ![t].object = RolledBack(t)]
          /\ UNCHANGED store
       \/ /\ why # "none" /\ ~lookup
          /\ Leave(t, why, <<>>, RolledBack(t))
          /\ UNCHANGED store
    /\ UNCHANGED <<script, cancels>>

RecoveryVerdict(S, q) ==
    IF q.op = "create_session" THEN CreateSessionVerdict(S, q, None)
    ELSE IF ~Owned(S, q) THEN Refuse("AUTHORIZATION_FAILED")
    ELSE IF RunCreations(S, Op(q)) = {} THEN Refuse("RUN_ENTRY_CONFLICT")
    ELSE EntryReplay(S, Op(q), q, CHOOSE row \in RunCreations(S, Op(q)) : TRUE)

Recover(t) ==
    LET v == RecoveryVerdict(store.rows, task[t].q) IN
    /\ task[t].pc = "recover"
    /\ Missing(store, task[t].q, HeldBy(t)) = {}
    /\ Leave(t, v.code, v.result, RolledBack(t))
    /\ UNCHANGED <<store, script, cancels>>

Cancel(t) ==
    /\ task[t].pc # "idle"
    /\ cancels < MaxCancels
    /\ cancels' = cancels + 1
    /\ Leave(t, "CANCELLED", <<>>, RolledBack(t))
    /\ UNCHANGED <<store, script>>

Finished == (\A t \in Tasks : task[t].pc = "idle" /\ script[t] = <<>>) /\ UNCHANGED vars

Next ==
    \/ Finished
    \/ \E t \in Tasks :
          Begin(t) \/ Acquire(t) \/ Work(t) \/ Publish(t) \/ Recover(t) \/ Cancel(t)

Spec == Init /\ [][Next]_vars

-----------------------------------------------------------------------------
(* Properties                                                              *)

NumberedFromOne(numbers) == numbers = 1..Cardinality(numbers)

\* What the maps say of one session agrees, although a turn writes five of them
\* and a job outlives several units of work: as many events and kept responses
\* as turns, a snapshot of the same version, no job but of the version the
\* session is at and of the place where its run is, and provider progress for
\* every job that was committed.
SessionAgrees(s) ==
    LET events == {row.seq : row \in {e \in Table(store.rows, "event") : e.session = s}}
        kept == {row \in Table(store.rows, "turn") : row.session = s}
        committed == {j \in store.jobs : j.session = s /\ j.status = "COMMITTED"}
    IN
    /\ store.snap[s].version = store.sess[s]
    /\ NumberedFromOne(events) /\ Cardinality(events) = store.sess[s] + 1
    /\ Cardinality(kept) >= store.sess[s]
    /\ store.progress[s] = IF Outside(store, s) THEN Cardinality(committed) ELSE 0
    /\ \A j \in ActiveJobs(store, s) :
          ActiveJobs(store, s) = {j} /\ j.version = store.sess[s] /\ Playing(store, s)

\* Whatever units of work overlap, fail or are cancelled, the published maps are
\* of one moment: each session's maps agree, no session is without a snapshot,
\* and the durable tables would take every row.
StoreIsWhole ==
    /\ {row.session : row \in Table(store.rows, "session")} = DOMAIN store.sess
    /\ DOMAIN store.snap = DOMAIN store.sess /\ DOMAIN store.progress = DOMAIN store.sess
    /\ \A s \in DOMAIN store.sess : SessionAgrees(s)
    /\ SchemaHolds(store)

Waits(t) ==
    IF \/ task[t].pc \notin {"lock", "recover"}
       \/ Missing(store, task[t].q, HeldBy(t)) = {}
    THEN {} ELSE {NextLock(store, task[t].q, HeldBy(t))}

\* Nobody would ever break a circle: the locks have no timeout.
NobodyWaitsInACircle ==
    \A circle \in SUBSET Tasks :
        circle # {} =>
            \E t \in circle : \A u \in circle \ {t} : Waits(t) \cap HeldBy(u) = {}

\* Nobody changes a session, its responses or its committed job while a unit of work holds the
\* session's lock: what a turn or a finished job stages is never found to be of a version, a
\* request or a job that is past. Only the workers of a job, who lock nothing, meet its fence.
SessionsAreUncontended ==
    \A t \in Tasks :
        /\ task[t].code \notin {"STALE", "TURN_EXISTS"}
        /\ task[t].code = "FENCED" => task[t].q.op \in {"claim", "propose", "expire"}

\* The publication check finds fault with rows only where no lock is meant to keep the
\* writers apart: two creations under one request, of a session or, for two characters, of
\* a run or an opening, the second of which is answered with what the first made (the
\* older entry and the opening fail).
OnlyCreationsCollide ==
    \A t \in Tasks :
        /\ task[t].code # "CONFLICT"
        /\ task[t].code = "DUPLICATE_OPENING" => task[t].q.op = "prepare"
        /\ task[t].code = "SESSION_EXISTS" => task[t].q.op = "enter"
        /\ task[t].pc = "recover" => SessionsOf(store.rows, Op(task[t].q)) # {}

\* The locks are enough: units of work that hold theirs publish what is whole, find a
\* session as they read it, and write rows that only another creation wrote before.
LocksSuffice == StoreIsWhole /\ SessionsAreUncontended /\ OnlyCreationsCollide

\* Every family of rows a unit of work reads, stages or publishes is whole when it is read
\* back, and no service stages rows the repositories were not given the parents of: a
\* mismatch of either kind would fail a legal call for good, with no retry that helps.
EverythingReadsBack ==
    \A t \in Tasks : task[t].code \notin {"UNSTAGED", "INTEGRITY"}

\* A caller whose unit of work did not commit is left with the session as it was.
ObjectsAreRestored ==
    \A t \in Tasks :
        task[t].pc = "idle" /\ task[t].code # "ok" => task[t].object = task[t].read

\* The locks are no trap: whatever asks for them, units of work never wait for each
\* other in a circle, and one that fails or is cancelled leaves no trace in the
\* objects its caller holds.
LocksAreNoTrap == NobodyWaitsInACircle /\ ObjectsAreRestored
=============================================================================
